---------------------------- MODULE HttpExchange ----------------------------
(***************************************************************************)
(* A connection of mp1: the child of http_server that reads one request    *)
(* and sends the file, and http_client, which writes what it receives to   *)
(* its output file.  http_client asks with GET; the server answers any     *)
(* client, also one that asks otherwise and then receives as http_client.  *)
(***************************************************************************)
EXTENDS ForkServer

CONSTANTS MAXDATASIZE,   \* the bytes http_server reads of the file at a time
          ClientBuffer   \* the symbols that fit into the buffer of http_client

\* The head of an answer fits.
ASSUME BlockAssumption == MAXDATASIZE \in Nat \ {0} /\ ClientBuffer \in Nat /\ ClientBuffer > 1

VARIABLES program,   \* "mp0" or "mp1"
          method,    \* what the request of mp1 begins with: "GET" or another method
          file,      \* [exists, bytes]: what is served
          asked,     \* how many symbols of the request the child has read
          output,    \* what the client has written of what recv returned
          stray      \* whether it has also written bytes that no recv returned

exchangeVars == <<program, method, file, asked, output, stray>>

\* The request: what recv must return for its method to be cut, for its path to be
\* cut, and for its path to be whole; the fourth symbol is its other lines.
Request == <<"letter", "method /", "path ", "lines">>

OK == <<"200", "END">>
NotFound == <<"404", "END">>
BadRequest == <<"400", "END">>

\* A short read taken for the end of the file.
Blocks_FullOnly(bytes) ==
    [i \in 1 .. Len(bytes) \div MAXDATASIZE |->
        SubSeq(bytes, (i - 1) * MAXDATASIZE + 1, i * MAXDATASIZE)]

\* What the loop to feof sends: full blocks, then what remains, if anything does.
Blocks(bytes) ==
    [i \in 1 .. (Len(bytes) + MAXDATASIZE - 1) \div MAXDATASIZE |->
        SubSeq(bytes, (i - 1) * MAXDATASIZE + 1, Min({i * MAXDATASIZE, Len(bytes)}))]

\* The sends for a request of which n symbols were read.  After a 400 the child
\* goes on; behind a cut path lies what was in the buffer, no file's name.
Replies(n) ==
    (IF n < 2 \/ method # "GET" THEN <<BadRequest>> ELSE << >>) \o
    (IF n < 3 \/ ~file.exists THEN <<NotFound>> ELSE <<OK>> \o Blocks(file.bytes))

-----------------------------------------------------------------------------
(* The child. *)

\* Its only recv.
ReadRequest(c) == \E n \in Cuts(toServer[c]) :
    /\ program = "mp1" /\ child[c] = "started"
    /\ child' = [child EXCEPT ![c] = "replying"]
    /\ asked' = [asked EXCEPT ![c] = n]
    /\ toServer' = [toServer EXCEPT ![c] = Left(@, n)]
    /\ out' = [out EXCEPT ![c] = Replies(n)]
    /\ UNCHANGED <<client, backlog, holders, toClient, reset, faults,
                   server, p, sockets, newFd, pending, handling, program, method, file, output, stray>>

\* recv returns 0 or -1.
NoRequest(c) ==
    /\ program = "mp1" /\ child[c] = "started" /\ Gone(c)
    /\ child' = [child EXCEPT ![c] = "replying"]
    /\ UNCHANGED <<streamVars, server, p, sockets, newFd, out, pending, handling, exchangeVars>>

-----------------------------------------------------------------------------
(* The client. *)

\* To an end that is closed already, the request is answered by a reset.
SendRequest(c) ==
    /\ program = "mp1" /\ client[c] = "connected"
    /\ client' = [client EXCEPT ![c] = "first"]
    /\ IF holders[c] = {} THEN /\ reset' = [reset EXCEPT ![c] = TRUE]
                               /\ toServer' = toServer
       ELSE toServer' = [toServer EXCEPT ![c] = Request] /\ reset' = reset
    /\ UNCHANGED <<backlog, holders, toClient, faults, serverVars, exchangeVars>>

\* The buffer is cleared before each recv, so a NUL follows what is received unless
\* that fills the buffer.  Then what lies behind the buffer is written too, up to
\* a NUL, which may follow at once.
Unended(buf) == Len(buf) = ClientBuffer /\ ~Contains(buf, "NUL")

Overrun(c, buf) ==
    \E more \in BOOLEAN : (more => Unended(buf)) /\ stray' = [stray EXCEPT ![c] = @ \/ more]

\* The first recv looks for the end of the head.  If that is not in the buffer,
\* strstr returns NULL, and the client reads from address 4.
ReceiveHead(c) == \E n \in Cuts(toClient[c]) :
    LET buf == Taken(toClient[c], n)
    IN  /\ program = "mp1" /\ client[c] = "first" /\ n <= ClientBuffer
        /\ IF Contains(buf, "END")
           THEN /\ client' = [client EXCEPT ![c] = "more"]
                /\ output' = [output EXCEPT ![c] = UpToNul(Behind(buf, "END"))]
                /\ Overrun(c, buf)
           ELSE client' = [client EXCEPT ![c] = "crashed"] /\ UNCHANGED <<output, stray>>
        /\ toClient' = [toClient EXCEPT ![c] = Left(@, n)]
        /\ UNCHANGED <<backlog, holders, toServer, reset, faults, serverVars,
                       program, method, file, asked>>

\* No head: the output file is closed here and once more behind the loop, which
\* the C library need not survive.
NoHead(c) ==
    /\ program = "mp1" /\ client[c] = "first" /\ Ended(c)
    /\ \E end \in {"done", "crashed"} : client' = [client EXCEPT ![c] = end]
    /\ UNCHANGED <<backlog, holders, toServer, toClient, reset, faults, serverVars, exchangeVars>>

\* fprintf writes the buffer up to its first NUL over what was written so far.
Written_Over(old, buf) == UpToNul(buf)

\* fprintf writes the buffer up to its first NUL.
Written(old, buf) == old \o UpToNul(buf)

ReceiveMore(c) == \E n \in Cuts(toClient[c]) :
    /\ program = "mp1" /\ client[c] = "more" /\ n <= ClientBuffer
    /\ output' = [output EXCEPT ![c] = Written(@, Taken(toClient[c], n))]
    /\ Overrun(c, Taken(toClient[c], n))
    /\ toClient' = [toClient EXCEPT ![c] = Left(@, n)]
    /\ UNCHANGED <<client, backlog, holders, toServer, reset, faults, serverVars,
                   program, method, file, asked>>

\* recv returns 0 or, after a reset, -1: both end the loop.
ReceiveEnd(c) ==
    /\ program = "mp1" /\ client[c] = "more" /\ Ended(c)
    /\ client' = [client EXCEPT ![c] = "done"]
    /\ UNCHANGED <<backlog, holders, toServer, toClient, reset, faults, serverVars, exchangeVars>>

HttpChild(c) == ReadRequest(c) \/ NoRequest(c)
HttpClient(c) == SendRequest(c) \/ ReceiveHead(c) \/ NoHead(c) \/ ReceiveMore(c) \/ ReceiveEnd(c)
=============================================================================
