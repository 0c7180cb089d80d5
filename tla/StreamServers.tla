---------------------------- MODULE StreamServers ----------------------------
(***************************************************************************)
(* The forking servers of mp0 and mp1 and their clients.  The two programs *)
(* share the server's parent (ForkServer); this module adds the exchange   *)
(* of mp0 to that of mp1 (HttpExchange) and the runs of the clients.       *)
(***************************************************************************)
EXTENDS HttpExchange

CONSTANT Contents   \* what the served file may hold

ASSUME ContentsAssumption == \A bytes \in Contents : bytes \in Seq(ToSet(bytes))

\* The server of mp0 does not start without its file, and is asked nothing.
Init ==
    /\ StreamsInit /\ ServerInit
    /\ program \in {"mp0", "mp1"}
    /\ file \in [exists : {TRUE}, bytes : Contents] \cup [exists : {FALSE}, bytes : {<< >>}]
    /\ method \in {"GET", "POST"}
    /\ program = "mp0" => file.exists /\ method = "GET"
    /\ asked = [c \in Conns |-> 0] /\ output = [c \in Conns |-> << >>]
    /\ stray = [c \in Conns |-> FALSE]

vars == <<streamVars, serverVars, exchangeVars>>

-----------------------------------------------------------------------------
(* Clients come and go. *)

Listening == server \notin {"binding", "exited"}

\* Some address answers.  The client of mp0 goes right to its recv.
Connect(c) ==
    /\ client[c] = "new" /\ Listening
    /\ client' = [client EXCEPT ![c] = IF program = "mp0" THEN "first" ELSE "connected"]
    /\ backlog' = Append(backlog, c)
    /\ holders' = [holders EXCEPT ![c] = {"backlog"}]
    /\ UNCHANGED <<toServer, toClient, reset, faults, serverVars, exchangeVars>>

\* None does.
FailToConnect(c) ==
    /\ client[c] = "new" /\ ~Listening
    /\ client' = [client EXCEPT ![c] = "refused"]
    /\ UNCHANGED <<backlog, holders, toServer, toClient, reset, faults, serverVars, exchangeVars>>

\* The user ends the client.
Kill(c) ==
    /\ client[c] \in {"connected", "first", "more"} /\ Fault
    /\ client' = [client EXCEPT ![c] = "dead"]
    /\ UNCHANGED <<backlog, holders, toServer, toClient, reset, serverVars, exchangeVars>>

-----------------------------------------------------------------------------
(* The exchange of mp0. *)

\* Built when the server starts, as one string: the length, three newlines, and
\* the file, which as a string ends at its first NUL.
result == <<"length", "NL", "NL", "NL">> \o UpToNul(file.bytes)

\* The child sends it in one call.
StartReply(c) ==
    /\ program = "mp0" /\ child[c] = "started"
    /\ child' = [child EXCEPT ![c] = "replying"]
    /\ out' = [out EXCEPT ![c] = <<result>>]
    /\ UNCHANGED <<streamVars, server, p, sockets, newFd, pending, handling, exchangeVars>>

\* From behind the newline that is still to come.
PrintedFrom_Third(buf) == SelectInSeq(buf, LAMBDA x : x = "NL") + 3

\* The client looks for one newline, and prints from two bytes behind its place.
PrintedFrom(buf) == SelectInSeq(buf, LAMBDA x : x = "NL") + 2

\* Without a newline in the buffer strchr returns NULL, and the client prints from a
\* distance of the buffer that depends on where that lies: what is there, or
\* nothing, or it does not survive.
PrintAnywhere(c) ==
    /\ \/ client' = [client EXCEPT ![c] = "crashed"] /\ stray' = stray
       \/ /\ client' = [client EXCEPT ![c] = "done"]
          /\ \E more \in BOOLEAN : stray' = [stray EXCEPT ![c] = more]
    /\ output' = output

\* The client's only recv, and a NUL put behind what it returns.  If the first
\* newline is the last byte received, the client prints from behind that NUL, where
\* the buffer was never written.
ReceiveOnce(c) == \E n \in Cuts(toClient[c]) :
    LET buf == Taken(toClient[c], n)
        from == PrintedFrom(buf)
    IN  /\ program = "mp0" /\ client[c] = "first"
        /\ IF Contains(buf, "NL")
           THEN /\ client' = [client EXCEPT ![c] = "done"]
                /\ output' = [output EXCEPT ![c] = SubSeq(buf, from, n)]
                /\ \E more \in BOOLEAN : (more => from > n + 1) /\ stray' = [stray EXCEPT ![c] = more]
           ELSE PrintAnywhere(c)
        /\ toClient' = [toClient EXCEPT ![c] = Left(@, n)]
        /\ UNCHANGED <<backlog, holders, toServer, reset, faults, serverVars,
                       program, method, file, asked>>

\* recv returns 0, which is a buffer without a newline.
ReceiveNothing(c) ==
    /\ program = "mp0" /\ client[c] = "first" /\ Ended(c)
    /\ PrintAnywhere(c)
    /\ UNCHANGED <<backlog, holders, toServer, toClient, reset, faults, serverVars,
                   program, method, file, asked>>

-----------------------------------------------------------------------------
Server == (Parent \/ Handler) /\ UNCHANGED exchangeVars

Child(c) == \/ HttpChild(c) \/ StartReply(c)
            \/ (ChildSend(c) \/ ChildExit(c)) /\ UNCHANGED exchangeVars

Client(c) == HttpClient(c) \/ ReceiveOnce(c) \/ ReceiveNothing(c)

Processes == Server \/ \E c \in Conns : Child(c) \/ Client(c)

Next == Processes \/ \E c \in Conns : Connect(c) \/ FailToConnect(c) \/ Kill(c)

Spec == Init /\ [][Next]_vars

\* While a process can go on, one of them does.  No client need come.  (It is not
\* assumed of each process: none can go on for ever and keep the others waiting.)
FairSpec == Spec /\ WF_vars(Processes)

-----------------------------------------------------------------------------
(***************************************************************************)
(* Properties                                                              *)
(***************************************************************************)
Symbols == {"200", "400", "404", "length"} \cup ToSet(Request)
           \cup {"END", "NL"} \cup (UNION {ToSet(bytes) : bytes \in Contents})

\* The type of every variable that changes after Init.
TypeOK ==
    /\ client \in [Conns -> {"new", "connected", "first", "more", "done", "crashed", "dead", "refused"}]
    /\ backlog \in Seq(Conns) /\ faults \in 0 .. MaxFaults
    /\ holders \in [Conns -> SUBSET {"backlog", "parent", "child"}]
    /\ toServer \in [Conns -> Seq(Symbols)] /\ toClient \in [Conns -> Seq(Symbols)]
    /\ reset \in [Conns -> BOOLEAN]
    /\ server \in {"binding", "accepting", "forking", "closing", "exited"}
    /\ p \in 0 .. Addresses + 1 /\ sockets \in 0 .. 1
    /\ newFd \in SUBSET Conns /\ Cardinality(newFd) <= 1
    /\ child \in [Conns -> {"none", "started", "replying", "zombie", "reaped"}]
    /\ out \in [Conns -> Seq(Seq(Symbols))]
    /\ pending \in BOOLEAN /\ handling \in BOOLEAN
    /\ asked \in [Conns -> 0 .. Len(Request)] /\ output \in [Conns -> Seq(Symbols)]
    /\ stray \in [Conns -> BOOLEAN]

\* One SIGCHLD may stand for several children (line 28 of http_server.cpp loops
\* for that): a child that has exited is always waited for by a handler that
\* runs or will run, also if it exits while one is about to return.
ZombiesNoticed == Zombies # {} => pending \/ handling

NulFree == ~Contains(file.bytes, "NUL")

\* s is t with some of its symbols left out.
SubSequence(s, t) ==
    \E at \in [DOMAIN s -> DOMAIN t] :
        /\ \A i \in DOMAIN s : s[i] = t[at[i]]
        /\ \A i, j \in DOMAIN s : i < j => at[i] < at[j]

\* What a child that has read n symbols of the request answers, but for a 400.
Answer(n) == IF n < 3 \/ ~file.exists THEN NotFound ELSE OK \o file.bytes

\* What a client should write: what follows the two newlines of mp0, and of mp1 what
\* follows the first head.
Expected(c) ==
    IF program = "mp0" THEN Left(result, 3)
    ELSE IF asked[c] < 2 \/ method # "GET" THEN Answer(asked[c])
    ELSE Left(Answer(asked[c]), 2)

\* Of what recv returns the client writes what belongs to the answer, each byte once
\* and in order, wherever recv cuts the stream and whoever is killed; if the file
\* has no NULs it leaves nothing out before what it has.
OutputInOrder ==
    \A c \in Conns :
        /\ SubSequence(output[c], Expected(c))
        /\ NulFree => IsPrefix(output[c], Expected(c))

\* A client writes bytes that were never sent to it only if, in mp0, it was cut off
\* within the first newline or before, or had no child to answer it, and if, in mp1,
\* the answer can fill its buffer.
StrayExplained ==
    \A c \in Conns : stray[c] =>
        IF program = "mp0" THEN child[c] = "none" \/ Len(toClient[c]) + 2 >= Len(result)
        ELSE 2 + Len(Expected(c)) >= ClientBuffer

\* A client that came to its end has written the whole answer, if the file has no
\* NULs: in mp0 if a child answered and its one recv returned everything, in mp1 if
\* the child has read all of the request (data that is left unread resets the
\* connection, and the client takes a reset for the end of the file).
WholeFile ==
    \A c \in Conns :
        /\ client[c] = "done" /\ NulFree
        /\ IF program = "mp0" THEN child[c] # "none" /\ toClient[c] = << >>
           ELSE asked[c] = Len(Request)
        => output[c] = Expected(c)

\* Every connection comes to an end: the client's recv sees it, neither the parent
\* nor a child holds a descriptor of it, and the child has been waited for.
Over(c) == /\ client[c] \in {"done", "crashed", "dead"}
           /\ holders[c] = {} /\ child[c] \in {"none", "reaped"}

ConnectionsEnd == []<>(\A c \in Conns : client[c] \in {"new", "refused"} \/ Over(c))
=============================================================================
