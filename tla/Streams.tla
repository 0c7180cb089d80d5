------------------------------- MODULE Streams -------------------------------
(***************************************************************************)
(* The TCP connections between the clients of mp0 or mp1 and their server, *)
(* as the programs see them through accept, send, recv and close: streams  *)
(* that keep no boundaries.  A stream is a sequence of symbols: bytes of   *)
(* the file, or pieces of a head that recv may cut apart.                  *)
(***************************************************************************)
EXTENDS Naturals, FiniteSets, SequencesExt

CONSTANTS Conns,     \* the connections, one for each run of a client
          MaxFaults  \* bound on forks that fail and clients that are killed

ASSUME StreamsAssumption == MaxFaults \in Nat

VARIABLES client,    \* how far the client is
          backlog,   \* connections that wait for accept
          holders,   \* who holds a descriptor of the server's end: "backlog", "parent", "child"
          toServer, toClient,   \* what is sent and not yet received
          reset,     \* whether the server's end was closed on data it had not read
          faults

streamVars == <<client, backlog, holders, toServer, toClient, reset, faults>>

StreamsInit ==
    /\ client = [c \in Conns |-> "new"]
    /\ backlog = << >> /\ faults = 0
    /\ holders = [c \in Conns |-> {}]
    /\ toServer = [c \in Conns |-> << >>] /\ toClient = [c \in Conns |-> << >>]
    /\ reset = [c \in Conns |-> FALSE]

Fault == faults < MaxFaults /\ faults' = faults + 1

\* The client's end is closed.
Gone(c) == client[c] \in {"done", "crashed", "dead"}

\* recv has no more data for the client, ever.
Ended(c) == holders[c] = {} /\ (toClient[c] = << >> \/ reset[c])

\* One descriptor of the server's end is closed.  The last one to close ends the
\* stream, and resets it if there is data left to be read.
Close(c, who) ==
    /\ holders' = [holders EXCEPT ![c] = @ \ {who}]
    /\ reset' = [reset EXCEPT ![c] = @ \/ (holders[c] = {who} /\ toServer[c] # << >>)]

\* recv returns some of the data that waits: the first n symbols of the stream.
Cuts(stream) == 1 .. Len(stream)
Taken(stream, n) == SubSeq(stream, 1, n)
Left(stream, n) == SubSeq(stream, n + 1, Len(stream))

-----------------------------------------------------------------------------
\* C strings end at the first NUL, whatever the length of the buffer.
UpToNul(s) == LET i == SelectInSeq(s, LAMBDA x : x = "NUL")
              IN  IF i = 0 THEN s ELSE SubSeq(s, 1, i - 1)

\* What comes behind the first occurrence of the symbol.
Behind(s, symbol) == Left(s, SelectInSeq(s, LAMBDA x : x = symbol))
=============================================================================
