----------------------------- MODULE ForkServer -----------------------------
(***************************************************************************)
(* What http_server of mp1 and server of mp0 have in common: the socket    *)
(* they listen on, a child for each connection, and the handler that waits *)
(* for children that have exited.                                          *)
(***************************************************************************)
EXTENDS Streams

CONSTANT Addresses   \* how many addresses getaddrinfo finds

ASSUME ServerAssumption == Addresses \in Nat

VARIABLES server,    \* "binding", "accepting", "forking", "closing" or "exited"
          p, sockets,         \* the address tried (0 when they are freed), and the listening sockets open
          newFd,              \* {} or the connection the parent has accepted
          child, out,         \* of each connection: how far its child is, and what it is still to send
          pending, handling   \* a SIGCHLD has not been delivered; its handler runs

serverVars == <<server, p, sockets, newFd, child, out, pending, handling>>

ServerInit ==
    /\ server = "binding" /\ p = 1 /\ sockets = 0 /\ newFd = {}
    /\ child = [c \in Conns |-> "none"] /\ out = [c \in Conns |-> << >>]
    /\ pending = FALSE /\ handling = FALSE

-----------------------------------------------------------------------------
\* The socket that could not be bound stays open.
BindFails_NoClose == server' = server /\ p' = p + 1 /\ sockets' = sockets + 1

BindFails == server' = server /\ p' = p + 1 /\ sockets' = sockets

\* One iteration over the addresses: no socket, a socket that cannot be bound, or
\* one that can, which ends the loop.  setsockopt, listen and sigaction may fail
\* and end the program.
TryAddress ==
    /\ server = "binding" /\ p <= Addresses
    /\ \/ p' = p + 1 /\ UNCHANGED <<server, sockets>>
       \/ BindFails
       \/ server' = "accepting" /\ sockets' = sockets + 1 /\ p' = 0
       \/ server' = "exited" /\ sockets' = 0 /\ p' = p
    /\ UNCHANGED <<streamVars, newFd, child, out, pending, handling>>

FailToBind ==
    /\ server = "binding" /\ p > Addresses
    /\ server' = "exited" /\ sockets' = 0
    /\ UNCHANGED <<streamVars, p, newFd, child, out, pending, handling>>

-----------------------------------------------------------------------------
\* The parent does nothing else while it runs the handler.
Accept ==
    /\ server = "accepting" /\ ~handling /\ backlog # << >>
    /\ server' = "forking"
    /\ newFd' = {Head(backlog)} /\ backlog' = Tail(backlog)
    /\ holders' = [holders EXCEPT ![Head(backlog)] = {"parent"}]
    /\ UNCHANGED <<client, toServer, toClient, reset, faults, p, sockets, child, out, pending, handling>>

\* The child starts with a copy of the descriptor.
Fork == \E c \in newFd :
    /\ server = "forking" /\ ~handling
    /\ server' = "closing"
    /\ child' = [child EXCEPT ![c] = "started"]
    /\ holders' = [holders EXCEPT ![c] = @ \cup {"child"}]
    /\ UNCHANGED <<client, backlog, toServer, toClient, reset, faults, p, sockets, newFd, out, pending, handling>>

\* fork returns -1, which the parent takes for the number of a child.
ForkFails ==
    /\ server = "forking" /\ ~handling /\ Fault
    /\ server' = "closing"
    /\ UNCHANGED <<client, backlog, holders, toServer, toClient, reset,
                   p, sockets, newFd, child, out, pending, handling>>

\* The parent goes on to the next connection with the descriptor open.
ParentClose_Kept == \E c \in newFd :
    /\ server = "closing" /\ ~handling
    /\ server' = "accepting" /\ newFd' = {}
    /\ UNCHANGED <<streamVars, p, sockets, child, out, pending, handling>>

ParentClose == \E c \in newFd :
    /\ server = "closing" /\ ~handling
    /\ server' = "accepting" /\ newFd' = {}
    /\ Close(c, "parent")
    /\ UNCHANGED <<client, backlog, toServer, toClient, faults, p, sockets, child, out, pending, handling>>

-----------------------------------------------------------------------------
\* SIGCHLD is delivered; while the handler runs the next one is held back, and all
\* that come by then are one.
Signal ==
    /\ pending /\ ~handling
    /\ pending' = FALSE /\ handling' = TRUE
    /\ UNCHANGED <<streamVars, server, p, sockets, newFd, child, out>>

Zombies == {c \in Conns : child[c] = "zombie"}

\* One child for each signal.
Reap_One ==
    /\ handling /\ handling' = FALSE
    /\ \E c \in Zombies : child' = [child EXCEPT ![c] = "reaped"]
    /\ UNCHANGED <<streamVars, server, p, sockets, newFd, out, pending>>

\* One call of waitpid in the handler's loop that finds a child ...
Reap ==
    /\ handling
    /\ \E c \in Zombies : child' = [child EXCEPT ![c] = "reaped"]
    /\ UNCHANGED <<streamVars, server, p, sockets, newFd, out, pending, handling>>

\* ... and one that does not.
HandlerReturns ==
    /\ handling /\ Zombies = {}
    /\ handling' = FALSE
    /\ UNCHANGED <<streamVars, server, p, sockets, newFd, child, out, pending>>

-----------------------------------------------------------------------------
\* The child sends the next piece of its reply.  To a client that is gone nothing
\* arrives, and SIGPIPE may end the child.
ChildSend(c) ==
    /\ child[c] = "replying" /\ out[c] # << >>
    /\ \/ /\ out' = [out EXCEPT ![c] = Tail(@)]
          /\ toClient' = IF Gone(c) THEN toClient
                         ELSE [toClient EXCEPT ![c] = @ \o Head(out[c])]
          /\ UNCHANGED <<holders, reset, child, pending>>
       \/ /\ Gone(c)
          /\ child' = [child EXCEPT ![c] = "zombie"] /\ pending' = TRUE
          /\ out' = [out EXCEPT ![c] = << >>]
          /\ Close(c, "child")
          /\ UNCHANGED toClient
    /\ UNCHANGED <<client, backlog, toServer, faults, server, p, sockets, newFd, handling>>

ChildExit(c) ==
    /\ child[c] = "replying" /\ out[c] = << >>
    /\ child' = [child EXCEPT ![c] = "zombie"] /\ pending' = TRUE
    /\ Close(c, "child")
    /\ UNCHANGED <<client, backlog, toServer, toClient, faults,
                   server, p, sockets, newFd, out, handling>>

Parent == TryAddress \/ FailToBind \/ Accept \/ Fork \/ ForkFails \/ ParentClose
Handler == Signal \/ Reap \/ HandlerReturns
=============================================================================
