------------------------------ MODULE DistVec ------------------------------
(***************************************************************************)
(* distvec of mp3: the algorithm of Bellman and Ford on tables that are    *)
(* updated in place, after the topology file and after every line of the   *)
(* changes file, and the messages sent along the tables.  One action is    *)
(* one iteration of a loop, or one call of findMinPath.                    *)
(*                                                                         *)
(* Every negative cost is NoLink.  A short or empty line of the changes    *)
(* file leaves the program's variables as they were, so that it is the     *)
(* line before it once more, which Change allows.                          *)
(***************************************************************************)
EXTENDS Routes

\* The input files name finitely many costs.
ASSUME CostsAssumption == \E most \in Costs : \A c \in Costs : c <= most

VARIABLES phase,          \* "generate", "bellMan", "messages", "hops" or "done"
          topo, nodes,
          forwardTable,   \* <<from, to>> -> [first: next hop, second: cost]
          iter, todo,     \* the round of bellMan, and the calls still to come in it
          startId, routeId, currId   \* of a message on its way

messageVars == <<startId, routeId, currId>>
vars == <<phase, topo, nodes, forwardTable, iter, todo, messageVars>>

-----------------------------------------------------------------------------
\* The topology file has been read; only it makes nodes known.
Init ==
    /\ \E net \in Networks :
          /\ topo = [p \in Pairs |-> IF p[1] = p[2] THEN 0 ELSE net[p]]
          /\ nodes = Endpoints(net)
    /\ phase = "generate"
    /\ forwardTable = [p \in nodes \X nodes |-> [first |-> 0, second |-> 0]]
    /\ iter = 0 /\ todo = {}
    /\ startId = 0 /\ routeId = 0 /\ currId = 0

\* Routes longer than one link kept when the network changes.
DirectEntry_Kept(p) ==
    IF topo[p] = NoLink /\ iter > 0 THEN forwardTable[p]
    ELSE [first |-> IF topo[p] >= 0 THEN p[2] ELSE -1, second |-> topo[p]]

\* The two branches taken for one.
DirectEntry_AnyNext(p) == [first |-> p[2], second |-> topo[p]]

DirectEntry(p) == [first |-> IF topo[p] >= 0 THEN p[2] ELSE -1, second |-> topo[p]]

GenerateForwardTable ==
    /\ phase = "generate" /\ phase' = "bellMan"
    /\ forwardTable' = [p \in nodes \X nodes |-> DirectEntry(p)]
    /\ iter' = 1 /\ todo' = nodes \X nodes
    /\ UNCHANGED <<topo, nodes, messageVars>>

-----------------------------------------------------------------------------
\* The neighbours of from that know a route to to.
Informed(from, to) ==
    {k \in nodes : topo[<<from, k>>] >= 0 /\ forwardTable[<<k, to>>].second >= 0}

\* The neighbour's cost taken over without that of the link to it.
Total_LinkFree(from, k, to) == forwardTable[<<k, to>>].second

Total(from, k, to) == topo[<<from, k>>] + forwardTable[<<k, to>>].second

\* Only a route that is known can be replaced.
Better_KnownOnly(from, to) ==
    {k \in Informed(from, to) : Total(from, k, to) < forwardTable[<<from, to>>].second}

\* Only cost counts: a neighbour's claim is believed without a link to it.
Better_NoLink(from, to) ==
    LET cost == forwardTable[<<from, to>>].second
    IN  {k \in nodes : /\ forwardTable[<<k, to>>].second >= 0
                       /\ Total(from, k, to) < cost \/ cost < 0}

Better(from, to) ==
    LET cost == forwardTable[<<from, to>>].second
    IN  {k \in Informed(from, to) : Total(from, k, to) < cost \/ cost < 0}

\* The pairs in the order of bellMan's two loops.
NextCall == LET first == Min({p[1] : p \in todo})
            IN  <<first, Min({p[2] : p \in {q \in todo : q[1] = first}})>>

\* bellMan passes what it calls startId as findMinPath's currRoute and the other
\* way round: a call for <<a, b>> updates the entry from b to a.  The lowest ID
\* of the best neighbours wins, and over none an entry as good.
FindMinPath ==
    LET from == NextCall[2]
        to == NextCall[1]
        least == {k \in Better(from, to) :
                     \A l \in Better(from, to) : Total(from, k, to) <= Total(from, l, to)}
    IN  /\ phase = "bellMan" /\ todo # {}
        /\ forwardTable' = IF least = {} THEN forwardTable
                           ELSE [forwardTable EXCEPT ![<<from, to>>] =
                                    [first |-> Min(least), second |-> Total(from, Min(least), to)]]
        /\ todo' = todo \ {NextCall}
        /\ UNCHANGED <<phase, topo, nodes, iter, messageVars>>

Rounds_One == 1

Rounds == Cardinality(nodes)

EndRound ==
    /\ phase = "bellMan" /\ todo = {} /\ iter <= Rounds
    /\ iter' = iter + 1
    /\ todo' = IF iter' <= Rounds THEN nodes \X nodes ELSE {}
    /\ UNCHANGED <<phase, topo, nodes, forwardTable, messageVars>>

\* The tables are printed; sendMessage begins.
Announce ==
    /\ phase = "bellMan" /\ todo = {} /\ iter > Rounds
    /\ phase' = "messages"
    /\ UNCHANGED <<topo, nodes, forwardTable, iter, todo, messageVars>>

-----------------------------------------------------------------------------
\* A message between known nodes with a route.  (Of a message without one the
\* program reports that; one that names an unknown node costs 0 and has no hops.)
SendMessage == \E s, r \in nodes :
    /\ phase = "messages" /\ forwardTable[<<s, r>>].second >= 0
    /\ phase' = "hops"
    /\ startId' = s /\ routeId' = r /\ currId' = s
    /\ UNCHANGED <<topo, nodes, forwardTable, iter, todo>>

Hop == /\ phase = "hops" /\ currId # routeId
       /\ currId' = forwardTable[<<currId, routeId>>].first
       /\ UNCHANGED <<phase, topo, nodes, forwardTable, iter, todo, startId, routeId>>

Deliver == /\ phase = "hops" /\ currId = routeId
           /\ phase' = "messages"
           /\ startId' = 0 /\ routeId' = 0 /\ currId' = 0
           /\ UNCHANGED <<topo, nodes, forwardTable, iter, todo>>

\* A line of the changes file, read when all messages are sent.  It may name a
\* node the topology file did not: no such entry of topo, kept out of the model, is
\* ever read.
Change == \E i, j \in Ids, cost \in Costs \cup {NoLink} :
    /\ phase = "messages" /\ i # j
    /\ phase' = "generate"
    /\ topo' = IF {i, j} \subseteq nodes THEN Relinked(topo, i, j, cost) ELSE topo
    /\ UNCHANGED <<nodes, forwardTable, iter, todo, messageVars>>

\* The end of the changes file.
Finish == /\ phase = "messages" /\ phase' = "done"
          /\ UNCHANGED <<topo, nodes, forwardTable, iter, todo, messageVars>>

Done == phase = "done" /\ UNCHANGED vars

Next == \/ GenerateForwardTable \/ FindMinPath \/ EndRound \/ Announce
        \/ SendMessage \/ Hop \/ Deliver \/ Change \/ Finish \/ Done

Spec == Init /\ [][Next]_vars

\* A single sequential program: in the loop over the hops it goes on.
FairSpec == Spec /\ WF_vars(Hop \/ Deliver)

-----------------------------------------------------------------------------
(***************************************************************************)
(* Properties                                                              *)
(***************************************************************************)
\* The type of every variable.
TypeOK ==
    /\ phase \in {"generate", "bellMan", "messages", "hops", "done"}
    /\ topo \in [Pairs -> Costs \cup {NoLink, 0}]
    /\ nodes \in SUBSET Ids
    /\ forwardTable \in [nodes \X nodes -> [first : nodes, second : Nat] \cup
                                           {[first |-> -1, second |-> NoLink], [first |-> 0, second |-> 0]}]
    /\ iter \in 0 .. Cardinality(nodes) + 1
    /\ todo \in SUBSET (nodes \X nodes)
    /\ {startId, routeId, currId} \subseteq nodes \cup {0}

Searching == phase \in {"bellMan", "messages", "hops"}

\* The tables are read while they are updated in place (line 171), half of them of
\* this round and half of the one before.  In every such mixture an entry is
\* backed: its next hop is linked, has a route itself, and is nearer by the cost
\* of the link at least, so that next hops never lead in a circle.
EntriesBacked ==
    Searching => \A s, r \in nodes :
        LET e == forwardTable[<<s, r>>]
        IN  s # r /\ e.second # NoLink =>
               /\ e.first \in nodes \ {s} /\ topo[<<s, e.first>>] # NoLink
               /\ forwardTable[<<e.first, r>>].second # NoLink
               /\ e.second >= topo[<<s, e.first>>] + forwardTable[<<e.first, r>>].second

\* The network as its definition has it: no link from a node to itself.
Known == [p \in Pairs |-> IF p[1] # p[2] THEN topo[p] ELSE NoLink]

\* More than any route between the nodes costs.
Infinity == Cardinality(Ids) * Max(Costs)

\* The number of rounds is fixed (line 138); that it suffices is this: each
\* completed round covers routes of one more link, whatever the order of the
\* node numbers in which the entries are updated.
RoundsCover ==
    phase = "bellMan" /\ todo = {} /\ iter \in 1 .. Cardinality(nodes) =>
        LET cheapest == CheapestWithin(Known, Infinity, iter + 1)
        IN  \A p \in nodes \X nodes :
               cheapest[p] < Infinity => forwardTable[p].second \in 0 .. cheapest[p]

\* The table of s is printed with the costs of the other nodes' routes to s (line
\* 149): the two must agree whenever a table is printed, although they were
\* updated apart and over different next hops.
SymmetricCosts ==
    phase = "bellMan" /\ iter > Rounds =>
        \A s, r \in nodes : forwardTable[<<s, r>>].second = forwardTable[<<r, s>>].second

\* distvec as what both programs of mp3 promise, of the network of known nodes.
ready == phase \in {"messages", "hops", "done"}

R == INSTANCE Routing WITH
        network <- Known,
        table <- IF ready
                 THEN [p \in nodes \X nodes |->
                          LET e == forwardTable[p]
                          IN  [cost |-> IF e.second = NoLink THEN Infinity ELSE e.second,
                               next |-> e.first]]
                 ELSE << >>

ImplementsRouting == R!Spec

\* The loop of lines 122-125 ends for every message: the entries of different
\* nodes never lead in a circle, also when they were found in different rounds.
MessagesArrive == phase = "hops" ~> phase # "hops"
=============================================================================
