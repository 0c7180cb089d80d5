------------------------------- MODULE Routes -------------------------------
(***************************************************************************)
(* Networks of mp3 and the cost of their routes, by definition: neither    *)
(* Dijkstra's algorithm nor Bellman and Ford's.  A network is a function   *)
(* from pairs of nodes to the cost of the link between them.               *)
(***************************************************************************)
EXTENDS Integers, Sequences, FiniteSetsExt

CONSTANTS Ids,    \* node IDs that an input file may name
          Costs   \* costs of links in the input files

\* No input file links a node to itself, and costs are positive.
ASSUME RoutesAssumption == /\ Ids \subseteq Nat \ {0} /\ IsFiniteSet(Ids)
                           /\ Costs \subseteq Nat \ {0}

NoLink == -1

Pairs == Ids \X Ids

Linked(net, i, j) == net[<<i, j>>] # NoLink

\* Every network between the nodes, with each link stored in both directions.
Networks == {[p \in Pairs |-> IF p[1] = p[2] THEN NoLink ELSE c[{p[1], p[2]}]] :
                c \in [kSubset(2, Ids) -> Costs \cup {NoLink}]}

Endpoints(net) == {i \in Ids : \E j \in Ids : Linked(net, i, j)}

\* One direction forgotten.
Relinked_OneWay(net, i, j, c) == [net EXCEPT ![<<i, j>>] = c]

\* The network after the link between i and j has got the cost c, or NoLink.
Relinked(net, i, j, c) == [net EXCEPT ![<<i, j>>] = c, ![<<j, i>>] = c]

-----------------------------------------------------------------------------
\* What a route of no inner node costs; infinity stands for no route, and
\* for all routes that cost as much.
DirectCost(net, infinity) ==
    [p \in Pairs |-> IF p[1] = p[2] THEN 0
                     ELSE IF net[p] = NoLink \/ net[p] >= infinity THEN infinity
                     ELSE net[p]]

\* The cost of the cheapest route between any two nodes.
Cheapest(net, infinity) ==
    LET via[N \in SUBSET Ids] ==   \* ... with all inner nodes in N
            IF N = {} THEN DirectCost(net, infinity)
            ELSE LET u == Min(N)
                     c == via[N \ {u}]
                 IN  [p \in Pairs |-> Min({c[p], c[<<p[1], u>>] + c[<<u, p[2]>>]})]
    IN  via[Ids]

\* The cost of the cheapest route of at most n links.
CheapestWithin(net, infinity, n) ==
    LET direct == DirectCost(net, infinity)
        within[k \in 1 .. n] ==
            IF k = 1 THEN direct
            ELSE [p \in Pairs |->
                     Min({direct[<<p[1], u>>] + within[k - 1][<<u, p[2]>>] : u \in Ids}
                         \cup {infinity})]
    IN  within[n]

\* What the links along a walk cost together.
WalkCost(net, walk) ==
    LET cost[k \in 1 .. Len(walk)] ==
            IF k = 1 THEN 0 ELSE cost[k - 1] + net[<<walk[k - 1], walk[k]>>]
    IN  cost[Len(walk)]
=============================================================================
