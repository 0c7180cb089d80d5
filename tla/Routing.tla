------------------------------- MODULE Routing -------------------------------
(***************************************************************************)
(* What both programs of mp3 promise: after the topology file and after    *)
(* every change, a table of cheapest routes of the network as it then is,  *)
(* and until the next change no other.  A table maps pairs of nodes to the *)
(* cost of the cheapest route and, where there is one, the next node.      *)
(***************************************************************************)
EXTENDS Routes

CONSTANT Infinity   \* the cost that stands for no route

VARIABLES network,   \* the network as the files describe it so far
          ready,     \* whether the table for it is there
          table

routingVars == <<network, ready, table>>

NoTable == << >>

\* t announces cheapest routes: the right cost for every pair, and a next node
\* that is a neighbour on one of the cheapest routes.
Announces(t, net) ==
    LET cost == Cheapest(net, Infinity)
    IN  \A p \in DOMAIN t :
           /\ t[p].cost = cost[p]
           /\ p[1] # p[2] /\ cost[p] < Infinity =>
                 /\ Linked(net, p[1], t[p].next)
                 /\ cost[p] = net[<<p[1], t[p].next>>] + cost[<<t[p].next, p[2]>>]

Init == network \in Networks /\ ready = FALSE /\ table = NoTable

Announce == /\ ~ready /\ ready' = TRUE
            /\ \E known \in SUBSET Ids : Endpoints(network) \subseteq known
                                         /\ DOMAIN table' = known \X known
            /\ Announces(table', network)
            /\ UNCHANGED network

\* One link comes, goes, or changes its cost.
Change == /\ ready /\ ready' = FALSE
          /\ table' = NoTable
          /\ network' \in Networks
          /\ \E i, j \in Ids : \A p \in Pairs \ {<<i, j>>, <<j, i>>} : network'[p] = network[p]

Next == Announce \/ Change

Spec == Init /\ [][Next]_routingVars
=============================================================================
