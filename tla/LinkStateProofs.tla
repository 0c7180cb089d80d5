--------------------------- MODULE LinkStateProofs ---------------------------
(***************************************************************************)
(* Dijkstra's algorithm as linkstate programs it, for every set of nodes,  *)
(* every network between them and every sequence of changes: its tables    *)
(* are those of cheapest routes, its ties go to the lowest node ID, and    *)
(* what it announces implements Routing.                                   *)
(***************************************************************************)
EXTENDS LinkState, RoutesProofs

\* The cost of the cheapest route, by definition.
Dist(net, i, j) == Cheapest(net, MAXCOST)[<<i, j>>]

\* A table entry of s for d that announces a cheapest route.
RightEntry(net, s, d, e) ==
    /\ e \in Entry /\ e.second = Dist(net, s, d)
    /\ s # d /\ Dist(net, s, d) < MAXCOST =>
          /\ Linked(net, s, e.first)
          /\ Dist(net, s, d) = net[<<s, e.first>>] + Dist(net, e.first, d)

\* The network.
GoodNet(net, all) == /\ IsNetwork(net)
                     /\ all \in SUBSET Ids /\ Endpoints(net) \subseteq all
                     /\ all # {} => MAXCOST > 0

-----------------------------------------------------------------------------
(***************************************************************************)
(* The invariant of a search from n that has confirmed the nodes in conf   *)
(* and found the costs cst over the predecessors vis.                      *)
(***************************************************************************)
\* Found of LinkState.
Cost(n, cst, v) == IF v = n THEN 0 ELSE cst[v]

SearchTypes(all, n, conf, cst, vis) ==
    /\ n \in conf /\ conf \subseteq all
    /\ cst \in [all -> 1 .. MAXCOST] /\ cst[n] = MAXCOST
    /\ vis \in [all -> conf]

\* No open node is nearer than a confirmed one.
Nearer(all, n, conf, cst) ==
    \A u \in conf, v \in all \ conf : Cost(n, cst, u) <= cst[v]

\* Every link out of a confirmed node is taken into account.
Relaxed(net, all, n, conf, cst) ==
    \A u \in conf, v \in all \ {n} :
        Linked(net, u, v) /\ Cost(n, cst, u) < MAXCOST => cst[v] <= Cost(n, cst, u) + net[<<u, v>>]

\* A cost that was found is that of a route over the predecessor.
Backed(net, all, n, cst, vis) ==
    \A v \in all \ {n} : cst[v] < MAXCOST =>
        Linked(net, vis[v], v) /\ cst[v] = Cost(n, cst, vis[v]) + net[<<vis[v], v>>]

\* Of the confirmed nodes that account for a cost, the predecessor is the lowest.
Lowest(net, all, n, conf, cst, vis) ==
    \A v \in all \ {n}, u \in conf :
        cst[v] < MAXCOST /\ Linked(net, u, v) /\ Cost(n, cst, u) + net[<<u, v>>] = cst[v]
        => vis[v] <= u

\* No cost is below that of the cheapest route.
NotBelow(net, all, n, cst) == \A v \in all : Dist(net, n, v) <= Cost(n, cst, v)

SearchInv(net, all, n, conf, cst, vis) ==
    /\ SearchTypes(all, n, conf, cst, vis)
    /\ Nearer(all, n, conf, cst) /\ Relaxed(net, all, n, conf, cst)
    /\ Backed(net, all, n, cst, vis) /\ Lowest(net, all, n, conf, cst, vis)
    /\ NotBelow(net, all, n, cst)

\* The table is filled in the order mc of confirmation, so that the entry of the
\* predecessor is there when it is looked up.
FillInv(net, all, n, conf, vis, mc, table) ==
    /\ mc \in Seq(conf \ {n})
    /\ n \in DOMAIN table /\ (conf # all => DOMAIN table = {n})
    /\ table \in [DOMAIN table -> Entry]
    /\ conf = DOMAIN table \cup {mc[i] : i \in 1 .. Len(mc)}
    /\ \A i \in 1 .. Len(mc) : vis[mc[i]] \in DOMAIN table \cup {mc[j] : j \in 1 .. i - 1}
    /\ \A d \in DOMAIN table : RightEntry(net, n, d, table[d])

-----------------------------------------------------------------------------
(***************************************************************************)
(* The invariant of linkstate.                                             *)
(***************************************************************************)
TablesInv ==
    /\ phase \in {"start", "dijkstra", "messages", "hops", "done"}
    /\ GoodNet(costMap, allNodes)
    /\ todo \in SUBSET allNodes /\ (phase # "dijkstra" => todo = {})
    /\ DOMAIN forwardingTable = IF phase = "start" THEN {} ELSE allNodes \ todo
    /\ \A s \in DOMAIN forwardingTable :
          /\ forwardingTable[s] \in [allNodes -> Entry]
          /\ \A d \in allNodes : RightEntry(costMap, s, d, forwardingTable[s][d])

LocalsInv ==
    IF Searching
    THEN /\ SearchInv(costMap, allNodes, node, confirmed, costs, visited)
         /\ FillInv(costMap, allNodes, node, confirmed, visited, minCost_nodes, fTable)
    ELSE confirmed = {} /\ costs = << >> /\ visited = << >>
         /\ minCost_nodes = << >> /\ fTable = << >>

\* A message comes nearer to its destination with every hop.
HopsInv ==
    /\ {source, destination, hop_now} \subseteq Ids \cup {0}
    /\ hops \in Seq(Ids)
    /\ phase = "hops" =>
          /\ source \in allNodes /\ destination \in allNodes /\ hop_now \in allNodes
          /\ Dist(costMap, source, destination) < MAXCOST
          /\ Dist(costMap, hop_now, destination) < MAXCOST
          /\ WalkCost(costMap, Append(hops, hop_now)) \in Nat
          /\ Dist(costMap, source, destination) =
                WalkCost(costMap, Append(hops, hop_now)) + Dist(costMap, hop_now, destination)
          /\ \A i \in 1 .. Len(hops) :
                Dist(costMap, hops[i], destination) > Dist(costMap, hop_now, destination)
          /\ \A i, j \in 1 .. Len(hops) : i < j =>
                Dist(costMap, hops[i], destination) > Dist(costMap, hops[j], destination)

LinkStateInv == TablesInv /\ LocalsInv /\ HopsInv

-----------------------------------------------------------------------------
(***************************************************************************)
(* What the laws of routes say of the network of linkstate.                *)
(***************************************************************************)
LEMMA DistFacts ==
    ASSUME NEW net, IsNetwork(net)
    PROVE  /\ \A i, j \in Ids : Dist(net, i, j) \in 0 .. MAXCOST
           /\ \A i \in Ids : Dist(net, i, i) = 0
           /\ \A i, j \in Ids : Linked(net, i, j) => Dist(net, i, j) <= net[<<i, j>>]
           /\ \A i, j, u \in Ids : Dist(net, i, j) <= Dist(net, i, u) + Dist(net, u, j)
           /\ \A i, j \in Ids : i # j /\ Dist(net, i, j) < MAXCOST =>
                 \E k \in Ids : /\ Linked(net, k, j)
                               /\ Dist(net, i, k) + net[<<k, j>>] <= Dist(net, i, j)
<1> DEFINE d == Cheapest(net, MAXCOST)
<1>1. Laws(d, net, MAXCOST, Ids)
  BY CheapestLaws, MaxCostAssumption
<1> HIDE DEF d
<1>2. \A i, j \in Ids : d[<<i, j>>] \in 0 .. MAXCOST
  <2> TAKE i, j \in Ids
  <2>1. <<i, j>> \in Pairs
    BY DEF Pairs
  <2> QED
    BY <1>1, <2>1 DEF Laws
<1>3. \A i, j, u \in Ids : d[<<i, j>>] <= d[<<i, u>>] + d[<<u, j>>]
  BY <1>1 DEF Laws
<1>4. \A i \in Ids : d[<<i, i>>] = 0
  BY <1>1 DEF Laws
<1>5. \A i, j \in Ids : Linked(net, i, j) => d[<<i, j>>] <= net[<<i, j>>]
  BY <1>1 DEF Laws
<1>6. \A i, j \in Ids : i # j /\ d[<<i, j>>] < MAXCOST =>
         \E k \in Ids : Linked(net, k, j) /\ d[<<i, k>>] + net[<<k, j>>] <= d[<<i, j>>]
  BY <1>1 DEF Laws
<1> QED
  BY <1>2, <1>3, <1>4, <1>5, <1>6 DEF d, Dist

\* The ends of a link are known, and it costs no more than no route.
LEMMA LinkFacts ==
    ASSUME NEW net, IsNetwork(net), NEW i \in Ids, NEW j \in Ids, Linked(net, i, j)
    PROVE  /\ net[<<i, j>>] \in 1 .. MAXCOST /\ net[<<i, j>>] \in Nat \ {0} /\ i # j
           /\ i \in Endpoints(net) /\ j \in Endpoints(net)
<1>1. net[<<i, j>>] \in Costs /\ net[<<i, j>>] \in Nat \ {0} /\ i # j
  BY LinkCost
<1>2. Linked(net, j, i)
  BY DEF IsNetwork, Linked
<1> QED
  BY <1>1, <1>2, MaxCostAssumption DEF Endpoints

-----------------------------------------------------------------------------
(***************************************************************************)
(* The search.                                                             *)
(***************************************************************************)
\* A search that begins has found the links of its node.
LEMMA SearchStarts ==
    ASSUME NEW net, NEW all, GoodNet(net, all), NEW n \in all
    PROVE  /\ SearchInv(net, all, n, {n},
                        [v \in all |-> IF net[<<n, v>>] = NoLink THEN MAXCOST ELSE net[<<n, v>>]],
                        [v \in all |-> n])
           /\ FillInv(net, all, n, {n}, [v \in all |-> n], << >>,
                      [v \in {n} |-> [first |-> n, second |-> 0]])
<1> DEFINE cst == [v \in all |-> IF net[<<n, v>>] = NoLink THEN MAXCOST ELSE net[<<n, v>>]]
           vis == [v \in all |-> n]
           table == [v \in {n} |-> [first |-> n, second |-> 0]]
<1>1. IsNetwork(net) /\ all \in SUBSET Ids /\ MAXCOST \in Nat \ {0} /\ n \in Ids /\ n \in Nat
  BY MaxCostAssumption, RoutesAssumption DEF GoodNet
<1>2. ASSUME NEW v \in all
      PROVE  /\ cst[v] \in 1 .. MAXCOST /\ cst[v] \in Nat /\ vis[v] = n
             /\ Linked(net, n, v) => v # n /\ cst[v] = net[<<n, v>>]
             /\ ~Linked(net, n, v) => cst[v] = MAXCOST
  <2>1. Linked(net, n, v) => net[<<n, v>>] \in 1 .. MAXCOST /\ v # n
    BY <1>1, LinkFacts
  <2> QED
    BY <1>1, <2>1 DEF Linked
<1>3. \A v \in all : cst[v] \in Nat
  BY <1>1, <1>2
<1>4. \A v \in all : vis[v] = n
  BY <1>2
<1>5. \A v \in all : Linked(net, n, v) => v # n /\ cst[v] = net[<<n, v>>]
  BY <1>2
<1>6. \A v \in all : ~Linked(net, n, v) => cst[v] = MAXCOST
  BY <1>2
<1>7. SearchTypes(all, n, {n}, cst, vis)
  <2>1. cst[n] = MAXCOST
    BY <1>2
  <2>2. cst \in [all -> 1 .. MAXCOST] /\ vis \in [all -> {n}]
    BY <1>2
  <2> HIDE DEF cst, vis
  <2> QED
    BY <2>1, <2>2 DEF SearchTypes
<1>8. Dist(net, n, n) = 0 /\ \A v \in all : Dist(net, n, v) \in 0 .. MAXCOST
  BY <1>1, DistFacts
<1>9. \A v \in all : Linked(net, n, v) => Dist(net, n, v) <= net[<<n, v>>]
  BY <1>1, DistFacts
<1> HIDE DEF cst, vis
<1>10. Nearer(all, n, {n}, cst)
  <2>1. \A v \in all : 0 <= cst[v]
    BY <1>3
  <2> QED
    BY <2>1 DEF Nearer, Cost
<1>11. Relaxed(net, all, n, {n}, cst) /\ Backed(net, all, n, cst, vis)
  <2>1. ASSUME NEW v \in all \ {n}, Linked(net, n, v) PROVE cst[v] = 0 + net[<<n, v>>]
    <3>1. cst[v] = net[<<n, v>>] /\ cst[v] \in Nat
      BY <1>3, <1>4, <1>5, <1>6, <2>1
    <3> QED
      BY <3>1
  <2>2. ASSUME NEW v \in all \ {n}, Linked(net, n, v) PROVE cst[v] <= 0 + net[<<n, v>>]
    <3>1. cst[v] = net[<<n, v>>] /\ cst[v] \in Nat
      BY <1>3, <1>4, <1>5, <1>6, <2>2
    <3> QED
      BY <3>1
  <2>3. Relaxed(net, all, n, {n}, cst)
    BY <2>2 DEF Relaxed, Cost
  <2>4. ASSUME NEW v \in all \ {n}, cst[v] < MAXCOST PROVE Linked(net, n, v) /\ vis[v] = n
    <3>1. cst[v] # MAXCOST
      BY <1>1, <2>4
    <3> QED
      BY <1>3, <1>4, <1>5, <1>6, <3>1
  <2>5. Backed(net, all, n, cst, vis)
    BY <2>1, <2>4 DEF Backed, Cost
  <2> QED
    BY <2>3, <2>5
<1>12. Lowest(net, all, n, {n}, cst, vis)
  <2>1. n <= n
    BY <1>1
  <2> QED
    BY <1>4, <2>1 DEF Lowest
<1>13. NotBelow(net, all, n, cst)
  <2>1. ASSUME NEW v \in all PROVE Dist(net, n, v) <= cst[v]
    <3>1. CASE Linked(net, n, v)
      BY <1>5, <1>9, <3>1
    <3>2. CASE ~Linked(net, n, v)
      BY <1>8, <1>6, <3>2
    <3> QED
      BY <3>1, <3>2
  <2> QED
    BY <1>8, <2>1 DEF NotBelow, Cost
<1>14. FillInv(net, all, n, {n}, vis, << >>, table)
  <2>1. DOMAIN table = {n} /\ table[n] = [first |-> n, second |-> 0]
    OBVIOUS
  <2>2. table[n] \in Entry
    BY <1>1, <2>1 DEF Entry
  <2>3. table \in [{n} -> Entry]
    BY <2>1, <2>2
  <2>4. RightEntry(net, n, n, table[n])
    BY <1>8, <2>1, <2>2 DEF RightEntry
  <2>5. << >> \in Seq({n} \ {n}) /\ Len(<< >>) = 0 /\ 1 .. 0 = {}
    OBVIOUS
  <2> HIDE DEF table
  <2> QED
    BY <2>1, <2>3, <2>4, <2>5 DEF FillInv
<1> QED
  BY <1>7, <1>10, <1>11, <1>12, <1>13, <1>14 DEF SearchInv, cst, vis

\* Nearest is an open node than which none is nearer.
LEMMA NearestIs ==
    ASSUME NEW open \in SUBSET Ids, open # {}, \A v \in open : costs[v] \in Nat
    PROVE  Nearest(open) \in open /\ \A u \in open : costs[Nearest(open)] <= costs[u]
<1> DEFINE T == {costs[v] : v \in open}
           near == {v \in open : \A u \in open : costs[v] <= costs[u]}
<1>1. T \in SUBSET Nat /\ T # {}
  OBVIOUS
<1>2. Min(T) \in T /\ \A y \in T : Min(T) <= y
  BY <1>1, MinNat
<1>3. near # {}
  <2>1. PICK v \in open : costs[v] = Min(T)
    BY <1>2
  <2>2. v \in near
    BY <1>2, <2>1
  <2> QED
    BY <2>2
<1>4. near \in SUBSET Nat
  BY RoutesAssumption
<1>5. Nearest(open) = Min(near)
  BY DEF Nearest
<1> HIDE DEF near
<1>6. Min(near) \in near
  BY <1>3, <1>4, MinNat
<1> QED
  BY <1>5, <1>6 DEF near

\* What the inner loop of an iteration makes of an open node v: the nearest node m
\* gives it a cheaper route, or one as cheap over a lower ID, or neither.
Relaxes(net, conf, m, cst, vis, cst2, vis2, v) ==
    \/ /\ Linked(net, m, v) /\ cst[m] < MAXCOST /\ cst[m] + net[<<m, v>>] < cst[v]
       /\ cst2[v] = cst[m] + net[<<m, v>>] /\ vis2[v] = m
    \/ /\ Linked(net, m, v) /\ cst[m] < MAXCOST /\ cst[m] + net[<<m, v>>] = cst[v]
       /\ cst2[v] = cst[v] /\ m < vis[v] /\ vis2[v] = m
    \/ /\ cst2[v] = cst[v] /\ vis2[v] = vis[v]
       /\ Linked(net, m, v) /\ cst[m] < MAXCOST =>
             \/ cst[m] + net[<<m, v>>] > cst[v]
             \/ cst[m] + net[<<m, v>>] = cst[v] /\ vis[v] <= m

\* An iteration that confirms a nearest node keeps the invariant.
LEMMA SearchContinues ==
    ASSUME NEW net, NEW all, GoodNet(net, all), NEW n \in all, NEW conf, NEW cst, NEW vis,
           SearchInv(net, all, n, conf, cst, vis),
           NEW m \in all \ conf, \A u \in all \ conf : cst[m] <= cst[u],
           NEW cst2 \in [all -> 1 .. MAXCOST], NEW vis2 \in [all -> conf \cup {m}],
           \A v \in conf \cup {m} : cst2[v] = cst[v] /\ vis2[v] = vis[v],
           \A v \in all \ (conf \cup {m}) : Relaxes(net, conf, m, cst, vis, cst2, vis2, v)
    PROVE  SearchInv(net, all, n, conf \cup {m}, cst2, vis2)
<1>1. /\ IsNetwork(net) /\ all \in SUBSET Ids /\ MAXCOST \in Nat /\ n \in Nat
      /\ \A v \in all : v \in Nat /\ v \in Ids
  BY MaxCostAssumption, RoutesAssumption DEF GoodNet
<1>2. n \in conf /\ conf \subseteq all /\ m # n /\ m \in all /\ m \notin conf
  BY DEF SearchInv, SearchTypes
<1>3. \A v \in all : cst[v] \in Nat /\ cst[v] <= MAXCOST
  BY <1>1 DEF SearchInv, SearchTypes
<1>4. \A v \in all : vis[v] \in conf /\ vis[v] \in all /\ vis[v] \in Nat
  BY <1>1, <1>2 DEF SearchInv, SearchTypes
<1>5. \A v \in all : cst2[v] \in Nat /\ cst2[v] <= MAXCOST
  BY <1>1
<1>6. \A u, v \in all : Linked(net, u, v) => net[<<u, v>>] \in Nat /\ net[<<u, v>>] > 0
  <2> TAKE u, v \in all
  <2> HAVE Linked(net, u, v)
  <2>1. net[<<u, v>>] \in Nat \ {0}
    BY <1>1, LinkFacts
  <2> QED
    BY <2>1
<1>7. ~Linked(net, m, m)
  BY <1>1, LinkFacts
<1>8. ASSUME NEW v \in all
      PROVE  Cost(n, cst, v) \in Nat /\ Cost(n, cst2, v) \in Nat
  BY <1>3, <1>5 DEF Cost
<1>9. Cost(n, cst, m) = cst[m] /\ Cost(n, cst2, m) = cst[m]
  BY <1>2 DEF Cost
<1>10. \A u \in conf \cup {m} : Cost(n, cst2, u) = Cost(n, cst, u)
  BY DEF Cost
<1>11. \A u \in conf \cup {m} : Cost(n, cst, u) <= cst[m]
  BY <1>2, <1>3, <1>9 DEF SearchInv, Nearer
<1>12. SearchTypes(all, n, conf \cup {m}, cst2, vis2)
  BY <1>2 DEF SearchInv, SearchTypes
<1>13. Nearer(all, n, conf \cup {m}, cst2)
  <2> SUFFICES ASSUME NEW u \in conf \cup {m}, NEW v \in all \ (conf \cup {m})
               PROVE  Cost(n, cst2, u) <= cst2[v]
    BY DEF Nearer
  <2>1. cst[m] <= cst2[v]
    <3>1. cst[m] <= cst[v] /\ cst[m] \in Nat /\ cst[v] \in Nat
      BY <1>3
    <3>2. Linked(net, m, v) => cst[m] <= cst[m] + net[<<m, v>>]
      BY <1>6, <3>1
    <3> QED
      BY <3>1, <3>2 DEF Relaxes
  <2>2. u \in all /\ v \in all
    BY <1>2
  <2>3. /\ Cost(n, cst2, u) = Cost(n, cst, u) /\ Cost(n, cst, u) <= cst[m]
        /\ Cost(n, cst, u) \in Nat /\ cst[m] \in Nat /\ cst2[v] \in Nat
    BY <1>2, <1>3, <1>5, <1>8, <1>10, <1>11, <2>2
  <2> QED
    BY <2>1, <2>3
<1>14. Relaxed(net, all, n, conf \cup {m}, cst2)
  <2> SUFFICES ASSUME NEW u \in conf \cup {m}, NEW v \in all \ {n}, Linked(net, u, v),
                      Cost(n, cst2, u) < MAXCOST
               PROVE  cst2[v] <= Cost(n, cst2, u) + net[<<u, v>>]
    BY DEF Relaxed
  <2>1. u \in all /\ Cost(n, cst2, u) = Cost(n, cst, u) /\ Cost(n, cst, u) \in Nat
    BY <1>2, <1>8, <1>10
  <2>2. net[<<u, v>>] \in Nat /\ cst[v] \in Nat /\ cst2[v] \in Nat /\ cst[m] \in Nat
    BY <1>2, <1>3, <1>5, <1>6, <2>1
  <2>3. cst2[v] <= cst[v]
    <3>1. CASE v \in conf \cup {m}
      BY <2>2, <3>1
    <3>2. CASE v \notin conf \cup {m}
      <4>1. Relaxes(net, conf, m, cst, vis, cst2, vis2, v)
        BY <3>2
      <4>2. cst2[v] = cst[v] \/ cst2[v] < cst[v]
        BY <4>1, Zenon DEF Relaxes
      <4> QED
        BY <2>2, <4>2
    <3> QED
      BY <3>1, <3>2
  <2>4. CASE u \in conf
    <3>1. cst[v] <= Cost(n, cst, u) + net[<<u, v>>]
      BY <2>1, <2>4 DEF SearchInv, Relaxed
    <3> QED
      BY <2>1, <2>2, <2>3, <3>1
  <2>5. CASE u = m /\ v \in conf
    <3>1. cst[v] <= cst[m]
      BY <1>11, <2>5 DEF Cost
    <3> QED
      BY <1>9, <2>1, <2>2, <2>3, <2>5, <3>1
  <2>6. CASE u = m /\ v \notin conf
    <3>1. v # m /\ cst[m] < MAXCOST
      BY <1>7, <1>9, <2>6
    <3>2. cst2[v] <= cst[m] + net[<<m, v>>]
      BY <2>2, <2>6, <3>1 DEF Relaxes
    <3> QED
      BY <1>9, <2>1, <2>6, <3>2
  <2> QED
    BY <2>4, <2>5, <2>6
<1>15. Backed(net, all, n, cst2, vis2)
  <2> SUFFICES ASSUME NEW v \in all \ {n}, cst2[v] < MAXCOST
               PROVE  /\ Linked(net, vis2[v], v)
                      /\ cst2[v] = Cost(n, cst2, vis2[v]) + net[<<vis2[v], v>>]
    BY DEF Backed
  <2>1. CASE cst2[v] = cst[v] /\ vis2[v] = vis[v]
    <3>1. Linked(net, vis[v], v) /\ cst[v] = Cost(n, cst, vis[v]) + net[<<vis[v], v>>]
      BY <2>1 DEF SearchInv, Backed
    <3>2. Cost(n, cst2, vis[v]) = Cost(n, cst, vis[v])
      BY <1>4, <1>10
    <3> QED
      BY <2>1, <3>1, <3>2
  <2>2. CASE Linked(net, m, v) /\ cst2[v] = cst[m] + net[<<m, v>>] /\ vis2[v] = m
    BY <1>9, <2>2
  <2> QED
    BY <2>1, <2>2 DEF Relaxes
<1>16. Lowest(net, all, n, conf \cup {m}, cst2, vis2)
  <2> SUFFICES ASSUME NEW v \in all \ {n}, NEW u \in conf \cup {m}, cst2[v] < MAXCOST,
                      Linked(net, u, v), Cost(n, cst2, u) + net[<<u, v>>] = cst2[v]
               PROVE  vis2[v] <= u
    BY DEF Lowest
  <2>1. /\ u \in all /\ u \in Nat /\ Cost(n, cst2, u) = Cost(n, cst, u)
        /\ Cost(n, cst, u) \in Nat
    BY <1>1, <1>2, <1>8, <1>10
  <2>2. /\ net[<<u, v>>] \in Nat /\ net[<<u, v>>] > 0 /\ cst[v] \in Nat /\ cst2[v] \in Nat
        /\ cst[m] \in Nat /\ vis[v] \in Nat /\ m \in Nat
    BY <1>1, <1>2, <1>3, <1>4, <1>5, <1>6, <2>1
  <2>3. CASE u = m /\ v \in conf \cup {m}
    <3>1. Cost(n, cst, v) = cst[v] /\ cst[v] <= cst[m] /\ cst2[v] = cst[v]
      BY <1>11, <2>3 DEF Cost
    <3> QED
      BY <1>9, <2>1, <2>2, <2>3, <3>1
  <2>4. CASE u = m /\ v \notin conf \cup {m}
    <3>1. cst[m] < MAXCOST
      BY <1>1, <1>9, <2>1, <2>2, <2>4
    <3>2. cst[m] + net[<<m, v>>] = cst2[v]
      BY <1>9, <2>1, <2>4
    <3>3. Relaxes(net, conf, m, cst, vis, cst2, vis2, v)
      BY <2>4
    <3> QED
      BY <2>2, <2>4, <3>1, <3>2, <3>3 DEF Relaxes
  <2>5. CASE u \in conf
    <3>1. Cost(n, cst, u) < MAXCOST
      BY <1>1, <2>1, <2>2
    <3>2. cst[v] <= Cost(n, cst, u) + net[<<u, v>>]
      BY <2>5, <3>1 DEF SearchInv, Relaxed
    <3>3. cst2[v] = cst[v] => vis[v] <= u
      BY <2>1, <2>5 DEF SearchInv, Lowest
    <3>4. cst2[v] = cst[v] /\ (vis2[v] = vis[v] \/ (m < vis[v] /\ vis2[v] = m))
      <4>1. CASE v \in conf \cup {m}
        BY <4>1
      <4>2. CASE v \notin conf \cup {m}
        <5>1. Linked(net, m, v) => net[<<m, v>>] \in Nat
          BY <1>2, <1>6
        <5>2. cst2[v] >= cst[v]
          BY <2>1, <2>2, <3>2
        <5> QED
          BY <2>2, <4>2, <5>1, <5>2 DEF Relaxes
      <4> QED
        BY <4>1, <4>2
    <3> QED
      BY <2>1, <2>2, <3>3, <3>4
  <2> QED
    BY <2>3, <2>4, <2>5
<1>17. NotBelow(net, all, n, cst2)
  <2> SUFFICES ASSUME NEW v \in all PROVE Dist(net, n, v) <= Cost(n, cst2, v)
    BY DEF NotBelow
  <2>1. /\ Dist(net, n, v) <= Cost(n, cst, v) /\ Dist(net, n, m) <= cst[m]
    BY <1>2, <1>9 DEF SearchInv, NotBelow
  <2>2. CASE Cost(n, cst2, v) = Cost(n, cst, v)
    BY <2>1, <2>2
  <2>3. CASE Linked(net, m, v) /\ v # n /\ cst2[v] = cst[m] + net[<<m, v>>]
    <3>1. /\ Dist(net, n, v) <= Dist(net, n, m) + Dist(net, m, v)
          /\ Dist(net, m, v) <= net[<<m, v>>]
          /\ Dist(net, n, v) \in Nat /\ Dist(net, n, m) \in Nat /\ Dist(net, m, v) \in Nat
      BY <1>1, <1>2, <2>3, DistFacts
    <3>2. net[<<m, v>>] \in Nat /\ cst[m] \in Nat
      BY <1>2, <1>3, <1>6, <2>3
    <3> QED
      BY <2>1, <2>3, <3>1, <3>2 DEF Cost
  <2> QED
    BY <2>2, <2>3 DEF Relaxes, Cost
<1> QED
  BY <1>12, <1>13, <1>14, <1>15, <1>16, <1>17 DEF SearchInv

\* When all nodes are confirmed the costs are those of the cheapest routes: of the
\* nodes with a higher cost none could be the nearest.
LEMMA SearchExact ==
    ASSUME NEW net, NEW all, GoodNet(net, all), NEW n \in all, NEW cst, NEW vis,
           SearchInv(net, all, n, all, cst, vis)
    PROVE  \A v \in all : Cost(n, cst, v) = Dist(net, n, v)
<1>1. /\ IsNetwork(net) /\ all \in SUBSET Ids /\ MAXCOST \in Nat /\ n \in Ids
      /\ Endpoints(net) \subseteq all
  BY MaxCostAssumption DEF GoodNet
<1>2. \A v \in all : cst[v] \in Nat /\ cst[v] <= MAXCOST /\ Cost(n, cst, v) \in Nat
  BY <1>1 DEF SearchInv, SearchTypes, Cost
<1>3. \A v \in all : Dist(net, n, v) \in Nat /\ Dist(net, n, v) <= Cost(n, cst, v)
  <2>1. \A v \in all : Dist(net, n, v) \in 0 .. MAXCOST
    BY <1>1, DistFacts
  <2>2. \A v \in all : Dist(net, n, v) <= Cost(n, cst, v)
    BY DEF SearchInv, NotBelow
  <2> QED
    BY <1>1, <2>1, <2>2
<1> DEFINE Bad == {v \in all : Dist(net, n, v) < Cost(n, cst, v)}
           T == {Dist(net, n, v) : v \in Bad}
<1>4. ASSUME Bad # {} PROVE FALSE
  <2>1. T \in SUBSET Nat /\ T # {}
    BY <1>3, <1>4
  <2>2. PICK v \in Bad : \A u \in Bad : Dist(net, n, v) <= Dist(net, n, u)
    <3>1. Min(T) \in T /\ \A y \in T : Min(T) <= y
      BY <2>1, MinNat
    <3> QED
      BY <3>1
  <2>3. v \in all /\ v \in Ids /\ v # n
    BY <1>1, <1>3 DEF Cost
  <2>4. Cost(n, cst, v) = cst[v] /\ Dist(net, n, v) < cst[v] /\ Dist(net, n, v) < MAXCOST
    BY <1>1, <1>2, <1>3, <2>3 DEF Cost
  <2>5. PICK k \in Ids : Linked(net, k, v) /\ Dist(net, n, k) + net[<<k, v>>] <= Dist(net, n, v)
    BY <1>1, <2>3, <2>4, DistFacts
  <2>6. k \in all /\ net[<<k, v>>] \in Nat \ {0}
    BY <1>1, <2>3, <2>5, LinkFacts
  <2>7. Dist(net, n, k) < Dist(net, n, v)
    BY <1>3, <2>3, <2>5, <2>6
  <2>8. Cost(n, cst, k) = Dist(net, n, k)
    BY <1>2, <1>3, <2>2, <2>3, <2>6, <2>7
  <2>9. cst[v] <= Cost(n, cst, k) + net[<<k, v>>]
    <3>1. Cost(n, cst, k) < MAXCOST
      BY <1>1, <1>3, <2>3, <2>4, <2>6, <2>7, <2>8
    <3> QED
      BY <2>3, <2>5, <2>6, <3>1 DEF SearchInv, Relaxed
  <2> QED
    BY <1>2, <1>3, <2>3, <2>4, <2>5, <2>6, <2>8, <2>9
<1> QED
  BY <1>2, <1>3, <1>4

-----------------------------------------------------------------------------
(***************************************************************************)
(* The table.                                                              *)
(***************************************************************************)
\* A node that is confirmed has a predecessor that was confirmed before it.
LEMMA FillAppends ==
    ASSUME NEW net, NEW all, NEW n \in all, NEW conf, NEW vis \in [all -> conf], NEW mc, NEW table,
           FillInv(net, all, n, conf, vis, mc, table),
           conf \subseteq all, n \in conf, NEW m \in all \ conf,
           NEW vis2, \A v \in conf \cup {m} : vis2[v] = vis[v]
    PROVE  FillInv(net, all, n, conf \cup {m}, vis2, Append(mc, m), table)
<1> DEFINE mc2 == Append(mc, m)
           L == Len(mc)
<1>1. mc \in Seq(conf \ {n}) /\ L \in Nat /\ DOMAIN table = {n}
  BY DEF FillInv
<1>2. /\ mc2 \in Seq((conf \cup {m}) \ {n}) /\ Len(mc2) = L + 1 /\ mc2[L + 1] = m
      /\ \A i \in 1 .. L : mc2[i] = mc[i] /\ mc[i] \in conf
  BY <1>1
<1> HIDE DEF mc2, L
<1>3. conf = DOMAIN table \cup {mc[i] : i \in 1 .. L}
  BY DEF FillInv, L
<1>4. conf \cup {m} = DOMAIN table \cup {mc2[i] : i \in 1 .. L + 1}
  <2>1. ASSUME NEW x \in conf PROVE x \in DOMAIN table \cup {mc2[i] : i \in 1 .. L + 1}
    <3>1. CASE x \in DOMAIN table
      BY <3>1
    <3>2. CASE x \notin DOMAIN table
      <4>1. PICK i \in 1 .. L : x = mc[i]
        BY <1>3, <3>2
      <4>2. i \in 1 .. L + 1 /\ mc2[i] = x
        BY <1>1, <1>2, <4>1
      <4> QED
        BY <4>2
    <3> QED
      BY <3>1, <3>2
  <2>2. m \in {mc2[i] : i \in 1 .. L + 1}
    <3>1. L + 1 \in 1 .. L + 1 /\ mc2[L + 1] = m
      BY <1>1, <1>2
    <3> QED
      BY <3>1
  <2>3. ASSUME NEW i \in 1 .. L + 1 PROVE mc2[i] \in conf \cup {m}
    <3>1. i \in 1 .. L \/ i = L + 1
      BY <1>1
    <3> QED
      BY <1>2, <3>1
  <2>4. DOMAIN table \subseteq conf
    BY <1>3
  <2> QED
    BY <2>1, <2>2, <2>3, <2>4
<1>5. ASSUME NEW i \in 1 .. L + 1
      PROVE  vis2[mc2[i]] \in DOMAIN table \cup {mc2[j] : j \in 1 .. i - 1}
  <2>1. CASE i = L + 1
    <3>1. vis2[mc2[i]] = vis[m] /\ vis[m] \in conf
      BY <1>2, <2>1
    <3>2. conf \subseteq DOMAIN table \cup {mc2[j] : j \in 1 .. L}
      BY <1>2, <1>3
    <3> QED
      BY <1>1, <2>1, <3>1, <3>2
  <2>2. CASE i \in 1 .. L
    <3>1. vis2[mc2[i]] = vis[mc[i]]
      BY <1>2, <2>2
    <3>2. vis[mc[i]] \in DOMAIN table \cup {mc[j] : j \in 1 .. i - 1}
      BY <2>2 DEF FillInv, L
    <3>3. \A j \in 1 .. i - 1 : mc2[j] = mc[j]
      BY <1>1, <1>2, <2>2
    <3> QED
      BY <3>1, <3>2, <3>3
  <2> QED
    BY <1>1, <2>1, <2>2
<1>6. /\ n \in DOMAIN table /\ table \in [DOMAIN table -> Entry]
      /\ \A d \in DOMAIN table : RightEntry(net, n, d, table[d])
  BY DEF FillInv
<1>7. FillInv(net, all, n, conf \cup {m}, vis2, mc2, table)
  BY <1>1, <1>2, <1>4, <1>5, <1>6 DEF FillInv
<1> QED
  BY <1>7 DEF mc2

\* The table with the entry e for v.
Filled(table, v, e) == [d \in DOMAIN table \cup {v} |-> IF d = v THEN e ELSE table[d]]

\* The next entry announces a cheapest route, because that of the predecessor does.
LEMMA FillsEntry ==
    ASSUME NEW net, NEW all, GoodNet(net, all), NEW n \in all, NEW cst, NEW vis,
           SearchInv(net, all, n, all, cst, vis),
           NEW mc, NEW table, FillInv(net, all, n, all, vis, mc, table), mc # << >>,
           NEW e, e = [first |-> IF vis[Head(mc)] # n THEN table[vis[Head(mc)]].first ELSE Head(mc),
                       second |-> cst[Head(mc)]]
    PROVE  FillInv(net, all, n, all, vis, Tail(mc), Filled(table, Head(mc), e))
<1> DEFINE v == Head(mc)
           mc2 == Tail(mc)
           w == vis[v]
           L == Len(mc)
           table2 == Filled(table, v, e)
<1>1. mc \in Seq(all \ {n})
  BY DEF FillInv
<1>2. L \in Nat \ {0} /\ v = mc[1] /\ v \in all /\ v # n
  BY <1>1
<1>3. /\ mc2 \in Seq(all \ {n}) /\ Len(mc2) = L - 1
      /\ \A i \in 1 .. L - 1 : mc2[i] = mc[i + 1]
  BY <1>1, <1>2
<1> HIDE DEF v, mc2, L, table2
<1>4. w \in DOMAIN table
  <2>1. vis[mc[1]] \in DOMAIN table \cup {mc[j] : j \in 1 .. 1 - 1}
    BY <1>2 DEF FillInv, L
  <2> QED
    BY <1>2, <2>1
<1>5. /\ IsNetwork(net) /\ all \in SUBSET Ids /\ MAXCOST \in Nat /\ n \in Ids
      /\ v \in Ids /\ v \in Nat /\ n \in Nat
  BY <1>2, MaxCostAssumption, RoutesAssumption DEF GoodNet
<1>6. w \in all /\ cst[v] \in 0 .. MAXCOST
  BY <1>2, <1>5 DEF SearchInv, SearchTypes
<1>7. /\ Cost(n, cst, v) = cst[v] /\ cst[v] = Dist(net, n, v)
      /\ Cost(n, cst, w) = Dist(net, n, w)
  BY <1>2, <1>6, SearchExact DEF Cost
<1>8. table[w] \in Entry /\ RightEntry(net, n, w, table[w])
  BY <1>4 DEF FillInv
<1> DEFINE hop == IF w # n THEN table[w].first ELSE v
<1>9. hop \in Ids
  BY <1>5, <1>8 DEF Entry
<1>10. e = [first |-> hop, second |-> cst[v]] /\ e.first = hop /\ e.second = cst[v]
  BY DEF v
<1> HIDE DEF hop
<1>11. ASSUME Dist(net, n, v) < MAXCOST
       PROVE  Linked(net, n, hop) /\ Dist(net, n, v) = net[<<n, hop>>] + Dist(net, hop, v)
  <2>1. Linked(net, w, v) /\ Dist(net, n, v) = Dist(net, n, w) + net[<<w, v>>]
    BY <1>2, <1>7, <1>11 DEF SearchInv, Backed
  <2>2. net[<<w, v>>] \in Nat \ {0} /\ w \in Ids
    BY <1>5, <1>6, <2>1, LinkFacts
  <2>3. CASE w = n
    <3>1. hop = v /\ Dist(net, n, n) = 0 /\ Dist(net, v, v) = 0
      BY <1>5, <2>3, DistFacts DEF hop
    <3> QED
      BY <2>1, <2>2, <2>3, <3>1
  <2>4. CASE w # n
    <3>1. /\ Dist(net, n, w) \in Nat /\ Dist(net, n, v) \in Nat /\ Dist(net, hop, v) \in Nat
          /\ Dist(net, hop, w) \in Nat /\ Dist(net, w, v) \in Nat /\ Dist(net, n, hop) \in Nat
      <4>1. \A i, j \in Ids : Dist(net, i, j) \in 0 .. MAXCOST
        BY <1>5, DistFacts
      <4>2. \A i, j \in Ids : Dist(net, i, j) \in Nat
        BY <1>5, <4>1
      <4> QED
        BY <1>5, <1>9, <2>2, <4>2
    <3>2. Dist(net, n, w) < MAXCOST
      BY <1>5, <1>11, <2>1, <2>2, <3>1
    <3>3. Linked(net, n, hop) /\ Dist(net, n, w) = net[<<n, hop>>] + Dist(net, hop, w)
      BY <1>8, <2>4, <3>2 DEF RightEntry, hop
    <3>4. /\ Dist(net, hop, v) <= Dist(net, hop, w) + Dist(net, w, v)
          /\ Dist(net, n, v) <= Dist(net, n, hop) + Dist(net, hop, v)
      BY <1>5, <1>9, <2>2, DistFacts
    <3>5. Dist(net, w, v) <= net[<<w, v>>] /\ Dist(net, n, hop) <= net[<<n, hop>>]
      BY <1>5, <1>9, <2>1, <2>2, <3>3, DistFacts
    <3>6. net[<<n, hop>>] \in Nat
      BY <1>5, <1>9, <3>3, LinkFacts
    <3>7. Dist(net, n, v) = net[<<n, hop>>] + Dist(net, hop, w) + net[<<w, v>>]
      BY <2>1, <2>2, <3>1, <3>3, <3>6
    <3>8. Dist(net, hop, v) <= Dist(net, hop, w) + net[<<w, v>>]
      BY <2>2, <3>1, <3>4, <3>5
    <3>9. Dist(net, n, v) <= net[<<n, hop>>] + Dist(net, hop, v)
      BY <3>1, <3>4, <3>5, <3>6
    <3>10. Dist(net, n, v) = net[<<n, hop>>] + Dist(net, hop, v)
      <4> DEFINE a == Dist(net, n, v)
                 b == net[<<n, hop>>]
                 c == Dist(net, hop, w)
                 d == net[<<w, v>>]
                 g == Dist(net, hop, v)
      <4>1. a \in Nat /\ b \in Nat /\ c \in Nat /\ d \in Nat /\ g \in Nat
        BY <2>2, <3>1, <3>6
      <4>2. a = b + c + d /\ g <= c + d /\ a <= b + g
        BY <3>7, <3>8, <3>9
      <4> HIDE DEF a, b, c, d, g
      <4>3. a = b + g
        BY <4>1, <4>2
      <4> QED
        BY <4>3 DEF a, b, g
    <3> QED
      BY <3>3, <3>10
  <2> QED
    BY <2>3, <2>4
<1>12. e \in Entry /\ RightEntry(net, n, v, e)
  BY <1>6, <1>7, <1>9, <1>10, <1>11 DEF Entry, RightEntry
<1>13. DOMAIN table2 = DOMAIN table \cup {v} /\ \A d \in DOMAIN table2 :
          table2[d] = IF d = v THEN e ELSE table[d]
  BY DEF table2, Filled
<1>14. /\ n \in DOMAIN table /\ table \in [DOMAIN table -> Entry]
       /\ all = DOMAIN table \cup {mc[i] : i \in 1 .. L}
       /\ \A i \in 1 .. L : vis[mc[i]] \in DOMAIN table \cup {mc[j] : j \in 1 .. i - 1}
       /\ \A d \in DOMAIN table : RightEntry(net, n, d, table[d])
  BY DEF FillInv, L
<1>15. table2 \in [DOMAIN table2 -> Entry]
  BY <1>12, <1>14 DEF table2, Filled
<1>16. \A d \in DOMAIN table2 : RightEntry(net, n, d, table2[d])
  BY <1>12, <1>13, <1>14
<1>17. \A i \in 1 .. L : mc[i] = v \/ \E j \in 1 .. L - 1 : mc[i] = mc2[j] /\ i = j + 1
  <2> TAKE i \in 1 .. L
  <2>1. CASE i = 1
    BY <1>2, <2>1
  <2>2. CASE i # 1
    <3>1. i - 1 \in 1 .. L - 1 /\ (i - 1) + 1 = i
      BY <1>2, <2>2
    <3>2. mc2[i - 1] = mc[i]
      BY <1>3, <3>1
    <3> QED
      BY <3>1, <3>2
  <2> QED
    BY <2>1, <2>2
<1>18. all = DOMAIN table2 \cup {mc2[i] : i \in 1 .. L - 1}
  <2>1. \A i \in 1 .. L - 1 : mc2[i] \in all
    BY <1>3
  <2>2. DOMAIN table2 \subseteq all
    BY <1>2, <1>13, <1>14
  <2>3. all \subseteq DOMAIN table2 \cup {mc2[i] : i \in 1 .. L - 1}
    BY <1>13, <1>14, <1>17
  <2> QED
    BY <2>1, <2>2, <2>3
<1>19. ASSUME NEW i \in 1 .. L - 1
       PROVE  vis[mc2[i]] \in DOMAIN table2 \cup {mc2[j] : j \in 1 .. i - 1}
  <2>1. i + 1 \in 1 .. L /\ i = (i + 1) - 1 /\ mc2[i] = mc[i + 1]
    BY <1>2, <1>3
  <2>2. vis[mc[i + 1]] \in DOMAIN table \cup {mc[j] : j \in 1 .. i}
    BY <1>14, <2>1
  <2>3. ASSUME NEW j \in 1 .. i PROVE mc[j] \in {v} \cup {mc2[k] : k \in 1 .. i - 1}
    <3>1. CASE j = 1
      BY <1>2, <3>1
    <3>2. CASE j # 1
      <4>1. j - 1 \in 1 .. i - 1 /\ j - 1 \in 1 .. L - 1 /\ (j - 1) + 1 = j
        BY <1>2, <3>2
      <4>2. mc2[j - 1] = mc[j]
        BY <1>3, <4>1
      <4> QED
        BY <4>1, <4>2
    <3> QED
      BY <3>1, <3>2
  <2> QED
    BY <1>13, <2>1, <2>2, <2>3
<1>20. FillInv(net, all, n, all, vis, mc2, table2)
  BY <1>3, <1>13, <1>14, <1>15, <1>16, <1>18, <1>19 DEF FillInv
<1> QED
  BY <1>20 DEF v, mc2, table2

-----------------------------------------------------------------------------
(***************************************************************************)
(* The program.                                                            *)
(***************************************************************************)
\* The search of the lowest node that is left begins.
LEMMA LocalsStart ==
    ASSUME TablesInv', phase' = "dijkstra", todo' # {}, StartSearch(Min(todo'))
    PROVE  LocalsInv'
<1> DEFINE n == Min(todo')
<1>1. GoodNet(costMap', allNodes') /\ todo' \in SUBSET allNodes' /\ allNodes' \in SUBSET Ids
  BY DEF TablesInv, GoodNet
<1>2. n \in todo' /\ n \in allNodes'
  BY <1>1, RoutesAssumption, MinNat
<1>3. Searching' /\ node' = n
  BY DEF Searching, node
<1>4. /\ confirmed' = {n}
      /\ costs' = [v \in allNodes' |-> IF costMap'[<<n, v>>] = NoLink THEN MAXCOST
                                       ELSE costMap'[<<n, v>>]]
      /\ visited' = [v \in allNodes' |-> n]
      /\ minCost_nodes' = << >>
      /\ fTable' = [v \in {n} |-> [first |-> n, second |-> 0]]
  BY DEF StartSearch
<1> HIDE DEF n
<1>5. /\ SearchInv(costMap', allNodes', n, confirmed', costs', visited')
      /\ FillInv(costMap', allNodes', n, confirmed', visited', minCost_nodes', fTable')
  BY <1>1, <1>2, <1>4, SearchStarts
<1> QED
  BY <1>3, <1>5 DEF LocalsInv

\* dijkstra clears the tables and begins with the lowest node ID.
LEMMA RecomputeInv ==
    ASSUME GoodNet(costMap', allNodes'), phase' = "dijkstra", NEW ends, Recompute(ends)
    PROVE  TablesInv' /\ LocalsInv'
<1>1. todo' = allNodes' /\ forwardingTable' = << >>
  BY DEF Recompute
<1>2. TablesInv'
  BY <1>1 DEF TablesInv
<1>3. CASE todo' = {}
  <2>1. NoSearch /\ ~Searching'
    BY <1>1, <1>3 DEF Recompute, Searching
  <2> QED
    BY <1>2, <2>1 DEF LocalsInv, NoSearch
<1>4. CASE todo' # {}
  <2>1. StartSearch(Min(todo'))
    BY <1>1, <1>4 DEF Recompute
  <2> QED
    BY <1>2, <1>4, <2>1, LocalsStart
<1> QED
  BY <1>3, <1>4

\* Nothing of a message on its way changes.
LEMMA HopsKept ==
    ASSUME HopsInv, UNCHANGED messageVars, phase' # "hops"
    PROVE  HopsInv'
BY DEF HopsInv, messageVars

\* The files are read.
LEMMA InitInv == Init => LinkStateInv
<1> SUFFICES ASSUME Init PROVE LinkStateInv
  OBVIOUS
<1>1. IsNetwork(costMap)
  BY NetworksAre DEF Init
<1>2. ASSUME NEW i \in Endpoints(costMap) PROVE MAXCOST > 0
  <2>1. PICK j \in Ids : Linked(costMap, i, j)
    BY DEF Endpoints
  <2>2. i \in Ids
    BY DEF Endpoints
  <2>3. costMap[<<i, j>>] \in 1 .. MAXCOST
    BY <1>1, <2>1, <2>2, LinkFacts
  <2> QED
    BY <2>3, MaxCostAssumption
<1>3. GoodNet(costMap, allNodes)
  BY <1>1, <1>2 DEF GoodNet, Init, Endpoints
<1>4. TablesInv
  BY <1>3 DEF TablesInv, Init
<1>5. LocalsInv
  BY DEF LocalsInv, Searching, Init
<1>6. HopsInv
  BY DEF HopsInv, Init
<1> QED
  BY <1>4, <1>5, <1>6 DEF LinkStateInv

\* What is the case during a search.
LEMMA WhileSearching ==
    ASSUME LinkStateInv, Searching
    PROVE  /\ phase = "dijkstra" /\ node \in todo /\ node \in allNodes
           /\ GoodNet(costMap, allNodes) /\ todo \in SUBSET allNodes
           /\ SearchInv(costMap, allNodes, node, confirmed, costs, visited)
           /\ FillInv(costMap, allNodes, node, confirmed, visited, minCost_nodes, fTable)
<1>1. todo \in SUBSET Nat /\ todo # {} /\ todo \in SUBSET allNodes
  BY RoutesAssumption DEF LinkStateInv, TablesInv, GoodNet, Searching
<1>2. node \in todo
  BY <1>1, MinNat DEF node
<1> QED
  BY <1>1, <1>2 DEF LinkStateInv, TablesInv, LocalsInv, Searching

\* The nearest node is confirmed and its links are relaxed.
LEMMA ConfirmInv ==
    ASSUME LinkStateInv, Confirm
    PROVE  LinkStateInv'
<1> DEFINE m == Nearest(allNodes \ confirmed)
           n == node
           open == {v \in allNodes \ (confirmed \cup {m}) : Linked(costMap, m, v)}
<1>1. /\ Searching /\ confirmed # allNodes
      /\ confirmed' = confirmed \cup {m}
      /\ minCost_nodes' = Append(minCost_nodes, m)
      /\ costs' = [v \in allNodes |-> IF v \in open /\ Cheaper(m, v)
                                      THEN costs[m] + costMap[<<m, v>>] ELSE costs[v]]
      /\ visited' = [v \in allNodes |-> IF v \in open /\ (Cheaper(m, v) \/ Ties(m, v))
                                        THEN m ELSE visited[v]]
      /\ UNCHANGED <<phase, costMap, allNodes, forwardingTable, todo, fTable, messageVars>>
  BY DEF Confirm
<1>2. Searching' /\ node' = n
  BY <1>1 DEF Searching, node
<1>3. /\ phase = "dijkstra" /\ GoodNet(costMap, allNodes) /\ n \in allNodes
      /\ SearchInv(costMap, allNodes, n, confirmed, costs, visited)
      /\ FillInv(costMap, allNodes, n, confirmed, visited, minCost_nodes, fTable)
  BY <1>1, WhileSearching
<1> HIDE DEF n
<1>4. /\ IsNetwork(costMap) /\ allNodes \in SUBSET Ids /\ MAXCOST \in Nat
      /\ \A v \in allNodes : v \in Nat /\ v \in Ids
  BY <1>3, MaxCostAssumption, RoutesAssumption DEF GoodNet
<1>5. /\ n \in confirmed /\ confirmed \subseteq allNodes
      /\ costs \in [allNodes -> 1 .. MAXCOST] /\ visited \in [allNodes -> confirmed]
  BY <1>3 DEF SearchInv, SearchTypes
<1>6. m \in allNodes \ confirmed /\ \A u \in allNodes \ confirmed : costs[m] <= costs[u]
  <2>1. allNodes \ confirmed # {} /\ allNodes \ confirmed \in SUBSET Ids
    BY <1>1, <1>4, <1>5
  <2>2. \A v \in allNodes \ confirmed : costs[v] \in Nat
    BY <1>4, <1>5
  <2> QED
    BY <2>1, <2>2, NearestIs
<1> HIDE DEF m
<1>7. ASSUME NEW v \in allNodes
      PROVE  /\ costs[v] \in 1 .. MAXCOST /\ visited[v] \in confirmed
             /\ visited[v] \in Nat /\ costs[m] \in 1 .. MAXCOST
             /\ Linked(costMap, m, v) => costMap[<<m, v>>] \in Nat \ {0}
  <2>1. Linked(costMap, m, v) => costMap[<<m, v>>] \in Nat \ {0}
    BY <1>4, <1>6, LinkFacts
  <2> QED
    BY <1>4, <1>5, <1>6, <2>1
<1>8. ASSUME NEW v \in allNodes
      PROVE  costs'[v] \in 1 .. MAXCOST /\ visited'[v] \in confirmed \cup {m}
  <2>1. CASE v \in open /\ Cheaper(m, v)
    <3>1. costs'[v] = costs[m] + costMap[<<m, v>>] /\ costs'[v] < costs[v]
      BY <1>1, <2>1 DEF Cheaper
    <3> QED
      BY <1>1, <1>4, <1>7, <2>1, <3>1
  <2>2. CASE ~(v \in open /\ Cheaper(m, v))
    BY <1>1, <1>7, <2>2
  <2> QED
    BY <2>1, <2>2
<1>9. costs' \in [allNodes -> 1 .. MAXCOST] /\ visited' \in [allNodes -> confirmed \cup {m}]
  BY <1>1, <1>8
<1>10. \A v \in confirmed \cup {m} : costs'[v] = costs[v] /\ visited'[v] = visited[v]
  BY <1>1, <1>5, <1>6
<1>11. ASSUME NEW v \in allNodes \ (confirmed \cup {m})
       PROVE  Relaxes(costMap, confirmed, m, costs, visited, costs', visited', v)
  <2>1. costs[m] # MAXCOST <=> costs[m] < MAXCOST
    <3>1. costs[m] \in Nat /\ costs[m] <= MAXCOST
      BY <1>4, <1>5, <1>6
    <3> QED
      BY <1>4, <3>1
  <2>2. v \in open <=> Linked(costMap, m, v)
    OBVIOUS
  <2>3. CASE Linked(costMap, m, v) /\ Cheaper(m, v)
    BY <1>1, <2>1, <2>2, <2>3 DEF Cheaper, Relaxes
  <2>4. CASE Linked(costMap, m, v) /\ Ties(m, v)
    <3>1. ~Cheaper(m, v)
      BY <1>7, <2>4 DEF Ties, Cheaper
    <3> QED
      BY <1>1, <2>1, <2>2, <2>4, <3>1 DEF Ties, Relaxes
  <2>5. CASE ~(Linked(costMap, m, v) /\ (Cheaper(m, v) \/ Ties(m, v)))
    <3>1. costs'[v] = costs[v] /\ visited'[v] = visited[v]
      BY <1>1, <2>2, <2>5
    <3>2. ASSUME Linked(costMap, m, v), costs[m] < MAXCOST
          PROVE  \/ costs[m] + costMap[<<m, v>>] > costs[v]
                 \/ costs[m] + costMap[<<m, v>>] = costs[v] /\ visited[v] <= m
      <4>1. ~Cheaper(m, v) /\ ~Ties(m, v) /\ m \in Nat /\ costs[v] \in Nat /\ costs[m] \in Nat
            /\ visited[v] \in Nat /\ costMap[<<m, v>>] \in Nat
        BY <1>4, <1>6, <1>7, <2>5, <3>2
      <4> QED
        BY <2>1, <3>2, <4>1 DEF Cheaper, Ties
    <3> QED
      BY <3>1, <3>2 DEF Relaxes
  <2> QED
    BY <2>3, <2>4, <2>5
<1> HIDE DEF open
<1>12. SearchInv(costMap, allNodes, n, confirmed \cup {m}, costs', visited')
  BY <1>3, <1>6, <1>9, <1>10, <1>11, SearchContinues
<1>13. FillInv(costMap, allNodes, n, confirmed \cup {m}, visited',
               Append(minCost_nodes, m), fTable)
  BY <1>3, <1>5, <1>6, <1>10, FillAppends
<1>14. LocalsInv'
  BY <1>1, <1>2, <1>12, <1>13 DEF LocalsInv
<1>15. TablesInv'
  BY <1>1 DEF LinkStateInv, TablesInv
<1>16. HopsInv'
  BY <1>1, <1>3, HopsKept DEF LinkStateInv
<1> QED
  BY <1>14, <1>15, <1>16 DEF LinkStateInv

\* The next entry is filled in.
LEMMA FillEntryInv ==
    ASSUME LinkStateInv, FillEntry
    PROVE  LinkStateInv'
<1> DEFINE first == Head(minCost_nodes)
           e == [first |-> NextHop(first), second |-> costs[first]]
<1>1. /\ Searching /\ confirmed = allNodes /\ minCost_nodes # << >>
      /\ minCost_nodes' = Tail(minCost_nodes)
      /\ fTable' = Filled(fTable, first, e)
      /\ UNCHANGED <<phase, costMap, allNodes, forwardingTable, todo,
                     confirmed, visited, costs, messageVars>>
  BY DEF FillEntry, Filled
<1>2. /\ phase = "dijkstra" /\ node \in allNodes /\ GoodNet(costMap, allNodes)
      /\ SearchInv(costMap, allNodes, node, allNodes, costs, visited)
      /\ FillInv(costMap, allNodes, node, allNodes, visited, minCost_nodes, fTable)
  BY <1>1, WhileSearching
<1>3. e = [first |-> IF visited[Head(minCost_nodes)] # node
                     THEN fTable[visited[Head(minCost_nodes)]].first ELSE Head(minCost_nodes),
           second |-> costs[Head(minCost_nodes)]]
  BY DEF NextHop
<1>4. Searching' /\ node' = node
  BY <1>1 DEF Searching, node
<1> HIDE DEF e
<1>5. FillInv(costMap, allNodes, node, allNodes, visited, Tail(minCost_nodes),
              Filled(fTable, Head(minCost_nodes), e))
  BY <1>1, <1>2, <1>3, FillsEntry
<1>6. FillInv(costMap, allNodes, node, allNodes, visited, minCost_nodes', fTable')
  BY <1>1, <1>5
<1>7. LocalsInv'
  BY <1>1, <1>2, <1>4, <1>6 DEF LocalsInv
<1>8. TablesInv'
  BY <1>1 DEF LinkStateInv, TablesInv
<1>9. HopsInv'
  BY <1>1, <1>2, HopsKept DEF LinkStateInv
<1> QED
  BY <1>7, <1>8, <1>9 DEF LinkStateInv

\* The table of the node is complete.
LEMMA FinishSourceInv ==
    ASSUME LinkStateInv, FinishSource
    PROVE  LinkStateInv'
<1>1. /\ Searching /\ confirmed = allNodes /\ minCost_nodes = << >>
      /\ forwardingTable' = [s \in DOMAIN forwardingTable \cup {node} |->
                                IF s = node THEN fTable ELSE forwardingTable[s]]
      /\ todo' = todo \ {node}
      /\ UNCHANGED <<phase, costMap, allNodes, messageVars>>
      /\ IF todo' = {} THEN NoSearch ELSE StartSearch(Min(todo'))
  BY DEF FinishSource
<1>2. /\ phase = "dijkstra" /\ node \in todo /\ node \in allNodes /\ GoodNet(costMap, allNodes)
      /\ todo \in SUBSET allNodes
      /\ FillInv(costMap, allNodes, node, allNodes, visited, << >>, fTable)
  BY <1>1, WhileSearching
<1>3. fTable \in [allNodes -> Entry] /\ \A d \in allNodes : RightEntry(costMap, node, d, fTable[d])
  <2>1. allNodes = DOMAIN fTable \cup {<< >>[i] : i \in 1 .. Len(<< >>)}
    BY <1>2 DEF FillInv
  <2>2. DOMAIN fTable = allNodes
    BY <2>1
  <2> QED
    BY <1>2, <2>2 DEF FillInv
<1>4. DOMAIN forwardingTable' = allNodes \ todo'
  <2>1. DOMAIN forwardingTable = allNodes \ todo
    BY <1>2 DEF LinkStateInv, TablesInv
  <2> QED
    BY <1>1, <1>2, <2>1
<1>5. ASSUME NEW s \in DOMAIN forwardingTable'
      PROVE  /\ forwardingTable'[s] \in [allNodes -> Entry]
             /\ \A d \in allNodes : RightEntry(costMap, s, d, forwardingTable'[s][d])
  <2>1. CASE s = node
    <3>1. forwardingTable'[s] = fTable
      BY <1>1, <2>1
    <3> QED
      BY <1>3, <2>1, <3>1
  <2>2. CASE s # node
    <3>1. s \in DOMAIN forwardingTable /\ forwardingTable'[s] = forwardingTable[s]
      BY <1>1, <2>2
    <3> QED
      BY <3>1 DEF LinkStateInv, TablesInv
  <2> QED
    BY <2>1, <2>2
<1>6. TablesInv'
  BY <1>1, <1>2, <1>4, <1>5 DEF TablesInv
<1>7. LocalsInv'
  <2>1. CASE todo' = {}
    BY <1>1, <2>1 DEF LocalsInv, Searching, NoSearch
  <2>2. CASE todo' # {}
    BY <1>1, <1>2, <1>6, <2>2, LocalsStart
  <2> QED
    BY <2>1, <2>2
<1>8. HopsInv'
  BY <1>1, <1>2, HopsKept DEF LinkStateInv
<1> QED
  BY <1>6, <1>7, <1>8 DEF LinkStateInv

\* What is the case when the tables are announced.
LEMMA WhileReady ==
    ASSUME LinkStateInv, ready
    PROVE  /\ todo = {} /\ DOMAIN forwardingTable = allNodes /\ ~Searching
           /\ \A s, d \in allNodes : /\ forwardingTable[s][d] \in Entry
                                     /\ RightEntry(costMap, s, d, forwardingTable[s][d])
<1>1. phase # "dijkstra" /\ phase # "start"
  BY DEF ready
<1>2. todo = {} /\ DOMAIN forwardingTable = allNodes
  BY <1>1 DEF LinkStateInv, TablesInv
<1>3. \A s, d \in allNodes : RightEntry(costMap, s, d, forwardingTable[s][d])
  BY <1>2 DEF LinkStateInv, TablesInv
<1> QED
  BY <1>1, <1>2, <1>3 DEF RightEntry, Searching

\* A change of the network, after which the tables are cleared.
LEMMA ChangeInv ==
    ASSUME LinkStateInv, Change
    PROVE  LinkStateInv'
<1>1. PICK src \in Ids, dest \in Ids, cost \in Costs \cup {NoLink} :
         /\ phase = "messages" /\ src # dest
         /\ phase' = "dijkstra"
         /\ costMap' = Relinked(costMap, src, dest, cost)
         /\ allNodes' = IF cost = NoLink THEN allNodes ELSE allNodes \cup {src, dest}
         /\ UNCHANGED messageVars
         /\ Recompute({src, dest})
  BY DEF Change
<1>2. GoodNet(costMap, allNodes)
  BY DEF LinkStateInv, TablesInv
<1>3. IsNetwork(costMap) /\ allNodes \in SUBSET Ids /\ Endpoints(costMap) \subseteq allNodes
      /\ (allNodes # {} => MAXCOST > 0)
  BY <1>2 DEF GoodNet
<1>4. /\ IsNetwork(costMap')
      /\ Endpoints(costMap') \subseteq
             Endpoints(costMap) \cup (IF cost = NoLink THEN {} ELSE {src, dest})
  BY <1>1, <1>3, RelinkedNetwork
<1>5. allNodes' # {} => MAXCOST > 0
  <2>1. CASE cost = NoLink
    BY <1>1, <1>3, <2>1
  <2>2. CASE cost # NoLink
    <3>1. cost \in Costs
      BY <1>1, <2>2
    <3>2. cost \in Nat \ {0} /\ cost <= MAXCOST
      BY <3>1, MaxCostAssumption, RoutesAssumption
    <3> QED
      BY <3>2, MaxCostAssumption
  <2> QED
    BY <2>1, <2>2
<1>6. GoodNet(costMap', allNodes')
  BY <1>1, <1>3, <1>4, <1>5 DEF GoodNet
<1>7. TablesInv' /\ LocalsInv'
  BY <1>1, <1>6, RecomputeInv
<1>8. HopsInv'
  BY <1>1, HopsKept DEF LinkStateInv
<1> QED
  BY <1>7, <1>8 DEF LinkStateInv

\* A message whose destination can be reached starts out.
LEMMA SendInv ==
    ASSUME LinkStateInv, Send
    PROVE  LinkStateInv'
<1>1. PICK s \in Ids, d \in Ids :
         /\ phase = "messages" /\ ~Unreachable(s, d)
         /\ phase' = "hops"
         /\ source' = s /\ destination' = d /\ hop_now' = s /\ hops' = << >>
         /\ UNCHANGED <<costMap, allNodes, forwardingTable, todo, searchVars>>
  BY DEF Send
<1>2. s \in allNodes /\ d \in allNodes /\ forwardingTable[s][d].second # MAXCOST
  BY <1>1 DEF Unreachable
<1>3. /\ forwardingTable[s][d].second = Dist(costMap, s, d) /\ ~Searching
      /\ todo = {}
  BY <1>1, <1>2, WhileReady DEF ready, RightEntry
<1>4. IsNetwork(costMap)
  BY DEF LinkStateInv, TablesInv, GoodNet
<1>5. Dist(costMap, s, d) \in 0 .. MAXCOST /\ Dist(costMap, s, d) < MAXCOST
  <2>1. Dist(costMap, s, d) \in 0 .. MAXCOST
    BY <1>4, DistFacts
  <2> QED
    BY <1>2, <1>3, <2>1, MaxCostAssumption
<1>6. WalkCost(costMap, Append(hops', hop_now')) = 0
  <2>1. Append(hops', hop_now') = << s >>
    BY <1>1
  <2>2. << s >> \in Seq(Ids) /\ << s >> # << >>
    OBVIOUS
  <2>3. WalkCost(costMap, << s >>) = 0
    BY <2>2, WalkCosts
  <2> QED
    BY <2>1, <2>3
<1>7. hops' \in Seq(Ids) /\ Len(hops') = 0 /\ 1 .. 0 = {}
  BY <1>1
<1>8. Dist(costMap', source', destination') =
         WalkCost(costMap', Append(hops', hop_now')) + Dist(costMap', hop_now', destination')
  BY <1>1, <1>5, <1>6
<1>9. HopsInv'
  BY <1>1, <1>2, <1>5, <1>6, <1>7, <1>8 DEF HopsInv
<1>10. TablesInv'
  BY <1>1, <1>3 DEF LinkStateInv, TablesInv
<1>11. LocalsInv'
  BY <1>1, <1>3 DEF LinkStateInv, LocalsInv, Searching, searchVars
<1> QED
  BY <1>9, <1>10, <1>11 DEF LinkStateInv

\* A hop goes to a neighbour that is nearer to the destination by just the cost of
\* the link, so that no node is met twice and the model remembers every hop.
LEMMA HopInv ==
    ASSUME LinkStateInv, Hop
    PROVE  LinkStateInv'
<1> DEFINE d == destination
           h == hop_now
           nh == forwardingTable[hop_now][destination].first
           walk == Append(hops, hop_now)
           n == Len(hops)
           D(i) == Dist(costMap, i, destination)
<1>1. /\ phase = "hops" /\ h # d
      /\ hops' = IF n < MaxHops THEN walk ELSE hops
      /\ hop_now' = nh
      /\ UNCHANGED <<phase, costMap, allNodes, forwardingTable, todo, searchVars,
                     source, destination>>
  BY DEF Hop
<1>2. /\ source \in allNodes /\ d \in allNodes /\ h \in allNodes
      /\ hops \in Seq(Ids) /\ n \in Nat
      /\ Dist(costMap, source, d) < MAXCOST /\ D(h) < MAXCOST
      /\ WalkCost(costMap, walk) \in Nat
      /\ Dist(costMap, source, d) = WalkCost(costMap, walk) + D(h)
      /\ \A i \in 1 .. n : D(hops[i]) > D(h)
      /\ \A i, j \in 1 .. n : i < j => D(hops[i]) > D(hops[j])
  BY <1>1 DEF LinkStateInv, HopsInv
<1>3. /\ IsNetwork(costMap) /\ allNodes \in SUBSET Ids /\ Endpoints(costMap) \subseteq allNodes
      /\ \A i \in Ids : D(i) \in Nat
  <2>1. IsNetwork(costMap) /\ allNodes \in SUBSET Ids /\ Endpoints(costMap) \subseteq allNodes
    BY DEF LinkStateInv, TablesInv, GoodNet
  <2>2. \A i \in Ids : D(i) \in 0 .. MAXCOST
    BY <1>2, <2>1, DistFacts
  <2> QED
    BY <2>1, <2>2, MaxCostAssumption
<1>4. /\ nh \in Ids
      /\ Linked(costMap, h, nh) /\ D(h) = costMap[<<h, nh>>] + D(nh)
  <2>1. RightEntry(costMap, h, d, forwardingTable[h][d]) /\ forwardingTable[h][d] \in Entry
    BY <1>1, <1>2, WhileReady DEF ready
  <2> QED
    BY <1>1, <1>2, <2>1 DEF RightEntry, Entry
<1>5. costMap[<<h, nh>>] \in Nat \ {0} /\ nh \in allNodes
  BY <1>2, <1>3, <1>4, LinkFacts
<1>6. D(nh) \in Nat /\ D(h) \in Nat /\ D(nh) < D(h) /\ D(nh) < MAXCOST
  BY <1>2, <1>3, <1>4, <1>5, MaxCostAssumption
<1>7. /\ walk \in Seq(Ids) /\ walk # << >> /\ Len(walk) = n + 1 /\ walk[n + 1] = h
      /\ \A i \in 1 .. n : walk[i] = hops[i] /\ hops[i] \in Ids
  <2>1. hops \in Seq(Ids) /\ h \in Ids
    BY <1>2, <1>3
  <2> QED
    BY <2>1
<1> HIDE DEF walk, n, nh, d, h, D
<1>8. \A i \in 1 .. n + 1 : D(walk[i]) > D(nh)
  <2> TAKE i \in 1 .. n + 1
  <2>1. CASE i = n + 1
    BY <1>6, <1>7, <2>1
  <2>2. CASE i # n + 1
    <3>1. i \in 1 .. n
      BY <1>2, <2>2
    <3>2. D(walk[i]) \in Nat /\ D(walk[i]) > D(h)
      BY <1>2, <1>3, <1>7, <3>1
    <3> QED
      BY <1>6, <3>2
  <2> QED
    BY <2>1, <2>2
<1>9. \A i, j \in 1 .. n + 1 : i < j => D(walk[i]) > D(walk[j])
  <2> TAKE i, j \in 1 .. n + 1
  <2> HAVE i < j
  <2>1. i \in 1 .. n /\ walk[i] = hops[i]
    BY <1>2, <1>7
  <2>2. CASE j = n + 1
    BY <1>2, <1>7, <2>1, <2>2
  <2>3. CASE j # n + 1
    <3>1. j \in 1 .. n /\ walk[j] = hops[j]
      BY <1>2, <1>7, <2>3
    <3> QED
      BY <1>2, <2>1, <3>1
  <2> QED
    BY <2>2, <2>3
<1>10. hops' = walk
  <2>1. ASSUME NEW i \in 1 .. n + 1, NEW j \in 1 .. n + 1, i < j PROVE walk[i] # walk[j]
    <3>1. walk[i] \in Ids /\ D(walk[i]) \in Nat
      BY <1>2, <1>3, <1>7
    <3>2. D(walk[i]) > D(walk[j])
      BY <1>9, <2>1
    <3> QED
      BY <3>1, <3>2
  <2>2. Len(walk) <= Cardinality(Ids)
    BY <1>7, <2>1, WalkBound
  <2>3. Cardinality(Ids) \in Nat
    BY RoutesAssumption, FS_CardinalityType
  <2> QED
    BY <1>1, <1>2, <1>7, <2>2, <2>3 DEF MaxHops
<1>11. /\ WalkCost(costMap, Append(walk, nh)) = WalkCost(costMap, walk) + costMap[<<h, nh>>]
       /\ WalkCost(costMap, Append(walk, nh)) \in Nat
  <2>1. WalkCost(costMap, Append(walk, nh)) =
           WalkCost(costMap, walk) + costMap[<<walk[Len(walk)], nh>>]
    <3>1. walk \in Seq(Ids) /\ walk # << >> /\ nh \in Ids
      BY <1>4, <1>7
    <3> QED
      BY <3>1, WalkCosts
  <2>2. walk[Len(walk)] = h
    BY <1>7
  <2>3. WalkCost(costMap, Append(walk, nh)) = WalkCost(costMap, walk) + costMap[<<h, nh>>]
    BY <2>1, <2>2
  <2> QED
    BY <1>2, <1>5, <2>3
<1>12. Dist(costMap, source, d) = WalkCost(costMap, Append(walk, nh)) + D(nh)
  BY <1>2, <1>4, <1>5, <1>6, <1>11
<1>13. HopsInv'
  <2>1. /\ hops' = walk /\ hop_now' = nh /\ phase' = "hops" /\ source' = source
        /\ destination' = d /\ costMap' = costMap /\ allNodes' = allNodes
    BY <1>1, <1>10 DEF d
  <2>2. Len(hops') = n + 1
    BY <1>7, <2>1
  <2>3. {source, d, nh} \subseteq Ids \cup {0}
    BY <1>2, <1>3, <1>4
  <2>4. \A i : D(i) = Dist(costMap, i, d)
    BY DEF D, d
  <2> QED
    BY <1>2, <1>5, <1>6, <1>7, <1>8, <1>9, <1>11, <1>12, <2>1, <2>2, <2>3, <2>4 DEF HopsInv
<1>14. TablesInv' /\ LocalsInv'
  BY <1>1 DEF LinkStateInv, TablesInv, LocalsInv, Searching, node, searchVars
<1> QED
  BY <1>13, <1>14 DEF LinkStateInv

\* Every step keeps the invariant.
LEMMA StepInv == LinkStateInv /\ [Next]_vars => LinkStateInv'
<1> SUFFICES ASSUME LinkStateInv, [Next]_vars PROVE LinkStateInv'
  OBVIOUS
<1>1. CASE Start
  <2>1. /\ GoodNet(costMap, allNodes) /\ costMap' = costMap /\ allNodes' = allNodes
        /\ phase' = "dijkstra" /\ Recompute({}) /\ UNCHANGED messageVars
    BY <1>1 DEF Start, LinkStateInv, TablesInv
  <2>2. TablesInv' /\ LocalsInv'
    BY <2>1, RecomputeInv
  <2> QED
    BY <2>1, <2>2, HopsKept DEF LinkStateInv
<1>2. CASE Confirm
  BY <1>2, ConfirmInv
<1>3. CASE FillEntry
  BY <1>3, FillEntryInv
<1>4. CASE FinishSource
  BY <1>4, FinishSourceInv
<1>5. CASE Announce
  <2>1. /\ todo = {} /\ phase = "dijkstra" /\ phase' = "messages"
        /\ UNCHANGED <<costMap, allNodes, forwardingTable, todo, searchVars, messageVars>>
    BY <1>5 DEF Announce
  <2>2. TablesInv'
    BY <2>1 DEF LinkStateInv, TablesInv
  <2>3. LocalsInv'
    BY <2>1 DEF LinkStateInv, LocalsInv, Searching, searchVars
  <2> QED
    BY <2>1, <2>2, <2>3, HopsKept DEF LinkStateInv
<1>6. CASE Send
  BY <1>6, SendInv
<1>7. CASE Hop
  BY <1>7, HopInv
<1>8. CASE Deliver
  <2>1. /\ phase = "hops" /\ phase' = "messages"
        /\ source' = 0 /\ destination' = 0 /\ hop_now' = 0 /\ hops' = << >>
        /\ UNCHANGED <<costMap, allNodes, forwardingTable, todo, searchVars>>
    BY <1>8 DEF Deliver
  <2>2. TablesInv' /\ LocalsInv'
    BY <2>1 DEF LinkStateInv, TablesInv, LocalsInv, Searching, node, searchVars
  <2>3. HopsInv'
    BY <2>1 DEF HopsInv
  <2> QED
    BY <2>2, <2>3 DEF LinkStateInv
<1>9. CASE Change
  BY <1>9, ChangeInv
<1>10. CASE Finish
  <2>1. /\ phase = "messages" /\ phase' = "done"
        /\ UNCHANGED <<costMap, allNodes, forwardingTable, todo, searchVars, messageVars>>
    BY <1>10 DEF Finish
  <2>2. TablesInv' /\ LocalsInv'
    BY <2>1 DEF LinkStateInv, TablesInv, LocalsInv, Searching, node, searchVars
  <2> QED
    BY <2>1, <2>2, HopsKept DEF LinkStateInv
<1>11. CASE UNCHANGED vars
  BY <1>11 DEF LinkStateInv, TablesInv, LocalsInv, HopsInv, Searching, node,
               vars, searchVars, messageVars
<1>12. CASE Done
  BY <1>11, <1>12 DEF Done
<1> QED
  BY <1>1, <1>2, <1>3, <1>4, <1>5, <1>6, <1>7, <1>8, <1>9, <1>10, <1>11, <1>12 DEF Next

-----------------------------------------------------------------------------
(***************************************************************************)
(* What the invariant says of the properties.                              *)
(***************************************************************************)
LEMMA TypeFollows == LinkStateInv => TypeOK
<1> SUFFICES ASSUME LinkStateInv PROVE TypeOK
  OBVIOUS
<1>1. /\ phase \in {"start", "dijkstra", "messages", "hops", "done"}
      /\ costMap \in [Pairs -> Costs \cup {NoLink}]
      /\ allNodes \in SUBSET Ids /\ todo \in SUBSET allNodes
      /\ DOMAIN forwardingTable \in SUBSET allNodes
      /\ \A s \in DOMAIN forwardingTable : forwardingTable[s] \in [allNodes -> Entry]
  BY DEF LinkStateInv, TablesInv, GoodNet, IsNetwork
<1>2. CASE Searching
  <2>1. /\ SearchInv(costMap, allNodes, node, confirmed, costs, visited)
        /\ FillInv(costMap, allNodes, node, confirmed, visited, minCost_nodes, fTable)
    BY <1>2, WhileSearching
  <2>2. /\ {node} \subseteq confirmed /\ confirmed \subseteq allNodes
        /\ costs \in [allNodes -> 1 .. MAXCOST] /\ visited \in [allNodes -> allNodes]
    BY <2>1 DEF SearchInv, SearchTypes
  <2>3. minCost_nodes \in Seq(confirmed)
    BY <2>1 DEF FillInv
  <2>4. DOMAIN fTable \subseteq confirmed /\ \A d \in DOMAIN fTable : fTable[d] \in Entry
    BY <2>1 DEF FillInv
  <2> QED
    BY <1>1, <1>2, <2>2, <2>3, <2>4 DEF LinkStateInv, HopsInv, TypeOK
<1>3. CASE ~Searching
  BY <1>1, <1>3 DEF LinkStateInv, LocalsInv, HopsInv, TypeOK
<1> QED
  BY <1>2, <1>3

LEMMA FinalFollows == LinkStateInv => ConfirmedFinal
<1> SUFFICES ASSUME LinkStateInv, Searching,
                    NEW u \in confirmed, NEW v \in allNodes \ {node}
             PROVE  /\ v \notin confirmed => Found(u) <= costs[v]
                    /\ Linked(costMap, u, v) /\ Found(u) < MAXCOST =>
                          costs[v] <= Found(u) + costMap[<<u, v>>]
                    /\ u = visited[v] /\ costs[v] < MAXCOST =>
                          Linked(costMap, u, v) /\ costs[v] = Found(u) + costMap[<<u, v>>]
  BY DEF ConfirmedFinal
<1>1. SearchInv(costMap, allNodes, node, confirmed, costs, visited)
  BY WhileSearching
<1>2. Found(u) = Cost(node, costs, u)
  BY DEF Found, Cost
<1> QED
  BY <1>1, <1>2 DEF SearchInv, Nearer, Relaxed, Backed

LEMMA LowestFollows == LinkStateInv => LowestPredecessor
<1> SUFFICES ASSUME LinkStateInv, Searching, confirmed = allNodes,
                    NEW v \in allNodes \ {node}, costs[v] < MAXCOST
             PROVE  visited[v] = Min({u \in allNodes :
                                         /\ Linked(costMap, u, v)
                                         /\ Found(u) + costMap[<<u, v>>] = costs[v]})
  BY DEF LowestPredecessor
<1> DEFINE S == {u \in allNodes : /\ Linked(costMap, u, v)
                                  /\ Found(u) + costMap[<<u, v>>] = costs[v]}
<1>1. /\ SearchInv(costMap, allNodes, node, allNodes, costs, visited)
      /\ allNodes \in SUBSET Nat
  BY WhileSearching, RoutesAssumption DEF GoodNet
<1>2. \A u : Found(u) = Cost(node, costs, u)
  BY DEF Found, Cost
<1>3. visited[v] \in allNodes
  BY <1>1 DEF SearchInv, SearchTypes
<1>4. visited[v] \in S
  BY <1>1, <1>2, <1>3 DEF SearchInv, Backed
<1>5. S \in SUBSET Nat /\ S # {}
  BY <1>1, <1>4
<1>6. Min(S) \in S /\ Min(S) <= visited[v]
  BY <1>4, <1>5, MinNat
<1>7. visited[v] <= Min(S)
  <2>1. \A u \in S : visited[v] <= u
    BY <1>1, <1>2 DEF SearchInv, Lowest
  <2> QED
    BY <1>6, <2>1
<1>8. visited[v] \in Nat /\ Min(S) \in Nat
  BY <1>1, <1>3, <1>5, <1>6
<1> HIDE DEF S
<1>9. visited[v] = Min(S)
  BY <1>6, <1>7, <1>8
<1> QED
  BY <1>9 DEF S

LEMMA HopsFollow == LinkStateInv => HopsAddUp
<1> SUFFICES ASSUME LinkStateInv, phase = "hops"
             PROVE  forwardingTable[source][destination].second =
                       WalkCost(costMap, Append(hops, hop_now))
                       + forwardingTable[hop_now][destination].second
  BY DEF HopsAddUp
<1>1. /\ source \in allNodes /\ destination \in allNodes /\ hop_now \in allNodes
      /\ Dist(costMap, source, destination) =
            WalkCost(costMap, Append(hops, hop_now)) + Dist(costMap, hop_now, destination)
  BY DEF LinkStateInv, HopsInv
<1>2. \A s, d \in allNodes : forwardingTable[s][d].second = Dist(costMap, s, d)
  BY WhileReady DEF ready, RightEntry
<1> QED
  BY <1>1, <1>2

-----------------------------------------------------------------------------
(***************************************************************************)
(* The theorems.                                                           *)
(***************************************************************************)
LEMMA LinkStateInvariant == Spec => []LinkStateInv
BY InitInv, StepInv, PTL DEF Spec

\* Every variable of linkstate keeps its type, and the locals of dijkstra are empty
\* outside of a search.
THEOREM LinkStateType == Spec => []TypeOK
BY LinkStateInvariant, TypeFollows, PTL

\* A node that is confirmed has its final cost, so that the code may skip it from
\* then on, and every cost that was found is that of a route over the node visited
\* names.
THEOREM ConfirmedNodesFinal == Spec => []ConfirmedFinal
BY LinkStateInvariant, FinalFollows, PTL

\* Of all nodes right before v on a cheapest route, the search ends with the lowest.
THEOREM TiesGoToLowest == Spec => []LowestPredecessor
BY LinkStateInvariant, LowestFollows, PTL

\* The tables of different sources agree: the hops of a message cost together what
\* the table of its source announces.
THEOREM MessagesCostWhatIsAnnounced == Spec => []HopsAddUp
BY LinkStateInvariant, HopsFollow, PTL

-----------------------------------------------------------------------------
(***************************************************************************)
(* linkstate implements Routing.                                           *)
(***************************************************************************)
\* The table of Routing made of the tables ft of all nodes.
TableOf(all, ft) == [p \in all \X all |-> LET e == ft[p[1]][p[2]]
                                          IN  [cost |-> e.second, next |-> e.first]]

LEMMA SameNetworks ==
    /\ R!Networks = Networks /\ R!Pairs = Pairs
    /\ \A net : R!Endpoints(net) = Endpoints(net)
    /\ \A net, i, j : R!Linked(net, i, j) <=> Linked(net, i, j)
<1>1. R!Networks = Networks
  BY DEF R!Networks, Networks, R!Pairs, Pairs, R!NoLink, NoLink, R!kSubset, kSubset,
         R!Cardinality, Cardinality
<1> QED
  BY <1>1 DEF R!Pairs, Pairs, R!NoLink, NoLink, R!Endpoints, Endpoints, R!Linked, Linked

LEMMA SameCheapest == \A net, infinity : R!Cheapest(net, infinity) = Cheapest(net, infinity)
BY DEF R!Cheapest, Cheapest, R!Pairs, Pairs, R!Min, Min,
       R!DirectCost, DirectCost, R!NoLink, NoLink

\* Tables of right entries announce cheapest routes.
LEMMA TablesAnnounce ==
    ASSUME NEW net, NEW all \in SUBSET Ids, NEW ft,
           \A s, d \in all : RightEntry(net, s, d, ft[s][d])
    PROVE  R!Announces(TableOf(all, ft), net) /\ DOMAIN TableOf(all, ft) = all \X all
<1> DEFINE t == TableOf(all, ft)
           cost == Cheapest(net, MAXCOST)
<1>1. DOMAIN t = all \X all
  BY DEF TableOf
<1>2. ASSUME NEW s \in all, NEW d \in all
      PROVE  t[<<s, d>>].cost = ft[s][d].second /\ t[<<s, d>>].next = ft[s][d].first
  BY DEF TableOf
<1> HIDE DEF t, cost
<1>3. ASSUME NEW p \in all \X all
      PROVE  /\ t[p].cost = cost[p]
             /\ p[1] # p[2] /\ cost[p] < MAXCOST =>
                   /\ Linked(net, p[1], t[p].next)
                   /\ cost[p] = net[<<p[1], t[p].next>>] + cost[<<t[p].next, p[2]>>]
  <2>1. PICK s \in all, d \in all : p = <<s, d>>
    OBVIOUS
  <2>2. /\ t[p].cost = ft[s][d].second /\ t[p].next = ft[s][d].first
        /\ p[1] = s /\ p[2] = d
    BY <1>2, <2>1
  <2>3. RightEntry(net, s, d, ft[s][d])
    OBVIOUS
  <2> QED
    BY <2>1, <2>2, <2>3 DEF RightEntry, Dist, cost
<1> QED
  BY <1>1, <1>3, SameCheapest, SameNetworks DEF R!Announces, t, cost

LEMMA StepRefines ==
    ASSUME LinkStateInv, [Next]_vars
    PROVE  [R!Next]_(R!routingVars)
<1> DEFINE T == IF ready THEN TableOf(allNodes, forwardingTable) ELSE << >>
<1>1. (UNCHANGED <<costMap, ready, T>>) => [R!Next]_(R!routingVars)
  BY DEF R!routingVars, TableOf
<1>2. ASSUME UNCHANGED <<costMap, allNodes, forwardingTable>>, ready' = ready
      PROVE  UNCHANGED <<costMap, ready, T>>
  BY <1>2
<1>3. CASE Start \/ Confirm \/ FillEntry \/ FinishSource
  <2>1. UNCHANGED costMap /\ ready = FALSE /\ ready' = FALSE
    BY <1>3 DEF Start, Confirm, FillEntry, FinishSource, Searching, ready
  <2> QED
    BY <1>1, <2>1
<1>4. CASE Announce
  <2>1. /\ ready = FALSE /\ ready' = TRUE /\ todo = {}
        /\ UNCHANGED <<costMap, allNodes, forwardingTable>>
    BY <1>4 DEF Announce, ready
  <2>2. /\ allNodes \in SUBSET Ids /\ Endpoints(costMap) \subseteq allNodes
        /\ \A s, d \in allNodes : RightEntry(costMap, s, d, forwardingTable[s][d])
    BY <1>4 DEF Announce, LinkStateInv, TablesInv, GoodNet
  <2>3. T' = TableOf(allNodes, forwardingTable)
    BY <2>1
  <2>4. R!Announces(T', costMap) /\ DOMAIN T' = allNodes \X allNodes
    BY <2>2, <2>3, TablesAnnounce
  <2>5. \E known \in SUBSET Ids : R!Endpoints(costMap) \subseteq known
                                  /\ DOMAIN T' = known \X known
    BY <2>2, <2>4, SameNetworks
  <2>6. R!Announce
    BY <2>1, <2>4, <2>5 DEF R!Announce, TableOf
  <2> QED
    BY <2>6 DEF R!Next
<1>5. CASE Send \/ Hop \/ Deliver \/ Finish
  <2>1. UNCHANGED <<costMap, allNodes, forwardingTable>> /\ ready' = ready
    BY <1>5 DEF Send, Hop, Deliver, Finish, ready
  <2> QED
    BY <1>1, <1>2, <2>1
<1>6. CASE Change
  <2>1. PICK src \in Ids, dest \in Ids, cost \in Costs \cup {NoLink} :
           /\ phase = "messages" /\ src # dest /\ phase' = "dijkstra"
           /\ costMap' = Relinked(costMap, src, dest, cost)
    BY <1>6 DEF Change
  <2>2. ready = TRUE /\ ready' = FALSE /\ T' = << >>
    BY <2>1 DEF ready
  <2>3. IsNetwork(costMap)
    BY DEF LinkStateInv, TablesInv, GoodNet
  <2>4. /\ IsNetwork(costMap')
        /\ \A p \in Pairs \ {<<src, dest>>, <<dest, src>>} : costMap'[p] = costMap[p]
    BY <2>1, <2>3, RelinkedNetwork
  <2>5. costMap' \in R!Networks
    BY <2>4, NetworksAre, SameNetworks
  <2>6. R!Change
    BY <2>2, <2>4, <2>5, SameNetworks DEF R!Change, R!NoTable, TableOf
  <2> QED
    BY <2>6 DEF R!Next
<1>7. CASE Done \/ UNCHANGED vars
  <2>1. UNCHANGED <<costMap, allNodes, forwardingTable>> /\ ready' = ready
    BY <1>7 DEF Done, vars, ready
  <2> QED
    BY <1>1, <1>2, <2>1
<1> QED
  BY <1>3, <1>4, <1>5, <1>6, <1>7 DEF Next

\* All that linkstate announces, after the topology and after every change, are the
\* cheapest routes of the network as the files describe it at that point.
THEOREM LinkStateImplementsRouting == Spec => ImplementsRouting
<1>1. Init => R!Init
  <2>1. Init => costMap \in R!Networks /\ ready = FALSE
    BY SameNetworks DEF Init, ready
  <2> QED
    BY <2>1 DEF R!Init, R!NoTable
<1>2. LinkStateInv /\ [Next]_vars => [R!Next]_(R!routingVars)
  BY StepRefines
<1> QED
  BY <1>1, <1>2, LinkStateInvariant, PTL DEF Spec, ImplementsRouting, R!Spec

=============================================================================
