---------------------------- MODULE DistVecProofs ----------------------------
(***************************************************************************)
(* The algorithm of Bellman and Ford as distvec programs it, on tables it  *)
(* updates in place, for every set of nodes, every network between them    *)
(* and every sequence of changes: the rounds it makes suffice, and what it *)
(* announces implements Routing.                                           *)
(***************************************************************************)
EXTENDS DistVec, RoutesProofs

\* The cost of the cheapest route, by definition.
Dist(net, i, j) == Cheapest(net, Infinity)[<<i, j>>]

\* The table: what its entries may be, what it says a route costs.
Tables(nds) == [nds \X nds -> [first : nds, second : Nat]
                              \cup {[first |-> -1, second |-> NoLink], [first |-> 0, second |-> 0]}]

Cost(table, s, r) == table[<<s, r>>].second

SelfFree(nds, table) == \A s \in nds : Cost(table, s, s) = 0

\* A route that is known leads over a neighbour that knows a nearer one.
Backed(net, nds, table) ==
    \A s, r \in nds : s # r /\ Cost(table, s, r) # NoLink =>
        LET k == table[<<s, r>>].first
        IN  /\ k \in nds \ {s} /\ Linked(net, s, k) /\ Cost(table, k, r) # NoLink
            /\ Cost(table, s, r) >= net[<<s, k>>] + Cost(table, k, r)

GoodTable(net, nds, table) ==
    /\ table \in Tables(nds) /\ SelfFree(nds, table) /\ Backed(net, nds, table)

\* For the pairs of P the table is as good as the routes of at most n links.
Covers(net, table, n, P) ==
    \A p \in P : CheapestWithin(net, Infinity, n)[p] < Infinity =>
        table[p].second \in 0 .. CheapestWithin(net, Infinity, n)[p]

-----------------------------------------------------------------------------
(***************************************************************************)
(* The invariant of distvec.                                               *)
(***************************************************************************)
TopoInv ==
    /\ phase \in {"generate", "bellMan", "messages", "hops", "done"}
    /\ topo \in [Pairs -> Costs \cup {NoLink, 0}]
    /\ \A i \in Ids : topo[<<i, i>>] = 0
    /\ nodes \in SUBSET Ids
    /\ IsNetwork(Known) /\ Endpoints(Known) \subseteq nodes

\* The entries whose call has come in this round have taken one more link into
\* account than the others.
RoundInv ==
    /\ forwardTable \in Tables(nodes)
    /\ iter \in 0 .. Rounds + 1 /\ todo \in SUBSET (nodes \X nodes)
    /\ phase # "generate" =>
          /\ GoodTable(Known, nodes, forwardTable)
          /\ iter # 0 /\ (iter > Rounds => todo = {}) /\ (phase # "bellMan" => iter > Rounds)
          /\ Covers(Known, forwardTable, iter, nodes \X nodes)
          /\ iter <= Rounds => Covers(Known, forwardTable, iter + 1,
                                      {p \in nodes \X nodes : <<p[2], p[1]>> \notin todo})

MessageInv ==
    /\ {startId, routeId, currId} \subseteq nodes \cup {0}
    /\ phase = "hops" => /\ routeId \in nodes /\ currId \in nodes
                         /\ Cost(forwardTable, currId, routeId) # NoLink

DistVecInv == TopoInv /\ RoundInv /\ MessageInv

-----------------------------------------------------------------------------
(***************************************************************************)
(* What the laws of routes say of the networks of distvec.                 *)
(***************************************************************************)
\* No link costs more than Max(Costs), and fewer links than nodes cost less than
\* Infinity.
LEMMA InfinityFacts ==
    /\ Infinity \in Nat /\ Max(Costs) \in Nat \ {0} /\ \A c \in Costs : c <= Max(Costs)
    /\ Infinity = Cardinality(Ids) * Max(Costs) /\ Cardinality(Ids) \in Nat
<1>1. PICK most \in Costs : \A c \in Costs : c <= most
  BY CostsAssumption
<1>2. \A c \in Costs : c \in Nat \ {0}
  BY RoutesAssumption
<1>3. \E x \in Costs : \A y \in Costs : x >= y
  BY <1>1, <1>2
<1>4. Max(Costs) \in Costs /\ \A c \in Costs : Max(Costs) >= c
  BY <1>3 DEF Max
<1>5. Cardinality(Ids) \in Nat
  BY RoutesAssumption, FS_CardinalityType
<1>6. Max(Costs) \in Nat \ {0} /\ \A c \in Costs : c <= Max(Costs)
  BY <1>2, <1>4
<1>7. Cardinality(Ids) * Max(Costs) \in Nat
  BY <1>5, <1>6
<1> QED
  BY <1>5, <1>6, <1>7 DEF Infinity

\* One more link, or node.
LEMMA OneMoreTime ==
    ASSUME NEW a \in Nat, NEW b \in Nat, NEW m \in Nat, a < b
    PROVE  a * m + m <= b * m
<1>1. PICK e \in Nat : b = (a + 1) + e
  <2>1. b - (a + 1) \in Nat /\ b = (a + 1) + (b - (a + 1))
    OBVIOUS
  <2> QED
    BY <2>1
<1>2. b * m = (a * m + m) + e * m
  BY <1>1
<1>3. e * m \in Nat /\ a * m + m \in Nat
  OBVIOUS
<1> QED
  BY <1>2, <1>3

LEMMA DistFacts ==
    ASSUME NEW net, IsNetwork(net)
    PROVE  /\ \A i, j \in Ids : Dist(net, i, j) \in Nat
           /\ \A i, j \in Ids : Dist(net, i, j) <= Infinity
           /\ \A i \in Ids : Dist(net, i, i) = 0
           /\ \A i, j \in Ids : Dist(net, i, j) = Dist(net, j, i)
           /\ \A i, j \in Ids : Linked(net, i, j) => Dist(net, i, j) <= net[<<i, j>>]
           /\ \A i, j, u \in Ids : Dist(net, i, j) <= Dist(net, i, u) + Dist(net, u, j)
<1> DEFINE d == Cheapest(net, Infinity)
<1>1. Laws(d, net, Infinity, Ids)
  BY CheapestLaws, InfinityFacts
<1> HIDE DEF d
<1>2. ASSUME NEW i \in Ids, NEW j \in Ids PROVE d[<<i, j>>] \in Nat /\ d[<<i, j>>] <= Infinity
  <2>1. <<i, j>> \in Pairs
    BY DEF Pairs
  <2> QED
    BY <1>1, <2>1, InfinityFacts DEF Laws
<1>3. \A i, j, u \in Ids : d[<<i, j>>] <= d[<<i, u>>] + d[<<u, j>>]
  BY <1>1 DEF Laws
<1>4. \A i, j \in Ids : d[<<i, j>>] = d[<<j, i>>]
  BY <1>1 DEF Laws
<1>5. \A i \in Ids : d[<<i, i>>] = 0
  BY <1>1 DEF Laws
<1>6. \A i, j \in Ids : Linked(net, i, j) => d[<<i, j>>] <= net[<<i, j>>]
  BY <1>1 DEF Laws
<1> QED
  BY <1>2, <1>3, <1>4, <1>5, <1>6 DEF d, Dist

LEMMA LinkFacts ==
    ASSUME NEW net, IsNetwork(net), NEW i \in Ids, NEW j \in Ids, Linked(net, i, j)
    PROVE  /\ net[<<i, j>>] \in Nat \ {0} /\ net[<<i, j>>] <= Max(Costs) /\ i # j
           /\ i \in Endpoints(net) /\ j \in Endpoints(net)
<1>1. net[<<i, j>>] \in Costs /\ net[<<i, j>>] \in Nat \ {0} /\ i # j
  BY LinkCost
<1>2. Linked(net, j, i)
  BY DEF IsNetwork, Linked
<1> QED
  BY <1>1, <1>2, InfinityFacts DEF Endpoints

-----------------------------------------------------------------------------
(***************************************************************************)
(* Tables.                                                                 *)
(***************************************************************************)
LEMMA TableFacts ==
    ASSUME NEW nds, NEW table \in Tables(nds)
    PROVE  /\ \A s, r \in nds : Cost(table, s, r) \in Nat \cup {NoLink}
           /\ \A s, r \in nds : Cost(table, s, r) # NoLink => Cost(table, s, r) \in Nat
           /\ \A s, r \in nds : Cost(table, s, r) \in Int
           /\ \A s, r \in nds : Cost(table, s, r) # NoLink <=> Cost(table, s, r) >= 0
<1>1. ASSUME NEW s \in nds, NEW r \in nds PROVE Cost(table, s, r) \in Nat \cup {NoLink}
  <2>1. table[<<s, r>>] \in [first : nds, second : Nat]
           \cup {[first |-> -1, second |-> NoLink], [first |-> 0, second |-> 0]}
    BY DEF Tables
  <2> QED
    BY <2>1 DEF Cost
<1>2. ASSUME NEW s \in nds, NEW r \in nds
      PROVE  /\ Cost(table, s, r) # NoLink => Cost(table, s, r) \in Nat
             /\ Cost(table, s, r) \in Int
             /\ Cost(table, s, r) # NoLink <=> Cost(table, s, r) >= 0
  BY <1>1 DEF NoLink
<1> QED
  BY <1>1, <1>2

\* Routes that are known are routes: none is cheaper than the cheapest, and none
\* has more links than there are nodes, because each of its nodes is nearer.
LEMMA KnownRoutes ==
    ASSUME NEW net, IsNetwork(net), NEW nds \in SUBSET Ids,
           NEW table, GoodTable(net, nds, table), NEW r \in nds
    PROVE  \A s \in nds : Cost(table, s, r) # NoLink =>
              Dist(net, s, r) <= Cost(table, s, r) /\ Dist(net, s, r) < Infinity
<1> DEFINE M == Max(Costs)
           C(s) == Cost(table, s, r)
           D(s) == Dist(net, s, r)
           f == [x \in nds |-> C(x)]
           Rank(s) == Cardinality(Below(nds, f, C(s)))
           Bad == {s \in nds : C(s) # NoLink /\ ~(D(s) <= C(s) /\ D(s) <= Rank(s) * M)}
           T == {C(s) : s \in Bad}
<1>1. M \in Nat \ {0} /\ IsFiniteSet(nds) /\ \A s \in nds : s \in Ids
  BY InfinityFacts, RoutesAssumption, FS_Subset
<1>2. /\ \A s \in nds : C(s) # NoLink => C(s) \in Nat
      /\ \A s \in nds : C(s) \in Int
  BY TableFacts DEF GoodTable
<1>3. \A s \in nds : D(s) \in Nat
  BY <1>1, DistFacts
<1>4. C(r) = 0 /\ D(r) = 0
  BY <1>1, DistFacts DEF GoodTable, SelfFree
<1>5. ASSUME NEW s \in nds, s # r, C(s) # NoLink
      PROVE  \E k \in nds : /\ Linked(net, s, k) /\ C(k) # NoLink
                            /\ C(s) >= net[<<s, k>>] + C(k)
  BY <1>5 DEF GoodTable, Backed
<1>6. \A x \in nds : f[x] = C(x)
  OBVIOUS
<1>7. \A x \in nds : f[x] \in Int
  BY <1>2
<1> HIDE DEF C, D, f, M
<1>8. \A s \in nds : Rank(s) \in Nat
  BY <1>1, BelowBound
<1>9. ASSUME NEW k \in nds, C(k) # NoLink, NEW s \in nds, C(k) < C(s)
      PROVE  Rank(k) < Rank(s)
  <2>1. f[k] = C(k) /\ C(k) \in Nat /\ C(s) \in Int
    BY <1>2, <1>6, <1>9
  <2>2. f[k] >= 0 /\ f[k] < C(s)
    BY <1>9, <2>1
  <2> QED
    BY <1>1, <1>7, <2>1, <2>2, FewerBelow
<1> HIDE DEF Rank
<1>10. ASSUME Bad # {} PROVE FALSE
  <2>1. T \in SUBSET Nat /\ T # {}
    BY <1>2, <1>10
  <2>2. PICK s \in Bad : \A u \in Bad : C(s) <= C(u)
    <3>1. Min(T) \in T /\ \A y \in T : Min(T) <= y
      BY <2>1, MinNat
    <3> QED
      BY <3>1
  <2>3. s \in nds /\ C(s) # NoLink /\ C(s) \in Nat /\ Rank(s) \in Nat
    BY <1>2, <1>8
  <2>4. s # r
    <3>1. Rank(r) * M \in Nat
      BY <1>1, <1>8
    <3>2. D(r) <= C(r) /\ D(r) <= Rank(r) * M
      BY <1>4, <3>1
    <3> QED
      BY <3>2
  <2>5. PICK k \in nds : /\ Linked(net, s, k) /\ C(k) # NoLink
                         /\ C(s) >= net[<<s, k>>] + C(k)
    BY <1>5, <2>3, <2>4
  <2>6. /\ net[<<s, k>>] \in Nat \ {0} /\ net[<<s, k>>] <= M
        /\ Dist(net, s, k) <= net[<<s, k>>] /\ Dist(net, s, k) \in Nat
    BY <1>1, <2>3, <2>5, LinkFacts, DistFacts DEF M
  <2>7. C(k) \in Nat /\ C(k) < C(s) /\ Rank(k) \in Nat /\ Rank(k) < Rank(s)
    <3>1. C(k) \in Nat /\ C(k) < C(s)
      BY <1>2, <2>3, <2>5, <2>6
    <3> QED
      BY <1>8, <1>9, <2>3, <2>5, <3>1
  <2>8. k \notin Bad
    BY <2>2, <2>3, <2>7
  <2>9. D(k) <= C(k) /\ D(k) <= Rank(k) * M
    BY <2>5, <2>8
  <2>10. D(s) <= Dist(net, s, k) + D(k) /\ D(s) \in Nat /\ D(k) \in Nat
    BY <1>1, <1>3, <2>3, DistFacts DEF D
  <2>11. D(s) <= C(s)
    BY <2>3, <2>5, <2>6, <2>7, <2>9, <2>10
  <2>12. D(s) <= Rank(s) * M
    <3>1. Rank(k) * M + M <= Rank(s) * M /\ Rank(k) * M \in Nat /\ Rank(s) * M \in Nat
      BY <1>1, <2>3, <2>7, OneMoreTime
    <3> QED
      BY <1>1, <2>6, <2>9, <2>10, <3>1
  <2> QED
    BY <2>11, <2>12
<1>11. ASSUME NEW s \in nds, C(s) # NoLink PROVE D(s) <= C(s) /\ D(s) < Infinity
  <2>1. D(s) <= C(s) /\ D(s) <= Rank(s) * M
    BY <1>10, <1>11
  <2>2. s \notin Below(nds, f, C(s))
    BY <1>2, <1>6 DEF Below
  <2>3. Rank(s) < Cardinality(nds) /\ Cardinality(nds) \in Nat
    BY <1>1, <2>2, BelowBound DEF Rank
  <2>4. Cardinality(nds) <= Cardinality(Ids) /\ Cardinality(Ids) \in Nat
    BY RoutesAssumption, FS_Subset, FS_CardinalityType
  <2>5. Rank(s) < Cardinality(Ids) /\ Rank(s) \in Nat
    BY <1>8, <2>3, <2>4
  <2>6. Rank(s) * M + M <= Cardinality(Ids) * M
    BY <1>1, <2>4, <2>5, OneMoreTime
  <2>7. Infinity = Cardinality(Ids) * M /\ Infinity \in Nat
    BY InfinityFacts DEF M
  <2>8. Rank(s) * M \in Nat
    BY <1>1, <2>5
  <2> QED
    BY <1>1, <1>3, <2>1, <2>6, <2>7, <2>8
<1> QED
  BY <1>11 DEF C, D

\* When the table is as good as the routes of all links, it is that of the cheapest.
LEMMA TableExact ==
    ASSUME NEW net, IsNetwork(net), NEW nds \in SUBSET Ids, Endpoints(net) \subseteq nds,
           NEW table, GoodTable(net, nds, table),
           NEW n \in Nat \ {0}, n >= Cardinality(nds), Covers(net, table, n, nds \X nds),
           NEW s \in nds, NEW r \in nds
    PROVE  Dist(net, s, r) = IF Cost(table, s, r) = NoLink THEN Infinity ELSE Cost(table, s, r)
<1> DEFINE W == CheapestWithin(net, Infinity, n)
<1>1. s \in Ids /\ r \in Ids /\ <<s, r>> \in nds \X nds /\ Infinity \in Nat
  BY InfinityFacts
<1>2. Dist(net, s, r) \in Nat /\ Dist(net, s, r) <= Infinity
  BY <1>1, DistFacts
<1>3. Dist(net, s, r) < Infinity => W[<<s, r>>] <= Dist(net, s, r)
  BY <1>1, EnoughLinks DEF Dist
<1>4. W[<<s, r>>] \in 0 .. Infinity
  BY <1>1, CheapestWithinType
<1> HIDE DEF W
<1>5. W[<<s, r>>] < Infinity => Cost(table, s, r) \in 0 .. W[<<s, r>>]
  BY <1>1 DEF Covers, Cost, W
<1>6. Cost(table, s, r) # NoLink =>
         /\ Dist(net, s, r) <= Cost(table, s, r) /\ Dist(net, s, r) < Infinity
         /\ Cost(table, s, r) \in Nat
  BY KnownRoutes, TableFacts DEF GoodTable
<1>7. CASE Cost(table, s, r) = NoLink
  <2>1. ~(Dist(net, s, r) < Infinity)
    BY <1>1, <1>2, <1>3, <1>4, <1>5, <1>7 DEF NoLink
  <2> QED
    BY <1>1, <1>2, <1>7, <2>1
<1>8. CASE Cost(table, s, r) # NoLink
  BY <1>1, <1>2, <1>3, <1>4, <1>5, <1>6, <1>8
<1> QED
  BY <1>7, <1>8

\* The table with a route from from to to over the neighbour k.
Replaced(net, table, from, to, k) ==
    [table EXCEPT ![<<from, to>>] = [first |-> k, second |-> net[<<from, k>>] + Cost(table, k, to)]]

LEMMA ReplacedIs ==
    ASSUME NEW net, NEW nds, NEW table \in Tables(nds),
           NEW from \in nds, NEW to \in nds, NEW k \in nds,
           net[<<from, k>>] + Cost(table, k, to) \in Nat,
           NEW table2, table2 = Replaced(net, table, from, to, k)
    PROVE  /\ table2 \in Tables(nds)
           /\ table2[<<from, to>>].first = k
           /\ Cost(table2, from, to) = net[<<from, k>>] + Cost(table, k, to)
           /\ \A p \in nds \X nds : p # <<from, to>> => table2[p] = table[p]
           /\ \A s, r \in nds : <<s, r>> # <<from, to>> => Cost(table2, s, r) = Cost(table, s, r)
<1> DEFINE e == [first |-> k, second |-> net[<<from, k>>] + Cost(table, k, to)]
<1>1. /\ e \in [first : nds, second : Nat] /\ e.first = k
      /\ e.second = net[<<from, k>>] + Cost(table, k, to)
  OBVIOUS
<1> HIDE DEF e
<1>2. table2 = [table EXCEPT ![<<from, to>>] = e]
  BY DEF Replaced, e
<1>3. <<from, to>> \in nds \X nds /\ DOMAIN table = nds \X nds
  BY DEF Tables
<1>4. table2 \in Tables(nds)
  BY <1>1, <1>2, <1>3 DEF Tables
<1>5. table2[<<from, to>>] = e /\ \A p \in nds \X nds : p # <<from, to>> => table2[p] = table[p]
  BY <1>2, <1>3
<1> QED
  BY <1>1, <1>4, <1>5 DEF Cost

\* A better route leaves every other one backed: no cost has grown.
LEMMA ReplacedGood ==
    ASSUME NEW net, IsNetwork(net), NEW nds \in SUBSET Ids,
           NEW table, GoodTable(net, nds, table),
           NEW from \in nds, NEW to \in nds, from # to,
           NEW k \in nds, Linked(net, from, k), Cost(table, k, to) # NoLink,
           \/ Cost(table, from, to) = NoLink
           \/ net[<<from, k>>] + Cost(table, k, to) < Cost(table, from, to),
           NEW table2, table2 = Replaced(net, table, from, to, k)
    PROVE  /\ GoodTable(net, nds, table2)
           /\ Cost(table2, from, to) = net[<<from, k>>] + Cost(table, k, to)
           /\ \A p \in nds \X nds : p # <<from, to>> => table2[p] = table[p]
<1> DEFINE c == net[<<from, k>>] + Cost(table, k, to)
<1>1. table \in Tables(nds) /\ SelfFree(nds, table)
  BY DEF GoodTable
<1>2. net[<<from, k>>] \in Nat \ {0} /\ k # from /\ Cost(table, k, to) \in Nat /\ c \in Nat
  BY <1>1, LinkFacts, TableFacts
<1>3. /\ table2 \in Tables(nds)
      /\ table2[<<from, to>>].first = k /\ Cost(table2, from, to) = c
      /\ \A p \in nds \X nds : p # <<from, to>> => table2[p] = table[p]
      /\ \A s, r \in nds : <<s, r>> # <<from, to>> => Cost(table2, s, r) = Cost(table, s, r)
  BY <1>1, <1>2, ReplacedIs
<1>4. SelfFree(nds, table2)
  BY <1>1, <1>3 DEF SelfFree
<1>5. ASSUME NEW s \in nds, NEW r \in nds, Cost(table, s, r) # NoLink
      PROVE  /\ Cost(table2, s, r) # NoLink /\ Cost(table2, s, r) \in Nat
             /\ Cost(table, s, r) \in Nat /\ Cost(table2, s, r) <= Cost(table, s, r)
  <2>1. Cost(table, s, r) \in Nat
    BY <1>1, <1>5, TableFacts
  <2>2. CASE <<s, r>> = <<from, to>>
    BY <1>2, <1>3, <1>5, <2>1, <2>2 DEF NoLink
  <2>3. CASE <<s, r>> # <<from, to>>
    BY <1>3, <1>5, <2>1, <2>3
  <2> QED
    BY <2>2, <2>3
<1> HIDE DEF c
<1>6. ASSUME NEW s \in nds, NEW r \in nds, s # r, Cost(table2, s, r) # NoLink,
             NEW h, h = table2[<<s, r>>].first
      PROVE  /\ h \in nds \ {s} /\ Linked(net, s, h) /\ Cost(table2, h, r) # NoLink
             /\ Cost(table2, s, r) >= net[<<s, h>>] + Cost(table2, h, r)
  <2>1. CASE <<s, r>> = <<from, to>>
    <3>1. h = k /\ s = from /\ r = to
      BY <1>3, <1>6, <2>1
    <3>2. Cost(table2, k, to) = Cost(table, k, to)
      BY <1>2, <1>3
    <3> QED
      BY <1>2, <1>3, <3>1, <3>2 DEF c
  <2>2. CASE <<s, r>> # <<from, to>>
    <3>1. h = table[<<s, r>>].first /\ Cost(table2, s, r) = Cost(table, s, r)
      BY <1>3, <1>6, <2>2
    <3>2. /\ h \in nds \ {s} /\ Linked(net, s, h) /\ Cost(table, h, r) # NoLink
          /\ Cost(table, s, r) >= net[<<s, h>>] + Cost(table, h, r)
      BY <1>6, <3>1 DEF GoodTable, Backed
    <3>3. /\ Cost(table2, h, r) # NoLink /\ Cost(table2, h, r) \in Nat
          /\ Cost(table, h, r) \in Nat /\ Cost(table2, h, r) <= Cost(table, h, r)
      BY <1>5, <3>2
    <3>4. net[<<s, h>>] \in Nat /\ Cost(table, s, r) \in Nat
      BY <1>5, <1>6, <3>1, <3>2, LinkFacts
    <3> QED
      BY <3>1, <3>2, <3>3, <3>4
  <2> QED
    BY <2>1, <2>2
<1>7. Backed(net, nds, table2)
  BY <1>6 DEF Backed
<1> QED
  BY <1>3, <1>4, <1>7 DEF GoodTable, c

\* A call that finds a cost no higher than over any neighbour, and no higher than
\* before, takes one more link into account.
LEMMA CallCovers ==
    ASSUME NEW net, IsNetwork(net), NEW nds \in SUBSET Ids, Endpoints(net) \subseteq nds,
           NEW table, NEW n \in Nat \ {0}, Covers(net, table, n, nds \X nds),
           NEW from \in nds, NEW to \in nds, NEW cost \in Int,
           Cost(table, from, to) # NoLink => cost \in 0 .. Cost(table, from, to),
           \A u \in nds : Linked(net, from, u) /\ Cost(table, u, to) # NoLink =>
                             cost \in 0 .. net[<<from, u>>] + Cost(table, u, to)
    PROVE  CheapestWithin(net, Infinity, n + 1)[<<from, to>>] < Infinity =>
               cost \in 0 .. CheapestWithin(net, Infinity, n + 1)[<<from, to>>]
<1> DEFINE direct == DirectCost(net, Infinity)
           before == CheapestWithin(net, Infinity, n)
           after == CheapestWithin(net, Infinity, n + 1)
<1>1. Infinity \in Nat /\ from \in Ids /\ to \in Ids
  BY InfinityFacts
<1>2. \A x, y \in Ids : before[<<x, y>>] \in 0 .. Infinity
  BY <1>1, CheapestWithinType
<1>3. after = OneMore(before, net, Infinity)
  BY CheapestWithinSteps
<1>4. \A x, y \in nds : before[<<x, y>>] < Infinity =>
         Cost(table, x, y) \in 0 .. before[<<x, y>>]
  BY DEF Covers, Cost
<1> HIDE DEF before
<1> SUFFICES ASSUME after[<<from, to>>] < Infinity PROVE cost \in 0 .. after[<<from, to>>]
  OBVIOUS
<1> HIDE DEF after
<1>5. PICK u \in Ids : after[<<from, to>>] = direct[<<from, u>>] + before[<<u, to>>]
  BY <1>1, <1>2, <1>3, OneMoreIs
<1>6. direct[<<from, u>>] = IF from = u THEN 0
                            ELSE IF net[<<from, u>>] = NoLink \/ net[<<from, u>>] >= Infinity
                                 THEN Infinity ELSE net[<<from, u>>]
  <2>1. <<from, u>> \in Pairs
    BY DEF Pairs
  <2> QED
    BY <2>1 DEF DirectCost
<1>7. before[<<u, to>>] \in Nat
  BY <1>1, <1>2
<1> HIDE DEF direct
<1>8. CASE u = from
  <2>1. before[<<from, to>>] < Infinity /\ after[<<from, to>>] = before[<<from, to>>]
    BY <1>5, <1>6, <1>7, <1>8
  <2>2. Cost(table, from, to) \in 0 .. before[<<from, to>>]
    BY <1>4, <2>1
  <2>3. Cost(table, from, to) # NoLink
    BY <2>2 DEF NoLink
  <2> QED
    BY <1>7, <1>8, <2>1, <2>2, <2>3
<1>9. CASE u # from
  <2>1. Linked(net, from, u) /\ direct[<<from, u>>] = net[<<from, u>>]
    BY <1>1, <1>5, <1>6, <1>7, <1>9 DEF Linked
  <2>2. u \in nds /\ net[<<from, u>>] \in Nat \ {0}
    BY <1>1, <2>1, LinkFacts
  <2>3. before[<<u, to>>] < Infinity
    BY <1>1, <1>5, <1>7, <2>1, <2>2
  <2>4. Cost(table, u, to) \in 0 .. before[<<u, to>>]
    BY <1>4, <2>2, <2>3
  <2>5. Cost(table, u, to) # NoLink
    BY <2>4 DEF NoLink
  <2>6. cost \in 0 .. net[<<from, u>>] + Cost(table, u, to)
    BY <2>1, <2>2, <2>5
  <2> QED
    BY <1>5, <1>7, <2>1, <2>2, <2>4, <2>6
<1> QED
  BY <1>8, <1>9

-----------------------------------------------------------------------------
(***************************************************************************)
(* The program.                                                            *)
(***************************************************************************)
LEMMA TopoFacts ==
    ASSUME TopoInv, NEW i \in Ids, NEW j \in Ids
    PROVE  /\ topo[<<i, j>>] \in Nat \cup {NoLink}
           /\ i # j => topo[<<i, j>>] = Known[<<i, j>>]
           /\ topo[<<i, j>>] >= 0 <=> i = j \/ Linked(Known, i, j)
<1>1. <<i, j>> \in Pairs
  BY DEF Pairs
<1>2. topo[<<i, j>>] \in Nat \cup {NoLink}
  <2>1. topo[<<i, j>>] \in Costs \cup {NoLink, 0}
    BY <1>1 DEF TopoInv
  <2>2. \A c \in Costs : c \in Nat
    BY RoutesAssumption
  <2> QED
    BY <2>1, <2>2
<1>3. Known[<<i, j>>] = IF i # j THEN topo[<<i, j>>] ELSE NoLink
  BY <1>1 DEF Known
<1>4. i = j => topo[<<i, j>>] = 0
  BY DEF TopoInv
<1> QED
  BY <1>2, <1>3, <1>4 DEF Linked, NoLink

\* The topology file is read.
LEMMA InitInv == Init => DistVecInv
<1> SUFFICES ASSUME Init PROVE DistVecInv
  OBVIOUS
<1>1. PICK net \in Networks :
         /\ topo = [p \in Pairs |-> IF p[1] = p[2] THEN 0 ELSE net[p]]
         /\ nodes = Endpoints(net)
  BY DEF Init
<1>2. IsNetwork(net) /\ net \in [Pairs -> Costs \cup {NoLink}]
  BY <1>1, NetworksAre DEF IsNetwork
<1>3. Known = net
  <2>1. ASSUME NEW p \in Pairs PROVE Known[p] = net[p]
    <3>1. PICK i \in Ids, j \in Ids : p = <<i, j>>
      BY DEF Pairs
    <3>2. net[<<i, i>>] = NoLink
      BY <1>2 DEF IsNetwork
    <3> QED
      BY <1>1, <3>1, <3>2 DEF Known
  <2>2. Known = [p \in Pairs |-> Known[p]]
    BY DEF Known
  <2>3. net = [p \in Pairs |-> net[p]]
    BY <1>2
  <2> QED
    BY <2>1, <2>2, <2>3
<1>4. topo \in [Pairs -> Costs \cup {NoLink, 0}] /\ \A i \in Ids : topo[<<i, i>>] = 0
  BY <1>1, <1>2 DEF Pairs
<1>5. nodes \in SUBSET Ids
  BY <1>1 DEF Endpoints
<1>6. TopoInv
  BY <1>1, <1>2, <1>3, <1>4, <1>5 DEF TopoInv, Init
<1>7. IsFiniteSet(nodes) /\ Rounds \in Nat
  BY <1>5, RoutesAssumption, FS_Subset, FS_CardinalityType DEF Rounds
<1>8. RoundInv
  BY <1>7 DEF RoundInv, Init, Tables
<1>9. MessageInv
  BY DEF MessageInv, Init
<1> QED
  BY <1>6, <1>8, <1>9 DEF DistVecInv

LEMMA RoundsType == DistVecInv => IsFiniteSet(nodes) /\ Rounds \in Nat
BY RoutesAssumption, FS_Subset, FS_CardinalityType DEF DistVecInv, TopoInv, Rounds

\* The tables begin with the links.
LEMMA GenerateInv ==
    ASSUME DistVecInv, GenerateForwardTable
    PROVE  DistVecInv'
<1>1. /\ phase = "generate" /\ phase' = "bellMan"
      /\ forwardTable' = [p \in nodes \X nodes |-> DirectEntry(p)]
      /\ iter' = 1 /\ todo' = nodes \X nodes
      /\ UNCHANGED <<topo, nodes, messageVars>>
  BY DEF GenerateForwardTable
<1>2. TopoInv /\ Rounds \in Nat /\ nodes \in SUBSET Ids /\ IsNetwork(Known)
      /\ Endpoints(Known) \subseteq nodes
  BY RoundsType DEF DistVecInv, TopoInv
<1>3. Known' = Known /\ Rounds' = Rounds
  BY <1>1 DEF Known, Rounds
<1>4. TopoInv'
  BY <1>1, <1>2, <1>3 DEF TopoInv
<1> DEFINE table == [p \in nodes \X nodes |-> DirectEntry(p)]
<1>5. \A s, r \in nodes : Cost(table, s, r) = topo[<<s, r>>]
  BY DEF DirectEntry, Cost
<1>6. \A s, r \in nodes : topo[<<s, r>>] >= 0 => table[<<s, r>>].first = r
  BY DEF DirectEntry
<1>7. table \in Tables(nodes)
  <2>1. ASSUME NEW p \in nodes \X nodes
        PROVE  DirectEntry(p) \in [first : nodes, second : Nat]
                  \cup {[first |-> -1, second |-> NoLink], [first |-> 0, second |-> 0]}
    <3>1. PICK s \in nodes, r \in nodes : p = <<s, r>>
      OBVIOUS
    <3>2. topo[<<s, r>>] \in Nat \cup {NoLink}
      BY <1>2, TopoFacts
    <3>3. CASE topo[<<s, r>>] \in Nat
      BY <3>1, <3>3 DEF DirectEntry
    <3>4. CASE topo[<<s, r>>] = NoLink
      BY <3>1, <3>4 DEF DirectEntry, NoLink
    <3> QED
      BY <3>2, <3>3, <3>4
  <2> QED
    BY <2>1 DEF Tables
<1>8. table = forwardTable'
  BY <1>1
<1> HIDE DEF table
<1>9. SelfFree(nodes, table)
  BY <1>2, <1>5 DEF SelfFree, TopoInv
<1>10. Backed(Known, nodes, table)
  <2> SUFFICES ASSUME NEW s \in nodes, NEW r \in nodes, s # r, Cost(table, s, r) # NoLink,
                      NEW k, k = table[<<s, r>>].first
               PROVE  /\ k \in nodes \ {s} /\ Linked(Known, s, k) /\ Cost(table, k, r) # NoLink
                      /\ Cost(table, s, r) >= Known[<<s, k>>] + Cost(table, k, r)
    BY DEF Backed
  <2>1. /\ topo[<<s, r>>] \in Nat /\ topo[<<s, r>>] = Known[<<s, r>>]
        /\ topo[<<s, r>>] >= 0 /\ Linked(Known, s, r)
    <3>1. topo[<<s, r>>] \in Nat \cup {NoLink} /\ topo[<<s, r>>] = Known[<<s, r>>]
          /\ (topo[<<s, r>>] >= 0 => Linked(Known, s, r))
      BY <1>2, TopoFacts
    <3>2. topo[<<s, r>>] # NoLink
      BY <1>5
    <3> QED
      BY <3>1, <3>2
  <2>2. k = r
    BY <1>6, <2>1
  <2>3. Cost(table, s, r) = Known[<<s, r>>]
    BY <1>5, <2>1
  <2>4. Cost(table, r, r) = 0
    BY <1>9 DEF SelfFree
  <2> QED
    BY <2>1, <2>2, <2>3, <2>4 DEF NoLink
<1>11. Covers(Known, table, 1, nodes \X nodes)
  <2>1. ASSUME NEW s \in nodes, NEW r \in nodes, DirectCost(Known, Infinity)[<<s, r>>] < Infinity
        PROVE  Cost(table, s, r) \in 0 .. DirectCost(Known, Infinity)[<<s, r>>]
    <3>1. <<s, r>> \in Pairs
      BY <1>2 DEF Pairs
    <3>2. DirectCost(Known, Infinity)[<<s, r>>] =
             IF s = r THEN 0
             ELSE IF Known[<<s, r>>] = NoLink \/ Known[<<s, r>>] >= Infinity THEN Infinity
             ELSE Known[<<s, r>>]
      BY <3>1 DEF DirectCost
    <3>3. CASE s = r
      BY <1>9, <3>2, <3>3 DEF SelfFree
    <3>4. CASE s # r
      <4>1. Known[<<s, r>>] # NoLink /\ DirectCost(Known, Infinity)[<<s, r>>] = Known[<<s, r>>]
        BY <2>1, <3>2, <3>4, InfinityFacts
      <4>2. topo[<<s, r>>] \in Nat \cup {NoLink} /\ topo[<<s, r>>] = Known[<<s, r>>]
        BY <1>2, <3>4, TopoFacts
      <4>3. Cost(table, s, r) = Known[<<s, r>>]
        BY <1>5, <4>2
      <4> QED
        BY <4>1, <4>2, <4>3
    <3> QED
      BY <3>3, <3>4
  <2>2. CheapestWithin(Known, Infinity, 1) = DirectCost(Known, Infinity)
    <3>1. 1 \in Nat \ {0}
      OBVIOUS
    <3> QED
      BY <3>1, CheapestWithinSteps
  <2>3. \A s, r \in nodes : CheapestWithin(Known, Infinity, 1)[<<s, r>>] < Infinity =>
           table[<<s, r>>].second \in 0 .. CheapestWithin(Known, Infinity, 1)[<<s, r>>]
    BY <2>1, <2>2 DEF Cost
  <2> QED
    BY <2>3 DEF Covers
<1>12. Covers(Known, table, 2, {p \in nodes \X nodes : <<p[2], p[1]>> \notin nodes \X nodes})
  BY DEF Covers
<1>13. Rounds < 1 => nodes \X nodes = {}
  <2>1. Rounds < 1 => nodes = {}
    BY <1>2, RoundsType, FS_EmptySet DEF Rounds
  <2> QED
    BY <2>1
<1>14. RoundInv'
  BY <1>1, <1>2, <1>3, <1>7, <1>8, <1>9, <1>10, <1>11, <1>12, <1>13 DEF RoundInv, GoodTable
<1>15. MessageInv'
  BY <1>1 DEF DistVecInv, MessageInv, messageVars
<1> QED
  BY <1>4, <1>14, <1>15 DEF DistVecInv

\* The next call is one that is still to come.
LEMMA NextCallIs ==
    ASSUME nodes \in SUBSET Ids, todo \in SUBSET (nodes \X nodes), todo # {}
    PROVE  \E from, to \in nodes : NextCall = <<to, from>> /\ <<to, from>> \in todo
<1> DEFINE A == {p[1] : p \in todo}
           first == Min(A)
           B == {p[2] : p \in {q \in todo : q[1] = first}}
<1>1. \A p \in todo : p = <<p[1], p[2]>> /\ p[1] \in nodes /\ p[2] \in nodes
  OBVIOUS
<1>2. \A i \in nodes : i \in Nat
  BY RoutesAssumption
<1>3. A \in SUBSET Nat /\ A # {}
  BY <1>1, <1>2
<1>4. first \in A
  BY <1>3, MinNat
<1> HIDE DEF first
<1>5. \E p \in todo : p[1] = first
  BY <1>4
<1>6. B \in SUBSET Nat /\ B # {}
  BY <1>1, <1>2, <1>5
<1>7. Min(B) \in B
  BY <1>6, MinNat
<1>8. PICK p \in todo : p[1] = first /\ p[2] = Min(B)
  BY <1>7
<1>9. NextCall = <<first, Min(B)>>
  BY DEF NextCall, first
<1> QED
  BY <1>1, <1>8, <1>9

\* What a call makes of the table: the entry's cost is none above that over any
\* neighbour, the others stay.
LEMMA CallResult ==
    ASSUME DistVecInv, FindMinPath
    PROVE  \E from, to \in nodes :
              /\ <<to, from>> \in todo /\ todo' = todo \ {<<to, from>>}
              /\ GoodTable(Known, nodes, forwardTable')
              /\ \A p \in nodes \X nodes : p # <<from, to>> => forwardTable'[p] = forwardTable[p]
              /\ Cost(forwardTable, from, to) # NoLink =>
                    Cost(forwardTable', from, to) \in 0 .. Cost(forwardTable, from, to)
              /\ \A u \in nodes :
                    Linked(Known, from, u) /\ Cost(forwardTable, u, to) # NoLink =>
                       Cost(forwardTable', from, to) \in
                           0 .. Known[<<from, u>>] + Cost(forwardTable, u, to)
<1>1. /\ phase = "bellMan" /\ todo # {} /\ TopoInv /\ nodes \in SUBSET Ids /\ IsNetwork(Known)
      /\ todo \in SUBSET (nodes \X nodes) /\ GoodTable(Known, nodes, forwardTable)
  BY DEF FindMinPath, DistVecInv, TopoInv, RoundInv
<1>2. PICK from \in nodes, to \in nodes : NextCall = <<to, from>> /\ <<to, from>> \in todo
  BY <1>1, NextCallIs
<1> DEFINE better == Better(from, to)
           T(k) == Total(from, k, to)
           least == {k \in better : \A l \in better : T(k) <= T(l)}
           C == Cost(forwardTable, from, to)
           e(k) == [first |-> k, second |-> T(k)]
<1>3. /\ forwardTable' = IF least = {} THEN forwardTable
                         ELSE [forwardTable EXCEPT ![<<from, to>>] = e(Min(least))]
      /\ todo' = todo \ {<<to, from>>}
  BY <1>2 DEF FindMinPath
<1>4. /\ \A s, r \in nodes : Cost(forwardTable, s, r) # NoLink
                                => Cost(forwardTable, s, r) \in Nat
      /\ \A s, r \in nodes : Cost(forwardTable, s, r) # NoLink <=> Cost(forwardTable, s, r) >= 0
      /\ C \in Int
  BY <1>1, TableFacts DEF GoodTable
<1>5. Cost(forwardTable, to, to) = 0 /\ Cost(forwardTable, from, from) = 0
  BY <1>1 DEF GoodTable, SelfFree
<1>6. \A k \in nodes : /\ topo[<<from, k>>] \in Nat \cup {NoLink}
                       /\ from # k => topo[<<from, k>>] = Known[<<from, k>>]
                       /\ topo[<<from, k>>] >= 0 <=> from = k \/ Linked(Known, from, k)
  <2> TAKE k \in nodes
  <2>1. from \in Ids /\ k \in Ids
    BY <1>1
  <2> QED
    BY <1>1, <2>1, TopoFacts
<1>7. \A k : k \in Informed(from, to) <=>
         k \in nodes /\ topo[<<from, k>>] >= 0 /\ Cost(forwardTable, k, to) # NoLink
  BY <1>4 DEF Informed, Cost
<1>8. \A k : T(k) = topo[<<from, k>>] + Cost(forwardTable, k, to)
  BY DEF Total, Cost
<1>9. \A k : k \in better <=> k \in Informed(from, to) /\ (T(k) < C \/ C < 0)
  BY DEF Better, Cost
<1> HIDE DEF better, T, C
<1>10. \A k \in Informed(from, to) : T(k) \in Nat /\ k \in nodes
  <2> TAKE k \in Informed(from, to)
  <2>1. k \in nodes /\ topo[<<from, k>>] >= 0 /\ Cost(forwardTable, k, to) # NoLink
    BY <1>7
  <2>2. topo[<<from, k>>] \in Nat /\ Cost(forwardTable, k, to) \in Nat
    BY <1>4, <1>6, <2>1 DEF NoLink
  <2> QED
    BY <1>8, <2>1, <2>2
<1>11. C # NoLink <=> C >= 0
  BY <1>4 DEF C
<1>12. ASSUME NEW k \in better
       PROVE  /\ k # from /\ k \in nodes /\ Linked(Known, from, k)
              /\ from # to /\ Cost(forwardTable, k, to) # NoLink
              /\ T(k) = Known[<<from, k>>] + Cost(forwardTable, k, to)
  <2>1. /\ k \in nodes /\ topo[<<from, k>>] >= 0 /\ Cost(forwardTable, k, to) # NoLink
        /\ T(k) \in Nat /\ (T(k) < C \/ C < 0)
    BY <1>7, <1>9, <1>10
  <2>2. from # to
    BY <1>5, <2>1 DEF C
  <2>3. k # from
    <3>1. ASSUME k = from PROVE FALSE
      <4>1. topo[<<from, from>>] = 0
        BY <1>1 DEF TopoInv
      <4>2. T(k) = 0 + C /\ C >= 0 /\ C \in Nat
        BY <1>4, <1>8, <2>1, <3>1, <4>1 DEF C
      <4> QED
        BY <2>1, <4>2
    <3> QED
      BY <3>1
  <2> QED
    BY <1>6, <1>8, <2>1, <2>2, <2>3
<1>13. ASSUME better # {}
       PROVE  /\ least # {} /\ Min(least) \in least
  <2> DEFINE S == {T(k) : k \in better}
  <2>1. S \in SUBSET Nat /\ S # {}
    BY <1>9, <1>10, <1>13
  <2>2. Min(S) \in S /\ \A y \in S : Min(S) <= y
    BY <2>1, MinNat
  <2>3. PICK k \in better : T(k) = Min(S)
    BY <2>2
  <2>4. k \in least
    BY <2>2, <2>3
  <2>5. least \in SUBSET Nat
    BY <1>1, <1>9, <1>10, RoutesAssumption
  <2>6. least # {}
    BY <2>4
  <2> HIDE DEF least
  <2> QED
    BY <2>5, <2>6, MinNat
<1>14. CASE better = {}
  <2>1. forwardTable' = forwardTable
    BY <1>3, <1>14
  <2>2. C # NoLink => C \in 0 .. C
    BY <1>4, <1>11
  <2>3. ASSUME NEW u \in nodes, Linked(Known, from, u), Cost(forwardTable, u, to) # NoLink
        PROVE  C \in 0 .. Known[<<from, u>>] + Cost(forwardTable, u, to)
    <3>1. u # from
      BY <1>1, <2>3, LinkFacts
    <3>2. u \in Informed(from, to)
      BY <1>6, <1>7, <2>3
    <3>3. T(u) = Known[<<from, u>>] + Cost(forwardTable, u, to) /\ T(u) \in Nat
      BY <1>6, <1>8, <1>10, <3>1, <3>2
    <3>4. ~(T(u) < C) /\ ~(C < 0)
      BY <1>9, <1>14, <3>2
    <3> QED
      BY <1>4, <3>3, <3>4
  <2> QED
    BY <1>1, <1>2, <1>3, <2>1, <2>2, <2>3 DEF C
<1>15. CASE better # {}
  <2> DEFINE k == Min(least)
  <2>1. k \in better /\ least # {} /\ \A l \in better : T(k) <= T(l)
    BY <1>13, <1>15
  <2> HIDE DEF k
  <2>2. /\ k # from /\ k \in nodes /\ Linked(Known, from, k)
        /\ from # to /\ Cost(forwardTable, k, to) # NoLink
        /\ T(k) = Known[<<from, k>>] + Cost(forwardTable, k, to)
        /\ T(k) \in Nat /\ (T(k) < C \/ C < 0)
    BY <1>9, <1>10, <1>12, <2>1
  <2>3. forwardTable' = Replaced(Known, forwardTable, from, to, k)
    BY <1>3, <2>1, <2>2 DEF k, Replaced
  <2>4. C = NoLink \/ Known[<<from, k>>] + Cost(forwardTable, k, to) < C
    <3>1. C \in Int
      BY <1>4 DEF C
    <3>2. C < 0 => C = NoLink
      BY <1>11, <3>1
    <3>3. C = NoLink \/ T(k) < C
      BY <2>2, <3>2
    <3> QED
      BY <2>2, <3>3
  <2>5. /\ GoodTable(Known, nodes, forwardTable')
        /\ Cost(forwardTable', from, to) = Known[<<from, k>>] + Cost(forwardTable, k, to)
        /\ \A p \in nodes \X nodes : p # <<from, to>> => forwardTable'[p] = forwardTable[p]
    BY <1>1, <2>2, <2>3, <2>4, ReplacedGood DEF C
  <2>6. /\ Cost(forwardTable', from, to) = T(k)
        /\ \A p \in nodes \X nodes : p # <<from, to>> => forwardTable'[p] = forwardTable[p]
    BY <2>2, <2>5
  <2>7. C # NoLink => T(k) \in 0 .. C
    BY <1>4, <1>11, <2>2
  <2>8. ASSUME NEW u \in nodes, Linked(Known, from, u), Cost(forwardTable, u, to) # NoLink
        PROVE  T(k) \in 0 .. Known[<<from, u>>] + Cost(forwardTable, u, to)
    <3>1. u # from
      BY <1>1, <2>8, LinkFacts
    <3>2. u \in Informed(from, to)
      BY <1>6, <1>7, <2>8
    <3>3. T(u) = Known[<<from, u>>] + Cost(forwardTable, u, to) /\ T(u) \in Nat
      BY <1>6, <1>8, <1>10, <3>1, <3>2
    <3>4. T(k) <= T(u)
      <4>1. CASE u \in better
        BY <2>1, <4>1
      <4>2. CASE u \notin better
        <5>1. ~(T(u) < C) /\ ~(C < 0)
          BY <1>9, <3>2, <4>2
        <5> QED
          BY <1>4, <2>2, <3>3, <5>1
      <4> QED
        BY <4>1, <4>2
    <3> QED
      BY <2>2, <3>3, <3>4
  <2> QED
    BY <1>2, <1>3, <2>5, <2>6, <2>7, <2>8 DEF C
<1> QED
  BY <1>14, <1>15

\* A call of findMinPath.
LEMMA FindMinPathInv ==
    ASSUME DistVecInv, FindMinPath
    PROVE  DistVecInv'
<1>1. /\ phase = "bellMan" /\ UNCHANGED <<phase, topo, nodes, iter, messageVars>>
      /\ todo # {}
  BY DEF FindMinPath
<1>2. /\ TopoInv /\ Rounds \in Nat /\ nodes \in SUBSET Ids /\ IsNetwork(Known)
      /\ Endpoints(Known) \subseteq nodes
      /\ forwardTable \in Tables(nodes) /\ todo \in SUBSET (nodes \X nodes)
      /\ iter \in 0 .. Rounds + 1 /\ iter # 0 /\ iter <= Rounds
      /\ Covers(Known, forwardTable, iter, nodes \X nodes)
      /\ Covers(Known, forwardTable, iter + 1, {p \in nodes \X nodes : <<p[2], p[1]>> \notin todo})
  BY <1>1, RoundsType DEF DistVecInv, TopoInv, RoundInv
<1>3. PICK from \in nodes, to \in nodes :
         /\ <<to, from>> \in todo /\ todo' = todo \ {<<to, from>>}
         /\ GoodTable(Known, nodes, forwardTable')
         /\ \A p \in nodes \X nodes : p # <<from, to>> => forwardTable'[p] = forwardTable[p]
         /\ Cost(forwardTable, from, to) # NoLink =>
               Cost(forwardTable', from, to) \in 0 .. Cost(forwardTable, from, to)
         /\ \A u \in nodes :
               Linked(Known, from, u) /\ Cost(forwardTable, u, to) # NoLink =>
                  Cost(forwardTable', from, to) \in
                      0 .. Known[<<from, u>>] + Cost(forwardTable, u, to)
  BY CallResult
<1>4. Known' = Known /\ Rounds' = Rounds
  BY <1>1 DEF Known, Rounds
<1>5. iter \in Nat \ {0} /\ iter + 1 \in Nat \ {0} /\ Infinity \in Nat
  BY <1>2, InfinityFacts
<1>6. \A p \in nodes \X nodes : CheapestWithin(Known, Infinity, iter)[p] \in Nat
  <2> TAKE p \in nodes \X nodes
  <2>1. PICK i \in Ids, j \in Ids : p = <<i, j>>
    BY <1>2
  <2> QED
    BY <1>2, <1>5, <2>1, CheapestWithinType
<1>7. Covers(Known, forwardTable', iter, nodes \X nodes)
  <2> SUFFICES ASSUME NEW p \in nodes \X nodes, CheapestWithin(Known, Infinity, iter)[p] < Infinity
               PROVE  forwardTable'[p].second \in 0 .. CheapestWithin(Known, Infinity, iter)[p]
    BY DEF Covers
  <2>1. forwardTable[p].second \in 0 .. CheapestWithin(Known, Infinity, iter)[p]
    BY <1>2 DEF Covers
  <2>2. CASE p = <<from, to>>
    <3>1. Cost(forwardTable, from, to) # NoLink
      BY <2>1, <2>2 DEF Cost, NoLink
    <3>2. forwardTable'[p].second \in 0 .. forwardTable[p].second
      BY <1>3, <2>2, <3>1 DEF Cost
    <3> QED
      BY <1>6, <2>1, <3>2
  <2>3. CASE p # <<from, to>>
    BY <1>3, <2>1, <2>3
  <2> QED
    BY <2>2, <2>3
<1>8. Covers(Known, forwardTable', iter + 1, {p \in nodes \X nodes : <<p[2], p[1]>> \notin todo'})
  <2> DEFINE W == CheapestWithin(Known, Infinity, iter + 1)
  <2> SUFFICES ASSUME NEW p \in nodes \X nodes, <<p[2], p[1]>> \notin todo', W[p] < Infinity
               PROVE  forwardTable'[p].second \in 0 .. W[p]
    BY DEF Covers
  <2>1. CASE p = <<from, to>>
    <3>1. Cost(forwardTable', from, to) \in Int
      BY <1>3, TableFacts DEF GoodTable
    <3>2. W[<<from, to>>] < Infinity => Cost(forwardTable', from, to) \in 0 .. W[<<from, to>>]
      BY <1>2, <1>3, <1>5, <3>1, CallCovers
    <3> QED
      BY <2>1, <3>2 DEF Cost
  <2>2. CASE p # <<from, to>>
    <3>1. <<p[2], p[1]>> # <<to, from>>
      BY <2>2
    <3>2. <<p[2], p[1]>> \notin todo
      BY <1>3, <3>1
    <3>3. forwardTable[p].second \in 0 .. W[p]
      BY <1>2, <3>2 DEF Covers
    <3> QED
      BY <1>3, <2>2, <3>3
  <2> QED
    BY <2>1, <2>2
<1>9. RoundInv'
  BY <1>1, <1>2, <1>3, <1>4, <1>7, <1>8 DEF RoundInv, GoodTable
<1>10. TopoInv'
  BY <1>1, <1>2, <1>4 DEF TopoInv
<1>11. MessageInv'
  BY <1>1 DEF DistVecInv, MessageInv, messageVars
<1> QED
  BY <1>9, <1>10, <1>11 DEF DistVecInv

\* The end of a round: every entry has taken one more link into account.
LEMMA EndRoundInv ==
    ASSUME DistVecInv, EndRound
    PROVE  DistVecInv'
<1>1. /\ phase = "bellMan" /\ todo = {} /\ iter <= Rounds /\ iter' = iter + 1
      /\ todo' = IF iter' <= Rounds THEN nodes \X nodes ELSE {}
      /\ UNCHANGED <<phase, topo, nodes, forwardTable, messageVars>>
  BY DEF EndRound
<1>2. /\ TopoInv /\ Rounds \in Nat /\ forwardTable \in Tables(nodes)
      /\ iter \in 1 .. Rounds /\ GoodTable(Known, nodes, forwardTable)
      /\ Covers(Known, forwardTable, iter + 1, {p \in nodes \X nodes : <<p[2], p[1]>> \notin todo})
  BY <1>1, RoundsType DEF DistVecInv, TopoInv, RoundInv
<1>3. Known' = Known /\ Rounds' = Rounds
  BY <1>1 DEF Known, Rounds
<1>4. Covers(Known, forwardTable, iter', nodes \X nodes)
  <2>1. {p \in nodes \X nodes : <<p[2], p[1]>> \notin todo} = nodes \X nodes
    BY <1>1
  <2> QED
    BY <1>1, <1>2, <2>1
<1>5. iter' <= Rounds =>
         Covers(Known, forwardTable, iter' + 1, {p \in nodes \X nodes : <<p[2], p[1]>> \notin todo'})
  BY <1>1 DEF Covers
<1>6. /\ iter' \in 0 .. Rounds + 1 /\ iter' # 0 /\ todo' \in SUBSET (nodes \X nodes)
      /\ iter' > Rounds => todo' = {}
  BY <1>1, <1>2
<1>7. RoundInv'
  BY <1>1, <1>2, <1>3, <1>4, <1>5, <1>6 DEF RoundInv
<1>8. TopoInv'
  BY <1>1, <1>2, <1>3 DEF TopoInv
<1>9. MessageInv'
  BY <1>1 DEF DistVecInv, MessageInv, messageVars
<1> QED
  BY <1>7, <1>8, <1>9 DEF DistVecInv

\* Between two tables nothing that the tables rest on changes.
LEMMA TablesStay ==
    ASSUME DistVecInv, phase # "generate",
           phase' \in {"bellMan", "messages", "hops", "done"},
           phase' # "bellMan" => iter > Rounds,
           UNCHANGED <<topo, nodes, forwardTable, iter, todo>>
    PROVE  TopoInv' /\ RoundInv'
<1>1. Known' = Known /\ Rounds' = Rounds
  BY DEF Known, Rounds
<1>2. TopoInv'
  BY <1>1 DEF DistVecInv, TopoInv
<1>3. RoundInv'
  BY <1>1 DEF DistVecInv, RoundInv
<1> QED
  BY <1>2, <1>3

\* The messages.
LEMMA MessagesInv ==
    ASSUME DistVecInv, Announce \/ SendMessage \/ Hop \/ Deliver \/ Finish
    PROVE  DistVecInv'
<1>1. forwardTable \in Tables(nodes) /\ (phase # "generate" => Backed(Known, nodes, forwardTable))
      /\ (phase # "generate" /\ phase # "bellMan" => iter > Rounds) /\ MessageInv
  BY DEF DistVecInv, RoundInv, GoodTable
<1>2. CASE Announce
  <2>1. TopoInv' /\ RoundInv'
    BY <1>2, TablesStay DEF Announce
  <2>2. MessageInv'
    BY <1>1, <1>2 DEF Announce, MessageInv, messageVars
  <2> QED
    BY <2>1, <2>2 DEF DistVecInv
<1>3. CASE SendMessage
  <2>1. PICK s \in nodes, r \in nodes :
           /\ phase = "messages" /\ Cost(forwardTable, s, r) >= 0 /\ phase' = "hops"
           /\ startId' = s /\ routeId' = r /\ currId' = s
           /\ UNCHANGED <<topo, nodes, forwardTable, iter, todo>>
    BY <1>3 DEF SendMessage, Cost
  <2>2. TopoInv' /\ RoundInv'
    BY <1>1, <2>1, TablesStay
  <2>3. Cost(forwardTable, s, r) # NoLink
    BY <1>1, <2>1, TableFacts
  <2>4. MessageInv'
    BY <2>1, <2>3 DEF MessageInv
  <2> QED
    BY <2>2, <2>4 DEF DistVecInv
<1>4. CASE Hop
  <2>1. /\ phase = "hops" /\ currId # routeId
        /\ currId' = forwardTable[<<currId, routeId>>].first
        /\ UNCHANGED <<phase, topo, nodes, forwardTable, iter, todo, startId, routeId>>
    BY <1>4 DEF Hop
  <2>2. TopoInv' /\ RoundInv'
    BY <1>1, <2>1, TablesStay
  <2>3. /\ currId \in nodes /\ routeId \in nodes /\ {startId, routeId} \subseteq nodes \cup {0}
        /\ Cost(forwardTable, currId, routeId) # NoLink
    BY <1>1, <2>1 DEF MessageInv
  <2>4. currId' \in nodes /\ Cost(forwardTable, currId', routeId) # NoLink
    BY <1>1, <2>1, <2>3 DEF Backed
  <2>5. MessageInv'
    BY <2>1, <2>3, <2>4 DEF MessageInv
  <2> QED
    BY <2>2, <2>5 DEF DistVecInv
<1>5. CASE Deliver
  <2>1. TopoInv' /\ RoundInv'
    BY <1>1, <1>5, TablesStay DEF Deliver
  <2>2. MessageInv'
    BY <1>5 DEF Deliver, MessageInv
  <2> QED
    BY <2>1, <2>2 DEF DistVecInv
<1>6. CASE Finish
  <2>1. TopoInv' /\ RoundInv'
    BY <1>1, <1>6, TablesStay DEF Finish
  <2>2. MessageInv'
    BY <1>1, <1>6 DEF Finish, MessageInv, messageVars
  <2> QED
    BY <2>1, <2>2 DEF DistVecInv
<1> QED
  BY <1>2, <1>3, <1>4, <1>5, <1>6

\* A line of the changes file makes a network of the known nodes again.
LEMMA ChangeInv ==
    ASSUME DistVecInv, Change
    PROVE  /\ DistVecInv' /\ phase = "messages" /\ phase' = "generate" /\ IsNetwork(Known')
           /\ \E i, j \in Ids : \A p \in Pairs \ {<<i, j>>, <<j, i>>} : Known'[p] = Known[p]
<1>1. PICK i \in Ids, j \in Ids, cost \in Costs \cup {NoLink} :
         /\ phase = "messages" /\ i # j /\ phase' = "generate"
         /\ topo' = IF {i, j} \subseteq nodes THEN Relinked(topo, i, j, cost) ELSE topo
         /\ UNCHANGED <<nodes, forwardTable, iter, todo, messageVars>>
  BY DEF Change
<1>2. /\ IsNetwork(Known) /\ Endpoints(Known) \subseteq nodes /\ nodes \in SUBSET Ids
      /\ topo \in [Pairs -> Costs \cup {NoLink, 0}] /\ \A h \in Ids : topo[<<h, h>>] = 0
  BY DEF DistVecInv, TopoInv
<1>3. /\ IsNetwork(Known') /\ Endpoints(Known') \subseteq nodes
      /\ \A p \in Pairs \ {<<i, j>>, <<j, i>>} : Known'[p] = Known[p]
      /\ topo' \in [Pairs -> Costs \cup {NoLink, 0}] /\ \A h \in Ids : topo'[<<h, h>>] = 0
  <2>1. CASE {i, j} \subseteq nodes
    <3>1. topo' = Relinked(topo, i, j, cost)
      BY <1>1, <2>1
    <3>2. /\ topo' = [p \in Pairs |-> IF p = <<i, j>> \/ p = <<j, i>> THEN cost ELSE topo[p]]
      BY <1>2, <3>1 DEF Relinked, Pairs
    <3>3. topo' \in [Pairs -> Costs \cup {NoLink, 0}] /\ \A h \in Ids : topo'[<<h, h>>] = 0
      BY <1>1, <1>2, <3>2 DEF Pairs
    <3>4. Known' = Relinked(Known, i, j, cost)
      <4>1. Relinked(Known, i, j, cost) =
               [p \in Pairs |-> IF p = <<i, j>> \/ p = <<j, i>> THEN cost ELSE Known[p]]
        BY DEF Relinked, Pairs, Known
      <4>2. Known' = [p \in Pairs |-> IF p[1] # p[2] THEN topo'[p] ELSE NoLink]
        BY DEF Known
      <4>3. ASSUME NEW p \in Pairs
            PROVE  (IF p[1] # p[2] THEN topo'[p] ELSE NoLink)
                      = IF p = <<i, j>> \/ p = <<j, i>> THEN cost ELSE Known[p]
        BY <1>1, <3>2 DEF Known, Pairs
      <4> QED
        BY <4>1, <4>2, <4>3
    <3>5. /\ IsNetwork(Known')
          /\ \A p \in Pairs \ {<<i, j>>, <<j, i>>} : Known'[p] = Known[p]
          /\ Endpoints(Known') \subseteq Endpoints(Known) \cup {i, j}
      BY <1>1, <1>2, <3>4, RelinkedNetwork
    <3> QED
      BY <1>2, <2>1, <3>3, <3>5
  <2>2. CASE ~({i, j} \subseteq nodes)
    <3>1. topo' = topo /\ Known' = Known
      BY <1>1, <2>2 DEF Known
    <3> QED
      BY <1>2, <3>1
  <2> QED
    BY <2>1, <2>2
<1>4. TopoInv'
  BY <1>1, <1>2, <1>3 DEF TopoInv
<1>5. RoundInv'
  BY <1>1 DEF DistVecInv, RoundInv, Rounds
<1>6. MessageInv'
  BY <1>1 DEF DistVecInv, MessageInv, messageVars
<1> QED
  BY <1>1, <1>3, <1>4, <1>5, <1>6 DEF DistVecInv

LEMMA StepInv == DistVecInv /\ [Next]_vars => DistVecInv'
<1> SUFFICES ASSUME DistVecInv, [Next]_vars PROVE DistVecInv'
  OBVIOUS
<1>1. CASE Done \/ UNCHANGED vars
  <2>1. UNCHANGED vars
    BY <1>1 DEF Done
  <2> QED
    BY <2>1 DEF DistVecInv, TopoInv, RoundInv, MessageInv, vars, messageVars, Known, Rounds
<1>2. CASE GenerateForwardTable
  BY <1>2, GenerateInv
<1>3. CASE FindMinPath
  BY <1>3, FindMinPathInv
<1>4. CASE EndRound
  BY <1>4, EndRoundInv
<1>5. CASE Announce \/ SendMessage \/ Hop \/ Deliver \/ Finish
  BY <1>5, MessagesInv
<1>6. CASE Change
  BY <1>6, ChangeInv
<1> QED
  BY <1>1, <1>2, <1>3, <1>4, <1>5, <1>6 DEF Next

LEMMA DistVecInvariant == Spec => []DistVecInv
BY InitInv, StepInv, PTL DEF Spec

-----------------------------------------------------------------------------
(***************************************************************************)
(* What the invariant says.                                                *)
(***************************************************************************)
LEMMA TypeFollows == DistVecInv => TypeOK
BY DEF DistVecInv, TopoInv, RoundInv, MessageInv, TypeOK, Tables, Rounds

LEMMA BackedFollows == DistVecInv => EntriesBacked
<1> SUFFICES ASSUME DistVecInv, Searching, NEW s \in nodes, NEW r \in nodes,
                    NEW e, e = forwardTable[<<s, r>>], s # r, e.second # NoLink
             PROVE  /\ e.first \in nodes \ {s} /\ topo[<<s, e.first>>] # NoLink
                    /\ forwardTable[<<e.first, r>>].second # NoLink
                    /\ e.second >= topo[<<s, e.first>>] + forwardTable[<<e.first, r>>].second
  BY DEF EntriesBacked
<1>1. phase # "generate" /\ TopoInv /\ nodes \in SUBSET Ids
  BY DEF Searching, DistVecInv, TopoInv
<1>2. Backed(Known, nodes, forwardTable)
  BY <1>1 DEF DistVecInv, RoundInv, GoodTable
<1>3. /\ e.first \in nodes \ {s} /\ Linked(Known, s, e.first)
      /\ forwardTable[<<e.first, r>>].second # NoLink
      /\ e.second >= Known[<<s, e.first>>] + forwardTable[<<e.first, r>>].second
  BY <1>2 DEF Backed, Cost
<1>4. topo[<<s, e.first>>] = Known[<<s, e.first>>]
  <2>1. s \in Ids /\ e.first \in Ids /\ s # e.first
    BY <1>1, <1>3
  <2> QED
    BY <1>1, <2>1, TopoFacts
<1> QED
  BY <1>3, <1>4 DEF Linked

LEMMA CoverFollows == DistVecInv => RoundsCover
<1> SUFFICES ASSUME DistVecInv, phase = "bellMan", todo = {}, iter \in 1 .. Cardinality(nodes),
                    NEW p \in nodes \X nodes,
                    CheapestWithin(Known, Infinity, iter + 1)[p] < Infinity
             PROVE  forwardTable[p].second \in 0 .. CheapestWithin(Known, Infinity, iter + 1)[p]
  BY DEF RoundsCover
<1>1. iter <= Rounds
  BY RoundsType DEF Rounds
<1>2. Covers(Known, forwardTable, iter + 1, {q \in nodes \X nodes : <<q[2], q[1]>> \notin todo})
  BY <1>1 DEF DistVecInv, RoundInv
<1> QED
  BY <1>2 DEF Covers

\* After the last round the tables hold the costs of the cheapest routes.
LEMMA CostsExact ==
    ASSUME DistVecInv, phase # "generate", iter > Rounds, NEW s \in nodes, NEW r \in nodes
    PROVE  Dist(Known, s, r) = IF Cost(forwardTable, s, r) = NoLink THEN Infinity
                               ELSE Cost(forwardTable, s, r)
<1>1. /\ IsNetwork(Known) /\ nodes \in SUBSET Ids /\ Endpoints(Known) \subseteq nodes
      /\ GoodTable(Known, nodes, forwardTable)
      /\ Covers(Known, forwardTable, iter, nodes \X nodes)
      /\ iter \in 0 .. Rounds + 1 /\ iter # 0 /\ Rounds \in Nat
  BY RoundsType DEF DistVecInv, TopoInv, RoundInv
<1>2. iter \in Nat \ {0} /\ iter >= Cardinality(nodes)
  BY <1>1 DEF Rounds
<1> QED
  BY <1>1, <1>2, TableExact

LEMMA SymmetricFollows == DistVecInv => SymmetricCosts
<1> SUFFICES ASSUME DistVecInv, phase = "bellMan", iter > Rounds, NEW s \in nodes, NEW r \in nodes
             PROVE  Cost(forwardTable, s, r) = Cost(forwardTable, r, s)
  BY DEF SymmetricCosts, Cost
<1>1. /\ IsNetwork(Known) /\ nodes \in SUBSET Ids
      /\ GoodTable(Known, nodes, forwardTable)
  BY DEF DistVecInv, TopoInv, RoundInv
<1>2. s \in Ids /\ r \in Ids
  BY <1>1
<1>3. Dist(Known, s, r) = Dist(Known, r, s)
  BY <1>1, <1>2, DistFacts
<1>4. /\ Cost(forwardTable, s, r) # NoLink => Dist(Known, s, r) < Infinity
      /\ Cost(forwardTable, r, s) # NoLink => Dist(Known, r, s) < Infinity
  BY <1>1, KnownRoutes
<1>5. /\ Dist(Known, s, r) = IF Cost(forwardTable, s, r) = NoLink THEN Infinity
                             ELSE Cost(forwardTable, s, r)
      /\ Dist(Known, r, s) = IF Cost(forwardTable, r, s) = NoLink THEN Infinity
                             ELSE Cost(forwardTable, r, s)
  BY CostsExact
<1>6. Infinity \in Nat /\ Dist(Known, s, r) \in Nat /\ Dist(Known, r, s) \in Nat
  BY <1>1, <1>2, InfinityFacts, DistFacts
<1>7. Dist(Known, s, r) < Infinity <=> Cost(forwardTable, s, r) # NoLink
  BY <1>4, <1>5, <1>6
<1>8. Dist(Known, r, s) < Infinity <=> Cost(forwardTable, r, s) # NoLink
  BY <1>4, <1>5, <1>6
<1>9. CASE Cost(forwardTable, s, r) = NoLink
  <2>1. Cost(forwardTable, r, s) = NoLink
    BY <1>3, <1>7, <1>8, <1>9
  <2> QED
    BY <1>9, <2>1
<1>10. CASE Cost(forwardTable, s, r) # NoLink
  <2>1. Cost(forwardTable, r, s) # NoLink
    BY <1>3, <1>7, <1>8, <1>10
  <2> QED
    BY <1>3, <1>5, <1>10, <2>1
<1> QED
  BY <1>9, <1>10

\* The type of the state of distvec: the rounds end one after the last, a next hop
\* is a known node, a message is always at one.
THEOREM DistVecType == Spec => []TypeOK
<1>1. DistVecInv => TypeOK
  BY TypeFollows
<1> QED
  BY <1>1, DistVecInvariant, PTL

\* Although the tables are read while they are updated, every entry of every
\* mixture of two rounds leads to a nearer node that knows a route.
THEOREM EntriesStayBacked == Spec => []EntriesBacked
<1>1. DistVecInv => EntriesBacked
  BY BackedFollows
<1> QED
  BY <1>1, DistVecInvariant, PTL

\* Every completed round covers the routes of one more link.
THEOREM RoundsSuffice == Spec => []RoundsCover
<1>1. DistVecInv => RoundsCover
  BY CoverFollows
<1> QED
  BY <1>1, DistVecInvariant, PTL

\* The printed table of a node shows the costs from the node although the program
\* takes those to it.
THEOREM PrintedCostsAgree == Spec => []SymmetricCosts
<1>1. DistVecInv => SymmetricCosts
  BY SymmetricFollows
<1> QED
  BY <1>1, DistVecInvariant, PTL

-----------------------------------------------------------------------------
(***************************************************************************)
(* distvec implements Routing.                                             *)
(***************************************************************************)
Announced == [p \in nodes \X nodes |->
                 LET e == forwardTable[p]
                 IN  [cost |-> IF e.second = NoLink THEN Infinity ELSE e.second,
                      next |-> e.first]]

LEMMA SameNetworks ==
    /\ R!Networks = Networks /\ R!Pairs = Pairs
    /\ \A net : R!Endpoints(net) = Endpoints(net)
    /\ \A net, i, j : R!Linked(net, i, j) <=> Linked(net, i, j)
<1>1. R!Networks = Networks
  BY DEF R!Networks, Networks, R!Pairs, Pairs, R!NoLink, NoLink, R!kSubset, kSubset,
         R!Cardinality, Cardinality
<1> QED
  BY <1>1 DEF R!Pairs, Pairs, R!NoLink, NoLink, R!Endpoints, Endpoints, R!Linked, Linked

LEMMA SameCheapest == \A net, infinity : R!Cheapest(net, infinity) = Cheapest(net, infinity)
BY DEF R!Cheapest, Cheapest, R!Pairs, Pairs, R!Min, Min,
       R!DirectCost, DirectCost, R!NoLink, NoLink

\* The next hop lies on a cheapest route: the tables of both ends are exact.
LEMMA NextIsRight ==
    ASSUME DistVecInv, phase # "generate", iter > Rounds, NEW s \in nodes, NEW r \in nodes,
           s # r, Dist(Known, s, r) < Infinity,
           NEW k, k = forwardTable[<<s, r>>].first
    PROVE  Linked(Known, s, k) /\ Dist(Known, s, r) = Known[<<s, k>>] + Dist(Known, k, r)
<1>1. /\ IsNetwork(Known) /\ nodes \in SUBSET Ids /\ GoodTable(Known, nodes, forwardTable)
      /\ Infinity \in Nat
  BY InfinityFacts DEF DistVecInv, TopoInv, RoundInv
<1>2. /\ Cost(forwardTable, s, r) # NoLink /\ Dist(Known, s, r) = Cost(forwardTable, s, r)
  BY <1>1, CostsExact
<1>3. /\ k \in nodes \ {s} /\ Linked(Known, s, k) /\ Cost(forwardTable, k, r) # NoLink
      /\ Cost(forwardTable, s, r) >= Known[<<s, k>>] + Cost(forwardTable, k, r)
  BY <1>1, <1>2 DEF GoodTable, Backed
<1>4. Dist(Known, k, r) = Cost(forwardTable, k, r)
  BY <1>3, CostsExact
<1>5. s \in Ids /\ k \in Ids /\ r \in Ids
  BY <1>1, <1>3
<1>6. /\ Dist(Known, s, r) \in Nat /\ Dist(Known, k, r) \in Nat /\ Dist(Known, s, k) \in Nat
      /\ Dist(Known, s, k) <= Known[<<s, k>>]
      /\ Dist(Known, s, r) <= Dist(Known, s, k) + Dist(Known, k, r)
  BY <1>1, <1>3, <1>5, DistFacts
<1>7. Known[<<s, k>>] \in Nat
  BY <1>1, <1>3, <1>5, LinkFacts
<1> QED
  BY <1>2, <1>3, <1>4, <1>6, <1>7

LEMMA TablesAnnounce ==
    ASSUME DistVecInv, phase # "generate", iter > Rounds
    PROVE  R!Announces(Announced, Known) /\ DOMAIN Announced = nodes \X nodes
<1> DEFINE t == Announced
           cost == Cheapest(Known, Infinity)
<1>1. DOMAIN t = nodes \X nodes
  BY DEF Announced
<1>2. ASSUME NEW s \in nodes, NEW r \in nodes
      PROVE  /\ t[<<s, r>>].cost = IF Cost(forwardTable, s, r) = NoLink THEN Infinity
                                   ELSE Cost(forwardTable, s, r)
             /\ t[<<s, r>>].next = forwardTable[<<s, r>>].first
  BY DEF Announced, Cost
<1> HIDE DEF t
<1>3. ASSUME NEW p \in nodes \X nodes
      PROVE  /\ t[p].cost = cost[p]
             /\ p[1] # p[2] /\ cost[p] < Infinity =>
                   /\ Linked(Known, p[1], t[p].next)
                   /\ cost[p] = Known[<<p[1], t[p].next>>] + cost[<<t[p].next, p[2]>>]
  <2>1. PICK s \in nodes, r \in nodes : p = <<s, r>>
    OBVIOUS
  <2>2. cost[p] = Dist(Known, s, r) /\ cost[<<t[p].next, p[2]>>] = Dist(Known, t[p].next, r)
    BY <2>1 DEF Dist
  <2> HIDE DEF cost
  <2>3. t[p].cost = cost[p]
    BY <1>2, <2>1, <2>2, CostsExact
  <2>4. s # r /\ Dist(Known, s, r) < Infinity =>
           /\ Linked(Known, s, t[p].next)
           /\ Dist(Known, s, r) = Known[<<s, t[p].next>>] + Dist(Known, t[p].next, r)
    BY <1>2, <2>1, NextIsRight
  <2> QED
    BY <2>1, <2>2, <2>3, <2>4
<1> QED
  BY <1>1, <1>3, SameCheapest, SameNetworks DEF R!Announces, t

LEMMA StepRefines ==
    ASSUME DistVecInv, [Next]_vars
    PROVE  [R!Next]_(R!routingVars)
<1> DEFINE T == IF ready THEN Announced ELSE << >>
<1>1. (UNCHANGED <<Known, ready, T>>) => [R!Next]_(R!routingVars)
  BY DEF R!routingVars, Announced
<1>2. ASSUME UNCHANGED <<topo, nodes, forwardTable>>, ready' = ready
      PROVE  UNCHANGED <<Known, ready, T>>
  BY <1>2 DEF Known, Announced
<1>3. CASE GenerateForwardTable \/ FindMinPath \/ EndRound
  <2>1. UNCHANGED topo /\ ready = FALSE /\ ready' = FALSE
    BY <1>3 DEF GenerateForwardTable, FindMinPath, EndRound, ready
  <2> QED
    BY <1>1, <2>1 DEF Known
<1>4. CASE Announce
  <2>1. /\ ready = FALSE /\ ready' = TRUE /\ phase # "generate" /\ iter > Rounds
        /\ UNCHANGED <<topo, nodes, forwardTable>>
    BY <1>4 DEF Announce, ready
  <2>2. nodes \in SUBSET Ids /\ Endpoints(Known) \subseteq nodes
    BY DEF DistVecInv, TopoInv
  <2>3. T' = Announced /\ Known' = Known
    BY <2>1 DEF Announced, Known
  <2>4. R!Announces(T', Known) /\ DOMAIN T' = nodes \X nodes
    BY <2>1, <2>3, TablesAnnounce
  <2>5. \E known \in SUBSET Ids : R!Endpoints(Known) \subseteq known
                                  /\ DOMAIN T' = known \X known
    BY <2>2, <2>4, SameNetworks
  <2>6. R!Announce
    BY <2>1, <2>3, <2>4, <2>5 DEF R!Announce, Announced
  <2> QED
    BY <2>6 DEF R!Next
<1>5. CASE SendMessage \/ Hop \/ Deliver \/ Finish
  <2>1. UNCHANGED <<topo, nodes, forwardTable>>
    BY <1>5 DEF SendMessage, Hop, Deliver, Finish
  <2>2. /\ phase \in {"messages", "hops", "done"}
        /\ phase' \in {"messages", "hops", "done"}
    BY <1>5 DEF SendMessage, Hop, Deliver, Finish
  <2> QED
    BY <1>1, <1>2, <2>1, <2>2 DEF ready
<1>6. CASE Change
  <2>1. /\ phase = "messages" /\ phase' = "generate" /\ IsNetwork(Known')
        /\ \E i, j \in Ids : \A p \in Pairs \ {<<i, j>>, <<j, i>>} : Known'[p] = Known[p]
    BY <1>6, ChangeInv
  <2>2. ready = TRUE /\ ready' = FALSE /\ T' = << >>
    BY <2>1 DEF ready
  <2>3. Known' \in R!Networks
    BY <2>1, NetworksAre, SameNetworks
  <2>4. R!Change
    BY <2>1, <2>2, <2>3, SameNetworks DEF R!Change, R!NoTable, Announced
  <2> QED
    BY <2>4 DEF R!Next
<1>7. CASE Done \/ UNCHANGED vars
  <2>1. UNCHANGED <<topo, nodes, forwardTable>> /\ ready' = ready
    BY <1>7 DEF Done, vars, ready
  <2> QED
    BY <1>1, <1>2, <2>1
<1> QED
  BY <1>3, <1>4, <1>5, <1>6, <1>7 DEF Next

\* All that distvec announces, after the topology and after every change, are the
\* cheapest routes of the network as the files describe it at that point.
THEOREM DistVecImplementsRouting == Spec => ImplementsRouting
<1>1. Init => R!Init
  <2>1. ASSUME Init PROVE Known \in R!Networks /\ ready = FALSE
    <3>1. IsNetwork(Known)
      BY <2>1, InitInv DEF DistVecInv, TopoInv
    <3> QED
      BY <2>1, <3>1, NetworksAre, SameNetworks DEF Init, ready
  <2> QED
    BY <2>1 DEF R!Init, R!NoTable
<1>2. DistVecInv /\ [Next]_vars => [R!Next]_(R!routingVars)
  BY StepRefines
<1> QED
  BY <1>1, <1>2, DistVecInvariant, PTL DEF Spec, ImplementsRouting, R!Spec

=============================================================================
