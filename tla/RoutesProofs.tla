---------------------------- MODULE RoutesProofs ----------------------------
(***************************************************************************)
(* The laws of the cost of the cheapest route, for every network: the only *)
(* facts about Cheapest that a proof about a routing program needs.        *)
(***************************************************************************)
EXTENDS Routes, FiniteSetTheorems, WellFoundedInduction, TLAPS

\* A non-empty set of naturals has a least element, and Min is that.
LEMMA MinNat ==
    ASSUME NEW T \in SUBSET Nat, T # {}
    PROVE  Min(T) \in T /\ \A y \in T : Min(T) <= y
<1> DEFINE Less == {ss \in Nat \X Nat : ss[1] < ss[2]}
<1>1. IsWellFoundedOn(Less, Nat)
  BY NatLessThanWellFounded DEF OpToRel
<1> HIDE DEF Less
<1>2. PICK x \in T : \A y \in T : <<y, x>> \notin Less
  BY <1>1, WFMin
<1>3. \A y \in T : x <= y
  <2> TAKE y \in T
  <2>1. x \in Nat /\ y \in Nat
    OBVIOUS
  <2>2. ~(y < x)
    BY <1>2, <2>1, Zenon DEF Less
  <2> QED
    BY <2>1, <2>2
<1> QED
  BY <1>3 DEF Min

\* The smaller of two naturals.
LEMMA MinOfTwo ==
    ASSUME NEW a \in Nat, NEW b \in Nat
    PROVE  Min({a, b}) = IF a <= b THEN a ELSE b
<1>1. {a, b} \in SUBSET Nat /\ {a, b} # {}
  OBVIOUS
<1>2. Min({a, b}) \in {a, b} /\ \A y \in {a, b} : Min({a, b}) <= y
  BY <1>1, MinNat
<1> QED
  BY <1>2

-----------------------------------------------------------------------------
\* Networks are the symmetric cost maps without a link from a node to itself.
IsNetwork(net) ==
    /\ net \in [Pairs -> Costs \cup {NoLink}]
    /\ \A i \in Ids : net[<<i, i>>] = NoLink
    /\ \A i, j \in Ids : net[<<i, j>>] = net[<<j, i>>]

LEMMA NetworksAre == \A net : net \in Networks <=> IsNetwork(net)
<1> TAKE net
<1> DEFINE K == kSubset(2, Ids)
<1>1. ASSUME NEW i \in Ids, NEW j \in Ids, i # j PROVE {i, j} \in K
  <2>1. IsFiniteSet({i}) /\ Cardinality({i}) = 1
    BY FS_Singleton
  <2>2. Cardinality({i} \cup {j}) = 2
    BY <1>1, <2>1, FS_AddElement
  <2>3. {i} \cup {j} = {i, j}
    OBVIOUS
  <2> QED
    BY <2>2, <2>3 DEF kSubset
<1> HIDE DEF K
<1>2. ASSUME net \in Networks PROVE IsNetwork(net)
  <2>1. PICK c \in [K -> Costs \cup {NoLink}] :
           net = [p \in Pairs |-> IF p[1] = p[2] THEN NoLink ELSE c[{p[1], p[2]}]]
    BY <1>2 DEF Networks, K
  <2>2. ASSUME NEW p \in Pairs PROVE net[p] \in Costs \cup {NoLink}
    <3>1. p[1] \in Ids /\ p[2] \in Ids
      BY DEF Pairs
    <3> QED
      BY <1>1, <2>1, <3>1
  <2>3. net \in [Pairs -> Costs \cup {NoLink}]
    BY <2>1, <2>2
  <2>4. ASSUME NEW i \in Ids, NEW j \in Ids
        PROVE  net[<<i, j>>] = IF i = j THEN NoLink ELSE c[{i, j}]
    BY <2>1 DEF Pairs
  <2>5. \A i, j \in Ids : net[<<i, j>>] = net[<<j, i>>]
    <3> TAKE i, j \in Ids
    <3>1. {i, j} = {j, i}
      OBVIOUS
    <3> QED
      BY <2>4, <3>1
  <2> QED
    BY <2>3, <2>4, <2>5 DEF IsNetwork
<1>3. ASSUME IsNetwork(net) PROVE net \in Networks
  <2> DEFINE Cost(s, x) == \E i, j \in Ids : i # j /\ s = {i, j} /\ x = net[<<i, j>>]
             c == [s \in K |-> IF \E x : Cost(s, x) THEN CHOOSE x : Cost(s, x) ELSE NoLink]
  <2>1. ASSUME NEW s, NEW x, Cost(s, x) PROVE x \in Costs \cup {NoLink}
    BY <1>3, <2>1 DEF IsNetwork, Pairs
  <2>2. ASSUME NEW i \in Ids, NEW j \in Ids, i # j, NEW x
        PROVE  Cost({i, j}, x) <=> x = net[<<i, j>>]
    <3>1. ASSUME NEW k \in Ids, NEW l \in Ids, {i, j} = {k, l}
          PROVE  net[<<k, l>>] = net[<<i, j>>]
      <4>1. (k = i /\ l = j) \/ (k = j /\ l = i)
        BY <2>2, <3>1
      <4> QED
        BY <1>3, <4>1 DEF IsNetwork
    <3> QED
      BY <2>2, <3>1
  <2> HIDE DEF Cost
  <2>3. c \in [K -> Costs \cup {NoLink}]
    <3>1. ASSUME NEW s \in K
          PROVE  (IF \E x : Cost(s, x) THEN CHOOSE x : Cost(s, x) ELSE NoLink) \in Costs \cup {NoLink}
      BY <2>1
    <3> QED
      BY <3>1
  <2>4. ASSUME NEW p \in Pairs
        PROVE  net[p] = IF p[1] = p[2] THEN NoLink ELSE c[{p[1], p[2]}]
    <3>1. p[1] \in Ids /\ p[2] \in Ids /\ p = <<p[1], p[2]>>
      BY DEF Pairs
    <3>2. CASE p[1] = p[2]
      BY <1>3, <3>1, <3>2 DEF IsNetwork
    <3>3. CASE p[1] # p[2]
      <4> DEFINE s == {p[1], p[2]}
      <4>1. s \in K /\ \A x : Cost(s, x) <=> x = net[p]
        BY <1>1, <2>2, <3>1, <3>3
      <4> HIDE DEF s
      <4>2. \E x : Cost(s, x)
        BY <4>1
      <4>3. (CHOOSE x : Cost(s, x)) = net[p]
        BY <4>1, <4>2
      <4>4. c[s] = net[p]
        BY <4>1, <4>2, <4>3
      <4> QED
        BY <3>3, <4>4 DEF s
    <3> QED
      BY <3>2, <3>3
  <2>5. net = [p \in Pairs |-> IF p[1] = p[2] THEN NoLink ELSE c[{p[1], p[2]}]]
    <3>1. net = [p \in Pairs |-> net[p]]
      BY <1>3 DEF IsNetwork
    <3> HIDE DEF c
    <3> QED
      BY <2>4, <3>1
  <2> HIDE DEF c
  <2> QED
    BY <2>3, <2>5 DEF Networks, K
<1> QED
  BY <1>2, <1>3

-----------------------------------------------------------------------------
(***************************************************************************)
(* The routes over more and more inner nodes.                              *)
(***************************************************************************)
\* One value of via in Cheapest, from those of smaller sets.
Over(via, net, infinity, N) ==
    IF N = {} THEN DirectCost(net, infinity)
    ELSE LET u == Min(N)
             c == via[N \ {u}]
         IN  [p \in Pairs |-> Min({c[p], c[<<p[1], u>>] + c[<<u, p[2]>>]})]

\* Sets of at most n nodes.
Small(n) == {N \in SUBSET Ids : Cardinality(N) <= n}

\* via on those sets.
ViaUpTo(via, net, infinity, n) == via = [N \in Small(n) |-> Over(via, net, infinity, N)]

\* What taking the least node out of a set leaves.
LEMMA WithoutMin ==
    ASSUME NEW N \in SUBSET Ids, N # {}
    PROVE  /\ Min(N) \in N /\ N \ {Min(N)} \in SUBSET Ids
           /\ Cardinality(N) \in Nat \ {0}
           /\ Cardinality(N \ {Min(N)}) = Cardinality(N) - 1
<1>1. N \in SUBSET Nat /\ IsFiniteSet(N)
  BY RoutesAssumption, FS_Subset
<1>2. Min(N) \in N
  BY <1>1, MinNat
<1>3. Cardinality(N \ {Min(N)}) = Cardinality(N) - 1
  BY <1>1, <1>2, FS_RemoveElement
<1>4. IsFiniteSet(N \ {Min(N)}) /\ Cardinality(N) \in Nat /\ Cardinality(N \ {Min(N)}) \in Nat
  BY <1>1, FS_CardinalityType, FS_RemoveElement, FS_Subset
<1> QED
  BY <1>2, <1>3, <1>4

\* There is such a via for all sets up to any size: none could be the first without.
LEMMA ViaExists ==
    ASSUME NEW net, NEW infinity, NEW n \in Nat
    PROVE  \E via : ViaUpTo(via, net, infinity, n)
<1> DEFINE Has(k) == \E via : ViaUpTo(via, net, infinity, k)
           T == {k \in Nat : ~Has(k)}
<1>1. ASSUME NEW k \in T, \A y \in T : k <= y PROVE FALSE
  <2>1. CASE k = 0
    <3> DEFINE f == [N \in Small(0) |-> DirectCost(net, infinity)]
    <3>1. ASSUME NEW N \in Small(0) PROVE N = {}
      <4>1. N \in SUBSET Ids /\ Cardinality(N) <= 0
        BY DEF Small
      <4>2. N # {} => Cardinality(N) \in Nat \ {0}
        BY <4>1, WithoutMin, Zenon
      <4> QED
        BY <4>1, <4>2
    <3>2. f = [N \in Small(0) |-> Over(f, net, infinity, N)]
      BY <3>1 DEF Over
    <3> HIDE DEF f
    <3> QED
      BY <2>1, <3>2 DEF ViaUpTo
  <2>2. CASE k # 0
    <3>1. k - 1 \in Nat /\ k - 1 \notin T
      BY <1>1, <2>2
    <3>2. PICK g : g = [N \in Small(k - 1) |-> Over(g, net, infinity, N)]
      BY <3>1 DEF ViaUpTo
    <3> DEFINE f == [N \in Small(k) |-> IF N \in Small(k - 1) THEN g[N]
                                        ELSE Over(g, net, infinity, N)]
    <3>3. ASSUME NEW N \in Small(k), N # {}
          PROVE  N \ {Min(N)} \in Small(k - 1) /\ N \ {Min(N)} \in Small(k)
      <4>1. N \in SUBSET Ids /\ Cardinality(N) <= k
        BY DEF Small
      <4>2. /\ Cardinality(N \ {Min(N)}) = Cardinality(N) - 1
            /\ N \ {Min(N)} \in SUBSET Ids /\ Cardinality(N) \in Nat \ {0}
        BY <3>3, <4>1, WithoutMin
      <4> QED
        BY <4>1, <4>2 DEF Small
    <3>4. ASSUME NEW N \in Small(k)
          PROVE  f[N] = Over(f, net, infinity, N)
      <4>1. f[N] = Over(g, net, infinity, N)
        BY <3>2
      <4>2. CASE N = {}
        BY <4>1, <4>2 DEF Over
      <4>3. CASE N # {}
        <5> DEFINE M == N \ {Min(N)}
        <5>1. f[M] = g[M]
          BY <3>3, <4>3
        <5> HIDE DEF f
        <5> QED
          BY <4>1, <4>3, <5>1 DEF Over
      <4> QED
        BY <4>2, <4>3
    <3>5. f = [N \in Small(k) |-> f[N]]
      OBVIOUS
    <3> HIDE DEF f
    <3>6. f = [N \in Small(k) |-> Over(f, net, infinity, N)]
      BY <3>4, <3>5
    <3> QED
      BY <3>6 DEF ViaUpTo
  <2> QED
    BY <2>1, <2>2
<1> HIDE DEF Has
<1>2. T \in SUBSET Nat
  OBVIOUS
<1> HIDE DEF T
<1>3. T = {}
  BY <1>1, <1>2, MinNat
<1> QED
  BY <1>3 DEF T, Has

\* The values that Cheapest goes through exist, and the last one is its result.
LEMMA CheapestIsVia ==
    ASSUME NEW net, NEW infinity
    PROVE  \E via : /\ \A N \in SUBSET Ids : via[N] = Over(via, net, infinity, N)
                    /\ Cheapest(net, infinity) = via[Ids]
<1> DEFINE IsVia(via) ==
               via = [N \in SUBSET Ids |->
                         IF N = {} THEN DirectCost(net, infinity)
                         ELSE LET u == Min(N)
                                  c == via[N \ {u}]
                              IN  [p \in Pairs |-> Min({c[p], c[<<p[1], u>>] + c[<<u, p[2]>>]})]]
           chosen == CHOOSE via : IsVia(via)
<1>1. Cardinality(Ids) \in Nat /\ SUBSET Ids = Small(Cardinality(Ids))
  BY RoutesAssumption, FS_CardinalityType, FS_Subset DEF Small
<1>2. \E via : IsVia(via)
  <2>1. PICK via : ViaUpTo(via, net, infinity, Cardinality(Ids))
    BY <1>1, ViaExists
  <2>2. via = [N \in SUBSET Ids |-> Over(via, net, infinity, N)]
    BY <1>1, <2>1 DEF ViaUpTo
  <2> QED
    BY <2>2 DEF Over
<1>3. IsVia(chosen)
  <2> HIDE DEF IsVia
  <2> QED
    BY <1>2
<1>4. Cheapest(net, infinity) = chosen[Ids]
  BY DEF Cheapest
<1> HIDE DEF chosen
<1>5. \A N \in SUBSET Ids : chosen[N] = Over(chosen, net, infinity, N)
  BY <1>3 DEF Over
<1> QED
  BY <1>4, <1>5

-----------------------------------------------------------------------------
(***************************************************************************)
(* The laws.                                                               *)
(***************************************************************************)
\* d gives the costs of the cheapest routes with inner nodes in N.
Laws(d, net, infinity, N) ==
    /\ d \in [Pairs -> 0 .. infinity]
    /\ \A i \in Ids : d[<<i, i>>] = 0
    /\ \A i, j \in Ids : d[<<i, j>>] = d[<<j, i>>]
    /\ \A i, j \in Ids : Linked(net, i, j) => d[<<i, j>>] <= net[<<i, j>>]
    /\ \A i, j \in Ids : \A u \in N : d[<<i, j>>] <= d[<<i, u>>] + d[<<u, j>>]
    /\ \A i, j \in Ids : i # j /\ d[<<i, j>>] < infinity =>
          /\ \E k \in Ids : /\ Linked(net, k, j)
                            /\ d[<<i, k>>] + net[<<k, j>>] <= d[<<i, j>>]
          /\ \E k \in Ids : /\ Linked(net, i, k)
                            /\ net[<<i, k>>] + d[<<k, j>>] <= d[<<i, j>>]

\* A link of a network has a positive cost.
LEMMA LinkCost ==
    ASSUME NEW net, IsNetwork(net), NEW i \in Ids, NEW j \in Ids, Linked(net, i, j)
    PROVE  net[<<i, j>>] \in Costs /\ net[<<i, j>>] \in Nat \ {0} /\ i # j
<1>1. <<i, j>> \in Pairs
  BY DEF Pairs
<1> QED
  BY <1>1, RoutesAssumption DEF IsNetwork, Linked

\* Routes of no inner node.
LEMMA DirectLaws ==
    ASSUME NEW net, IsNetwork(net), NEW infinity \in Nat
    PROVE  Laws(DirectCost(net, infinity), net, infinity, {})
<1> DEFINE d == DirectCost(net, infinity)
<1>1. ASSUME NEW i \in Ids, NEW j \in Ids
      PROVE  d[<<i, j>>] = IF i = j THEN 0
                           ELSE IF ~Linked(net, i, j) \/ net[<<i, j>>] >= infinity THEN infinity
                           ELSE net[<<i, j>>]
  <2>1. <<i, j>> \in Pairs
    BY DEF Pairs
  <2> QED
    BY <2>1 DEF DirectCost, Linked
<1>2. d = [p \in Pairs |-> d[p]]
  BY DEF DirectCost
<1> HIDE DEF d
<1>3. ASSUME NEW p \in Pairs PROVE d[p] \in 0 .. infinity
  <2>1. PICK i \in Ids, j \in Ids : p = <<i, j>>
    BY DEF Pairs
  <2> QED
    BY <1>1, <2>1, LinkCost
<1>4. d \in [Pairs -> 0 .. infinity]
  BY <1>2, <1>3
<1>5. \A i, j \in Ids : Linked(net, i, j) => d[<<i, j>>] <= net[<<i, j>>]
  BY <1>1, LinkCost
<1>6. ASSUME NEW i \in Ids, NEW j \in Ids, i # j, d[<<i, j>>] < infinity
      PROVE  /\ \E k \in Ids : /\ Linked(net, k, j)
                               /\ d[<<i, k>>] + net[<<k, j>>] <= d[<<i, j>>]
             /\ \E k \in Ids : /\ Linked(net, i, k)
                               /\ net[<<i, k>>] + d[<<k, j>>] <= d[<<i, j>>]
  <2>1. Linked(net, i, j) /\ d[<<i, j>>] = net[<<i, j>>]
    BY <1>1, <1>6
  <2>2. net[<<i, j>>] \in Nat /\ d[<<i, i>>] = 0 /\ d[<<j, j>>] = 0
    BY <1>1, <2>1, LinkCost
  <2> QED
    BY <2>1, <2>2
<1>7. \A i, j \in Ids : d[<<i, j>>] = d[<<j, i>>]
  <2> TAKE i, j \in Ids
  <2>1. net[<<i, j>>] = net[<<j, i>>] /\ (Linked(net, i, j) <=> Linked(net, j, i))
    BY DEF IsNetwork, Linked
  <2> QED
    BY <1>1, <2>1
<1> QED
  BY <1>1, <1>4, <1>5, <1>6, <1>7 DEF Laws, d

\* d is c with the routes over u taken into account.
IsOver(d, c, u) == d = [p \in Pairs |-> Min({c[p], c[<<p[1], u>>] + c[<<u, p[2]>>]})]

\* One more inner node.
LEMMA OverLaws ==
    ASSUME NEW net, IsNetwork(net), NEW infinity \in Nat, NEW N \in SUBSET Ids, NEW u \in Ids,
           NEW c, Laws(c, net, infinity, N),
           NEW d, IsOver(d, c, u)
    PROVE  Laws(d, net, infinity, N \cup {u})
<1>1. ASSUME NEW i \in Ids, NEW j \in Ids PROVE c[<<i, j>>] \in 0 .. infinity
  <2>1. <<i, j>> \in Pairs
    BY DEF Pairs
  <2> QED
    BY <2>1 DEF Laws
<1>2. ASSUME NEW i \in Ids, NEW j \in Ids
      PROVE  d[<<i, j>>] = IF c[<<i, j>>] <= c[<<i, u>>] + c[<<u, j>>] THEN c[<<i, j>>]
                           ELSE c[<<i, u>>] + c[<<u, j>>]
  <2>1. <<i, j>> \in Pairs
    BY DEF Pairs
  <2>2. d[<<i, j>>] = Min({c[<<i, j>>], c[<<i, u>>] + c[<<u, j>>]})
    BY <2>1 DEF IsOver
  <2>3. c[<<i, j>>] \in Nat /\ c[<<i, u>>] + c[<<u, j>>] \in Nat
    BY <1>1
  <2> QED
    BY <2>2, <2>3, MinOfTwo
<1>3. d = [p \in Pairs |-> d[p]]
  BY DEF IsOver
<1>4. \A i \in Ids : c[<<i, i>>] = 0
  BY DEF Laws
<1>5. d \in [Pairs -> 0 .. infinity]
  <2>1. ASSUME NEW p \in Pairs PROVE d[p] \in 0 .. infinity
    <3>1. PICK i \in Ids, j \in Ids : p = <<i, j>>
      BY DEF Pairs
    <3>2. c[<<i, j>>] \in 0 .. infinity /\ c[<<i, u>>] \in 0 .. infinity /\ c[<<u, j>>] \in 0 .. infinity
      BY <1>1
    <3> QED
      BY <1>2, <3>1, <3>2
  <2> QED
    BY <1>3, <2>1
<1>6. ASSUME NEW i \in Ids, NEW j \in Ids
      PROVE  /\ d[<<i, j>>] \in Nat /\ d[<<i, j>>] <= c[<<i, j>>]
             /\ d[<<i, j>>] <= c[<<i, u>>] + c[<<u, j>>]
  <2>1. c[<<i, j>>] \in 0 .. infinity /\ c[<<i, u>>] \in 0 .. infinity /\ c[<<u, j>>] \in 0 .. infinity
    BY <1>1
  <2> QED
    BY <1>2, <2>1
<1>7. \A i \in Ids : d[<<i, i>>] = 0
  <2> TAKE i \in Ids
  <2>1. d[<<i, i>>] <= 0 /\ d[<<i, i>>] \in Nat
    BY <1>4, <1>6
  <2> QED
    BY <2>1
<1>8. \A i, j \in Ids : Linked(net, i, j) => d[<<i, j>>] <= net[<<i, j>>]
  <2> TAKE i, j \in Ids
  <2> HAVE Linked(net, i, j)
  <2>1. c[<<i, j>>] <= net[<<i, j>>] /\ c[<<i, j>>] \in 0 .. infinity
    BY <1>1 DEF Laws
  <2>2. net[<<i, j>>] \in Nat
    BY LinkCost
  <2>3. d[<<i, j>>] \in Nat /\ d[<<i, j>>] <= c[<<i, j>>]
    BY <1>6
  <2> QED
    BY <2>1, <2>2, <2>3
<1>9. ASSUME NEW i \in Ids, NEW j \in Ids, NEW w \in N \cup {u}
      PROVE  d[<<i, j>>] <= d[<<i, w>>] + d[<<w, j>>]
  <2>1. w \in Ids
    OBVIOUS
  <2>2. /\ c[<<i, j>>] \in 0 .. infinity /\ c[<<i, u>>] \in 0 .. infinity
        /\ c[<<u, j>>] \in 0 .. infinity /\ c[<<i, w>>] \in 0 .. infinity
        /\ c[<<w, j>>] \in 0 .. infinity /\ c[<<w, u>>] \in 0 .. infinity
        /\ c[<<u, w>>] \in 0 .. infinity
    BY <1>1, <2>1
  <2>3. CASE w = u
    <3>1. d[<<i, u>>] = c[<<i, u>>] /\ d[<<u, j>>] = c[<<u, j>>]
      <4>1. c[<<u, u>>] = 0
        BY <1>4
      <4>2. d[<<i, u>>] = c[<<i, u>>]
        BY <1>2, <2>2, <4>1
      <4>3. d[<<u, j>>] = c[<<u, j>>]
        BY <1>2, <2>2, <4>1
      <4> QED
        BY <4>2, <4>3
    <3> QED
      BY <1>6, <2>3, <3>1
  <2>4. CASE w \in N
    <3>1. /\ c[<<i, j>>] <= c[<<i, w>>] + c[<<w, j>>]
          /\ c[<<i, u>>] <= c[<<i, w>>] + c[<<w, u>>]
          /\ c[<<u, j>>] <= c[<<u, w>>] + c[<<w, j>>]
      BY <2>4 DEF Laws
    <3>2. /\ d[<<i, w>>] = c[<<i, w>>] \/ d[<<i, w>>] = c[<<i, u>>] + c[<<u, w>>]
          /\ d[<<w, j>>] = c[<<w, j>>] \/ d[<<w, j>>] = c[<<w, u>>] + c[<<u, j>>]
      BY <1>2, <2>1
    <3>3. /\ d[<<i, j>>] \in Nat /\ d[<<i, j>>] <= c[<<i, j>>]
          /\ d[<<i, j>>] <= c[<<i, u>>] + c[<<u, j>>]
      BY <1>6
    <3> QED
      BY <2>2, <3>1, <3>2, <3>3
  <2> QED
    BY <2>3, <2>4
<1>10. ASSUME NEW i \in Ids, NEW j \in Ids, i # j, d[<<i, j>>] < infinity
       PROVE  /\ \E k \in Ids : /\ Linked(net, k, j)
                                /\ d[<<i, k>>] + net[<<k, j>>] <= d[<<i, j>>]
              /\ \E k \in Ids : /\ Linked(net, i, k)
                                /\ net[<<i, k>>] + d[<<k, j>>] <= d[<<i, j>>]
  <2>1. c[<<i, j>>] \in 0 .. infinity /\ c[<<i, u>>] \in 0 .. infinity /\ c[<<u, j>>] \in 0 .. infinity
    BY <1>1
  <2>2. CASE d[<<i, j>>] = c[<<i, j>>]
    <3>1. PICK k \in Ids : Linked(net, k, j) /\ c[<<i, k>>] + net[<<k, j>>] <= c[<<i, j>>]
      BY <1>10, <2>2 DEF Laws
    <3>2. PICK l \in Ids : Linked(net, i, l) /\ net[<<i, l>>] + c[<<l, j>>] <= c[<<i, j>>]
      BY <1>10, <2>2 DEF Laws
    <3>3. net[<<k, j>>] \in Nat /\ net[<<i, l>>] \in Nat
      BY <3>1, <3>2, LinkCost
    <3>4. d[<<i, k>>] + net[<<k, j>>] <= d[<<i, j>>]
      <4>1. d[<<i, k>>] \in Nat /\ d[<<i, k>>] <= c[<<i, k>>] /\ c[<<i, k>>] \in 0 .. infinity
        BY <1>1, <1>6
      <4> QED
        BY <2>1, <2>2, <3>1, <3>3, <4>1
    <3>5. net[<<i, l>>] + d[<<l, j>>] <= d[<<i, j>>]
      <4>1. d[<<l, j>>] \in Nat /\ d[<<l, j>>] <= c[<<l, j>>] /\ c[<<l, j>>] \in 0 .. infinity
        BY <1>1, <1>6
      <4> QED
        BY <2>1, <2>2, <3>2, <3>3, <4>1
    <3> QED
      BY <3>1, <3>2, <3>4, <3>5
  <2>3. CASE d[<<i, j>>] # c[<<i, j>>]
    <3>1. d[<<i, j>>] = c[<<i, u>>] + c[<<u, j>>] /\ c[<<i, u>>] + c[<<u, j>>] < c[<<i, j>>]
      BY <1>2, <2>1, <2>3
    <3>2. u # i /\ u # j
      BY <1>4, <2>1, <3>1
    <3>3. c[<<i, u>>] < infinity /\ c[<<u, j>>] < infinity
      BY <1>10, <2>1, <3>1
    <3>4. PICK k \in Ids : Linked(net, k, j) /\ c[<<u, k>>] + net[<<k, j>>] <= c[<<u, j>>]
      BY <3>2, <3>3 DEF Laws
    <3>5. PICK l \in Ids : Linked(net, i, l) /\ net[<<i, l>>] + c[<<l, u>>] <= c[<<i, u>>]
      BY <3>2, <3>3 DEF Laws
    <3>6. net[<<k, j>>] \in Nat /\ net[<<i, l>>] \in Nat
      BY <3>4, <3>5, LinkCost
    <3>7. d[<<i, k>>] + net[<<k, j>>] <= d[<<i, j>>]
      <4>1. /\ d[<<i, k>>] \in Nat /\ d[<<i, k>>] <= c[<<i, u>>] + c[<<u, k>>]
            /\ c[<<u, k>>] \in 0 .. infinity
        BY <1>1, <1>6
      <4> QED
        BY <2>1, <3>1, <3>4, <3>6, <4>1
    <3>8. net[<<i, l>>] + d[<<l, j>>] <= d[<<i, j>>]
      <4>1. /\ d[<<l, j>>] \in Nat /\ d[<<l, j>>] <= c[<<l, u>>] + c[<<u, j>>]
            /\ c[<<l, u>>] \in 0 .. infinity
        BY <1>1, <1>6
      <4> QED
        BY <2>1, <3>1, <3>5, <3>6, <4>1
    <3> QED
      BY <3>4, <3>5, <3>7, <3>8
  <2> QED
    BY <2>2, <2>3
<1>11. \A i, j \in Ids : d[<<i, j>>] = d[<<j, i>>]
  <2> TAKE i, j \in Ids
  <2>1. /\ c[<<i, j>>] = c[<<j, i>>] /\ c[<<i, u>>] = c[<<u, i>>] /\ c[<<u, j>>] = c[<<j, u>>]
    BY DEF Laws
  <2>2. c[<<i, j>>] \in Nat /\ c[<<i, u>>] \in Nat /\ c[<<u, j>>] \in Nat
    BY <1>1
  <2> QED
    BY <1>2, <2>1, <2>2
<1> QED
  BY <1>5, <1>7, <1>8, <1>9, <1>10, <1>11 DEF Laws

\* Cheapest gives each pair the cost of a cheapest route: nothing between a node
\* and itself, the same in both directions, no more than a link between them costs,
\* no more than going by way of any third node; and what costs less than infinity
\* is the cost of a route, which has a last link and a first one.
THEOREM CheapestLaws ==
    ASSUME NEW net, IsNetwork(net), NEW infinity \in Nat
    PROVE  Laws(Cheapest(net, infinity), net, infinity, Ids)
<1>1. PICK via : /\ \A N \in SUBSET Ids : via[N] = Over(via, net, infinity, N)
                 /\ Cheapest(net, infinity) = via[Ids]
  BY CheapestIsVia
<1> DEFINE Bad(n) == \E N \in SUBSET Ids : Cardinality(N) = n /\ ~Laws(via[N], net, infinity, N)
           T == {n \in Nat : Bad(n)}
<1>2. ASSUME NEW n \in T, \A y \in T : n <= y PROVE FALSE
  <2>1. PICK N \in SUBSET Ids : Cardinality(N) = n /\ ~Laws(via[N], net, infinity, N)
    OBVIOUS
  <2>2. N # {}
    <3>1. via[{}] = DirectCost(net, infinity)
      BY <1>1 DEF Over
    <3> QED
      BY <2>1, <3>1, DirectLaws
  <2> DEFINE u == Min(N)
             M == N \ {u}
  <2>3. /\ u \in N /\ M \in SUBSET Ids /\ n \in Nat \ {0}
        /\ Cardinality(M) = n - 1
    BY <2>1, <2>2, WithoutMin
  <2>4. n - 1 \in Nat /\ n - 1 \notin T
    BY <1>2, <2>3
  <2>5. Laws(via[M], net, infinity, M)
    BY <2>3, <2>4
  <2>6. via[N] = [p \in Pairs |-> Min({via[M][p], via[M][<<p[1], u>>] + via[M][<<u, p[2]>>]})]
    BY <1>1, <2>2 DEF Over
  <2>7. u \in Ids /\ M \cup {u} = N
    BY <2>3
  <2> HIDE DEF u, M
  <2>8. Laws(via[N], net, infinity, M \cup {u})
    <3> DEFINE c == via[M]
    <3>1. Laws(c, net, infinity, M)
      BY <2>5
    <3>2. IsOver(via[N], c, u)
      BY <2>6 DEF IsOver
    <3> HIDE DEF c
    <3>3. M \in SUBSET Ids /\ u \in Ids
      BY <2>3, <2>7
    <3> QED
      BY <3>1, <3>2, <3>3, OverLaws
  <2> QED
    BY <2>1, <2>7, <2>8
<1> HIDE DEF Bad
<1>3. T \in SUBSET Nat
  OBVIOUS
<1> HIDE DEF T
<1>4. T = {}
  BY <1>2, <1>3, MinNat
<1>5. Cardinality(Ids) \in Nat
  BY RoutesAssumption, FS_CardinalityType
<1>6. ~Bad(Cardinality(Ids))
  BY <1>4, <1>5 DEF T
<1> QED
  BY <1>1, <1>6 DEF Bad

-----------------------------------------------------------------------------
(***************************************************************************)
(* The cost of a walk.                                                     *)
(***************************************************************************)
\* f sums up the links along the first n nodes of walk.
Sums(f, net, walk, n) ==
    f = [k \in 1 .. n |-> IF k = 1 THEN 0 ELSE f[k - 1] + net[<<walk[k - 1], walk[k]>>]]

LEMMA SumsExist ==
    ASSUME NEW net, NEW walk, NEW n \in Nat
    PROVE  \E f : Sums(f, net, walk, n)
<1> DEFINE T == {k \in Nat : ~\E f : Sums(f, net, walk, k)}
<1>1. ASSUME NEW k \in T, \A y \in T : k <= y PROVE FALSE
  <2>1. CASE k = 0
    <3> DEFINE f == [i \in 1 .. 0 |-> 0]
    <3>1. f = [i \in 1 .. 0 |-> IF i = 1 THEN 0 ELSE f[i - 1] + net[<<walk[i - 1], walk[i]>>]]
      OBVIOUS
    <3> HIDE DEF f
    <3> QED
      BY <2>1, <3>1 DEF Sums
  <2>2. CASE k # 0
    <3>1. k - 1 \in Nat /\ k - 1 \notin T
      BY <1>1, <2>2
    <3>2. PICK g : Sums(g, net, walk, k - 1)
      BY <3>1
    <3>3. \A i \in 1 .. k - 1 : g[i] = IF i = 1 THEN 0 ELSE g[i - 1] + net[<<walk[i - 1], walk[i]>>]
      BY <3>2 DEF Sums
    <3> DEFINE last == IF k = 1 THEN 0 ELSE g[k - 1] + net[<<walk[k - 1], walk[k]>>]
               f == [i \in 1 .. k |-> IF i = k THEN last ELSE g[i]]
    <3>4. \A i \in 1 .. k : f[i] = IF i = k THEN last ELSE g[i]
      OBVIOUS
    <3>5. f = [i \in 1 .. k |-> f[i]]
      OBVIOUS
    <3> HIDE DEF f
    <3>6. ASSUME NEW i \in 1 .. k
          PROVE  f[i] = IF i = 1 THEN 0 ELSE f[i - 1] + net[<<walk[i - 1], walk[i]>>]
      <4>1. i # 1 => i - 1 \in 1 .. k /\ i - 1 # k
        BY <3>1
      <4>2. i # 1 => f[i - 1] = g[i - 1]
        BY <3>4, <4>1
      <4>3. CASE i = k
        BY <3>4, <4>2, <4>3 DEF last
      <4>4. CASE i # k
        <5>1. i \in 1 .. k - 1
          BY <3>1, <4>4
        <5> QED
          BY <3>3, <3>4, <4>2, <4>4, <5>1
      <4> QED
        BY <4>3, <4>4
    <3>7. f = [i \in 1 .. k |-> IF i = 1 THEN 0 ELSE f[i - 1] + net[<<walk[i - 1], walk[i]>>]]
      BY <3>5, <3>6
    <3> QED
      BY <3>7 DEF Sums
  <2> QED
    BY <2>1, <2>2
<1>2. T \in SUBSET Nat
  OBVIOUS
<1> HIDE DEF T
<1>3. T = {}
  BY <1>1, <1>2, MinNat
<1> QED
  BY <1>3 DEF T

SameUpTo(f, g, n) == \A k \in 1 .. n : f[k] = g[k]

\* A walk and one that goes on from there cost the same along the nodes they share.
LEMMA SumsAgree ==
    ASSUME NEW net, NEW walk1, NEW walk2, NEW n \in Nat, SameUpTo(walk1, walk2, n),
           NEW f1, Sums(f1, net, walk1, n + 1), NEW f2, Sums(f2, net, walk2, n)
    PROVE  SameUpTo(f1, f2, n)
<1> DEFINE T == {k \in 1 .. n : f1[k] # f2[k]}
<1>1. ASSUME NEW k \in T, \A y \in T : k <= y PROVE FALSE
  <2>1. k \in 1 .. n + 1 /\ k \in 1 .. n
    OBVIOUS
  <2>2. /\ f1[k] = IF k = 1 THEN 0 ELSE f1[k - 1] + net[<<walk1[k - 1], walk1[k]>>]
        /\ f2[k] = IF k = 1 THEN 0 ELSE f2[k - 1] + net[<<walk2[k - 1], walk2[k]>>]
    BY <2>1 DEF Sums
  <2>3. k # 1
    BY <2>2
  <2>4. k - 1 \in 1 .. n /\ k - 1 \notin T
    BY <1>1, <2>3
  <2>5. f1[k - 1] = f2[k - 1] /\ walk1[k - 1] = walk2[k - 1] /\ walk1[k] = walk2[k]
    BY <2>4 DEF SameUpTo
  <2> QED
    BY <2>2, <2>5
<1>2. T \in SUBSET Nat
  OBVIOUS
<1> HIDE DEF T
<1>3. T = {}
  BY <1>1, <1>2, MinNat
<1> QED
  BY <1>3 DEF T, SameUpTo

\* WalkCost is the last of those sums.
LEMMA WalkCostIsSum ==
    ASSUME NEW net, NEW walk, Len(walk) \in Nat
    PROVE  \E f : Sums(f, net, walk, Len(walk)) /\ WalkCost(net, walk) = f[Len(walk)]
<1> DEFINE IsSum(f) ==
               f = [k \in 1 .. Len(walk) |->
                       IF k = 1 THEN 0 ELSE f[k - 1] + net[<<walk[k - 1], walk[k]>>]]
           chosen == CHOOSE f : IsSum(f)
<1>1. \E f : IsSum(f)
  <2>1. PICK f : Sums(f, net, walk, Len(walk))
    BY SumsExist
  <2> QED
    BY <2>1 DEF Sums
<1>2. IsSum(chosen)
  <2> HIDE DEF IsSum
  <2> QED
    BY <1>1
<1>3. WalkCost(net, walk) = chosen[Len(walk)]
  BY DEF WalkCost
<1> HIDE DEF chosen
<1> QED
  BY <1>2, <1>3 DEF Sums

\* A walk of one node costs nothing, one more node costs one more link.
LEMMA WalkCosts ==
    ASSUME NEW net, NEW S, NEW walk \in Seq(S), walk # << >>, NEW x \in S
    PROVE  /\ WalkCost(net, << x >>) = 0
           /\ WalkCost(net, Append(walk, x)) =
                  WalkCost(net, walk) + net[<<walk[Len(walk)], x>>]
<1>1. WalkCost(net, << x >>) = 0
  <2>1. Len(<< x >>) = 1
    OBVIOUS
  <2>2. PICK f : Sums(f, net, << x >>, 1) /\ WalkCost(net, << x >>) = f[1]
    BY <2>1, WalkCostIsSum
  <2> QED
    BY <2>2 DEF Sums
<1> DEFINE n == Len(walk)
           longer == Append(walk, x)
<1>2. /\ n \in Nat \ {0} /\ Len(longer) = n + 1 /\ longer[n + 1] = x
      /\ \A k \in 1 .. n : longer[k] = walk[k]
  OBVIOUS
<1> HIDE DEF n, longer
<1>3. PICK f : Sums(f, net, walk, n) /\ WalkCost(net, walk) = f[n]
  BY <1>2, WalkCostIsSum DEF n
<1>4. PICK g : Sums(g, net, longer, n + 1) /\ WalkCost(net, longer) = g[n + 1]
  <2>1. n + 1 \in Nat
    BY <1>2
  <2>2. \E g : Sums(g, net, longer, Len(longer)) /\ WalkCost(net, longer) = g[Len(longer)]
    BY <1>2, <2>1, WalkCostIsSum
  <2> QED
    BY <1>2, <2>2
<1>5. g[n + 1] = g[n] + net[<<longer[n], longer[n + 1]>>]
  <2>1. n + 1 \in 1 .. n + 1 /\ n + 1 # 1 /\ (n + 1) - 1 = n
    BY <1>2
  <2> QED
    BY <1>4, <2>1 DEF Sums
<1>6. g[n] = f[n]
  <2>1. SameUpTo(longer, walk, n)
    BY <1>2 DEF SameUpTo
  <2>2. SameUpTo(g, f, n)
    BY <1>2, <1>3, <1>4, <2>1, SumsAgree
  <2> QED
    BY <1>2, <2>2 DEF SameUpTo
<1>7. n \in 1 .. n
  BY <1>2
<1>8. WalkCost(net, longer) = WalkCost(net, walk) + net[<<walk[n], x>>]
  BY <1>2, <1>3, <1>4, <1>5, <1>6, <1>7
<1> QED
  BY <1>1, <1>8 DEF n, longer

\* A walk that visits no node twice has at most as many nodes as there are.
LEMMA WalkBound ==
    ASSUME NEW walk \in Seq(Ids),
           \A i, j \in 1 .. Len(walk) : i < j => walk[i] # walk[j]
    PROVE  Len(walk) <= Cardinality(Ids)
<1> DEFINE n == Len(walk)
<1>1. n \in Nat /\ walk \in [1 .. n -> Ids]
  OBVIOUS
<1>2. \A i, j \in 1 .. n : walk[i] = walk[j] => i = j
  <2> TAKE i, j \in 1 .. n
  <2>1. i \in Nat /\ j \in Nat
    OBVIOUS
  <2>2. i < j \/ j < i \/ i = j
    BY <2>1
  <2> QED
    BY <2>2
<1> HIDE DEF n
<1>3. walk \in Injection(1 .. n, Ids)
  BY <1>1, <1>2 DEF Injection, IsInjective
<1>4. Cardinality(1 .. n) <= Cardinality(Ids)
  BY <1>3, RoutesAssumption, FS_Injection
<1>5. Cardinality(1 .. n) = n
  <2>1. Cardinality(1 .. n) = IF 1 > n THEN 0 ELSE n - 1 + 1
    <3>1. 1 \in Int /\ n \in Int
      BY <1>1
    <3> QED
      BY <3>1, FS_Interval, Zenon
  <2> QED
    BY <1>1, <2>1
<1> QED
  BY <1>4, <1>5 DEF n

-----------------------------------------------------------------------------
(***************************************************************************)
(* Routes of a bounded number of links.                                    *)
(***************************************************************************)
\* The costs over one more link than those of before have.
OneMore(before, net, infinity) ==
    [p \in Pairs |-> Min({DirectCost(net, infinity)[<<p[1], u>>] + before[<<u, p[2]>>] : u \in Ids}
                         \cup {infinity})]

\* f gives the costs of the routes of at most 1, 2, ... and n links.
Within(f, net, infinity, n) ==
    f = [k \in 1 .. n |-> IF k = 1 THEN DirectCost(net, infinity)
                          ELSE OneMore(f[k - 1], net, infinity)]

LEMMA WithinExists ==
    ASSUME NEW net, NEW infinity, NEW n \in Nat
    PROVE  \E f : Within(f, net, infinity, n)
<1> DEFINE T == {k \in Nat : ~\E f : Within(f, net, infinity, k)}
<1>1. ASSUME NEW k \in T, \A y \in T : k <= y PROVE FALSE
  <2>1. CASE k = 0
    <3> DEFINE f == [i \in 1 .. 0 |-> 0]
    <3>1. f = [i \in 1 .. 0 |-> IF i = 1 THEN DirectCost(net, infinity)
                                ELSE OneMore(f[i - 1], net, infinity)]
      OBVIOUS
    <3> HIDE DEF f
    <3> QED
      BY <2>1, <3>1 DEF Within
  <2>2. CASE k # 0
    <3>1. k - 1 \in Nat /\ k - 1 \notin T
      BY <1>1, <2>2
    <3>2. PICK g : Within(g, net, infinity, k - 1)
      BY <3>1
    <3>3. \A i \in 1 .. k - 1 : g[i] = IF i = 1 THEN DirectCost(net, infinity)
                                       ELSE OneMore(g[i - 1], net, infinity)
      BY <3>2 DEF Within
    <3> DEFINE last == IF k = 1 THEN DirectCost(net, infinity)
                       ELSE OneMore(g[k - 1], net, infinity)
               f == [i \in 1 .. k |-> IF i = k THEN last ELSE g[i]]
    <3>4. \A i \in 1 .. k : f[i] = IF i = k THEN last ELSE g[i]
      OBVIOUS
    <3>5. f = [i \in 1 .. k |-> f[i]]
      OBVIOUS
    <3> HIDE DEF f
    <3>6. ASSUME NEW i \in 1 .. k
          PROVE  f[i] = IF i = 1 THEN DirectCost(net, infinity)
                        ELSE OneMore(f[i - 1], net, infinity)
      <4>1. i # 1 => i - 1 \in 1 .. k /\ i - 1 # k
        BY <3>1
      <4>2. i # 1 => f[i - 1] = g[i - 1]
        BY <3>4, <4>1
      <4>3. CASE i = k
        BY <3>4, <4>2, <4>3 DEF last
      <4>4. CASE i # k
        <5>1. i \in 1 .. k - 1
          BY <3>1, <4>4
        <5> QED
          BY <3>3, <3>4, <4>2, <4>4, <5>1
      <4> QED
        BY <4>3, <4>4
    <3>7. f = [i \in 1 .. k |-> IF i = 1 THEN DirectCost(net, infinity)
                                ELSE OneMore(f[i - 1], net, infinity)]
      BY <3>5, <3>6
    <3> QED
      BY <3>7 DEF Within
  <2> QED
    BY <2>1, <2>2
<1>2. T \in SUBSET Nat
  OBVIOUS
<1> HIDE DEF T
<1>3. T = {}
  BY <1>1, <1>2, MinNat
<1> QED
  BY <1>3 DEF T

LEMMA WithinAgree ==
    ASSUME NEW net, NEW infinity, NEW n \in Nat,
           NEW f1, Within(f1, net, infinity, n + 1), NEW f2, Within(f2, net, infinity, n)
    PROVE  SameUpTo(f1, f2, n)
<1> DEFINE T == {k \in 1 .. n : f1[k] # f2[k]}
<1>1. ASSUME NEW k \in T, \A y \in T : k <= y PROVE FALSE
  <2>1. k \in 1 .. n + 1 /\ k \in 1 .. n
    OBVIOUS
  <2>2. /\ f1[k] = IF k = 1 THEN DirectCost(net, infinity) ELSE OneMore(f1[k - 1], net, infinity)
        /\ f2[k] = IF k = 1 THEN DirectCost(net, infinity) ELSE OneMore(f2[k - 1], net, infinity)
    BY <2>1 DEF Within
  <2>3. k # 1
    BY <2>2
  <2>4. k - 1 \in 1 .. n /\ k - 1 \notin T
    BY <1>1, <2>3
  <2>5. f1[k - 1] = f2[k - 1]
    BY <2>4
  <2> QED
    BY <2>2, <2>5
<1>2. T \in SUBSET Nat
  OBVIOUS
<1> HIDE DEF T
<1>3. T = {}
  BY <1>1, <1>2, MinNat
<1> QED
  BY <1>3 DEF T, SameUpTo

LEMMA CheapestWithinIs ==
    ASSUME NEW net, NEW infinity, NEW n \in Nat
    PROVE  \E f : Within(f, net, infinity, n) /\ CheapestWithin(net, infinity, n) = f[n]
<1> DEFINE IsWithin(f) ==
               f = [k \in 1 .. n |->
                       IF k = 1 THEN DirectCost(net, infinity)
                       ELSE [p \in Pairs |->
                                Min({DirectCost(net, infinity)[<<p[1], u>>] + f[k - 1][<<u, p[2]>>]
                                        : u \in Ids} \cup {infinity})]]
           chosen == CHOOSE f : IsWithin(f)
<1>1. \E f : IsWithin(f)
  <2>1. PICK f : Within(f, net, infinity, n)
    BY WithinExists
  <2>2. IsWithin(f)
    BY <2>1 DEF Within, OneMore
  <2> HIDE DEF IsWithin
  <2> QED
    BY <2>2
<1>2. IsWithin(chosen)
  <2> HIDE DEF IsWithin
  <2> QED
    BY <1>1
<1>3. CheapestWithin(net, infinity, n) = chosen[n]
  BY DEF CheapestWithin
<1> HIDE DEF chosen
<1> QED
  BY <1>2, <1>3 DEF Within, OneMore

\* Routes of one link, and of one more.
LEMMA CheapestWithinSteps ==
    ASSUME NEW net, NEW infinity, NEW n \in Nat \ {0}
    PROVE  /\ CheapestWithin(net, infinity, 1) = DirectCost(net, infinity)
           /\ CheapestWithin(net, infinity, n + 1) =
                  OneMore(CheapestWithin(net, infinity, n), net, infinity)
<1>1. CheapestWithin(net, infinity, 1) = DirectCost(net, infinity)
  <2>1. PICK f : Within(f, net, infinity, 1) /\ CheapestWithin(net, infinity, 1) = f[1]
    BY CheapestWithinIs
  <2> QED
    BY <2>1 DEF Within
<1>2. PICK f : Within(f, net, infinity, n) /\ CheapestWithin(net, infinity, n) = f[n]
  BY CheapestWithinIs
<1>3. PICK g : Within(g, net, infinity, n + 1) /\ CheapestWithin(net, infinity, n + 1) = g[n + 1]
  <2>1. n + 1 \in Nat
    OBVIOUS
  <2> QED
    BY <2>1, CheapestWithinIs
<1>4. g[n + 1] = OneMore(g[n], net, infinity)
  <2>1. n + 1 \in 1 .. n + 1 /\ n + 1 # 1 /\ (n + 1) - 1 = n
    OBVIOUS
  <2> QED
    BY <1>3, <2>1 DEF Within
<1>5. g[n] = f[n]
  <2>1. SameUpTo(g, f, n)
    BY <1>2, <1>3, WithinAgree
  <2> QED
    BY <2>1 DEF SameUpTo
<1> QED
  BY <1>1, <1>2, <1>3, <1>4, <1>5

\* f is OneMore than before.
LEMMA OneMoreIs ==
    ASSUME NEW net, IsNetwork(net), NEW infinity \in Nat,
           NEW before, \A i, j \in Ids : before[<<i, j>>] \in 0 .. infinity,
           NEW i \in Ids, NEW j \in Ids
    PROVE  /\ OneMore(before, net, infinity)[<<i, j>>] \in 0 .. infinity
           /\ \A u \in Ids : OneMore(before, net, infinity)[<<i, j>>] <=
                                DirectCost(net, infinity)[<<i, u>>] + before[<<u, j>>]
           /\ OneMore(before, net, infinity)[<<i, j>>] < infinity =>
                 \E u \in Ids : OneMore(before, net, infinity)[<<i, j>>] =
                                   DirectCost(net, infinity)[<<i, u>>] + before[<<u, j>>]
<1> DEFINE d == DirectCost(net, infinity)
           via == {d[<<i, u>>] + before[<<u, j>>] : u \in Ids}
           S == via \cup {infinity}
<1>1. \A u \in Ids : d[<<i, u>>] \in Nat /\ before[<<u, j>>] \in Nat
  <2> TAKE u \in Ids
  <2>1. <<i, u>> \in Pairs
    BY DEF Pairs
  <2>2. d \in [Pairs -> 0 .. infinity]
    BY DirectLaws DEF Laws
  <2> HIDE DEF d
  <2> QED
    BY <2>1, <2>2
<1>2. OneMore(before, net, infinity)[<<i, j>>] = Min(S)
  <2>1. <<i, j>> \in Pairs
    BY DEF Pairs
  <2> QED
    BY <2>1 DEF OneMore
<1> HIDE DEF d
<1>3. S \in SUBSET Nat /\ S # {}
  <2>1. via \in SUBSET Nat
    <3> DEFINE over(u) == d[<<i, u>>] + before[<<u, j>>]
    <3>1. \A u \in Ids : over(u) \in Nat
      BY <1>1
    <3>2. via = {over(u) : u \in Ids}
      OBVIOUS
    <3> HIDE DEF via, over
    <3> QED
      BY <3>1, <3>2
  <2> HIDE DEF via
  <2> QED
    BY <2>1
<1>4. Min(S) \in S /\ \A y \in S : Min(S) <= y
  BY <1>3, MinNat
<1>5. infinity \in S /\ \A u \in Ids : d[<<i, u>>] + before[<<u, j>>] \in S
  OBVIOUS
<1>6. Min(S) \in via \/ Min(S) = infinity
  BY <1>4
<1>7. Min(S) \in via => \E u \in Ids : Min(S) = d[<<i, u>>] + before[<<u, j>>]
  OBVIOUS
<1>8. \A u \in Ids : Min(S) <= d[<<i, u>>] + before[<<u, j>>]
  BY <1>4, <1>5
<1> HIDE DEF S, via
<1>9. Min(S) \in Nat /\ Min(S) <= infinity
  BY <1>3, <1>4, <1>5
<1> QED
  BY <1>2, <1>6, <1>7, <1>8, <1>9 DEF d

\* What costs routes of at most n links have.
LEMMA CheapestWithinType ==
    ASSUME NEW net, IsNetwork(net), NEW infinity \in Nat, NEW n \in Nat \ {0}
    PROVE  \A i, j \in Ids : CheapestWithin(net, infinity, n)[<<i, j>>] \in 0 .. infinity
<1> DEFINE Typed(k) == \A i, j \in Ids : CheapestWithin(net, infinity, k)[<<i, j>>] \in 0 .. infinity
           T == {k \in Nat \ {0} : ~Typed(k)}
<1>1. ASSUME NEW k \in T, \A y \in T : k <= y PROVE FALSE
  <2>1. CASE k = 1
    <3>1. DirectCost(net, infinity) \in [Pairs -> 0 .. infinity]
      BY DirectLaws DEF Laws
    <3>2. CheapestWithin(net, infinity, 1) \in [Pairs -> 0 .. infinity]
      BY <3>1, CheapestWithinSteps
    <3> QED
      BY <2>1, <3>2 DEF Pairs
  <2>2. CASE k # 1
    <3>1. k - 1 \in Nat \ {0} /\ k - 1 \notin T /\ (k - 1) + 1 = k
      BY <1>1, <2>2
    <3> DEFINE before == CheapestWithin(net, infinity, k - 1)
    <3>2. \A i, j \in Ids : before[<<i, j>>] \in 0 .. infinity
      BY <3>1
    <3>3. CheapestWithin(net, infinity, k) = OneMore(before, net, infinity)
      BY <3>1, CheapestWithinSteps
    <3> HIDE DEF before
    <3>4. \A i, j \in Ids : OneMore(before, net, infinity)[<<i, j>>] \in 0 .. infinity
      BY <3>2, OneMoreIs
    <3>5. Typed(k)
      BY <3>3, <3>4
    <3> QED
      BY <3>5
  <2> QED
    BY <2>1, <2>2
<1> HIDE DEF Typed
<1>2. T \in SUBSET Nat
  OBVIOUS
<1> HIDE DEF T
<1>3. T = {}
  BY <1>1, <1>2, MinNat
<1>4. Typed(n)
  BY <1>3 DEF T
<1> QED
  BY <1>4 DEF Typed

-----------------------------------------------------------------------------
\* The nodes whose value is known (not negative) and below v.
Below(nodes, f, v) == {x \in nodes : f[x] >= 0 /\ f[x] < v}

\* Below a smaller value there are fewer nodes.
LEMMA FewerBelow ==
    ASSUME NEW nodes, IsFiniteSet(nodes), NEW f, \A x \in nodes : f[x] \in Int,
           NEW k \in nodes, f[k] >= 0, NEW v \in Int, f[k] < v
    PROVE  /\ Cardinality(Below(nodes, f, f[k])) \in Nat
           /\ Cardinality(Below(nodes, f, v)) \in Nat
           /\ Cardinality(Below(nodes, f, f[k])) < Cardinality(Below(nodes, f, v))
<1> DEFINE A == Below(nodes, f, f[k])
           B == Below(nodes, f, v)
<1>1. A \subseteq B
  BY DEF Below
<1>2. k \in B /\ k \notin A
  BY DEF Below
<1>3. B \subseteq nodes
  BY DEF Below
<1> HIDE DEF A, B
<1>4. IsFiniteSet(B)
  BY <1>3, FS_Subset
<1>5. IsFiniteSet(A) /\ Cardinality(A) <= Cardinality(B)
  BY <1>1, <1>4, FS_Subset
<1>6. Cardinality(A) # Cardinality(B)
  BY <1>1, <1>2, <1>4, FS_Subset
<1>7. Cardinality(A) \in Nat /\ Cardinality(B) \in Nat
  BY <1>4, <1>5, FS_CardinalityType
<1>8. Cardinality(A) < Cardinality(B)
  BY <1>5, <1>6, <1>7
<1> QED
  BY <1>7, <1>8 DEF A, B

\* There are no more of them than nodes, and fewer if one of the nodes is none.
LEMMA BelowBound ==
    ASSUME NEW nodes, IsFiniteSet(nodes), NEW f, NEW v
    PROVE  /\ Cardinality(nodes) \in Nat /\ Cardinality(Below(nodes, f, v)) \in Nat
           /\ Cardinality(Below(nodes, f, v)) <= Cardinality(nodes)
           /\ nodes # Below(nodes, f, v) => Cardinality(Below(nodes, f, v)) < Cardinality(nodes)
<1> DEFINE B == Below(nodes, f, v)
<1>1. B \subseteq nodes
  BY DEF Below
<1> HIDE DEF B
<1>2. IsFiniteSet(B) /\ Cardinality(B) <= Cardinality(nodes)
  BY <1>1, FS_Subset
<1>3. nodes # B => Cardinality(B) # Cardinality(nodes)
  BY <1>1, FS_Subset
<1>4. Cardinality(B) \in Nat /\ Cardinality(nodes) \in Nat
  BY <1>2, FS_CardinalityType
<1>5. nodes # B => Cardinality(B) < Cardinality(nodes)
  BY <1>2, <1>3, <1>4
<1> QED
  BY <1>2, <1>4, <1>5 DEF B

\* A cheapest route needs no more links than there are nodes: with each link the
\* rest of the route costs less, so that fewer nodes are still nearer to its end.
LEMMA EnoughLinks ==
    ASSUME NEW net, IsNetwork(net), NEW infinity \in Nat,
           NEW nodes \in SUBSET Ids, Endpoints(net) \subseteq nodes,
           NEW n \in Nat \ {0}, n >= Cardinality(nodes), NEW r \in Ids
    PROVE  \A s \in Ids : Cheapest(net, infinity)[<<s, r>>] < infinity =>
              CheapestWithin(net, infinity, n)[<<s, r>>] <= Cheapest(net, infinity)[<<s, r>>]
<1> DEFINE d == Cheapest(net, infinity)
           direct == DirectCost(net, infinity)
           W(k) == CheapestWithin(net, infinity, k)
           f == [x \in nodes |-> d[<<x, r>>]]
           Rank(s) == Cardinality(Below(nodes, f, d[<<s, r>>]))
           Enough(k) == \A s \in Ids : d[<<s, r>>] < infinity /\ Rank(s) <= k =>
                           W(k)[<<s, r>>] <= d[<<s, r>>]
           T == {k \in Nat \ {0} : ~Enough(k)}
<1>1. IsFiniteSet(nodes)
  BY RoutesAssumption, FS_Subset
<1>2. Laws(d, net, infinity, Ids)
  BY CheapestLaws
<1>3. Laws(direct, net, infinity, {})
  BY DirectLaws
<1> HIDE DEF d, direct
<1>4. \A x, y \in Ids : d[<<x, y>>] \in 0 .. infinity /\ direct[<<x, y>>] \in 0 .. infinity
  <2> TAKE x, y \in Ids
  <2>1. <<x, y>> \in Pairs
    BY DEF Pairs
  <2> QED
    BY <1>2, <1>3, <2>1 DEF Laws
<1>5. \A x \in nodes : f[x] = d[<<x, r>>]
  OBVIOUS
<1>6. \A x \in nodes : f[x] \in Nat
  BY <1>4
<1>7. d[<<r, r>>] = 0 /\ direct[<<r, r>>] = 0
  BY <1>2, <1>3 DEF Laws
<1>8. \A x, y \in Ids : Linked(net, x, y) =>
         /\ direct[<<x, y>>] <= net[<<x, y>>] /\ net[<<x, y>>] \in Nat \ {0}
         /\ x \in nodes /\ y \in nodes
  <2> TAKE x, y \in Ids
  <2> HAVE Linked(net, x, y)
  <2>1. Linked(net, y, x)
    BY DEF IsNetwork, Linked
  <2>2. net[<<x, y>>] \in Nat \ {0}
    BY LinkCost
  <2>3. direct[<<x, y>>] <= net[<<x, y>>]
    BY <1>3 DEF Laws
  <2> QED
    BY <2>1, <2>2, <2>3 DEF Endpoints
<1> HIDE DEF f
<1>9. ASSUME NEW k \in nodes, NEW s \in Ids, d[<<k, r>>] < d[<<s, r>>]
      PROVE  Rank(k) \in Nat /\ Rank(s) \in Nat /\ Rank(k) < Rank(s)
  <2>1. \A x \in nodes : f[x] \in Int
    BY <1>6
  <2>2. f[k] \in Nat /\ f[k] = d[<<k, r>>]
    BY <1>5, <1>6
  <2>3. d[<<s, r>>] \in Int
    BY <1>4
  <2>4. f[k] >= 0 /\ f[k] < d[<<s, r>>]
    BY <1>9, <2>2
  <2> QED
    BY <1>1, <2>1, <2>2, <2>3, <2>4, FewerBelow
<1>10. Rank(r) = 0
  <2>1. Below(nodes, f, 0) = {}
    <3>1. \A x \in nodes : ~(f[x] < 0)
      BY <1>6
    <3> QED
      BY <3>1 DEF Below
  <2> QED
    BY <1>7, <2>1, FS_EmptySet
<1>11. ASSUME NEW s \in Ids, s # r, d[<<s, r>>] < infinity
       PROVE  \E k \in nodes : /\ Linked(net, s, k) /\ net[<<s, k>>] + d[<<k, r>>] <= d[<<s, r>>]
                               /\ d[<<k, r>>] < infinity
                               /\ Rank(k) \in Nat /\ Rank(s) \in Nat /\ Rank(k) < Rank(s)
  <2>1. PICK k \in Ids : Linked(net, s, k) /\ net[<<s, k>>] + d[<<k, r>>] <= d[<<s, r>>]
    BY <1>2, <1>11 DEF Laws
  <2>2. k \in nodes /\ net[<<s, k>>] \in Nat \ {0}
    BY <1>8, <2>1
  <2>3. d[<<k, r>>] < d[<<s, r>>] /\ d[<<k, r>>] < infinity
    <3>1. d[<<k, r>>] \in Nat /\ d[<<s, r>>] \in Nat
      BY <1>4
    <3> QED
      BY <1>11, <2>1, <2>2, <3>1
  <2> QED
    BY <1>9, <2>1, <2>2, <2>3
<1>12. ASSUME NEW s \in Ids, s # r, d[<<s, r>>] < infinity
       PROVE  Rank(s) >= 1 /\ Rank(s) \in Nat
  <2>1. PICK k \in nodes : Rank(k) \in Nat /\ Rank(s) \in Nat /\ Rank(k) < Rank(s)
    BY <1>11, <1>12
  <2> QED
    BY <2>1
<1> HIDE DEF Rank
<1>13. ASSUME NEW k \in T, \A y \in T : k <= y PROVE FALSE
  <2>1. k \in Nat \ {0}
    OBVIOUS
  <2>2. PICK s \in Ids : /\ d[<<s, r>>] < infinity /\ Rank(s) <= k
                         /\ ~(W(k)[<<s, r>>] <= d[<<s, r>>])
    OBVIOUS
  <2>3. CASE k = 1
    <3>1. W(k) = direct
      BY <2>3, CheapestWithinSteps DEF direct
    <3>2. s # r
      BY <1>7, <2>2, <3>1
    <3>3. PICK h \in nodes : /\ Linked(net, s, h) /\ net[<<s, h>>] + d[<<h, r>>] <= d[<<s, r>>]
                             /\ d[<<h, r>>] < infinity
                             /\ Rank(h) \in Nat /\ Rank(s) \in Nat /\ Rank(h) < Rank(s)
      BY <1>11, <2>2, <3>2
    <3>4. h = r
      BY <1>12, <2>2, <2>3, <3>3
    <3>5. direct[<<s, h>>] <= net[<<s, h>>] /\ net[<<s, h>>] \in Nat
      BY <1>8, <3>3
    <3> QED
      BY <1>4, <1>7, <2>2, <3>1, <3>3, <3>4, <3>5
  <2>4. CASE k # 1
    <3>1. k - 1 \in Nat \ {0} /\ (k - 1) + 1 = k /\ k - 1 \notin T
      BY <1>13, <2>1, <2>4
    <3>2. Enough(k - 1)
      BY <3>1
    <3>3. W(k) = OneMore(W(k - 1), net, infinity)
      BY <3>1, CheapestWithinSteps
    <3>4. \A x, y \in Ids : W(k - 1)[<<x, y>>] \in 0 .. infinity
      BY <3>1, CheapestWithinType
    <3> DEFINE before == W(k - 1)
               after == W(k)
    <3>5. \A u \in Ids : after[<<s, r>>] <= direct[<<s, u>>] + before[<<u, r>>]
      <4> HIDE DEF before
      <4>1. after = OneMore(before, net, infinity)
        BY <3>3 DEF before
      <4>2. \A x, y \in Ids : before[<<x, y>>] \in 0 .. infinity
        BY <3>4 DEF before
      <4> HIDE DEF after
      <4> QED
        BY <4>1, <4>2, OneMoreIs DEF direct
    <3>6. after[<<s, r>>] \in 0 .. infinity
      BY <2>1, CheapestWithinType
    <3>7. \A x \in Ids : d[<<x, r>>] < infinity /\ Rank(x) <= k - 1 =>
             before[<<x, r>>] <= d[<<x, r>>]
      BY <3>2
    <3> HIDE DEF before, after
    <3>8. CASE s = r
      <4>1. before[<<r, r>>] <= 0
        BY <1>7, <1>10, <2>2, <3>1, <3>7, <3>8
      <4>2. before[<<r, r>>] \in Nat
        BY <3>4 DEF before
      <4> QED
        BY <1>7, <2>2, <3>5, <3>6, <3>8, <4>1, <4>2 DEF after
    <3>9. CASE s # r
      <4>1. PICK h \in nodes : /\ Linked(net, s, h)
                               /\ net[<<s, h>>] + d[<<h, r>>] <= d[<<s, r>>]
                               /\ d[<<h, r>>] < infinity
                               /\ Rank(h) \in Nat /\ Rank(s) \in Nat /\ Rank(h) < Rank(s)
        BY <1>11, <2>2, <3>9
      <4>2. before[<<h, r>>] <= d[<<h, r>>]
        BY <2>1, <2>2, <3>7, <4>1
      <4>3. direct[<<s, h>>] <= net[<<s, h>>] /\ net[<<s, h>>] \in Nat
        BY <1>8, <4>1
      <4>4. before[<<h, r>>] \in Nat /\ d[<<h, r>>] \in Nat /\ direct[<<s, h>>] \in Nat
            /\ d[<<s, r>>] \in Nat
        BY <1>4, <3>4 DEF before
      <4>5. after[<<s, r>>] <= direct[<<s, h>>] + before[<<h, r>>]
        BY <3>5
      <4> QED
        BY <2>2, <3>6, <4>1, <4>2, <4>3, <4>4, <4>5 DEF after
    <3> QED
      BY <3>8, <3>9
  <2> QED
    BY <2>3, <2>4
<1> HIDE DEF Enough
<1>14. T \in SUBSET Nat
  OBVIOUS
<1> HIDE DEF T
<1>15. T = {}
  BY <1>13, <1>14, MinNat
<1>16. Enough(n)
  BY <1>15 DEF T
<1>17. \A s \in Ids : Rank(s) <= n
  <2> TAKE s \in Ids
  <2>1. /\ Rank(s) \in Nat /\ Cardinality(nodes) \in Nat
        /\ Rank(s) <= Cardinality(nodes)
    BY <1>1, BelowBound DEF Rank
  <2> QED
    BY <2>1
<1>18. \A s \in Ids : d[<<s, r>>] < infinity => W(n)[<<s, r>>] <= d[<<s, r>>]
  BY <1>16, <1>17 DEF Enough
<1> QED
  BY <1>18 DEF d

-----------------------------------------------------------------------------
\* A change of one link between different nodes leaves a network, with no other
\* new ends.
LEMMA RelinkedNetwork ==
    ASSUME NEW net, IsNetwork(net), NEW i \in Ids, NEW j \in Ids, i # j,
           NEW c \in Costs \cup {NoLink}
    PROVE  /\ IsNetwork(Relinked(net, i, j, c))
           /\ Endpoints(Relinked(net, i, j, c)) \subseteq
                  Endpoints(net) \cup (IF c = NoLink THEN {} ELSE {i, j})
           /\ \A p \in Pairs \ {<<i, j>>, <<j, i>>} : Relinked(net, i, j, c)[p] = net[p]
<1> DEFINE new == Relinked(net, i, j, c)
<1>1. <<i, j>> \in Pairs /\ <<j, i>> \in Pairs
  BY DEF Pairs
<1>2. /\ new \in [Pairs -> Costs \cup {NoLink}]
      /\ \A p \in Pairs : new[p] = IF p \in {<<i, j>>, <<j, i>>} THEN c ELSE net[p]
  BY <1>1 DEF IsNetwork, Relinked
<1> HIDE DEF new
<1>3. ASSUME NEW k \in Ids, NEW l \in Ids
      PROVE  new[<<k, l>>] = IF {k, l} = {i, j} THEN c ELSE net[<<k, l>>]
  <2>1. <<k, l>> \in Pairs
    BY DEF Pairs
  <2>2. <<k, l>> \in {<<i, j>>, <<j, i>>} <=> {k, l} = {i, j}
    OBVIOUS
  <2> QED
    BY <1>2, <2>1, <2>2
<1>4. \A k \in Ids : new[<<k, k>>] = NoLink
  <2> TAKE k \in Ids
  <2>1. {k, k} # {i, j}
    OBVIOUS
  <2> QED
    BY <1>3, <2>1 DEF IsNetwork
<1>5. \A k, l \in Ids : new[<<k, l>>] = new[<<l, k>>]
  <2> TAKE k, l \in Ids
  <2>1. {k, l} = {l, k}
    OBVIOUS
  <2> QED
    BY <1>3, <2>1 DEF IsNetwork
<1>6. ASSUME NEW k \in Endpoints(new)
      PROVE  k \in Endpoints(net) \cup (IF c = NoLink THEN {} ELSE {i, j})
  <2>1. PICK l \in Ids : new[<<k, l>>] # NoLink
    BY DEF Endpoints, Linked
  <2>2. k \in Ids
    BY DEF Endpoints
  <2>3. CASE {k, l} = {i, j}
    BY <1>3, <2>1, <2>2, <2>3
  <2>4. CASE {k, l} # {i, j}
    <3>1. net[<<k, l>>] # NoLink
      BY <1>3, <2>1, <2>2, <2>4
    <3> QED
      BY <2>2, <3>1 DEF Endpoints, Linked
  <2> QED
    BY <2>3, <2>4
<1>7. \A p \in Pairs \ {<<i, j>>, <<j, i>>} : new[p] = net[p]
  BY <1>2
<1> QED
  BY <1>2, <1>4, <1>5, <1>6, <1>7 DEF IsNetwork, new
=============================================================================
