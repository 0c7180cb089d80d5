----------------------------- MODULE CsmaProofs -----------------------------
(***************************************************************************)
(* The channel of Csma is safe for any number of nodes, packet length,     *)
(* collision limit, backoff ranges and number of slots.                    *)
(***************************************************************************)
EXTENDS Csma, TLAPS

NodeState == [backoff : Nat, collisionNum : 0 .. input.M,
              transmitTime : 0 .. input.L, isCollided : BOOLEAN]

ChannelInv == TypeOK /\ ChannelHeld /\ CollisionsOnlyAtStart

\* What a well-formed input is, for the input at hand.
LEMMA InputFacts ==
    ASSUME input \in Inputs
    PROVE  /\ input.N \in Nat /\ input.L \in Nat \ {0} /\ input.M \in Nat \ {0}
           /\ input.R \in [0 .. input.M - 1 -> Nat \ {0}]
           /\ \A i \in Ids : i \in Nat
BY InputAssumption DEF Ids

\* A new backoff is one of the backoffs that R allows.
LEMMA FreshType ==
    ASSUME input \in Inputs, NEW i \in Ids, NEW c \in 0 .. input.M - 1, NEW t \in Nat
    PROVE  /\ Fresh(i, c, t) \in NodeState
           /\ Fresh(i, c, t).collisionNum = c
           /\ Fresh(i, c, t).transmitTime = input.L
           /\ Fresh(i, c, t).isCollided = FALSE
<1>1. /\ input.L \in Nat \ {0} /\ input.M \in Nat \ {0} /\ i \in Nat
      /\ input.R[c] \in Nat \ {0}
  BY InputFacts
<1>2. (i + t) % input.R[c] \in Nat
  BY <1>1
<1>3. c \in 0 .. input.M /\ input.L \in 0 .. input.L
  BY <1>1
<1> QED
  BY <1>2, <1>3 DEF Fresh, NodeState

\* After it has been brought up to date a node has a packet to send, is not
\* collided and has a collision left.
LEMMA PreparedType ==
    ASSUME TypeOK, NEW i \in Ids
    PROVE  /\ Prepared(i) \in NodeState
           /\ Prepared(i).collisionNum < input.M
           /\ Prepared(i).transmitTime > 0
           /\ Prepared(i).isCollided = FALSE
<1>1. /\ input \in Inputs /\ currTime \in Nat
      /\ input.L \in Nat \ {0} /\ input.M \in Nat \ {0} /\ nodes[i] \in NodeState
      /\ nodes[i].collisionNum = input.M => nodes[i].isCollided
  BY InputFacts DEF TypeOK, NodeState
<1>2. CASE nodes[i].transmitTime = 0 \/ nodes[i].collisionNum = input.M
  <2>1. 0 \in 0 .. input.M - 1 /\ Prepared(i) = Fresh(i, 0, currTime)
    BY <1>1, <1>2 DEF Prepared
  <2>2. /\ Fresh(i, 0, currTime) \in NodeState
        /\ Fresh(i, 0, currTime).collisionNum = 0
        /\ Fresh(i, 0, currTime).transmitTime = input.L
        /\ Fresh(i, 0, currTime).isCollided = FALSE
    <3>1. input \in Inputs /\ 0 \in 0 .. input.M - 1 /\ currTime \in Nat
      BY <1>1, <2>1
    <3> QED
      BY <3>1, FreshType, Zenon
  <2> QED
    BY <1>1, <2>1, <2>2
<1>3. CASE /\ ~(nodes[i].transmitTime = 0 \/ nodes[i].collisionNum = input.M)
           /\ nodes[i].isCollided
  <2>1. /\ nodes[i].collisionNum \in 0 .. input.M - 1
        /\ Prepared(i) = Fresh(i, nodes[i].collisionNum, currTime)
    BY <1>1, <1>3 DEF Prepared, NodeState
  <2> DEFINE c == nodes[i].collisionNum
  <2>2. /\ Fresh(i, c, currTime) \in NodeState
        /\ Fresh(i, c, currTime).collisionNum = c
        /\ Fresh(i, c, currTime).transmitTime = input.L
        /\ Fresh(i, c, currTime).isCollided = FALSE
    <3>1. input \in Inputs /\ c \in 0 .. input.M - 1 /\ currTime \in Nat
      BY <1>1, <2>1
    <3> HIDE DEF c
    <3> QED
      BY <3>1, FreshType, Zenon
  <2> QED
    BY <1>1, <2>1, <2>2
<1>4. CASE /\ ~(nodes[i].transmitTime = 0 \/ nodes[i].collisionNum = input.M)
           /\ ~nodes[i].isCollided
  <2>1. Prepared(i) = nodes[i]
    BY <1>4 DEF Prepared
  <2> QED
    BY <1>1, <1>4, <2>1 DEF NodeState
<1> QED
  BY <1>2, <1>3, <1>4

\* A node in the middle of its packet, and all others beside it, are left as
\* they are: it alone has no backoff.
LEMMA PreparedHeld ==
    ASSUME ChannelInv, NEW i \in Ids, Prepared(i).transmitTime < input.L
    PROVE  /\ Prepared(i) = nodes[i] /\ Begun(i) /\ Prepared(i).backoff = 0
           /\ \A j \in Ids \ {i} : /\ Prepared(j) = nodes[j]
                                   /\ Prepared(j).backoff > 0
                                   /\ Prepared(j).transmitTime = input.L
<1>1. /\ input \in Inputs /\ currTime \in Nat
      /\ input.L \in Nat \ {0} /\ input.M \in Nat \ {0}
      /\ \A j \in Ids : /\ nodes[j] \in NodeState
                        /\ nodes[j].collisionNum = input.M => nodes[j].isCollided
  BY InputFacts DEF ChannelInv, TypeOK, NodeState
<1>2. /\ nodes[i].transmitTime # 0 /\ nodes[i].collisionNum # input.M
      /\ ~nodes[i].isCollided
  BY <1>1 DEF Prepared, Fresh
<1>3. Prepared(i) = nodes[i] /\ Begun(i)
  BY <1>2 DEF Prepared, Begun
<1>4. Prepared(i).backoff = 0
  BY <1>3 DEF ChannelInv, ChannelHeld
<1>5. ASSUME NEW j \in Ids \ {i}
      PROVE  /\ Prepared(j) = nodes[j] /\ Prepared(j).backoff > 0
             /\ Prepared(j).transmitTime = input.L
  <2>1. ~Begun(j) /\ nodes[j].backoff > 0
    BY <1>3 DEF ChannelInv, ChannelHeld
  <2>2. ~nodes[j].isCollided
    BY <1>3 DEF ChannelInv, CollisionsOnlyAtStart
  <2>3. nodes[j].transmitTime = input.L /\ nodes[j].collisionNum # input.M
    BY <1>1, <2>1, <2>2 DEF Begun, NodeState
  <2>4. Prepared(j) = nodes[j]
    BY <1>1, <2>2, <2>3 DEF Prepared
  <2> QED
    BY <2>1, <2>3, <2>4
<1> QED
  BY <1>3, <1>4, <1>5

\* In every slot all nodes but the transmitting one are at the start of their
\* packet.
LEMMA TransmitSafe ==
    ASSUME ChannelInv, Transmit
    PROVE  ChannelInv'
<1>1. /\ input' = input /\ currTime' = currTime + 1 /\ currTime < T
      /\ numOfSuccess' = numOfSuccess + 1 /\ Ids' = Ids /\ NodeState' = NodeState
  BY DEF Transmit, Ids, NodeState
<1>2. PICK i \in Ids :
         /\ Transmits(i)
         /\ nodes' = [j \in Ids |->
                         IF j = i THEN [Prepared(j) EXCEPT !.transmitTime = @ - 1]
                         ELSE Prepared(j)]
  BY DEF Transmit
<1>3. /\ input.L \in Nat \ {0} /\ input.M \in Nat \ {0} /\ input \in Inputs
      /\ currTime \in 0 .. T /\ numOfSuccess \in 0 .. currTime /\ T \in Nat
  BY InputFacts, InputAssumption DEF ChannelInv, TypeOK
<1>4. \A j \in Ids : /\ Prepared(j) \in NodeState /\ Prepared(j).collisionNum < input.M
                     /\ Prepared(j).transmitTime > 0 /\ Prepared(j).isCollided = FALSE
  BY PreparedType DEF ChannelInv
<1>5. \A j \in Ids \ {i} : Prepared(j).backoff > 0 /\ Prepared(j).transmitTime = input.L
  <2> TAKE j \in Ids \ {i}
  <2>1. Prepared(j).backoff # 0 /\ Prepared(j) \in NodeState
    BY <1>2, <1>4 DEF Transmits
  <2>2. ~(Prepared(j).transmitTime < input.L)
    BY <2>1, PreparedHeld
  <2> QED
    BY <1>3, <2>1, <2>2 DEF NodeState
<1>6. \A j \in Ids : /\ nodes'[j] \in NodeState /\ nodes'[j].collisionNum < input.M
                     /\ nodes'[j].isCollided = FALSE
                     /\ nodes'[j].backoff = Prepared(j).backoff
                     /\ j # i => nodes'[j] = Prepared(j)
  BY <1>2, <1>3, <1>4 DEF NodeState
<1>7. TypeOK'
  <2>1. nodes' \in [Ids -> NodeState]
    BY <1>2, <1>6
  <2>2. numOfSuccess' \in 0 .. currTime' /\ currTime' \in 0 .. T
    BY <1>1, <1>3
  <2>3. \A j \in Ids : nodes'[j].collisionNum = input.M => nodes'[j].isCollided
    BY <1>3, <1>6 DEF NodeState
  <2> QED
    BY <1>1, <1>3, <2>1, <2>2, <2>3 DEF TypeOK, NodeState
<1>8. \A j \in Ids \ {i} : ~Begun(j)' /\ nodes'[j].backoff > 0
  BY <1>1, <1>3, <1>5, <1>6 DEF Begun
<1>9. ChannelHeld'
  <2>1. nodes'[i].backoff = 0
    BY <1>2, <1>6 DEF Transmits
  <2> QED
    BY <1>1, <1>8, <2>1 DEF ChannelHeld
<1>10. CollisionsOnlyAtStart'
  BY <1>1, <1>6 DEF CollisionsOnlyAtStart
<1> QED
  BY <1>7, <1>9, <1>10 DEF ChannelInv

\* A collision finds every node at the start of its packet.
LEMMA CollideSafe ==
    ASSUME ChannelInv, Collide
    PROVE  ChannelInv'
<1>1. /\ input' = input /\ currTime' = currTime + 1 /\ currTime < T
      /\ numOfSuccess' = numOfSuccess /\ Ids' = Ids /\ NodeState' = NodeState
      /\ nodes' = [j \in Ids |->
                      IF Collides(j)
                      THEN [Prepared(j) EXCEPT !.isCollided = TRUE, !.collisionNum = @ + 1]
                      ELSE Prepared(j)]
  BY DEF Collide, Ids, NodeState
<1>2. PICK a \in Ids : Collides(a)
  BY DEF Collide
<1>3. PICK b \in Ids \ {a} : Prepared(a).backoff = 0 /\ Prepared(b).backoff = 0
  BY <1>2 DEF Collides
<1>4. /\ input.L \in Nat \ {0} /\ input.M \in Nat \ {0} /\ input \in Inputs
      /\ currTime \in 0 .. T /\ numOfSuccess \in 0 .. currTime /\ T \in Nat
  BY InputFacts, InputAssumption DEF ChannelInv, TypeOK
<1>5. \A j \in Ids : /\ Prepared(j) \in NodeState /\ Prepared(j).collisionNum < input.M
                     /\ Prepared(j).transmitTime > 0 /\ Prepared(j).isCollided = FALSE
  BY PreparedType DEF ChannelInv
<1>6. \A j \in Ids : Prepared(j).transmitTime = input.L
  <2> TAKE j \in Ids
  <2>1. ~(Prepared(j).transmitTime < input.L)
    BY <1>3, PreparedHeld
  <2> QED
    BY <1>4, <1>5, <2>1 DEF NodeState
<1>7. \A j \in Ids : /\ nodes'[j] \in NodeState /\ nodes'[j].transmitTime = input.L
                     /\ (nodes'[j].isCollided <=> Collides(j))
                     /\ (nodes'[j].collisionNum = input.M => nodes'[j].isCollided)
  <2> TAKE j \in Ids
  <2> DEFINE p == Prepared(j)
  <2>0. /\ p \in NodeState /\ p.collisionNum < input.M /\ p.isCollided = FALSE
        /\ p.transmitTime = input.L
    BY <1>5, <1>6
  <2>1. CASE Collides(j)
    <3>1. nodes'[j] = [p EXCEPT !.isCollided = TRUE, !.collisionNum = @ + 1]
      BY <1>1, <2>1
    <3> HIDE DEF p
    <3>2. p.collisionNum + 1 \in 0 .. input.M
      BY <1>4, <2>0 DEF NodeState
    <3>3. nodes'[j] = [backoff |-> p.backoff, collisionNum |-> p.collisionNum + 1,
                       transmitTime |-> p.transmitTime, isCollided |-> TRUE]
      BY <2>0, <3>1 DEF NodeState
    <3>4. /\ nodes'[j] \in NodeState /\ nodes'[j].transmitTime = input.L
          /\ nodes'[j].isCollided = TRUE
      BY <2>0, <3>2, <3>3 DEF NodeState
    <3> QED
      BY <2>1, <3>4, Zenon
  <2>2. CASE ~Collides(j)
    <3>1. nodes'[j] = p
      BY <1>1, <2>2
    <3> HIDE DEF p
    <3> QED
      BY <1>4, <2>0, <2>2, <3>1
  <2> QED
    BY <2>1, <2>2
<1>8. TypeOK'
  <2>1. nodes' \in [Ids -> NodeState]
    BY <1>1, <1>7
  <2>2. numOfSuccess' \in 0 .. currTime' /\ currTime' \in 0 .. T
    <3>1. numOfSuccess' = numOfSuccess /\ currTime' = currTime + 1 /\ currTime < T
      BY <1>1
    <3> QED
      BY <1>4, <3>1
  <2> QED
    BY <1>1, <1>4, <1>7, <2>1, <2>2 DEF TypeOK, NodeState
<1>9. \A j \in Ids : ~Begun(j)'
  <2>1. input' = input
    BY <1>1
  <2> QED
    BY <1>4, <1>7, <2>1 DEF Begun
<1>10. \A j \in Ids : Collides(j) => \E k \in Ids \ {j} : Collides(k)
  BY DEF Collides
<1> QED
  BY <1>1, <1>7, <1>8, <1>9, <1>10 DEF ChannelInv, ChannelHeld, CollisionsOnlyAtStart

\* So does an idle slot.
LEMMA IdleSafe ==
    ASSUME ChannelInv, Idle
    PROVE  ChannelInv'
<1>1. /\ input' = input /\ currTime' = currTime + 1 /\ currTime < T
      /\ numOfSuccess' = numOfSuccess /\ Ids' = Ids /\ NodeState' = NodeState
      /\ nodes' = [j \in Ids |-> [Prepared(j) EXCEPT !.backoff = @ - 1]]
      /\ \A j \in Ids : Prepared(j).backoff # 0
  BY DEF Idle, Ids, NodeState
<1>2. /\ input.L \in Nat \ {0} /\ input.M \in Nat \ {0} /\ input \in Inputs
      /\ currTime \in 0 .. T /\ numOfSuccess \in 0 .. currTime /\ T \in Nat
  BY InputFacts, InputAssumption DEF ChannelInv, TypeOK
<1>3. \A j \in Ids : /\ Prepared(j) \in NodeState /\ Prepared(j).collisionNum < input.M
                     /\ Prepared(j).transmitTime > 0 /\ Prepared(j).isCollided = FALSE
  BY PreparedType DEF ChannelInv
<1>4. \A j \in Ids : Prepared(j).transmitTime = input.L
  <2> TAKE j \in Ids
  <2>1. ~(Prepared(j).transmitTime < input.L)
    BY <1>1, PreparedHeld
  <2> QED
    BY <1>2, <1>3, <2>1 DEF NodeState
<1>5. \A j \in Ids : /\ nodes'[j] \in NodeState /\ nodes'[j].transmitTime = input.L
                     /\ nodes'[j].isCollided = FALSE
                     /\ nodes'[j].collisionNum < input.M
  <2> TAKE j \in Ids
  <2> DEFINE p == Prepared(j)
  <2>1. /\ p \in NodeState /\ p.collisionNum < input.M /\ p.isCollided = FALSE
        /\ p.transmitTime = input.L /\ p.backoff # 0
        /\ nodes'[j] = [p EXCEPT !.backoff = @ - 1]
    BY <1>1, <1>3, <1>4
  <2> HIDE DEF p
  <2> QED
    BY <2>1 DEF NodeState
<1>6. TypeOK'
  <2>1. nodes' \in [Ids -> NodeState]
    BY <1>1, <1>5
  <2>2. numOfSuccess' \in 0 .. currTime' /\ currTime' \in 0 .. T
    BY <1>1, <1>2
  <2>3. \A j \in Ids : nodes'[j].collisionNum = input.M => nodes'[j].isCollided
    BY <1>2, <1>5 DEF NodeState
  <2> QED
    BY <1>1, <1>2, <2>1, <2>2, <2>3 DEF TypeOK, NodeState
<1>7. \A j \in Ids : ~Begun(j)'
  BY <1>1, <1>2, <1>5 DEF Begun
<1> QED
  BY <1>1, <1>5, <1>6, <1>7 DEF ChannelInv, ChannelHeld, CollisionsOnlyAtStart

\* The nodes start with a packet each and no collision.
LEMMA InitSafe == Init => ChannelInv
<1> SUFFICES ASSUME Init PROVE ChannelInv
  OBVIOUS
<1>1. input \in Inputs /\ nodes = [i \in Ids |-> Fresh(i, 0, 0)]
      /\ currTime = 0 /\ numOfSuccess = 0
  BY DEF Init
<1>2. input.L \in Nat \ {0} /\ input.M \in Nat \ {0} /\ T \in Nat /\ 0 \in 0 .. input.M - 1
  BY <1>1, InputFacts, InputAssumption
<1>3. \A i \in Ids : /\ nodes[i] \in NodeState /\ nodes[i].collisionNum = 0
                     /\ nodes[i].transmitTime = input.L /\ nodes[i].isCollided = FALSE
  <2> TAKE i \in Ids
  <2>1. input \in Inputs /\ 0 \in 0 .. input.M - 1 /\ 0 \in Nat
    BY <1>1, <1>2
  <2>2. /\ Fresh(i, 0, 0) \in NodeState /\ Fresh(i, 0, 0).collisionNum = 0
        /\ Fresh(i, 0, 0).transmitTime = input.L /\ Fresh(i, 0, 0).isCollided = FALSE
    BY <2>1, FreshType, Zenon
  <2> QED
    BY <1>1, <2>2
<1>4. TypeOK
  <2>1. nodes \in [Ids -> NodeState]
    BY <1>1, <1>3
  <2> QED
    BY <1>1, <1>2, <1>3, <2>1 DEF TypeOK, NodeState
<1>5. \A i \in Ids : ~Begun(i)
  BY <1>2, <1>3 DEF Begun
<1> QED
  BY <1>3, <1>4, <1>5 DEF ChannelInv, ChannelHeld, CollisionsOnlyAtStart

\* Every slot keeps the invariant.
LEMMA StepSafe == ChannelInv /\ [Next]_vars => ChannelInv'
<1> SUFFICES ASSUME ChannelInv, [Next]_vars PROVE ChannelInv'
  OBVIOUS
<1>1. CASE UNCHANGED vars
  BY <1>1
  DEF vars, ChannelInv, TypeOK, ChannelHeld, CollisionsOnlyAtStart, Begun, Ids
<1> QED
  BY <1>1, TransmitSafe, CollideSafe, IdleSafe DEF Next, Finished

\* In every simulation backoff, collisions and the loss of finished or given-up
\* packets keep all counters in range and never break into a packet under way.
THEOREM CsmaSafety == Spec => [](TypeOK /\ ChannelHeld /\ CollisionsOnlyAtStart)
<1>1. ChannelInv => TypeOK /\ ChannelHeld /\ CollisionsOnlyAtStart
  BY DEF ChannelInv
<1> QED
  BY <1>1, InitSafe, StepSafe, PTL DEF Spec

-----------------------------------------------------------------------------
(***************************************************************************)
(* The count of successful slots.                                          *)
(***************************************************************************)
\* One packet more is a multiple of its length more.
LEMMA WholeMore ==
    ASSUME NEW len \in Nat \ {0}, NEW x \in Nat, x % len = 0
    PROVE  (x + len) % len = 0
<1> DEFINE q == x \div len
<1>1. q \in Nat /\ x = len * q + (x % len)
  OBVIOUS
<1> HIDE DEF q
<1>2. len * q + len = len * (q + 1) /\ q + 1 \in Nat
  BY <1>1
<1>3. x + len = len * (q + 1)
  BY <1>1, <1>2
<1>4. \A r \in Nat : (len * r) % len = 0
  OBVIOUS
<1> QED
  BY <1>2, <1>3, <1>4

\* When no node is in the middle of a packet, whole packets were counted.
LEMMA CountIsWhole ==
    ASSUME ChannelInv, WholePackets, \A i \in Ids : Prepared(i).transmitTime = input.L
    PROVE  numOfSuccess % input.L = 0 /\ Holders = {}
<1>1. ASSUME NEW i \in Ids, Begun(i) PROVE nodes[i].transmitTime = 0
  <2>1. ~nodes[i].isCollided
    BY <1>1 DEF ChannelInv, CollisionsOnlyAtStart
  <2>2. nodes[i].collisionNum # input.M
    BY <2>1 DEF ChannelInv, TypeOK
  <2>3. Prepared(i) # nodes[i]
    BY <1>1, InputFacts DEF Begun, ChannelInv, TypeOK
  <2> QED
    BY <2>1, <2>2, <2>3 DEF Prepared
<1>2. Holders = {}
  BY <1>1 DEF Holders
<1>3. CASE \A i \in Ids : ~Begun(i)
  BY <1>2, <1>3 DEF WholePackets
<1>4. CASE \E i \in Ids : Begun(i)
  <2>1. PICK i \in Ids : Begun(i)
    BY <1>4
  <2>2. (numOfSuccess + nodes[i].transmitTime) % input.L = 0
    BY <2>1 DEF WholePackets
  <2>3. numOfSuccess \in Nat /\ nodes[i].transmitTime = 0
    BY <1>1, <2>1, InputAssumption DEF ChannelInv, TypeOK
  <2> QED
    BY <1>2, <2>2, <2>3
<1> QED
  BY <1>3, <1>4

\* What a transmission leaves behind: node i alone has begun.
LEMMA TransmitEffect ==
    ASSUME ChannelInv, Transmit
    PROVE  \E i \in Ids :
              /\ \A j \in Ids \ {i} : Prepared(j).transmitTime = input.L
              /\ nodes'[i].transmitTime = Prepared(i).transmitTime - 1
              /\ Prepared(i).transmitTime \in 1 .. input.L
              /\ \A j \in Ids \ {i} : ~Begun(j)'
              /\ Begun(i)'
<1>1. input' = input /\ input.L \in Nat \ {0} /\ Ids' = Ids
  BY InputFacts DEF Transmit, ChannelInv, TypeOK, Ids
<1>2. PICK i \in Ids :
         /\ Transmits(i)
         /\ nodes' = [j \in Ids |->
                         IF j = i THEN [Prepared(j) EXCEPT !.transmitTime = @ - 1]
                         ELSE Prepared(j)]
  BY DEF Transmit
<1>3. \A j \in Ids : Prepared(j) \in NodeState /\ Prepared(j).transmitTime > 0
  BY PreparedType DEF ChannelInv
<1>4. ASSUME NEW j \in Ids \ {i} PROVE Prepared(j).transmitTime = input.L
  <2>1. Prepared(j).backoff # 0 /\ Prepared(j) \in NodeState
    BY <1>2, <1>3 DEF Transmits
  <2>2. ~(Prepared(j).transmitTime < input.L)
    BY <2>1, PreparedHeld
  <2> QED
    BY <1>1, <2>1, <2>2 DEF NodeState
<1>5. Prepared(i).transmitTime \in 1 .. input.L
  BY <1>1, <1>3 DEF NodeState
<1>6. nodes'[i].transmitTime = Prepared(i).transmitTime - 1
  BY <1>2, <1>3 DEF NodeState
<1>7. \A j \in Ids \ {i} : nodes'[j] = Prepared(j)
  BY <1>2
<1>8. \A j \in Ids \ {i} : ~Begun(j)'
  BY <1>1, <1>4, <1>7 DEF Begun
<1>9. Begun(i)'
  BY <1>1, <1>5, <1>6 DEF Begun
<1> QED
  BY <1>4, <1>5, <1>6, <1>8, <1>9

\* What a collision and an idle slot leave behind: nobody has begun.
LEMMA PauseEffect ==
    ASSUME ChannelInv, Collide \/ Idle
    PROVE  /\ \A j \in Ids : Prepared(j).transmitTime = input.L
           /\ \A j \in Ids : ~Begun(j)'
<1>1. input' = input /\ input.L \in Nat \ {0} /\ Ids' = Ids
  BY InputFacts DEF Collide, Idle, ChannelInv, TypeOK, Ids
<1>2. \A j \in Ids : Prepared(j) \in NodeState
  BY PreparedType DEF ChannelInv
<1>3. ASSUME NEW j \in Ids PROVE Prepared(j).transmitTime = input.L
  <2>1. ~(Prepared(j).transmitTime < input.L)
    <3>1. CASE Idle
      BY <3>1, PreparedHeld DEF Idle
    <3>2. CASE Collide
      <4>1. PICK a \in Ids, b \in Ids : a # b /\ Prepared(a).backoff = 0 /\ Prepared(b).backoff = 0
        BY <3>2 DEF Collide, Collides
      <4> QED
        BY <4>1, PreparedHeld
    <3> QED
      BY <3>1, <3>2
  <2> QED
    BY <1>1, <1>2, <2>1 DEF NodeState
<1>4. ASSUME NEW j \in Ids PROVE nodes'[j].transmitTime = Prepared(j).transmitTime
  <2>1. CASE Idle
    BY <1>2, <2>1 DEF Idle, NodeState
  <2>2. CASE Collide
    BY <1>2, <2>2 DEF Collide, NodeState
  <2> QED
    BY <2>1, <2>2
<1> QED
  BY <1>1, <1>3, <1>4 DEF Begun

\* Every slot keeps the count.
LEMMA StepWhole ==
    ASSUME ChannelInv, WholePackets, [Next]_vars
    PROVE  WholePackets'
<1>1. input.L \in Nat \ {0} /\ numOfSuccess \in Nat
  BY InputFacts, InputAssumption DEF ChannelInv, TypeOK
<1>2. CASE Transmit
  <2>1. input' = input /\ numOfSuccess' = numOfSuccess + 1 /\ Ids' = Ids
    BY <1>2 DEF Transmit, Ids
  <2>2. PICK i \in Ids :
              /\ \A j \in Ids \ {i} : Prepared(j).transmitTime = input.L
              /\ nodes'[i].transmitTime = Prepared(i).transmitTime - 1
              /\ Prepared(i).transmitTime \in 1 .. input.L
              /\ \A j \in Ids \ {i} : ~Begun(j)'
              /\ Begun(i)'
    BY <1>2, TransmitEffect
  <2>3. (numOfSuccess + Prepared(i).transmitTime) % input.L = 0
    <3>1. CASE Prepared(i).transmitTime < input.L
      BY <3>1, PreparedHeld DEF WholePackets
    <3>2. CASE Prepared(i).transmitTime = input.L
      <4>1. numOfSuccess % input.L = 0
        BY <2>2, <3>2, CountIsWhole
      <4> QED
        BY <1>1, <3>2, <4>1, WholeMore
    <3> QED
      BY <1>1, <2>2, <3>1, <3>2
  <2>4. numOfSuccess' + nodes'[i].transmitTime = numOfSuccess + Prepared(i).transmitTime
    BY <1>1, <2>1, <2>2
  <2> QED
    BY <2>1, <2>2, <2>3, <2>4 DEF WholePackets
<1>3. CASE Collide \/ Idle
  <2>1. input' = input /\ numOfSuccess' = numOfSuccess /\ Ids' = Ids
    BY <1>3 DEF Collide, Idle, Ids
  <2>2. numOfSuccess % input.L = 0 /\ \A j \in Ids : ~Begun(j)'
    BY <1>3, PauseEffect, CountIsWhole
  <2> QED
    BY <2>1, <2>2 DEF WholePackets
<1>4. CASE UNCHANGED vars
  BY <1>4 DEF vars, WholePackets, Begun, Ids
<1> QED
  BY <1>2, <1>3, <1>4 DEF Next, Finished

\* The utilisation that mp4 reports counts only slots of whole packets and of
\* the one packet that the end of the simulation may cut off.
THEOREM CsmaCount == Spec => []WholePackets
<1>1. Init => WholePackets
  <2> SUFFICES ASSUME Init PROVE WholePackets
    OBVIOUS
  <2>1. /\ input.L \in Nat \ {0} /\ numOfSuccess = 0
        /\ \A i \in Ids : nodes[i].transmitTime = input.L
    BY InputFacts DEF Init, Fresh
  <2>2. 0 % input.L = 0
    BY <2>1
  <2> QED
    BY <2>1, <2>2 DEF WholePackets, Begun
<1> QED
  BY <1>1, InitSafe, StepSafe, StepWhole, PTL DEF Spec

-----------------------------------------------------------------------------
(***************************************************************************)
(* The refinement of SharedChannel.                                        *)
(***************************************************************************)
\* The channel before a transmission: held by node i, or by nobody.
LEMMA OwnerBefore ==
    ASSUME ChannelInv, WholePackets, NEW i \in Ids,
           \A j \in Ids \ {i} : Prepared(j).transmitTime = input.L,
           Prepared(i).transmitTime \in 1 .. input.L
    PROVE  \/ Owner = i /\ Left = Prepared(i).transmitTime
           \/ Owner = -1 /\ Left = 0 /\ Prepared(i).transmitTime = input.L
<1>1. CASE Prepared(i).transmitTime < input.L
  <2>1. /\ Prepared(i) = nodes[i] /\ Begun(i)
        /\ \A j \in Ids \ {i} : Prepared(j) = nodes[j]
    BY <1>1, PreparedHeld
  <2>2. \A j \in Ids \ {i} : ~Begun(j)
    BY <2>1, InputFacts DEF Begun, ChannelInv, TypeOK
  <2>3. nodes[i].transmitTime > 0
    BY <2>1
  <2>4. Holders = {i}
    BY <2>1, <2>2, <2>3 DEF Holders
  <2>5. Owner = i
    BY <2>4 DEF Owner
  <2> QED
    BY <2>1, <2>4, <2>5 DEF Left
<1>2. CASE Prepared(i).transmitTime = input.L
  BY <1>2, CountIsWhole DEF Owner, Left
<1> QED
  BY <1>1, <1>2, InputFacts DEF ChannelInv, TypeOK

\* A slot that a node transmits in is one more of its packet.
LEMMA TransmitRefines ==
    ASSUME ChannelInv, WholePackets, Transmit
    PROVE  SC!Next
<1>1. /\ input' = input /\ numOfSuccess' = numOfSuccess + 1 /\ Ids' = Ids
      /\ currTime' = currTime + 1
  BY DEF Transmit, Ids
<1>2. PICK i \in Ids :
            /\ \A j \in Ids \ {i} : Prepared(j).transmitTime = input.L
            /\ nodes'[i].transmitTime = Prepared(i).transmitTime - 1
            /\ Prepared(i).transmitTime \in 1 .. input.L
            /\ \A j \in Ids \ {i} : ~Begun(j)'
            /\ Begun(i)'
  BY TransmitEffect
<1>3. /\ input \in Inputs /\ input.L \in Nat \ {0} /\ i \in Nat
  BY InputFacts DEF ChannelInv, TypeOK
<1>4. /\ Owner \in {-1, i}
      /\ Prepared(i).transmitTime = IF Owner = -1 THEN input.L ELSE Left
  BY <1>2, <1>3, OwnerBefore
<1>5. Left' = nodes'[i].transmitTime /\ Owner' = IF Left' = 0 THEN -1 ELSE i
  <2>1. CASE nodes'[i].transmitTime = 0
    <3>1. Holders' = {}
      BY <1>1, <1>2, <2>1 DEF Holders
    <3> QED
      BY <2>1, <3>1 DEF Owner, Left
  <2>2. CASE nodes'[i].transmitTime # 0
    <3>1. nodes'[i].transmitTime > 0
      BY <1>2, <1>3, <2>2
    <3>2. Holders' = {i}
      BY <1>1, <1>2, <3>1 DEF Holders
    <3>3. Owner' = i
      BY <3>2 DEF Owner
    <3> QED
      BY <2>2, <3>2, <3>3 DEF Left
  <2> QED
    BY <2>1, <2>2
<1>6. i \in UNION {0 .. in.N - 1 : in \in Inputs}
  BY <1>3 DEF Ids
<1>7. SC!Carry(i)
  <2>1. Left' = (IF Owner = -1 THEN input.L ELSE Left) - 1
    BY <1>2, <1>4, <1>5
  <2> QED
    BY <1>1, <1>4, <1>5, <2>1 DEF SC!Carry
<1> QED
  BY <1>1, <1>6, <1>7 DEF SC!Next

\* A collision and an idle slot happen only while nobody holds the channel.
LEMMA PauseRefines ==
    ASSUME ChannelInv, WholePackets, Collide \/ Idle
    PROVE  SC!Next
<1>1. /\ input' = input /\ numOfSuccess' = numOfSuccess /\ Ids' = Ids
      /\ currTime' = currTime + 1
  BY DEF Collide, Idle, Ids
<1>2. Holders = {}
  BY PauseEffect, CountIsWhole
<1>3. Holders' = {}
  BY <1>1, PauseEffect DEF Holders
<1>4. Owner = -1 /\ Left = 0 /\ Owner' = -1 /\ Left' = 0
  BY <1>2, <1>3 DEF Owner, Left
<1> QED
  BY <1>1, <1>4 DEF SC!Next, SC!Pause

\* Backoff, collisions and carrier sense implement a channel that gives every
\* packet its slots in a row.
THEOREM CsmaRefines == Spec => ImplementsSharedChannel
<1>1. Init => SC!Init
  <2> SUFFICES ASSUME Init PROVE SC!Init
    OBVIOUS
  <2>1. /\ input.L \in Nat \ {0} /\ numOfSuccess = 0 /\ currTime = 0
        /\ \A i \in Ids : nodes[i].transmitTime = input.L
    BY InputFacts DEF Init, Fresh
  <2>2. Holders = {}
    BY <2>1 DEF Holders, Begun
  <2> QED
    BY <2>1, <2>2 DEF SC!Init, Owner, Left
<1>2. ChannelInv /\ WholePackets /\ [Next]_vars => [SC!Next]_SC!channelVars
  <2> SUFFICES ASSUME ChannelInv, WholePackets, [Next]_vars
               PROVE  [SC!Next]_SC!channelVars
    OBVIOUS
  <2>1. CASE UNCHANGED vars
    BY <2>1 DEF vars, SC!channelVars, Owner, Left, Holders, Begun, Ids
  <2> QED
    BY <2>1, TransmitRefines, PauseRefines DEF Next, Finished
<1>3. Spec => []ChannelInv
  BY InitSafe, StepSafe, PTL DEF Spec
<1> QED
  BY <1>1, <1>2, <1>3, CsmaCount, PTL DEF Spec, ImplementsSharedChannel, SC!Spec
=============================================================================
