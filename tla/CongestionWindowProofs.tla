------------------------ MODULE CongestionWindowProofs ------------------------
(***************************************************************************)
(* What the operators of CongestionWindow return, for every precision,     *)
(* slide window and first threshold: the lemmas that the proofs about      *)
(* CongestionControl and about ReliableTransfer share.                     *)
(***************************************************************************)
EXTENDS CongestionWindow, WellFoundedInduction, TLAPS

\* A non-empty set of naturals has a least element.
LEMMA LeastNat ==
    ASSUME NEW T \in SUBSET Nat, T # {}
    PROVE  \E x \in T : \A y \in T : x <= y
<1> DEFINE Less == {ss \in Nat \X Nat : ss[1] < ss[2]}
<1>1. IsWellFoundedOn(Less, Nat)
  BY NatLessThanWellFounded DEF OpToRel
<1> HIDE DEF Less
<1>2. \E x \in T : \A y \in T : <<y, x>> \notin Less
  BY <1>1, WFMin
<1>3. PICK x \in T : \A y \in T : <<y, x>> \notin Less
  BY <1>2
<1>4. \A y \in T : x <= y
  <2> TAKE y \in T
  <2>1. x \in Nat /\ y \in Nat
    OBVIOUS
  <2>2. ~(y < x)
    BY <1>3, <2>1, Zenon DEF Less
  <2> QED
    BY <2>1, <2>2
<1> QED
  BY <1>4

-----------------------------------------------------------------------------
\* Half a positive count of units is a positive count, and no larger.
LEMMA HalfType ==
    ASSUME NEW x \in Nat \ {0}
    PROVE  /\ Half(x) \in Nat \ {0}
           /\ Half(x) <= x
           /\ 2 * Half(x) <= x \/ Half(x) = 1
BY DEF Half, AtLeastOneUnit

\* One over a positive count of units leaves one.
LEMMA ReciprocalType ==
    ASSUME NEW x \in Nat \ {0}
    PROVE  Reciprocal(x) \in Nat \ {0}
<1>1. Scale * Scale \in Nat
  BY WindowAssumption
<1>2. (Scale * Scale) \div x \in Nat
  BY <1>1
<1> QED
  BY <1>2 DEF Reciprocal, AtLeastOneUnit

\* The cap leaves a positive window below the slide window.
LEMMA CappedBound ==
    ASSUME NEW x \in Nat \ {0}
    PROVE  /\ Capped(x) \in Nat \ {0}
           /\ Capped(x) < BUFFER_SIZE * Scale
<1>1. /\ BUFFER_SIZE * Scale \in Nat
      /\ (BUFFER_SIZE - 1) * Scale = BUFFER_SIZE * Scale - Scale
      /\ BUFFER_SIZE * Scale >= 2 * Scale
  BY WindowAssumption
<1> QED
  BY <1>1, WindowAssumption DEF Capped

-----------------------------------------------------------------------------
\* The type of the result of each call, from the type of the argument.
LEMMA WindowTypes ==
    ASSUME NEW c \in CongestionState
    PROVE  /\ OnTimeout(c) \in CongestionState
           /\ OnNewAck(c) \in CongestionState
           /\ OnDupAck(c) \in CongestionState
           /\ EnterFastRecovery(c) \in CongestionState
<1> USE WindowAssumption
<1>1. /\ c.cwnd \in Nat \ {0} /\ c.thread \in Nat \ {0}
      /\ c.dupAckCount \in Nat /\ c.cw_state \in CwStates
      /\ c = [cwnd |-> c.cwnd, thread |-> c.thread,
              dupAckCount |-> c.dupAckCount, cw_state |-> c.cw_state]
  BY DEF CongestionState
<1>2. OnTimeout(c) \in CongestionState
  BY <1>1, HalfType DEF OnTimeout, CongestionState, CwStates
<1>3. \A d \in CongestionState : LeaveSlowStart(d) \in CongestionState
  BY DEF LeaveSlowStart, CongestionState, CwStates
<1>4. OnNewAck(c) \in CongestionState
  <2>1. CASE c.cw_state = "SLOW_START"
    <3>1. Capped(c.cwnd + Scale) \in Nat \ {0}
      BY <1>1, CappedBound
    <3>2. [c EXCEPT !.cwnd = Capped(@ + Scale), !.dupAckCount = 0] \in CongestionState
      BY <1>1, <3>1 DEF CongestionState
    <3> QED
      BY <2>1, <3>2, <1>3 DEF OnNewAck
  <2>2. CASE c.cw_state = "CONGESTION_AVOIDANCE"
    <3>1. Capped(c.cwnd + Reciprocal(c.cwnd)) \in Nat \ {0}
      BY <1>1, CappedBound, ReciprocalType
    <3>2. [c EXCEPT !.cwnd = Capped(@ + Reciprocal(@)), !.dupAckCount = 0]
            \in CongestionState
      BY <1>1, <3>1 DEF CongestionState
    <3> QED
      BY <2>2, <3>2 DEF OnNewAck
  <2>3. CASE c.cw_state = "FAST_RECOVERY"
    BY <1>1, <2>3 DEF OnNewAck, CongestionState, CwStates
  <2> QED
    BY <1>1, <2>1, <2>2, <2>3 DEF CwStates
<1>5. OnDupAck(c) \in CongestionState
  <2>1. CASE c.cw_state = "SLOW_START"
    <3>1. [c EXCEPT !.dupAckCount = @ + 1] \in CongestionState
      BY <1>1 DEF CongestionState
    <3> QED
      BY <2>1, <3>1, <1>3 DEF OnDupAck
  <2>2. CASE c.cw_state = "CONGESTION_AVOIDANCE"
    BY <1>1, <2>2 DEF OnDupAck, CongestionState
  <2>3. CASE c.cw_state = "FAST_RECOVERY"
    <3>1. Capped(c.cwnd + Scale) \in Nat \ {0}
      BY <1>1, CappedBound
    <3> QED
      BY <1>1, <2>3, <3>1 DEF OnDupAck, CongestionState
  <2> QED
    BY <1>1, <2>1, <2>2, <2>3 DEF CwStates
<1>6. EnterFastRecovery(c) \in CongestionState
  BY <1>1, HalfType DEF EnterFastRecovery, CongestionState, CwStates
<1> QED
  BY <1>2, <1>4, <1>5, <1>6

-----------------------------------------------------------------------------
(***************************************************************************)
(* The loop over the packets that one acknowledgement covers.              *)
(***************************************************************************)
\* The values of the window during n calls, by what each has to be.
Runs(c, n) == {f \in [0 .. n -> CongestionState] :
                  f = [i \in 0 .. n |-> IF i = 0 THEN c ELSE OnNewAck(f[i - 1])]}

\* There is a course of values for every number of calls: none could be the
\* first without.
LEMMA RunExists ==
    ASSUME NEW c \in CongestionState, NEW n \in Nat
    PROVE  Runs(c, n) # {}
<1> DEFINE T == {k \in Nat : Runs(c, k) = {}}
<1>1. ASSUME NEW k \in T, \A y \in T : k <= y PROVE FALSE
  <2>1. CASE k = 0
    <3> DEFINE f == [i \in 0 .. 0 |-> c]
    <3>1. f \in [0 .. 0 -> CongestionState]
      OBVIOUS
    <3>2. f = [i \in 0 .. 0 |-> IF i = 0 THEN c ELSE OnNewAck(f[i - 1])]
      OBVIOUS
    <3>3. f \in Runs(c, 0)
      BY <3>1, <3>2 DEF Runs
    <3> QED
      BY <2>1, <3>3
  <2>2. CASE k # 0
    <3>1. k - 1 \in Nat /\ k - 1 \notin T
      BY <1>1, <2>2
    <3>2. PICK g \in Runs(c, k - 1) : TRUE
      BY <3>1
    <3>3. /\ g \in [0 .. k - 1 -> CongestionState]
          /\ \A i \in 0 .. k - 1 : g[i] = IF i = 0 THEN c ELSE OnNewAck(g[i - 1])
      BY <3>2 DEF Runs
    <3> DEFINE last == OnNewAck(g[k - 1])
               f    == [i \in 0 .. k |-> IF i = k THEN last ELSE g[i]]
    <3>4. last \in CongestionState
      BY <3>1, <3>3, WindowTypes
    <3> HIDE DEF last
    <3>5. f \in [0 .. k -> CongestionState]
      BY <3>3, <3>4
    <3>6. ASSUME NEW i \in 0 .. k
          PROVE  f[i] = IF i = 0 THEN c ELSE OnNewAck(f[i - 1])
      <4>1. CASE i = k
        BY <2>2, <4>1 DEF last
      <4>2. CASE i # k /\ i # 0
        <5>1. i \in 0 .. k - 1 /\ i - 1 \in 0 .. k /\ i - 1 # k
          BY <4>2
        <5> QED
          BY <3>3, <4>2, <5>1
      <4>3. CASE i # k /\ i = 0
        BY <3>1, <3>3, <4>3
      <4> QED
        BY <4>1, <4>2, <4>3
    <3>7. f = [i \in 0 .. k |-> IF i = 0 THEN c ELSE OnNewAck(f[i - 1])]
      BY <3>6
    <3>8. f \in Runs(c, k)
      BY <3>5, <3>7, Zenon DEF Runs
    <3> QED
      BY <3>8
  <2> QED
    BY <2>1, <2>2
<1> HIDE DEF T
<1>2. T = {}
  BY <1>1, LeastNat DEF T
<1> QED
  BY <1>2 DEF T

\* However many packets an acknowledgement covers, the window keeps its type.
LEMMA AfterNewAcksType ==
    ASSUME NEW c \in CongestionState, NEW n \in Nat
    PROVE  AfterNewAcks(c, n) \in CongestionState
<1> DEFINE IsRun(f) == f = [i \in 0 .. n |-> IF i = 0 THEN c ELSE OnNewAck(f[i - 1])]
           after == CHOOSE f : IsRun(f)
<1>1. \E f : IsRun(f)
  <2>1. PICK f \in Runs(c, n) : TRUE
    BY RunExists
  <2> QED
    BY <2>1 DEF Runs
<1>2. IsRun(after)
  <2> HIDE DEF IsRun
  <2> QED
    BY <1>1
<1>3. AfterNewAcks(c, n) = after[n]
  BY DEF AfterNewAcks, congestion_window
<1> HIDE DEF after
<1>4. \A i \in 0 .. n : after[i] = IF i = 0 THEN c ELSE OnNewAck(after[i - 1])
  BY <1>2
<1> DEFINE T == {i \in 0 .. n : after[i] \notin CongestionState}
<1>5. ASSUME NEW i \in T, \A y \in T : i <= y PROVE FALSE
  <2>1. i # 0
    BY <1>4
  <2>2. i - 1 \in 0 .. n /\ i - 1 \notin T
    BY <1>5, <2>1
  <2>3. after[i] = OnNewAck(after[i - 1])
    BY <1>4, <2>1
  <2>4. OnNewAck(after[i - 1]) \in CongestionState
    BY <2>2, WindowTypes
  <2> QED
    BY <2>3, <2>4
<1>6. T \in SUBSET Nat
  OBVIOUS
<1> HIDE DEF T
<1>7. T = {}
  BY <1>5, <1>6, LeastNat
<1> QED
  BY <1>3, <1>7 DEF T
=============================================================================
