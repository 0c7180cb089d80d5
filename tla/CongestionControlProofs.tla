----------------------- MODULE CongestionControlProofs ----------------------
(***************************************************************************)
(* What holds of the congestion window for every precision, slide window   *)
(* and first threshold.                                                    *)
(***************************************************************************)
EXTENDS CongestionControl, CongestionWindowProofs

\* The window, threshold, counter and state keep their types.
THEOREM CongestionControlType == Spec => []TypeOK
<1>1. Init => TypeOK
  <2>1. Scale \in Nat \ {0} /\ INIT_THREAD * Scale \in Nat \ {0}
    BY WindowAssumption
  <2> QED
    BY <2>1 DEF Init, TypeOK, InitCongestion, CongestionState, CwStates
<1>2. TypeOK /\ [Next]_cc => TypeOK'
  BY WindowTypes DEF TypeOK, Next, Timeout, NewAck, DupAck, congestion_window
<1> QED
  BY <1>1, <1>2, PTL DEF Spec

-----------------------------------------------------------------------------
StatesInv == /\ TypeOK
             /\ SlowStartBelowThreshold
             /\ SubPacketWindowOnlyInAvoidance
             /\ DupAcksConsumed

LEMMA StatesInit == Init => StatesInv
<1>1. Scale \in Nat \ {0} /\ INIT_THREAD * Scale \in Nat \ {0}
  BY WindowAssumption
<1> QED
  BY <1>1 DEF Init, StatesInv, TypeOK, InitCongestion, CongestionState, CwStates,
      SlowStartBelowThreshold, SubPacketWindowOnlyInAvoidance, DupAcksConsumed

\* The cap leaves a packet at least.
LEMMA CappedAtLeast ==
    ASSUME NEW x \in Nat, x >= Scale
    PROVE  Capped(x) \in Nat \ {0} /\ Capped(x) >= Scale
<1>1. /\ Scale \in Nat \ {0} /\ (BUFFER_SIZE - 1) * Scale \in Nat
      /\ (BUFFER_SIZE - 1) * Scale >= Scale
  BY WindowAssumption
<1> QED
  BY <1>1 DEF Capped

\* What a duplicate acknowledgement makes of the window, before the third is
\* acted on.
LEMMA AfterDuplicate ==
    ASSUME StatesInv
    PROVE  LET c == congestion_window(cc, FALSE, FALSE)
           IN  /\ c.thread = cc.thread /\ c.dupAckCount \in 0 .. 3
               /\ c.cwnd = cc.cwnd \/ c.cwnd = Capped(cc.cwnd + Scale)
               /\ c.cwnd \in Nat \ {0}
               /\ c.cw_state # "CONGESTION_AVOIDANCE" => c.cwnd >= Scale
               /\ c.cw_state = "SLOW_START" => c.cwnd < c.thread
               /\ c.cw_state = "FAST_RECOVERY" => cc.cw_state = "FAST_RECOVERY" /\ c.dupAckCount = 0
<1> DEFINE c == congestion_window(cc, FALSE, FALSE)
<1>1. /\ cc \in CongestionState /\ Scale \in Nat \ {0}
      /\ cc.cwnd \in Nat \ {0} /\ cc.thread \in Nat \ {0}
      /\ cc.dupAckCount \in 0 .. 2 /\ cc.cw_state \in CwStates
      /\ cc.cw_state = "FAST_RECOVERY" => cc.dupAckCount = 0
      /\ cc.cw_state # "CONGESTION_AVOIDANCE" => cc.cwnd >= Scale
  BY WindowAssumption DEF StatesInv, TypeOK, DupAcksConsumed, CongestionState,
     SubPacketWindowOnlyInAvoidance
<1>2. CASE cc.cw_state = "SLOW_START"
  <2>1. c = LeaveSlowStart([cc EXCEPT !.dupAckCount = @ + 1])
    BY <1>2 DEF congestion_window, OnDupAck
  <2>2. /\ c.cwnd = cc.cwnd /\ c.thread = cc.thread
        /\ c.dupAckCount = cc.dupAckCount + 1
        /\ c.cw_state = IF cc.cwnd >= cc.thread THEN "CONGESTION_AVOIDANCE" ELSE "SLOW_START"
    BY <1>1, <1>2, <2>1 DEF LeaveSlowStart, CongestionState
  <2> HIDE DEF c
  <2>3. /\ c.thread = cc.thread /\ c.dupAckCount \in 0 .. 3
        /\ c.cwnd = cc.cwnd \/ c.cwnd = Capped(cc.cwnd + Scale)
        /\ c.cwnd \in Nat \ {0}
        /\ c.cw_state # "CONGESTION_AVOIDANCE" => c.cwnd >= Scale
        /\ c.cw_state = "SLOW_START" => c.cwnd < c.thread
        /\ c.cw_state = "FAST_RECOVERY" => cc.cw_state = "FAST_RECOVERY" /\ c.dupAckCount = 0
    BY <1>1, <1>2, <2>2
  <2> QED
    BY <2>3 DEF c
<1>3. CASE cc.cw_state = "CONGESTION_AVOIDANCE"
  BY <1>1, <1>3 DEF congestion_window, OnDupAck, CongestionState
<1>4. CASE cc.cw_state = "FAST_RECOVERY"
  <2>1. c = [cc EXCEPT !.cwnd = Capped(cc.cwnd + Scale)]
    BY <1>4 DEF congestion_window, OnDupAck
  <2>2. Capped(cc.cwnd + Scale) \in Nat \ {0} /\ Capped(cc.cwnd + Scale) >= Scale
    BY <1>1, <1>4, CappedAtLeast
  <2> HIDE DEF c
  <2>3. /\ c.thread = cc.thread /\ c.dupAckCount \in 0 .. 3
        /\ c.cwnd = cc.cwnd \/ c.cwnd = Capped(cc.cwnd + Scale)
        /\ c.cwnd \in Nat \ {0}
        /\ c.cw_state # "CONGESTION_AVOIDANCE" => c.cwnd >= Scale
        /\ c.cw_state = "SLOW_START" => c.cwnd < c.thread
        /\ c.cw_state = "FAST_RECOVERY" => cc.cw_state = "FAST_RECOVERY" /\ c.dupAckCount = 0
    BY <1>1, <1>4, <2>1, <2>2 DEF CongestionState
  <2> QED
    BY <2>3 DEF c
<1> QED
  BY <1>1, <1>2, <1>3, <1>4 DEF CwStates

LEMMA StatesStep == StatesInv /\ [Next]_cc => StatesInv'
<1> SUFFICES ASSUME StatesInv, [Next]_cc PROVE StatesInv'
  OBVIOUS
<1>1. /\ cc.cwnd \in Nat \ {0} /\ cc.thread \in Nat \ {0} /\ Scale \in Nat \ {0}
      /\ cc.dupAckCount \in 0 .. 2 /\ cc.cw_state \in CwStates
      /\ cc \in CongestionState
      /\ cc.cw_state = "FAST_RECOVERY" => cc.dupAckCount = 0
      /\ cc.cw_state # "CONGESTION_AVOIDANCE" => cc.cwnd >= Scale
  BY WindowAssumption DEF StatesInv, TypeOK, DupAcksConsumed, CongestionState,
     SubPacketWindowOnlyInAvoidance
<1>2. TypeOK'
  BY <1>1, WindowTypes DEF TypeOK, Next, Timeout, NewAck, DupAck, congestion_window
<1>3. CASE Timeout
  <2>1. cc' = [cwnd |-> Scale, thread |-> Half(cc.cwnd), dupAckCount |-> 0, cw_state |-> "SLOW_START"]
    BY <1>1, <1>3 DEF Timeout, congestion_window, OnTimeout, CongestionState
  <2> QED
    BY <1>1, <1>2, <2>1
    DEF StatesInv, SlowStartBelowThreshold, SubPacketWindowOnlyInAvoidance, DupAcksConsumed
<1>4. CASE NewAck
  <2>1. CASE cc.cw_state = "SLOW_START"
    <3> DEFINE d == [cc EXCEPT !.cwnd = Capped(@ + Scale), !.dupAckCount = 0]
    <3>1. Capped(cc.cwnd + Scale) \in Nat \ {0} /\ Capped(cc.cwnd + Scale) >= Scale
      BY <1>1, <2>1, CappedAtLeast
    <3>2. cc' = LeaveSlowStart(d)
      BY <1>4, <2>1 DEF NewAck, congestion_window, OnNewAck
    <3>3. /\ d.cwnd = Capped(cc.cwnd + Scale) /\ d.thread = cc.thread
          /\ d.dupAckCount = 0 /\ d.cw_state = "SLOW_START"
      BY <1>1, <2>1 DEF CongestionState
    <3>4. /\ cc'.cwnd = d.cwnd /\ cc'.thread = cc.thread /\ cc'.dupAckCount = 0
          /\ cc'.cw_state = IF d.cwnd >= d.thread THEN "CONGESTION_AVOIDANCE" ELSE "SLOW_START"
      BY <1>1, <3>2, <3>3 DEF LeaveSlowStart, CongestionState
    <3> HIDE DEF d
    <3> QED
      BY <1>1, <1>2, <3>1, <3>3, <3>4
      DEF StatesInv, SlowStartBelowThreshold, SubPacketWindowOnlyInAvoidance, DupAcksConsumed
  <2>2. CASE cc.cw_state # "SLOW_START"
    <3>1. cc'.dupAckCount = 0 /\ cc'.cw_state = "CONGESTION_AVOIDANCE"
      BY <1>1, <1>4, <2>2 DEF NewAck, congestion_window, OnNewAck, CongestionState, CwStates
    <3> QED
      BY <1>2, <3>1
      DEF StatesInv, SlowStartBelowThreshold, SubPacketWindowOnlyInAvoidance, DupAcksConsumed
  <2> QED
    BY <2>1, <2>2
<1>5. CASE DupAck
  <2> DEFINE c == congestion_window(cc, FALSE, FALSE)
  <2>1. /\ c.dupAckCount \in 0 .. 3 /\ c.cwnd \in Nat \ {0}
        /\ c.cw_state # "CONGESTION_AVOIDANCE" => c.cwnd >= Scale
        /\ c.cw_state = "SLOW_START" => c.cwnd < c.thread
        /\ c.cw_state = "FAST_RECOVERY" => c.dupAckCount = 0
    BY AfterDuplicate
  <2>2. cc' = IF c.dupAckCount = 3 THEN EnterFastRecovery(c) ELSE c
    BY <1>5 DEF DupAck
  <2> HIDE DEF c
  <2>3. CASE c.dupAckCount = 3
    <3>1. Half(c.cwnd) \in Nat \ {0}
      BY <2>1, HalfType
    <3>2. /\ cc'.cwnd = Half(c.cwnd) + 3 * Scale
          /\ cc'.dupAckCount = 0 /\ cc'.cw_state = "FAST_RECOVERY"
      BY <2>2, <2>3 DEF EnterFastRecovery
    <3> QED
      BY <1>1, <1>2, <3>1, <3>2
      DEF StatesInv, SlowStartBelowThreshold, SubPacketWindowOnlyInAvoidance, DupAcksConsumed
  <2>4. CASE c.dupAckCount # 3
    BY <1>1, <1>2, <2>1, <2>2, <2>4
    DEF StatesInv, SlowStartBelowThreshold, SubPacketWindowOnlyInAvoidance, DupAcksConsumed
  <2> QED
    BY <2>3, <2>4
<1>6. CASE UNCHANGED cc
  BY <1>6 DEF StatesInv, TypeOK, SlowStartBelowThreshold, SubPacketWindowOnlyInAvoidance,
     DupAcksConsumed
<1> QED
  BY <1>3, <1>4, <1>5, <1>6 DEF Next

\* Whatever the slide window: slow start stays below its threshold, a window of
\* less than a packet is left to congestion avoidance, and three duplicates
\* never go unanswered.
THEOREM CongestionStates ==
    Spec => [](SlowStartBelowThreshold /\ SubPacketWindowOnlyInAvoidance /\ DupAcksConsumed)
<1>1. StatesInv => SlowStartBelowThreshold /\ SubPacketWindowOnlyInAvoidance /\ DupAcksConsumed
  BY DEF StatesInv
<1> QED
  BY <1>1, StatesInit, StatesStep, PTL DEF Spec

-----------------------------------------------------------------------------
\* Fast recovery leaves with cwnd = thread, which is below the slide window
\* only if thread is: the conjunct that WindowCapped lacks to be inductive.
WindowInv == /\ StatesInv
             /\ WindowCapped
             /\ cc.cw_state = "FAST_RECOVERY" => cc.thread < BUFFER_SIZE * Scale

\* For a slide window of six packets or more (half of it and the three packets
\* of fast recovery must fit), the window stays below the slide window.
THEOREM CongestionControlSafety ==
    ASSUME BUFFER_SIZE >= 6
    PROVE  Spec => []WindowCapped
<1> DEFINE P == BUFFER_SIZE * Scale
<1>1. /\ P \in Nat /\ P >= 6 * Scale
      /\ Scale \in Nat /\ Scale >= 1
  BY WindowAssumption
<1>2. Init => WindowInv
  <2>1. Init => cc.cwnd = Scale /\ cc.cw_state = "SLOW_START"
    BY DEF Init, InitCongestion
  <2>2. Scale < P
    BY <1>1
  <2> QED
    BY <2>1, <2>2, StatesInit DEF WindowInv, WindowCapped
<1>3. ASSUME WindowInv, [Next]_cc PROVE WindowInv'
  <2>1. /\ cc \in CongestionState /\ cc.cwnd \in Nat \ {0} /\ cc.thread \in Nat \ {0}
        /\ cc.cw_state \in CwStates /\ cc.cwnd < P
        /\ cc.cw_state = "FAST_RECOVERY" => cc.thread < P
    BY <1>3 DEF WindowInv, StatesInv, TypeOK, WindowCapped, CongestionState
  <2>2. \A x \in Nat \ {0} : Capped(x) \in Nat \ {0} /\ Capped(x) < P
    BY CappedBound
  <2> HIDE DEF P
  <2>3. StatesInv'
    BY <1>3, StatesStep DEF WindowInv
  <2>4. cc'.cwnd < P /\ (cc'.cw_state = "FAST_RECOVERY" => cc'.thread < P)
    <3>1. CASE Timeout
      <4>1. cc'.cwnd = Scale /\ cc'.cw_state = "SLOW_START"
        BY <2>1, <3>1 DEF Timeout, congestion_window, OnTimeout, CongestionState
      <4> QED
        BY <1>1, <4>1
    <3>2. CASE NewAck
      <4>1. CASE cc.cw_state = "SLOW_START"
        <5> DEFINE d == [cc EXCEPT !.cwnd = Capped(@ + Scale), !.dupAckCount = 0]
        <5>1. cc' = LeaveSlowStart(d)
          BY <3>2, <4>1 DEF NewAck, congestion_window, OnNewAck
        <5>2. /\ d.cwnd = Capped(cc.cwnd + Scale) /\ d.cw_state = "SLOW_START"
              /\ d \in [cwnd : {d.cwnd}, thread : Nat, dupAckCount : Nat, cw_state : CwStates]
          BY <2>1, <4>1 DEF CongestionState
        <5>3. cc'.cwnd = d.cwnd /\ cc'.cw_state # "FAST_RECOVERY"
          BY <5>1, <5>2 DEF LeaveSlowStart
        <5> HIDE DEF d
        <5> QED
          BY <1>1, <2>1, <2>2, <5>2, <5>3
      <4>2. CASE cc.cw_state = "CONGESTION_AVOIDANCE"
        <5>1. cc'.cwnd = Capped(cc.cwnd + Reciprocal(cc.cwnd)) /\ cc'.cw_state = "CONGESTION_AVOIDANCE"
          BY <2>1, <3>2, <4>2 DEF NewAck, congestion_window, OnNewAck, CongestionState
        <5> QED
          BY <2>1, <2>2, <5>1, ReciprocalType
      <4>3. CASE cc.cw_state = "FAST_RECOVERY"
        <5>1. cc'.cwnd = cc.thread /\ cc'.cw_state = "CONGESTION_AVOIDANCE"
          BY <2>1, <3>2, <4>3 DEF NewAck, congestion_window, OnNewAck, CongestionState
        <5> QED
          BY <2>1, <4>3, <5>1
      <4> QED
        BY <2>1, <4>1, <4>2, <4>3 DEF CwStates
    <3>3. CASE DupAck
      <4> DEFINE c == congestion_window(cc, FALSE, FALSE)
      <4>1. /\ c.thread = cc.thread /\ c.cwnd \in Nat \ {0}
            /\ c.cwnd = cc.cwnd \/ c.cwnd = Capped(cc.cwnd + Scale)
            /\ c.cw_state = "FAST_RECOVERY" => cc.cw_state = "FAST_RECOVERY"
        BY <1>3, AfterDuplicate DEF WindowInv
      <4>2. cc' = IF c.dupAckCount = 3 THEN EnterFastRecovery(c) ELSE c
        BY <3>3 DEF DupAck
      <4> HIDE DEF c
      <4>3. c.cwnd < P
        BY <1>1, <2>1, <2>2, <4>1
      <4>4. CASE c.dupAckCount = 3
        <5>1. /\ Half(c.cwnd) \in Nat \ {0}
              /\ 2 * Half(c.cwnd) <= c.cwnd \/ Half(c.cwnd) = 1
          BY <4>1, HalfType
        <5>2. cc'.cwnd = Half(c.cwnd) + 3 * Scale /\ cc'.thread = Half(c.cwnd)
          BY <4>2, <4>4 DEF EnterFastRecovery
        <5>3. Half(c.cwnd) + 3 * Scale < P /\ Half(c.cwnd) < P
          BY <1>1, <4>1, <4>3, <5>1
        <5> QED
          BY <5>2, <5>3
      <4>5. CASE c.dupAckCount # 3
        BY <2>1, <4>1, <4>2, <4>3, <4>5
      <4> QED
        BY <4>4, <4>5
    <3>4. CASE UNCHANGED cc
      BY <2>1, <3>4
    <3> QED
      BY <1>3, <3>1, <3>2, <3>3, <3>4 DEF Next
  <2> QED
    BY <2>3, <2>4 DEF WindowInv, WindowCapped, P
<1> QED
  BY <1>2, <1>3, PTL DEF Spec, WindowInv
=============================================================================
