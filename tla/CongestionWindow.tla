-------------------------- MODULE CongestionWindow --------------------------
(***************************************************************************)
(* The congestion window of the sender of mp2: the globals cwnd, thread    *)
(* (the slow-start threshold), dupAckCount and cw_state, and the function  *)
(* congestion_window that updates them.  The four globals are the fields   *)
(* of one record, so that a handler can apply the function several times   *)
(* in one step.                                                            *)
(*                                                                         *)
(* cwnd and thread are C doubles.  Here they count units of 1/Scale of a   *)
(* packet, and a quotient is rounded down to a unit, to one unit at least: *)
(* a double halved a few times is still positive.                          *)
(***************************************************************************)
EXTENDS Integers

CONSTANTS Scale,        \* units in one packet: the precision of a double
          BUFFER_SIZE,  \* 300 in the code
          INIT_THREAD   \* the first value of thread, in packets: 64 in the code

ASSUME WindowAssumption == /\ Scale \in Nat \ {0}
                           /\ BUFFER_SIZE \in Nat \ {0, 1}
                           /\ INIT_THREAD \in Nat \ {0}

CwStates == {"SLOW_START", "CONGESTION_AVOIDANCE", "FAST_RECOVERY"}

CongestionState == [cwnd : Nat \ {0}, thread : Nat \ {0},
                    dupAckCount : Nat, cw_state : CwStates]

InitCongestion == [cwnd |-> Scale, thread |-> INIT_THREAD * Scale,
                   dupAckCount |-> 0, cw_state |-> "SLOW_START"]

AtLeastOneUnit(x) == IF x = 0 THEN 1 ELSE x

\* A threshold that counts whole packets: a one-packet window halves to nothing.
Half_WholePackets(x) == (x \div (2 * Scale)) * Scale

Half(x) == AtLeastOneUnit(x \div 2)

\* 1.0/cwnd.
Reciprocal(x) == AtLeastOneUnit((Scale * Scale) \div x)

\* A slip of the hand: the cap that lets a whole BUFFER_SIZE pass.
Capped_OffByOne(x) == IF x > BUFFER_SIZE * Scale THEN (BUFFER_SIZE - 1) * Scale ELSE x

\* (x >= BUFFER_SIZE) ? BUFFER_SIZE-1 : x
Capped(x) == IF x >= BUFFER_SIZE * Scale THEN (BUFFER_SIZE - 1) * Scale ELSE x

-----------------------------------------------------------------------------
\* congestion_window(false, true).  Every state leaves the same values behind;
\* SLOW_START keeps its cw_state, the others return to it.
OnTimeout(c) == [c EXCEPT !.thread = Half(c.cwnd), !.cwnd = Scale,
                          !.dupAckCount = 0, !.cw_state = "SLOW_START"]

\* A slip of the hand: slow start left only by an acknowledgement that jumps
\* over the threshold.
LeaveSlowStart_Strict(c) ==
    IF c.cwnd > c.thread THEN [c EXCEPT !.cw_state = "CONGESTION_AVOIDANCE"] ELSE c

\* Slow start ends in the call that lifts the window to the threshold.
LeaveSlowStart(c) ==
    IF c.cwnd >= c.thread THEN [c EXCEPT !.cw_state = "CONGESTION_AVOIDANCE"] ELSE c

\* congestion_window(true, false): one newly acknowledged packet.
OnNewAck(c) ==
    CASE c.cw_state = "SLOW_START" ->
             LeaveSlowStart([c EXCEPT !.cwnd = Capped(@ + Scale), !.dupAckCount = 0])
      [] c.cw_state = "CONGESTION_AVOIDANCE" ->
             [c EXCEPT !.cwnd = Capped(@ + Reciprocal(@)), !.dupAckCount = 0]
      [] c.cw_state = "FAST_RECOVERY" ->
             [c EXCEPT !.cwnd = c.thread, !.dupAckCount = 0,
                       !.cw_state = "CONGESTION_AVOIDANCE"]

\* congestion_window(false, false): a duplicate acknowledgement.
OnDupAck(c) ==
    CASE c.cw_state = "SLOW_START" ->
             LeaveSlowStart([c EXCEPT !.dupAckCount = @ + 1])
      [] c.cw_state = "CONGESTION_AVOIDANCE" -> [c EXCEPT !.dupAckCount = @ + 1]
      [] c.cw_state = "FAST_RECOVERY" -> [c EXCEPT !.cwnd = Capped(@ + Scale)]

congestion_window(c, newACK, timeout) ==
    IF timeout THEN OnTimeout(c) ELSE IF newACK THEN OnNewAck(c) ELSE OnDupAck(c)

\* Fast recovery entered without the three packets that the duplicates prove
\* have left the network.
EnterFastRecovery_NotInflated(c) ==
    [cwnd |-> Half(c.cwnd), thread |-> Half(c.cwnd),
     dupAckCount |-> 0, cw_state |-> "FAST_RECOVERY"]

\* What cw_status does itself when dupAckCount reaches 3.
EnterFastRecovery(c) == [cwnd |-> Half(c.cwnd) + 3 * Scale, thread |-> Half(c.cwnd),
                         dupAckCount |-> 0, cw_state |-> "FAST_RECOVERY"]

\* The loop of cw_status that calls congestion_window(true, false) once for
\* each of the n packets an acknowledgement covers.
AfterNewAcks(c, n) ==
    LET after[i \in 0..n] ==
            IF i = 0 THEN c ELSE congestion_window(after[i - 1], TRUE, FALSE)
    IN  after[n]
=============================================================================
