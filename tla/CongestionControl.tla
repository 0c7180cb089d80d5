-------------------------- MODULE CongestionControl -------------------------
(***************************************************************************)
(* The life of the congestion window under every sequence of timeouts, new *)
(* acknowledgements and duplicate acknowledgements that cw_status can hand *)
(* to it.  ReliableSender puts the same operators under the real sequence. *)
(***************************************************************************)
EXTENDS CongestionWindow

VARIABLE cc

Init == cc = InitCongestion

Timeout == cc' = congestion_window(cc, FALSE, TRUE)

NewAck == cc' = congestion_window(cc, TRUE, FALSE)

\* The duplicate-acknowledgement branch without the reset of the counter.
DupAck_NoReset ==
    LET c == congestion_window(cc, FALSE, FALSE)
    IN  cc' = IF c.dupAckCount = 3
              THEN [EnterFastRecovery(c) EXCEPT !.dupAckCount = 3] ELSE c

\* The duplicate-acknowledgement branch of cw_status: the call and the test
\* for the third duplicate.
DupAck ==
    LET c == congestion_window(cc, FALSE, FALSE)
    IN  cc' = IF c.dupAckCount = 3 THEN EnterFastRecovery(c) ELSE c

Next == Timeout \/ NewAck \/ DupAck

Spec == Init /\ [][Next]_cc

-----------------------------------------------------------------------------
TypeOK == cc \in CongestionState

\* The window never reaches the slide window's BUFFER_SIZE packets, although
\* cw_status sets it to thread + 3 and leaving fast recovery to thread, both
\* without the cap that the growing branches of congestion_window apply.  (It
\* may pass BUFFER_SIZE - 1, the value of the cap, by a fraction of a packet.)
WindowCapped == cc.cwnd < BUFFER_SIZE * Scale

\* Slow start never runs at or above the threshold, except for the one-packet
\* window a timeout leaves behind (whose threshold may be half a packet).
SlowStartBelowThreshold ==
    cc.cw_state = "SLOW_START" => cc.cwnd < cc.thread \/ cc.cwnd = Scale

\* A window smaller than one packet exists only in congestion avoidance, where
\* leaving fast recovery with cwnd = thread is its only source.
SubPacketWindowOnlyInAvoidance ==
    cc.cwnd < Scale => cc.cw_state = "CONGESTION_AVOIDANCE"

\* Three duplicates are acted on at once: none is pending between two packets,
\* and fast recovery starts its own count from zero.
DupAcksConsumed ==
    cc.dupAckCount < 3 /\ (cc.cw_state = "FAST_RECOVERY" => cc.dupAckCount = 0)
=============================================================================
