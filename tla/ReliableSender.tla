--------------------------- MODULE ReliableSender ---------------------------
(***************************************************************************)
(* sender_main: reliablyTransfer with packetToBuffer, send, cw_status and  *)
(* fin_ack.  One action is one iteration of the loop of cw_status or of    *)
(* fin_ack: a return of recvfrom and all that is done before the next.     *)
(*                                                                         *)
(* The file is the sequence of chunks 0 .. Total-1 of up to MAXDATASIZE    *)
(* bytes each; read_bytes is the number of chunks not yet read.  A failing *)
(* sendto, fopen or socket call, which ends the program, is left out.      *)
(***************************************************************************)
EXTENDS UdpNetwork, CongestionWindow, Sequences, FiniteSets

CONSTANTS Total,            \* chunks of the file: ceil(bytesToTransfer / MAXDATASIZE)
          MAX_SEQUENCE_NUM  \* 100000 in the code

ASSUME SenderAssumption == Total \in Nat /\ MAX_SEQUENCE_NUM \in Nat \ {0}

VARIABLES sphase,      \* "start", "cw_status", "fin_ack", or how the program ended
          nextChunk,   \* the chunk that the next fread returns
          buffer,      \* packets ready to be sent
          waitforack,  \* packets sent and not yet acknowledged
          cc           \* cwnd, thread, dupAckCount, cw_state

senderVars == <<sphase, nextChunk, buffer, waitforack, cc>>

\* seq_number is taken modulo MAX_SEQUENCE_NUM after every packet.
ChunkPkt(i) == DataPkt(i % MAX_SEQUENCE_NUM, i)

\* packetToBuffer that does not look at how much of the file is left.
ReadCount_Unbounded(pkt_num, read) == pkt_num

\* packetToBuffer that advances before it uses what it read.
packetToBuffer_SkipsOne(pkt_num, read) ==
    [i \in 1 .. IF Total - read < pkt_num THEN Total - read ELSE pkt_num |->
        ChunkPkt(read + i)]

\* What packetToBuffer(pkt_num) pushes when read chunks have been read before;
\* read_bytes is Total - read.
ReadCount(pkt_num, read) == IF Total - read < pkt_num THEN Total - read ELSE pkt_num
packetToBuffer(pkt_num, read) ==
    [i \in 1 .. ReadCount(pkt_num, read) |-> ChunkPkt(read + i - 1)]

\* &queue.front() of an empty queue is not defined.  The build finds there the
\* memory of a packet popped earlier, or bytes that make no packet at all.
FrontPkts(queue) ==
    IF queue # << >> THEN {Head(queue)}
    ELSE {JunkPkt} \cup {ChunkPkt(i) : i \in 0 .. nextChunk - Len(buffer) - 1}

\* queue.front().seqNum, where any int may be read from released memory: one
\* of a popped packet, or one below or above every number in use.
FrontSeqNums(queue) ==
    IF queue # << >> THEN {Head(queue).seqNum} ELSE -1 .. MAX_SEQUENCE_NUM

SenderInit == /\ sphase = "start"
              /\ nextChunk = 0 /\ buffer = << >> /\ waitforack = << >>
              /\ cc = InitCongestion

-----------------------------------------------------------------------------
\* One packet more than the window has room for.
SendCount_OneMore(cwnd, waiting, ready) ==
    Cardinality({i \in 1 .. Len(ready) : (Len(waiting) + i - 1) * Scale <= cwnd})

\* The packets at the head of ready that the window takes while waiting ones
\* are unacknowledged: the lesser of (int)(cwnd - waiting) and Len(ready).
SendCount(cwnd, waiting, ready) ==
    Cardinality({i \in 1 .. Len(ready) : (Len(waiting) + i) * Scale <= cwnd})

WindowFull(cwnd, waiting) == cwnd < (Len(waiting) + 1) * Scale

Resend(queue) == \E m \in FrontPkts(queue) : toReceiver' = With(toReceiver, {m})

\* send: with a full window the oldest waiting packet again; otherwise as many
\* ready packets as fit (none when there is none), after which packetToBuffer
\* reads as many chunks as were sent.
send(c, waiting, ready, read) ==
    LET n == SendCount(c.cwnd, waiting, ready)
    IN  IF WindowFull(c.cwnd, waiting)
        THEN /\ Resend(waiting)
             /\ waitforack' = waiting /\ buffer' = ready /\ nextChunk' = read
        ELSE /\ toReceiver' = With(toReceiver, {ready[i] : i \in 1 .. n})
             /\ waitforack' = waiting \o SubSeq(ready, 1, n)
             /\ buffer' = SubSeq(ready, n + 1, Len(ready)) \o packetToBuffer(n, read)
             /\ nextChunk' = read + ReadCount(n, read)

\* reliablyTransfer up to cw_status: fill the buffer, send the first window.
Start ==
    /\ sphase = "start"
    /\ sphase' = "cw_status"
    /\ send(cc, << >>, packetToBuffer(BUFFER_SIZE, 0), ReadCount(BUFFER_SIZE, 0))
    /\ UNCHANGED <<toSender, faults, cc>>

-----------------------------------------------------------------------------
InLoop == sphase = "cw_status" /\ (buffer # << >> \/ waitforack # << >>)

SenderGets(m) == /\ m \in InFlight(toSender)
                 /\ toSender' = Without(toSender, m)
                 /\ UNCHANGED faults

\* An acknowledgement of the oldest packet itself taken for one that covers it.
Covered_Inclusive(ackNum) ==
    Cardinality({i \in DOMAIN waitforack :
                    \A j \in 1 .. i : waitforack[j].seqNum <= ackNum})

\* The leading packets of waitforack that ackNum covers.
Covered(ackNum) ==
    Cardinality({i \in DOMAIN waitforack :
                    \A j \in 1 .. i : waitforack[j].seqNum < ackNum})

\* An acknowledgement above the oldest waiting packet pops the covered packets,
\* each growing the window, and then sends.
NewAck(m) ==
    LET k == Covered(m.ackNum)
    IN  /\ InLoop /\ m.type = "ACK" /\ SenderGets(m)
        /\ \E front \in FrontSeqNums(waitforack) : m.ackNum > front
        /\ cc' = AfterNewAcks(cc, k)
        /\ send(cc', SubSeq(waitforack, k + 1, Len(waitforack)), buffer, nextChunk)
        /\ UNCHANGED sphase

\* An acknowledgement of exactly the oldest waiting packet is a duplicate; the
\* third in a row resends that packet and enters fast recovery.
DupAck(m) ==
    LET c == congestion_window(cc, FALSE, FALSE)
    IN  /\ InLoop /\ m.type = "ACK" /\ SenderGets(m)
        /\ \E front \in FrontSeqNums(waitforack) : m.ackNum = front
        /\ IF c.dupAckCount = 3
           THEN cc' = EnterFastRecovery(c) /\ Resend(waitforack)
           ELSE cc' = c /\ UNCHANGED toReceiver
        /\ UNCHANGED <<sphase, nextChunk, buffer, waitforack>>

\* An acknowledgement below the oldest waiting packet is ignored.
OldAck(m) ==
    /\ InLoop /\ m.type = "ACK" /\ SenderGets(m)
    /\ \E front \in FrontSeqNums(waitforack) : m.ackNum < front
    /\ UNCHANGED <<senderVars, toReceiver>>

\* SO_RCVTIMEO.  With a datagram in flight in either direction the timer is
\* early, which is one of the counted misfortunes.
TimerExpires == IF InFlight(toReceiver) \cup InFlight(toSender) = {}
                THEN UNCHANGED faults ELSE Misfortune

\* A timeout that shrinks the window and sends nothing.
Timeout_NoResend ==
    /\ InLoop /\ TimerExpires
    /\ cc' = congestion_window(cc, FALSE, TRUE)
    /\ UNCHANGED <<sphase, nextChunk, buffer, waitforack, toReceiver, toSender>>

\* recvfrom returns EAGAIN in cw_status: resend the oldest packet.
Timeout ==
    /\ InLoop /\ TimerExpires
    /\ Resend(waitforack)
    /\ cc' = congestion_window(cc, FALSE, TRUE)
    /\ UNCHANGED <<sphase, nextChunk, buffer, waitforack, toSender>>

-----------------------------------------------------------------------------
\* fin_ack begins one acknowledgement too early.
StartFin_BufferOnly ==
    /\ sphase = "cw_status" /\ buffer = << >>
    /\ sphase' = "fin_ack"
    /\ toReceiver' = With(toReceiver, {FinPkt})
    /\ UNCHANGED <<toSender, faults, nextChunk, buffer, waitforack, cc>>

\* The loop of cw_status ends, and fin_ack sends the first FIN.
StartFin ==
    /\ sphase = "cw_status" /\ buffer = << >> /\ waitforack = << >>
    /\ sphase' = "fin_ack"
    /\ toReceiver' = With(toReceiver, {FinPkt})
    /\ UNCHANGED <<toSender, faults, nextChunk, buffer, waitforack, cc>>

\* A late acknowledgement read in fin_ack only makes it send another FIN.
FinRetry(m) ==
    /\ sphase = "fin_ack" /\ m.type # "FINACK" /\ SenderGets(m)
    /\ toReceiver' = With(toReceiver, {FinPkt})
    /\ UNCHANGED senderVars

\* Any reply ends the exchange.
FinDone_AnyReply(m) ==
    /\ sphase = "fin_ack" /\ SenderGets(m)
    /\ sphase' = "done"
    /\ UNCHANGED <<toReceiver, nextChunk, buffer, waitforack, cc>>

FinDone(m) ==
    /\ sphase = "fin_ack" /\ m.type = "FINACK" /\ SenderGets(m)
    /\ sphase' = "done"
    /\ UNCHANGED <<toReceiver, nextChunk, buffer, waitforack, cc>>

\* A timeout that goes back to waiting for the answer.
FinTimeout_WaitsOn ==
    /\ sphase = "fin_ack" /\ TimerExpires
    /\ UNCHANGED <<senderVars, toReceiver, toSender>>

\* The receive timeout is still set: in fin_ack it is exit(2).
FinTimeout ==
    /\ sphase = "fin_ack" /\ TimerExpires
    /\ sphase' = "failed"
    /\ UNCHANGED <<toReceiver, toSender, nextChunk, buffer, waitforack, cc>>

SenderStep ==
    \/ Start \/ Timeout \/ StartFin \/ FinTimeout
    \/ \E m \in InFlight(toSender) :
          NewAck(m) \/ DupAck(m) \/ OldAck(m) \/ FinRetry(m) \/ FinDone(m)
=============================================================================
