-------------------------- MODULE ReliableTransfer --------------------------
(***************************************************************************)
(* One file transfer of mp2: sender_main and receiver_main over UDP.       *)
(***************************************************************************)
EXTENDS ReliableSender, ReliableReceiver

vars == <<netVars, senderVars, receiverVars>>

Init == NetInit /\ SenderInit /\ ReceiverInit

\* The sender's process has ended: nothing need happen any more.
Terminated == sphase \in {"done", "failed"} /\ UNCHANGED vars

Next == \/ SenderStep /\ UNCHANGED receiverVars
        \/ ReceiverStep /\ UNCHANGED senderVars
        \/ (Lose \/ Duplicate) /\ UNCHANGED <<senderVars, receiverVars>>
        \/ Terminated

Spec == Init /\ [][Next]_vars

\* Both programs are single loops around recvfrom: a datagram that has arrived
\* is received, and a receive timeout that stays due fires.
Fairness == /\ WF_vars(SenderStep /\ UNCHANGED receiverVars)
            /\ WF_vars(ReceiverStep /\ UNCHANGED senderVars)

FairSpec == Spec /\ Fairness

-----------------------------------------------------------------------------
File == [i \in 1 .. Total |-> i - 1]

\* The largest number of packets ever sent; all after it are in buffer or unread.
Sent == nextChunk - Len(buffer)

\* Chunks whose packets have left both queues.
Popped == nextChunk - Len(buffer) - Len(waitforack)

TypeOK ==
    /\ sphase \in {"start", "cw_status", "fin_ack", "done", "failed"}
    /\ rphase \in {"receiving", "closed"}
    /\ faults \in 0 .. MaxFaults
    /\ nextChunk \in 0 .. Total
    /\ cc \in CongestionState
    /\ currSeq \in Nat /\ expectSeq \in Nat
    /\ acked \subseteq Nat /\ DOMAIN rbuffer \subseteq Nat

ChunkPkts == {ChunkPkt(i) : i \in 0 .. Total - 1}

\* Two queues that are a window on the file: the packets up to next-1 in order,
\* and ready full until the file is read up.
IsWindow(waiting, ready, next) ==
    /\ waiting \in Seq(ChunkPkts) /\ ready \in Seq(ChunkPkts) /\ next \in 0 .. Total
    /\ Len(waiting) + Len(ready) <= next
    /\ \A i \in 1 .. Len(waiting) :
          waiting[i] = ChunkPkt(next - Len(ready) - Len(waiting) + i - 1)
    /\ \A i \in 1 .. Len(ready) : ready[i] = ChunkPkt(next - Len(ready) + i - 1)
    /\ next < Total => Len(ready) = BUFFER_SIZE

\* No packet is skipped, repeated or put out of order on its way through the
\* two queues, and no call of send leaves the buffer short while there is file
\* to read (cw_status would take an empty buffer for the end of the file).
QueuesAreWindow ==
    IF sphase = "start" THEN nextChunk = 0 /\ buffer = << >> /\ waitforack = << >>
    ELSE IsWindow(waitforack, buffer, nextChunk)

\* The sender forgets a packet only when it is in the file: what is popped from
\* waitforack has been written, whichever acknowledgements were lost, repeated
\* or overtaken.
ForgottenIsWritten == Popped <= Len(written)

\* The copy is a prefix of the file that runs no further than what was sent.
WrittenIsPrefix ==
    /\ Len(written) <= Sent
    /\ written = SubSeq(File, 1, Len(written))

\* Every early packet is filed under its own number, lies ahead of the first
\* gap, and is still waiting to be written.
EarlyPacketsInPlace ==
    /\ \A e \in DOMAIN rbuffer : rbuffer[e] = e
    /\ acked \subseteq DOMAIN rbuffer \cap (currSeq + 1 .. Sent - 1)

Draining == {"fin_ack", "done", "failed"}

\* What may be in flight from a sender that has sent the chunks below sent, and
\* from a receiver that expects chunk expected.
HonestToReceiver(m, sent, phase) ==
    \/ \E i \in 0 .. sent - 1 : m = ChunkPkt(i)
    \/ m = JunkPkt
    \/ m = FinPkt /\ phase \in Draining
HonestToSender(m, expected, phase) ==
    \/ \E n \in 0 .. expected : m = AckPkt(n)
    \/ m = FinAckPkt /\ phase = "closed"

\* A FIN is in flight only from a sender that has been through cw_status, and
\* no acknowledgement covers a chunk that is still expected.
DatagramsHonest ==
    /\ \A m \in InFlight(toReceiver) : HonestToReceiver(m, Sent, sphase)
    /\ \A m \in InFlight(toSender) : HonestToSender(m, expectSeq, rphase)

\* The programs leave in order: the sender's queues are drained first, then the
\* receiver closes, and only then is the sender done.
PhasesInOrder ==
    /\ sphase \in Draining => buffer = << >> /\ waitforack = << >>
    /\ rphase = "closed" => sphase \in Draining
    /\ sphase = "done" => rphase = "closed"

\* A sender that is done left the receiver with the whole file.
CopiedWhole == sphase = "done" => written = File

Outcome == IF sphase \in {"done", "failed"} THEN sphase ELSE "running"

FT == INSTANCE FileTransfer WITH
          copy    <- written,
          stopped <- rphase = "closed",
          outcome <- Outcome

\* The two programs over UDP implement the abstract transfer.
ImplementsFileTransfer == FT!Spec

\* A packet that was not sent before leaves only into a window with room for
\* every packet outstanding, the window of after the acknowledgement.
SendsWithinWindow ==
    [][Sent' > Sent => Len(waitforack') * Scale <= cc'.cwnd]_vars

\* The sender comes to an end.
SenderEnds == <>(sphase \in {"done", "failed"})

\* So does the receiver, unless a misfortune made the sender give up on the last
\* exchange: over a network that only reorders both end.
ReceiverEndsUnlessFailed == <>(rphase = "closed" \/ (sphase = "failed" /\ faults > 0))

\* compare.sh waits for both programs.
BothEnd == <>(sphase \in {"done", "failed"} /\ rphase = "closed")
=============================================================================
