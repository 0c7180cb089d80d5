-------------------------- MODULE ReliableReceiver --------------------------
(***************************************************************************)
(* receiver_main: the loop of reliablyReceive.  Each iteration takes one   *)
(* datagram and is one action here; which one depends on the datagram's    *)
(* type and on how its sequence number compares with expectSeq.            *)
(*                                                                         *)
(* A packet's bytes are one value, the chunk it carries.  So buffer, keyed *)
(* by byte offset in the code, is keyed by packet number, and dataSize,    *)
(* which gives the length of each buffered packet, is part of it.          *)
(***************************************************************************)
EXTENDS UdpNetwork, Integers, Sequences

VARIABLES rphase,      \* "receiving", or "closed" after reliablyReceive returned
          expectSeq,   \* the next sequence number, as the peer writes it
          currSeq,     \* the packets written to the file
          acked,       \* numbers of the packets received early
          rbuffer,     \* the map buffer: packet number -> chunk
          written      \* the chunks written to destinationFile

receiverVars == <<rphase, expectSeq, currSeq, acked, rbuffer, written>>

ReceiverInit == /\ rphase = "receiving"
                /\ expectSeq = 0 /\ currSeq = 0
                /\ acked = {} /\ rbuffer = << >> /\ written = << >>

\* map::insert keeps an entry that is there already; map::operator[] with an
\* assignment replaces it.
insert(map, key, value) ==
    [k \in DOMAIN map \cup {key} |-> IF k \in DOMAIN map THEN map[k] ELSE value]
assign(map, key, value) ==
    [k \in DOMAIN map \cup {key} |-> IF k = key THEN value ELSE map[k]]

\* recvfrom with what follows it on the wire: m leaves, the replies enter.
ReceiverGets(m, replies) ==
    /\ rphase = "receiving"
    /\ m \in InFlight(toReceiver)
    /\ toReceiver' = Without(toReceiver, m)
    /\ toSender' = With(toSender, replies)
    /\ UNCHANGED faults

-----------------------------------------------------------------------------
\* A slip of the hand: an early packet is filed one place too high.
ReceiveEarly_OffByOne(m) ==
    LET earlySeq == currSeq + m.seqNum - expectSeq + 1
    IN  /\ m.type = "DATA" /\ m.seqNum > expectSeq
        /\ ReceiverGets(m, {AckPkt(expectSeq)})
        /\ acked' = acked \cup {earlySeq}
        /\ rbuffer' = insert(rbuffer, earlySeq, m.content)
        /\ UNCHANGED <<rphase, expectSeq, currSeq, written>>

\* An early packet acknowledged as if nothing were missing before it.
ReceiveEarly_AcksItself(m) ==
    LET earlySeq == currSeq + m.seqNum - expectSeq
    IN  /\ m.type = "DATA" /\ m.seqNum > expectSeq
        /\ ReceiverGets(m, {AckPkt(m.seqNum + 1)})
        /\ acked' = acked \cup {earlySeq}
        /\ rbuffer' = insert(rbuffer, earlySeq, m.content)
        /\ UNCHANGED <<rphase, expectSeq, currSeq, written>>

\* A packet ahead of the expected one is kept under its place in the file.
ReceiveEarly(m) ==
    LET earlySeq == currSeq + m.seqNum - expectSeq
    IN  /\ m.type = "DATA" /\ m.seqNum > expectSeq
        /\ ReceiverGets(m, {AckPkt(expectSeq)})
        /\ acked' = acked \cup {earlySeq}
        /\ rbuffer' = insert(rbuffer, earlySeq, m.content)
        /\ UNCHANGED <<rphase, expectSeq, currSeq, written>>

\* Nothing but the expected packet itself is written.
AfterRun_NoDrain(seq) == seq

\* The inner loop drains the early packets that follow seq without a gap, and
\* stops at the first number from seq on that is not in acked.
AfterRun(seq) == CHOOSE k \in {seq} \cup {a + 1 : a \in acked} :
                    /\ k >= seq /\ k \notin acked
                    /\ \A i \in seq .. k - 1 : i \in acked

\* The expected packet is stored over whatever the buffer holds, and written
\* with every early packet that follows it.
ReceiveInOrder(m) ==
    LET next   == AfterRun(currSeq + 1)
        stored == assign(rbuffer, currSeq, m.content)
    IN  /\ m.type = "DATA" /\ m.seqNum = expectSeq
        /\ ReceiverGets(m, {AckPkt(expectSeq + (next - currSeq))})
        /\ rbuffer' = stored
        /\ written' = written \o [i \in 1 .. next - currSeq |-> stored[currSeq + i - 1]]
        /\ acked' = acked \ (currSeq + 1 .. next - 1)
        /\ expectSeq' = expectSeq + (next - currSeq)
        /\ currSeq' = next
        /\ UNCHANGED rphase

\* A packet behind the expected one changes nothing; its acknowledgement
\* repeats what is expected.
ReceiveOld(m) ==
    /\ m.type = "DATA" /\ m.seqNum < expectSeq
    /\ ReceiverGets(m, {AckPkt(expectSeq)})
    /\ UNCHANGED receiverVars

\* A FIN ends the program, whatever has been received, with one answer.
ReceiveFin(m) ==
    /\ m.type = "FIN"
    /\ ReceiverGets(m, {FinAckPkt})
    /\ rphase' = "closed"
    /\ UNCHANGED <<expectSeq, currSeq, acked, rbuffer, written>>

\* Neither DATA nor FIN: ignored.
ReceiveJunk(m) ==
    /\ m.type \notin {"DATA", "FIN"}
    /\ ReceiverGets(m, {})
    /\ UNCHANGED receiverVars

\* Datagrams for a port nobody holds any more are dropped.
ClosedPort ==
    /\ rphase = "closed" /\ toReceiver # EmptyBag
    /\ toReceiver' = EmptyBag
    /\ UNCHANGED <<toSender, faults, receiverVars>>

ReceiverStep ==
    \/ \E m \in InFlight(toReceiver) :
          \/ ReceiveEarly(m) \/ ReceiveInOrder(m) \/ ReceiveOld(m)
          \/ ReceiveFin(m) \/ ReceiveJunk(m)
    \/ ClosedPort
=============================================================================
