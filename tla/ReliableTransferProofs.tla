----------------------- MODULE ReliableTransferProofs -----------------------
(***************************************************************************)
(* The data of a transfer is safe for every file, buffer, window and       *)
(* number of faults, as long as the file needs no more packets than there  *)
(* are sequence numbers.                                                   *)
(***************************************************************************)
EXTENDS ReliableTransfer, CongestionWindowProofs, SequenceTheorems, FiniteSetTheorems, TLAPS

\* Only what is put on a channel is in flight there.
LEMMA ChannelContents ==
    ASSUME NEW channel, NEW pkts, NEW m
    PROVE  /\ InFlight(With(channel, pkts)) = InFlight(channel) \cup pkts
           /\ InFlight(Without(channel, m)) \subseteq InFlight(channel)
BY DEF InFlight, With, Without, BagToSet, SetToBag, (+), (-)

\* Without wrap-around a packet carries the number of its chunk.
LEMMA SeqNumOfChunk ==
    ASSUME Total <= MAX_SEQUENCE_NUM, NEW i \in 0 .. Total - 1
    PROVE  /\ ChunkPkt(i) = DataPkt(i, i)
           /\ ChunkPkt(i).type = "DATA" /\ ChunkPkt(i).seqNum = i
           /\ ChunkPkt(i).content = i
<1>1. i % MAX_SEQUENCE_NUM = i
  BY SenderAssumption
<1> QED
  BY <1>1 DEF ChunkPkt, DataPkt

-----------------------------------------------------------------------------
\* The size of an interval from 1.
LEMMA IntervalSize ==
    ASSUME NEW n \in Nat
    PROVE  IsFiniteSet(1 .. n) /\ Cardinality(1 .. n) = n
<1>1. 1 \in Int /\ n \in Int
  OBVIOUS
<1>2. IsFiniteSet(1 .. n) /\ Cardinality(1 .. n) = IF 1 > n THEN 0 ELSE n - 1 + 1
  BY <1>1, FS_Interval, Zenon
<1> QED
  BY <1>2

\* An interval grows with its upper end.
LEMMA IntervalGrows ==
    ASSUME NEW a \in Int, NEW b \in Int, NEW c \in Int, b <= c
    PROVE  a + 1 .. b - 1 \subseteq a + 1 .. c - 1
OBVIOUS

\* The window never takes more packets than are ready.
LEMMA SendCountBound ==
    ASSUME NEW S, NEW cwnd, NEW waiting, NEW ready \in Seq(S)
    PROVE  SendCount(cwnd, waiting, ready) \in 0 .. Len(ready)
<1> DEFINE I == {i \in 1 .. Len(ready) : (Len(waiting) + i) * Scale <= cwnd}
<1>1. Len(ready) \in Nat /\ I \in SUBSET (1 .. Len(ready))
  OBVIOUS
<1>2. IsFiniteSet(1 .. Len(ready)) /\ Cardinality(1 .. Len(ready)) = Len(ready)
  BY <1>1, IntervalSize
<1>3. IsFiniteSet(I) /\ Cardinality(I) <= Len(ready)
  BY <1>1, <1>2, FS_Subset
<1>4. Cardinality(I) \in Nat
  BY <1>3, FS_CardinalityType
<1> QED
  BY <1>1, <1>3, <1>4 DEF SendCount

\* In a waitforack that holds the packets from base on, an acknowledgement
\* covers a prefix, of packets below its number.
LEMMA CoveredPrefix ==
    ASSUME NEW S, waitforack \in Seq(S), NEW base \in Nat, NEW ackNum \in Nat,
           \A i \in 1 .. Len(waitforack) : waitforack[i].seqNum = base + i - 1
    PROVE  /\ Covered(ackNum) \in 0 .. Len(waitforack)
           /\ Covered(ackNum) = 0 \/ base + Covered(ackNum) <= ackNum
<1> DEFINE L == Len(waitforack)
           k == IF ackNum <= base THEN 0 ELSE IF ackNum - base < L THEN ackNum - base ELSE L
           I == {i \in DOMAIN waitforack : \A j \in 1 .. i : waitforack[j].seqNum < ackNum}
<1>1. L \in Nat /\ DOMAIN waitforack = 1 .. L /\ k \in 0 .. L
  OBVIOUS
<1>2. I = 1 .. k
  <2>1. ASSUME NEW i \in 1 .. k PROVE i \in I
    BY <1>1, <2>1
  <2>2. ASSUME NEW i \in I PROVE i \in 1 .. k
    <3>1. i \in 1 .. L /\ waitforack[i].seqNum < ackNum /\ waitforack[i].seqNum = base + i - 1
      BY <1>1, <2>2
    <3> QED
      BY <1>1, <3>1
  <2> QED
    BY <2>1, <2>2
<1>3. Cardinality(1 .. k) = k
  BY <1>1, IntervalSize
<1> HIDE DEF k
<1>4. Covered(ackNum) = k
  BY <1>2, <1>3 DEF Covered
<1> QED
  BY <1>1, <1>4 DEF k

\* The run of early packets from seq on ends before a number that is not acked.
LEMMA AfterRunEnds ==
    ASSUME NEW seq \in Nat, NEW bound \in Nat, acked \subseteq 0 .. bound
    PROVE  /\ AfterRun(seq) \in Nat /\ AfterRun(seq) >= seq
           /\ AfterRun(seq) \notin acked
           /\ \A i \in seq .. AfterRun(seq) - 1 : i \in acked
<1> DEFINE T == {k \in Nat : k >= seq /\ k \notin acked}
           C == {seq} \cup {a + 1 : a \in acked}
           End(k) == /\ k >= seq /\ k \notin acked
                     /\ \A i \in seq .. k - 1 : i \in acked
<1>1. (IF seq > bound THEN seq ELSE bound + 1) \in T
  OBVIOUS
<1>2. PICK k \in T : \A y \in T : k <= y
  BY <1>1, LeastNat
<1>3. End(k)
  <2>1. ASSUME NEW i \in seq .. k - 1, i \notin acked PROVE FALSE
    <3>1. i \in T
      BY <2>1
    <3> QED
      BY <1>2, <3>1
  <2> QED
    BY <2>1
<1>4. k \in C
  <2>1. CASE k = seq
    BY <2>1
  <2>2. CASE k # seq
    <3>1. k - 1 \in acked
      BY <1>3, <2>2
    <3>2. k = (k - 1) + 1
      OBVIOUS
    <3> QED
      BY <3>1, <3>2
  <2> QED
    BY <2>1, <2>2
<1>5. AfterRun(seq) = CHOOSE n \in C : End(n)
  BY DEF AfterRun
<1>6. AfterRun(seq) \in C /\ End(AfterRun(seq))
  <2> HIDE DEF C, End
  <2> QED
    BY <1>3, <1>4, <1>5
<1> QED
  BY <1>6

-----------------------------------------------------------------------------
\* packetToBuffer pushes the next chunks of the file in order, fewer than asked
\* for only at the end of the file.
LEMMA SeqOfPackets ==
    ASSUME NEW read \in 0 .. Total, NEW n \in Nat
    PROVE  /\ ReadCount(n, read) \in 0 .. n /\ ReadCount(n, read) <= Total - read
           /\ packetToBuffer(n, read) \in Seq(ChunkPkts)
           /\ Len(packetToBuffer(n, read)) = ReadCount(n, read)
           /\ \A i \in 1 .. ReadCount(n, read) :
                 packetToBuffer(n, read)[i] = ChunkPkt(read + i - 1)
           /\ ReadCount(n, read) < n => read + ReadCount(n, read) = Total
<1> DEFINE m == ReadCount(n, read)
<1>1. /\ m \in Nat /\ m <= n /\ m <= Total - read
      /\ m < n => read + m = Total
  BY SenderAssumption DEF ReadCount
<1>2. \A i \in 1 .. m : ChunkPkt(read + i - 1) \in ChunkPkts
  BY <1>1, SenderAssumption DEF ChunkPkts
<1> HIDE DEF m
<1>3. packetToBuffer(n, read) = [i \in 1 .. m |-> ChunkPkt(read + i - 1)]
  BY DEF packetToBuffer, m
<1>4. packetToBuffer(n, read) \in Seq(ChunkPkts) /\ Len(packetToBuffer(n, read)) = m
  BY <1>1, <1>2, <1>3, IsASeq, LenProperties
<1> QED
  BY <1>1, <1>3, <1>4 DEF m

\* What packetToBuffer reads first is a window with nothing waiting.
LEMMA FirstWindow ==
    LET p == packetToBuffer(BUFFER_SIZE, 0)
        m == ReadCount(BUFFER_SIZE, 0)
    IN  IsWindow(<< >>, p, m) /\ Len(p) = m
<1> DEFINE p == packetToBuffer(BUFFER_SIZE, 0)
           m == ReadCount(BUFFER_SIZE, 0)
<1>1. 0 \in 0 .. Total /\ BUFFER_SIZE \in Nat
  BY SenderAssumption, WindowAssumption
<1>2. /\ m \in 0 .. BUFFER_SIZE /\ m <= Total - 0
      /\ p \in Seq(ChunkPkts) /\ Len(p) = m
      /\ \A i \in 1 .. m : p[i] = ChunkPkt(0 + i - 1)
      /\ m < BUFFER_SIZE => 0 + m = Total
  BY <1>1, SeqOfPackets, Zenon
<1> HIDE DEF m, p
<1>3. /\ m \in 0 .. Total /\ p \in Seq(ChunkPkts) /\ Len(p) = m
      /\ \A i \in 1 .. m : p[i] = ChunkPkt(i - 1)
      /\ m < Total => m = BUFFER_SIZE
  BY <1>1, <1>2, SenderAssumption
<1>4. IsWindow(<< >>, p, m)
  BY <1>3, EmptySeq, SenderAssumption DEF IsWindow
<1> QED
  BY <1>3, <1>4 DEF p, m

\* Moving n packets from the buffer to waitforack and reading n more keeps the
\* queues a window; what is moved has been read.
LEMMA WindowAfterSend ==
    ASSUME NEW w, NEW r, NEW read, IsWindow(w, r, read), NEW n \in 0 .. Len(r)
    PROVE  LET ww == w \o SubSeq(r, 1, n)
               rr == SubSeq(r, n + 1, Len(r)) \o packetToBuffer(n, read)
               nn == read + ReadCount(n, read)
           IN  /\ IsWindow(ww, rr, nn)
               /\ nn - Len(rr) = read - Len(r) + n
               /\ nn - Len(rr) - Len(ww) = read - Len(r) - Len(w)
<1> DEFINE a  == SubSeq(r, 1, n)
           b  == SubSeq(r, n + 1, Len(r))
           p  == packetToBuffer(n, read)
           m  == ReadCount(n, read)
<1>1. /\ w \in Seq(ChunkPkts) /\ r \in Seq(ChunkPkts) /\ read \in 0 .. Total
      /\ Len(w) \in Nat /\ Len(r) \in Nat /\ n \in Nat
  BY DEF IsWindow
<1>2. \A i \in 1 .. Len(r) : r[i] \in ChunkPkts
  BY <1>1, ElementOfSeq
<1>3. /\ a \in Seq(ChunkPkts) /\ Len(a) = n
      /\ \A i \in 1 .. n : a[i] = r[i]
  BY <1>1, <1>2, SubSeqProperties
<1>4. /\ b \in Seq(ChunkPkts) /\ Len(b) = Len(r) - n
      /\ \A i \in 1 .. Len(r) - n : b[i] = r[n + i]
  BY <1>1, <1>2, SubSeqProperties
<1>5. /\ p \in Seq(ChunkPkts) /\ Len(p) = m /\ m \in 0 .. n /\ m <= Total - read
      /\ \A i \in 1 .. m : p[i] = ChunkPkt(read + i - 1)
      /\ m < n => read + m = Total
  BY <1>1, SeqOfPackets
<1> HIDE DEF a, b, p, m
<1>6. /\ w \o a \in Seq(ChunkPkts) /\ Len(w \o a) = Len(w) + n
      /\ \A i \in 1 .. Len(w) + n : (w \o a)[i] = IF i <= Len(w) THEN w[i] ELSE a[i - Len(w)]
  BY <1>1, <1>3, ConcatProperties
<1>7. /\ b \o p \in Seq(ChunkPkts) /\ Len(b \o p) = Len(r) - n + m
      /\ \A i \in 1 .. Len(r) - n + m :
            (b \o p)[i] = IF i <= Len(r) - n THEN b[i] ELSE p[i - (Len(r) - n)]
  <2>1. /\ b \o p \in Seq(ChunkPkts) /\ Len(b \o p) = Len(b) + Len(p)
        /\ \A i \in 1 .. Len(b) + Len(p) :
              (b \o p)[i] = IF i <= Len(b) THEN b[i] ELSE p[i - Len(b)]
    BY <1>4, <1>5, ConcatProperties, Zenon
  <2>2. Len(b) = Len(r) - n /\ Len(p) = m
    BY <1>4, <1>5
  <2> QED
    BY <2>1, <2>2
<1>8. IsWindow(w \o a, b \o p, read + m)
  <2>1. read + m \in 0 .. Total
    BY <1>1, <1>5, SenderAssumption
  <2>2. Len(w) + Len(r) <= read
    BY DEF IsWindow
  <2>3. ASSUME NEW i \in 1 .. Len(w) + n
        PROVE  (w \o a)[i] = ChunkPkt(read - Len(r) - Len(w) + i - 1)
    <3>1. CASE i <= Len(w)
      BY <1>1, <1>6, <3>1 DEF IsWindow
    <3>2. CASE i > Len(w)
      <4>1. i - Len(w) \in 1 .. n /\ i - Len(w) \in 1 .. Len(r)
        BY <1>1, <3>2
      <4>2. (w \o a)[i] = r[i - Len(w)]
        BY <1>1, <1>3, <1>6, <3>2, <4>1
      <4>3. r[i - Len(w)] = ChunkPkt(read - Len(r) + (i - Len(w)) - 1)
        BY <4>1 DEF IsWindow
      <4>4. read - Len(r) + (i - Len(w)) - 1 = read - Len(r) - Len(w) + i - 1
        BY <1>1
      <4> QED
        BY <4>2, <4>3, <4>4
    <3>3. i <= Len(w) \/ i > Len(w)
      BY <1>1
    <3> QED
      BY <3>1, <3>2, <3>3, Zenon
  <2>4. ASSUME NEW i \in 1 .. Len(r) - n + m
        PROVE  (b \o p)[i] = ChunkPkt(read - Len(r) + n + i - 1)
    <3>1. CASE i <= Len(r) - n
      <4>1. n + i \in 1 .. Len(r) /\ i \in 1 .. Len(r) - n
        BY <1>1, <3>1
      <4>2. (b \o p)[i] = r[n + i]
        BY <1>4, <1>7, <3>1, <4>1
      <4>3. r[n + i] = ChunkPkt(read - Len(r) + (n + i) - 1)
        BY <4>1 DEF IsWindow
      <4>4. read - Len(r) + (n + i) - 1 = read - Len(r) + n + i - 1
        BY <1>1
      <4> QED
        BY <4>2, <4>3, <4>4
    <3>2. CASE i > Len(r) - n
      <4>1. i - (Len(r) - n) \in 1 .. m
        <5>1. Len(r) - n \in Nat /\ m \in Nat
          BY <1>1, <1>5
        <5> QED
          BY <3>2, <5>1
      <4>2. (b \o p)[i] = p[i - (Len(r) - n)]
        <5>1. ~(i <= Len(r) - n)
          BY <1>1, <3>2
        <5> QED
          BY <1>7, <5>1, Zenon
      <4>3. p[i - (Len(r) - n)] = ChunkPkt(read + (i - (Len(r) - n)) - 1)
        BY <1>5, <4>1
      <4>4. read + (i - (Len(r) - n)) - 1 = read - Len(r) + n + i - 1
        BY <1>1
      <4> QED
        BY <4>2, <4>3, <4>4
    <3>3. i <= Len(r) - n \/ i > Len(r) - n
      BY <1>1, <1>5
    <3> QED
      BY <3>1, <3>2, <3>3, Zenon
  <2>5. read + m < Total => Len(b \o p) = BUFFER_SIZE
    BY <1>1, <1>5, <1>7, SenderAssumption DEF IsWindow
  <2>6. /\ (read + m) - Len(b \o p) - Len(w \o a) = read - Len(r) - Len(w)
        /\ (read + m) - Len(b \o p) = read - Len(r) + n
    BY <1>1, <1>5, <1>6, <1>7
  <2>7. Len(w \o a) + Len(b \o p) <= read + m
    BY <1>1, <1>5, <1>6, <1>7, <2>2
  <2>8. \A i \in 1 .. Len(w \o a) : (w \o a)[i] =
            ChunkPkt((read + m) - Len(b \o p) - Len(w \o a) + i - 1)
    BY <1>6, <2>3, <2>6
  <2>9. \A i \in 1 .. Len(b \o p) : (b \o p)[i] = ChunkPkt((read + m) - Len(b \o p) + i - 1)
    BY <1>7, <2>4, <2>6
  <2> QED
    BY <1>6, <1>7, <2>1, <2>5, <2>7, <2>8, <2>9, Zenon DEF IsWindow
<1>9. /\ (read + m) - Len(b \o p) = read - Len(r) + n
       /\ (read + m) - Len(b \o p) - Len(w \o a) = read - Len(r) - Len(w)
  BY <1>1, <1>5, <1>6, <1>7
<1> QED
  BY <1>8, <1>9 DEF a, b, p, m

\* So does popping packets from the front of waitforack.
LEMMA WindowAfterPop ==
    ASSUME NEW w, NEW r, NEW read, IsWindow(w, r, read), NEW k \in 0 .. Len(w)
    PROVE  /\ IsWindow(SubSeq(w, k + 1, Len(w)), r, read)
           /\ Len(SubSeq(w, k + 1, Len(w))) = Len(w) - k
<1> DEFINE s == SubSeq(w, k + 1, Len(w))
<1>1. /\ w \in Seq(ChunkPkts) /\ r \in Seq(ChunkPkts) /\ read \in 0 .. Total
      /\ Len(w) \in Nat /\ Len(r) \in Nat /\ k \in Nat
      /\ \A i \in 1 .. Len(w) : w[i] \in ChunkPkts
  BY ElementOfSeq DEF IsWindow
<1>2. /\ s \in Seq(ChunkPkts) /\ Len(s) = Len(w) - k
      /\ \A i \in 1 .. Len(w) - k : s[i] = w[k + i]
  BY <1>1, SubSeqProperties
<1> HIDE DEF s
<1>3. \A i \in 1 .. Len(s) : s[i] = ChunkPkt(read - Len(r) - Len(s) + i - 1)
  BY <1>1, <1>2 DEF IsWindow
<1>4. Len(s) + Len(r) <= read
  BY <1>1, <1>2 DEF IsWindow
<1>5. /\ \A i \in 1 .. Len(r) : r[i] = ChunkPkt(read - Len(r) + i - 1)
      /\ read < Total => Len(r) = BUFFER_SIZE
  BY DEF IsWindow
<1>6. IsWindow(s, r, read)
  BY <1>1, <1>2, <1>3, <1>4, <1>5, Zenon DEF IsWindow
<1> QED
  BY <1>2, <1>6, Zenon DEF s

-----------------------------------------------------------------------------
(***************************************************************************)
(* The inductive invariant.  To the checked invariants it adds that the    *)
(* receiver's two counters and its file move together.                     *)
(***************************************************************************)
PhaseTypes == /\ sphase \in {"start", "cw_status", "fin_ack", "done", "failed"}
              /\ rphase \in {"receiving", "closed"}

ReceiverInStep == /\ currSeq \in 0 .. Sent /\ expectSeq = currSeq
                  /\ written = [i \in 1 .. currSeq |-> i - 1]

SafeInv == /\ PhaseTypes
           /\ QueuesAreWindow
           /\ ReceiverInStep
           /\ Popped <= currSeq
           /\ EarlyPacketsInPlace
           /\ DatagramsHonest
           /\ PhasesInOrder

\* The counts that the queues determine.
LEMMA Counts ==
    ASSUME SafeInv
    PROVE  /\ Sent \in 0 .. Total /\ Popped \in 0 .. Sent
           /\ nextChunk \in 0 .. Total
           /\ Len(buffer) \in Nat /\ Len(waitforack) \in Nat
           /\ Popped = Sent - Len(waitforack)
           /\ currSeq \in 0 .. Sent /\ expectSeq = currSeq
           /\ sphase \in Draining => Sent = Total /\ currSeq = Total
<1>1. CASE sphase = "start"
  BY <1>1, SenderAssumption, EmptySeq
  DEF SafeInv, QueuesAreWindow, Sent, Popped, ReceiverInStep, Draining
<1>2. CASE sphase # "start"
  <2>1. IsWindow(waitforack, buffer, nextChunk)
    BY <1>2 DEF SafeInv, QueuesAreWindow
  <2>2. /\ Len(buffer) \in Nat /\ Len(waitforack) \in Nat
        /\ nextChunk \in 0 .. Total /\ Len(waitforack) + Len(buffer) <= nextChunk
        /\ nextChunk < Total => Len(buffer) = BUFFER_SIZE
    BY <2>1 DEF IsWindow
  <2>3. sphase \in Draining => Len(buffer) = 0 /\ Len(waitforack) = 0
    BY DEF SafeInv, PhasesInOrder
  <2> QED
    BY <2>2, <2>3, SenderAssumption, WindowAssumption
    DEF SafeInv, Sent, Popped, ReceiverInStep
<1> QED
  BY <1>1, <1>2

\* The first n chunks of the file.
LEMMA FilePrefix ==
    ASSUME NEW n \in 0 .. Total
    PROVE  /\ SubSeq(File, 1, n) = [i \in 1 .. n |-> i - 1]
           /\ Len([i \in 1 .. n |-> i - 1]) = n
           /\ n = Total => [i \in 1 .. n |-> i - 1] = File
<1> DEFINE q == [i \in 1 .. n |-> i - 1]
<1>1. n \in Nat /\ Total \in Nat /\ n <= Total
  BY SenderAssumption
<1>2. q \in Seq(Nat) /\ Len(q) = n
  BY <1>1, IsASeq, LenProperties
<1>3. /\ SubSeq(File, 1, n) \in Seq(Nat) /\ Len(SubSeq(File, 1, n)) = n
      /\ \A i \in 1 .. n : SubSeq(File, 1, n)[i] = i - 1
  <2>1. \A i \in 1 .. n : File[i] \in Nat /\ File[i] = i - 1
    BY <1>1 DEF File
  <2> QED
    BY <1>1, <2>1, SubSeqProperties
<1>4. SubSeq(File, 1, n) = q
  BY <1>2, <1>3, SeqEqual
<1> QED
  BY <1>2, <1>4 DEF File

\* What the invariant says about the file.
LEMMA SafeInvImplies ==
    ASSUME SafeInv
    PROVE  QueuesAreWindow /\ ForgottenIsWritten /\ WrittenIsPrefix /\ EarlyPacketsInPlace
           /\ DatagramsHonest /\ PhasesInOrder /\ CopiedWhole
<1>1. /\ currSeq \in 0 .. Total /\ currSeq <= Sent /\ Popped <= currSeq
      /\ sphase \in Draining => currSeq = Total
      /\ written = [i \in 1 .. currSeq |-> i - 1]
  BY Counts, SenderAssumption DEF SafeInv, ReceiverInStep
<1>2. Len(written) = currSeq /\ written = SubSeq(File, 1, currSeq)
  BY <1>1, FilePrefix
<1>3. sphase = "done" => written = File
  BY <1>1, FilePrefix DEF Draining
<1> QED
  BY <1>1, <1>2, <1>3 DEF SafeInv, ForgottenIsWritten, WrittenIsPrefix, CopiedWhole

\* The invariant holds before the first packet.
LEMMA InitSafe == Init => SafeInv
<1> SUFFICES ASSUME Init PROVE SafeInv
  OBVIOUS
<1> USE DEF Init, NetInit, SenderInit, ReceiverInit
<1>1. InFlight(toReceiver) = {} /\ InFlight(toSender) = {}
  BY DEF InFlight, BagToSet, EmptyBag, SetToBag
<1>2. Sent = 0 /\ Popped = 0
  <2>1. nextChunk = 0 /\ Len(buffer) = 0 /\ Len(waitforack) = 0
    OBVIOUS
  <2>2. Sent = 0 - 0 /\ Popped = 0 - 0 - 0
    BY <2>1, Zenon DEF Sent, Popped
  <2> QED
    BY <2>2
<1>3. PhaseTypes /\ QueuesAreWindow /\ PhasesInOrder
  BY DEF PhaseTypes, QueuesAreWindow, PhasesInOrder, Draining
<1>4. written = [i \in 1 .. 0 |-> i - 1]
  BY EmptySeq
<1>5. DOMAIN rbuffer = {} /\ acked = {}
  OBVIOUS
<1> QED
  BY <1>1, <1>2, <1>3, <1>4, <1>5
  DEF SafeInv, ReceiverInStep, EarlyPacketsInPlace, DatagramsHonest

-----------------------------------------------------------------------------
(***************************************************************************)
(* Datagrams stay honest while the counts grow and the programs advance.   *)
(***************************************************************************)
\* A packet that was honest stays so when more has been sent.
LEMMA HonestPacketStays ==
    ASSUME NEW m, NEW s \in Nat, NEW t \in Nat, s <= t, NEW p, NEW q,
           p \in Draining => q \in Draining, HonestToReceiver(m, s, p)
    PROVE  HonestToReceiver(m, t, q)
BY DEF HonestToReceiver

\* A reply that was honest stays so when more has been received.
LEMMA HonestReplyStays ==
    ASSUME NEW m, NEW s \in Nat, NEW t \in Nat, s <= t, NEW p, NEW q,
           p = "closed" => q = "closed", HonestToSender(m, s, p)
    PROVE  HonestToSender(m, t, q)
BY DEF HonestToSender

\* A DATA packet in flight carries a chunk that was sent, under its number.
LEMMA DataIsChunk ==
    ASSUME Total <= MAX_SEQUENCE_NUM, SafeInv,
           NEW m \in InFlight(toReceiver), m.type = "DATA"
    PROVE  m.seqNum \in 0 .. Sent - 1 /\ m.content = m.seqNum
<1>1. HonestToReceiver(m, Sent, sphase)
  BY DEF SafeInv, DatagramsHonest
<1>2. m # JunkPkt /\ m # FinPkt
  BY DEF JunkPkt, FinPkt
<1>3. PICK i \in 0 .. Sent - 1 : m = ChunkPkt(i)
  BY <1>1, <1>2 DEF HonestToReceiver
<1>4. i \in 0 .. Total - 1
  BY Counts, SenderAssumption
<1> QED
  BY <1>3, <1>4, SeqNumOfChunk

\* A reply of the receiver keeps what is in flight honest.
LEMMA RepliesHonest ==
    ASSUME SafeInv, UNCHANGED senderVars, NEW m, NEW r,
           InFlight(toReceiver') \subseteq InFlight(toReceiver),
           InFlight(toSender') \subseteq InFlight(toSender) \cup {r},
           expectSeq' \in Nat, expectSeq <= expectSeq',
           rphase = "closed" => rphase' = "closed",
           HonestToSender(r, expectSeq', rphase')
    PROVE  DatagramsHonest'
<1>1. Sent' = Sent /\ sphase' = sphase
  BY DEF senderVars, Sent
<1>2. expectSeq \in Nat
  BY Counts
<1>3. ASSUME NEW d \in InFlight(toReceiver') PROVE HonestToReceiver(d, Sent', sphase')
  BY <1>1 DEF SafeInv, DatagramsHonest
<1>4. ASSUME NEW d \in InFlight(toSender') PROVE HonestToSender(d, expectSeq', rphase')
  <2>1. CASE d = r
    BY <2>1
  <2>2. CASE d \in InFlight(toSender)
    <3>1. HonestToSender(d, expectSeq, rphase)
      BY <2>2 DEF SafeInv, DatagramsHonest
    <3> QED
      BY <1>2, <3>1, HonestReplyStays
  <2> QED
    BY <2>1, <2>2
<1> QED
  BY <1>3, <1>4 DEF DatagramsHonest

\* A packet ahead of the expected one is filed in its place.
LEMMA ReceiveEarlySafe ==
    ASSUME Total <= MAX_SEQUENCE_NUM, SafeInv, UNCHANGED senderVars,
           NEW m \in InFlight(toReceiver), ReceiveEarly(m)
    PROVE  SafeInv'
<1> DEFINE e == currSeq + m.seqNum - expectSeq
<1>1. /\ m.type = "DATA" /\ m.seqNum > expectSeq
      /\ ReceiverGets(m, {AckPkt(expectSeq)})
      /\ acked' = acked \cup {e} /\ rbuffer' = insert(rbuffer, e, m.content)
      /\ rphase' = rphase /\ expectSeq' = expectSeq /\ currSeq' = currSeq
      /\ written' = written
  BY DEF ReceiveEarly
<1>2. /\ Sent' = Sent /\ Popped' = Popped /\ sphase' = sphase
      /\ nextChunk' = nextChunk /\ buffer' = buffer /\ waitforack' = waitforack
  BY DEF senderVars, Sent, Popped
<1>3. m.seqNum \in 0 .. Sent - 1 /\ m.content = m.seqNum /\ e = m.seqNum
      /\ currSeq < e /\ expectSeq \in Nat
  BY <1>1, DataIsChunk, Counts
<1>4. DatagramsHonest'
  <2>1. /\ InFlight(toReceiver') \subseteq InFlight(toReceiver)
        /\ InFlight(toSender') \subseteq InFlight(toSender) \cup {AckPkt(expectSeq)}
    BY <1>1, ChannelContents DEF ReceiverGets
  <2>2. HonestToSender(AckPkt(expectSeq), expectSeq', rphase')
    BY <1>1, <1>3 DEF HonestToSender
  <2> QED
    BY <1>1, <1>3, <2>1, <2>2, RepliesHonest
<1> HIDE DEF e
<1>5. EarlyPacketsInPlace'
  <2>1. /\ DOMAIN rbuffer' = DOMAIN rbuffer \cup {e}
        /\ \A k \in DOMAIN rbuffer' :
              rbuffer'[k] = IF k \in DOMAIN rbuffer THEN rbuffer[k] ELSE m.content
    BY <1>1 DEF insert
  <2>2. \A k \in DOMAIN rbuffer' : rbuffer'[k] = k
    BY <1>3, <2>1 DEF SafeInv, EarlyPacketsInPlace
  <2>3. ASSUME NEW k \in acked'
        PROVE  k \in DOMAIN rbuffer' /\ k \in currSeq + 1 .. Sent - 1
    <3>1. CASE k = e
      BY <1>3, <2>1, <3>1, Counts
    <3>2. CASE k \in acked
      BY <2>1, <3>2 DEF SafeInv, EarlyPacketsInPlace
    <3> QED
      BY <1>1, <3>1, <3>2
  <2> QED
    BY <1>1, <1>2, <2>2, <2>3 DEF EarlyPacketsInPlace
<1>6. PhaseTypes' /\ QueuesAreWindow' /\ ReceiverInStep' /\ (Popped <= currSeq)' /\ PhasesInOrder'
  BY <1>1, <1>2
  DEF SafeInv, PhaseTypes, QueuesAreWindow, ReceiverInStep, PhasesInOrder
<1> QED
  BY <1>4, <1>5, <1>6 DEF SafeInv

\* The packet that was expected, and the early packets it releases.
LEMMA ReceiveInOrderSafe ==
    ASSUME Total <= MAX_SEQUENCE_NUM, SafeInv, UNCHANGED senderVars,
           NEW m \in InFlight(toReceiver), ReceiveInOrder(m)
    PROVE  SafeInv'
<1> DEFINE next   == AfterRun(currSeq + 1)
           stored == assign(rbuffer, currSeq, m.content)
           run    == [i \in 1 .. next - currSeq |-> stored[currSeq + i - 1]]
<1>1. /\ m.type = "DATA" /\ m.seqNum = expectSeq
      /\ ReceiverGets(m, {AckPkt(expectSeq + (next - currSeq))})
      /\ rbuffer' = stored /\ written' = written \o run
      /\ acked' = acked \ (currSeq + 1 .. next - 1)
      /\ expectSeq' = expectSeq + (next - currSeq) /\ currSeq' = next
      /\ rphase' = rphase
  BY DEF ReceiveInOrder
<1>2. /\ Sent' = Sent /\ Popped' = Popped /\ sphase' = sphase
      /\ nextChunk' = nextChunk /\ buffer' = buffer /\ waitforack' = waitforack
  BY DEF senderVars, Sent, Popped
<1>3. /\ currSeq \in 0 .. Sent - 1 /\ m.content = currSeq /\ expectSeq = currSeq
      /\ Sent \in 0 .. Total /\ Popped <= currSeq /\ Popped \in Int
  BY <1>1, DataIsChunk, Counts DEF SafeInv
<1>4. /\ \A k \in DOMAIN rbuffer : rbuffer[k] = k
      /\ acked \subseteq DOMAIN rbuffer \cap (currSeq + 1 .. Sent - 1)
  BY DEF SafeInv, EarlyPacketsInPlace
<1>5. /\ next \in Nat /\ next >= currSeq + 1 /\ next \notin acked
      /\ \A i \in currSeq + 1 .. next - 1 : i \in acked
  <2>1. acked \subseteq 0 .. Sent
    BY <1>3, <1>4
  <2>2. currSeq + 1 \in Nat /\ Sent \in Nat
    BY <1>3, SenderAssumption
  <2> QED
    BY <2>1, <2>2, AfterRunEnds
<1> HIDE DEF next
<1>6. next <= Sent
  <2>1. CASE next = currSeq + 1
    BY <1>3, <2>1
  <2>2. CASE next > currSeq + 1
    <3>1. next - 1 \in acked
      BY <1>3, <1>5, <2>2
    <3>2. next - 1 < Sent
      BY <1>3, <1>4, <1>5, <3>1
    <3> QED
      BY <1>3, <1>5, <3>2
  <2> QED
    BY <1>3, <1>5, <2>1, <2>2
<1>7. /\ DOMAIN stored = DOMAIN rbuffer \cup {currSeq}
      /\ \A k \in DOMAIN stored : stored[k] = k
  BY <1>3, <1>4 DEF assign
<1> HIDE DEF stored
<1>8. written' = [i \in 1 .. next |-> i - 1]
  <2> DEFINE old == [i \in 1 .. currSeq |-> i - 1]
             all == [i \in 1 .. next |-> i - 1]
  <2>1. old \in Seq(Nat) /\ Len(old) = currSeq /\ \A i \in 1 .. currSeq : old[i] = i - 1
    BY <1>3, IsASeq, LenProperties
  <2>2. \A i \in 1 .. next - currSeq : stored[currSeq + i - 1] = currSeq + i - 1
    <3> TAKE i \in 1 .. next - currSeq
    <3>1. currSeq + i - 1 \in {currSeq} \cup (currSeq + 1 .. next - 1)
      BY <1>3, <1>5
    <3>2. currSeq + i - 1 \in DOMAIN stored
      BY <1>4, <1>5, <1>7, <3>1
    <3> QED
      BY <1>7, <3>2
  <2>3. /\ run \in Seq(Nat) /\ Len(run) = next - currSeq
        /\ \A i \in 1 .. next - currSeq : run[i] = currSeq + i - 1
    <3>1. next - currSeq \in Nat
      BY <1>3, <1>5
    <3>2. \A i \in 1 .. next - currSeq : stored[currSeq + i - 1] \in Nat
      BY <1>3, <2>2
    <3> QED
      BY <2>2, <3>1, <3>2, IsASeq, LenProperties
  <2>4. all \in Seq(Nat) /\ Len(all) = next /\ \A i \in 1 .. next : all[i] = i - 1
    BY <1>5, IsASeq, LenProperties
  <2> HIDE DEF old, all, run
  <2>5. /\ old \o run \in Seq(Nat) /\ Len(old \o run) = Len(old) + Len(run)
        /\ \A i \in 1 .. Len(old) + Len(run) :
              (old \o run)[i] = IF i <= Len(old) THEN old[i] ELSE run[i - Len(old)]
    BY <2>1, <2>3, ConcatProperties, Zenon
  <2>6. Len(old \o run) = next
    BY <1>3, <1>5, <2>1, <2>3, <2>5
  <2>7. ASSUME NEW i \in 1 .. next PROVE (old \o run)[i] = all[i]
    <3>1. /\ i \in 1 .. Len(old) + Len(run)
          /\ Len(old) = currSeq /\ currSeq \in Nat /\ i \in Nat
      BY <1>3, <1>5, <2>1, <2>3
    <3>2. CASE i <= currSeq
      BY <2>1, <2>4, <2>5, <3>1, <3>2
    <3>3. CASE i > currSeq
      <4>1. i - currSeq \in 1 .. next - currSeq
        BY <1>3, <1>5, <3>1, <3>3
      <4>2. (old \o run)[i] = run[i - currSeq]
        BY <2>5, <3>1, <3>3
      <4>3. run[i - currSeq] = currSeq + (i - currSeq) - 1
        BY <2>3, <4>1
      <4>4. currSeq + (i - currSeq) - 1 = i - 1
        BY <3>1
      <4> QED
        BY <2>4, <4>2, <4>3, <4>4
    <3> QED
      BY <3>1, <3>2, <3>3
  <2>8. old \o run = all
    BY <2>4, <2>5, <2>6, <2>7, SeqEqual
  <2>9. written = old
    BY DEF SafeInv, ReceiverInStep, old
  <2> QED
    BY <1>1, <2>8, <2>9 DEF all
<1>9. DatagramsHonest'
  <2> DEFINE r == AckPkt(expectSeq + (next - currSeq))
  <2>1. /\ InFlight(toReceiver') \subseteq InFlight(toReceiver)
        /\ InFlight(toSender') \subseteq InFlight(toSender) \cup {r}
    BY <1>1, ChannelContents DEF ReceiverGets
  <2>2. expectSeq' \in Nat /\ expectSeq <= expectSeq' /\ expectSeq' = next
    BY <1>1, <1>3, <1>5
  <2>3. HonestToSender(r, expectSeq', rphase')
    BY <1>1, <2>2 DEF HonestToSender
  <2> HIDE DEF r
  <2> QED
    BY <1>1, <2>1, <2>2, <2>3, RepliesHonest
<1>10. EarlyPacketsInPlace'
  <2>1. ASSUME NEW k \in acked'
        PROVE  k \in DOMAIN rbuffer' /\ k \in next + 1 .. Sent - 1
    <3>1. k \in acked /\ ~(k \in currSeq + 1 .. next - 1) /\ k # next
      BY <1>1, <1>5
    <3>2. k \in DOMAIN rbuffer /\ k \in currSeq + 1 .. Sent - 1
      BY <1>3, <1>4, <3>1
    <3> QED
      BY <1>1, <1>3, <1>5, <1>7, <3>1, <3>2
  <2> QED
    BY <1>1, <1>2, <1>7, <2>1 DEF EarlyPacketsInPlace
<1>11. ReceiverInStep' /\ (Popped <= currSeq)'
  <2>1. next \in 0 .. Sent /\ Popped <= next /\ expectSeq + (next - currSeq) = next
    BY <1>3, <1>5, <1>6
  <2> QED
    BY <1>1, <1>2, <1>8, <2>1, Zenon DEF ReceiverInStep
<1>12. PhaseTypes' /\ QueuesAreWindow' /\ PhasesInOrder'
  BY <1>1, <1>2 DEF SafeInv, PhaseTypes, QueuesAreWindow, PhasesInOrder
<1> QED
  BY <1>9, <1>10, <1>11, <1>12 DEF SafeInv

\* The datagrams that leave the receiver's file alone.
LEMMA ReceiveOtherSafe ==
    ASSUME SafeInv, UNCHANGED senderVars, NEW m \in InFlight(toReceiver),
           ReceiveOld(m) \/ ReceiveFin(m) \/ ReceiveJunk(m)
    PROVE  SafeInv'
<1>1. /\ Sent' = Sent /\ Popped' = Popped /\ sphase' = sphase
      /\ nextChunk' = nextChunk /\ buffer' = buffer /\ waitforack' = waitforack
  BY DEF senderVars, Sent, Popped
<1>2. /\ expectSeq' = expectSeq /\ currSeq' = currSeq /\ acked' = acked
      /\ rbuffer' = rbuffer /\ written' = written
      /\ rphase' \in {rphase, "closed"} /\ rphase = "receiving"
  BY DEF ReceiveOld, ReceiveFin, ReceiveJunk, ReceiverGets, receiverVars
<1>3. expectSeq \in Nat
  BY Counts
<1>4. rphase' = "closed" => sphase \in Draining
  <2>1. CASE ReceiveFin(m)
    <3>1. m = FinPkt /\ sphase \in Draining
      <4>1. HonestToReceiver(m, Sent, sphase)
        BY DEF SafeInv, DatagramsHonest
      <4> QED
        BY <2>1, <4>1
        DEF HonestToReceiver, ReceiveFin, ChunkPkt, DataPkt, JunkPkt, FinPkt
    <3> QED
      BY <3>1
  <2>2. CASE ReceiveOld(m) \/ ReceiveJunk(m)
    BY <1>2, <2>2 DEF ReceiveOld, ReceiveJunk, receiverVars
  <2> QED
    BY <2>1, <2>2
<1>5. DatagramsHonest'
  <2>1. CASE ReceiveOld(m)
    <3>1. ReceiverGets(m, {AckPkt(expectSeq)})
      BY <2>1 DEF ReceiveOld
    <3>2. /\ InFlight(toReceiver') \subseteq InFlight(toReceiver)
          /\ InFlight(toSender') \subseteq InFlight(toSender) \cup {AckPkt(expectSeq)}
      BY <3>1, ChannelContents DEF ReceiverGets
    <3>3. HonestToSender(AckPkt(expectSeq), expectSeq', rphase')
      BY <1>2, <1>3 DEF HonestToSender
    <3> QED
      BY <1>2, <1>3, <3>2, <3>3, RepliesHonest
  <2>2. CASE ReceiveFin(m)
    <3>1. ReceiverGets(m, {FinAckPkt}) /\ rphase' = "closed"
      BY <2>2 DEF ReceiveFin
    <3>2. /\ InFlight(toReceiver') \subseteq InFlight(toReceiver)
          /\ InFlight(toSender') \subseteq InFlight(toSender) \cup {FinAckPkt}
      BY <3>1, ChannelContents DEF ReceiverGets
    <3>3. HonestToSender(FinAckPkt, expectSeq', rphase')
      BY <3>1 DEF HonestToSender
    <3> QED
      BY <1>2, <1>3, <3>1, <3>2, <3>3, RepliesHonest
  <2>3. CASE ReceiveJunk(m)
    <3>1. ReceiverGets(m, {}) /\ rphase' = rphase
      BY <2>3 DEF ReceiveJunk, receiverVars
    <3>2. /\ toReceiver' = Without(toReceiver, m)
          /\ toSender' = With(toSender, {})
      BY <3>1 DEF ReceiverGets
    <3>3. /\ InFlight(Without(toReceiver, m)) \subseteq InFlight(toReceiver)
          /\ InFlight(With(toSender, {})) = InFlight(toSender) \cup {}
      BY ChannelContents, Zenon
    <3>4. /\ InFlight(toReceiver') \subseteq InFlight(toReceiver)
          /\ InFlight(toSender') \subseteq InFlight(toSender) \cup {AckPkt(expectSeq)}
      BY <3>2, <3>3
    <3>5. HonestToSender(AckPkt(expectSeq), expectSeq', rphase')
      BY <1>2, <1>3 DEF HonestToSender
    <3> QED
      BY <1>2, <1>3, <3>1, <3>4, <3>5, RepliesHonest
  <2> QED
    BY <2>1, <2>2, <2>3
<1>6. PhaseTypes' /\ PhasesInOrder'
  BY <1>1, <1>2, <1>4 DEF SafeInv, PhaseTypes, PhasesInOrder
<1>7. QueuesAreWindow' /\ ReceiverInStep' /\ (Popped <= currSeq)' /\ EarlyPacketsInPlace'
  BY <1>1, <1>2 DEF SafeInv, QueuesAreWindow, ReceiverInStep, EarlyPacketsInPlace
<1> QED
  BY <1>5, <1>6, <1>7 DEF SafeInv

\* The network and a closed port put nothing new in flight.
LEMMA NetworkSafe ==
    ASSUME SafeInv, UNCHANGED <<senderVars, receiverVars>>,
           Lose \/ Duplicate \/ ClosedPort \/ UNCHANGED netVars
    PROVE  SafeInv'
<1>1. /\ Sent' = Sent /\ Popped' = Popped /\ sphase' = sphase
      /\ nextChunk' = nextChunk /\ buffer' = buffer /\ waitforack' = waitforack
      /\ expectSeq' = expectSeq /\ currSeq' = currSeq /\ acked' = acked
      /\ rbuffer' = rbuffer /\ written' = written /\ rphase' = rphase
  BY DEF senderVars, receiverVars, Sent, Popped
<1>2. /\ InFlight(toReceiver') \subseteq InFlight(toReceiver)
      /\ InFlight(toSender') \subseteq InFlight(toSender)
  <2>1. CASE Lose
    BY <2>1, ChannelContents DEF Lose
  <2>2. CASE Duplicate
    <3>1. CASE /\ \E m \in InFlight(toReceiver) : toReceiver' = With(toReceiver, {m})
               /\ UNCHANGED toSender
      <4>1. PICK m \in InFlight(toReceiver) : toReceiver' = With(toReceiver, {m})
        BY <3>1
      <4>2. InFlight(With(toReceiver, {m})) = InFlight(toReceiver) \cup {m}
        BY ChannelContents, Zenon
      <4> QED
        BY <3>1, <4>1, <4>2
    <3>2. CASE /\ \E m \in InFlight(toSender) : toSender' = With(toSender, {m})
               /\ UNCHANGED toReceiver
      <4>1. PICK m \in InFlight(toSender) : toSender' = With(toSender, {m})
        BY <3>2
      <4>2. InFlight(With(toSender, {m})) = InFlight(toSender) \cup {m}
        BY ChannelContents, Zenon
      <4> QED
        BY <3>2, <4>1, <4>2
    <3> QED
      BY <2>2, <3>1, <3>2 DEF Duplicate
  <2>3. CASE ClosedPort
    BY <2>3 DEF ClosedPort, InFlight, BagToSet, EmptyBag, SetToBag
  <2>4. CASE UNCHANGED netVars
    BY <2>4 DEF netVars
  <2> QED
    BY <2>1, <2>2, <2>3, <2>4
<1>3. DatagramsHonest'
  BY <1>1, <1>2 DEF SafeInv, DatagramsHonest
<1> QED
  BY <1>1, <1>3
  DEF SafeInv, PhaseTypes, PhasesInOrder, QueuesAreWindow, ReceiverInStep, EarlyPacketsInPlace

-----------------------------------------------------------------------------
\* What a step of the sender has to show for the invariant to hold after it.
LEMMA SenderStepSafe ==
    ASSUME SafeInv, UNCHANGED receiverVars,
           sphase' \in {"cw_status", "fin_ack", "done", "failed"},
           QueuesAreWindow', Sent' \in Nat, Sent <= Sent', Popped' <= currSeq,
           PhasesInOrder', sphase \in Draining => sphase' \in Draining,
           InFlight(toSender') \subseteq InFlight(toSender),
           \A d \in InFlight(toReceiver') :
              d \in InFlight(toReceiver) \/ HonestToReceiver(d, Sent', sphase')
    PROVE  SafeInv'
<1>1. /\ rphase' = rphase /\ expectSeq' = expectSeq /\ currSeq' = currSeq
      /\ acked' = acked /\ rbuffer' = rbuffer /\ written' = written
  BY DEF receiverVars
<1>2. Sent \in Nat /\ currSeq \in 0 .. Sent
  BY Counts, SenderAssumption
<1>3. DatagramsHonest'
  <2>1. ASSUME NEW d \in InFlight(toReceiver') PROVE HonestToReceiver(d, Sent', sphase')
    <3>1. CASE d \in InFlight(toReceiver)
      <4>1. HonestToReceiver(d, Sent, sphase)
        BY <3>1 DEF SafeInv, DatagramsHonest
      <4> QED
        BY <1>2, <4>1, HonestPacketStays
    <3> QED
      BY <3>1
  <2>2. ASSUME NEW d \in InFlight(toSender') PROVE HonestToSender(d, expectSeq', rphase')
    BY <1>1 DEF SafeInv, DatagramsHonest
  <2> QED
    BY <2>1, <2>2 DEF DatagramsHonest
<1>4. ReceiverInStep' /\ (Popped <= currSeq)'
  BY <1>1, <1>2 DEF SafeInv, ReceiverInStep
<1>5. EarlyPacketsInPlace'
  <2>1. currSeq + 1 .. Sent - 1 \subseteq currSeq + 1 .. Sent' - 1
    <3> DEFINE t == Sent'
    <3>1. t \in Nat /\ Sent <= t
      OBVIOUS
    <3> HIDE DEF t
    <3>2. currSeq + 1 .. Sent - 1 \subseteq currSeq + 1 .. t - 1
      BY <1>2, <3>1, IntervalGrows
    <3> QED
      BY <3>2 DEF t
  <2> QED
    BY <1>1, <2>1 DEF SafeInv, EarlyPacketsInPlace
<1>6. PhaseTypes'
  BY <1>1 DEF SafeInv, PhaseTypes
<1> QED
  BY <1>3, <1>4, <1>5, <1>6 DEF SafeInv

\* Whatever is read at the front of waitforack, defined or not, is a packet
\* sent before or junk.
LEMMA FrontHonest ==
    ASSUME NEW w, NEW r, NEW read, IsWindow(w, r, read), read - Len(r) = Sent,
           NEW m \in FrontPkts(w), NEW p
    PROVE  HonestToReceiver(m, Sent, p)
<1>1. CASE w = << >>
  <2>1. m = JunkPkt \/ m \in {ChunkPkt(i) : i \in 0 .. Sent - 1}
    BY <1>1 DEF FrontPkts, Sent
  <2> QED
    BY <2>1 DEF HonestToReceiver
<1>2. CASE w # << >>
  <2>1. /\ w \in Seq(ChunkPkts) /\ Len(w) \in Nat /\ Len(r) \in Nat /\ read \in Nat
        /\ Len(w) + Len(r) <= read
    BY SenderAssumption DEF IsWindow
  <2>2. Len(w) >= 1 /\ Head(w) = w[1]
    BY <1>2, <2>1
  <2>3. w[1] = ChunkPkt(read - Len(r) - Len(w) + 1 - 1)
    BY <2>1, <2>2 DEF IsWindow
  <2>4. read - Len(r) - Len(w) + 1 - 1 \in 0 .. Sent - 1
    BY <2>1, <2>2
  <2>5. m = Head(w)
    BY <1>2 DEF FrontPkts
  <2> QED
    BY <2>2, <2>3, <2>4, <2>5 DEF HonestToReceiver
<1> QED
  BY <1>1, <1>2

\* A call of send on a window whose ready packets are those not sent before.
LEMMA SendSafe ==
    ASSUME SafeInv, UNCHANGED receiverVars,
           NEW c, NEW w, NEW r, NEW read, IsWindow(w, r, read),
           read - Len(r) = Sent, read - Len(r) - Len(w) <= currSeq,
           send(c, w, r, read), sphase \in {"start", "cw_status"}, sphase' = "cw_status",
           InFlight(toSender') \subseteq InFlight(toSender)
    PROVE  SafeInv'
<1>1. /\ Len(w) \in Nat /\ Len(r) \in Nat /\ read \in Nat /\ Sent \in Nat
      /\ r \in Seq(ChunkPkts)
  BY Counts, SenderAssumption DEF IsWindow
<1>2. PhasesInOrder'
  BY DEF SafeInv, PhasesInOrder, Draining, receiverVars
<1>3. sphase \notin Draining
  BY DEF Draining
<1>4. CASE WindowFull(c.cwnd, w)
  <2>1. /\ \E m \in FrontPkts(w) : toReceiver' = With(toReceiver, {m})
        /\ waitforack' = w /\ buffer' = r /\ nextChunk' = read
    BY <1>4 DEF send, Resend
  <2>2. QueuesAreWindow' /\ Sent' = Sent /\ Popped' <= currSeq
    BY <2>1 DEF QueuesAreWindow, Sent, Popped
  <2>3. \A d \in InFlight(toReceiver') :
           d \in InFlight(toReceiver) \/ HonestToReceiver(d, Sent', sphase')
    <3>1. PICK m \in FrontPkts(w) : toReceiver' = With(toReceiver, {m})
      BY <2>1
    <3>2. InFlight(toReceiver') = InFlight(toReceiver) \cup {m}
      BY <3>1, ChannelContents
    <3>3. HonestToReceiver(m, Sent, sphase')
      BY FrontHonest
    <3> QED
      BY <2>2, <3>2, <3>3
  <2> QED
    BY <1>1, <1>2, <1>3, <2>2, <2>3, SenderStepSafe
<1>5. CASE ~WindowFull(c.cwnd, w)
  <2> DEFINE n == SendCount(c.cwnd, w, r)
  <2>1. /\ toReceiver' = With(toReceiver, {r[i] : i \in 1 .. n})
        /\ waitforack' = w \o SubSeq(r, 1, n)
        /\ buffer' = SubSeq(r, n + 1, Len(r)) \o packetToBuffer(n, read)
        /\ nextChunk' = read + ReadCount(n, read)
    BY <1>5 DEF send
  <2>2. n \in 0 .. Len(r)
    BY <1>1, SendCountBound
  <2> HIDE DEF n
  <2>3. /\ IsWindow(waitforack', buffer', nextChunk')
        /\ nextChunk' - Len(buffer') = read - Len(r) + n
        /\ nextChunk' - Len(buffer') - Len(waitforack') = read - Len(r) - Len(w)
    BY <2>1, <2>2, WindowAfterSend
  <2>4. QueuesAreWindow' /\ Sent' = Sent + n /\ Popped' <= currSeq
    BY <2>3 DEF QueuesAreWindow, Sent, Popped
  <2>5. \A d \in InFlight(toReceiver') :
           d \in InFlight(toReceiver) \/ HonestToReceiver(d, Sent', sphase')
    <3>1. InFlight(toReceiver') = InFlight(toReceiver) \cup {r[i] : i \in 1 .. n}
      BY <2>1, ChannelContents
    <3>2. Sent' = read - Len(r) + n
      BY <2>3 DEF Sent
    <3> DEFINE t == read - Len(r) + n
    <3>3. ASSUME NEW i \in 1 .. n PROVE HonestToReceiver(r[i], t, sphase')
      <4>1. i \in 1 .. Len(r) /\ read - Len(r) + i - 1 \in 0 .. t - 1
        BY <1>1, <2>2 DEF IsWindow
      <4>2. r[i] = ChunkPkt(read - Len(r) + i - 1)
        BY <4>1 DEF IsWindow
      <4> QED
        BY <4>1, <4>2, Zenon DEF HonestToReceiver
    <3> QED
      BY <3>1, <3>2, <3>3
  <2>6. Sent' \in Nat /\ Sent <= Sent'
    BY <1>1, <2>2, <2>4
  <2> QED
    BY <1>2, <1>3, <2>4, <2>5, <2>6, SenderStepSafe
<1> QED
  BY <1>4, <1>5

\* The first call of send, on the queues that packetToBuffer has just filled.
LEMMA StartSafe ==
    ASSUME SafeInv, UNCHANGED receiverVars, Start
    PROVE  SafeInv'
<1> DEFINE p == packetToBuffer(BUFFER_SIZE, 0)
           m == ReadCount(BUFFER_SIZE, 0)
<1>1. /\ sphase = "start" /\ sphase' = "cw_status" /\ toSender' = toSender
      /\ send(cc, << >>, p, m)
  BY DEF Start
<1>2. IsWindow(<< >>, p, m) /\ Len(p) = m /\ m \in Nat
  BY FirstWindow, SenderAssumption DEF IsWindow
<1>3. nextChunk = 0 /\ Len(buffer) = 0 /\ currSeq \in Nat
  BY <1>1, EmptySeq, Counts DEF SafeInv, QueuesAreWindow
<1> HIDE DEF p, m
<1>5. Len(<< >>) = 0 /\ Sent = 0
  BY <1>3 DEF Sent
<1>6. m - Len(p) = Sent /\ m - Len(p) - Len(<< >>) <= currSeq
  BY <1>2, <1>3, <1>5
<1> QED
  BY <1>1, <1>2, <1>6, SendSafe

\* The packets that an acknowledgement pops have been written.
LEMMA NewAckSafe ==
    ASSUME Total <= MAX_SEQUENCE_NUM, SafeInv, UNCHANGED receiverVars,
           NEW m \in InFlight(toSender), NewAck(m)
    PROVE  SafeInv'
<1> DEFINE k == Covered(m.ackNum)
           w == SubSeq(waitforack, k + 1, Len(waitforack))
<1>1. /\ sphase = "cw_status" /\ sphase' = "cw_status" /\ m.type = "ACK"
      /\ toSender' = Without(toSender, m)
      /\ send(cc', w, buffer, nextChunk)
  BY DEF NewAck, InLoop, SenderGets
<1>2. m.ackNum \in 0 .. currSeq
  <2>1. HonestToSender(m, expectSeq, rphase) /\ expectSeq = currSeq
    BY Counts DEF SafeInv, DatagramsHonest
  <2>2. m # FinAckPkt
    BY <1>1 DEF FinAckPkt
  <2> QED
    BY <2>1, <2>2 DEF HonestToSender, AckPkt
<1>3. IsWindow(waitforack, buffer, nextChunk)
  BY <1>1 DEF SafeInv, QueuesAreWindow
<1>4. /\ Popped \in Nat /\ Popped = nextChunk - Len(buffer) - Len(waitforack)
      /\ Popped + Len(waitforack) = Sent /\ Sent \in 0 .. Total
      /\ Sent = nextChunk - Len(buffer) /\ Popped <= currSeq /\ currSeq \in Nat
      /\ Len(waitforack) \in Nat /\ waitforack \in Seq(ChunkPkts)
      /\ nextChunk \in Nat /\ Len(buffer) \in Nat
  BY <1>3, Counts, SenderAssumption DEF SafeInv, Popped, Sent, IsWindow
<1>5. \A i \in 1 .. Len(waitforack) : waitforack[i].seqNum = Popped + i - 1
  <2> TAKE i \in 1 .. Len(waitforack)
  <2>1. waitforack[i] = ChunkPkt(nextChunk - Len(buffer) - Len(waitforack) + i - 1)
    BY <1>3 DEF IsWindow
  <2>2. Popped + i - 1 \in 0 .. Total - 1
    BY <1>4, SenderAssumption
  <2>3. waitforack[i] = ChunkPkt(Popped + i - 1)
    BY <1>4, <2>1
  <2> DEFINE j == Popped + i - 1
  <2>4. ChunkPkt(j).seqNum = j
    <3>1. j \in 0 .. Total - 1
      BY <2>2
    <3> HIDE DEF j
    <3> QED
      BY <3>1, SeqNumOfChunk
  <2> QED
    BY <2>3, <2>4
<1>6. k \in 0 .. Len(waitforack) /\ (k = 0 \/ Popped + k <= m.ackNum)
  <2>1. m.ackNum \in Nat /\ Popped \in Nat /\ waitforack \in Seq(ChunkPkts)
    BY <1>2, <1>4
  <2>2. /\ Covered(m.ackNum) \in 0 .. Len(waitforack)
        /\ Covered(m.ackNum) = 0 \/ Popped + Covered(m.ackNum) <= m.ackNum
    BY <1>5, <2>1, CoveredPrefix, Zenon
  <2> QED
    BY <2>2
<1> HIDE DEF k
<1>7. IsWindow(w, buffer, nextChunk) /\ Len(w) = Len(waitforack) - k
  BY <1>3, <1>6, WindowAfterPop
<1> HIDE DEF w
<1>8. nextChunk - Len(buffer) = Sent /\ nextChunk - Len(buffer) - Len(w) <= currSeq
  <2>1. nextChunk - Len(buffer) - Len(w) = Popped + k
    BY <1>4, <1>6, <1>7
  <2>2. CASE k = 0
    BY <1>4, <2>1, <2>2
  <2>3. CASE k # 0
    BY <1>2, <1>4, <1>6, <2>1, <2>3
  <2> QED
    BY <2>2, <2>3
<1>9. InFlight(toSender') \subseteq InFlight(toSender)
  BY <1>1, ChannelContents
<1>10. sphase \in {"start", "cw_status"}
  BY <1>1
<1> QED
  BY <1>1, <1>7, <1>8, <1>9, <1>10, SendSafe, Zenon

\* The steps of cw_status that leave the queues alone: they resend the packet
\* at the front of waitforack, or nothing.
LEMMA ResendSafe ==
    ASSUME SafeInv, UNCHANGED receiverVars, sphase = "cw_status",
           UNCHANGED <<sphase, nextChunk, buffer, waitforack>>,
           Resend(waitforack) \/ UNCHANGED toReceiver,
           InFlight(toSender') \subseteq InFlight(toSender)
    PROVE  SafeInv'
<1>1. /\ sphase' = "cw_status" /\ Sent' = Sent /\ Popped' = Popped
      /\ QueuesAreWindow' /\ PhasesInOrder'
  BY DEF SafeInv, QueuesAreWindow, PhasesInOrder, Draining, Sent, Popped, receiverVars
<1>2. Sent \in Nat /\ Popped <= currSeq /\ sphase \notin Draining
  BY Counts DEF SafeInv, Draining
<1>3. IsWindow(waitforack, buffer, nextChunk) /\ nextChunk - Len(buffer) = Sent
  BY DEF SafeInv, QueuesAreWindow, Sent
<1>4. \A d \in InFlight(toReceiver') :
         d \in InFlight(toReceiver) \/ HonestToReceiver(d, Sent', sphase')
  <2>1. CASE UNCHANGED toReceiver
    BY <2>1
  <2>2. CASE Resend(waitforack)
    <3>1. PICK m \in FrontPkts(waitforack) : toReceiver' = With(toReceiver, {m})
      BY <2>2 DEF Resend
    <3>2. InFlight(toReceiver') = InFlight(toReceiver) \cup {m}
      BY <3>1, ChannelContents
    <3>3. HonestToReceiver(m, Sent, sphase')
      BY <1>3, FrontHonest
    <3> QED
      BY <1>1, <3>2, <3>3
  <2> QED
    BY <2>1, <2>2
<1> QED
  BY <1>1, <1>2, <1>4, SenderStepSafe

\* The steps of fin_ack and the one into it put at most a FIN in flight.
LEMMA DrainedSafe ==
    ASSUME SafeInv, UNCHANGED receiverVars,
           buffer = << >>, waitforack = << >>, sphase # "start",
           UNCHANGED <<nextChunk, buffer, waitforack>>,
           sphase' \in Draining, sphase' = "done" => rphase = "closed",
           toReceiver' = With(toReceiver, {FinPkt}) \/ UNCHANGED toReceiver,
           InFlight(toSender') \subseteq InFlight(toSender)
    PROVE  SafeInv'
<1>1. /\ sphase' \in {"cw_status", "fin_ack", "done", "failed"} /\ sphase' # "start"
      /\ Sent' = Sent /\ Popped' = Popped
  BY DEF Draining, Sent, Popped
<1>2. QueuesAreWindow' /\ PhasesInOrder'
  BY <1>1 DEF SafeInv, QueuesAreWindow, PhasesInOrder, receiverVars
<1>3. Sent \in Nat /\ Popped <= currSeq
  BY Counts DEF SafeInv
<1>4. \A d \in InFlight(toReceiver') :
         d \in InFlight(toReceiver) \/ HonestToReceiver(d, Sent', sphase')
  <2>1. InFlight(With(toReceiver, {FinPkt})) = InFlight(toReceiver) \cup {FinPkt}
    BY ChannelContents, Zenon
  <2>2. \A d \in InFlight(toReceiver') : d \in InFlight(toReceiver) \/ d = FinPkt
    BY <2>1
  <2> QED
    BY <2>2, Zenon DEF HonestToReceiver
<1> QED
  BY <1>1, <1>2, <1>3, <1>4, SenderStepSafe

\* Every step of the sender keeps the invariant.
LEMMA SenderSafe ==
    ASSUME Total <= MAX_SEQUENCE_NUM, SafeInv, UNCHANGED receiverVars, SenderStep
    PROVE  SafeInv'
<1>1. CASE Start
  BY <1>1, StartSafe
<1>2. CASE Timeout
  BY <1>2, ResendSafe DEF Timeout, InLoop
<1>3. CASE StartFin
  <2>1. sphase' \in Draining /\ sphase' # "done"
    BY <1>3 DEF StartFin, Draining
  <2> QED
    BY <1>3, <2>1, DrainedSafe DEF StartFin
<1>4. CASE FinTimeout
  <2>1. buffer = << >> /\ waitforack = << >> /\ sphase' \in Draining /\ sphase' # "done"
    BY <1>4 DEF FinTimeout, Draining, SafeInv, PhasesInOrder
  <2> QED
    BY <1>4, <2>1, DrainedSafe DEF FinTimeout
<1>5. ASSUME NEW m \in InFlight(toSender),
             NewAck(m) \/ DupAck(m) \/ OldAck(m) \/ FinRetry(m) \/ FinDone(m)
      PROVE  SafeInv'
  <2>1. InFlight(Without(toSender, m)) \subseteq InFlight(toSender)
    BY ChannelContents
  <2>2. CASE NewAck(m)
    BY <2>2, NewAckSafe
  <2>3. CASE DupAck(m)
    <3>1. /\ sphase = "cw_status" /\ toSender' = Without(toSender, m)
          /\ UNCHANGED <<sphase, nextChunk, buffer, waitforack>>
          /\ Resend(waitforack) \/ UNCHANGED toReceiver
      BY <2>3 DEF DupAck, InLoop, SenderGets
    <3> QED
      BY <2>1, <3>1, ResendSafe
  <2>4. CASE OldAck(m)
    <3>1. /\ sphase = "cw_status" /\ toSender' = Without(toSender, m)
          /\ UNCHANGED <<sphase, nextChunk, buffer, waitforack>> /\ UNCHANGED toReceiver
      BY <2>4 DEF OldAck, InLoop, SenderGets, senderVars
    <3> QED
      BY <2>1, <3>1, ResendSafe
  <2>5. CASE FinRetry(m)
    <3>1. /\ sphase = "fin_ack" /\ sphase' = "fin_ack" /\ toSender' = Without(toSender, m)
          /\ UNCHANGED <<nextChunk, buffer, waitforack>>
          /\ toReceiver' = With(toReceiver, {FinPkt})
      BY <2>5 DEF FinRetry, SenderGets, senderVars
    <3>2. buffer = << >> /\ waitforack = << >> /\ sphase' \in Draining /\ sphase' # "done"
      BY <3>1 DEF Draining, SafeInv, PhasesInOrder
    <3> QED
      BY <2>1, <3>1, <3>2, DrainedSafe
  <2>6. CASE FinDone(m)
    <3>1. /\ sphase = "fin_ack" /\ sphase' = "done" /\ toSender' = Without(toSender, m)
          /\ UNCHANGED <<nextChunk, buffer, waitforack>> /\ UNCHANGED toReceiver
          /\ m.type = "FINACK"
      BY <2>6 DEF FinDone, SenderGets
    <3>2. buffer = << >> /\ waitforack = << >> /\ sphase' \in Draining
      BY <3>1 DEF Draining, SafeInv, PhasesInOrder
    <3>3. rphase = "closed"
      <4>1. HonestToSender(m, expectSeq, rphase)
        BY DEF SafeInv, DatagramsHonest
      <4> QED
        BY <3>1, <4>1 DEF HonestToSender, AckPkt
    <3> QED
      BY <2>1, <3>1, <3>2, <3>3, DrainedSafe
  <2> QED
    BY <1>5, <2>2, <2>3, <2>4, <2>5, <2>6
<1> QED
  BY <1>1, <1>2, <1>3, <1>4, <1>5 DEF SenderStep

\* Every step of the receiver does.
LEMMA ReceiverSafe ==
    ASSUME Total <= MAX_SEQUENCE_NUM, SafeInv, UNCHANGED senderVars, ReceiverStep
    PROVE  SafeInv'
<1>1. CASE ClosedPort
  <2>1. UNCHANGED <<senderVars, receiverVars>>
    BY <1>1 DEF ClosedPort
  <2> QED
    BY <1>1, <2>1, NetworkSafe
<1>2. ASSUME NEW m \in InFlight(toReceiver),
             \/ ReceiveEarly(m) \/ ReceiveInOrder(m) \/ ReceiveOld(m)
             \/ ReceiveFin(m) \/ ReceiveJunk(m)
      PROVE  SafeInv'
  BY <1>2, ReceiveEarlySafe, ReceiveInOrderSafe, ReceiveOtherSafe
<1> QED
  BY <1>1, <1>2 DEF ReceiverStep

\* So does every step of the transfer.
LEMMA StepSafe ==
    ASSUME Total <= MAX_SEQUENCE_NUM, SafeInv, [Next]_vars
    PROVE  SafeInv'
<1>1. CASE SenderStep /\ UNCHANGED receiverVars
  BY <1>1, SenderSafe
<1>2. CASE ReceiverStep /\ UNCHANGED senderVars
  BY <1>2, ReceiverSafe
<1>3. CASE (Lose \/ Duplicate) /\ UNCHANGED <<senderVars, receiverVars>>
  BY <1>3, NetworkSafe
<1>4. CASE UNCHANGED vars
  BY <1>4, NetworkSafe DEF vars
<1> QED
  BY <1>1, <1>2, <1>3, <1>4 DEF Next, Terminated

\* Whatever is lost, duplicated, overtaken or timed out early, and wherever
\* congestion control moves the window (an empty window with packets still in
\* the buffer included): the queues of sender_main stay a window on the file,
\* what it forgets is written, what receiver_main writes is a prefix of the
\* file, and a sender that ends well leaves the whole file behind.  The
\* assumption is that the file needs no more packets than there are sequence
\* numbers; run SequenceWrap shows what happens without it.
THEOREM TransferSafety ==
    ASSUME Total <= MAX_SEQUENCE_NUM
    PROVE  Spec => [](/\ QueuesAreWindow /\ ForgottenIsWritten /\ WrittenIsPrefix
                      /\ EarlyPacketsInPlace /\ DatagramsHonest /\ PhasesInOrder
                      /\ CopiedWhole)
<1>1. Init => SafeInv
  BY InitSafe
<1>2. SafeInv /\ [Next]_vars => SafeInv'
  BY StepSafe
<1>3. SafeInv => /\ QueuesAreWindow /\ ForgottenIsWritten /\ WrittenIsPrefix
                 /\ EarlyPacketsInPlace /\ DatagramsHonest /\ PhasesInOrder
                 /\ CopiedWhole
  BY SafeInvImplies
<1> QED
  BY <1>1, <1>2, <1>3, PTL DEF Spec

-----------------------------------------------------------------------------
(***************************************************************************)
(* The refinement of FileTransfer.                                         *)
(***************************************************************************)
\* Only the last step of the sender is visible in the abstract transfer.
LEMMA SenderRefines ==
    ASSUME SafeInv, SenderStep, UNCHANGED receiverVars
    PROVE  /\ written' = written /\ rphase' = rphase
           /\ \/ Outcome' = Outcome
              \/ Outcome = "running" /\ Outcome' = "done" /\ rphase = "closed"
              \/ Outcome = "running" /\ Outcome' = "failed" /\ written = File
<1>1. written' = written /\ rphase' = rphase
  BY DEF receiverVars
<1>2. CASE Start \/ Timeout \/ StartFin
  BY <1>1, <1>2 DEF Start, Timeout, InLoop, StartFin, Outcome
<1>3. CASE FinTimeout
  <2>1. sphase = "fin_ack" /\ sphase' = "failed"
    BY <1>3 DEF FinTimeout
  <2>2. currSeq = Total /\ currSeq \in 0 .. Total
    BY <2>1, Counts, SenderAssumption DEF Draining
  <2>3. written = File
    BY <2>2, FilePrefix DEF SafeInv, ReceiverInStep
  <2> QED
    BY <1>1, <2>1, <2>3 DEF Outcome
<1>4. ASSUME NEW m \in InFlight(toSender), NewAck(m) \/ DupAck(m) \/ OldAck(m) \/ FinRetry(m)
      PROVE  Outcome' = Outcome
  BY <1>4 DEF NewAck, DupAck, OldAck, FinRetry, InLoop, senderVars, Outcome
<1>5. ASSUME NEW m \in InFlight(toSender), FinDone(m)
      PROVE  Outcome = "running" /\ Outcome' = "done" /\ rphase = "closed"
  <2>1. sphase = "fin_ack" /\ sphase' = "done" /\ m.type = "FINACK"
    BY <1>5 DEF FinDone
  <2>2. HonestToSender(m, expectSeq, rphase)
    BY DEF SafeInv, DatagramsHonest
  <2> QED
    BY <2>1, <2>2 DEF HonestToSender, AckPkt, Outcome
<1> QED
  BY <1>1, <1>2, <1>3, <1>4, <1>5 DEF SenderStep

\* A step of the receiver writes the next chunks, or closes with all of them.
LEMMA ReceiverRefines ==
    ASSUME Total <= MAX_SEQUENCE_NUM, SafeInv, ReceiverStep, UNCHANGED senderVars
    PROVE  /\ Outcome' = Outcome
           /\ \/ written' = written /\ rphase' = rphase
              \/ /\ rphase = "receiving" /\ rphase' = rphase
                 /\ \E n \in Len(written) + 1 .. Len(File) : written' = SubSeq(File, 1, n)
              \/ /\ rphase = "receiving" /\ rphase' = "closed"
                 /\ written' = written /\ written = File
<1>1. Outcome' = Outcome /\ Sent' = Sent
  BY DEF senderVars, Outcome, Sent
<1>2. CASE ClosedPort
  BY <1>1, <1>2 DEF ClosedPort, receiverVars
<1>3. ASSUME NEW m \in InFlight(toReceiver), ReceiveEarly(m) \/ ReceiveOld(m) \/ ReceiveJunk(m)
      PROVE  written' = written /\ rphase' = rphase
  BY <1>3 DEF ReceiveEarly, ReceiveOld, ReceiveJunk, receiverVars
<1>4. ASSUME NEW m \in InFlight(toReceiver), ReceiveInOrder(m)
      PROVE  /\ rphase = "receiving" /\ rphase' = rphase
             /\ \E n \in Len(written) + 1 .. Len(File) : written' = SubSeq(File, 1, n)
  <2>1. rphase = "receiving" /\ rphase' = rphase /\ currSeq' = AfterRun(currSeq + 1)
    BY <1>4 DEF ReceiveInOrder, ReceiverGets
  <2>2. currSeq \in 0 .. Sent /\ Sent \in 0 .. Total /\ Total \in Nat
    BY Counts, SenderAssumption
  <2>3. AfterRun(currSeq + 1) >= currSeq + 1
    <3>1. acked \subseteq 0 .. Sent
      BY <2>2 DEF SafeInv, EarlyPacketsInPlace
    <3> QED
      BY <2>2, <3>1, AfterRunEnds
  <2>4. SafeInv'
    BY <1>4, ReceiveInOrderSafe
  <2> DEFINE n == currSeq'
  <2>5. n \in 0 .. Sent /\ written' = [i \in 1 .. n |-> i - 1] /\ n >= currSeq + 1
    BY <1>1, <2>1, <2>3, <2>4 DEF SafeInv, ReceiverInStep
  <2> HIDE DEF n
  <2>6. n \in 0 .. Total /\ n \in currSeq + 1 .. Total
    BY <2>2, <2>5
  <2>7. Len(written) = currSeq
    BY <2>2, FilePrefix DEF SafeInv, ReceiverInStep
  <2>8. Len(File) = Total
    BY <2>2, IsASeq, LenProperties DEF File
  <2>9. SubSeq(File, 1, n) = [i \in 1 .. n |-> i - 1]
    BY <2>6, FilePrefix
  <2> QED
    BY <2>1, <2>5, <2>6, <2>7, <2>8, <2>9
<1>5. ASSUME NEW m \in InFlight(toReceiver), ReceiveFin(m)
      PROVE  /\ rphase = "receiving" /\ rphase' = "closed"
             /\ written' = written /\ written = File
  <2>1. m.type = "FIN" /\ rphase = "receiving" /\ rphase' = "closed" /\ written' = written
    BY <1>5 DEF ReceiveFin, ReceiverGets
  <2>2. HonestToReceiver(m, Sent, sphase)
    BY DEF SafeInv, DatagramsHonest
  <2>3. sphase \in Draining
    BY <2>1, <2>2 DEF HonestToReceiver, ChunkPkt, DataPkt, JunkPkt
  <2>4. currSeq = Total /\ currSeq \in 0 .. Total
    BY <2>3, Counts, SenderAssumption
  <2>5. written = File
    BY <2>4, FilePrefix DEF SafeInv, ReceiverInStep
  <2> QED
    BY <2>1, <2>5
<1> QED
  BY <1>1, <1>2, <1>3, <1>4, <1>5 DEF ReceiverStep

\* The two programs over UDP implement the abstract transfer: the copy only
\* grows along the file, receiver_main closes only a complete copy, and
\* sender_main reports success only after that.
THEOREM TransferRefines ==
    ASSUME Total <= MAX_SEQUENCE_NUM
    PROVE  Spec => ImplementsFileTransfer
<1>1. Init => FT!Init
  <2> SUFFICES ASSUME Init PROVE FT!Init
    OBVIOUS
  <2>1. sphase = "start" /\ rphase = "receiving" /\ written = << >>
    BY DEF Init, SenderInit, ReceiverInit
  <2> QED
    BY <2>1 DEF FT!Init, Outcome
<1>2. SafeInv /\ [Next]_vars => [FT!Next]_FT!ftVars
  <2> SUFFICES ASSUME SafeInv, [Next]_vars PROVE [FT!Next]_FT!ftVars
    OBVIOUS
  <2>1. CASE SenderStep /\ UNCHANGED receiverVars
    <3>1. CASE written' = written /\ rphase' = rphase /\ Outcome' = Outcome
      BY <3>1 DEF FT!ftVars, Outcome
    <3>2. CASE /\ written' = written /\ rphase' = rphase
               /\ Outcome = "running" /\ Outcome' = "done" /\ rphase = "closed"
      BY <3>2 DEF FT!Next, FT!End, Outcome
    <3>3. CASE /\ written' = written /\ rphase' = rphase
               /\ Outcome = "running" /\ Outcome' = "failed" /\ written = File
      BY <3>3 DEF FT!Next, FT!End, Outcome
    <3> QED
      BY <2>1, <3>1, <3>2, <3>3, SenderRefines
  <2>2. CASE ReceiverStep /\ UNCHANGED senderVars
    <3>1. CASE written' = written /\ rphase' = rphase /\ Outcome' = Outcome
      BY <3>1 DEF FT!ftVars, Outcome
    <3>2. CASE /\ Outcome' = Outcome /\ rphase = "receiving" /\ rphase' = rphase
               /\ \E n \in Len(written) + 1 .. Len(File) : written' = SubSeq(File, 1, n)
      BY <3>2 DEF FT!Next, FT!Receive, Outcome
    <3>3. CASE /\ Outcome' = Outcome /\ rphase = "receiving" /\ rphase' = "closed"
               /\ written' = written /\ written = File
      BY <3>3 DEF FT!Next, FT!Stop, Outcome
    <3> QED
      BY <2>2, <3>1, <3>2, <3>3, ReceiverRefines
  <2>3. CASE UNCHANGED <<senderVars, receiverVars>>
    BY <2>3 DEF senderVars, receiverVars, FT!ftVars, Outcome
  <2> QED
    BY <2>1, <2>2, <2>3 DEF Next, Terminated, vars
<1>3. Init => SafeInv
  BY InitSafe
<1>4. SafeInv /\ [Next]_vars => SafeInv'
  BY StepSafe
<1> QED
  BY <1>1, <1>2, <1>3, <1>4, PTL DEF Spec, ImplementsFileTransfer, FT!Spec

-----------------------------------------------------------------------------
(***************************************************************************)
(* Types and the window, for every file: sequence numbers may wrap around. *)
(***************************************************************************)
\* The window takes ready packets only as far as it has room.
LEMMA SendCountFits ==
    ASSUME NEW S, NEW cwnd \in Nat, NEW waiting, Len(waiting) \in Nat, NEW ready \in Seq(S),
           SendCount(cwnd, waiting, ready) > 0
    PROVE  (Len(waiting) + SendCount(cwnd, waiting, ready)) * Scale <= cwnd
<1> DEFINE n == SendCount(cwnd, waiting, ready)
           L == Len(waiting)
           I == {i \in 1 .. Len(ready) : (L + i) * Scale <= cwnd}
<1>1. n \in 1 .. Len(ready) /\ L \in Nat /\ Len(ready) \in Nat /\ Scale \in Nat
  BY SendCountBound, WindowAssumption
<1>2. n = Cardinality(I)
  BY DEF SendCount
<1> HIDE DEF n, L
<1>3. ASSUME ~((L + n) * Scale <= cwnd) PROVE FALSE
  <2>1. ASSUME NEW i \in I PROVE i \in 1 .. n - 1
    <3>1. i \in 1 .. Len(ready) /\ (L + i) * Scale <= cwnd
      OBVIOUS
    <3>2. CASE i >= n
      <4>1. (L + i) * Scale = (L + n) * Scale + (i - n) * Scale
        BY <1>1, <3>1
      <4>2. (i - n) * Scale \in Nat /\ (L + n) * Scale \in Nat
        BY <1>1, <3>1, <3>2
      <4> QED
        BY <1>3, <3>1, <4>1, <4>2
    <3> QED
      BY <1>1, <3>1, <3>2
  <2>2. I \in SUBSET (1 .. n - 1) /\ n - 1 \in Nat
    BY <1>1, <2>1
  <2>3. IsFiniteSet(1 .. n - 1) /\ Cardinality(1 .. n - 1) = n - 1
    BY <2>2, IntervalSize
  <2> HIDE DEF I
  <2>4. Cardinality(I) <= n - 1
    BY <2>2, <2>3, FS_Subset
  <2> QED
    BY <1>1, <1>2, <2>4
<1> QED
  BY <1>3 DEF n, L

\* An acknowledgement covers some leading packets, whatever their numbers.
LEMMA CoveredBound ==
    ASSUME NEW S, waitforack \in Seq(S), NEW ackNum
    PROVE  Covered(ackNum) \in 0 .. Len(waitforack)
<1> DEFINE I == {i \in DOMAIN waitforack : \A j \in 1 .. i : waitforack[j].seqNum < ackNum}
<1>1. Len(waitforack) \in Nat /\ I \in SUBSET (1 .. Len(waitforack))
  OBVIOUS
<1>2. IsFiniteSet(1 .. Len(waitforack)) /\ Cardinality(1 .. Len(waitforack)) = Len(waitforack)
  BY <1>1, IntervalSize
<1> HIDE DEF I
<1>3. IsFiniteSet(I) /\ Cardinality(I) <= Len(waitforack) /\ Cardinality(I) \in Nat
  BY <1>1, <1>2, FS_Subset, FS_CardinalityType
<1> QED
  BY <1>1, <1>3 DEF Covered, I

\* A DATA packet is numbered by a natural.
Numbered(m) == m.type = "DATA" => m.seqNum \in Nat

\* The inductive invariant: the types need the queues to be a window, what is in
\* flight to be numbered, and the early packets to end somewhere.
TypeInv == /\ TypeOK
           /\ QueuesAreWindow
           /\ \E bound \in Nat : acked \subseteq 0 .. bound
           /\ \A m \in InFlight(toReceiver) : Numbered(m)

\* Whatever the front of a queue is taken for, it is numbered.
LEMMA FrontNumbered ==
    ASSUME NEW w, NEW r, NEW read, IsWindow(w, r, read),
           nextChunk \in Nat, Len(buffer) \in Nat, NEW m \in FrontPkts(w)
    PROVE  Numbered(m)
<1>1. ASSUME NEW i \in Nat PROVE Numbered(ChunkPkt(i))
  <2>1. i % MAX_SEQUENCE_NUM \in Nat
    BY SenderAssumption
  <2> QED
    BY <2>1 DEF Numbered, ChunkPkt, DataPkt
<1>2. Numbered(JunkPkt)
  BY DEF Numbered, JunkPkt
<1>3. CASE w = << >>
  <2>1. m = JunkPkt \/ \E i \in 0 .. nextChunk - Len(buffer) - 1 : m = ChunkPkt(i)
    BY <1>3 DEF FrontPkts
  <2>2. \A i \in 0 .. nextChunk - Len(buffer) - 1 : i \in Nat
    OBVIOUS
  <2> QED
    BY <1>1, <1>2, <2>1, <2>2
<1>4. CASE w # << >>
  <2>1. m = Head(w) /\ w \in Seq(ChunkPkts)
    BY <1>4 DEF FrontPkts, IsWindow
  <2>2. m \in ChunkPkts
    BY <1>4, <2>1, HeadTailProperties
  <2>3. PICK i \in 0 .. Total - 1 : m = ChunkPkt(i)
    BY <2>2 DEF ChunkPkts
  <2> QED
    BY <1>1, <2>3
<1> QED
  BY <1>3, <1>4

\* A call of send leaves a window on the file, numbered packets, and no more
\* outstanding than the congestion window has room for if anything new was sent.
LEMMA SendTyped ==
    ASSUME TypeInv, NEW c, c.cwnd \in Nat, NEW w, NEW r, NEW read, IsWindow(w, r, read),
           send(c, w, r, read)
    PROVE  /\ IsWindow(waitforack', buffer', nextChunk')
           /\ \A d \in InFlight(toReceiver') : Numbered(d)
           /\ nextChunk' - Len(buffer') > read - Len(r)
                => Len(waitforack') * Scale <= c.cwnd
<1>1. /\ w \in Seq(ChunkPkts) /\ r \in Seq(ChunkPkts) /\ read \in Nat
      /\ Len(w) \in Nat /\ Len(r) \in Nat
  BY SenderAssumption DEF IsWindow
<1>2. nextChunk \in Nat /\ Len(buffer) \in Nat
  BY SenderAssumption DEF TypeInv, TypeOK, QueuesAreWindow, IsWindow
<1>3. CASE WindowFull(c.cwnd, w)
  <2>1. /\ \E m \in FrontPkts(w) : toReceiver' = With(toReceiver, {m})
        /\ waitforack' = w /\ buffer' = r /\ nextChunk' = read
    BY <1>3 DEF send, Resend
  <2>2. PICK m \in FrontPkts(w) : toReceiver' = With(toReceiver, {m})
    BY <2>1
  <2>3. InFlight(With(toReceiver, {m})) = InFlight(toReceiver) \cup {m}
    BY ChannelContents, Zenon
  <2>4. Numbered(m)
    BY <1>2, FrontNumbered
  <2>5. \A d \in InFlight(toReceiver') : Numbered(d)
    BY <2>2, <2>3, <2>4 DEF TypeInv
  <2>6. ~(nextChunk' - Len(buffer') > read - Len(r))
    BY <1>1, <2>1
  <2> QED
    BY <2>1, <2>5, <2>6
<1>4. CASE ~WindowFull(c.cwnd, w)
  <2> DEFINE n == SendCount(c.cwnd, w, r)
  <2>1. /\ toReceiver' = With(toReceiver, {r[i] : i \in 1 .. n})
        /\ waitforack' = w \o SubSeq(r, 1, n)
        /\ buffer' = SubSeq(r, n + 1, Len(r)) \o packetToBuffer(n, read)
        /\ nextChunk' = read + ReadCount(n, read)
    BY <1>4 DEF send
  <2>2. n \in 0 .. Len(r) /\ (n > 0 => (Len(w) + n) * Scale <= c.cwnd)
    BY <1>1, SendCountBound, SendCountFits
  <2> HIDE DEF n
  <2>3. /\ IsWindow(waitforack', buffer', nextChunk')
        /\ nextChunk' - Len(buffer') = read - Len(r) + n
        /\ nextChunk' - Len(buffer') - Len(waitforack') = read - Len(r) - Len(w)
    BY <2>1, <2>2, WindowAfterSend
  <2>4. Len(waitforack') = Len(w) + n
    <3>1. Len(waitforack') \in Nat /\ nextChunk' \in Nat /\ Len(buffer') \in Nat
      BY <2>3, SenderAssumption DEF IsWindow
    <3> QED
      BY <1>1, <2>2, <2>3, <3>1
  <2>5. ASSUME NEW i \in 1 .. n PROVE Numbered(r[i])
    <3>1. i \in 1 .. Len(r) /\ read - Len(r) + i - 1 \in Nat
      BY <1>1, <2>2 DEF IsWindow
    <3>2. r[i] = ChunkPkt(read - Len(r) + i - 1)
      BY <3>1 DEF IsWindow
    <3>3. (read - Len(r) + i - 1) % MAX_SEQUENCE_NUM \in Nat
      BY <3>1, SenderAssumption
    <3> QED
      BY <3>2, <3>3 DEF Numbered, ChunkPkt, DataPkt
  <2>6. InFlight(With(toReceiver, {r[i] : i \in 1 .. n})) = InFlight(toReceiver) \cup {r[i] : i \in 1 .. n}
    BY ChannelContents, Zenon
  <2>7. \A d \in InFlight(toReceiver') : Numbered(d)
    BY <2>1, <2>5, <2>6 DEF TypeInv
  <2>8. nextChunk' - Len(buffer') > read - Len(r) => n > 0
    BY <1>1, <2>2, <2>3
  <2> QED
    BY <2>2, <2>3, <2>4, <2>7, <2>8
<1> QED
  BY <1>3, <1>4

\* What the steps of cw_status and fin_ack share: they put only numbered packets
\* in flight, and leave the receiver alone.
LEMMA SenderTyped ==
    ASSUME TypeInv, SenderStep, UNCHANGED receiverVars
    PROVE  TypeInv' /\ (Sent' > Sent => Len(waitforack') * Scale <= cc'.cwnd)
<1>1. /\ rphase' = rphase /\ expectSeq' = expectSeq /\ currSeq' = currSeq
      /\ acked' = acked /\ rbuffer' = rbuffer
  BY DEF receiverVars
<1>2. /\ cc \in CongestionState /\ cc.cwnd \in Nat
      /\ nextChunk \in Nat /\ Len(buffer) \in Nat /\ Len(waitforack) \in Nat
      /\ faults \in 0 .. MaxFaults
  BY SenderAssumption DEF TypeInv, TypeOK, QueuesAreWindow, IsWindow, CongestionState
<1>3. TimerExpires => faults' \in 0 .. MaxFaults
  BY <1>2, FaultAssumption DEF TimerExpires, Misfortune
<1>4. ASSUME NEW m, toReceiver' = With(toReceiver, {m}), Numbered(m)
      PROVE  \A d \in InFlight(toReceiver') : Numbered(d)
  <2>1. InFlight(With(toReceiver, {m})) = InFlight(toReceiver) \cup {m}
    BY ChannelContents, Zenon
  <2> QED
    BY <1>4, <2>1 DEF TypeInv
<1>5. ASSUME Resend(waitforack), sphase # "start"
      PROVE  \A d \in InFlight(toReceiver') : Numbered(d)
  <2>1. PICK m \in FrontPkts(waitforack) : toReceiver' = With(toReceiver, {m})
    BY <1>5 DEF Resend
  <2>2. Numbered(m)
    BY <1>2, <1>5, FrontNumbered DEF TypeInv, QueuesAreWindow
  <2> QED
    BY <1>4, <2>1, <2>2
<1>6. ASSUME sphase' \in {"cw_status", "fin_ack", "done", "failed"}, sphase # "start",
             faults' \in 0 .. MaxFaults, cc' \in CongestionState,
             UNCHANGED <<nextChunk, buffer, waitforack>>,
             \A d \in InFlight(toReceiver') : Numbered(d)
      PROVE  TypeInv' /\ ~(Sent' > Sent)
  <2>1. Sent' = Sent /\ Sent \in Int
    BY <1>2, <1>6 DEF Sent
  <2>2. TypeOK'
    BY <1>1, <1>6 DEF TypeInv, TypeOK
  <2>3. QueuesAreWindow'
    BY <1>6 DEF TypeInv, QueuesAreWindow
  <2>4. \E bound \in Nat : acked' \subseteq 0 .. bound
    BY <1>1 DEF TypeInv
  <2>5. TypeInv'
    BY <1>6, <2>2, <2>3, <2>4 DEF TypeInv
  <2> QED
    BY <2>1, <2>5
<1>7. ASSUME sphase' = "cw_status", UNCHANGED faults, cc' \in CongestionState,
             IsWindow(waitforack', buffer', nextChunk'),
             \A d \in InFlight(toReceiver') : Numbered(d)
      PROVE  TypeInv'
  <2>1. nextChunk' \in 0 .. Total
    BY <1>7 DEF IsWindow
  <2> QED
    BY <1>1, <1>7, <2>1 DEF TypeInv, TypeOK, QueuesAreWindow
<1>8. CASE Start
  <2> DEFINE p == packetToBuffer(BUFFER_SIZE, 0)
             n == ReadCount(BUFFER_SIZE, 0)
  <2>1. /\ sphase = "start" /\ sphase' = "cw_status" /\ UNCHANGED <<faults, cc>>
        /\ send(cc, << >>, p, n)
    BY <1>8 DEF Start
  <2>2. nextChunk = 0 /\ buffer = << >> /\ Len(<< >>) = 0
    BY <2>1 DEF TypeInv, QueuesAreWindow
  <2>3. IsWindow(<< >>, p, n)
    BY FirstWindow
  <2>4. n - Len(p) = Sent
    <3>1. n \in Nat /\ Len(p) = n
      BY SenderAssumption, WindowAssumption, SeqOfPackets
    <3> QED
      BY <2>2, <3>1 DEF Sent
  <2> HIDE DEF p, n
  <2>5. /\ IsWindow(waitforack', buffer', nextChunk')
        /\ \A d \in InFlight(toReceiver') : Numbered(d)
        /\ Sent' > Sent => Len(waitforack') * Scale <= cc'.cwnd
    BY <1>2, <2>1, <2>3, <2>4, SendTyped DEF Sent
  <2> QED
    BY <1>2, <1>7, <2>1, <2>5
<1>9. CASE Timeout
  <2>1. /\ sphase = "cw_status" /\ TimerExpires /\ Resend(waitforack)
        /\ cc' = OnTimeout(cc)
        /\ UNCHANGED <<sphase, nextChunk, buffer, waitforack>>
    BY <1>9 DEF Timeout, InLoop, congestion_window
  <2>2. cc' \in CongestionState
    BY <1>2, <2>1, WindowTypes
  <2> QED
    BY <1>3, <1>5, <1>6, <2>1, <2>2
<1>10. CASE StartFin
  <2>1. /\ sphase = "cw_status" /\ sphase' = "fin_ack"
        /\ toReceiver' = With(toReceiver, {FinPkt})
        /\ UNCHANGED <<faults, nextChunk, buffer, waitforack, cc>>
    BY <1>10 DEF StartFin
  <2>2. Numbered(FinPkt)
    BY DEF Numbered, FinPkt
  <2> QED
    BY <1>2, <1>4, <1>6, <2>1, <2>2
<1>11. CASE FinTimeout
  <2>1. /\ sphase = "fin_ack" /\ sphase' = "failed" /\ TimerExpires
        /\ UNCHANGED <<toReceiver, nextChunk, buffer, waitforack, cc>>
    BY <1>11 DEF FinTimeout
  <2> QED
    BY <1>2, <1>3, <1>6, <2>1 DEF TypeInv
<1>12. ASSUME NEW m \in InFlight(toSender), NewAck(m)
       PROVE  TypeInv' /\ (Sent' > Sent => Len(waitforack') * Scale <= cc'.cwnd)
  <2> DEFINE k == Covered(m.ackNum)
             w == SubSeq(waitforack, k + 1, Len(waitforack))
  <2>1. /\ sphase = "cw_status" /\ sphase' = "cw_status" /\ UNCHANGED faults
        /\ cc' = AfterNewAcks(cc, k)
        /\ send(cc', w, buffer, nextChunk)
    BY <1>12 DEF NewAck, InLoop, SenderGets
  <2>2. IsWindow(waitforack, buffer, nextChunk)
    BY <2>1 DEF TypeInv, QueuesAreWindow
  <2>3. k \in 0 .. Len(waitforack)
    BY <2>2, CoveredBound DEF IsWindow
  <2> HIDE DEF k
  <2>4. IsWindow(w, buffer, nextChunk)
    BY <2>2, <2>3, WindowAfterPop
  <2>5. cc' \in CongestionState /\ cc'.cwnd \in Nat
    <3>1. k \in Nat
      BY <1>2, <2>3
    <3>2. cc' \in CongestionState
      BY <1>2, <2>1, <3>1, AfterNewAcksType
    <3> QED
      BY <3>2 DEF CongestionState
  <2> HIDE DEF w
  <2>6. /\ IsWindow(waitforack', buffer', nextChunk')
        /\ \A d \in InFlight(toReceiver') : Numbered(d)
        /\ Sent' > Sent => Len(waitforack') * Scale <= cc'.cwnd
    BY <2>1, <2>4, <2>5, SendTyped DEF Sent
  <2> QED
    BY <1>7, <2>1, <2>5, <2>6
<1>13. ASSUME NEW m \in InFlight(toSender), DupAck(m)
       PROVE  TypeInv' /\ ~(Sent' > Sent)
  <2> DEFINE c == OnDupAck(cc)
  <2>1. /\ sphase = "cw_status" /\ UNCHANGED <<sphase, faults, nextChunk, buffer, waitforack>>
        /\ \/ cc' = EnterFastRecovery(c) /\ Resend(waitforack)
           \/ cc' = c /\ UNCHANGED toReceiver
    BY <1>13 DEF DupAck, InLoop, SenderGets, congestion_window
  <2>2. c \in CongestionState
    BY <1>2, WindowTypes
  <2> HIDE DEF c
  <2>3. cc' \in CongestionState
    BY <2>1, <2>2, WindowTypes
  <2>4. \A d \in InFlight(toReceiver') : Numbered(d)
    BY <1>5, <2>1 DEF TypeInv
  <2> QED
    BY <1>2, <1>6, <2>1, <2>3, <2>4
<1>14. ASSUME NEW m \in InFlight(toSender), OldAck(m) \/ FinRetry(m) \/ FinDone(m)
       PROVE  TypeInv' /\ ~(Sent' > Sent)
  <2>1. /\ sphase # "start" /\ sphase' \in {"cw_status", "fin_ack", "done"}
        /\ UNCHANGED <<faults, nextChunk, buffer, waitforack, cc>>
        /\ UNCHANGED toReceiver \/ toReceiver' = With(toReceiver, {FinPkt})
    BY <1>14 DEF OldAck, FinRetry, FinDone, InLoop, SenderGets, senderVars
  <2>2. Numbered(FinPkt)
    BY DEF Numbered, FinPkt
  <2>3. \A d \in InFlight(toReceiver') : Numbered(d)
    BY <1>4, <2>1, <2>2 DEF TypeInv
  <2> QED
    BY <1>2, <1>6, <2>1, <2>3
<1> QED
  BY <1>8, <1>9, <1>10, <1>11, <1>12, <1>13, <1>14
  DEF SenderStep, Start, Timeout, StartFin, FinTimeout

\* The receiver puts nothing in flight towards itself and never touches the
\* queues; its early packets stay bounded and numbered by naturals.
LEMMA ReceiverTyped ==
    ASSUME TypeInv, ReceiverStep, UNCHANGED senderVars
    PROVE  TypeInv' /\ Sent' = Sent
<1>1. /\ sphase' = sphase /\ nextChunk' = nextChunk /\ buffer' = buffer
      /\ waitforack' = waitforack /\ cc' = cc
  BY DEF senderVars
<1>2. Sent' = Sent /\ QueuesAreWindow'
  BY <1>1 DEF TypeInv, QueuesAreWindow, Sent
<1>3. /\ currSeq \in Nat /\ expectSeq \in Nat /\ acked \subseteq Nat
      /\ DOMAIN rbuffer \subseteq Nat
  BY DEF TypeInv, TypeOK
<1>4. PICK bound \in Nat : acked \subseteq 0 .. bound
  BY DEF TypeInv
<1>5. ASSUME InFlight(toReceiver') \subseteq InFlight(toReceiver), faults' = faults,
             rphase' \in {"receiving", "closed"}, currSeq' \in Nat, expectSeq' \in Nat,
             DOMAIN rbuffer' \subseteq Nat,
             \E b \in Nat : acked' \subseteq 0 .. b
      PROVE  TypeInv'
  <2>1. acked' \subseteq Nat
    BY <1>5
  <2>2. TypeOK'
    BY <1>1, <1>5, <2>1 DEF TypeInv, TypeOK
  <2> QED
    BY <1>2, <1>5, <2>2 DEF TypeInv
<1>6. ASSUME NEW m \in InFlight(toReceiver), ReceiveEarly(m)
      PROVE  TypeInv'
  <2> DEFINE e == currSeq + m.seqNum - expectSeq
  <2>1. /\ m.seqNum > expectSeq /\ m.type = "DATA"
        /\ toReceiver' = Without(toReceiver, m) /\ faults' = faults
        /\ acked' = acked \cup {e} /\ DOMAIN rbuffer' = DOMAIN rbuffer \cup {e}
        /\ UNCHANGED <<rphase, expectSeq, currSeq>>
    BY <1>6 DEF ReceiveEarly, ReceiverGets, insert
  <2>2. m.seqNum \in Nat
    BY <2>1 DEF TypeInv, Numbered
  <2>3. e \in Nat
    BY <1>3, <2>1, <2>2
  <2> HIDE DEF e
  <2>4. acked' \subseteq 0 .. bound + e /\ bound + e \in Nat
    BY <1>4, <2>1, <2>3
  <2>5. InFlight(toReceiver') \subseteq InFlight(toReceiver)
    BY <2>1, ChannelContents
  <2>6. rphase' \in {"receiving", "closed"}
    BY <2>1 DEF TypeInv, TypeOK
  <2> QED
    BY <1>3, <1>5, <2>1, <2>3, <2>4, <2>5, <2>6
<1>7. ASSUME NEW m \in InFlight(toReceiver), ReceiveInOrder(m)
      PROVE  TypeInv'
  <2> DEFINE next == AfterRun(currSeq + 1)
  <2>1. /\ toReceiver' = Without(toReceiver, m) /\ faults' = faults
        /\ acked' \subseteq acked /\ DOMAIN rbuffer' = DOMAIN rbuffer \cup {currSeq}
        /\ expectSeq' = expectSeq + (next - currSeq) /\ currSeq' = next
        /\ rphase' = rphase
    BY <1>7 DEF ReceiveInOrder, ReceiverGets, assign
  <2>2. next \in Nat /\ next >= currSeq + 1
    <3>1. currSeq + 1 \in Nat
      BY <1>3
    <3> QED
      BY <1>4, <3>1, AfterRunEnds
  <2> HIDE DEF next
  <2>3. InFlight(toReceiver') \subseteq InFlight(toReceiver)
    BY <2>1, ChannelContents
  <2>4. rphase' \in {"receiving", "closed"}
    BY <2>1 DEF TypeInv, TypeOK
  <2>5. \E b \in Nat : acked' \subseteq 0 .. b
    BY <1>4, <2>1
  <2>6. /\ currSeq' \in Nat /\ expectSeq' \in Nat /\ DOMAIN rbuffer' \subseteq Nat
    BY <1>3, <2>1, <2>2
  <2> QED
    BY <1>5, <2>1, <2>3, <2>4, <2>5, <2>6
<1>8. ASSUME NEW m \in InFlight(toReceiver),
             ReceiveOld(m) \/ ReceiveFin(m) \/ ReceiveJunk(m)
      PROVE  TypeInv'
  <2>1. /\ toReceiver' = Without(toReceiver, m) /\ faults' = faults
        /\ UNCHANGED <<expectSeq, currSeq, acked, rbuffer>>
        /\ rphase' = rphase \/ rphase' = "closed"
    BY <1>8 DEF ReceiveOld, ReceiveFin, ReceiveJunk, ReceiverGets, receiverVars
  <2>2. InFlight(toReceiver') \subseteq InFlight(toReceiver)
    BY <2>1, ChannelContents
  <2>3. rphase' \in {"receiving", "closed"}
    BY <2>1 DEF TypeInv, TypeOK
  <2> QED
    BY <1>3, <1>4, <1>5, <2>1, <2>2, <2>3
<1>9. CASE ClosedPort
  <2>1. toReceiver' = EmptyBag /\ UNCHANGED <<faults, receiverVars>>
    BY <1>9 DEF ClosedPort
  <2>2. InFlight(toReceiver') = {}
    BY <2>1 DEF InFlight, BagToSet, EmptyBag, SetToBag
  <2>3. rphase' \in {"receiving", "closed"}
    BY <2>1 DEF TypeInv, TypeOK, receiverVars
  <2>4. /\ currSeq' = currSeq /\ expectSeq' = expectSeq /\ rbuffer' = rbuffer
        /\ acked' = acked /\ faults' = faults
    BY <2>1 DEF receiverVars
  <2>5. TypeInv'
    BY <1>3, <1>4, <1>5, <2>2, <2>3, <2>4
  <2> QED
    BY <1>2, <2>5
<1> QED
  BY <1>2, <1>6, <1>7, <1>8, <1>9 DEF ReceiverStep

\* The network repeats what is in flight and makes up nothing.
LEMMA NetworkTyped ==
    ASSUME TypeInv, UNCHANGED <<senderVars, receiverVars>>,
           Lose \/ Duplicate \/ UNCHANGED netVars
    PROVE  TypeInv' /\ Sent' = Sent
<1>1. /\ sphase' = sphase /\ nextChunk' = nextChunk /\ buffer' = buffer
      /\ waitforack' = waitforack /\ cc' = cc
      /\ expectSeq' = expectSeq /\ currSeq' = currSeq /\ acked' = acked
      /\ rbuffer' = rbuffer /\ rphase' = rphase
  BY DEF senderVars, receiverVars
<1>2. Sent' = Sent /\ QueuesAreWindow'
  BY <1>1 DEF TypeInv, QueuesAreWindow, Sent
<1>3. ASSUME NEW m \in InFlight(toReceiver), toReceiver' = With(toReceiver, {m})
      PROVE  InFlight(toReceiver') \subseteq InFlight(toReceiver)
  <2>1. InFlight(With(toReceiver, {m})) = InFlight(toReceiver) \cup {m}
    BY ChannelContents, Zenon
  <2> QED
    BY <1>3, <2>1
<1>4. ASSUME NEW m, toReceiver' = Without(toReceiver, m)
      PROVE  InFlight(toReceiver') \subseteq InFlight(toReceiver)
  BY <1>4, ChannelContents
<1>5. InFlight(toReceiver') \subseteq InFlight(toReceiver)
  BY <1>3, <1>4 DEF Lose, Duplicate, netVars
<1>6. faults' \in 0 .. MaxFaults
  BY FaultAssumption DEF Lose, Duplicate, Misfortune, netVars, TypeInv, TypeOK
<1>7. TypeOK'
  BY <1>1, <1>6 DEF TypeInv, TypeOK
<1> QED
  BY <1>1, <1>2, <1>5, <1>7 DEF TypeInv

\* The invariant holds at the start.
LEMMA InitTyped == Init => TypeInv
<1> SUFFICES ASSUME Init PROVE TypeInv
  OBVIOUS
<1>1. /\ sphase = "start" /\ nextChunk = 0 /\ buffer = << >> /\ waitforack = << >>
      /\ cc = InitCongestion /\ rphase = "receiving" /\ expectSeq = 0 /\ currSeq = 0
      /\ acked = {} /\ rbuffer = << >> /\ toReceiver = EmptyBag /\ faults = 0
  BY DEF Init, NetInit, SenderInit, ReceiverInit
<1>2. cc \in CongestionState
  BY <1>1, WindowAssumption DEF InitCongestion, CongestionState, CwStates
<1>3. InFlight(toReceiver) = {}
  BY <1>1 DEF InFlight, BagToSet, EmptyBag, SetToBag
<1>4. QueuesAreWindow
  BY <1>1 DEF QueuesAreWindow
<1>5. acked \subseteq 0 .. 0 /\ 0 \in Nat /\ DOMAIN rbuffer = {}
  BY <1>1
<1>6. TypeOK
  BY <1>1, <1>2, <1>5, SenderAssumption, FaultAssumption DEF TypeOK
<1> QED
  BY <1>3, <1>4, <1>5, <1>6 DEF TypeInv

\* The invariant through every step, and the window at every new packet.
LEMMA StepTyped ==
    ASSUME TypeInv, [Next]_vars
    PROVE  TypeInv' /\ (Sent' > Sent => Len(waitforack') * Scale <= cc'.cwnd)
<1>1. CASE SenderStep /\ UNCHANGED receiverVars
  BY <1>1, SenderTyped
<1>4. ~(Sent > Sent)
  <2>1. Sent \in Int
    BY SenderAssumption DEF TypeInv, TypeOK, QueuesAreWindow, IsWindow, Sent
  <2> QED
    BY <2>1
<1>2. CASE ReceiverStep /\ UNCHANGED senderVars
  BY <1>2, <1>4, ReceiverTyped
<1>3. CASE (Lose \/ Duplicate) /\ UNCHANGED <<senderVars, receiverVars>>
  BY <1>3, <1>4, NetworkTyped
<1>5. CASE UNCHANGED vars
  BY <1>4, <1>5, NetworkTyped DEF vars
<1> QED
  BY <1>1, <1>2, <1>3, <1>5 DEF Next, Terminated

\* For files of any length, sequence numbers that wrap around included: every
\* variable keeps its type, and the queues of sender_main stay a window on the
\* file, whatever acknowledgements arrive.  (What the receiver makes of the
\* packets is another matter: see SequenceWrap.)
THEOREM TransferType == Spec => [](TypeOK /\ QueuesAreWindow)
<1>1. TypeInv /\ [Next]_vars => TypeInv'
  BY StepTyped
<1>2. TypeInv => TypeOK /\ QueuesAreWindow
  BY DEF TypeInv
<1> QED
  BY <1>1, <1>2, InitTyped, PTL DEF Spec

\* send(): a packet that was not sent before leaves only into a congestion window
\* with room for everything outstanding, for every file and every network.
THEOREM TransferWindow == Spec => SendsWithinWindow
<1>1. TypeInv /\ [Next]_vars => TypeInv'
  BY StepTyped
<1>2. TypeInv /\ [Next]_vars
        => [Sent' > Sent => Len(waitforack') * Scale <= cc'.cwnd]_vars
  BY StepTyped
<1> QED
  BY <1>1, <1>2, InitTyped, PTL DEF Spec, SendsWithinWindow
=============================================================================
