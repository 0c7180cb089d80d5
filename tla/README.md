# Verification of Communication_Network

The repository holds five independent network programs: `mp0` (a stream server
and client), `mp1` (an HTTP server and client), `mp2` (a reliable file transfer
over UDP with TCP-like congestion control), `mp3` (link-state and
distance-vector routing) and `mp4` (a slotted simulation of CSMA).  This
directory models all five in TLA+, checks the models with TLC and proves with TLAPS
every safety property that the runs check, for every value of the constants.

## 1. Inventory

| Component | State | Operations | Talks to |
|---|---|---|---|
| mp2 congestion window (`sender_main.cpp` 147-203, 260-270) | `cwnd`, `thread`, `dupAckCount`, `cw_state` | `congestion_window` on a timeout, a new and a duplicate ack; the third-duplicate branch of `cw_status` | called by the sender |
| mp2 sender (`sender_main.cpp`) | queues `buffer` and `waitforack`, `read_bytes`, `seq_number`, place in the program | `packetToBuffer`, `send`, the loops of `cw_status` and `fin_ack` | UDP datagrams to and from the receiver, 40 ms receive timeout |
| mp2 receiver (`receiver_main.cpp`) | `expectSeq`, `currSeq`, `acked`, `buffer`, the file | one loop: early, expected or old DATA, FIN | UDP |
| mp3 link state (`linkstate.cpp`) | `costMap`, `allNodes`, `forwardingTable` | read topology, Dijkstra from every node, send messages, apply one change and recompute | files only |
| mp3 distance vector (`distvec.cpp`) | `topo`, `nodes`, `forwardTable` | Bellman-Ford rounds in place, send messages, apply one change and recompute | files only |
| mp4 simulation (`csma.cpp`, `node.h`) | vector of nodes (`backoff`, `collisionNum`, `transmitTime`, `isCollided`), `currTime`, `numOfSuccess` | one slot of `simulation` | files only |
| mp1 HTTP server | the listening socket, `newFd`, one child process per connection | bind, accept, fork, close, wait for children in the `SIGCHLD` handler; in the child one `recv`, status line, file | TCP, signals |
| mp1 HTTP client | bytes of the reply | cut the URL into its parts, request, header search, copy to `output` | TCP |
| mp0 stream pair | as mp1, with one string to send | length-prefixed reply, one `recv` | TCP, signals |
| datagram demos, course templates, socket set-up, scripts | none to speak of | | |

What is hard in them:

* **mp2.** Two processes and a network that loses, duplicates, reorders and
  delays.  Correctness rests on relations between the two sides (nothing is
  forgotten by one before it is written by the other), on the order of the
  shutdown, and on arithmetic at boundaries (sequence numbers modulo
  `MAX_SEQUENCE_NUM`, a window that is a `double`, `front()` of a queue that may
  be empty).  It should copy the file whole, and end.
* **mp4.** Sequential code, but for a state machine per node in which several
  causes (finished packet, given-up packet, collision, the others' transmissions)
  reset the same four counters in the same slot.  A packet under way should
  never be broken into.
* **mp3.** Sequential algorithms whose tie rules, sentinel costs, in-place
  updates and hop-following loops must agree.  Tables should hold the cheapest
  routes with the stated tie rule, and messages should arrive.
* **mp1, mp0.** A server of one process per connection: a connection ends only
  when parent and child have both closed it, several children may exit on one
  signal, and `recv` cuts a stream where it likes, while both programs take one
  `recv` for a whole request or head.  Error paths fall through.  Every connection
  should end, every child be waited for, and what is written be what was served.

`PROJECT.json` lists each of these hazards at its line, with the property that
covers it, or the reason why none does.

## 2. Plan

1. *(done)* mp2: `CongestionWindow`, `CongestionControl`, `UdpNetwork`,
   `ReliableReceiver`, `ReliableSender`, composed by `ReliableTransfer`; the
   abstract specification `FileTransfer`; proofs.
2. *(done)* mp4: `Csma`, its abstract specification `SharedChannel`, proofs.
3. *(done)* mp3: `Routes` (networks and the reference definition of cheapest
   routes), `Routing` (the abstract specification), `LinkState` and `DistVec`,
   which both implement it.
4. *(done)* mp1 and mp0: `Streams`, `ForkServer`, `HttpExchange`, composed by
   `StreamServers`; `UrlParts`.
5. *(done)* the proofs of every invariant, action property and refinement that a
   passing run checks (section 7): `RoutesProofs`, the laws of cheapest routes, and on
   them `LinkStateProofs` and `DistVecProofs`; `StreamServersProofs`;
   `CongestionWindowProofs`, the types of the window after any number of
   acknowledgements.
6. Proofs still worth having: which parts of `TransferSafety` survive sequence numbers
   that wrap around; the decreasing measure behind `MessagesArrive` as an action
   property.

## 3. The modules of mp2

| Module | Models |
|---|---|
| `CongestionWindow` | the four globals as one record and every branch of `congestion_window`; `AfterNewAcks` is the `while` loop that calls it once per covered packet |
| `CongestionControl` | that record under any sequence of timeouts, new and duplicate acks |
| `UdpNetwork` | the two directions as bags of datagrams; `Lose`, `Duplicate`; reordering is free |
| `ReliableReceiver` | `reliablyReceive`: one action per datagram, by its type and its number's place relative to `expectSeq` |
| `ReliableSender` | `reliablyTransfer`: `Start`, then one action per return of `recvfrom` in `cw_status` (`NewAck`, `DupAck`, `OldAck`, `Timeout`) and in `fin_ack` (`FinRetry`, `FinDone`, `FinTimeout`) |
| `ReliableTransfer` | the two programs and the network; the properties |
| `FileTransfer` | what the user is promised: the copy grows along the file, the receiver stops only with the whole copy, the sender succeeds only after that |

Abstractions:

* **Atomicity.** Each program is a single loop around `recvfrom` and shares
  nothing but the network, so an action is a return of `recvfrom` with
  everything done until the next call.  A `send` that transmits several
  packets puts them all on the network at once; the network may deliver them in
  any order and at any time afterwards.
* **Bytes.** A packet's data is the number of the chunk of the file it carries.
  The receiver's `buffer` is keyed by byte offset in the code and by packet
  number here; `dataSize` is part of the chunk.
* **`cwnd` and `thread`** are doubles.  They count units of `1/Scale` packet; a
  quotient is rounded down, to one unit at least, since a double halved a few
  times remains positive.
* **`front()` of an empty queue** is undefined.  The build finds the memory of a
  packet popped earlier, or other bytes: `FrontPkts` and `FrontSeqNums` offer any
  popped packet, a packet of no known type, and any number in, below or above
  those in use.
* **Timeouts.** A timeout while a datagram is in flight counts as a misfortune,
  like a loss or a duplication, and `MaxFaults` bounds the three together.  When
  nothing is in flight the timeout is free.
* **Datagrams for a closed port** vanish (`ClosedPort`).
* The file is taken to hold the bytes asked for.  Failing `sendto`, `fopen` and
  socket calls, which end the program, are left out, and so is the receiver's
  exit on an empty datagram, which the sender never sends.

Definitions whose name has a suffix after the modelled name (`DupAck_NoReset`,
`Capped_OffByOne`, ...) are plausible mistakes.  No specification uses them:
put in place of the definition they vary, each makes TLC report the property
that `PROJECT.json` names for it.

### Runs

| Run | Instance | Shows |
|---|---|---|
| `CongestionControl` | `Scale` 4, `BUFFER_SIZE` 8, `INIT_THREAD` 4; the whole state space | `WindowCapped`, `SlowStartBelowThreshold`, `SubPacketWindowOnlyInAvoidance`, `DupAcksConsumed` |
| `TransferSafety` | 5 packets, buffer of 3, `Scale` 2, 5 faults | the data invariants, `ImplementsFileTransfer` and `SendsWithinWindow`, also in the states where the sender reads an empty queue |
| `TransferEnds` | 4 packets, 4 faults, `FairSpec` | `SenderEnds`; `ReceiverEndsUnlessFailed` |
| `SequenceWrap` | 4 packets, 3 sequence numbers, no faults | violates `CopiedWhole` |
| `LostFin` | 4 packets, 1 fault, `FairSpec` | violates `BothEnd` |
| `WindowCollapse` | 4 packets, 5 faults, `FairSpec` | violates `SenderEnds` |

Why these bounds.  A file longer than the buffer makes `packetToBuffer` run
again in the middle of the transfer.  `INIT_THREAD` 2 takes the sender through
slow start, congestion avoidance and fast recovery within four packets.  Five
faults are the fewest after which `waitforack` is empty while `buffer` is not
(see `WindowCollapse`), so `TransferSafety` visits every undefined read of the
code; four or fewer do not reach one, which is why `SenderEnds` holds in
`TransferEnds` and fails one fault later.  `ReceiverEndsUnlessFailed` excuses a
sender that gave up, but only after a fault: over a network that only reorders
both programs end, which `LostFin` refutes with one fault.  `Scale` 2 tells half a
packet from none, which the sub-packet window needs.  The `CongestionControl` run is
exhaustive for its constants.  `MAX_SEQUENCE_NUM` equals the number of packets, the
largest file without wrap-around.

Deadlock is checked in every run: a receiver waiting on an ended sender is
allowed to stutter (`Terminated`), anything else must be able to move.

### Fairness

`FairSpec` has weak fairness of the sender's steps and of the receiver's steps,
nothing of the network's.  Both programs are single loops that go back to
`recvfrom` after every datagram: a datagram that has arrived is read, and a
receive timeout that remains due fires.  Which datagram comes first, and how
early a timeout is, is left open.  Fairness does not require the network to be
kind; the finite number of faults does.

### Findings

1. **Sequence numbers wrap on one side only** (`SequenceWrap`).  The sender
   numbers packets modulo `MAX_SEQUENCE_NUM`; the receiver's `expectSeq` only
   grows, and the sender compares numbers as plain integers.  From packet
   `MAX_SEQUENCE_NUM` (100000, about 140 MB) on every packet is old to the
   receiver, whose acknowledgements cover it nonetheless: the sender reports
   success and the copy is cut short, where `compare.sh` expects `diff` to find
   no difference.
2. **A lost FIN is fatal** (`LostFin`).  The 40 ms timeout is still set in
   `fin_ack`, whose loop would send FIN again but whose error branch exits
   first.  If FIN itself was lost the receiver waits for ever, and so does the
   `wait` of `compare.sh`.
3. **A window below one packet** (`WindowCollapse`).  A timeout and then three
   duplicates leave `thread` at 0.5; leaving fast recovery sets `cwnd` to it.  If
   the same acknowledgement empties `waitforack`, nothing can be sent and nothing
   is waiting: the sender resends whatever it finds in an empty queue, and need
   never end.

## 4. The modules of mp4

`Csma` is the loop of `simulation`.  An iteration is one action: first every node
is brought up to date (`Prepared`: a new packet after a finished or given-up one,
a new backoff after a collision, as in lines 73-82 with `randomizeCollisonNum`),
then the slot is `Transmit`, `Collide` or `Idle` by the number of nodes whose
backoff is zero.  `Init` is `initialization` on any input file in `Inputs`.
`SharedChannel` is the promise without backoffs: a packet that has its first slot
has all its slots in a row.  `MCCsma` supplies every input with up to four nodes,
packets of up to three slots, one or two collisions before giving up and backoff
ranges of up to four; with `T` = 40 the `Csma` run covers the simulation of each
of these files, long enough for nodes to give packets up, collide again and start
new packets.  Larger inputs are covered by the proofs.

`TypeOK` here says that no counter leaves its range, which is not obvious: it
keeps `collisionNum` from indexing past `R`.  `ChannelHeld` and
`CollisionsOnlyAtStart` are carrier sense; `WholePackets` says that the
utilisation written to `output.txt` counts whole packets.

The simulation is deterministic once its file is chosen, and `T` ends it: there is
no fairness to assume and no liveness to check.  The model assumes what
`input.txt` shows of a well-formed file (`InputAssumption`): `R` has `M` entries,
and nothing it divides by or indexes with is zero.

## 5. The modules of mp3

| Module | Models |
|---|---|
| `Routes` | networks as the files describe them, `Relinked` (one changed link), and, as reference, cheapest routes by definition: `Cheapest` over growing sets of inner nodes, `CheapestWithin` over a number of links |
| `Routing` | what both programs promise: a table of cheapest routes for the network as it is, then changes, then a new table |
| `LinkState` | `linkstate.cpp`: `StartSearch`, `Confirm`, `FillEntry`, `FinishSource` are `dijkstra`, one action for each iteration of its loops; `Send`, `Hop`, `Deliver` are `messagetext`; `Change` is `change` |
| `DistVec` | `distvec.cpp`: `GenerateForwardTable`, `FindMinPath` (one call), `EndRound`, `Announce` are `generateForwardTable` and `bellMan`; `SendMessage`, `Hop`, `Deliver` are `sendMessage`; `Change` is the loop of `main` |

Both programs are sequential.  Their intermediate states matter nonetheless:
Dijkstra's loop never looks at a confirmed node again, and Bellman and Ford's
reads a table half of which is of this round.  The invariants are about those
states, and the refinement of `Routing` about what is announced: `ready` is the
time from the printing of the tables to the next change.

Abstractions:

* Messages are any pair of nodes, in any number and order; their texts are left
  out.  A message to an unknown or unreachable node changes nothing.  `distvec`
  reports "cost 0" of an unknown node, as the entry of its array is zero, where
  `linkstate` reports that there is no route.
* Negative costs (-1 and -999) are `NoLink`.  Lines with a zero, which `linkstate`
  skips, change nothing; the model has no link from a node to itself and no link
  of cost zero, as the course's files have none.  Nothing is said of `distvec` with
  such links: its next hops might then go round in a circle.
* An empty line of the changes file makes `distvec` apply the line before it once
  more; `Change` may repeat any change, and no property objects to it.
* `distvec` learns its nodes from the topology file alone: of a change that names
  another node, it stores a link that it never reads.  `DistVec` leaves `topo` as
  it is then, and implements `Routing` for the network of the known nodes.
  `linkstate` adds the node, and never forgets one, not even a node without links.
* `linkstate` prints the rows of the IDs 1 to the number of nodes, so that rows of
  a topology with gaps in its IDs are missing from `output.txt`.  The model is about
  the tables, not the file.
* `MAXCOST` is 5 in the run, so that there are routes that cost as much as "no
  route" and more: they count as none, in `Routing` too.
* The `hops` of `LinkState` are cut at `MaxHops`, the number of nodes; a message
  that is delivered has fewer.

| Run | Instance | Shows |
|---|---|---|
| `LinkState` | every network of four nodes with links of cost 1 and 3, `MAXCOST` 5, any number of changes | `ConfirmedFinal`, `LowestPredecessor` (the comment of line 52), `HopsAddUp`, `ImplementsRouting`, `MessagesArrive` |
| `DistVec` | the same networks | `EntriesBacked`, `RoundsCover`, `SymmetricCosts`, `ImplementsRouting`, `MessagesArrive` |

Why these bounds.  With costs 1 and 3 a route of three links ties with one of one
link, and routes of two links tie with each other, in every order of the node
numbers; four nodes have routes of three links, for which one round in place does
not suffice in some order and does in another.  The state space is complete: any
number of changes and messages, between all networks.  Networks that fall apart
and nodes without links are among them.

Fairness is that of the loop over the hops: a sequential program that has started
it goes on.  `MessagesArrive` then says that the tables never lead a message in a
circle; it needs no fairness of the search, whose loops are counted.

`EntriesBacked` is the reason why `distvec` never counts to infinity: the tables are
generated anew after each change, so that no entry rests on a link that is gone.
A variant that keeps old entries violates it.

## 6. The modules of mp1 and mp0

| Module | Models |
|---|---|
| `Streams` | TCP as the programs see it: the two streams of a connection, who holds the server's end, what `close` and `recv` do (external) |
| `ForkServer` | what `http_server.cpp` and `server.c` have word for word in common: the loop over addresses, accept, fork, close, the `SIGCHLD` handler, and the child's sends and exit |
| `HttpExchange` | the child of `http_server` (`ReadRequest`, `Replies`) and `http_client` |
| `StreamServers` | clients that come and are killed, the exchange of mp0 (`StartReply`, `ReceiveOnce`, `ReceiveNothing`), the composition, the properties |
| `UrlParts` | `cli_process` of `http_client`, one action for each character |

`program`, `file` and `method` are chosen in `Init`: which of the two programs runs,
what it serves, and whether the clients of mp1 ask with `GET`.  `http_client` does;
a client that does not is answered with a 400, a second status line and perhaps the
file, and is taken to receive as `http_client` does.  `output` is what a client has
written of what `recv` returned, `stray` whether it has also written bytes that no
`recv` returned.  The parent, its handler, the children and the clients are processes
that interleave; the parent stands still while its handler runs.

Abstractions:

* A stream is a sequence of symbols and `recv` returns any non-empty part of what
  waits.  A request is four symbols, by which its possible cuts differ: too short
  for `GET`, the path cut, the path whole, all.  A head is two.  The string of mp0 is
  its length, each of its three newlines, and the bytes of the file.
* `ClientBuffer` is the room of the client of mp1 (1000000 bytes).  A `recv` that
  fills it leaves no NUL, and the client writes on behind it (`Overrun`).  The 99
  bytes that mp0's client takes are one of the cuts; its buffer has room for a NUL.
* mp0's client prints from two bytes behind the first newline (`PrintedFrom`).  If its
  `recv` ended there, that is behind the NUL, where nothing was written: `stray`.
* Behind a request that is cut lies what was in the child's uninitialised buffer.
  The model takes it for neither the rest of `GET` nor the rest of a file's name.
* What a `NULL` from `strstr` or `strchr`, or the second `fclose` of one file, does
  is undefined: the client may crash, and where a build may survive, go on.  From
  `strchr`'s, mp0's client prints what an arbitrary place holds (`PrintAnywhere`).
* A close with unread data is a reset.  The client may then lose what it has not
  received, and its `recv` returns -1, which it takes for the end.
* A child that sends to a client that is gone may be ended by `SIGPIPE` or not.
* `setsockopt`, `listen` and `sigaction` that fail end the server.  A failing
  `accept` changes nothing.  `MaxFaults` bounds failing forks and killed clients.

| Run | Instance | Shows |
|---|---|---|
| `StreamServers` | two clients, one fault, two addresses, files of a block and a half with and without a NUL, and a missing file; a buffer of four symbols | `ZombiesNoticed`, `OutputInOrder`, `StrayExplained`, `WholeFile` |
| `StreamsEnd` | two clients, one fault, one address, a file of one block and a missing one, `FairSpec` | `ConnectionsEnd` |
| `UrlParts` | host/file, host/dir/file and host:port/dir/file | violates `PartsAsDescribed` |

Why these bounds.  Two children are what one signal can stand for; two connections
are a parent that accepts while a child runs.  A block and a half takes both
branches of the loop to `feof`, and streams of up to seven symbols are cut before,
inside and behind the head, the newlines and the blocks.  Four symbols fit into the
client's buffer, so that the file of mp1 with its head may fill it and a NUL may end
it early.  The state spaces are complete.  `StreamServers` takes connections that
differ in nothing but their names for one; `StreamsEnd`, which checks liveness, does
not, and has the smaller files.  Deadlock is not checked here: the server waits in
`accept` when no client comes.

Fairness: while the server, a child or a client can go on, one of them does.
Fairness of each process is not needed, since each takes finitely many steps for
a connection.  Clients need not come, forks need not fail.

What a client should write is `Expected`: what follows the first two newlines of mp0's
string, and what follows the first head of mp1's answer, which is the file, nothing,
or, behind a 400, a second head and what comes with it.  Each condition of
`WholeFile` is a weakness of the code: mp1's request was read whole, mp0's one `recv`
returned everything, the answer has no NUL, and the client did not crash.
`OutputInOrder` is what is left without them: of what `recv` returned, what belongs to
the answer, once and in order.  It says nothing of bytes from elsewhere, which both
clients may write; `StrayExplained` says when: in mp0 if the stream was cut at its
first newline or before it, or nothing was sent, and in mp1 if the answer is long
enough to fill the buffer.

Finding: **paths with directories** (`UrlParts`).  The comment over `cli_process`
says `http://hostname[:port]/path/to/file`.  The loop goes on after the first
slash, and each further one overwrites the host and the path: `host/dir/file`
becomes the host `host/dir` and the path `/file`.  Behind a port the inner loop
does the same.  Paths without a directory are cut as described.

## 7. Proofs

Every theorem is about the same definitions that the runs check.  Induction over data
is done by least counterexamples: the library's `WFMin` gives a set of naturals
its least element, and from a property that fails somewhere follows a first place
where it fails.  Recursive functions are handled the same way: that a function
with the recursive equation exists is proved first, and then what it computes.

`ReliableTransferProofs`

* `TransferSafety`: for every file, buffer, window and number of faults,
  `QueuesAreWindow`, `ForgottenIsWritten`, `WrittenIsPrefix`,
  `EarlyPacketsInPlace`, `DatagramsHonest`, `PhasesInOrder` and `CopiedWhole` are
  invariant, under the one assumption `Total <= MAX_SEQUENCE_NUM`.  The first
  finding shows that the assumption cannot be dropped.
* `TransferRefines`: under it, the programs implement `FileTransfer`.
* `TransferType`, `TransferWindow`: without the assumption, `TypeOK`, `QueuesAreWindow`
  and the action property `SendsWithinWindow`.  Their invariant `TypeInv` says nothing
  of the receiver's data; that the window keeps its type when one acknowledgement
  covers many packets is `AfterNewAcksType` of `CongestionWindowProofs`.

  The inductive invariant `SafeInv` is the conjunction of the checked invariants
  with two strengthenings.  `ReceiverInStep` ties `expectSeq`, `currSeq` and the
  file to one another, without which an early packet's place could not be
  computed from its number.  `Popped <= currSeq` ties what the sender has
  forgotten to it: an acknowledgement in flight never exceeds `expectSeq`
  (`DatagramsHonest`), and it pops only packets below its number
  (`CoveredPrefix`).  The reads of an empty queue are harmless to the data since
  what they send is an old packet or junk (`FrontHonest`).  The congestion window
  does not appear in `SafeInv`: the data is safe whatever its value.  The
  argument has one lemma per handler (`ReceiveEarlySafe`, `ReceiveInOrderSafe`,
  `NewAckSafe`, ...) over lemmas on the queues (`WindowAfterSend`,
  `WindowAfterPop`).  A refinement step is a stutter except for an in-order
  packet, a FIN and the end of the sender.

`CongestionControlProofs`

* `CongestionControlType` and `CongestionStates` (`SlowStartBelowThreshold`,
  `SubPacketWindowOnlyInAvoidance`, `DupAcksConsumed`), for all constants, and
  `CongestionControlSafety` (`WindowCapped`), for `BUFFER_SIZE >= 6`: in a smaller
  window `thread + 3` may reach the buffer's size.  The code has 300.  Leaving
  fast recovery sets `cwnd` to `thread`, so that the invariant needs `thread` below the
  cap in fast recovery.

`CsmaProofs`

* `CsmaSafety`, `CsmaCount`, `CsmaRefines`: the properties of the run for every
  set of well-formed inputs and every `T`.  `TypeOK /\ ChannelHeld /\
  CollisionsOnlyAtStart` is inductive once `TypeOK` says that a node at its last
  collision is marked collided, so that the next slot resets it.  `WholePackets`
  follows from it by one lemma per kind of slot.

`RoutesProofs`

* `CheapestLaws`: `Cheapest`, a recursion over growing sets of inner nodes, obeys the
  laws of distances for every network: nothing from a node to itself, the same in
  both directions, no more than a link, the triangle, and a last and a first link
  on the way to whatever is reachable.  The programs' proofs use nothing else of it.
* For `DistVec` also `CheapestWithinSteps` (one link more) and `EnoughLinks`: among k
  nodes no cheapest route needs more than k - 1 links, since a longer one meets a
  node twice.

`LinkStateProofs`, for every set of nodes, `MAXCOST`, network and sequence of changes

* `LinkStateType`, `ConfirmedNodesFinal`, `TiesGoToLowest`,
  `MessagesCostWhatIsAnnounced`, and `LinkStateImplementsRouting`.

  `SearchInv` is the classic invariant of Dijkstra's algorithm (no open node nearer
  than a confirmed one, links of confirmed nodes relaxed, each cost that of a route)
  with two parts for this program: no cost is below the cheapest (`NotBelow`), and
  `visited` names the lowest of the confirmed predecessors (`Lowest`), which
  survives because a later node of equal cost replaces it only if it is
  lower.  `FillInv` says that `minCost_nodes` lists predecessors first, so that the
  lookups in `fTable` find what they need.  `HopsInv` says that a message comes
  nearer with every hop, whence its path never repeats and `MaxHops` is no bound
  on what can happen.

`DistVecProofs`, for every set of nodes, every bounded set of costs
(`CostsAssumption`), every network and sequence of changes

* `DistVecType`, `EntriesStayBacked`, `RoundsSuffice`, `PrintedCostsAgree`, and
  `DistVecImplementsRouting`.

  In the middle of a round the pairs whose call has come cover routes of one link
  more than the others (`RoundInv`); an update in place uses entries of either
  sort, which can only be better.  From below, backed entries cost at least what a
  cheapest route does (`TableExact`): the two together make the tables exact after
  the last round, and so the same in both directions.

`StreamServersProofs`, for every number of connections and addresses, every file, every
`MAXDATASIZE`, every `ClientBuffer` that holds a head, every cut of the streams and
number of faults

* `StreamServersType`, `ExitsAreNoticed`, `OutputStaysInOrder`, `StrayBytesExplained`,
  `ClientsGetWholeFile`.

  `Held` ties `holders` to the backlog, the parent's descriptor and the children, so
  that an ended stream is one whose child has sent everything.  `Asking` says that
  nothing comes back before the request is read, and that a request read whole
  cannot lead to a reset.  `Underway` cuts mp1's reply in three: what the client has
  received, what waits in the stream, and the pieces the child still has to send
  (`Pieces`); `Writes` relates what is received to what is written, NULs left out.
  `Replied` says what is left of that when the client or the child has gone, and that
  only a reply as long as the buffer leads to `stray`.  `Once` follows mp0's string from
  the child's one `send` to the one `recv`, and `Printed` says which part of it a cut
  after n symbols leaves to be printed: none, and bytes from elsewhere, for n < 3.
  `ExpectedIs` shows that what a client should write is the reply behind its head.
  The lemmas `SliceCut`, `SliceJoin` and `PiecesTail` are `recv` and `send`, and
  `BlocksCut` is the loop to `feof`: full blocks and the remainder are the file.

Assumptions on constants, named in the modules and evaluated by TLC: nodes are positive
and finite in number, costs positive and none above `MAXCOST`, `MAXCOST`, `Addresses` and
`MaxFaults` natural, `MAXDATASIZE` positive, `ClientBuffer` room for a head, files
sequences, `input.txt` of mp4 well-formed.  The code's constants and the course's files satisfy them.

Only model-checked: the liveness properties (liveness under fairness is out of
the prover's reach).  That the abstractions of doubles, bytes and streams do no harm
is argued above, not proved.

## 8. Not modelled

The datagram demos send or receive one datagram and exit.  `sender_main.c` and
`receiver_main.c` are the unfilled templates of the course.  Name resolution and the
set-up of mp2's datagram sockets are sequential and over before anything modelled
begins.  `server_headers_process` of `http_client.cpp` is never called.  The scripts
have no state.
