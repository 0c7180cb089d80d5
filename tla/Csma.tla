-------------------------------- MODULE Csma --------------------------------
(***************************************************************************)
(* The simulation of CSMA in mp4: N nodes that share a channel in slots.   *)
(* One action is one iteration of the loop over currTime, which brings     *)
(* every node up to date and then lets those with no backoff left          *)
(* transmit.  The program reads its parameters from a file; here they are  *)
(* any member of Inputs, and the sequence R is a function on 0 .. M-1.     *)
(***************************************************************************)
EXTENDS Integers

CONSTANTS Inputs,   \* the input files: records with fields N, L, M and R
          T         \* the slots to simulate, also read from the file

\* What input.txt shows of a well-formed input: a value of R for every number
\* of collisions below M, packets and backoff ranges that are not empty.
ASSUME InputAssumption ==
    /\ T \in Nat
    /\ \A in \in Inputs : /\ in.N \in Nat /\ in.L \in Nat \ {0} /\ in.M \in Nat \ {0}
                          /\ in.R \in [0 .. in.M - 1 -> Nat \ {0}]

VARIABLES input,         \* the globals N, L, M, R
          nodes,         \* the vector of nodes
          currTime,
          numOfSuccess   \* slots of successful transmission

vars == <<input, nodes, currTime, numOfSuccess>>

Ids == 0 .. input.N - 1

\* randomizeCollisonNum: the "random" backoff of node i, and the reset that
\* goes with it in each place it is called from.
Fresh(i, collisionNum, offset) ==
    [backoff |-> (i + offset) % input.R[collisionNum], collisionNum |-> collisionNum,
     transmitTime |-> input.L, isCollided |-> FALSE]

Init == /\ input \in Inputs
        /\ nodes = [i \in Ids |-> Fresh(i, 0, 0)]
        /\ currTime = 0 /\ numOfSuccess = 0

-----------------------------------------------------------------------------
\* A finished packet that is not followed by a new one.
Prepared_NoNewPacket(i) ==
    LET n == nodes[i]
    IN  IF n.collisionNum = input.M THEN Fresh(i, 0, currTime)
        ELSE IF n.isCollided THEN Fresh(i, n.collisionNum, currTime)
        ELSE n

\* Node i at the start of a slot: after a finished packet, or one given up
\* after M collisions, it takes a new packet; after a collision a new backoff.
Prepared(i) ==
    LET n == nodes[i]
    IN  IF n.transmitTime = 0 \/ n.collisionNum = input.M THEN Fresh(i, 0, currTime)
        ELSE IF n.isCollided THEN Fresh(i, n.collisionNum, currTime)
        ELSE n

\* The node whose backoff is over has the channel to itself.
Transmits(i) == /\ i \in Ids /\ Prepared(i).backoff = 0
                /\ \A j \in Ids \ {i} : Prepared(j).backoff # 0

\* The others count down while they hear a transmission.
Transmit_NotHeard ==
    /\ currTime < T
    /\ \E i \in Ids :
          /\ Transmits(i)
          /\ nodes' = [j \in Ids |->
                          IF j = i THEN [Prepared(j) EXCEPT !.transmitTime = @ - 1]
                          ELSE [Prepared(j) EXCEPT !.backoff = @ - 1]]
    /\ numOfSuccess' = numOfSuccess + 1
    /\ currTime' = currTime + 1
    /\ UNCHANGED input

\* One node transmits a slot of its packet; the others wait.
Transmit ==
    /\ currTime < T
    /\ \E i \in Ids :
          /\ Transmits(i)
          /\ nodes' = [j \in Ids |->
                          IF j = i THEN [Prepared(j) EXCEPT !.transmitTime = @ - 1]
                          ELSE Prepared(j)]
    /\ numOfSuccess' = numOfSuccess + 1
    /\ currTime' = currTime + 1
    /\ UNCHANGED input

Collides(i) == /\ Prepared(i).backoff = 0
               /\ \E j \in Ids \ {i} : Prepared(j).backoff = 0

\* A collision that takes a slot off the packet, as a success does.
Collide_SlotSpent ==
    /\ currTime < T
    /\ \E i \in Ids : Collides(i)
    /\ nodes' = [j \in Ids |->
                    IF Collides(j)
                    THEN [Prepared(j) EXCEPT !.isCollided = TRUE, !.collisionNum = @ + 1,
                                             !.transmitTime = @ - 1]
                    ELSE Prepared(j)]
    /\ currTime' = currTime + 1
    /\ UNCHANGED <<input, numOfSuccess>>

\* Two nodes or more transmit at once: nothing gets through.
Collide ==
    /\ currTime < T
    /\ \E i \in Ids : Collides(i)
    /\ nodes' = [j \in Ids |->
                    IF Collides(j)
                    THEN [Prepared(j) EXCEPT !.isCollided = TRUE, !.collisionNum = @ + 1]
                    ELSE Prepared(j)]
    /\ currTime' = currTime + 1
    /\ UNCHANGED <<input, numOfSuccess>>

\* An idle slot mistaken for a successful one.
Idle_Counted ==
    /\ currTime < T
    /\ \A i \in Ids : Prepared(i).backoff # 0
    /\ nodes' = [j \in Ids |-> [Prepared(j) EXCEPT !.backoff = @ - 1]]
    /\ numOfSuccess' = numOfSuccess + 1
    /\ currTime' = currTime + 1
    /\ UNCHANGED input

\* In an idle slot every node counts down.
Idle ==
    /\ currTime < T
    /\ \A i \in Ids : Prepared(i).backoff # 0
    /\ nodes' = [j \in Ids |-> [Prepared(j) EXCEPT !.backoff = @ - 1]]
    /\ currTime' = currTime + 1
    /\ UNCHANGED <<input, numOfSuccess>>

\* The loop is over; the utilisation is written to output.txt.
Finished == currTime = T /\ UNCHANGED vars

Next == Transmit \/ Collide \/ Idle \/ Finished

Spec == Init /\ [][Next]_vars

-----------------------------------------------------------------------------
\* No counter leaves its range: a backoff is never negative, and collisionNum
\* is M only in the slot that gives the packet up, so it never indexes past R.
TypeOK ==
    /\ input \in Inputs /\ currTime \in 0 .. T /\ numOfSuccess \in 0 .. currTime
    /\ nodes \in [Ids -> [backoff : Nat, collisionNum : 0 .. input.M,
                          transmitTime : 0 .. input.L, isCollided : BOOLEAN]]
    /\ \A i \in Ids : nodes[i].collisionNum = input.M => nodes[i].isCollided

\* Node i has sent a part of its packet, or all of it in the last slot.
Begun(i) == nodes[i].transmitTime < input.L

\* Carrier sense: while a node is at its packet no other node is, and every
\* other node still has backoff left, so none can break in.
ChannelHeld ==
    \A i \in Ids : Begun(i) =>
        /\ nodes[i].backoff = 0
        /\ \A j \in Ids \ {i} : ~Begun(j) /\ nodes[j].backoff > 0

\* A collision costs no packet that was under way: the nodes in it are all at
\* the start of theirs, there are two at least, and no third has begun.
CollisionsOnlyAtStart ==
    \A i \in Ids : nodes[i].isCollided =>
        /\ \A j \in Ids : ~Begun(j)
        /\ \E j \in Ids \ {i} : nodes[j].isCollided

\* The slots counted as successful are whole packets, but for the one under way.
WholePackets ==
    LET under == {i \in Ids : Begun(i)}
    IN  /\ under = {} => numOfSuccess % input.L = 0
        /\ \A i \in under : (numOfSuccess + nodes[i].transmitTime) % input.L = 0

\* The node with slots of its packet still to come, and how many.
Holders == {i \in Ids : Begun(i) /\ nodes[i].transmitTime > 0}
Owner == IF Holders = {} THEN -1 ELSE CHOOSE i \in Holders : TRUE
Left  == IF Holders = {} THEN 0 ELSE nodes[Owner].transmitTime

SC == INSTANCE SharedChannel WITH
          Nodes   <- UNION {0 .. in.N - 1 : in \in Inputs},
          Nobody  <- -1,
          length  <- input.L,
          slot    <- currTime,
          owner   <- Owner,
          left    <- Left,
          carried <- numOfSuccess

\* Backoff, collisions and carrier sense together give every packet its slots
\* in a row.
ImplementsSharedChannel == SC!Spec
=============================================================================
