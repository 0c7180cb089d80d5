---------------------------- MODULE SharedChannel ----------------------------
(***************************************************************************)
(* What the channel of mp4 promises a node, with neither backoffs nor      *)
(* collisions: time goes in slots, and a packet that has its first slot    *)
(* has the next length - 1 slots too, one after the other.                 *)
(***************************************************************************)
EXTENDS Naturals

CONSTANTS Nodes, Nobody

VARIABLES length,    \* slots of a packet
          slot,      \* the time
          owner,     \* who is in the middle of a packet
          left,      \* the slots that packet still needs
          carried    \* slots used so far

channelVars == <<length, slot, owner, left, carried>>

Init == /\ length \in Nat \ {0}
        /\ slot = 0 /\ owner = Nobody /\ left = 0 /\ carried = 0

\* A slot in which nothing gets through: never inside a packet.
Pause == owner = Nobody /\ UNCHANGED <<owner, left, carried>>

Carry(i) == /\ owner \in {Nobody, i}
            /\ left' = (IF owner = Nobody THEN length ELSE left) - 1
            /\ owner' = IF left' = 0 THEN Nobody ELSE i
            /\ carried' = carried + 1

Next == /\ slot' = slot + 1 /\ UNCHANGED length
        /\ Pause \/ \E i \in Nodes : Carry(i)

Spec == Init /\ [][Next]_channelVars
=============================================================================
