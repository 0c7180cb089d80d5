----------------------------- MODULE UdpNetwork -----------------------------
(***************************************************************************)
(* The UDP service under sender_main and receiver_main: two bags of        *)
(* datagrams in flight, one per direction.  A bag has no order, so         *)
(* reordering is free.  Losses and duplications are counted in faults, and *)
(* so are the receive timeouts that fire while a datagram is still on its  *)
(* way: MaxFaults bounds the three together.                               *)
(***************************************************************************)
EXTENDS Naturals, Bags

CONSTANT MaxFaults

ASSUME FaultAssumption == MaxFaults \in Nat

VARIABLES toReceiver,   \* datagrams on their way from the sender
          toSender,     \* datagrams on their way from the receiver
          faults        \* misfortunes so far

netVars == <<toReceiver, toSender, faults>>

\* A DATA packet; content is the number of the chunk of the file it carries.
DataPkt(seqNum, content) == [type |-> "DATA", seqNum |-> seqNum, content |-> content]
AckPkt(ackNum)           == [type |-> "ACK", ackNum |-> ackNum]
FinPkt                   == [type |-> "FIN"]
FinAckPkt                == [type |-> "FINACK"]
\* Bytes from released memory: a packet of none of the types the peers know.
JunkPkt                  == [type |-> "JUNK"]

NetInit == toReceiver = EmptyBag /\ toSender = EmptyBag /\ faults = 0

InFlight(channel) == BagToSet(channel)

With(channel, pkts)   == channel (+) SetToBag(pkts)
Without(channel, pkt) == channel (-) SetToBag({pkt})

Misfortune == faults < MaxFaults /\ faults' = faults + 1

Lose ==
    /\ Misfortune
    /\ \/ /\ \E m \in InFlight(toReceiver) : toReceiver' = Without(toReceiver, m)
          /\ UNCHANGED toSender
       \/ /\ \E m \in InFlight(toSender) : toSender' = Without(toSender, m)
          /\ UNCHANGED toReceiver

Duplicate ==
    /\ Misfortune
    /\ \/ /\ \E m \in InFlight(toReceiver) : toReceiver' = With(toReceiver, {m})
          /\ UNCHANGED toSender
       \/ /\ \E m \in InFlight(toSender) : toSender' = With(toSender, {m})
          /\ UNCHANGED toReceiver
=============================================================================
