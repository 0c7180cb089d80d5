---------------------------- MODULE FileTransfer ----------------------------
(***************************************************************************)
(* What mp2 promises its user, with neither packets nor windows: the       *)
(* receiver's copy grows along the file, the receiver stops only with the  *)
(* whole copy, and the sender ends well only after the receiver stopped.   *)
(* A sender that gives up has still delivered the whole file.              *)
(***************************************************************************)
EXTENDS Naturals, Sequences

CONSTANT File

VARIABLES copy, stopped, outcome

ftVars == <<copy, stopped, outcome>>

Init == copy = << >> /\ stopped = FALSE /\ outcome = "running"

Receive == /\ ~stopped
           /\ \E n \in Len(copy) + 1 .. Len(File) : copy' = SubSeq(File, 1, n)
           /\ UNCHANGED <<stopped, outcome>>

Stop == /\ ~stopped /\ copy = File
        /\ stopped' = TRUE
        /\ UNCHANGED <<copy, outcome>>

End == /\ outcome = "running"
       /\ \/ stopped /\ outcome' = "done"
          \/ copy = File /\ outcome' = "failed"
       /\ UNCHANGED <<copy, stopped>>

Next == Receive \/ Stop \/ End

Spec == Init /\ [][Next]_ftVars
=============================================================================
