------------------------------- MODULE MCCsma -------------------------------
(***************************************************************************)
(* Every input file with up to four nodes, packets of up to three slots,   *)
(* one or two collisions before a packet is given up, and backoff ranges   *)
(* of up to four.                                                          *)
(***************************************************************************)
EXTENDS Csma

MCInputs == UNION {[N : 1 .. 4, L : 1 .. 3, M : {m}, R : [0 .. m - 1 -> 1 .. 4]] : m \in 1 .. 2}
=============================================================================
