-------------------------- MODULE MCImageRefunds --------------------------
(* Small instances of ImageRefunds for TLC. *)
EXTENDS ImageRefunds

CONSTANTS u1

MCCredit == [u \in Users |-> 2]
===========================================================================
