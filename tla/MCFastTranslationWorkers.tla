--------------------- MODULE MCFastTranslationWorkers ---------------------
(* Small instances of FastTranslationWorkers for TLC. *)
EXTENDS FastTranslationWorkers, TLC

CONSTANTS u1, j1, j2, w1, w2

MCPrice == [plain |-> 1, fast |-> 2, smart |-> 3]
MCCredit == [u \in Users |-> 4]
===========================================================================
