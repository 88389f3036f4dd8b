--------------------- MODULE MCSmartAgentConversation ---------------------
(* Small instances of SmartAgentConversation for TLC. *)
EXTENDS SmartAgentConversation, TLC

CONSTANTS r1, r2, x1, x2

\* Request ids and contents are compared with one another and nothing else.
NamesSymmetry == Permutations(Requests) \cup Permutations(Texts)
===========================================================================
