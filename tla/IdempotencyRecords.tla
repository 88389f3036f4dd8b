------------------------ MODULE IdempotencyRecords ------------------------
(***************************************************************************)
(* What the records of smart_agent_request_idempotency promise, with       *)
(* nothing of who asks: a key is bound once, to one content, and stays     *)
(* bound whatever becomes of the task and of the conversation it came      *)
(* from.  GenerationTasks writes the records; SmartAgentConversation is    *)
(* written in terms of them.  Both are shown to implement this module, so  *)
(* what the conversation takes for granted is what the task table does.    *)
(***************************************************************************)

CONSTANTS Keys, \* (user, request id) of a smart task
          Texts \* contents, by fingerprint

VARIABLE bound \* the records, with the content of their task

Record == [key : Keys, text : Texts]

Unbound(k) == \A b \in bound : b.key # k

RecordsInit == bound = {}

Bind(k, x) == Unbound(k) /\ bound' = bound \cup {[key |-> k, text |-> x]}

RecordsNext == \E k \in Keys, x \in Texts : Bind(k, x)

RecordsSpec == RecordsInit /\ [][RecordsNext]_bound
===========================================================================
