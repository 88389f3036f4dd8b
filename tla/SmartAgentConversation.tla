---------------------- MODULE SmartAgentConversation ----------------------
(***************************************************************************)
(* One smart-agent conversation: its user messages, its turns, the one     *)
(* prompt draft it has, and the tasks confirmed from that draft (app/db.py,*)
(* app/smart_agent/v2_store.py, v2_worker.py and the handlers of           *)
(* app/main.py), with smart_agent_v2_enabled on or off.                    *)
(*                                                                         *)
(* The deployment is one server process.  Handlers declared async and the  *)
(* chat worker share its event loop and give it up only at an await; the   *)
(* claim, saving a draft, confirming it and the clear endpoint run in      *)
(* threads and can commit between any two transactions of a handler.       *)
(* `handler' is the handler that holds the loop.  Checks of a handler that *)
(* only refuse and are repeated by its transaction are merged with it.     *)
(* What the model answers, how text is read and how a prompt is put        *)
(* together is left open: a turn may end in any of the ways the code has.  *)
(***************************************************************************)
EXTENDS Integers, FiniteSets

CONSTANTS Requests,     \* X-Client-Request-Id of requests, at most 80 characters
          NoRequest,    \* a message queued by choosing a candidate
          Texts, NoText,\* what the fingerprint of a draft can be
          MessageBound, \* bound of the model: messages sent
          SaveBound,    \* bound of the model: drafts saved
          ClearBound,   \* bound of the model: times the conversation is cleared
          FaultBound    \* bound of the model: crashes and raised calls

ASSUME RequestsAssumption == NoRequest \notin Requests /\ NoText \notin Texts
ASSUME BoundsAssumption ==
    /\ MessageBound \in Nat /\ SaveBound \in Nat
    /\ ClearBound \in Nat /\ FaultBound \in Nat

VARIABLES v2,        \* smart_agent_v2_enabled, read when the process starts
          msg,       \* smart_agent_messages of role user, by id
          turn,      \* smart_agent_turns, by client_request_id
          draft,     \* the smart_agent_prompt_drafts row
          tasks,     \* tasks made from drafts, with their idempotency record
          ambiguity, \* pending_disambiguation_json is set
          worker,    \* smart_agent_chat_worker_loop
          handler,   \* the request handler on the event loop
          confirms,  \* versions read by handlers that wait for the confirm thread
          clearing,  \* a clear request between its two transactions
          saves,     \* history: drafts saved so far
          clears,    \* history: times the conversation was cleared
          faults     \* crashes and raised calls so far

tables == <<msg, turn, draft, tasks, ambiguity>>
history == <<saves, clears, faults>>
vars == <<v2, tables, worker, handler, confirms, clearing, history>>

Ids == 1..MessageBound
NoMessage == 0

\* closed: done or failed; deleted: the row is gone, its id is not used again.
Message == [status : {"unsent", "pending", "processing", "closed", "deleted"},
            req : Requests \cup {NoRequest}, stale : BOOLEAN]
Open == {"pending", "processing"}
Exists(m) == msg[m].status \in Open \cup {"closed"}

\* over: completed, failed or awaiting_user.
Turn == [status : {"none", "accepted", "processing", "over"},
         message : Ids \cup {NoMessage}, stale : BOOLEAN]
NoTurn == [status |-> "none", message |-> NoMessage, stale |-> FALSE]
OverTurn == [NoTurn EXCEPT !.status = "over"]
ActiveTurn(t) == t.status \in {"accepted", "processing"}

\* client_request_id of a task: the worker makes it of the message's id, a
\* confirmation of the version the handler has read, the generate endpoint
\* takes the caller's, if there is one; the version at the time of the
\* transaction is appended.
Key == [from : {"turn", "button"}, id : Requests \cup {NoRequest}, version : 0..SaveBound]
       \cup [from : {"confirmation", "v2 confirmation"}, id : 0..SaveBound,
             version : 0..SaveBound]
NoKey == [from |-> "nobody", id |-> 0, version |-> 0]

\* message: the message it was planned for; saved (history): which save wrote it.
Draft == [status : {"none", "drafting", "prompt_ready", "generated"},
          version : 0..SaveBound, text : Texts \cup {NoText}, job : Key \cup {NoKey},
          message : Ids \cup {NoMessage}, saved : 0..SaveBound]
NoDraft == [status |-> "none", version |-> 0, text |-> NoText, job |-> NoKey,
            message |-> NoMessage, saved |-> 0]
Task == [key : Key, text : Texts, saved : 1..SaveBound]

Worker == [pc : {"down", "idle", "start", "plan", "confirm", "close", "end"},
           message : Ids \cup {NoMessage}]
IdleWorker == [pc |-> "idle", message |-> NoMessage]

Handler == [pc : {"idle", "add", "bind"}, req : Requests \cup {NoRequest},
            message : Ids \cup {NoMessage}]
IdleHandler == [pc |-> "idle", req |-> NoRequest, message |-> NoMessage]

\* The worker has a message exactly while it is busy, and the handler one
\* exactly before it binds it.
ConversationTypeOK ==
    /\ v2 \in BOOLEAN /\ ambiguity \in BOOLEAN /\ clearing \in BOOLEAN
    /\ msg \in [Ids -> Message]
    /\ turn \in [Requests -> Turn]
    /\ draft \in Draft
    /\ tasks \subseteq Task
    /\ worker \in Worker
    /\ worker.pc \in {"down", "idle"} <=> worker.message = NoMessage
    /\ handler \in Handler
    /\ handler.pc = "bind" <=> handler.message # NoMessage
    /\ confirms \subseteq 0..SaveBound
    /\ saves \in 0..SaveBound /\ clears \in 0..ClearBound /\ faults \in 0..FaultBound

Init ==
    /\ v2 \in BOOLEAN
    /\ msg = [m \in Ids |-> [status |-> "unsent", req |-> NoRequest, stale |-> FALSE]]
    /\ turn = [r \in Requests |-> NoTurn]
    /\ draft = NoDraft
    /\ tasks = {}
    /\ ambiguity = FALSE
    /\ worker = IdleWorker
    /\ handler = IdleHandler
    /\ confirms = {}
    /\ clearing = FALSE
    /\ saves = 0 /\ clears = 0 /\ faults = 0

Up == worker.pc # "down"
LoopIsFree == Up /\ handler.pc = "idle"
\* The worker closes its message and its turn without an await between them.
LoopTakesRequest == LoopIsFree /\ worker.pc # "end"

----------------------------------------------------------------------------
(* Turns: v2_store.py *)

\* Mutant: only turns a worker has taken up are recovered.
RecoveredProcessing(turns) ==
    [r \in Requests |-> IF turns[r].status = "processing" /\ turns[r].stale
                        THEN OverTurn ELSE turns[r]]

\* _recover_stale_turns
Recovered(turns) ==
    [r \in Requests |-> IF ActiveTurn(turns[r]) /\ turns[r].stale
                        THEN OverTurn ELSE turns[r]]

\* begin_turn_atomic refuses while a turn is active, or a message is open that
\* has no turn.
ConversationIsBusy ==
    \/ \E r \in Requests : ActiveTurn(Recovered(turn)[r])
    \/ \E m \in Ids : msg[m].status \in Open

\* More than fifteen minutes pass without a change of the turn.
TurnGrowsStale(r) ==
    /\ ActiveTurn(turn[r])
    /\ ~turn[r].stale
    /\ turn' = [turn EXCEPT ![r].stale = TRUE]
    /\ UNCHANGED <<v2, msg, draft, tasks, ambiguity, worker, handler, confirms,
                   clearing, history>>

----------------------------------------------------------------------------
(* Requests of the user *)

\* Mutant: a message is known by its turn only.
SeenRequestByTurn(r) == turn[r].status # "none"

\* _find_message_by_client_request_id
SeenRequest(r) == \E m \in Ids : Exists(m) /\ msg[m].req = r

\* add_conversation_message: the next id is AUTOINCREMENT's.
NextMessage(m, r, first) ==
    /\ msg[m].status = "unsent"
    /\ \A i \in Ids : i < m => msg[i].status # "unsent"
    /\ msg' = [msg EXCEPT ![m] = [status |-> first, req |-> r, stale |-> FALSE]]

\* Any request that gets as far as has_active_turn.
HasActiveTurn ==
    /\ LoopTakesRequest /\ v2
    /\ turn' = Recovered(turn)
    /\ UNCHANGED <<v2, msg, draft, tasks, ambiguity, worker, handler, confirms,
                   clearing, history>>

\* begin_turn_atomic, reached by a message whose id is new.
BeginTurn(r) ==
    /\ LoopTakesRequest /\ v2
    /\ ~SeenRequest(r)
    /\ turn[r].status = "none"
    /\ ~ConversationIsBusy
    /\ \E m \in Ids : msg[m].status = "unsent"
    /\ turn' = [Recovered(turn) EXCEPT ![r] = [NoTurn EXCEPT !.status = "accepted"]]
    /\ handler' = [pc |-> "add", req |-> r, message |-> NoMessage]
    /\ UNCHANGED <<v2, msg, draft, tasks, ambiguity, worker, confirms, clearing, history>>

\* The pending message of a turn, or of a chosen candidate.
AddMessage ==
    /\ handler.pc = "add"
    /\ \E m \in Ids :
           /\ NextMessage(m, handler.req, "pending")
           /\ handler' = IF handler.req = NoRequest THEN IdleHandler
                         ELSE [handler EXCEPT !.pc = "bind", !.message = m]
    /\ UNCHANGED <<v2, turn, draft, tasks, ambiguity, worker, confirms, clearing, history>>

\* bind_turn_message
BindTurnMessage ==
    /\ handler.pc = "bind"
    /\ turn' = IF turn[handler.req].status = "accepted"
               THEN [turn EXCEPT ![handler.req].message = handler.message,
                                 ![handler.req].stale = FALSE]
               ELSE turn
    /\ handler' = IdleHandler
    /\ UNCHANGED <<v2, msg, draft, tasks, ambiguity, worker, confirms, clearing, history>>

\* With v2 off a message is queued without a turn.
QueueMessage(r) ==
    /\ LoopTakesRequest /\ ~v2
    /\ ~SeenRequest(r)
    /\ \E m \in Ids : NextMessage(m, r, "pending")
    /\ UNCHANGED <<v2, turn, draft, tasks, ambiguity, worker, handler, confirms,
                   clearing, history>>

\* A question the handler answers itself: the message is stored as done.
AnswerAtOnce(r) ==
    /\ LoopTakesRequest
    /\ ~SeenRequest(r)
    /\ IF v2 THEN ~ConversationIsBusy ELSE draft.status # "none"
    /\ turn' = IF v2 THEN Recovered(turn) ELSE turn
    /\ \E m \in Ids : NextMessage(m, r, "closed")
    /\ UNCHANGED <<v2, draft, tasks, ambiguity, worker, handler, confirms, clearing, history>>

\* "Generate" while the draft is ready: the message is stored as done, then the
\* handler waits for the confirm thread with the version it has read.  With v2 off
\* an open question does not stop it: the handler looks for one in the columns of
\* an older release, which nothing writes any more.
ConfirmByMessage(r) ==
    /\ LoopTakesRequest
    /\ ~SeenRequest(r)
    /\ v2 => ~ConversationIsBusy
    /\ draft.status = "prompt_ready"
    /\ turn' = IF v2 THEN Recovered(turn) ELSE turn
    /\ \E m \in Ids : NextMessage(m, r, "closed")
    /\ confirms' = confirms \cup {draft.version}
    /\ UNCHANGED <<v2, draft, tasks, ambiguity, worker, handler, clearing, history>>

\* resolve-disambiguation, the last open choice: the pending question is
\* cleared, then the original request queued, by no turn.
ChooseCandidate ==
    /\ LoopTakesRequest
    /\ ambiguity
    /\ \E m \in Ids : msg[m].status = "unsent"
    /\ ambiguity' = FALSE
    /\ handler' = [pc |-> "add", req |-> NoRequest, message |-> NoMessage]
    /\ UNCHANGED <<v2, msg, turn, draft, tasks, worker, confirms, clearing, history>>

----------------------------------------------------------------------------
(* confirm_smart_agent_prompt_draft_atomic *)

Generate(k, t) ==
    draft' = [draft EXCEPT !.status = "generated", !.job = k] /\ tasks' = t

\* Mutant: a draft that is generated already is confirmed once more.
ConfirmAgain(k) ==
    \/ UNCHANGED <<draft, tasks>>
    \/ /\ draft.status \in {"prompt_ready", "generated"}
       /\ \A t \in tasks : t.key # k
       /\ Generate(k, tasks \cup {[key |-> k, text |-> draft.text, saved |-> draft.saved]})

\* Mutant: the fingerprint is not compared.
ConfirmByKey(k) ==
    \/ UNCHANGED <<draft, tasks>>
    \/ /\ draft.status = "prompt_ready"
       /\ \E t \in tasks : t.key = k
       /\ Generate(k, tasks)
    \/ /\ draft.status = "prompt_ready"
       /\ \A t \in tasks : t.key # k
       /\ Generate(k, tasks \cup {[key |-> k, text |-> draft.text, saved |-> draft.saved]})

\* A key in use makes the draft point to its task if the content is the same
\* and is a conflict if not.  No credit, a limit, and a draft that is gone,
\* unfinished or generated already leave everything as it is.
Confirm(k) ==
    \/ UNCHANGED <<draft, tasks>>
    \/ /\ draft.status = "prompt_ready"
       /\ \E t \in tasks : t.key = k /\ t.text = draft.text
       /\ Generate(k, tasks)
    \/ /\ draft.status = "prompt_ready"
       /\ \A t \in tasks : t.key # k
       /\ Generate(k, tasks \cup {[key |-> k, text |-> draft.text, saved |-> draft.saved]})

ConfirmationKey(read) ==
    [from |-> IF v2 THEN "v2 confirmation" ELSE "confirmation", id |-> read,
     version |-> draft.version]

\* A handler waiting with the version it had read.
ConfirmInThread(read) ==
    /\ Up
    /\ read \in confirms
    /\ Confirm(ConfirmationKey(read))
    /\ confirms' = confirms \ {read}
    /\ UNCHANGED <<v2, msg, turn, ambiguity, worker, handler, clearing, history>>

\* prompt-draft/generate, which exists with v2 off only.
ConfirmByButton(r) ==
    /\ Up /\ ~v2
    /\ draft.status = "prompt_ready"
    /\ Confirm([from |-> "button", id |-> r, version |-> draft.version])
    /\ UNCHANGED <<v2, msg, turn, ambiguity, worker, handler, confirms, clearing, history>>

----------------------------------------------------------------------------
(* The clear endpoint: clear_v2_state, then clear_conversation *)

ClearTurns ==
    /\ Up /\ v2 /\ ~clearing /\ clears < ClearBound
    /\ turn' = [r \in Requests |-> NoTurn]
    /\ clearing' = TRUE
    /\ UNCHANGED <<v2, msg, draft, tasks, ambiguity, worker, handler, confirms, history>>

ClearConversation ==
    /\ Up /\ clears < ClearBound
    /\ v2 => clearing
    /\ msg' = [m \in Ids |-> IF msg[m].status = "unsent" THEN msg[m]
                             ELSE [msg[m] EXCEPT !.status = "deleted", !.stale = FALSE]]
    /\ draft' = NoDraft
    /\ ambiguity' = FALSE
    /\ clearing' = FALSE
    /\ clears' = clears + 1
    /\ UNCHANGED <<v2, turn, tasks, worker, handler, confirms, saves, faults>>

----------------------------------------------------------------------------
(* The chat worker *)

\* Six minutes pass since the claim.
MessageGrowsStale(m) ==
    /\ msg[m].status = "processing"
    /\ ~msg[m].stale
    /\ msg' = [msg EXCEPT ![m].stale = TRUE]
    /\ UNCHANGED <<v2, turn, draft, tasks, ambiguity, worker, handler, confirms,
                   clearing, history>>

Requeued ==
    [m \in Ids |-> IF msg[m].status = "processing" /\ msg[m].stale
                   THEN [msg[m] EXCEPT !.status = "pending"] ELSE msg[m]]

TakeFrom(rows) ==
    /\ worker.pc = "idle"
    /\ \E m \in Ids :
           /\ rows[m].status = "pending"
           /\ \A i \in Ids : i < m => rows[i].status # "pending"
           /\ msg' = [rows EXCEPT ![m].status = "processing", ![m].stale = FALSE]
           /\ worker' = [pc |-> "start", message |-> m]
    /\ UNCHANGED <<v2, turn, draft, tasks, ambiguity, handler, confirms, clearing, history>>

\* Mutant: messages left processing are not looked for.
ClaimPendingOnly ==
    /\ \A m \in Ids : msg[m].status # "processing"
    /\ TakeFrom(msg)

\* Mutant: the conversation may have a message in work.
ClaimInParallel == TakeFrom(Requeued)

\* claim_next_smart_agent_chat_message: the oldest pending message, unless one
\* of the conversation is in work.
ClaimMessage ==
    /\ \A m \in Ids : Requeued[m].status # "processing"
    /\ TakeFrom(Requeued)

Moves(pc) == worker' = [worker EXCEPT !.pc = pc]

\* mark_turn_processing, and what the turn needs to know is read.
StartTurn ==
    /\ LoopIsFree
    /\ worker.pc = "start"
    /\ turn' = [r \in Requests |->
           IF v2 /\ turn[r].status = "accepted" /\ turn[r].message = worker.message
           THEN [turn[r] EXCEPT !.status = "processing", !.stale = FALSE] ELSE turn[r]]
    /\ Moves("plan")
    /\ UNCHANGED <<v2, msg, draft, tasks, ambiguity, handler, confirms, clearing, history>>

\* The message answers the open question or makes a new request instead.
SettleAmbiguity ==
    /\ LoopIsFree
    /\ worker.pc = "plan" /\ ambiguity
    /\ ambiguity' = FALSE
    /\ UNCHANGED <<v2, msg, turn, draft, tasks, worker, handler, confirms, clearing, history>>

\* The turn ends with a question (which candidate is meant), an answer, or an error.
EndWithReply ==
    /\ LoopIsFree
    /\ worker.pc = "plan"
    /\ ambiguity' \in {TRUE, ambiguity}
    /\ Moves("close")
    /\ UNCHANGED <<v2, msg, turn, draft, tasks, handler, confirms, clearing, history>>

\* save_smart_agent_prompt_draft, in a thread.  With v2 on the turn goes on to
\* confirm the draft if the message asked for a picture.
SaveDraft ==
    /\ worker.pc = "plan"
    /\ saves < SaveBound
    /\ saves' = saves + 1
    /\ \E x \in Texts :
           draft' = [status |-> "prompt_ready", version |-> draft.version + 1, text |-> x,
                     job |-> NoKey, message |-> worker.message, saved |-> saves + 1]
    /\ \/ v2 /\ Moves("confirm")
       \/ Moves("close")
    /\ UNCHANGED <<v2, msg, turn, tasks, ambiguity, handler, confirms, clearing, clears, faults>>

\* _save_character_draft: characters are chosen, the picture is not planned;
\* the message and the task of the previous version stay linked.
SaveCharacterDraft ==
    /\ LoopIsFree
    /\ worker.pc = "plan"
    /\ saves < SaveBound
    /\ saves' = saves + 1
    /\ draft' = [draft EXCEPT !.status = "drafting", !.version = @ + 1,
                              !.saved = saves + 1]
    /\ Moves("close")
    /\ UNCHANGED <<v2, msg, turn, tasks, ambiguity, handler, confirms, clearing, clears, faults>>

\* The worker confirms the draft there is by now.
ConfirmTurn ==
    /\ worker.pc = "confirm"
    /\ Confirm([from |-> "turn", id |-> msg[worker.message].req, version |-> draft.version])
    /\ Moves("close")
    /\ UNCHANGED <<v2, msg, turn, ambiguity, handler, confirms, clearing, history>>

\* mark_smart_agent_message_status, which finds nothing after a clear.
CloseMessage ==
    /\ LoopIsFree
    /\ worker.pc = "close"
    /\ msg' = IF msg[worker.message].status = "deleted" THEN msg
              ELSE [msg EXCEPT ![worker.message].status = "closed",
                               ![worker.message].stale = FALSE]
    /\ Moves("end")
    /\ UNCHANGED <<v2, turn, draft, tasks, ambiguity, handler, confirms, clearing, history>>

\* finish_turn_for_message
EndTurn ==
    /\ LoopIsFree
    /\ worker.pc = "end"
    /\ turn' = [r \in Requests |->
           IF v2 /\ ActiveTurn(turn[r]) /\ turn[r].message = worker.message
           THEN OverTurn ELSE turn[r]]
    /\ worker' = IdleWorker
    /\ UNCHANGED <<v2, msg, draft, tasks, ambiguity, handler, confirms, clearing, history>>

----------------------------------------------------------------------------
(* Faults *)

OneMoreFault == faults < FaultBound /\ faults' = faults + 1

\* Storing the message raised: the turn is aborted.
AddRaises ==
    /\ OneMoreFault
    /\ handler.pc \in {"add", "bind"}
    /\ turn' = IF handler.req # NoRequest /\ ActiveTurn(turn[handler.req])
               THEN [turn EXCEPT ![handler.req] = OverTurn] ELSE turn
    /\ handler' = IdleHandler
    /\ UNCHANGED <<v2, msg, draft, tasks, ambiguity, worker, confirms, clearing, saves, clears>>

\* Either of the two updates at the end of a turn raised; both are swallowed.
CloseRaises ==
    /\ OneMoreFault
    /\ LoopIsFree
    /\ \/ worker.pc = "close" /\ Moves("end")
       \/ worker.pc = "end" /\ worker' = IdleWorker
    /\ UNCHANGED <<v2, tables, handler, confirms, clearing, saves, clears>>

Crash ==
    /\ OneMoreFault
    /\ Up
    /\ worker' = [IdleWorker EXCEPT !.pc = "down"]
    /\ handler' = IdleHandler
    /\ confirms' = {}
    /\ clearing' = FALSE
    /\ UNCHANGED <<v2, tables, saves, clears>>

\* The settings are read again: v2 may have been switched on or off.
Restart ==
    /\ ~Up
    /\ worker' = IdleWorker
    /\ v2' \in BOOLEAN
    /\ UNCHANGED <<tables, handler, confirms, clearing, history>>

----------------------------------------------------------------------------
UserRequest ==
    \/ HasActiveTurn \/ ChooseCandidate
    \/ \E r \in Requests :
           BeginTurn(r) \/ QueueMessage(r) \/ AnswerAtOnce(r) \/ ConfirmByMessage(r)
    \/ \E r \in Requests \cup {NoRequest} : ConfirmByButton(r)
    \/ ClearTurns \/ ClearConversation

HandlerStep == AddMessage \/ BindTurnMessage \/ \E read \in confirms : ConfirmInThread(read)

WorkerStep ==
    \/ ClaimMessage \/ StartTurn \/ SettleAmbiguity \/ EndWithReply \/ SaveDraft
    \/ SaveCharacterDraft \/ ConfirmTurn \/ CloseMessage \/ EndTurn

TimePasses ==
    \/ \E r \in Requests : TurnGrowsStale(r)
    \/ \E m \in Ids : MessageGrowsStale(m)

Next ==
    \/ UserRequest \/ HandlerStep \/ WorkerStep \/ TimePasses
    \/ AddRaises \/ CloseRaises \/ Crash \/ Restart

Spec == Init /\ [][Next]_vars

\* A handler and the worker go on (every call has a timeout), time passes, and
\* a stopped server is started again.  Nothing is assumed of the user.
Fairness ==
    /\ WF_vars(WorkerStep) /\ WF_vars(HandlerStep)
    /\ WF_vars(TimePasses) /\ WF_vars(Restart)

FairSpec == Spec /\ Fairness

----------------------------------------------------------------------------
(* Properties *)

\* A saved draft is charged for once, however the worker that saved it, a
\* message that says "generate" and the generate button race for it: they use
\* different idempotency keys, and only the status of the row keeps them apart.
OneTaskPerDraft ==
    \A t, u \in tasks : t.saved = u.saved => t = u

\* The task a generated draft points to has the content of that draft, although
\* versions start again at 1 after a clear and idempotency keys outlive it.
GeneratedDraftIsItsTask ==
    draft.status = "generated" =>
        \E t \in tasks : t.key = draft.job /\ t.text = draft.text

\* A message request that is sent again never queues a second message, whether
\* its turn is active, over, aborted, or was deleted by a clear that has not
\* yet come to the messages.
OneMessagePerRequest ==
    \A m, n \in Ids :
        Exists(m) /\ Exists(n) /\ msg[m].req = msg[n].req /\ msg[m].req # NoRequest => m = n

\* A conversation is never worked on twice at a time, and what is marked as in
\* work after a crash keeps the next message waiting rather than racing it.
NeverInParallel ==
    \A m, n \in Ids :
        msg[m].status = "processing" /\ msg[n].status = "processing" => m = n

\* The tasks of the conversation are made under the promise GenerationTasks
\* keeps about idempotency keys: one that is bound stays bound to its content,
\* also when the conversation is cleared.
Bound == {[key |-> t.key, text |-> t.text] : t \in tasks}

Records == INSTANCE IdempotencyRecords WITH Keys <- Key, bound <- Bound

KeepsRecordsPromise == Records!RecordsSpec

\* What the proofs need beside these: the count of saves is ahead of what it
\* numbers, a draft that is ready has no task, and a handler that adds a message
\* has looked for it.
SavesAreNew ==
    /\ draft.saved <= saves /\ draft.version <= saves
    /\ \A t \in tasks : t.saved <= saves
    /\ draft.status \in {"prompt_ready", "generated"} => draft.text \in Texts /\ draft.saved > 0
ReadyHasNoTask == draft.status = "prompt_ready" => \A t \in tasks : t.saved # draft.saved
OneTaskPerKey == \A t, u \in tasks : t.key = u.key => t = u
UnsentHasNoRequest == \A m \in Ids : msg[m].status = "unsent" => msg[m].req = NoRequest
AddingNewRequest == handler.pc = "add" /\ handler.req # NoRequest => ~SeenRequest(handler.req)

ConversationInv ==
    /\ ConversationTypeOK
    /\ SavesAreNew
    /\ ReadyHasNoTask
    /\ OneTaskPerKey
    /\ OneTaskPerDraft
    /\ GeneratedDraftIsItsTask
    /\ UnsentHasNoRequest
    /\ AddingNewRequest
    /\ OneMessagePerRequest
    /\ NeverInParallel

\* No message is left pending or in work, whatever crashes and whatever is
\* cleared under the worker: it is closed, or deleted with the conversation.
EveryMessageSettles ==
    \A m \in Ids : msg[m].status \in Open ~> msg[m].status \notin Open

\* A user who keeps trying is not locked out by a turn whose handler or worker
\* died, or whose message was cleared away: the turn is over some day.
TurnsEnd ==
    WF_vars(HasActiveTurn)
        => \A r \in Requests : ActiveTurn(turn[r]) ~> ~ActiveTurn(turn[r]) \/ ~v2

\* "Append prompt_version so that the idempotency key of each confirmation is
\* unique" (db.py:1915): nobody has used the key a ready draft is confirmed
\* with for another draft.
ConfirmationKeyIsNew ==
    draft.status = "prompt_ready" =>
        \A t \in tasks : t.key # ConfirmationKey(draft.version)

\* "Clear the prompt draft: keeps the old character state from polluting the
\* new conversation" (db.py:2715): the draft was planned for a message of the
\* conversation as it is now.
ClearedStaysClean == draft.message # NoMessage => Exists(draft.message)
===========================================================================
