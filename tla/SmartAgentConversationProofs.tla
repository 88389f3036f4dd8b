------------------ MODULE SmartAgentConversationProofs ------------------
(* Theorems about SmartAgentConversation, for any number of requests, drafts
   and messages, clears, crashes and raised calls. *)
EXTENDS SmartAgentConversation, TLAPS

\* The two halves of the invariant: what is said of the draft and its tasks,
\* and what is said of the messages.
DraftInv ==
    /\ SavesAreNew /\ ReadyHasNoTask
    /\ OneTaskPerKey /\ OneTaskPerDraft /\ GeneratedDraftIsItsTask
MessageInv ==
    /\ UnsentHasNoRequest /\ AddingNewRequest
    /\ OneMessagePerRequest /\ NeverInParallel

LEMMA InvIsBothHalves == ConversationInv <=> ConversationTypeOK /\ DraftInv /\ MessageInv
BY DEF ConversationInv, DraftInv, MessageInv

----------------------------------------------------------------------------
(* The draft and its tasks *)

\* Steps that leave the draft and the tasks alone keep what is said of them.
LEMMA DraftsKept ==
    ASSUME DraftInv, UNCHANGED <<draft, tasks, saves>>
    PROVE  DraftInv'
BY DEF DraftInv, SavesAreNew, ReadyHasNoTask, OneTaskPerKey, OneTaskPerDraft,
       GeneratedDraftIsItsTask

\* Confirming under any key: a task is added only for a ready draft, which has
\* none, and only under a key nobody has used.
LEMMA ConfirmStep ==
    ASSUME ConversationTypeOK, DraftInv, NEW k \in Key, Confirm(k), UNCHANGED saves
    PROVE  draft' \in Draft /\ tasks' \subseteq Task /\ DraftInv'
<1> DEFINE new == [key |-> k, text |-> draft.text, saved |-> draft.saved]
<1>1. draft \in Draft /\ tasks \subseteq Task /\ saves \in 0..SaveBound
  BY DEF ConversationTypeOK
<1>2. CASE UNCHANGED <<draft, tasks>>
  BY <1>1, <1>2, DraftsKept
<1>3. ASSUME draft.status = "prompt_ready", NEW t \in tasks, t.key = k, t.text = draft.text,
             Generate(k, tasks)
      PROVE  draft' \in Draft /\ tasks' \subseteq Task /\ DraftInv'
  <2>1. draft' = [draft EXCEPT !.status = "generated", !.job = k] /\ tasks' = tasks
    BY <1>3 DEF Generate
  <2> QED BY <1>1, <1>3, <2>1 DEF Draft, DraftInv, SavesAreNew, ReadyHasNoTask, OneTaskPerKey,
             OneTaskPerDraft, GeneratedDraftIsItsTask
<1>4. ASSUME draft.status = "prompt_ready", \A t \in tasks : t.key # k,
             Generate(k, tasks \cup {new})
      PROVE  draft' \in Draft /\ tasks' \subseteq Task /\ DraftInv'
  <2>1. /\ draft' = [draft EXCEPT !.status = "generated", !.job = k]
        /\ tasks' = tasks \cup {new}
    BY <1>4 DEF Generate
  <2>2. draft' \in Draft /\ draft'.status = "generated" /\ draft'.job = k
        /\ draft'.text = draft.text /\ draft'.saved = draft.saved
        /\ draft'.version = draft.version
    BY <1>1, <2>1 DEF Draft
  <2>3. /\ draft.text \in Texts /\ draft.saved > 0 /\ draft.saved <= saves
        /\ draft.saved \in 0..SaveBound
    BY <1>1, <1>4 DEF DraftInv, SavesAreNew, Draft
  <2>4. new \in Task /\ new.key = k /\ new.text = draft.text /\ new.saved = draft.saved
    BY <2>3, BoundsAssumption DEF Task
  <2>5. \A t \in tasks : t.saved # draft.saved
    BY <1>4 DEF DraftInv, ReadyHasNoTask
  <2>6. SavesAreNew' /\ ReadyHasNoTask' /\ GeneratedDraftIsItsTask'
    BY <2>1, <2>2, <2>3, <2>4 DEF DraftInv, SavesAreNew, ReadyHasNoTask, GeneratedDraftIsItsTask
  <2>7. OneTaskPerKey' /\ OneTaskPerDraft'
    BY <1>4, <2>1, <2>4, <2>5 DEF DraftInv, OneTaskPerKey, OneTaskPerDraft
  <2> QED BY <1>1, <2>1, <2>2, <2>4, <2>6, <2>7 DEF DraftInv
<1> QED BY <1>2, <1>3, <1>4 DEF Confirm

\* Saving a draft of either kind: it has no task, for it is numbered anew.
LEMMA SaveStep ==
    ASSUME ConversationTypeOK, DraftInv, saves < SaveBound, saves' = saves + 1, UNCHANGED tasks,
           draft' \in Draft, draft'.saved = saves + 1, draft'.version = draft.version + 1,
           draft'.status \in {"drafting", "prompt_ready"},
           draft'.status = "prompt_ready" => draft'.text \in Texts
    PROVE  DraftInv'
<1>1. saves \in Nat /\ tasks \subseteq Task /\ draft \in Draft
  BY BoundsAssumption DEF ConversationTypeOK
<1>2. \A t \in tasks : t.saved \in Nat /\ t.saved <= saves
  BY <1>1, BoundsAssumption DEF DraftInv, SavesAreNew, Task
<1> QED BY <1>1, <1>2 DEF DraftInv, SavesAreNew, ReadyHasNoTask, OneTaskPerKey, OneTaskPerDraft,
           GeneratedDraftIsItsTask, Draft

----------------------------------------------------------------------------
(* The messages *)

\* Steps that leave the messages alone, when the handler at most goes idle.
LEMMA MessagesKept ==
    ASSUME MessageInv, UNCHANGED msg,
           handler'.pc = "add" => handler'.req = NoRequest \/ UNCHANGED handler
                                  \/ ~SeenRequest(handler'.req)
    PROVE  MessageInv'
BY DEF MessageInv, UnsentHasNoRequest, AddingNewRequest, OneMessagePerRequest, NeverInParallel,
       SeenRequest, Exists

\* Adding a message whose request has not been seen.
LEMMA MessageAdded ==
    ASSUME ConversationTypeOK, MessageInv, NEW m \in Ids, NEW r \in Requests \cup {NoRequest},
           NEW first \in {"pending", "closed"}, NextMessage(m, r, first),
           r = NoRequest \/ ~SeenRequest(r), handler'.pc # "add"
    PROVE  msg' \in [Ids -> Message] /\ MessageInv'
<1>1. msg \in [Ids -> Message]
  BY DEF ConversationTypeOK
<1>2. /\ msg[m].status = "unsent"
      /\ msg' = [msg EXCEPT ![m] = [status |-> first, req |-> r, stale |-> FALSE]]
  BY DEF NextMessage
<1>3. /\ msg' \in [Ids -> Message]
      /\ msg'[m] = [status |-> first, req |-> r, stale |-> FALSE]
      /\ \A i \in Ids : i # m => msg'[i] = msg[i]
  BY <1>1, <1>2 DEF Message
<1> QED BY <1>1, <1>3 DEF MessageInv, UnsentHasNoRequest, AddingNewRequest, OneMessagePerRequest,
           NeverInParallel, SeenRequest, Exists, Open

\* Rewriting rows: no message appears, none changes its request, and no second
\* one is in work.
LEMMA MessagesRewritten ==
    ASSUME ConversationTypeOK, MessageInv, msg' \in [Ids -> Message],
           \A i \in Ids : /\ msg'[i].req = msg[i].req
                          /\ msg'[i].status = "unsent" <=> msg[i].status = "unsent"
                          /\ msg[i].status = "deleted" => msg'[i].status = "deleted",
           NeverInParallel',
           handler'.pc = "add" => UNCHANGED handler
    PROVE  MessageInv'
<1>1. \A i \in Ids : Exists(i)' /\ msg'[i].req # NoRequest => Exists(i)
  <2> SUFFICES ASSUME NEW i \in Ids, Exists(i)' PROVE Exists(i)
    OBVIOUS
  <2>1. msg[i].status \in {"unsent", "pending", "processing", "closed", "deleted"}
    BY DEF ConversationTypeOK, Message
  <2> QED BY <2>1 DEF Exists, Open
<1> QED BY <1>1 DEF MessageInv, UnsentHasNoRequest, AddingNewRequest, OneMessagePerRequest,
           SeenRequest

----------------------------------------------------------------------------
(* One lemma for each kind of step *)

USE DEF NoMessage, tables, history

\* Steps that change turns, the worker, flags or counters only.
LEMMA FlagsStep ==
    ASSUME ConversationInv, ConversationTypeOK', UNCHANGED <<msg, draft, tasks, saves>>,
           handler'.pc = "add" => handler'.req = NoRequest \/ UNCHANGED handler
                                  \/ ~SeenRequest(handler'.req)
    PROVE  ConversationInv'
<1>1. ConversationTypeOK /\ DraftInv /\ MessageInv
  BY InvIsBothHalves
<1>2. DraftInv' /\ MessageInv'
  BY <1>1, DraftsKept, MessagesKept
<1> QED BY <1>2 DEF ConversationInv, DraftInv, MessageInv

\* Recovering stale turns keeps the rows well formed.
LEMMA RecoveredType ==
    ASSUME ConversationTypeOK
    PROVE  Recovered(turn) \in [Requests -> Turn]
BY DEF ConversationTypeOK, Recovered, Turn, OverTurn, NoTurn

LEMMA TimeStep ==
    ASSUME ConversationInv, TimePasses
    PROVE  ConversationInv'
<1>1. ConversationTypeOK /\ DraftInv /\ MessageInv
  BY InvIsBothHalves
<1>2. ASSUME NEW r \in Requests, TurnGrowsStale(r) PROVE ConversationInv'
  <2>1. ConversationTypeOK'
    BY <1>1, <1>2 DEF TurnGrowsStale, ConversationTypeOK, Turn
  <2> QED BY <1>2, <2>1, FlagsStep DEF TurnGrowsStale
<1>3. ASSUME NEW m \in Ids, MessageGrowsStale(m) PROVE ConversationInv'
  <2>1. msg' \in [Ids -> Message]
    BY <1>1, <1>3 DEF MessageGrowsStale, ConversationTypeOK, Message
  <2>2. \A i \in Ids : msg'[i].req = msg[i].req /\ msg'[i].status = msg[i].status
    BY <1>1, <1>3 DEF MessageGrowsStale, ConversationTypeOK, Message
  <2>3. NeverInParallel'
    BY <1>1, <2>2 DEF MessageInv, NeverInParallel
  <2>4. MessageInv'
    BY <1>1, <1>3, <2>1, <2>2, <2>3, MessagesRewritten DEF MessageGrowsStale
  <2>5. ConversationTypeOK' /\ DraftInv'
    BY <1>1, <1>3, <2>1, DraftsKept DEF MessageGrowsStale, ConversationTypeOK
  <2> QED BY <2>4, <2>5 DEF ConversationInv, DraftInv, MessageInv
<1> QED BY <1>2, <1>3 DEF TimePasses

\* A message is added by a handler that has looked for its request id.
LEMMA AddingStep ==
    ASSUME ConversationInv,
           NEW m \in Ids, NEW r \in Requests \cup {NoRequest},
           NEW first \in {"pending", "closed"}, NextMessage(m, r, first),
           r = NoRequest \/ ~SeenRequest(r),
           UNCHANGED <<draft, tasks, saves>>, handler'.pc # "add",
           msg' \in [Ids -> Message] => ConversationTypeOK'
    PROVE  ConversationInv'
<1>1. ConversationTypeOK /\ DraftInv /\ MessageInv
  BY InvIsBothHalves
<1>2. msg' \in [Ids -> Message] /\ DraftInv' /\ MessageInv'
  BY <1>1, DraftsKept, MessageAdded
<1> QED BY <1>2 DEF ConversationInv, DraftInv, MessageInv

LEMMA RequestStep ==
    ASSUME ConversationInv, UserRequest
    PROVE  ConversationInv'
<1>1. ConversationTypeOK /\ DraftInv /\ MessageInv
  BY InvIsBothHalves
<1>2. CASE HasActiveTurn
  <2>1. ConversationTypeOK'
    BY <1>1, <1>2, RecoveredType DEF HasActiveTurn, ConversationTypeOK
  <2> QED BY <1>2, <2>1, FlagsStep DEF HasActiveTurn
<1>3. CASE ChooseCandidate
  <2>1. ConversationTypeOK'
    BY <1>1, <1>3 DEF ChooseCandidate, ConversationTypeOK, Handler, Ids
  <2> QED BY <1>3, <2>1, FlagsStep DEF ChooseCandidate
<1>4. ASSUME NEW r \in Requests, BeginTurn(r) PROVE ConversationInv'
  <2>1. turn' \in [Requests -> Turn]
    BY <1>1, <1>4, RecoveredType DEF BeginTurn, Turn, NoTurn
  <2>2. ConversationTypeOK'
    BY <1>1, <1>4, <2>1 DEF BeginTurn, ConversationTypeOK, Handler, Ids
  <2> QED BY <1>4, <2>2, FlagsStep DEF BeginTurn
<1>5. ASSUME NEW r \in Requests, QueueMessage(r) PROVE ConversationInv'
  <2>1. PICK m \in Ids : NextMessage(m, r, "pending")
    BY <1>5 DEF QueueMessage
  <2>2. handler'.pc # "add"
    BY <1>5 DEF QueueMessage, LoopTakesRequest, LoopIsFree
  <2>3. msg' \in [Ids -> Message] => ConversationTypeOK'
    BY <1>1, <1>5 DEF QueueMessage, ConversationTypeOK
  <2> QED BY <1>5, <2>1, <2>2, <2>3, AddingStep DEF QueueMessage
<1>6. ASSUME NEW r \in Requests, AnswerAtOnce(r) PROVE ConversationInv'
  <2>1. PICK m \in Ids : NextMessage(m, r, "closed")
    BY <1>6 DEF AnswerAtOnce
  <2>2. handler'.pc # "add"
    BY <1>6 DEF AnswerAtOnce, LoopTakesRequest, LoopIsFree
  <2>3. turn' \in [Requests -> Turn]
    BY <1>1, <1>6, RecoveredType DEF AnswerAtOnce, ConversationTypeOK
  <2>4. msg' \in [Ids -> Message] => ConversationTypeOK'
    BY <1>1, <1>6, <2>3 DEF AnswerAtOnce, ConversationTypeOK
  <2> QED BY <1>6, <2>1, <2>2, <2>4, AddingStep DEF AnswerAtOnce
<1>7. ASSUME NEW r \in Requests, ConfirmByMessage(r) PROVE ConversationInv'
  <2>1. PICK m \in Ids : NextMessage(m, r, "closed")
    BY <1>7 DEF ConfirmByMessage
  <2>2. handler'.pc # "add"
    BY <1>7 DEF ConfirmByMessage, LoopTakesRequest, LoopIsFree
  <2>3. turn' \in [Requests -> Turn] /\ confirms' \subseteq 0..SaveBound
    BY <1>1, <1>7, RecoveredType DEF ConfirmByMessage, ConversationTypeOK, Draft
  <2>4. msg' \in [Ids -> Message] => ConversationTypeOK'
    BY <1>1, <1>7, <2>3 DEF ConfirmByMessage, ConversationTypeOK
  <2> QED BY <1>7, <2>1, <2>2, <2>4, AddingStep DEF ConfirmByMessage
<1>8. ASSUME NEW r \in Requests \cup {NoRequest}, ConfirmByButton(r) PROVE ConversationInv'
  <2>1. [from |-> "button", id |-> r, version |-> draft.version] \in Key
    BY <1>1 DEF ConversationTypeOK, Draft, Key
  <2>2. draft' \in Draft /\ tasks' \subseteq Task /\ DraftInv'
    BY <1>1, <1>8, <2>1, ConfirmStep DEF ConfirmByButton
  <2>3. ConversationTypeOK' /\ MessageInv'
    BY <1>1, <1>8, <2>2, MessagesKept DEF ConfirmByButton, ConversationTypeOK
  <2> QED BY <2>2, <2>3 DEF ConversationInv, DraftInv, MessageInv
<1>9. CASE ClearTurns
  <2>1. ConversationTypeOK'
    BY <1>1, <1>9 DEF ClearTurns, ConversationTypeOK, Turn, NoTurn
  <2> QED BY <1>9, <2>1, FlagsStep DEF ClearTurns
<1>10. CASE ClearConversation
  <2>1. /\ msg' \in [Ids -> Message]
        /\ \A i \in Ids : /\ msg'[i].req = msg[i].req
                          /\ msg'[i].status = "unsent" <=> msg[i].status = "unsent"
                          /\ msg'[i].status \in {"unsent", "deleted"}
    BY <1>1, <1>10 DEF ClearConversation, ConversationTypeOK, Message
  <2>2. MessageInv'
    BY <1>1, <1>10, <2>1, MessagesRewritten DEF ClearConversation, NeverInParallel
  <2>3. draft' = NoDraft /\ draft' \in Draft
    <3>1. draft' = NoDraft
      BY <1>10 DEF ClearConversation
    <3>2. NoDraft \in Draft
      BY BoundsAssumption DEF NoDraft, Draft
    <3> QED BY <3>1, <3>2
  <2>4. DraftInv'
    <3>1. UNCHANGED <<tasks, saves>>
      BY <1>10 DEF ClearConversation
    <3>2. draft'.status = "none" /\ draft'.saved = 0 /\ draft'.version = 0
      BY <2>3 DEF NoDraft
    <3>3. saves \in Nat
      BY <1>1, BoundsAssumption DEF ConversationTypeOK
    <3> QED BY <1>1, <3>1, <3>2, <3>3 DEF DraftInv, SavesAreNew, ReadyHasNoTask, OneTaskPerKey,
               OneTaskPerDraft, GeneratedDraftIsItsTask
  <2>5. clears' \in 0..ClearBound
    <3>1. clears' = clears + 1 /\ clears < ClearBound
      BY <1>10 DEF ClearConversation
    <3>2. clears \in 0..ClearBound
      BY <1>1 DEF ConversationTypeOK
    <3> QED BY <3>1, <3>2, BoundsAssumption
  <2>6. ConversationTypeOK'
    BY <1>1, <1>10, <2>1, <2>3, <2>5 DEF ClearConversation, ConversationTypeOK
  <2> QED BY <2>2, <2>4, <2>6 DEF ConversationInv, DraftInv, MessageInv
<1> QED BY <1>2, <1>3, <1>4, <1>5, <1>6, <1>7, <1>8, <1>9, <1>10 DEF UserRequest

LEMMA HandlersStep ==
    ASSUME ConversationInv, HandlerStep
    PROVE  ConversationInv'
<1>1. ConversationTypeOK /\ DraftInv /\ MessageInv
  BY InvIsBothHalves
<1>2. CASE AddMessage
  <2>1. PICK m \in Ids :
            /\ NextMessage(m, handler.req, "pending")
            /\ handler' = IF handler.req = NoRequest THEN IdleHandler
                          ELSE [handler EXCEPT !.pc = "bind", !.message = m]
    BY <1>2 DEF AddMessage
  <2>2. handler.req \in Requests \cup {NoRequest} /\ handler.pc = "add"
    BY <1>1, <1>2 DEF AddMessage, ConversationTypeOK, Handler
  <2>3. handler.req = NoRequest \/ ~SeenRequest(handler.req)
    BY <1>1, <2>2 DEF MessageInv, AddingNewRequest
  <2>4. /\ handler' \in Handler /\ handler'.pc # "add"
        /\ handler'.pc = "bind" <=> handler'.message # NoMessage
    <3>1. handler \in Handler /\ m \in 1..MessageBound
      BY <1>1 DEF ConversationTypeOK, Ids
    <3>2. CASE handler.req = NoRequest
      BY <2>1, <3>2 DEF Handler, IdleHandler
    <3>3. CASE handler.req # NoRequest
      <4>1. handler' = [handler EXCEPT !.pc = "bind", !.message = m]
        BY <2>1, <3>3
      <4>2. m \in Ids \cup {NoMessage} /\ m # NoMessage
        BY <3>1, BoundsAssumption
      <4> QED BY <3>1, <4>1, <4>2 DEF Handler
    <3> QED BY <3>2, <3>3
  <2>5. msg' \in [Ids -> Message] => ConversationTypeOK'
    BY <1>1, <1>2, <2>4 DEF AddMessage, ConversationTypeOK
  <2>6. UNCHANGED <<draft, tasks, saves>>
    BY <1>2 DEF AddMessage
  <2> QED BY <2>1, <2>2, <2>3, <2>4, <2>5, <2>6, AddingStep
<1>3. CASE BindTurnMessage
  <2>1. turn' \in [Requests -> Turn]
    <3>1. turn \in [Requests -> Turn] /\ handler.message \in Ids \cup {NoMessage}
      BY <1>1 DEF ConversationTypeOK, Handler
    <3>2. \/ turn' = turn
          \/ turn' = [turn EXCEPT ![handler.req] = [turn[handler.req] EXCEPT
                        !.message = handler.message, !.stale = FALSE]]
      BY <1>3, <3>1 DEF BindTurnMessage
    <3>3. CASE turn' # turn
      <4> DEFINE bound == [turn[handler.req] EXCEPT !.message = handler.message, !.stale = FALSE]
      <4>1. turn' = [turn EXCEPT ![handler.req] = bound]
        BY <3>2, <3>3
      <4>2. ASSUME handler.req \in Requests PROVE bound \in Turn
        <5>1. turn[handler.req] \in Turn
          BY <3>1, <4>2
        <5> QED BY <3>1, <5>1 DEF Turn
      <4> HIDE DEF bound
      <4> QED BY <3>1, <4>1, <4>2
    <3> QED BY <3>1, <3>3
  <2>2. ConversationTypeOK'
    BY <1>1, <1>3, <2>1 DEF BindTurnMessage, ConversationTypeOK, Handler, IdleHandler
  <2> QED BY <1>3, <2>2, FlagsStep DEF BindTurnMessage, IdleHandler
<1>4. ASSUME NEW read \in confirms, ConfirmInThread(read) PROVE ConversationInv'
  <2>1. ConfirmationKey(read) \in Key
    BY <1>1 DEF ConversationTypeOK, Draft, Key, ConfirmationKey
  <2>2. draft' \in Draft /\ tasks' \subseteq Task /\ DraftInv'
    BY <1>1, <1>4, <2>1, ConfirmStep DEF ConfirmInThread
  <2>3. ConversationTypeOK' /\ MessageInv'
    BY <1>1, <1>4, <2>2, MessagesKept DEF ConfirmInThread, ConversationTypeOK
  <2> QED BY <2>2, <2>3 DEF ConversationInv, DraftInv, MessageInv
<1> QED BY <1>2, <1>3, <1>4 DEF HandlerStep

\* Requeueing what was left in work changes nothing else of the rows.
LEMMA RequeuedRows ==
    ASSUME ConversationTypeOK
    PROVE  /\ Requeued \in [Ids -> Message]
           /\ \A i \in Ids : /\ Requeued[i].req = msg[i].req
                             /\ Requeued[i].status = "unsent" <=> msg[i].status = "unsent"
                             /\ Requeued[i].status = "deleted" <=> msg[i].status = "deleted"
BY DEF ConversationTypeOK, Requeued, Message

LEMMA ClaimStep ==
    ASSUME ConversationInv, ClaimMessage
    PROVE  ConversationInv'
<1>1. ConversationTypeOK /\ DraftInv /\ MessageInv
  BY InvIsBothHalves
<1>2. PICK m \in Ids : /\ Requeued[m].status = "pending"
                       /\ msg' = [Requeued EXCEPT ![m].status = "processing", ![m].stale = FALSE]
                       /\ worker' = [pc |-> "start", message |-> m]
  BY DEF ClaimMessage, TakeFrom
<1>3. /\ msg' \in [Ids -> Message]
      /\ msg'[m].req = msg[m].req /\ msg'[m].status = "processing"
      /\ msg[m].status \notin {"unsent", "deleted"}
      /\ \A i \in Ids : i # m => msg'[i] = Requeued[i]
  BY <1>1, <1>2, RequeuedRows DEF Message
<1>4. NeverInParallel'
  BY <1>3 DEF ClaimMessage, NeverInParallel
<1>5. UNCHANGED <<v2, turn, draft, tasks, ambiguity, handler, confirms, clearing, saves, clears, faults>>
  BY DEF ClaimMessage, TakeFrom
<1>6. MessageInv' /\ DraftInv'
  BY <1>1, <1>3, <1>4, <1>5, RequeuedRows, MessagesRewritten, DraftsKept
<1>7. worker' \in Worker /\ worker'.message # NoMessage
  BY <1>2 DEF Worker, Ids
<1>8. ConversationTypeOK'
  BY <1>1, <1>2, <1>3, <1>5, <1>7 DEF ConversationTypeOK
<1> QED BY <1>6, <1>8 DEF ConversationInv, DraftInv, MessageInv

\* The worker goes on to another step with the message in hand.
LEMMA WorkerMoves ==
    ASSUME ConversationTypeOK, worker.pc \notin {"down", "idle"},
           NEW pc \in {"plan", "confirm", "close", "end"}, Moves(pc)
    PROVE  /\ worker' \in Worker
           /\ worker'.pc \in {"down", "idle"} <=> worker'.message = NoMessage
BY DEF ConversationTypeOK, Worker, Moves

LEMMA WorkersStep ==
    ASSUME ConversationInv, WorkerStep
    PROVE  ConversationInv'
<1>1. ConversationTypeOK /\ DraftInv /\ MessageInv
  BY InvIsBothHalves
<1>2. CASE ClaimMessage
  BY <1>2, ClaimStep
<1>3. CASE StartTurn
  <2>1. turn' \in [Requests -> Turn]
    BY <1>1, <1>3 DEF StartTurn, ConversationTypeOK, Turn
  <2>2. ConversationTypeOK'
    BY <1>1, <1>3, <2>1, WorkerMoves DEF StartTurn, ConversationTypeOK
  <2> QED BY <1>3, <2>2, FlagsStep DEF StartTurn
<1>4. CASE SettleAmbiguity
  <2>1. ConversationTypeOK'
    BY <1>1, <1>4 DEF SettleAmbiguity, ConversationTypeOK
  <2> QED BY <1>4, <2>1, FlagsStep DEF SettleAmbiguity
<1>5. CASE EndWithReply
  <2>1. ambiguity' \in BOOLEAN
    BY <1>1, <1>5 DEF EndWithReply, ConversationTypeOK
  <2>2. ConversationTypeOK'
    BY <1>1, <1>5, <2>1, WorkerMoves DEF EndWithReply, ConversationTypeOK
  <2> QED BY <1>5, <2>2, FlagsStep DEF EndWithReply
<1>6. CASE SaveDraft
  <2>1. PICK x \in Texts :
            draft' = [status |-> "prompt_ready", version |-> draft.version + 1, text |-> x,
                      job |-> NoKey, message |-> worker.message, saved |-> saves + 1]
    BY <1>6 DEF SaveDraft
  <2>2. saves' = saves + 1 /\ saves < SaveBound /\ saves \in Nat /\ saves' \in 0..SaveBound
    BY <1>1, <1>6, BoundsAssumption DEF SaveDraft, ConversationTypeOK
  <2>3. draft.version \in Nat /\ draft.version <= saves /\ worker.message \in Ids \cup {NoMessage}
    BY <1>1, BoundsAssumption DEF DraftInv, SavesAreNew, ConversationTypeOK, Draft, Worker
  <2>4. draft' \in Draft
    BY <2>1, <2>2, <2>3, BoundsAssumption DEF Draft
  <2>5. DraftInv'
    BY <1>1, <1>6, <2>1, <2>2, <2>4, SaveStep DEF SaveDraft
  <2>6. MessageInv'
    BY <1>1, <1>6, MessagesKept DEF SaveDraft
  <2>7. ConversationTypeOK'
    BY <1>1, <1>6, <2>2, <2>4, WorkerMoves DEF SaveDraft, ConversationTypeOK
  <2> QED BY <2>5, <2>6, <2>7 DEF ConversationInv, DraftInv, MessageInv
<1>7. CASE SaveCharacterDraft
  <2>1. saves' = saves + 1 /\ saves < SaveBound /\ saves \in Nat /\ saves' \in 0..SaveBound
    BY <1>1, <1>7, BoundsAssumption DEF SaveCharacterDraft, ConversationTypeOK
  <2>2. draft.version \in Nat /\ draft.version <= saves /\ draft \in Draft
    BY <1>1, BoundsAssumption DEF DraftInv, SavesAreNew, ConversationTypeOK, Draft
  <2>3. /\ draft' \in Draft /\ draft'.status = "drafting"
        /\ draft'.version = draft.version + 1 /\ draft'.saved = saves + 1
    <3>1. draft' = [draft EXCEPT !.status = "drafting", !.version = draft.version + 1,
                                 !.saved = saves + 1]
      BY <1>7, <2>2 DEF SaveCharacterDraft, Draft
    <3>2. draft.version + 1 \in 0..SaveBound /\ saves + 1 \in 0..SaveBound
      BY <2>1, <2>2, BoundsAssumption
    <3> QED BY <2>2, <3>1, <3>2 DEF Draft
  <2>4. DraftInv'
    BY <1>1, <1>7, <2>1, <2>3, SaveStep DEF SaveCharacterDraft
  <2>5. MessageInv'
    BY <1>1, <1>7, MessagesKept DEF SaveCharacterDraft
  <2>6. ConversationTypeOK'
    BY <1>1, <1>7, <2>1, <2>3, WorkerMoves DEF SaveCharacterDraft, ConversationTypeOK
  <2> QED BY <2>4, <2>5, <2>6 DEF ConversationInv, DraftInv, MessageInv
<1>8. CASE ConfirmTurn
  <2>1. worker.message \in Ids
    BY <1>1, <1>8 DEF ConfirmTurn, ConversationTypeOK, Worker
  <2>2. [from |-> "turn", id |-> msg[worker.message].req, version |-> draft.version] \in Key
    BY <1>1, <2>1 DEF ConversationTypeOK, Draft, Key, Message
  <2>3. draft' \in Draft /\ tasks' \subseteq Task /\ DraftInv'
    BY <1>1, <1>8, <2>2, ConfirmStep DEF ConfirmTurn
  <2>4. MessageInv'
    BY <1>1, <1>8, MessagesKept DEF ConfirmTurn
  <2>5. ConversationTypeOK'
    BY <1>1, <1>8, <2>3, WorkerMoves DEF ConfirmTurn, ConversationTypeOK
  <2> QED BY <2>3, <2>4, <2>5 DEF ConversationInv, DraftInv, MessageInv
<1>9. CASE CloseMessage
  <2>1. worker.message \in Ids
    BY <1>1, <1>9 DEF CloseMessage, ConversationTypeOK, Worker
  <2>2. /\ msg' \in [Ids -> Message]
        /\ \A i \in Ids : /\ msg'[i].req = msg[i].req
                          /\ msg'[i].status = "processing" => msg[i].status = "processing"
                          /\ msg'[i].status \in {msg[i].status, "closed"}
                          /\ msg[i].status = "deleted" => msg'[i].status = "deleted"
    BY <1>1, <1>9, <2>1 DEF CloseMessage, ConversationTypeOK, Message
  <2>3. MessageInv'
    <3>1. NeverInParallel'
      BY <1>1, <2>2 DEF MessageInv, NeverInParallel
    <3>2. UNCHANGED handler
      BY <1>9 DEF CloseMessage
    <3> QED BY <1>1, <2>2, <3>1, <3>2 DEF MessageInv, UnsentHasNoRequest, AddingNewRequest,
               OneMessagePerRequest, SeenRequest, Exists, Open, ConversationTypeOK, Message
  <2>4. DraftInv'
    BY <1>1, <1>9, DraftsKept DEF CloseMessage
  <2>5. ConversationTypeOK'
    BY <1>1, <1>9, <2>2, WorkerMoves DEF CloseMessage, ConversationTypeOK
  <2> QED BY <2>3, <2>4, <2>5 DEF ConversationInv, DraftInv, MessageInv
<1>10. CASE EndTurn
  <2>1. turn' \in [Requests -> Turn]
    BY <1>1, <1>10 DEF EndTurn, ConversationTypeOK, Turn, OverTurn, NoTurn
  <2>2. ConversationTypeOK'
    BY <1>1, <1>10, <2>1 DEF EndTurn, ConversationTypeOK, Worker, IdleWorker
  <2> QED BY <1>10, <2>2, FlagsStep DEF EndTurn
<1> QED BY <1>2, <1>3, <1>4, <1>5, <1>6, <1>7, <1>8, <1>9, <1>10 DEF WorkerStep

LEMMA FaultStep ==
    ASSUME ConversationInv, AddRaises \/ CloseRaises \/ Crash \/ Restart
    PROVE  ConversationInv'
<1>1. ConversationTypeOK /\ BoundsAssumption
  BY BoundsAssumption, InvIsBothHalves
<1>2. OneMoreFault => faults' \in 0..FaultBound
  BY <1>1, BoundsAssumption DEF OneMoreFault, ConversationTypeOK
<1>3. CASE AddRaises
  <2>1. turn' \in [Requests -> Turn]
    BY <1>1, <1>3 DEF AddRaises, ConversationTypeOK, Turn, OverTurn, NoTurn
  <2>2. ConversationTypeOK'
    BY <1>1, <1>2, <1>3, <2>1 DEF AddRaises, ConversationTypeOK, Handler, IdleHandler
  <2> QED BY <1>3, <2>2, FlagsStep DEF AddRaises, IdleHandler
<1>4. CASE CloseRaises
  <2>1. /\ worker' \in Worker
        /\ worker'.pc \in {"down", "idle"} <=> worker'.message = NoMessage
    BY <1>1, <1>4, WorkerMoves DEF CloseRaises, IdleWorker, Worker
  <2>2. ConversationTypeOK'
    BY <1>1, <1>2, <1>4, <2>1 DEF CloseRaises, ConversationTypeOK
  <2> QED BY <1>4, <2>2, FlagsStep DEF CloseRaises
<1>5. CASE Crash
  <2>1. ConversationTypeOK'
    BY <1>1, <1>2, <1>5 DEF Crash, ConversationTypeOK, Worker, IdleWorker, Handler, IdleHandler
  <2> QED BY <1>5, <2>1, FlagsStep DEF Crash, IdleHandler
<1>6. CASE Restart
  <2>1. ConversationTypeOK'
    BY <1>1, <1>6 DEF Restart, ConversationTypeOK, Worker, IdleWorker
  <2> QED BY <1>6, <2>1, FlagsStep DEF Restart
<1> QED BY <1>3, <1>4, <1>5, <1>6

----------------------------------------------------------------------------
(* Theorems *)

LEMMA InitHasInv == Init => ConversationInv
<1> SUFFICES ASSUME Init PROVE ConversationInv
  OBVIOUS
<1>1. draft = NoDraft /\ NoDraft \in Draft
  BY BoundsAssumption DEF Init, NoDraft, Draft
<1>2. msg \in [Ids -> Message] /\ turn \in [Requests -> Turn]
  BY DEF Init, Message, Turn, NoTurn
<1>3. worker = IdleWorker /\ IdleWorker \in Worker /\ handler = IdleHandler /\ IdleHandler \in Handler
  BY DEF Init, Worker, IdleWorker, Handler, IdleHandler
<1>4. saves \in 0..SaveBound /\ clears \in 0..ClearBound /\ faults \in 0..FaultBound
  BY BoundsAssumption DEF Init
<1>5. ConversationTypeOK
  <2>1. v2 \in BOOLEAN /\ ambiguity \in BOOLEAN /\ clearing \in BOOLEAN
        /\ tasks \subseteq Task /\ confirms \subseteq 0..SaveBound
    BY DEF Init
  <2>2. /\ worker.pc \in {"down", "idle"} <=> worker.message = NoMessage
        /\ handler.pc = "bind" <=> handler.message # NoMessage
    BY <1>3 DEF IdleWorker, IdleHandler
  <2> QED BY <1>1, <1>2, <1>3, <1>4, <2>1, <2>2 DEF ConversationTypeOK
<1>6. DraftInv
  BY DEF Init, NoDraft, DraftInv, SavesAreNew, ReadyHasNoTask, OneTaskPerKey, OneTaskPerDraft,
     GeneratedDraftIsItsTask
<1>7. MessageInv
  BY DEF Init, IdleHandler, MessageInv, UnsentHasNoRequest, AddingNewRequest,
     OneMessagePerRequest, NeverInParallel, Exists, Open
<1> QED BY <1>5, <1>6, <1>7, InvIsBothHalves

LEMMA NextKeepsInv == ConversationInv /\ [Next]_vars => ConversationInv'
<1> SUFFICES ASSUME ConversationInv, [Next]_vars PROVE ConversationInv'
  OBVIOUS
<1>1. CASE UNCHANGED vars
  <2>1. ConversationTypeOK /\ DraftInv /\ MessageInv
    BY InvIsBothHalves
  <2>2. ConversationTypeOK'
    BY <1>1, <2>1 DEF vars, ConversationTypeOK
  <2> QED BY <1>1, <2>2, FlagsStep DEF vars
<1> QED BY <1>1, RequestStep, HandlersStep, WorkersStep, TimeStep, FaultStep DEF Next

\* The inductive invariant of a conversation.
THEOREM ConversationInvHolds == Spec => []ConversationInv
BY InitHasInv, NextKeepsInv, PTL DEF Spec

\* Every row of a conversation stays well formed; the worker has a message
\* exactly while it is busy.
THEOREM ConversationTypesHold == Spec => []ConversationTypeOK
BY ConversationInvHolds, PTL DEF ConversationInv

\* A saved draft is charged for at most once, whoever races to confirm it.
THEOREM DraftsAreChargedOnce == Spec => []OneTaskPerDraft
BY ConversationInvHolds, PTL DEF ConversationInv

\* A generated draft points to a task of its own content, although idempotency
\* keys come round again after a clear.
THEOREM DraftsPointToTheirTask == Spec => []GeneratedDraftIsItsTask
BY ConversationInvHolds, PTL DEF ConversationInv

\* A request id has at most one message, with and without turns.
THEOREM RequestsAreQueuedOnce == Spec => []OneMessagePerRequest
BY ConversationInvHolds, PTL DEF ConversationInv

\* A conversation has at most one message in work.
THEOREM MessagesAreSequential == Spec => []NeverInParallel
BY ConversationInvHolds, PTL DEF ConversationInv
----------------------------------------------------------------------------
(* The idempotency records *)

\* Confirming binds the key it was given, to the content of the draft, or
\* leaves the records alone.
LEMMA ConfirmBinds ==
    ASSUME ConversationInv, NEW k \in Key, Confirm(k)
    PROVE  Records!RecordsNext \/ Bound' = Bound
<1>1. CASE UNCHANGED <<draft, tasks>> \/ Generate(k, tasks)
  BY <1>1 DEF Generate, Bound
<1>2. ASSUME draft.status = "prompt_ready", \A t \in tasks : t.key # k,
             Generate(k, tasks \cup {[key |-> k, text |-> draft.text, saved |-> draft.saved]})
      PROVE  Records!RecordsNext
  <2>1. draft.text \in Texts
    BY <1>2 DEF ConversationInv, SavesAreNew
  <2>2. tasks' = tasks \cup {[key |-> k, text |-> draft.text, saved |-> draft.saved]}
    BY <1>2 DEF Generate
  <2>3. Bound' = Bound \cup {[key |-> k, text |-> draft.text]}
    <3> DEFINE new == [key |-> k, text |-> draft.text, saved |-> draft.saved]
    <3>1. new.key = k /\ new.text = draft.text
      OBVIOUS
    <3>2. tasks' = tasks \cup {new}
      BY <2>2
    <3> HIDE DEF new
    <3> QED BY <3>1, <3>2 DEF Bound
  <2>4. \A b \in Bound : b.key # k
    BY <1>2 DEF Bound
  <2> QED BY <2>1, <2>3, <2>4 DEF Records!RecordsNext, Records!Bind, Records!Unbound
<1> QED BY <1>1, <1>2 DEF Confirm

LEMMA RecordsStep == ConversationInv /\ [Next]_vars => [Records!RecordsNext]_Bound
<1> SUFFICES ASSUME ConversationInv, [Next]_vars PROVE Records!RecordsNext \/ Bound' = Bound
  OBVIOUS
<1> USE DEF ConversationInv
<1>1. /\ draft.version \in 0..SaveBound /\ confirms \subseteq 0..SaveBound
      /\ \A m \in Ids : msg[m].req \in Requests \cup {NoRequest}
  BY DEF ConversationTypeOK, Draft, Message
<1>2. ASSUME NEW read \in confirms, ConfirmInThread(read)
      PROVE  Records!RecordsNext \/ Bound' = Bound
  <2>1. ConfirmationKey(read) \in Key
    BY <1>1 DEF ConfirmationKey, Key
  <2> QED BY <1>2, <2>1, ConfirmBinds DEF ConfirmInThread
<1>3. ASSUME NEW r \in Requests \cup {NoRequest}, ConfirmByButton(r)
      PROVE  Records!RecordsNext \/ Bound' = Bound
  <2>1. [from |-> "button", id |-> r, version |-> draft.version] \in Key
    BY <1>1 DEF Key
  <2> QED BY <1>3, <2>1, ConfirmBinds DEF ConfirmByButton
<1>4. CASE ConfirmTurn
  <2>1. worker.message \in Ids
    BY <1>4 DEF ConfirmTurn, ConversationTypeOK, Worker
  <2>2. [from |-> "turn", id |-> msg[worker.message].req, version |-> draft.version] \in Key
    BY <1>1, <2>1 DEF Key
  <2> QED BY <1>4, <2>2, ConfirmBinds DEF ConfirmTurn
<1>5. ASSUME tasks' = tasks PROVE Bound' = Bound
  BY <1>5 DEF Bound
<1>6. CASE UserRequest
  BY <1>3, <1>5, <1>6 DEF UserRequest, HasActiveTurn, ChooseCandidate, BeginTurn, QueueMessage,
     AnswerAtOnce, ConfirmByMessage, ClearTurns, ClearConversation
<1>7. CASE HandlerStep
  BY <1>2, <1>5, <1>7 DEF HandlerStep, AddMessage, BindTurnMessage
<1>8. CASE WorkerStep
  BY <1>4, <1>5, <1>8 DEF WorkerStep, ClaimMessage, TakeFrom, StartTurn, SettleAmbiguity,
     EndWithReply, SaveDraft, SaveCharacterDraft, CloseMessage, EndTurn
<1>9. CASE TimePasses \/ AddRaises \/ CloseRaises \/ Crash \/ Restart \/ UNCHANGED vars
  BY <1>5, <1>9 DEF TimePasses, TurnGrowsStale, MessageGrowsStale, AddRaises, CloseRaises,
     Crash, Restart, tables, vars
<1> QED BY <1>6, <1>7, <1>8, <1>9 DEF Next

\* A conversation makes its tasks under the same idempotency records, cleared
\* or not: what it takes for granted is what TasksKeepRecords shows of the tasks.
THEOREM ConversationKeepsRecords == Spec => KeepsRecordsPromise
<1>1. Init => Records!RecordsInit
  BY DEF Init, Records!RecordsInit, Bound
<1> QED BY <1>1, RecordsStep, ConversationInvHolds, PTL
    DEF Spec, KeepsRecordsPromise, Records!RecordsSpec
===========================================================================
