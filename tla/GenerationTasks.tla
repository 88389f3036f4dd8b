------------------------- MODULE GenerationTasks -------------------------
(***************************************************************************)
(* The generation task table, the credit ledger and the translation        *)
(* requests of the web server's SQLite database, and every transaction on  *)
(* them (app/db.py, app/services/fast_translation_worker.py and            *)
(* app/mock/mock_generation_worker.py).  Each transaction runs under BEGIN *)
(* IMMEDIATE, so one transaction is one action.  Who calls a transaction,  *)
(* and how stale what the caller knows may be, is left open here wherever  *)
(* the code's own guards do not settle it: a worker whose claim another    *)
(* worker took over may still report its result.                           *)
(*                                                                         *)
(* A refused call (limit reached, balance too small, request id reused     *)
(* with other content) is rolled back and leaves no trace: it is a         *)
(* stuttering step and has no action.                                      *)
(***************************************************************************)
EXTENDS Integers, FiniteSets, Functions

CONSTANTS Users,        \* users.user_id
          FreeUsers,    \* the owner while owner_free_generation is set
          Jobs,         \* job codes make_job_code can still hand out
          Requests,     \* client_request_id values
          NoRequest,    \* the caller sent no client_request_id
          Texts,        \* contents a request can have
          Price,        \* the fee of each kind of task, in credits
          OpeningCredit,\* balance_fen of each user at the start
          UserLimit,    \* max_active_tasks_per_user
          GlobalLimit,  \* _effective_global_queue_limit
          MaxAttempts,  \* fast_translation_max_attempts
          ClaimBound,   \* bound of the model: claims of one translation
          NoRow, NoOne, NoAnswer

Kinds == {"plain", "fast", "smart"}

ASSUME UsersAssumption == FreeUsers \subseteq Users /\ NoOne \notin Users
ASSUME JobsAssumption == IsFiniteSet(Jobs) /\ NoRow \notin Jobs
ASSUME RequestAssumption == NoRequest \notin Requests
ASSUME PriceAssumption == Price \in [Kinds -> Nat] /\ Price["smart"] > 0
ASSUME CreditAssumption == OpeningCredit \in [Users -> Nat]
ASSUME LimitAssumption ==
    UserLimit \in Nat /\ GlobalLimit \in Nat /\ MaxAttempts \in Nat /\ ClaimBound \in Nat

VARIABLES balance,   \* users.balance_fen
          row,       \* what create wrote once and for all about a job
          status,    \* generation_tasks.status
          claim,     \* the claim:<time> mark of a smart_planning task
          tr,        \* the translation_requests row bound to a fast task
          refunds,   \* balance_ledger: rows that give the fee of a job back
          events,    \* smart_agent_billing_events: refund keys in use
          idem,      \* smart_agent_request_idempotency
          rendering, \* jobs a renderer holds in memory
          outputs,   \* jobs with a generation_outputs row
          answer     \* what the last create call told its caller

vars == <<balance, row, status, claim, tr, refunds, events, idem, rendering,
          outputs, answer>>

----------------------------------------------------------------------------
(* Statuses, rows and limits *)

Active == {"smart_planning", "translating", "queued", "processing"}
Refunded == {"failed_refunded", "cancelled_refunded"}
Terminal == Refunded \cup {"done"}
Statuses == {"absent"} \cup Active \cup Terminal

RefundReasons == {"generate_cancel_refund", "generate_failed_refund",
                  "smart_agent_refund", "mock_generation_refund"}

Row == [user : Users, req : Requests \cup {NoRequest}, kind : Kinds,
        text : Texts, fee : Nat]

TrStatuses == {"none", "queued", "processing", "done"} \cup Refunded
Translation == [status : TrStatuses, stale : BOOLEAN, attempts : Nat]
NoTranslation == [status |-> "none", stale |-> FALSE, attempts |-> 0]

Answer == [job : Jobs, user : Users, kind : Kinds, text : Texts]

ASSUME RowAssumption == NoRow \notin Row
ASSUME AnswerAssumption == NoAnswer \notin Answer

ActiveJobs == {j \in Jobs : status[j] \in Active}
ActiveJobsOf(u) == {j \in ActiveJobs : row[j].user = u}

\* The owner's plain and fast tasks are free, smart ones never are.
Fee(u, kind) == IF u \in FreeUsers /\ kind # "smart" THEN 0 ELSE Price[kind]

\* Mutant: the limit of all users is compared with > where the code has >=.
HasRoomForOneMore(u) ==
    /\ Cardinality(ActiveJobsOf(u)) < UserLimit
    /\ Cardinality(ActiveJobs) <= GlobalLimit

HasRoom(u) ==
    /\ Cardinality(ActiveJobsOf(u)) < UserLimit
    /\ Cardinality(ActiveJobs) < GlobalLimit

\* Mutant: only unfinished tasks are searched for the request id.
SameRequestActive(u, r) ==
    {j \in Jobs : r # NoRequest /\ status[j] \in Active /\ row[j].user = u /\ row[j].req = r}

\* The task of the same user with the same client_request_id, if there is one.
SameRequest(u, r) ==
    {j \in Jobs : r # NoRequest /\ row[j] # NoRow /\ row[j].user = u /\ row[j].req = r}

\* Mutant: the request id alone identifies the request.
SameContentByIdOnly(j, kind, x) == row[j].kind = kind

\* generation_tasks.request_fingerprint covers kind and content; smart tasks
\* leave it empty, and an empty fingerprint matches nothing.
SameContent(j, kind, x) ==
    row[j].kind # "smart" /\ row[j].kind = kind /\ row[j].text = x

TypeOK ==
    /\ balance \in [Users -> Nat]
    /\ row \in [Jobs -> Row \cup {NoRow}]
    /\ status \in [Jobs -> Statuses]
    /\ claim \in [Jobs -> {"none", "fresh", "stale"}]
    /\ tr \in [Jobs -> Translation]
    /\ refunds \in [Jobs -> [RefundReasons -> Nat]]
    /\ events \subseteq Jobs
    /\ idem \in [Users -> [Requests -> Jobs \cup {NoRow}]]
    /\ rendering \subseteq Jobs
    /\ outputs \subseteq Jobs
    /\ answer \in Answer \cup {NoAnswer}

Init ==
    /\ balance = OpeningCredit
    /\ row = [j \in Jobs |-> NoRow]
    /\ status = [j \in Jobs |-> "absent"]
    /\ claim = [j \in Jobs |-> "none"]
    /\ tr = [j \in Jobs |-> NoTranslation]
    /\ refunds = [j \in Jobs |-> [q \in RefundReasons |-> 0]]
    /\ events = {}
    /\ idem = [u \in Users |-> [r \in Requests |-> NoRow]]
    /\ rendering = {}
    /\ outputs = {}
    /\ answer = NoAnswer

----------------------------------------------------------------------------
(* Creating tasks *)

\* The part every create transaction shares once the request is known to be
\* new: limits, conditional debit with its ledger rows, and the task row.
Insert(j, u, r, kind, x, first) ==
    /\ status[j] = "absent"
    /\ SameRequest(u, r) = {}
    /\ HasRoom(u)
    /\ balance[u] >= Fee(u, kind)
    /\ balance' = [balance EXCEPT ![u] = @ - Fee(u, kind)]
    /\ row' = [row EXCEPT ![j] =
           [user |-> u, req |-> r, kind |-> kind, text |-> x, fee |-> Fee(u, kind)]]
    /\ status' = [status EXCEPT ![j] = first]
    /\ answer' = [job |-> j, user |-> u, kind |-> kind, text |-> x]
    /\ UNCHANGED <<claim, refunds, events, rendering, outputs>>

\* create_task_atomic
CreateTask(u, j, r, x) ==
    /\ Insert(j, u, r, "plain", x, "queued")
    /\ UNCHANGED <<tr, idem>>

\* create_fast_translation_task_atomic: the task waits for its translation.
CreateFastTranslationTask(u, j, r, x) ==
    /\ Insert(j, u, r, "fast", x, "translating")
    /\ tr' = [tr EXCEPT ![j] = [status |-> "queued", stale |-> FALSE, attempts |-> 0]]
    /\ UNCHANGED idem

\* A smart task has an idempotency record, written in the same transaction.
InsertSmart(j, u, r, x, first) ==
    /\ r # NoRequest => idem[u][r] = NoRow
    /\ Insert(j, u, r, "smart", x, first)
    /\ idem' = IF r = NoRequest THEN idem ELSE [idem EXCEPT ![u][r] = j]
    /\ UNCHANGED tr

\* create_smart_agent_task_atomic
CreateSmartAgentTask(u, j, r, x) == InsertSmart(j, u, r, x, "smart_planning")

\* confirm_smart_agent_prompt_draft_atomic with a new key: the draft is planned
\* already, the task only queues.  SmartAgentConversation has the draft.  Keys
\* end in the version of the draft, as no id of a client does, so that the
\* branch for a task that has the key and no record is left out.
ConfirmDraft(u, j, key, x) == key # NoRequest /\ InsertSmart(j, u, key, x, "queued")

\* A repeated call with the same client_request_id and the same content is
\* answered with the task it created the first time.
RepeatCreate(u, r, kind, x) ==
    /\ kind # "smart"
    /\ \E j \in SameRequest(u, r) :
           /\ SameContent(j, kind, x)
           /\ answer' = [job |-> j, user |-> u, kind |-> kind, text |-> x]
    /\ UNCHANGED <<balance, row, status, claim, tr, refunds, events, idem,
                   rendering, outputs>>

RepeatCreateSmart(u, r, x) ==
    /\ r # NoRequest
    /\ idem[u][r] # NoRow
    /\ row[idem[u][r]].text = x
    /\ answer' = [job |-> idem[u][r], user |-> u, kind |-> "smart", text |-> x]
    /\ UNCHANGED <<balance, row, status, claim, tr, refunds, events, idem,
                   rendering, outputs>>

----------------------------------------------------------------------------
(* Giving a fee back *)

NoRefundRow(j, reason) == refunds[j][reason] = 0

\* Mutant: the list price is refunded, not what the task was charged.
GiveBackListPrice(j, reason) ==
    /\ balance' = [balance EXCEPT ![row[j].user] = @ + Price[row[j].kind]]
    /\ refunds' = [refunds EXCEPT ![j][reason] = @ + 1]

\* UPDATE users ... + INSERT balance_ledger; both are skipped for free tasks.
GiveBack(j, reason) ==
    IF row[j].fee > 0
    THEN /\ balance' = [balance EXCEPT ![row[j].user] = @ + row[j].fee]
         /\ refunds' = [refunds EXCEPT ![j][reason] = @ + 1]
    ELSE UNCHANGED <<balance, refunds>>

\* Mutant: the translation request of the cancelled task is left alone.
CancelTaskOnly(j) ==
    /\ status[j] \in {"queued", "translating"}
    /\ status' = [status EXCEPT ![j] = "cancelled_refunded"]
    /\ GiveBack(j, "generate_cancel_refund")
    /\ UNCHANGED <<tr, row, claim, events, idem, rendering, outputs, answer>>

\* cancel_task_atomic, called by the user the task belongs to.  Neither a
\* smart_planning task nor one that is being rendered can be cancelled.
CancelTask(j) ==
    /\ status[j] \in {"queued", "translating"}
    /\ status' = [status EXCEPT ![j] = "cancelled_refunded"]
    /\ GiveBack(j, "generate_cancel_refund")
    /\ tr' = IF tr[j].status \in {"queued", "processing", "done"}
             THEN [tr EXCEPT ![j].status = "cancelled_refunded"]
             ELSE tr
    /\ UNCHANGED <<row, claim, events, idem, rendering, outputs, answer>>

----------------------------------------------------------------------------
(* Fast translation *)

\* The claim looks for queued requests and for stale ones with attempts left.
\* Only the second kind is bounded by max_attempts.
Claimable(j) ==
    /\ status[j] = "translating"
    /\ \/ tr[j].status = "queued"
       \/ /\ tr[j].status = "processing"
          /\ tr[j].stale
          /\ tr[j].attempts < MaxAttempts

\* claim_next_fast_translation
ClaimTranslation(j) ==
    /\ Claimable(j)
    /\ tr[j].attempts < ClaimBound
    /\ tr' = [tr EXCEPT ![j] = [status |-> "processing", stale |-> FALSE,
                                attempts |-> @.attempts + 1]]
    /\ UNCHANGED <<balance, row, status, claim, refunds, events, idem,
                   rendering, outputs, answer>>

\* More than fast_translation_claim_ttl_seconds pass since started_at.
TranslationGrowsStale(j) ==
    /\ tr[j].status = "processing"
    /\ ~tr[j].stale
    /\ tr' = [tr EXCEPT ![j].stale = TRUE]
    /\ UNCHANGED <<balance, row, status, claim, refunds, events, idem,
                   rendering, outputs, answer>>

\* The requeue of recover_stale_fast_translation_tasks.  The transaction
\* checks the task and that the request is processing; that the request was
\* stale was seen in an earlier read and is not checked again.
RequeueTranslation(j) ==
    /\ status[j] = "translating"
    /\ tr[j].status = "processing"
    /\ tr' = [tr EXCEPT ![j].status = "queued", ![j].stale = FALSE]
    /\ UNCHANGED <<balance, row, status, claim, refunds, events, idem,
                   rendering, outputs, answer>>

\* Mutant: a late result is written whatever became of the request and task.
CompleteTranslationLate(j) ==
    /\ tr[j].attempts > 0
    /\ tr' = [tr EXCEPT ![j].status = "done"]
    /\ status' = [status EXCEPT ![j] = "queued"]
    /\ UNCHANGED <<balance, row, claim, refunds, events, idem, rendering,
                   outputs, answer>>

\* complete_fast_translation
CompleteTranslation(j) ==
    /\ tr[j].status = "processing"
    /\ status[j] = "translating"
    /\ tr' = [tr EXCEPT ![j].status = "done"]
    /\ status' = [status EXCEPT ![j] = "queued"]
    /\ UNCHANGED <<balance, row, claim, refunds, events, idem, rendering,
                   outputs, answer>>

\* Mutant: only the ledger is consulted, not the status of the task.
FailTranslationByLedger(j) ==
    /\ tr[j].status # "none"
    /\ NoRefundRow(j, "generate_failed_refund")
    /\ status' = [status EXCEPT ![j] = "failed_refunded"]
    /\ tr' = [tr EXCEPT ![j].status = "failed_refunded"]
    /\ GiveBack(j, "generate_failed_refund")
    /\ UNCHANGED <<row, claim, events, idem, rendering, outputs, answer>>

\* fail_fast_translation_task_refund_atomic: after a failed call, after the
\* last attempt, or because the translator was switched off.
FailTranslation(j) ==
    /\ status[j] = "translating"
    /\ NoRefundRow(j, "generate_failed_refund")
    /\ status' = [status EXCEPT ![j] = "failed_refunded"]
    /\ tr' = [tr EXCEPT ![j].status = "failed_refunded"]
    /\ GiveBack(j, "generate_failed_refund")
    /\ UNCHANGED <<row, claim, events, idem, rendering, outputs, answer>>

----------------------------------------------------------------------------
(* Smart-agent planning *)

\* claim_next_smart_agent_task: unclaimed, or claimed longer ago than the TTL.
ClaimPlanning(j) ==
    /\ status[j] = "smart_planning"
    /\ claim[j] \in {"none", "stale"}
    /\ claim' = [claim EXCEPT ![j] = "fresh"]
    /\ UNCHANGED <<balance, row, status, tr, refunds, events, idem, rendering,
                   outputs, answer>>

PlanningClaimGrowsStale(j) ==
    /\ status[j] = "smart_planning"
    /\ claim[j] = "fresh"
    /\ claim' = [claim EXCEPT ![j] = "stale"]
    /\ UNCHANGED <<balance, row, status, tr, refunds, events, idem, rendering,
                   outputs, answer>>

\* complete_smart_agent_plan, by any worker that ever claimed the task.
CompletePlan(j) ==
    /\ status[j] = "smart_planning"
    /\ claim[j] # "none"
    /\ status' = [status EXCEPT ![j] = "queued"]
    /\ claim' = [claim EXCEPT ![j] = "none"]
    /\ UNCHANGED <<balance, row, tr, refunds, events, idem, rendering,
                   outputs, answer>>

\* fail_smart_agent_task_refund
FailPlanning(j) ==
    /\ status[j] = "smart_planning"
    /\ claim[j] # "none"
    /\ j \notin events
    /\ events' = events \cup {j}
    /\ status' = [status EXCEPT ![j] = "failed_refunded"]
    /\ claim' = [claim EXCEPT ![j] = "none"]
    /\ GiveBack(j, "smart_agent_refund")
    /\ UNCHANGED <<row, tr, idem, rendering, outputs, answer>>

----------------------------------------------------------------------------
(* Rendering: the local renderer (app/mock/mock_generation_worker.py).  The
   production renderer is outside the repository and follows the same
   protocol on the same rows. *)

\* claim_one
ClaimQueued(j) ==
    /\ status[j] = "queued"
    /\ status' = [status EXCEPT ![j] = "processing"]
    /\ rendering' = rendering \cup {j}
    /\ UNCHANGED <<balance, row, claim, tr, refunds, events, idem, outputs, answer>>

\* complete_success: the only status it refuses is done.
RenderSucceeds(j) ==
    /\ j \in rendering
    /\ rendering' = rendering \ {j}
    /\ IF status[j] = "done"
       THEN UNCHANGED <<status, outputs>>
       ELSE /\ status' = [status EXCEPT ![j] = "done"]
            /\ outputs' = outputs \cup {j}
    /\ UNCHANGED <<balance, row, claim, tr, refunds, events, idem, answer>>

\* Mutant: the status is written and the refund forgotten.
RenderFailsUnpaid(j) ==
    /\ j \in rendering
    /\ rendering' = rendering \ {j}
    /\ status' = [status EXCEPT ![j] = IF @ \in Terminal THEN @ ELSE "failed_refunded"]
    /\ UNCHANGED <<balance, refunds, row, claim, tr, events, idem, outputs, answer>>

\* _complete_failed_with_refund, reached from a failed render, a timeout and
\* an output that could not be written.
RenderFails(j) ==
    /\ j \in rendering
    /\ rendering' = rendering \ {j}
    /\ IF status[j] \in Terminal
       THEN UNCHANGED <<balance, status, refunds>>
       ELSE /\ status' = [status EXCEPT ![j] = "failed_refunded"]
            /\ IF NoRefundRow(j, "mock_generation_refund")
               THEN GiveBack(j, "mock_generation_refund")
               ELSE UNCHANGED <<balance, refunds>>
    /\ UNCHANGED <<row, claim, tr, events, idem, outputs, answer>>

\* The renderer dies with the row in memory; the task stays processing.
RendererCrashes(j) ==
    /\ j \in rendering
    /\ rendering' = rendering \ {j}
    /\ UNCHANGED <<balance, row, status, claim, tr, refunds, events, idem,
                   outputs, answer>>

----------------------------------------------------------------------------
Create ==
    \E u \in Users, j \in Jobs, r \in Requests \cup {NoRequest}, x \in Texts :
        \/ CreateTask(u, j, r, x)
        \/ CreateFastTranslationTask(u, j, r, x)
        \/ CreateSmartAgentTask(u, j, r, x)
        \/ ConfirmDraft(u, j, r, x)

Repeat ==
    \E u \in Users, r \in Requests, x \in Texts :
        \/ \E kind \in Kinds : RepeatCreate(u, r, kind, x)
        \/ RepeatCreateSmart(u, r, x)

Translate(j) ==
    \/ ClaimTranslation(j)
    \/ TranslationGrowsStale(j)
    \/ RequeueTranslation(j)
    \/ CompleteTranslation(j)
    \/ FailTranslation(j)

Plan(j) ==
    \/ ClaimPlanning(j)
    \/ PlanningClaimGrowsStale(j)
    \/ CompletePlan(j)
    \/ FailPlanning(j)

Render(j) ==
    \/ ClaimQueued(j)
    \/ RenderSucceeds(j)
    \/ RenderFails(j)
    \/ RendererCrashes(j)

Next ==
    \/ Create
    \/ Repeat
    \/ \E j \in Jobs : CancelTask(j) \/ Translate(j) \/ Plan(j) \/ Render(j)

Spec == Init /\ [][Next]_vars

----------------------------------------------------------------------------
(* Properties *)

\* The rows in the ledger that give the fee of job j back, whatever transaction
\* wrote them.
RefundRows(j) ==
    refunds[j]["generate_cancel_refund"] + refunds[j]["generate_failed_refund"]
    + refunds[j]["smart_agent_refund"] + refunds[j]["mock_generation_refund"]

\* Four transactions in three modules can refund a task, each with a ledger
\* reason and a duplicate check of its own.  Together they give the fee of a
\* charged task back exactly once, and exactly when the task ends refunded.
RefundedExactlyOnce ==
    \A j \in Jobs :
        RefundRows(j) = IF status[j] \in Refunded /\ row[j].fee > 0 THEN 1 ELSE 0

FeeOf == [j \in Jobs |-> IF row[j] = NoRow THEN 0 ELSE row[j].fee]

UnrefundedJobsOf(u) ==
    {j \in Jobs : row[j] # NoRow /\ row[j].user = u /\ status[j] \notin Refunded}

\* A user's credit is what the user started with less the fees of the tasks
\* that are not refunded: users.balance_fen, which every transaction updates in
\* place, never drifts from the task table.
BalanceMatchesTasks ==
    \A u \in Users :
        balance[u] = OpeningCredit[u] - SumFunctionOnSet(FeeOf, UnrefundedJobsOf(u))

\* Nobody has both the picture and the money: a task with an output row is
\* done and no transaction has given its fee back, although complete_success
\* looks only for done and would overwrite a cancelled task.
DeliveredIsNotRefunded ==
    \A j \in outputs : status[j] = "done" /\ RefundRows(j) = 0

\* The two rows of a fast task move together: it is translating exactly while
\* its request is queued or processing, and a request never outlives its task
\* (so the orphans recover_stale_fast_translation_tasks looks for in its last
\* part do not arise from these transactions).
TranslationFollowsTask ==
    \A j \in Jobs :
        /\ status[j] = "translating" <=> tr[j].status \in {"queued", "processing"}
        /\ tr[j].status = "done" => status[j] \in {"queued", "processing", "done", "failed_refunded"}
        /\ tr[j].status \in Refunded => tr[j].status = status[j]

\* One client_request_id of a user names at most one task, whichever of the
\* three create transactions it was sent to, and the idempotency table of the
\* smart agent agrees with the task table.
OneTaskPerRequest ==
    /\ \A j, k \in Jobs :
           /\ row[j] # NoRow /\ row[k] # NoRow
           /\ row[j].user = row[k].user /\ row[j].req = row[k].req /\ row[j].req # NoRequest
           => j = k
    /\ \A u \in Users, r \in Requests :
           idem[u][r] # NoRow =>
               row[idem[u][r]] # NoRow /\ row[idem[u][r]].user = u /\ row[idem[u][r]].req = r

\* A caller is never answered with a task of somebody else, or with one made
\* from other content than the call asked for.
AnswerFitsRequest ==
    answer # NoAnswer =>
        /\ row[answer.job] # NoRow
        /\ row[answer.job].user = answer.user
        /\ row[answer.job].kind = answer.kind
        /\ row[answer.job].text = answer.text

\* However the creates of several users interleave with plans, translations and
\* renders that finish, fail, are requeued or are cancelled, the unfinished tasks
\* of each user and of all users together stay within the two limits: the count
\* is taken over four statuses that different modules write, and none of those
\* transactions makes a task unfinished again.
ActiveWithinLimits ==
    /\ \A u \in Users : Cardinality(ActiveJobsOf(u)) <= UserLimit
    /\ Cardinality(ActiveJobs) <= GlobalLimit

\* What the inductive proofs need beside the properties above: a job has a row
\* once it has a status, the tasks with an output are the done ones, a renderer
\* only holds tasks that are processing, and the idempotency table only names
\* smart tasks.
RowsAndStatuses == \A j \in Jobs : row[j] = NoRow <=> status[j] = "absent"
OutputsAreOfDoneTasks == \A j \in Jobs : j \in outputs <=> status[j] = "done"
RenderingIsProcessing == \A j \in rendering : status[j] = "processing"
IdemNamesSmartTasks ==
    \A u \in Users, r \in Requests :
        idem[u][r] # NoRow => row[idem[u][r]].kind = "smart"

TaskInv ==
    /\ TypeOK
    /\ RowsAndStatuses
    /\ RenderingIsProcessing
    /\ RefundedExactlyOnce
    /\ OutputsAreOfDoneTasks
    /\ TranslationFollowsTask
    /\ OneTaskPerRequest
    /\ IdemNamesSmartTasks
    /\ AnswerFitsRequest

\* A finished task is finished: no late worker, second cancel or second report
\* changes its status or the money again.
FinishedIsFinal ==
    [][\A j \in Jobs : status[j] \in Terminal =>
           status'[j] = status[j] /\ refunds'[j] = refunds[j]]_vars

\* The task table keeps the billing promise: every step charges one job,
\* delivers one, gives one fee back, or leaves every bill alone.
BillOf(j) ==
    IF status[j] = "absent" THEN "none"
    ELSE IF status[j] \in Active THEN "held"
    ELSE IF status[j] = "done" THEN "kept" ELSE "returned"

Bill == [j \in Jobs |-> BillOf(j)]
Payer == [j \in Jobs |-> IF row[j] = NoRow THEN NoOne ELSE row[j].user]

Billing == INSTANCE JobBilling WITH
    Fees <- {Fee(u, kind) : u \in Users, kind \in Kinds},
    credit <- balance, bill <- Bill, payer <- Payer, fee <- FeeOf

KeepsBillingPromise == Billing!BillingSpec

\* The idempotency table keeps its promise: every step binds one new key, to the
\* content of the task it names, or leaves all records alone.
BoundKeys == {p \in Users \X Requests : idem[p[1]][p[2]] # NoRow}
Bound == {[key |-> p, text |-> row[idem[p[1]][p[2]]].text] : p \in BoundKeys}

Records == INSTANCE IdempotencyRecords WITH Keys <- Users \X Requests, bound <- Bound

KeepsRecordsPromise == Records!RecordsSpec

===========================================================================
