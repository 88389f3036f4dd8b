---------------------- MODULE FastTranslationWorkers ----------------------
(***************************************************************************)
(* The loop of app/services/fast_translation_worker.py, one per server     *)
(* process, running against the task table of GenerationTasks.  Every      *)
(* transaction of that module is still one action; what this module adds   *)
(* is what a worker knows between two of them: the rows its recovery read  *)
(* earlier, the request it has taken to the translator, and whether its    *)
(* process has translation switched on.  Processes crash and restart, and  *)
(* a transaction may raise (SQLite stays locked past busy_timeout).        *)
(***************************************************************************)
EXTENDS GenerationTasks

CONSTANTS Workers,     \* server processes on the same database
          FaultBound,  \* bound of the model: crashes and raised transactions
          NoJob

ASSUME WorkersAssumption == IsFiniteSet(Workers) /\ Workers # {}
ASSUME AttemptsAssumption == MaxAttempts >= 1
ASSUME FaultAssumption == FaultBound \in Nat /\ NoJob \notin Jobs

VARIABLES worker,      \* the local state of each loop
          faults       \* crashes and raised transactions so far

workerVars == <<balance, row, status, claim, tr, refunds, events, idem,
                rendering, outputs, answer, worker, faults>>

\* A row the recovery or the shutdown of the service read, as it was then.
SeenRow == [job : Jobs, attempts : Nat]

Worker == [pc : {"down", "start", "recover", "serve", "call", "failall"},
           job : Jobs \cup {NoJob}, todo : SUBSET SeenRow,
           due : BOOLEAN, on : BOOLEAN]

\* A loop has a request exactly while it calls the translator for it, and rows
\* to work off only in the two loops over rows.
WorkersTypeOK ==
    /\ TypeOK
    /\ worker \in [Workers -> Worker]
    /\ faults \in 0..FaultBound
    /\ \A w \in Workers :
           /\ worker[w].pc = "call" <=> worker[w].job # NoJob
           /\ worker[w].todo # {} => worker[w].pc \in {"recover", "failall"}

\* A process that has just started runs the recovery first (first_run).
Started(on) ==
    [pc |-> "start", job |-> NoJob, todo |-> {}, due |-> TRUE, on |-> on]

WorkersInit ==
    /\ Init
    /\ worker = [w \in Workers |-> Started(TRUE)]
    /\ faults = 0

Becomes(w, pc) == worker' = [worker EXCEPT ![w].pc = pc]

----------------------------------------------------------------------------
(* Recovery: recover_stale_fast_translation_tasks *)

Seen(jobs) == {[job |-> j, attempts |-> tr[j].attempts] : j \in jobs}

StaleTranslations ==
    {j \in Jobs : status[j] = "translating" /\ tr[j].status = "processing" /\ tr[j].stale}

\* fast_translation_recovery_interval_seconds pass.
RecoveryComesDue(w) ==
    /\ worker[w].pc = "start"
    /\ ~worker[w].due
    /\ worker' = [worker EXCEPT ![w].due = TRUE]
    /\ UNCHANGED <<vars, faults>>

\* Step 1, read-only: the list is worked off later, in other transactions.
StartRecovery(w) ==
    /\ worker[w].pc = "start"
    /\ worker[w].due
    /\ worker' = [worker EXCEPT ![w].pc = "recover", ![w].due = FALSE,
                                ![w].todo = Seen(StaleTranslations)]
    /\ UNCHANGED <<vars, faults>>

\* fail_fast_translation_task_refund_atomic returns False and changes nothing
\* when the task has left translating.
FailIfTranslating(j) ==
    IF status[j] = "translating" /\ NoRefundRow(j, "generate_failed_refund")
    THEN FailTranslation(j)
    ELSE UNCHANGED vars

\* Mutant: the requeue trusts what was read before.
RequeueAsSeen(j) ==
    /\ tr' = [tr EXCEPT ![j].status = "queued", ![j].stale = FALSE]
    /\ UNCHANGED <<balance, row, status, claim, refunds, events, idem,
                   rendering, outputs, answer>>

\* The recovery looks at both rows again before it requeues.
RequeueIfProcessing(j) ==
    IF status[j] = "translating" /\ tr[j].status = "processing"
    THEN RequeueTranslation(j)
    ELSE UNCHANGED vars

\* Mutant: a row out of attempts is left for the next round.
RecoverRowRequeueOnly(w) ==
    /\ worker[w].pc = "recover"
    /\ \E seen \in worker[w].todo :
           /\ worker' = [worker EXCEPT ![w].todo = @ \ {seen}]
           /\ IF seen.attempts < MaxAttempts
              THEN RequeueIfProcessing(seen.job)
              ELSE UNCHANGED vars
    /\ UNCHANGED faults

\* Mutant: a row with no attempt left is requeued once more.
RecoverRowOnceMore(w) ==
    /\ worker[w].pc = "recover"
    /\ \E seen \in worker[w].todo :
           /\ worker' = [worker EXCEPT ![w].todo = @ \ {seen}]
           /\ IF seen.attempts <= MaxAttempts
              THEN RequeueIfProcessing(seen.job)
              ELSE FailIfTranslating(seen.job)
    /\ UNCHANGED faults

\* Step 2, one transaction per row: the attempts are the ones read in step 1.
RecoverRow(w) ==
    /\ worker[w].pc = "recover"
    /\ \E seen \in worker[w].todo :
           /\ worker' = [worker EXCEPT ![w].todo = @ \ {seen}]
           /\ IF seen.attempts < MaxAttempts
              THEN RequeueIfProcessing(seen.job)
              ELSE FailIfTranslating(seen.job)
    /\ UNCHANGED faults

\* Step 3: processing requests of refunded tasks take over the task's status.
FinishRecovery(w) ==
    /\ worker[w].pc = "recover"
    /\ worker[w].todo = {}
    /\ Becomes(w, "serve")
    /\ tr' = [j \in Jobs |->
           IF tr[j].status = "processing" /\ status[j] \in Refunded
           THEN [tr[j] EXCEPT !.status = status[j]] ELSE tr[j]]
    /\ UNCHANGED <<balance, row, status, claim, refunds, events, idem,
                   rendering, outputs, answer, faults>>

----------------------------------------------------------------------------
(* The loop itself: fast_translation_worker_loop *)

\* The recovery is done or not due yet.
PastRecovery(w) ==
    worker[w].pc = "serve" \/ (worker[w].pc = "start" /\ ~worker[w].due)

ClaimNext(w) ==
    /\ PastRecovery(w)
    /\ worker[w].on
    /\ \E j \in Jobs :
           /\ ClaimTranslation(j)
           /\ worker' = [worker EXCEPT ![w].pc = "call", ![w].job = j]
    /\ UNCHANGED faults

NothingToClaim(w) ==
    /\ worker[w].pc = "serve"
    /\ worker[w].on
    /\ \A j \in Jobs : ~Claimable(j)
    /\ Becomes(w, "start")
    /\ UNCHANGED <<vars, faults>>

\* fail_unserviceable_fast_translation_tasks: the read, then one transaction
\* per row.
OpenTranslations ==
    {j \in Jobs : status[j] = "translating" /\ tr[j].status \in {"queued", "processing"}}

ReadUnserviceable(w) ==
    /\ PastRecovery(w)
    /\ ~worker[w].on
    /\ worker[w].pc = "start" => OpenTranslations # {}
    /\ worker' = [worker EXCEPT ![w].pc = "failall", ![w].todo = Seen(OpenTranslations)]
    /\ UNCHANGED <<vars, faults>>

FailUnserviceable(w) ==
    /\ worker[w].pc = "failall"
    /\ IF worker[w].todo = {}
       THEN Becomes(w, "start") /\ UNCHANGED vars
       ELSE \E seen \in worker[w].todo :
                /\ worker' = [worker EXCEPT ![w].todo = @ \ {seen}]
                /\ FailIfTranslating(seen.job)
    /\ UNCHANGED faults

\* The loop drops the request whatever the transaction said.
DropRequest(w) == worker' = [worker EXCEPT ![w].pc = "start", ![w].job = NoJob]

\* The translator answered; a result for a request that is no longer being
\* processed is discarded.
CallSucceeds(w) ==
    /\ worker[w].pc = "call"
    /\ DropRequest(w)
    /\ LET j == worker[w].job
       IN IF tr[j].status = "processing" /\ status[j] = "translating"
          THEN CompleteTranslation(j)
          ELSE UNCHANGED vars
    /\ UNCHANGED faults

\* The translator failed, or complete_fast_translation raised.
CallFails(w) ==
    /\ worker[w].pc = "call"
    /\ DropRequest(w)
    /\ FailIfTranslating(worker[w].job)
    /\ UNCHANGED faults

----------------------------------------------------------------------------
(* Faults *)

OneMoreFault == faults < FaultBound /\ faults' = faults + 1

\* The refund after a failed call raised too: nobody holds the request now.
CallFailureLost(w) ==
    /\ OneMoreFault
    /\ worker[w].pc = "call"
    /\ DropRequest(w)
    /\ UNCHANGED vars

\* The transaction of one row raised; the loops over rows go on.
RowLost(w) ==
    /\ OneMoreFault
    /\ worker[w].pc \in {"recover", "failall"}
    /\ \E seen \in worker[w].todo : worker' = [worker EXCEPT ![w].todo = @ \ {seen}]
    /\ UNCHANGED vars

Crash(w) ==
    /\ OneMoreFault
    /\ worker[w].pc # "down"
    /\ worker' = [worker EXCEPT ![w] = [Started(FALSE) EXCEPT !.pc = "down"]]
    /\ UNCHANGED vars

\* The settings, and with them whether translation is on, are read again.
Restart(w) ==
    /\ worker[w].pc = "down"
    /\ \E on \in BOOLEAN : worker' = [worker EXCEPT ![w] = Started(on)]
    /\ UNCHANGED <<vars, faults>>

----------------------------------------------------------------------------
Recover(w) == StartRecovery(w) \/ RecoverRow(w) \/ FinishRecovery(w)
Serve(w) ==
    \/ ClaimNext(w) \/ NothingToClaim(w)
    \/ ReadUnserviceable(w) \/ FailUnserviceable(w)
    \/ CallSucceeds(w) \/ CallFails(w)
WorkerStep(w) == Recover(w) \/ Serve(w)
Fault(w) == CallFailureLost(w) \/ RowLost(w) \/ Crash(w)

\* Everybody else: users create and cancel, the renderer takes queued tasks.
Others ==
    /\ \/ \E u \in Users, j \in Jobs, r \in Requests \cup {NoRequest}, x \in Texts :
              CreateFastTranslationTask(u, j, r, x)
       \/ \E j \in Jobs : CancelTask(j) \/ ClaimQueued(j) \/ RenderSucceeds(j) \/ RenderFails(j)
    /\ UNCHANGED <<worker, faults>>

GrowsStale(j) == TranslationGrowsStale(j) /\ UNCHANGED <<worker, faults>>

WorkersNext ==
    \/ \E w \in Workers : WorkerStep(w) \/ RecoveryComesDue(w) \/ Restart(w) \/ Fault(w)
    \/ \E j \in Jobs : GrowsStale(j)
    \/ Others

WorkersSpec == WorkersInit /\ [][WorkersNext]_workerVars

\* A running loop takes its next step (the call to the translator has a
\* timeout), time passes, and a stopped server is started again.  Nothing is
\* assumed of users and renderers.
Fairness ==
    /\ \A w \in Workers :
           /\ WF_workerVars(WorkerStep(w))
           /\ WF_workerVars(RecoveryComesDue(w))
           /\ WF_workerVars(Restart(w))
    /\ \A j \in Jobs : WF_workerVars(GrowsStale(j))

FairWorkersSpec == WorkersSpec /\ Fairness

----------------------------------------------------------------------------
(* Properties *)

\* Each process can requeue a request once on the strength of an attempt count
\* it read before another process claimed the request again.  One process
\* keeps to max_attempts, crashes included; n processes to max_attempts + n - 1.
AttemptsBounded ==
    \A j \in Jobs : tr[j].attempts <= MaxAttempts + Cardinality(Workers) - 1

\* The inductive form: the claims a request has had, the one it will get if it
\* is queued, and one for every process that still believes it has attempts left.
BelievesInRetry(w, j) ==
    /\ worker[w].pc = "recover"
    /\ \E seen \in worker[w].todo : seen.job = j /\ seen.attempts < MaxAttempts
Believers(j) == {w \in Workers : BelievesInRetry(w, j)}
Waiting(j) == IF tr[j].status = "queued" THEN 1 ELSE 0

ClaimBudget ==
    \A j \in Jobs : tr[j].attempts + Waiting(j) + Cardinality(Believers(j))
                        <= MaxAttempts + Cardinality(Workers) - 1

\* A recovery lists each request once, and only requests that exist.
ListsAreSound ==
    \A w \in Workers :
        /\ \A seen \in worker[w].todo : status[seen.job] # "absent"
        /\ \A a, b \in worker[w].todo : a.job = b.job => a = b

WorkersInv ==
    /\ TaskInv
    /\ WorkersTypeOK
    /\ ListsAreSound
    /\ ClaimBudget

\* A request no worker is calling the translator for is not forgotten: it is
\* queued, or it will become stale and be found, so long as any worker runs the
\* loop again.  A paid task therefore never stays translating for ever, whatever
\* crashes and whatever transaction raises.
EveryTranslationSettles ==
    \A j \in Jobs : status[j] = "translating" ~> status[j] # "translating"

\* The loop uses the task table only in ways GenerationTasks allows, and the
\* reconciliation at the end of a recovery finds nothing to do.
WorkersKeepTaskProtocol == Spec
===========================================================================
