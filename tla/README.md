# TLA+ models of the UMA web service

This directory holds TLA+ specifications of the server under `uma_web_mvp/app`,
TLC configurations that model-check them on small instances, and TLAPS proofs
of theorems about them for every value of the constants.  Paths and line
numbers below are relative to `uma_web_mvp/app` unless they say otherwise.
`PROJECT.json` maps every definition to the lines it stands for.

## 1. The system

A user pays credits for pictures.  The web server (FastAPI, one uvicorn process,
`run_web.bat:8`) writes tasks into one SQLite database in WAL mode; every
transaction that matters is `BEGIN IMMEDIATE`, so one transaction is one step.
Background loops of the same process translate prompts, plan smart-agent tasks,
answer chat messages and review refund requests.  The renderer (a Discord bot
with ComfyUI) is outside the repository and shares the database;
`mock/mock_generation_worker.py` stands in for it and is what we model.

| Component | State | Operations | Talks to |
|---|---|---|---|
| Tasks and ledger (`db.py`) | `users.balance_fen`, `generation_tasks`, `balance_ledger`, `smart_agent_billing_events`, `smart_agent_request_idempotency` | three create transactions, the confirmation of a draft, cancel, complete, four refunds | every other part |
| Fast translation (`services/fast_translation_worker.py`) | `translation_requests`, a loop per process | claim, complete, fail and refund, recover, fail unserviceable | tasks |
| Mock renderer (`mock/mock_generation_worker.py`) | tasks in memory | claim, succeed, fail and refund | tasks |
| Smart-agent planning (`main.py`, `db.py`) | a claim mark with TTL in the task row | create, claim, plan, fail and refund | tasks, language model |
| Image refunds (`db.py`, `main.py`, `services/mimo_review.py`) | `image_refund_reviews`, reviewer loop | request, claim, verdict, pay, appeal, five administrator actions | ledger, vision model |
| Smart-agent conversation (`db.py`, `main.py`, `smart_agent/v2_store.py`, `v2_worker.py`) | `smart_agent_messages`, `smart_agent_turns`, `smart_agent_prompt_drafts`, chat worker | send (V2 on and off), begin/bind/abort/finish turn, claim, save draft, confirm by three routes, choose a candidate, clear | tasks, disambiguation, language model |
| Disambiguation (`smart_agent/disambiguation_engine.py`, `db.py`, `main.py`, `v2_worker.py`) | `pending_disambiguation_json` of a conversation, saved resolutions | ask, answer by button or by text, supersede, expire, clear | conversation |
| Recharge (`recharge_service.py`) | `recharge_requests` | create, cancel, mark paid, expire, claim and report a notification | owner's bot |
| Direct translation (`services/fast_translator_service.py`) | `translation_requests` without a task | charge, finish, refund | ledger, language model |
| Accounts (`db.py`, `auth.py`) | accounts, bindings, referral codes and relationships, bonus rows | register, first return from Discord, claim a code, campaign switch | ledger |
| Sign-in (`auth.py`, `db.py`) | e-mail codes, reset tokens, OAuth states, passwords with their lock, sessions | send, verify, log in by three routes, set, change and reset a password, log out here, elsewhere and everywhere | accounts, e-mail, Discord |
| Support threads (`db.py`, `main.py`) | threads, messages, two read marks each | post, close, reopen, list, mark read | administrators |
| Uploads (`main.py`) | files named by job code | save, remove after a refusal, a repeat or a cancel | tasks |
| Rate limits (`redis_client.py`, `main.py`, `main_limiter.py`) | counters in Redis, lists in memory | count, expire, fall back | Redis |
| Queue estimates (`db.py`) | none: read from the task rows | place in the queue, estimated wait | tasks |
| Search, AI support chat, settings, front end | see section 7 | | |

What is hard here:

* **Concurrency.**  Handlers run on the event loop and in threads, loops run
  beside them, a second process or the bot shares the database.  Whatever is
  read in one transaction may be stale in the next.
* **Money.**  Four transactions in three modules refund a task and each looks
  for its own ledger reason only; a picture can be refunded once more by the
  after-sales path.
* **Crashes.**  A claimed row outlives its worker.  Every table has its own
  time-out, attempt counter or none at all.
* **Retries.**  A client repeats a create, a message or a click.  There are
  three create transactions and three confirmations, each with its own key.
* **Steps without a transaction around them.**  An answer to a question is four
  commits, an upload is a file beside a row, a rate limit two calls of Redis,
  an order a SELECT and a later UPDATE.
* **Swallowed exceptions.**  Most loops log and go on; the transaction that
  was to put the row right may be the one that raised.

What makes the parts correct: the fee of a task is taken once and either kept
or given back once, in full (tasks, direct translations, refunds); a balance is
the opening credit less the fees of unrefunded tasks; one request id makes one
task, charge or message; both admission limits hold; finished tasks and settled
orders never change; claimed work is finished or given to somebody else; a
draft is charged for once and points to a task of its own content; a
conversation is worked on by one turn at a time; a request is planned with the
characters its user chose; every secret admits once, and ending all sessions
ends them; bonuses are paid once; what counts as read was shown; a picture
lives as long as its task needs it.

## 2. The modules

| Module | Models | Composition |
|---|---|---|
| `JobBilling` | the abstract promise: charge, then keep or return in full, once | implemented by `GenerationTasks`, `DirectTranslation` and `ImageRefunds` |
| `IdempotencyRecords` | the abstract promise of the idempotency table: a key is bound once, to one content | implemented by the next row and by `SmartAgentConversation` |
| `GenerationTasks` | task table, ledger, idempotency, translation rows, planning claims, renderer | refines `JobBilling` and `IdempotencyRecords` |
| `FastTranslationWorkers` | the translation loops, with crashes | EXTENDS `GenerationTasks` and refines it |
| `DirectTranslation` | a prompt translated at once: charge, finish, refund | refines `JobBilling` |
| `ImageRefunds` | reviewer loops and administrators | runs on `JobBilling`'s `Charge`/`Keep`/`Return`; refines `JobBilling` |
| `SmartAgentConversation` | one conversation: messages, turns, draft, confirmations, clear | refines `IdempotencyRecords`, as `GenerationTasks` does |
| `Disambiguation` | the question of one conversation, button and worker | the inside of what `SmartAgentConversation` leaves open |
| `Recharge` | top-up orders and their notifiers | |
| `Accounts` | who has an account and what it was given | the abstract side of sign-in |
| `SignIn` | codes, tokens, OAuth states, passwords, sessions, handlers | EXTENDS `Accounts` and refines it |
| `SupportThreads`, `TaskUploads`, `RateLimits`, `QueueEstimates` | one small part each | run side by side in `MCServices` |
| `SumTheorems` | lemmas on sums over finite sets, iteration and rank | used by the proofs |
| `JobBillingProofs` | whoever keeps the billing promise conserves credit | INSTANCEd by the proofs of its implementations |
| `GenerationTasksProofs`, `ImageRefundsProofs`, `SmartAgentConversationProofs`, `SignInProofs` | theorems about the module of that name (the first also about `FastTranslationWorkers`, the last about `Accounts`) | EXTEND it |
| `PaymentProofs` | theorems about `Recharge` and `DirectTranslation` | EXTENDS them |
| `ServicesProofs` | theorems about disambiguation, support threads, uploads, rate limits and queue estimates | EXTENDS them |
| `MC*` | model values, prices, symmetry sets | EXTEND it and `TLC` |

A call that is refused changes nothing and is a stutter everywhere.  Time is
never a clock where a Boolean does: "the claim is older than its TTL", "the
order has expired", "the code is in its last second or past it" are marks set
by an action of their own.

### GenerationTasks

One action per transaction of `db.py`: `CreateTask`, `CreateFastTranslationTask`,
`CreateSmartAgentTask`, `ConfirmDraft`, their repeats, cancel, claim, complete, fail.  `row` is
what a create wrote for good (user, kind, fee, request id, content), `status`,
`claim` and `tr` what later transactions change, `refunds` counts ledger rows
per reason, `events` the unique refund keys, `idem` the idempotency table.  The
admission check, the debit and the insert are one action because they are one
transaction.  Claims take any claimable row: the code takes the oldest, which no
property of this module depends on (`QueueEstimates` has the order).

### FastTranslationWorkers

A worker per process with a program counter for the loop of
`fast_translation_worker_loop`.  The recovery reads its list (`Seen`) in one
transaction and treats each row in another; the claim, the answer and the
fallback when translation is switched off are separate steps.  A crash loses
the local state, a raised transaction leaves the row as it was.

### DirectTranslation

`BeginCharge`, the wait for the model and `Finish` or `Refund` are steps of a
handler; a cancelled or killed handler (`CallIsLost`, `ServerRestarts`) leaves
its row `processing`, and no loop looks for it.  The price is the setting read
at start, so a refund must be of what was charged, not of what it would be now.

### ImageRefunds

Reviewer and administrator handlers are sequences of calls with a step each,
because no transaction spans them.  The vision model gives any of its three
verdicts.  The environment is `JobBilling` itself: which jobs are charged,
kept and returned is what `GenerationTasks` is proved to do.

### SmartAgentConversation

The rows of one conversation.  `v2` is the setting, read at start and possibly
another after a restart.  `handler` is the message handler that holds the
event loop: from `begin_turn_atomic` to `bind_turn_message` there is no
`await`, but crashes, threads (claim, save, confirm, clear) and exceptions can
fall between its transactions.  `confirms` are handlers that wait for the
confirm thread with a version they read before.  The worker's `pc` follows
`process_smart_agent_turn_v2` from await to await; what the language model
answers decides nothing the model fixes, so a turn may end in every way the
code has.  `draft.saved`, `saves` and `clears` are history: they number the
saved drafts.  A key is the text the code builds: where it comes from, the id
in it and the version appended by the transaction.

### Disambiguation

The question is one JSON text that the button's endpoint (`click`) and the
worker (`turn`) read, change and write back whole.  Both do so on the event
loop without an await between (`LoopIsFree`); clearing the conversation runs in
a thread and comes in anywhere.  A question has a group per ambiguous mention
with its candidates.  Its id is a hash of the time and of nothing else, so any
groups of a question may share one (`Ids`), and an answer to one of them is an
answer to all.  `asked` numbers the questions, `said` is history and remembers
what the user chose for which group, whichever way he said it, `own` whether the
groups had ids of their own, and `broken` the questions some handler failed
half-way with.  The row that a button saves holds the first `ResolutionLimit`
characters (four in the code), a text passes on all of them.  With V2 off the worker does not read the saved
resolution, which is finding 5.

### Recharge

Each handler runs in a thread and reads before it opens a transaction, so
`ReadForCancel`/`WriteCancel`, `ReadForPaid`/`WritePaid` and `CountPending`/
`InsertOrder` are pairs of steps.  The owner's decision, made in the bot, is an
action of the environment.  `told` is what the buyer was answered.

### Accounts and SignIn

`Accounts` has an action for each transaction that makes an account with all it
is given.  `SignIn` adds how a request comes to be allowed to: a handler
verifies in one transaction, touches the account in the next and creates the
session in a third.  Between these it holds the event loop, except on the
return from Discord, which waits for the network (`pc = "network"`), and except
for a crash.  `session.current`, `handler.current` and `overtaken` are history:
whether the proof of ownership is newer than the last time all sessions were
ended, and how many returns from Discord waited for the network at that time.
Such a return is not checked again, so it makes a session after all sessions were
ended; `OlderSignInsEnd` allows these returns, one session each, and no others.

### SupportThreads, TaskUploads, RateLimits, QueueEstimates

`SupportThreads`: an administrator's page marks in one transaction and lists in
the next, a user's lists and marks later; `seen` is what was on a page.
`TaskUploads`: the file is saved before the transaction that may or may not make
the task, and removed after the one that cancels it.  `RateLimits`: INCR and
EXPIRE are two calls; the list in memory is tested, popped and appended to
without a lock, a step each.  `QueueEstimates`: the estimate is an operator on
the rows, list scheduling on `generation_worker_count` lanes; the actions are
what the transactions of `GenerationTasks` do to the times it reads.

## 3. Runs

| Run | Asks | Distinct states |
|---|---|---|
| `generation_tasks` | ledger, limits, idempotency, translation rows and the refinement of `JobBilling`: three users (one the owner, whose plain tasks are free), three jobs, a limit of one for a user and of two for all, one request id, two contents; symmetric in jobs, users and contents | 257,405 |
| `translation` | two loops, one task, three faults: attempts, refinement of the task table, every translation settles | 24,600 |
| `image_refunds` | two loops that can hold the same review, an administrator, two faults | 72,088 |
| `conversation` | two request ids, three messages, two drafts, one clear, one fault, V2 on or off: all safety properties; symmetric in ids and contents | 1,144,762 |
| `conversation_settles` | one request id and chosen candidates, three messages, under fairness | 86,101 |
| `sign_in` | one e-mail address, one Discord user, two codes, tokens, OAuth states and sessions, two handlers; symmetric in handlers and states | 1,477,256 |
| `services` | seven parts, one after another: see below | 450,534 |
| `confirmation_key`, `cleared_draft`, `rejected_appeal`, `pending_refund`, `asked_again` | expected violations, see section 6 | until found |

`MCServices` puts the seven parts that share no state into one run: the first
state chooses `part`, only that part moves, and the state spaces add up instead
of multiplying.  Parts that would start in several states do so only when they
are the chosen one.  `Recharge`: two orders, two threads, two notifiers, a limit of one.
`DirectTranslation`: three calls, two of them able to share a request id, two
handlers, two prices of which one is zero.  `Disambiguation`: three characters,
three mentions, three requests (one definite, one with two definite characters
and a mention to ask about, one with two mentions of the same candidates and a
third), a row that holds two characters, so that the third answer is dropped,
two questions, one fault, one clear, V2 on and off.  `SupportThreads`: three
messages and pages of two.  `TaskUploads`: two calls, one id, two contents.
`RateLimits`: two callers, a limit of two, a window of one.  `QueueEstimates`:
three tasks, two lanes, two seconds.

**Bounds.**  `MaxAttempts`, `ClaimBound`, `FaultBound`, `MessageBound`,
`SaveBound`, `ClearBound`, `CodeBound`, `TokenBound`, `SessionBound`,
`UnlockBound`, `QuestionBound`, `PostBound`, `ClockBound`, `BreakBound`,
`CountBound`, `TaskBound`, `SecondBound` bound counters; the first is the code's
own setting.  Two jobs, orders or messages are what a race over one row and a
wrong row need, three what a limit of two needs to be refused.  Two contents
distinguish "same request" from "same id".  One clear and two saves make a
version come round again; one fault reaches every recovery, two also a crash
during the recovery.  Two codes make one supersede the other, two sessions at a
limit of one make one push the other out.  `CHECK_DEADLOCK FALSE` everywhere:
with counters at their bounds, or nothing left to do, the systems may stop.

Three MC modules also bound their steps by `SmallInstance`, which keeps the
number of states down.  `MCGenerationTasks`: three tasks only where they have
one content, no request id and at most one claim; that is what the limit for all
users needs, and two tasks of any kind what the other properties need.
`MCSignIn`: three codes and OAuth states together, so two of one and one of the
other.  `MCServices`: a second question is a short one.

**Fairness.**  Weak fairness of the steps of a loop or handler that has begun
(each call has a time-out: 90 s and two retries for the language model), of
restarting a stopped process, and of time passing.  Nothing is assumed of
users, administrators or renderers.  `TurnsEnd` takes "the user keeps trying"
as a premise of the property: stale turns are recovered by requests only.  The
modules of `services` and `sign_in` have no loop that owes anybody an answer,
and state no fairness.

**Vacuity.**  For every property of a passing run `PROJECT.json` names a mutant:
a plausible slip in one action, defined beside it, under which TLC finds that
property violated in the same configuration.

What the runs show, beyond the absence of errors:

* `recover_stale_fast_translation_tasks` step 3 (orphans) never changes a row:
  `TranslationFollowsTask` excludes what it looks for.
* With n processes a request can be attempted `max_attempts + n - 1` times, and
  TLC reaches that bound: each process may act once on a count it read before
  another claimed the request.
* The refund branch of cancel for a translation of a task that is not fast is
  unreachable.
* A generated draft and its task agree even when keys repeat, because the
  fingerprint is compared under the same key.
* The limit of pending orders, counted outside the transaction, is exceeded by
  at most the number of handlers under way less one.
* The estimated wait is exactly when a worker would be free, if the workers
  took the unfinished tasks in turn; and a waiting task's place gets worse only
  through a new task that has to be translated or planned first.  The estimate
  in seconds promises less: it can rise when a translation ends, because the
  order of the line changes, so no such property is stated.
* The list that stands in for Redis admits more than its limit only by the
  calls that ran beside one another and the times one thread took from the
  list in the place of another (`dropped`); a counter without a time to live
  can be no higher than failures and calls under way.

## 4. Theorems

All proofs are checked by tlapm to the last leaf, from the assumptions named
in the modules (constants are of the right type, limits are naturals, the sets
whose members are counted are finite, `SlotsFinite` and `HandlersFinite` among
them, a smart task costs something).  Every
safety invariant and every action property of the passing runs is a theorem.

* **The billing promise.**  `PromiseConservesCredit` is proved of `JobBilling`
  alone: what users have and what is charged and not given back always add up
  to what there was at the start.  `GenerationTasks`, `ImageRefunds` and
  `DirectTranslation` implement `JobBilling`, and inherit the result through
  their refinement (`RefundsConserveCredit`, `DirectConservesCredit`).  For the
  task table it takes the form the run checks, `BalanceIsExact`: each balance is
  the opening credit less the fees of the user's tasks that were not refunded.
* **GenerationTasks.**  `TaskInv` is inductive.  `RefundedExactlyOnce` alone is
  not: that a cancelled task is not refunded again needs that its translation
  row moved with it (`TranslationFollowsTask`), that a renderer holds only
  tasks in processing (`RenderingIsProcessing`) and that outputs belong to done
  tasks.  `OneTaskPerRequest` needs that the idempotency table names smart
  tasks (`IdemNamesSmartTasks`).  The limits have an invariant of their own over
  cardinalities.  `TasksKeepBillingPromise` maps each transaction to a charge,
  a delivery, a return or a stutter; the free tasks of the owner are charges of
  nothing.
* **Idempotency.**  `TasksKeepRecords`: a step of the task table binds one key
  nobody has bound, to the content of the task it creates, or leaves all records
  alone; rows are written once, so the content a record leads to never changes.
  `ConversationKeepsRecords`: whatever a conversation does, with three routes of
  confirmation, clears, crashes and V2 on or off, its tasks are made under the
  same promise.  So the two modules, which are separate because their state
  spaces would multiply, agree in what they take of one another.
* **FastTranslationWorkers.**  `WorkersImplementTasks` shows the loops to be the
  task table's own steps, so every theorem above holds of them.
  `AttemptsAreBounded` rests on `ClaimBudget`: attempts made, plus the one
  waiting, plus one for each process whose list still says a retry is left.
* **ImageRefunds.**  `ReviewInv`: a review marked refunded is paid, payments go
  to reviews of delivered pictures, and whoever works works on a review that
  exists.  `RefundsKeepBillingPromise` is the refinement for any number of
  loops and administrators.
* **SmartAgentConversation.**  `ConversationInv` has two halves.  The draft:
  saves are numbered ahead of what exists (`SavesAreNew`), a ready draft has no
  task (`ReadyHasNoTask`), a key has one task (`OneTaskPerKey`); from these
  `OneTaskPerDraft` and `GeneratedDraftIsItsTask`.  The messages: a handler
  that is about to add a message has looked for its request
  (`AddingNewRequest`), unused ids have none; from these `OneMessagePerRequest`,
  and `NeverInParallel` from the claim.
* **Recharge.**  `RechargeInv` adds to the properties what a handler knows of
  the order it waits to write (`OrdersKnown`).  `OrdersStaySettled` follows
  from the WHERE clauses, once a stale handler is known to hold an order that
  exists; `PendingIsAlmostBounded` counts orders and inserting handlers
  together, for any number of them.
* **DirectTranslation.**  `DirectInv` says whose a waiting request is and that an
  open one is not refunded (`CallersOwnRequests`); with it each step is a step
  of `JobBilling`, although the refund looks only for its own ledger row.
* **SignIn.**  `AccountsInv` is proved of `Accounts` alone.
  `SignInImplementsAccounts` shows every step of `SignIn` to be one of
  `Accounts`, and `SignInPaysBonusesOnce` takes its result from there.
  `SignInInv` then needs that rows are filled in order (`FilledInOrder`), for
  which code is the newest; that an open secret has admitted nobody
  (`SecretsKnown`); that an account that is not locked has a guess left
  (`GuessesKnown`); and that a handler that has the loop has a proof that still
  counts, or is among those counted in `overtaken` (`HandlersKnown`), for
  `OlderSignInsEnd`: older sessions and the returns from Discord that can still
  make one are together no more than the returns that waited when all sessions
  were ended.
* **Services.**  `Disambiguation`: who holds a reading of the question holds
  none older than the row and is alone in doing so, unless the conversation was
  cleared or a newer question asked meanwhile; from this `AnswersStay`.
  `ChosenIsPlanned` relates what is planned to what the user said, through every
  place where a question or its answer is kept (`SoundQuestion`, `Followed`):
  groups with one id have one answer, which the user gave to one of them, and
  with ids of their own each has the one it was given.  `AllAnswersFollowed` is
  the lemma on what the turn and the row of the button make of the answers.
  Support threads, uploads and
  the counters of `RateLimits` have an invariant each, which relates the local
  state of a handler to the row, file or key it will touch.  `WindowIsAlmostKept`
  needs `WindowInv`: a list and the calls about to append to it are together no
  more than the limit and the other callers (`ListsStayShort`), and of what was
  admitted at any times of the window the list lacks at most the times counted in
  `dropped` (`RecentIsListed`).
* **Queue estimates.**  `PlacesAreKept` is a theorem on sets: a step that is not
  an arrival to be planned or translated adds nobody before a task that waits.
  `EstimatesAreSchedules` shows that the code's simulation (give each task to the
  least loaded lane, answer the smallest load) yields the first second in which
  fewer tasks run than there are workers.  It follows the loads from one task to
  the next: the k-th task starts when the least loaded lane is free, at any
  second from the last start on the tasks at work are as many as the lanes still
  loaded, and a task more moves exactly one lane.

The provers have no induction over data (its theorems take an operator as a
parameter), so `SumTheorems` states induction over subsets and naturals for
sets: a set of naturals that is not empty has a smallest member, and a set of
subsets a smallest one (`WFMin` of `WellFoundedInduction`).  From these it
derives that `SumFunctionOnSet` does not depend on the order of the elements, how
it changes with one element or one value, and that every rank in a finite line
is taken.

Only model-checked: liveness (`EveryTranslationSettles`, `UndecidedIsReviewed`,
`EveryMessageSettles`, `TurnsEnd`), which TLAPS does not prove under fairness,
and the violations.  Proved and in no run: `DeliveredStaysPaid`,
`SessionsStayBounded`, the conservation of credit by the promise, by the refunds
and by the direct translations, and the two theorems on idempotency records.

## 5. Plan

Done: every module of section 2, and the proofs of all their safety properties.

Left, in this order:

1. `Disambiguation` as the detailed side of `SmartAgentConversation`: the
   question of the one is the flag `ambiguity` of the other.
2. The draft of a conversation and its task as one state: so far
   `SmartAgentConversation` and `GenerationTasks` meet in `IdempotencyRecords`.
3. The short Redis locks of request deduplication, and the cached queue status.

## 6. Findings

1. **A rejected appeal can still be paid** (`rejected_appeal`, `main.py:1875`).
   An administrator's approval is checked against a row read before; another
   rejects the appeal in between, which users are told is final.
2. **A refund that raised is never retried** (`pending_refund`, `main.py:1879`).
   The review stays in `refund_pending`, which no loop and no action leaves.
3. **Confirmation keys repeat** (`confirmation_key`, `db.py:1915`).  Versions
   start again at 1 when a conversation is cleared and idempotency records stay,
   so a confirmation is refused as a conflict or linked to the old task.
4. **A cleared conversation gets its old draft back** (`cleared_draft`,
   `db.py:2715`).  A turn in work while the conversation is cleared saves its
   draft afterwards.
5. **An answered question is asked again** (`asked_again`, `main.py:5347`).
   The button saves the chosen characters for the queued message so that names
   are not matched again; with V2 off, the default (`config.py:138`), the
   worker never reads them (only `v2_worker.py:156` does) and asks once more.

Seen while modelling, without a statement in the repository to refute:

* Tasks.  `smart_planning` tasks can neither be cancelled nor recovered while
  the smart agent is off; a task whose renderer died stays `processing` and
  counts against the limits.  A planned task gets a new `created_at` and queues
  at the end, a translated one keeps its own.  A create with a client id that a
  direct translation has used fails on the unique index.
* Refunds.  A review whose third attempt dies stays `reviewing`, one whose
  reviewer dies after the verdict stays `approved` until an administrator acts.
* Conversations.  A turn whose handler died before it stored the message
  answers the client's retry as a duplicate; a worker that dies between
  confirming and closing a message plans the message again and charges a second
  task, since the key contains the version; request ids over 80 characters are
  never recognised as duplicates (`main.py:2813`); the read of a draft that a
  confirmation validates is not the row it confirms;
  `get_conversation_messages` (`db.py:2583`) returns the oldest messages of a
  conversation, not the latest; the columns of the older question about
  characters (`db.py:2735`) are read by the legacy handler and written by nothing
  that is called, so its branches on them are dead.
* Questions.  A crash after all answers are saved and before the question is
  cleared leaves one nobody can answer; a crash after that and before the
  message is queued loses the request; a clear between a handler's read and its
  write brings the question back; `resolved_characters` is stored and never
  read.  An answer can be lost in two ways.  Ids of groups are hashes of
  `str(time.time())` and are made in a loop, so two groups made in one tick of the
  clock share one, although the docstring calls it unique
  (`smart_agent/disambiguation_engine.py:415-417`), and a click on one answers
  both.  And with more than four groups the characters after the fourth are
  dropped from the row of the button (`smart_agent/v2_store.py:288`).
  `PlannedAsChosen` says what still holds then.
* Recharge.  Unpaid orders that have expired stay `created` and block new ones
  until somebody marks them paid; a notifier that dies leaves its orders
  `sending` for ever; a cancel that lost its race is answered "cancelled"
  (`main.py:2078`), though the same buyer was told "submitted" by the other.
* Direct translation.  A handler that is cancelled or dies leaves the charge and
  the row in `processing`.
* Sign-in.  A return from Discord that has spent its state and waits for the
  network while all sessions are ended makes its session afterwards: nothing is
  looked at again (`auth.py:660-728`).  A code in the very second of `expires_at` is neither superseded nor
  refused; registering spends the code before the invitation is looked at; the
  bounded sending of e-mail gives its slot back on a time-out while its thread
  still sends (`auth.py:173-194`).
* Support.  A user's page marks an administrator's message read that arrived
  after the page was made; messages past the 200th are marked and never shown.
* Uploads.  A cancel that dies between commit and unlink leaves the file; files
  of finished tasks are never deleted; nothing sweeps the directory.
* Limits.  A Redis counter without a time to live that has reached the limit of
  password attempts stays there; keys of the lists in memory are never removed.

## 7. Not modelled

* **Character search, index and preferences.**  Text matching over a data file.
  What it returns is any of a small set wherever it matters (`Requests` of
  `Disambiguation`); that a given text matches a given character is not stated
  anywhere but in the code.
* **Prompt planner, workflows, LoRAs, resolutions.**  Data lookups and text.
* **AI support chat, user settings, feedback.**  Rows that are inserted or
  upserted one at a time, without interaction.
* **Clients of outside services, front end, schemas, settings.**  The first are
  calls that answer or fail; the second sends the requests the models leave
  open; limits are CONSTANTS.
* **Inside the modelled parts.**  The 24-hour window for refund requests (left
  open); events, replies and conversation memory; hashes, cookies and CSRF
  tokens; display names; the limits on sending and guessing that only refuse;
  clean-ups that delete rows nothing accepts any more; the status cache of 2 to
  8 seconds and the lists of tasks, which only read; the short Redis locks of
  request deduplication.  Conversations share only the one chat worker, so one
  is modelled; its tasks' debit and limits are those of `ConfirmDraft` in
  `GenerationTasks`.  A confirmation whose key a task has without a record is left
  out: keys end in the version of the draft, as no id of a client does.
  A handler that resolves a candidate with a request id a message already has
  is left out: the model gives such messages no id.
* **Code that nothing calls**: `create_smart_agent_queued_task_atomic` and
  `refund_unintended_smart_agent_generation`.
