--------------------------- MODULE ImageRefunds ---------------------------
(***************************************************************************)
(* Refunds of delivered pictures: the image_refund_reviews table           *)
(* (app/db.py), the reviewer loop that asks a vision model (app/main.py)   *)
(* and the administrators' buttons (_admin_image_refund_action).           *)
(*                                                                         *)
(* A database function is one action.  The reviewer loop and an            *)
(* administrator's request call several of them, one after the other, and  *)
(* most only say WHERE review_code=?, so each keeps what it knows between  *)
(* two calls.  The tasks themselves are an environment that charges,       *)
(* delivers and, until delivery, gives back, which is what GenerationTasks *)
(* is shown to do.  The 24 hour window of a request, which only refuses,   *)
(* is left open.                                                           *)
(***************************************************************************)
EXTENDS JobBilling, FiniteSets

CONSTANTS OpeningCredit, \* balance_fen of each user at the start
          Reviewers,     \* server processes, each with one reviewer loop
          Admins,        \* administrator requests that can be under way
          FaultBound,    \* bound of the model: crashes and raised database calls
          NoJob

ASSUME ReviewCredit == OpeningCredit \in [Users -> Nat]
ASSUME ReviewFees == Fees \subseteq Nat /\ NoOne \notin Users
ASSUME ReviewConstants == FaultBound \in Nat /\ NoJob \notin Jobs

VARIABLES review,    \* the review row of each job
          reviewer,  \* what each reviewer loop is doing
          admin,     \* what each administrator request is doing
          faults     \* crashes and raised calls so far

reviewVars == <<review, reviewer, admin, faults>>
vars == <<billingVars, reviewVars>>

ReviewStatuses ==
    {"none", "pending", "reviewing", "approved", "auto_rejected",
     "manual_review_available", "manual_review_requested", "manual_rejected",
     "refund_pending", "refunded"}

Verdicts == {"approved", "auto_rejected", "manual_review_available"}
AdminActions == {"approve", "reject", "manual_review", "retry"}

MaxReviews == 3    \* attempt_count < 3

\* stale: claimed_at is more than ten minutes ago; appealed:
\* manual_review_attempts is 1; paid: refunded_at and refund_ledger_id are set.
Review == [status : ReviewStatuses, attempts : 0..MaxReviews,
           stale : BOOLEAN, appealed : BOOLEAN, paid : BOOLEAN]

Reviewer == [pc : {"down", "idle", "call", "approved", "refund", "giveup"},
             job : Jobs \cup {NoJob}]

Admin == [pc : {"idle", "write", "refund", "pending"}, job : Jobs \cup {NoJob},
          action : AdminActions, appealed : BOOLEAN]

NoReview == [status |-> "none", attempts |-> 0, stale |-> FALSE,
             appealed |-> FALSE, paid |-> FALSE]
IdleReviewer == [pc |-> "idle", job |-> NoJob]
IdleAdmin == [pc |-> "idle", job |-> NoJob, action |-> "approve", appealed |-> FALSE]

ReviewsTypeOK ==
    /\ BillingTypeOK
    /\ review \in [Jobs -> Review]
    /\ reviewer \in [Reviewers -> Reviewer]
    /\ admin \in [Admins -> Admin]
    /\ faults \in 0..FaultBound
    /\ \A r \in Reviewers : reviewer[r].job = NoJob <=> reviewer[r].pc \in {"down", "idle"}
    /\ \A a \in Admins : admin[a].job = NoJob <=> admin[a].pc = "idle"

Init ==
    /\ credit = OpeningCredit
    /\ bill = [j \in Jobs |-> "none"]
    /\ payer = [j \in Jobs |-> NoOne]
    /\ fee = [j \in Jobs |-> 0]
    /\ review = [j \in Jobs |-> NoReview]
    /\ reviewer = [r \in Reviewers |-> IdleReviewer]
    /\ admin = [a \in Admins |-> IdleAdmin]
    /\ faults = 0

SetStatus(j, status) == review' = [review EXCEPT ![j].status = status]

OneMoreFault == faults < FaultBound /\ faults' = faults + 1

----------------------------------------------------------------------------
(* The tasks *)

TaskStep(j) ==
    /\ \/ \E u \in Users, amount \in Fees : Charge(j, u, amount)
       \/ Keep(j)
       \/ bill[j] = "held" /\ Return(j)
    /\ UNCHANGED reviewVars

----------------------------------------------------------------------------
(* The user *)

\* create_image_refund_review; a second request is answered with the review
\* that exists.
CreateReview(j) ==
    /\ review[j].status = "none"
    /\ bill[j] = "kept"
    /\ fee[j] > 0
    /\ SetStatus(j, "pending")
    /\ UNCHANGED <<billingVars, reviewer, admin, faults>>

\* request_manual_image_refund_review: one appeal, after the automatic verdict.
RequestManualReview(j) ==
    /\ review[j].status \in {"auto_rejected", "manual_review_available"}
    /\ ~review[j].paid
    /\ ~review[j].appealed
    /\ review' = [review EXCEPT ![j].status = "manual_review_requested",
                                ![j].appealed = TRUE]
    /\ UNCHANGED <<billingVars, reviewer, admin, faults>>

----------------------------------------------------------------------------
(* Paying *)

\* Mutant: the payment is guarded by the status of the review.
PayByStatus(j) ==
    IF review[j].status = "refunded"
    THEN UNCHANGED <<billingVars, review>>
    ELSE /\ credit' = [credit EXCEPT ![payer[j]] = @ + fee[j]]
         /\ review' = [review EXCEPT ![j].status = "refunded", ![j].paid = TRUE]
         /\ UNCHANGED <<bill, payer, fee>>

\* refund_image_review_atomic: guarded by refunded_at and the ledger row, not
\* by the status, which it overwrites.
Pay(j) ==
    IF review[j].paid
    THEN UNCHANGED <<billingVars, review>>
    ELSE /\ credit' = [credit EXCEPT ![payer[j]] = @ + fee[j]]
         /\ review' = [review EXCEPT ![j].status = "refunded", ![j].paid = TRUE]
         /\ UNCHANGED <<bill, payer, fee>>

----------------------------------------------------------------------------
(* The reviewer loop: image_refund_reviewer_loop *)

GoTo(r, pc) == reviewer' = [reviewer EXCEPT ![r].pc = pc]
Drop(r) == reviewer' = [reviewer EXCEPT ![r] = IdleReviewer]

\* Mutant: a review whose reviewer died is never claimed again.
ClaimablePending(j) ==
    review[j].attempts < MaxReviews /\ review[j].status = "pending"

Claimable(j) ==
    /\ review[j].attempts < MaxReviews
    /\ review[j].status = "pending" \/ (review[j].status = "reviewing" /\ review[j].stale)

\* claim_next_image_refund_review
ClaimReview(r) ==
    /\ reviewer[r].pc = "idle"
    /\ \E j \in Jobs :
           /\ Claimable(j)
           /\ review' = [review EXCEPT ![j].status = "reviewing", ![j].stale = FALSE,
                                       ![j].attempts = @ + 1]
           /\ reviewer' = [reviewer EXCEPT ![r] = [pc |-> "call", job |-> j]]
    /\ UNCHANGED <<billingVars, admin, faults>>

\* Ten minutes pass since the claim.
ReviewGrowsStale(j) ==
    /\ review[j].status = "reviewing"
    /\ ~review[j].stale
    /\ review' = [review EXCEPT ![j].stale = TRUE]
    /\ UNCHANGED <<billingVars, reviewer, admin, faults>>

\* review_deformed_images answered; save_image_refund_review_result writes the
\* verdict over whatever the status is by now.
SaveVerdict(r) ==
    /\ reviewer[r].pc = "call"
    /\ \E verdict \in Verdicts :
           /\ SetStatus(reviewer[r].job, verdict)
           /\ IF verdict = "approved" THEN GoTo(r, "approved") ELSE Drop(r)
    /\ UNCHANGED <<billingVars, admin, faults>>

\* Mutant: the final status is announced before the money is moved.
MarkRefunded(r) ==
    /\ reviewer[r].pc = "approved"
    /\ SetStatus(reviewer[r].job, "refunded")
    /\ GoTo(r, "refund")
    /\ UNCHANGED <<billingVars, admin, faults>>

MarkPending(r) ==
    /\ reviewer[r].pc = "approved"
    /\ SetStatus(reviewer[r].job, "refund_pending")
    /\ GoTo(r, "refund")
    /\ UNCHANGED <<billingVars, admin, faults>>

PayAfterReview(r) ==
    /\ reviewer[r].pc = "refund"
    /\ Pay(reviewer[r].job)
    /\ Drop(r)
    /\ UNCHANGED <<admin, faults>>

\* The model could not be asked, or its answer not be read.
CallFails(r) ==
    /\ reviewer[r].pc = "call"
    /\ GoTo(r, "giveup")
    /\ UNCHANGED <<billingVars, review, admin, faults>>

\* A database call raised after the model had answered.
ReviewerRaises(r) ==
    /\ OneMoreFault
    /\ reviewer[r].pc \in {"call", "approved", "refund"}
    /\ GoTo(r, "giveup")
    /\ UNCHANGED <<billingVars, review, admin>>

\* The except branch hands the review to an administrator.
GiveUp(r) ==
    /\ reviewer[r].pc = "giveup"
    /\ SetStatus(reviewer[r].job, "manual_review_available")
    /\ Drop(r)
    /\ UNCHANGED <<billingVars, admin, faults>>

GiveUpRaises(r) ==
    /\ OneMoreFault
    /\ reviewer[r].pc = "giveup"
    /\ Drop(r)
    /\ UNCHANGED <<billingVars, review, admin>>

ReviewerCrashes(r) ==
    /\ OneMoreFault
    /\ reviewer[r].pc # "down"
    /\ reviewer' = [reviewer EXCEPT ![r] = [pc |-> "down", job |-> NoJob]]
    /\ UNCHANGED <<billingVars, review, admin>>

ReviewerRestarts(r) ==
    /\ reviewer[r].pc = "down"
    /\ Drop(r)
    /\ UNCHANGED <<billingVars, review, admin, faults>>

----------------------------------------------------------------------------
(* An administrator's request: _admin_image_refund_action *)

\* The row is read and the action refused or, with what was read, begun.  A
\* refused request and one that finds its work done change nothing.
AdminReads(a) ==
    /\ admin[a].pc = "idle"
    /\ \E j \in Jobs, action \in AdminActions :
           /\ review[j].status \notin {"none", "refunded", "manual_rejected", "refund_pending"}
           /\ admin' = [admin EXCEPT ![a] =
                  [pc |-> "write", job |-> j, action |-> action,
                   appealed |-> review[j].appealed]]
    /\ UNCHANGED <<billingVars, review, reviewer, faults>>

AdminDone(a) == admin' = [admin EXCEPT ![a] = IdleAdmin]

AdminApproves(a) ==
    /\ admin[a].pc = "write"
    /\ admin[a].action = "approve"
    /\ SetStatus(admin[a].job, "refund_pending")
    /\ admin' = [admin EXCEPT ![a].pc = "refund"]
    /\ UNCHANGED <<billingVars, reviewer, faults>>

AdminPays(a) ==
    /\ admin[a].pc = "refund"
    /\ Pay(admin[a].job)
    /\ AdminDone(a)
    /\ UNCHANGED <<reviewer, faults>>

\* The refund raised: the status is written again and the request fails.
AdminPayRaises(a) ==
    /\ OneMoreFault
    /\ admin[a].pc = "refund"
    /\ admin' = [admin EXCEPT ![a].pc = "pending"]
    /\ UNCHANGED <<billingVars, review, reviewer>>

AdminLeavesPending(a) ==
    /\ admin[a].pc = "pending"
    /\ SetStatus(admin[a].job, "refund_pending")
    /\ AdminDone(a)
    /\ UNCHANGED <<billingVars, reviewer, faults>>

\* A rejected appeal is final (reject_manual_image_refund_review, which looks
\* at the row again); any other rejection leaves the user the appeal.
AdminRejects(a) ==
    /\ admin[a].pc = "write"
    /\ admin[a].action = "reject"
    /\ LET j == admin[a].job
       IN IF ~admin[a].appealed THEN SetStatus(j, "auto_rejected")
          ELSE IF review[j].paid \/ review[j].status = "manual_rejected" THEN UNCHANGED review
          ELSE SetStatus(j, "manual_rejected")
    /\ AdminDone(a)
    /\ UNCHANGED <<billingVars, reviewer, faults>>

AdminSendsBack(a) ==
    /\ admin[a].pc = "write"
    /\ \/ admin[a].action = "manual_review" /\ SetStatus(admin[a].job, "manual_review_available")
       \/ admin[a].action = "retry" /\ SetStatus(admin[a].job, "pending")
    /\ AdminDone(a)
    /\ UNCHANGED <<billingVars, reviewer, faults>>

\* The process dies under the request.
AdminRequestLost(a) ==
    /\ OneMoreFault
    /\ admin[a].pc # "idle"
    /\ AdminDone(a)
    /\ UNCHANGED <<billingVars, review, reviewer>>

----------------------------------------------------------------------------
ReviewerStep(r) ==
    \/ ClaimReview(r) \/ SaveVerdict(r) \/ CallFails(r) \/ GiveUp(r)
    \/ MarkPending(r) \/ PayAfterReview(r)

AdminStep(a) ==
    \/ AdminApproves(a) \/ AdminPays(a) \/ AdminLeavesPending(a)
    \/ AdminRejects(a) \/ AdminSendsBack(a)

Fault ==
    \/ \E r \in Reviewers : ReviewerRaises(r) \/ GiveUpRaises(r) \/ ReviewerCrashes(r)
    \/ \E a \in Admins : AdminPayRaises(a) \/ AdminRequestLost(a)

Next ==
    \/ \E j \in Jobs :
           TaskStep(j) \/ CreateReview(j) \/ RequestManualReview(j) \/ ReviewGrowsStale(j)
    \/ \E r \in Reviewers : ReviewerStep(r) \/ ReviewerRestarts(r)
    \/ \E a \in Admins : AdminReads(a) \/ AdminStep(a)
    \/ Fault

Spec == Init /\ [][Next]_vars

\* A reviewer loop takes its next step (the model call has a timeout), a
\* stopped server is started again, claims age, and an administrator's request
\* that has begun goes on.  Nobody has to appeal or press a button.
Fairness ==
    /\ \A r \in Reviewers : WF_vars(ReviewerStep(r)) /\ WF_vars(ReviewerRestarts(r))
    /\ \A j \in Jobs : WF_vars(ReviewGrowsStale(j))
    /\ \A a \in Admins : WF_vars(AdminStep(a))

FairSpec == Spec /\ Fairness

----------------------------------------------------------------------------
(* Properties *)

\* What the user and the administrators are shown as refunded has been paid.
\* Six writers set the status without looking at it, and an approval of a
\* review that reads refunded is answered "already refunded" on its strength.
ShownRefundedIsPaid ==
    \A j \in Jobs : review[j].status = "refunded" => review[j].paid

\* Only delivered and charged pictures are reviewed, so a job is never given
\* back both as a task and as a picture.
ReviewedIsDelivered ==
    \A j \in Jobs : review[j].status # "none" => bill[j] = "kept" /\ fee[j] > 0

\* Reviewer loops and administrators who pay for the same picture at the same
\* time, repeat a payment after a crash, or act on what they read before it,
\* give the fee back once, in full, to the user who paid it.
BillAfterReviews == [j \in Jobs |-> IF review[j].paid THEN "returned" ELSE bill[j]]

Promise == INSTANCE JobBilling WITH bill <- BillAfterReviews

KeepsRefundPromise == Promise!BillingSpec

\* What the proof of these needs besides: a paid review is a review, nobody works
\* on a review that does not exist, and a charged job has a payer.
PaidIsReviewed == \A j \in Jobs : review[j].paid => review[j].status # "none"
WorkIsOnReviews ==
    /\ \A r \in Reviewers :
           reviewer[r].job # NoJob => review[reviewer[r].job].status # "none"
    /\ \A a \in Admins : admin[a].job # NoJob => review[admin[a].job].status # "none"
ChargedHasPayer == \A j \in Jobs : bill[j] # "none" => payer[j] \in Users

ReviewInv ==
    /\ ReviewsTypeOK
    /\ ReviewedIsDelivered
    /\ ShownRefundedIsPaid
    /\ PaidIsReviewed
    /\ WorkIsOnReviews
    /\ ChargedHasPayer

\* A review whose reviewer died is found again while attempts are left; an
\* undecided request is not forgotten.
UndecidedIsReviewed ==
    \A j \in Jobs :
        review[j].status \in {"pending", "reviewing"} /\ review[j].attempts < MaxReviews
            ~> review[j].status \notin {"pending", "reviewing"} \/ review[j].attempts = MaxReviews

\* "This task failed manual review and cannot request another refund"
\* (static/i18n.js:697), and main.py:1867 answers every other action on such a
\* review with final_state_locked: a rejected appeal stays rejected.
RejectedAppealIsFinal ==
    [][\A j \in Jobs : review[j].status = "manual_rejected" =>
           review'[j].status = "manual_rejected"]_vars

\* A refund that raised is announced as "the refund is not complete yet and
\* will be retried later" (main.py:1879): it is paid some day, or the review is
\* taken out of refund_pending so that somebody can act on it again.
PendingRefundIsRetried ==
    \A a \in Admins, j \in Jobs :
        admin[a].pc = "pending" /\ admin[a].job = j
            ~> review[j].paid \/ review[j].status # "refund_pending"
===========================================================================
