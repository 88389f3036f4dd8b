------------------------ MODULE ImageRefundsProofs ------------------------
(* Theorems about ImageRefunds, for any number of pictures, reviewer loops and
   administrator requests. *)
EXTENDS ImageRefunds, TLAPS

USE DEF ReviewStatuses, Verdicts, AdminActions, MaxReviews, BillStates

----------------------------------------------------------------------------
(* Steps that write one review row and move no money *)

\* What every step but the payments does to the table: it writes at most one
\* existing row, says neither none nor refunded, and leaves paid alone.
Overwrite(j, row) ==
    /\ review[j].status # "none"
    /\ row \in Review
    /\ row.status \notin {"none", "refunded"}
    /\ row.paid = review[j].paid
    /\ review' = [review EXCEPT ![j] = row]

\* Such a step preserves everything that is said about the rows.
LEMMA OverwriteIsHarmless ==
    ASSUME ReviewInv, NEW j \in Jobs, NEW row, Overwrite(j, row), UNCHANGED billingVars
    PROVE  /\ review' \in [Jobs -> Review]
           /\ BillingTypeOK' /\ ChargedHasPayer'
           /\ ReviewedIsDelivered' /\ ShownRefundedIsPaid' /\ PaidIsReviewed'
           /\ \A k \in Jobs : review[k].status # "none" => review'[k].status # "none"
<1>1. review \in [Jobs -> Review] /\ BillingTypeOK
  BY DEF ReviewInv, ReviewsTypeOK
<1>2. /\ review' \in [Jobs -> Review]
      /\ \A k \in Jobs : k # j => review'[k] = review[k]
      /\ review'[j] = row
  BY <1>1 DEF Overwrite
<1> QED BY <1>1, <1>2 DEF Overwrite, ReviewInv, ReviewedIsDelivered, ShownRefundedIsPaid,
           PaidIsReviewed, ChargedHasPayer, BillingTypeOK, billingVars

\* Setting the status of an existing review is such a step.
LEMMA SetStatusOverwrites ==
    ASSUME ReviewInv, NEW j \in Jobs, review[j].status # "none",
           NEW s \in ReviewStatuses \ {"none", "refunded"}, SetStatus(j, s)
    PROVE  Overwrite(j, [review[j] EXCEPT !.status = s])
BY DEF ReviewInv, ReviewsTypeOK, Review, SetStatus, Overwrite

\* Paying touches only the credit of the payer and the paid row.
LEMMA PayStep ==
    ASSUME ReviewInv, NEW j \in Jobs, review[j].status # "none", Pay(j)
    PROVE  /\ review' \in [Jobs -> Review]
           /\ BillingTypeOK' /\ ChargedHasPayer'
           /\ ReviewedIsDelivered' /\ ShownRefundedIsPaid' /\ PaidIsReviewed'
           /\ \A k \in Jobs : review[k].status # "none" => review'[k].status # "none"
<1>1. review \in [Jobs -> Review] /\ BillingTypeOK
  BY DEF ReviewInv, ReviewsTypeOK
<1>2. CASE review[j].paid
  BY <1>1, <1>2 DEF Pay, ReviewInv, ReviewedIsDelivered, ShownRefundedIsPaid,
     PaidIsReviewed, ChargedHasPayer, BillingTypeOK, billingVars
<1>3. CASE ~review[j].paid
  <2>1. /\ review' \in [Jobs -> Review]
        /\ \A k \in Jobs : k # j => review'[k] = review[k]
        /\ review'[j].status = "refunded" /\ review'[j].paid
    BY <1>1, <1>3 DEF Pay, Review
  <2>2. payer[j] \in Users /\ fee[j] \in Nat
    BY <1>1 DEF ReviewInv, ReviewedIsDelivered, ChargedHasPayer, BillingTypeOK
  <2>3. credit' \in [Users -> Nat]
    BY <1>1, <1>3, <2>2 DEF Pay, BillingTypeOK
  <2> QED BY <1>1, <1>3, <2>1, <2>2, <2>3 DEF Pay, ReviewInv, ReviewedIsDelivered,
             ShownRefundedIsPaid, PaidIsReviewed, ChargedHasPayer, BillingTypeOK
<1> QED BY <1>2, <1>3

\* The tasks only move before their picture is delivered.
LEMMA TaskStepKeepsReviews ==
    ASSUME ReviewInv, NEW j \in Jobs, TaskStep(j)
    PROVE  BillingTypeOK' /\ ChargedHasPayer' /\ ReviewedIsDelivered'
<1>1. BillingTypeOK /\ review \in [Jobs -> Review] /\ UNCHANGED review
  BY DEF ReviewInv, ReviewsTypeOK, TaskStep, reviewVars
<1>2. ASSUME NEW u \in Users, NEW amount \in Fees, Charge(j, u, amount)
      PROVE  BillingTypeOK' /\ ChargedHasPayer' /\ ReviewedIsDelivered'
  <2>1. amount \in Nat
    BY ReviewFees
  <2> QED BY <1>1, <1>2, <2>1 DEF Charge, BillingTypeOK, ReviewInv, ChargedHasPayer, ReviewedIsDelivered
<1>3. ASSUME Keep(j)
      PROVE  BillingTypeOK' /\ ChargedHasPayer' /\ ReviewedIsDelivered'
  BY <1>1, <1>3 DEF Keep, BillingTypeOK, ReviewInv, ChargedHasPayer, ReviewedIsDelivered
<1>4. ASSUME bill[j] = "held", Return(j)
      PROVE  BillingTypeOK' /\ ChargedHasPayer' /\ ReviewedIsDelivered'
  <2>1. payer[j] \in Users /\ fee[j] \in Nat
    BY <1>1, <1>4 DEF ReviewInv, ChargedHasPayer, BillingTypeOK
  <2> QED BY <1>1, <1>4, <2>1 DEF Return, BillingTypeOK, ReviewInv, ChargedHasPayer, ReviewedIsDelivered
<1> QED BY <1>2, <1>3, <1>4 DEF TaskStep

----------------------------------------------------------------------------
(* The invariant *)

\* What has to be shown of the rows and of those who work on them, apart from
\* the claims about the table as such.
TableInv ==
    /\ BillingTypeOK
    /\ review \in [Jobs -> Review]
    /\ ReviewedIsDelivered /\ ShownRefundedIsPaid /\ PaidIsReviewed /\ ChargedHasPayer

ReviewerOK(r) ==
    /\ reviewer[r] \in Reviewer
    /\ reviewer[r].job = NoJob <=> reviewer[r].pc \in {"down", "idle"}
    /\ reviewer[r].job # NoJob => review[reviewer[r].job].status # "none"

AdminOK(a) ==
    /\ admin[a] \in Admin
    /\ admin[a].job = NoJob <=> admin[a].pc = "idle"
    /\ admin[a].job # NoJob => review[admin[a].job].status # "none"

\* The invariant is the table's part and one part for every worker.
LEMMA InvParts ==
    ReviewInv <=>
        /\ TableInv
        /\ reviewer \in [Reviewers -> Reviewer] /\ \A r \in Reviewers : ReviewerOK(r)
        /\ admin \in [Admins -> Admin] /\ \A a \in Admins : AdminOK(a)
        /\ faults \in 0..FaultBound
BY DEF ReviewInv, ReviewsTypeOK, TableInv, ReviewerOK, AdminOK, WorkIsOnReviews

\* Reviews do not disappear.
ReviewsStay == \A k \in Jobs : review[k].status # "none" => review'[k].status # "none"

\* An action of one reviewer loop preserves the invariant when it preserves the
\* table's part and its own.
LEMMA ReviewerFrame ==
    ASSUME ReviewInv, TableInv', ReviewsStay, NEW r \in Reviewers, NEW new \in Reviewer,
           reviewer' = [reviewer EXCEPT ![r] = new],
           new.job = NoJob <=> new.pc \in {"down", "idle"},
           new.job # NoJob => review'[new.job].status # "none",
           UNCHANGED admin, faults' \in 0..FaultBound
    PROVE  ReviewInv'
<1>1. /\ reviewer \in [Reviewers -> Reviewer] /\ \A q \in Reviewers : ReviewerOK(q)
      /\ admin \in [Admins -> Admin] /\ \A a \in Admins : AdminOK(a)
  BY InvParts
<1>2. \A q \in Reviewers : ReviewerOK(q)'
  BY <1>1 DEF ReviewerOK, ReviewsStay, Reviewer
<1>3. \A a \in Admins : AdminOK(a)'
  BY <1>1 DEF AdminOK, ReviewsStay, Admin
<1>4. reviewer' \in [Reviewers -> Reviewer] /\ admin' \in [Admins -> Admin]
  BY <1>1
<1> QED BY <1>2, <1>3, <1>4
   DEF ReviewInv, ReviewsTypeOK, TableInv, ReviewerOK, AdminOK, WorkIsOnReviews

\* The same of an administrator's request.
LEMMA AdminFrame ==
    ASSUME ReviewInv, TableInv', ReviewsStay, NEW a \in Admins, NEW new \in Admin,
           admin' = [admin EXCEPT ![a] = new],
           new.job = NoJob <=> new.pc = "idle",
           new.job # NoJob => review'[new.job].status # "none",
           UNCHANGED reviewer, faults' \in 0..FaultBound
    PROVE  ReviewInv'
<1>1. /\ reviewer \in [Reviewers -> Reviewer] /\ \A q \in Reviewers : ReviewerOK(q)
      /\ admin \in [Admins -> Admin] /\ \A b \in Admins : AdminOK(b)
  BY InvParts
<1>2. \A q \in Reviewers : ReviewerOK(q)'
  BY <1>1 DEF ReviewerOK, ReviewsStay, Reviewer
<1>3. \A b \in Admins : AdminOK(b)'
  BY <1>1 DEF AdminOK, ReviewsStay, Admin
<1>4. reviewer' \in [Reviewers -> Reviewer] /\ admin' \in [Admins -> Admin]
  BY <1>1
<1> QED BY <1>2, <1>3, <1>4
   DEF ReviewInv, ReviewsTypeOK, TableInv, ReviewerOK, AdminOK, WorkIsOnReviews

\* A step that only moves a worker leaves the table's part alone.
LEMMA TableFrame ==
    ASSUME ReviewInv, UNCHANGED <<billingVars, review>>
    PROVE  TableInv' /\ ReviewsStay
BY InvParts DEF TableInv, ReviewsStay, BillingTypeOK, ReviewedIsDelivered,
   ShownRefundedIsPaid, PaidIsReviewed, ChargedHasPayer, billingVars

\* A harmless overwrite and a payment keep the table's part.
LEMMA TableKept ==
    ASSUME ReviewInv, NEW j \in Jobs, review[j].status # "none",
           \/ Pay(j)
           \/ \E row : Overwrite(j, row) /\ UNCHANGED billingVars
           \/ /\ \E s \in ReviewStatuses \ {"none", "refunded"} : SetStatus(j, s)
              /\ UNCHANGED billingVars
    PROVE  TableInv' /\ ReviewsStay
<1>1. CASE Pay(j)
  BY <1>1, PayStep DEF TableInv, ReviewsStay
<1>2. CASE \E row : Overwrite(j, row) /\ UNCHANGED billingVars
  BY <1>2, OverwriteIsHarmless DEF TableInv, ReviewsStay
<1>3. CASE /\ \E s \in ReviewStatuses \ {"none", "refunded"} : SetStatus(j, s)
           /\ UNCHANGED billingVars
  BY <1>3, SetStatusOverwrites, OverwriteIsHarmless DEF TableInv, ReviewsStay
<1> QED BY <1>1, <1>2, <1>3

----------------------------------------------------------------------------
(* Every step preserves it *)

\* The steps of a reviewer loop, its faults and restarts included.
LEMMA ReviewerPreserves ==
    ASSUME ReviewInv, NEW r \in Reviewers,
           ReviewerStep(r) \/ ReviewerRaises(r) \/ GiveUpRaises(r)
           \/ ReviewerCrashes(r) \/ ReviewerRestarts(r)
    PROVE  ReviewInv'
<1>1. /\ TableInv /\ ReviewerOK(r) /\ faults \in 0..FaultBound /\ FaultBound \in Nat
      /\ reviewer \in [Reviewers -> Reviewer] /\ review \in [Jobs -> Review]
      /\ IdleReviewer \in Reviewer /\ NoJob \notin Jobs
  BY InvParts, ReviewConstants DEF TableInv, IdleReviewer, Reviewer
<1>2. ASSUME Drop(r), TableInv', ReviewsStay, UNCHANGED admin, faults' \in 0..FaultBound
      PROVE  ReviewInv'
  BY <1>1, <1>2, ReviewerFrame DEF Drop, IdleReviewer
<1>3. ASSUME NEW pc \in {"approved", "refund", "giveup"}, GoTo(r, pc),
             reviewer[r].job \in Jobs,
             TableInv', ReviewsStay, UNCHANGED admin, faults' \in 0..FaultBound
      PROVE  ReviewInv'
  <2> DEFINE new == [reviewer[r] EXCEPT !.pc = pc]
  <2>1. new \in Reviewer /\ new.job = reviewer[r].job /\ new.pc = pc
    BY <1>1 DEF Reviewer
  <2>2. reviewer' = [reviewer EXCEPT ![r] = new]
    BY <1>3 DEF GoTo
  <2>3. review'[new.job].status # "none"
    BY <1>1, <1>3, <2>1 DEF ReviewerOK, ReviewsStay
  <2> HIDE DEF new
  <2> QED BY <1>1, <1>3, <2>1, <2>2, <2>3, ReviewerFrame
<1>4. ASSUME reviewer[r].pc \notin {"down", "idle"}
      PROVE  reviewer[r].job \in Jobs /\ review[reviewer[r].job].status # "none"
  BY <1>1, <1>4 DEF ReviewerOK, Reviewer
<1>5. CASE ClaimReview(r)
  <2>1. PICK j \in Jobs :
            /\ Claimable(j)
            /\ review' = [review EXCEPT ![j].status = "reviewing", ![j].stale = FALSE,
                                        ![j].attempts = @ + 1]
            /\ reviewer' = [reviewer EXCEPT ![r] = [pc |-> "call", job |-> j]]
    BY <1>5 DEF ClaimReview
  <2> DEFINE claimed == [review[j] EXCEPT !.status = "reviewing", !.stale = FALSE,
                                          !.attempts = @ + 1]
  <2>2. Overwrite(j, claimed)
    BY <1>1, <2>1 DEF Claimable, Overwrite, Review
  <2>3. TableInv' /\ ReviewsStay
    <3> HIDE DEF claimed
    <3>1. review[j].status # "none" /\ UNCHANGED billingVars
      BY <1>5, <2>1 DEF ClaimReview, Claimable
    <3> QED BY <2>2, <3>1, TableKept
  <2>4. review'[j].status # "none"
    BY <1>1, <2>1 DEF Review
  <2>5. /\ [pc |-> "call", job |-> j] \in Reviewer
        /\ UNCHANGED admin /\ faults' \in 0..FaultBound
    BY <1>1, <1>5 DEF Reviewer, ClaimReview
  <2> QED BY <1>1, <2>1, <2>3, <2>4, <2>5, ReviewerFrame
<1>6. CASE SaveVerdict(r)
  <2>1. TableInv' /\ ReviewsStay
    BY <1>4, <1>6, TableKept DEF SaveVerdict
  <2> QED BY <1>1, <1>2, <1>3, <1>4, <1>6, <2>1 DEF SaveVerdict
<1>7. CASE MarkPending(r)
  <2>1. TableInv' /\ ReviewsStay
    BY <1>4, <1>7, TableKept DEF MarkPending
  <2> QED BY <1>1, <1>3, <1>4, <1>7, <2>1 DEF MarkPending
<1>8. CASE PayAfterReview(r)
  <2>1. TableInv' /\ ReviewsStay
    BY <1>4, <1>8, TableKept DEF PayAfterReview
  <2> QED BY <1>1, <1>2, <1>8, <2>1 DEF PayAfterReview
<1>9. CASE CallFails(r) \/ ReviewerRaises(r)
  <2>1. TableInv' /\ ReviewsStay
    BY <1>9, TableFrame DEF CallFails, ReviewerRaises
  <2>2. /\ GoTo(r, "giveup") /\ UNCHANGED admin /\ reviewer[r].pc \notin {"down", "idle"}
        /\ faults' \in 0..FaultBound
    BY <1>1, <1>9 DEF CallFails, ReviewerRaises, OneMoreFault
  <2> QED BY <1>3, <1>4, <2>1, <2>2
<1>10. CASE GiveUp(r)
  <2>1. TableInv' /\ ReviewsStay
    BY <1>4, <1>10, TableKept DEF GiveUp
  <2> QED BY <1>1, <1>2, <1>10, <2>1 DEF GiveUp
<1>11. CASE GiveUpRaises(r) \/ ReviewerRestarts(r)
  <2>1. TableInv' /\ ReviewsStay
    BY <1>11, TableFrame DEF GiveUpRaises, ReviewerRestarts
  <2>2. Drop(r) /\ UNCHANGED admin /\ faults' \in 0..FaultBound
    BY <1>1, <1>11 DEF GiveUpRaises, ReviewerRestarts, OneMoreFault
  <2> QED BY <1>2, <2>1, <2>2
<1>12. CASE ReviewerCrashes(r)
  <2>1. TableInv' /\ ReviewsStay
    BY <1>12, TableFrame DEF ReviewerCrashes
  <2>2. [pc |-> "down", job |-> NoJob] \in Reviewer
    BY DEF Reviewer
  <2>3. UNCHANGED admin /\ faults' \in 0..FaultBound
    BY <1>1, <1>12 DEF ReviewerCrashes, OneMoreFault
  <2> QED BY <1>12, <2>1, <2>2, <2>3, ReviewerFrame DEF ReviewerCrashes
<1> QED BY <1>5, <1>6, <1>7, <1>8, <1>9, <1>10, <1>11, <1>12 DEF ReviewerStep

\* The steps of an administrator's request and its faults.
LEMMA AdminPreserves ==
    ASSUME ReviewInv, NEW a \in Admins,
           AdminReads(a) \/ AdminStep(a) \/ AdminPayRaises(a) \/ AdminRequestLost(a)
    PROVE  ReviewInv'
<1>1. /\ TableInv /\ AdminOK(a) /\ faults \in 0..FaultBound /\ FaultBound \in Nat
      /\ admin \in [Admins -> Admin] /\ review \in [Jobs -> Review]
      /\ IdleAdmin \in Admin /\ NoJob \notin Jobs
  BY InvParts, ReviewConstants DEF TableInv, IdleAdmin, Admin
<1>2. ASSUME AdminDone(a), TableInv', ReviewsStay, UNCHANGED reviewer, faults' \in 0..FaultBound
      PROVE  ReviewInv'
  BY <1>1, <1>2, AdminFrame DEF AdminDone, IdleAdmin
<1>3. ASSUME NEW pc \in {"refund", "pending"}, admin' = [admin EXCEPT ![a].pc = pc],
             admin[a].job \in Jobs,
             TableInv', ReviewsStay, UNCHANGED reviewer, faults' \in 0..FaultBound
      PROVE  ReviewInv'
  <2> DEFINE new == [admin[a] EXCEPT !.pc = pc]
  <2>1. new \in Admin /\ new.job = admin[a].job /\ new.pc = pc
    BY <1>1 DEF Admin
  <2>2. admin' = [admin EXCEPT ![a] = new]
    BY <1>3
  <2>3. review'[new.job].status # "none"
    BY <1>1, <1>3, <2>1 DEF AdminOK, ReviewsStay
  <2> HIDE DEF new
  <2> QED BY <1>1, <1>3, <2>1, <2>2, <2>3, AdminFrame
<1>4. ASSUME admin[a].pc # "idle"
      PROVE  admin[a].job \in Jobs /\ review[admin[a].job].status # "none"
  BY <1>1, <1>4 DEF AdminOK, Admin
<1>5. CASE AdminReads(a)
  <2>1. PICK j \in Jobs, action \in AdminActions :
            /\ review[j].status # "none"
            /\ admin' = [admin EXCEPT ![a] = [pc |-> "write", job |-> j, action |-> action,
                                              appealed |-> review[j].appealed]]
    BY <1>5 DEF AdminReads
  <2>2. TableInv' /\ ReviewsStay
    BY <1>5, TableFrame DEF AdminReads
  <2> DEFINE new == [pc |-> "write", job |-> j, action |-> action,
                     appealed |-> review[j].appealed]
  <2>3. new \in Admin /\ new.job = j /\ new.pc = "write"
    BY <1>1 DEF Admin, Review
  <2>4. /\ admin' = [admin EXCEPT ![a] = new] /\ UNCHANGED reviewer
        /\ faults' \in 0..FaultBound /\ review'[j].status # "none"
    BY <1>1, <1>5, <2>1 DEF AdminReads
  <2> HIDE DEF new
  <2> QED BY <1>1, <2>2, <2>3, <2>4, AdminFrame
<1>6. CASE AdminApproves(a)
  <2>1. TableInv' /\ ReviewsStay
    BY <1>4, <1>6, TableKept DEF AdminApproves
  <2> QED BY <1>1, <1>3, <1>4, <1>6, <2>1 DEF AdminApproves
<1>7. CASE AdminPays(a)
  <2>1. TableInv' /\ ReviewsStay
    BY <1>4, <1>7, TableKept DEF AdminPays
  <2> QED BY <1>1, <1>2, <1>7, <2>1 DEF AdminPays
<1>8. CASE AdminPayRaises(a)
  <2>1. TableInv' /\ ReviewsStay
    BY <1>8, TableFrame DEF AdminPayRaises
  <2>2. faults' \in 0..FaultBound
    BY <1>1, <1>8 DEF AdminPayRaises, OneMoreFault
  <2> QED BY <1>3, <1>4, <1>8, <2>1, <2>2 DEF AdminPayRaises
<1>9. CASE AdminLeavesPending(a)
  <2>1. TableInv' /\ ReviewsStay
    BY <1>4, <1>9, TableKept DEF AdminLeavesPending
  <2> QED BY <1>1, <1>2, <1>9, <2>1 DEF AdminLeavesPending
<1>10. CASE AdminRejects(a)
  <2>1. CASE UNCHANGED review
    <3>1. TableInv' /\ ReviewsStay
      BY <1>10, <2>1, TableFrame DEF AdminRejects
    <3> QED BY <1>1, <1>2, <1>10, <3>1 DEF AdminRejects
  <2>2. CASE SetStatus(admin[a].job, "auto_rejected") \/ SetStatus(admin[a].job, "manual_rejected")
    <3>1. TableInv' /\ ReviewsStay
      BY <1>4, <1>10, <2>2, TableKept DEF AdminRejects
    <3> QED BY <1>1, <1>2, <1>10, <3>1 DEF AdminRejects
  <2> QED BY <1>10, <2>1, <2>2 DEF AdminRejects
<1>11. CASE AdminSendsBack(a)
  <2>1. TableInv' /\ ReviewsStay
    BY <1>4, <1>11, TableKept DEF AdminSendsBack
  <2> QED BY <1>1, <1>2, <1>11, <2>1 DEF AdminSendsBack
<1>12. CASE AdminRequestLost(a)
  <2>1. TableInv' /\ ReviewsStay
    BY <1>12, TableFrame DEF AdminRequestLost
  <2>2. faults' \in 0..FaultBound
    BY <1>1, <1>12 DEF AdminRequestLost, OneMoreFault
  <2> QED BY <1>2, <1>12, <2>1, <2>2 DEF AdminRequestLost
<1> QED BY <1>5, <1>6, <1>7, <1>8, <1>9, <1>10, <1>11, <1>12 DEF AdminStep

\* The steps of tasks, users and time.
LEMMA OthersPreserve ==
    ASSUME ReviewInv, NEW j \in Jobs,
           TaskStep(j) \/ CreateReview(j) \/ RequestManualReview(j) \/ ReviewGrowsStale(j)
    PROVE  ReviewInv'
<1>1. /\ TableInv /\ review \in [Jobs -> Review]
  BY InvParts DEF TableInv
<1>2. ASSUME TableInv', ReviewsStay, UNCHANGED <<reviewer, admin, faults>>
      PROVE  ReviewInv'
  BY <1>2, InvParts DEF ReviewInv, ReviewsTypeOK, TableInv, WorkIsOnReviews, ReviewsStay, Reviewer, Admin
<1>3. CASE TaskStep(j)
  <2>1. UNCHANGED reviewVars
    BY <1>3 DEF TaskStep
  <2>2. TableInv' /\ ReviewsStay
    BY <1>1, <1>3, <2>1, TaskStepKeepsReviews
       DEF TableInv, ReviewsStay, reviewVars, ShownRefundedIsPaid, PaidIsReviewed
  <2> QED BY <1>2, <2>1, <2>2 DEF reviewVars
<1>4. CASE CreateReview(j)
  <2>1. /\ review' \in [Jobs -> Review] /\ review'[j] = [review[j] EXCEPT !.status = "pending"]
        /\ \A k \in Jobs : k # j => review'[k] = review[k]
    BY <1>1, <1>4 DEF CreateReview, SetStatus, Review
  <2>2. ~review[j].paid
    BY <1>4 DEF CreateReview, ReviewInv, PaidIsReviewed
  <2>3. TableInv' /\ ReviewsStay
    BY <1>1, <1>4, <2>1, <2>2 DEF CreateReview, TableInv, ReviewsStay, BillingTypeOK, billingVars,
       ReviewedIsDelivered, ShownRefundedIsPaid, PaidIsReviewed, ChargedHasPayer, Review
  <2> QED BY <1>2, <1>4, <2>3 DEF CreateReview
<1>5. CASE RequestManualReview(j)
  <2> DEFINE appeal == [review[j] EXCEPT !.status = "manual_review_requested", !.appealed = TRUE]
  <2>1. Overwrite(j, appeal)
    BY <1>1, <1>5 DEF RequestManualReview, Overwrite, Review
  <2>2. review[j].status # "none" /\ UNCHANGED billingVars
    BY <1>5 DEF RequestManualReview
  <2> HIDE DEF appeal
  <2>3. TableInv' /\ ReviewsStay
    BY <2>1, <2>2, TableKept
  <2> QED BY <1>2, <1>5, <2>3 DEF RequestManualReview
<1>6. CASE ReviewGrowsStale(j)
  <2> DEFINE aged == [review[j] EXCEPT !.stale = TRUE]
  <2>1. Overwrite(j, aged)
    BY <1>1, <1>6 DEF ReviewGrowsStale, Overwrite, Review
  <2>2. review[j].status # "none" /\ UNCHANGED billingVars
    BY <1>6 DEF ReviewGrowsStale
  <2> HIDE DEF aged
  <2>3. TableInv' /\ ReviewsStay
    BY <2>1, <2>2, TableKept
  <2> QED BY <1>2, <1>6, <2>3 DEF ReviewGrowsStale
<1> QED BY <1>3, <1>4, <1>5, <1>6

\* The invariant holds initially and is preserved, so it always holds.
THEOREM ReviewInvHolds == Spec => []ReviewInv
<1>1. Init => ReviewInv
  BY ReviewCredit, ReviewFees, ReviewConstants DEF Init, ReviewInv, ReviewsTypeOK, BillingTypeOK, Review, Reviewer, Admin,
     NoReview, IdleReviewer, IdleAdmin, ReviewedIsDelivered, ShownRefundedIsPaid,
     PaidIsReviewed, WorkIsOnReviews, ChargedHasPayer
<1>2. ReviewInv /\ [Next]_vars => ReviewInv'
  <2> SUFFICES ASSUME ReviewInv, [Next]_vars PROVE ReviewInv'
    OBVIOUS
  <2>1. CASE Next
    BY <2>1, ReviewerPreserves, AdminPreserves, OthersPreserve DEF Next, Fault
  <2>2. CASE UNCHANGED vars
    BY <2>2 DEF vars, reviewVars, billingVars, ReviewInv, ReviewsTypeOK, BillingTypeOK,
       ReviewedIsDelivered, ShownRefundedIsPaid, PaidIsReviewed, WorkIsOnReviews, ChargedHasPayer
  <2> QED BY <2>1, <2>2
<1> QED BY <1>1, <1>2, PTL DEF Spec

\* Every reachable state is well typed.
THEOREM ReviewTypesHold == Spec => []ReviewsTypeOK
<1>1. ReviewInv => ReviewsTypeOK
  BY DEF ReviewInv
<1> QED BY <1>1, ReviewInvHolds, PTL

\* Only delivered and charged pictures are ever under review.
THEOREM OnlyDeliveredIsReviewed == Spec => []ReviewedIsDelivered
<1>1. ReviewInv => ReviewedIsDelivered
  BY DEF ReviewInv
<1> QED BY <1>1, ReviewInvHolds, PTL

\* Whoever is shown "refunded" has the money, however many loops and requests
\* write the status.
THEOREM RefundsShownArePaid == Spec => []ShownRefundedIsPaid
<1>1. ReviewInv => ShownRefundedIsPaid
  BY DEF ReviewInv
<1> QED BY <1>1, ReviewInvHolds, PTL

----------------------------------------------------------------------------
(* The refinement *)

\* A step that pays nothing and charges nothing leaves every bill alone.
LEMMA NoBillChanges ==
    ASSUME ReviewInv, UNCHANGED billingVars, review' \in [Jobs -> Review],
           \A j \in Jobs : review'[j].paid = review[j].paid
    PROVE  UNCHANGED Promise!billingVars
BY DEF BillAfterReviews, Promise!billingVars, billingVars

\* A payment is the abstract return of a kept fee, or nothing.
LEMMA PayReturns ==
    ASSUME ReviewInv, NEW j \in Jobs, review[j].status # "none", Pay(j)
    PROVE  [Promise!BillingNext]_(Promise!billingVars)
<1>1. review \in [Jobs -> Review] /\ bill \in [Jobs -> BillStates]
  BY DEF ReviewInv, ReviewsTypeOK, BillingTypeOK
<1>2. CASE review[j].paid
  BY <1>2 DEF Pay, BillAfterReviews, Promise!billingVars, billingVars
<1>3. CASE ~review[j].paid
  <2>1. BillAfterReviews[j] = "kept"
    BY <1>3 DEF BillAfterReviews, ReviewInv, ReviewedIsDelivered
  <2>2. BillAfterReviews' = [BillAfterReviews EXCEPT ![j] = "returned"]
    BY <1>1, <1>3 DEF Pay, BillAfterReviews, Review
  <2>3. Promise!Return(j)
    BY <1>3, <2>1, <2>2 DEF Pay, Promise!Return
  <2> QED BY <2>3 DEF Promise!BillingNext
<1> QED BY <1>2, <1>3

\* The steps of the tasks are steps of the promise: an unpaid job's bill is its
\* task's, and a paid one is kept for good.
LEMMA TaskStepIsBilling ==
    ASSUME ReviewInv, NEW j \in Jobs, TaskStep(j)
    PROVE  [Promise!BillingNext]_(Promise!billingVars)
<1>1. /\ review \in [Jobs -> Review] /\ UNCHANGED review
      /\ bill \in [Jobs -> BillStates]
  BY DEF ReviewInv, ReviewsTypeOK, BillingTypeOK, TaskStep, reviewVars
<1>2. bill[j] # "kept" => ~review[j].paid
  BY DEF ReviewInv, ReviewedIsDelivered, PaidIsReviewed
<1>3. ASSUME NEW b \in BillStates, bill[j] # "kept", bill' = [bill EXCEPT ![j] = b]
      PROVE  /\ BillAfterReviews[j] = bill[j]
             /\ BillAfterReviews' = [BillAfterReviews EXCEPT ![j] = b]
  BY <1>1, <1>2, <1>3 DEF BillAfterReviews
<1>4. ASSUME NEW u \in Users, NEW amount \in Fees, Charge(j, u, amount)
      PROVE  Promise!BillingNext
  <2>1. Promise!Charge(j, u, amount)
    BY <1>3, <1>4 DEF Charge, Promise!Charge
  <2> QED BY <2>1 DEF Promise!BillingNext
<1>5. ASSUME Keep(j) PROVE Promise!BillingNext
  <2>1. Promise!Keep(j)
    BY <1>3, <1>5 DEF Keep, Promise!Keep
  <2> QED BY <2>1 DEF Promise!BillingNext
<1>6. ASSUME bill[j] = "held", Return(j) PROVE Promise!BillingNext
  <2>1. Promise!Return(j)
    BY <1>3, <1>6 DEF Return, Promise!Return
  <2> QED BY <2>1 DEF Promise!BillingNext
<1> QED BY <1>4, <1>5, <1>6 DEF TaskStep

\* So is every other step.
LEMMA RefundStep ==
    ASSUME ReviewInv, [Next]_vars
    PROVE  [Promise!BillingNext]_(Promise!billingVars)
<1>1. /\ review \in [Jobs -> Review]
      /\ \A r \in Reviewers : ReviewerOK(r)
      /\ \A a \in Admins : AdminOK(a)
      /\ NoJob \notin Jobs
  BY InvParts, ReviewConstants DEF TableInv
<1>2. \A r \in Reviewers : reviewer[r].pc \notin {"down", "idle"} =>
          reviewer[r].job \in Jobs /\ review[reviewer[r].job].status # "none"
  BY <1>1 DEF ReviewerOK, Reviewer
<1>3. \A a \in Admins : admin[a].pc # "idle" =>
          admin[a].job \in Jobs /\ review[admin[a].job].status # "none"
  BY <1>1 DEF AdminOK, Admin
<1>4. ASSUME NEW j \in Jobs, NEW s \in ReviewStatuses, SetStatus(j, s), UNCHANGED billingVars
      PROVE  UNCHANGED Promise!billingVars
  <2>1. review' \in [Jobs -> Review] /\ \A k \in Jobs : review'[k].paid = review[k].paid
    BY <1>1, <1>4 DEF SetStatus, Review
  <2> QED BY <1>4, <2>1, NoBillChanges
<1>5. ASSUME UNCHANGED <<billingVars, review>>
      PROVE  UNCHANGED Promise!billingVars
  BY <1>1, <1>5, NoBillChanges
<1>6. ASSUME NEW r \in Reviewers,
             ReviewerStep(r) \/ ReviewerRaises(r) \/ GiveUpRaises(r)
             \/ ReviewerCrashes(r) \/ ReviewerRestarts(r)
      PROVE  [Promise!BillingNext]_(Promise!billingVars)
  <2>1. CASE ClaimReview(r)
    <3>1. review' \in [Jobs -> Review] /\ \A k \in Jobs : review'[k].paid = review[k].paid
      BY <1>1, <2>1 DEF ClaimReview, Claimable, Review
    <3> QED BY <2>1, <3>1, NoBillChanges DEF ClaimReview
  <2>2. CASE SaveVerdict(r)
    BY <1>2, <1>4, <2>2 DEF SaveVerdict
  <2>3. CASE MarkPending(r)
    BY <1>2, <1>4, <2>3 DEF MarkPending
  <2>4. CASE PayAfterReview(r)
    BY <1>2, <2>4, PayReturns DEF PayAfterReview
  <2>5. CASE GiveUp(r)
    BY <1>2, <1>4, <2>5 DEF GiveUp
  <2>6. CASE CallFails(r) \/ ReviewerRaises(r) \/ GiveUpRaises(r) \/ ReviewerCrashes(r)
             \/ ReviewerRestarts(r)
    BY <1>5, <2>6 DEF CallFails, ReviewerRaises, GiveUpRaises, ReviewerCrashes, ReviewerRestarts
  <2> QED BY <1>6, <2>1, <2>2, <2>3, <2>4, <2>5, <2>6 DEF ReviewerStep
<1>7. ASSUME NEW a \in Admins,
             AdminReads(a) \/ AdminStep(a) \/ AdminPayRaises(a) \/ AdminRequestLost(a)
      PROVE  [Promise!BillingNext]_(Promise!billingVars)
  <2>1. CASE AdminReads(a) \/ AdminPayRaises(a) \/ AdminRequestLost(a)
    BY <1>5, <2>1 DEF AdminReads, AdminPayRaises, AdminRequestLost
  <2>2. CASE AdminApproves(a)
    BY <1>3, <1>4, <2>2 DEF AdminApproves
  <2>3. CASE AdminPays(a)
    BY <1>3, <2>3, PayReturns DEF AdminPays
  <2>4. CASE AdminLeavesPending(a)
    BY <1>3, <1>4, <2>4 DEF AdminLeavesPending
  <2>5. CASE AdminRejects(a)
    BY <1>3, <1>4, <1>5, <2>5 DEF AdminRejects
  <2>6. CASE AdminSendsBack(a)
    BY <1>3, <1>4, <2>6 DEF AdminSendsBack
  <2> QED BY <1>7, <2>1, <2>2, <2>3, <2>4, <2>5, <2>6 DEF AdminStep
<1>8. ASSUME NEW j \in Jobs,
             TaskStep(j) \/ CreateReview(j) \/ RequestManualReview(j) \/ ReviewGrowsStale(j)
      PROVE  [Promise!BillingNext]_(Promise!billingVars)
  <2>1. CASE TaskStep(j)
    BY <2>1, TaskStepIsBilling
  <2>2. CASE CreateReview(j)
    BY <1>4, <2>2 DEF CreateReview
  <2>3. CASE RequestManualReview(j)
    <3>1. review' \in [Jobs -> Review]
      BY <1>1, <2>3 DEF RequestManualReview, Review
    <3>2. \A k \in Jobs : review'[k].paid = review[k].paid
      BY <1>1, <2>3 DEF RequestManualReview, Review
    <3> QED BY <2>3, <3>1, <3>2, NoBillChanges DEF RequestManualReview
  <2>4. CASE ReviewGrowsStale(j)
    <3>1. review' \in [Jobs -> Review]
      BY <1>1, <2>4 DEF ReviewGrowsStale, Review
    <3>2. \A k \in Jobs : review'[k].paid = review[k].paid
      BY <1>1, <2>4 DEF ReviewGrowsStale, Review
    <3> QED BY <2>4, <3>1, <3>2, NoBillChanges DEF ReviewGrowsStale
  <2> QED BY <1>8, <2>1, <2>2, <2>3, <2>4
<1>9. CASE UNCHANGED vars
  BY <1>5, <1>9 DEF vars, reviewVars
<1> QED BY <1>6, <1>7, <1>8, <1>9 DEF Next, Fault

\* The refunds of pictures implement the billing promise: a kept fee is given
\* back at most once, in full, to the user who paid it, and nothing else moves.
THEOREM RefundsKeepBillingPromise == Spec => KeepsRefundPromise
<1>1. Init => Promise!BillingInit
  BY ReviewCredit DEF Init, Promise!BillingInit, BillAfterReviews, NoReview
<1>2. ReviewInv /\ [Next]_vars => [Promise!BillingNext]_(Promise!billingVars)
  BY RefundStep
<1> QED BY <1>1, <1>2, ReviewInvHolds, PTL DEF Spec, KeepsRefundPromise, Promise!BillingSpec

\* What is proved of the promise, for this implementation of it.
Promised == INSTANCE JobBillingProofs WITH bill <- BillAfterReviews

\* Whoever pays for a picture, however often and after whichever crash: a user's
\* balance and the fees the service has of the user add up to what they were.
THEOREM RefundsConserveCredit ==
    ASSUME IsFiniteSet(Jobs)
    PROVE  Spec => Promised!CreditIsConserved
<1>1. Promised!BillingSpec => Promised!CreditIsConserved
  <2>1. Promised!IsFiniteSet(Jobs)
    BY DEF Promised!IsFiniteSet, IsFiniteSet
  <2> QED BY <2>1, ReviewFees, Promised!PromiseConservesCredit
<1>2. Promise!BillingInit => Promised!BillingInit
  BY DEF Promise!BillingInit, Promised!BillingInit
<1>3. [Promise!BillingNext]_(Promise!billingVars) => [Promised!BillingNext]_(Promised!billingVars)
  BY DEF Promise!BillingNext, Promised!BillingNext, Promise!Charge, Promised!Charge, Promise!Keep,
     Promised!Keep, Promise!Return, Promised!Return, Promise!billingVars, Promised!billingVars
<1> QED BY <1>1, <1>2, <1>3, RefundsKeepBillingPromise, PTL
        DEF KeepsRefundPromise, Promise!BillingSpec, Promised!BillingSpec
===========================================================================
