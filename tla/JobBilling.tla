---------------------------- MODULE JobBilling ----------------------------
(***************************************************************************)
(* What the service promises about money, with nothing of how it is done:  *)
(* the fee of a job is taken once, before any work, out of credit the user *)
(* has; it is then either kept, because the picture was delivered, or      *)
(* given back in full; and after it has been given back nothing about the  *)
(* bill changes any more.  GenerationTasks (the task table), ImageRefunds  *)
(* (the after-sales path) and DirectTranslation (translations without a    *)
(* task) are shown to implement it.                                        *)
(***************************************************************************)
EXTENDS Integers, Functions

CONSTANTS Users,      \* accounts, by legacy user id
          Jobs,       \* job codes
          Fees,       \* the amounts a job can cost
          NoOne       \* the owner of a job code nobody has used

VARIABLES credit,     \* users.balance_fen
          bill,       \* what became of the fee of each job
          payer,      \* who was charged for the job
          fee         \* how much

billingVars == <<credit, bill, payer, fee>>

BillStates == {"none", "held", "kept", "returned"}

BillingTypeOK ==
    /\ credit \in [Users -> Nat]
    /\ bill \in [Jobs -> BillStates]
    /\ payer \in [Jobs -> Users \cup {NoOne}]
    /\ fee \in [Jobs -> Nat]

BillingInit ==
    /\ credit \in [Users -> Nat]
    /\ bill = [j \in Jobs |-> "none"]
    /\ payer = [j \in Jobs |-> NoOne]
    /\ fee = [j \in Jobs |-> 0]

\* A job is accepted: its whole fee is taken, and only if the user has it.
Charge(j, u, amount) ==
    /\ bill[j] = "none"
    /\ amount <= credit[u]
    /\ credit' = [credit EXCEPT ![u] = @ - amount]
    /\ bill' = [bill EXCEPT ![j] = "held"]
    /\ payer' = [payer EXCEPT ![j] = u]
    /\ fee' = [fee EXCEPT ![j] = amount]

\* The picture is delivered.
Keep(j) ==
    /\ bill[j] = "held"
    /\ bill' = [bill EXCEPT ![j] = "kept"]
    /\ UNCHANGED <<credit, payer, fee>>

\* The job was cancelled or failed, or its picture was judged unusable: the
\* user gets exactly the fee back.
Return(j) ==
    /\ bill[j] \in {"held", "kept"}
    /\ bill' = [bill EXCEPT ![j] = "returned"]
    /\ credit' = [credit EXCEPT ![payer[j]] = @ + fee[j]]
    /\ UNCHANGED <<payer, fee>>

BillingNext ==
    \E j \in Jobs :
        \/ \E u \in Users, amount \in Fees : Charge(j, u, amount)
        \/ Keep(j)
        \/ Return(j)

BillingSpec == BillingInit /\ [][BillingNext]_billingVars

----------------------------------------------------------------------------
(* What follows from the promise *)

\* The jobs of u whose fee the service has.
TakenFrom(u) == {j \in Jobs : bill[j] \in {"held", "kept"} /\ payer[j] = u}

\* What each user has, with the fees the service has of the user.
Holdings == [u \in Users |-> credit[u] + SumFunctionOnSet(fee, TakenFrom(u))]

\* No step makes or loses credit: balance and open bills of a user move against
\* each other, whichever of the transactions on users.balance_fen is taken.
CreditIsConserved == [][Holdings' = Holdings]_billingVars
===========================================================================
