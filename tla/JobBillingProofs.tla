------------------------- MODULE JobBillingProofs -------------------------
(* What JobBilling promises implies that credit is conserved, for any users,
   jobs and fees; every implementation of the promise inherits it. *)
EXTENDS JobBilling, SumTheorems

LEMMA FeesAreNumbers ==
    ASSUME BillingTypeOK, IsFiniteSet(Jobs), NEW u
    PROVE  /\ IsFiniteSet(TakenFrom(u))
           /\ \A j \in TakenFrom(u) : j \in Jobs /\ fee[j] \in Int
BY FS_Subset DEF TakenFrom, BillingTypeOK

\* The user who is charged has so much less, and the service so much more.
LEMMA ChargeConserves ==
    ASSUME BillingTypeOK, IsFiniteSet(Jobs), NEW j \in Jobs, NEW v \in Users,
           NEW amount \in Fees, Charge(j, v, amount), Fees \subseteq Int, NEW u \in Users
    PROVE  Holdings'[u] = Holdings[u]
<1> DEFINE S == TakenFrom(u)
           T == IF u = v THEN S \cup {j} ELSE S
<1>1. /\ j \notin S /\ TakenFrom(u)' = T
      /\ credit' = [credit EXCEPT ![v] = @ - amount]
      /\ fee' = [fee EXCEPT ![j] = amount] /\ amount \in Int
  BY DEF Charge, TakenFrom, BillingTypeOK
<1>2. IsFiniteSet(S) /\ \A k \in S : k \in Jobs /\ fee[k] \in Int
  BY FeesAreNumbers
<1>3. SumFunctionOnSet(fee', S) = SumFunctionOnSet(fee, S)
  <2>1. \A k \in S : fee[k] = fee'[k]
    BY <1>1, <1>2 DEF BillingTypeOK
  <2> HIDE DEF S
  <2> QED BY <1>2, <2>1, SumSame
<1>4. SumFunctionOnSet(fee', S) \in Int
  <2> HIDE DEF S
  <2> QED BY <1>2, <1>3, SumType
<1>5. SumFunctionOnSet(fee', T) = SumFunctionOnSet(fee', S) + IF u = v THEN amount ELSE 0
  <2>1. CASE u = v
    <3>1. fee'[j] = amount /\ \A k \in S : fee'[k] \in Int
      BY <1>1, <1>2 DEF BillingTypeOK
    <3>2. T = S \cup {j}
      BY <2>1
    <3> HIDE DEF S, T
    <3>3. SumFunctionOnSet(fee', S \cup {j}) = fee'[j] + SumFunctionOnSet(fee', S)
      BY <1>1, <1>2, <3>1, SumAdd
    <3> QED BY <1>1, <1>4, <2>1, <3>1, <3>2, <3>3
  <2>2. CASE u # v
    BY <1>4, <2>2
  <2> QED BY <2>1, <2>2
<1>6. credit[u] \in Int /\ credit'[u] = credit[u] - IF u = v THEN amount ELSE 0
  BY <1>1 DEF BillingTypeOK
<1>7. Holdings[u] = credit[u] + SumFunctionOnSet(fee, S)
      /\ Holdings'[u] = credit'[u] + SumFunctionOnSet(fee', T)
  BY <1>1 DEF Holdings
<1> HIDE DEF S, T
<1> QED BY <1>1, <1>3, <1>4, <1>5, <1>6, <1>7

LEMMA KeepConserves ==
    ASSUME BillingTypeOK, NEW j \in Jobs, Keep(j)
    PROVE  Holdings' = Holdings
<1>1. UNCHANGED <<credit, fee>> /\ \A u \in Users : TakenFrom(u)' = TakenFrom(u)
  BY DEF Keep, TakenFrom, BillingTypeOK
<1> QED BY <1>1 DEF Holdings

\* The other way round.
LEMMA ReturnConserves ==
    ASSUME BillingTypeOK, IsFiniteSet(Jobs), NEW j \in Jobs, Return(j), NEW u \in Users
    PROVE  Holdings'[u] = Holdings[u]
<1> DEFINE S == TakenFrom(u)
<1>1. IsFiniteSet(S) /\ \A k \in S : k \in Jobs /\ fee[k] \in Int
  BY FeesAreNumbers
<1>2. /\ TakenFrom(u)' = S \ {j} /\ fee' = fee /\ fee[j] \in Int /\ credit[u] \in Int
      /\ j \in S <=> payer[j] = u
  BY DEF Return, TakenFrom, BillingTypeOK
<1>3. credit'[u] = credit[u] + IF j \in S THEN fee[j] ELSE 0
  BY <1>2 DEF Return, BillingTypeOK
<1>4. Holdings[u] = credit[u] + SumFunctionOnSet(fee, S)
      /\ Holdings'[u] = credit'[u] + SumFunctionOnSet(fee, S \ {j})
  BY <1>2 DEF Holdings
<1> HIDE DEF S
<1>5. SumFunctionOnSet(fee, S \ {j}) \in Int
  <2>1. IsFiniteSet(S \ {j})
    BY <1>1, FS_Subset
  <2> QED BY <1>1, <2>1, SumType
<1>6. CASE j \in S
  <2>1. SumFunctionOnSet(fee, S) = fee[j] + SumFunctionOnSet(fee, S \ {j})
    BY <1>1, <1>6, SumWithout
  <2> QED BY <1>2, <1>3, <1>4, <1>5, <1>6, <2>1
<1>7. CASE j \notin S
  <2>1. S \ {j} = S
    BY <1>7
  <2>2. SumFunctionOnSet(fee, S \ {j}) = SumFunctionOnSet(fee, S)
    BY <2>1
  <2> QED BY <1>2, <1>3, <1>4, <1>5, <1>7, <2>2
<1> QED BY <1>6, <1>7

\* What an implementation of the promise needs to know: no step of it makes or
\* loses credit.
LEMMA StepConserves ==
    ASSUME BillingTypeOK, IsFiniteSet(Jobs), Fees \subseteq Int,
           BillingNext \/ UNCHANGED billingVars
    PROVE  Holdings' = Holdings
<1>0. Holdings = [u \in Users |-> Holdings[u]] /\ Holdings' = [u \in Users |-> Holdings'[u]]
  BY DEF Holdings
<1>1. CASE UNCHANGED billingVars
  BY <1>1 DEF billingVars, Holdings, TakenFrom
<1>2. ASSUME NEW j \in Jobs, NEW v \in Users, NEW amount \in Fees, Charge(j, v, amount)
      PROVE  Holdings' = Holdings
  BY <1>0, <1>2, ChargeConserves
<1>3. ASSUME NEW j \in Jobs, Keep(j) PROVE Holdings' = Holdings
  BY <1>3, KeepConserves
<1>4. ASSUME NEW j \in Jobs, Return(j) PROVE Holdings' = Holdings
  BY <1>0, <1>4, ReturnConserves
<1> QED BY <1>1, <1>2, <1>3, <1>4 DEF BillingNext

LEMMA BillingTypes ==
    ASSUME BillingTypeOK, Fees \subseteq Nat, BillingNext \/ UNCHANGED billingVars
    PROVE  BillingTypeOK'
<1>1. CASE UNCHANGED billingVars
  BY <1>1 DEF billingVars, BillingTypeOK
<1>2. ASSUME NEW j \in Jobs, NEW v \in Users, NEW amount \in Fees, Charge(j, v, amount)
      PROVE  BillingTypeOK'
  BY <1>2 DEF Charge, BillingTypeOK, BillStates
<1>3. ASSUME NEW j \in Jobs, Keep(j) PROVE BillingTypeOK'
  BY <1>3 DEF Keep, BillingTypeOK, BillStates
<1>4. ASSUME NEW j \in Jobs, Return(j) PROVE BillingTypeOK'
  <2>1. credit' = [u \in Users |-> IF u = payer[j] THEN credit[u] + fee[j] ELSE credit[u]]
    BY <1>4 DEF Return, BillingTypeOK
  <2>2. credit' \in [Users -> Nat]
    BY <2>1 DEF BillingTypeOK
  <2>3. bill' \in [Jobs -> BillStates] /\ UNCHANGED <<payer, fee>>
    BY <1>4 DEF Return, BillingTypeOK, BillStates
  <2> QED BY <2>2, <2>3 DEF BillingTypeOK
<1> QED BY <1>1, <1>2, <1>3, <1>4 DEF BillingNext

\* The billing promise conserves credit: whatever order jobs are charged,
\* delivered and given back in, balance and open bills of a user add up to the
\* same.
THEOREM PromiseConservesCredit ==
    ASSUME IsFiniteSet(Jobs), Fees \subseteq Nat
    PROVE  BillingSpec => CreditIsConserved
<1>1. BillingInit => BillingTypeOK
  BY DEF BillingInit, BillingTypeOK, BillStates
<1>2. BillingTypeOK /\ [BillingNext]_billingVars => BillingTypeOK'
  BY BillingTypes
<1>3. BillingTypeOK /\ [BillingNext]_billingVars => [Holdings' = Holdings]_billingVars
  <2>1. Fees \subseteq Int
    OBVIOUS
  <2> QED BY <2>1, StepConserves
<1> QED BY <1>1, <1>2, <1>3, PTL DEF BillingSpec, CreditIsConserved
===========================================================================
