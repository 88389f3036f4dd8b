---------------------------- MODULE MCServices ----------------------------
(***************************************************************************)
(* Small instances for TLC of seven parts of the server that share no state: *)
(* top-up orders, direct translations, questions about characters, support *)
(* threads, uploads, rate limits and queue estimates.  A behaviour is one  *)
(* of the part that its first state chooses, so the state spaces add       *)
(* instead of multiplying.                                                 *)
(***************************************************************************)
EXTENDS Recharge, DirectTranslation, Disambiguation, SupportThreads, TaskUploads, RateLimits,
        QueueEstimates, TLC

CONSTANTS a, b, c

VARIABLE part

Symmetry == Permutations(Orders) \cup Permutations(Threads) \cup Permutations({a, b})

MCOpeningBalance == [u \in Payers |-> 3]

\* A definite character alone, two beside a mention to ask about, and two mentions
\* with the same candidates beside a third.
MCRequests ==
    {[definite |-> {c}, options |-> <<{}, {}, {}>>],
     [definite |-> {a, b}, options |-> <<{c}, {}, {}>>],
     [definite |-> {}, options |-> <<{a, b}, {a, b}, {c}>>]}

\* The second question is a short one: it is there to be asked while the answers
\* to the first are still under way.
SmallInstance == question.nr > 1 => Groups(question.request) = {1}

Parts == {"recharge", "direct", "disambiguation", "support", "uploads", "rates", "estimates"}

ServicesInit ==
    /\ part \in Parts
    /\ RechargeInit /\ DirectInit /\ DisInit /\ SupportInit /\ UploadInit /\ RateInit /\ EstimateInit
    /\ part # "direct" => price = 0
    /\ part # "disambiguation" => ~v2

ServicesNext ==
    \/ /\ part = "recharge" /\ RechargeNext
       /\ UNCHANGED <<part, directVars, disVars, supportVars, uploadVars, rateVars, estimateVars>>
    \/ /\ part = "direct" /\ DirectNext
       /\ UNCHANGED <<part, rechargeVars, disVars, supportVars, uploadVars, rateVars, estimateVars>>
    \/ /\ part = "disambiguation" /\ DisNext /\ SmallInstance'
       /\ UNCHANGED <<part, rechargeVars, directVars, supportVars, uploadVars, rateVars, estimateVars>>
    \/ /\ part = "support" /\ SupportNext
       /\ UNCHANGED <<part, rechargeVars, directVars, disVars, uploadVars, rateVars, estimateVars>>
    \/ /\ part = "uploads" /\ UploadNext
       /\ UNCHANGED <<part, rechargeVars, directVars, disVars, supportVars, rateVars, estimateVars>>
    \/ /\ part = "rates" /\ RateNext
       /\ UNCHANGED <<part, rechargeVars, directVars, disVars, supportVars, uploadVars, estimateVars>>
    \/ /\ part = "estimates" /\ EstimateNext
       /\ UNCHANGED <<part, rechargeVars, directVars, disVars, supportVars, uploadVars, rateVars>>

servicesVars == <<part, rechargeVars, directVars, disVars, supportVars, uploadVars, rateVars, estimateVars>>

ServicesSpec == ServicesInit /\ [][ServicesNext]_servicesVars
=============================================================================
