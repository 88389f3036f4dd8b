------------------------- MODULE DirectTranslation -------------------------
(***************************************************************************)
(* A prompt translated at once, without a task: /api/prompt/fast-refine    *)
(* (app/services/fast_translator_service.py).  The handler charges in one  *)
(* transaction, waits for the language model, and then writes the result   *)
(* or gives the charge back in another.  Nothing but the handler knows of  *)
(* a charged request: unlike the translations of tasks, which              *)
(* FastTranslationWorkers models, these are recovered by no loop.          *)
(* What is translated is left out: it decides whether a repeated call is   *)
(* answered with the row or as a conflict, and neither changes anything.   *)
(***************************************************************************)
EXTENDS Integers

CONSTANTS Payers,         \* accounts, by legacy user id
          Calls,          \* request codes
          Prices,         \* what fast_translator_cost_credits can be set to
          OpeningBalance, \* balance_fen of each user at the start
          CallIds,        \* client request ids
          NoCallId,       \* a call without one
          Callers,        \* handlers that can be under way at a time
          NoPayer,        \* the user of a row that does not exist
          NoCall

ASSUME DirectConstants ==
    /\ Prices \subseteq Nat /\ OpeningBalance \in [Payers -> Nat]
    /\ NoPayer \notin Payers /\ NoCall \notin Calls /\ NoCallId \notin CallIds

VARIABLES balance,   \* users.balance_fen
          price,     \* the setting, read by every start of the server
          request,   \* the rows of translation_requests, by code
          refunded,  \* the codes that have a fast_translate_refund in the ledger
          caller,    \* the code each handler waits for the model with, or NoCall
          lost       \* the codes whose handler was lost while it waited

directVars == <<balance, price, request, refunded, caller, lost>>

Request == [user : Payers \cup {NoPayer}, id : CallIds \cup {NoCallId}, charged : Nat,
            status : {"none", "processing", "done", "failed_refunded"}]

NoRequestRow == [user |-> NoPayer, id |-> NoCallId, charged |-> 0, status |-> "none"]

DirectInit ==
    /\ balance = OpeningBalance
    /\ price \in Prices
    /\ request = [j \in Calls |-> NoRequestRow]
    /\ refunded = {}
    /\ caller = [c \in Callers |-> NoCall]
    /\ lost = {}

----------------------------------------------------------------------------

\* Mutant: a request is recognised only when it is done.
SameCallDone(u, id) ==
    id # NoCallId /\ \E j \in Calls : request[j].user = u /\ request[j].id = id /\ request[j].status = "done"

\* The row a repeated call is answered with, as it is or as a conflict.
SameCall(u, id) ==
    id # NoCallId /\ \E j \in Calls : request[j].user = u /\ request[j].id = id

\* Mutant: the debit without AND balance_fen>=?.
BeginChargeUnchecked(c, j, u, id) ==
    /\ caller[c] = NoCall
    /\ request[j].status = "none"
    /\ ~SameCall(u, id)
    /\ balance' = [balance EXCEPT ![u] = @ - price]
    /\ request' = [request EXCEPT ![j] = [user |-> u, id |-> id, charged |-> price, status |-> "processing"]]
    /\ caller' = [caller EXCEPT ![c] = j]
    /\ UNCHANGED <<price, refunded, lost>>

\* _begin_charge: look for the id, debit what the balance has, insert, all in
\* one transaction.
BeginCharge(c, j, u, id) ==
    /\ caller[c] = NoCall
    /\ request[j].status = "none"
    /\ ~SameCall(u, id)
    /\ price <= balance[u]
    /\ balance' = [balance EXCEPT ![u] = @ - price]
    /\ request' = [request EXCEPT ![j] = [user |-> u, id |-> id, charged |-> price, status |-> "processing"]]
    /\ caller' = [caller EXCEPT ![c] = j]
    /\ UNCHANGED <<price, refunded, lost>>

\* _finish
Finish(c) ==
    LET j == caller[c] IN
    /\ j # NoCall
    /\ request' = [request EXCEPT ![j].status = "done"]
    /\ caller' = [caller EXCEPT ![c] = NoCall]
    /\ UNCHANGED <<balance, price, refunded, lost>>

\* Mutant: a request that cost nothing is not closed.
RefundChargedOnly(c) ==
    LET j == caller[c] IN
    /\ j # NoCall
    /\ IF request[j].charged > 0 /\ j \notin refunded
       THEN /\ balance' = [balance EXCEPT ![request[j].user] = @ + request[j].charged]
            /\ refunded' = refunded \cup {j}
            /\ request' = [request EXCEPT ![j].status = "failed_refunded"]
       ELSE UNCHANGED <<balance, refunded, request>>
    /\ caller' = [caller EXCEPT ![c] = NoCall]
    /\ UNCHANGED <<price, lost>>

\* _refund: the model failed or answered nothing of use, or _finish raised.
Refund(c) ==
    LET j == caller[c] IN
    /\ j # NoCall
    /\ IF request[j].charged > 0 /\ j \notin refunded
       THEN /\ balance' = [balance EXCEPT ![request[j].user] = @ + request[j].charged]
            /\ refunded' = refunded \cup {j}
       ELSE UNCHANGED <<balance, refunded>>
    /\ request' = [request EXCEPT ![j].status = "failed_refunded"]
    /\ caller' = [caller EXCEPT ![c] = NoCall]
    /\ UNCHANGED <<price, lost>>

\* _refund raises, or the call is cancelled while it waits: CancelledError is
\* no Exception, so neither except clause sees it.
CallIsLost(c) ==
    /\ caller[c] # NoCall
    /\ caller' = [caller EXCEPT ![c] = NoCall]
    /\ lost' = lost \cup {caller[c]}
    /\ UNCHANGED <<balance, price, request, refunded>>

\* The server stops and starts again, perhaps with another price.
ServerRestarts(p) ==
    /\ caller' = [c \in Callers |-> NoCall]
    /\ lost' = lost \cup {j \in Calls : \E c \in Callers : caller[c] = j}
    /\ price' = p
    /\ UNCHANGED <<balance, request, refunded>>

CallEnds(c) == Finish(c) \/ Refund(c)

DirectNext ==
    \/ \E c \in Callers :
          \/ \E j \in Calls, u \in Payers, id \in CallIds \cup {NoCallId} : BeginCharge(c, j, u, id)
          \/ CallEnds(c)
          \/ CallIsLost(c)
    \/ \E p \in Prices : ServerRestarts(p)

DirectSpec == DirectInit /\ [][DirectNext]_directVars

----------------------------------------------------------------------------
(* Properties *)

DirectTypeOK ==
    /\ balance \in [Payers -> Nat]
    /\ price \in Prices
    /\ request \in [Calls -> Request]
    /\ refunded \subseteq Calls
    /\ caller \in [Callers -> Calls \cup {NoCall}]
    /\ lost \subseteq Calls

\* A request somebody waits for is open and nobody else's; one that is open is
\* not refunded; one that is charged for has a user.
CallersOwnRequests ==
    /\ \A c \in Callers : caller[c] # NoCall => request[caller[c]].status = "processing"
    /\ \A c1, c2 \in Callers : c1 # c2 /\ caller[c1] # NoCall => caller[c1] # caller[c2]
    /\ \A j \in refunded : request[j].status = "failed_refunded"
    /\ \A j \in Calls : request[j].status = "none" \/ request[j].user \in Payers
    /\ \A j \in Calls : request[j].status = "none" => request[j].user = NoPayer

DirectInv == DirectTypeOK /\ CallersOwnRequests

\* A client request id is charged for once, whatever became of the first call.
OneChargePerCallId ==
    \A i, j \in Calls :
        /\ i # j
        /\ request[i].id \in CallIds
        /\ request[i].user # NoPayer
        => request[i].id # request[j].id \/ request[i].user # request[j].user

\* The charge of a direct translation is kept or given back, once and in full,
\* as the service promises of every job.
DirectBill == [j \in Calls |->
    CASE request[j].status = "none" -> "none"
      [] request[j].status = "processing" -> "held"
      [] request[j].status = "done" -> "kept"
      [] OTHER -> "returned"]

Promise == INSTANCE JobBilling WITH
    Users <- Payers, Jobs <- Calls, Fees <- Prices, NoOne <- NoPayer,
    credit <- balance, bill <- DirectBill,
    payer <- [j \in Calls |-> request[j].user], fee <- [j \in Calls |-> request[j].charged]

KeepsDirectPromise == Promise!BillingSpec

\* A charge is never left behind: a request that is still open has a handler
\* that will answer it or give the charge back, unless the handler was lost.
OpenIsAwaited ==
    \A j \in Calls : request[j].status = "processing" => j \in lost \/ \E c \in Callers : caller[c] = j
=============================================================================
