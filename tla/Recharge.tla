------------------------------ MODULE Recharge ------------------------------
(***************************************************************************)
(* Top-up orders: the recharge_requests table (app/recharge_service.py)    *)
(* and the handlers of /api/topups (app/main.py).  The handlers are plain  *)
(* functions, so FastAPI runs each in a thread of its own, and none of     *)
(* them opens a transaction before it writes: what a handler has read may  *)
(* be stale when its UPDATE or INSERT commits.  A handler is therefore a   *)
(* sequence of steps, one per committed statement.                         *)
(*                                                                         *)
(* The owner is told of a paid order by a notifier and decides it in the   *)
(* Discord bot; both are outside the repository, the notifier's three      *)
(* calls into recharge_service are not.                                    *)
(***************************************************************************)
EXTENDS Integers, FiniteSets

CONSTANTS Orders,      \* payment codes
          Buyers,      \* accounts that order, by legacy user id
          Methods,     \* wechat_qr, asb_bank_transfer
          MaxPending,  \* MAX_PENDING_TOPUPS_PER_USER
          Threads,     \* handlers that can be under way at a time
          Notifiers,   \* processes that call claim_owner_notifications
          NotifyLimit, \* orders claimed at a time
          NoOrder, NoBuyer, NoMethod

ASSUME RechargeConstants ==
    /\ MaxPending \in Nat \ {0} /\ NotifyLimit \in Nat \ {0}
    /\ NoOrder \notin Orders /\ NoBuyer \notin Buyers /\ NoMethod \notin Methods

ASSUME RechargeFinite == IsFiniteSet(Orders) /\ IsFiniteSet(Threads)

VARIABLES order,    \* the rows, by code
          thread,   \* the handlers
          sending   \* the orders each notifier has claimed and not yet reported on

rechargeVars == <<order, thread, sending>>

OrderStatuses == {"none", "created", "paid", "cancelled", "expired", "approved", "rejected"}
PendingStatuses == {"created", "paid"}
Settled == {"cancelled", "expired", "approved", "rejected"}

\* late: expires_at has passed.  told: what the buyer was told of the order.
Order == [buyer : Buyers \cup {NoBuyer}, method : Methods \cup {NoMethod},
          status : OrderStatuses, late : BOOLEAN,
          notify : {"none", "pending", "sending", "sent"},
          told : SUBSET {"cancelled", "submitted"}]

NoRow == [buyer |-> NoBuyer, method |-> NoMethod, status |-> "none", late |-> FALSE,
          notify |-> "none", told |-> {}]

\* A handler that has found no order of its method (count), that may add one
\* (insert), or that has read an order in created (cancel, pay, expire).
Thread == [pc : {"idle", "count", "insert", "cancel", "pay", "expire"},
           buyer : Buyers \cup {NoBuyer}, method : Methods \cup {NoMethod},
           order : Orders \cup {NoOrder}]

IdleThread == [pc |-> "idle", buyer |-> NoBuyer, method |-> NoMethod, order |-> NoOrder]

RechargeInit ==
    /\ order = [o \in Orders |-> NoRow]
    /\ thread = [t \in Threads |-> IdleThread]
    /\ sending = [n \in Notifiers |-> {}]

PendingOf(b) == {o \in Orders : order[o].buyer = b /\ order[o].status \in PendingStatuses}

AnswerAndStop(t) == thread' = [thread EXCEPT ![t] = IdleThread]

----------------------------------------------------------------------------
(* Creating an order *)

\* create_topup: a pending order of the same method is the answer; otherwise
\* the handler goes on to create_recharge_request_for_identity.
StartCreate(t, b, m) ==
    /\ thread[t].pc = "idle"
    /\ \A o \in PendingOf(b) : order[o].method # m
    /\ thread' = [thread EXCEPT ![t] = [IdleThread EXCEPT !.pc = "count", !.buyer = b, !.method = m]]
    /\ UNCHANGED <<order, sending>>

\* Mutant: one order too many passes.
CountPendingLoosely(t) ==
    /\ thread[t].pc = "count"
    /\ IF Cardinality(PendingOf(thread[t].buyer)) <= MaxPending
       THEN thread' = [thread EXCEPT ![t].pc = "insert"]
       ELSE AnswerAndStop(t)
    /\ UNCHANGED <<order, sending>>

\* The SELECT COUNT(*), outside the transaction of the INSERT.
CountPending(t) ==
    /\ thread[t].pc = "count"
    /\ IF Cardinality(PendingOf(thread[t].buyer)) < MaxPending
       THEN thread' = [thread EXCEPT ![t].pc = "insert"]
       ELSE AnswerAndStop(t)
    /\ UNCHANGED <<order, sending>>

\* The INSERT, under a code that is not in use.
InsertOrder(t, o) ==
    /\ thread[t].pc = "insert"
    /\ order[o].status = "none"
    /\ order' = [order EXCEPT ![o] = [NoRow EXCEPT !.buyer = thread[t].buyer,
                                                   !.method = thread[t].method,
                                                   !.status = "created"]]
    /\ AnswerAndStop(t)
    /\ UNCHANGED sending

----------------------------------------------------------------------------
(* Cancelling, and saying that it is paid *)

\* The SELECT of a handler for one of the buyer's own orders in created.
ReadOrder(t, o, pc) ==
    /\ thread[t].pc = "idle"
    /\ order[o].status = "created"
    /\ thread' = [thread EXCEPT ![t] = [IdleThread EXCEPT !.pc = pc, !.order = o]]
    /\ UNCHANGED <<order, sending>>

ReadForCancel(t, o) == ReadOrder(t, o, "cancel")

ReadForPaid(t, o) == ReadOrder(t, o, IF order[o].late THEN "expire" ELSE "pay")

\* Mutant: the UPDATE without AND status='created'.
WriteCancelByCode(t) ==
    LET o == thread[t].order IN
    /\ thread[t].pc = "cancel"
    /\ order' = [order EXCEPT ![o].status = "cancelled", ![o].told = @ \cup {"cancelled"}]
    /\ AnswerAndStop(t)
    /\ UNCHANGED sending

\* cancel_recharge_request: the UPDATE says AND status='created'; the answer
\* is the same whether it found the row so or not.
WriteCancel(t) ==
    LET o == thread[t].order IN
    /\ thread[t].pc = "cancel"
    /\ order' = [order EXCEPT ![o].status = IF @ = "created" THEN "cancelled" ELSE @,
                              ![o].told = @ \cup {"cancelled"}]
    /\ AnswerAndStop(t)
    /\ UNCHANGED sending

\* mark_recharge_paid_for_user, of an order that was late when it was read.
WriteExpired(t) ==
    LET o == thread[t].order IN
    /\ thread[t].pc = "expire"
    /\ order' = [order EXCEPT ![o].status = IF @ = "created" THEN "expired" ELSE @]
    /\ AnswerAndStop(t)
    /\ UNCHANGED sending

\* Mutant: the answer does not look at the number of rows.
WritePaidAnyRow(t) ==
    LET o == thread[t].order IN
    /\ thread[t].pc = "pay"
    /\ order' = IF order[o].status = "created"
                THEN [order EXCEPT ![o].status = "paid", ![o].notify = "pending",
                                   ![o].told = @ \cup {"submitted"}]
                ELSE [order EXCEPT ![o].told = @ \cup {"submitted"}]
    /\ AnswerAndStop(t)
    /\ UNCHANGED sending

\* mark_recharge_paid_for_user, in time: refused when the UPDATE found no row.
WritePaid(t) ==
    LET o == thread[t].order IN
    /\ thread[t].pc = "pay"
    /\ order' = IF order[o].status = "created"
                THEN [order EXCEPT ![o].status = "paid", ![o].notify = "pending",
                                   ![o].told = @ \cup {"submitted"}]
                ELSE order
    /\ AnswerAndStop(t)
    /\ UNCHANGED sending

----------------------------------------------------------------------------
(* Time, the owner, the notifier, a stopped server *)

OrderGrowsLate(o) ==
    /\ order[o].status = "created"
    /\ ~order[o].late
    /\ order' = [order EXCEPT ![o].late = TRUE]
    /\ UNCHANGED <<thread, sending>>

\* The owner's decision, made in the bot.
OwnerDecides(o, verdict) ==
    /\ order[o].status = "paid"
    /\ order' = [order EXCEPT ![o].status = verdict]
    /\ UNCHANGED <<thread, sending>>

Unannounced == {o \in Orders : order[o].status = "paid" /\ order[o].notify = "pending"}

\* Mutant: orders that are being sent are taken again.
ClaimNotificationsAgain(n, batch) ==
    /\ sending[n] = {}
    /\ batch # {} /\ Cardinality(batch) <= NotifyLimit
    /\ \A o \in batch : order[o].status = "paid" /\ order[o].notify \in {"pending", "sending"}
    /\ order' = [o \in Orders |-> IF o \in batch THEN [order[o] EXCEPT !.notify = "sending"]
                                                 ELSE order[o]]
    /\ sending' = [sending EXCEPT ![n] = batch]
    /\ UNCHANGED thread

\* claim_owner_notifications, one transaction; which are the oldest is left open.
ClaimNotifications(n, batch) ==
    /\ sending[n] = {}
    /\ batch # {} /\ Cardinality(batch) <= NotifyLimit
    /\ batch \subseteq Unannounced
    /\ order' = [o \in Orders |-> IF o \in batch THEN [order[o] EXCEPT !.notify = "sending"]
                                                 ELSE order[o]]
    /\ sending' = [sending EXCEPT ![n] = batch]
    /\ UNCHANGED thread

\* mark_owner_notification_sent and _failed: WHERE code=? only.
ReportNotification(n, o, result) ==
    /\ o \in sending[n]
    /\ order' = [order EXCEPT ![o].notify = result]
    /\ sending' = [sending EXCEPT ![n] = @ \ {o}]
    /\ UNCHANGED thread

\* Nothing claims an order again that was being sent.
NotifierDies(n) ==
    /\ sending[n] # {}
    /\ sending' = [sending EXCEPT ![n] = {}]
    /\ UNCHANGED <<order, thread>>

ServerStops ==
    /\ thread' = [t \in Threads |-> IdleThread]
    /\ UNCHANGED <<order, sending>>

----------------------------------------------------------------------------

BuyerRequest(t) ==
    \/ \E b \in Buyers, m \in Methods : StartCreate(t, b, m)
    \/ \E o \in Orders : ReadForCancel(t, o) \/ ReadForPaid(t, o)

ThreadStep(t) ==
    \/ CountPending(t)
    \/ \E o \in Orders : InsertOrder(t, o)
    \/ WriteCancel(t)
    \/ WriteExpired(t)
    \/ WritePaid(t)

NotifierStep(n) ==
    \/ \E batch \in SUBSET Orders : ClaimNotifications(n, batch)
    \/ \E o \in Orders, result \in {"sent", "pending"} : ReportNotification(n, o, result)
    \/ NotifierDies(n)

RechargeNext ==
    \/ \E t \in Threads : BuyerRequest(t) \/ ThreadStep(t)
    \/ \E o \in Orders : \/ OrderGrowsLate(o)
                         \/ \E verdict \in {"approved", "rejected"} : OwnerDecides(o, verdict)
    \/ \E n \in Notifiers : NotifierStep(n)
    \/ ServerStops

RechargeSpec == RechargeInit /\ [][RechargeNext]_rechargeVars

----------------------------------------------------------------------------
(* Properties *)

RechargeTypeOK ==
    /\ order \in [Orders -> Order]
    /\ thread \in [Threads -> Thread]
    /\ sending \in [Notifiers -> SUBSET Orders]
    /\ \A t \in Threads : thread[t].pc \in {"cancel", "pay", "expire"} => thread[t].order \in Orders

\* A settled order never changes its status again, and an order that was
\* submitted for review leaves the review by the owner's decision alone, however
\* cancel, mark-paid and expiry of one order overlap.
OrdersSettleOnce ==
    [][\A o \in Orders :
          /\ order[o].status \in Settled => order'[o].status = order[o].status
          /\ order[o].status = "paid" => order'[o].status \in {"paid", "approved", "rejected"}]_rechargeVars

\* What the buyer was told stays true.  An order said to be submitted is one the
\* owner sees or has decided, not one that a cancel or an expiry reached first;
\* one said to be cancelled was so or has expired, unless another request of the
\* buyer's own has meanwhile been told that it is submitted.
AnswersMatchOrders ==
    \A o \in Orders :
        /\ "submitted" \in order[o].told => order[o].status \in {"paid", "approved", "rejected"}
        /\ "cancelled" \in order[o].told
            => order[o].status \in {"cancelled", "expired"} \/ "submitted" \in order[o].told

\* The limit of pending orders is exceeded at most by the handlers that counted
\* before another one's INSERT: all but one of those under way.
Inserting(b) == {t \in Threads : thread[t].pc = "insert" /\ thread[t].buyer = b}

PendingAlmostBounded ==
    \A b \in Buyers :
        Cardinality(PendingOf(b)) + Cardinality(Inserting(b)) <= MaxPending - 1 + Cardinality(Threads)

\* An order is announced to the owner by one notifier at a time.
AnnouncedByOne ==
    \A n1, n2 \in Notifiers : n1 # n2 => sending[n1] \cap sending[n2] = {}

\* What a handler that waits to write knows of its order, and the notifier of
\* what it has claimed; with the above, an inductive invariant.
OrdersKnown ==
    /\ \A t \in Threads : thread[t].pc \in {"cancel", "pay", "expire"} => order[thread[t].order].status # "none"
    /\ \A n \in Notifiers : \A o \in sending[n] : order[o].notify = "sending"
    /\ \A o \in Orders : /\ order[o].status = "none" => order[o].told = {}
                         /\ order[o].status \in {"none", "created"} => order[o].notify = "none"
    /\ \A o \in Orders : order[o].status \in {"paid", "approved", "rejected"} => "submitted" \in order[o].told

RechargeInv ==
    /\ RechargeTypeOK
    /\ OrdersKnown
    /\ AnswersMatchOrders
    /\ AnnouncedByOne
=============================================================================
