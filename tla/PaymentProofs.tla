--------------------------- MODULE PaymentProofs ---------------------------
(* Theorems about Recharge, for any number of orders, buyers, handlers and
   notifiers, and about DirectTranslation, for any number of users, requests
   and handlers. *)
EXTENDS Recharge, DirectTranslation, FiniteSetTheorems, TLAPS

USE DEF OrderStatuses, PendingStatuses, Settled

----------------------------------------------------------------------------
(* The inductive invariant *)

LEMMA RechargeInvInit == RechargeInit => RechargeInv
BY RechargeConstants DEF RechargeInit, RechargeInv, RechargeTypeOK, OrdersKnown, AnswersMatchOrders, AnnouncedByOne,
   Order, Thread, NoRow, IdleThread

\* A step that writes a row which exists already, lets it exist, and leaves
\* notify alone preserves what is known of the orders if the row itself says
\* nothing false.
LEMMA RowWrittenKeepsInv ==
    ASSUME RechargeInv, NEW o \in Orders, NEW row \in Order,
           order' = [order EXCEPT ![o] = row], UNCHANGED sending,
           order[o].status # "none", row.status # "none",
           row.notify = order[o].notify \/ order[o].notify # "sending",
           row.status = "created" => row.notify = "none",
           "submitted" \in row.told <=> row.status \in {"paid", "approved", "rejected"},
           "cancelled" \in row.told => row.status \in {"cancelled", "expired"} \/ "submitted" \in row.told
    PROVE  /\ order' \in [Orders -> Order]
           /\ sending' \in [Notifiers -> SUBSET Orders]
           /\ AnswersMatchOrders' /\ AnnouncedByOne'
           /\ \A n \in Notifiers : \A p \in sending'[n] : order'[p].notify = "sending"
           /\ \A p \in Orders : /\ order[p].status # "none" => order'[p].status # "none"
                                /\ order'[p].status = "none" => order'[p].told = {}
                                /\ order'[p].status \in {"none", "created"} => order'[p].notify = "none"
                                /\ order'[p].status \in {"paid", "approved", "rejected"} => "submitted" \in order'[p].told
<1>1. /\ order' \in [Orders -> Order]
      /\ \A p \in Orders : order'[p] = IF p = o THEN row ELSE order[p]
  BY DEF RechargeInv, RechargeTypeOK
<1>2. \A n \in Notifiers : \A p \in sending[n] : p \in Orders
  BY DEF RechargeInv, RechargeTypeOK
<1> QED BY <1>1, <1>2 DEF RechargeInv, RechargeTypeOK, OrdersKnown, AnswersMatchOrders, AnnouncedByOne

\* What a buyer asks for reads the table and moves one handler.
LEMMA BuyerRequestKeepsInv ==
    ASSUME RechargeInv, NEW t \in Threads, BuyerRequest(t)
    PROVE  RechargeInv'
<1> USE DEF RechargeInv, RechargeTypeOK
<1>1. ASSUME NEW b \in Buyers, NEW m \in Methods, StartCreate(t, b, m) PROVE RechargeInv'
  BY <1>1 DEF StartCreate, IdleThread, Thread, OrdersKnown, AnswersMatchOrders, AnnouncedByOne
<1>2. ASSUME NEW o \in Orders, ReadForCancel(t, o) PROVE RechargeInv'
  BY <1>2 DEF ReadForCancel, ReadOrder, IdleThread, Thread, OrdersKnown, AnswersMatchOrders, AnnouncedByOne
<1>3. ASSUME NEW o \in Orders, ReadForPaid(t, o) PROVE RechargeInv'
  BY <1>3 DEF ReadForPaid, ReadOrder, IdleThread, Thread, OrdersKnown, AnswersMatchOrders, AnnouncedByOne
<1> QED BY <1>1, <1>2, <1>3 DEF BuyerRequest

\* A handler writes one row, and only as the row it finds allows.
LEMMA ThreadStepKeepsInv ==
    ASSUME RechargeInv, NEW t \in Threads, ThreadStep(t)
    PROVE  RechargeInv'
<1> USE DEF RechargeInv, RechargeTypeOK, AnswerAndStop
<1>1. CASE CountPending(t)
  BY <1>1 DEF CountPending, IdleThread, Thread, OrdersKnown, AnswersMatchOrders, AnnouncedByOne
<1>2. ASSUME NEW o \in Orders, InsertOrder(t, o) PROVE RechargeInv'
  <2> DEFINE row == [NoRow EXCEPT !.buyer = thread[t].buyer, !.method = thread[t].method, !.status = "created"]
  <2>1. row \in Order /\ row.status = "created" /\ row.notify = "none" /\ row.told = {}
    <3>1. thread[t].buyer \in Buyers \cup {NoBuyer} /\ thread[t].method \in Methods \cup {NoMethod}
      BY DEF Thread
    <3> QED BY <3>1 DEF NoRow, Order
  <2>2. order' = [order EXCEPT ![o] = row] /\ sending' = sending /\ order[o].notify = "none"
    BY <1>2 DEF InsertOrder, OrdersKnown
  <2> HIDE DEF row
  <2>3. /\ order' \in [Orders -> Order]
        /\ \A p \in Orders : order'[p] = IF p = o THEN row ELSE order[p]
    BY <2>1, <2>2
  <2>4. /\ thread' \in [Threads -> Thread] /\ thread'[t].pc = "idle"
        /\ \A u \in Threads : u # t => thread'[u] = thread[u]
    BY <1>2 DEF InsertOrder, IdleThread, Thread
  <2>5. \A n \in Notifiers : o \notin sending[n]
    BY <2>2 DEF OrdersKnown
  <2>6. RechargeTypeOK' /\ AnswersMatchOrders' /\ AnnouncedByOne'
    BY <2>1, <2>2, <2>3, <2>4 DEF AnswersMatchOrders, AnnouncedByOne
  <2>7. OrdersKnown'
    BY <2>1, <2>2, <2>3, <2>4, <2>5 DEF OrdersKnown
  <2> QED BY <2>6, <2>7
<1>3. CASE WriteCancel(t)
  <2> DEFINE o == thread[t].order
             row == [order[o] EXCEPT !.status = IF @ = "created" THEN "cancelled" ELSE @,
                                     !.told = @ \cup {"cancelled"}]
  <2>1. o \in Orders /\ order[o] \in Order /\ order[o].status # "none"
    BY <1>3 DEF WriteCancel, OrdersKnown
  <2>2. /\ row \in Order /\ row.notify = order[o].notify
        /\ row.status = IF order[o].status = "created" THEN "cancelled" ELSE order[o].status
        /\ row.told = order[o].told \cup {"cancelled"}
    BY <2>1 DEF Order
  <2>3. order' = [order EXCEPT ![o] = row] /\ UNCHANGED sending
    BY <1>3, <2>1 DEF WriteCancel, Order
  <2> HIDE DEF row
  <2>4. /\ "submitted" \in row.told <=> row.status \in {"paid", "approved", "rejected"}
        /\ row.status = "created" => row.notify = "none"
        /\ "cancelled" \in row.told => row.status \in {"cancelled", "expired"} \/ "submitted" \in row.told
    <3>1. /\ "submitted" \in order[o].told <=> order[o].status \in {"paid", "approved", "rejected"}
          /\ "cancelled" \in order[o].told =>
                 order[o].status \in {"cancelled", "expired"} \/ "submitted" \in order[o].told
      BY <2>1 DEF OrdersKnown, AnswersMatchOrders
    <3>2. order[o].status \in {"none", "created"} => order[o].notify = "none"
      BY <2>1 DEF OrdersKnown
    <3>3. order[o].status \in {"created", "cancelled", "expired", "paid", "approved", "rejected"}
      BY <2>1 DEF Order
    <3> HIDE DEF o
    <3> QED BY <2>2, <3>1, <3>2, <3>3
  <2>5. /\ thread' \in [Threads -> Thread] /\ thread'[t].pc = "idle"
        /\ \A u \in Threads : u # t => thread'[u] = thread[u]
    BY <1>3 DEF WriteCancel, IdleThread, Thread
  <2>6. /\ RechargeTypeOK' /\ AnswersMatchOrders' /\ AnnouncedByOne'
        /\ \A n \in Notifiers : \A p \in sending'[n] : order'[p].notify = "sending"
        /\ \A p \in Orders : /\ order[p].status # "none" => order'[p].status # "none"
                             /\ order'[p].status = "none" => order'[p].told = {}
                             /\ order'[p].status \in {"none", "created"} => order'[p].notify = "none"
                             /\ order'[p].status \in {"paid", "approved", "rejected"} => "submitted" \in order'[p].told
    BY <2>1, <2>2, <2>3, <2>4, <2>5, RowWrittenKeepsInv
  <2> QED BY <2>5, <2>6 DEF OrdersKnown
<1>4. CASE WriteExpired(t)
  BY <1>4 DEF WriteExpired, IdleThread, Order, Thread, OrdersKnown, AnswersMatchOrders, AnnouncedByOne
<1>5. CASE WritePaid(t)
  <2> DEFINE o == thread[t].order
             row == [order[o] EXCEPT !.status = "paid", !.notify = "pending", !.told = @ \cup {"submitted"}]
  <2>1. o \in Orders /\ order[o] \in Order
    BY <1>5 DEF WritePaid
  <2>2. /\ thread' \in [Threads -> Thread] /\ thread'[t].pc = "idle"
        /\ \A u \in Threads : u # t => thread'[u] = thread[u]
    BY <1>5 DEF WritePaid, IdleThread, Thread
  <2>3. CASE order[o].status = "created"
    <3>1. /\ row \in Order /\ row.status = "paid" /\ "submitted" \in row.told
      BY <2>1 DEF Order
    <3>2. order' = [order EXCEPT ![o] = row] /\ UNCHANGED sending
      BY <1>5, <2>1, <2>3 DEF WritePaid, Order
    <3>3. order[o].notify # "sending" \/ row.notify = order[o].notify
      BY <2>1, <2>3 DEF OrdersKnown
    <3> HIDE DEF row
    <3>4. /\ RechargeTypeOK' /\ AnswersMatchOrders' /\ AnnouncedByOne'
          /\ \A n \in Notifiers : \A p \in sending'[n] : order'[p].notify = "sending"
          /\ \A p \in Orders : /\ order[p].status # "none" => order'[p].status # "none"
                               /\ order'[p].status = "none" => order'[p].told = {}
                               /\ order'[p].status \in {"none", "created"} => order'[p].notify = "none"
                               /\ order'[p].status \in {"paid", "approved", "rejected"} => "submitted" \in order'[p].told
      BY <2>1, <2>2, <2>3, <3>1, <3>2, <3>3, RowWrittenKeepsInv
    <3> QED BY <2>2, <3>4 DEF OrdersKnown
  <2>4. CASE order[o].status # "created"
    BY <1>5, <2>2, <2>4 DEF WritePaid, OrdersKnown, AnswersMatchOrders, AnnouncedByOne
  <2> QED BY <2>3, <2>4
<1> QED BY <1>1, <1>2, <1>3, <1>4, <1>5 DEF ThreadStep

\* A notifier takes only orders nobody is sending, and writes notify alone.
LEMMA NotifierStepKeepsInv ==
    ASSUME RechargeInv, NEW n \in Notifiers, NotifierStep(n)
    PROVE  RechargeInv'
<1> USE DEF RechargeInv, RechargeTypeOK
<1>1. ASSUME NEW batch \in SUBSET Orders, ClaimNotifications(n, batch) PROVE RechargeInv'
  <2>1. /\ order' \in [Orders -> Order]
        /\ \A o \in Orders : /\ order'[o].status = order[o].status
                             /\ order'[o].told = order[o].told
                             /\ order'[o].notify = IF o \in batch THEN "sending" ELSE order[o].notify
    BY <1>1 DEF ClaimNotifications, Order
  <2>2. /\ sending' \in [Notifiers -> SUBSET Orders]
        /\ \A m \in Notifiers : sending'[m] = IF m = n THEN batch ELSE sending[m]
        /\ thread' = thread
    BY <1>1 DEF ClaimNotifications
  <2>3. \A o \in batch : o \in Orders /\ order[o].status = "paid" /\ order[o].notify = "pending"
    BY <1>1 DEF ClaimNotifications, Unannounced
  <2>4. OrdersKnown'
    BY <2>1, <2>2, <2>3 DEF OrdersKnown
  <2>5. AnnouncedByOne'
    BY <2>2, <2>3 DEF AnnouncedByOne, OrdersKnown
  <2> QED BY <2>1, <2>2, <2>4, <2>5 DEF AnswersMatchOrders
<1>2. ASSUME NEW o \in Orders, NEW result \in {"sent", "pending"}, ReportNotification(n, o, result) PROVE RechargeInv'
  BY <1>2 DEF ReportNotification, Order, OrdersKnown, AnswersMatchOrders, AnnouncedByOne
<1>3. CASE NotifierDies(n)
  BY <1>3 DEF NotifierDies, OrdersKnown, AnswersMatchOrders, AnnouncedByOne
<1> QED BY <1>1, <1>2, <1>3 DEF NotifierStep

LEMMA RechargeInvPreserved == RechargeInv /\ [RechargeNext]_rechargeVars => RechargeInv'
<1> SUFFICES ASSUME RechargeInv, [RechargeNext]_rechargeVars PROVE RechargeInv'
  OBVIOUS
<1> USE DEF RechargeInv, RechargeTypeOK
<1>1. ASSUME NEW o \in Orders, OrderGrowsLate(o) PROVE RechargeInv'
  <2> DEFINE row == [order[o] EXCEPT !.late = TRUE]
  <2>1. /\ row \in Order /\ row.status = order[o].status /\ row.notify = order[o].notify
        /\ row.told = order[o].told /\ order[o].status = "created"
    BY <1>1 DEF OrderGrowsLate, Order
  <2>2. order' = [order EXCEPT ![o] = row] /\ UNCHANGED <<sending, thread>>
    BY <1>1 DEF OrderGrowsLate, Order
  <2>3. "submitted" \notin row.told /\ "cancelled" \notin row.told /\ row.notify = "none"
    BY <2>1 DEF OrdersKnown, AnswersMatchOrders
  <2> HIDE DEF row
  <2> QED BY <2>1, <2>2, <2>3, RowWrittenKeepsInv DEF OrdersKnown
<1>2. ASSUME NEW o \in Orders, NEW verdict \in {"approved", "rejected"}, OwnerDecides(o, verdict) PROVE RechargeInv'
  <2> DEFINE row == [order[o] EXCEPT !.status = verdict]
  <2>1. /\ row \in Order /\ row.status = verdict /\ row.notify = order[o].notify
        /\ row.told = order[o].told /\ order[o].status = "paid"
    BY <1>2 DEF OwnerDecides, Order
  <2>2. "submitted" \in row.told
    BY <2>1 DEF OrdersKnown
  <2>3. order' = [order EXCEPT ![o] = row] /\ UNCHANGED <<sending, thread>>
    BY <1>2 DEF OwnerDecides, Order
  <2> HIDE DEF row
  <2> QED BY <2>1, <2>2, <2>3, RowWrittenKeepsInv DEF OrdersKnown, AnswersMatchOrders
<1>3. CASE ServerStops
  BY <1>3 DEF ServerStops, IdleThread, Thread, OrdersKnown, AnswersMatchOrders, AnnouncedByOne
<1>4. CASE UNCHANGED rechargeVars
  BY <1>4 DEF rechargeVars, OrdersKnown, AnswersMatchOrders, AnnouncedByOne
<1> QED BY <1>1, <1>2, <1>3, <1>4, BuyerRequestKeepsInv, ThreadStepKeepsInv, NotifierStepKeepsInv DEF RechargeNext

\* The inductive invariant of the order table.
THEOREM RechargeInvHolds == RechargeSpec => []RechargeInv
BY RechargeInvInit, RechargeInvPreserved, PTL DEF RechargeSpec

\* Rows stay well formed, and a handler that waits to write has an order.
THEOREM RechargeTypesHold == RechargeSpec => []RechargeTypeOK
<1>1. RechargeInv => RechargeTypeOK
  BY DEF RechargeInv
<1> QED BY <1>1, RechargeInvHolds, PTL

\* What a buyer was told of an order stays true, however many requests of his
\* about it overlap (cancel_recharge_request, mark_recharge_paid_for_user).
THEOREM AnswersStayTrue == RechargeSpec => []AnswersMatchOrders
<1>1. RechargeInv => AnswersMatchOrders
  BY DEF RechargeInv
<1> QED BY <1>1, RechargeInvHolds, PTL

\* An order is announced by one notifier at a time (claim_owner_notifications).
THEOREM OneNotifierAnnounces == RechargeSpec => []AnnouncedByOne
<1>1. RechargeInv => AnnouncedByOne
  BY DEF RechargeInv
<1> QED BY <1>1, RechargeInvHolds, PTL

----------------------------------------------------------------------------
(* Settled orders *)

LEMMA StepSettlesOnce ==
    ASSUME RechargeInv, [RechargeNext]_rechargeVars, NEW o \in Orders
    PROVE  /\ order[o].status \in Settled => order'[o].status = order[o].status
           /\ order[o].status = "paid" => order'[o].status \in {"paid", "approved", "rejected"}
<1> USE DEF RechargeInv, RechargeTypeOK, Order
<1>1. ASSUME NEW t \in Threads, BuyerRequest(t) PROVE order' = order
  BY <1>1 DEF BuyerRequest, StartCreate, ReadForCancel, ReadForPaid, ReadOrder
<1>2. ASSUME NEW t \in Threads, CountPending(t) PROVE order' = order
  BY <1>2 DEF CountPending
<1>3. ASSUME NEW t \in Threads, NEW p \in Orders, InsertOrder(t, p)
      PROVE  \A q \in Orders : order[q].status # "none" => order'[q] = order[q]
  BY <1>3 DEF InsertOrder
<1>4. ASSUME NEW t \in Threads, WriteCancel(t) \/ WriteExpired(t) \/ WritePaid(t)
      PROVE  \A q \in Orders : order[q].status # "created" => order'[q].status = order[q].status
  BY <1>4 DEF WriteCancel, WriteExpired, WritePaid
<1>5. ASSUME NEW n \in Notifiers, NotifierStep(n)
      PROVE  \A q \in Orders : order'[q].status = order[q].status
  BY <1>5 DEF NotifierStep, ClaimNotifications, ReportNotification, NotifierDies
<1>6. ASSUME NEW p \in Orders, OrderGrowsLate(p)
      PROVE  \A q \in Orders : order'[q].status = order[q].status
  BY <1>6 DEF OrderGrowsLate
<1>7. ASSUME NEW p \in Orders, NEW verdict \in {"approved", "rejected"}, OwnerDecides(p, verdict)
      PROVE  \A q \in Orders : /\ order[q].status # "paid" => order'[q].status = order[q].status
                               /\ order'[q].status \in {order[q].status, verdict}
  BY <1>7 DEF OwnerDecides
<1>8. CASE ServerStops \/ UNCHANGED rechargeVars
  BY <1>8 DEF ServerStops, rechargeVars
<1> QED BY <1>1, <1>2, <1>3, <1>4, <1>5, <1>6, <1>7, <1>8 DEF RechargeNext, ThreadStep

\* A settled order stays as it was settled, and only the owner ends a review.
THEOREM OrdersStaySettled == RechargeSpec => OrdersSettleOnce
<1>1. RechargeInv /\ [RechargeNext]_rechargeVars =>
        [\A o \in Orders :
            /\ order[o].status \in Settled => order'[o].status = order[o].status
            /\ order[o].status = "paid" => order'[o].status \in {"paid", "approved", "rejected"}]_rechargeVars
  BY StepSettlesOnce
<1> QED BY <1>1, RechargeInvHolds, PTL DEF RechargeSpec, OrdersSettleOnce

----------------------------------------------------------------------------
(* The limit of pending orders *)

LEMMA PendingBoundInit == RechargeInit => PendingAlmostBounded
<1> SUFFICES ASSUME RechargeInit, NEW b \in Buyers
             PROVE  Cardinality(PendingOf(b)) + Cardinality(Inserting(b)) <= MaxPending - 1 + Cardinality(Threads)
  BY DEF PendingAlmostBounded
<1>1. PendingOf(b) = {} /\ Inserting(b) = {}
  BY RechargeConstants DEF RechargeInit, PendingOf, Inserting, NoRow, IdleThread
<1>2. Cardinality({}) = 0 /\ Cardinality(Threads) \in Nat
  BY RechargeFinite, FS_EmptySet, FS_CardinalityType
<1> QED BY <1>1, <1>2, RechargeConstants

\* A step that adds neither an order nor a handler that will add one.
LEMMA PendingShrinks ==
    ASSUME PendingAlmostBounded, NEW b \in Buyers,
           PendingOf(b)' \subseteq PendingOf(b), Inserting(b)' \subseteq Inserting(b)
    PROVE  Cardinality(PendingOf(b))' + Cardinality(Inserting(b))' <= MaxPending - 1 + Cardinality(Threads)
<1>1. IsFiniteSet(PendingOf(b)) /\ IsFiniteSet(Inserting(b))
  BY RechargeFinite, FS_Subset DEF PendingOf, Inserting
<1>2. /\ Cardinality(PendingOf(b)') <= Cardinality(PendingOf(b))
      /\ Cardinality(Inserting(b)') <= Cardinality(Inserting(b))
      /\ Cardinality(PendingOf(b)) \in Nat /\ Cardinality(Inserting(b)) \in Nat
      /\ Cardinality(PendingOf(b)') \in Nat /\ Cardinality(Inserting(b)') \in Nat
      /\ Cardinality(Threads) \in Nat
  BY <1>1, RechargeFinite, FS_Subset, FS_CardinalityType
<1> QED BY <1>2, RechargeConstants DEF PendingAlmostBounded

LEMMA PendingBoundPreserved ==
    ASSUME RechargeInv, PendingAlmostBounded, [RechargeNext]_rechargeVars
    PROVE  PendingAlmostBounded'
<1> SUFFICES ASSUME NEW b \in Buyers
             PROVE  Cardinality(PendingOf(b))' + Cardinality(Inserting(b))' <= MaxPending - 1 + Cardinality(Threads)
  BY DEF PendingAlmostBounded
<1> USE DEF RechargeInv, RechargeTypeOK, Order, Thread
<1>f. /\ IsFiniteSet(PendingOf(b)) /\ IsFiniteSet(Inserting(b)) /\ IsFiniteSet(Inserting(b)')
      /\ Cardinality(PendingOf(b)) \in Nat /\ Cardinality(Inserting(b)) \in Nat
      /\ Cardinality(Inserting(b)') <= Cardinality(Threads)
      /\ Cardinality(Threads) \in Nat /\ Cardinality(Inserting(b)') \in Nat
  <2>1. PendingOf(b) \subseteq Orders /\ Inserting(b) \subseteq Threads /\ Inserting(b)' \subseteq Threads
    BY DEF PendingOf, Inserting
  <2> QED BY <2>1, RechargeFinite, FS_Subset, FS_CardinalityType
<1>0. ASSUME PendingOf(b)' \subseteq PendingOf(b), Inserting(b)' \subseteq Inserting(b)
      PROVE  Cardinality(PendingOf(b))' + Cardinality(Inserting(b))' <= MaxPending - 1 + Cardinality(Threads)
  BY <1>0, PendingShrinks
<1>1. ASSUME NEW t \in Threads, BuyerRequest(t)
      PROVE  PendingOf(b)' \subseteq PendingOf(b) /\ Inserting(b)' \subseteq Inserting(b)
  <2>1. order' = order /\ thread'[t].pc # "insert" /\ \A u \in Threads : u # t => thread'[u] = thread[u]
    <3>1. ASSUME NEW x \in Buyers, NEW m \in Methods, StartCreate(t, x, m)
          PROVE  order' = order /\ thread'[t].pc # "insert" /\ \A u \in Threads : u # t => thread'[u] = thread[u]
      BY <3>1 DEF StartCreate, IdleThread
    <3>2. ASSUME NEW o \in Orders, NEW pc \in {"cancel", "pay", "expire"}, ReadOrder(t, o, pc)
          PROVE  order' = order /\ thread'[t].pc # "insert" /\ \A u \in Threads : u # t => thread'[u] = thread[u]
      BY <3>2 DEF ReadOrder, IdleThread
    <3>3. ASSUME NEW o \in Orders, ReadForCancel(t, o) \/ ReadForPaid(t, o)
          PROVE  \E pc \in {"cancel", "pay", "expire"} : ReadOrder(t, o, pc)
      BY <3>3 DEF ReadForCancel, ReadForPaid
    <3> QED BY <1>1, <3>1, <3>2, <3>3 DEF BuyerRequest
  <2> QED BY <2>1 DEF PendingOf, Inserting
<1>2. ASSUME NEW t \in Threads, CountPending(t)
      PROVE  Cardinality(PendingOf(b))' + Cardinality(Inserting(b))' <= MaxPending - 1 + Cardinality(Threads)
  <2>1. PendingOf(b)' = PendingOf(b)
    BY <1>2 DEF CountPending, PendingOf
  <2>2. CASE Cardinality(PendingOf(b)) < MaxPending
    BY <2>1, <2>2, <1>f, RechargeConstants
  <2>3. CASE ~(Cardinality(PendingOf(b)) < MaxPending)
    BY <1>2, <2>1, <2>3, <1>0 DEF CountPending, AnswerAndStop, IdleThread, Inserting
  <2> QED BY <2>2, <2>3
<1>3. ASSUME NEW t \in Threads, NEW o \in Orders, InsertOrder(t, o)
      PROVE  Cardinality(PendingOf(b))' + Cardinality(Inserting(b))' <= MaxPending - 1 + Cardinality(Threads)
  <2>1. CASE thread[t].buyer = b
    <3>1. PendingOf(b)' = PendingOf(b) \cup {o} /\ o \notin PendingOf(b)
      BY <1>3, <2>1 DEF InsertOrder, PendingOf, NoRow
    <3>2. Inserting(b)' = Inserting(b) \ {t} /\ t \in Inserting(b)
      BY <1>3, <2>1 DEF InsertOrder, AnswerAndStop, IdleThread, Inserting
    <3>3. Cardinality(PendingOf(b)') = Cardinality(PendingOf(b)) + 1
      BY <3>1, <1>f, FS_AddElement
    <3>4. Cardinality(Inserting(b)') = Cardinality(Inserting(b)) - 1
      BY <3>2, <1>f, FS_RemoveElement
    <3> QED BY <3>3, <3>4, <1>f, RechargeConstants DEF PendingAlmostBounded
  <2>2. CASE thread[t].buyer # b
    BY <1>3, <2>2, <1>0, RechargeConstants DEF InsertOrder, AnswerAndStop, IdleThread, NoRow, PendingOf, Inserting
  <2> QED BY <2>1, <2>2
<1>4. ASSUME NEW t \in Threads, WriteCancel(t) \/ WriteExpired(t) \/ WritePaid(t)
      PROVE  PendingOf(b)' \subseteq PendingOf(b) /\ Inserting(b)' \subseteq Inserting(b)
  <2>1. thread'[t].pc = "idle" /\ \A u \in Threads : u # t => thread'[u] = thread[u]
    BY <1>4 DEF WriteCancel, WriteExpired, WritePaid, AnswerAndStop, IdleThread
  <2>2. thread[t].order \in Orders
    BY <1>4 DEF WriteCancel, WriteExpired, WritePaid
  <2>3. \A p \in Orders : /\ order'[p].buyer = order[p].buyer
                          /\ order'[p].status \in PendingStatuses => order[p].status \in PendingStatuses
    <3>1. CASE WriteCancel(t)
      BY <2>2, <3>1 DEF WriteCancel
    <3>2. CASE WriteExpired(t)
      BY <2>2, <3>2 DEF WriteExpired
    <3>3. CASE WritePaid(t)
      BY <2>2, <3>3 DEF WritePaid
    <3> QED BY <1>4, <3>1, <3>2, <3>3
  <2>4. PendingOf(b)' \subseteq PendingOf(b)
    <3>1. \A p \in Orders : order'[p].buyer = b /\ order'[p].status \in PendingStatuses
                           => order[p].buyer = b /\ order[p].status \in PendingStatuses
      BY <2>3
    <3> HIDE DEF PendingStatuses
    <3> QED BY <3>1 DEF PendingOf
  <2>5. Inserting(b)' \subseteq Inserting(b)
    BY <2>1 DEF Inserting
  <2> QED BY <2>4, <2>5
<1>5. ASSUME NEW n \in Notifiers, NotifierStep(n)
      PROVE  PendingOf(b)' \subseteq PendingOf(b) /\ Inserting(b)' \subseteq Inserting(b)
  BY <1>5 DEF NotifierStep, ClaimNotifications, ReportNotification, NotifierDies, PendingOf, Inserting
<1>6. ASSUME NEW o \in Orders, OrderGrowsLate(o) \/ \E verdict \in {"approved", "rejected"} : OwnerDecides(o, verdict)
      PROVE  PendingOf(b)' \subseteq PendingOf(b) /\ Inserting(b)' \subseteq Inserting(b)
  BY <1>6 DEF OrderGrowsLate, OwnerDecides, PendingOf, Inserting
<1>7. CASE ServerStops \/ UNCHANGED rechargeVars
  <2>1. PendingOf(b)' \subseteq PendingOf(b) /\ Inserting(b)' \subseteq Inserting(b)
    BY <1>7 DEF ServerStops, rechargeVars, IdleThread, PendingOf, Inserting
  <2> QED BY <2>1, <1>0
<1> QED BY <1>0, <1>1, <1>2, <1>3, <1>4, <1>5, <1>6, <1>7 DEF RechargeNext, ThreadStep

\* However many handlers count at the same time, the limit is exceeded by at
\* most all but one of them (create_recharge_request_for_identity).
THEOREM PendingIsAlmostBounded == RechargeSpec => []PendingAlmostBounded
BY RechargeInvHolds, PendingBoundInit, PendingBoundPreserved, PTL DEF RechargeSpec

----------------------------------------------------------------------------
(* Direct translations *)

\* The invariants that are proved together.
DirectSafe == DirectInv /\ OneChargePerCallId /\ OpenIsAwaited

LEMMA DirectSafeInit == DirectInit => DirectSafe
BY DirectConstants DEF DirectInit, DirectSafe, DirectInv, DirectTypeOK, CallersOwnRequests,
   OneChargePerCallId, OpenIsAwaited, NoRequestRow, Request

\* A charge takes a code and an id that nobody has.
LEMMA BeginChargeKeepsSafe ==
    ASSUME DirectSafe, NEW c \in Callers, NEW j \in Calls, NEW u \in Payers,
           NEW id \in CallIds \cup {NoCallId}, BeginCharge(c, j, u, id)
    PROVE  DirectSafe'
<1> DEFINE row == [user |-> u, id |-> id, charged |-> price, status |-> "processing"]
<1>1. /\ row \in Request /\ row.status = "processing" /\ row.user = u /\ row.id = id
      /\ price \in Nat
  BY DirectConstants DEF DirectSafe, DirectInv, DirectTypeOK, Request
<1>2. request' = [request EXCEPT ![j] = row]
  BY DEF BeginCharge
<1> HIDE DEF row
<1>3. /\ request' \in [Calls -> Request]
      /\ \A k \in Calls : request'[k] = IF k = j THEN row ELSE request[k]
  BY <1>1, <1>2 DEF DirectSafe, DirectInv, DirectTypeOK
<1>4. /\ caller' \in [Callers -> Calls \cup {NoCall}]
      /\ \A d \in Callers : caller'[d] = IF d = c THEN j ELSE caller[d]
      /\ request[j].status = "none" /\ caller[c] = NoCall
      /\ refunded' = refunded /\ lost' = lost
  BY DEF BeginCharge, DirectSafe, DirectInv, DirectTypeOK
<1>5. DirectTypeOK'
  <2>1. balance' \in [Payers -> Nat]
    BY <1>1 DEF BeginCharge, DirectSafe, DirectInv, DirectTypeOK
  <2> QED BY <2>1, <1>3, <1>4 DEF BeginCharge, DirectSafe, DirectInv, DirectTypeOK
<1>6. CallersOwnRequests'
  BY <1>1, <1>3, <1>4, DirectConstants DEF DirectSafe, DirectInv, DirectTypeOK, CallersOwnRequests
<1>7. OneChargePerCallId'
  <2>1. \A k \in Calls : request[k].user = u /\ request[k].id = id => id = NoCallId
    BY DEF BeginCharge, SameCall
  <2>2. request[j].user = NoPayer /\ u # NoPayer /\ NoCallId \notin CallIds
    BY <1>4, DirectConstants DEF DirectSafe, DirectInv, CallersOwnRequests
  <2> QED BY <1>1, <1>3, <2>1, <2>2 DEF DirectSafe, OneChargePerCallId
<1>8. OpenIsAwaited'
  <2>1. SUFFICES ASSUME NEW k \in Calls, request'[k].status = "processing", k \notin lost
                 PROVE  \E d \in Callers : caller'[d] = k
    BY <1>4 DEF OpenIsAwaited
  <2>2. CASE k = j
    BY <1>4, <2>2
  <2>3. CASE k # j
    <3>1. PICK d \in Callers : caller[d] = k
      BY <1>3, <2>1, <2>3 DEF DirectSafe, OpenIsAwaited
    <3> QED BY <1>4, <3>1, DirectConstants
  <2> QED BY <2>2, <2>3
<1> QED BY <1>5, <1>6, <1>7, <1>8 DEF DirectSafe, DirectInv

\* A handler closes the one request it waits for.
LEMMA CallEndsKeepsSafe ==
    ASSUME DirectSafe, NEW c \in Callers, CallEnds(c)
    PROVE  DirectSafe'
<1> DEFINE j == caller[c]
<1>1. j \in Calls /\ request[j].status = "processing" /\ request[j] \in Request /\ request[j].user \in Payers
  BY DEF CallEnds, Finish, Refund, DirectSafe, DirectInv, DirectTypeOK, CallersOwnRequests
<1>2. /\ request' \in [Calls -> Request]
      /\ \A k \in Calls : /\ k # j => request'[k] = request[k]
                          /\ request'[k].id = request[k].id
                          /\ request'[k].user = request[k].user
      /\ request'[j].status \in {"done", "failed_refunded"}
  BY <1>1 DEF CallEnds, Finish, Refund, DirectSafe, DirectInv, DirectTypeOK, Request
<1>3. /\ caller' \in [Callers -> Calls \cup {NoCall}]
      /\ \A d \in Callers : caller'[d] = IF d = c THEN NoCall ELSE caller[d]
      /\ lost' = lost /\ price' = price
  BY DEF CallEnds, Finish, Refund, DirectSafe, DirectInv, DirectTypeOK
<1>4. /\ balance' \in [Payers -> Nat]
      /\ \/ refunded' = refunded
         \/ refunded' = refunded \cup {j} /\ request'[j].status = "failed_refunded"
  <2>1. CASE Finish(c)
    BY <2>1 DEF Finish, DirectSafe, DirectInv, DirectTypeOK
  <2>2. CASE Refund(c)
    BY <1>1, <2>2 DEF Refund, DirectSafe, DirectInv, DirectTypeOK, Request
  <2> QED BY <2>1, <2>2 DEF CallEnds
<1> HIDE DEF j
<1>5. DirectTypeOK'
  BY <1>1, <1>2, <1>3, <1>4 DEF DirectSafe, DirectInv, DirectTypeOK
<1>6. CallersOwnRequests'
  <2>1. \A d \in Callers : caller'[d] # NoCall => d # c /\ caller[d] = caller'[d] /\ caller[d] # j
    BY <1>1, <1>3 DEF j, DirectSafe, DirectInv, CallersOwnRequests
  <2> QED BY <2>1, <1>1, <1>2, <1>3, <1>4 DEF DirectSafe, DirectInv, DirectTypeOK, CallersOwnRequests
<1>7. OneChargePerCallId'
  BY <1>2 DEF DirectSafe, OneChargePerCallId
<1>8. OpenIsAwaited'
  <2>1. \A k \in Calls : request'[k].status = "processing" => k # j /\ request[k].status = "processing"
    BY <1>2
  <2> QED BY <2>1, <1>3 DEF j, DirectSafe, OpenIsAwaited
<1> QED BY <1>5, <1>6, <1>7, <1>8 DEF DirectSafe, DirectInv

LEMMA DirectSafePreserved == DirectSafe /\ [DirectNext]_directVars => DirectSafe'
<1> SUFFICES ASSUME DirectSafe, [DirectNext]_directVars PROVE DirectSafe'
  OBVIOUS
<1>1. ASSUME NEW c \in Callers, CallIsLost(c) PROVE DirectSafe'
  BY <1>1 DEF CallIsLost, DirectSafe, DirectInv, DirectTypeOK, CallersOwnRequests, OneChargePerCallId, OpenIsAwaited
<1>2. ASSUME NEW p \in Prices, ServerRestarts(p) PROVE DirectSafe'
  BY <1>2 DEF ServerRestarts, DirectSafe, DirectInv, DirectTypeOK, CallersOwnRequests, OneChargePerCallId, OpenIsAwaited
<1>3. CASE UNCHANGED directVars
  BY <1>3 DEF directVars, DirectSafe, DirectInv, DirectTypeOK, CallersOwnRequests, OneChargePerCallId, OpenIsAwaited
<1> QED BY <1>1, <1>2, <1>3, BeginChargeKeepsSafe, CallEndsKeepsSafe DEF DirectNext

\* The inductive invariant of direct translations.
THEOREM DirectSafeHolds == DirectSpec => []DirectSafe
BY DirectSafeInit, DirectSafePreserved, PTL DEF DirectSpec

\* Balances never go below zero, and a handler waits for an open request that
\* no other handler waits for.
THEOREM DirectTypesHold == DirectSpec => []DirectInv
<1>1. DirectSafe => DirectInv
  BY DEF DirectSafe
<1> QED BY <1>1, DirectSafeHolds, PTL

\* A client request id of a user is charged for once (_begin_charge), whatever
\* became of the first call.
THEOREM CallIdsAreChargedOnce == DirectSpec => []OneChargePerCallId
<1>1. DirectSafe => OneChargePerCallId
  BY DEF DirectSafe
<1> QED BY <1>1, DirectSafeHolds, PTL

\* A request that is still open has a handler, unless the handler was lost.
THEOREM OpenRequestsAreAwaited == DirectSpec => []OpenIsAwaited
<1>1. DirectSafe => OpenIsAwaited
  BY DEF DirectSafe
<1> QED BY <1>1, DirectSafeHolds, PTL

----------------------------------------------------------------------------
(* The promise about money *)

LEMMA DirectStepIsBilling ==
    ASSUME DirectInv, [DirectNext]_directVars
    PROVE  [Promise!BillingNext]_(Promise!billingVars)
<1>0. /\ request \in [Calls -> Request] /\ balance \in [Payers -> Nat]
      /\ \A k \in Calls : request[k] \in Request
  BY DEF DirectInv, DirectTypeOK
<1>1. ASSUME NEW c \in Callers, NEW j \in Calls, NEW u \in Payers, NEW id \in CallIds \cup {NoCallId},
             BeginCharge(c, j, u, id)
      PROVE  Promise!BillingNext
  <2>1. PICK amount \in Prices : amount = price
    BY DEF DirectInv, DirectTypeOK
  <2>2. Promise!Charge(j, u, amount)
    BY <1>0, <1>1, <2>1 DEF BeginCharge, Promise!Charge, DirectBill
  <2> QED BY <2>2 DEF Promise!BillingNext
<1>2. ASSUME NEW c \in Callers, Finish(c) PROVE Promise!BillingNext
  <2> DEFINE j == caller[c]
  <2>1. j \in Calls /\ request[j].status = "processing"
    BY <1>2 DEF Finish, DirectInv, DirectTypeOK, CallersOwnRequests
  <2>2. Promise!Keep(j)
    BY <1>0, <1>2, <2>1 DEF Finish, Promise!Keep, DirectBill, Request
  <2> QED BY <2>1, <2>2 DEF Promise!BillingNext
<1>3. ASSUME NEW c \in Callers, Refund(c) PROVE Promise!BillingNext
  <2> DEFINE j == caller[c]
  <2>1. /\ j \in Calls /\ request[j].status = "processing" /\ request[j].charged \in Nat
        /\ request[j].user \in Payers /\ j \notin refunded
    BY <1>0, <1>3 DEF Refund, DirectInv, DirectTypeOK, CallersOwnRequests, Request
  <2>2. balance' = [balance EXCEPT ![request[j].user] = @ + request[j].charged]
    BY <1>0, <1>3, <2>1 DEF Refund
  <2>3. request' = [request EXCEPT ![j].status = "failed_refunded"]
    BY <1>3 DEF Refund
  <2> HIDE DEF j
  <2>4. \A k \in Calls : /\ request'[k].user = request[k].user
                         /\ request'[k].charged = request[k].charged
                         /\ request'[k].status = IF k = j THEN "failed_refunded" ELSE request[k].status
    BY <1>0, <2>1, <2>3 DEF Request
  <2>5. DirectBill' = [DirectBill EXCEPT ![j] = "returned"] /\ DirectBill[j] = "held"
    BY <2>1, <2>4 DEF DirectBill
  <2>6. Promise!Return(j)
    BY <2>1, <2>2, <2>4, <2>5 DEF Promise!Return
  <2> QED BY <2>1, <2>6 DEF Promise!BillingNext
<1>4. CASE (\E c \in Callers : CallIsLost(c)) \/ (\E p \in Prices : ServerRestarts(p)) \/ UNCHANGED directVars
  BY <1>4 DEF CallIsLost, ServerRestarts, directVars, Promise!billingVars, DirectBill
<1> QED BY <1>1, <1>2, <1>3, <1>4 DEF DirectNext, CallEnds

\* Direct translations keep the promise about money: a fee is taken once, from
\* credit the user has, and is then kept or given back in full, once.
THEOREM DirectKeepsBillingPromise == DirectSpec => KeepsDirectPromise
<1>1. DirectInit => Promise!BillingInit
  BY DirectConstants DEF DirectInit, Promise!BillingInit, DirectBill, NoRequestRow
<1>2. DirectInv /\ [DirectNext]_directVars => [Promise!BillingNext]_(Promise!billingVars)
  BY DirectStepIsBilling
<1> QED BY <1>1, <1>2, DirectTypesHold, PTL DEF DirectSpec, KeepsDirectPromise, Promise!BillingSpec

\* What is proved of the promise, for this implementation of it.
Promised == INSTANCE JobBillingProofs WITH
    Users <- Payers, Jobs <- Calls, Fees <- Prices, NoOne <- NoPayer,
    credit <- balance, bill <- DirectBill,
    payer <- [j \in Calls |-> request[j].user], fee <- [j \in Calls |-> request[j].charged]

\* Calls that fail, are lost or meet a restart with another price included, a
\* user's balance and the fees of open and answered calls add up to what they
\* were.
THEOREM DirectConservesCredit ==
    ASSUME IsFiniteSet(Calls)
    PROVE  DirectSpec => Promised!CreditIsConserved
<1>1. Promised!BillingSpec => Promised!CreditIsConserved
  <2>1. Promised!IsFiniteSet(Calls)
    BY DEF Promised!IsFiniteSet, IsFiniteSet
  <2>2. Prices \subseteq Nat
    BY DirectConstants
  <2> QED BY <2>1, <2>2, Promised!PromiseConservesCredit
<1>2. Promise!BillingInit => Promised!BillingInit
  BY DEF Promise!BillingInit, Promised!BillingInit
<1>3. [Promise!BillingNext]_(Promise!billingVars) => [Promised!BillingNext]_(Promised!billingVars)
  BY DEF Promise!BillingNext, Promised!BillingNext, Promise!Charge, Promised!Charge, Promise!Keep,
     Promised!Keep, Promise!Return, Promised!Return, Promise!billingVars, Promised!billingVars
<1> QED BY <1>1, <1>2, <1>3, DirectKeepsBillingPromise, PTL
        DEF KeepsDirectPromise, Promise!BillingSpec, Promised!BillingSpec
=============================================================================
