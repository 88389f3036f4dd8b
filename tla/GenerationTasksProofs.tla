---------------------- MODULE GenerationTasksProofs ----------------------
(* Theorems about GenerationTasks, for every value of its constants, and about
   FastTranslationWorkers, for any number of server processes. *)
EXTENDS FastTranslationWorkers, SumTheorems

USE DEF Refunded, Terminal, Active, Statuses, RefundReasons, Kinds,
        TrStatuses, RefundRows

LEMMA FeeIsNat ==
    ASSUME NEW u, NEW kind \in Kinds
    PROVE  Fee(u, kind) \in Nat
BY PriceAssumption DEF Fee

LEMMA CreateInserts ==
    ASSUME Create
    PROVE  \E u \in Users, j \in Jobs, r \in Requests \cup {NoRequest}, x \in Texts,
              kind \in Kinds, first \in Active : Insert(j, u, r, kind, x, first)
<1>1. PICK u \in Users, j \in Jobs, r \in Requests \cup {NoRequest}, x \in Texts :
          \/ Insert(j, u, r, "plain", x, "queued")
          \/ Insert(j, u, r, "fast", x, "translating")
          \/ Insert(j, u, r, "smart", x, "smart_planning")
          \/ Insert(j, u, r, "smart", x, "queued")
  BY DEF Create, CreateTask, CreateFastTranslationTask, CreateSmartAgentTask, ConfirmDraft, InsertSmart
<1> QED BY <1>1

LEMMA RowHasFields ==
    ASSUME TypeOK, RowsAndStatuses, NEW j \in Jobs, status[j] # "absent"
    PROVE  /\ row[j] \in Row
           /\ row[j].user \in Users
           /\ row[j].fee \in Nat
BY DEF TypeOK, RowsAndStatuses, Row

LEMMA InitEstablishes == Init => TaskInv
<1> SUFFICES ASSUME Init PROVE TaskInv
  OBVIOUS
<1>1. TypeOK
  BY CreditAssumption DEF Init, TypeOK, Translation, NoTranslation
<1>2. RowsAndStatuses /\ RenderingIsProcessing /\ OutputsAreOfDoneTasks
  BY DEF Init, RowsAndStatuses, RenderingIsProcessing, OutputsAreOfDoneTasks
<1>3. RefundedExactlyOnce
  BY DEF Init, RefundedExactlyOnce
<1>4. TranslationFollowsTask
  BY DEF Init, TranslationFollowsTask, NoTranslation
<1>5. OneTaskPerRequest /\ IdemNamesSmartTasks /\ AnswerFitsRequest
  BY DEF Init, OneTaskPerRequest, IdemNamesSmartTasks, AnswerFitsRequest
<1> QED
  BY <1>1, <1>2, <1>3, <1>4, <1>5 DEF TaskInv

\* Creating a task, before its translation request or idempotency record.
LEMMA InsertPreserves ==
    ASSUME TaskInv, NEW j \in Jobs, NEW u \in Users,
           NEW r \in Requests \cup {NoRequest}, NEW kind \in Kinds, NEW x \in Texts,
           NEW first \in Active, Insert(j, u, r, kind, x, first)
    PROVE  /\ balance' \in [Users -> Nat]
           /\ row' \in [Jobs -> Row \cup {NoRow}]
           /\ status' \in [Jobs -> Statuses]
           /\ answer' \in Answer \cup {NoAnswer}
           /\ RowsAndStatuses'
           /\ RenderingIsProcessing'
           /\ RefundedExactlyOnce'
           /\ OutputsAreOfDoneTasks'
           /\ AnswerFitsRequest'
           /\ \A k \in Jobs : k # j => row'[k] = row[k] /\ status'[k] = status[k]
           /\ row'[j] = [user |-> u, req |-> r, kind |-> kind, text |-> x, fee |-> Fee(u, kind)]
           /\ status'[j] = first
           /\ row[j] = NoRow /\ row'[j] # NoRow
<1> DEFINE new == [user |-> u, req |-> r, kind |-> kind, text |-> x, fee |-> Fee(u, kind)]
<1>1. new \in Row /\ new # NoRow
  BY FeeIsNat, RowAssumption DEF Row
<1>2. TypeOK /\ RowsAndStatuses /\ status[j] = "absent" /\ row[j] = NoRow
  BY DEF TaskInv, Insert, RowsAndStatuses
<1>3. /\ row' = [row EXCEPT ![j] = new] /\ status' = [status EXCEPT ![j] = first]
      /\ UNCHANGED <<claim, refunds, events, rendering, outputs>>
  BY DEF Insert
<1>4. row' \in [Jobs -> Row \cup {NoRow}] /\ status' \in [Jobs -> Statuses]
  BY <1>1, <1>2, <1>3 DEF TypeOK
<1>5. balance' \in [Users -> Nat]
  <2>1. balance[u] - Fee(u, kind) \in Nat
    BY <1>2, FeeIsNat DEF Insert, TypeOK
  <2> QED BY <2>1, <1>2 DEF Insert, TypeOK
<1>6. answer' \in Answer \cup {NoAnswer}
  BY DEF Insert, Answer
<1>7. /\ \A k \in Jobs : k # j => row'[k] = row[k] /\ status'[k] = status[k]
      /\ row'[j] = new /\ status'[j] = first
  BY <1>2, <1>3 DEF TypeOK
<1>8. RowsAndStatuses'
  BY <1>1, <1>2, <1>7 DEF RowsAndStatuses
<1>9. RenderingIsProcessing' /\ OutputsAreOfDoneTasks'
  BY <1>2, <1>3, <1>7 DEF TaskInv, TypeOK, RenderingIsProcessing, OutputsAreOfDoneTasks
<1>10. RefundedExactlyOnce'
  BY <1>2, <1>3, <1>7 DEF TaskInv, RefundedExactlyOnce
<1>11. AnswerFitsRequest'
  <2>1. answer' = [job |-> j, user |-> u, kind |-> kind, text |-> x]
    BY DEF Insert
  <2> QED BY <2>1, <1>1, <1>7 DEF AnswerFitsRequest
<1> QED
  BY <1>1, <1>2, <1>4, <1>5, <1>6, <1>7, <1>8, <1>9, <1>10, <1>11

\* A request id names one task, also after a new task has been inserted.
LEMMA InsertKeepsRequestsApart ==
    ASSUME TaskInv, NEW j \in Jobs, NEW u \in Users,
           NEW r \in Requests \cup {NoRequest}, NEW kind \in Kinds, NEW x \in Texts,
           NEW first \in Active, Insert(j, u, r, kind, x, first)
    PROVE  \A a, b \in Jobs :
               /\ row'[a] # NoRow /\ row'[b] # NoRow
               /\ row'[a].user = row'[b].user /\ row'[a].req = row'[b].req
               /\ row'[a].req # NoRequest
               => a = b
<1>1. SameRequest(u, r) = {} /\ OneTaskPerRequest
  BY DEF Insert, TaskInv
<1>2. \A k \in Jobs : r # NoRequest /\ row[k] # NoRow /\ row[k].user = u => row[k].req # r
  BY <1>1 DEF SameRequest
<1>3. /\ \A k \in Jobs : k # j => row'[k] = row[k]
      /\ row'[j] = [user |-> u, req |-> r, kind |-> kind, text |-> x, fee |-> Fee(u, kind)]
  BY InsertPreserves
<1> QED
  BY <1>1, <1>2, <1>3 DEF OneTaskPerRequest

LEMMA CreateTaskPreserves ==
    ASSUME TaskInv, NEW u \in Users, NEW j \in Jobs,
           NEW r \in Requests \cup {NoRequest}, NEW x \in Texts, CreateTask(u, j, r, x)
    PROVE  TaskInv'
<1>1. Insert(j, u, r, "plain", x, "queued")
  BY DEF CreateTask
<1>2. /\ balance' \in [Users -> Nat]
      /\ row' \in [Jobs -> Row \cup {NoRow}]
      /\ status' \in [Jobs -> Statuses]
      /\ answer' \in Answer \cup {NoAnswer}
      /\ RowsAndStatuses' /\ RenderingIsProcessing' /\ RefundedExactlyOnce'
      /\ OutputsAreOfDoneTasks' /\ AnswerFitsRequest'
      /\ \A k \in Jobs : k # j => row'[k] = row[k] /\ status'[k] = status[k]
      /\ status'[j] = "queued" /\ row[j] = NoRow /\ row'[j] # NoRow
  BY <1>1, InsertPreserves
<1>3. UNCHANGED <<claim, tr, refunds, events, idem, rendering, outputs>>
  BY DEF CreateTask, Insert
<1>4. TypeOK'
  BY <1>2, <1>3 DEF TaskInv, TypeOK
<1>5. TranslationFollowsTask'
  BY <1>1, <1>2, <1>3 DEF TaskInv, TranslationFollowsTask, Insert
<1>6. OneTaskPerRequest' /\ IdemNamesSmartTasks'
  <2>1. \A v \in Users, q \in Requests : idem[v][q] # NoRow => idem[v][q] \in Jobs /\ idem[v][q] # j
    BY <1>2 DEF TaskInv, TypeOK, OneTaskPerRequest
  <2>2. \A a, b \in Jobs :
            /\ row'[a] # NoRow /\ row'[b] # NoRow
            /\ row'[a].user = row'[b].user /\ row'[a].req = row'[b].req
            /\ row'[a].req # NoRequest
            => a = b
    BY <1>1, InsertKeepsRequestsApart
  <2> QED
    BY <1>2, <1>3, <2>1, <2>2 DEF TaskInv, OneTaskPerRequest, IdemNamesSmartTasks
<1> QED
  BY <1>2, <1>4, <1>5, <1>6 DEF TaskInv

LEMMA CreateFastPreserves ==
    ASSUME TaskInv, NEW u \in Users, NEW j \in Jobs,
           NEW r \in Requests \cup {NoRequest}, NEW x \in Texts,
           CreateFastTranslationTask(u, j, r, x)
    PROVE  TaskInv'
<1>1. Insert(j, u, r, "fast", x, "translating")
  BY DEF CreateFastTranslationTask
<1>2. /\ balance' \in [Users -> Nat]
      /\ row' \in [Jobs -> Row \cup {NoRow}]
      /\ status' \in [Jobs -> Statuses]
      /\ answer' \in Answer \cup {NoAnswer}
      /\ RowsAndStatuses' /\ RenderingIsProcessing' /\ RefundedExactlyOnce'
      /\ OutputsAreOfDoneTasks' /\ AnswerFitsRequest'
      /\ \A k \in Jobs : k # j => row'[k] = row[k] /\ status'[k] = status[k]
      /\ status'[j] = "translating" /\ row[j] = NoRow /\ row'[j] # NoRow
  BY <1>1, InsertPreserves
<1>3. UNCHANGED <<claim, refunds, events, idem, rendering, outputs>>
  BY DEF CreateFastTranslationTask, Insert
<1>4. tr' = [tr EXCEPT ![j] = [status |-> "queued", stale |-> FALSE, attempts |-> 0]]
  BY DEF CreateFastTranslationTask
<1>5. TypeOK'
  <2>1. tr' \in [Jobs -> Translation]
    BY <1>4 DEF TaskInv, TypeOK, Translation
  <2> QED BY <1>2, <1>3, <2>1 DEF TaskInv, TypeOK
<1>6. TranslationFollowsTask'
  <2>1. \A k \in Jobs : k # j => tr'[k] = tr[k]
    BY <1>4 DEF TaskInv, TypeOK
  <2>2. tr'[j].status = "queued"
    BY <1>4 DEF TaskInv, TypeOK
  <2> QED
    BY <1>2, <2>1, <2>2 DEF TaskInv, TranslationFollowsTask
<1>7. OneTaskPerRequest' /\ IdemNamesSmartTasks'
  <2>1. \A v \in Users, q \in Requests : idem[v][q] # NoRow => idem[v][q] \in Jobs /\ idem[v][q] # j
    BY <1>2 DEF TaskInv, TypeOK, OneTaskPerRequest
  <2>2. \A a, b \in Jobs :
            /\ row'[a] # NoRow /\ row'[b] # NoRow
            /\ row'[a].user = row'[b].user /\ row'[a].req = row'[b].req
            /\ row'[a].req # NoRequest
            => a = b
    BY <1>1, InsertKeepsRequestsApart
  <2> QED
    BY <1>2, <1>3, <2>1, <2>2 DEF TaskInv, OneTaskPerRequest, IdemNamesSmartTasks
<1> QED
  BY <1>2, <1>5, <1>6, <1>7 DEF TaskInv

LEMMA CreateSmartPreserves ==
    ASSUME TaskInv, NEW u \in Users, NEW j \in Jobs,
           NEW r \in Requests \cup {NoRequest}, NEW x \in Texts,
           NEW first \in {"smart_planning", "queued"}, InsertSmart(j, u, r, x, first)
    PROVE  TaskInv'
<1>1. Insert(j, u, r, "smart", x, first)
  BY DEF InsertSmart
<1>2. /\ balance' \in [Users -> Nat]
      /\ row' \in [Jobs -> Row \cup {NoRow}]
      /\ status' \in [Jobs -> Statuses]
      /\ answer' \in Answer \cup {NoAnswer}
      /\ RowsAndStatuses' /\ RenderingIsProcessing' /\ RefundedExactlyOnce'
      /\ OutputsAreOfDoneTasks' /\ AnswerFitsRequest'
      /\ \A k \in Jobs : k # j => row'[k] = row[k] /\ status'[k] = status[k]
      /\ status'[j] = first /\ row[j] = NoRow /\ row'[j] # NoRow
      /\ row'[j] = [user |-> u, req |-> r, kind |-> "smart", text |-> x, fee |-> Fee(u, "smart")]
  BY <1>1, InsertPreserves
<1>3. UNCHANGED <<claim, tr, refunds, events, rendering, outputs>>
  BY DEF InsertSmart, Insert
<1>4. idem' = IF r = NoRequest THEN idem ELSE [idem EXCEPT ![u][r] = j]
  BY DEF InsertSmart
<1>5. idem' \in [Users -> [Requests -> Jobs \cup {NoRow}]]
  <2>1. CASE r = NoRequest
    BY <1>4, <2>1 DEF TaskInv, TypeOK
  <2>2. CASE r # NoRequest
    <3>1. r \in Requests
      BY <2>2
    <3> QED BY <1>4, <2>2, <3>1 DEF TaskInv, TypeOK
  <2> QED BY <2>1, <2>2
<1>6. TypeOK'
  BY <1>2, <1>3, <1>5 DEF TaskInv, TypeOK
<1>7. TranslationFollowsTask'
  BY <1>1, <1>2, <1>3 DEF TaskInv, TranslationFollowsTask, Insert
<1>8. OneTaskPerRequest' /\ IdemNamesSmartTasks'
  <2>1. \A v \in Users, q \in Requests : idem[v][q] # NoRow => idem[v][q] \in Jobs /\ idem[v][q] # j
    BY <1>2 DEF TaskInv, TypeOK, OneTaskPerRequest
  <2>2. \A a, b \in Jobs :
            /\ row'[a] # NoRow /\ row'[b] # NoRow
            /\ row'[a].user = row'[b].user /\ row'[a].req = row'[b].req
            /\ row'[a].req # NoRequest
            => a = b
    BY <1>1, InsertKeepsRequestsApart
  <2>3. \A v \in Users, q \in Requests :
            idem'[v][q] = idem[v][q] \/ (v = u /\ q = r /\ idem'[v][q] = j)
    BY <1>4 DEF TaskInv, TypeOK
  <2>4. row'[j] # NoRow /\ row'[j].user = u /\ row'[j].req = r /\ row'[j].kind = "smart"
    BY <1>2
  <2>5. \A v \in Users, q \in Requests :
            idem'[v][q] # NoRow =>
                /\ row'[idem'[v][q]] # NoRow
                /\ row'[idem'[v][q]].user = v
                /\ row'[idem'[v][q]].req = q
                /\ row'[idem'[v][q]].kind = "smart"
    BY <1>2, <2>1, <2>3, <2>4 DEF TaskInv, OneTaskPerRequest, IdemNamesSmartTasks
  <2> QED
    BY <2>2, <2>5 DEF OneTaskPerRequest, IdemNamesSmartTasks
<1> QED
  BY <1>2, <1>6, <1>7, <1>8 DEF TaskInv

LEMMA RepeatPreserves ==
    ASSUME TaskInv, NEW u \in Users, NEW r \in Requests, NEW kind \in Kinds,
           NEW x \in Texts, RepeatCreate(u, r, kind, x) \/ RepeatCreateSmart(u, r, x)
    PROVE  TaskInv'
<1>1. UNCHANGED <<balance, row, status, claim, tr, refunds, events, idem, rendering, outputs>>
  BY DEF RepeatCreate, RepeatCreateSmart
<1>2. /\ answer' \in Answer
      /\ row[answer'.job] # NoRow
      /\ row[answer'.job].user = answer'.user
      /\ row[answer'.job].kind = answer'.kind
      /\ row[answer'.job].text = answer'.text
  <2>1. CASE RepeatCreate(u, r, kind, x)
    BY <2>1 DEF RepeatCreate, SameRequest, SameContent, Answer
  <2>2. CASE RepeatCreateSmart(u, r, x)
    <3>1. idem[u][r] \in Jobs
      BY <2>2 DEF RepeatCreateSmart, TaskInv, TypeOK
    <3>2. /\ row[idem[u][r]] # NoRow
          /\ row[idem[u][r]].user = u
          /\ row[idem[u][r]].kind = "smart"
          /\ row[idem[u][r]].text = x
      BY <2>2 DEF RepeatCreateSmart, TaskInv, OneTaskPerRequest, IdemNamesSmartTasks
    <3> QED
      BY <2>2, <3>1, <3>2 DEF RepeatCreateSmart, Answer
  <2> QED BY <2>1, <2>2
<1>3. TypeOK'
  BY <1>1, <1>2 DEF TaskInv, TypeOK
<1>4. AnswerFitsRequest'
  BY <1>1, <1>2 DEF AnswerFitsRequest
<1> QED
  BY <1>1, <1>3, <1>4 DEF TaskInv, RowsAndStatuses, RenderingIsProcessing,
     RefundedExactlyOnce, OutputsAreOfDoneTasks, TranslationFollowsTask,
     OneTaskPerRequest, IdemNamesSmartTasks

\* The debit of a task is undone by exactly one ledger row, or by none when the
\* task was free.
LEMMA GiveBackEffect ==
    ASSUME TypeOK, RowsAndStatuses, NEW j \in Jobs, status[j] # "absent",
           NEW reason \in RefundReasons, GiveBack(j, reason)
    PROVE  /\ balance' \in [Users -> Nat]
           /\ refunds' \in [Jobs -> [RefundReasons -> Nat]]
           /\ \A k \in Jobs : k # j => refunds'[k] = refunds[k]
           /\ RefundRows(j)' = RefundRows(j) + (IF row[j].fee > 0 THEN 1 ELSE 0)
<1>1. row[j].user \in Users /\ row[j].fee \in Nat
  BY RowHasFields
<1>2. CASE row[j].fee > 0
  <2>1. /\ balance' = [balance EXCEPT ![row[j].user] = @ + row[j].fee]
        /\ refunds' = [refunds EXCEPT ![j][reason] = @ + 1]
    BY <1>2 DEF GiveBack
  <2>2. balance' \in [Users -> Nat]
    BY <1>1, <2>1 DEF TypeOK
  <2>3. /\ refunds' \in [Jobs -> [RefundReasons -> Nat]]
        /\ \A k \in Jobs : k # j => refunds'[k] = refunds[k]
        /\ refunds'[j] = [refunds[j] EXCEPT ![reason] = @ + 1]
        /\ refunds[j] \in [RefundReasons -> Nat]
    BY <2>1 DEF TypeOK
  <2>4. RefundRows(j)' = RefundRows(j) + 1
    BY <2>3
  <2> QED BY <1>2, <2>2, <2>3, <2>4
<1>3. CASE ~(row[j].fee > 0)
  <2>1. UNCHANGED <<balance, refunds>>
    BY <1>3 DEF GiveBack
  <2>2. RefundRows(j) \in Nat
    BY DEF TypeOK
  <2> QED BY <1>3, <2>1, <2>2 DEF TypeOK
<1> QED BY <1>2, <1>3

\* A transaction that moves one unfinished task to a refunded status and gives
\* its fee back keeps the ledger right.
LEMMA RefundingKeepsLedger ==
    ASSUME TaskInv, NEW j \in Jobs, status[j] \in Active,
           NEW reason \in RefundReasons, GiveBack(j, reason),
           NEW final \in Refunded, status' = [status EXCEPT ![j] = final],
           row' = row
    PROVE  /\ balance' \in [Users -> Nat]
           /\ refunds' \in [Jobs -> [RefundReasons -> Nat]]
           /\ status' \in [Jobs -> Statuses]
           /\ RefundedExactlyOnce'
           /\ RowsAndStatuses'
           /\ \A k \in Jobs : k # j => status'[k] = status[k]
           /\ status'[j] = final
<1>1. TypeOK /\ RowsAndStatuses /\ status[j] # "absent" /\ RefundedExactlyOnce
  BY DEF TaskInv
<1>2. /\ balance' \in [Users -> Nat]
      /\ refunds' \in [Jobs -> [RefundReasons -> Nat]]
      /\ \A k \in Jobs : k # j => refunds'[k] = refunds[k]
      /\ RefundRows(j)' = RefundRows(j) + (IF row[j].fee > 0 THEN 1 ELSE 0)
  BY <1>1, GiveBackEffect
<1>3. /\ status' \in [Jobs -> Statuses]
      /\ \A k \in Jobs : k # j => status'[k] = status[k]
      /\ status'[j] = final
  BY <1>1 DEF TypeOK
<1>4. RefundRows(j) = 0
  BY <1>1 DEF RefundedExactlyOnce
<1>5. RefundedExactlyOnce'
  <2> SUFFICES ASSUME NEW k \in Jobs
               PROVE  RefundRows(k)' = IF status'[k] \in Refunded /\ row'[k].fee > 0 THEN 1 ELSE 0
    BY DEF RefundedExactlyOnce
  <2>1. CASE k = j
    BY <2>1, <1>2, <1>3, <1>4
  <2>2. CASE k # j
    BY <2>2, <1>1, <1>2, <1>3 DEF RefundedExactlyOnce
  <2> QED BY <2>1, <2>2
<1>6. RowsAndStatuses'
  BY <1>1, <1>3 DEF RowsAndStatuses
<1> QED BY <1>2, <1>3, <1>5, <1>6

LEMMA CancelPreserves ==
    ASSUME TaskInv, NEW j \in Jobs, CancelTask(j)
    PROVE  TaskInv'
<1>1. /\ status[j] \in {"queued", "translating"}
      /\ status' = [status EXCEPT ![j] = "cancelled_refunded"]
      /\ GiveBack(j, "generate_cancel_refund")
      /\ UNCHANGED <<row, claim, events, idem, rendering, outputs, answer>>
  BY DEF CancelTask
<1>2. /\ balance' \in [Users -> Nat]
      /\ refunds' \in [Jobs -> [RefundReasons -> Nat]]
      /\ status' \in [Jobs -> Statuses]
      /\ RefundedExactlyOnce'
      /\ RowsAndStatuses'
      /\ \A k \in Jobs : k # j => status'[k] = status[k]
      /\ status'[j] = "cancelled_refunded"
  BY <1>1, RefundingKeepsLedger
<1>3. /\ tr' \in [Jobs -> Translation]
      /\ \A k \in Jobs : k # j => tr'[k] = tr[k]
      /\ tr'[j].status = IF tr[j].status \in {"queued", "processing", "done"}
                         THEN "cancelled_refunded" ELSE tr[j].status
  BY DEF CancelTask, TaskInv, TypeOK, Translation
<1>4. TypeOK'
  BY <1>1, <1>2, <1>3 DEF TaskInv, TypeOK
<1>5. RenderingIsProcessing' /\ OutputsAreOfDoneTasks'
  BY <1>1, <1>2 DEF TaskInv, TypeOK, RenderingIsProcessing, OutputsAreOfDoneTasks
<1>6. TranslationFollowsTask'
  BY <1>1, <1>2, <1>3 DEF TaskInv, TypeOK, Translation, TranslationFollowsTask
<1>7. OneTaskPerRequest' /\ IdemNamesSmartTasks' /\ AnswerFitsRequest'
  BY <1>1 DEF TaskInv, OneTaskPerRequest, IdemNamesSmartTasks, AnswerFitsRequest
<1> QED
  BY <1>2, <1>4, <1>5, <1>6, <1>7 DEF TaskInv

LEMMA TranslatePreserves ==
    ASSUME TaskInv, NEW j \in Jobs, Translate(j)
    PROVE  TaskInv'
<1>1. CASE ClaimTranslation(j) \/ TranslationGrowsStale(j) \/ RequeueTranslation(j)
  <2>1. UNCHANGED <<balance, row, status, claim, refunds, events, idem, rendering, outputs, answer>>
    BY <1>1 DEF ClaimTranslation, TranslationGrowsStale, RequeueTranslation
  <2>2. /\ tr' \in [Jobs -> Translation]
        /\ \A k \in Jobs : k # j => tr'[k] = tr[k]
        /\ tr[j].status \in {"queued", "processing"} /\ tr'[j].status \in {"queued", "processing"}
    <3>1. tr \in [Jobs -> Translation] /\ tr[j].attempts \in Nat
      BY DEF TaskInv, TypeOK, Translation
    <3>2. CASE ClaimTranslation(j)
      BY <3>1, <3>2 DEF ClaimTranslation, Claimable, Translation
    <3>3. CASE TranslationGrowsStale(j)
      BY <3>1, <3>3 DEF TranslationGrowsStale, Translation
    <3>4. CASE RequeueTranslation(j)
      BY <3>1, <3>4 DEF RequeueTranslation, Translation
    <3> QED BY <1>1, <3>2, <3>3, <3>4
  <2>3. TypeOK'
    BY <2>1, <2>2 DEF TaskInv, TypeOK
  <2>4. TranslationFollowsTask'
    BY <2>1, <2>2 DEF TaskInv, TranslationFollowsTask
  <2> QED
    BY <2>1, <2>3, <2>4 DEF TaskInv, RowsAndStatuses, RenderingIsProcessing,
       RefundedExactlyOnce, OutputsAreOfDoneTasks, OneTaskPerRequest,
       IdemNamesSmartTasks, AnswerFitsRequest
<1>2. CASE CompleteTranslation(j)
  <2>1. /\ UNCHANGED <<balance, row, claim, refunds, events, idem, rendering, outputs, answer>>
        /\ status[j] = "translating" /\ status' = [status EXCEPT ![j] = "queued"]
    BY <1>2 DEF CompleteTranslation
  <2>2. /\ tr' \in [Jobs -> Translation]
        /\ \A k \in Jobs : k # j => tr'[k] = tr[k] /\ status'[k] = status[k]
        /\ tr'[j].status = "done" /\ status'[j] = "queued"
    BY <1>2 DEF CompleteTranslation, TaskInv, TypeOK, Translation
  <2>3. TypeOK'
    BY <2>1, <2>2 DEF TaskInv, TypeOK
  <2>4. TranslationFollowsTask'
    BY <2>1, <2>2 DEF TaskInv, TranslationFollowsTask
  <2>5. RowsAndStatuses' /\ RenderingIsProcessing' /\ OutputsAreOfDoneTasks'
    BY <2>1, <2>2 DEF TaskInv, TypeOK, RowsAndStatuses, RenderingIsProcessing, OutputsAreOfDoneTasks
  <2>6. RefundedExactlyOnce'
    BY <2>1, <2>2 DEF TaskInv, RefundedExactlyOnce
  <2> QED
    BY <2>1, <2>3, <2>4, <2>5, <2>6 DEF TaskInv, OneTaskPerRequest,
       IdemNamesSmartTasks, AnswerFitsRequest
<1>3. CASE FailTranslation(j)
  <2>1. /\ status[j] = "translating"
        /\ status' = [status EXCEPT ![j] = "failed_refunded"]
        /\ GiveBack(j, "generate_failed_refund")
        /\ UNCHANGED <<row, claim, events, idem, rendering, outputs, answer>>
    BY <1>3 DEF FailTranslation
  <2>2. /\ balance' \in [Users -> Nat]
        /\ refunds' \in [Jobs -> [RefundReasons -> Nat]]
        /\ status' \in [Jobs -> Statuses]
        /\ RefundedExactlyOnce'
        /\ RowsAndStatuses'
        /\ \A k \in Jobs : k # j => status'[k] = status[k]
        /\ status'[j] = "failed_refunded"
    BY <2>1, RefundingKeepsLedger
  <2>3. /\ tr' \in [Jobs -> Translation]
        /\ \A k \in Jobs : k # j => tr'[k] = tr[k]
        /\ tr'[j].status = "failed_refunded"
    BY <1>3 DEF FailTranslation, TaskInv, TypeOK, Translation
  <2>4. TypeOK'
    BY <2>1, <2>2, <2>3 DEF TaskInv, TypeOK
  <2>5. RenderingIsProcessing' /\ OutputsAreOfDoneTasks'
    BY <2>1, <2>2 DEF TaskInv, TypeOK, RenderingIsProcessing, OutputsAreOfDoneTasks
  <2>6. TranslationFollowsTask'
    BY <2>1, <2>2, <2>3 DEF TaskInv, TranslationFollowsTask
  <2> QED
    BY <2>1, <2>2, <2>4, <2>5, <2>6 DEF TaskInv, OneTaskPerRequest,
       IdemNamesSmartTasks, AnswerFitsRequest
<1> QED
  BY <1>1, <1>2, <1>3 DEF Translate

LEMMA PlanPreserves ==
    ASSUME TaskInv, NEW j \in Jobs, Plan(j)
    PROVE  TaskInv'
<1>1. CASE ClaimPlanning(j) \/ PlanningClaimGrowsStale(j)
  <2>1. UNCHANGED <<balance, row, status, tr, refunds, events, idem, rendering, outputs, answer>>
    BY <1>1 DEF ClaimPlanning, PlanningClaimGrowsStale
  <2>2. TypeOK'
    BY <1>1, <2>1 DEF TaskInv, TypeOK, ClaimPlanning, PlanningClaimGrowsStale
  <2> QED
    BY <2>1, <2>2 DEF TaskInv, RowsAndStatuses, RenderingIsProcessing,
       RefundedExactlyOnce, OutputsAreOfDoneTasks, TranslationFollowsTask,
       OneTaskPerRequest, IdemNamesSmartTasks, AnswerFitsRequest
<1>2. CASE CompletePlan(j)
  <2>1. /\ UNCHANGED <<balance, row, tr, refunds, events, idem, rendering, outputs, answer>>
        /\ status[j] = "smart_planning" /\ status' = [status EXCEPT ![j] = "queued"]
    BY <1>2 DEF CompletePlan
  <2>2. /\ \A k \in Jobs : k # j => status'[k] = status[k]
        /\ status'[j] = "queued"
    BY <2>1 DEF TaskInv, TypeOK
  <2>3. TypeOK'
    BY <1>2, <2>1 DEF TaskInv, TypeOK, CompletePlan
  <2>4. RowsAndStatuses' /\ RenderingIsProcessing' /\ OutputsAreOfDoneTasks'
    BY <2>1, <2>2 DEF TaskInv, TypeOK, RowsAndStatuses, RenderingIsProcessing, OutputsAreOfDoneTasks
  <2>5. RefundedExactlyOnce' /\ TranslationFollowsTask'
    BY <2>1, <2>2 DEF TaskInv, RefundedExactlyOnce, TranslationFollowsTask
  <2> QED
    BY <2>1, <2>3, <2>4, <2>5 DEF TaskInv, OneTaskPerRequest,
       IdemNamesSmartTasks, AnswerFitsRequest
<1>3. CASE FailPlanning(j)
  <2>1. /\ status[j] = "smart_planning"
        /\ status' = [status EXCEPT ![j] = "failed_refunded"]
        /\ GiveBack(j, "smart_agent_refund")
        /\ events' = events \cup {j}
        /\ claim' = [claim EXCEPT ![j] = "none"]
        /\ UNCHANGED <<row, tr, idem, rendering, outputs, answer>>
    BY <1>3 DEF FailPlanning
  <2>2. /\ balance' \in [Users -> Nat]
        /\ refunds' \in [Jobs -> [RefundReasons -> Nat]]
        /\ status' \in [Jobs -> Statuses]
        /\ RefundedExactlyOnce'
        /\ RowsAndStatuses'
        /\ \A k \in Jobs : k # j => status'[k] = status[k]
        /\ status'[j] = "failed_refunded"
    BY <2>1, RefundingKeepsLedger
  <2>3. TypeOK'
    BY <2>1, <2>2 DEF TaskInv, TypeOK
  <2>4. RenderingIsProcessing' /\ OutputsAreOfDoneTasks' /\ TranslationFollowsTask'
    BY <2>1, <2>2 DEF TaskInv, TypeOK, RenderingIsProcessing, OutputsAreOfDoneTasks,
       TranslationFollowsTask
  <2> QED
    BY <2>1, <2>2, <2>3, <2>4 DEF TaskInv, OneTaskPerRequest,
       IdemNamesSmartTasks, AnswerFitsRequest
<1> QED
  BY <1>1, <1>2, <1>3 DEF Plan

\* A task that is being rendered has no refund row of the renderer yet.
LEMMA NothingRefundedYet ==
    ASSUME TaskInv, NEW j \in Jobs, status[j] = "processing"
    PROVE  NoRefundRow(j, "mock_generation_refund")
<1>1. RefundRows(j) = 0
  BY DEF TaskInv, RefundedExactlyOnce
<1>2. /\ refunds[j]["generate_cancel_refund"] \in Nat
      /\ refunds[j]["generate_failed_refund"] \in Nat
      /\ refunds[j]["smart_agent_refund"] \in Nat
      /\ refunds[j]["mock_generation_refund"] \in Nat
  BY DEF TaskInv, TypeOK
<1>3. ASSUME NEW a \in Nat, NEW b \in Nat, NEW c \in Nat, NEW d \in Nat, a + b + c + d = 0
      PROVE  d = 0
  BY <1>3
<1>4. refunds[j]["mock_generation_refund"] = 0
  BY <1>1, <1>2, <1>3
<1> QED BY <1>4 DEF NoRefundRow

LEMMA RenderPreserves ==
    ASSUME TaskInv, NEW j \in Jobs, Render(j)
    PROVE  TaskInv'
<1>1. CASE ClaimQueued(j)
  <2>1. /\ UNCHANGED <<balance, row, claim, tr, refunds, events, idem, outputs, answer>>
        /\ status[j] = "queued" /\ status' = [status EXCEPT ![j] = "processing"]
        /\ rendering' = rendering \cup {j}
    BY <1>1 DEF ClaimQueued
  <2>2. /\ \A k \in Jobs : k # j => status'[k] = status[k]
        /\ status'[j] = "processing"
    BY <2>1 DEF TaskInv, TypeOK
  <2>3. TypeOK'
    BY <2>1 DEF TaskInv, TypeOK
  <2>4. RowsAndStatuses' /\ RenderingIsProcessing' /\ OutputsAreOfDoneTasks'
    BY <2>1, <2>2 DEF TaskInv, TypeOK, RowsAndStatuses, RenderingIsProcessing, OutputsAreOfDoneTasks
  <2>5. RefundedExactlyOnce' /\ TranslationFollowsTask'
    BY <2>1, <2>2 DEF TaskInv, RefundedExactlyOnce, TranslationFollowsTask
  <2> QED
    BY <2>1, <2>3, <2>4, <2>5 DEF TaskInv, OneTaskPerRequest,
       IdemNamesSmartTasks, AnswerFitsRequest
<1>2. CASE RenderSucceeds(j)
  <2>1. status[j] = "processing"
    BY <1>2 DEF RenderSucceeds, TaskInv, RenderingIsProcessing
  <2>2. /\ UNCHANGED <<balance, row, claim, tr, refunds, events, idem, answer>>
        /\ status' = [status EXCEPT ![j] = "done"] /\ outputs' = outputs \cup {j}
        /\ rendering' = rendering \ {j}
    BY <1>2, <2>1 DEF RenderSucceeds
  <2>3. /\ \A k \in Jobs : k # j => status'[k] = status[k]
        /\ status'[j] = "done"
    BY <2>2 DEF TaskInv, TypeOK
  <2>4. TypeOK'
    BY <2>2 DEF TaskInv, TypeOK
  <2>5. RowsAndStatuses' /\ RenderingIsProcessing' /\ OutputsAreOfDoneTasks'
    BY <2>1, <2>2, <2>3 DEF TaskInv, TypeOK, RowsAndStatuses, RenderingIsProcessing, OutputsAreOfDoneTasks
  <2>6. RefundedExactlyOnce' /\ TranslationFollowsTask'
    BY <2>1, <2>2, <2>3 DEF TaskInv, RefundedExactlyOnce, TranslationFollowsTask
  <2> QED
    BY <2>2, <2>4, <2>5, <2>6 DEF TaskInv, OneTaskPerRequest,
       IdemNamesSmartTasks, AnswerFitsRequest
<1>3. CASE RenderFails(j)
  <2>1. status[j] = "processing"
    BY <1>3 DEF RenderFails, TaskInv, RenderingIsProcessing
  <2>2. NoRefundRow(j, "mock_generation_refund")
    BY <2>1, NothingRefundedYet
  <2>3. /\ UNCHANGED <<row, claim, tr, events, idem, outputs, answer>>
        /\ status' = [status EXCEPT ![j] = "failed_refunded"]
        /\ GiveBack(j, "mock_generation_refund")
        /\ rendering' = rendering \ {j}
    BY <1>3, <2>1, <2>2 DEF RenderFails
  <2>4. /\ balance' \in [Users -> Nat]
        /\ refunds' \in [Jobs -> [RefundReasons -> Nat]]
        /\ status' \in [Jobs -> Statuses]
        /\ RefundedExactlyOnce'
        /\ RowsAndStatuses'
        /\ \A k \in Jobs : k # j => status'[k] = status[k]
        /\ status'[j] = "failed_refunded"
    BY <2>1, <2>3, RefundingKeepsLedger
  <2>5. TypeOK'
    BY <2>3, <2>4 DEF TaskInv, TypeOK
  <2>6. RenderingIsProcessing' /\ OutputsAreOfDoneTasks' /\ TranslationFollowsTask'
    BY <2>1, <2>3, <2>4 DEF TaskInv, TypeOK, RenderingIsProcessing, OutputsAreOfDoneTasks,
       TranslationFollowsTask
  <2> QED
    BY <2>3, <2>4, <2>5, <2>6 DEF TaskInv, OneTaskPerRequest,
       IdemNamesSmartTasks, AnswerFitsRequest
<1>4. CASE RendererCrashes(j)
  <2>1. /\ UNCHANGED <<balance, row, status, claim, tr, refunds, events, idem, outputs, answer>>
        /\ rendering' = rendering \ {j}
    BY <1>4 DEF RendererCrashes
  <2>2. TypeOK' /\ RenderingIsProcessing'
    BY <2>1 DEF TaskInv, TypeOK, RenderingIsProcessing
  <2> QED
    BY <2>1, <2>2 DEF TaskInv, RowsAndStatuses, RefundedExactlyOnce,
       OutputsAreOfDoneTasks, TranslationFollowsTask, OneTaskPerRequest,
       IdemNamesSmartTasks, AnswerFitsRequest
<1> QED
  BY <1>1, <1>2, <1>3, <1>4 DEF Render

LEMMA StepPreserves == TaskInv /\ [Next]_vars => TaskInv'
<1> SUFFICES ASSUME TaskInv, [Next]_vars PROVE TaskInv'
  OBVIOUS
<1>1. CASE Create
  BY <1>1, CreateTaskPreserves, CreateFastPreserves, CreateSmartPreserves
  DEF Create, CreateSmartAgentTask, ConfirmDraft
<1>2. CASE Repeat
  <2>1. PICK u \in Users, r \in Requests, x \in Texts :
            (\E kind \in Kinds : RepeatCreate(u, r, kind, x)) \/ RepeatCreateSmart(u, r, x)
    BY <1>2 DEF Repeat
  <2>2. \E kind \in Kinds : RepeatCreate(u, r, kind, x) \/ RepeatCreateSmart(u, r, x)
    BY <2>1
  <2> QED BY <2>2, RepeatPreserves
<1>3. CASE \E j \in Jobs : CancelTask(j) \/ Translate(j) \/ Plan(j) \/ Render(j)
  BY <1>3, CancelPreserves, TranslatePreserves, PlanPreserves, RenderPreserves
<1>4. CASE UNCHANGED vars
  BY <1>4 DEF vars, TaskInv, TypeOK, RowsAndStatuses, RenderingIsProcessing,
     RefundedExactlyOnce, OutputsAreOfDoneTasks, TranslationFollowsTask,
     OneTaskPerRequest, IdemNamesSmartTasks, AnswerFitsRequest
<1> QED
  BY <1>1, <1>2, <1>3, <1>4 DEF Next

\* The inductive invariant holds in every reachable state.
THEOREM TaskInvHolds == Spec => []TaskInv
BY InitEstablishes, StepPreserves, PTL DEF Spec

\* Every variable keeps its type; in particular no balance ever goes negative
\* (the conditional UPDATE of users.balance_fen in the create transactions).
THEOREM TypesHold == Spec => []TypeOK
<1>1. TaskInv => TypeOK
  BY DEF TaskInv
<1> QED BY <1>1, TaskInvHolds, PTL

\* However many workers report, cancel and time out, a charged task is refunded
\* once when it ends refunded and never otherwise.
THEOREM LedgerIsExact == Spec => []RefundedExactlyOnce
<1>1. TaskInv => RefundedExactlyOnce
  BY DEF TaskInv
<1> QED BY <1>1, TaskInvHolds, PTL

\* A task whose picture was stored is never refunded by the task transactions.
THEOREM DeliveredStaysPaid == Spec => []DeliveredIsNotRefunded
<1>1. TaskInv => DeliveredIsNotRefunded
  BY DEF TaskInv, TypeOK, OutputsAreOfDoneTasks, RefundedExactlyOnce, DeliveredIsNotRefunded
<1> QED BY <1>1, TaskInvHolds, PTL

\* A translation request is open exactly while its task is translating.
THEOREM RequestsFollowTasks == Spec => []TranslationFollowsTask
<1>1. TaskInv => TranslationFollowsTask
  BY DEF TaskInv
<1> QED BY <1>1, TaskInvHolds, PTL

\* client_request_id is an idempotency key across all three create calls.
THEOREM RequestsAreIdempotent == Spec => []OneTaskPerRequest
<1>1. TaskInv => OneTaskPerRequest
  BY DEF TaskInv
<1> QED BY <1>1, TaskInvHolds, PTL

\* A repeated call is answered with a task of the same user and content.
THEOREM AnswersFit == Spec => []AnswerFitsRequest
<1>1. TaskInv => AnswerFitsRequest
  BY DEF TaskInv
<1> QED BY <1>1, TaskInvHolds, PTL

LEMMA FinishedStep ==
    ASSUME TaskInv, [Next]_vars, NEW j \in Jobs, status[j] \in Terminal
    PROVE  status'[j] = status[j] /\ refunds'[j] = refunds[j]
<1> USE DEF TaskInv, TypeOK
<1>1. CASE Create
  BY <1>1 DEF Create, CreateTask, CreateFastTranslationTask, CreateSmartAgentTask,
     ConfirmDraft, InsertSmart, Insert
<1>2. CASE Repeat
  BY <1>2 DEF Repeat, RepeatCreate, RepeatCreateSmart
<1>3. ASSUME NEW k \in Jobs, CancelTask(k) PROVE status'[j] = status[j] /\ refunds'[j] = refunds[j]
  BY <1>3 DEF CancelTask, GiveBack
<1>4. ASSUME NEW k \in Jobs, Translate(k) PROVE status'[j] = status[j] /\ refunds'[j] = refunds[j]
  BY <1>4 DEF Translate, ClaimTranslation, TranslationGrowsStale, RequeueTranslation,
     CompleteTranslation, FailTranslation, GiveBack
<1>5. ASSUME NEW k \in Jobs, Plan(k) PROVE status'[j] = status[j] /\ refunds'[j] = refunds[j]
  BY <1>5 DEF Plan, ClaimPlanning, PlanningClaimGrowsStale, CompletePlan, FailPlanning, GiveBack
<1>6. ASSUME NEW k \in Jobs, Render(k) PROVE status'[j] = status[j] /\ refunds'[j] = refunds[j]
  BY <1>6 DEF Render, ClaimQueued, RenderSucceeds, RenderFails, RendererCrashes, GiveBack,
     RenderingIsProcessing
<1>7. CASE UNCHANGED vars
  BY <1>7 DEF vars
<1> QED
  BY <1>1, <1>2, <1>3, <1>4, <1>5, <1>6, <1>7 DEF Next

\* A finished task keeps its status and its ledger rows for ever.
THEOREM FinishedTasksStay == Spec => FinishedIsFinal
<1>1. TaskInv /\ [Next]_vars =>
          \A j \in Jobs : status[j] \in Terminal =>
              status'[j] = status[j] /\ refunds'[j] = refunds[j]
  BY FinishedStep
<1> QED
  BY <1>1, TaskInvHolds, PTL DEF Spec, FinishedIsFinal

LEMMA ActiveSetsAreFinite ==
    /\ IsFiniteSet(ActiveJobs)
    /\ \A u \in Users : IsFiniteSet(ActiveJobsOf(u))
BY JobsAssumption, FS_Subset DEF ActiveJobs, ActiveJobsOf

\* Only a create transaction adds to the unfinished tasks, and it adds one.
LEMMA OnlyCreateAdds ==
    ASSUME TaskInv, [Next]_vars, ~Create
    PROVE  /\ \A j \in Jobs : status'[j] \in Active => status[j] \in Active
           /\ row' = row
<1> USE DEF TaskInv, TypeOK
<1>1. CASE Repeat
  BY <1>1 DEF Repeat, RepeatCreate, RepeatCreateSmart
<1>2. ASSUME NEW k \in Jobs, CancelTask(k)
      PROVE  row' = row /\ \A j \in Jobs : status'[j] \in Active => status[j] \in Active
  BY <1>2 DEF CancelTask
<1>3. ASSUME NEW k \in Jobs, Translate(k)
      PROVE  row' = row /\ \A j \in Jobs : status'[j] \in Active => status[j] \in Active
  BY <1>3 DEF Translate, ClaimTranslation, TranslationGrowsStale, RequeueTranslation,
     CompleteTranslation, FailTranslation
<1>4. ASSUME NEW k \in Jobs, Plan(k)
      PROVE  row' = row /\ \A j \in Jobs : status'[j] \in Active => status[j] \in Active
  BY <1>4 DEF Plan, ClaimPlanning, PlanningClaimGrowsStale, CompletePlan, FailPlanning
<1>5. ASSUME NEW k \in Jobs, Render(k)
      PROVE  row' = row /\ \A j \in Jobs : status'[j] \in Active => status[j] \in Active
  BY <1>5 DEF Render, ClaimQueued, RenderSucceeds, RenderFails, RendererCrashes
<1>6. CASE UNCHANGED vars
  BY <1>6 DEF vars
<1> QED
  BY <1>1, <1>2, <1>3, <1>4, <1>5, <1>6 DEF Next

LEMMA OneMore ==
    ASSUME NEW S, NEW x, IsFiniteSet(S)
    PROVE  /\ IsFiniteSet(S \cup {x})
           /\ Cardinality(S \cup {x}) <= Cardinality(S) + 1
           /\ Cardinality(S) \in Nat
           /\ Cardinality(S \cup {x}) \in Nat
<1>1. IsFiniteSet(S \cup {x}) /\ Cardinality(S) \in Nat
  BY FS_AddElement, FS_CardinalityType
<1>2. Cardinality(S \cup {x}) \in Nat
  BY <1>1, FS_CardinalityType
<1>3. Cardinality(S \cup {x}) = IF x \in S THEN Cardinality(S) ELSE Cardinality(S) + 1
  BY FS_AddElement
<1> QED BY <1>1, <1>2, <1>3

LEMMA CreateAddsOne ==
    ASSUME TaskInv, NEW j \in Jobs, NEW u \in Users,
           NEW r \in Requests \cup {NoRequest}, NEW kind \in Kinds, NEW x \in Texts,
           NEW first \in Active, Insert(j, u, r, kind, x, first), ActiveWithinLimits
    PROVE  ActiveWithinLimits'
<1>1. /\ \A k \in Jobs : k # j => row'[k] = row[k] /\ status'[k] = status[k]
      /\ row'[j] = [user |-> u, req |-> r, kind |-> kind, text |-> x, fee |-> Fee(u, kind)]
  BY InsertPreserves
<1>2. HasRoom(u)
  BY DEF Insert
<1>3. ActiveJobs' \subseteq ActiveJobs \cup {j}
  BY <1>1 DEF ActiveJobs
<1>4. Cardinality(ActiveJobs') <= GlobalLimit
  <2>1. /\ IsFiniteSet(ActiveJobs \cup {j})
        /\ Cardinality(ActiveJobs \cup {j}) <= Cardinality(ActiveJobs) + 1
        /\ Cardinality(ActiveJobs) \in Nat
        /\ Cardinality(ActiveJobs \cup {j}) \in Nat
    BY ActiveSetsAreFinite, OneMore
  <2>2. /\ Cardinality(ActiveJobs') <= Cardinality(ActiveJobs \cup {j})
        /\ Cardinality(ActiveJobs') \in Nat
    BY <1>3, <2>1, FS_Subset, FS_CardinalityType
  <2> QED BY <1>2, <2>1, <2>2, LimitAssumption DEF HasRoom
<1>5. ASSUME NEW v \in Users PROVE Cardinality(ActiveJobsOf(v)') <= UserLimit
  <2>1. CASE v = u
    <3>1. ActiveJobsOf(v)' \subseteq ActiveJobsOf(v) \cup {j}
      BY <1>1 DEF ActiveJobs, ActiveJobsOf
    <3>2. /\ IsFiniteSet(ActiveJobsOf(v) \cup {j})
          /\ Cardinality(ActiveJobsOf(v) \cup {j}) <= Cardinality(ActiveJobsOf(v)) + 1
          /\ Cardinality(ActiveJobsOf(v)) \in Nat
          /\ Cardinality(ActiveJobsOf(v) \cup {j}) \in Nat
      <4>1. IsFiniteSet(ActiveJobsOf(v))
        BY ActiveSetsAreFinite
      <4> QED BY <4>1, OneMore
    <3>3. /\ Cardinality(ActiveJobsOf(v)') <= Cardinality(ActiveJobsOf(v) \cup {j})
          /\ Cardinality(ActiveJobsOf(v)') \in Nat
      BY <3>1, <3>2, FS_Subset, FS_CardinalityType
    <3> QED BY <1>2, <2>1, <3>2, <3>3, LimitAssumption DEF HasRoom
  <2>2. CASE v # u
    <3>1. ActiveJobsOf(v)' \subseteq ActiveJobsOf(v)
      BY <1>1, <2>2 DEF ActiveJobs, ActiveJobsOf
    <3>2. /\ Cardinality(ActiveJobsOf(v)') <= Cardinality(ActiveJobsOf(v))
          /\ Cardinality(ActiveJobsOf(v)') \in Nat
          /\ Cardinality(ActiveJobsOf(v)) \in Nat
      BY <3>1, ActiveSetsAreFinite, FS_Subset, FS_CardinalityType
    <3> QED BY <3>2, LimitAssumption DEF ActiveWithinLimits
  <2> QED BY <2>1, <2>2
<1> QED BY <1>4, <1>5 DEF ActiveWithinLimits

LEMMA LimitsStep == TaskInv /\ ActiveWithinLimits /\ [Next]_vars => ActiveWithinLimits'
<1> SUFFICES ASSUME TaskInv, ActiveWithinLimits, [Next]_vars PROVE ActiveWithinLimits'
  OBVIOUS
<1>1. CASE Create
  <2>1. PICK u \in Users, j \in Jobs, r \in Requests \cup {NoRequest}, x \in Texts,
             kind \in Kinds, first \in Active : Insert(j, u, r, kind, x, first)
    BY <1>1, CreateInserts
  <2> QED BY <2>1, CreateAddsOne
<1>2. CASE ~Create
  <2>1. /\ ActiveJobs' \subseteq ActiveJobs
        /\ \A u \in Users : ActiveJobsOf(u)' \subseteq ActiveJobsOf(u)
    BY <1>2, OnlyCreateAdds DEF ActiveJobs, ActiveJobsOf
  <2>2. /\ Cardinality(ActiveJobs') <= Cardinality(ActiveJobs)
        /\ Cardinality(ActiveJobs') \in Nat /\ Cardinality(ActiveJobs) \in Nat
    BY <2>1, ActiveSetsAreFinite, FS_Subset, FS_CardinalityType
  <2>3. ASSUME NEW u \in Users
        PROVE  /\ Cardinality(ActiveJobsOf(u)') <= Cardinality(ActiveJobsOf(u))
               /\ Cardinality(ActiveJobsOf(u)') \in Nat /\ Cardinality(ActiveJobsOf(u)) \in Nat
    BY <2>1, ActiveSetsAreFinite, FS_Subset, FS_CardinalityType
  <2> QED BY <2>2, <2>3, LimitAssumption DEF ActiveWithinLimits
<1> QED BY <1>1, <1>2

\* The two limits the create transactions check hold at all times.
THEOREM LimitsHold == Spec => []ActiveWithinLimits
<1>1. Init => ActiveWithinLimits
  <2> SUFFICES ASSUME Init PROVE ActiveWithinLimits
    OBVIOUS
  <2>1. ActiveJobs = {} /\ \A u \in Users : ActiveJobsOf(u) = {}
    BY DEF Init, ActiveJobs, ActiveJobsOf
  <2> QED BY <2>1, FS_EmptySet, LimitAssumption DEF ActiveWithinLimits
<1> QED BY <1>1, LimitsStep, TaskInvHolds, PTL DEF Spec

----------------------------------------------------------------------------
(* The task table implements JobBilling *)

LEMMA OneBillChanges ==
    ASSUME NEW j \in Jobs, \A k \in Jobs : k # j => status'[k] = status[k]
    PROVE  Bill' = [Bill EXCEPT ![j] = BillOf(j)']
BY DEF Bill, BillOf

LEMMA NoBillChanges ==
    ASSUME \A k \in Jobs : BillOf(k)' = BillOf(k) PROVE Bill' = Bill
BY DEF Bill

LEMMA SamePayers ==
    ASSUME row' = row PROVE Payer' = Payer /\ FeeOf' = FeeOf
BY DEF Payer, FeeOf

LEMMA BillOfKnown ==
    ASSUME NEW j \in Jobs
    PROVE  /\ Bill[j] = BillOf(j)
           /\ status[j] = "absent" => BillOf(j) = "none"
           /\ status[j] \in Active => BillOf(j) = "held"
           /\ status[j] = "done" => BillOf(j) = "kept"
           /\ status[j] \in Refunded => BillOf(j) = "returned"
           /\ row[j] # NoRow => Payer[j] = row[j].user /\ FeeOf[j] = row[j].fee
BY DEF Bill, BillOf, Payer, FeeOf, Active, Refunded

\* A task leaving the active statuses through a refund is a Return.
LEMMA RefundIsReturn ==
    ASSUME TaskInv, NEW j \in Jobs, status[j] \in Active,
           NEW new \in Refunded, status' = [status EXCEPT ![j] = new], row' = row,
           NEW reason \in RefundReasons, GiveBack(j, reason)
    PROVE  Billing!Return(j)
<1> USE DEF TaskInv, TypeOK
<1>1. row[j] # NoRow /\ row[j] \in Row
  BY DEF RowsAndStatuses, Active
<1>2. row[j].user \in Users /\ row[j].fee \in Nat
  BY <1>1 DEF Row
<1>3. balance' = [balance EXCEPT ![row[j].user] = @ + row[j].fee]
  <2>1. CASE row[j].fee > 0
    BY <2>1 DEF GiveBack
  <2>2. CASE ~(row[j].fee > 0)
    <3>1. row[j].fee = 0 /\ balance' = balance
      BY <1>2, <2>2 DEF GiveBack
    <3>2. balance[row[j].user] + row[j].fee = balance[row[j].user]
      BY <1>2, <3>1
    <3> QED BY <1>2, <3>1, <3>2
  <2> QED BY <2>1, <2>2
<1>4. BillOf(j) = "held" /\ Bill[j] = "held"
  BY BillOfKnown
<1>5. BillOf(j)' = "returned"
  BY DEF BillOf, Refunded, Active
<1>6. Bill' = [Bill EXCEPT ![j] = "returned"]
  BY <1>5, OneBillChanges
<1>7. Payer[j] = row[j].user /\ FeeOf[j] = row[j].fee
  BY <1>1, BillOfKnown
<1>8. Payer' = Payer /\ FeeOf' = FeeOf
  BY SamePayers
<1> QED BY <1>3, <1>4, <1>6, <1>7, <1>8 DEF Billing!Return

\* A step that moves a task among the active statuses changes no bill.
LEMMA ActiveMoveIsStutter ==
    ASSUME TaskInv, NEW j \in Jobs, status[j] \in Active,
           NEW new \in Active, status' = [status EXCEPT ![j] = new],
           row' = row, balance' = balance
    PROVE  UNCHANGED Billing!billingVars
<1>1. \A k \in Jobs : BillOf(k)' = BillOf(k)
  BY DEF TaskInv, TypeOK, BillOf, Active
<1> QED BY <1>1, NoBillChanges, SamePayers DEF Billing!billingVars

LEMMA QuietStep ==
    ASSUME status' = status, row' = row, balance' = balance
    PROVE  UNCHANGED Billing!billingVars
BY SamePayers DEF Billing!billingVars, Bill, BillOf

LEMMA InsertIsCharge ==
    ASSUME TaskInv, NEW j \in Jobs, NEW u \in Users,
           NEW r \in Requests \cup {NoRequest}, NEW kind \in Kinds, NEW x \in Texts,
           NEW first \in Active, Insert(j, u, r, kind, x, first)
    PROVE  Billing!Charge(j, u, Fee(u, kind))
<1> USE DEF TaskInv, TypeOK
<1> DEFINE new == [user |-> u, req |-> r, kind |-> kind, text |-> x, fee |-> Fee(u, kind)]
<1>1. /\ status[j] = "absent" /\ row[j] = NoRow
      /\ balance[u] >= Fee(u, kind)
      /\ balance' = [balance EXCEPT ![u] = @ - Fee(u, kind)]
      /\ row' = [row EXCEPT ![j] = new]
      /\ status' = [status EXCEPT ![j] = first]
  BY DEF Insert, RowsAndStatuses
<1>2. Fee(u, kind) \in Nat /\ balance[u] \in Nat
  BY PriceAssumption DEF Fee, Kinds
<1>3. new # NoRow
  BY <1>2, RowAssumption DEF Row
<1>4. Bill[j] = "none"
  BY <1>1 DEF Bill, BillOf
<1>5. Bill' = [Bill EXCEPT ![j] = "held"]
  <2>1. BillOf(j)' = "held"
    BY <1>1 DEF BillOf, Active
  <2> QED BY <1>1, <2>1, OneBillChanges
<1>6. Payer' = [Payer EXCEPT ![j] = u]
  BY <1>1, <1>3 DEF Payer
<1>7. FeeOf' = [FeeOf EXCEPT ![j] = Fee(u, kind)]
  BY <1>1, <1>3 DEF FeeOf
<1> QED BY <1>1, <1>2, <1>4, <1>5, <1>6, <1>7 DEF Billing!Charge

LEMMA BillingStep ==
    ASSUME TaskInv, [Next]_vars
    PROVE  Billing!BillingNext \/ UNCHANGED Billing!billingVars
<1> USE DEF TaskInv, TypeOK
<1>1. CASE Create
  <2>1. PICK u \in Users, j \in Jobs, r \in Requests \cup {NoRequest}, x \in Texts,
             kind \in Kinds, first \in Active : Insert(j, u, r, kind, x, first)
    BY <1>1, CreateInserts
  <2>2. Billing!Charge(j, u, Fee(u, kind))
    BY <2>1, InsertIsCharge
  <2> QED BY <2>2 DEF Billing!BillingNext
<1>2. CASE Repeat
  BY <1>2, QuietStep DEF Repeat, RepeatCreate, RepeatCreateSmart
<1>3. ASSUME NEW j \in Jobs, CancelTask(j) PROVE Billing!BillingNext
  <2>1. Billing!Return(j)
    <3>1. status[j] \in Active /\ status' = [status EXCEPT ![j] = "cancelled_refunded"]
          /\ row' = row /\ GiveBack(j, "generate_cancel_refund")
      BY <1>3 DEF CancelTask, Active
    <3>2. "cancelled_refunded" \in Refunded /\ "generate_cancel_refund" \in RefundReasons
      BY DEF Refunded, RefundReasons
    <3> QED BY <3>1, <3>2, RefundIsReturn
  <2> QED BY <2>1 DEF Billing!BillingNext
<1>4. ASSUME NEW j \in Jobs, Translate(j)
      PROVE  Billing!BillingNext \/ UNCHANGED Billing!billingVars
  <2>1. CASE ClaimTranslation(j) \/ TranslationGrowsStale(j) \/ RequeueTranslation(j)
    BY <2>1, QuietStep DEF ClaimTranslation, TranslationGrowsStale, RequeueTranslation
  <2>2. CASE CompleteTranslation(j)
    <3>1. status[j] \in Active /\ status' = [status EXCEPT ![j] = "queued"]
          /\ row' = row /\ balance' = balance /\ "queued" \in Active
      BY <2>2 DEF CompleteTranslation, Active
    <3> QED BY <3>1, ActiveMoveIsStutter
  <2>3. CASE FailTranslation(j)
    <3>1. status[j] \in Active /\ status' = [status EXCEPT ![j] = "failed_refunded"]
          /\ row' = row /\ GiveBack(j, "generate_failed_refund")
      BY <2>3 DEF FailTranslation, Active
    <3>2. "failed_refunded" \in Refunded /\ "generate_failed_refund" \in RefundReasons
      BY DEF Refunded, RefundReasons
    <3>3. Billing!Return(j)
      BY <3>1, <3>2, RefundIsReturn
    <3> QED BY <3>3 DEF Billing!BillingNext
  <2> QED BY <1>4, <2>1, <2>2, <2>3 DEF Translate
<1>5. ASSUME NEW j \in Jobs, Plan(j)
      PROVE  Billing!BillingNext \/ UNCHANGED Billing!billingVars
  <2>1. CASE ClaimPlanning(j) \/ PlanningClaimGrowsStale(j)
    BY <2>1, QuietStep DEF ClaimPlanning, PlanningClaimGrowsStale
  <2>2. CASE CompletePlan(j)
    <3>1. status[j] \in Active /\ status' = [status EXCEPT ![j] = "queued"]
          /\ row' = row /\ balance' = balance /\ "queued" \in Active
      BY <2>2 DEF CompletePlan, Active
    <3> QED BY <3>1, ActiveMoveIsStutter
  <2>3. CASE FailPlanning(j)
    <3>1. status[j] \in Active /\ status' = [status EXCEPT ![j] = "failed_refunded"]
          /\ row' = row /\ GiveBack(j, "smart_agent_refund")
      BY <2>3 DEF FailPlanning, Active
    <3>2. "failed_refunded" \in Refunded /\ "smart_agent_refund" \in RefundReasons
      BY DEF Refunded, RefundReasons
    <3>3. Billing!Return(j)
      BY <3>1, <3>2, RefundIsReturn
    <3> QED BY <3>3 DEF Billing!BillingNext
  <2> QED BY <1>5, <2>1, <2>2, <2>3 DEF Plan
<1>6. ASSUME NEW j \in Jobs, Render(j)
      PROVE  Billing!BillingNext \/ UNCHANGED Billing!billingVars
  <2>1. CASE ClaimQueued(j)
    <3>1. status[j] \in Active /\ status' = [status EXCEPT ![j] = "processing"]
          /\ row' = row /\ balance' = balance /\ "processing" \in Active
      BY <2>1 DEF ClaimQueued, Active
    <3> QED BY <3>1, ActiveMoveIsStutter
  <2>2. CASE RenderSucceeds(j)
    <3>1. status[j] = "processing" /\ status' = [status EXCEPT ![j] = "done"]
          /\ row' = row /\ balance' = balance
      BY <2>2 DEF RenderSucceeds, RenderingIsProcessing
    <3>2. Bill[j] = "held" /\ BillOf(j)' = "kept"
      BY <3>1 DEF Bill, BillOf, Active
    <3>3. Billing!Keep(j)
      BY <3>1, <3>2, OneBillChanges, SamePayers DEF Billing!Keep
    <3> QED BY <3>3 DEF Billing!BillingNext
  <2>3. CASE RenderFails(j)
    <3>1. status[j] = "processing"
      BY <2>3 DEF RenderFails, RenderingIsProcessing
    <3>3. NoRefundRow(j, "mock_generation_refund")
      BY <3>1, NothingRefundedYet
    <3>4. status[j] \in Active /\ status' = [status EXCEPT ![j] = "failed_refunded"]
          /\ row' = row /\ GiveBack(j, "mock_generation_refund")
      BY <2>3, <3>1, <3>3 DEF RenderFails, Active, Terminal, Refunded
    <3>5. "failed_refunded" \in Refunded /\ "mock_generation_refund" \in RefundReasons
      BY DEF Refunded, RefundReasons
    <3>6. Billing!Return(j)
      BY <3>4, <3>5, RefundIsReturn
    <3> QED BY <3>6 DEF Billing!BillingNext
  <2>4. CASE RendererCrashes(j)
    BY <2>4, QuietStep DEF RendererCrashes
  <2> QED BY <1>6, <2>1, <2>2, <2>3, <2>4 DEF Render
<1>7. CASE UNCHANGED vars
  BY <1>7, QuietStep DEF vars
<1> QED BY <1>1, <1>2, <1>3, <1>4, <1>5, <1>6, <1>7 DEF Next

\* The task table implements the billing promise: each transaction charges a
\* job, keeps its fee, returns its fee, or leaves every bill alone.
THEOREM TasksKeepBillingPromise == Spec => KeepsBillingPromise
<1>1. Init => Billing!BillingInit
  BY CreditAssumption DEF Init, Billing!BillingInit, Bill, BillOf, Payer, FeeOf
<1>2. TaskInv /\ [Next]_vars => [Billing!BillingNext]_(Billing!billingVars)
  BY BillingStep
<1> QED BY <1>1, <1>2, TaskInvHolds, PTL DEF Spec, KeepsBillingPromise, Billing!BillingSpec

----------------------------------------------------------------------------
(* The idempotency records *)

\* Rows are written once: what a record names keeps its content.
LEMMA BoundRowsStay ==
    ASSUME TaskInv, NEW j \in Jobs, row[j] = NoRow,
           NEW new, row' = [row EXCEPT ![j] = new],
           NEW p \in BoundKeys
    PROVE  row'[idem[p[1]][p[2]]] = row[idem[p[1]][p[2]]]
<1>1. p[1] \in Users /\ p[2] \in Requests /\ idem[p[1]][p[2]] # NoRow
  BY DEF BoundKeys
<1>2. idem[p[1]][p[2]] \in Jobs /\ row[idem[p[1]][p[2]]] # NoRow
  BY <1>1 DEF TaskInv, TypeOK, OneTaskPerRequest
<1> QED BY <1>2 DEF TaskInv, TypeOK

LEMMA RecordsKept ==
    ASSUME idem' = idem, \A p \in BoundKeys : row'[idem[p[1]][p[2]]] = row[idem[p[1]][p[2]]]
    PROVE  Bound' = Bound
BY DEF Bound, BoundKeys

\* A transaction that creates a task without a record.
LEMMA UnrecordedCreate ==
    ASSUME TaskInv, NEW u \in Users, NEW j \in Jobs, NEW r, NEW kind, NEW x, NEW first,
           Insert(j, u, r, kind, x, first), idem' = idem
    PROVE  Bound' = Bound
<1> DEFINE new == [user |-> u, req |-> r, kind |-> kind, text |-> x, fee |-> Fee(u, kind)]
<1>1. row[j] = NoRow /\ row' = [row EXCEPT ![j] = new]
  BY DEF Insert, TaskInv, RowsAndStatuses
<1>2. \A p \in BoundKeys : row'[idem[p[1]][p[2]]] = row[idem[p[1]][p[2]]]
  BY <1>1, BoundRowsStay
<1> QED BY <1>2, RecordsKept

\* One that records the request: it binds exactly that key, to the new content.
LEMMA RecordedCreate ==
    ASSUME TaskInv, NEW u \in Users, NEW j \in Jobs, NEW r \in Requests, NEW x \in Texts,
           NEW first, InsertSmart(j, u, r, x, first), r # NoRequest
    PROVE  Records!Bind(<<u, r>>, x)
<1> DEFINE new == [user |-> u, req |-> r, kind |-> "smart", text |-> x, fee |-> Fee(u, "smart")]
           Named(p) == idem[p[1]][p[2]]
<1>1. /\ row[j] = NoRow /\ row' = [row EXCEPT ![j] = new]
      /\ idem[u][r] = NoRow /\ idem' = [idem EXCEPT ![u][r] = j]
  BY DEF InsertSmart, Insert, TaskInv, RowsAndStatuses
<1>2. /\ idem \in [Users -> [Requests -> Jobs \cup {NoRow}]]
      /\ row \in [Jobs -> Row \cup {NoRow}]
  BY DEF TaskInv, TypeOK
<1>3. new.text = x
  OBVIOUS
<1>4. row'[j].text = x
  BY <1>1, <1>2, <1>3
<1>5. BoundKeys' = BoundKeys \cup {<<u, r>>}
  <2>1. \A v \in Users, s \in Requests :
            idem'[v][s] = IF v = u /\ s = r THEN j ELSE idem[v][s]
    BY <1>1, <1>2
  <2>2. ASSUME NEW p \in Users \X Requests
        PROVE  p \in BoundKeys' <=> p \in BoundKeys \cup {<<u, r>>}
    BY <1>1, <2>1, JobsAssumption DEF BoundKeys
  <2> QED BY <2>2 DEF BoundKeys
<1>6. ASSUME NEW p \in BoundKeys
      PROVE  p # <<u, r>> /\ Named(p)' = Named(p) /\ row'[Named(p)'].text = row[Named(p)].text
  <2>1. p \in Users \X Requests /\ p # <<u, r>>
    BY <1>1 DEF BoundKeys
  <2>2. Named(p)' = Named(p)
    BY <1>1, <1>2, <2>1
  <2>3. row'[Named(p)] = row[Named(p)]
    BY <1>1, BoundRowsStay
  <2> QED BY <2>1, <2>2, <2>3
<1>7. Named(<<u, r>>)' = j
  BY <1>1, <1>2
<1>8. Bound' = {[key |-> p, text |-> row'[Named(p)'].text] : p \in BoundKeys'}
  BY DEF Bound
<1>9. Bound' = Bound \cup {[key |-> <<u, r>>, text |-> x]}
  BY <1>4, <1>5, <1>6, <1>7, <1>8 DEF Bound
<1>10. \A b \in Bound : b.key # <<u, r>>
  <2> SUFFICES ASSUME NEW b \in Bound PROVE b.key # <<u, r>>
    OBVIOUS
  <2>1. PICK p \in BoundKeys : b = [key |-> p, text |-> row[Named(p)].text]
    BY DEF Bound
  <2> QED BY <1>6, <2>1
<1> QED BY <1>9, <1>10 DEF Records!Bind, Records!Unbound

LEMMA SmartCreateBinds ==
    ASSUME TaskInv, NEW u \in Users, NEW j \in Jobs, NEW r \in Requests \cup {NoRequest},
           NEW x \in Texts, NEW first, InsertSmart(j, u, r, x, first)
    PROVE  Records!RecordsNext \/ Bound' = Bound
<1>1. CASE r = NoRequest
  BY <1>1, UnrecordedCreate DEF InsertSmart
<1>2. CASE r # NoRequest
  <2>1. Records!Bind(<<u, r>>, x) /\ <<u, r>> \in Users \X Requests
    BY <1>2, RecordedCreate
  <2> QED BY <2>1 DEF Records!RecordsNext
<1> QED BY <1>1, <1>2

LEMMA RecordsStep == TaskInv /\ [Next]_vars => [Records!RecordsNext]_Bound
<1> SUFFICES ASSUME TaskInv, [Next]_vars PROVE Records!RecordsNext \/ Bound' = Bound
  OBVIOUS
<1>1. ASSUME NEW u \in Users, NEW j \in Jobs, NEW r \in Requests \cup {NoRequest}, NEW x \in Texts,
             CreateTask(u, j, r, x) \/ CreateFastTranslationTask(u, j, r, x)
      PROVE  Bound' = Bound
  BY <1>1, UnrecordedCreate DEF CreateTask, CreateFastTranslationTask
<1>2. CASE Create
  BY <1>1, <1>2, SmartCreateBinds DEF Create, CreateSmartAgentTask, ConfirmDraft
<1>3. CASE ~Create
  <2>1. row' = row /\ idem' = idem
    BY <1>3 DEF Next, vars, Repeat, RepeatCreate, RepeatCreateSmart, CancelTask, Translate,
       ClaimTranslation, TranslationGrowsStale, RequeueTranslation, CompleteTranslation,
       FailTranslation, Plan, ClaimPlanning, PlanningClaimGrowsStale, CompletePlan,
       FailPlanning, Render, ClaimQueued, RenderSucceeds, RenderFails, RendererCrashes
  <2> QED BY <2>1, RecordsKept
<1> QED BY <1>2, <1>3

\* The task table implements the idempotency records: a key of a smart task is
\* bound once, in the transaction that creates its task, and never changes.
THEOREM TasksKeepRecords == Spec => KeepsRecordsPromise
<1>1. Init => Records!RecordsInit
  BY DEF Init, Records!RecordsInit, Bound, BoundKeys
<1> QED BY <1>1, RecordsStep, TaskInvHolds, PTL DEF Spec, KeepsRecordsPromise, Records!RecordsSpec

----------------------------------------------------------------------------
(* The balance *)

\* What is proved of the promise, for this implementation of it.
Promised == INSTANCE JobBillingProofs WITH
    Fees <- {Fee(u, kind) : u \in Users, kind \in Kinds},
    credit <- balance, bill <- Bill, payer <- Payer, fee <- FeeOf

LEMMA SumsAreTheSame ==
    ASSUME NEW f, NEW S
    PROVE  Promised!SumFunctionOnSet(f, S) = SumFunctionOnSet(f, S)
BY DEF Promised!SumFunctionOnSet, SumFunctionOnSet, Promised!FoldFunctionOnSet,
       FoldFunctionOnSet, Promised!MapThenFoldSet, MapThenFoldSet

\* A task that is not refunded is one whose fee the service has.
LEMMA OpenBillsAreUnrefunded ==
    ASSUME TaskInv, NEW u \in Users
    PROVE  Promised!TakenFrom(u) = UnrefundedJobsOf(u)
BY UsersAssumption DEF Promised!TakenFrom, UnrefundedJobsOf, Bill, BillOf, Payer, TaskInv, TypeOK,
   RowsAndStatuses

LEMMA BalanceIsHoldings ==
    ASSUME TaskInv
    PROVE  BalanceMatchesTasks <=> Promised!Holdings = OpeningCredit
<1> DEFINE Open(u) == SumFunctionOnSet(FeeOf, UnrefundedJobsOf(u))
<1>1. ASSUME NEW u \in Users PROVE Open(u) \in Int
  <2>1. IsFiniteSet(UnrefundedJobsOf(u))
    BY JobsAssumption, FS_Subset DEF UnrefundedJobsOf
  <2>2. \A j \in UnrefundedJobsOf(u) : FeeOf[j] \in Int
    BY RowHasFields DEF UnrefundedJobsOf, FeeOf, TaskInv, RowsAndStatuses
  <2> QED BY <2>1, <2>2, SumType
<1>2. Promised!Holdings = [u \in Users |-> balance[u] + Open(u)]
  BY OpenBillsAreUnrefunded, SumsAreTheSame DEF Promised!Holdings
<1>3. \A u \in Users : balance[u] \in Int /\ OpeningCredit[u] \in Int
  BY CreditAssumption DEF TaskInv, TypeOK
<1>4. OpeningCredit = [u \in Users |-> OpeningCredit[u]]
  BY CreditAssumption
<1>5. BalanceMatchesTasks <=> \A u \in Users : balance[u] = OpeningCredit[u] - Open(u)
  BY DEF BalanceMatchesTasks
<1> HIDE DEF Open
<1> QED BY <1>1, <1>2, <1>3, <1>4, <1>5

LEMMA HoldingsKept ==
    ASSUME TaskInv, [Next]_vars
    PROVE  Promised!Holdings' = Promised!Holdings
<1>1. Promised!IsFiniteSet(Jobs)
  BY JobsAssumption DEF Promised!IsFiniteSet, IsFiniteSet
<1>2. Promised!BillingTypeOK
  BY RowHasFields DEF Promised!BillingTypeOK, Promised!BillStates, TaskInv, TypeOK, Bill, BillOf, Payer, FeeOf,
     RowsAndStatuses
<1>3. {Fee(u, kind) : u \in Users, kind \in Kinds} \subseteq Int
  BY FeeIsNat
<1>4. Promised!BillingNext \/ UNCHANGED Promised!billingVars
  BY BillingStep DEF Billing!BillingNext, Promised!BillingNext, Billing!Charge, Promised!Charge,
     Billing!Keep, Promised!Keep, Billing!Return, Promised!Return, Billing!billingVars,
     Promised!billingVars
<1> QED BY <1>1, <1>2, <1>3, <1>4, Promised!StepConserves

LEMMA OpeningBalance == Init => BalanceMatchesTasks
<1> SUFFICES ASSUME Init, NEW u \in Users
             PROVE  balance[u] = OpeningCredit[u] - SumFunctionOnSet(FeeOf, UnrefundedJobsOf(u))
  BY DEF BalanceMatchesTasks
<1>1. UnrefundedJobsOf(u) = {}
  BY DEF Init, UnrefundedJobsOf
<1>2. SumFunctionOnSet(FeeOf, UnrefundedJobsOf(u)) = 0
  BY <1>1, SumEmpty
<1> QED BY <1>2, CreditAssumption DEF Init

\* users.balance_fen never drifts from the task table: it is the opening credit
\* less the fees of the user's tasks that are not refunded, for any number of
\* tasks, users and prices.
THEOREM BalanceIsExact == Spec => []BalanceMatchesTasks
<1>1. TaskInv /\ TaskInv' /\ BalanceMatchesTasks /\ [Next]_vars => BalanceMatchesTasks'
  <2> SUFFICES ASSUME TaskInv, TaskInv', BalanceMatchesTasks, [Next]_vars
               PROVE  BalanceMatchesTasks'
    OBVIOUS
  <2>1. Promised!Holdings = OpeningCredit
    BY BalanceIsHoldings
  <2>2. Promised!Holdings' = OpeningCredit
    BY <2>1, HoldingsKept
  <2>3. (BalanceMatchesTasks <=> Promised!Holdings = OpeningCredit)'
    BY BalanceIsHoldings, PTL
  <2> QED BY <2>2, <2>3
<1> QED BY <1>1, OpeningBalance, TaskInvHolds, PTL DEF Spec

----------------------------------------------------------------------------
(* The translation workers *)

\* Whatever a worker does to the task table is a step of GenerationTasks.
LEMMA ProtocolStep ==
    ASSUME TaskInv, WorkersTypeOK, [WorkersNext]_workerVars
    PROVE  [Next]_vars
<1>1. ASSUME NEW j \in Jobs, FailIfTranslating(j) PROVE [Next]_vars
  BY <1>1 DEF FailIfTranslating, Next, Translate
<1>2. ASSUME NEW j \in Jobs, RequeueIfProcessing(j) PROVE [Next]_vars
  BY <1>2 DEF RequeueIfProcessing, Next, Translate
<1>3. /\ worker \in [Workers -> Worker]
      /\ \A w \in Workers : worker[w].pc = "call" => worker[w].job \in Jobs
      /\ \A w \in Workers : \A seen \in worker[w].todo : seen.job \in Jobs
  BY DEF WorkersTypeOK, Worker, SeenRow
<1>4. ASSUME NEW w \in Workers, WorkerStep(w) PROVE [Next]_vars
  <2>1. CASE StartRecovery(w) \/ NothingToClaim(w) \/ ReadUnserviceable(w)
    BY <2>1 DEF StartRecovery, NothingToClaim, ReadUnserviceable
  <2>2. CASE RecoverRow(w)
    BY <2>2, <1>1, <1>2, <1>3 DEF RecoverRow
  <2>3. CASE FinishRecovery(w)
    <3>1. \A j \in Jobs : ~(tr[j].status = "processing" /\ status[j] \in Refunded)
      BY DEF TaskInv, TranslationFollowsTask
    <3>2. tr' = tr
      BY <2>3, <3>1 DEF FinishRecovery, TaskInv, TypeOK
    <3> QED BY <2>3, <3>2 DEF FinishRecovery, vars
  <2>4. CASE ClaimNext(w)
    BY <2>4 DEF ClaimNext, Next, Translate
  <2>5. CASE FailUnserviceable(w)
    BY <2>5, <1>1, <1>3 DEF FailUnserviceable
  <2>6. CASE CallSucceeds(w)
    BY <2>6, <1>3 DEF CallSucceeds, Next, Translate
  <2>7. CASE CallFails(w)
    BY <2>7, <1>1, <1>3 DEF CallFails
  <2> QED BY <1>4, <2>1, <2>2, <2>3, <2>4, <2>5, <2>6, <2>7 DEF WorkerStep, Recover, Serve
<1>5. ASSUME NEW w \in Workers, RecoveryComesDue(w) \/ Restart(w) \/ Fault(w)
      PROVE  [Next]_vars
  BY <1>5 DEF RecoveryComesDue, Restart, Fault, CallFailureLost, RowLost, Crash
<1>6. ASSUME NEW j \in Jobs, GrowsStale(j) PROVE [Next]_vars
  BY <1>6 DEF GrowsStale, Next, Translate
<1>7. CASE Others
  BY <1>7 DEF Others, Next, Create, Render
<1>8. CASE UNCHANGED workerVars
  BY <1>8 DEF workerVars, vars
<1> QED BY <1>4, <1>5, <1>6, <1>7, <1>8 DEF WorkersNext

----------------------------------------------------------------------------
(* Types of the loops *)

LEMMA WorkersTypesPreserved ==
    ASSUME TaskInv, TaskInv', WorkersTypeOK, [WorkersNext]_workerVars
    PROVE  WorkersTypeOK'
<1> USE DEF Worker
<1>1. TypeOK' /\ worker \in [Workers -> Worker] /\ faults \in 0..FaultBound
  BY DEF TaskInv, WorkersTypeOK
<1>2. \A jobs \in SUBSET Jobs : Seen(jobs) \in SUBSET SeenRow
  BY DEF Seen, SeenRow, TaskInv, TypeOK, Translation
<1>3. ASSUME NEW w \in Workers, worker' = [worker EXCEPT ![w] = worker'[w]],
             worker'[w] \in Worker, faults' = faults \/ OneMoreFault,
             worker'[w].pc = "call" <=> worker'[w].job # NoJob,
             worker'[w].todo # {} => worker'[w].pc \in {"recover", "failall"}
      PROVE  WorkersTypeOK'
  BY <1>1, <1>3, FaultAssumption DEF WorkersTypeOK, OneMoreFault
<1>4. ASSUME worker' = worker, faults' = faults PROVE WorkersTypeOK'
  BY <1>1, <1>4 DEF WorkersTypeOK
<1>5. ASSUME NEW w \in Workers, Recover(w) PROVE WorkersTypeOK'
  <2>1. CASE StartRecovery(w)
    <3>1. Seen(StaleTranslations) \in SUBSET SeenRow
      BY <1>2 DEF StaleTranslations
    <3> QED BY <2>1, <3>1, <1>1, <1>3 DEF StartRecovery, WorkersTypeOK
  <2>2. CASE RecoverRow(w)
    BY <2>2, <1>1, <1>3 DEF RecoverRow, WorkersTypeOK
  <2>3. CASE FinishRecovery(w)
    BY <2>3, <1>1, <1>3 DEF FinishRecovery, Becomes, WorkersTypeOK
  <2> QED BY <1>5, <2>1, <2>2, <2>3 DEF Recover
<1>6. ASSUME NEW w \in Workers, Serve(w) PROVE WorkersTypeOK'
  <2>1. CASE ClaimNext(w)
    BY <2>1, <1>1, <1>3, FaultAssumption DEF ClaimNext, PastRecovery, WorkersTypeOK
  <2>2. CASE NothingToClaim(w)
    BY <2>2, <1>1, <1>3 DEF NothingToClaim, Becomes, WorkersTypeOK
  <2>3. CASE ReadUnserviceable(w)
    <3>1. Seen(OpenTranslations) \in SUBSET SeenRow
      BY <1>2 DEF OpenTranslations
    <3> QED BY <2>3, <3>1, <1>1, <1>3 DEF ReadUnserviceable, PastRecovery, WorkersTypeOK
  <2>4. CASE FailUnserviceable(w)
    BY <2>4, <1>1, <1>3 DEF FailUnserviceable, Becomes, WorkersTypeOK
  <2>5. CASE CallSucceeds(w) \/ CallFails(w)
    BY <2>5, <1>1, <1>3 DEF CallSucceeds, CallFails, DropRequest, WorkersTypeOK
  <2> QED BY <1>6, <2>1, <2>2, <2>3, <2>4, <2>5 DEF Serve
<1>7. ASSUME NEW w \in Workers, RecoveryComesDue(w) \/ Restart(w) PROVE WorkersTypeOK'
  <2>1. CASE RecoveryComesDue(w)
    BY <2>1, <1>1, <1>3 DEF RecoveryComesDue, WorkersTypeOK
  <2>2. CASE Restart(w)
    <3>1. PICK on \in BOOLEAN : worker' = [worker EXCEPT ![w] = Started(on)]
      BY <2>2 DEF Restart
    <3>2. /\ worker'[w] = Started(on) /\ faults' = faults
      BY <2>2, <3>1, <1>1 DEF Restart
    <3>3. /\ Started(on) \in Worker /\ Started(on).pc = "start"
          /\ Started(on).job = NoJob /\ Started(on).todo = {}
      BY DEF Started
    <3>4. worker' = [worker EXCEPT ![w] = worker'[w]]
      BY <3>1, <3>2
    <3> QED BY <3>2, <3>3, <3>4, <1>3
  <2> QED BY <1>7, <2>1, <2>2
<1>8. ASSUME NEW w \in Workers, Fault(w) PROVE WorkersTypeOK'
  <2>1. CASE CallFailureLost(w)
    BY <2>1, <1>1, <1>3 DEF CallFailureLost, DropRequest, WorkersTypeOK
  <2>2. CASE RowLost(w)
    <3>1. PICK seen \in worker[w].todo : worker' = [worker EXCEPT ![w].todo = @ \ {seen}]
      BY <2>2 DEF RowLost
    <3>2. worker[w].pc \in {"recover", "failall"} /\ OneMoreFault
      BY <2>2 DEF RowLost
    <3>3. worker[w].todo \ {seen} \subseteq SeenRow
      BY <1>1
    <3>4. /\ worker'[w] \in Worker
          /\ worker'[w].pc = worker[w].pc /\ worker'[w].job = worker[w].job
      BY <3>1, <3>3, <1>1
    <3>5. worker' = [worker EXCEPT ![w] = worker'[w]]
      BY <3>1, <1>1
    <3> QED BY <3>2, <3>4, <3>5, <1>3 DEF WorkersTypeOK
  <2>3. CASE Crash(w)
    BY <2>3, <1>1, <1>3 DEF Crash, Started, WorkersTypeOK
  <2> QED BY <1>8, <2>1, <2>2, <2>3 DEF Fault
<1> QED
  BY <1>4, <1>5, <1>6, <1>7, <1>8 DEF WorkersNext, WorkerStep, GrowsStale, Others, workerVars

LEMMA TypedProtocolStep ==
    TaskInv /\ WorkersTypeOK /\ [WorkersNext]_workerVars
        => [Next]_vars /\ TaskInv' /\ WorkersTypeOK'
BY ProtocolStep, StepPreserves, WorkersTypesPreserved

LEMMA WorkersInitTyped == WorkersInit => TaskInv /\ WorkersTypeOK
<1>1. WorkersInit => TaskInv
  BY InitEstablishes DEF WorkersInit
<1>2. ASSUME WorkersInit, TaskInv PROVE WorkersTypeOK
  <2>1. Started(TRUE) \in Worker /\ Started(TRUE).pc = "start"
        /\ Started(TRUE).job = NoJob /\ Started(TRUE).todo = {}
    BY DEF Started, Worker
  <2>2. \A w \in Workers : worker[w] = Started(TRUE)
    BY <1>2 DEF WorkersInit
  <2>3. worker \in [Workers -> Worker]
    BY <1>2, <2>1 DEF WorkersInit
  <2>4. TypeOK /\ faults \in 0..FaultBound
    BY <1>2, FaultAssumption DEF WorkersInit, TaskInv
  <2> QED BY <2>1, <2>2, <2>3, <2>4 DEF WorkersTypeOK
<1> QED BY <1>1, <1>2

\* However many servers run the loop, crash and restart, and whatever stale
\* list each is working off, the task table only takes steps of
\* GenerationTasks, so all that is proved of that module holds with them.
THEOREM WorkersImplementTasks == WorkersSpec => WorkersKeepTaskProtocol
<1>1. WorkersInit => Init
  BY DEF WorkersInit
<1> QED
  BY <1>1, WorkersInitTyped, TypedProtocolStep, PTL DEF WorkersSpec, WorkersKeepTaskProtocol, Spec

\* Every loop holds a request exactly while it calls the translator for it.
THEOREM WorkerTypesHold == WorkersSpec => []WorkersTypeOK
BY WorkersInitTyped, TypedProtocolStep, PTL DEF WorkersSpec

----------------------------------------------------------------------------
(* The number of claims of one request *)

LEMMA BelieversAreFinite ==
    ASSUME NEW j
    PROVE  /\ IsFiniteSet(Believers(j)) /\ Believers(j) \subseteq Workers
           /\ Cardinality(Believers(j)) \in Nat
           /\ Cardinality(Workers) \in Nat
           /\ Cardinality(Believers(j)) <= Cardinality(Workers)
<1>1. Believers(j) \subseteq Workers
  BY DEF Believers
<1>2. IsFiniteSet(Believers(j)) /\ Cardinality(Believers(j)) <= Cardinality(Workers)
  BY <1>1, WorkersAssumption, FS_Subset
<1> QED BY <1>1, <1>2, WorkersAssumption, FS_CardinalityType

\* A worker that does not believe in a retry leaves room for one more claim.
LEMMA OneSkeptic ==
    ASSUME NEW j, NEW w \in Workers, w \notin Believers(j)
    PROVE  Cardinality(Believers(j)) <= Cardinality(Workers) - 1
<1>1. Believers(j) \subseteq Workers \ {w}
  BY BelieversAreFinite
<1>2. IsFiniteSet(Workers \ {w}) /\ Cardinality(Workers \ {w}) = Cardinality(Workers) - 1
  BY WorkersAssumption, FS_RemoveElement
<1> QED BY <1>1, <1>2, FS_Subset

LEMMA FewerBelievers ==
    ASSUME NEW j, Believers(j)' \subseteq Believers(j)
    PROVE  /\ Cardinality(Believers(j)') \in Nat
           /\ Cardinality(Believers(j)') <= Cardinality(Believers(j))
BY BelieversAreFinite, FS_Subset, FS_CardinalityType

LEMMA OneBelieverLess ==
    ASSUME NEW j, NEW w, w \in Believers(j), Believers(j)' \subseteq Believers(j) \ {w}
    PROVE  /\ Cardinality(Believers(j)') \in Nat
           /\ Cardinality(Believers(j)') <= Cardinality(Believers(j)) - 1
<1>1. IsFiniteSet(Believers(j))
  BY BelieversAreFinite
<1>2. /\ IsFiniteSet(Believers(j) \ {w})
      /\ Cardinality(Believers(j) \ {w}) = Cardinality(Believers(j)) - 1
  BY <1>1, FS_RemoveElement
<1> QED BY <1>2, FS_Subset, FS_CardinalityType

Budget(j) == tr[j].attempts + Waiting(j) + Cardinality(Believers(j))

\* Nobody starts to believe, no claim, no requeue: the budget does not grow.
LEMMA QuietBudget ==
    ASSUME TypeOK, TypeOK', NEW j \in Jobs, Believers(j)' \subseteq Believers(j),
           tr'[j].attempts = tr[j].attempts,
           tr'[j].status = "queued" => tr[j].status = "queued"
    PROVE  Budget(j)' <= Budget(j)
<1>1. tr[j].attempts \in Nat /\ tr'[j].attempts \in Nat
  BY DEF TypeOK, Translation
<1>2. Waiting(j)' <= Waiting(j) /\ Waiting(j) \in {0, 1} /\ Waiting(j)' \in {0, 1}
  BY DEF Waiting
<1>3. /\ Cardinality(Believers(j)') \in Nat /\ Cardinality(Believers(j)) \in Nat
      /\ Cardinality(Believers(j)') <= Cardinality(Believers(j))
  BY FewerBelievers, BelieversAreFinite
<1> QED BY <1>1, <1>2, <1>3 DEF Budget

\* The translation row of j is claimed or requeued only by these actions.
TrQuiet(j) ==
    /\ tr'[j].attempts = tr[j].attempts
    /\ tr'[j].status = "queued" => tr[j].status = "queued"

LEMMA QuietTransactions ==
    ASSUME TaskInv, NEW j \in Jobs,
           \/ UNCHANGED tr
           \/ \E k \in Jobs : \/ CompleteTranslation(k) \/ FailTranslation(k)
                              \/ TranslationGrowsStale(k) \/ CancelTask(k)
                              \/ ClaimQueued(k) \/ RenderSucceeds(k) \/ RenderFails(k)
    PROVE  TrQuiet(j)
<1>0. tr \in [Jobs -> Translation]
  BY DEF TaskInv, TypeOK
<1>1. CASE UNCHANGED tr
  BY <1>1 DEF TrQuiet
<1>2. ASSUME NEW k \in Jobs, NEW new \in TrStatuses, new # "queued",
             tr' = [tr EXCEPT ![k].status = new]
      PROVE  TrQuiet(j)
  <2>1. CASE k = j
    BY <1>0, <1>2, <2>1 DEF TrQuiet, Translation
  <2>2. CASE k # j
    BY <1>0, <1>2, <2>2 DEF TrQuiet
  <2> QED BY <2>1, <2>2
<1>3. ASSUME NEW k \in Jobs, \/ CompleteTranslation(k) \/ FailTranslation(k)
                             \/ TranslationGrowsStale(k) \/ CancelTask(k)
      PROVE  TrQuiet(j)
  <2>1. CASE CompleteTranslation(k)
    BY <2>1, <1>2 DEF CompleteTranslation
  <2>2. CASE FailTranslation(k)
    BY <2>2, <1>2 DEF FailTranslation
  <2>3. CASE TranslationGrowsStale(k)
    <3>1. tr' = [tr EXCEPT ![k].stale = TRUE]
      BY <2>3 DEF TranslationGrowsStale
    <3>2. CASE k = j
      BY <1>0, <3>1, <3>2 DEF TrQuiet, Translation
    <3>3. CASE k # j
      BY <1>0, <3>1, <3>3 DEF TrQuiet
    <3> QED BY <3>2, <3>3
  <2>4. CASE CancelTask(k)
    <3>1. UNCHANGED tr \/ tr' = [tr EXCEPT ![k].status = "cancelled_refunded"]
      BY <2>4 DEF CancelTask
    <3> QED BY <3>1, <1>1, <1>2
  <2> QED BY <1>3, <2>1, <2>2, <2>3, <2>4
<1>4. ASSUME NEW k \in Jobs, ClaimQueued(k) \/ RenderSucceeds(k) \/ RenderFails(k)
      PROVE  TrQuiet(j)
  BY <1>1, <1>4 DEF ClaimQueued, RenderSucceeds, RenderFails
<1> QED BY <1>1, <1>3, <1>4

\* A worker that ends a step outside the recovery, or with a shorter list,
\* starts to believe nothing.
LEMMA QuietWorker ==
    ASSUME worker \in [Workers -> Worker], NEW w \in Workers, NEW j,
           worker' = [worker EXCEPT ![w] = worker'[w]],
           worker'[w].pc # "recover"
           \/ (worker'[w].pc = worker[w].pc /\ worker'[w].todo \subseteq worker[w].todo)
    PROVE  Believers(j)' \subseteq Believers(j)
BY DEF Believers, BelievesInRetry

LEMMA RowsStay ==
    ASSUME TaskInv, TaskInv', [Next]_vars
    PROVE  \A j \in Jobs : status[j] # "absent" => status'[j] # "absent"
<1>1. CASE Create
  <2>1. PICK u \in Users, j \in Jobs, r \in Requests \cup {NoRequest}, x \in Texts,
             kind \in Kinds, first \in Active : Insert(j, u, r, kind, x, first)
    BY <1>1, CreateInserts
  <2> QED BY <2>1 DEF Insert, TaskInv, TypeOK
<1>2. CASE ~Create
  BY <1>2, OnlyCreateAdds DEF TaskInv, RowsAndStatuses
<1> QED BY <1>1, <1>2

LEMMA QuietStepsKeepBudget ==
    ASSUME TaskInv, TaskInv', ClaimBudget,
           \A j \in Jobs : TrQuiet(j) /\ Believers(j)' \subseteq Believers(j)
    PROVE  ClaimBudget'
<1> SUFFICES ASSUME NEW j \in Jobs
             PROVE  Budget(j)' <= MaxAttempts + Cardinality(Workers) - 1
  BY DEF ClaimBudget, Budget
<1>1. Budget(j)' <= Budget(j) /\ Budget(j) <= MaxAttempts + Cardinality(Workers) - 1
  BY QuietBudget DEF ClaimBudget, Budget, TrQuiet, TaskInv
<1>2. /\ tr[j].attempts \in Nat /\ tr'[j].attempts \in Nat
      /\ Waiting(j) \in Nat /\ Waiting(j)' \in Nat
  BY DEF TaskInv, TypeOK, Translation, Waiting
<1>3. /\ Cardinality(Believers(j)) \in Nat /\ Cardinality(Believers(j)') \in Nat
      /\ Cardinality(Workers) \in Nat
  BY BelieversAreFinite, FewerBelievers
<1>4. Budget(j) \in Nat /\ Budget(j)' \in Nat
  BY <1>2, <1>3 DEF Budget
<1> QED BY <1>1, <1>3, <1>4, LimitAssumption

\* Reading a stale request with attempts left: its own count is below the
\* maximum, so the budget holds even if every process read it.
LEMMA RecoveryKeepsBudget ==
    ASSUME TaskInv, TaskInv', WorkersTypeOK, ClaimBudget, NEW w \in Workers, StartRecovery(w)
    PROVE  ClaimBudget'
<1> SUFFICES ASSUME NEW j \in Jobs
             PROVE  Budget(j)' <= MaxAttempts + Cardinality(Workers) - 1
  BY DEF ClaimBudget, Budget
<1>1. /\ UNCHANGED tr /\ worker \in [Workers -> Worker]
      /\ worker' = [worker EXCEPT ![w].pc = "recover", ![w].due = FALSE,
                                  ![w].todo = Seen(StaleTranslations)]
  BY DEF StartRecovery, vars, WorkersTypeOK
<1>2. worker'[w].todo = Seen(StaleTranslations) /\ \A v \in Workers \ {w} : worker'[v] = worker[v]
  BY <1>1 DEF Worker
<1>3. tr[j].attempts \in Nat /\ Waiting(j) \in Nat /\ Waiting(j)' = Waiting(j)
  BY <1>1 DEF TaskInv, TypeOK, Translation, Waiting
<1>4. /\ Cardinality(Believers(j)') \in Nat
      /\ Cardinality(Believers(j)') <= Cardinality(Workers)
      /\ Cardinality(Workers) \in Nat
  <2>1. Believers(j)' \subseteq Workers
    BY DEF Believers
  <2> QED BY <2>1, WorkersAssumption, FS_Subset, FS_CardinalityType
<1>5. CASE j \in StaleTranslations /\ tr[j].attempts < MaxAttempts
  <2>1. Waiting(j) = 0
    BY <1>5 DEF StaleTranslations, Waiting
  <2> QED BY <1>1, <1>3, <1>4, <1>5, <2>1, LimitAssumption DEF Budget
<1>6. CASE ~(j \in StaleTranslations /\ tr[j].attempts < MaxAttempts)
  <2>1. ~BelievesInRetry(w, j)'
    BY <1>2, <1>6 DEF BelievesInRetry, Seen
  <2>2. Believers(j)' \subseteq Believers(j)
    BY <1>2, <2>1 DEF Believers, BelievesInRetry
  <2>3. Cardinality(Believers(j)') <= Cardinality(Believers(j)) /\ Cardinality(Believers(j)) \in Nat
    BY <2>2, FewerBelievers, BelieversAreFinite
  <2>4. tr[j].attempts + Waiting(j) + Cardinality(Believers(j))
            <= MaxAttempts + Cardinality(Workers) - 1
    BY DEF ClaimBudget
  <2> QED BY <1>1, <1>3, <1>4, <2>3, <2>4, LimitAssumption DEF Budget
<1> QED BY <1>5, <1>6

\* The requeue: the worker that ordered it stops believing, and the request
\* waits instead.
LEMMA RequeueKeepsBudget ==
    ASSUME TaskInv, TaskInv', WorkersTypeOK, ListsAreSound, ClaimBudget,
           NEW w \in Workers, RecoverRow(w)
    PROVE  ClaimBudget'
<1>1. PICK seen \in worker[w].todo :
          /\ worker[w].pc = "recover"
          /\ worker' = [worker EXCEPT ![w].todo = @ \ {seen}]
          /\ IF seen.attempts < MaxAttempts
             THEN RequeueIfProcessing(seen.job)
             ELSE FailIfTranslating(seen.job)
  BY DEF RecoverRow
<1>2. seen.job \in Jobs /\ worker \in [Workers -> Worker] /\ worker[w] \in Worker
  BY DEF WorkersTypeOK, Worker, SeenRow
<1>3. /\ worker'[w].todo = worker[w].todo \ {seen} /\ worker'[w].pc = "recover"
      /\ \A v \in Workers \ {w} : worker'[v] = worker[v]
  BY <1>1, <1>2 DEF Worker
<1>4. \A j \in Jobs : Believers(j)' \subseteq Believers(j)
  BY <1>1, <1>3 DEF Believers, BelievesInRetry
<1>5. CASE UNCHANGED tr \/ FailTranslation(seen.job)
  BY <1>2, <1>4, <1>5, QuietTransactions, QuietStepsKeepBudget
<1>6. CASE seen.attempts < MaxAttempts /\ RequeueTranslation(seen.job)
  <2>1. /\ tr[seen.job].status = "processing"
        /\ tr' = [tr EXCEPT ![seen.job].status = "queued", ![seen.job].stale = FALSE]
    BY <1>6 DEF RequeueTranslation
  <2>2. tr \in [Jobs -> Translation]
    BY DEF TaskInv, TypeOK
  <2>3. tr'[seen.job].attempts = tr[seen.job].attempts /\ tr[seen.job].attempts \in Nat
    BY <1>2, <2>1, <2>2 DEF Translation
  <2>4. Waiting(seen.job) = 0 /\ Waiting(seen.job)' \in {0, 1}
    BY <2>1 DEF Waiting
  <2>5. w \in Believers(seen.job) /\ Believers(seen.job)' \subseteq Believers(seen.job) \ {w}
    <3>1. w \in Believers(seen.job)
      BY <1>1, <1>6 DEF Believers, BelievesInRetry
    <3>2. ~BelievesInRetry(w, seen.job)'
      BY <1>3 DEF BelievesInRetry, ListsAreSound
    <3> QED BY <1>2, <1>4, <3>1, <3>2 DEF Believers
  <2>6. /\ Cardinality(Believers(seen.job)') \in Nat
        /\ Cardinality(Believers(seen.job)') <= Cardinality(Believers(seen.job)) - 1
        /\ Cardinality(Believers(seen.job)) \in Nat /\ Cardinality(Workers) \in Nat
    BY <2>5, OneBelieverLess, BelieversAreFinite
  <2>7. tr[seen.job].attempts + Waiting(seen.job) + Cardinality(Believers(seen.job))
            <= MaxAttempts + Cardinality(Workers) - 1
    BY <1>2 DEF ClaimBudget
  <2>8. Budget(seen.job)' <= MaxAttempts + Cardinality(Workers) - 1
    BY <2>3, <2>4, <2>6, <2>7, LimitAssumption DEF Budget
  <2>9. ASSUME NEW j \in Jobs, j # seen.job
        PROVE  Budget(j)' <= MaxAttempts + Cardinality(Workers) - 1
    <3>1. tr'[j] = tr[j] /\ tr[j].attempts \in Nat
      BY <2>1, <2>2, <2>9 DEF Translation
    <3>2. Waiting(j)' = Waiting(j) /\ Waiting(j) \in {0, 1}
      BY <3>1 DEF Waiting
    <3>3. /\ Cardinality(Believers(j)') \in Nat /\ Cardinality(Believers(j)) \in Nat
          /\ Cardinality(Believers(j)') <= Cardinality(Believers(j))
      BY <1>4, FewerBelievers, BelieversAreFinite
    <3>4. tr[j].attempts + Waiting(j) + Cardinality(Believers(j))
              <= MaxAttempts + Cardinality(Workers) - 1
      BY DEF ClaimBudget
    <3> QED BY <2>6, <3>1, <3>2, <3>3, <3>4, LimitAssumption DEF Budget
  <2> QED BY <2>8, <2>9 DEF ClaimBudget, Budget
<1> QED BY <1>1, <1>5, <1>6 DEF RequeueIfProcessing, FailIfTranslating, vars

\* The claim: a queued request was already counted; a stale one had attempts
\* left, and the worker that takes it over believes in nothing.
LEMMA ClaimKeepsBudget ==
    ASSUME TaskInv, TaskInv', WorkersTypeOK, ClaimBudget, NEW w \in Workers, ClaimNext(w)
    PROVE  ClaimBudget'
<1>1. PICK k \in Jobs :
          /\ ClaimTranslation(k)
          /\ worker' = [worker EXCEPT ![w].pc = "call", ![w].job = k]
  BY DEF ClaimNext
<1>2. /\ worker[w].pc # "recover" /\ worker \in [Workers -> Worker]
  BY DEF ClaimNext, PastRecovery, WorkersTypeOK
<1>3. worker'[w].pc = "call" /\ \A v \in Workers \ {w} : worker'[v] = worker[v]
  BY <1>1, <1>2 DEF Worker
<1>4. \A j \in Jobs : Believers(j)' \subseteq Believers(j) /\ w \notin Believers(j)
  BY <1>2, <1>3 DEF Believers, BelievesInRetry
<1>5. /\ tr' = [tr EXCEPT ![k] = [status |-> "processing", stale |-> FALSE,
                                  attempts |-> @.attempts + 1]]
      /\ tr[k].status = "queued" \/ tr[k].attempts < MaxAttempts
      /\ tr \in [Jobs -> Translation]
  BY <1>1 DEF ClaimTranslation, Claimable, TaskInv, TypeOK
<1>6. ASSUME NEW j \in Jobs PROVE Budget(j)' <= MaxAttempts + Cardinality(Workers) - 1
  <2>1. /\ Cardinality(Believers(j)') \in Nat /\ Cardinality(Believers(j)) \in Nat
        /\ Cardinality(Believers(j)') <= Cardinality(Believers(j))
        /\ Cardinality(Believers(j)) <= Cardinality(Workers) - 1
        /\ Cardinality(Workers) \in Nat
    BY <1>4, FewerBelievers, BelieversAreFinite, OneSkeptic
  <2>2. tr[j].attempts + Waiting(j) + Cardinality(Believers(j))
            <= MaxAttempts + Cardinality(Workers) - 1
    BY DEF ClaimBudget
  <2>3. CASE j = k
    <3>1. /\ tr'[j].attempts = tr[j].attempts + 1 /\ tr'[j].status = "processing"
          /\ tr[j].attempts \in Nat
      BY <1>5, <2>3 DEF Translation
    <3>2. Waiting(j)' = 0
      BY <3>1 DEF Waiting
    <3>3. CASE tr[j].status = "queued"
      BY <2>1, <2>2, <3>1, <3>2, <3>3, LimitAssumption DEF Budget, Waiting
    <3>4. CASE tr[j].attempts < MaxAttempts
      BY <2>1, <3>1, <3>2, <3>4, LimitAssumption DEF Budget
    <3> QED BY <1>5, <2>3, <3>3, <3>4
  <2>4. CASE j # k
    <3>1. tr'[j] = tr[j] /\ tr[j].attempts \in Nat
      BY <1>5, <2>4 DEF Translation
    <3>2. Waiting(j)' = Waiting(j) /\ Waiting(j) \in {0, 1}
      BY <3>1 DEF Waiting
    <3> QED BY <2>1, <2>2, <3>1, <3>2, LimitAssumption DEF Budget
  <2> QED BY <2>3, <2>4
<1> QED BY <1>6 DEF ClaimBudget, Budget

\* A new request waits for its first claim, and no list can know it yet.
LEMMA CreateKeepsBudget ==
    ASSUME TaskInv, TaskInv', ListsAreSound, ClaimBudget, NEW u \in Users, NEW k \in Jobs,
           NEW r \in Requests \cup {NoRequest}, NEW x \in Texts,
           CreateFastTranslationTask(u, k, r, x), worker' = worker
    PROVE  ClaimBudget'
<1>1. /\ status[k] = "absent"
      /\ tr' = [tr EXCEPT ![k] = [status |-> "queued", stale |-> FALSE, attempts |-> 0]]
      /\ tr \in [Jobs -> Translation]
  BY DEF CreateFastTranslationTask, Insert, TaskInv, TypeOK
<1>2. \A j \in Jobs : Believers(j)' = Believers(j)
  BY DEF Believers, BelievesInRetry
<1>3. Cardinality(Workers) \in Nat /\ Cardinality(Workers) >= 1
  <2>1. Cardinality(Workers) \in Nat /\ Cardinality(Workers) # 0
    BY WorkersAssumption, FS_CardinalityType, FS_EmptySet
  <2> QED BY <2>1
<1>4. Budget(k)' <= MaxAttempts + Cardinality(Workers) - 1
  <2>1. Believers(k) = {}
    BY <1>1 DEF Believers, BelievesInRetry, ListsAreSound
  <2>2. Cardinality(Believers(k)') = 0
    BY <1>2, <2>1, FS_EmptySet
  <2>3. tr'[k].attempts = 0 /\ Waiting(k)' = 1
    BY <1>1 DEF Waiting
  <2> QED BY <1>3, <2>2, <2>3, LimitAssumption, AttemptsAssumption DEF Budget
<1>5. ASSUME NEW j \in Jobs, j # k
      PROVE  Budget(j)' <= MaxAttempts + Cardinality(Workers) - 1
  <2>1. tr'[j] = tr[j]
    BY <1>1, <1>5
  <2> QED BY <1>2, <2>1 DEF ClaimBudget, Budget, Waiting
<1> QED BY <1>4, <1>5 DEF ClaimBudget, Budget

LEMMA BudgetStep ==
    ASSUME WorkersInv, TaskInv', [WorkersNext]_workerVars
    PROVE  ClaimBudget'
<1>1. TaskInv /\ WorkersTypeOK /\ ListsAreSound /\ ClaimBudget /\ worker \in [Workers -> Worker]
  BY DEF WorkersInv, WorkersTypeOK
<1>2. /\ \A w \in Workers : worker[w].pc = "call" => worker[w].job \in Jobs
      /\ \A w \in Workers : \A seen \in worker[w].todo : seen.job \in Jobs
  BY <1>1 DEF WorkersTypeOK, Worker, SeenRow
<1>3. ASSUME worker' = worker, \A j \in Jobs : TrQuiet(j) PROVE ClaimBudget'
  <2>1. \A j \in Jobs : Believers(j)' \subseteq Believers(j)
    BY <1>3 DEF Believers, BelievesInRetry
  <2> QED BY <1>1, <1>3, <2>1, QuietStepsKeepBudget
<1>4. ASSUME NEW w \in Workers, worker' = [worker EXCEPT ![w] = worker'[w]],
             worker'[w].pc # "recover"
             \/ (worker'[w].pc = worker[w].pc /\ worker'[w].todo \subseteq worker[w].todo),
             UNCHANGED tr \/ \E j \in Jobs : CompleteTranslation(j) \/ FailTranslation(j)
      PROVE  ClaimBudget'
  <2>1. \A j \in Jobs : Believers(j)' \subseteq Believers(j)
    BY <1>1, <1>4, QuietWorker
  <2>2. \A j \in Jobs : TrQuiet(j)
    BY <1>1, <1>4, QuietTransactions
  <2> QED BY <1>1, <2>1, <2>2, QuietStepsKeepBudget
<1>5. ASSUME NEW w \in Workers, Recover(w) PROVE ClaimBudget'
  <2>1. CASE FinishRecovery(w)
    <3>1. \A j \in Jobs : ~(tr[j].status = "processing" /\ status[j] \in Refunded)
      BY <1>1 DEF TaskInv, TranslationFollowsTask
    <3>2. tr' = tr
      BY <1>1, <2>1, <3>1 DEF FinishRecovery, TaskInv, TypeOK
    <3> QED BY <1>1, <1>4, <2>1, <3>2 DEF FinishRecovery, Becomes, Worker
  <2> QED BY <1>1, <1>5, <2>1, RecoveryKeepsBudget, RequeueKeepsBudget DEF Recover
<1>6. ASSUME NEW w \in Workers, Serve(w) PROVE ClaimBudget'
  <2>1. CASE NothingToClaim(w)
    BY <2>1, <1>1, <1>4 DEF NothingToClaim, Becomes, vars, Worker
  <2>2. CASE ReadUnserviceable(w)
    BY <2>2, <1>1, <1>4 DEF ReadUnserviceable, vars, Worker
  <2>3. CASE FailUnserviceable(w)
    <3>1. UNCHANGED tr \/ \E j \in Jobs : FailTranslation(j)
      BY <2>3, <1>2 DEF FailUnserviceable, FailIfTranslating, vars
    <3> QED BY <2>3, <3>1, <1>1, <1>4 DEF FailUnserviceable, Becomes, Worker
  <2>4. CASE CallSucceeds(w)
    <3>1. UNCHANGED tr \/ \E j \in Jobs : CompleteTranslation(j)
      BY <2>4, <1>2 DEF CallSucceeds, vars
    <3>2. worker' = [worker EXCEPT ![w].pc = "start", ![w].job = NoJob]
      BY <2>4 DEF CallSucceeds, DropRequest
    <3> QED BY <1>1, <1>4, <3>1, <3>2 DEF Worker
  <2>5. CASE CallFails(w)
    <3>1. UNCHANGED tr \/ \E j \in Jobs : FailTranslation(j)
      BY <2>5, <1>2 DEF CallFails, FailIfTranslating, vars
    <3>2. worker' = [worker EXCEPT ![w].pc = "start", ![w].job = NoJob]
      BY <2>5 DEF CallFails, DropRequest
    <3> QED BY <1>1, <1>4, <3>1, <3>2 DEF Worker
  <2> QED BY <1>1, <1>6, <2>1, <2>2, <2>3, <2>4, <2>5, ClaimKeepsBudget DEF Serve
<1>7. ASSUME NEW w \in Workers, RecoveryComesDue(w) \/ Restart(w) PROVE ClaimBudget'
  <2>1. CASE RecoveryComesDue(w)
    BY <2>1, <1>1, <1>4 DEF RecoveryComesDue, vars, Worker
  <2>2. CASE Restart(w)
    <3>1. PICK on \in BOOLEAN : worker' = [worker EXCEPT ![w] = Started(on)] /\ tr' = tr
      BY <2>2 DEF Restart, vars
    <3>2. worker'[w] = Started(on) /\ Started(on).pc = "start"
      BY <1>1, <3>1 DEF Started
    <3> QED BY <1>4, <3>1, <3>2
  <2> QED BY <1>7, <2>1, <2>2
<1>8. ASSUME NEW w \in Workers, Fault(w) PROVE ClaimBudget'
  <2>1. CASE CallFailureLost(w)
    BY <2>1, <1>1, <1>4 DEF CallFailureLost, DropRequest, vars, Worker
  <2>2. CASE RowLost(w)
    <3>1. PICK seen \in worker[w].todo : worker' = [worker EXCEPT ![w].todo = @ \ {seen}]
      BY <2>2 DEF RowLost
    <3>2. /\ worker'[w].pc = worker[w].pc /\ worker'[w].todo \subseteq worker[w].todo
          /\ worker' = [worker EXCEPT ![w] = worker'[w]]
      BY <1>1, <3>1 DEF Worker
    <3>3. UNCHANGED tr
      BY <2>2 DEF RowLost, vars
    <3> QED BY <1>4, <3>2, <3>3
  <2>3. CASE Crash(w)
    BY <2>3, <1>1, <1>4 DEF Crash, Started, vars
  <2> QED BY <1>8, <2>1, <2>2, <2>3 DEF Fault
<1>9. ASSUME NEW k \in Jobs, GrowsStale(k) PROVE ClaimBudget'
  BY <1>1, <1>3, <1>9, QuietTransactions DEF GrowsStale
<1>10. CASE Others
  <2>1. CASE \E u \in Users, k \in Jobs, r \in Requests \cup {NoRequest}, x \in Texts :
                 CreateFastTranslationTask(u, k, r, x)
    BY <1>1, <1>10, <2>1, CreateKeepsBudget DEF Others
  <2>2. CASE \E k \in Jobs : CancelTask(k) \/ ClaimQueued(k) \/ RenderSucceeds(k) \/ RenderFails(k)
    BY <1>1, <1>3, <1>10, <2>2, QuietTransactions DEF Others
  <2> QED BY <1>10, <2>1, <2>2 DEF Others
<1>11. CASE UNCHANGED workerVars
  BY <1>1, <1>3, <1>11, QuietTransactions DEF workerVars
<1> QED
  BY <1>5, <1>6, <1>7, <1>8, <1>9, <1>10, <1>11 DEF WorkersNext, WorkerStep

LEMMA ListsStep ==
    ASSUME WorkersInv, TaskInv', [Next]_vars, [WorkersNext]_workerVars
    PROVE  ListsAreSound'
<1>1. /\ \A j \in Jobs : status[j] # "absent" => status'[j] # "absent"
      /\ worker \in [Workers -> Worker] /\ ListsAreSound
      /\ \A w \in Workers : \A seen \in worker[w].todo : seen.job \in Jobs
  BY RowsStay DEF WorkersInv, WorkersTypeOK, Worker, SeenRow
<1>2. \A jobs \in SUBSET {j \in Jobs : status[j] = "translating"} :
          /\ \A seen \in Seen(jobs) : seen.job \in Jobs /\ status[seen.job] # "absent"
          /\ \A a, b \in Seen(jobs) : a.job = b.job => a = b
  BY DEF Seen
<1>3. ASSUME NEW w \in Workers, worker' = [worker EXCEPT ![w] = worker'[w]],
             \/ worker'[w].todo \subseteq worker[w].todo
             \/ \E jobs \in SUBSET {j \in Jobs : status[j] = "translating"} :
                    worker'[w].todo = Seen(jobs)
      PROVE  ListsAreSound'
  <2>1. \A v \in Workers \ {w} : worker'[v] = worker[v]
    BY <1>1, <1>3
  <2>2. /\ \A seen \in worker'[w].todo : status'[seen.job] # "absent"
        /\ \A a, b \in worker'[w].todo : a.job = b.job => a = b
    <3>1. CASE worker'[w].todo \subseteq worker[w].todo
      BY <1>1, <3>1 DEF ListsAreSound
    <3>2. CASE \E jobs \in SUBSET {j \in Jobs : status[j] = "translating"} :
                   worker'[w].todo = Seen(jobs)
      BY <1>1, <1>2, <3>2
    <3> QED BY <1>3, <3>1, <3>2
  <2> QED BY <1>1, <2>1, <2>2 DEF ListsAreSound
<1>4. ASSUME worker' = worker PROVE ListsAreSound'
  BY <1>1, <1>4 DEF ListsAreSound
<1>5. ASSUME NEW w \in Workers, StartRecovery(w) \/ ReadUnserviceable(w) PROVE ListsAreSound'
  <2>1. /\ StaleTranslations \in SUBSET {j \in Jobs : status[j] = "translating"}
        /\ OpenTranslations \in SUBSET {j \in Jobs : status[j] = "translating"}
    BY DEF StaleTranslations, OpenTranslations
  <2>2. CASE StartRecovery(w)
    BY <1>1, <1>3, <2>1, <2>2 DEF StartRecovery, Worker
  <2>3. CASE ReadUnserviceable(w)
    <3>1. worker' = [worker EXCEPT ![w].pc = "failall", ![w].todo = Seen(OpenTranslations)]
      BY <2>3 DEF ReadUnserviceable
    <3>2. /\ worker'[w].todo = Seen(OpenTranslations)
          /\ worker' = [worker EXCEPT ![w] = worker'[w]]
      BY <1>1, <3>1 DEF Worker
    <3> QED BY <1>3, <2>1, <3>2
  <2> QED BY <1>5, <2>2, <2>3
<1>6. ASSUME NEW w \in Workers, RecoverRow(w) \/ RowLost(w) PROVE ListsAreSound'
  <2>1. PICK seen \in worker[w].todo : worker' = [worker EXCEPT ![w].todo = @ \ {seen}]
    BY <1>6 DEF RecoverRow, RowLost
  <2> QED BY <1>1, <1>3, <2>1 DEF Worker
<1>7. ASSUME NEW w \in Workers, FinishRecovery(w) \/ ClaimNext(w) \/ NothingToClaim(w)
      PROVE  ListsAreSound'
  BY <1>1, <1>3, <1>7 DEF FinishRecovery, ClaimNext, NothingToClaim, Becomes, Worker
<1>8. ASSUME NEW w \in Workers, FailUnserviceable(w) PROVE ListsAreSound'
  BY <1>1, <1>3, <1>8 DEF FailUnserviceable, Becomes, Worker
<1>9. ASSUME NEW w \in Workers, CallSucceeds(w) \/ CallFails(w) \/ CallFailureLost(w)
      PROVE  ListsAreSound'
  BY <1>1, <1>3, <1>9 DEF CallSucceeds, CallFails, CallFailureLost, DropRequest, Worker
<1>10. ASSUME NEW w \in Workers, RecoveryComesDue(w) \/ Restart(w) \/ Crash(w)
       PROVE  ListsAreSound'
  <2>1. CASE RecoveryComesDue(w)
    BY <1>1, <1>3, <2>1 DEF RecoveryComesDue, Worker
  <2>2. CASE Restart(w) \/ Crash(w)
    <3>1. PICK new : worker' = [worker EXCEPT ![w] = new] /\ new.todo = {}
      BY <2>2 DEF Restart, Crash, Started
    <3>2. worker'[w].todo = {} /\ worker' = [worker EXCEPT ![w] = worker'[w]]
      BY <1>1, <3>1
    <3> QED BY <1>3, <3>2
  <2> QED BY <1>10, <2>1, <2>2
<1> QED
  BY <1>4, <1>5, <1>6, <1>7, <1>8, <1>9, <1>10
     DEF WorkersNext, WorkerStep, Recover, Serve, Fault, GrowsStale, Others, workerVars

LEMMA WorkersInvStep == WorkersInv /\ [WorkersNext]_workerVars => WorkersInv'
<1> SUFFICES ASSUME WorkersInv, [WorkersNext]_workerVars PROVE WorkersInv'
  OBVIOUS
<1>1. TaskInv /\ WorkersTypeOK
  BY DEF WorkersInv
<1>2. [Next]_vars /\ TaskInv' /\ WorkersTypeOK'
  BY <1>1, TypedProtocolStep
<1> QED BY <1>2, BudgetStep, ListsStep DEF WorkersInv

LEMMA WorkersInitInv == WorkersInit => WorkersInv
<1> SUFFICES ASSUME WorkersInit PROVE WorkersInv
  OBVIOUS
<1>1. \A w \in Workers : worker[w].todo = {} /\ worker[w].pc = "start"
  BY DEF WorkersInit, Started
<1>2. ListsAreSound
  BY <1>1 DEF ListsAreSound
<1>3. ASSUME NEW j \in Jobs
      PROVE  tr[j].attempts + Waiting(j) + Cardinality(Believers(j))
                 <= MaxAttempts + Cardinality(Workers) - 1
  <2>1. Believers(j) = {}
    BY <1>1 DEF Believers, BelievesInRetry
  <2>2. tr[j].attempts = 0 /\ Waiting(j) = 0
    BY DEF WorkersInit, Init, NoTranslation, Waiting
  <2>3. Cardinality(Workers) \in Nat /\ Cardinality(Workers) # 0
    BY WorkersAssumption, FS_CardinalityType, FS_EmptySet
  <2>4. Cardinality(Believers(j)) = 0
    BY <2>1, FS_EmptySet
  <2> QED BY <2>2, <2>3, <2>4, LimitAssumption
<1> QED BY <1>2, <1>3, WorkersInitTyped DEF WorkersInv, ClaimBudget

\* With n server processes a translation is claimed at most
\* max_attempts + n - 1 times; with one process, at most max_attempts times.
THEOREM AttemptsAreBounded == WorkersSpec => []AttemptsBounded
<1>1. WorkersInv => AttemptsBounded
  <2> SUFFICES ASSUME WorkersInv, NEW j \in Jobs
               PROVE  tr[j].attempts <= MaxAttempts + Cardinality(Workers) - 1
    BY DEF AttemptsBounded
  <2>1. tr[j].attempts + Waiting(j) + Cardinality(Believers(j))
            <= MaxAttempts + Cardinality(Workers) - 1
    BY DEF WorkersInv, ClaimBudget
  <2>2. tr[j].attempts \in Nat /\ Waiting(j) \in Nat
    BY DEF WorkersInv, TaskInv, TypeOK, Translation, Waiting
  <2>3. Cardinality(Believers(j)) \in Nat /\ Cardinality(Workers) \in Nat
    BY BelieversAreFinite
  <2> QED BY <2>1, <2>2, <2>3, LimitAssumption
<1> QED BY <1>1, WorkersInitInv, WorkersInvStep, PTL DEF WorkersSpec
===========================================================================
