---------------------------- MODULE ServicesProofs ----------------------------
(* Theorems about Disambiguation, SupportThreads, TaskUploads, RateLimits and
   QueueEstimates, five parts of the server that share no state, for any number
   of requests, messages, characters and tasks. *)
EXTENDS Disambiguation, SupportThreads, TaskUploads, RateLimits, QueueEstimates, SumTheorems

----------------------------------------------------------------------------
(* Support threads *)

SupportInv ==
    /\ SupportTypeOK
    /\ Len(posts) <= PostBound
    /\ ticket = "none" => posts = <<>>
    /\ AdminReadIsShown

LEMMA SupportInit_Inv == SupportInit => SupportInv
<1> SUFFICES ASSUME SupportInit PROVE SupportInv
  OBVIOUS
<1>1. posts = <<>> /\ posts \in Seq(Post) /\ Len(posts) <= PostBound
  BY SupportConstants DEF SupportInit
<1>2. AdminReadIsShown
  BY <1>1 DEF AdminReadIsShown, Listed
<1>3. seen \in [{"user", "admin"} -> SUBSET (1..PostBound)]
  BY DEF SupportInit
<1>4. desk \in [Desks -> SUBSET (0..PostBound)] /\ unshown \subseteq 0..PostBound /\ page \in BOOLEAN
  BY DEF SupportInit
<1> QED BY <1>1, <1>2, <1>3, <1>4 DEF SupportInit, SupportInv, SupportTypeOK

\* What an administrator's request has marked, or a later one shown.
Accounted == seen.admin \cup unshown \cup UNION {desk[d] : d \in Desks}

LEMMA SendKeepsShown ==
    ASSUME SupportInv, NEW by \in {"user", "admin"}, Len(posts) < PostBound, Send(by),
           UNCHANGED <<desk, seen, unshown>>
    PROVE  posts' \in Seq(Post) /\ Len(posts') <= PostBound /\ AdminReadIsShown'
<1> DEFINE post == [by |-> by, readByUser |-> by = "user", readByAdmin |-> by = "admin"]
<1>1. post \in Post /\ post.by = by /\ (post.readByAdmin <=> by = "admin")
  BY DEF Post
<1>2. posts' = Append(posts, post) /\ posts \in Seq(Post) /\ Len(posts) \in Nat
  BY DEF Send, SupportInv, SupportTypeOK
<1> HIDE DEF post
<1>3. posts' \in Seq(Post) /\ Len(posts') = Len(posts) + 1
  BY <1>1, <1>2
<1>4. ASSUME NEW n \in Listed', posts'[n].by = "user", posts'[n].readByAdmin PROVE n \in Accounted
  <2>1. n \in 1..Len(posts) + 1 /\ n <= ListLimit
    BY <1>2, <1>3, <1>4 DEF Listed
  <2>2. CASE n = Len(posts) + 1
    BY <1>1, <1>2, <1>4, <2>2
  <2>3. CASE n \in 1..Len(posts)
    <3>1. posts'[n] = posts[n] /\ n \in Listed
      BY <1>2, <2>1, <2>3 DEF Listed
    <3> QED BY <1>4, <3>1 DEF SupportInv, AdminReadIsShown, Accounted
  <2> QED BY <1>2, <2>1, <2>2, <2>3
<1>5. PostBound \in Nat
  BY SupportConstants
<1>6. Accounted' = Accounted
  BY DEF Accounted
<1>7. AdminReadIsShown'
  BY <1>4, <1>6 DEF AdminReadIsShown, Accounted
<1> QED BY <1>2, <1>3, <1>5, <1>7

\* A step that sends nothing and takes nothing out of Accounted but what is
\* shown with it.
LEMMA MarkingKeepsShown ==
    ASSUME SupportInv, DOMAIN posts' = DOMAIN posts, posts' = [n \in DOMAIN posts |-> posts'[n]],
           \A n \in DOMAIN posts : posts'[n] \in Post /\ posts'[n].by = posts[n].by,
           \A n \in Listed : posts'[n].by = "user" /\ posts'[n].readByAdmin
                                => n \in Accounted' \/ (posts[n].readByAdmin /\ n \notin Accounted)
    PROVE  /\ posts' \in Seq(Post) /\ Len(posts') <= PostBound /\ AdminReadIsShown'
           /\ posts = <<>> => posts' = <<>>
<1>1. posts \in Seq(Post) /\ DOMAIN posts = 1..Len(posts) /\ Len(posts) \in Nat
  BY DEF SupportInv, SupportTypeOK
<1>2. posts' \in [1..Len(posts) -> Post]
  BY <1>1
<1>3. posts' \in Seq(Post)
  BY <1>1, <1>2
<1>4. Len(posts') = Len(posts)
  BY <1>1, <1>3
<1>5. ASSUME NEW n \in Listed', posts'[n].by = "user", posts'[n].readByAdmin PROVE n \in Accounted'
  <2>1. n \in Listed /\ posts[n].by = "user"
    BY <1>1, <1>5 DEF Listed
  <2> QED BY <1>5, <2>1 DEF SupportInv, AdminReadIsShown, Accounted
<1>6. posts = <<>> => posts' = <<>>
  BY <1>3, <1>4
<1> QED BY <1>3, <1>4, <1>5, <1>6 DEF SupportInv, AdminReadIsShown, Accounted

LEMMA SupportPreserved == SupportInv /\ [SupportNext]_supportVars => SupportInv'
<1> SUFFICES ASSUME SupportInv, [SupportNext]_supportVars PROVE SupportInv'
  OBVIOUS
<1>1. /\ posts \in Seq(Post) /\ DOMAIN posts = 1..Len(posts) /\ Len(posts) \in 0..PostBound
      /\ \A n \in DOMAIN posts : posts[n] \in Post
      /\ desk \in [Desks -> SUBSET (0..PostBound)] /\ seen.admin \subseteq 1..PostBound
      /\ seen.user \subseteq 1..PostBound /\ unshown \subseteq 0..PostBound
      /\ seen = [user |-> seen.user, admin |-> seen.admin]
      /\ ticket = "none" => posts = <<>>
  BY SupportConstants DEF SupportInv, SupportTypeOK
<1>2. Listed \subseteq 1..PostBound /\ UnreadByAdmin \subseteq 1..PostBound
  BY <1>1, SupportConstants DEF Listed, UnreadByAdmin
<1>3. ASSUME CreateThread \/ \E by \in {"user", "admin"} : AddMessage(by) PROVE SupportInv'
  <2>1. PICK by \in {"user", "admin"} : /\ Send(by) /\ Len(posts) < PostBound /\ UNCHANGED <<desk, page, seen, unshown>>
                                        /\ ticket' \in {"open", "closed"}
    <3>1. CASE CreateThread
      BY <1>1, <3>1, SupportConstants DEF CreateThread, SupportInv
    <3>2. CASE \E by \in {"user", "admin"} : AddMessage(by)
      BY <3>2 DEF AddMessage
    <3> QED BY <1>3, <3>1, <3>2
  <2>2. posts' \in Seq(Post) /\ Len(posts') <= PostBound /\ AdminReadIsShown'
    BY <2>1, SendKeepsShown
  <2> QED BY <2>1, <2>2 DEF SupportInv, SupportTypeOK
<1>4. ASSUME NEW d \in Desks, MarkThenList(d) PROVE SupportInv'
  <2>1. CASE desk[d] = {}
    <3>1. MarkRead(UnreadByAdmin) /\ desk' = [desk EXCEPT ![d] = UnreadByAdmin \cup {0}] /\ UNCHANGED <<ticket, page, seen, unshown>>
      BY <1>4, <2>1 DEF MarkThenList
    <3>2. posts' = [n \in DOMAIN posts |-> posts'[n]] /\ DOMAIN posts' = DOMAIN posts
      BY <3>1 DEF MarkRead
    <3>3. \A n \in DOMAIN posts : /\ posts'[n] \in Post /\ posts'[n].by = posts[n].by
                                  /\ n \notin UnreadByAdmin => posts'[n] = posts[n]
      BY <1>1, <3>1 DEF MarkRead, Post
    <3>4. UnreadByAdmin \subseteq Accounted' /\ Accounted \subseteq Accounted'
      BY <1>1, <2>1, <3>1 DEF Accounted
    <3>5. \A n \in Listed : posts'[n].by = "user" /\ posts'[n].readByAdmin
                               => n \in Accounted' \/ (posts[n].readByAdmin /\ n \notin Accounted)
      BY <3>3, <3>4 DEF Listed
    <3>6. /\ posts' \in Seq(Post) /\ Len(posts') <= PostBound /\ AdminReadIsShown'
          /\ posts = <<>> => posts' = <<>>
      BY <3>2, <3>3, <3>5, MarkingKeepsShown
    <3>7. desk' \in [Desks -> SUBSET (0..PostBound)]
      BY <1>1, <1>2, <3>1, SupportConstants
    <3> QED BY <3>1, <3>6, <3>7 DEF SupportInv, SupportTypeOK
  <2>2. CASE desk[d] # {}
    <3>1. UNCHANGED <<ticket, posts, page, unshown>> /\ desk' = [desk EXCEPT ![d] = {}]
          /\ seen' = [seen EXCEPT !.admin = @ \cup Listed]
      BY <1>4, <2>2 DEF MarkThenList
    <3>2. seen' = [user |-> seen.user, admin |-> seen.admin \cup Listed]
      BY <1>1, <3>1
    <3>3. AdminReadIsShown'
      BY <3>1, <3>2 DEF AdminReadIsShown, Listed
    <3> QED BY <1>1, <1>2, <3>1, <3>2, <3>3 DEF SupportInv, SupportTypeOK
  <2> QED BY <2>1, <2>2
<1>5. ASSUME NEW d \in Desks, AdminFails(d) PROVE SupportInv'
  <2>1. UNCHANGED <<ticket, posts, page, seen>> /\ desk' = [desk EXCEPT ![d] = {}] /\ unshown' = unshown \cup desk[d]
    BY <1>5 DEF AdminFails
  <2>2. Accounted \subseteq Accounted'
    BY <1>1, <2>1 DEF Accounted
  <2>3. AdminReadIsShown'
    BY <2>1, <2>2 DEF SupportInv, AdminReadIsShown, Accounted, Listed
  <2> QED BY <1>1, <2>1, <2>3 DEF SupportInv, SupportTypeOK
<1>6. ASSUME UserLists PROVE SupportInv'
  <2>1. UNCHANGED <<ticket, posts, desk, unshown>> /\ page' = TRUE /\ seen' = [user |-> seen.user \cup Listed, admin |-> seen.admin]
    BY <1>1, <1>6 DEF UserLists
  <2> QED BY <1>1, <1>2, <2>1 DEF SupportInv, SupportTypeOK, AdminReadIsShown, Listed
<1>7. ASSUME UserMarks PROVE SupportInv'
  <2>1. /\ posts' = [n \in DOMAIN posts |-> posts'[n]] /\ DOMAIN posts' = DOMAIN posts
        /\ UNCHANGED <<ticket, desk, seen, unshown>> /\ page' = FALSE
    BY <1>7 DEF UserMarks
  <2>2. \A n \in DOMAIN posts : posts'[n] \in Post /\ posts'[n].by = posts[n].by
                                /\ posts'[n].readByAdmin = posts[n].readByAdmin
    BY <1>1, <1>7 DEF UserMarks, Post
  <2>3. Accounted' = Accounted /\ ticket' = ticket
    BY <2>1 DEF Accounted
  <2>4. \A n \in Listed : posts'[n].by = "user" /\ posts'[n].readByAdmin
                             => n \in Accounted' \/ (posts[n].readByAdmin /\ n \notin Accounted)
    BY <2>2, <2>3 DEF Listed
  <2>5. /\ posts' \in Seq(Post) /\ Len(posts') <= PostBound /\ AdminReadIsShown'
        /\ posts = <<>> => posts' = <<>>
    BY <2>1, <2>2, <2>4, MarkingKeepsShown
  <2> QED BY <2>1, <2>5 DEF SupportInv, SupportTypeOK
<1>8. ASSUME UNCHANGED <<posts, desk, seen, unshown, page>>,
             ticket' \in {"open", "closed"} \/ ticket' = ticket
      PROVE  SupportInv'
  BY <1>8 DEF SupportInv, SupportTypeOK, AdminReadIsShown, Listed
<1>9. ASSUME \E s \in {"open", "closed"} : SetStatus(s) PROVE SupportInv'
  BY <1>8, <1>9 DEF SetStatus
<1>10. ASSUME UNCHANGED supportVars PROVE SupportInv'
  BY <1>8, <1>10 DEF supportVars, SupportInv, SupportTypeOK
<1> QED BY <1>3, <1>4, <1>5, <1>6, <1>7, <1>9, <1>10 DEF SupportNext

\* A message an administrator's page has not shown does not count as read, but
\* for requests that failed (admin_support_thread_detail).
THEOREM ReadIsShown == SupportSpec => []AdminReadIsShown
<1>1. SupportInv => AdminReadIsShown
  BY DEF SupportInv
<1> QED BY <1>1, SupportInit_Inv, SupportPreserved, PTL DEF SupportSpec

\* Type correctness of the thread and its readers.
THEOREM SupportTypesHold == SupportSpec => []SupportTypeOK
<1>1. SupportInv => SupportTypeOK
  BY DEF SupportInv
<1> QED BY <1>1, SupportInit_Inv, SupportPreserved, PTL DEF SupportSpec

----------------------------------------------------------------------------
(* Uploads *)

\* Who has inserted a row or been refused saves nothing any more, and only a
\* cancelled task's file is removed by the cancel handler.
UploadInv ==
    /\ UploadTypeOK
    /\ PicturesFollowTasks
    /\ \A j \in Submits : /\ submit[j].pc # "over" => drawn[j] = "none"
                          /\ submit[j].pc = "saved" => j \in stored
                          /\ j \in remove => drawn[j] = "cancelled"

LEMMA UploadInit_Inv == UploadInit => UploadInv
<1> SUFFICES ASSUME UploadInit PROVE UploadInv
  OBVIOUS
<1>1. submit \in [Submits -> Submit]
  BY DEF UploadInit, Submit
<1> QED BY <1>1 DEF UploadInit, UploadInv, UploadTypeOK, PicturesFollowTasks

LEMMA UploadPreserved == UploadInv /\ [UploadNext]_uploadVars => UploadInv'
<1> SUFFICES ASSUME UploadInv, [UploadNext]_uploadVars PROVE UploadInv'
  OBVIOUS
<1>1. submit \in [Submits -> Submit] /\ UploadTypeOK
  BY DEF UploadInv, UploadTypeOK
<1> DEFINE Moves(j, pc) == submit' = [submit EXCEPT ![j].pc = pc]
<1>2. ASSUME NEW j \in Submits, NEW pc \in {"clean", "over"}, Moves(j, pc)
      PROVE  /\ submit' \in [Submits -> Submit] /\ submit'[j].pc = pc
             /\ \A k \in Submits : k # j => submit'[k] = submit[k]
  BY <1>1, <1>2 DEF Submit
<1> HIDE DEF Moves
<1>3. ASSUME NEW j \in Submits, NEW r \in SubmitIds \cup {NoSubmitId}, NEW p \in Pictures, SaveUpload(j, r, p)
      PROVE  UploadInv'
  <2>1. /\ submit' \in [Submits -> Submit] /\ submit'[j].pc = "saved"
        /\ \A k \in Submits : k # j => submit'[k] = submit[k]
    BY <1>1, <1>3 DEF SaveUpload, Submit
  <2> QED BY <1>1, <1>3, <2>1 DEF SaveUpload, UploadInv, UploadTypeOK, PicturesFollowTasks
<1>4. ASSUME NEW j \in Submits, SaveBreaksOff(j) PROVE UploadInv'
  <2>1. Moves(j, "over")
    BY <1>4 DEF SaveBreaksOff, Moves
  <2> QED BY <1>1, <1>2, <1>4, <2>1 DEF SaveBreaksOff, UploadInv, UploadTypeOK, PicturesFollowTasks
<1>5. ASSUME NEW j \in Submits, CreateInserts(j) PROVE UploadInv'
  <2>1. Moves(j, "over")
    BY <1>5 DEF CreateInserts, Moves
  <2> QED BY <1>1, <1>2, <1>5, <2>1 DEF CreateInserts, UploadInv, UploadTypeOK, PicturesFollowTasks
<1>6. ASSUME NEW j \in Submits, CreateAnswers(j) \/ CreateRefuses(j) PROVE UploadInv'
  <2>1. Moves(j, "clean") /\ submit[j].pc = "saved" /\ UNCHANGED <<stored, drawn, remove, orphans>>
    BY <1>6 DEF CreateAnswers, CreateRefuses, Moves
  <2> QED BY <1>1, <1>2, <2>1 DEF UploadInv, UploadTypeOK, PicturesFollowTasks
<1>7. ASSUME NEW j \in Submits, Clean(j) PROVE UploadInv'
  <2>1. Moves(j, "over")
    BY <1>7 DEF Clean, Moves
  <2> QED BY <1>1, <1>2, <1>7, <2>1 DEF Clean, UploadInv, UploadTypeOK, PicturesFollowTasks
<1>8. ASSUME NEW j \in Submits, Render(j) \/ TaskEnds(j) \/ CancelUpload(j) \/ RemoveCancelled(j) PROVE UploadInv'
  BY <1>1, <1>8 DEF Render, TaskEnds, CancelUpload, RemoveCancelled, UploadInv, UploadTypeOK, PicturesFollowTasks
<1>9. ASSUME NEW j \in Submits, RemoveFails(j) PROVE UploadInv'
  <2>1. Moves(j, "over")
    BY <1>9 DEF RemoveFails, Moves
  <2> QED BY <1>1, <1>2, <1>9, <2>1 DEF RemoveFails, UploadInv, UploadTypeOK, PicturesFollowTasks
<1>10. ASSUME UploadsStop PROVE UploadInv'
  <2>1. /\ submit' \in [Submits -> Submit]
        /\ \A j \in Submits : submit'[j].pc = IF submit[j].pc = "start" THEN "start" ELSE "over"
    BY <1>1, <1>10 DEF UploadsStop, Submit
  <2> QED BY <1>1, <1>10, <2>1 DEF UploadsStop, UploadInv, UploadTypeOK, PicturesFollowTasks
<1>11. ASSUME UNCHANGED uploadVars PROVE UploadInv'
  BY <1>11 DEF uploadVars, UploadInv, UploadTypeOK, PicturesFollowTasks
<1> QED BY <1>3, <1>4, <1>5, <1>6, <1>7, <1>8, <1>9, <1>10, <1>11 DEF UploadNext

\* The picture of a task is there until the task is drawn, and goes with the
\* request or the cancelled task (create_task, cancel_task).
THEOREM PicturesStayWithTasks == UploadSpec => []PicturesFollowTasks
<1>1. UploadInv => PicturesFollowTasks
  BY DEF UploadInv
<1> QED BY <1>1, UploadInit_Inv, UploadPreserved, PTL DEF UploadSpec

\* Type correctness of the uploads.
THEOREM UploadTypesHold == UploadSpec => []UploadTypeOK
<1>1. UploadInv => UploadTypeOK
  BY DEF UploadInv
<1> QED BY <1>1, UploadInit_Inv, UploadPreserved, PTL DEF UploadSpec

----------------------------------------------------------------------------
(* Rate limits *)

RateInv == RateTypeOK /\ LockoutEnds

LEMMA WaitingFinite ==
    ASSUME NEW k PROVE IsFiniteSet(Waiting(k)) /\ Cardinality(Waiting(k)) \in Nat
<1>1. Waiting(k) \subseteq RateCallers
  BY DEF Waiting
<1> QED BY <1>1, RateConstants, FS_Subset, FS_CardinalityType

\* A handler is at one key.
LEMMA AtOneKey ==
    ASSUME RateTypeOK, NEW c \in RateCallers, NEW k \in RateKeys, NEW l \in RateKeys, At(c, k), At(c, l)
    PROVE  k = l
BY RateConstants DEF At

\* What a handler's move does to those who wait at a key: nobody else moves.
LEMMA OthersWait ==
    ASSUME RateTypeOK, NEW c \in RateCallers, NEW row \in Rater, rater' = [rater EXCEPT ![c] = row],
           row.pc # "expire", NEW k \in RateKeys
    PROVE  Waiting(k)' = Waiting(k) \ {c}
BY DEF RateTypeOK, Waiting, At

\* A handler that was not waiting and does not begin to leaves the bound as it is.
LEMMA MoveKeepsBound ==
    ASSUME RateInv, NEW c \in RateCallers, NEW row \in Rater, rater' = [rater EXCEPT ![c] = row],
           row.pc # "expire", rater[c].pc # "expire", breaks' = breaks,
           \A k \in RateKeys : counter'[k].expires \/ counter'[k] = counter[k]
    PROVE  LockoutEnds'
<1>1. ASSUME NEW k \in RateKeys PROVE Waiting(k)' = Waiting(k)
  BY OthersWait DEF RateInv, Waiting
<1> QED BY <1>1 DEF RateInv, LockoutEnds

\* A handler that goes away with the counter as it is costs one of the failures.
LEMMA FailureKeepsBound ==
    ASSUME RateInv, NEW c \in RateCallers, NEW row \in Rater, rater' = [rater EXCEPT ![c] = row],
           row.pc # "expire", breaks' = breaks + 1, counter' = counter
    PROVE  LockoutEnds'
<1>1. ASSUME NEW k \in RateKeys, ~counter[k].expires
      PROVE  counter[k].count <= breaks' + Cardinality(Waiting(k)')
  <2>1. Waiting(k)' = Waiting(k) \ {c}
    BY OthersWait DEF RateInv
  <2>2. Cardinality(Waiting(k)) <= Cardinality(Waiting(k) \ {c}) + 1 /\ Cardinality(Waiting(k) \ {c}) \in Nat
    <3>1. Cardinality(Waiting(k) \ {c}) = IF c \in Waiting(k) THEN Cardinality(Waiting(k)) - 1 ELSE Cardinality(Waiting(k))
      BY WaitingFinite, FS_RemoveElement
    <3>2. IsFiniteSet(Waiting(k) \ {c})
      BY WaitingFinite, FS_RemoveElement
    <3> QED BY <3>1, <3>2, WaitingFinite, FS_CardinalityType
  <2>3. counter[k].count <= breaks + Cardinality(Waiting(k)) /\ counter[k].count \in Nat /\ breaks \in Nat
    BY <1>1 DEF RateInv, RateTypeOK, LockoutEnds
  <2> QED BY <2>1, <2>2, <2>3, WaitingFinite
<1> QED BY <1>1 DEF LockoutEnds

LEMMA RaisedKeyRow ==
    ASSUME RateTypeOK, NEW c \in RateCallers, NEW k \in RateKeys, NEW over \in BOOLEAN, NEW missed \in BOOLEAN,
           RaisedKey(c, k, over, missed)
    PROVE  \E row \in Rater : rater' = [rater EXCEPT ![c] = row] /\ row.pc \in {"decide", "raise"}
<1> DEFINE pc == IF rater[c].keys = {k} THEN "decide" ELSE "raise"
           keys == rater[c].keys \ {k}
           wasOver == rater[c].over \/ over
           wasMissed == rater[c].missed \/ missed
           row == [rater[c] EXCEPT !.keys = keys, !.pc = pc, !.over = wasOver, !.missed = wasMissed]
<1>1. rater' = [rater EXCEPT ![c] = row]
  BY DEF RaisedKey
<1>2. rater[c] \in Rater /\ keys \in SUBSET RateKeys /\ pc \in {"decide", "raise"}
  BY DEF RateTypeOK, Rater
<1>3. wasOver \in BOOLEAN /\ wasMissed \in BOOLEAN
  OBVIOUS
<1> HIDE DEF pc, keys, wasOver, wasMissed
<1>4. row \in Rater /\ row.pc = pc
  BY <1>2, <1>3 DEF Rater
<1> HIDE DEF row
<1> QED BY <1>1, <1>2, <1>4

LEMMA RaiseKeepsInv ==
    ASSUME RateInv, NEW c \in RateCallers, NEW k \in RateKeys, Raise(c, k)
    PROVE  /\ rater' \in [RateCallers -> Rater] /\ counter' \in [RateKeys -> [count : Nat, expires : BOOLEAN]]
           /\ LockoutEnds'
<1> DEFINE count == counter[k].count + 1
<1>1. RateTypeOK /\ rater \in [RateCallers -> Rater] /\ counter \in [RateKeys -> [count : Nat, expires : BOOLEAN]]
  BY DEF RateInv, RateTypeOK
<1>2. /\ counter' = [counter EXCEPT ![k].count = count] /\ count \in Nat /\ breaks' = breaks
      /\ rater[c].pc = "raise" /\ At(c, k)
  BY <1>1 DEF Raise
<1>3. /\ counter' \in [RateKeys -> [count : Nat, expires : BOOLEAN]]
      /\ counter'[k].count = count /\ counter'[k].expires = counter[k].expires
      /\ \A l \in RateKeys : l # k => counter'[l] = counter[l]
  BY <1>1, <1>2
<1>4. CASE counter[k].expires
  <2>0. (count > RateLimit) \in BOOLEAN
    OBVIOUS
  <2>1. RaisedKey(c, k, count > RateLimit, FALSE)
    BY <1>4, Zenon DEF Raise
  <2> DEFINE over == count > RateLimit
             missed == FALSE
  <2> HIDE DEF over, missed
  <2>2. PICK row \in Rater : rater' = [rater EXCEPT ![c] = row] /\ row.pc \in {"decide", "raise"}
    <3>1. over \in BOOLEAN /\ missed \in BOOLEAN
      BY <2>0 DEF over, missed
    <3>2. RaisedKey(c, k, over, missed)
      BY <2>1, Zenon DEF over, missed
    <3> QED BY <1>1, <3>1, <3>2, RaisedKeyRow
  <2>3. \A l \in RateKeys : counter'[l].expires \/ counter'[l] = counter[l]
    BY <1>3, <1>4
  <2>4. LockoutEnds'
    BY <1>2, <2>2, <2>3, MoveKeepsBound
  <2> QED BY <1>1, <1>3, <2>2, <2>4
<1>5. CASE ~counter[k].expires
  <2>1. rater' = [rater EXCEPT ![c].pc = "expire"]
    BY <1>5 DEF Raise
  <2>2. /\ rater' \in [RateCallers -> Rater] /\ rater'[c].pc = "expire" /\ rater'[c].keys = rater[c].keys
        /\ \A b \in RateCallers : b # c => rater'[b] = rater[b]
    BY <1>1, <2>1 DEF Rater
  <2>3. Waiting(k)' = Waiting(k) \cup {c} /\ c \notin Waiting(k)
    BY <1>2, <2>2 DEF Waiting, At
  <2>4. Cardinality(Waiting(k)') = Cardinality(Waiting(k)) + 1
    BY <2>3, WaitingFinite, FS_AddElement
  <2>5. ASSUME NEW l \in RateKeys, l # k PROVE Waiting(l)' = Waiting(l)
    <3>1. ~At(c, l)
      BY <1>1, <1>2, <2>5, AtOneKey
    <3> QED BY <2>2, <3>1 DEF Waiting, At
  <2>6. ASSUME NEW l \in RateKeys, ~counter'[l].expires PROVE counter'[l].count <= breaks' + Cardinality(Waiting(l)')
    <3>1. counter[l].count <= breaks + Cardinality(Waiting(l)) /\ counter[l].count \in Nat /\ breaks \in Nat
      <4>1. ~counter[l].expires
        BY <1>3, <1>5, <2>6
      <4> QED BY <1>1, <4>1, RateConstants DEF RateInv, RateTypeOK, LockoutEnds
    <3> QED BY <1>2, <1>3, <2>4, <2>5, <3>1, WaitingFinite
  <2> QED BY <1>3, <2>2, <2>6 DEF LockoutEnds
<1> QED BY <1>4, <1>5

LEMMA ExpireKeepsInv ==
    ASSUME RateInv, NEW c \in RateCallers, NEW k \in RateKeys, Expire(c, k)
    PROVE  /\ rater' \in [RateCallers -> Rater] /\ counter' \in [RateKeys -> [count : Nat, expires : BOOLEAN]]
           /\ LockoutEnds'
<1> DEFINE lives == counter[k].count > 0
           over == counter[k].count > RateLimit
           missed == FALSE
<1>1. RateTypeOK /\ rater \in [RateCallers -> Rater] /\ counter \in [RateKeys -> [count : Nat, expires : BOOLEAN]]
  BY DEF RateInv, RateTypeOK
<1>2. /\ counter' = [counter EXCEPT ![k].expires = lives] /\ breaks' = breaks
      /\ rater[c].pc = "expire" /\ At(c, k) /\ RaisedKey(c, k, over, missed)
  BY DEF Expire
<1>3. lives \in BOOLEAN /\ missed \in BOOLEAN /\ over \in BOOLEAN /\ (~lives => counter[k].count = 0)
  BY <1>1
<1> HIDE DEF lives, over, missed
<1>4. PICK row \in Rater : rater' = [rater EXCEPT ![c] = row] /\ row.pc \in {"decide", "raise"}
  BY <1>1, <1>2, <1>3, RaisedKeyRow
<1>5. /\ counter' \in [RateKeys -> [count : Nat, expires : BOOLEAN]]
      /\ counter'[k].count = counter[k].count /\ counter'[k].expires = lives
      /\ \A l \in RateKeys : l # k => counter'[l] = counter[l]
  BY <1>1, <1>2, <1>3
<1>6. ASSUME NEW l \in RateKeys, ~counter'[l].expires PROVE counter'[l].count <= breaks' + Cardinality(Waiting(l)')
  <2>1. CASE l = k
    <3>1. counter'[l].count = 0
      BY <1>3, <1>5, <1>6, <2>1
    <3>2. IsFiniteSet(Waiting(l)') /\ breaks \in Nat
      <4>1. Waiting(l)' = Waiting(l) \ {c}
        BY <1>1, <1>4, OthersWait
      <4>2. IsFiniteSet(Waiting(l) \ {c})
        BY WaitingFinite, FS_RemoveElement
      <4> QED BY <1>1, <4>1, <4>2, RateConstants DEF RateTypeOK
    <3>3. Cardinality(Waiting(l)') \in Nat
      BY <3>2, FS_CardinalityType
    <3> QED BY <1>2, <3>1, <3>2, <3>3
  <2>2. CASE l # k
    <3>1. ~At(c, l)
      BY <1>1, <1>2, <2>2, AtOneKey
    <3>2. Waiting(l)' = Waiting(l)
      <4>1. Waiting(l)' = Waiting(l) \ {c}
        BY <1>1, <1>4, OthersWait
      <4>2. c \notin Waiting(l)
        BY <3>1 DEF Waiting
      <4> QED BY <4>1, <4>2
    <3> QED BY <1>2, <1>5, <1>6, <2>2, <3>2 DEF RateInv, LockoutEnds
  <2> QED BY <2>1, <2>2
<1>7. rater' \in [RateCallers -> Rater]
  BY <1>1, <1>4
<1> QED BY <1>5, <1>6, <1>7 DEF LockoutEnds

LEMMA FailsKeepsInv ==
    ASSUME RateInv, NEW c \in RateCallers, NEW k \in RateKeys, RedisFails(c, k)
    PROVE  rater' \in [RateCallers -> Rater] /\ LockoutEnds' /\ breaks' \in 0..BreakBound
<1> DEFINE over == FALSE
           missed == TRUE
<1>1. RateTypeOK /\ rater \in [RateCallers -> Rater] /\ breaks \in 0..BreakBound
  BY DEF RateInv, RateTypeOK
<1>2. over \in BOOLEAN /\ missed \in BOOLEAN
  OBVIOUS
<1>3. counter' = counter /\ RaisedKey(c, k, over, missed)
  BY DEF RedisFails
<1> HIDE DEF over, missed
<1>4. PICK row \in Rater : rater' = [rater EXCEPT ![c] = row] /\ row.pc \in {"decide", "raise"}
  BY <1>1, <1>2, <1>3, RaisedKeyRow
<1>5. CASE rater[c].pc = "expire"
  <2>1. breaks < BreakBound /\ breaks' = breaks + 1
    BY <1>5 DEF RedisFails
  <2>2. LockoutEnds'
    BY <1>3, <1>4, <2>1, FailureKeepsBound
  <2> QED BY <1>1, <1>4, <2>1, <2>2, RateConstants
<1>6. CASE rater[c].pc # "expire"
  <2>1. breaks' = breaks
    BY <1>6 DEF RedisFails
  <2>2. LockoutEnds'
    BY <1>3, <1>4, <1>6, <2>1, MoveKeepsBound DEF RateInv, RateTypeOK
  <2> QED BY <1>1, <1>4, <2>1, <2>2
<1> QED BY <1>5, <1>6

LEMMA IdleRaterTyped == IdleRater \in Rater /\ IdleRater.pc = "idle"
BY RateConstants DEF IdleRater, Rater

\* A step of a handler that leaves the counters alone and does not wait.
LEMMA QuietMove ==
    ASSUME RateInv, NEW c \in RateCallers, NEW row \in Rater, rater' = [rater EXCEPT ![c] = row],
           row.pc # "expire", rater[c].pc # "expire", UNCHANGED <<clock, counter, breaks>>,
           hits' \in [RateKeys -> Seq(0..ClockBound)], admitted' \in [RateKeys -> [0..ClockBound -> Nat]],
           dropped' \in [RateKeys -> Nat]
    PROVE  RateInv'
<1>1. LockoutEnds'
  BY MoveKeepsBound
<1>2. rater' \in [RateCallers -> Rater]
  BY DEF RateInv, RateTypeOK
<1> QED BY <1>1, <1>2 DEF RateInv, RateTypeOK

LEMMA RatePreserved == RateInv /\ [RateNext]_rateVars => RateInv'
<1> SUFFICES ASSUME RateInv, [RateNext]_rateVars PROVE RateInv'
  OBVIOUS
<1>1. /\ rater \in [RateCallers -> Rater] /\ clock \in 0..ClockBound
      /\ hits \in [RateKeys -> Seq(0..ClockBound)] /\ admitted \in [RateKeys -> [0..ClockBound -> Nat]]
      /\ dropped \in [RateKeys -> Nat] /\ counter \in [RateKeys -> [count : Nat, expires : BOOLEAN]]
      /\ breaks \in 0..BreakBound /\ RateTypeOK /\ LockoutEnds
  BY DEF RateInv, RateTypeOK
<1>2. ASSUME NEW c \in RateCallers, NEW ks \in SUBSET RateKeys, BeginLimited(c, ks) PROVE RateInv'
  <2> DEFINE row == [IdleRater EXCEPT !.pc = "raise", !.keys = ks, !.all = ks]
  <2>1. row \in Rater /\ row.pc = "raise"
    BY IdleRaterTyped DEF Rater
  <2>2. rater' = [rater EXCEPT ![c] = row] /\ rater[c].pc = "idle" /\ UNCHANGED <<clock, hits, counter, breaks, admitted, dropped>>
    BY <1>2 DEF BeginLimited
  <2> HIDE DEF row
  <2> QED BY <1>1, <2>1, <2>2, QuietMove
<1>3. ASSUME NEW c \in RateCallers, NEW k \in RateKeys, BeginListed(c, k) PROVE RateInv'
  <2> DEFINE row == [IdleRater EXCEPT !.pc = "prune", !.keys = {k}, !.all = {k}, !.now = clock]
  <2>1. row \in Rater /\ row.pc = "prune"
    BY <1>1, IdleRaterTyped DEF Rater
  <2>2. rater' = [rater EXCEPT ![c] = row] /\ rater[c].pc = "idle" /\ UNCHANGED <<clock, hits, counter, breaks, admitted, dropped>>
    BY <1>3 DEF BeginListed
  <2> HIDE DEF row
  <2> QED BY <1>1, <2>1, <2>2, QuietMove
<1>4. ASSUME NEW c \in RateCallers, Decide(c) PROVE RateInv'
  <2>1. rater[c].pc = "decide" /\ UNCHANGED <<clock, hits, counter, breaks, admitted, dropped>>
    BY <1>4 DEF Decide
  <2> DEFINE listed == [rater[c] EXCEPT !.pc = "prune", !.keys = rater[c].all, !.now = clock]
  <2>2. listed \in Rater /\ listed.pc = "prune"
    BY <1>1 DEF Rater
  <2>3. rater' = [rater EXCEPT ![c] = listed] \/ rater' = [rater EXCEPT ![c] = IdleRater]
    BY <1>4 DEF Decide
  <2> HIDE DEF listed
  <2> QED BY <1>1, <2>1, <2>2, <2>3, QuietMove, IdleRaterTyped
<1>5. ASSUME NEW c \in RateCallers, RaterDies(c) PROVE RateInv'
  <2>1. /\ rater' = [rater EXCEPT ![c] = IdleRater] /\ breaks' = breaks + 1 /\ breaks < BreakBound
        /\ UNCHANGED <<clock, hits, counter, admitted, dropped>>
    BY <1>5 DEF RaterDies
  <2>2. LockoutEnds'
    BY <2>1, FailureKeepsBound, IdleRaterTyped
  <2> QED BY <1>1, <2>1, <2>2, IdleRaterTyped, RateConstants DEF RateInv, RateTypeOK
<1>6. ASSUME NEW c \in RateCallers, NEW k \in RateKeys, Raise(c, k) \/ Expire(c, k) PROVE RateInv'
  <2>1. /\ rater' \in [RateCallers -> Rater] /\ counter' \in [RateKeys -> [count : Nat, expires : BOOLEAN]]
        /\ LockoutEnds'
    BY <1>6, RaiseKeepsInv, ExpireKeepsInv
  <2>2. UNCHANGED <<clock, hits, breaks, admitted, dropped>>
    BY <1>6 DEF Raise, Expire
  <2> QED BY <1>1, <2>1, <2>2 DEF RateInv, RateTypeOK
<1>7. ASSUME NEW c \in RateCallers, NEW k \in RateKeys, RedisFails(c, k) PROVE RateInv'
  <2>1. rater' \in [RateCallers -> Rater] /\ LockoutEnds' /\ breaks' \in 0..BreakBound
    BY <1>7, FailsKeepsInv
  <2>2. UNCHANGED <<clock, hits, counter, admitted, dropped>>
    BY <1>7 DEF RedisFails
  <2> QED BY <1>1, <2>1, <2>2 DEF RateInv, RateTypeOK
<1>8. ASSUME NEW c \in RateCallers, NEW k \in RateKeys, Prune(c, k) PROVE RateInv'
  <2>1. PICK pc \in {"pop", "count"} : rater' = [rater EXCEPT ![c].pc = pc]
    BY <1>8 DEF Prune
  <2>2. rater[c].pc = "prune" /\ UNCHANGED <<clock, hits, counter, breaks, admitted, dropped>>
    BY <1>8 DEF Prune
  <2> DEFINE row == [rater[c] EXCEPT !.pc = pc]
  <2>3. row \in Rater /\ row.pc = pc
    BY <1>1 DEF Rater
  <2>4. rater' = [rater EXCEPT ![c] = row]
    BY <2>1
  <2> HIDE DEF row
  <2> QED BY <1>1, <2>2, <2>3, <2>4, QuietMove
<1>9. ASSUME NEW c \in RateCallers, NEW k \in RateKeys, Pop(c, k) PROVE RateInv'
  <2> DEFINE row == [rater[c] EXCEPT !.pc = "prune"]
  <2>0. row \in Rater /\ row.pc = "prune"
    BY <1>1 DEF Rater
  <2>1. rater[c].pc = "pop" /\ UNCHANGED <<clock, counter, breaks, admitted>>
    BY <1>9 DEF Pop
  <2>2. CASE hits[k] = <<>>
    <3>1. rater' = [rater EXCEPT ![c] = IdleRater] /\ UNCHANGED <<hits, dropped>>
      BY <1>9, <2>2 DEF Pop
    <3> QED BY <1>1, <2>1, <3>1, QuietMove, IdleRaterTyped
  <2>3. CASE hits[k] # <<>>
    <3>1. /\ hits' = [hits EXCEPT ![k] = Tail(hits[k])] /\ rater' = [rater EXCEPT ![c] = row]
          /\ dropped' = [dropped EXCEPT ![k] = IF Old(Head(hits[k]), rater[c].now) THEN dropped[k] ELSE dropped[k] + 1]
      BY <1>9, <2>3 DEF Pop
    <3>2. Tail(hits[k]) \in Seq(0..ClockBound)
      BY <1>1, <2>3
    <3>3. hits' \in [RateKeys -> Seq(0..ClockBound)] /\ dropped' \in [RateKeys -> Nat]
      BY <1>1, <3>1, <3>2
    <3> HIDE DEF row
    <3> QED BY <1>1, <2>0, <2>1, <3>1, <3>3, QuietMove
  <2> QED BY <2>2, <2>3
<1>10. ASSUME NEW c \in RateCallers, NEW k \in RateKeys, Count(c, k) PROVE RateInv'
  <2> DEFINE row == [rater[c] EXCEPT !.pc = "append"]
  <2>1. row \in Rater /\ row.pc = "append" /\ rater[c].pc = "count"
        /\ UNCHANGED <<clock, hits, counter, breaks, admitted, dropped>>
    BY <1>1, <1>10 DEF Rater, Count
  <2>2. rater' = [rater EXCEPT ![c] = row] \/ rater' = [rater EXCEPT ![c] = IdleRater]
    BY <1>10 DEF Count
  <2> HIDE DEF row
  <2> QED BY <1>1, <2>1, <2>2, QuietMove, IdleRaterTyped
<1>11. ASSUME NEW c \in RateCallers, NEW k \in RateKeys, AppendHit(c, k) PROVE RateInv'
  <2> DEFINE now == rater[c].now
             row == [rater[c] EXCEPT !.pc = "prune", !.keys = rater[c].keys \ {k}, !.now = clock]
  <2>1. row \in Rater /\ row.pc = "prune" /\ now \in 0..ClockBound
    BY <1>1 DEF Rater
  <2>2. /\ rater[c].pc = "append" /\ UNCHANGED <<clock, counter, breaks, dropped>>
        /\ hits' = [hits EXCEPT ![k] = Append(hits[k], now)]
    BY <1>11 DEF AppendHit
  <2>5. rater' = [rater EXCEPT ![c] = row] \/ rater' = [rater EXCEPT ![c] = IdleRater]
    <3>1. CASE rater[c].keys = {k}
      BY <1>11, <3>1 DEF AppendHit
    <3>2. CASE rater[c].keys # {k}
      BY <1>11, <3>2 DEF AppendHit
    <3> QED BY <3>1, <3>2
  <2>6. admitted' = [admitted EXCEPT ![k][now] = admitted[k][now] + 1]
    BY <1>11 DEF AppendHit
  <2> HIDE DEF row, now
  <2>7. hits[k] \in Seq(0..ClockBound)
    BY <1>1
  <2>3. Append(hits[k], now) \in Seq(0..ClockBound)
    BY <2>1, <2>7
  <2>4. hits' \in [RateKeys -> Seq(0..ClockBound)] /\ admitted' \in [RateKeys -> [0..ClockBound -> Nat]]
    <3>0. admitted[k] \in [0..ClockBound -> Nat]
      BY <1>1
    <3>1. /\ admitted[k] \in [0..ClockBound -> Nat]
          /\ admitted[k][now] + 1 \in Nat
      <4>1. admitted[k][now] \in Nat
        BY <2>1, <3>0, Zenon
      <4> QED BY <3>0, <4>1
    <3>2. admitted' = [admitted EXCEPT ![k] = [admitted[k] EXCEPT ![now] = admitted[k][now] + 1]]
      BY <2>6
    <3>3. [admitted[k] EXCEPT ![now] = admitted[k][now] + 1] \in [0..ClockBound -> Nat]
      BY <2>1, <3>1
    <3> QED BY <1>1, <2>2, <2>3, <3>2, <3>3
  <2> QED BY <1>1, <2>1, <2>2, <2>4, <2>5, QuietMove, IdleRaterTyped
<1>12. ASSUME NEW k \in RateKeys, CounterEnds(k) PROVE RateInv'
  <2>1. /\ counter' = [counter EXCEPT ![k] = [count |-> 0, expires |-> FALSE]]
        /\ UNCHANGED <<clock, hits, rater, breaks, admitted, dropped>>
    BY <1>12 DEF CounterEnds
  <2>2. counter' \in [RateKeys -> [count : Nat, expires : BOOLEAN]]
    BY <1>1, <2>1
  <2>3. \A l \in RateKeys : Waiting(l)' = Waiting(l)
    BY <2>1 DEF Waiting, At
  <2>4. LockoutEnds'
    <3>1. ASSUME NEW l \in RateKeys, ~counter'[l].expires PROVE counter'[l].count <= breaks' + Cardinality(Waiting(l)')
      BY <1>1, <2>1, <2>3, <3>1, WaitingFinite, RateConstants DEF LockoutEnds
    <3> QED BY <3>1 DEF LockoutEnds
  <2> QED BY <1>1, <2>1, <2>2, <2>4 DEF RateInv, RateTypeOK
<1>13. ASSUME RateTick \/ UNCHANGED rateVars PROVE RateInv'
  <2>1. clock' \in 0..ClockBound /\ UNCHANGED <<hits, rater, counter, breaks, admitted, dropped>>
    BY <1>1, <1>13, RateConstants DEF RateTick, rateVars
  <2>2. LockoutEnds'
    BY <1>1, <2>1 DEF LockoutEnds, Waiting, At
  <2> QED BY <1>1, <2>1, <2>2 DEF RateInv, RateTypeOK
<1> QED BY <1>2, <1>3, <1>4, <1>5, <1>6, <1>7, <1>8, <1>9, <1>10, <1>11, <1>12, <1>13 DEF RateNext

LEMMA RateInit_Inv == RateInit => RateInv
<1> SUFFICES ASSUME RateInit PROVE RateInv
  OBVIOUS
<1>1. RateTypeOK
  BY IdleRaterTyped, RateConstants DEF RateInit, RateTypeOK
<1>2. LockoutEnds
  BY WaitingFinite DEF RateInit, LockoutEnds
<1> QED BY <1>1, <1>2 DEF RateInv

\* It takes as many failures of Redis as the limit has calls to lock somebody
\* out for ever (incr_with_ttl, _rate_limit_smart_agent).
THEOREM LockoutsEnd == RateSpec => []LockoutEnds
<1>1. RateInv => LockoutEnds
  BY DEF RateInv
<1> QED BY <1>1, RateInit_Inv, RatePreserved, PTL DEF RateSpec

\* Type correctness of counters and lists.
THEOREM RateTypesHold == RateSpec => []RateTypeOK
<1>1. RateInv => RateTypeOK
  BY DEF RateInv
<1> QED BY <1>1, RateInit_Inv, RatePreserved, PTL DEF RateSpec

----------------------------------------------------------------------------
(* The lists in memory *)

\* Where a sequence has a member of T.
Places(s, T) == {i \in DOMAIN s : s[i] \in T}

LEMMA PlacesFinite ==
    ASSUME NEW S, NEW s \in Seq(S), NEW T
    PROVE  IsFiniteSet(Places(s, T)) /\ Cardinality(Places(s, T)) \in Nat
           /\ Cardinality(Places(s, T)) <= Len(s)
<1>1. DOMAIN s = 1..Len(s) /\ Len(s) \in Nat
  OBVIOUS
<1>2. IsFiniteSet(1..Len(s)) /\ Cardinality(1..Len(s)) = Len(s)
  BY <1>1, FS_Interval
<1>3. Places(s, T) \subseteq 1..Len(s)
  BY <1>1 DEF Places
<1> QED BY <1>2, <1>3, FS_Subset, FS_CardinalityType

LEMMA PlacesOfAppend ==
    ASSUME NEW S, NEW s \in Seq(S), NEW e \in S, NEW T
    PROVE  Cardinality(Places(Append(s, e), T)) =
               Cardinality(Places(s, T)) + IF e \in T THEN 1 ELSE 0
<1> DEFINE last == Len(s) + 1
<1>1. /\ DOMAIN Append(s, e) = 1..last /\ DOMAIN s = 1..Len(s) /\ Len(s) \in Nat
      /\ Append(s, e)[last] = e /\ \A i \in 1..Len(s) : Append(s, e)[i] = s[i]
  OBVIOUS
<1>2. last \notin Places(s, T)
  BY <1>1 DEF Places
<1>3. CASE e \in T
  <2>1. Places(Append(s, e), T) = Places(s, T) \cup {last}
    BY <1>1, <1>3 DEF Places
  <2>2. Cardinality(Places(s, T) \cup {last}) = Cardinality(Places(s, T)) + 1
    BY <1>2, PlacesFinite, FS_AddElement
  <2> QED BY <1>3, <2>1, <2>2
<1>4. CASE e \notin T
  <2>1. Places(Append(s, e), T) = Places(s, T)
    BY <1>1, <1>4 DEF Places
  <2> QED BY <1>4, <2>1, PlacesFinite
<1> QED BY <1>3, <1>4

LEMMA PlacesOfTail ==
    ASSUME NEW S, NEW s \in Seq(S), s # <<>>, NEW T
    PROVE  Cardinality(Places(Tail(s), T)) =
               Cardinality(Places(s, T)) - IF Head(s) \in T THEN 1 ELSE 0
<1> DEFINE rest == Places(s, T) \ {1}
           next == [i \in Places(Tail(s), T) |-> i + 1]
<1>1. /\ DOMAIN Tail(s) = 1..(Len(s) - 1) /\ DOMAIN s = 1..Len(s) /\ Len(s) \in Nat \ {0}
      /\ Head(s) = s[1] /\ \A i \in 1..(Len(s) - 1) : Tail(s)[i] = s[i + 1]
  OBVIOUS
<1>2. IsFiniteSet(Places(s, T)) /\ Cardinality(Places(s, T)) \in Nat
  BY PlacesFinite
<1>3. ExistsBijection(Places(Tail(s), T), rest)
  <2>1. \A i \in Places(Tail(s), T) : next[i] \in rest
    BY <1>1 DEF Places
  <2>2. \A i, j \in Places(Tail(s), T) : next[i] = next[j] => i = j
    BY <1>1 DEF Places
  <2>3. \A j \in rest : \E i \in Places(Tail(s), T) : next[i] = j
    <3>1. SUFFICES ASSUME NEW j \in rest PROVE j - 1 \in Places(Tail(s), T) /\ (j - 1) + 1 = j
      OBVIOUS
    <3> QED BY <1>1 DEF Places
  <2> QED BY <2>1, <2>2, <2>3 DEF ExistsBijection, Bijection, Injection, IsInjective, Surjection
<1>4. Cardinality(Places(Tail(s), T)) = Cardinality(rest)
  <2>1. Tail(s) \in Seq(S)
    OBVIOUS
  <2>2. IsFiniteSet(Places(Tail(s), T))
    BY <2>1, PlacesFinite
  <2> QED BY <1>3, <2>2, FS_Bijection
<1>5. Cardinality(rest) = IF 1 \in Places(s, T) THEN Cardinality(Places(s, T)) - 1 ELSE Cardinality(Places(s, T))
  BY <1>2, FS_RemoveElement
<1>6. 1 \in Places(s, T) <=> Head(s) \in T
  BY <1>1 DEF Places
<1> QED BY <1>2, <1>4, <1>5, <1>6

LEMMA AppendingFinite ==
    ASSUME NEW k
    PROVE  /\ IsFiniteSet(Appending(k)) /\ Cardinality(Appending(k)) \in Nat
           /\ Cardinality(Appending(k)) <= Cardinality(RateCallers)
           /\ Cardinality(RateCallers) \in Nat
<1>1. Appending(k) \subseteq RateCallers
  BY DEF Appending
<1> QED BY <1>1, RateConstants, FS_Subset, FS_CardinalityType

\* A step after which nobody appends who did not before, and which leaves
\* lists, sums and clock alone.
LEMMA QuietForLists ==
    ASSUME RateTypeOK, WindowInv, UNCHANGED <<clock, hits, admitted, dropped>>,
           \A c \in RateCallers :
               /\ rater'[c].pc = "append" => rater'[c] = rater[c]
               /\ rater'[c].now \in {0, clock, rater[c].now}
    PROVE  WindowInv'
<1>1. NowIsPast'
  BY RateConstants DEF WindowInv, NowIsPast, RateTypeOK
<1>2. ListsStayShort'
  <2>1. ASSUME NEW k \in RateKeys
        PROVE  Len(hits'[k]) + Cardinality(Appending(k)') <= RateLimit - 1 + Cardinality(RateCallers)
    <3>1. Appending(k)' \subseteq Appending(k)
      BY DEF Appending, At
    <3>2. Cardinality(Appending(k)') <= Cardinality(Appending(k)) /\ Cardinality(Appending(k)') \in Nat
      BY <3>1, AppendingFinite, FS_Subset, FS_CardinalityType
    <3>3. Len(hits[k]) \in Nat /\ hits'[k] = hits[k]
      BY DEF RateTypeOK
    <3>4. Len(hits[k]) + Cardinality(Appending(k)) <= RateLimit - 1 + Cardinality(RateCallers)
      BY DEF WindowInv, ListsStayShort
    <3> QED BY <3>2, <3>3, <3>4, AppendingFinite, RateConstants
  <2> QED BY <2>1 DEF ListsStayShort
<1>3. RecentIsListed'
  BY DEF WindowInv, RecentIsListed, TimesListed, Window
<1> QED BY <1>1, <1>2, <1>3 DEF WindowInv

LEMMA CountKeepsWindow ==
    ASSUME RateTypeOK, WindowInv, NEW c \in RateCallers, NEW k \in RateKeys, Count(c, k)
    PROVE  WindowInv'
<1>1. /\ UNCHANGED <<clock, hits, counter, breaks, admitted, dropped>>
      /\ rater[c].pc = "count" /\ At(c, k) /\ rater[c] \in Rater
  BY DEF Count, RateTypeOK
<1>2. CASE Len(hits[k]) >= RateLimit
  <2>1. rater' = [rater EXCEPT ![c] = IdleRater]
    BY <1>2 DEF Count
  <2> QED BY <1>1, <2>1, QuietForLists DEF RateTypeOK, IdleRater
<1>3. CASE ~(Len(hits[k]) >= RateLimit)
  <2>1. rater' = [rater EXCEPT ![c] = [rater[c] EXCEPT !.pc = "append"]]
    BY <1>3 DEF Count
  <2>2. /\ rater'[c].pc = "append" /\ rater'[c].keys = rater[c].keys /\ rater'[c].now = rater[c].now
        /\ \A b \in RateCallers : b # c => rater'[b] = rater[b]
    BY <1>1, <2>1 DEF RateTypeOK, Rater
  <2>3. NowIsPast'
    BY <1>1, <2>2 DEF NowIsPast, WindowInv
  <2>4. ASSUME NEW l \in RateKeys
        PROVE  Len(hits'[l]) + Cardinality(Appending(l)') <= RateLimit - 1 + Cardinality(RateCallers)
    <3>0. Len(hits[l]) \in Nat /\ hits'[l] = hits[l] /\ Len(hits[k]) \in Nat
      BY <1>1 DEF RateTypeOK
    <3>1. CASE l = k
      <4>1. Appending(k)' \subseteq RateCallers
        BY DEF Appending
      <4>2. Cardinality(Appending(k)') <= Cardinality(RateCallers) /\ Cardinality(Appending(k)') \in Nat
        BY <4>1, RateConstants, FS_Subset, FS_CardinalityType
      <4>3. RateLimit \in Nat /\ Cardinality(RateCallers) \in Nat
        BY AppendingFinite, RateConstants
      <4>4. Len(hits[k]) <= RateLimit - 1 /\ hits'[k] = hits[k]
        BY <1>3, <3>0, <3>1, <4>3
      <4>5. Len(hits'[k]) + Cardinality(Appending(k)') <= RateLimit - 1 + Cardinality(RateCallers)
        BY <3>0, <4>2, <4>3, <4>4
      <4> QED BY <3>1, <4>5
    <3>2. CASE l # k
      <4>1. ~At(c, l)
        BY <1>1, <3>2, AtOneKey
      <4>2. Appending(l)' = Appending(l)
        BY <2>2, <4>1 DEF Appending, At
      <4> QED BY <3>0, <4>2 DEF WindowInv, ListsStayShort
    <3> QED BY <3>1, <3>2
  <2>5. RecentIsListed'
    BY <1>1 DEF WindowInv, RecentIsListed, TimesListed, Window
  <2> QED BY <2>3, <2>4, <2>5 DEF WindowInv, ListsStayShort
<1> QED BY <1>2, <1>3

LEMMA TimesAreTyped ==
    ASSUME RateTypeOK, NEW k \in RateKeys, NEW T \in SUBSET Window
    PROVE  /\ IsFiniteSet(T) /\ \A t \in T : t \in 0..ClockBound /\ admitted[k][t] \in Int
           /\ SumFunctionOnSet(admitted[k], T) \in Int
           /\ Cardinality(TimesListed(k, T)) \in Nat /\ dropped[k] \in Nat
           /\ hits[k] \in Seq(0..ClockBound) /\ TimesListed(k, T) = Places(hits[k], T)
<1>1. IsFiniteSet(0..ClockBound) /\ T \subseteq 0..ClockBound
  BY FS_Interval, RateConstants DEF Window
<1>2. admitted[k] \in [0..ClockBound -> Nat] /\ hits[k] \in Seq(0..ClockBound) /\ dropped[k] \in Nat
  BY DEF RateTypeOK
<1>3. IsFiniteSet(T) /\ \A t \in T : t \in 0..ClockBound /\ admitted[k][t] \in Int
  <2> DEFINE times == 0..ClockBound
             f == admitted[k]
  <2>1. f \in [times -> Nat] /\ T \subseteq times /\ IsFiniteSet(times)
    BY <1>1, <1>2
  <2> HIDE DEF f, times
  <2>2. IsFiniteSet(T) /\ \A t \in T : t \in times /\ f[t] \in Nat
    BY <2>1, FS_Subset
  <2> QED BY <2>2 DEF f, times
<1>4. TimesListed(k, T) = Places(hits[k], T)
  BY DEF TimesListed, Places
<1> QED BY <1>2, <1>3, <1>4, SumType, PlacesFinite

LEMMA AppendKeepsWindow ==
    ASSUME RateTypeOK, WindowInv, NEW c \in RateCallers, NEW k \in RateKeys, AppendHit(c, k)
    PROVE  WindowInv'
<1> DEFINE now == rater[c].now
<1>1. /\ UNCHANGED <<clock, counter, breaks, dropped>>
      /\ rater[c].pc = "append" /\ At(c, k) /\ rater[c] \in Rater /\ now \in 0..ClockBound
  BY DEF AppendHit, RateTypeOK, Rater
<1>2. hits' = [hits EXCEPT ![k] = Append(hits[k], now)]
      /\ admitted' = [admitted EXCEPT ![k][now] = admitted[k][now] + 1]
  BY DEF AppendHit
<1>3. /\ rater'[c].pc # "append" /\ rater'[c].now \in {0, clock}
      /\ \A b \in RateCallers : b # c => rater'[b] = rater[b]
  <2>1. CASE rater[c].keys = {k}
    BY <1>1, <2>1 DEF AppendHit, RateTypeOK, IdleRater
  <2>2. CASE rater[c].keys # {k}
    BY <1>1, <2>2 DEF AppendHit, RateTypeOK, Rater
  <2> QED BY <2>1, <2>2
<1> HIDE DEF now
<1>4. NowIsPast'
  <2>1. clock \in Nat /\ clock' = clock
    BY <1>1, RateConstants DEF RateTypeOK
  <2>2. ASSUME NEW b \in RateCallers PROVE rater'[b].now <= clock
    <3>1. rater[b].now <= clock
      BY DEF WindowInv, NowIsPast
    <3> QED BY <1>3, <2>1, <3>1
  <2> QED BY <2>1, <2>2 DEF NowIsPast
<1>5. ASSUME NEW l \in RateKeys
      PROVE  Len(hits'[l]) + Cardinality(Appending(l)') <= RateLimit - 1 + Cardinality(RateCallers)
  <2>1. Appending(l)' = Appending(l) \ {c}
    BY <1>3 DEF Appending, At
  <2>2. c \in Appending(l) <=> l = k
    BY <1>1, AtOneKey DEF Appending
  <2>3. /\ Cardinality(Appending(l) \ {c}) = IF l = k THEN Cardinality(Appending(l)) - 1
                                                      ELSE Cardinality(Appending(l))
    BY <2>2, AppendingFinite, FS_RemoveElement
  <2>4. hits[l] \in Seq(0..ClockBound) /\ Len(hits[l]) \in Nat
    BY DEF RateTypeOK
  <2>5. Len(hits'[l]) = IF l = k THEN Len(hits[l]) + 1 ELSE Len(hits[l])
    BY <1>1, <1>2, <2>4 DEF RateTypeOK
  <2> QED BY <2>1, <2>3, <2>4, <2>5, AppendingFinite, RateConstants DEF WindowInv, ListsStayShort
<1>6. ASSUME NEW l \in RateKeys, NEW T \in SUBSET Window
      PROVE  SumFunctionOnSet(admitted'[l], T) <= Cardinality(TimesListed(l, T)') + dropped'[l]
  <2>0. SumFunctionOnSet(admitted[l], T) <= Cardinality(TimesListed(l, T)) + dropped[l]
    BY DEF WindowInv, RecentIsListed
  <2>1. CASE l # k
    <3>1. hits'[l] = hits[l] /\ admitted'[l] = admitted[l] /\ dropped'[l] = dropped[l]
      BY <1>1, <1>2, <2>1 DEF RateTypeOK
    <3> QED BY <2>0, <3>1 DEF TimesListed
  <2>2. CASE l = k
    <3>1. TimesListed(l, T)' = Places(Append(hits[k], now), T)
      BY <1>2, <2>2 DEF TimesListed, Places, RateTypeOK
    <3>2. Cardinality(TimesListed(l, T)') = Cardinality(TimesListed(k, T)) + IF now \in T THEN 1 ELSE 0
      <4>1. hits[k] \in Seq(0..ClockBound) /\ TimesListed(k, T) = Places(hits[k], T)
        BY TimesAreTyped
      <4>2. now \in 0..ClockBound
        BY <1>1
      <4>3. Cardinality(Places(Append(hits[k], now), T)) =
                Cardinality(Places(hits[k], T)) + IF now \in T THEN 1 ELSE 0
        <5>1. \A S : \A s \in Seq(S), e \in S : Cardinality(Places(Append(s, e), T)) =
                Cardinality(Places(s, T)) + IF e \in T THEN 1 ELSE 0
          BY PlacesOfAppend
        <5>2. \A s \in Seq(0..ClockBound), e \in 0..ClockBound : Cardinality(Places(Append(s, e), T)) =
                Cardinality(Places(s, T)) + IF e \in T THEN 1 ELSE 0
          BY <5>1, Zenon
        <5> QED BY <4>1, <4>2, <5>2
      <4> QED BY <3>1, <4>1, <4>3
    <3>3. /\ admitted[k] \in [0..ClockBound -> Nat]
          /\ admitted'[l] = [admitted[k] EXCEPT ![now] = admitted[k][now] + 1]
      BY <1>2, <2>2 DEF RateTypeOK
    <3> DEFINE old == admitted[k]
               new == admitted'[l]
    <3>4. /\ new[now] = old[now] + 1 /\ old[now] \in Nat
          /\ \A t \in 0..ClockBound : t # now => new[t] = old[t]
      BY <1>1, <3>3
    <3>5. IsFiniteSet(T) /\ (\A t \in T : t \in 0..ClockBound /\ old[t] \in Int)
          /\ SumFunctionOnSet(old, T) \in Int
      BY TimesAreTyped
    <3> HIDE DEF old, new
    <3>6. SumFunctionOnSet(new, T) = SumFunctionOnSet(old, T) + IF now \in T THEN 1 ELSE 0
      <4>1. CASE now \in T
        <5>1. SumFunctionOnSet(new, T) = SumFunctionOnSet(old, T) + new[now] - old[now]
          <6>1. new[now] \in Int /\ \A t \in T : t # now => new[t] = old[t]
            BY <3>4, <3>5
          <6> QED BY <3>5, <4>1, <6>1, SumUpdate
        <5> QED BY <3>4, <3>5, <4>1, <5>1
      <4>2. CASE now \notin T
        <5>1. \A t \in T : old[t] = new[t]
          BY <3>4, <3>5, <4>2
        <5>2. SumFunctionOnSet(old, T) = SumFunctionOnSet(new, T)
          BY <3>5, <5>1, SumSame
        <5> QED BY <3>5, <4>2, <5>2
      <4> QED BY <4>1, <4>2
    <3>7. Cardinality(TimesListed(k, T)) \in Nat /\ dropped[k] \in Nat /\ dropped'[l] = dropped[k]
      BY <1>1, <2>2, TimesAreTyped
    <3>8. SumFunctionOnSet(old, T) <= Cardinality(TimesListed(k, T)) + dropped[k]
      BY <2>0, <2>2 DEF old
    <3>9. SumFunctionOnSet(new, T) <= Cardinality(TimesListed(l, T)') + dropped'[l]
      BY <3>2, <3>5, <3>6, <3>7, <3>8
    <3> QED BY <3>9 DEF new
  <2> QED BY <2>1, <2>2
<1>7. Window' = Window
  BY <1>1 DEF Window
<1> QED BY <1>4, <1>5, <1>6, <1>7 DEF WindowInv, ListsStayShort, RecentIsListed

LEMMA PopKeepsWindow ==
    ASSUME RateTypeOK, WindowInv, NEW c \in RateCallers, NEW k \in RateKeys, Pop(c, k)
    PROVE  WindowInv'
<1> DEFINE first == Head(hits[k])
<1>1. /\ UNCHANGED <<clock, counter, breaks, admitted>>
      /\ rater[c].pc = "pop" /\ At(c, k) /\ rater[c] \in Rater
      /\ hits[k] \in Seq(0..ClockBound) /\ dropped[k] \in Nat
  BY DEF Pop, RateTypeOK
<1>2. CASE hits[k] = <<>>
  <2>1. rater' = [rater EXCEPT ![c] = IdleRater] /\ UNCHANGED <<hits, dropped>>
    BY <1>2 DEF Pop
  <2> QED BY <1>1, <2>1, QuietForLists DEF RateTypeOK, IdleRater
<1>3. CASE hits[k] # <<>>
  <2>1. /\ hits' = [hits EXCEPT ![k] = Tail(hits[k])]
        /\ dropped' = [dropped EXCEPT ![k] = IF Old(first, rater[c].now) THEN dropped[k] ELSE dropped[k] + 1]
        /\ rater' = [rater EXCEPT ![c].pc = "prune"]
    BY <1>3 DEF Pop
  <2>2. /\ rater'[c].pc = "prune" /\ rater'[c].now = rater[c].now
        /\ \A b \in RateCallers : b # c => rater'[b] = rater[b]
    BY <1>1, <2>1 DEF RateTypeOK, Rater
  <2>3. NowIsPast'
    BY <1>1, <2>2 DEF WindowInv, NowIsPast
  <2>4. first \in 0..ClockBound /\ Len(Tail(hits[k])) = Len(hits[k]) - 1 /\ Len(hits[k]) \in Nat
    <3> DEFINE times == 0..ClockBound
    <3>1. hits[k] \in Seq(times) /\ hits[k] # <<>>
      BY <1>1, <1>3
    <3> HIDE DEF times
    <3>2. Head(hits[k]) \in times /\ Len(Tail(hits[k])) = Len(hits[k]) - 1 /\ Len(hits[k]) \in Nat
      BY <3>1
    <3> QED BY <3>2 DEF times
  <2> HIDE DEF first
  <2>5. ASSUME NEW l \in RateKeys
        PROVE  Len(hits'[l]) + Cardinality(Appending(l)') <= RateLimit - 1 + Cardinality(RateCallers)
    <3>1. Appending(l)' = Appending(l)
      BY <1>1, <2>2 DEF Appending, At
    <3>2. Len(hits[l]) \in Nat /\ Len(hits'[l]) <= Len(hits[l]) /\ Len(hits'[l]) \in Int
      BY <2>1, <2>4 DEF RateTypeOK
    <3>3. Len(hits[l]) + Cardinality(Appending(l)) <= RateLimit - 1 + Cardinality(RateCallers)
      BY DEF WindowInv, ListsStayShort
    <3> QED BY <3>1, <3>2, <3>3, AppendingFinite, RateConstants
  <2>6. ASSUME NEW l \in RateKeys, NEW T \in SUBSET Window
        PROVE  SumFunctionOnSet(admitted'[l], T) <= Cardinality(TimesListed(l, T)') + dropped'[l]
    <3>0. SumFunctionOnSet(admitted[l], T) <= Cardinality(TimesListed(l, T)) + dropped[l] /\ admitted' = admitted
      BY <1>1 DEF WindowInv, RecentIsListed
    <3>1. CASE l # k
      <4>1. hits'[l] = hits[l] /\ dropped'[l] = dropped[l]
        BY <2>1, <3>1 DEF RateTypeOK
      <4> QED BY <3>0, <4>1 DEF TimesListed
    <3>2. CASE l = k
      <4>1. TimesListed(l, T)' = Places(Tail(hits[k]), T)
        BY <2>1, <3>2 DEF TimesListed, Places, RateTypeOK
      <4>2. TimesListed(k, T) = Places(hits[k], T)
        BY TimesAreTyped
      <4>3. Cardinality(Places(Tail(hits[k]), T)) =
                Cardinality(Places(hits[k], T)) - IF first \in T THEN 1 ELSE 0
        <5>1. \A S : \A s \in Seq(S) : s # <<>> => Cardinality(Places(Tail(s), T)) =
                  Cardinality(Places(s, T)) - IF Head(s) \in T THEN 1 ELSE 0
          BY PlacesOfTail
        <5>2. \A s \in Seq(0..ClockBound) : s # <<>> => Cardinality(Places(Tail(s), T)) =
                  Cardinality(Places(s, T)) - IF Head(s) \in T THEN 1 ELSE 0
          BY <5>1, Zenon
        <5> QED BY <1>1, <1>3, <5>2 DEF first
      <4>4. Old(first, rater[c].now) => first \notin T
        <5>1. rater[c].now <= clock /\ rater[c].now \in Int /\ clock \in Int
          BY <1>1, RateConstants DEF WindowInv, NowIsPast, RateTypeOK, Rater
        <5>2. Old(first, rater[c].now) => Old(first, clock)
          BY <2>4, <5>1, RateConstants DEF Old
        <5> QED BY <5>2 DEF Window
      <4>5. dropped'[l] = IF Old(first, rater[c].now) THEN dropped[k] ELSE dropped[k] + 1
        BY <2>1, <3>2 DEF RateTypeOK
      <4>6. Cardinality(TimesListed(k, T)) \in Nat /\ dropped[k] \in Nat /\ SumFunctionOnSet(admitted[k], T) \in Int
        BY TimesAreTyped
      <4>7. Cardinality(TimesListed(l, T)') = Cardinality(TimesListed(k, T)) - IF first \in T THEN 1 ELSE 0
        BY <4>1, <4>2, <4>3
      <4> QED BY <3>0, <3>2, <4>4, <4>5, <4>6, <4>7
    <3> QED BY <3>1, <3>2
  <2>7. Window' = Window
    BY <1>1 DEF Window
  <2> QED BY <2>3, <2>5, <2>6, <2>7 DEF WindowInv, ListsStayShort, RecentIsListed
<1> QED BY <1>2, <1>3

\* The window loses times as the clock moves on.
LEMMA TickKeepsWindow ==
    ASSUME RateTypeOK, WindowInv, RateTick
    PROVE  WindowInv'
<1>1. UNCHANGED <<hits, rater, admitted, dropped>> /\ clock' = clock + 1 /\ clock \in Nat
  BY RateConstants DEF RateTick, RateTypeOK
<1>2. NowIsPast'
  <2>1. \A c \in RateCallers : rater[c].now \in Int
    BY RateConstants DEF RateTypeOK, Rater
  <2> QED BY <1>1, <2>1 DEF WindowInv, NowIsPast
<1>3. ListsStayShort'
  BY <1>1 DEF WindowInv, ListsStayShort, Appending, At
<1>4. Window' \subseteq Window
  BY <1>1, RateConstants DEF Window, Old
<1>5. RecentIsListed'
  BY <1>1, <1>4 DEF WindowInv, RecentIsListed, TimesListed
<1> QED BY <1>2, <1>3, <1>5 DEF WindowInv

LEMMA WindowPreserved == RateTypeOK /\ WindowInv /\ [RateNext]_rateVars => WindowInv'
<1> SUFFICES ASSUME RateTypeOK, WindowInv, [RateNext]_rateVars PROVE WindowInv'
  OBVIOUS
<1>0. rater \in [RateCallers -> Rater]
  BY DEF RateTypeOK
<1>1. ASSUME NEW c \in RateCallers, NEW ks \in SUBSET RateKeys, BeginLimited(c, ks) PROVE WindowInv'
  BY <1>0, <1>1, QuietForLists DEF BeginLimited, IdleRater
<1>2. ASSUME NEW c \in RateCallers, Decide(c) \/ RaterDies(c) PROVE WindowInv'
  <2>1. CASE Decide(c)
    BY <1>0, <2>1, QuietForLists DEF Decide, IdleRater, Rater
  <2>2. CASE RaterDies(c)
    BY <1>0, <2>2, QuietForLists DEF RaterDies, IdleRater
  <2> QED BY <1>2, <2>1, <2>2
<1>3. ASSUME NEW c \in RateCallers, NEW k \in RateKeys, Raise(c, k) \/ Expire(c, k) \/ RedisFails(c, k)
      PROVE  WindowInv'
  <2>1. UNCHANGED <<clock, hits, admitted, dropped>>
    BY <1>3 DEF Raise, Expire, RedisFails
  <2>2. \/ rater' = [rater EXCEPT ![c].pc = "expire"]
        \/ \E over, missed : RaisedKey(c, k, over, missed)
    BY <1>3, Zenon DEF Raise, Expire, RedisFails
  <2>3. rater'[c].pc # "append" /\ rater'[c].now = rater[c].now
        /\ \A b \in RateCallers : b # c => rater'[b] = rater[b]
    <3>1. CASE rater' = [rater EXCEPT ![c].pc = "expire"]
      BY <1>0, <3>1 DEF Rater
    <3>2. ASSUME NEW over, NEW missed, RaisedKey(c, k, over, missed)
          PROVE  rater'[c].pc # "append" /\ rater'[c].now = rater[c].now
                 /\ \A b \in RateCallers : b # c => rater'[b] = rater[b]
      <4>1. rater[c] \in Rater
        BY <1>0
      <4> DEFINE pc == IF rater[c].keys = {k} THEN "decide" ELSE "raise"
                 o == rater[c].over \/ over
                 m == rater[c].missed \/ missed
                 ks == rater[c].keys \ {k}
      <4>2. rater' = [rater EXCEPT ![c] = [rater[c] EXCEPT !.keys = ks, !.pc = pc, !.over = o, !.missed = m]]
        BY <3>2 DEF RaisedKey
      <4>3. pc # "append"
        OBVIOUS
      <4> HIDE DEF pc, o, m, ks
      <4> QED BY <1>0, <4>1, <4>2, <4>3 DEF Rater
    <3> QED BY <2>2, <3>1, <3>2
  <2> QED BY <2>1, <2>3, QuietForLists
<1>4. ASSUME NEW c \in RateCallers, NEW k \in RateKeys, BeginListed(c, k) PROVE WindowInv'
  BY <1>0, <1>4, QuietForLists DEF BeginListed, IdleRater
<1>5. ASSUME NEW c \in RateCallers, NEW k \in RateKeys, Prune(c, k) PROVE WindowInv'
  <2>1. rater'[c].pc \in {"pop", "count"} /\ rater'[c].now = rater[c].now
        /\ \A b \in RateCallers : b # c => rater'[b] = rater[b]
    BY <1>0, <1>5 DEF Prune, Rater
  <2> QED BY <1>5, <2>1, QuietForLists DEF Prune
<1>6. ASSUME NEW c \in RateCallers, NEW k \in RateKeys, Pop(c, k) \/ Count(c, k) \/ AppendHit(c, k)
      PROVE  WindowInv'
  BY <1>6, PopKeepsWindow, CountKeepsWindow, AppendKeepsWindow
<1>7. ASSUME NEW k \in RateKeys, CounterEnds(k) PROVE WindowInv'
  BY <1>7, QuietForLists DEF CounterEnds
<1>8. CASE UNCHANGED rateVars
  BY <1>8, QuietForLists DEF rateVars
<1> QED BY <1>1, <1>2, <1>3, <1>4, <1>5, <1>6, <1>7, <1>8, TickKeepsWindow DEF RateNext

LEMMA WindowInit == RateInit => WindowInv
<1> SUFFICES ASSUME RateInit PROVE WindowInv
  OBVIOUS
<1>1. NowIsPast
  BY RateConstants DEF RateInit, NowIsPast, IdleRater
<1>2. ListsStayShort
  <2>1. ASSUME NEW k \in RateKeys
        PROVE  Len(hits[k]) + Cardinality(Appending(k)) <= RateLimit - 1 + Cardinality(RateCallers)
    <3>1. Len(hits[k]) = 0
      BY DEF RateInit
    <3> QED BY <3>1, AppendingFinite, RateConstants
  <2> QED BY <2>1 DEF ListsStayShort
<1>3. RecentIsListed
  <2>1. RateTypeOK
    BY RateInit_Inv DEF RateInv
  <2>2. ASSUME NEW k \in RateKeys, NEW T \in SUBSET Window
        PROVE  SumFunctionOnSet(admitted[k], T) <= Cardinality(TimesListed(k, T)) + dropped[k]
    <3>1. IsFiniteSet(T) /\ \A t \in T : t \in 0..ClockBound /\ admitted[k][t] \in Int
      BY <2>1, TimesAreTyped
    <3>2. \A t \in T : admitted[k][t] = 0
      BY <3>1 DEF RateInit
    <3>3. SumFunctionOnSet(admitted[k], T) = 0
      BY <3>1, <3>2, SumOfZeros
    <3>4. Cardinality(TimesListed(k, T)) \in Nat /\ dropped[k] = 0
      BY <2>1, TimesAreTyped DEF RateInit
    <3> QED BY <3>3, <3>4
  <2> QED BY <2>2 DEF RecentIsListed
<1> QED BY <1>1, <1>2, <1>3 DEF WindowInv

\* The sliding window of the list in memory has no lock.  What it has admitted
\* in the last window is within the limit but for the handlers that ran beside
\* one another and the times dropped too early (limiter.check), for any limit,
\* any window and any number of handlers.
THEOREM WindowIsAlmostKept == RateSpec => []WindowAlmostKept
<1>1. RateTypeOK /\ WindowInv => WindowAlmostKept
  <2> SUFFICES ASSUME RateTypeOK, WindowInv, NEW k \in RateKeys
               PROVE  SumFunctionOnSet(admitted[k], Window)
                          <= RateLimit + Cardinality(RateCallers) - 1 + dropped[k]
    BY DEF WindowAlmostKept
  <2>1. SumFunctionOnSet(admitted[k], Window) <= Cardinality(TimesListed(k, Window)) + dropped[k]
    BY DEF WindowInv, RecentIsListed
  <2>2. Cardinality(TimesListed(k, Window)) <= Len(hits[k]) /\ Len(hits[k]) \in Nat
    <3>1. hits[k] \in Seq(0..ClockBound) /\ TimesListed(k, Window) = Places(hits[k], Window)
      BY TimesAreTyped
    <3> QED BY <3>1, PlacesFinite
  <2>3. Len(hits[k]) + Cardinality(Appending(k)) <= RateLimit - 1 + Cardinality(RateCallers)
    BY DEF WindowInv, ListsStayShort
  <2>4. /\ Cardinality(TimesListed(k, Window)) \in Nat /\ dropped[k] \in Nat
        /\ SumFunctionOnSet(admitted[k], Window) \in Int
    BY TimesAreTyped
  <2> QED BY <2>1, <2>2, <2>3, <2>4, AppendingFinite, RateConstants
<1> QED BY <1>1, WindowInit, WindowPreserved, RateTypesHold, PTL DEF RateSpec

----------------------------------------------------------------------------
(* Questions about characters *)

\* The user answered group g with a candidate of it, and the answer counts.
AnsweredItself(q, g) == q.said[g] = q.choice[g] /\ q.choice[g] \in q.request.options[g]

\* What is true of a question wherever it is held: who is answered is a group
\* of it, groups with one id have one answer, which the user gave to one of them;
\* and if each has an id of its own, to itself.
SoundQuestion(q) ==
    /\ q.request \in Requests /\ Groups(q.request) # {}
    /\ \A g \in Slots : q.choice[g] # NoCharacter => g \in Groups(q.request)
    /\ \A g, h \in Groups(q.request) : q.id[h] = q.id[g] => q.choice[h] = q.choice[g]
    /\ \A h \in Groups(q.request) : q.choice[h] # NoCharacter =>
           \E g \in Groups(q.request) : q.choice[g] = q.choice[h] /\ AnsweredItself(q, g)
    /\ OwnIds(q) => \A g \in Groups(q.request) : q.choice[g] # NoCharacter => AnsweredItself(q, g)

\* q has every answer that the row has, if it is the same question.
NotOlder(q) ==
    question.open /\ question.nr = q.nr =>
        \A g \in Slots : question.choice[g] # NoCharacter => q.choice[g] = question.choice[g]

\* What was named in the groups gs.
Named(said, gs) == {said[g] : g \in gs} \ {NoCharacter}

\* The characters are those of the answers; cut: a resolution may have lost some.
Followed(r, characters, said, own, cut) ==
    /\ characters \subseteq Named(said, Groups(r))
    /\ own => \A g \in Groups(r) :
           /\ said[g] \in r.options[g]
           /\ \/ said[g] \in characters
              \/ cut /\ Cardinality(Named(said, {h \in Groups(r) : h < g})) >= ResolutionLimit

\* PlannedAsChosen of turn w.
PlannedTurn(w) ==
    w.pc = "planning" /\ w.answers =>
        /\ w.characters # {}
        /\ Followed(w.request, w.characters, w.said, w.own, w.message # 0)

HeldQuestions ==
    /\ question.nr <= asked /\ click.q.nr <= asked /\ turn.q.nr <= asked
    /\ click.pc = "free" \/ turn.pc = "free"
    /\ question.open => SoundQuestion(question)
    /\ click.pc # "free" => SoundQuestion(click.q)
    /\ turn.pc \in {"save", "save_all", "clear"} => SoundQuestion(turn.q)
    /\ click.pc = "save" => NotOlder(click.q)
    /\ turn.pc \in {"save", "save_all"} => NotOlder(turn.q)

Finished ==
    /\ click.pc \in {"clear", "queue", "resolve"} => AllAnswered(click.q)
    /\ turn.pc \in {"save_all", "clear"} => AllAnswered(turn.q)
    /\ turn.pc = "save" => ~AllAnswered(turn.q) \/ turn.q.nr \in broken
    /\ question.open /\ AllAnswered(question) =>
           \/ question.nr \in broken
           \/ click.pc = "clear" /\ click.q.nr = question.nr
           \/ turn.pc = "clear" /\ turn.q.nr = question.nr

Queued ==
    /\ \A n \in 1..MessageBound : message[n].status # "none" => message[n].request \in Requests
    /\ click.pc = "resolve" =>
           /\ click.message # 0
           /\ message[click.message].status # "none"
           /\ message[click.message].request = click.q.request
           /\ message[click.message].said = click.q.said
           /\ message[click.message].own => OwnIds(click.q)
    /\ worker.message # 0 =>
           /\ message[worker.message].status # "none"
           /\ worker.pc = "reading" => worker.request = message[worker.message].request
    /\ worker.pc = "reading" => worker.request \in Requests
    /\ \A n \in 1..MessageBound : message[n].exact # {} =>
           Followed(message[n].request, message[n].exact, message[n].said, message[n].own, TRUE)
    /\ PlannedTurn(worker)

DisInv == DisTypeOK /\ HeldQuestions /\ Finished /\ Queued

LEMMA NullsTyped ==
    /\ NoPick \in Pick /\ NoQuestion \in Question /\ NoMessage \in Message
    /\ NoClick \in Click /\ NotWriting \in Writing /\ NoTurn \in Turn
<1> USE DisambiguationConstants
<1>1. NoPick \in Pick
  BY DEF NoPick, Pick
<1>2. NoQuestion \in Question
  BY <1>1 DEF NoQuestion, Question
<1>3. NoMessage \in Message /\ NoTurn \in Turn
  BY <1>1 DEF NoMessage, Message, NoTurn, Turn
<1>4. NoClick \in Click /\ NotWriting \in Writing
  BY <1>2 DEF NoClick, Click, NotWriting, Writing
<1> QED BY <1>1, <1>2, <1>3, <1>4

LEMMA DisInit_Inv == DisInit => DisInv
<1> SUFFICES ASSUME DisInit PROVE DisInv
  OBVIOUS
<1> USE DisambiguationConstants, NullsTyped
<1>1. DisTypeOK
  <2>1. message \in [1..MessageBound -> Message]
    BY DEF DisInit
  <2>2. asked \in 0..QuestionBound /\ faults \in 0..FaultBound /\ clears \in 0..ClearBound
    BY DEF DisInit
  <2> QED BY <2>1, <2>2 DEF DisInit, DisTypeOK
<1>2. HeldQuestions
  BY DEF DisInit, HeldQuestions, NoQuestion, NoClick, NotWriting
<1>3. Finished
  BY DEF DisInit, Finished, NoQuestion, NoClick, NotWriting
<1>4. Queued
  BY DEF DisInit, Queued, NoClick, NoTurn, NoMessage, PlannedTurn
<1> QED BY <1>1, <1>2, <1>3, <1>4 DEF DisInv

LEMMA GroupsAreSlots == \A r : Groups(r) \subseteq Slots
BY DEF Groups

\* The answers of a question that has them all, as the turn takes them over and
\* as the row of the button keeps them.
LEMMA AllAnswersFollowed ==
    ASSUME NEW q \in Question, SoundQuestion(q), AllAnswered(q)
    PROVE  LET fitting == {q.choice[g] : g \in Fitting(q)} IN
           /\ Chosen(q) # {} /\ Chosen(q) \subseteq Characters
           /\ Followed(q.request, Chosen(q), q.said, OwnIds(q), FALSE)
           /\ fitting # {} /\ fitting \subseteq Characters
           /\ Followed(q.request, fitting, q.said, OwnIds(q), FALSE)
           /\ Kept(q) \subseteq Characters
           /\ Followed(q.request, Kept(q), q.said, OwnIds(q), TRUE)
<1> DEFINE groups == Groups(q.request)
           fitting == {q.choice[g] : g \in Fitting(q)}
           before(g) == {q.choice[h] : h \in {f \in Fitting(q) : f < g}}
<1> USE DisambiguationConstants
<1>1. \A g \in groups : q.choice[g] # NoCharacter /\ q.choice[g] \in Characters
  BY DEF AllAnswered, Unanswered, Question, Pick, Groups
<1>2. \A h \in groups : \E g \in groups : q.choice[g] = q.choice[h] /\ AnsweredItself(q, g)
  BY <1>1 DEF SoundQuestion
<1>3. OwnIds(q) => \A g \in groups : AnsweredItself(q, g)
  BY <1>1 DEF SoundQuestion
<1>4. Chosen(q) = {q.choice[g] : g \in groups}
  BY <1>1 DEF Chosen
<1>5. \A h \in groups : q.choice[h] \in Named(q.said, groups)
  BY <1>1, <1>2 DEF Named, AnsweredItself
<1>6. groups # {} /\ Fitting(q) \subseteq groups
  BY DEF SoundQuestion, Fitting
<1>7. \A g \in groups : AnsweredItself(q, g) => g \in Fitting(q)
  BY DEF AnsweredItself, Fitting
<1>8. Chosen(q) # {} /\ fitting # {}
  BY <1>2, <1>4, <1>6, <1>7
<1>9. Chosen(q) \subseteq Characters /\ fitting \subseteq Characters
  BY <1>1, <1>4, <1>6
<1>10. Kept(q) = {q.choice[g] : g \in {h \in Fitting(q) : Cardinality(before(h)) < ResolutionLimit}}
  BY DEF Kept
<1>11. Kept(q) \subseteq fitting
  BY <1>10
<1>12. /\ Chosen(q) \subseteq Named(q.said, groups) /\ fitting \subseteq Named(q.said, groups)
       /\ Kept(q) \subseteq Named(q.said, groups)
  BY <1>4, <1>5, <1>6, <1>11
<1>13. ASSUME OwnIds(q), NEW g \in groups
       PROVE  /\ q.said[g] \in q.request.options[g]
              /\ q.said[g] \in Chosen(q) /\ q.said[g] \in fitting
              /\ \/ q.said[g] \in Kept(q)
                 \/ Cardinality(Named(q.said, {h \in groups : h < g})) >= ResolutionLimit
  <2>1. q.said[g] = q.choice[g] /\ q.choice[g] \in q.request.options[g] /\ g \in Fitting(q)
    BY <1>3, <1>7, <1>13 DEF AnsweredItself
  <2>2. Fitting(q) = groups /\ \A h \in groups : q.said[h] = q.choice[h]
    BY <1>3, <1>6, <1>7, <1>13 DEF AnsweredItself
  <2>3. before(g) = Named(q.said, {h \in groups : h < g})
    BY <1>1, <2>2 DEF Named
  <2>4. IsFiniteSet(before(g)) /\ Cardinality(before(g)) \in Nat
    <3> DEFINE earlier == {f \in Fitting(q) : f < g}
    <3>1. earlier \subseteq Slots
      BY <1>6, GroupsAreSlots
    <3>2. IsFiniteSet(earlier)
      BY <3>1, SlotsFinite, FS_Subset
    <3> HIDE DEF earlier
    <3>3. IsFiniteSet({q.choice[h] : h \in earlier})
      <4> DEFINE T == {q.choice[h] : h \in earlier}
                 f == [h \in earlier |-> q.choice[h]]
      <4>1. f \in Surjection(earlier, T)
        BY DEF Surjection
      <4> QED BY <3>2, <4>1, FS_Surjection
    <3>4. before(g) = {q.choice[h] : h \in earlier}
      BY DEF earlier
    <3> QED BY <3>3, <3>4, FS_CardinalityType
  <2> HIDE DEF before
  <2>5. Cardinality(before(g)) < ResolutionLimit => q.choice[g] \in Kept(q)
    BY <1>10, <2>1
  <2> QED BY <1>4, <2>1, <2>3, <2>4, <2>5
<1> HIDE DEF fitting
<1>14. /\ Followed(q.request, Chosen(q), q.said, OwnIds(q), FALSE)
       /\ Followed(q.request, fitting, q.said, OwnIds(q), FALSE)
       /\ Followed(q.request, Kept(q), q.said, OwnIds(q), TRUE)
  BY <1>12, <1>13 DEF Followed
<1> QED BY <1>8, <1>9, <1>11, <1>14 DEF fitting

LEMMA SoundWhereverHeld ==
    ASSUME NEW q, NEW r, SoundQuestion(q), r.request = q.request, r.id = q.id,
           r.choice = q.choice, r.said = q.said
    PROVE  SoundQuestion(r) /\ (AllAnswered(r) <=> AllAnswered(q))
<1>1. \A g : AnsweredItself(r, g) <=> AnsweredItself(q, g)
  BY DEF AnsweredItself
<1>2. OwnIds(r) <=> OwnIds(q)
  BY DEF OwnIds, SameId
<1> QED BY <1>1, <1>2 DEF SoundQuestion, AllAnswered, Unanswered

\* A click on one of the candidates of an unanswered group: the answers that
\* the question has stay, and the new one is the user's.
LEMMA ResolveGroupSound ==
    ASSUME NEW q \in Question, SoundQuestion(q), NEW g \in Unanswered(q), NEW c \in q.request.options[g]
    PROVE  LET r == ResolveGroup(q, g, c) IN
           /\ r \in Question /\ r.nr = q.nr /\ r.request = q.request /\ SoundQuestion(r)
           /\ \A h \in Slots : q.choice[h] # NoCharacter => r.choice[h] = q.choice[h]
<1> DEFINE r == ResolveGroup(q, g, c)
<1> USE DisambiguationConstants
<1>1. g \in Slots /\ g \in Groups(q.request) /\ q.choice[g] = NoCharacter
  BY DEF Unanswered, Groups
<1>2. c \in Characters /\ c # NoCharacter
  BY <1>1 DEF SoundQuestion
<1>3. q.choice \in Pick /\ q.said \in Pick
  BY DEF Question
<1>4. r.choice = [h \in Slots |-> IF h \in SameId(q, g) THEN c ELSE q.choice[h]]
  BY DEF ResolveGroup, Question
<1>5. r.said = [q.said EXCEPT ![g] = c] /\ r.nr = q.nr /\ r.request = q.request /\ r.id = q.id
  BY DEF ResolveGroup, Question
<1> HIDE DEF r
<1>6. r.choice \in Pick /\ r.said \in Pick
  <2>1. \A h \in Slots : q.choice[h] \in Characters \cup {NoCharacter}
    BY <1>3 DEF Pick
  <2>2. r.choice \in Pick
    BY <1>2, <1>4, <2>1 DEF Pick
  <2>3. r.said \in Pick
    BY <1>2, <1>3, <1>5 DEF Pick
  <2> QED BY <2>2, <2>3
<1>7. r \in Question
  BY <1>6 DEF r, ResolveGroup, Question
<1>8. SameId(q, g) = {h \in Groups(q.request) : q.id[h] = q.id[g]} /\ g \in SameId(q, g)
  BY <1>1 DEF SameId
<1>9. ASSUME NEW h \in Slots, q.choice[h] # NoCharacter
      PROVE  h \in Groups(q.request) /\ h \notin SameId(q, g) /\ h # g /\ r.choice[h] = q.choice[h]
  <2>1. h \in Groups(q.request)
    BY <1>9 DEF SoundQuestion
  <2>2. h \notin SameId(q, g)
    BY <1>1, <1>8, <1>9, <2>1 DEF SoundQuestion
  <2> QED BY <1>1, <1>4, <1>9, <2>1, <2>2
<1>10. r.said[g] = c /\ r.choice[g] = c /\ \A h \in Slots : h # g => r.said[h] = q.said[h]
  BY <1>1, <1>3, <1>4, <1>5, <1>8 DEF Pick
<1>11. AnsweredItself(r, g)
  BY <1>5, <1>10 DEF AnsweredItself
<1>12. ASSUME NEW h \in Slots, q.choice[h] # NoCharacter, AnsweredItself(q, h) PROVE AnsweredItself(r, h)
  BY <1>5, <1>9, <1>10, <1>12 DEF AnsweredItself
<1>13. \A h \in Groups(r.request) : h \in Slots /\ h \in Groups(q.request)
  BY <1>5, GroupsAreSlots
<1>14. SoundQuestion(r)
  <2>1. ASSUME NEW h \in Slots, r.choice[h] # NoCharacter PROVE h \in Groups(r.request)
    <3>1. CASE h \in SameId(q, g)
      BY <1>5, <1>8, <3>1
    <3>2. CASE h \notin SameId(q, g)
      <4>1. q.choice[h] # NoCharacter
        BY <1>4, <2>1, <3>2
      <4> QED BY <1>5, <1>9, <4>1
    <3> QED BY <3>1, <3>2
  <2>2. ASSUME NEW h \in Groups(r.request), NEW k \in Groups(r.request), r.id[k] = r.id[h]
        PROVE  r.choice[k] = r.choice[h]
    BY <1>4, <1>5, <1>8, <1>13, <2>2 DEF SoundQuestion
  <2>3. ASSUME NEW h \in Groups(r.request), r.choice[h] # NoCharacter
        PROVE  \E f \in Groups(r.request) : r.choice[f] = r.choice[h] /\ AnsweredItself(r, f)
    <3>1. CASE h \in SameId(q, g)
      BY <1>1, <1>4, <1>5, <1>10, <1>11, <1>13, <3>1
    <3>2. CASE h \notin SameId(q, g)
      <4>1. r.choice[h] = q.choice[h]
        BY <1>4, <1>13, <3>2
      <4>2. PICK f \in Groups(q.request) : q.choice[f] = q.choice[h] /\ AnsweredItself(q, f)
        BY <1>13, <2>3, <4>1 DEF SoundQuestion
      <4>3. f \in Slots /\ q.choice[f] # NoCharacter
        BY <2>3, <4>1, <4>2, GroupsAreSlots
      <4>4. r.choice[f] = r.choice[h] /\ AnsweredItself(r, f)
        BY <1>9, <1>12, <4>1, <4>2, <4>3
      <4> QED BY <1>5, <4>4
    <3> QED BY <3>1, <3>2
  <2>4. ASSUME OwnIds(r), NEW h \in Groups(r.request), r.choice[h] # NoCharacter PROVE AnsweredItself(r, h)
    <3>1. OwnIds(q)
      BY <1>5, <2>4 DEF OwnIds, SameId
    <3>2. CASE h = g
      BY <1>11, <3>2
    <3>3. CASE h # g
      <4>1. h \notin SameId(q, g)
        BY <1>1, <3>1, <3>3 DEF OwnIds
      <4>2. q.choice[h] # NoCharacter /\ h \in Slots
        BY <1>4, <1>13, <2>4, <4>1
      <4> QED BY <1>12, <1>13, <3>1, <4>2 DEF SoundQuestion
    <3> QED BY <3>2, <3>3
  <2> QED BY <1>5, <2>1, <2>2, <2>3, <2>4 DEF SoundQuestion
<1> QED BY <1>5, <1>7, <1>9, <1>14 DEF r

\* The same for a text that names candidates of several groups.
LEMMA ResolveByTextSound ==
    ASSUME NEW q \in Question, SoundQuestion(q), NEW p \in Pick,
           \A g \in Slots : p[g] \in q.request.options[g] \cup {NoCharacter}
    PROVE  LET r == ResolveByText(q, p) IN
           /\ r \in Question /\ r.nr = q.nr /\ r.request = q.request /\ SoundQuestion(r)
           /\ \A h \in Slots : q.choice[h] # NoCharacter => r.choice[h] = q.choice[h]
<1> DEFINE r == ResolveByText(q, p)
           named == {g \in Unanswered(q) : p[g] # NoCharacter}
           by(h) == {g \in named : h \in SameId(q, g) /\ \A f \in named : h \in SameId(q, f) => g <= f}
           first(h) == CHOOSE g \in by(h) : TRUE
<1> USE DisambiguationConstants
<1>1. q.choice \in Pick /\ q.said \in Pick
  BY DEF Question
<1>2. r.choice = [h \in Slots |-> IF by(h) # {} THEN p[first(h)] ELSE q.choice[h]]
  BY DEF ResolveByText, Question
<1>3. r.said = [h \in Slots |-> IF h \in named THEN p[h] ELSE q.said[h]]
  BY DEF ResolveByText, Question
<1>4. r.nr = q.nr /\ r.request = q.request /\ r.id = q.id
  BY DEF ResolveByText, Question
<1>5. \A g \in named : /\ g \in Groups(q.request) /\ g \in Slots /\ q.choice[g] = NoCharacter
                       /\ p[g] \in q.request.options[g] /\ p[g] # NoCharacter
  BY DEF Unanswered, Groups
<1>6. ASSUME NEW h \in Slots, by(h) # {}
      PROVE  first(h) \in named /\ h \in SameId(q, first(h)) /\ first(h) \in by(h)
  <2>1. first(h) \in by(h)
    BY <1>6
  <2> QED BY <2>1
<1>7. ASSUME NEW h \in Groups(q.request), NEW k \in Groups(q.request), q.id[h] = q.id[k]
      PROVE  by(h) = by(k) /\ first(h) = first(k)
  <2>1. by(h) = by(k)
    BY <1>5, <1>7 DEF SameId
  <2> QED BY <2>1
<1>8. \A g, h \in Groups(q.request) : h \in SameId(q, g) <=> q.id[h] = q.id[g]
  BY DEF SameId
<1>9. \A g, h \in Slots : h \in SameId(q, g) => h \in Groups(q.request)
  BY DEF SameId
<1> HIDE DEF by, named, first, r
<1>10. r.choice \in Pick /\ r.said \in Pick
  <2>1. \A h \in Slots : /\ q.choice[h] \in Characters \cup {NoCharacter}
                          /\ q.said[h] \in Characters \cup {NoCharacter}
                          /\ p[h] \in Characters \cup {NoCharacter}
    BY <1>1 DEF Pick
  <2>2. \A h \in Slots : r.choice[h] \in Characters \cup {NoCharacter}
    BY <1>2, <1>5, <1>6, <2>1
  <2>3. r.choice \in Pick
    BY <1>2, <2>2 DEF Pick
  <2>4. r.said \in Pick
    BY <1>3, <2>1 DEF Pick
  <2> QED BY <2>3, <2>4
<1>11. r \in Question
  BY <1>10 DEF r, ResolveByText, Question
<1>12. ASSUME NEW h \in Slots, q.choice[h] # NoCharacter
       PROVE  by(h) = {} /\ h \notin named /\ r.choice[h] = q.choice[h] /\ r.said[h] = q.said[h]
  <2>1. h \in Groups(q.request)
    BY <1>12 DEF SoundQuestion
  <2>2. by(h) = {}
    <3> SUFFICES ASSUME by(h) # {} PROVE FALSE
      OBVIOUS
    <3>1. first(h) \in Groups(q.request) /\ q.choice[first(h)] = NoCharacter /\ q.id[h] = q.id[first(h)]
      BY <1>5, <1>6, <1>8, <2>1
    <3> QED BY <1>12, <2>1, <3>1 DEF SoundQuestion
  <2>3. h \notin named
    BY <1>5, <1>12
  <2> QED BY <1>2, <1>3, <2>2, <2>3
<1>13. ASSUME NEW h \in Slots, q.choice[h] # NoCharacter, AnsweredItself(q, h) PROVE AnsweredItself(r, h)
  BY <1>4, <1>12, <1>13 DEF AnsweredItself
<1>14. ASSUME NEW h \in Slots, by(h) # {}
       PROVE  LET g == first(h)
              IN  g \in Groups(q.request) /\ r.choice[g] = r.choice[h] /\ AnsweredItself(r, g)
  <2> DEFINE g == first(h)
  <2>1. g \in named /\ g \in Slots /\ g \in Groups(q.request) /\ h \in Groups(q.request) /\ q.id[h] = q.id[g]
    BY <1>5, <1>6, <1>8, <1>9, <1>14
  <2>2. by(g) # {} /\ first(g) = g
    BY <1>7, <1>14, <2>1
  <2> HIDE DEF g
  <2>3. r.choice[g] = p[g] /\ r.said[g] = p[g] /\ p[g] \in q.request.options[g]
    BY <1>2, <1>3, <1>5, <2>1, <2>2
  <2>4. r.choice[h] = p[g]
    BY <1>2, <1>14 DEF g
  <2>5. AnsweredItself(r, g)
    BY <1>4, <2>3 DEF AnsweredItself
  <2> QED BY <2>1, <2>3, <2>4, <2>5 DEF g
<1>15. \A h \in Groups(r.request) : h \in Slots /\ h \in Groups(q.request)
  BY <1>4, GroupsAreSlots
<1>16. SoundQuestion(r)
  <2>1. ASSUME NEW h \in Slots, r.choice[h] # NoCharacter PROVE h \in Groups(r.request)
    <3>1. CASE by(h) # {}
      BY <1>4, <1>5, <1>6, <1>9, <3>1
    <3>2. CASE by(h) = {}
      BY <1>2, <1>4, <2>1, <3>2 DEF SoundQuestion
    <3> QED BY <3>1, <3>2
  <2>2. ASSUME NEW h \in Groups(r.request), NEW k \in Groups(r.request), r.id[k] = r.id[h]
        PROVE  r.choice[k] = r.choice[h]
    <3>1. by(h) = by(k) /\ first(h) = first(k)
      BY <1>4, <1>7, <1>15, <2>2
    <3>2. q.choice[k] = q.choice[h]
      BY <1>4, <1>15, <2>2 DEF SoundQuestion
    <3> QED BY <1>2, <1>15, <3>1, <3>2
  <2>3. ASSUME NEW h \in Groups(r.request), r.choice[h] # NoCharacter
        PROVE  \E f \in Groups(r.request) : r.choice[f] = r.choice[h] /\ AnsweredItself(r, f)
    <3>1. CASE by(h) # {}
      BY <1>4, <1>14, <1>15, <3>1
    <3>2. CASE by(h) = {}
      <4>1. r.choice[h] = q.choice[h]
        BY <1>2, <1>15, <3>2
      <4>2. PICK f \in Groups(q.request) : q.choice[f] = q.choice[h] /\ AnsweredItself(q, f)
        BY <1>15, <2>3, <4>1 DEF SoundQuestion
      <4>3. f \in Slots /\ q.choice[f] # NoCharacter
        BY <2>3, <4>1, <4>2, GroupsAreSlots
      <4>4. r.choice[f] = r.choice[h] /\ AnsweredItself(r, f)
        BY <1>12, <1>13, <4>1, <4>2, <4>3
      <4> QED BY <1>4, <4>4
    <3> QED BY <3>1, <3>2
  <2>4. ASSUME OwnIds(r), NEW h \in Groups(r.request), r.choice[h] # NoCharacter PROVE AnsweredItself(r, h)
    <3>1. OwnIds(q)
      BY <1>4, <2>4 DEF OwnIds, SameId
    <3>2. CASE by(h) # {}
      <4>1. first(h) \in Groups(q.request) /\ h \in SameId(q, first(h))
        BY <1>5, <1>6, <1>15, <3>2
      <4>2. first(h) = h
        BY <3>1, <4>1 DEF OwnIds
      <4> QED BY <1>14, <1>15, <3>2, <4>2
    <3>3. CASE by(h) = {}
      <4>1. q.choice[h] # NoCharacter /\ h \in Slots
        BY <1>2, <1>15, <2>4, <3>3
      <4> QED BY <1>13, <1>15, <3>1, <4>1 DEF SoundQuestion
    <3> QED BY <3>2, <3>3
  <2> QED BY <1>4, <2>1, <2>2, <2>3, <2>4 DEF SoundQuestion
<1> QED BY <1>4, <1>11, <1>12, <1>16 DEF r

\* What a message was queued for does not change under a step that only moves
\* its status or deletes its resolution.
SameMessages ==
    \A n \in 1..MessageBound :
        /\ message'[n].status # "none" <=> message[n].status # "none"
        /\ message[n].status # "none" => /\ message'[n].request = message[n].request
                                         /\ message'[n].said = message[n].said
                                         /\ message'[n].own = message[n].own
        /\ message'[n].exact # {} => message'[n] = [message[n] EXCEPT !.status = message'[n].status]

LEMMA EndTurnMessages ==
    ASSUME DisTypeOK, EndTurn
    PROVE  /\ worker' = NoTurn /\ worker' \in Turn
           /\ message' \in [1..MessageBound -> Message] /\ SameMessages
<1>1. message \in [1..MessageBound -> Message] /\ worker.message \in 0..MessageBound
  BY DEF DisTypeOK, Turn
<1>2. CASE worker.message = 0
  BY <1>1, <1>2, NullsTyped DEF EndTurn, SameMessages, Message
<1>3. CASE worker.message # 0
  <2>1. worker.message \in 1..MessageBound
    BY <1>1, <1>3, DisambiguationConstants
  <2>2. PICK s \in {"none", "pending", "processing", "done"} :
            /\ message' = [message EXCEPT ![worker.message].status = s]
            /\ s = IF message[worker.message].status = "processing" THEN "done"
                   ELSE message[worker.message].status
    BY <1>1, <1>3, <2>1 DEF EndTurn, Message
  <2>3. message' \in [1..MessageBound -> Message]
    BY <1>1, <2>1, <2>2 DEF Message
  <2>4. SameMessages
    BY <1>1, <2>1, <2>2 DEF SameMessages, Message
  <2> QED BY <2>3, <2>4, NullsTyped DEF EndTurn
<1> QED BY <1>2, <1>3

\* Such a step keeps what is known of the queue, while the turn goes on or ends
\* and nobody queues.
LEMMA QueuedKept ==
    ASSUME DisInv, SameMessages, click' = click \/ click'.pc # "resolve",
           worker' = worker \/ worker' = NoTurn
    PROVE  Queued'
<1> USE DisambiguationConstants
<1>1. message \in [1..MessageBound -> Message] /\ worker.message \in 0..MessageBound
      /\ click.message \in 0..MessageBound
  BY DEF DisInv, DisTypeOK, Turn, Click
<1>2. \A n \in 1..MessageBound : message'[n].status # "none" => message'[n].request \in Requests
  BY DEF SameMessages, DisInv, Queued
<1>3. click'.pc = "resolve" =>
           /\ click'.message # 0
           /\ message'[click'.message].status # "none"
           /\ message'[click'.message].request = click'.q.request
           /\ message'[click'.message].said = click'.q.said
           /\ message'[click'.message].own => OwnIds(click'.q)
  <2>1. CASE click' = click /\ click.pc = "resolve"
    <3>1. click.message \in 1..MessageBound
      BY <1>1, <2>1 DEF DisInv, Queued
    <3> QED BY <2>1, <3>1 DEF SameMessages, DisInv, Queued
  <2>2. CASE click'.pc # "resolve"
    BY <2>2
  <2> QED BY <2>1, <2>2
<1>4. /\ worker'.message # 0 =>
           /\ message'[worker'.message].status # "none"
           /\ worker'.pc = "reading" => worker'.request = message'[worker'.message].request
      /\ worker'.pc = "reading" => worker'.request \in Requests
  <2>1. CASE worker' = worker
    <3>1. CASE worker.message # 0
      <4>1. worker.message \in 1..MessageBound
        BY <1>1, <3>1
      <4> QED BY <2>1, <3>1, <4>1 DEF SameMessages, DisInv, Queued
    <3>2. CASE worker.message = 0
      BY <2>1, <3>2 DEF DisInv, Queued
    <3> QED BY <3>1, <3>2
  <2>2. CASE worker' = NoTurn
    BY <2>2 DEF NoTurn
  <2> QED BY <2>1, <2>2
<1>5. ASSUME NEW n \in 1..MessageBound, message'[n].exact # {}
      PROVE  Followed(message'[n].request, message'[n].exact, message'[n].said, message'[n].own, TRUE)
  <2>1. message'[n] = [message[n] EXCEPT !.status = message'[n].status]
    BY <1>5 DEF SameMessages
  <2>2. /\ message'[n].request = message[n].request /\ message'[n].exact = message[n].exact
        /\ message'[n].said = message[n].said /\ message'[n].own = message[n].own
    BY <1>1, <2>1 DEF Message
  <2> QED BY <1>5, <2>2 DEF DisInv, Queued
<1>6. PlannedTurn(worker')
  BY DEF DisInv, Queued, PlannedTurn, NoTurn
<1> QED BY <1>2, <1>3, <1>4, <1>5, <1>6 DEF Queued

LEMMA NothingWritten == ASSUME DisInv, message' = message PROVE SameMessages
<1>1. message \in [1..MessageBound -> Message]
  BY DEF DisInv, DisTypeOK
<1> QED BY <1>1 DEF SameMessages, Message

\* The message that the button queues, and the turn that takes it.
Awaiting(r, s, o) == [NoMessage EXCEPT !.status = "pending", !.request = r, !.said = s, !.own = o]
Reading(n, r) == [NoTurn EXCEPT !.pc = "reading", !.message = n, !.request = r]

LEMMA QueuedMessage ==
    ASSUME NEW r \in Requests, NEW s \in Pick, NEW o \in BOOLEAN
    PROVE  LET m == Awaiting(r, s, o)
           IN  /\ m \in Message /\ m.status = "pending" /\ m.request = r /\ m.exact = {} /\ m.said = s
               /\ m.own = o
<1>1. NoMessage \in Message /\ NoMessage.exact = {}
  BY NullsTyped DEF NoMessage
<1> QED BY <1>1 DEF Message, Awaiting

LEMMA ReadingTurn ==
    ASSUME NEW r \in Requests, NEW n \in 0..MessageBound
    PROVE  LET t == Reading(n, r)
           IN  t \in Turn /\ t.pc = "reading" /\ t.message = n /\ t.request = r
BY NullsTyped DEF Turn, Reading

LEMMA ClickPreserved ==
    ASSUME DisInv, ClickStep
    PROVE  DisInv'
<1> USE DisambiguationConstants, NullsTyped
<1> USE DEF DisInv, counters
<1>1. ASSUME NEW g \in Slots, NEW c \in Characters, ClickReads(g, c) PROVE DisInv'
  <2> DEFINE r == ResolveGroup(question, g, c)
  <2>1. question \in Question /\ SoundQuestion(question) /\ question.open
    BY <1>1 DEF ClickReads, IsAsked, HeldQuestions, DisTypeOK
  <2>2. /\ r \in Question /\ r.nr = question.nr /\ SoundQuestion(r)
        /\ \A h \in Slots : question.choice[h] # NoCharacter => r.choice[h] = question.choice[h]
    BY <1>1, <2>1, ResolveGroupSound DEF ClickReads
  <2> HIDE DEF r
  <2>3. click' = [pc |-> "save", q |-> r, message |-> 0]
    BY <1>1 DEF ClickReads, HoldClick, NoClick, r
  <2>4. UNCHANGED <<v2, question, message, turn, worker, clearing, asked, faults, clears, broken>>
    BY <1>1 DEF ClickReads
  <2>5. turn.pc = "free" /\ click.pc = "free"
    BY <1>1 DEF ClickReads, LoopIsFree
  <2>6. DisTypeOK'
    BY <2>2, <2>3, <2>4 DEF DisTypeOK, Click
  <2>7. HeldQuestions'
    BY <2>2, <2>3, <2>4, <2>5 DEF HeldQuestions, SoundQuestion, NotOlder
  <2>8. Finished'
    BY <2>3, <2>4, <2>5 DEF Finished, AllAnswered, Unanswered
  <2>9. Queued'
    BY <2>3, <2>4 DEF Queued
  <2> QED BY <2>6, <2>7, <2>8, <2>9
<1>2. ASSUME ClickSaves PROVE DisInv'
  <2>1. click.pc = "save" /\ turn.pc = "free" /\ click.q \in Question /\ SoundQuestion(click.q)
    BY <1>2 DEF ClickSaves, HeldQuestions, DisTypeOK, Click
  <2>2. question' = [click.q EXCEPT !.open = TRUE] /\ question' \in Question /\ question'.open
    BY <1>2, <2>1 DEF ClickSaves, Question
  <2>3. UNCHANGED <<v2, message, turn, worker, clearing, asked, faults, clears, broken>>
    BY <1>2 DEF ClickSaves
  <2>4. /\ AllAnswered(click.q) => click' = [pc |-> "clear", q |-> click.q, message |-> 0]
        /\ ~AllAnswered(click.q) => click' = NoClick
    BY <1>2 DEF ClickSaves, HoldClick, NoClick
  <2>5. /\ question'.nr = click.q.nr /\ question'.request = click.q.request
        /\ question'.choice = click.q.choice /\ question'.said = click.q.said /\ question'.id = click.q.id
    BY <2>1, <2>2 DEF Question
  <2>6. SoundQuestion(question') /\ (AllAnswered(question') <=> AllAnswered(click.q))
    BY <2>1, <2>5, SoundWhereverHeld
  <2>7. DisTypeOK'
    BY <2>1, <2>2, <2>3, <2>4 DEF DisTypeOK, Click
  <2>8. HeldQuestions'
    <3>1. question'.nr <= asked' /\ click'.q.nr <= asked' /\ turn'.q.nr <= asked'
      BY <2>1, <2>3, <2>4, <2>5 DEF HeldQuestions, NoClick, NoQuestion, DisTypeOK
    <3>2. click'.pc # "free" => SoundQuestion(click'.q)
      BY <2>1, <2>4 DEF NoClick
    <3>3. click'.pc # "save"
      BY <2>4 DEF NoClick
    <3> QED BY <2>1, <2>3, <2>6, <3>1, <3>2, <3>3 DEF HeldQuestions
  <2>9. Finished'
    BY <2>1, <2>3, <2>4, <2>5, <2>6 DEF Finished, NoClick
  <2>10. Queued'
    BY <2>3, <2>4, QueuedKept, NothingWritten DEF NoClick
  <2> QED BY <2>7, <2>8, <2>9, <2>10
<1>3. ASSUME ClickClears PROVE DisInv'
  <2>1. click.pc = "clear" /\ turn.pc = "free" /\ click.q \in Question
    BY <1>3 DEF ClickClears, HeldQuestions, DisTypeOK, Click
  <2>2. click' = [pc |-> "queue", q |-> click.q, message |-> 0] /\ question' = NoQuestion
    BY <1>3 DEF ClickClears, HoldClick, NoClick
  <2>3. UNCHANGED <<v2, message, turn, worker, clearing, asked, faults, clears, broken>>
    BY <1>3 DEF ClickClears
  <2>4. DisTypeOK'
    BY <2>1, <2>2, <2>3 DEF DisTypeOK, Click
  <2>5. HeldQuestions'
    BY <2>1, <2>2, <2>3 DEF HeldQuestions, NoQuestion, DisTypeOK
  <2>6. Finished'
    BY <2>1, <2>2, <2>3 DEF Finished, NoQuestion
  <2>7. Queued'
    BY <2>2, <2>3 DEF Queued
  <2> QED BY <2>4, <2>5, <2>6, <2>7
<1>4. ASSUME NEW n \in 1..MessageBound, ClickQueues(n) PROVE DisInv'
  <2>1. click.pc = "queue" /\ turn.pc = "free" /\ click.q \in Question /\ SoundQuestion(click.q)
    BY <1>4 DEF ClickQueues, HeldQuestions, DisTypeOK, Click
  <2> DEFINE own == OwnIds(click.q)
             m == Awaiting(click.q.request, click.q.said, own)
  <2>2. /\ m \in Message /\ m.status = "pending" /\ m.request = click.q.request
        /\ m.exact = {} /\ m.said = click.q.said /\ m.request \in Requests /\ m.own = own
    <3>1. click.q.request \in Requests /\ click.q.said \in Pick
      BY <2>1 DEF SoundQuestion, Question
    <3>2. own \in BOOLEAN
      BY DEF OwnIds
    <3> HIDE DEF own
    <3> QED BY <3>1, <3>2, QueuedMessage
  <2>3. message' = [message EXCEPT ![n] = m] /\ message[n].status = "none"
    BY <1>4 DEF ClickQueues, Awaiting
  <2> HIDE DEF m
  <2>4. click' = [pc |-> "resolve", q |-> click.q, message |-> n]
    BY <1>4 DEF ClickQueues, DisTypeOK, Click
  <2>5. UNCHANGED <<v2, question, turn, worker, clearing, asked, faults, clears, broken>>
    BY <1>4 DEF ClickQueues
  <2>6. message \in [1..MessageBound -> Message]
    BY DEF DisTypeOK
  <2>7. DisTypeOK'
    BY <2>1, <2>2, <2>3, <2>4, <2>5 DEF DisTypeOK, Click
  <2>8. HeldQuestions'
    BY <2>1, <2>4, <2>5 DEF HeldQuestions, NotOlder
  <2>9. Finished'
    BY <2>1, <2>4, <2>5 DEF Finished
  <2>10. Queued'
    <3>1. message'[n] = m /\ \A k \in 1..MessageBound : k # n => message'[k] = message[k]
      BY <2>3, <2>6
    <3>2. \A k \in 1..MessageBound : message'[k].status # "none" => message'[k].request \in Requests
      BY <2>2, <3>1 DEF Queued
    <3>3. worker.message # 0 => worker.message \in 1..MessageBound /\ worker.message # n
      BY <2>3 DEF Queued, DisTypeOK, Turn
    <3>4. ASSUME NEW k \in 1..MessageBound, message'[k].exact # {}
          PROVE  Followed(message'[k].request, message'[k].exact, message'[k].said, message'[k].own, TRUE)
      BY <2>2, <3>1, <3>4 DEF Queued
    <3>5. PlannedTurn(worker')
      BY <2>5 DEF Queued
    <3>6. n # 0
      OBVIOUS
    <3> QED BY <2>2, <2>4, <2>5, <3>1, <3>2, <3>3, <3>4, <3>5, <3>6 DEF Queued
  <2> QED BY <2>7, <2>8, <2>9, <2>10
<1>5. ASSUME ClickResolves PROVE DisInv'
  <2>1. click.pc = "resolve" /\ turn.pc = "free" /\ click.q \in Question /\ SoundQuestion(click.q)
        /\ click.message \in 1..MessageBound /\ AllAnswered(click.q)
    BY <1>5 DEF ClickResolves, HeldQuestions, DisTypeOK, Click, Queued, Finished
  <2> DEFINE n == click.message
             e == Kept(click.q)
  <2>2. message' = [message EXCEPT ![n].exact = e] /\ click' = NoClick
    BY <1>5 DEF ClickResolves
  <2>3. UNCHANGED <<v2, question, turn, worker, clearing, asked, faults, clears, broken>>
    BY <1>5 DEF ClickResolves
  <2>4. /\ message \in [1..MessageBound -> Message] /\ e \subseteq Characters
        /\ Followed(click.q.request, e, click.q.said, OwnIds(click.q), TRUE)
    BY <2>1, AllAnswersFollowed DEF DisTypeOK
  <2> HIDE DEF e
  <2>6. DisTypeOK'
    <3>1. message' \in [1..MessageBound -> Message]
      BY <2>1, <2>2, <2>4 DEF Message
    <3> QED BY <2>2, <2>3, <3>1 DEF DisTypeOK
  <2>7. HeldQuestions'
    BY <2>1, <2>2, <2>3 DEF HeldQuestions, NoClick, NoQuestion, NotOlder, DisTypeOK
  <2>8. Finished'
    BY <2>1, <2>2, <2>3 DEF Finished, NoClick
  <2>9. Queued'
    <3>1. /\ message'[n] = [message[n] EXCEPT !.exact = e]
          /\ \A k \in 1..MessageBound : k # n => message'[k] = message[k]
      BY <2>1, <2>2, <2>4
    <3>2. \A k \in 1..MessageBound : /\ message'[k].status = message[k].status
                                     /\ message'[k].request = message[k].request
                                     /\ message'[k].said = message[k].said
                                     /\ message'[k].own = message[k].own
      BY <2>1, <2>4, <3>1 DEF Message
    <3>3. ASSUME NEW k \in 1..MessageBound, message'[k].exact # {}
          PROVE  Followed(message'[k].request, message'[k].exact, message'[k].said, message'[k].own, TRUE)
      <4>1. CASE k = n
        <5>1. /\ message'[n].exact = e /\ message[n].request = click.q.request
              /\ message[n].said = click.q.said /\ (message[n].own => OwnIds(click.q))
          BY <2>1, <2>4, <3>1 DEF Message, Queued
        <5>2. Followed(click.q.request, e, click.q.said, message[n].own, TRUE)
          BY <2>4, <5>1 DEF Followed
        <5> QED BY <3>2, <4>1, <5>1, <5>2
      <4>2. CASE k # n
        BY <3>1, <3>3, <4>2 DEF Queued
      <4> QED BY <4>1, <4>2
    <3>4. PlannedTurn(worker')
      BY <2>3 DEF Queued
    <3>5. worker.message \in 0..MessageBound
      BY DEF DisTypeOK, Turn
    <3>6. \A k \in 1..MessageBound : message'[k].status # "none" => message'[k].request \in Requests
      BY <3>2 DEF Queued
    <3>7. click'.pc # "resolve"
      BY <2>2 DEF NoClick
    <3>8. /\ worker'.message # 0 =>
              /\ message'[worker'.message].status # "none"
              /\ worker'.pc = "reading" => worker'.request = message'[worker'.message].request
          /\ worker'.pc = "reading" => worker'.request \in Requests
      BY <2>3, <3>2, <3>5 DEF Queued
    <3> HIDE DEF DisInv
    <3> QED BY <3>3, <3>4, <3>6, <3>7, <3>8 DEF Queued
  <2> QED BY <2>6, <2>7, <2>8, <2>9
<1>6. ASSUME ClickRaises PROVE DisInv'
  <2>1. click.pc # "free" /\ turn.pc = "free" /\ click.q \in Question
    BY <1>6 DEF ClickRaises, HeldQuestions, DisTypeOK, Click
  <2>2. click' = NoClick /\ broken' = broken \cup {click.q.nr} /\ faults' = faults + 1 /\ faults < FaultBound
    BY <1>6 DEF ClickRaises, Fault
  <2>3. UNCHANGED <<v2, question, message, turn, worker, clearing, asked, clears>>
    BY <1>6 DEF ClickRaises
  <2>4. DisTypeOK'
    <3>1. broken' \subseteq 0..QuestionBound
      BY <2>1, <2>2 DEF DisTypeOK, Question
    <3>2. faults' \in 0..FaultBound
      BY <2>2 DEF DisTypeOK
    <3> QED BY <2>2, <2>3, <3>1, <3>2 DEF DisTypeOK
  <2>5. HeldQuestions'
    BY <2>1, <2>2, <2>3 DEF HeldQuestions, NoClick, NoQuestion, NotOlder, DisTypeOK
  <2>6. Finished'
    BY <2>1, <2>2, <2>3 DEF Finished, NoClick
  <2>7. Queued'
    BY <2>2, <2>3 DEF Queued, NoClick
  <2> QED BY <2>4, <2>5, <2>6, <2>7
<1> QED BY <1>1, <1>2, <1>3, <1>4, <1>5, <1>6 DEF ClickStep

\* A step of the worker that leaves the question, its holders and the counters
\* alone.
LEMMA QuietQuestion ==
    ASSUME DisInv, UNCHANGED <<question, click, turn, asked, broken>>
    PROVE  HeldQuestions' /\ Finished'
BY DEF DisInv, HeldQuestions, Finished, NotOlder

LEMMA TakesPreserved ==
    ASSUME DisInv, \/ \E n \in 1..MessageBound : TakeQueued(n)
                   \/ \E r \in Requests : TakeText(r)
                   \/ FollowResolution \/ ShowAgain \/ PlanEnds
    PROVE  DisInv'
<1> USE DisambiguationConstants, NullsTyped
<1> USE DEF DisInv, counters
<1>0. message \in [1..MessageBound -> Message] /\ worker \in Turn
  BY DEF DisTypeOK
<1>1. ASSUME NEW n \in 1..MessageBound, TakeQueued(n) PROVE DisInv'
  <2>1. /\ message' = [message EXCEPT ![n].status = "processing"] /\ message[n].status = "pending"
        /\ UNCHANGED <<v2, question, click, turn, clearing, asked, faults, clears, broken>>
    BY <1>1 DEF TakeQueued
  <2>2. message[n].request \in Requests /\ message[n].request \in Requests \cup {NoRequest}
    BY <2>1 DEF Queued
  <2>3. worker' \in Turn /\ worker'.pc = "reading" /\ worker'.message = n /\ worker'.request = message[n].request
    <3>1. worker' = Reading(n, message[n].request)
      BY <1>1 DEF TakeQueued, Reading
    <3> QED BY <2>2, <3>1, ReadingTurn
  <2>4. message' \in [1..MessageBound -> Message]
    BY <1>0, <2>1 DEF Message
  <2>5. \A k \in 1..MessageBound : /\ message'[k].status = IF k = n THEN "processing" ELSE message[k].status
                                   /\ message'[k].request = message[k].request
                                   /\ message'[k].exact = message[k].exact
                                   /\ message'[k].said = message[k].said
                                   /\ message'[k].own = message[k].own
    BY <1>0, <2>1 DEF Message
  <2>6. DisTypeOK'
    BY <2>1, <2>3, <2>4 DEF DisTypeOK
  <2>7. HeldQuestions' /\ Finished'
    BY <2>1, QuietQuestion
  <2>8. Queued'
    <3>1. \A k \in 1..MessageBound : message'[k].status # "none" => message'[k].request \in Requests
      BY <2>1, <2>5 DEF Queued
    <3>2. click.pc = "resolve" => click.message \in 1..MessageBound
      BY DEF Queued, DisTypeOK, Click
    <3>3. \A k \in 1..MessageBound : message'[k].status # "none" <=> message[k].status # "none"
      BY <2>1, <2>5
    <3>4. n # 0 /\ message'[n].status # "none"
      BY <2>5
    <3>5. PlannedTurn(worker')
      BY <2>3 DEF PlannedTurn
    <3>6. ASSUME NEW k \in 1..MessageBound, message'[k].exact # {}
          PROVE  Followed(message'[k].request, message'[k].exact, message'[k].said, message'[k].own, TRUE)
      BY <2>5, <3>6 DEF Queued
    <3>7. click'.pc = "resolve" =>
              /\ click'.message # 0
              /\ message'[click'.message].status # "none"
              /\ message'[click'.message].request = click'.q.request
              /\ message'[click'.message].said = click'.q.said
              /\ message'[click'.message].own => OwnIds(click'.q)
      BY <2>1, <2>5, <3>2, <3>3 DEF Queued
    <3>8. /\ worker'.message # 0 =>
              /\ message'[worker'.message].status # "none"
              /\ worker'.pc = "reading" => worker'.request = message'[worker'.message].request
          /\ worker'.pc = "reading" => worker'.request \in Requests
      BY <2>2, <2>3, <2>5, <3>4
    <3> HIDE DEF DisInv
    <3> QED BY <3>1, <3>5, <3>6, <3>7, <3>8 DEF Queued
  <2> QED BY <2>6, <2>7, <2>8
<1>2. ASSUME NEW r \in Requests, TakeText(r) PROVE DisInv'
  <2>1. UNCHANGED <<v2, question, message, click, turn, clearing, asked, faults, clears, broken>>
    BY <1>2 DEF TakeText
  <2>2. worker' \in Turn /\ worker'.pc = "reading" /\ worker'.message = 0 /\ worker'.request = r
    BY <1>2 DEF TakeText, Turn, NoTurn
  <2>3. DisTypeOK'
    BY <2>1, <2>2 DEF DisTypeOK
  <2>4. HeldQuestions' /\ Finished'
    BY <2>1, QuietQuestion
  <2>5. Queued'
    BY <2>1, <2>2 DEF Queued, PlannedTurn
  <2> QED BY <2>3, <2>4, <2>5
<1>3. ASSUME FollowResolution PROVE DisInv'
  <2> DEFINE n == worker.message
  <2>1. /\ UNCHANGED <<v2, question, message, click, turn, clearing, asked, faults, clears, broken>>
        /\ worker.pc = "reading"
    BY <1>3 DEF FollowResolution, TurnReads
  <2>2. n \in 1..MessageBound /\ message[n].exact # {}
        /\ Plan(worker.request, message[n].exact, TRUE, message[n].said, message[n].own)
    <3>1. Exact # {} /\ Plan(worker.request, Exact, TRUE, message[n].said, message[n].own)
      BY <1>3 DEF FollowResolution
    <3>2. n # 0 /\ Exact = message[n].exact
      BY <3>1 DEF Exact
    <3> QED BY <1>0, <3>1, <3>2 DEF Turn, Plan
  <2>3. message[n] \in Message
    BY <1>0, <2>2
  <2>4. /\ worker' \in Turn /\ worker'.pc = "planning" /\ worker'.message = n
        /\ worker'.request = worker.request /\ worker'.characters = message[n].exact
        /\ worker'.said = message[n].said /\ worker'.own = message[n].own
    BY <1>0, <2>2, <2>3 DEF Plan, Turn, Message
  <2>5. DisTypeOK'
    BY <2>1, <2>4 DEF DisTypeOK
  <2>6. HeldQuestions' /\ Finished'
    BY <2>1, QuietQuestion
  <2>7. Queued'
    <3>1. worker.request = message[n].request /\ message[n].status # "none"
      BY <2>1, <2>2 DEF Queued
    <3>2. Followed(worker.request, message[n].exact, message[n].said, message[n].own, TRUE)
      BY <2>2, <3>1 DEF Queued
    <3>3. worker'.message # 0 /\ worker'.characters # {}
      BY <2>2, <2>4
    <3>4. PlannedTurn(worker')
      BY <2>4, <3>2, <3>3 DEF PlannedTurn, Followed
    <3> QED BY <2>1, <2>4, <3>1, <3>4 DEF Queued
  <2> QED BY <2>5, <2>6, <2>7
<1>4. ASSUME ShowAgain \/ PlanEnds PROVE DisInv'
  <2>1. EndTurn /\ UNCHANGED <<v2, question, click, turn, clearing, asked, faults, clears, broken>>
    BY <1>4 DEF ShowAgain, PlanEnds
  <2>2. worker' = NoTurn /\ message' \in [1..MessageBound -> Message] /\ SameMessages
    BY <2>1, EndTurnMessages
  <2>3. DisTypeOK'
    BY <2>1, <2>2 DEF DisTypeOK
  <2>4. HeldQuestions' /\ Finished'
    BY <2>1, QuietQuestion
  <2>5. Queued'
    BY <2>1, <2>2, QueuedKept
  <2> QED BY <2>3, <2>4, <2>5
<1> QED BY <1>1, <1>2, <1>3, <1>4

\* A turn that answers a question or adds to it, until the answers are written.
LEMMA AnswersPreserved ==
    ASSUME DisInv, (\E p \in Pick : AnswerByText(p)) \/ AddSupplement \/ TurnSaves \/ TurnClears
    PROVE  DisInv'
<1> USE DisambiguationConstants, NullsTyped
<1> USE DEF DisInv, counters
<1>0. message \in [1..MessageBound -> Message] /\ worker \in Turn
  BY DEF DisTypeOK
<1>1. ASSUME NEW p \in Pick, AnswerByText(p) PROVE DisInv'
  <2> DEFINE r == ResolveByText(question, p)
             pc == IF ~AllAnswered(r) THEN "save" ELSE IF v2 THEN "clear" ELSE "save_all"
  <2>1. /\ question \in Question /\ SoundQuestion(question) /\ click.pc = "free"
        /\ \A g \in Slots : p[g] \in question.request.options[g] \cup {NoCharacter}
    BY <1>1 DEF AnswerByText, TurnReads, LoopIsFree, IsAsked, HeldQuestions, DisTypeOK
  <2>2. turn' = [pc |-> pc, q |-> r]
    BY <1>1 DEF AnswerByText, HoldTurn
  <2>3. UNCHANGED <<v2, question, message, click, worker, clearing, asked, faults, clears, broken>>
    BY <1>1 DEF AnswerByText
  <2>4. /\ r \in Question /\ r.nr = question.nr /\ SoundQuestion(r)
        /\ \A h \in Slots : question.choice[h] # NoCharacter => r.choice[h] = question.choice[h]
    BY <2>1, ResolveByTextSound
  <2> HIDE DEF r
  <2>5. /\ turn'.pc \in {"save", "clear", "save_all"} /\ turn'.q = r /\ turn' \in Writing
        /\ turn'.pc = "save" <=> ~AllAnswered(r)
    BY <2>2, <2>4 DEF Writing
  <2> HIDE DEF pc
  <2>6. DisTypeOK'
    BY <2>3, <2>5 DEF DisTypeOK
  <2>7. HeldQuestions'
    BY <2>1, <2>3, <2>4, <2>5 DEF HeldQuestions, NotOlder
  <2>8. Finished'
    BY <1>1, <2>1, <2>3, <2>5 DEF Finished, AnswerByText, AllAnswered, TurnReads
  <2>9. Queued'
    BY <2>3 DEF Queued
  <2> QED BY <2>6, <2>7, <2>8, <2>9
<1>2. ASSUME AddSupplement PROVE DisInv'
  <2>1. /\ question \in Question /\ SoundQuestion(question) /\ click.pc = "free" /\ question.open
        /\ turn.pc = "free"
    BY <1>2 DEF AddSupplement, TurnReads, LoopIsFree, IsAsked, HeldQuestions, DisTypeOK
  <2>2. turn' = [pc |-> "save", q |-> question]
    BY <1>2 DEF AddSupplement, HoldTurn
  <2>3. UNCHANGED <<v2, question, message, click, worker, clearing, asked, faults, clears, broken>>
    BY <1>2 DEF AddSupplement
  <2>4. DisTypeOK'
    BY <2>1, <2>2, <2>3 DEF DisTypeOK, Writing
  <2>5. HeldQuestions'
    BY <2>1, <2>2, <2>3 DEF HeldQuestions, NotOlder
  <2>6. Finished'
    BY <2>1, <2>2, <2>3 DEF Finished
  <2>7. Queued'
    BY <2>3 DEF Queued
  <2> QED BY <2>4, <2>5, <2>6, <2>7
<1>3. ASSUME TurnSaves PROVE DisInv'
  <2>1. turn.pc \in {"save", "save_all"} /\ click.pc = "free" /\ turn.q \in Question /\ SoundQuestion(turn.q)
    BY <1>3 DEF TurnSaves, HeldQuestions, DisTypeOK, Writing
  <2>2. question' = [turn.q EXCEPT !.open = TRUE] /\ question' \in Question
    BY <1>3, <2>1 DEF TurnSaves, Question
  <2>3. UNCHANGED <<v2, click, clearing, asked, faults, clears, broken>>
    BY <1>3 DEF TurnSaves
  <2>4. /\ question'.nr = turn.q.nr /\ question'.request = turn.q.request
        /\ question'.choice = turn.q.choice /\ question'.said = turn.q.said /\ question'.id = turn.q.id
    BY <2>1, <2>2 DEF Question
  <2>5. SoundQuestion(question') /\ (AllAnswered(question') <=> AllAnswered(turn.q))
    BY <2>1, <2>4, SoundWhereverHeld
  <2>6. CASE turn.pc = "save_all"
    <3>1. turn' = [pc |-> "clear", q |-> turn.q] /\ worker' = worker /\ message' = message
      BY <1>3, <2>6 DEF TurnSaves, HoldTurn
    <3>2. DisTypeOK'
      BY <2>1, <2>2, <2>3, <3>1 DEF DisTypeOK, Writing
    <3>3. HeldQuestions'
      BY <2>1, <2>3, <2>4, <2>5, <3>1 DEF HeldQuestions
    <3>4. Finished'
      BY <2>1, <2>3, <2>4, <2>5, <2>6, <3>1 DEF Finished
    <3>5. Queued'
      BY <2>3, <3>1 DEF Queued
    <3> QED BY <3>2, <3>3, <3>4, <3>5
  <2>7. CASE turn.pc = "save"
    <3>1. turn' = NotWriting /\ EndTurn
      BY <1>3, <2>7 DEF TurnSaves
    <3>2. worker' = NoTurn /\ message' \in [1..MessageBound -> Message] /\ SameMessages
      BY <3>1, EndTurnMessages
    <3>3. DisTypeOK'
      BY <2>2, <2>3, <3>1, <3>2 DEF DisTypeOK
    <3>4. HeldQuestions'
      BY <2>1, <2>3, <2>4, <2>5, <3>1 DEF HeldQuestions, NotWriting, NoQuestion, DisTypeOK
    <3>5. Finished'
      BY <2>1, <2>3, <2>4, <2>5, <2>7, <3>1 DEF Finished, NotWriting
    <3>6. Queued'
      BY <2>3, <3>2, QueuedKept
    <3> QED BY <3>3, <3>4, <3>5, <3>6
  <2> QED BY <2>1, <2>6, <2>7
<1>4. ASSUME TurnClears PROVE DisInv'
  <2> DEFINE e == IF v2 THEN Chosen(turn.q) ELSE {turn.q.choice[g] : g \in Fitting(turn.q)}
             own == OwnIds(turn.q)
  <2>1. turn.pc = "clear" /\ click.pc = "free" /\ turn.q \in Question /\ SoundQuestion(turn.q) /\ AllAnswered(turn.q)
    BY <1>4 DEF TurnClears, HeldQuestions, DisTypeOK, Writing, Finished
  <2>2. question' = NoQuestion /\ turn' = NotWriting /\ Plan(turn.q.request, e, TRUE, turn.q.said, own)
        /\ UNCHANGED <<v2, message, click, clearing, asked, faults, clears, broken>>
    BY <1>4 DEF TurnClears
  <2>3. own \in BOOLEAN
    BY DEF OwnIds
  <2>4. e # {} /\ e \subseteq Characters /\ Followed(turn.q.request, e, turn.q.said, own, FALSE)
    BY <2>1, AllAnswersFollowed
  <2> HIDE DEF e, own
  <2>5. /\ worker' \in Turn /\ worker'.pc = "planning" /\ worker'.message = worker.message
        /\ worker'.request = turn.q.request /\ worker'.characters = e /\ worker'.said = turn.q.said
        /\ worker'.own = own
    BY <1>0, <2>1, <2>2, <2>3, <2>4 DEF Plan, Turn, Question
  <2>6. DisTypeOK'
    BY <2>2, <2>5 DEF DisTypeOK
  <2>7. HeldQuestions'
    BY <2>1, <2>2 DEF HeldQuestions, NotWriting, NoQuestion, DisTypeOK
  <2>8. Finished'
    BY <2>1, <2>2 DEF Finished, NotWriting, NoQuestion
  <2>9. Queued'
    <3>1. PlannedTurn(worker')
      BY <2>4, <2>5 DEF Followed, PlannedTurn
    <3> QED BY <2>2, <2>5, <3>1 DEF Queued
  <2> QED BY <2>6, <2>7, <2>8, <2>9
<1> QED BY <1>1, <1>2, <1>3, <1>4

\* The question that is asked about request r.
AskAbout(k, r, id, n) ==
    [NoQuestion EXCEPT !.nr = k, !.open = TRUE, !.request = r, !.id = id, !.again = n # 0]

LEMMA FirstQuestion ==
    ASSUME NEW k \in 0..QuestionBound, NEW r \in Requests, NEW id \in [Slots -> Slots],
           NEW n \in 0..MessageBound
    PROVE  LET q == AskAbout(k, r, id, n)
           IN  q \in Question /\ q.nr = k /\ q.request = r /\ q.choice = NoPick /\ q.said = NoPick
<1>1. NoQuestion \in Question /\ NoQuestion.choice = NoPick /\ NoQuestion.said = NoPick
  BY NullsTyped DEF NoQuestion
<1> QED BY <1>1 DEF Question, AskAbout

LEMMA AsksPreserved ==
    ASSUME DisInv, NewRequest \/ TurnSupersedes \/ Analyse \/ TurnRaises
    PROVE  DisInv'
<1> USE DisambiguationConstants, NullsTyped
<1> USE DEF DisInv, counters
<1>0. message \in [1..MessageBound -> Message] /\ worker \in Turn
  BY DEF DisTypeOK
<1>1. ASSUME NewRequest \/ TurnSupersedes PROVE DisInv'
  <2>1. /\ UNCHANGED <<v2, message, click, worker, clearing, asked, faults, clears, broken>>
        /\ turn' \in Writing /\ turn'.pc \in {"supersede", "ask"} /\ turn'.q = NoQuestion
        /\ question' = question \/ question' = NoQuestion
    BY <1>1 DEF NewRequest, TurnSupersedes, HoldTurn, Writing
  <2>2. click.pc = "free" /\ turn.pc \in {"free", "supersede"}
    BY <1>1 DEF NewRequest, TurnSupersedes, TurnReads, LoopIsFree, HeldQuestions
  <2>3. DisTypeOK'
    BY <2>1 DEF DisTypeOK
  <2>4. HeldQuestions'
    BY <2>1, <2>2 DEF HeldQuestions, NoQuestion, DisTypeOK
  <2>5. Finished'
    BY <2>1, <2>2 DEF Finished, NoQuestion
  <2>6. Queued'
    BY <2>1 DEF Queued
  <2> QED BY <2>3, <2>4, <2>5, <2>6
<1>2. ASSUME Analyse PROVE DisInv'
  <2>1. /\ worker.pc = "reading" /\ turn' = NotWriting
        /\ UNCHANGED <<v2, click, clearing, faults, clears, broken>>
        /\ turn.pc \in {"free", "ask"} /\ click.pc = "free"
    BY <1>2 DEF Analyse, TurnReads, LoopIsFree, HeldQuestions
  <2>2. worker.request \in Requests
    BY <2>1 DEF Queued
  <2>3. CASE Groups(worker.request) # {}
    <3>0. PICK id \in Ids(worker.request) :
              question' = [NoQuestion EXCEPT !.nr = asked', !.open = TRUE, !.request = worker.request,
                                             !.id = id, !.again = worker.message # 0]
      BY <1>2, <2>3 DEF Analyse
    <3> DEFINE q == AskAbout(asked + 1, worker.request, id, worker.message)
    <3>1. asked < QuestionBound /\ asked' = asked + 1 /\ question' = q /\ EndTurn /\ id \in [Slots -> Slots]
      BY <1>2, <2>3, <3>0 DEF Analyse, AskAbout, Ids
    <3>2. /\ q \in Question /\ q.nr = asked' /\ q.request = worker.request /\ q.choice = NoPick /\ q.said = NoPick
      <4>1. asked + 1 \in 0..QuestionBound /\ worker.message \in 0..MessageBound
        BY <1>0, <3>1 DEF DisTypeOK, Turn
      <4> QED BY <2>2, <3>1, <4>1, FirstQuestion
    <3> HIDE DEF q
    <3>3. SoundQuestion(q) /\ ~AllAnswered(q)
      BY <2>2, <2>3, <3>2, GroupsAreSlots DEF SoundQuestion, AllAnswered, Unanswered, NoPick
    <3>4. worker' = NoTurn /\ message' \in [1..MessageBound -> Message] /\ SameMessages
      BY <3>1, EndTurnMessages
    <3>5. asked' \in 0..QuestionBound
      BY <3>1 DEF DisTypeOK
    <3>6. DisTypeOK'
      BY <2>1, <3>1, <3>2, <3>4, <3>5 DEF DisTypeOK
    <3>7. HeldQuestions'
      <4>1. question'.nr <= asked' /\ click'.q.nr <= asked' /\ turn'.q.nr <= asked'
        BY <2>1, <3>1, <3>2, <3>5 DEF HeldQuestions, NotWriting, NoQuestion, DisTypeOK, Click, Question
      <4> QED BY <2>1, <3>1, <3>3, <4>1 DEF HeldQuestions, NotWriting
    <3>8. Finished'
      BY <2>1, <3>1, <3>3 DEF Finished, NotWriting
    <3>9. Queued'
      BY <2>1, <3>4, QueuedKept
    <3> QED BY <3>6, <3>7, <3>8, <3>9
  <2>4. CASE Groups(worker.request) = {}
    <3>1. /\ Plan(worker.request, worker.request.definite, FALSE, NoPick, FALSE)
          /\ UNCHANGED <<asked, question, message>>
      BY <1>2, <2>4 DEF Analyse
    <3>2. /\ worker' \in Turn /\ worker'.pc = "planning" /\ worker'.message = worker.message
          /\ worker'.answers = FALSE
      BY <1>0, <2>2, <3>1 DEF Plan, Turn
    <3>3. DisTypeOK'
      BY <2>1, <3>1, <3>2 DEF DisTypeOK
    <3>4. HeldQuestions'
      BY <2>1, <3>1 DEF HeldQuestions, NotWriting, NoQuestion, DisTypeOK, NotOlder
    <3>5. Finished'
      BY <2>1, <3>1 DEF Finished, NotWriting
    <3>6. Queued'
      BY <2>1, <3>1, <3>2 DEF Queued, PlannedTurn
    <3> QED BY <3>3, <3>4, <3>5, <3>6
  <2> QED BY <2>3, <2>4
<1>3. ASSUME TurnRaises PROVE DisInv'
  <2>1. /\ turn' = NotWriting /\ broken' = broken \cup {turn.q.nr} /\ faults' = faults + 1 /\ faults < FaultBound
        /\ EndTurn /\ UNCHANGED <<v2, question, click, clearing, asked, clears>>
        /\ click.pc = "free" /\ turn.q \in Question
    BY <1>3 DEF TurnRaises, Fault, HeldQuestions, DisTypeOK, Writing
  <2>2. worker' = NoTurn /\ message' \in [1..MessageBound -> Message] /\ SameMessages
    BY <2>1, EndTurnMessages
  <2>3. DisTypeOK'
    <3>1. broken' \subseteq 0..QuestionBound
      BY <2>1 DEF DisTypeOK, Question
    <3>2. faults' \in 0..FaultBound
      BY <2>1 DEF DisTypeOK
    <3> QED BY <2>1, <2>2, <3>1, <3>2 DEF DisTypeOK
  <2>4. HeldQuestions'
    BY <2>1 DEF HeldQuestions, NotWriting, NoQuestion, DisTypeOK, NotOlder
  <2>5. Finished'
    BY <2>1 DEF Finished, NotWriting
  <2>6. Queued'
    BY <2>1, <2>2, QueuedKept
  <2> QED BY <2>3, <2>4, <2>5, <2>6
<1> QED BY <1>1, <1>2, <1>3

LEMMA RestPreserved ==
    ASSUME DisInv, ClearResolutions \/ ClearConversation \/ QuestionGrowsLate \/ Restart
    PROVE  DisInv'
<1> USE DisambiguationConstants, NullsTyped
<1> USE DEF DisInv, counters
<1>0. message \in [1..MessageBound -> Message]
  BY DEF DisTypeOK
<1>1. ASSUME ClearResolutions PROVE DisInv'
  <2>1. /\ message' = [n \in 1..MessageBound |-> [message[n] EXCEPT !.exact = {}]]
        /\ clearing' = TRUE /\ clears' = clears + 1 /\ clears < ClearBound
        /\ UNCHANGED <<v2, question, click, turn, worker, asked, faults, broken>>
    BY <1>1 DEF ClearResolutions
  <2>2. message' \in [1..MessageBound -> Message] /\ SameMessages
    BY <1>0, <2>1 DEF Message, SameMessages
  <2>3. clears' \in 0..ClearBound
    BY <2>1 DEF DisTypeOK
  <2>4. DisTypeOK'
    BY <2>1, <2>2, <2>3 DEF DisTypeOK
  <2>5. HeldQuestions' /\ Finished'
    BY <2>1, QuietQuestion
  <2>6. Queued'
    BY <2>1, <2>2, QueuedKept
  <2> QED BY <2>4, <2>5, <2>6
<1>2. ASSUME ClearConversation PROVE DisInv'
  <2>1. /\ message' = [n \in 1..MessageBound |->
                          IF message[n].status = "none" THEN NoMessage
                          ELSE [message[n] EXCEPT !.status = "done", !.exact = {}]]
    BY <1>2 DEF ClearConversation
  <2>8. /\ question' = NoQuestion /\ clearing' = FALSE
        /\ UNCHANGED <<v2, click, turn, worker, asked, faults, broken>>
        /\ clears' = clears \/ (clears < ClearBound /\ clears' = clears + 1)
    <3>1. question' = NoQuestion /\ clearing' = FALSE /\ UNCHANGED <<v2, click, turn, worker, asked, faults, broken>>
      BY <1>2 DEF ClearConversation
    <3>2. IF v2 THEN clearing /\ clears' = clears ELSE clears < ClearBound /\ clears' = clears + 1
      BY <1>2 DEF ClearConversation
    <3>3. CASE v2
      BY <3>1, <3>2, <3>3
    <3>4. CASE ~v2
      BY <3>1, <3>2, <3>4
    <3> QED BY <3>3, <3>4
  <2>2. message' \in [1..MessageBound -> Message] /\ SameMessages
    <3>1. ASSUME NEW n \in 1..MessageBound
          PROVE  /\ message'[n] \in Message /\ message'[n].exact = {}
                 /\ message'[n].status # "none" <=> message[n].status # "none"
                 /\ message[n].status # "none" => /\ message'[n].request = message[n].request
                                                  /\ message'[n].said = message[n].said
                                                  /\ message'[n].own = message[n].own
      <4>1. CASE message[n].status = "none"
        BY <2>1, <4>1 DEF NoMessage
      <4>2. CASE message[n].status # "none"
        BY <1>0, <2>1, <4>2 DEF Message
      <4> QED BY <4>1, <4>2
    <3> QED BY <2>1, <3>1 DEF SameMessages
  <2>3. clears' \in 0..ClearBound
    BY <2>8 DEF DisTypeOK
  <2>4. DisTypeOK'
    BY <2>2, <2>3, <2>8 DEF DisTypeOK
  <2>5. HeldQuestions'
    BY <2>8 DEF HeldQuestions, NoQuestion, DisTypeOK, NotOlder
  <2>6. Finished'
    BY <2>8 DEF Finished, NoQuestion
  <2>7. Queued'
    BY <2>2, <2>8, QueuedKept
  <2> QED BY <2>4, <2>5, <2>6, <2>7
<1>3. ASSUME QuestionGrowsLate PROVE DisInv'
  <2>1. question' = [question EXCEPT !.late = TRUE] /\ question \in Question
        /\ UNCHANGED <<v2, message, click, turn, worker, clearing, asked, faults, clears, broken>>
    BY <1>3 DEF QuestionGrowsLate, DisTypeOK
  <2>2. /\ question' \in Question /\ question'.nr = question.nr /\ question'.open = question.open
        /\ question'.request = question.request /\ question'.choice = question.choice
        /\ question'.said = question.said /\ question'.id = question.id
    BY <2>1 DEF Question
  <2>3. DisTypeOK'
    BY <2>1, <2>2 DEF DisTypeOK
  <2>4. HeldQuestions'
    <3>1. question'.open => SoundQuestion(question')
      BY <2>2, SoundWhereverHeld DEF HeldQuestions
    <3>2. NotOlder(click.q)' <=> NotOlder(click.q)
      BY <2>1, <2>2 DEF NotOlder
    <3>3. NotOlder(turn.q)' <=> NotOlder(turn.q)
      BY <2>1, <2>2 DEF NotOlder
    <3> QED BY <2>1, <2>2, <3>1, <3>2, <3>3 DEF HeldQuestions
  <2>5. Finished'
    BY <2>1, <2>2 DEF Finished, AllAnswered, Unanswered
  <2>6. Queued'
    BY <2>1 DEF Queued
  <2> QED BY <2>3, <2>4, <2>5, <2>6
<1>4. ASSUME Restart PROVE DisInv'
  <2>1. /\ faults' = faults + 1 /\ faults < FaultBound /\ v2' \in BOOLEAN
        /\ click' = NoClick /\ turn' = NotWriting /\ worker' = NoTurn /\ clearing' = FALSE
        /\ broken' = broken \cup {click.q.nr, turn.q.nr}
        /\ UNCHANGED <<question, asked, clears>>
    BY <1>4 DEF Restart, Fault
  <2>2. message' = [n \in 1..MessageBound |->
                       [message[n] EXCEPT !.status = IF @ = "processing" THEN "pending" ELSE @]]
    BY <1>4 DEF Restart
  <2>3. message' \in [1..MessageBound -> Message] /\ SameMessages
    BY <1>0, <2>2 DEF Message, SameMessages
  <2>4. DisTypeOK'
    <3>1. click.q \in Question /\ turn.q \in Question
      BY DEF DisTypeOK, Click, Writing
    <3>2. broken' \subseteq 0..QuestionBound
      BY <2>1, <3>1 DEF DisTypeOK, Question
    <3>3. faults' \in 0..FaultBound
      BY <2>1 DEF DisTypeOK
    <3> QED BY <2>1, <2>3, <3>2, <3>3 DEF DisTypeOK
  <2>5. HeldQuestions'
    BY <2>1 DEF HeldQuestions, NoClick, NotWriting, NoQuestion, DisTypeOK
  <2>6. Finished'
    BY <2>1 DEF Finished, NoClick, NotWriting
  <2>7. Queued'
    BY <2>1, <2>3, QueuedKept DEF NoClick
  <2> QED BY <2>4, <2>5, <2>6, <2>7
<1> QED BY <1>1, <1>2, <1>3, <1>4

LEMMA DisPreserved == DisInv /\ [DisNext]_disVars => DisInv'
<1> SUFFICES ASSUME DisInv, [DisNext]_disVars PROVE DisInv'
  OBVIOUS
<1>1. CASE UNCHANGED disVars
  <2>1. HeldQuestions' /\ Finished'
    BY <1>1, QuietQuestion DEF disVars
  <2>2. Queued'
    BY <1>1, QueuedKept, NothingWritten DEF disVars
  <2>3. DisTypeOK'
    BY <1>1 DEF disVars, DisInv, DisTypeOK
  <2> QED BY <2>1, <2>2, <2>3 DEF DisInv
<1>2. CASE ClickStep
  BY <1>2, ClickPreserved
<1>3. CASE TurnStep
  BY <1>3, TakesPreserved, AnswersPreserved, AsksPreserved DEF TurnStep
<1>4. CASE ClearResolutions \/ ClearConversation \/ QuestionGrowsLate \/ Restart
  BY <1>4, RestPreserved
<1> QED BY <1>1, <1>2, <1>3, <1>4 DEF DisNext

\* The invariant holds whatever users, worker, clear and faults do.
THEOREM QuestionInvHolds == DisSpec => []DisInv
<1> QED BY DisInit_Inv, DisPreserved, PTL DEF DisSpec

\* A turn that follows answers is planned with characters the user named in them,
\* whatever was cleared, repeated or lost; if the groups had ids of their own, with
\* every answer, a candidate of its group, but for those that the resolution of the
\* button drops beyond ResolutionLimit.
THEOREM ChosenIsPlanned == DisSpec => []PlannedAsChosen
<1>1. DisInv => PlannedAsChosen
  BY DEF DisInv, Queued, PlannedTurn, Followed, Named, PlannedAsChosen
<1> QED BY <1>1, QuestionInvHolds, PTL

\* An open question that nobody is busy with waits for an answer.
THEOREM OpenCanBeAnswered == DisSpec => []OpenIsAnswerable
<1>1. DisInv => OpenIsAnswerable
  BY DEF DisInv, Finished, OpenIsAnswerable, LoopIsFree, AllAnswered
<1> QED BY <1>1, QuestionInvHolds, PTL

\* No handler writes an older reading of a question over its answers.
THEOREM AnswersStay == DisSpec => AnswersAreKept
<1> DEFINE Stay == question.open /\ question'.open /\ question'.nr = question.nr
                   => \A g \in Slots : question.choice[g] # NoCharacter => question'.choice[g] = question.choice[g]
<1>1. ASSUME DisInv, [DisNext]_disVars PROVE [Stay]_disVars
  <2>1. CASE question'.choice = question.choice
    BY <2>1
  <2>2. CASE ClickSaves
    <3>1. question'.choice = click.q.choice /\ question'.nr = click.q.nr /\ NotOlder(click.q)
      BY <1>1, <2>2 DEF ClickSaves, DisInv, HeldQuestions, DisTypeOK, Click, Question
    <3> QED BY <3>1 DEF NotOlder
  <2>3. CASE TurnSaves
    <3>1. question'.choice = turn.q.choice /\ question'.nr = turn.q.nr /\ NotOlder(turn.q)
      BY <1>1, <2>3 DEF TurnSaves, DisInv, HeldQuestions, DisTypeOK, Writing, Question
    <3> QED BY <3>1 DEF NotOlder
  <2>4. CASE question' = NoQuestion
    BY <2>4 DEF NoQuestion
  <2>5. CASE Analyse /\ Groups(worker.request) # {}
    <3>1. question'.nr = asked + 1
      BY <2>5 DEF Analyse, NoQuestion
    <3>2. question.nr <= asked /\ question.nr \in Nat /\ asked \in Nat
      BY <1>1, DisambiguationConstants DEF DisInv, HeldQuestions, DisTypeOK, Question
    <3> QED BY <3>1, <3>2
  <2>6. CASE QuestionGrowsLate
    BY <1>1, <2>6 DEF QuestionGrowsLate, DisInv, DisTypeOK, Question
  <2> QED
    <3>1. CASE ClickStep
      <4>1. ClickSaves \/ question' = question \/ question' = NoQuestion
        BY <3>1 DEF ClickStep, ClickReads, ClickClears, ClickQueues, ClickResolves, ClickRaises
      <4> QED BY <2>1, <2>2, <2>4, <4>1
    <3>2. CASE TurnStep
      BY <2>1, <2>3, <2>4, <2>5, <3>2
      DEF TurnStep, TakeQueued, TakeText, FollowResolution, AnswerByText, AddSupplement, ShowAgain,
          TurnClears, NewRequest, TurnSupersedes, Analyse, PlanEnds, TurnRaises
    <3>3. CASE ClearResolutions \/ ClearConversation \/ QuestionGrowsLate \/ Restart
      BY <2>1, <2>4, <2>6, <3>3 DEF ClearResolutions, ClearConversation, Restart
    <3> QED BY <1>1, <2>1, <3>1, <3>2, <3>3 DEF DisNext, disVars
<1> QED BY <1>1, QuestionInvHolds, PTL DEF DisSpec, AnswersAreKept

----------------------------------------------------------------------------
(* Queue estimates: the place in the queue *)

LEMMA EstimateInit_Inv == EstimateInit => EstimateInv
BY EstimateConstants DEF EstimateInit, EstimateInv, EstimateTypeOK, RowsInOrder, NothingFromLater,
   TaskRow, NoTask, Rows

LEMMA EndedRow ==
    LET row == [NoTask EXCEPT !.status = "ended"]
    IN  row \in TaskRow /\ row.status = "ended" /\ \A now \in 0..SecondBound : row.created <= now
<1>1. NoTask \in TaskRow /\ NoTask.created = 0
  BY EstimateConstants DEF NoTask, TaskRow
<1>2. ASSUME NEW row \in TaskRow, row.created = 0
      PROVE  LET ended == [row EXCEPT !.status = "ended"]
             IN  ended \in TaskRow /\ ended.status = "ended" /\ ended.created = 0
  BY <1>2 DEF TaskRow
<1> QED BY <1>1, <1>2

\* A step that writes one row, and what the row must be for the invariant.
LEMMA RowWrittenKeepsInv ==
    ASSUME EstimateInv, NEW n \in Rows, NEW row \in TaskRow, task' = [task EXCEPT ![n] = row],
           second' = second, row.status # "none", row.created <= second,
           \A m \in Rows : m < n => task[m].status # "none"
    PROVE  EstimateInv'
<1>1. EstimateTypeOK'
  BY DEF EstimateInv, EstimateTypeOK
<1>2. RowsInOrder'
  BY DEF EstimateInv, EstimateTypeOK, RowsInOrder
<1>3. NothingFromLater'
  BY DEF EstimateInv, EstimateTypeOK, NothingFromLater
<1> QED BY <1>1, <1>2, <1>3 DEF EstimateInv

LEMMA EstimatePreserved == EstimateInv /\ [EstimateNext]_estimateVars => EstimateInv'
<1> SUFFICES ASSUME EstimateInv, [EstimateNext]_estimateVars PROVE EstimateInv'
  OBVIOUS
<1>1. /\ task \in [Rows -> TaskRow] /\ second \in 0..SecondBound
      /\ \A n \in Rows : task[n] \in TaskRow /\ task[n].created <= second
      /\ \A n \in Rows : task[n].status # "none" => \A m \in Rows : m < n => task[m].status # "none"
  BY DEF EstimateInv, EstimateTypeOK, NothingFromLater, RowsInOrder
<1>2. ASSUME NEW n \in Rows, NEW first \in {"queued", "translating", "smart_planning"}, NEW agent \in BOOLEAN,
             Arrives(n, first, agent)
      PROVE  EstimateInv'
  <2> DEFINE row == [status |-> first, created |-> second, begun |-> second, agent |-> agent]
  <2>1. row \in TaskRow /\ row.status # "none" /\ row.created <= second
    BY <1>1, EstimateConstants DEF TaskRow
  <2>2. /\ task' = [task EXCEPT ![n] = row] /\ second' = second
        /\ \A m \in Rows : m < n => task[m].status # "none"
    BY <1>2 DEF Arrives
  <2> HIDE DEF row
  <2> QED BY <2>1, <2>2, RowWrittenKeepsInv
<1>3. ASSUME NEW n \in Rows, IsPlanned(n) PROVE EstimateInv'
  <2> DEFINE row == [task[n] EXCEPT !.status = "queued", !.created = second]
  <2>0. task[n] \in TaskRow /\ second \in Int
    BY <1>1, EstimateConstants
  <2>1. row \in TaskRow /\ row.status # "none" /\ row.created <= second
    <3>1. row \in TaskRow /\ row.status = "queued"
      BY <1>1, <2>0 DEF TaskRow
    <3>2. row.created = second
      BY <2>0 DEF TaskRow
    <3> QED BY <2>0, <3>1, <3>2
  <2>2. task' = [task EXCEPT ![n] = row] /\ second' = second /\ task[n].status # "none"
    BY <1>3 DEF IsPlanned
  <2> HIDE DEF row
  <2> QED BY <1>1, <2>1, <2>2, RowWrittenKeepsInv
<1>4. ASSUME NEW n \in Rows, IsTranslated(n) PROVE EstimateInv'
  <2> DEFINE row == [task[n] EXCEPT !.status = "queued"]
  <2>1. row \in TaskRow /\ row.status # "none" /\ row.created <= second
    BY <1>1 DEF TaskRow
  <2>2. task' = [task EXCEPT ![n] = row] /\ second' = second /\ task[n].status # "none"
    BY <1>4 DEF IsTranslated
  <2> HIDE DEF row
  <2> QED BY <1>1, <2>1, <2>2, RowWrittenKeepsInv
<1>5. ASSUME NEW n \in Rows, StartsRendering(n) PROVE EstimateInv'
  <2> DEFINE row == [task[n] EXCEPT !.status = "processing", !.begun = second]
  <2>1. row \in TaskRow /\ row.status # "none" /\ row.created <= second
    BY <1>1 DEF TaskRow
  <2>2. task' = [task EXCEPT ![n] = row] /\ second' = second /\ task[n].status # "none"
    BY <1>5 DEF StartsRendering, InQueue
  <2> HIDE DEF row
  <2> QED BY <1>1, <2>1, <2>2, RowWrittenKeepsInv
<1>6. ASSUME NEW n \in Rows, LeavesQueue(n) PROVE EstimateInv'
  <2> DEFINE row == [NoTask EXCEPT !.status = "ended"]
  <2>1. row \in TaskRow /\ row.status # "none" /\ row.created <= second
    BY <1>1, EndedRow
  <2>2. task' = [task EXCEPT ![n] = row] /\ second' = second /\ task[n].status # "none"
    BY <1>6 DEF LeavesQueue, Unfinished
  <2> HIDE DEF row
  <2> QED BY <1>1, <2>1, <2>2, RowWrittenKeepsInv
<1>7. CASE SecondPasses \/ UNCHANGED estimateVars
  <2>1. task' = task /\ second' \in 0..SecondBound /\ second <= second'
    BY <1>1, <1>7, EstimateConstants DEF SecondPasses, estimateVars
  <2>2. \A n \in Rows : task[n].created \in Int
    BY <1>1, EstimateConstants DEF TaskRow
  <2>3. NothingFromLater'
    BY <1>1, <2>1, <2>2, EstimateConstants DEF NothingFromLater
  <2> QED BY <2>1, <2>3 DEF EstimateInv, EstimateTypeOK, RowsInOrder
<1> QED BY <1>2, <1>3, <1>4, <1>5, <1>6, <1>7 DEF EstimateNext

\* Types and dates of the rows.
THEOREM EstimateInvHolds == EstimateSpec => []EstimateInv
BY EstimateInit_Inv, EstimatePreserved, PTL DEF EstimateSpec

\* A step that writes one row brings at most that row before a task.
LEMMA AheadOfRowWritten ==
    ASSUME EstimateInv, NEW k \in Rows, NEW row \in TaskRow, task' = [task EXCEPT ![k] = row],
           NEW n \in InQueue, n # k, k \in JobsAhead(n)' => k \in JobsAhead(n)
    PROVE  JobsAhead(n)' \subseteq JobsAhead(n)
<1>1. /\ n \in Rows /\ task'[n] = task[n]
      /\ \A m \in Rows : m # k => task'[m] = task[m]
  BY DEF InQueue, EstimateInv, EstimateTypeOK
<1>2. ASSUME NEW m \in Rows, m # k, m \in JobsAhead(n)' PROVE m \in JobsAhead(n)
  BY <1>1, <1>2 DEF JobsAhead, Unfinished, InQueue, Older
<1>3. JobsAhead(n)' \subseteq Rows
  BY DEF JobsAhead, Unfinished
<1> QED BY <1>2, <1>3

LEMMA OnlyPrecedenceSetsBack ==
    ASSUME EstimateInv, [EstimateNext]_estimateVars, NEW n \in InQueue, n \in InQueue',
           \A m \in Rows : ~TakesPrecedence(m)
    PROVE  JobsAhead(n)' \subseteq JobsAhead(n)
<1>1. /\ task \in [Rows -> TaskRow] /\ second \in 0..SecondBound /\ n \in Rows
      /\ \A m \in Rows : task[m] \in TaskRow /\ task[m].created <= second
      /\ \A m \in Rows : task[m].status # "none" => \A l \in Rows : l < m => task[l].status # "none"
      /\ task[n].status = "queued" /\ task'[n].status = "queued"
  BY DEF EstimateInv, EstimateTypeOK, NothingFromLater, RowsInOrder, InQueue
<1>2. ASSUME NEW k \in Rows, NEW first \in {"queued", "translating", "smart_planning"}, NEW agent \in BOOLEAN,
             Arrives(k, first, agent)
      PROVE  JobsAhead(n)' \subseteq JobsAhead(n)
  <2> DEFINE row == [status |-> first, created |-> second, begun |-> second, agent |-> agent]
  <2>1. row \in TaskRow /\ row.status = first /\ row.created = second
    BY <1>1, EstimateConstants DEF TaskRow
  <2>2. task' = [task EXCEPT ![k] = row] /\ task[k].status = "none"
    BY <1>2 DEF Arrives
  <2> HIDE DEF row
  <2>3. task'[k] = row /\ task'[n] = task[n] /\ n # k /\ ~(k < n) /\ second' = second
    BY <1>1, <1>2, <2>2 DEF Arrives
  <2>4. first = "queued"
    BY <2>1, <2>2, <2>3 DEF TakesPrecedence
  <2>5. ~Older(k, n)'
    <3>1. task'[k].created = second /\ task'[n].created <= second /\ task'[n].created \in Int /\ second \in Int
      BY <1>1, <2>1, <2>3, EstimateConstants DEF TaskRow
    <3> QED BY <2>3, <3>1 DEF Older
  <2>6. k \notin JobsAhead(n)'
    BY <2>1, <2>3, <2>4, <2>5 DEF JobsAhead, InQueue
  <2> QED BY <2>1, <2>2, <2>3, <2>6, AheadOfRowWritten
<1>3. ASSUME NEW k \in Rows, NEW row \in TaskRow, task' = [task EXCEPT ![k] = row],
             task[k].status \in {"smart_planning", "translating"}
      PROVE  JobsAhead(n)' \subseteq JobsAhead(n)
  <2>1. k # n /\ k \in JobsAhead(n)
    BY <1>1, <1>3 DEF JobsAhead, Unfinished, InQueue
  <2> QED BY <1>3, <2>1, AheadOfRowWritten
<1>4. ASSUME NEW k \in Rows, IsPlanned(k) PROVE JobsAhead(n)' \subseteq JobsAhead(n)
  <2> DEFINE row == [task[k] EXCEPT !.status = "queued", !.created = second]
  <2>1. row \in TaskRow
    BY <1>1 DEF TaskRow
  <2>2. task' = [task EXCEPT ![k] = row] /\ task[k].status = "smart_planning"
    BY <1>4 DEF IsPlanned
  <2> HIDE DEF row
  <2> QED BY <1>3, <2>1, <2>2
<1>5. ASSUME NEW k \in Rows, IsTranslated(k) PROVE JobsAhead(n)' \subseteq JobsAhead(n)
  <2> DEFINE row == [task[k] EXCEPT !.status = "queued"]
  <2>1. row \in TaskRow
    BY <1>1 DEF TaskRow
  <2>2. task' = [task EXCEPT ![k] = row] /\ task[k].status = "translating"
    BY <1>5 DEF IsTranslated
  <2> HIDE DEF row
  <2> QED BY <1>3, <2>1, <2>2
<1>6. ASSUME NEW k \in Rows, StartsRendering(k) PROVE JobsAhead(n)' \subseteq JobsAhead(n)
  <2> DEFINE row == [task[k] EXCEPT !.status = "processing", !.begun = second]
  <2>1. row \in TaskRow /\ row.status = "processing"
    BY <1>1 DEF TaskRow
  <2>2. task' = [task EXCEPT ![k] = row] /\ k \in InQueue /\ (k = n \/ Older(k, n))
    BY <1>6 DEF StartsRendering
  <2> HIDE DEF row
  <2>3. k # n
    BY <1>1, <2>1, <2>2
  <2>4. k \in JobsAhead(n)
    BY <2>2, <2>3 DEF JobsAhead, Unfinished, InQueue
  <2> QED BY <2>1, <2>2, <2>3, <2>4, AheadOfRowWritten
<1>7. ASSUME NEW k \in Rows, LeavesQueue(k) PROVE JobsAhead(n)' \subseteq JobsAhead(n)
  <2> DEFINE row == [NoTask EXCEPT !.status = "ended"]
  <2>1. row \in TaskRow /\ row.status = "ended"
    BY EndedRow
  <2>2. task' = [task EXCEPT ![k] = row]
    BY <1>7 DEF LeavesQueue
  <2> HIDE DEF row
  <2>3. k # n /\ task'[k] = row
    BY <1>1, <2>1, <2>2
  <2>4. k \notin JobsAhead(n)'
    BY <2>1, <2>3 DEF JobsAhead, Unfinished
  <2> QED BY <2>1, <2>2, <2>3, <2>4, AheadOfRowWritten
<1>8. CASE SecondPasses \/ UNCHANGED estimateVars
  BY <1>8 DEF SecondPasses, estimateVars, JobsAhead, Unfinished, InQueue, Older
<1> QED BY <1>2, <1>4, <1>5, <1>6, <1>7, <1>8 DEF EstimateNext

\* Somebody who waits is set back only by a new task that has to be planned or
\* translated first (get_task_queue_position), for any number of tasks.
THEOREM PlacesAreKept == EstimateSpec => PlaceIsKept
<1>1. ASSUME EstimateInv, [EstimateNext]_estimateVars, NEW n \in Rows, IsSetBack(n)
      PROVE  \E m \in Rows : TakesPrecedence(m)
  <2> SUFFICES ASSUME \A m \in Rows : ~TakesPrecedence(m) PROVE FALSE
    OBVIOUS
  <2>1. JobsAhead(n)' \subseteq JobsAhead(n)
    BY <1>1, OnlyPrecedenceSetsBack DEF IsSetBack
  <2>2. IsFiniteSet(JobsAhead(n))
    <3>1. JobsAhead(n) \subseteq 1..TaskBound
      BY DEF JobsAhead, Unfinished, Rows
    <3> QED BY <3>1, FS_Interval, FS_Subset, EstimateConstants
  <2>3. /\ Cardinality(JobsAhead(n)') <= Cardinality(JobsAhead(n))
        /\ Cardinality(JobsAhead(n)') \in Nat /\ Cardinality(JobsAhead(n)) \in Nat
    BY <2>1, <2>2, FS_Subset, FS_CardinalityType
  <2> QED BY <1>1, <2>3 DEF IsSetBack, QueuePosition
<1>2. EstimateInv /\ [EstimateNext]_estimateVars
          => [\A n \in Rows : IsSetBack(n) => \E m \in Rows : TakesPrecedence(m)]_estimateVars
  BY <1>1
<1> QED BY <1>2, EstimateInvHolds, PTL DEF EstimateSpec, PlaceIsKept

----------------------------------------------------------------------------
(* Queue estimates: the seconds *)

\* The first free lane is the lane with the least work, the lowest of them.
LEMMA FirstFreeLaneIsFree ==
    ASSUME NEW load \in [Lanes -> Nat]
    PROVE  FirstFreeLane(load) \in Lanes /\ \A k \in Lanes : WaitAfter(load) <= load[k]
<1>1. PICK v \in {load[k] : k \in Lanes} : \A w \in {load[k] : k \in Lanes} : v <= w
  <2> DEFINE values == {load[k] : k \in Lanes}
  <2>1. values \in SUBSET Nat /\ values # {}
    BY EstimateConstants
  <2> HIDE DEF values
  <2>2. \E v \in values : \A w \in values : v <= w
    BY <2>1, SmallestNumber
  <2> QED BY <2>2 DEF values
<1>2. PICK l \in {k \in Lanes : load[k] = v} : \A k \in {k \in Lanes : load[k] = v} : l <= k
  BY <1>1, SmallestNumber, EstimateConstants
<1>3. \A k \in Lanes : load[l] < load[k] \/ (load[l] = load[k] /\ l <= k)
  BY <1>1, <1>2
<1>4. FirstFreeLane(load) \in Lanes
      /\ \A k \in Lanes : load[FirstFreeLane(load)] < load[k] \/ load[FirstFreeLane(load)] = load[k]
  BY <1>2, <1>3 DEF FirstFreeLane
<1> QED BY <1>4 DEF WaitAfter

LEMMA HandedOutType ==
    ASSUME NEW load \in [Lanes -> Nat], NEW n, Duration(n) \in Nat
    PROVE  HandedOut(load, n) \in [Lanes -> Nat]
BY FirstFreeLaneIsFree DEF HandedOut

\* A line of tasks that each take some time.
Line(line) == DOMAIN line = 1..Len(line) /\ Len(line) \in Nat /\ \A i \in DOMAIN line : Duration(line[i]) \in Nat

LEMMA LoadsSteps ==
    ASSUME NEW line, Line(line)
    PROVE  /\ Loads(line)[0] = [l \in Lanes |-> 0]
           /\ \A i \in 0..Len(line) : Loads(line)[i] \in [Lanes -> Nat]
           /\ \A i \in 1..Len(line) : Loads(line)[i] = HandedOut(Loads(line)[i - 1], line[i])
<1> DEFINE N == Len(line)
           V == [Lanes -> Nat]
           none == [l \in Lanes |-> 0]
           G == [x \in V \X (1..N) |-> HandedOut(x[1], line[x[2]])]
           IsLoads(f) == f = [i \in 0..N |-> IF i = 0 THEN none ELSE HandedOut(f[i - 1], line[i])]
<1>1. N \in Nat /\ none \in V
  BY DEF Line
<1>2. G \in [V \X (1..N) -> V]
  <2>1. ASSUME NEW x \in V \X (1..N) PROVE HandedOut(x[1], line[x[2]]) \in V
    <3>1. x[1] \in [Lanes -> Nat] /\ Duration(line[x[2]]) \in Nat
      BY DEF Line
    <3> QED BY <3>1, HandedOutType
  <2> QED BY <2>1
<1>3. PICK f \in [0..N -> V] : IsIteration(f, N, none, G)
  <2> HIDE DEF N, V, none, G
  <2> QED BY <1>1, <1>2, Iteration
<1>4. ASSUME NEW i \in 1..N, NEW load \in V PROVE G[<<load, i>>] = HandedOut(load, line[i])
  OBVIOUS
<1>5. IsLoads(f)
  <2>1. \A i \in 1..N : i - 1 \in 0..N
    OBVIOUS
  <2>2. \A i \in 1..N : f[i - 1] \in V
    BY <2>1
  <2>3. \A i \in 1..N : G[<<f[i - 1], i>>] = HandedOut(f[i - 1], line[i])
    BY <1>4, <2>2
  <2>4. \A i \in 0..N : i = 0 \/ i \in 1..N
    BY <1>1
  <2> HIDE DEF N, V, none, G
  <2> QED BY <1>3, <2>3, <2>4 DEF IsIteration
<1> DEFINE g == Loads(line)
<1>6. IsLoads(g)
  <2> HIDE DEF N, none
  <2>1. g = CHOOSE h : IsLoads(h)
    BY DEF Loads, N, none
  <2> HIDE DEF g, IsLoads
  <2> QED BY <1>5, <2>1
<1> HIDE DEF g
<1>7. g[0] = none /\ \A i \in 1..N : g[i] = HandedOut(g[i - 1], line[i])
  BY <1>1, <1>6
<1>8. \A i \in 0..N : g[i] \in V
  <2> DEFINE Holds == {n \in Nat : n <= N => g[n] \in V}
  <2>1. 0 \in Holds
    BY <1>1, <1>7
  <2>2. ASSUME NEW n \in Nat, n \in Holds PROVE n + 1 \in Holds
    <3> SUFFICES ASSUME n + 1 <= N PROVE g[n + 1] \in V
      OBVIOUS
    <3>1. g[n] \in V /\ n + 1 \in 1..N
      BY <1>1, <2>2
    <3>2. g[n + 1] = HandedOut(g[n], line[n + 1])
      BY <1>7, <3>1
    <3>3. Duration(line[n + 1]) \in Nat
      BY <3>1 DEF Line
    <3>4. HandedOut(g[n], line[n + 1]) \in V
      BY <3>1, <3>3, HandedOutType
    <3> QED BY <3>2, <3>4
  <2> HIDE DEF Holds
  <2>3. Nat \subseteq Holds
    BY <2>1, <2>2, NaturalInduction
  <2> QED BY <1>1, <2>3 DEF Holds
<1> QED BY <1>7, <1>8 DEF g

\* No lane has more work than the whole line.
LEMMA LoadsAreBounded ==
    ASSUME NEW line, Line(line)
    PROVE  \A i \in 0..Len(line) : \A l \in Lanes : Loads(line)[i][l] <= WholeLine(line)
<1> DEFINE N == Len(line)
           seconds == [i \in DOMAIN line |-> Duration(line[i])]
           Sum(i) == SumFunctionOnSet(seconds, 1..i)
           load(i) == Loads(line)[i]
           Holds == {n \in Nat : n <= N => \A l \in Lanes : load(n)[l] <= Sum(n)}
<1>1. N \in Nat /\ \A i \in 1..N : seconds[i] \in Nat /\ seconds[i] = Duration(line[i])
  BY DEF Line
<1>2. load(0) = [l \in Lanes |-> 0] /\ \A i \in 0..N : load(i) \in [Lanes -> Nat]
  BY LoadsSteps
<1>3. \A i \in 1..N : load(i) = HandedOut(load(i - 1), line[i])
  BY LoadsSteps
<1> HIDE DEF seconds, load, N
<1>4. \A i \in 0..N : IsFiniteSet(1..i) /\ Sum(i) \in Int /\ Sum(i) <= Sum(N)
  <2> TAKE i \in 0..N
  <2>1. IsFiniteSet(1..i) /\ IsFiniteSet(1..N) /\ 1..i \in SUBSET (1..N)
    BY <1>1, FS_Interval
  <2>2. (\A j \in 1..i : seconds[j] \in Int) /\ (\A j \in 1..N : seconds[j] \in Nat)
    BY <1>1
  <2> HIDE DEF SumFunctionOnSet
  <2> QED BY <2>1, <2>2, SumType, SumOfFewer
<1>5. 0 \in Holds
  <2>1. 1..0 = {}
    OBVIOUS
  <2>2. Sum(0) = 0
    BY <2>1, SumEmpty
  <2> HIDE DEF Sum
  <2> QED BY <1>2, <2>2
<1>6. ASSUME NEW n \in Nat, n \in Holds PROVE n + 1 \in Holds
  <2> SUFFICES ASSUME n + 1 <= N, NEW l \in Lanes PROVE load(n + 1)[l] <= Sum(n + 1)
    OBVIOUS
  <2>1. n \in 0..N /\ n + 1 \in 1..N /\ (n + 1) - 1 = n
    BY <1>1
  <2>2. Sum(n + 1) = seconds[n + 1] + Sum(n)
    <3>1. 1..(n + 1) = (1..n) \cup {n + 1} /\ n + 1 \notin 1..n
      OBVIOUS
    <3>2. IsFiniteSet(1..n) /\ (\A j \in 1..n : seconds[j] \in Int) /\ seconds[n + 1] \in Int
      BY <1>1, <1>4, <2>1
    <3> HIDE DEF SumFunctionOnSet
    <3> QED BY <3>1, <3>2, SumAdd
  <2>3. load(n) \in [Lanes -> Nat] /\ load(n)[l] <= Sum(n) /\ Sum(n) \in Int /\ seconds[n + 1] \in Nat
    BY <1>1, <1>2, <1>4, <1>6, <2>1
  <2>4. load(n + 1)[l] = load(n)[l] \/ load(n + 1)[l] = load(n)[l] + seconds[n + 1]
    <3>1. load(n + 1) = HandedOut(load(n), line[n + 1])
      BY <1>3, <2>1
    <3> QED BY <1>1, <2>1, <2>3, <3>1 DEF HandedOut
  <2> HIDE DEF Sum
  <2> QED BY <2>2, <2>3, <2>4
<1> HIDE DEF Holds, Sum
<1>7. Nat \subseteq Holds
  BY <1>5, <1>6, NaturalInduction
<1>8. WholeLine(line) = Sum(N)
  BY DEF WholeLine, Line, Sum, seconds, N
<1>9. ASSUME NEW i \in 0..N, NEW l \in Lanes PROVE load(i)[l] <= Sum(N)
  <2>1. load(i)[l] <= Sum(i) /\ load(i)[l] \in Nat /\ Sum(i) \in Int /\ Sum(N) \in Int /\ Sum(i) <= Sum(N)
    BY <1>1, <1>2, <1>4, <1>7 DEF Holds
  <2> QED BY <2>1
<1> QED BY <1>8, <1>9 DEF load, N

\* The lanes that still work at second t, and when the tasks of the line start
\* if each starts on the lane that is free first.
Working(load, t) == {l \in Lanes : load[l] > t}
StartTimes(line, i) == [j \in 1..i |-> WaitAfter(Loads(line)[j - 1])]

LEMMA WorkingIsFinite ==
    ASSUME NEW load, NEW t
    PROVE  /\ IsFiniteSet(Working(load, t)) /\ Cardinality(Working(load, t)) \in Nat
           /\ Cardinality(Working(load, t)) <= Cardinality(Lanes) /\ Cardinality(Lanes) \in Nat
           /\ Cardinality(Working(load, t)) = Cardinality(Lanes) => Working(load, t) = Lanes
BY FS_Subset, FS_CardinalityType, EstimateConstants DEF Working

LEMMA OneMoreWorks ==
    ASSUME NEW load \in [Lanes -> Nat], NEW n, Duration(n) \in Nat, NEW t \in Nat
    PROVE  Cardinality(Working(HandedOut(load, n), t))
               = Cardinality(Working(load, t))
                 + (IF WaitAfter(load) <= t /\ t < WaitAfter(load) + Duration(n) THEN 1 ELSE 0)
<1> DEFINE first == FirstFreeLane(load)
           next == HandedOut(load, n)
<1>1. first \in Lanes /\ WaitAfter(load) = load[first] /\ load[first] \in Nat
  BY FirstFreeLaneIsFree DEF WaitAfter
<1>2. next = [load EXCEPT ![first] = @ + Duration(n)]
  BY DEF HandedOut
<1> HIDE DEF first, next
<1>3. next[first] = load[first] + Duration(n) /\ \A l \in Lanes : l # first => next[l] = load[l]
  BY <1>1, <1>2
<1>4. CASE WaitAfter(load) <= t /\ t < WaitAfter(load) + Duration(n)
  <2>1. Working(next, t) = Working(load, t) \cup {first} /\ first \notin Working(load, t)
    BY <1>1, <1>3, <1>4 DEF Working
  <2> QED BY <1>4, <2>1, WorkingIsFinite, FS_AddElement DEF next
<1>5. CASE ~(WaitAfter(load) <= t /\ t < WaitAfter(load) + Duration(n))
  <2>1. load[first] > t <=> next[first] > t
    BY <1>1, <1>3, <1>5
  <2>2. Working(next, t) = Working(load, t)
    BY <1>3, <2>1 DEF Working
  <2> QED BY <1>5, <2>2, WorkingIsFinite DEF next
<1> QED BY <1>4, <1>5

\* At every second as many tasks of the line are busy as lanes work.
LEMMA BusyAreWorking ==
    ASSUME NEW line, Line(line), NEW t \in Nat
    PROVE  \A i \in 0..Len(line) :
               Cardinality(Busy(line, StartTimes(line, i), t)) = Cardinality(Working(Loads(line)[i], t))
<1> DEFINE N == Len(line)
           load(i) == Loads(line)[i]
           busy(i) == Busy(line, StartTimes(line, i), t)
           Holds == {n \in Nat : n <= N => IsFiniteSet(busy(n)) /\ Cardinality(busy(n)) = Cardinality(Working(load(n), t))}
<1>1. N \in Nat /\ load(0) = [l \in Lanes |-> 0] /\ \A i \in 0..N : load(i) \in [Lanes -> Nat]
  BY LoadsSteps DEF Line
<1>2. \A i \in 1..N : load(i) = HandedOut(load(i - 1), line[i]) /\ Duration(line[i]) \in Nat
  BY LoadsSteps DEF Line
<1>3. \A i \in 0..N : busy(i) = {j \in 1..i : WaitAfter(load(j - 1)) <= t
                                              /\ t < WaitAfter(load(j - 1)) + Duration(line[j])}
  BY DEF Busy, StartTimes
<1> HIDE DEF N, load, busy
<1>4. 0 \in Holds
  <2>1. busy(0) = {} /\ Working(load(0), t) = {}
    BY <1>1, <1>3 DEF Working
  <2> QED BY <2>1, FS_EmptySet
<1>5. ASSUME NEW n \in Nat, n \in Holds PROVE n + 1 \in Holds
  <2> SUFFICES ASSUME n + 1 <= N
               PROVE  IsFiniteSet(busy(n + 1)) /\ Cardinality(busy(n + 1)) = Cardinality(Working(load(n + 1), t))
    OBVIOUS
  <2> DEFINE begin == WaitAfter(load(n))
             goesOn == begin <= t /\ t < begin + Duration(line[n + 1])
  <2>1. n \in 0..N /\ n + 1 \in 0..N /\ n + 1 \in 1..N /\ (n + 1) - 1 = n
    BY <1>1
  <2>2. Cardinality(Working(load(n + 1), t)) = Cardinality(Working(load(n), t)) + (IF goesOn THEN 1 ELSE 0)
    BY <1>1, <1>2, <2>1, OneMoreWorks
  <2>3. busy(n + 1) = IF goesOn THEN busy(n) \cup {n + 1} ELSE busy(n)
    <3>1. 1..(n + 1) = (1..n) \cup {n + 1}
      OBVIOUS
    <3> QED BY <1>3, <2>1, <3>1
  <2>4. n + 1 \notin busy(n)
    BY <1>3, <2>1
  <2>5. IsFiniteSet(busy(n)) /\ Cardinality(busy(n)) = Cardinality(Working(load(n), t))
    BY <1>5, <2>1
  <2>6. Cardinality(busy(n)) \in Nat
    BY <2>5, FS_CardinalityType
  <2> HIDE DEF goesOn, begin
  <2>7. CASE goesOn
    BY <2>2, <2>3, <2>4, <2>5, <2>6, <2>7, FS_AddElement
  <2>8. CASE ~goesOn
    BY <2>2, <2>3, <2>5, <2>6, <2>8
  <2> QED BY <2>7, <2>8
<1> HIDE DEF Holds
<1>6. Nat \subseteq Holds
  BY <1>4, <1>5, NaturalInduction
<1> QED BY <1>1, <1>6 DEF Holds, N, load, busy

\* So the first second in which somebody is free is the least work of a lane.
LEMMA FirstFreeIsWait ==
    ASSUME NEW line, Line(line), NEW i \in 0..Len(line)
    PROVE  FirstFree(line, StartTimes(line, i)) = WaitAfter(Loads(line)[i])
<1> DEFINE load == Loads(line)[i]
           starts == StartTimes(line, i)
           w == WaitAfter(load)
           IsFirst(t) == SomeoneIsFree(line, starts, t) /\ \A u \in 0..(t - 1) : ~SomeoneIsFree(line, starts, u)
<1>1. load \in [Lanes -> Nat] /\ \A l \in Lanes : load[l] <= WholeLine(line)
  BY LoadsSteps, LoadsAreBounded
<1>2. \A t \in Nat : SomeoneIsFree(line, starts, t) <=> Cardinality(Working(load, t)) < Cardinality(Lanes)
  BY BusyAreWorking DEF SomeoneIsFree
<1> HIDE DEF load, starts
<1>3. \E l \in Lanes : w = load[l] /\ w \in Nat
  BY <1>1, FirstFreeLaneIsFree DEF WaitAfter
<1>4. \A k \in Lanes : w <= load[k]
  BY <1>1, FirstFreeLaneIsFree
<1> HIDE DEF w
<1>5. ASSUME NEW t \in Nat PROVE SomeoneIsFree(line, starts, t) <=> w <= t
  <2>1. Working(load, t) = Lanes <=> t < w
    BY <1>1, <1>3, <1>4 DEF Working
  <2>2. Cardinality(Working(load, t)) < Cardinality(Lanes) <=> Working(load, t) # Lanes
    BY WorkingIsFinite
  <2> QED BY <1>2, <1>3, <2>1, <2>2
<1>6. WholeLine(line) \in Int /\ w <= WholeLine(line)
  <2>1. WholeLine(line) \in Int
    <3>1. IsFiniteSet(DOMAIN line) /\ \A j \in DOMAIN line : Duration(line[j]) \in Int
      BY FS_Interval DEF Line
    <3> QED BY <3>1, SumType DEF WholeLine
  <2> QED BY <1>1, <1>3, <2>1
<1>7. w \in 0..WholeLine(line) /\ IsFirst(w)
  BY <1>3, <1>5, <1>6
<1>8. \A t \in 0..WholeLine(line) : IsFirst(t) => t = w
  <2> SUFFICES ASSUME NEW t \in 0..WholeLine(line), IsFirst(t) PROVE t = w
    OBVIOUS
  <2>1. w <= t /\ t \in Nat
    BY <1>5, <1>6
  <2>2. ~(w < t)
    <3> SUFFICES ASSUME w < t PROVE FALSE
      OBVIOUS
    <3>1. w \in 0..(t - 1) /\ SomeoneIsFree(line, starts, w)
      BY <1>3, <1>5, <2>1
    <3> QED BY <3>1
  <2> QED BY <1>3, <2>1, <2>2
<1>9. FirstFree(line, starts) = CHOOSE t \in 0..WholeLine(line) : IsFirst(t)
  BY DEF FirstFree
<1> HIDE DEF IsFirst
<1>10. FirstFree(line, starts) = w
  BY <1>7, <1>8, <1>9
<1> QED BY <1>10 DEF w, load, starts

LEMMA StartsAreStartTimes ==
    ASSUME NEW line, Line(line)
    PROVE  \A i \in 0..Len(line) : Starts(line)[i] = StartTimes(line, i)
<1> DEFINE N == Len(line)
           times == [i \in 0..N |-> StartTimes(line, i)]
           IsStarts(f) == f = [i \in 0..N |-> IF i = 0 THEN <<>> ELSE Append(f[i - 1], FirstFree(line, f[i - 1]))]
           g == Starts(line)
<1>1. N \in Nat
  BY DEF Line
<1>2. StartTimes(line, 0) = <<>>
  BY DEF StartTimes
<1>3. ASSUME NEW i \in 1..N
      PROVE  StartTimes(line, i) = Append(StartTimes(line, i - 1), FirstFree(line, StartTimes(line, i - 1)))
  <2>1. i - 1 \in 0..N /\ i - 1 \in Nat
    BY <1>1
  <2>2. FirstFree(line, StartTimes(line, i - 1)) = WaitAfter(Loads(line)[i - 1])
    BY <2>1, FirstFreeIsWait
  <2>3. StartTimes(line, i - 1) = [j \in 1..(i - 1) |-> WaitAfter(Loads(line)[j - 1])]
    BY DEF StartTimes
  <2>4. ASSUME NEW s, NEW k \in Nat, s = [j \in 1..k |-> WaitAfter(Loads(line)[j - 1])]
        PROVE  Append(s, WaitAfter(Loads(line)[k])) = [j \in 1..(k + 1) |-> WaitAfter(Loads(line)[j - 1])]
    <3>1. Len(s) = k
      BY <2>4
    <3> QED BY <2>4, <3>1
  <2>5. StartTimes(line, i) = [j \in 1..i |-> WaitAfter(Loads(line)[j - 1])] /\ (i - 1) + 1 = i
    BY DEF StartTimes
  <2> QED BY <2>1, <2>2, <2>3, <2>4, <2>5
<1>4. IsStarts(times)
  <2>1. \A i \in 0..N : i = 0 \/ (i \in 1..N /\ i - 1 \in 0..N)
    BY <1>1
  <2> HIDE DEF N
  <2> QED BY <1>2, <1>3, <2>1
<1>5. IsStarts(g)
  <2> HIDE DEF times
  <2>1. g = CHOOSE h : IsStarts(h)
    BY DEF Starts
  <2> HIDE DEF g, IsStarts
  <2> QED BY <1>4, <2>1
<1> HIDE DEF g
<1>6. g[0] = <<>> /\ \A i \in 1..N : g[i] = Append(g[i - 1], FirstFree(line, g[i - 1]))
  <2>1. \A i \in 0..N : g[i] = IF i = 0 THEN <<>> ELSE Append(g[i - 1], FirstFree(line, g[i - 1]))
    BY <1>5
  <2>2. 0 \in 0..N /\ \A i \in 1..N : i \in 0..N /\ i # 0
    BY <1>1
  <2> HIDE DEF N
  <2> QED BY <2>1, <2>2
<1> DEFINE Holds == {n \in Nat : n <= N => g[n] = StartTimes(line, n)}
<1>7. 0 \in Holds
  BY <1>2, <1>6
<1>8. ASSUME NEW n \in Nat, n \in Holds PROVE n + 1 \in Holds
  <2> SUFFICES ASSUME n + 1 <= N PROVE g[n + 1] = StartTimes(line, n + 1)
    OBVIOUS
  <2>1. n + 1 \in 1..N /\ (n + 1) - 1 = n /\ g[n] = StartTimes(line, n)
    BY <1>1, <1>8
  <2> QED BY <1>3, <1>6, <2>1
<1> HIDE DEF Holds
<1>9. Nat \subseteq Holds
  BY <1>7, <1>8, NaturalInduction
<1> QED BY <1>1, <1>9 DEF Holds, g

LEMMA EstimateIsFreeAt ==
    ASSUME NEW line, Line(line)
    PROVE  WaitAfter(Loads(line)[Len(line)]) = FreeAt(line)
<1>1. Len(line) \in 0..Len(line)
  BY DEF Line
<1> QED BY <1>1, FirstFreeIsWait, StartsAreStartTimes DEF FreeAt

LEMMA DurationType ==
    ASSUME EstimateTypeOK, NEW n \in Unfinished
    PROVE  Duration(n) \in Nat
<1>1. task[n] \in TaskRow /\ task[n].status \notin {"none", "ended"} /\ second \in Int
  BY EstimateConstants DEF EstimateTypeOK, Unfinished
<1>2. task[n].begun \in Int
  BY <1>1, EstimateConstants DEF TaskRow
<1>3. ASSUME NEW whole \in Nat PROVE RemainingSeconds(n, whole) \in Nat
  BY <1>1, <1>2, EstimateConstants DEF RemainingSeconds
<1>4. task[n].status \in {"smart_planning", "translating", "queued", "processing"} /\ task[n].agent \in BOOLEAN
  BY <1>1 DEF TaskRow
<1> QED BY <1>3, <1>4, EstimateConstants DEF Duration

\* The tasks of S stand in line one after another.
LEMMA InLineIsLine ==
    ASSUME EstimateTypeOK, NEW S \in SUBSET Unfinished
    PROVE  Line(InLine(S)) /\ Len(InLine(S)) = Cardinality(S)
<1> DEFINE R == {p \in S \X S : Before(p[1], p[2])}
           line == InLine(S)
<1>1. IsFiniteSet(S) /\ Cardinality(S) \in Nat
  <2>1. S \in SUBSET (1..TaskBound)
    BY DEF Unfinished, Rows
  <2>2. IsFiniteSet(1..TaskBound)
    BY FS_Interval, EstimateConstants
  <2> QED BY <2>1, <2>2, FS_Subset, FS_CardinalityType
<1>2. \A m, n \in S : <<m, n>> \in R <=> Before(m, n)
  OBVIOUS
<1>3. \A n \in S : n \in Int /\ task[n].created \in Int /\ Rank(n) \in Int
  BY EstimateConstants DEF EstimateTypeOK, Unfinished, Rows, TaskRow, Rank
<1> HIDE DEF R
<1>4. \A m \in S : <<m, m>> \notin R
  BY <1>2, <1>3 DEF Before, Older
<1>5. \A m, n \in S : m # n => <<m, n>> \in R \/ <<n, m>> \in R
  BY <1>2, <1>3 DEF Before, Older
<1>6. \A l, m, n \in S : <<l, m>> \in R /\ <<m, n>> \in R => <<l, n>> \in R
  BY <1>2, <1>3 DEF Before, Older
<1>7. \A i \in 1..Cardinality(S) : \E n \in S : Cardinality({m \in S : <<m, n>> \in R}) = i - 1
  BY <1>1, <1>4, <1>5, <1>6, EveryRankIsTaken
<1>8. ASSUME NEW i \in 1..Cardinality(S) PROVE line[i] \in S
  <2>1. \E n \in S : Cardinality({m \in S : <<m, n>> \in R}) = i - 1
    BY <1>7
  <2>2. \A n \in S : {m \in S : <<m, n>> \in R} = {m \in S : Before(m, n)}
    BY <1>2
  <2>3. \E n \in S : Cardinality({m \in S : Before(m, n)}) = i - 1
    BY <2>1, <2>2
  <2> QED BY <2>3 DEF InLine
<1>9. Len(line) = Cardinality(S) /\ DOMAIN line = 1..Cardinality(S)
  BY <1>1 DEF InLine
<1> HIDE DEF line
<1>10. \A i \in 1..Cardinality(S) : Duration(line[i]) \in Nat
  BY <1>8, DurationType
<1> QED BY <1>1, <1>9, <1>10 DEF Line, line

\* The seconds that are shown are the seconds until a worker is free, for any
\* number of tasks and workers and whatever the settings of the estimates.
THEOREM EstimatesAreSchedules == EstimateSpec => []EstimateIsSchedule
<1>1. ASSUME EstimateTypeOK, NEW S \in SUBSET Unfinished PROVE EstimateWait(S) = FreeAt(InLine(S))
  BY <1>1, InLineIsLine, EstimateIsFreeAt DEF EstimateWait
<1>2. EstimateTypeOK => EstimateIsSchedule
  <2>1. \A n \in InQueue : JobsAhead(n) \in SUBSET Unfinished
    BY DEF JobsAhead
  <2> QED BY <1>1, <2>1 DEF EstimateIsSchedule, WaitOf, WaitOfNew
<1>3. EstimateInv => EstimateTypeOK
  BY DEF EstimateInv
<1> QED BY <1>2, <1>3, EstimateInvHolds, PTL
=============================================================================
