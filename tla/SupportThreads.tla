--------------------------- MODULE SupportThreads ---------------------------
(***************************************************************************)
(* One support thread (support_threads, support_messages in db.py) and the *)
(* handlers of main.py that post to it, close it and read it.  A handler   *)
(* that posts or closes is one transaction under BEGIN IMMEDIATE.  Reading *)
(* is not: an administrator's page marks the messages read in one          *)
(* transaction and lists them afterwards, a user's page lists them and     *)
(* marks them read with a second request.                                  *)
(***************************************************************************)
EXTENDS Integers, Sequences

CONSTANTS Desks,     \* administrators' requests under way
          ListLimit, \* the limit of list_support_messages
          PostBound  \* bound of the model: messages of the thread

ASSUME SupportConstants == ListLimit \in Nat \ {0} /\ PostBound \in Nat

VARIABLES ticket, \* support_threads.status
          posts,  \* support_messages, by id
          desk,   \* an administrator's request between marking and listing
          page,   \* the user's page has listed and not yet sent POST /read
          seen,   \* the messages an administrator or the user has been shown
          unshown \* marked by a request of an administrator that failed

supportVars == <<ticket, posts, desk, page, seen, unshown>>

Post == [by : {"user", "admin"}, readByUser : BOOLEAN, readByAdmin : BOOLEAN]

SupportInit ==
    /\ ticket = "none"
    /\ posts = <<>>
    /\ desk = [d \in Desks |-> {}]
    /\ page = FALSE
    /\ seen = [user |-> {}, admin |-> {}]
    /\ unshown = {}

\* list_support_messages: ORDER BY id ASC LIMIT.
Listed == {n \in DOMAIN posts : n <= ListLimit}

\* The sender has read what he sends.
Send(by) == posts' = Append(posts, [by |-> by, readByUser |-> by = "user", readByAdmin |-> by = "admin"])

\* create_support_thread: an administrator opens it with a first message.
CreateThread ==
    /\ ticket = "none" /\ PostBound > 0
    /\ ticket' = "open"
    /\ Send("admin")
    /\ UNCHANGED <<desk, page, seen, unshown>>

\* add_support_message, of either handler, under the test that the thread is open.
AddMessage(by) ==
    /\ ticket = "open" /\ Len(posts) < PostBound
    /\ Send(by)
    /\ UNCHANGED <<ticket, desk, page, seen, unshown>>

\* set_support_thread_status, of the close and the reopen handler.
SetStatus(status) ==
    /\ ticket # "none"
    /\ ticket' = status
    /\ UNCHANGED <<posts, desk, page, seen, unshown>>

\* The messages mark_support_thread_read_by_admin updates.
UnreadByAdmin == {n \in DOMAIN posts : posts[n].by = "user" /\ ~posts[n].readByAdmin}

MarkRead(ns) ==
    posts' = [n \in DOMAIN posts |-> IF n \in ns THEN [posts[n] EXCEPT !.readByAdmin = TRUE] ELSE posts[n]]

\* Mutant: the messages are listed before the others are marked.
ListThenMark(d) ==
    /\ ticket # "none"
    /\ IF desk[d] = {} THEN /\ seen' = [seen EXCEPT !.admin = @ \cup Listed]
                            /\ desk' = [desk EXCEPT ![d] = {0}]
                            /\ UNCHANGED posts
                       ELSE /\ MarkRead(UnreadByAdmin)
                            /\ desk' = [desk EXCEPT ![d] = {}]
                            /\ UNCHANGED seen
    /\ UNCHANGED <<ticket, page, unshown>>

\* admin_support_thread_detail marks and commits, and lists in a later read.
\* (0 stands for the request itself in what it has marked.)
MarkThenList(d) ==
    /\ ticket # "none"
    /\ IF desk[d] = {} THEN /\ MarkRead(UnreadByAdmin)
                            /\ desk' = [desk EXCEPT ![d] = UnreadByAdmin \cup {0}]
                            /\ UNCHANGED seen
                       ELSE /\ seen' = [seen EXCEPT !.admin = @ \cup Listed]
                            /\ desk' = [desk EXCEPT ![d] = {}]
                            /\ UNCHANGED posts
    /\ UNCHANGED <<ticket, page, unshown>>

\* The process ends, or the second read fails, in between.
AdminFails(d) ==
    /\ desk[d] # {}
    /\ unshown' = unshown \cup desk[d]
    /\ desk' = [desk EXCEPT ![d] = {}]
    /\ UNCHANGED <<ticket, posts, page, seen>>

\* support_thread_detail; static/messages.js then sends POST /read.
UserLists ==
    /\ ticket # "none"
    /\ seen' = [seen EXCEPT !.user = @ \cup Listed]
    /\ page' = TRUE
    /\ UNCHANGED <<ticket, posts, desk, unshown>>

\* support_thread_read: every message of an administrator, listed or not.
UserMarks ==
    /\ page
    /\ posts' = [n \in DOMAIN posts |-> IF posts[n].by = "admin" THEN [posts[n] EXCEPT !.readByUser = TRUE]
                                        ELSE posts[n]]
    /\ page' = FALSE
    /\ UNCHANGED <<ticket, desk, seen, unshown>>

SupportNext ==
    \/ CreateThread
    \/ \E by \in {"user", "admin"} : AddMessage(by)
    \/ \E s \in {"open", "closed"} : SetStatus(s)
    \/ \E d \in Desks : MarkThenList(d) \/ AdminFails(d)
    \/ UserLists
    \/ UserMarks

SupportSpec == SupportInit /\ [][SupportNext]_supportVars

----------------------------------------------------------------------------
(* Properties *)

SupportTypeOK ==
    /\ ticket \in {"none", "open", "closed"}
    /\ posts \in Seq(Post)
    /\ desk \in [Desks -> SUBSET (0..PostBound)]
    /\ page \in BOOLEAN
    /\ seen \in [{"user", "admin"} -> SUBSET (1..PostBound)]
    /\ unshown \subseteq 0..PostBound

\* A user's message that counts as read by the administrators, and is among
\* those a page lists, has been on an administrator's page, or is about to be,
\* or was lost with the request that marked it: messages that arrive while a
\* page is made are not marked unseen.
AdminReadIsShown ==
    \A n \in Listed :
        posts[n].by = "user" /\ posts[n].readByAdmin
            => n \in seen.admin \cup unshown \cup UNION {desk[d] : d \in Desks}
=============================================================================
