--------------------------- MODULE Disambiguation ---------------------------
(***************************************************************************)
(* The question which characters a request means                           *)
(* (smart_agent/disambiguation_engine.py, the pending_disambiguation       *)
(* columns in db.py, the button's endpoint in main.py, the chat worker in  *)
(* v2_worker.py and, with V2 off, in main.py).  One conversation.          *)
(*                                                                         *)
(* A question is one JSON text in the conversation's row: a handler reads  *)
(* it, changes it and writes the whole of it back.  The endpoint and the   *)
(* worker do so on the event loop without an await in between, so one of   *)
(* them waits for the other (LoopIsFree); the handler that clears the      *)
(* conversation is a plain function and runs in a thread beside them.      *)
(* Which characters a text names is left open: a request is any of         *)
(* Requests, an answer may name a candidate of every group.                *)
(***************************************************************************)
EXTENDS Integers, FiniteSets

CONSTANTS Characters,   \* identity keys
          NoCharacter,
          Slots,        \* the mentions of a request that can need an answer
          Requests,     \* requests: definite characters, candidates per mention
          NoRequest,
          MessageBound, \* messages queued by the button
          QuestionBound, FaultBound, ClearBound,
          ResolutionLimit \* characters a resolution holds: clean_ids[:4]

Pick == [Slots -> Characters \cup {NoCharacter}]
NoPick == [g \in Slots |-> NoCharacter]

ASSUME DisambiguationConstants ==
    /\ NoCharacter \notin Characters /\ NoRequest \notin Requests /\ Slots \subseteq Nat
    /\ Requests \subseteq [definite : SUBSET Characters, options : [Slots -> SUBSET Characters]]
    /\ MessageBound \in Nat /\ QuestionBound \in Nat /\ FaultBound \in Nat /\ ClearBound \in Nat
    /\ ResolutionLimit \in Nat \ {0}

ASSUME SlotsFinite == IsFiniteSet(Slots)

VARIABLES v2,       \* smart_agent_v2_enabled, read at start
          question, \* pending_disambiguation_json and _at
          message,  \* the messages the button queued, with their resolution
          click,    \* the endpoint, between two of its transactions
          turn,     \* the worker, between two transactions about the question
          worker,   \* its turn
          clearing, \* a clear has deleted the resolutions and not yet the rest
          asked, faults, clears, \* counters
          broken    \* the questions somebody failed half-way with

counters == <<asked, faults, clears, broken>>
disVars == <<v2, question, message, click, turn, worker, clearing, asked, faults, clears, broken>>

\* id: group_id of each group, the first group that has it standing for it.
\* choice: selected_identity_key.  said: what the user answered, which the
\* program does not keep.  again: asked for a message of the button.
Question == [nr : 0..QuestionBound, open : BOOLEAN, late : BOOLEAN, request : Requests \cup {NoRequest},
             id : [Slots -> Slots], choice : Pick, said : Pick, again : BOOLEAN]

NoQuestion == [nr |-> 0, open |-> FALSE, late |-> FALSE, request |-> NoRequest,
               id |-> [g \in Slots |-> g], choice |-> NoPick, said |-> NoPick, again |-> FALSE]

\* exact: the row of smart_agent_message_resolution, {} if there is none.  own:
\* the groups of the question it answers had ids of their own; like said, it is
\* history that no step depends on.
Message == [status : {"none", "pending", "processing", "done"}, request : Requests \cup {NoRequest},
            exact : SUBSET Characters, said : Pick, own : BOOLEAN]

NoMessage == [status |-> "none", request |-> NoRequest, exact |-> {}, said |-> NoPick, own |-> FALSE]

\* q: the question as it is in memory.
Click == [pc : {"free", "save", "clear", "queue", "resolve"}, q : Question, message : 0..MessageBound]

NoClick == [pc |-> "free", q |-> NoQuestion, message |-> 0]

Writing == [pc : {"free", "save", "save_all", "clear", "supersede", "ask"}, q : Question]

NotWriting == [pc |-> "free", q |-> NoQuestion]

\* answers: the turn follows the answer to a question.
Turn == [pc : {"idle", "reading", "planning"}, message : 0..MessageBound,
         characters : SUBSET Characters, answers : BOOLEAN, said : Pick, own : BOOLEAN,
         request : Requests \cup {NoRequest}]

NoTurn == [pc |-> "idle", message |-> 0, characters |-> {}, answers |-> FALSE,
           said |-> NoPick, own |-> FALSE, request |-> NoRequest]

DisInit ==
    /\ v2 \in BOOLEAN
    /\ question = NoQuestion
    /\ message = [n \in 1..MessageBound |-> NoMessage]
    /\ click = NoClick
    /\ turn = NotWriting
    /\ worker = NoTurn
    /\ clearing = FALSE
    /\ asked = 0 /\ faults = 0 /\ clears = 0 /\ broken = {}

----------------------------------------------------------------------------
(* Groups *)

\* The mentions that became a group: more than one candidate, or one that was
\* not named exactly.
Groups(r) == {g \in Slots : r.options[g] # {}}

\* get_pending_disambiguation_json finds a question.
IsAsked == question.open /\ ~question.late

Unanswered(q) == {g \in Groups(q.request) : q.choice[g] = NoCharacter}

\* all_groups_resolved
AllAnswered(q) == Unanswered(q) = {}

\* _generate_group_id: an id is a hash of the time alone, so that groups made in
\* one tick of the clock share it.
Ids(r) ==
    {id \in [Slots -> Slots] :
        \A g \in Slots : /\ id[g] <= g /\ id[id[g]] = id[g]
                         /\ id[g] = g \/ {g, id[g]} \subseteq Groups(r)}

\* The groups of a question that have the id of g.
SameId(q, g) == {h \in Groups(q.request) : q.id[h] = q.id[g]}

OwnIds(q) == \A g \in Groups(q.request) : SameId(q, g) = {g}

\* Mutant: the first group that has the candidate, whatever group was clicked.
ResolveByCandidate(q, g, c) ==
    LET first == CHOOSE h \in Unanswered(q) : c \in q.request.options[h]
    IN  [q EXCEPT !.choice[first] = c, !.said[g] = c]

\* resolve_group, of the group that was clicked.
ResolveGroup(q, g, c) ==
    [q EXCEPT !.choice = [h \in Slots |-> IF h \in SameId(q, g) THEN c ELSE q.choice[h]],
              !.said[g] = c]

\* resolve_group for each group that a text names a candidate of; a group that
\* was resolved with an earlier one of its id is left alone.
ResolveByText(q, p) ==
    LET named == {g \in Unanswered(q) : p[g] # NoCharacter}
        by(h) == {g \in named : h \in SameId(q, g) /\ \A f \in named : h \in SameId(q, f) => g <= f}
    IN  [q EXCEPT !.choice = [h \in Slots |-> IF by(h) # {} THEN p[CHOOSE g \in by(h) : TRUE] ELSE q.choice[h]],
                  !.said = [h \in Slots |-> IF h \in named THEN p[h] ELSE q.said[h]]]

\* The characters of the answers, and no others: resolved_characters of the
\* question is written and never read.
Chosen(q) == {q.choice[g] : g \in Groups(q.request)} \ {NoCharacter}

\* The endpoint and the old worker look the answer of a group up among its own
\* candidates, and pass over a group that shares the id of another and got its
\* answer.
Fitting(q) == {g \in Groups(q.request) : q.choice[g] \in q.request.options[g]}

\* save_message_resolution keeps the first characters, in the order of the
\* groups; one that is chosen twice counts once.
Kept(q) ==
    LET before(g) == {q.choice[h] : h \in {f \in Fitting(q) : f < g}}
    IN  {q.choice[g] : g \in {h \in Fitting(q) : Cardinality(before(h)) < ResolutionLimit}}

\* Mutant: endpoint and worker in threads of their own.
LoopIsFreeAlways == TRUE

\* The event loop runs a handler until it awaits something.
LoopIsFree == click.pc = "free" /\ turn.pc = "free"

HoldClick(pc, q) == click' = [NoClick EXCEPT !.pc = pc, !.q = q]
HoldTurn(pc, q) == turn' = [pc |-> pc, q |-> q]

----------------------------------------------------------------------------
(* A click on a candidate *)

\* Finds the question and, in an unanswered group, the candidate.
ClickReads(g, c) ==
    /\ LoopIsFree /\ click.pc = "free"
    /\ IsAsked
    /\ g \in Unanswered(question)
    /\ c \in question.request.options[g]
    /\ HoldClick("save", ResolveGroup(question, g, c))
    /\ UNCHANGED <<v2, question, message, turn, worker, clearing, counters>>

\* save_pending_disambiguation_json: WHERE id=? only.
ClickSaves ==
    /\ click.pc = "save"
    /\ question' = [click.q EXCEPT !.open = TRUE]
    /\ IF AllAnswered(click.q) THEN HoldClick("clear", click.q) ELSE click' = NoClick
    /\ UNCHANGED <<v2, message, turn, worker, clearing, counters>>

\* clear_pending_disambiguation
ClickClears ==
    /\ click.pc = "clear"
    /\ question' = NoQuestion
    /\ HoldClick("queue", click.q)
    /\ UNCHANGED <<v2, message, turn, worker, clearing, counters>>

\* The original request is queued again.
ClickQueues(n) ==
    /\ click.pc = "queue"
    /\ message[n].status = "none"
    /\ \A m \in 1..MessageBound : m < n => message[m].status # "none"
    /\ message' = [message EXCEPT ![n] = [NoMessage EXCEPT !.status = "pending",
                                             !.request = click.q.request, !.said = click.q.said,
                                             !.own = OwnIds(click.q)]]
    /\ click' = [click EXCEPT !.pc = "resolve", !.message = n]
    /\ UNCHANGED <<v2, question, turn, worker, clearing, counters>>

\* save_message_resolution
ClickResolves ==
    /\ click.pc = "resolve"
    /\ message' = [message EXCEPT ![click.message].exact = Kept(click.q)]
    /\ click' = NoClick
    /\ UNCHANGED <<v2, question, turn, worker, clearing, counters>>

----------------------------------------------------------------------------
(* A turn of the worker *)

\* The worker claims a message that the button queued ...
TakeQueued(n) ==
    /\ worker.pc = "idle"
    /\ message[n].status = "pending"
    /\ message' = [message EXCEPT ![n].status = "processing"]
    /\ worker' = [NoTurn EXCEPT !.pc = "reading", !.message = n, !.request = message[n].request]
    /\ UNCHANGED <<v2, question, click, turn, clearing, counters>>

\* ... or a text.
TakeText(r) ==
    /\ worker.pc = "idle"
    /\ worker' = [NoTurn EXCEPT !.pc = "reading", !.request = r]
    /\ UNCHANGED <<v2, question, message, click, turn, clearing, counters>>

\* Only V2 looks for the resolution of its message.
Exact == IF v2 /\ worker.message # 0 THEN message[worker.message].exact ELSE {}

\* The worker has the loop and looks at its message.
TurnReads == LoopIsFree /\ turn.pc = "free" /\ worker.pc = "reading"

Plan(r, characters, answers, said, own) ==
    worker' = [worker EXCEPT !.pc = "planning", !.request = r, !.characters = characters,
                             !.answers = answers, !.said = said, !.own = own]

\* The message is done; the user is told, or asked, and has the next word.
EndTurn ==
    /\ worker' = NoTurn
    /\ message' = IF worker.message = 0 THEN message
                  ELSE [message EXCEPT ![worker.message].status = IF @ = "processing" THEN "done" ELSE @]

\* The characters were chosen by the button.
FollowResolution ==
    /\ TurnReads
    /\ Exact # {}
    /\ Plan(worker.request, Exact, TRUE, message[worker.message].said, message[worker.message].own)
    /\ UNCHANGED <<v2, question, message, click, turn, clearing, counters>>

\* Mutant: the old worker saves the last answer and goes no further.
AnswerByTextOnly(p) ==
    LET q == ResolveByText(question, p) IN
    /\ TurnReads
    /\ Exact = {} /\ IsAsked
    /\ \A g \in Slots : p[g] \in question.request.options[g] \cup {NoCharacter}
    /\ \E g \in Unanswered(question) : p[g] # NoCharacter
    /\ HoldTurn(IF AllAnswered(q) /\ v2 THEN "clear" ELSE "save", q)
    /\ UNCHANGED <<v2, question, message, click, worker, clearing, counters>>

\* A text that answers.  V2 saves the question when answers are missing and
\* otherwise clears it; the old worker saves it in any case.
AnswerByText(p) ==
    LET q == ResolveByText(question, p) IN
    /\ TurnReads
    /\ Exact = {} /\ IsAsked
    /\ \A g \in Slots : p[g] \in question.request.options[g] \cup {NoCharacter}
    /\ \E g \in Unanswered(question) : p[g] # NoCharacter
    /\ HoldTurn(IF ~AllAnswered(q) THEN "save" ELSE IF v2 THEN "clear" ELSE "save_all", q)
    /\ UNCHANGED <<v2, question, message, click, worker, clearing, counters>>

\* A supplement is added to the constraints of the question.
AddSupplement ==
    /\ TurnReads
    /\ Exact = {} /\ IsAsked
    /\ HoldTurn("save", question)
    /\ UNCHANGED <<v2, question, message, click, worker, clearing, counters>>

\* Anything else: the cards are shown once more.
ShowAgain ==
    /\ TurnReads
    /\ Exact = {} /\ IsAsked
    /\ EndTurn
    /\ UNCHANGED <<v2, question, click, turn, clearing, counters>>

TurnSaves ==
    /\ turn.pc \in {"save", "save_all"}
    /\ question' = [turn.q EXCEPT !.open = TRUE]
    /\ IF turn.pc = "save_all"
       THEN /\ HoldTurn("clear", turn.q)
            /\ UNCHANGED <<worker, message>>
       ELSE /\ turn' = NotWriting
            /\ EndTurn
    /\ UNCHANGED <<v2, click, clearing, counters>>

TurnClears ==
    /\ turn.pc = "clear"
    /\ question' = NoQuestion
    /\ turn' = NotWriting
    /\ Plan(turn.q.request, IF v2 THEN Chosen(turn.q) ELSE {turn.q.choice[g] : g \in Fitting(turn.q)},
            TRUE, turn.q.said, OwnIds(turn.q))
    /\ UNCHANGED <<v2, message, click, clearing, counters>>

\* A new request: the question is superseded before the request is looked at.
NewRequest ==
    /\ TurnReads
    /\ Exact = {} /\ IsAsked
    /\ HoldTurn("supersede", NoQuestion)
    /\ UNCHANGED <<v2, question, message, click, worker, clearing, counters>>

TurnSupersedes ==
    /\ turn.pc = "supersede"
    /\ question' = NoQuestion
    /\ HoldTurn("ask", NoQuestion)
    /\ UNCHANGED <<v2, message, click, worker, clearing, counters>>

\* analyze_user_request: without an open question, or after it was superseded,
\* a request with groups is asked about; one without is planned as it stands.
Analyse ==
    /\ worker.pc = "reading"
    /\ \/ TurnReads /\ Exact = {} /\ ~IsAsked
       \/ turn.pc = "ask"
    /\ turn' = NotWriting
    /\ IF Groups(worker.request) # {}
       THEN /\ asked < QuestionBound
            /\ asked' = asked + 1
            /\ \E id \in Ids(worker.request) :
                   question' = [NoQuestion EXCEPT !.nr = asked', !.open = TRUE, !.request = worker.request,
                                                  !.id = id, !.again = worker.message # 0]
            /\ EndTurn
       ELSE /\ Plan(worker.request, worker.request.definite, FALSE, NoPick, FALSE)
            /\ UNCHANGED <<asked, question, message>>
    /\ UNCHANGED <<v2, click, clearing, faults, clears, broken>>

\* The model has answered, and what was planned is saved or has failed.
PlanEnds ==
    /\ worker.pc = "planning"
    /\ LoopIsFree
    /\ EndTurn
    /\ UNCHANGED <<v2, question, click, turn, clearing, counters>>

----------------------------------------------------------------------------
(* Clearing, time and faults *)

\* With V2 the resolutions are deleted in a transaction before the rest.
ClearResolutions ==
    /\ v2 /\ ~clearing /\ clears < ClearBound
    /\ message' = [n \in 1..MessageBound |-> [message[n] EXCEPT !.exact = {}]]
    /\ clearing' = TRUE
    /\ clears' = clears + 1
    /\ UNCHANGED <<v2, question, click, turn, worker, asked, faults, broken>>

ClearConversation ==
    /\ IF v2 THEN clearing /\ clears' = clears
             ELSE clears < ClearBound /\ clears' = clears + 1
    /\ message' = [n \in 1..MessageBound |->
                     IF message[n].status = "none" THEN NoMessage
                     ELSE [message[n] EXCEPT !.status = "done", !.exact = {}]]
    /\ question' = NoQuestion
    /\ clearing' = FALSE
    /\ UNCHANGED <<v2, click, turn, worker, asked, faults, broken>>

QuestionGrowsLate ==
    /\ IsAsked
    /\ question' = [question EXCEPT !.late = TRUE]
    /\ UNCHANGED <<v2, message, click, turn, worker, clearing, counters>>

Fault == faults < FaultBound /\ faults' = faults + 1

\* A transaction of the endpoint raises: it answers with an error.
ClickRaises ==
    /\ Fault
    /\ click.pc # "free"
    /\ click' = NoClick
    /\ broken' = broken \cup {click.q.nr}
    /\ UNCHANGED <<v2, question, message, turn, worker, clearing, asked, clears>>

\* A transaction of the turn raises: the message has failed.
TurnRaises ==
    /\ Fault
    /\ turn.pc # "free"
    /\ turn' = NotWriting
    /\ broken' = broken \cup {turn.q.nr}
    /\ EndTurn
    /\ UNCHANGED <<v2, question, click, clearing, asked, clears>>

\* The server stops and starts again, perhaps with another setting; a message
\* in work is in time given to the worker again.
Restart ==
    /\ Fault
    /\ v2' \in BOOLEAN
    /\ click' = NoClick
    /\ turn' = NotWriting
    /\ worker' = NoTurn
    /\ clearing' = FALSE
    /\ broken' = broken \cup {click.q.nr, turn.q.nr}
    /\ message' = [n \in 1..MessageBound |->
                     [message[n] EXCEPT !.status = IF @ = "processing" THEN "pending" ELSE @]]
    /\ UNCHANGED <<question, asked, clears>>

----------------------------------------------------------------------------

ClickStep ==
    \/ \E g \in Slots, c \in Characters : ClickReads(g, c)
    \/ ClickSaves
    \/ ClickClears
    \/ \E n \in 1..MessageBound : ClickQueues(n)
    \/ ClickResolves
    \/ ClickRaises

TurnStep ==
    \/ \E n \in 1..MessageBound : TakeQueued(n)
    \/ \E r \in Requests : TakeText(r)
    \/ FollowResolution
    \/ \E p \in Pick : AnswerByText(p)
    \/ AddSupplement
    \/ ShowAgain
    \/ TurnSaves
    \/ TurnClears
    \/ NewRequest
    \/ TurnSupersedes
    \/ Analyse
    \/ PlanEnds
    \/ TurnRaises

DisNext ==
    \/ ClickStep
    \/ TurnStep
    \/ ClearResolutions
    \/ ClearConversation
    \/ QuestionGrowsLate
    \/ Restart

DisSpec == DisInit /\ [][DisNext]_disVars

----------------------------------------------------------------------------
(* Properties *)

DisTypeOK ==
    /\ v2 \in BOOLEAN /\ clearing \in BOOLEAN
    /\ question \in Question
    /\ message \in [1..MessageBound -> Message]
    /\ click \in Click
    /\ turn \in Writing
    /\ worker \in Turn
    /\ asked \in 0..QuestionBound /\ faults \in 0..FaultBound /\ clears \in 0..ClearBound
    /\ broken \subseteq 0..QuestionBound

\* A turn that follows the answers to a question is planned with characters the
\* user named in those answers and with no other; whichever of button and text
\* gave them, and whatever was cleared, repeated or lost meanwhile.  If the groups
\* had ids of their own, each of them was answered, with one of its candidates,
\* and its answer is planned; except that the resolution of the button drops an
\* answer when those before it name ResolutionLimit characters.  Groups made in
\* one tick of the clock share an id, so that one click answers all of them, and
\* then no more is promised than the first sentence.
PlannedAsChosen ==
    LET Mentions == Groups(worker.request)
        named(gs) == {worker.said[g] : g \in gs} \ {NoCharacter}
        before(g) == {h \in Mentions : h < g}
    IN  worker.pc = "planning" /\ worker.answers =>
            /\ worker.characters # {}
            /\ worker.characters \subseteq named(Mentions)
            /\ worker.own => \A g \in Mentions :
                  /\ worker.said[g] \in worker.request.options[g]
                  /\ \/ worker.said[g] \in worker.characters
                     \/ worker.message # 0 /\ Cardinality(named(before(g))) >= ResolutionLimit

\* As long as a question is open, a group that is answered keeps its answer: no
\* handler writes an older reading back.
AnswersAreKept ==
    [][question.open /\ question'.open /\ question'.nr = question.nr
       => \A g \in Slots : question.choice[g] # NoCharacter => question'.choice[g] = question.choice[g]]_disVars

\* An open question nobody is busy with can still be answered: one whose groups
\* are all answered is left behind only by a handler that failed half-way.
OpenIsAnswerable ==
    LoopIsFree /\ question.open /\ question.nr \notin broken => Unanswered(question) # {}

\* The comment of the endpoint says "The worker must not re-run ambiguous name
\* matching after a button click." (main.py:5348): no question is asked for a
\* message that a click has queued.
AnsweredIsNotAskedAgain == ~question.again
=============================================================================
