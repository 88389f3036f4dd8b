--------------------------- MODULE QueueEstimates ---------------------------
(***************************************************************************)
(* What a user is told while waiting: the place in the queue and the       *)
(* seconds until a worker is free (db.py, from _queue_estimate_settings to *)
(* get_task_queue_position).  The estimate is made afresh from the rows of *)
(* all unfinished tasks whenever somebody asks; what happens to the rows   *)
(* is what the transactions of GenerationTasks do to them, here with the   *)
(* times that the estimate looks at.                                       *)
(***************************************************************************)
EXTENDS Integers, Sequences, FiniteSets, Functions

CONSTANTS TaskBound,    \* rows, by rowid
          PerJob,       \* estimated_generation_seconds
          AgentSeconds, \* estimated_agent_seconds
          MinRemaining, \* MIN_ACTIVE_REMAINING_SECONDS
          Lanes,        \* generation_worker_count workers, numbered
          SecondBound

ASSUME EstimateConstants ==
    /\ TaskBound \in Nat /\ SecondBound \in Nat /\ AgentSeconds \in Nat /\ MinRemaining \in Nat
    /\ PerJob \in Nat \ {0}
    /\ Lanes \subseteq Nat /\ IsFiniteSet(Lanes) /\ Lanes # {}

VARIABLES task,  \* generation_tasks, as far as the estimates look at it
          second \* int(time.time())

estimateVars == <<task, second>>

Rows == 1..TaskBound

\* created, begun: seconds; begun is translating_started_at or started_at.
\* agent: use_agent is set and there is no effective_prompt yet.
NoTask == [status |-> "none", created |-> 0, begun |-> 0, agent |-> FALSE]

EstimateInit ==
    /\ task = [n \in Rows |-> NoTask]
    /\ second = 0

----------------------------------------------------------------------------
(* The estimate *)

Unfinished == {n \in Rows : task[n].status \notin {"none", "ended"}}
InQueue == {n \in Rows : task[n].status = "queued"}

\* _processing_remaining_seconds and _agent_remaining_seconds
RemainingSeconds(n, whole) ==
    LET left == whole - (second - task[n].begun)
    IN  IF left > MinRemaining THEN left ELSE MinRemaining

\* _task_duration_seconds
Duration(n) ==
    CASE task[n].status = "smart_planning" ->
             PerJob + (IF AgentSeconds = 0 THEN 1 ELSE AgentSeconds)
      [] task[n].status = "translating" ->
             PerJob + (IF AgentSeconds = 0 THEN 0 ELSE RemainingSeconds(n, AgentSeconds))
      [] task[n].status = "processing" -> RemainingSeconds(n, PerJob)
      [] task[n].status = "queued" -> PerJob + (IF task[n].agent THEN AgentSeconds ELSE 0)

\* ORDER BY created_at, rowid
Older(m, n) ==
    \/ task[m].created < task[n].created
    \/ task[m].created = task[n].created /\ m < n

Rank(n) ==
    CASE task[n].status = "smart_planning" -> 0 [] task[n].status = "translating" -> 1
      [] task[n].status = "processing" -> 2 [] OTHER -> 3

\* The order in which the tasks of S are handed out to the lanes.
Before(m, n) == Rank(m) < Rank(n) \/ (Rank(m) = Rank(n) /\ Older(m, n))
InLine(S) ==
    [i \in 1..Cardinality(S) |->
        CHOOSE n \in S : Cardinality({m \in S : Before(m, n)}) = i - 1]

\* Mutant: min(range(lane_count)) without its key.
LaneByIndex(load) == CHOOSE l \in Lanes : \A k \in Lanes : l <= k

\* min(range(lane_count), key=lanes)
FirstFreeLane(load) ==
    CHOOSE l \in Lanes : \A k \in Lanes : load[l] < load[k] \/ (load[l] = load[k] /\ l <= k)

\* _estimate_wait_seconds: every task goes to the lane that is free first.
HandedOut(load, n) == [load EXCEPT ![FirstFreeLane(load)] = @ + Duration(n)]

Loads(line) ==
    LET load[i \in 0..Len(line)] ==
            IF i = 0 THEN [l \in Lanes |-> 0] ELSE HandedOut(load[i - 1], line[i])
    IN  load

WaitAfter(load) == load[FirstFreeLane(load)]

EstimateWait(S) == WaitAfter(Loads(InLine(S))[Cardinality(S)])

\* The tasks that get_task_queue_position counts before a queued one.
JobsAhead(n) == {m \in Unfinished : m \notin InQueue \/ Older(m, n)}

QueuePosition(n) == Cardinality(JobsAhead(n)) + 1

WaitOf(n) == EstimateWait(JobsAhead(n))

\* get_queue_status, for a task that is not made yet.
WaitOfNew == EstimateWait(Unfinished)

----------------------------------------------------------------------------
(* The rows *)

\* The three create transactions, and the confirmation of a draft.
Arrives(n, first, agent) ==
    /\ task[n].status = "none"
    /\ \A m \in Rows : m < n => task[m].status # "none"
    /\ agent => first = "queued"
    /\ task' = [task EXCEPT ![n] = [status |-> first, created |-> second, begun |-> second, agent |-> agent]]
    /\ UNCHANGED second

\* complete_smart_agent_plan sets created_at: the task queues at the end.
IsPlanned(n) ==
    /\ task[n].status = "smart_planning"
    /\ task' = [task EXCEPT ![n].status = "queued", ![n].created = second]
    /\ UNCHANGED second

\* complete_fast_translation leaves created_at alone.
IsTranslated(n) ==
    /\ task[n].status = "translating"
    /\ task' = [task EXCEPT ![n].status = "queued"]
    /\ UNCHANGED second

\* Mutant: the renderer takes any queued task.
StartsAnyRendering(n) ==
    /\ n \in InQueue
    /\ task' = [task EXCEPT ![n].status = "processing", ![n].begun = second]
    /\ UNCHANGED second

\* claim_one takes the oldest queued task.
StartsRendering(n) ==
    /\ n \in InQueue /\ \A m \in InQueue : m = n \/ Older(n, m)
    /\ task' = [task EXCEPT ![n].status = "processing", ![n].begun = second]
    /\ UNCHANGED second

\* Done, failed, or cancelled; nothing looks at its times any more.
LeavesQueue(n) ==
    /\ n \in Unfinished
    /\ task' = [task EXCEPT ![n] = [NoTask EXCEPT !.status = "ended"]]
    /\ UNCHANGED second

SecondPasses ==
    /\ second < SecondBound
    /\ second' = second + 1
    /\ UNCHANGED task

EstimateNext ==
    \/ \E n \in Rows :
           \/ \E first \in {"queued", "translating", "smart_planning"}, agent \in BOOLEAN : Arrives(n, first, agent)
           \/ IsPlanned(n) \/ IsTranslated(n) \/ StartsRendering(n) \/ LeavesQueue(n)
    \/ SecondPasses

EstimateSpec == EstimateInit /\ [][EstimateNext]_estimateVars

----------------------------------------------------------------------------
(* Properties *)

\* When a worker is free for one more task, if the workers take the tasks of
\* the line in turn and each takes as long as was estimated: the first second
\* in which fewer than all of them are busy.
Busy(line, starts, t) ==
    {i \in DOMAIN starts : starts[i] <= t /\ t < starts[i] + Duration(line[i])}

SomeoneIsFree(line, starts, t) == Cardinality(Busy(line, starts, t)) < Cardinality(Lanes)

WholeLine(line) == SumFunctionOnSet([i \in DOMAIN line |-> Duration(line[i])], DOMAIN line)

FirstFree(line, starts) ==
    CHOOSE t \in 0..WholeLine(line) :
        SomeoneIsFree(line, starts, t) /\ \A u \in 0..(t - 1) : ~SomeoneIsFree(line, starts, u)

Starts(line) ==
    LET starts[i \in 0..Len(line)] ==
            IF i = 0 THEN <<>> ELSE Append(starts[i - 1], FirstFree(line, starts[i - 1]))
    IN  starts

FreeAt(line) == FirstFree(line, Starts(line)[Len(line)])

\* The seconds that are shown, to the owner of a queued task and to somebody
\* who is about to make one, are the seconds until a worker is free.
EstimateIsSchedule ==
    /\ \A n \in InQueue : WaitOf(n) = FreeAt(InLine(JobsAhead(n)))
    /\ WaitOfNew = FreeAt(InLine(Unfinished))

\* Somebody who waits is not set back by time, by renderers, by plans and
\* translations that are ready or by tasks that end: only a new task that has
\* to be planned or translated first is counted before the queue.
IsSetBack(n) == n \in InQueue /\ n \in InQueue' /\ QueuePosition(n)' > QueuePosition(n)
TakesPrecedence(m) == task[m].status = "none" /\ task'[m].status \in {"translating", "smart_planning"}

PlaceIsKept == [][\A n \in Rows : IsSetBack(n) => \E m \in Rows : TakesPrecedence(m)]_estimateVars

\* What the proofs need: rows have the types they should, are made one after
\* another and are dated when they are made.
TaskRow == [status : {"none", "smart_planning", "translating", "queued", "processing", "ended"},
            created : 0..SecondBound, begun : 0..SecondBound, agent : BOOLEAN]

EstimateTypeOK == task \in [Rows -> TaskRow] /\ second \in 0..SecondBound

RowsInOrder ==
    \A m, n \in Rows : m < n /\ task[n].status # "none" => task[m].status # "none"

NothingFromLater == \A n \in Rows : task[n].created <= second

EstimateInv == EstimateTypeOK /\ RowsInOrder /\ NothingFromLater
=============================================================================
