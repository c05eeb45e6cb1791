------------------------------ MODULE TaskQueue ------------------------------
(***************************************************************************)
(* The per-server task queue of core/task_manager.py.                      *)
(*                                                                         *)
(* Coroutines of one asyncio loop interleave here, one action per stretch  *)
(* between two suspension points.  No `async with self._lock` block of the *)
(* class awaits anything inside, so the lock is never contended and every  *)
(* block is one step.  `pumps[s]` counts the `_pump(s)` coroutines that    *)
(* `create_task` has scheduled and the loop has not started yet.           *)
(*                                                                         *)
(* A task is a number: ids grow in the order of `created_at`, which is the *)
(* order the history is sorted by.  The life of a task:                    *)
(*                                                                         *)
(*   new -> queued -> spawned -> working -> settling -> booking -> closed  *)
(*                                                                         *)
(*   spawned   `_pump` made it RUNNING and created runner(), not begun yet *)
(*   working   runner() waits for the executor                             *)
(*   settling  the terminal status is set, runner() awaits cancel_watcher  *)
(*   booking   the terminal event is emitted and `_done_event` is set, the *)
(*             pump has not yet taken the task out of `_running`           *)
(*   closed    in the history (or lost to a disk error), out of the queue  *)
(*   lost      the process stopped first: the queue lives only in memory   *)
(***************************************************************************)
EXTENDS Naturals, Sequences, SequencesExt

CONSTANTS
    Servers,        \* server ids
    MaxTasks,       \* bound: tasks ever created
    HistoryLimit,   \* logs.tasks: how many files the history keeps
    Results,        \* bound: the ways an executor ends that are explored
    Observed,       \* bound: which values of live_reported callers pass
    None

Tasks == 1..MaxTasks

ASSUME MaxTasksAssumption == MaxTasks \in Nat
ASSUME HistoryLimitAssumption == HistoryLimit \in Nat \ {0}
ASSUME NoneAssumption == None \notin Tasks
ASSUME ObservedAssumption == Observed \subseteq BOOLEAN

VARIABLES
    queue,      \* _queues[s]
    running,    \* _running[s]
    pumps,      \* scheduled _pump(s) coroutines
    stage,      \* where each task is
    home,       \* task.server_id
    outcome,    \* terminal task.status, or None
    cancelReq,  \* task._cancel_event
    failed,     \* _queue_state[s].failed_task_id
    live,       \* _live_reported
    disk,       \* logs/tasks/*.json, oldest file first
    journal     \* events (and audit records) of each task, in order

vars == <<queue, running, pumps, stage, home, outcome, cancelReq, failed,
          live, disk, journal>>

-----------------------------------------------------------------------------
Successful == {"success", "success_warn"}
Outcomes == Successful \cup {"failed", "cancelled"}

ASSUME ResultsAssumption == Results \subseteq Outcomes
ASSUME OutcomesAssumption == None \notin Outcomes

Stages == {"new", "queued", "spawned", "working", "settling", "booking",
           "closed", "lost"}
ActiveStages == {"spawned", "working", "settling", "booking"}
Kinds == {"queued", "finished", "failed", "cancelled"}
Entries == [kind : Kinds, push : BOOLEAN]

TypeOK ==
    /\ queue \in [Servers -> Seq(Tasks)]
    /\ running \in [Servers -> Tasks \cup {None}]
    /\ pumps \in [Servers -> Nat]
    /\ stage \in [Tasks -> Stages]
    /\ home \in [Tasks -> Servers \cup {None}]
    /\ outcome \in [Tasks -> Outcomes \cup {None}]
    /\ cancelReq \in [Tasks -> BOOLEAN]
    /\ failed \in [Servers -> Tasks \cup {None}]
    /\ live \in SUBSET Tasks
    /\ disk \in Seq(Tasks)
    /\ journal \in [Tasks -> Seq(Entries)]

Init ==
    /\ queue = [s \in Servers |-> <<>>]
    /\ running = [s \in Servers |-> None]
    /\ pumps = [s \in Servers |-> 0]
    /\ stage = [t \in Tasks |-> "new"]
    /\ home = [t \in Tasks |-> None]
    /\ outcome = [t \in Tasks |-> None]
    /\ cancelReq = [t \in Tasks |-> FALSE]
    /\ failed = [s \in Servers |-> None]
    /\ live = {}
    /\ disk = <<>>
    /\ journal = [t \in Tasks |-> <<>>]

-----------------------------------------------------------------------------
(* Helpers.                                                                *)

\* The id a new task gets: the least one not yet used.
Fresh(t) == stage[t] = "new" /\ \A u \in 1..(t - 1) : stage[u] # "new"

\* Task.is_done; _done_event.is_set().
IsDone(t) == outcome[t] # None
DoneEvent(t) == stage[t] \in {"booking", "closed"}

\* The word _emit_task_event takes for a terminal status.
FinalKind(o) ==
    IF o \in Successful THEN "finished" ELSE IF o = "failed" THEN "failed" ELSE "cancelled"

\* _emit_task_event: one journal entry, delivered to the user unless a live
\* observer answers for the task.
Emit(t, kind, observed) ==
    [journal EXCEPT ![t] = Append(@, [kind |-> kind, push |-> t \notin observed])]

\* JsonItemStore.append, once per task of `more`: each writes its file and prunes
\* the oldest beyond the limit, so that the newest HistoryLimit remain.
Stored(files, more) ==
    LET all == files \o more
    IN  SubSeq(all, 1 + (IF Len(all) > HistoryLimit THEN Len(all) - HistoryLimit ELSE 0),
               Len(all))

\* _push_history: a disk error loses the file and changes nothing else.
PushHistory(t) == disk' \in {Stored(disk, <<t>>), disk}

OnDisk == {disk[i] : i \in 1..Len(disk)}

\* Whether enqueue leaves the start to whoever is already at work; `paused`
\* is never set by any caller.
WillWait(s) == running[s] # None \/ queue[s] # <<>>

\* The condition under which a finished task's pump schedules the next one.
\* Mutated: a failure stops the queue, as in the days of pause().
ShouldContinueOnSuccess(s, t) == queue[s] # <<>> /\ outcome[t] \in Successful
ShouldContinue(s, t) == queue[s] # <<>>

-----------------------------------------------------------------------------
(* Callers: enqueue, cancel, retry, clear, and the history operations.     *)

\* enqueue(): append; announce the wait, or schedule a pump.
Enqueue(s, t, observed) ==
    /\ Fresh(t)
    /\ queue' = [queue EXCEPT ![s] = Append(@, t)]
    /\ stage' = [stage EXCEPT ![t] = "queued"]
    /\ home' = [home EXCEPT ![t] = s]
    /\ live' = IF observed THEN live \cup {t} ELSE live
    /\ IF WillWait(s)
       THEN journal' = Emit(t, "queued", live') /\ UNCHANGED pumps
       ELSE pumps' = [pumps EXCEPT ![s] = @ + 1] /\ UNCHANGED journal
    /\ UNCHANGED <<running, outcome, cancelReq, failed, disk>>

\* cancel() of a task still in a queue.
CancelQueued(s, i) ==
    LET t == queue[s][i]
    IN  /\ outcome' = [outcome EXCEPT ![t] = "cancelled"]
        /\ stage' = [stage EXCEPT ![t] = "closed"]
        /\ queue' = [queue EXCEPT ![s] = RemoveAt(@, i)]
        /\ PushHistory(t)
        /\ journal' = Emit(t, "cancelled", live)
        /\ UNCHANGED <<running, pumps, home, cancelReq, failed, live>>

\* cancel() of the running task raises the flag and leaves the status alone.
RequestCancel(t) ==
    /\ cancelReq' = [cancelReq EXCEPT ![t] = TRUE]
    /\ UNCHANGED <<queue, running, pumps, stage, home, outcome, failed, live,
                   disk, journal>>

CancelRunning(s) ==
    /\ running[s] # None
    /\ ~cancelReq[running[s]]
    /\ RequestCancel(running[s])

\* The failure retry_last_failed repeats: the recorded one if the history still
\* has it, else the server's most recently created FAILED record.
FailedRecords(s) == {t \in OnDisk : home[t] = s /\ outcome[t] = "failed"}

HasFailure(s) == failed[s] \in OnDisk \/ FailedRecords(s) # {}

\* retry_last_failed(): a copy of the failed task goes to the head of the queue,
\* and a pump is scheduled whatever the server is doing.
\* Mutated: the pump is left to whoever comes next.
RetryPumpsNone(s) == pumps
RetryPumps(s) == [pumps EXCEPT ![s] = @ + 1]

RetryLastFailed(s, t) ==
    /\ HasFailure(s)
    /\ Fresh(t)
    /\ queue' = [queue EXCEPT ![s] = <<t>> \o @]
    /\ stage' = [stage EXCEPT ![t] = "queued"]
    /\ home' = [home EXCEPT ![t] = s]
    /\ pumps' = RetryPumps(s)
    /\ UNCHANGED <<running, outcome, cancelReq, failed, live, disk, journal>>

\* clear_queue(): every waiting task is CANCELLED and stored (the disk may fail
\* after some of them); no event is emitted.  QueueState is reset.
ClearQueue(s) ==
    LET out == {queue[s][i] : i \in 1..Len(queue[s])}
    IN  /\ queue[s] # <<>> \/ failed[s] # None
        /\ outcome' = [t \in Tasks |-> IF t \in out THEN "cancelled" ELSE outcome[t]]
        /\ stage' = [t \in Tasks |-> IF t \in out THEN "closed" ELSE stage[t]]
        /\ \E n \in 0..Len(queue[s]) : disk' = Stored(disk, SubSeq(queue[s], 1, n))
        /\ queue' = [queue EXCEPT ![s] = <<>>]
        /\ failed' = [failed EXCEPT ![s] = None]
        /\ UNCHANGED <<running, pumps, home, cancelReq, live, journal>>

\* delete_history_task() and clear_history().
DeleteHistory(i) ==
    /\ disk' = RemoveAt(disk, i)
    /\ UNCHANGED <<queue, running, pumps, stage, home, outcome, cancelReq, failed,
                   live, journal>>

ClearHistory ==
    /\ disk # <<>>
    /\ disk' = <<>>
    /\ UNCHANGED <<queue, running, pumps, stage, home, outcome, cancelReq, failed,
                   live, journal>>

-----------------------------------------------------------------------------
(* The pump and the runner.                                                *)

\* _pump(): finds the server busy or its queue empty, and returns.
PumpLeaves(s) ==
    /\ pumps[s] > 0
    /\ running[s] # None \/ queue[s] = <<>>
    /\ pumps' = [pumps EXCEPT ![s] = @ - 1]
    /\ UNCHANGED <<queue, running, stage, home, outcome, cancelReq, failed, live,
                   disk, journal>>

\* _pump(): takes the head of the queue and creates its runner.
\* Mutated: `server_id in self._running` is not looked at.
MayStartUnchecked(s) == queue[s] # <<>>
MayStart(s) == running[s] = None /\ queue[s] # <<>>

PumpStarts(s) ==
    LET t == Head(queue[s])
    IN  /\ pumps[s] > 0
        /\ MayStart(s)
        /\ pumps' = [pumps EXCEPT ![s] = @ - 1]
        /\ queue' = [queue EXCEPT ![s] = Tail(@)]
        /\ running' = [running EXCEPT ![s] = t]
        /\ stage' = [stage EXCEPT ![t] = "spawned"]
        /\ UNCHANGED <<home, outcome, cancelReq, failed, live, disk, journal>>

\* runner(): the executor and the cancel watcher are started.
RunnerBegins(t) ==
    /\ stage[t] = "spawned"
    /\ ~cancelReq[t]
    /\ stage' = [stage EXCEPT ![t] = "working"]
    /\ UNCHANGED <<queue, running, pumps, home, outcome, cancelReq, failed, live,
                   disk, journal>>

\* runner(): already cancelled, so there is no watcher to wait for and the whole
\* body runs at once.
RunnerRefuses(t) ==
    /\ stage[t] = "spawned"
    /\ cancelReq[t]
    /\ outcome' = [outcome EXCEPT ![t] = "cancelled"]
    /\ journal' = Emit(t, "cancelled", live)
    /\ stage' = [stage EXCEPT ![t] = "booking"]
    /\ UNCHANGED <<queue, running, pumps, home, cancelReq, failed, live, disk>>

\* runner(): apply_result sets the status, then the cancel watcher is awaited.
\* The executor may end in any way, whether or not it saw the cancel flag.
ExecutorReturns(t, o) ==
    /\ stage[t] = "working"
    /\ outcome' = [outcome EXCEPT ![t] = o]
    /\ stage' = [stage EXCEPT ![t] = "settling"]
    /\ UNCHANGED <<queue, running, pumps, home, cancelReq, failed, live, disk,
                   journal>>

\* runner(): the terminal event, then _done_event.
\* Mutated: the waiters are woken and nothing is emitted.
FinalEntrySilent(t) == journal
FinalEntry(t) == Emit(t, FinalKind(outcome[t]), live)

RunnerEnds(t) ==
    /\ stage[t] = "settling"
    /\ journal' = FinalEntry(t)
    /\ stage' = [stage EXCEPT ![t] = "booking"]
    /\ UNCHANGED <<queue, running, pumps, home, outcome, cancelReq, failed, live,
                   disk>>

\* _pump(): after its runner, frees the server, stores the task, keeps or clears
\* the recorded failure and schedules the next pump.
\* Mutated: a cancelled task is recorded too.
RecordedFailureOfAny(s, t) ==
    IF outcome[t] \in Successful THEN None ELSE t

RecordedFailure(s, t) ==
    IF outcome[t] \in Successful THEN None ELSE IF outcome[t] = "failed" THEN t ELSE failed[s]

PumpBooks(s) ==
    LET t == running[s]
    IN  /\ t # None
        /\ stage[t] = "booking"
        /\ running' = [running EXCEPT ![s] = None]
        /\ stage' = [stage EXCEPT ![t] = "closed"]
        /\ PushHistory(t)
        /\ failed' = [failed EXCEPT ![s] = RecordedFailure(s, t)]
        /\ pumps' = [pumps EXCEPT ![s] = @ + (IF ShouldContinue(s, t) THEN 1 ELSE 0)]
        /\ UNCHANGED <<queue, home, outcome, cancelReq, live, journal>>

\* The process stops and starts again (update, web-port change, crash): the
\* queue is not persistent, the history is.
Restart ==
    /\ \E t \in Tasks : stage[t] \in ActiveStages \cup {"queued"}
    /\ queue' = [s \in Servers |-> <<>>]
    /\ running' = [s \in Servers |-> None]
    /\ pumps' = [s \in Servers |-> 0]
    /\ stage' = [t \in Tasks |-> IF stage[t] \in ActiveStages \cup {"queued"}
                                 THEN "lost" ELSE stage[t]]
    /\ failed' = [s \in Servers |-> None]
    /\ live' = {}
    /\ UNCHANGED <<home, outcome, cancelReq, disk, journal>>

-----------------------------------------------------------------------------
Callers ==
    \/ \E s \in Servers, t \in Tasks, observed \in Observed : Enqueue(s, t, observed)
    \/ \E s \in Servers : \E i \in 1..Len(queue[s]) : CancelQueued(s, i)
    \/ \E s \in Servers : CancelRunning(s)
    \/ \E s \in Servers, t \in Tasks : RetryLastFailed(s, t)
    \/ \E s \in Servers : ClearQueue(s)
    \/ \E i \in 1..Len(disk) : DeleteHistory(i)
    \/ ClearHistory

Loop ==
    \/ \E s \in Servers : PumpLeaves(s) \/ PumpStarts(s) \/ PumpBooks(s)
    \/ \E t \in Tasks : RunnerBegins(t) \/ RunnerRefuses(t) \/ RunnerEnds(t)
    \/ \E t \in Tasks, o \in Results : ExecutorReturns(t, o)

Next == Callers \/ Loop \/ Restart

Spec == Init /\ [][Next]_vars

\* asyncio runs every scheduled coroutine, and executors end: they carry their
\* own timeouts.  Nobody owes the queue a call.
Fairness ==
    /\ \A s \in Servers :
          /\ WF_vars(PumpLeaves(s) \/ PumpStarts(s))
          /\ WF_vars(PumpBooks(s))
    /\ \A t \in Tasks :
          /\ WF_vars(RunnerBegins(t) \/ RunnerRefuses(t))
          /\ WF_vars(\E o \in Results : ExecutorReturns(t, o))
          /\ WF_vars(RunnerEnds(t))

FairSpec == Spec /\ Fairness

-----------------------------------------------------------------------------
(* What must hold.                                                         *)

\* No lost wakeup: a server with waiting tasks and nothing running has a pump
\* scheduled.  enqueue skips the pump when the queue is not empty, trusting that
\* somebody else's is on its way.
NoLostWakeup ==
    \A s \in Servers : queue[s] # <<>> => running[s] # None \/ pumps[s] > 0

\* One at a time: a task between its start and its bookkeeping is the one its
\* server holds in _running, so no server ever has two, and a waiting task is
\* in exactly one place of exactly one queue.
OneAtATime ==
    /\ \A s \in Servers : running[s] # None =>
          stage[running[s]] \in ActiveStages /\ home[running[s]] = s
    /\ \A t \in Tasks : stage[t] \in ActiveStages =>
          home[t] \in Servers /\ running[home[t]] = t
    /\ \A t \in Tasks : stage[t] = "queued" =>
          home[t] \in Servers /\ \E i \in 1..Len(queue[home[t]]) : queue[home[t]][i] = t
    /\ \A s \in Servers : \A i \in 1..Len(queue[s]) :
          /\ stage[queue[s][i]] = "queued" /\ home[queue[s][i]] = s
          /\ \A j \in 1..Len(queue[s]) : queue[s][i] = queue[s][j] => i = j

Finals(t) == {i \in 1..Len(journal[t]) : journal[t][i].kind # "queued"}

\* A task that ended is reported once, with the status it ended with, and after
\* its "queued" announcement; whoever is woken by _done_event finds the report
\* already made.  (A cancelled task may be one that clear_queue dropped without
\* a report.)
ReportedOnce ==
    \A t \in Tasks :
        /\ \A i \in Finals(t) : i = Len(journal[t]) /\ journal[t][i].kind = FinalKind(outcome[t])
        /\ Len(journal[t]) <= 2
        /\ DoneEvent(t) /\ outcome[t] # "cancelled" => Finals(t) # {}

\* The recorded failure is a task of this server that really ended FAILED, so a
\* retry never repeats a task that is still waiting or running.
FailureIsReal ==
    \A s \in Servers : failed[s] # None =>
        /\ home[failed[s]] = s
        /\ outcome[failed[s]] = "failed"
        /\ stage[failed[s]] = "closed"

\* A terminal status is final, and a task never goes back: a task cancelled in
\* the queue never runs, a late cancel never changes how a task ended.
Rank(st) ==
    CASE st = "new" -> 0 [] st = "queued" -> 1 [] st = "spawned" -> 2
      [] st = "working" -> 3 [] st = "settling" -> 4 [] st = "booking" -> 5
      [] OTHER -> 6

NoWayBack ==
    [][\A t \in Tasks :
          /\ outcome[t] # None => outcome'[t] = outcome[t]
          /\ Rank(stage'[t]) >= Rank(stage[t])]_vars

\* Whatever is accepted ends or is lost with the process, whatever the users
\* keep asking for.
EveryTaskEnds ==
    \A t \in Tasks : stage[t] = "queued" ~> stage[t] \in {"closed", "lost"}

\* The queue implements the serial executor, its fairness included.
Executor ==
    INSTANCE SerialExecutor WITH
        line <- queue,
        busy <- running,
        ended <- {t \in Tasks : stage[t] \in {"closed", "lost"}}

SerialExecution == Executor!Spec

\* "The pair 'queued -> final' must come together" (_audit_task_event): a task
\* that was announced and is over has its final record.
AuditPairCloses ==
    \A t \in Tasks :
        stage[t] = "closed" /\ journal[t] # <<>> => Finals(t) # {}

=============================================================================
