----------------------------- MODULE LiveReport -----------------------------
(***************************************************************************)
(* The Telegram handlers that start a task and answer for its result       *)
(* themselves (ui/telegram/task_ui.py watch_task_background, the callers   *)
(* in handlers/, and _finish_full_check_waiter), composed with TaskQueue.  *)
(* While a task is in `live` the queue journals its events without         *)
(* delivering them; the observer must show the result instead.             *)
(*                                                                         *)
(*   replying  enqueued, the handler awaits Telegram's answer to its reply *)
(*   starting  watch_task_background is scheduled                          *)
(*   holding   the full-check waiter is scheduled; it has the Task object  *)
(*   waiting   suspended in task.wait() on _done_event                     *)
(*   reporting wait() returned and the mark is released                    *)
(*   told      the result message was sent                                 *)
(*   gone      the observer ended without telling anybody                  *)
(***************************************************************************)
EXTENDS TaskQueue

CONSTANT TelegramFails  \* whether a Telegram call may raise

VARIABLE watch

liveVars == <<vars, watch>>

WatchStates == {"none", "replying", "starting", "holding", "waiting",
                "reporting", "told", "gone"}

\* Types of the queue and of its observers.
LiveTypeOK == TypeOK /\ watch \in [Tasks -> WatchStates]

LiveInit == Init /\ watch = [t \in Tasks |-> "none"]

Moves(t, from, to) == watch[t] = from /\ watch' = [watch EXCEPT ![t] = to]

-----------------------------------------------------------------------------
\* enqueue(live_reported=True) by a handler that will reply, or by the full check.
EnqueueObserved(s, t) ==
    /\ Enqueue(s, t, TRUE)
    /\ \E first \in {"replying", "holding"} : Moves(t, "none", first)

\* The reply is delivered and the watcher is scheduled.
Replied(t) == Moves(t, "replying", "starting") /\ UNCHANGED vars

\* Both the edit and the new message raise: the handler ends with the exception.
ReplyRaises(t) ==
    /\ TelegramFails
    /\ Moves(t, "replying", "gone")
    /\ UNCHANGED vars

\* get_task(): running, queued, or in the history on disk.
Findable(t) == stage[t] \in ActiveStages \cup {"queued"} \/ t \in OnDisk

LookupFails(t) ==
    /\ ~Findable(t)
    /\ Moves(t, "starting", "gone")
    /\ UNCHANGED vars

\* The watcher marks the task and calls wait().  wait() returns at once for a
\* task whose status is terminal, and the mark is released in the same step.
WatchBegins(t) ==
    /\ watch[t] = "starting" => Findable(t)
    /\ watch[t] \in {"starting", "holding"}
    /\ stage[t] # "lost"
    /\ IF IsDone(t)
       THEN /\ live' = live \ {t}
            /\ watch' = [watch EXCEPT ![t] = "reporting"]
       ELSE /\ live' = live \cup {t}
            /\ watch' = [watch EXCEPT ![t] = "waiting"]
    /\ UNCHANGED <<queue, running, pumps, stage, home, outcome, cancelReq, failed,
                   disk, journal>>

\* _done_event wakes the waiter; `finally` releases the mark.
\* Mutated: woken by the status; woken by the runner only.
MayWakeOnStatus(t) == IsDone(t)
MayWakeFromRunner(t) == stage[t] = "booking"
MayWake(t) == DoneEvent(t)

WatchWakes(t) ==
    /\ MayWake(t)
    /\ Moves(t, "waiting", "reporting")
    /\ live' = live \ {t}
    /\ UNCHANGED <<queue, running, pumps, stage, home, outcome, cancelReq, failed,
                   disk, journal>>

\* The final message: an error is printed to the panel's log only.
Tells(t) ==
    /\ \/ Moves(t, "reporting", "told")
       \/ TelegramFails /\ Moves(t, "reporting", "gone")
    /\ UNCHANGED vars

\* The observers die with the process.
RestartAll ==
    /\ Restart
    /\ watch' = [t \in Tasks |->
                   IF watch[t] \in {"replying", "starting", "holding", "waiting", "reporting"}
                   THEN "gone" ELSE watch[t]]

QueueCallers ==
    \/ \E s \in Servers, t \in Tasks : Enqueue(s, t, FALSE)
    \/ \E s \in Servers : \E i \in 1..Len(queue[s]) : CancelQueued(s, i)
    \/ \E s \in Servers : CancelRunning(s) \/ ClearQueue(s)
    \/ \E s \in Servers, t \in Tasks : RetryLastFailed(s, t)
    \/ \E i \in 1..Len(disk) : DeleteHistory(i)

LiveNext ==
    \/ (QueueCallers \/ Loop) /\ UNCHANGED watch
    \/ RestartAll
    \/ \E s \in Servers, t \in Tasks : EnqueueObserved(s, t)
    \/ \E t \in Tasks : \/ Replied(t) \/ ReplyRaises(t) \/ LookupFails(t)
                        \/ WatchBegins(t) \/ WatchWakes(t) \/ Tells(t)

LiveSpec == LiveInit /\ [][LiveNext]_liveVars

LiveFairness ==
    /\ \A s \in Servers :
          /\ WF_liveVars((PumpLeaves(s) \/ PumpStarts(s)) /\ UNCHANGED watch)
          /\ WF_liveVars(PumpBooks(s) /\ UNCHANGED watch)
    /\ \A t \in Tasks :
          /\ WF_liveVars((RunnerBegins(t) \/ RunnerRefuses(t)) /\ UNCHANGED watch)
          /\ WF_liveVars((\E o \in Results : ExecutorReturns(t, o)) /\ UNCHANGED watch)
          /\ WF_liveVars(RunnerEnds(t) /\ UNCHANGED watch)
          /\ WF_liveVars(Replied(t) \/ ReplyRaises(t))
          /\ WF_liveVars(LookupFails(t) \/ WatchBegins(t))
          /\ WF_liveVars(WatchWakes(t))
          /\ WF_liveVars(Tells(t))

FairLiveSpec == LiveSpec /\ LiveFairness

-----------------------------------------------------------------------------
Pushed(t) == \E i \in Finals(t) : journal[t][i].push
Quiet(t) == \E i \in Finals(t) : ~journal[t][i].push

\* A waiter that _done_event wakes finds the final event already journalled, and
\* journalled quietly: "the terminal event comes BEFORE the waiters are woken"
\* (runner's finally).  Tasks that clear_queue drops have no final event at all.
WakesAfterTheEvent ==
    [][\A t \in Tasks :
          watch[t] = "waiting" /\ watch'[t] = "reporting" =>
              ~Pushed(t)' /\ (outcome[t] # "cancelled" => Quiet(t)')]_liveVars

\* Nobody waits for ever: a suspended observer is woken or dies with the process.
WatchersEnd ==
    \A t \in Tasks : watch[t] \in {"starting", "holding", "waiting"} ~>
                         watch[t] \in {"told", "gone"}

\* "The result will come in this live message: mark the task so that task_manager
\* does not duplicate it with a separate notification" (watch_task_background).
ToldOnce == \A t \in Tasks : ~(watch[t] = "told" /\ Pushed(t))

\* "Tasks whose result a live observer already reports" (_live_reported): a final
\* event that is kept quiet has an observer that tells, or told, the result.
QuietMeansObserved ==
    \A t \in Tasks :
        stage[t] = "closed" /\ Quiet(t) => watch[t] \notin {"none", "gone"}

=============================================================================
