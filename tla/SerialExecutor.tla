--------------------------- MODULE SerialExecutor ---------------------------
(***************************************************************************)
(* What the task queue of core/task_manager.py promises to its callers,    *)
(* without its coroutines: every server has one line of accepted tasks and *)
(* at most one busy task; a task is begun from the head of the line, ends  *)
(* once, and an idle server with a non-empty line always begins the next   *)
(* one.  TaskQueue implements this module (its refinement is a run).       *)
(***************************************************************************)
EXTENDS Naturals, Sequences, SequencesExt

CONSTANTS Servers, Tasks, None

VARIABLES line, busy, ended

vars == <<line, busy, ended>>

Init ==
    /\ line = [s \in Servers |-> <<>>]
    /\ busy = [s \in Servers |-> None]
    /\ ended = {}

Waiting == UNION {Range(line[s]) : s \in Servers}

Known(t) ==
    \/ t \in ended
    \/ t \in Waiting
    \/ \E s \in Servers : busy[s] = t

\* An ordinary task joins the end of the line, a retry goes to its head.
Accept(s) ==
    /\ \E t \in Tasks :
          /\ ~Known(t)
          /\ line' \in {[line EXCEPT ![s] = Append(@, t)],
                        [line EXCEPT ![s] = <<t>> \o @]}
    /\ UNCHANGED <<busy, ended>>

Begin(s) ==
    /\ busy[s] = None
    /\ line[s] # <<>>
    /\ busy' = [busy EXCEPT ![s] = Head(line[s])]
    /\ line' = [line EXCEPT ![s] = Tail(@)]
    /\ UNCHANGED ended

Finish(s) ==
    /\ busy[s] # None
    /\ ended' = ended \cup {busy[s]}
    /\ busy' = [busy EXCEPT ![s] = None]
    /\ UNCHANGED line

\* The user takes one task out of the line, or all of them.
Withdraw(s) ==
    /\ \E i \in 1..Len(line[s]) :
          /\ line' = [line EXCEPT ![s] = RemoveAt(@, i)]
          /\ ended' = ended \cup {line[s][i]}
    /\ UNCHANGED busy

WithdrawAll(s) ==
    /\ line' = [line EXCEPT ![s] = <<>>]
    /\ ended' = ended \cup Range(line[s])
    /\ UNCHANGED busy

\* The process stops: what it held only in memory is over.
Stop ==
    /\ ended' = ended \cup Waiting \cup {busy[s] : s \in {u \in Servers : busy[u] # None}}
    /\ line' = [s \in Servers |-> <<>>]
    /\ busy' = [s \in Servers |-> None]

Next ==
    \/ \E s \in Servers : Accept(s) \/ Begin(s) \/ Finish(s) \/ Withdraw(s) \/ WithdrawAll(s)
    \/ Stop

\* An idle server with work begins it, and a task that began ends.
Spec ==
    /\ Init
    /\ [][Next]_vars
    /\ \A s \in Servers : WF_vars(Begin(s)) /\ WF_vars(Finish(s))

=============================================================================
