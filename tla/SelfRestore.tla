----------------------------- MODULE SelfRestore -----------------------------
(***************************************************************************)
(* The restore of Bot4VPS by Bot4VPS: core/backup/self_restore.py and its  *)
(* runner, over the lock protocol of BackupLocks.  The operation Own is    *)
(* begun by the panel like any restore; its work is done by a runner       *)
(* outside the service, which stops the service, and with it the process   *)
(* that holds every lock of Own, rewrites the installation and starts it   *)
(* again.  From then on only files speak for the operation: the            *)
(* maintenance marker keeps backups out, and the runner's state.json is    *)
(* what the next process judges by, either at once or, if the runner is    *)
(* still at work, as an adopter that holds the owner lock and polls.       *)
(*                                                                         *)
(* The record of Own is open until somebody finalizes it.  pc[Own] is      *)
(* "running" for the caller that polls and "leaving" for the adopter: all  *)
(* it holds is the owner lock.                                             *)
(***************************************************************************)
EXTENDS BackupLocks

CONSTANTS
    Own,    \* the restore of the installation
    Adopts  \* whether the unit is the web one, which adopts a live runner

ASSUME OwnAssumption == Own \in Restores /\ Adopts \in BOOLEAN

Panel == HomeOf[Own]

VARIABLES
    runner,    \* where the runner is, or how far its launch has got
    report,    \* status in state.json
    stopped,   \* state.json says stop.ok
    failure,   \* the runner has met an error after the stop
    tree,      \* the installation
    cancelled, \* cancellation.requested
    gate,      \* mutation_started, and then the go file
    verdict,   \* what the record says of the outcome
    service,   \* the unit: stopped, at a step of its startup, or up
    early      \* somebody left or judged Own before the service was stopped

own == <<runner, report, stopped, failure, tree, cancelled, gate, verdict, service, early>>
allVars == <<lockVars, own>>

\* What the runner has done.
work == <<report, stopped, failure, tree>>

SelfTypeOK ==
    /\ runner \in {"none", "announced", "launching", "gate", "stopping", "downed",
                   "changing", "starting", "health", "gone"}
    /\ report \in {"none", "running", "failed", "succeeded"}
    /\ stopped \in BOOLEAN
    /\ failure \in BOOLEAN
    /\ tree \in {"old", "mixed", "new"}
    /\ cancelled \in BOOLEAN
    /\ gate \in {"closed", "crossed", "open"}
    /\ verdict \in {"none", "unmodified", "partial", "completed"}
    /\ service \in {"down", "closing", "adopting", "scheduling", "up"}
    /\ early \in BOOLEAN

SelfInit ==
    /\ LocksInit
    /\ runner = "none"
    /\ report = "none"
    /\ stopped = FALSE
    /\ failure = FALSE
    /\ tree = "old"
    /\ cancelled = FALSE
    /\ gate = "closed"
    /\ verdict = "none"
    /\ service = "up"
    /\ early = FALSE

-----------------------------------------------------------------------------
(* The caller: apply_self_restore.                                         *)

\* The metadata by which every later process knows a self-restore.
Announce ==
    /\ pc[Own] = "running"
    /\ runner = "none"
    /\ runner' = "announced"
    /\ UNCHANGED <<lockVars, work, cancelled, gate, verdict, service, early>>

Launch ==
    /\ pc[Own] = "running"
    /\ runner = "announced"
    /\ runner' = "launching"
    /\ UNCHANGED <<lockVars, work, cancelled, gate, verdict, service, early>>

\* request_cancel, from any process, as long as the boundary is not crossed.
RequestCancel ==
    /\ Active(Own)
    /\ gate = "closed"
    /\ cancelled' = TRUE
    /\ UNCHANGED <<lockVars, runner, work, gate, verdict, service, early>>

\* mark_restore_mutation_started: refused once a cancellation is requested.
\* Mutated: a cancellation is not looked at.
CrossableAnyway == gate = "closed"
Crossable == gate = "closed" /\ ~cancelled

CrossBoundary ==
    /\ pc[Own] = "running"
    /\ Active(Own)
    /\ runner \notin {"none", "announced"}
    /\ Crossable
    /\ gate' = "crossed"
    /\ UNCHANGED <<lockVars, runner, work, cancelled, verdict, service, early>>

OpenGate ==
    /\ pc[Own] = "running"
    /\ gate = "crossed"
    /\ gate' = "open"
    /\ UNCHANGED <<lockVars, runner, work, cancelled, verdict, service, early>>

\* restore() raises before the runner is let go: a failed preparation or
\* launch, a cancellation, a boundary or a go file that cannot be written, a
\* record somebody else has closed.
GiveUp ==
    /\ gate = "open" => ~Active(Own)
    /\ Go(Own, "running", "releasing")
    /\ record' = [record EXCEPT ![Own] = IF Active(Own) THEN "ended" ELSE @]
    /\ verdict' = IF ~Active(Own) THEN verdict
                  ELSE IF gate = "crossed" THEN "partial" ELSE "unmodified"
    /\ UNCHANGED <<admission, shared, exclusive, target, marker, reconciliation>>
    /\ UNCHANGED <<runner, work, cancelled, gate, service, early>>

-----------------------------------------------------------------------------
(* finalize_self_restore.                                                  *)

\* The outcomes that state.json, read now, lets the record have.  A report of
\* success is verified once more, and may fail that.
Outcomes ==
    IF report = "succeeded" THEN {"completed", "partial"}
    ELSE IF stopped THEN {"partial"} ELSE {"unmodified"}

\* Heartbeats of a live runner are never an hour apart.
Silent == runner = "gone"

Closable == report = "running" => Silent

\* The service is not stopped yet and the runner, let go, may still do it.
Undecided == runner \in {"launching", "gate", "stopping"} /\ gate \in {"crossed", "open"}

Finalized ==
    /\ Active(Own)
    /\ verdict' \in Outcomes
    /\ record' = [record EXCEPT ![Own] = "ended"]
    /\ early' = (early \/ Undecided)

\* poll_runner_state ends on a terminal report or a stale one, never on none.
CallerFinalizes ==
    /\ gate = "open"
    /\ report # "none"
    /\ Closable
    /\ Go(Own, "running", "releasing")
    /\ IF Active(Own) THEN Finalized ELSE UNCHANGED <<verdict, record, early>>
    /\ UNCHANGED <<admission, shared, exclusive, target, marker, reconciliation>>
    /\ UNCHANGED <<runner, work, cancelled, gate, service>>

AdopterFinalizes ==
    /\ pc[Own] = "leaving"
    /\ report # "none"
    /\ Closable
    /\ Finalized
    /\ UNCHANGED <<pc, admission, shared, exclusive, target, marker, reconciliation>>
    /\ UNCHANGED <<runner, work, cancelled, gate, service>>

\* The console offers to close whatever self-restore is open.
ConsoleFinalizes ==
    /\ runner # "none"
    /\ Closable
    /\ Finalized
    /\ UNCHANGED <<pc, admission, shared, exclusive, target, marker, reconciliation>>
    /\ UNCHANGED <<runner, work, cancelled, gate, service>>

-----------------------------------------------------------------------------
(* The runner.                                                             *)

Runs(from, to) == runner = from /\ runner' = to

RunnerEnters ==
    /\ Runs("launching", "gate")
    /\ report' = "running"
    /\ UNCHANGED <<lockVars, stopped, failure, tree, cancelled, gate, verdict, service, early>>

RunnerPasses ==
    /\ gate = "open"
    /\ Runs("gate", "stopping")
    /\ UNCHANGED <<lockVars, work, cancelled, gate, verdict, service, early>>

\* A minute without the go file, or systemctl stop says no.
RunnerRefuses ==
    /\ \/ Runs("gate", "gone")
       \/ Runs("stopping", "gone")
    /\ report' = "failed"
    /\ UNCHANGED <<lockVars, stopped, failure, tree, cancelled, gate, verdict, service, early>>

\* The panel's process ends: its operations die, the kernel frees their locks.
PanelEnds ==
    LET gone == {o \in Ops : HomeOf[o] = Panel /\ Live(o)}
    IN  /\ pc' = [o \in Ops |-> IF o \in gone THEN "dead" ELSE pc[o]]
        /\ admission' = IF admission \in gone \cup {Reconciler} THEN None ELSE admission
        /\ shared' = shared \ gone
        /\ exclusive' = IF exclusive \in gone THEN None ELSE exclusive
        /\ target' = [x \in Targets |-> IF target[x] \in gone THEN None ELSE target[x]]
        /\ phase' = "idle"
        /\ snapshot' = {}
        /\ UNCHANGED <<marker, record>>

RunnerStops ==
    /\ Runs("stopping", "downed")
    /\ PanelEnds
    /\ service' = "down"
    /\ UNCHANGED <<work, cancelled, gate, verdict, early>>

\* The stop is reported; then sidecars, tar, daemon-reload and pip.
RunnerReportsStop ==
    /\ Runs("downed", "changing")
    /\ stopped' = TRUE
    /\ UNCHANGED <<lockVars, report, failure, tree, cancelled, gate, verdict, service, early>>

RunnerExtracts ==
    /\ runner = "changing"
    /\ tree = "old"
    /\ tree' = "mixed"
    /\ UNCHANGED <<lockVars, runner, report, stopped, failure>>
    /\ UNCHANGED <<cancelled, gate, verdict, service, early>>

\* Sidecars that stay keep tar from being run; tar may stop half-way;
\* daemon-reload and pip come after it and may fail on a whole tree.
RunnerChanged ==
    /\ Runs("changing", "starting")
    /\ \/ tree = "old" /\ failure' = TRUE /\ UNCHANGED tree
       \/ tree = "mixed" /\ failure' = TRUE /\ UNCHANGED tree
       \/ tree = "mixed" /\ tree' = "new" /\ failure' \in BOOLEAN
    /\ UNCHANGED <<lockVars, report, stopped, cancelled, gate, verdict, service, early>>

\* systemctl start, whatever failed before it.
RunnerStarts ==
    /\ Runs("starting", "health")
    /\ \/ service' = "closing" /\ UNCHANGED failure
       \/ service' = "down" /\ failure' = TRUE
    /\ UNCHANGED <<lockVars, report, stopped, tree, cancelled, gate, verdict, early>>

\* What the health check asks of the service.  The web unit answers once its
\* startup is over; the other one is active as soon as it runs.
Healthy == IF Adopts THEN service = "up" ELSE service # "down"

RunnerSucceeds ==
    /\ ~failure
    /\ Healthy
    /\ Runs("health", "gone")
    /\ report' = "succeeded"
    /\ UNCHANGED <<lockVars, stopped, failure, tree, cancelled, gate, verdict, service, early>>

RunnerFails ==
    /\ Runs("health", "gone")
    /\ report' = "failed"
    /\ UNCHANGED <<lockVars, stopped, failure, tree, cancelled, gate, verdict, service, early>>

\* Killed, or by an exception nobody catches: a systemctl that takes too long.
RunnerDies ==
    /\ runner \notin {"none", "announced", "gone"}
    /\ runner' = "gone"
    /\ UNCHANGED <<lockVars, work, cancelled, gate, verdict, service, early>>

-----------------------------------------------------------------------------
(* The service and its startup.                                            *)

\* It dies by itself and systemd starts it again.
PanelDies ==
    /\ service # "down"
    /\ PanelEnds
    /\ service' = "closing"
    /\ early' = (early \/ (Undecided /\ gate = "open"))
    /\ UNCHANGED <<runner, work, cancelled, gate, verdict>>

\* After a runner that did not get to start it somebody has to.
ServiceStarted ==
    /\ service = "down"
    /\ runner = "gone"
    /\ service' = "closing"
    /\ UNCHANGED <<lockVars, runner, work, cancelled, gate, verdict, early>>

\* reconcile_maintenance_state, first in reconcile_self_restores and then in
\* reconcile_startup.
StartupMarker ==
    /\ service \in {"closing", "scheduling"}
    /\ ReconcileEnters \/ ReconcileMarker
    /\ UNCHANGED own

\* reconcile_self_restores: an open self-restore that nobody is at work on.
StartupCloses ==
    /\ service = "closing"
    /\ phase = "listing"
    /\ phase' = "idle"
    /\ service' = "adopting"
    /\ IF runner # "none" /\ Active(Own) /\ Closable
       THEN Finalized
       ELSE UNCHANGED <<verdict, record, early>>
    /\ UNCHANGED <<pc, admission, shared, exclusive, target, marker, snapshot>>
    /\ UNCHANGED <<runner, work, cancelled, gate>>

\* adopt_live_self_restores: the owner lock of an open operation whose runner
\* reports that it runs.
Adoptable == Adopts /\ Active(Own) /\ ~Live(Own) /\ report = "running" /\ ~Silent

StartupAdopts ==
    /\ service = "adopting"
    /\ service' = "scheduling"
    /\ pc' = [pc EXCEPT ![Own] = IF Adoptable THEN "leaving" ELSE @]
    /\ UNCHANGED <<admission, shared, exclusive, target, marker, record, reconciliation>>
    /\ UNCHANGED <<runner, work, cancelled, gate, verdict, early>>

\* The scheduler's reconcile_startup.
StartupReconciles ==
    /\ service = "scheduling"
    /\ \/ ReconcileLists
       \/ \E o \in Ops : ReconcileJudges(o)
    /\ UNCHANGED own

StartupEnds ==
    /\ service = "scheduling"
    /\ ReconcileEnds
    /\ service' = "up"
    /\ UNCHANGED <<runner, work, cancelled, gate, verdict, early>>

-----------------------------------------------------------------------------
\* The lock protocol as BackupLocks has it, the panel's operations only while
\* the panel is up; Own ends as above.
Starts(o) == (HomeOf[o] = Panel => service = "up") /\ StartOp(o)

Protocol(o) ==
    \/ Begins(o)
    \/ o # Own /\ Finish(o)
    \/ ReleaseTarget(o) \/ ReleaseMaintenance(o)
    \/ Clear(o) \/ ClearGivesUp(o) \/ Fail(o)
    \/ (o = Own => ~Active(o)) /\ ReleaseOwner(o)

Calls ==
    \/ Announce \/ Launch \/ CrossBoundary \/ OpenGate \/ GiveUp
    \/ CallerFinalizes \/ AdopterFinalizes

RunnerStep ==
    \/ RunnerEnters \/ RunnerPasses \/ RunnerRefuses \/ RunnerStops
    \/ RunnerReportsStop \/ RunnerExtracts \/ RunnerChanged \/ RunnerStarts
    \/ RunnerSucceeds \/ RunnerFails

Startup ==
    \/ StartupMarker \/ StartupCloses \/ StartupAdopts
    \/ StartupReconciles \/ StartupEnds

SelfNext ==
    \/ \E o \in Ops : (Starts(o) \/ Protocol(o)) /\ UNCHANGED own
    \/ \E p \in Procs \ {Panel} : ProcessDies(p) /\ UNCHANGED own
    \/ Calls
    \/ RequestCancel
    \/ ConsoleFinalizes
    \/ RunnerStep
    \/ RunnerDies
    \/ PanelDies
    \/ ServiceStarted
    \/ Startup

SelfSpec == SelfInit /\ [][SelfNext]_allVars

\* Every poll and every step of the runner ends by a limit of its own, and a
\* start that is not killed half-way comes to its end.  That a service left
\* down is started, and one that is up is restarted some day, is asked of the
\* administrator: only a start looks for what a death has left.
SelfFairness ==
    /\ \A o \in Ops : WF_allVars(Protocol(o) /\ UNCHANGED own)
    /\ WF_allVars(Calls)
    /\ WF_allVars(RunnerStep)
    /\ WF_allVars(Startup)
    /\ WF_allVars(ServiceStarted)
    /\ WF_allVars(service = "up" /\ PanelDies)
    /\ <>[][PanelDies => service = "up"]_allVars

FairSelfSpec == SelfSpec /\ SelfFairness

-----------------------------------------------------------------------------
(* What must hold.                                                         *)

\* While the runner rewrites the installation nothing else is at work, although
\* the process that took the locks for it is dead and only the marker is left.
\* Unless that process died on its own in the moment between letting the runner
\* go and being stopped by it: its successor clears the marker.
TreeChangesAlone ==
    runner \in {"downed", "changing"} /\ ~early =>
        \A o \in Ops : pc[o] # "running"

\* "target_state: unmodified" is said of an installation nobody has touched.  Not
\* so: before the runner's first report the console, or the next start, closes the
\* operation under the hands of a caller who goes on to let the runner go.
UnmodifiedIsUntouched == verdict = "unmodified" => tree = "old"

\* Whoever closes the operation says what happened: completed only over the whole
\* archive, unmodified only over what was there, a cancellation only where the
\* runner is never let go, and a runner that reports success is heard, not
\* abandoned.
VerdictIsTrue ==
    /\ verdict = "completed" => tree = "new"
    /\ verdict = "unmodified" /\ ~early => tree = "old"
    /\ cancelled => tree = "old"
    /\ report = "succeeded" /\ ~Active(Own) /\ ~early => verdict \in {"completed", "partial"}

=============================================================================
