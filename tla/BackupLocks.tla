----------------------------- MODULE BackupLocks -----------------------------
(***************************************************************************)
(* The cross-process lock protocol of core/backup/locks.py as the backup   *)
(* and restore operations of core/backup/manager.py run it, the            *)
(* maintenance marker kept on disk, the operation records, and the startup *)
(* reconciliation that cleans up after a process that died.                *)
(*                                                                         *)
(* A lock is an OS flock: it dies with its holder.  The marker (intent or  *)
(* active in maintenance_state.json, which every reader treats alike) and  *)
(* the records are files: they outlive it.  Locks are taken in the order   *)
(* owner, admission, maintenance (shared by backups, exclusive for a       *)
(* restore), target; the owner lock is held from before the record exists  *)
(* until after everything else is released.                                *)
(*                                                                         *)
(*   admitting  has its owner lock and record, polls for admission         *)
(*   joining    holds admission, polls for maintenance                     *)
(*   aiming     holds maintenance, polls for its target                    *)
(*   running    holds its permit                                           *)
(*   releasing, unlocking    give back the target, then maintenance        *)
(*   reclearing, clearing    two, then one, calls of _clear_maintenance to *)
(*              go                                                         *)
(*   failing    begin_* raised: the record is yet to be closed             *)
(*   leaving    everything but the owner lock is given back                *)
(***************************************************************************)
EXTENDS Naturals

CONSTANTS
    Backups, Restores,  \* operation ids, never used twice
    Targets, Procs,
    TargetOf, HomeOf,   \* each operation's target and process
    Reconciler,         \* the process that runs reconcile_startup
    None

Ops == Backups \cup Restores

ASSUME KindsAssumption == Backups \cap Restores = {}
ASSUME TargetAssumption == TargetOf \in [Ops -> Targets]
ASSUME HomeAssumption == HomeOf \in [Ops -> Procs]
ASSUME NamesAssumption == None \notin Ops /\ Reconciler \notin Ops \cup {None}

VARIABLES
    pc,         \* where each operation is
    admission,  \* holder of admission.lock
    shared,     \* holders of maintenance.lock, shared
    exclusive,  \* holder of maintenance.lock, exclusive
    target,     \* holder of each targets/*.lock
    marker,     \* the operation that maintenance_state.json names
    record,     \* Operation.status
    phase,      \* where the reconciliation is
    snapshot    \* the active operations it listed and has not judged yet

lockVars == <<pc, admission, shared, exclusive, target, marker, record, phase, snapshot>>

-----------------------------------------------------------------------------
Places == {"idle", "admitting", "joining", "aiming", "running", "releasing",
           "unlocking", "reclearing", "clearing", "failing", "leaving", "done", "dead"}
Live(o) == pc[o] \notin {"idle", "done", "dead"}

RecordStates == {"none", "queued", "running", "ended", "abandoned"}
Active(o) == record[o] \in {"queued", "running"}

LocksTypeOK ==
    /\ pc \in [Ops -> Places]
    /\ admission \in Ops \cup {Reconciler, None}
    /\ shared \subseteq Backups
    /\ exclusive \in Restores \cup {None}
    /\ target \in [Targets -> Ops \cup {None}]
    /\ marker \in Restores \cup {None}
    /\ record \in [Ops -> RecordStates]
    /\ phase \in {"idle", "reading", "listing", "judging"}
    /\ snapshot \subseteq Ops

LocksInit ==
    /\ pc = [o \in Ops |-> "idle"]
    /\ admission = None
    /\ shared = {}
    /\ exclusive = None
    /\ target = [x \in Targets |-> None]
    /\ marker = None
    /\ record = [o \in Ops |-> "none"]
    /\ phase = "idle"
    /\ snapshot = {}

Go(o, from, to) == pc[o] = from /\ pc' = [pc EXCEPT ![o] = to]

reconciliation == <<phase, snapshot>>

-----------------------------------------------------------------------------
(* begin_backup and begin_maintenance.                                     *)

\* acquire_operation_owner of a fresh id, then operations.create.
StartOp(o) ==
    /\ Go(o, "idle", "admitting")
    /\ record' = [record EXCEPT ![o] = "queued"]
    /\ UNCHANGED <<admission, shared, exclusive, target, marker, reconciliation>>

\* Where an operation goes when begin_* raises: a restore's except branch clears
\* the marker, through the permit and then directly.
\* Mutated: it does not.
RaisedUncleared(o) == "failing"
Raised(o) == IF o \in Restores THEN "reclearing" ELSE "failing"

\* A restore writes its intent before it asks for the maintenance lock.
\* Mutated: it writes nothing yet.
IntentUnwritten(o) == marker
Intent(o) == IF o \in Restores THEN o ELSE marker

\* Admission is free: let in, or refused by a marker.
EnterAdmission(o) ==
    /\ admission = None
    /\ marker = None
    /\ Go(o, "admitting", "joining")
    /\ admission' = o
    /\ marker' = Intent(o)
    /\ UNCHANGED <<shared, exclusive, target, record, reconciliation>>

Refused(o) ==
    /\ admission = None
    /\ marker # None
    /\ Go(o, "admitting", Raised(o))
    /\ UNCHANGED <<admission, shared, exclusive, target, marker, record, reconciliation>>

AdmissionTimeout(o) ==
    /\ admission # None
    /\ Go(o, "admitting", Raised(o))
    /\ UNCHANGED <<admission, shared, exclusive, target, marker, record, reconciliation>>

\* Whether flock grants maintenance.lock to o.
Grantable(o) == exclusive = None /\ (o \in Restores => shared = {})

\* Who holds maintenance.lock shared once o, a backup, has joined.
\* Mutated: the handle is not kept in the permit, and closing it unlocks.
JoinedUnkept(o) == shared
Joined(o) == shared \cup {o}

\* The maintenance lock is granted; admission is given back.
TakeMaintenance(o) ==
    /\ Grantable(o)
    /\ Go(o, "joining", "aiming")
    /\ admission' = None
    /\ IF o \in Restores
       THEN exclusive' = o /\ UNCHANGED shared
       ELSE shared' = Joined(o) /\ UNCHANGED exclusive
    /\ UNCHANGED <<target, marker, record, reconciliation>>

MaintenanceTimeout(o) ==
    /\ ~Grantable(o)
    /\ Go(o, "joining", Raised(o))
    /\ admission' = None
    /\ UNCHANGED <<shared, exclusive, target, marker, record, reconciliation>>

\* The target lock is granted; the caller moves its record to RUNNING.
TakeTarget(o) ==
    /\ target[TargetOf[o]] = None
    /\ Go(o, "aiming", "running")
    /\ target' = [target EXCEPT ![TargetOf[o]] = o]
    /\ record' = [record EXCEPT ![o] = "running"]
    /\ UNCHANGED <<admission, shared, exclusive, marker, reconciliation>>

TargetTimeout(o) ==
    /\ target[TargetOf[o]] # None
    /\ Go(o, "aiming", "unlocking")
    /\ UNCHANGED <<admission, shared, exclusive, target, marker, record, reconciliation>>

-----------------------------------------------------------------------------
(* The end of an operation, and Permit.release.                            *)

\* The work is over, well or badly: the record becomes terminal first.
Finish(o) ==
    /\ Go(o, "running", "releasing")
    /\ record' = [record EXCEPT ![o] = "ended"]
    /\ UNCHANGED <<admission, shared, exclusive, target, marker, reconciliation>>

ReleaseTarget(o) ==
    /\ Go(o, "releasing", "unlocking")
    /\ target' = [target EXCEPT ![TargetOf[o]] = None]
    /\ UNCHANGED <<admission, shared, exclusive, marker, record, reconciliation>>

\* The lock is given back.  A target timeout inside begin_maintenance clears
\* through release() and once more in its own except branch.
ReleaseMaintenance(o) ==
    /\ Go(o, "unlocking", IF o \in Backups
                          THEN IF Active(o) THEN "failing" ELSE "leaving"
                          ELSE IF Active(o) THEN "reclearing" ELSE "clearing")
    /\ shared' = shared \ {o}
    /\ exclusive' = IF exclusive = o THEN None ELSE exclusive
    /\ UNCHANGED <<admission, target, marker, record, reconciliation>>

AfterClear(o) ==
    IF pc[o] = "reclearing" THEN "clearing" ELSE IF Active(o) THEN "failing" ELSE "leaving"

\* _clear_maintenance: only the operation's own marker.
ClearedMarker(o) == IF marker = o THEN None ELSE marker

Clear(o) ==
    /\ pc[o] \in {"reclearing", "clearing"}
    /\ admission = None
    /\ marker' = ClearedMarker(o)
    /\ pc' = [pc EXCEPT ![o] = AfterClear(o)]
    /\ UNCHANGED <<admission, shared, exclusive, target, record, reconciliation>>

\* _clear_maintenance gives up after 5 seconds and says nothing.  Such a wait
\* outlasts only a holder that is itself polling for the maintenance lock; the
\* other holders read and write one small file.
ClearGivesUp(o) ==
    /\ pc[o] \in {"reclearing", "clearing"}
    /\ admission \in Ops
    /\ pc' = [pc EXCEPT ![o] = AfterClear(o)]
    /\ UNCHANGED <<admission, shared, exclusive, target, marker, record, reconciliation>>

\* begin_* raised: the caller records the failure.
Fail(o) ==
    /\ Go(o, "failing", "leaving")
    /\ record' = [record EXCEPT ![o] = "ended"]
    /\ UNCHANGED <<admission, shared, exclusive, target, marker, reconciliation>>

\* owner.release(), the last thing an operation does.
ReleaseOwner(o) ==
    /\ Go(o, "leaving", "done")
    /\ UNCHANGED <<admission, shared, exclusive, target, marker, record, reconciliation>>

-----------------------------------------------------------------------------
\* A process dies with its operations; the kernel frees their locks.
ProcessDies(p) ==
    LET gone == {o \in Ops : HomeOf[o] = p /\ Live(o)}
    IN  /\ gone # {}
        /\ pc' = [o \in Ops |-> IF o \in gone THEN "dead" ELSE pc[o]]
        /\ admission' = IF admission \in gone THEN None ELSE admission
        /\ shared' = shared \ gone
        /\ exclusive' = IF exclusive \in gone THEN None ELSE exclusive
        /\ target' = [x \in Targets |-> IF target[x] \in gone THEN None ELSE target[x]]
        /\ UNCHANGED <<marker, record, reconciliation>>

-----------------------------------------------------------------------------
(* reconcile_startup.  Between its admission lock and the unlock it tries  *)
(* the maintenance and owner locks without waiting; whoever else wants     *)
(* maintenance needs admission first, so deciding and clearing is one step.*)

ReconcileEnters ==
    /\ phase = "idle"
    /\ admission = None
    /\ admission' = Reconciler
    /\ phase' = "reading"
    /\ UNCHANGED <<pc, shared, exclusive, target, marker, record, snapshot>>

\* The marker may go only if nobody holds maintenance or the owner lock.
Stale(o) == exclusive = None /\ shared = {} /\ ~Live(o)

ReconcileMarker ==
    /\ phase = "reading"
    /\ marker' = IF marker # None /\ Stale(marker) THEN None ELSE marker
    /\ admission' = None
    /\ phase' = "listing"
    /\ UNCHANGED <<pc, shared, exclusive, target, record, snapshot>>

\* operations.list_active()
\* Mutated: queued operations are not listed.
ListedRunning == {o \in Ops : record[o] = "running"}
Listed == {o \in Ops : Active(o)}

ReconcileLists ==
    /\ phase = "listing"
    /\ snapshot' = Listed
    /\ phase' = "judging"
    /\ UNCHANGED <<pc, admission, shared, exclusive, target, marker, record>>

\* One listed operation: left alone if its owner lives, else mark_abandoned,
\* which re-reads the status.
\* Mutated: the status listed earlier is trusted.
JudgedBySnapshot(o) == IF Live(o) THEN record[o] ELSE "abandoned"
Judged(o) == IF ~Live(o) /\ Active(o) THEN "abandoned" ELSE record[o]

ReconcileJudges(o) ==
    /\ phase = "judging"
    /\ o \in snapshot
    /\ record' = [record EXCEPT ![o] = Judged(o)]
    /\ snapshot' = snapshot \ {o}
    /\ UNCHANGED <<pc, admission, shared, exclusive, target, marker, phase>>

ReconcileEnds ==
    /\ phase = "judging"
    /\ snapshot = {}
    /\ phase' = "idle"
    /\ UNCHANGED <<pc, admission, shared, exclusive, target, marker, record, snapshot>>

\* The starting process dies in the middle of it.
ReconcileDies ==
    /\ phase # "idle"
    /\ admission' = IF admission = Reconciler THEN None ELSE admission
    /\ phase' = "idle"
    /\ snapshot' = {}
    /\ UNCHANGED <<pc, shared, exclusive, target, marker, record>>

-----------------------------------------------------------------------------
Begins(o) ==
    \/ EnterAdmission(o) \/ Refused(o) \/ AdmissionTimeout(o)
    \/ TakeMaintenance(o) \/ MaintenanceTimeout(o)
    \/ TakeTarget(o) \/ TargetTimeout(o)

Ends(o) ==
    \/ Finish(o) \/ ReleaseTarget(o) \/ ReleaseMaintenance(o)
    \/ Clear(o) \/ ClearGivesUp(o) \/ Fail(o) \/ ReleaseOwner(o)

Reconciles ==
    \/ ReconcileEnters \/ ReconcileMarker \/ ReconcileLists \/ ReconcileEnds
    \/ \E o \in Ops : ReconcileJudges(o)

LocksNext ==
    \/ \E o \in Ops : StartOp(o) \/ Begins(o) \/ Ends(o)
    \/ \E p \in Procs : ProcessDies(p)
    \/ Reconciles
    \/ ReconcileDies

LocksSpec == LocksInit /\ [][LocksNext]_lockVars

-----------------------------------------------------------------------------
(* What must hold.                                                         *)

\* A restore runs alone: no backup and no other restore is at work between its
\* permit and its release, and two backups at work have different targets.
Exclusion ==
    \A o, q \in Ops :
        o # q /\ pc[o] = "running" /\ pc[q] = "running" =>
            o \in Backups /\ q \in Backups /\ TargetOf[o] # TargetOf[q]

\* The marker on disk names whoever holds maintenance exclusively, so that a
\* backup that starts meanwhile is refused at once instead of waiting.
MarkerNamesHolder == exclusive # None => marker = exclusive

\* What the marker and the order of the unlocks are for: a backup let past
\* admission finds the maintenance lock free of a restore, and a restore that
\* has maintenance finds its target free.  Nobody holds admission for half a
\* minute because of a restore.
NeverWaits ==
    /\ \A b \in Backups : pc[b] = "joining" => exclusive = None
    /\ \A r \in Restores : pc[r] = "aiming" => target[TargetOf[r]] = None

\* An operation that came to its end leaves no marker behind, although each of
\* its attempts to clear may give up: only a death can block later backups.
NoMarkerLeft == marker # None => pc[marker] # "done"

\* "Clear stale state only without the Maintenance and Operation owner locks"
\* (reconcile_maintenance_state): the marker of a live restore is removed by
\* nobody but the restore itself.
LiveMarkerStays ==
    [][\A r \in Restores :
          marker = r /\ Live(r) /\ pc'[r] = pc[r] => marker' = r]_lockVars

\* Reconciliation never closes the record of an operation that is still alive or
\* that ended by itself, however late it gets to an operation it listed.
OnlyDeadAbandoned == \A o \in Ops : record[o] = "abandoned" => pc[o] = "dead"

\* What a death leaves on disk is found: the marker goes, the record is closed.
DeathIsNoticed ==
    \A o \in Ops : pc[o] = "dead" ~> marker # o /\ ~Active(o)

=============================================================================
