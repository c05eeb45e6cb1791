---------------------------- MODULE BackupProofs ----------------------------
(***************************************************************************)
(* What is proved of backups.                                              *)
(*                                                                         *)
(* Of the lock protocol, for any operations, targets and processes: of     *)
(* BackupLocks by itself, and of SelfRestore, where the invariant of the   *)
(* protocol survives what a self-restore adds to it, the installation is   *)
(* rewritten with nothing else at work, and the verdict on it is true.     *)
(*                                                                         *)
(* Of the daily backups of a target, for any number of days, backups,      *)
(* crashes and requests: the four invariants of BackupStore, from one      *)
(* inductive invariant.                                                    *)
(***************************************************************************)
EXTENDS SelfRestore, BackupStore, FiniteSetTheorems, TLAPS

Holding == {"aiming", "running", "releasing", "unlocking"}

-----------------------------------------------------------------------------
(* Type correctness.                                                       *)

LEMMA InitType == LocksInit => LocksTypeOK
BY DEF LocksInit, LocksTypeOK, Places, RecordStates

LEMMA BeginsType == ASSUME LocksTypeOK, NEW o \in Ops, StartOp(o) \/ Begins(o) PROVE LocksTypeOK'
<1> USE DEF LocksTypeOK, Places, RecordStates, Go, Raised, reconciliation, Ops
<1>1. CASE StartOp(o) BY <1>1 DEF StartOp
<1>2. CASE EnterAdmission(o) BY <1>2 DEF EnterAdmission, Intent
<1>3. CASE Refused(o) BY <1>3 DEF Refused
<1>4. CASE AdmissionTimeout(o) BY <1>4 DEF AdmissionTimeout
<1>5. CASE TakeMaintenance(o) BY <1>5 DEF TakeMaintenance, Joined
<1>6. CASE MaintenanceTimeout(o) BY <1>6 DEF MaintenanceTimeout
<1>7. CASE TakeTarget(o) BY <1>7, TargetAssumption DEF TakeTarget
<1>8. CASE TargetTimeout(o) BY <1>8 DEF TargetTimeout
<1> QED BY <1>1, <1>2, <1>3, <1>4, <1>5, <1>6, <1>7, <1>8 DEF Begins

LEMMA EndsType == ASSUME LocksTypeOK, NEW o \in Ops, Ends(o) PROVE LocksTypeOK'
<1> USE DEF LocksTypeOK, Places, RecordStates, Go, reconciliation, Ops
<1>1. CASE Finish(o) BY <1>1 DEF Finish
<1>2. CASE ReleaseTarget(o) BY <1>2, TargetAssumption DEF ReleaseTarget
<1>3. CASE ReleaseMaintenance(o) BY <1>3 DEF ReleaseMaintenance
<1>4. CASE Clear(o) BY <1>4 DEF Clear, ClearedMarker, AfterClear
<1>5. CASE ClearGivesUp(o) BY <1>5 DEF ClearGivesUp, AfterClear
<1>6. CASE Fail(o) BY <1>6 DEF Fail
<1>7. CASE ReleaseOwner(o) BY <1>7 DEF ReleaseOwner
<1> QED BY <1>1, <1>2, <1>3, <1>4, <1>5, <1>6, <1>7 DEF Ends

LEMMA CrashType == ASSUME LocksTypeOK, NEW p \in Procs, ProcessDies(p) PROVE LocksTypeOK'
BY DEF ProcessDies, LocksTypeOK, Places, reconciliation

LEMMA ReconcilesType == ASSUME LocksTypeOK, Reconciles \/ ReconcileDies PROVE LocksTypeOK'
<1> USE DEF LocksTypeOK
<1>1. CASE ReconcileEnters BY <1>1 DEF ReconcileEnters
<1>2. CASE ReconcileMarker BY <1>2 DEF ReconcileMarker
<1>3. CASE ReconcileLists BY <1>3 DEF ReconcileLists, Listed
<1>4. ASSUME NEW o \in Ops, ReconcileJudges(o) PROVE LocksTypeOK'
      BY <1>4 DEF ReconcileJudges, Judged, RecordStates
<1>5. CASE ReconcileEnds BY <1>5 DEF ReconcileEnds
<1>6. CASE ReconcileDies BY <1>6 DEF ReconcileDies
<1> QED BY <1>1, <1>2, <1>3, <1>4, <1>5, <1>6 DEF Reconciles

LEMMA NextType == LocksTypeOK /\ [LocksNext]_lockVars => LocksTypeOK'
<1>1. CASE UNCHANGED lockVars BY <1>1 DEF lockVars, LocksTypeOK
<1>2. CASE LocksNext BY <1>2, BeginsType, EndsType, CrashType, ReconcilesType DEF LocksNext
<1> QED BY <1>1, <1>2

\* Every variable keeps its type in every behaviour of the lock protocol.
THEOREM LocksTypeCorrect == LocksSpec => []LocksTypeOK
<1> QED BY InitType, NextType, PTL DEF LocksSpec

-----------------------------------------------------------------------------
(* The inductive invariant: which place holds which lock, and whose name   *)
(* the marker bears.                                                       *)

\* Admission is held exactly by who is joining and by a reading reconciliation.
AdmissionInv ==
    /\ \A o \in Ops : pc[o] = "joining" <=> admission = o
    /\ phase = "reading" <=> admission = Reconciler

\* Maintenance is held from its grant to its release, and by one side only.
MaintenanceInv ==
    /\ \A b \in Backups : b \in shared <=> pc[b] \in Holding
    /\ \A r \in Restores : exclusive = r <=> pc[r] \in Holding
    /\ exclusive # None => shared = {}

\* A target is held by the operation at work on it.
TargetInv ==
    /\ \A o \in Ops : pc[o] \in {"running", "releasing"} => target[TargetOf[o]] = o
    /\ \A x \in Targets, o \in Ops :
          target[x] = o => x = TargetOf[o] /\ pc[o] \in {"running", "releasing"}

\* The marker is a restore's own from its admission to the release of its
\* maintenance lock; a backup is let in only without one.
MarkerInv ==
    /\ \A r \in Restores : pc[r] = "joining" \/ pc[r] \in Holding => marker = r
    /\ \A b \in Backups : pc[b] = "joining" => marker = None
    /\ marker # None =>
          pc[marker] \in Holding \cup {"joining", "reclearing", "clearing", "dead"}

ProtocolInv == LocksTypeOK /\ AdmissionInv /\ MaintenanceInv /\ TargetInv /\ MarkerInv

LEMMA ProtocolInitInv == LocksInit => ProtocolInv
<1> SUFFICES ASSUME LocksInit PROVE ProtocolInv
    OBVIOUS
<1>1. LocksTypeOK BY InitType
<1>2. AdmissionInv BY NamesAssumption DEF LocksInit, AdmissionInv
<1>3. MaintenanceInv BY NamesAssumption DEF LocksInit, MaintenanceInv, Ops, Holding
<1>4. TargetInv BY NamesAssumption DEF LocksInit, TargetInv
<1>5. MarkerInv BY DEF LocksInit, MarkerInv, Ops, Holding
<1> QED BY <1>1, <1>2, <1>3, <1>4, <1>5 DEF ProtocolInv

\* No step of one operation disturbs the locks: one case per action.
LEMMA BeginsInv == ASSUME ProtocolInv, NEW o \in Ops, StartOp(o) \/ Begins(o) PROVE ProtocolInv'
<1>0. LocksTypeOK' BY BeginsType DEF ProtocolInv
<1> USE NamesAssumption, KindsAssumption DEF ProtocolInv, LocksTypeOK, Ops, Go, Raised, Holding,
        reconciliation
<1>1. CASE StartOp(o)
      BY <1>0, <1>1 DEF StartOp, AdmissionInv, MaintenanceInv, TargetInv, MarkerInv
<1>2. CASE EnterAdmission(o)
  <2>1. AdmissionInv' BY <1>2 DEF EnterAdmission, AdmissionInv
  <2>2. MaintenanceInv' BY <1>2 DEF EnterAdmission, MaintenanceInv
  <2>3. TargetInv' BY <1>2 DEF EnterAdmission, TargetInv
  <2>4. MarkerInv' BY <1>2 DEF EnterAdmission, Intent, MarkerInv, AdmissionInv
  <2> QED BY <1>0, <2>1, <2>2, <2>3, <2>4
<1>3. CASE Refused(o)
      BY <1>0, <1>3 DEF Refused, AdmissionInv, MaintenanceInv, TargetInv, MarkerInv
<1>4. CASE AdmissionTimeout(o)
      BY <1>0, <1>4 DEF AdmissionTimeout, AdmissionInv, MaintenanceInv, TargetInv, MarkerInv
<1>5. CASE TakeMaintenance(o)
  <2>1. AdmissionInv' BY <1>5 DEF TakeMaintenance, AdmissionInv
  <2>2. MaintenanceInv' BY <1>5 DEF TakeMaintenance, Grantable, Joined, MaintenanceInv
  <2>3. TargetInv' BY <1>5 DEF TakeMaintenance, TargetInv
  <2>4. MarkerInv' BY <1>5 DEF TakeMaintenance, MarkerInv
  <2> QED BY <1>0, <2>1, <2>2, <2>3, <2>4
<1>6. CASE MaintenanceTimeout(o)
  <2>1. AdmissionInv' BY <1>6 DEF MaintenanceTimeout, AdmissionInv
  <2>2. MaintenanceInv' BY <1>6 DEF MaintenanceTimeout, MaintenanceInv
  <2>3. TargetInv' BY <1>6 DEF MaintenanceTimeout, TargetInv
  <2>4. MarkerInv' BY <1>6 DEF MaintenanceTimeout, MarkerInv
  <2> QED BY <1>0, <2>1, <2>2, <2>3, <2>4
<1>7. CASE TakeTarget(o)
  <2>1. AdmissionInv' BY <1>7 DEF TakeTarget, AdmissionInv
  <2>2. MaintenanceInv' BY <1>7 DEF TakeTarget, MaintenanceInv
  <2>3. TargetInv' BY <1>7, TargetAssumption DEF TakeTarget, TargetInv
  <2>4. MarkerInv' BY <1>7 DEF TakeTarget, MarkerInv
  <2> QED BY <1>0, <2>1, <2>2, <2>3, <2>4
<1>8. CASE TargetTimeout(o)
      BY <1>0, <1>8 DEF TargetTimeout, AdmissionInv, MaintenanceInv, TargetInv, MarkerInv
<1> QED BY <1>1, <1>2, <1>3, <1>4, <1>5, <1>6, <1>7, <1>8 DEF Begins

LEMMA EndsInv == ASSUME ProtocolInv, NEW o \in Ops, Ends(o) PROVE ProtocolInv'
<1>0. LocksTypeOK' BY EndsType DEF ProtocolInv
<1> USE NamesAssumption, KindsAssumption DEF ProtocolInv, LocksTypeOK, Ops, Go, Holding, reconciliation
<1>1. CASE Finish(o)
      BY <1>0, <1>1 DEF Finish, AdmissionInv, MaintenanceInv, TargetInv, MarkerInv
<1>2. CASE ReleaseTarget(o)
  <2>1. AdmissionInv' BY <1>2 DEF ReleaseTarget, AdmissionInv
  <2>2. MaintenanceInv' BY <1>2 DEF ReleaseTarget, MaintenanceInv
  <2>3. TargetInv' BY <1>2, TargetAssumption DEF ReleaseTarget, TargetInv
  <2>4. MarkerInv' BY <1>2 DEF ReleaseTarget, MarkerInv
  <2> QED BY <1>0, <2>1, <2>2, <2>3, <2>4
<1>3. CASE ReleaseMaintenance(o)
  <2>1. AdmissionInv' BY <1>3 DEF ReleaseMaintenance, AdmissionInv
  <2>2. MaintenanceInv' BY <1>3 DEF ReleaseMaintenance, MaintenanceInv
  <2>3. TargetInv' BY <1>3 DEF ReleaseMaintenance, TargetInv
  <2>4. MarkerInv' BY <1>3 DEF ReleaseMaintenance, MarkerInv
  <2> QED BY <1>0, <2>1, <2>2, <2>3, <2>4
<1>4. CASE Clear(o)
  <2>1. AdmissionInv' BY <1>4 DEF Clear, AfterClear, AdmissionInv
  <2>2. MaintenanceInv' BY <1>4 DEF Clear, AfterClear, MaintenanceInv
  <2>3. TargetInv' BY <1>4 DEF Clear, AfterClear, TargetInv
  <2>4. MarkerInv' BY <1>4 DEF Clear, ClearedMarker, AfterClear, MarkerInv
  <2> QED BY <1>0, <2>1, <2>2, <2>3, <2>4
<1>5. CASE ClearGivesUp(o)
  <2>1. AdmissionInv' BY <1>5 DEF ClearGivesUp, AfterClear, AdmissionInv
  <2>2. MaintenanceInv' BY <1>5 DEF ClearGivesUp, AfterClear, MaintenanceInv
  <2>3. TargetInv' BY <1>5 DEF ClearGivesUp, AfterClear, TargetInv
  <2>4. marker # o
        BY <1>5 DEF ClearGivesUp, AdmissionInv, MarkerInv
  <2>5. MarkerInv' BY <1>5, <2>4 DEF ClearGivesUp, AfterClear, MarkerInv
  <2> QED BY <1>0, <2>1, <2>2, <2>3, <2>5
<1>6. CASE Fail(o)
      BY <1>0, <1>6 DEF Fail, AdmissionInv, MaintenanceInv, TargetInv, MarkerInv
<1>7. CASE ReleaseOwner(o)
      BY <1>0, <1>7 DEF ReleaseOwner, AdmissionInv, MaintenanceInv, TargetInv, MarkerInv
<1> QED BY <1>1, <1>2, <1>3, <1>4, <1>5, <1>6, <1>7 DEF Ends

LEMMA CrashInv == ASSUME ProtocolInv, NEW p \in Procs, ProcessDies(p) PROVE ProtocolInv'
<1>0. LocksTypeOK' BY CrashType DEF ProtocolInv
<1> USE NamesAssumption, KindsAssumption DEF ProtocolInv, LocksTypeOK, Ops, Live, Holding, ProcessDies,
        reconciliation
<1>1. AdmissionInv' BY DEF AdmissionInv
<1>2. MaintenanceInv' BY DEF MaintenanceInv
<1>3. TargetInv' BY TargetAssumption DEF TargetInv
<1>4. MarkerInv' BY DEF MarkerInv
<1> QED BY <1>0, <1>1, <1>2, <1>3, <1>4

LEMMA ReconcilesInv == ASSUME ProtocolInv, Reconciles \/ ReconcileDies PROVE ProtocolInv'
<1>0. LocksTypeOK' BY ReconcilesType DEF ProtocolInv
<1> USE NamesAssumption DEF ProtocolInv, LocksTypeOK
<1>1. CASE ReconcileEnters
      BY <1>0, <1>1 DEF ReconcileEnters, AdmissionInv, MaintenanceInv, TargetInv, MarkerInv
<1>2. CASE ReconcileMarker
  <2>1. AdmissionInv' BY <1>2 DEF ReconcileMarker, AdmissionInv
  <2>2. MaintenanceInv' BY <1>2 DEF ReconcileMarker, MaintenanceInv
  <2>3. TargetInv' BY <1>2 DEF ReconcileMarker, TargetInv
  <2>4. marker # None /\ Stale(marker) => pc[marker] = "dead"
        BY DEF Stale, Live, MarkerInv, Holding
  <2>5. MarkerInv' BY <1>2, <2>4 DEF ReconcileMarker, MarkerInv, Holding, Ops
  <2> QED BY <1>0, <2>1, <2>2, <2>3, <2>5
<1>3. CASE ReconcileLists
      BY <1>0, <1>3 DEF ReconcileLists, AdmissionInv, MaintenanceInv, TargetInv, MarkerInv
<1>4. ASSUME NEW o \in Ops, ReconcileJudges(o) PROVE ProtocolInv'
      BY <1>0, <1>4 DEF ReconcileJudges, AdmissionInv, MaintenanceInv, TargetInv, MarkerInv
<1>5. CASE ReconcileEnds
      BY <1>0, <1>5 DEF ReconcileEnds, AdmissionInv, MaintenanceInv, TargetInv, MarkerInv
<1>6. CASE ReconcileDies
      BY <1>0, <1>6 DEF ReconcileDies, AdmissionInv, MaintenanceInv, TargetInv, MarkerInv
<1> QED BY <1>1, <1>2, <1>3, <1>4, <1>5, <1>6 DEF Reconciles

LEMMA ProtocolNextInv == ProtocolInv /\ [LocksNext]_lockVars => ProtocolInv'
<1> SUFFICES ASSUME ProtocolInv, [LocksNext]_lockVars PROVE ProtocolInv'
    OBVIOUS
<1>1. CASE UNCHANGED lockVars
      BY <1>1 DEF lockVars, ProtocolInv, LocksTypeOK, AdmissionInv, MaintenanceInv, TargetInv, MarkerInv
<1>2. CASE LocksNext BY <1>2, BeginsInv, EndsInv, CrashInv, ReconcilesInv DEF LocksNext
<1> QED BY <1>1, <1>2

LEMMA ProtocolInvariance == LocksSpec => []ProtocolInv
<1> QED BY ProtocolInitInv, ProtocolNextInv, PTL DEF LocksSpec

-----------------------------------------------------------------------------
(* What follows from it.                                                   *)

\* A restore runs alone, and no two backups run on one target: the locks that a
\* running operation holds exclude each other.
THEOREM MutualExclusion == LocksSpec => []Exclusion
<1>1. ProtocolInv => Exclusion
      BY NamesAssumption DEF ProtocolInv, LocksTypeOK, MaintenanceInv, TargetInv, Exclusion, Holding, Ops
<1> QED BY <1>1, ProtocolInvariance, PTL

\* Whoever holds maintenance exclusively is named by the marker on disk.
THEOREM MarkerNamed == LocksSpec => []MarkerNamesHolder
<1>1. ProtocolInv => MarkerNamesHolder
      BY DEF ProtocolInv, LocksTypeOK, MaintenanceInv, MarkerInv, MarkerNamesHolder
<1> QED BY <1>1, ProtocolInvariance, PTL

\* A backup let past admission never meets a restore, and a restore that has
\* maintenance never meets a taken target.
THEOREM NobodyWaits == LocksSpec => []NeverWaits
<1>1. ProtocolInv => NeverWaits
  <2> SUFFICES ASSUME ProtocolInv PROVE NeverWaits
      OBVIOUS
  <2> USE NamesAssumption DEF ProtocolInv, LocksTypeOK, Ops, Holding
  <2>1. ASSUME NEW b \in Backups, pc[b] = "joining" PROVE exclusive = None
        BY <2>1 DEF MaintenanceInv, MarkerInv
  <2>2. ASSUME NEW r \in Restores, pc[r] = "aiming" PROVE target[TargetOf[r]] = None
    <3>1. exclusive = r /\ shared = {}
          BY <2>2 DEF MaintenanceInv
    <3>2. \A q \in Ops : pc[q] \notin {"running", "releasing"}
          BY <2>2, <3>1 DEF MaintenanceInv
    <3> QED BY <3>2, TargetAssumption DEF TargetInv
  <2> QED BY <2>1, <2>2 DEF NeverWaits
<1> QED BY <1>1, ProtocolInvariance, PTL

\* An operation that came to its end is not the one the marker names.
THEOREM MarkerCleared == LocksSpec => []NoMarkerLeft
<1>1. ProtocolInv => NoMarkerLeft
      BY DEF ProtocolInv, MarkerInv, NoMarkerLeft, Holding
<1> QED BY <1>1, ProtocolInvariance, PTL

\* Nobody but a live restore itself removes its marker.
THEOREM LiveMarkerKept == LocksSpec => LiveMarkerStays
<1>1. ASSUME ProtocolInv, [LocksNext]_lockVars,
             NEW r \in Restores, marker = r, Live(r), pc'[r] = pc[r]
      PROVE  marker' = r
  <2> USE <1>1, NamesAssumption DEF ProtocolInv, LocksTypeOK, Ops, Go, reconciliation
  <2>1. CASE UNCHANGED lockVars BY <2>1 DEF lockVars
  <2>2. ASSUME NEW o \in Ops, StartOp(o) \/ Begins(o) PROVE marker' = r
        BY <2>2 DEF StartOp, Begins, EnterAdmission, Refused, AdmissionTimeout,
                    TakeMaintenance, MaintenanceTimeout, TakeTarget, TargetTimeout
  <2>3. ASSUME NEW o \in Ops, Ends(o) PROVE marker' = r
    <3>1. CASE Clear(o)
          BY <3>1 DEF Clear, ClearedMarker, AfterClear
    <3> QED BY <2>3, <3>1 DEF Ends, Finish, ReleaseTarget, ReleaseMaintenance,
                ClearGivesUp, Fail, ReleaseOwner
  <2>4. ASSUME NEW p \in Procs, ProcessDies(p) PROVE marker' = r
        BY <2>4 DEF ProcessDies
  <2>5. ASSUME Reconciles \/ ReconcileDies PROVE marker' = r
        BY <2>5 DEF Reconciles, ReconcileEnters, ReconcileMarker, Stale, ReconcileLists,
                    ReconcileJudges, ReconcileEnds, ReconcileDies
  <2> QED BY <2>1, <2>2, <2>3, <2>4, <2>5 DEF LocksNext
<1>2. ProtocolInv /\ [LocksNext]_lockVars =>
          [\A r \in Restores :
              marker = r /\ Live(r) /\ pc'[r] = pc[r] => marker' = r]_lockVars
      BY <1>1
<1> QED BY <1>2, ProtocolInvariance, PTL DEF LocksSpec, LiveMarkerStays

-----------------------------------------------------------------------------
(* The operation records.                                                  *)

\* A record is closed before its operation gives back the owner lock, and only
\* a dead operation's record is abandoned.
RecordInv ==
    \A o \in Ops :
        /\ pc[o] = "idle" => record[o] = "none"
        /\ pc[o] \in {"releasing", "leaving", "done"} => ~Active(o)
        /\ record[o] = "abandoned" => pc[o] = "dead"

LEMMA RecordStep == LocksTypeOK /\ RecordInv /\ [LocksNext]_lockVars => RecordInv'
<1> SUFFICES ASSUME LocksTypeOK, RecordInv, [LocksNext]_lockVars PROVE RecordInv'
    OBVIOUS
<1> USE DEF LocksTypeOK, RecordInv, Active, Go, reconciliation
<1>1. CASE UNCHANGED lockVars BY <1>1 DEF lockVars
<1>2. ASSUME NEW o \in Ops, StartOp(o) \/ Begins(o) PROVE RecordInv'
      BY <1>2 DEF StartOp, Begins, EnterAdmission, Refused, AdmissionTimeout, Raised,
                  TakeMaintenance, MaintenanceTimeout, TakeTarget, TargetTimeout
<1>3. ASSUME NEW o \in Ops, Ends(o) PROVE RecordInv'
      BY <1>3 DEF Ends, Finish, ReleaseTarget, ReleaseMaintenance, Clear, AfterClear,
                  ClearGivesUp, Fail, ReleaseOwner
<1>4. ASSUME NEW p \in Procs, ProcessDies(p) PROVE RecordInv'
      BY <1>4 DEF ProcessDies, Live
<1>5. ASSUME NEW o \in Ops, ReconcileJudges(o) PROVE RecordInv'
      BY <1>5 DEF ReconcileJudges, Judged, Live
<1>6. ASSUME ReconcileEnters \/ ReconcileMarker \/ ReconcileLists \/ ReconcileEnds \/ ReconcileDies
      PROVE  RecordInv'
      BY <1>6 DEF ReconcileEnters, ReconcileMarker, ReconcileLists, ReconcileEnds, ReconcileDies
<1> QED BY <1>1, <1>2, <1>3, <1>4, <1>5, <1>6 DEF LocksNext, Reconciles

\* Reconciliation abandons only the records of operations that died.
THEOREM AbandonedAreDead == LocksSpec => []OnlyDeadAbandoned
<1>1. LocksInit => RecordInv
      BY DEF LocksInit, RecordInv, Active
<1>2. RecordInv => OnlyDeadAbandoned
      BY DEF RecordInv, OnlyDeadAbandoned
<1> QED BY <1>1, <1>2, RecordStep, LocksTypeCorrect, PTL DEF LocksSpec

-----------------------------------------------------------------------------
(* SelfRestore.                                                            *)


\* The runner before, and up to, its end.
Waiting == {"launching", "gate", "stopping"}
Rewriting == {"downed", "changing", "starting", "health"}
Alive == Waiting \cup Rewriting

\* Own before its permit, and on its way out.
Preparing == {"idle", "admitting", "joining", "aiming"}
Undoing == {"releasing", "unlocking", "reclearing", "clearing", "failing"}

-----------------------------------------------------------------------------
(* The inductive invariant.                                                *)

\* What the runner's place says of its report, of the gate and of the tree.
RunnerInv ==
    /\ runner \in Rewriting \cup {"stopping"} => gate = "open"
    /\ gate # "closed" => runner \notin {"none", "announced"}
    /\ cancelled => gate = "closed"
    /\ report = "none" => runner \in {"none", "announced", "launching", "gone"}
    /\ report = "running" => runner \notin {"none", "announced", "launching"}
    /\ report \in {"failed", "succeeded"} => runner = "gone"
    /\ stopped => gate = "open" /\ runner \in {"changing", "starting", "health", "gone"}
    /\ runner \in {"changing", "starting", "health"} => stopped
    /\ tree # "old" => stopped
    /\ runner \in {"starting", "health"} /\ ~failure => tree = "new"
    /\ report = "succeeded" => tree = "new"
    /\ runner \in {"downed", "changing", "starting"} => service = "down"

\* What the locks, the marker and the record are while the runner is at work.
LocksInv ==
    /\ pc[Own] \in Preparing => runner = "none" /\ verdict = "none"
    /\ pc[Own] \in Undoing /\ runner # "none" => ~Active(Own)
    /\ runner # "none" /\ marker = Own => shared = {}
    /\ runner \in Waiting /\ gate = "open" /\ ~early => pc[Own] = "running"
    /\ runner \in Waiting /\ gate # "closed" /\ pc[Own] = "running" /\ ~early => Active(Own)
    /\ runner \in {"downed", "changing"} /\ ~early =>
          pc[Own] = "dead" /\ marker = Own /\ exclusive = None

\* What a start of the service has got done.
StartInv ==
    /\ service \in {"down", "closing", "adopting"} =>
          \A o \in Ops : HomeOf[o] = Panel => ~Live(o)
    /\ service \notin {"closing", "scheduling"} => phase = "idle"
    /\ service = "closing" /\ phase = "listing" /\ runner # "none" => marker # Own
    /\ service = "adopting" /\ runner # "none" => marker # Own
    /\ service = "adopting" /\ runner = "launching" => ~Active(Own)
    /\ Adopts /\ service \in {"scheduling", "up"} /\ runner \in Alive /\ Active(Own) => Live(Own)
    /\ Adopts /\ service \in {"adopting", "scheduling", "up"} /\ report = "succeeded"
          /\ Active(Own) => Live(Own)

\* What a closed record may say.
VerdictInv ==
    /\ verdict = "completed" => tree = "new" /\ runner = "gone"
    /\ verdict = "unmodified" /\ ~early =>
          ~stopped /\ ~Active(Own) /\ (runner = "gone" \/ gate = "closed")
    /\ Adopts /\ runner \in Rewriting /\ ~early => Active(Own)
    /\ Adopts /\ report = "succeeded" /\ ~Active(Own) /\ ~early =>
          verdict \in {"completed", "partial"}

SelfInv == ProtocolInv /\ SelfTypeOK /\ RunnerInv /\ LocksInv /\ StartInv /\ VerdictInv

LEMMA SelfInitInv == SelfInit => SelfInv
<1> SUFFICES ASSUME SelfInit PROVE SelfInv
    OBVIOUS
<1>1. ProtocolInv BY ProtocolInitInv DEF SelfInit
<1>2. SelfTypeOK BY DEF SelfInit, SelfTypeOK
<1>3. RunnerInv BY DEF SelfInit, RunnerInv, Rewriting
<1>4. LocksInv BY DEF SelfInit, LocksInit, LocksInv, Waiting, Preparing, Undoing, Ops
<1>5. StartInv BY DEF SelfInit, LocksInit, StartInv, Alive, Waiting, Rewriting,
        Preparing, Undoing
<1>6. VerdictInv BY DEF SelfInit, VerdictInv, Rewriting
<1> QED BY <1>1, <1>2, <1>3, <1>4, <1>5, <1>6 DEF SelfInv

\* What is unchanged with lockVars.
LEMMA Unmoved ==
  ASSUME ProtocolInv, UNCHANGED lockVars
  PROVE  /\ ProtocolInv' /\ (Active(Own)' <=> Active(Own))
         /\ \A o \in Ops : Live(o)' <=> Live(o)
BY DEF lockVars, ProtocolInv, LocksTypeOK, AdmissionInv, MaintenanceInv, TargetInv, MarkerInv, Active, Live

-----------------------------------------------------------------------------
(* Steps of the caller and of the runner that leave the locks alone.       *)

LEMMA CallerStep ==
    ASSUME SelfInv, Announce \/ Launch \/ RequestCancel \/ CrossBoundary \/ OpenGate
    PROVE  SelfInv'
<1> USE OwnAssumption, KindsAssumption, NamesAssumption DEF Ops
<1>0. UNCHANGED lockVars
      BY DEF Announce, Launch, RequestCancel, CrossBoundary, OpenGate
<1>1. ProtocolInv' /\ (Active(Own)' <=> Active(Own)) /\ \A o \in Ops : Live(o)' <=> Live(o)
      BY <1>0, Unmoved DEF SelfInv
<1> USE <1>0, <1>1 DEF SelfInv, SelfTypeOK, lockVars, work, Alive, Waiting, Rewriting,
        Preparing, Undoing
<1>2. CASE Announce
  <2> USE <1>2 DEF Announce
  <2>1. SelfTypeOK' /\ RunnerInv' BY DEF RunnerInv
  <2>2. LocksInv' BY DEF LocksInv, RunnerInv, ProtocolInv, MaintenanceInv, Holding
  <2>3. StartInv' BY DEF StartInv, LocksInv, RunnerInv, Live, Panel
  <2>4. VerdictInv' BY DEF VerdictInv, RunnerInv
  <2> QED BY <2>1, <2>2, <2>3, <2>4
<1>3. CASE Launch
  <2> USE <1>3 DEF Launch
  <2>1. SelfTypeOK' /\ RunnerInv' BY DEF RunnerInv
  <2>2. LocksInv' BY DEF LocksInv, RunnerInv, ProtocolInv, MaintenanceInv, Holding
  <2>3. StartInv' BY DEF StartInv, LocksInv, RunnerInv, Live, Panel
  <2>4. VerdictInv' BY DEF VerdictInv, RunnerInv
  <2> QED BY <2>1, <2>2, <2>3, <2>4
<1>4. CASE RequestCancel
  <2> USE <1>4 DEF RequestCancel
  <2>1. SelfTypeOK' /\ RunnerInv' BY DEF RunnerInv
  <2>2. LocksInv' BY DEF LocksInv, RunnerInv, ProtocolInv, MaintenanceInv, Holding
  <2>3. StartInv' BY DEF StartInv, LocksInv, RunnerInv, Live, Panel
  <2>4. VerdictInv' BY DEF VerdictInv, RunnerInv
  <2> QED BY <2>1, <2>2, <2>3, <2>4
<1>5. CASE CrossBoundary
  <2> USE <1>5 DEF CrossBoundary, Crossable
  <2>1. SelfTypeOK' /\ RunnerInv' BY DEF RunnerInv
  <2>2. LocksInv' BY DEF LocksInv, RunnerInv, ProtocolInv, MaintenanceInv, Holding
  <2>3. StartInv' BY DEF StartInv, LocksInv, RunnerInv, Live, Panel
  <2>4. VerdictInv' BY DEF VerdictInv, RunnerInv
  <2> QED BY <2>1, <2>2, <2>3, <2>4
<1>6. CASE OpenGate
  <2> USE <1>6 DEF OpenGate
  <2>1. SelfTypeOK' /\ RunnerInv' BY DEF RunnerInv
  <2>2. LocksInv' BY DEF LocksInv, RunnerInv, ProtocolInv, MaintenanceInv, Holding
  <2>3. StartInv' BY DEF StartInv, LocksInv, RunnerInv, Live, Panel
  <2>4. VerdictInv' BY DEF VerdictInv, RunnerInv
  <2> QED BY <2>1, <2>2, <2>3, <2>4
<1> QED BY <1>2, <1>3, <1>4, <1>5, <1>6

LEMMA RunnerKeeps ==
    ASSUME SelfInv, (RunnerStep /\ ~RunnerStops) \/ RunnerDies
    PROVE  SelfInv'
<1> USE OwnAssumption, KindsAssumption, NamesAssumption DEF Ops
<1>0. UNCHANGED lockVars
      BY DEF RunnerStep, RunnerEnters, RunnerPasses, RunnerRefuses, RunnerReportsStop,
             RunnerExtracts, RunnerChanged, RunnerStarts, RunnerSucceeds, RunnerFails, RunnerDies
<1>1. ProtocolInv' /\ (Active(Own)' <=> Active(Own)) /\ \A o \in Ops : Live(o)' <=> Live(o)
      BY <1>0, Unmoved DEF SelfInv
<1> USE <1>0, <1>1 DEF SelfInv, SelfTypeOK, lockVars, Runs, work, Alive, Waiting, Rewriting,
        Preparing, Undoing
<1>2. CASE RunnerEnters
  <2> USE <1>2 DEF RunnerEnters
  <2>1. SelfTypeOK' OBVIOUS
  <2>2. RunnerInv' BY DEF RunnerInv
  <2>3. LocksInv' BY DEF LocksInv, RunnerInv
  <2>4. StartInv' BY DEF StartInv, RunnerInv
  <2>5. VerdictInv' BY DEF VerdictInv, RunnerInv, LocksInv
  <2> QED BY <2>1, <2>2, <2>3, <2>4, <2>5
<1>3. CASE RunnerPasses
  <2> USE <1>3 DEF RunnerPasses
  <2>1. SelfTypeOK' OBVIOUS
  <2>2. RunnerInv' BY DEF RunnerInv
  <2>3. LocksInv' BY DEF LocksInv, RunnerInv
  <2>4. StartInv' BY DEF StartInv, RunnerInv
  <2>5. VerdictInv' BY DEF VerdictInv, RunnerInv, LocksInv
  <2> QED BY <2>1, <2>2, <2>3, <2>4, <2>5
<1>4. CASE RunnerRefuses
  <2> USE <1>4 DEF RunnerRefuses
  <2>1. SelfTypeOK' OBVIOUS
  <2>2. RunnerInv' BY DEF RunnerInv
  <2>3. LocksInv' BY DEF LocksInv, RunnerInv
  <2>4. StartInv' BY DEF StartInv, RunnerInv
  <2>5. VerdictInv' BY DEF VerdictInv, RunnerInv, LocksInv
  <2> QED BY <2>1, <2>2, <2>3, <2>4, <2>5
<1>5. CASE RunnerReportsStop
  <2> USE <1>5 DEF RunnerReportsStop
  <2>1. SelfTypeOK' OBVIOUS
  <2>2. RunnerInv' BY DEF RunnerInv
  <2>3. LocksInv' BY DEF LocksInv, RunnerInv
  <2>4. StartInv' BY DEF StartInv, RunnerInv
  <2>5. VerdictInv' BY DEF VerdictInv, RunnerInv, LocksInv
  <2> QED BY <2>1, <2>2, <2>3, <2>4, <2>5
<1>6. CASE RunnerExtracts
  <2> USE <1>6 DEF RunnerExtracts
  <2>1. SelfTypeOK' OBVIOUS
  <2>2. RunnerInv' BY DEF RunnerInv
  <2>3. LocksInv' BY DEF LocksInv, RunnerInv
  <2>4. StartInv' BY DEF StartInv, RunnerInv
  <2>5. VerdictInv' BY DEF VerdictInv, RunnerInv, LocksInv
  <2> QED BY <2>1, <2>2, <2>3, <2>4, <2>5
<1>7. CASE RunnerChanged
  <2> USE <1>7 DEF RunnerChanged
  <2>1. SelfTypeOK' OBVIOUS
  <2>2. RunnerInv' BY DEF RunnerInv
  <2>3. LocksInv' BY DEF LocksInv, RunnerInv
  <2>4. StartInv' BY DEF StartInv, RunnerInv
  <2>5. VerdictInv' BY DEF VerdictInv, RunnerInv, LocksInv
  <2> QED BY <2>1, <2>2, <2>3, <2>4, <2>5
<1>8. CASE RunnerStarts
  <2> USE <1>8 DEF RunnerStarts
  <2>1. SelfTypeOK' OBVIOUS
  <2>2. RunnerInv' BY DEF RunnerInv
  <2>3. LocksInv' BY DEF LocksInv, RunnerInv
  <2>4. StartInv' BY DEF StartInv, RunnerInv
  <2>5. VerdictInv' BY DEF VerdictInv, RunnerInv, LocksInv
  <2> QED BY <2>1, <2>2, <2>3, <2>4, <2>5
<1>9. CASE RunnerSucceeds
  <2> USE <1>9 DEF RunnerSucceeds, Healthy
  <2>1. SelfTypeOK' OBVIOUS
  <2>2. RunnerInv' BY DEF RunnerInv
  <2>3. LocksInv' BY DEF LocksInv, RunnerInv
  <2>4. StartInv' BY DEF StartInv, RunnerInv
  <2>5. VerdictInv' BY DEF VerdictInv, RunnerInv, LocksInv
  <2> QED BY <2>1, <2>2, <2>3, <2>4, <2>5
<1>10. CASE RunnerFails
  <2> USE <1>10 DEF RunnerFails
  <2>1. SelfTypeOK' OBVIOUS
  <2>2. RunnerInv' BY DEF RunnerInv
  <2>3. LocksInv' BY DEF LocksInv, RunnerInv
  <2>4. StartInv' BY DEF StartInv, RunnerInv
  <2>5. VerdictInv' BY DEF VerdictInv, RunnerInv, LocksInv
  <2> QED BY <2>1, <2>2, <2>3, <2>4, <2>5
<1>11. CASE RunnerDies
  <2> USE <1>11 DEF RunnerDies
  <2>1. SelfTypeOK' OBVIOUS
  <2>2. RunnerInv' BY DEF RunnerInv
  <2>3. LocksInv' BY DEF LocksInv, RunnerInv
  <2>4. StartInv' BY DEF StartInv, RunnerInv
  <2>5. VerdictInv' BY DEF VerdictInv, RunnerInv, LocksInv
  <2> QED BY <2>1, <2>2, <2>3, <2>4, <2>5
<1> QED BY <1>2, <1>3, <1>4, <1>5, <1>6, <1>7, <1>8, <1>9, <1>10, <1>11 DEF RunnerStep

-----------------------------------------------------------------------------
(* Steps that close the record.                                            *)

\* Only the record, and the place of Own on its way out, change: the locks stay.
LEMMA ClosingKeeps ==
    ASSUME ProtocolInv,
           \/ UNCHANGED pc
           \/ Go(Own, "running", "releasing"),
           UNCHANGED <<admission, shared, exclusive, target, marker, snapshot>>,
           \/ UNCHANGED phase
           \/ phase # "reading" /\ phase' = "idle",
           record' \in [Ops -> RecordStates]
    PROVE  ProtocolInv'
<1> USE OwnAssumption, KindsAssumption, NamesAssumption
        DEF Ops, ProtocolInv, LocksTypeOK, Go, Holding, Places
<1>1. LocksTypeOK' OBVIOUS
<1>2. AdmissionInv' BY DEF AdmissionInv
<1>3. MaintenanceInv' BY DEF MaintenanceInv
<1>4. TargetInv' BY DEF TargetInv
<1>5. MarkerInv' BY DEF MarkerInv
<1> QED BY <1>1, <1>2, <1>3, <1>4, <1>5

LEMMA GiveUpKeeps == ASSUME SelfInv, GiveUp PROVE SelfInv'
<1> USE OwnAssumption DEF SelfInv, GiveUp, Go, reconciliation, work, Ops, Alive, Waiting,
        Rewriting, Preparing, Undoing
<1>1. record' \in [Ops -> RecordStates] /\ ~Active(Own)'
      BY DEF ProtocolInv, LocksTypeOK, Active, RecordStates
<1>2. ProtocolInv' BY <1>1, ClosingKeeps DEF GiveUp, Go
<1>3. SelfTypeOK' BY DEF SelfTypeOK
<1>4. RunnerInv' BY DEF RunnerInv
<1>5. LocksInv' BY <1>1 DEF LocksInv, RunnerInv, ProtocolInv, LocksTypeOK
<1>6. StartInv' BY <1>1 DEF StartInv, Live, Panel, ProtocolInv, LocksTypeOK
<1>7. VerdictInv' BY <1>1 DEF VerdictInv, RunnerInv, LocksInv, SelfTypeOK
<1> QED BY <1>2, <1>3, <1>4, <1>5, <1>6, <1>7

LEMMA FinalizedTypes ==
    ASSUME SelfTypeOK, Finalized
    PROVE  /\ early' \in BOOLEAN
           /\ verdict' \in {"unmodified", "partial", "completed"}
           /\ ~early' => ~early /\ ~Undecided
BY DEF SelfTypeOK, Finalized, Outcomes

LEMMA FinalizesKeep ==
    ASSUME SelfInv, CallerFinalizes \/ AdopterFinalizes \/ ConsoleFinalizes
    PROVE  SelfInv'
<1> USE OwnAssumption DEF SelfInv, Go, reconciliation, work, Ops, Alive, Waiting, Rewriting,
        Preparing, Undoing
<1>1. /\ record' \in [Ops -> RecordStates] /\ ~Active(Own)'
      /\ Closable
      /\ UNCHANGED <<runner, work, cancelled, gate, service>>
      /\ UNCHANGED <<admission, shared, exclusive, target, marker, reconciliation>>
      /\ UNCHANGED pc \/ (runner = "gone" /\ Go(Own, "running", "releasing"))
      /\ Finalized \/ (~Active(Own) /\ UNCHANGED <<verdict, record, early>>)
      /\ runner # "none"
      BY DEF CallerFinalizes, AdopterFinalizes, ConsoleFinalizes, Finalized, ProtocolInv, LocksTypeOK,
             Active, RecordStates, RunnerInv, SelfTypeOK, Closable, Silent
<1>2. ProtocolInv' BY <1>1, ClosingKeeps
<1>3. SelfTypeOK' BY <1>1, FinalizedTypes DEF SelfTypeOK
<1>4. RunnerInv' BY <1>1 DEF RunnerInv
<1>5. LocksInv'
  <2>1. ~early' => ~early BY <1>1, FinalizedTypes
  <2>2. ~early' /\ runner \in Waiting /\ gate # "closed" => ~Active(Own)
        BY <1>1, FinalizedTypes DEF Undecided, SelfTypeOK
  <2>3. CASE UNCHANGED pc BY <1>1, <2>1, <2>2, <2>3 DEF LocksInv
  <2>4. CASE runner = "gone" /\ Go(Own, "running", "releasing")
        BY <1>1, <2>1, <2>4 DEF LocksInv, RunnerInv, ProtocolInv, LocksTypeOK
  <2> QED BY <1>1, <2>3, <2>4
<1>6. StartInv' BY <1>1 DEF StartInv, Live, Panel, ProtocolInv, LocksTypeOK
<1>7. VerdictInv'
      BY <1>1, FinalizedTypes
         DEF VerdictInv, RunnerInv, Finalized, Outcomes, Closable, Silent, Undecided, SelfTypeOK
<1> QED BY <1>2, <1>3, <1>4, <1>5, <1>6, <1>7

LEMMA StartupClosesKeeps == ASSUME SelfInv, StartupCloses PROVE SelfInv'
<1> USE OwnAssumption
        DEF SelfInv, StartupCloses, work, Ops, Alive, Waiting, Rewriting,
        Preparing, Undoing
<1>1. record' \in [Ops -> RecordStates] /\ (Active(Own)' => Active(Own))
      BY DEF Finalized, ProtocolInv, LocksTypeOK, Active, RecordStates
<1>2. ProtocolInv' BY <1>1, ClosingKeeps
<1>3. SelfTypeOK' BY FinalizedTypes DEF SelfTypeOK
<1>4. RunnerInv' BY DEF RunnerInv
<1>5. LocksInv' BY <1>1, FinalizedTypes
         DEF LocksInv, RunnerInv, Finalized, Undecided, Live, StartInv, Panel
<1>6. StartInv' BY <1>1 DEF StartInv, RunnerInv, Finalized, Closable, Silent, Live, Active
<1>7. VerdictInv'
      BY <1>1, FinalizedTypes
         DEF VerdictInv, RunnerInv, Finalized, Outcomes, Closable, Silent, Undecided, SelfTypeOK,
             Active
<1> QED BY <1>2, <1>3, <1>4, <1>5, <1>6, <1>7

-----------------------------------------------------------------------------
(* The end of the panel's process, and its start.                          *)

LEMMA PanelEndsKeeps ==
    ASSUME ProtocolInv, PanelEnds
    PROVE  /\ ProtocolInv'
           /\ \A o \in Ops : HomeOf[o] = Panel => ~Live(o)'
           /\ \A o \in Ops : HomeOf[o] # Panel => pc'[o] = pc[o]
           /\ pc[Own] \in {"idle", "done", "dead"} => pc'[Own] = pc[Own]
           /\ Live(Own) => pc'[Own] = "dead"
<1> USE OwnAssumption, NamesAssumption, KindsAssumption
        DEF ProtocolInv, LocksTypeOK, Ops, Live, Holding, PanelEnds, Panel
<1>1. LocksTypeOK' BY DEF Places
<1>2. AdmissionInv' BY DEF AdmissionInv
<1>3. MaintenanceInv' BY DEF MaintenanceInv
<1>4. TargetInv' BY TargetAssumption DEF TargetInv
<1>5. MarkerInv' BY DEF MarkerInv
<1> QED BY <1>1, <1>2, <1>3, <1>4, <1>5

LEMMA PanelGoes == ASSUME SelfInv, PanelDies \/ RunnerStops PROVE SelfInv'
<1> USE OwnAssumption, PanelEndsKeeps
        DEF SelfInv, work, Ops, Alive, Waiting, Rewriting, Preparing, Undoing, Runs
<1>1. /\ PanelEnds
      /\ UNCHANGED <<report, stopped, failure, tree, cancelled, gate, verdict, marker, record>>
      /\ Active(Own)' <=> Active(Own)
      /\ phase' = "idle"
      BY DEF PanelDies, RunnerStops, PanelEnds, Active
<1>4. ~early' => ~early BY DEF PanelDies, RunnerStops, SelfTypeOK
<1>2. CASE PanelDies
  <2> USE <1>2 DEF PanelDies
  <2>1. SelfTypeOK' /\ RunnerInv' BY <1>1, <1>4 DEF SelfTypeOK, RunnerInv
  <2>2. LocksInv' BY <1>1, <1>4 DEF LocksInv, RunnerInv, Undecided, Live, PanelEnds
  <2>3. StartInv' BY <1>1, <1>4 DEF StartInv
  <2>4. VerdictInv' BY <1>1, <1>4 DEF VerdictInv
  <2> QED BY <1>1, <2>1, <2>2, <2>3, <2>4
<1>3. CASE RunnerStops
  <2> USE <1>3 DEF RunnerStops
  <2>1. SelfTypeOK' /\ RunnerInv' BY <1>1, <1>4 DEF SelfTypeOK, RunnerInv
  <2>2. LocksInv'
        BY <1>1, <1>4
           DEF LocksInv, RunnerInv, Live, PanelEnds, ProtocolInv, MaintenanceInv, MarkerInv, Holding
  <2>3. StartInv' BY <1>1, <1>4 DEF StartInv, RunnerInv
  <2>4. VerdictInv' BY <1>1, <1>4 DEF VerdictInv, LocksInv, RunnerInv
  <2> QED BY <1>1, <2>1, <2>2, <2>3, <2>4
<1> QED BY <1>2, <1>3

LEMMA StartupKeeps ==
    ASSUME SelfInv, ServiceStarted \/ StartupAdopts \/ StartupEnds PROVE SelfInv'
<1> USE OwnAssumption, NamesAssumption, KindsAssumption
        DEF SelfInv, work, Ops, Alive, Waiting, Rewriting,
        Preparing, Undoing
<1>1. CASE ServiceStarted
  <2> USE <1>1 DEF ServiceStarted, lockVars
  <2>1. ProtocolInv' /\ (Active(Own)' <=> Active(Own)) /\ \A o \in Ops : Live(o)' <=> Live(o)
        BY Unmoved
  <2>2. SelfTypeOK' /\ RunnerInv' BY DEF SelfTypeOK, RunnerInv
  <2>3. LocksInv' BY <2>1 DEF LocksInv
  <2>4. StartInv' BY <2>1 DEF StartInv
  <2>5. VerdictInv' BY <2>1 DEF VerdictInv
  <2> QED BY <2>1, <2>2, <2>3, <2>4, <2>5
<1>2. CASE StartupAdopts
  <2> USE <1>2 DEF StartupAdopts, reconciliation
  <2>1. Adoptable => pc[Own] \in {"idle", "done", "dead"} /\ runner \notin {"none", "gone"}
                     /\ marker # Own
        BY DEF Adoptable, Live, RunnerInv, StartInv, Silent
  <2>2. ProtocolInv'
    <3> USE DEF ProtocolInv, LocksTypeOK, Holding
    <3>1. LocksTypeOK' BY DEF Places
    <3>2. AdmissionInv' BY <2>1 DEF AdmissionInv
    <3>3. MaintenanceInv' BY <2>1 DEF MaintenanceInv
    <3>4. TargetInv' BY <2>1 DEF TargetInv
    <3>5. MarkerInv' BY <2>1 DEF MarkerInv
    <3> QED BY <3>1, <3>2, <3>3, <3>4, <3>5
  <2>3. SelfTypeOK' /\ RunnerInv' BY DEF SelfTypeOK, RunnerInv
  <2>4. LocksInv' BY <2>1 DEF LocksInv, StartInv, RunnerInv, Live, Panel, ProtocolInv, LocksTypeOK
  <2>5. Active(Own)' <=> Active(Own) BY DEF Active
  <2>6. StartInv'
        BY <2>1, <2>5
           DEF StartInv, RunnerInv, Adoptable, Silent, Live, ProtocolInv, LocksTypeOK, SelfTypeOK
  <2>7. VerdictInv' BY <2>5 DEF VerdictInv
  <2> QED BY <2>2, <2>3, <2>4, <2>6, <2>7
<1>3. CASE StartupEnds
  <2> USE <1>3 DEF StartupEnds, ReconcileEnds
  <2>1. ProtocolInv' BY ReconcilesInv DEF Reconciles
  <2>2. (Active(Own)' <=> Active(Own)) /\ \A o \in Ops : Live(o)' <=> Live(o)
        BY DEF Active, Live
  <2>3. SelfTypeOK' /\ RunnerInv' BY DEF SelfTypeOK, RunnerInv
  <2>4. LocksInv' BY <2>2 DEF LocksInv
  <2>5. StartInv' BY <2>2 DEF StartInv
  <2>6. VerdictInv' BY <2>2 DEF VerdictInv
  <2> QED BY <2>1, <2>3, <2>4, <2>5, <2>6
<1> QED BY <1>1, <1>2, <1>3

-----------------------------------------------------------------------------
(* The steps of the lock protocol.                                         *)

\* What such a step may do to what the invariant speaks of.
Steady ==
    /\ pc'[Own] \in Preparing => pc[Own] \in Preparing
    /\ pc'[Own] \in Undoing => pc[Own] \in Undoing \cup Preparing
    /\ pc'[Own] = "running" => pc[Own] \in Preparing \cup {"running"}
    /\ pc[Own] \in {"running", "dead"} => pc'[Own] = pc[Own]
    /\ Active(Own)' /\ Live(Own) => Live(Own)'
    /\ Active(Own)' => Active(Own) \/ pc[Own] \in Preparing
    /\ Active(Own) /\ ~Active(Own)' =>
          pc[Own] = "failing" \/ (~Live(Own) /\ service = "scheduling")
    /\ marker' = Own => pc[Own] \in Preparing \/ (marker = Own /\ shared' \subseteq shared)
    /\ pc[Own] = "dead" /\ marker = Own /\ exclusive = None /\ service = "down" =>
          marker' = Own /\ exclusive' = None
    /\ \A o \in Ops : HomeOf[o] = Panel /\ Live(o)' => Live(o) \/ service = "up"
    /\ phase' = phase \/ service \in {"closing", "scheduling"}
    /\ service = "closing" /\ phase' = "listing" /\ marker' = Own =>
          phase = "listing" \/ runner = "none"

LEMMA SteadyKeeps == ASSUME SelfInv, ProtocolInv', UNCHANGED own, Steady PROVE SelfInv'
<1> USE OwnAssumption DEF SelfInv, own, Ops, Alive, Waiting, Rewriting,
        Preparing, Undoing
<1>1. SelfTypeOK' BY DEF SelfTypeOK
<1>2. RunnerInv' BY DEF RunnerInv
<1>3. LocksInv'
  <2>1. /\ pc'[Own] \in Preparing => runner = "none" /\ verdict = "none"
        /\ pc'[Own] \in Undoing /\ runner # "none" => ~Active(Own)'
        BY DEF LocksInv, Steady
  <2>2. runner # "none" /\ marker' = Own => shared' = {}
        BY DEF LocksInv, Steady
  <2>3. /\ runner \in Waiting /\ gate = "open" /\ ~early => pc'[Own] = "running"
        /\ runner \in Waiting /\ gate # "closed" /\ pc'[Own] = "running" /\ ~early =>
              Active(Own)'
        BY DEF LocksInv, Steady, Live
  <2>4. runner \in {"downed", "changing"} /\ ~early =>
              pc'[Own] = "dead" /\ marker' = Own /\ exclusive' = None
        BY DEF LocksInv, Steady, RunnerInv
  <2> QED BY <2>1, <2>2, <2>3, <2>4 DEF LocksInv
<1>4. StartInv'
  <2>1. service \in {"down", "closing", "adopting"} =>
              \A o \in Ops : HomeOf[o] = Panel => ~Live(o)'
        BY DEF StartInv, Steady
  <2>2. /\ service \notin {"closing", "scheduling"} => phase' = "idle"
        /\ service = "closing" /\ phase' = "listing" /\ runner # "none" => marker' # Own
        /\ service = "adopting" /\ runner # "none" => marker' # Own
        BY DEF StartInv, Steady, LocksInv
  <2>3. service = "adopting" /\ runner = "launching" => ~Active(Own)'
        BY DEF StartInv, Steady, LocksInv
  <2>4. /\ Adopts /\ service \in {"scheduling", "up"} /\ runner \in Alive /\ Active(Own)' =>
              Live(Own)'
        /\ Adopts /\ service \in {"adopting", "scheduling", "up"} /\ report = "succeeded"
              /\ Active(Own)' => Live(Own)'
        BY DEF StartInv, Steady, LocksInv, RunnerInv
  <2> QED BY <2>1, <2>2, <2>3, <2>4 DEF StartInv
<1>5. VerdictInv'
  <2>1. verdict # "none" => (Active(Own)' => Active(Own))
        BY DEF Steady, LocksInv
  <2>2. Adopts /\ Active(Own) /\ (runner \in Rewriting \/ report = "succeeded") => Active(Own)'
        BY DEF Steady, LocksInv, StartInv, RunnerInv
  <2> QED BY <2>1, <2>2 DEF VerdictInv
<1> QED BY <1>1, <1>2, <1>3, <1>4, <1>5

LEMMA BeginsSteady ==
    ASSUME SelfInv, NEW o \in Ops, Starts(o) \/ Begins(o)
    PROVE  Steady
<1> USE OwnAssumption, NamesAssumption, KindsAssumption
        DEF SelfInv, ProtocolInv, LocksTypeOK, Ops, Preparing, Undoing, Go, reconciliation, Live, Active, Steady
<1>1. CASE Starts(o) BY <1>1 DEF Starts, StartOp
<1>2. CASE EnterAdmission(o) BY <1>2 DEF EnterAdmission, Intent
<1>3. CASE Refused(o) BY <1>3 DEF Refused, Raised
<1>4. CASE AdmissionTimeout(o) BY <1>4 DEF AdmissionTimeout, Raised
<1>5. CASE TakeMaintenance(o)
  <2>1. o \in Restores => marker = o BY <1>5 DEF TakeMaintenance, MarkerInv
  <2>2. o \in Backups => marker = None BY <1>5 DEF TakeMaintenance, MarkerInv
  <2> QED BY <1>5, <2>1, <2>2 DEF TakeMaintenance
<1>6. CASE MaintenanceTimeout(o) BY <1>6 DEF MaintenanceTimeout, Raised
<1>7. CASE TakeTarget(o) BY <1>7 DEF TakeTarget
<1>8. CASE TargetTimeout(o) BY <1>8 DEF TargetTimeout
<1> QED BY <1>1, <1>2, <1>3, <1>4, <1>5, <1>6, <1>7, <1>8 DEF Begins

LEMMA EndsSteady ==
    ASSUME SelfInv, NEW o \in Ops, Protocol(o), ~Begins(o)
    PROVE  Steady
<1> USE OwnAssumption, NamesAssumption, KindsAssumption
        DEF SelfInv, ProtocolInv, LocksTypeOK, Ops, Preparing, Undoing, Go, reconciliation, Live, Active, Steady
<1>1. CASE o # Own /\ Finish(o) BY <1>1 DEF Finish
<1>2. CASE ReleaseTarget(o) BY <1>2 DEF ReleaseTarget
<1>3. CASE ReleaseMaintenance(o) BY <1>3 DEF ReleaseMaintenance
<1>4. CASE Clear(o) BY <1>4 DEF Clear, ClearedMarker, AfterClear
<1>5. CASE ClearGivesUp(o) BY <1>5 DEF ClearGivesUp, AfterClear
<1>6. CASE Fail(o) BY <1>6 DEF Fail
<1>7. CASE (o = Own => ~Active(o)) /\ ReleaseOwner(o) BY <1>7 DEF ReleaseOwner
<1> QED BY <1>1, <1>2, <1>3, <1>4, <1>5, <1>6, <1>7 DEF Protocol

LEMMA CrashSteady ==
    ASSUME SelfInv, NEW p \in Procs \ {Panel}, ProcessDies(p)
    PROVE  Steady
BY OwnAssumption, NamesAssumption
   DEF SelfInv, ProtocolInv, LocksTypeOK, Ops, Preparing, Undoing, reconciliation, Live, Active, Steady,
       ProcessDies, Panel

LEMMA ReconcilesSteady ==
    ASSUME SelfInv, StartupMarker \/ StartupReconciles
    PROVE  Steady
<1> USE OwnAssumption, NamesAssumption
        DEF SelfInv, ProtocolInv, LocksTypeOK, Ops, Preparing, Undoing, Live, Active, Steady
<1>1. CASE StartupMarker /\ ReconcileEnters BY <1>1 DEF StartupMarker, ReconcileEnters
<1>2. CASE StartupMarker /\ ReconcileMarker
  <2>1. service = "closing" /\ marker = Own /\ runner # "none" => Stale(marker)
        BY DEF Stale, StartInv, LocksInv, MarkerInv, MaintenanceInv, Holding, Panel
  <2> QED BY <1>2, <2>1 DEF StartupMarker, ReconcileMarker, Stale
<1>3. CASE StartupReconciles /\ ReconcileLists
      BY <1>3 DEF StartupReconciles, ReconcileLists
<1>4. ASSUME StartupReconciles, NEW o \in Ops, ReconcileJudges(o) PROVE Steady
      BY <1>4 DEF StartupReconciles, ReconcileJudges, Judged
<1> QED BY <1>1, <1>2, <1>3, <1>4 DEF StartupMarker, StartupReconciles

LEMMA ProtocolKeeps ==
    ASSUME SelfInv,
           \/ \E o \in Ops : (Starts(o) \/ Protocol(o)) /\ UNCHANGED own
           \/ \E p \in Procs \ {Panel} : ProcessDies(p) /\ UNCHANGED own
           \/ StartupMarker
           \/ StartupReconciles
    PROVE  SelfInv'
<1>1. ASSUME NEW o \in Ops, Starts(o) \/ Protocol(o), UNCHANGED own PROVE SelfInv'
  <2>1. ProtocolInv' BY <1>1, BeginsInv, EndsInv DEF SelfInv, Starts, Protocol, Ends
  <2>2. Steady BY <1>1, BeginsSteady, EndsSteady
  <2> QED BY <1>1, <2>1, <2>2, SteadyKeeps
<1>2. ASSUME NEW p \in Procs \ {Panel}, ProcessDies(p), UNCHANGED own PROVE SelfInv'
  <2>1. ProtocolInv' BY <1>2, CrashInv DEF SelfInv
  <2>2. Steady BY <1>2, CrashSteady
  <2> QED BY <1>2, <2>1, <2>2, SteadyKeeps
<1>3. CASE StartupMarker \/ StartupReconciles
  <2>1. ProtocolInv' /\ UNCHANGED own
        BY <1>3, ReconcilesInv DEF SelfInv, StartupMarker, StartupReconciles, Reconciles
  <2>2. Steady BY <1>3, ReconcilesSteady
  <2> QED BY <2>1, <2>2, SteadyKeeps
<1> QED BY <1>1, <1>2, <1>3

LEMMA SelfNextInv == SelfInv /\ [SelfNext]_allVars => SelfInv'
<1> SUFFICES ASSUME SelfInv, [SelfNext]_allVars PROVE SelfInv'
    OBVIOUS
<1>1. CASE UNCHANGED allVars
  <2>1. ProtocolInv' BY <1>1, Unmoved DEF allVars, SelfInv
  <2>2. Steady BY <1>1 DEF allVars, lockVars, Steady, Active, Live
  <2> QED BY <1>1, <2>1, <2>2, SteadyKeeps DEF allVars
<1>2. CASE SelfNext
      BY <1>2, ProtocolKeeps, CallerStep, GiveUpKeeps, FinalizesKeep, RunnerKeeps, PanelGoes,
         StartupClosesKeeps, StartupKeeps
         DEF SelfNext, Calls, RunnerStep, Startup
<1> QED BY <1>1, <1>2

LEMMA SelfInvariance == SelfSpec => []SelfInv
<1> QED BY SelfInitInv, SelfNextInv, PTL DEF SelfSpec

-----------------------------------------------------------------------------
(* What follows from it.                                                   *)

\* Every variable keeps its type in every behaviour of a self-restore.
THEOREM SelfTypeCorrect == SelfSpec => []SelfTypeOK
<1>1. SelfInv => SelfTypeOK BY DEF SelfInv
<1> QED BY <1>1, SelfInvariance, PTL

\* A self-restore breaks nothing of the lock protocol: although its locks die
\* under it, no operation ever works beside a restore that has its permit.
THEOREM SelfExclusion == SelfSpec => []Exclusion
<1>1. SelfInv => Exclusion
      BY NamesAssumption
         DEF SelfInv, ProtocolInv, LocksTypeOK, MaintenanceInv, TargetInv, Exclusion, Holding, Ops
<1> QED BY <1>1, SelfInvariance, PTL

\* An operation that came to its end has left no marker, with a self-restore
\* whose record others may close as well.
THEOREM SelfMarkerCleared == SelfSpec => []NoMarkerLeft
<1>1. SelfInv => NoMarkerLeft
      BY DEF SelfInv, ProtocolInv, MarkerInv, NoMarkerLeft, Holding
<1> QED BY <1>1, SelfInvariance, PTL

\* While the runner rewrites the installation nothing else is at work: the
\* marker of the dead panel keeps everybody out.
THEOREM NothingElseAtWork == SelfSpec => []TreeChangesAlone
<1>1. SelfInv => TreeChangesAlone
  <2> SUFFICES ASSUME SelfInv, runner \in {"downed", "changing"}, ~early,
                      NEW o \in Ops, pc[o] = "running"
               PROVE  FALSE
      BY DEF TreeChangesAlone
  <2>1. pc[Own] = "dead" /\ marker = Own /\ exclusive = None /\ runner # "none"
        BY DEF SelfInv, LocksInv
  <2>2. shared = {} BY <2>1 DEF SelfInv, LocksInv
  <2> QED BY <2>1, <2>2, NamesAssumption
          DEF SelfInv, ProtocolInv, MaintenanceInv, Holding, Ops
<1> QED BY <1>1, SelfInvariance, PTL

\* Where the unit adopts a live runner, the record says of the installation what
\* is so, whoever closes it and whatever died before.
THEOREM VerdictTrue == Adopts => (SelfSpec => []VerdictIsTrue)
<1> SUFFICES ASSUME Adopts PROVE SelfSpec => []VerdictIsTrue
    OBVIOUS
<1>1. SelfInv => VerdictIsTrue
      BY DEF SelfInv, RunnerInv, VerdictInv, VerdictIsTrue
<1> QED BY <1>1, SelfInvariance, PTL

-----------------------------------------------------------------------------
(* Records.                                                                *)

\* As RecordInv, but for Own: its adopter leaves with the record still open.
SelfRecordInv ==
    \A o \in Ops :
        /\ pc[o] = "idle" => record[o] = "none"
        /\ pc[o] = "done" => ~Active(o)
        /\ pc[o] \in {"releasing", "leaving"} /\ o # Own => ~Active(o)
        /\ record[o] = "abandoned" => pc[o] = "dead"

LEMMA SelfRecordStep == LocksTypeOK /\ SelfRecordInv /\ [SelfNext]_allVars => SelfRecordInv'
<1> SUFFICES ASSUME LocksTypeOK, SelfRecordInv, [SelfNext]_allVars PROVE SelfRecordInv'
    OBVIOUS
<1> USE OwnAssumption DEF LocksTypeOK, SelfRecordInv, Active, Go, reconciliation, Ops
<1>1. CASE UNCHANGED lockVars BY <1>1 DEF lockVars
<1>2. ASSUME NEW o \in Ops, StartOp(o) \/ Begins(o) PROVE SelfRecordInv'
      BY <1>2 DEF StartOp, Begins, EnterAdmission, Refused, AdmissionTimeout, Raised,
                  TakeMaintenance, MaintenanceTimeout, TakeTarget, TargetTimeout
<1>3. ASSUME NEW o \in Ops, Protocol(o), ~Begins(o) PROVE SelfRecordInv'
      BY <1>3 DEF Protocol, Finish, ReleaseTarget, ReleaseMaintenance, Clear, ClearGivesUp,
                  AfterClear, Fail, ReleaseOwner
<1>4. ASSUME NEW p \in Procs, ProcessDies(p) PROVE SelfRecordInv'
      BY <1>4 DEF ProcessDies, Live
<1>5. CASE PanelEnds BY <1>5 DEF PanelEnds, Live
<1>6. CASE GiveUp BY <1>6 DEF GiveUp
<1>7. CASE CallerFinalizes \/ AdopterFinalizes \/ ConsoleFinalizes \/ StartupCloses
      BY <1>7 DEF CallerFinalizes, AdopterFinalizes, ConsoleFinalizes, StartupCloses, Finalized
<1>8. CASE StartupAdopts BY <1>8 DEF StartupAdopts, Adoptable
<1>9. CASE ReconcileEnters \/ ReconcileMarker \/ ReconcileLists \/ ReconcileEnds
      BY <1>9 DEF ReconcileEnters, ReconcileMarker, ReconcileLists, ReconcileEnds
<1>10. ASSUME NEW o \in Ops, ReconcileJudges(o) PROVE SelfRecordInv'
      BY <1>10 DEF ReconcileJudges, Judged, Live
<1>11. CASE SelfNext
  <2>1. CASE Announce \/ Launch \/ RequestCancel \/ CrossBoundary \/ OpenGate
        BY <1>1, <2>1 DEF Announce, Launch, RequestCancel, CrossBoundary, OpenGate
  <2>2. CASE (RunnerStep /\ ~RunnerStops) \/ RunnerDies \/ ServiceStarted
        BY <1>1, <2>2
           DEF RunnerStep, RunnerEnters, RunnerPasses, RunnerRefuses, RunnerReportsStop,
               RunnerExtracts, RunnerChanged, RunnerStarts, RunnerSucceeds, RunnerFails,
               RunnerDies, ServiceStarted
  <2>3. CASE PanelDies \/ RunnerStops BY <1>5, <2>3 DEF PanelDies, RunnerStops
  <2>4. CASE StartupMarker \/ StartupReconciles \/ StartupEnds
        BY <1>9, <1>10, <2>4 DEF StartupMarker, StartupReconciles, StartupEnds
  <2> QED BY <1>2, <1>3, <1>4, <1>6, <1>7, <1>8, <1>11, <2>1, <2>2, <2>3, <2>4
          DEF SelfNext, Starts, Calls, RunnerStep, Startup
<1> QED BY <1>1, <1>11 DEF allVars

\* A self-restore's record, too, is abandoned only over a dead owner: not over an
\* adopter, which holds nothing else of what the operation held.
THEOREM SelfAbandonedAreDead == SelfSpec => []OnlyDeadAbandoned
<1>1. SelfInit => SelfRecordInv
      BY DEF SelfInit, LocksInit, SelfRecordInv, Active
<1>2. SelfRecordInv => OnlyDeadAbandoned
      BY DEF SelfRecordInv, OnlyDeadAbandoned
<1>3. SelfInv => LocksTypeOK BY DEF SelfInv, ProtocolInv
<1> QED BY <1>1, <1>2, <1>3, SelfRecordStep, SelfInvariance, PTL DEF SelfSpec

-----------------------------------------------------------------------------
(* BackupStore.                                                            *)

-----------------------------------------------------------------------------
(* The invariant.                                                           *)

Absent(a) == files[a] = "none" /\ ~cat[a].in
\* Where a thread works on a backup; the steps of the scheduler alone.
Armed == {"publish", "sum", "catalog", "complete", "opfail", "opcancel",
          "cut", "cutsum", "finish", "verify"}
SchedPcs == {"pend", "claim", "next", "done", "fail"}
Busy(t) == Publishing(t) \/ Deleting(t)

\* What a thread's step relies on: its operation is the running one, its backup
\* is its own until it is published, and the one it deletes is marked.
ThreadOK(t) ==
  LET a == th[t].art IN
  /\ th[t].pc \in Armed => a \in Arts
  /\ Creating(t) => ops[a].status = "active" /\ ops[a].day = th[t].day /\ a \notin retired
  /\ Publishing(t) => ~ops[a].cancel
  /\ th[t].pc \in {"publish", "opcancel"} => Absent(a)
  /\ th[t].pc \in {"sum", "catalog"} => ~cat[a].in
  /\ At(t, "catalog") => files[a] = "pair"
  /\ Deleting(t) => cat[a].claim = "deleting" /\ cat[a].who = t
  /\ At(t, "finish") => files[a] = "none"

\* Two threads neither publish or delete at once nor create the same backup.
Apart ==
  /\ ~(Busy("sched") /\ Busy("user"))
  /\ Creating("sched") /\ Creating("user") => th["sched"].art # th["user"].art

\* A listed backup that is not whole is on the way to be checked.
Torn(a) == cat[a].in /\ cat[a].claim \in {"no", "claimed"} /\ files[a] # "pair"
ArtOK(a) ==
  /\ ops[a].status = "none" => ops[a].day = 0 /\ Absent(a) /\ a \notin retired
  /\ ops[a].cancel => ops[a].status # "done"
  /\ ops[a].status = "cancelled" => Absent(a)
  /\ a \in retired => files[a] = "none"
  /\ cat[a].in => cat[a].once
  /\ Torn(a) => boot.pc \in {"down", "ops", "claims", "failed"} \/ (boot.pc = "pairs" /\ a \in boot.todo)

\* Occurrences are worked off in the order of their days, and one that is still
\* to be run has no operation the user has not cleared.
Closed(d) == \A a \in Arts : ops[a].day = d => ops[a].status = "cleared"
SchedOK ==
  /\ boot.pc # "up" => At("sched", "idle") /\ queue = <<>>
  /\ boot.pc = "down" => At("user", "idle")
  /\ th["user"].day = 0 /\ th["user"].pc \notin SchedPcs /\ ~At("sched", "verify")
  /\ row.day <= today /\ (row.day = 0 => row.status = "completed")
  /\ \A a \in Arts : ops[a].day <= row.day
  /\ ~At("sched", "idle") => th["sched"].day \in 1..row.day
  /\ At("sched", "op") => Closed(th["sched"].day)
QueueOK ==
  \A i \in 1..Len(queue) :
    /\ queue[i].day \in 1..row.day
    /\ queue[i].pc = "op" => Closed(queue[i].day)
    /\ ~At("sched", "idle") => th["sched"].day < queue[i].day
    /\ \A j \in 1..Len(queue) : i < j => queue[i].day < queue[j].day

\* Once a start has looked at the operations, a running one has its thread.
OwnedOK ==
  boot.pc \notin {"down", "ops", "failed"} =>
    \A a \in Arts : ops[a].status = "active" => \E t \in Threads : th[t].art = a /\ Creating(t)

\* Enough newer backups stay behind each that retention has removed, removes or
\* is going to remove, the oldest first.
Later(a) == {b \in Arts \ retired : b > a /\ ops[b].day # 0 /\ cat[b].once}
Kept(a) == Cardinality(Later(a)) >= Keep
KeepOK ==
  /\ \A a \in retired : Kept(a)
  /\ Deleting("sched") => LET a == th["sched"].art IN
        Kept(a) /\ ops[a].day # 0 /\ \A s \in th["sched"].todo : s.art > a
  /\ \A s \in th["sched"].todo : Kept(s.art) /\ ops[s.art].day # 0

UsedOK == \E n \in 0..MaxArts : {a \in Arts : ops[a].status # "none"} = 1..n

Inv ==
  /\ TypeOK
  /\ \A t \in Threads : ThreadOK(t)
  /\ \A a \in Arts : ArtOK(a)
  /\ Apart /\ SchedOK /\ QueueOK /\ OwnedOK /\ KeepOK /\ UsedOK
  /\ OncePerOccurrence


-----------------------------------------------------------------------------
(* What the assignments do, field by field.                                 *)

Pcs == {"idle", "op", "publish", "sum", "catalog", "complete", "opfail", "opcancel",
        "pend", "claim", "next", "cut", "cutsum", "finish", "done", "fail", "verify"}
Moved(t, at, day, art, ver, todo) ==
  /\ th' \in [Threads -> ThreadType]
  /\ th'[t].pc = at /\ th'[t].day = day /\ th'[t].art = art /\ th'[t].ver = ver
  /\ th'[t].todo = todo
  /\ \A s \in Threads : s # t => th'[s] = th[s]
\* The only thing that happens to thread t is that it goes on at the place.
Goes2(t, at) == Moved(t, at, th[t].day, th[t].art, th[t].ver, th[t].todo)
Recorded(a, in, claim, who, once) ==
  /\ cat' \in [Arts -> CatType]
  /\ cat'[a].in = in /\ cat'[a].claim = claim /\ cat'[a].who = who /\ cat'[a].once = once
  /\ \A b \in Arts : b # a => cat'[b] = cat[b]
Operated(a, day, cancel, stage, status) ==
  /\ ops' \in [Arts -> OpType]
  /\ ops'[a].day = day /\ ops'[a].cancel = cancel /\ ops'[a].stage = stage
  /\ ops'[a].status = status
  /\ \A b \in Arts : b # a => ops'[b] = ops[b]
Filed(a, f) ==
  /\ files' \in [Arts -> Files] /\ files'[a] = f
  /\ \A b \in Arts : b # a => files'[b] = files[b]

\* A record of a thread with a field replaced.
LEMMA ThreadFields ==
  ASSUME NEW r \in ThreadType, NEW p \in Pcs, NEW a \in 0..MaxArts, NEW S \in SUBSET Snap
  PROVE  /\ [r EXCEPT !.pc = p] \in ThreadType
         /\ [r EXCEPT !.pc = p].pc = p /\ [r EXCEPT !.pc = p].day = r.day
         /\ [r EXCEPT !.pc = p].art = r.art /\ [r EXCEPT !.pc = p].ver = r.ver
         /\ [r EXCEPT !.pc = p].todo = r.todo
         /\ [r EXCEPT !.art = a] \in ThreadType
         /\ [r EXCEPT !.art = a].art = a /\ [r EXCEPT !.art = a].day = r.day
         /\ [r EXCEPT !.art = a].pc = r.pc /\ [r EXCEPT !.art = a].ver = r.ver
         /\ [r EXCEPT !.art = a].todo = r.todo
         /\ [r EXCEPT !.todo = S] \in ThreadType
         /\ [r EXCEPT !.todo = S].todo = S /\ [r EXCEPT !.todo = S].day = r.day
         /\ [r EXCEPT !.todo = S].pc = r.pc /\ [r EXCEPT !.todo = S].ver = r.ver
         /\ [r EXCEPT !.todo = S].art = r.art
BY DEF ThreadType, Pcs

\* A thread is given a new record.
LEMMA BecomesMoved ==
  ASSUME th \in [Threads -> ThreadType], NEW t \in Threads, NEW r \in ThreadType, Becomes(t, r)
  PROVE  Moved(t, r.pc, r.day, r.art, r.ver, r.todo)
BY DEF Becomes, Moved

\* A thread goes on at p.
LEMMA GoesMoved ==
  ASSUME th \in [Threads -> ThreadType], NEW t \in Threads, NEW p \in Pcs, Goes(t, p)
  PROVE  Goes2(t, p)
<1> DEFINE r == [th[t] EXCEPT !.pc = p]
<1>1. th[t] \in ThreadType /\ 0 \in 0..MaxArts /\ {} \in SUBSET Snap
      BY StoreAssumption
<1>2. /\ r \in ThreadType /\ r.pc = p /\ r.day = th[t].day /\ r.art = th[t].art
      /\ r.ver = th[t].ver /\ r.todo = th[t].todo
      BY <1>1, ThreadFields
<1>3. Becomes(t, r)
      BY DEF Goes, Becomes
<1>4. Moved(t, r.pc, r.day, r.art, r.ver, r.todo)
      BY <1>2, <1>3, BecomesMoved
<1> QED BY <1>2, <1>4 DEF Goes2

\* The record of a backup changes.
LEMMA RecordFacts ==
  ASSUME cat \in [Arts -> CatType], NEW a \in Arts, NEW c \in Claims, NEW w \in Threads,
         Record(a, c, w)
  PROVE  Recorded(a, cat[a].in, c, w, cat[a].once)
<1> DEFINE v == cat[a].ver + 1
           r == [in |-> cat[a].in, ver |-> v, claim |-> c, old |-> FALSE, who |-> w,
                 once |-> cat[a].once]
<1>1. cat[a] \in CatType /\ v \in Nat /\ cat[a].in \in BOOLEAN /\ cat[a].once \in BOOLEAN
      BY DEF CatType
<1>2. r \in CatType
      BY <1>1 DEF CatType
<1>3. cat' = [cat EXCEPT ![a] = r]
      BY <1>1 DEF Record, CatType
<1> QED BY <1>2, <1>3 DEF Recorded

\* A backup is listed, or its record goes.
LEMMA ListFacts ==
  ASSUME cat \in [Arts -> CatType], NEW a \in Arts
  PROVE  /\ Publish(a) => Recorded(a, TRUE, "no", "user", TRUE)
         /\ Drop(a) => Recorded(a, FALSE, "no", "user", TRUE)
<1> DEFINE p == [in |-> TRUE, ver |-> 1, claim |-> "no", old |-> FALSE, who |-> "user",
                 once |-> TRUE]
           d == [in |-> FALSE, ver |-> 0, claim |-> "no", old |-> FALSE, who |-> "user",
                 once |-> TRUE]
<1>1. p \in CatType /\ d \in CatType
      BY DEF CatType, Claims, Threads
<1>2. /\ Publish(a) => cat' = [cat EXCEPT ![a] = p]
      /\ Drop(a) => cat' = [cat EXCEPT ![a] = d]
      BY DEF Publish, Drop, Gone
<1>3. ASSUME Publish(a) PROVE Recorded(a, TRUE, "no", "user", TRUE)
  <2>1. cat' = [cat EXCEPT ![a] = p]
        BY <1>2, <1>3
  <2> QED BY <1>1, <2>1 DEF Recorded
<1>4. ASSUME Drop(a) PROVE Recorded(a, FALSE, "no", "user", TRUE)
  <2>1. cat' = [cat EXCEPT ![a] = d]
        BY <1>2, <1>4
  <2> QED BY <1>1, <2>1 DEF Recorded
<1> QED BY <1>3, <1>4

Statuses == {"none", "active", "done", "failed", "cancelled", "cleared"}

\* An operation gets another status, another stage, or its cancellation.
LEMMA OpFacts ==
  ASSUME ops \in [Arts -> OpType], NEW a \in Arts, NEW s \in Statuses
  PROVE  /\ OpStatus(a, s) => Operated(a, ops[a].day, ops[a].cancel, ops[a].stage, s)
         /\ ops' = [ops EXCEPT ![a].stage = "publish"]
              => Operated(a, ops[a].day, ops[a].cancel, "publish", ops[a].status)
         /\ ops' = [ops EXCEPT ![a].cancel = TRUE]
              => Operated(a, ops[a].day, TRUE, ops[a].stage, ops[a].status)
<1>1. ops[a] \in OpType
      OBVIOUS
<1>2. /\ [ops[a] EXCEPT !.status = s] \in OpType
      /\ [ops[a] EXCEPT !.stage = "publish"] \in OpType
      /\ [ops[a] EXCEPT !.cancel = TRUE] \in OpType
      BY <1>1 DEF OpType, Statuses
<1>3. ASSUME OpStatus(a, s)
      PROVE  Operated(a, ops[a].day, ops[a].cancel, ops[a].stage, s)
      BY <1>1, <1>2, <1>3 DEF OpStatus, Operated, OpType
<1>4. ASSUME ops' = [ops EXCEPT ![a].stage = "publish"]
      PROVE  Operated(a, ops[a].day, ops[a].cancel, "publish", ops[a].status)
      BY <1>1, <1>2, <1>4 DEF Operated, OpType
<1>5. ASSUME ops' = [ops EXCEPT ![a].cancel = TRUE]
      PROVE  Operated(a, ops[a].day, TRUE, ops[a].stage, ops[a].status)
      BY <1>1, <1>2, <1>5 DEF Operated, OpType
<1> QED BY <1>3, <1>4, <1>5

-----------------------------------------------------------------------------
(* What leaves a part of the invariant alone.                               *)

LEMMA ArtsFinite == IsFiniteSet(Arts) /\ Cardinality(Arts) = MaxArts
BY FS_Interval, StoreAssumption DEF Arts

\* A larger set of backups is at least as many.
LEMMA MoreArts ==
  ASSUME NEW S \in SUBSET Arts, NEW T \in SUBSET S
  PROVE  Cardinality(T) <= Cardinality(S) /\ Cardinality(S) \in Nat /\ Cardinality(T) \in Nat
<1>1. IsFiniteSet(S)
      BY ArtsFinite, FS_Subset
<1> QED BY <1>1, FS_Subset, FS_CardinalityType

\* Keep backups that are kept stay enough.
LEMMA KeptStays ==
  ASSUME NEW a \in Int, NEW S \in SUBSET Arts, NEW T \in SUBSET S, Cardinality(T) >= Keep
  PROVE  Cardinality(S) >= Keep
BY MoreArts, StoreAssumption

LEMMA KeepFrame ==
  ASSUME TypeOK, KeepOK, retired' = retired,
         \A a \in Arts : ops[a].day # 0 => ops'[a].day # 0,
         \A a \in Arts : cat[a].once => cat'[a].once,
         th'["sched"].todo \subseteq th["sched"].todo,
         Deleting("sched")' => Deleting("sched") /\ th'["sched"].art = th["sched"].art,
         Deleting("sched") => th["sched"].art \in Arts
  PROVE  KeepOK'
<1>1. ASSUME NEW a \in Int, Kept(a) PROVE Kept(a)'
  <2>1. Later(a) \subseteq Later(a)' /\ Later(a)' \subseteq Arts
        BY DEF Later
  <2> QED BY <2>1, <1>1, KeptStays DEF Kept
<1>2. retired \subseteq Arts /\ Arts \subseteq Int /\ th["sched"].todo \subseteq Snap
      BY DEF TypeOK, Arts, ThreadType, Threads
<1>3. \A s \in Snap : s.art \in Arts
      BY DEF Snap
<1>4. \A a \in retired' : Kept(a)'
      BY <1>1, <1>2 DEF KeepOK
<1>5. (Deleting("sched") => LET a == th["sched"].art IN
         Kept(a) /\ ops[a].day # 0 /\ \A s \in th["sched"].todo : s.art > a)'
      BY <1>1, <1>2 DEF KeepOK, Kept, Later
<1>6. \A s \in th'["sched"].todo : Kept(s.art)' /\ ops'[s.art].day # 0
  <2> TAKE s \in th'["sched"].todo
  <2>1. s.art \in Arts /\ s.art \in Int /\ Kept(s.art) /\ ops[s.art].day # 0
        BY <1>2, <1>3 DEF KeepOK
  <2> QED BY <2>1, <1>1 DEF Kept, Later
<1> QED BY <1>4, <1>5, <1>6 DEF KeepOK

LEMMA QueueFrame ==
  ASSUME QueueOK, queue' = queue, row'.day = row.day,
         At("sched", "idle") => At("sched", "idle")',
         ~At("sched", "idle")' => th'["sched"].day = th["sched"].day,
         \A a \in Arts : ops[a].status = "cleared" => ops'[a].status = "cleared",
         \A a \in Arts : ops'[a].day = ops[a].day
                         \/ \A i \in 1..Len(queue) : ops'[a].day # queue[i].day
  PROVE  QueueOK'
<1> SUFFICES ASSUME NEW i \in 1..Len(queue)
             PROVE  /\ queue[i].day \in 1..row'.day
                    /\ queue[i].pc = "op" => Closed(queue[i].day)'
                    /\ ~At("sched", "idle")' => th'["sched"].day < queue[i].day
                    /\ \A j \in 1..Len(queue) : i < j => queue[i].day < queue[j].day
    BY DEF QueueOK
<1>1. queue[i].pc = "op" => Closed(queue[i].day)'
      BY DEF QueueOK, Closed
<1> QED BY <1>1 DEF QueueOK

LEMMA OwnedFrame ==
  ASSUME OwnedOK, boot.pc \in {"down", "ops", "failed"} => boot'.pc \in {"down", "ops", "failed"},
         \A a \in Arts : ops'[a].status = "active" => ops[a].status = "active",
         \A a \in Arts : ops'[a].status = "active" => 
           \A t \in Threads : th[t].art = a /\ Creating(t) => th'[t].art = a /\ Creating(t)'
  PROVE  OwnedOK'
BY DEF OwnedOK

LEMMA UsedFrame ==
  ASSUME UsedOK, \A a \in Arts : ops'[a].status = "none" <=> ops[a].status = "none"
  PROVE  UsedOK'
<1>1. {a \in Arts : ops'[a].status # "none"} = {a \in Arts : ops[a].status # "none"}
      OBVIOUS
<1> QED BY <1>1 DEF UsedOK

LEMMA OnceFrame ==
  ASSUME OncePerOccurrence, \A a \in Arts : ops'[a].day = ops[a].day,
         \A a \in Arts : ops[a].status = "cleared" => ops'[a].status = "cleared"
  PROVE  OncePerOccurrence'
BY DEF OncePerOccurrence

\* A claimed day stays free of operations.
LEMMA ClosedFrame ==
  ASSUME NEW d, Closed(d), \A a \in Arts : ops'[a].day = d => ops[a].day = d,
         \A a \in Arts : ops[a].status = "cleared" => ops'[a].status = "cleared"
  PROVE  Closed(d)'
BY DEF Closed

\* The destination is free: nobody else publishes or deletes.
LEMMA FreeOthers ==
  ASSUME NEW t \in Threads, DestinationFree(t)
  PROVE  \A s \in Threads : s # t => ~Publishing(s) /\ ~Deleting(s)
BY DEF DestinationFree

\* Retention removes the oldest first: those that stay behind for the others stay.
LEMMA RetiredKept ==
  ASSUME TypeOK, KeepOK, Deleting("sched"), th["sched"].art \in Arts,
         retired' = retired \cup {th["sched"].art}, ops' = ops,
         \A b \in Arts : cat[b].once => cat'[b].once,
         th'["sched"].todo = th["sched"].todo, ~Deleting("sched")'
  PROVE  KeepOK'
<1> DEFINE a == th["sched"].art
<1>1. ASSUME NEW b \in Int, Kept(b)
      PROVE  Kept(b)'
  <2>1. Later(b)' \subseteq Arts /\ Later(a) \subseteq Arts /\ Later(b) \subseteq Arts
        BY DEF Later
  <2>2. CASE b < a
    <3>1. Later(a) \subseteq Later(b)'
          BY <2>2 DEF Later, Arts
    <3>2. Cardinality(Later(a)) >= Keep
          BY DEF KeepOK, Kept
    <3> QED BY <2>1, <3>1, <3>2, KeptStays DEF Kept
  <2>3. CASE b >= a
    <3>1. Later(b) \subseteq Later(b)'
          BY <2>3 DEF Later, Arts
    <3> QED BY <1>1, <2>1, <3>1, KeptStays DEF Kept
  <2> QED BY <2>2, <2>3 DEF Arts
<1>2. retired \subseteq Arts /\ Arts \subseteq Int /\ th["sched"].todo \subseteq Snap
      BY DEF TypeOK, Arts, ThreadType, Threads
<1>3. \A s \in Snap : s.art \in Arts
      BY DEF Snap
<1>4. \A b \in retired' : Kept(b)'
  <2> TAKE b \in retired'
  <2>1. b \in Int /\ Kept(b)
        BY <1>2 DEF KeepOK
  <2> QED BY <2>1, <1>1 DEF Kept, Later
<1>5. \A s \in th'["sched"].todo : Kept(s.art)' /\ ops'[s.art].day # 0
  <2> TAKE s \in th'["sched"].todo
  <2>1. s.art \in Arts /\ s.art \in Int /\ Kept(s.art) /\ ops[s.art].day # 0 /\ s.art > a
        BY <1>2, <1>3 DEF KeepOK
  <2> QED BY <2>1, <1>1 DEF Kept, Later
<1> QED BY <1>4, <1>5 DEF KeepOK

-----------------------------------------------------------------------------
(* How each step can go.                                                    *)

\* A thread goes on at a step where it only reports: nothing else changes.
LEMMA Stumbles ==
  ASSUME Inv,
         NEW t \in Threads,
         NEW p \in {"idle", "fail", "done", "opfail", "opcancel"},
         Goes2(t, p),
         UNCHANGED <<files, cat, ops, row, queue, boot, today, retired, muted>>,
         faults' \in 0..MaxFaults, edits' \in 0..MaxEdits,
         th[t].pc # "idle", ~Deleting(t),
         Creating(t) <=> p \in {"opfail", "opcancel"},
         p = "opcancel" => At(t, "publish"),
         p \in {"fail", "done"} => t = "sched"
  PROVE  Inv'
<1> USE DEF Inv
<1>1. TypeOK'
      BY DEF TypeOK, Moved, Goes2
<1>2. ASSUME NEW u \in Threads PROVE ThreadOK(u)'
      BY DEF ThreadOK, Creating, Publishing, Deleting, At, Absent, Armed, Threads,
         Moved, Goes2
<1>3. ASSUME NEW b \in Arts PROVE ArtOK(b)'
      BY DEF ArtOK, Absent, Torn
<1>4. Apart'
      BY DEF Apart, Busy, Creating, Publishing, Deleting, At, Threads, Moved, Goes2
<1>5. SchedOK'
      BY DEF SchedOK, Closed, SchedPcs, At, Threads, Moved, Goes2
<1>6. QueueOK'
      BY QueueFrame DEF At, Threads, Moved, Goes2
<1>7. OwnedOK'
      BY OwnedFrame DEF Creating, Publishing, At, Threads, Moved, Goes2
<1>8. KeepOK'
      BY KeepFrame DEF Deleting, At, ThreadOK, Armed, Threads, Moved, Goes2
<1>9. UsedOK'
      BY UsedFrame
<1>10. OncePerOccurrence'
      BY OnceFrame
<1> QED BY <1>1, <1>2, <1>3, <1>4, <1>5, <1>6, <1>7, <1>8, <1>9, <1>10

\* The operation is created.
LEMMA Created ==
  ASSUME Inv,
         NEW t \in Threads,
         NEW a \in Arts,
         At(t, "op"),
         ops[a].status = "none",
         \A b \in Arts : b > a => ops[b].status = "none",
         {b \in Arts : ops[b].status # "none"} = 1..(a - 1),
         Moved(t, "publish", th[t].day, a, th[t].ver, th[t].todo),
         Operated(a, th[t].day, ops[a].cancel, ops[a].stage, "active"),
         UNCHANGED <<files, cat, row, queue, boot, today, retired, muted, faults,
            edits>>
  PROVE  Inv'
<1> USE DEF Inv
<1>0. ops[a].day = 0 /\ Absent(a) /\ a \notin retired
      BY DEF ArtOK
<1>1. TypeOK'
      BY DEF TypeOK, Moved, Operated
<1>2. ASSUME NEW u \in Threads PROVE ThreadOK(u)'
      BY <1>0 DEF ThreadOK, Creating, Publishing, Deleting, At, Absent, Armed,
         Threads, Moved, Operated
<1>3. ASSUME NEW b \in Arts PROVE ArtOK(b)'
      BY DEF ArtOK, Absent, Torn, Moved, Operated
<1>4. Apart'
      BY DEF Apart, Busy, ThreadOK, Creating, Publishing, Deleting, At, Threads,
         Moved, Operated
<1>5. SchedOK'
  <2>1. th[t].day <= row.day
        BY StoreAssumption DEF SchedOK, TypeOK, RowType, At, Threads
  <2>2. \A b \in Arts : ops'[b].day <= row'.day
        BY <2>1 DEF SchedOK, Operated
  <2>3. (At("sched", "op") => Closed(th["sched"].day))'
    <3> SUFFICES ASSUME At("sched", "op")', NEW b \in Arts, ops'[b].day = th'["sched"].day
                 PROVE  ops'[b].status = "cleared"
      BY DEF Closed
    <3>1. t = "user" /\ th'["sched"] = th["sched"]
          BY DEF At, Moved, Threads
    <3>2. b # a
          BY <3>1 DEF SchedOK, At, Operated, Threads
    <3> QED BY <3>1, <3>2 DEF SchedOK, Closed, At, Operated
  <2> QED BY <2>2, <2>3 DEF SchedOK, SchedPcs, At, Threads, Moved
<1>6. QueueOK'
  <2>1. \A i \in 1..Len(queue) : queue[i].day \in 1..row.day /\ queue[i].day # th[t].day
        BY <1>0 DEF QueueOK, SchedOK, At, Threads
  <2> QED BY <2>1, <1>0, QueueFrame DEF At, Moved, Operated, Threads
<1>7. OwnedOK'
      BY <1>0 DEF OwnedOK, ThreadOK, At, Creating, Publishing, Threads, Moved, Operated
<1>8. KeepOK'
      BY <1>0, KeepFrame DEF Deleting, At, ThreadOK, Armed, Threads, Moved, Operated
<1>9. UsedOK'
  <2>1. {b \in Arts : ops'[b].status # "none"} = 1..a
        BY DEF Operated, Arts
  <2> QED BY <2>1, StoreAssumption DEF UsedOK, Arts
<1>10. OncePerOccurrence'
  <2>1. \A b \in Arts : b > a => ops[b].day = 0
        BY DEF ArtOK
  <2>2. \A b \in Arts : ops[b].day = th[t].day /\ th[t].day # 0 => ops[b].status = "cleared"
        BY DEF SchedOK, Closed, At, Threads
  <2> QED BY <1>0, <2>1, <2>2 DEF OncePerOccurrence, Operated, Arts
<1> QED BY <1>1, <1>2, <1>3, <1>4, <1>5, <1>6, <1>7, <1>8, <1>9, <1>10

\* The archive is in staging.
LEMMA Built ==
  ASSUME Inv,
         NEW t \in Threads,
         At(t, "publish"),
         Operated(th[t].art, ops[th[t].art].day, ops[th[t].art].cancel, "publish", ops[th[t].art].status),
         UNCHANGED <<files, cat, row, queue, th, boot, today, retired, muted, faults,
            edits>>
  PROVE  Inv'
<1> USE DEF Inv
<1>1. TypeOK'
      BY DEF TypeOK, Operated
<1>2. ASSUME NEW u \in Threads PROVE ThreadOK(u)'
      BY DEF ThreadOK, Creating, Publishing, Deleting, At, Absent, Armed, Threads,
         Operated
<1>3. ASSUME NEW b \in Arts PROVE ArtOK(b)'
      BY DEF ArtOK, Absent, Torn, Operated
<1>4. Apart'
      BY DEF Apart, Busy, Creating, Publishing, Deleting, At
<1>5. SchedOK'
      BY DEF SchedOK, Closed, At, Threads, Operated
<1>6. QueueOK'
      BY QueueFrame DEF At, Threads, Operated
<1>7. OwnedOK'
      BY OwnedFrame DEF Creating, Publishing, At, Threads, Operated
<1>8. KeepOK'
      BY KeepFrame DEF Deleting, At, ThreadOK, Armed, Threads, Operated
<1>9. UsedOK'
      BY UsedFrame DEF Operated
<1>10. OncePerOccurrence'
      BY OnceFrame DEF Operated
<1> QED BY <1>1, <1>2, <1>3, <1>4, <1>5, <1>6, <1>7, <1>8, <1>9, <1>10

\* The archive is in its place.
LEMMA ArchivePublished ==
  ASSUME Inv,
         NEW t \in Threads,
         At(t, "publish"), DestinationFree(t), ~ops[th[t].art].cancel,
         Goes2(t, "sum"),
         Filed(th[t].art, "archive"),
         UNCHANGED <<cat, ops, row, queue, boot, today, retired, muted, faults, edits>>
  PROVE  Inv'
<1> USE DEF Inv
<1>1. TypeOK'
      BY DEF TypeOK, Moved, Goes2, Filed
<1>2. ASSUME NEW u \in Threads PROVE ThreadOK(u)'
      BY FreeOthers DEF ThreadOK, Apart, Busy, Creating, Publishing, Deleting, At,
         Absent, Armed, Threads, Moved, Goes2, Filed
<1>3. ASSUME NEW b \in Arts PROVE ArtOK(b)'
      BY DEF ArtOK, Absent, Torn, ThreadOK, Armed, At, Creating, Publishing,
         Deleting, Moved, Goes2, Filed
<1>4. Apart'
      BY FreeOthers DEF Apart, Busy, Creating, Publishing, Deleting, At, Threads,
         Moved, Goes2, Filed
<1>5. SchedOK'
      BY DEF SchedOK, Closed, SchedPcs, At, Threads, Moved, Goes2, Filed
<1>6. QueueOK'
      BY QueueFrame DEF At, Threads, Moved, Goes2, Filed
<1>7. OwnedOK'
      BY OwnedFrame DEF Creating, Publishing, At, Threads, Moved, Goes2, Filed
<1>8. KeepOK'
      BY KeepFrame DEF Deleting, At, ThreadOK, Armed, Threads, Moved, Goes2, Filed
<1>9. UsedOK'
      BY UsedFrame
<1>10. OncePerOccurrence'
      BY OnceFrame
<1> QED BY <1>1, <1>2, <1>3, <1>4, <1>5, <1>6, <1>7, <1>8, <1>9, <1>10

\* The checksum is in its place.
LEMMA ChecksumPublished ==
  ASSUME Inv,
         NEW t \in Threads,
         At(t, "sum"),
         Goes2(t, "catalog"),
         Filed(th[t].art, "pair"),
         UNCHANGED <<cat, ops, row, queue, boot, today, retired, muted, faults, edits>>
  PROVE  Inv'
<1> USE DEF Inv
<1>1. TypeOK'
      BY DEF TypeOK, Moved, Goes2, Filed
<1>2. ASSUME NEW u \in Threads PROVE ThreadOK(u)'
      BY DEF ThreadOK, Apart, Busy, Creating, Publishing, Deleting, At, Absent,
         Armed, Threads, Moved, Goes2, Filed
<1>3. ASSUME NEW b \in Arts PROVE ArtOK(b)'
      BY DEF ArtOK, Absent, Torn, ThreadOK, Armed, At, Creating, Publishing,
         Deleting, Moved, Goes2, Filed
<1>4. Apart'
      BY DEF Apart, Busy, Creating, Publishing, Deleting, At, Threads, Moved,
         Goes2, Filed
<1>5. SchedOK'
      BY DEF SchedOK, Closed, SchedPcs, At, Threads, Moved, Goes2, Filed
<1>6. QueueOK'
      BY QueueFrame DEF At, Threads, Moved, Goes2, Filed
<1>7. OwnedOK'
      BY OwnedFrame DEF Creating, Publishing, At, Threads, Moved, Goes2, Filed
<1>8. KeepOK'
      BY KeepFrame DEF Deleting, At, ThreadOK, Armed, Threads, Moved, Goes2, Filed
<1>9. UsedOK'
      BY UsedFrame
<1>10. OncePerOccurrence'
      BY OnceFrame
<1> QED BY <1>1, <1>2, <1>3, <1>4, <1>5, <1>6, <1>7, <1>8, <1>9, <1>10

\* The backup is listed.
LEMMA Committed ==
  ASSUME Inv,
         NEW t \in Threads,
         At(t, "catalog"),
         Goes2(t, "complete"),
         Recorded(th[t].art, TRUE, "no", "user", TRUE),
         UNCHANGED <<files, ops, row, queue, boot, today, retired, muted, faults,
            edits>>
  PROVE  Inv'
<1> USE DEF Inv
<1>1. TypeOK'
      BY DEF TypeOK, Moved, Goes2, Recorded
<1>2. ASSUME NEW u \in Threads PROVE ThreadOK(u)'
      BY DEF ThreadOK, Apart, Busy, Creating, Publishing, Deleting, At, Absent,
         Armed, Threads, Moved, Goes2, Recorded
<1>3. ASSUME NEW b \in Arts PROVE ArtOK(b)'
      BY DEF ArtOK, Absent, Torn, ThreadOK, Armed, At, Creating, Publishing,
         Deleting, Moved, Goes2, Recorded
<1>4. Apart'
      BY DEF Apart, Busy, Creating, Publishing, Deleting, At, Threads, Moved,
         Goes2, Recorded
<1>5. SchedOK'
      BY DEF SchedOK, Closed, SchedPcs, At, Threads, Moved, Goes2, Recorded
<1>6. QueueOK'
      BY QueueFrame DEF At, Threads, Moved, Goes2, Recorded
<1>7. OwnedOK'
      BY OwnedFrame DEF Creating, Publishing, At, Threads, Moved, Goes2, Recorded
<1>8. KeepOK'
      BY KeepFrame DEF Deleting, At, ThreadOK, Armed, Threads, Moved, Goes2, Recorded
<1>9. UsedOK'
      BY UsedFrame
<1>10. OncePerOccurrence'
      BY OnceFrame
<1> QED BY <1>1, <1>2, <1>3, <1>4, <1>5, <1>6, <1>7, <1>8, <1>9, <1>10

\* An operation ends: done, failed or cancelled.
LEMMA OpEnded ==
  ASSUME Inv,
         NEW t \in Threads,
         NEW p \in {"idle", "pend", "fail"},
         NEW e \in {"done", "failed", "cancelled"},
         Creating(t),
         e = "done" => At(t, "complete"),
         e = "cancelled" => At(t, "opcancel"),
         t = "user" <=> p = "idle",
         Goes2(t, p),
         Operated(th[t].art, ops[th[t].art].day, ops[th[t].art].cancel, ops[th[t].art].stage, e),
         UNCHANGED <<files, cat, row, queue, boot, today, retired, muted, faults,
            edits>>
  PROVE  Inv'
<1> USE DEF Inv
<1>0. ops[th[t].art].status = "active" /\ th[t].art \in Arts
      BY DEF ThreadOK, Creating, Publishing, Armed
<1>1. TypeOK'
      BY DEF TypeOK, Moved, Goes2, Operated
<1>2. ASSUME NEW u \in Threads PROVE ThreadOK(u)'
      BY DEF ThreadOK, Apart, Busy, Creating, Publishing, Deleting, At, Absent,
         Armed, Threads, Moved, Goes2, Operated
<1>3. ASSUME NEW b \in Arts PROVE ArtOK(b)'
      BY DEF ArtOK, Absent, Torn, ThreadOK, Armed, At, Creating, Publishing,
         Deleting, Moved, Goes2, Operated
<1>4. Apart'
      BY DEF Apart, Busy, Creating, Publishing, Deleting, At, Threads, Moved,
         Goes2, Operated
<1>5. SchedOK'
      BY <1>0 DEF SchedOK, Closed, SchedPcs, TypeOK, At, Creating, Publishing,
         Deleting, Threads, Moved, Goes2, Operated
<1>6. QueueOK'
      BY <1>0, QueueFrame DEF TypeOK, At, Creating, Publishing, Deleting, Threads,
         Moved, Goes2, Operated
<1>7. OwnedOK'
      BY OwnedFrame DEF Creating, Publishing, At, Threads, Moved, Goes2, Operated
<1>8. KeepOK'
      BY KeepFrame DEF Deleting, At, ThreadOK, Armed, Threads, Moved, Goes2, Operated
<1>9. UsedOK'
      BY <1>0, UsedFrame DEF Moved, Goes2, Operated
<1>10. OncePerOccurrence'
      BY <1>0, OnceFrame DEF Moved, Goes2, Operated
<1> QED BY <1>1, <1>2, <1>3, <1>4, <1>5, <1>6, <1>7, <1>8, <1>9, <1>10

\* The deletion of a pair fails.
LEMMA DeleteFailed ==
  ASSUME Inv,
         NEW t \in Threads,
         NEW p \in {"idle", "next"},
         Deleting(t),
         Goes2(t, p),
         t = "user" <=> p = "idle",
         Recorded(th[t].art, cat[th[t].art].in, "failed", t, cat[th[t].art].once),
         UNCHANGED <<files, ops, row, queue, boot, today, retired, muted>>,
         faults' \in 0..MaxFaults, edits' \in 0..MaxEdits
  PROVE  Inv'
<1> USE DEF Inv
<1>1. TypeOK'
      BY DEF TypeOK, Moved, Goes2, Recorded
<1>2. ASSUME NEW u \in Threads PROVE ThreadOK(u)'
      BY DEF ThreadOK, Creating, Publishing, Deleting, At, Absent, Armed, Threads,
         Moved, Goes2, Recorded
<1>3. ASSUME NEW b \in Arts PROVE ArtOK(b)'
      BY DEF ArtOK, Absent, Torn, Moved, Goes2, Recorded
<1>4. Apart'
      BY DEF Apart, Busy, Creating, Publishing, Deleting, At, Threads, Moved,
         Goes2, Recorded
<1>5. SchedOK'
      BY DEF SchedOK, Closed, SchedPcs, TypeOK, At, Creating, Publishing,
         Deleting, Threads, Moved, Goes2, Recorded
<1>6. QueueOK'
      BY QueueFrame DEF TypeOK, At, Creating, Publishing, Deleting, Threads,
         Moved, Goes2, Recorded
<1>7. OwnedOK'
      BY OwnedFrame DEF ThreadOK, SchedOK, At, Creating, Publishing, Deleting,
         Threads, Moved, Goes2, Recorded
<1>8. KeepOK'
      BY KeepFrame DEF Deleting, At, ThreadOK, Armed, Threads, Moved, Goes2, Recorded
<1>9. UsedOK'
      BY UsedFrame
<1>10. OncePerOccurrence'
      BY OnceFrame
<1> QED BY <1>1, <1>2, <1>3, <1>4, <1>5, <1>6, <1>7, <1>8, <1>9, <1>10

\* The archive is unlinked.
LEMMA ArchiveCut ==
  ASSUME Inv,
         NEW t \in Threads,
         NEW f \in {"none", "checksum"},
         At(t, "cut"),
         Goes2(t, "cutsum"),
         Filed(th[t].art, f),
         files[th[t].art] = "none" => f = "none",
         UNCHANGED <<cat, ops, row, queue, boot, today, retired, muted, faults, edits>>
  PROVE  Inv'
<1> USE DEF Inv
<1>1. TypeOK'
      BY DEF TypeOK, Moved, Goes2, Filed
<1>2. ASSUME NEW u \in Threads PROVE ThreadOK(u)'
      BY DEF ThreadOK, Apart, Busy, Creating, Publishing, Deleting, At, Absent,
         Armed, Threads, Moved, Goes2, Filed
<1>3. ASSUME NEW b \in Arts PROVE ArtOK(b)'
      BY DEF ArtOK, Absent, Torn, ThreadOK, Armed, At, Creating, Publishing,
         Deleting, Moved, Goes2, Filed
<1>4. Apart'
      BY DEF Apart, Busy, Creating, Publishing, Deleting, At, Threads, Moved,
         Goes2, Filed
<1>5. SchedOK'
      BY DEF SchedOK, Closed, SchedPcs, At, Threads, Moved, Goes2, Filed
<1>6. QueueOK'
      BY QueueFrame DEF At, Threads, Moved, Goes2, Filed
<1>7. OwnedOK'
      BY OwnedFrame DEF Creating, Publishing, At, Threads, Moved, Goes2, Filed
<1>8. KeepOK'
      BY KeepFrame DEF Deleting, At, ThreadOK, Armed, Threads, Moved, Goes2, Filed
<1>9. UsedOK'
      BY UsedFrame
<1>10. OncePerOccurrence'
      BY OnceFrame
<1> QED BY <1>1, <1>2, <1>3, <1>4, <1>5, <1>6, <1>7, <1>8, <1>9, <1>10

\* The checksum is unlinked.
LEMMA ChecksumCut ==
  ASSUME Inv,
         NEW t \in Threads,
         At(t, "cutsum"),
         Goes2(t, "finish"),
         Filed(th[t].art, "none"),
         UNCHANGED <<cat, ops, row, queue, boot, today, retired, muted, faults, edits>>
  PROVE  Inv'
<1> USE DEF Inv
<1>1. TypeOK'
      BY DEF TypeOK, Moved, Goes2, Filed
<1>2. ASSUME NEW u \in Threads PROVE ThreadOK(u)'
      BY DEF ThreadOK, Apart, Busy, Creating, Publishing, Deleting, At, Absent,
         Armed, Threads, Moved, Goes2, Filed
<1>3. ASSUME NEW b \in Arts PROVE ArtOK(b)'
      BY DEF ArtOK, Absent, Torn, ThreadOK, Armed, At, Creating, Publishing,
         Deleting, Moved, Goes2, Filed
<1>4. Apart'
      BY DEF Apart, Busy, Creating, Publishing, Deleting, At, Threads, Moved,
         Goes2, Filed
<1>5. SchedOK'
      BY DEF SchedOK, Closed, SchedPcs, At, Threads, Moved, Goes2, Filed
<1>6. QueueOK'
      BY QueueFrame DEF At, Threads, Moved, Goes2, Filed
<1>7. OwnedOK'
      BY OwnedFrame DEF Creating, Publishing, At, Threads, Moved, Goes2, Filed
<1>8. KeepOK'
      BY KeepFrame DEF Deleting, At, ThreadOK, Armed, Threads, Moved, Goes2, Filed
<1>9. UsedOK'
      BY UsedFrame
<1>10. OncePerOccurrence'
      BY OnceFrame
<1> QED BY <1>1, <1>2, <1>3, <1>4, <1>5, <1>6, <1>7, <1>8, <1>9, <1>10

\* The record of a deleted pair goes, or the write of it fails.
LEMMA PairGone ==
  ASSUME Inv,
         NEW t \in Threads,
         NEW p \in {"idle", "next"},
         At(t, "finish"),
         Goes2(t, p),
         t = "user" <=> p = "idle",
         cat' = cat \/ Recorded(th[t].art, FALSE, "no", "user", TRUE),
         retired' = IF t = "sched" THEN retired \cup {th[t].art} ELSE retired,
         cat' \in [Arts -> CatType],
         UNCHANGED <<files, ops, row, queue, boot, today, muted>>,
         faults' \in 0..MaxFaults, edits' \in 0..MaxEdits
  PROVE  Inv'
<1> USE DEF Inv
<1> DEFINE a == th[t].art
<1>0. /\ a \in Arts /\ files[a] = "none" /\ cat[a].claim = "deleting" /\ cat[a].who = t
      /\ Deleting(t)
      /\ retired' \in SUBSET Arts
      /\ t = "sched" => ops[a].day # 0 /\ ops[a].status # "none"
      /\ t = "sched" => \A s \in Threads : Creating(s) => th[s].art # a
  <2>1. a \in Arts /\ files[a] = "none" /\ cat[a].claim = "deleting" /\ cat[a].who = t
        BY DEF ThreadOK, Armed, Deleting, At
  <2>2. t = "sched" => ops[a].day # 0
        BY DEF KeepOK, Deleting, At
  <2>3. t = "sched" => \A s \in Threads : Creating(s) => th[s].art # a
        BY <2>2 DEF ThreadOK, SchedOK, Threads, Creating, Publishing, At
  <2> QED BY <2>1, <2>2, <2>3 DEF ArtOK, Deleting, At, TypeOK
<1>1. TypeOK'
      BY <1>0 DEF TypeOK, Moved, Goes2, Recorded
<1>2. ASSUME NEW u \in Threads PROVE ThreadOK(u)'
      BY <1>0 DEF ThreadOK, Creating, Publishing, Deleting, At, Absent, Armed,
         Threads, Moved, Goes2, Recorded
<1>3. ASSUME NEW b \in Arts PROVE ArtOK(b)'
      BY <1>0 DEF ArtOK, Absent, Torn, Moved, Goes2, Recorded
<1>4. Apart'
      BY DEF Apart, Busy, Creating, Publishing, Deleting, At, Threads, Moved,
         Goes2, Recorded
<1>5. SchedOK'
      BY DEF SchedOK, Closed, SchedPcs, At, Threads, Moved, Goes2, Recorded
<1>6. QueueOK'
      BY QueueFrame DEF At, Threads, Moved, Goes2, Recorded
<1>7. OwnedOK'
      BY OwnedFrame DEF Creating, Publishing, At, Threads, Moved, Goes2, Recorded
<1>8. KeepOK'
  <2>1. CASE t = "user"
        BY <2>1, KeepFrame DEF ThreadOK, Armed, Deleting, At, Moved, Goes2,
           Recorded, Threads
  <2>2. CASE t = "sched"
        BY <2>2, RetiredKept, <1>0 DEF Moved, Goes2, Recorded, Threads, TypeOK,
           ThreadType
  <2> QED BY <2>1, <2>2 DEF Threads
<1>9. UsedOK'
      BY UsedFrame
<1>10. OncePerOccurrence'
      BY OnceFrame
<1> QED BY <1>1, <1>2, <1>3, <1>4, <1>5, <1>6, <1>7, <1>8, <1>9, <1>10

\* The user starts a backup.
LEMMA AskedToCreate ==
  ASSUME Inv,
         Up, At("user", "idle"),
         Goes2("user", "op"),
         UNCHANGED <<files, cat, ops, row, queue, boot, today, retired, muted>>,
         faults' \in 0..MaxFaults, edits' \in 0..MaxEdits
  PROVE  Inv'
<1> USE DEF Inv
<1>1. TypeOK'
      BY DEF TypeOK, Moved, Goes2
<1>2. ASSUME NEW u \in Threads PROVE ThreadOK(u)'
      BY DEF ThreadOK, Creating, Publishing, Deleting, At, Absent, Armed, Threads,
         Moved, Goes2
<1>3. ASSUME NEW b \in Arts PROVE ArtOK(b)'
      BY DEF ArtOK, Absent, Torn
<1>4. Apart'
      BY DEF Apart, Busy, Creating, Publishing, Deleting, At, Threads, Moved, Goes2
<1>5. SchedOK'
      BY DEF SchedOK, Closed, SchedPcs, Up, At, Threads, Moved, Goes2
<1>6. QueueOK'
      BY QueueFrame DEF At, Threads, Moved, Goes2
<1>7. OwnedOK'
      BY OwnedFrame DEF Creating, Publishing, At, Threads, Moved, Goes2
<1>8. KeepOK'
      BY KeepFrame DEF Deleting, At, ThreadOK, Armed, Threads, Moved, Goes2
<1>9. UsedOK'
      BY UsedFrame
<1>10. OncePerOccurrence'
      BY OnceFrame
<1> QED BY <1>1, <1>2, <1>3, <1>4, <1>5, <1>6, <1>7, <1>8, <1>9, <1>10

\* The user starts a deletion.
LEMMA DeleteBegun ==
  ASSUME Inv,
         NEW a \in Arts,
         Up, At("user", "idle"), LockFree("user", a),
         cat[a].in, cat[a].claim \in {"no", "failed"},
         Recorded(a, cat[a].in, "deleting", "user", cat[a].once),
         Moved("user", "cut", 0, a, 0, {}),
         UNCHANGED <<files, ops, row, queue, boot, today, retired, muted>>,
         faults' \in 0..MaxFaults, edits' \in 0..MaxEdits
  PROVE  Inv'
<1> USE DEF Inv
<1>0. ~Publishing("sched") /\ ~Deleting("sched")
      BY FreeOthers DEF LockFree, Threads
<1>1. TypeOK'
      BY DEF TypeOK, Moved, Recorded
<1>2. ASSUME NEW u \in Threads PROVE ThreadOK(u)'
      BY <1>0 DEF ThreadOK, Creating, Publishing, Deleting, At, Absent, Armed,
         Threads, Moved, Recorded
<1>3. ASSUME NEW b \in Arts PROVE ArtOK(b)'
      BY DEF ArtOK, Absent, Torn, Moved, Recorded
<1>4. Apart'
      BY <1>0 DEF Apart, Busy, Creating, Publishing, Deleting, At, Threads, Moved,
         Recorded
<1>5. SchedOK'
      BY DEF SchedOK, Closed, SchedPcs, Up, At, Threads, Moved
<1>6. QueueOK'
      BY QueueFrame DEF At, Threads, Moved, Recorded
<1>7. OwnedOK'
      BY OwnedFrame DEF Creating, Publishing, At, Threads, Moved, Recorded
<1>8. KeepOK'
      BY KeepFrame DEF Deleting, At, ThreadOK, Armed, Threads, Moved, Recorded
<1>9. UsedOK'
      BY UsedFrame
<1>10. OncePerOccurrence'
      BY OnceFrame
<1> QED BY <1>1, <1>2, <1>3, <1>4, <1>5, <1>6, <1>7, <1>8, <1>9, <1>10

\* The user starts a verification.
LEMMA VerifyBegun ==
  ASSUME Inv,
         NEW a \in Arts,
         Up, At("user", "idle"),
         Moved("user", "verify", 0, a, cat[a].ver, {}),
         UNCHANGED <<files, cat, ops, row, queue, boot, today, retired, muted>>,
         faults' \in 0..MaxFaults, edits' \in 0..MaxEdits
  PROVE  Inv'
<1> USE DEF Inv
<1>1. TypeOK'
      BY DEF TypeOK, Moved
<1>2. ASSUME NEW u \in Threads PROVE ThreadOK(u)'
      BY DEF ThreadOK, Creating, Publishing, Deleting, At, Absent, Threads, Moved
<1>3. ASSUME NEW b \in Arts PROVE ArtOK(b)'
      BY DEF ArtOK, Absent, Torn
<1>4. Apart'
      BY DEF Apart, Busy, Creating, Publishing, Deleting, At, Threads, Moved
<1>5. SchedOK'
      BY DEF SchedOK, Closed, SchedPcs, Up, At, Threads, Moved
<1>6. QueueOK'
      BY QueueFrame DEF At, Threads, Moved
<1>7. OwnedOK'
      BY OwnedFrame DEF Creating, Publishing, At, Threads, Moved
<1>8. KeepOK'
      BY KeepFrame DEF Deleting, At, ThreadOK, Armed, Threads, Moved
<1>9. UsedOK'
      BY UsedFrame
<1>10. OncePerOccurrence'
      BY OnceFrame
<1> QED BY <1>1, <1>2, <1>3, <1>4, <1>5, <1>6, <1>7, <1>8, <1>9, <1>10

\* A verification ends; the record may get a new version.
LEMMA VerifyEnded ==
  ASSUME Inv,
         At("user", "verify"),
         Moved("user", "idle", 0, 0, 0, {}),
         cat' \in [Arts -> CatType],
         \A b \in Arts : cat'[b].in = cat[b].in /\ cat'[b].claim = cat[b].claim
           /\ cat'[b].who = cat[b].who /\ cat'[b].once = cat[b].once,
         UNCHANGED <<files, ops, row, queue, boot, today, retired, muted, faults,
            edits>>
  PROVE  Inv'
<1> USE DEF Inv
<1>1. TypeOK'
      BY DEF TypeOK, Moved
<1>2. ASSUME NEW u \in Threads PROVE ThreadOK(u)'
      BY DEF ThreadOK, Creating, Publishing, Deleting, At, Absent, Armed, Threads, Moved
<1>3. ASSUME NEW b \in Arts PROVE ArtOK(b)'
      BY DEF ArtOK, Absent, Torn
<1>4. Apart'
      BY DEF Apart, Busy, Creating, Publishing, Deleting, At, Threads, Moved
<1>5. SchedOK'
      BY DEF SchedOK, Closed, SchedPcs, At, Threads, Moved
<1>6. QueueOK'
      BY QueueFrame DEF At, Threads, Moved
<1>7. OwnedOK'
      BY OwnedFrame DEF Creating, Publishing, At, Threads, Moved
<1>8. KeepOK'
      BY KeepFrame DEF Deleting, At, ThreadOK, Armed, Threads, Moved
<1>9. UsedOK'
      BY UsedFrame
<1>10. OncePerOccurrence'
      BY OnceFrame
<1> QED BY <1>1, <1>2, <1>3, <1>4, <1>5, <1>6, <1>7, <1>8, <1>9, <1>10

\* A cancellation is accepted.
LEMMA Cancelled ==
  ASSUME Inv,
         NEW a \in Arts,
         Up, RecordsFree,
         ops[a].status = "active",
         Operated(a, ops[a].day, TRUE, ops[a].stage, ops[a].status),
         UNCHANGED <<files, cat, row, queue, th, boot, today, retired, muted>>,
         faults' \in 0..MaxFaults, edits' \in 0..MaxEdits
  PROVE  Inv'
<1> USE DEF Inv
<1>1. TypeOK'
      BY DEF TypeOK, Operated
<1>2. ASSUME NEW u \in Threads PROVE ThreadOK(u)'
      BY DEF RecordsFree, ThreadOK, Absent, Armed, TypeOK, At, Creating,
         Publishing, Deleting, Threads, Operated
<1>3. ASSUME NEW b \in Arts PROVE ArtOK(b)'
      BY DEF ArtOK, Absent, Torn, Operated
<1>4. Apart'
      BY DEF Apart, Busy, Creating, Publishing, Deleting, At
<1>5. SchedOK'
      BY DEF SchedOK, Closed, At, Threads, Operated
<1>6. QueueOK'
      BY QueueFrame DEF At, Threads, Operated
<1>7. OwnedOK'
      BY OwnedFrame DEF Creating, Publishing, At, Threads, Operated
<1>8. KeepOK'
      BY KeepFrame DEF Deleting, At, ThreadOK, Armed, Threads, Operated
<1>9. UsedOK'
      BY UsedFrame DEF Operated
<1>10. OncePerOccurrence'
      BY OnceFrame DEF Operated
<1> QED BY <1>1, <1>2, <1>3, <1>4, <1>5, <1>6, <1>7, <1>8, <1>9, <1>10

\* The history is cleared.
LEMMA Cleared ==
  ASSUME Inv,
         Up,
         ops' \in [Arts -> OpType],
         \A a \in Arts : /\ ops'[a].day = ops[a].day /\ ops'[a].cancel = ops[a].cancel
                         /\ ops'[a].status = IF ops[a].status \in {"done", "failed", "cancelled"}
                                              THEN "cleared" ELSE ops[a].status,
         UNCHANGED <<files, cat, row, queue, th, boot, today, retired, muted>>,
         faults' \in 0..MaxFaults, edits' \in 0..MaxEdits
  PROVE  Inv'
<1> USE DEF Inv
<1>1. TypeOK'
      BY DEF TypeOK
<1>2. ASSUME NEW u \in Threads PROVE ThreadOK(u)'
      BY DEF ThreadOK, Creating, Publishing, Deleting, At, Absent, Armed, Threads
<1>3. ASSUME NEW b \in Arts PROVE ArtOK(b)'
      BY DEF ArtOK, Absent, Torn
<1>4. Apart'
      BY DEF Apart, Busy, Creating, Publishing, Deleting, At
<1>5. SchedOK'
      BY DEF SchedOK, Closed, At
<1>6. QueueOK'
      BY QueueFrame DEF At
<1>7. OwnedOK'
      BY DEF OwnedOK, Creating, Publishing, At
<1>8. KeepOK'
      BY KeepFrame DEF Deleting, At, ThreadOK, Armed, Threads
<1>9. UsedOK'
      BY UsedFrame
<1>10. OncePerOccurrence'
      BY OnceFrame
<1> QED BY <1>1, <1>2, <1>3, <1>4, <1>5, <1>6, <1>7, <1>8, <1>9, <1>10

\* The next day.
LEMMA DayPassed ==
  ASSUME Inv,
         today < MaxDays,
         today' = today + 1,
         UNCHANGED <<files, cat, ops, row, queue, th, boot, retired, muted, faults,
            edits>>
  PROVE  Inv'
<1> USE DEF Inv
<1>1. TypeOK'
      BY StoreAssumption DEF TypeOK
<1>2. ASSUME NEW u \in Threads PROVE ThreadOK(u)'
      BY DEF ThreadOK, Creating, Publishing, Deleting, At, Absent
<1>3. ASSUME NEW b \in Arts PROVE ArtOK(b)'
      BY DEF ArtOK, Absent, Torn
<1>4. Apart'
      BY DEF Apart, Busy, Creating, Publishing, Deleting, At
<1>5. SchedOK'
      BY StoreAssumption DEF SchedOK, Closed, TypeOK, RowType, At
<1>6. QueueOK'
      BY QueueFrame DEF At
<1>7. OwnedOK'
      BY DEF OwnedOK, Creating, Publishing, At
<1>8. KeepOK'
      BY DEF KeepOK, Kept, Later, Deleting, At
<1>9. UsedOK'
      BY UsedFrame
<1>10. OncePerOccurrence'
      BY OnceFrame
<1> QED BY <1>1, <1>2, <1>3, <1>4, <1>5, <1>6, <1>7, <1>8, <1>9, <1>10

\* A claim gets old.
LEMMA ClaimExpired ==
  ASSUME Inv,
         cat' \in [Arts -> CatType],
         \A b \in Arts : cat'[b].in = cat[b].in /\ cat'[b].claim = cat[b].claim
           /\ cat'[b].who = cat[b].who /\ cat'[b].once = cat[b].once,
         UNCHANGED <<files, ops, row, queue, th, boot, today, retired, muted, faults,
            edits>>
  PROVE  Inv'
<1> USE DEF Inv
<1>1. TypeOK'
      BY DEF TypeOK
<1>2. ASSUME NEW u \in Threads PROVE ThreadOK(u)'
      BY DEF ThreadOK, Creating, Publishing, Deleting, At, Absent, Armed, Threads
<1>3. ASSUME NEW b \in Arts PROVE ArtOK(b)'
      BY DEF ArtOK, Absent, Torn
<1>4. Apart'
      BY DEF Apart, Busy, Creating, Publishing, Deleting, At
<1>5. SchedOK'
      BY DEF SchedOK, Closed, At
<1>6. QueueOK'
      BY QueueFrame DEF At
<1>7. OwnedOK'
      BY DEF OwnedOK, Creating, Publishing, At
<1>8. KeepOK'
      BY DEF KeepOK, Kept, Later, Deleting, At
<1>9. UsedOK'
      BY UsedFrame
<1>10. OncePerOccurrence'
      BY OnceFrame
<1> QED BY <1>1, <1>2, <1>3, <1>4, <1>5, <1>6, <1>7, <1>8, <1>9, <1>10

\* The panel goes down.
LEMMA Crashed ==
  ASSUME Inv,
         Up,
         th' = [t \in Threads |-> Idle],
         queue' = <<>>,
         boot' \in BootType, boot'.pc = "down",
         UNCHANGED <<files, cat, ops, row, today, retired, muted, edits>>,
         faults' \in 0..MaxFaults
  PROVE  Inv'
<1> USE DEF Inv
<1>0. /\ th' \in [Threads -> ThreadType]
      /\ \A t \in Threads : th'[t].pc = "idle" /\ th'[t].day = 0 /\ th'[t].todo = {}
      BY StoreAssumption DEF ThreadType, Idle
<1>1. TypeOK'
      BY <1>0 DEF TypeOK
<1>2. ASSUME NEW u \in Threads PROVE ThreadOK(u)'
      BY <1>0 DEF ThreadOK, Creating, Publishing, Deleting, At, Absent, Armed, Threads
<1>3. ASSUME NEW b \in Arts PROVE ArtOK(b)'
      BY <1>0 DEF ArtOK, Absent, Torn
<1>4. Apart'
      BY <1>0 DEF Apart, Busy, Creating, Publishing, Deleting, At, Threads
<1>5. SchedOK'
      BY <1>0 DEF SchedOK, Closed, SchedPcs, At, Threads
<1>6. QueueOK'
      BY DEF QueueOK
<1>7. OwnedOK'
      BY DEF OwnedOK
<1>8. KeepOK'
      BY <1>0, KeepFrame DEF Deleting, At, ThreadOK, Armed, Threads
<1>9. UsedOK'
      BY UsedFrame
<1>10. OncePerOccurrence'
      BY OnceFrame
<1> QED BY <1>1, <1>2, <1>3, <1>4, <1>5, <1>6, <1>7, <1>8, <1>9, <1>10

\* A recovery fails.
LEMMA RecoveryFailed ==
  ASSUME Inv,
         boot.pc # "up",
         boot' \in BootType, boot'.pc = "failed",
         UNCHANGED <<files, cat, ops, row, queue, th, today, retired, muted, edits>>,
         faults' \in 0..MaxFaults
  PROVE  Inv'
<1> USE DEF Inv
<1>1. TypeOK'
      BY DEF TypeOK
<1>2. ASSUME NEW u \in Threads PROVE ThreadOK(u)'
      BY DEF ThreadOK, Creating, Publishing, Deleting, At, Absent
<1>3. ASSUME NEW b \in Arts PROVE ArtOK(b)'
      BY DEF ArtOK, Absent, Torn
<1>4. Apart'
      BY DEF Apart, Busy, Creating, Publishing, Deleting, At
<1>5. SchedOK'
      BY DEF SchedOK, Closed, At
<1>6. QueueOK'
      BY QueueFrame DEF At
<1>7. OwnedOK'
      BY DEF OwnedOK
<1>8. KeepOK'
      BY DEF KeepOK, Kept, Later, Deleting, At
<1>9. UsedOK'
      BY UsedFrame
<1>10. OncePerOccurrence'
      BY OnceFrame
<1> QED BY <1>1, <1>2, <1>3, <1>4, <1>5, <1>6, <1>7, <1>8, <1>9, <1>10

\* A start looks at the operations.
LEMMA Started ==
  ASSUME Inv,
         boot.pc = "down",
         boot' \in BootType, boot'.pc = "ops",
         muted' \in BOOLEAN,
         UNCHANGED <<files, cat, ops, row, queue, th, today, retired, faults, edits>>
  PROVE  Inv'
<1> USE DEF Inv
<1>1. TypeOK'
      BY DEF TypeOK
<1>2. ASSUME NEW u \in Threads PROVE ThreadOK(u)'
      BY DEF ThreadOK, Creating, Publishing, Deleting, At, Absent
<1>3. ASSUME NEW b \in Arts PROVE ArtOK(b)'
      BY DEF ArtOK, Absent, Torn
<1>4. Apart'
      BY DEF Apart, Busy, Creating, Publishing, Deleting, At
<1>5. SchedOK'
      BY DEF SchedOK, Closed, At
<1>6. QueueOK'
      BY QueueFrame DEF At
<1>7. OwnedOK'
      BY DEF OwnedOK, Creating, Publishing, At
<1>8. KeepOK'
      BY DEF KeepOK, Kept, Later, Deleting, At
<1>9. UsedOK'
      BY UsedFrame
<1>10. OncePerOccurrence'
      BY OnceFrame
<1> QED BY <1>1, <1>2, <1>3, <1>4, <1>5, <1>6, <1>7, <1>8, <1>9, <1>10

\* Operations without an owner are abandoned.
LEMMA Abandoned ==
  ASSUME Inv,
         boot.pc = "ops",
         boot' \in BootType, boot'.pc = "claims",
         ops' \in [Arts -> OpType],
         \A a \in Arts : /\ ops'[a].day = ops[a].day /\ ops'[a].cancel = ops[a].cancel
                         /\ ops'[a].status = IF /\ ops[a].status = "active"
                                                 /\ ~(th["user"].art = a /\ Creating("user"))
                                              THEN "failed" ELSE ops[a].status,
         UNCHANGED <<files, cat, row, queue, th, today, retired, muted, faults, edits>>
  PROVE  Inv'
<1> USE DEF Inv
<1>1. TypeOK'
      BY DEF TypeOK
<1>2. ASSUME NEW u \in Threads PROVE ThreadOK(u)'
      BY DEF ThreadOK, Apart, Busy, Absent, Armed, TypeOK, SchedOK, SchedPcs, At,
         Creating, Publishing, Deleting, Threads
<1>3. ASSUME NEW b \in Arts PROVE ArtOK(b)'
  <2>1. /\ ops'[b].cancel = ops[b].cancel /\ ops'[b].day = ops[b].day
        /\ ops'[b].status = ops[b].status \/ (ops[b].status = "active" /\ ops'[b].status = "failed")
        OBVIOUS
  <2> QED BY <2>1 DEF ArtOK, Absent, Torn
<1>4. Apart'
      BY DEF Apart, Busy, Creating, Publishing, Deleting, At
<1>5. SchedOK'
      BY DEF SchedOK, Closed, At
<1>6. QueueOK'
      BY QueueFrame DEF At
<1>7. OwnedOK'
      BY DEF OwnedOK, Creating, Publishing, At, Threads
<1>8. KeepOK'
      BY KeepFrame DEF Deleting, At, ThreadOK, Armed, Threads
<1>9. UsedOK'
      BY UsedFrame
<1>10. OncePerOccurrence'
      BY OnceFrame
<1> QED BY <1>1, <1>2, <1>3, <1>4, <1>5, <1>6, <1>7, <1>8, <1>9, <1>10

\* Expired claims of dead owners are given up.
LEMMA Released ==
  ASSUME Inv,
         boot.pc = "claims",
         boot' \in BootType, boot'.pc = "pairs", boot'.todo = {a \in Arts : cat[a].in},
         cat' \in [Arts -> CatType],
         \A a \in Arts : /\ cat'[a].in = cat[a].in /\ cat'[a].once = cat[a].once
                         /\ cat'[a].who = cat[a].who
                         /\ cat'[a].claim = cat[a].claim \/ cat'[a].claim = "no"
                         /\ cat[a].who = "user" /\ Deleting("user") /\ th["user"].art = a
                            => cat'[a].claim = cat[a].claim,
         UNCHANGED <<files, ops, row, queue, th, today, retired, muted, faults, edits>>
  PROVE  Inv'
<1> USE DEF Inv
<1>1. TypeOK'
      BY DEF TypeOK
<1>2. ASSUME NEW u \in Threads PROVE ThreadOK(u)'
  <2>1. u = "sched" => At("sched", "idle")
        BY DEF SchedOK
  <2>2. th[u].art \in Arts \/ th[u].pc \notin Armed
        BY DEF ThreadOK
  <2> DEFINE a == th[u].art
  <2>3. CASE a \in Arts
    <3>1. /\ cat'[a].in = cat[a].in /\ cat'[a].who = cat[a].who
          /\ u = "user" /\ cat[a].who = u /\ Deleting(u) => cat'[a].claim = cat[a].claim
          BY <2>3
    <3> QED BY <2>1, <2>3, <3>1 DEF ThreadOK, Absent, Armed, At, Creating,
       Publishing, Deleting, Threads
  <2>4. CASE th[u].pc \notin Armed
        BY <2>4 DEF ThreadOK, Armed, At, Creating, Publishing, Deleting
  <2> QED BY <2>2, <2>3, <2>4
<1>3. ASSUME NEW b \in Arts PROVE ArtOK(b)'
  <2>1. cat'[b].in = cat[b].in /\ cat'[b].once = cat[b].once
        OBVIOUS
  <2>2. Torn(b)' => b \in boot'.todo
        BY <2>1 DEF Torn
  <2> QED BY <2>1, <2>2 DEF ArtOK, Absent, Torn
<1>4. Apart'
      BY DEF Apart, Busy, Creating, Publishing, Deleting, At
<1>5. SchedOK'
      BY DEF SchedOK, Closed, At
<1>6. QueueOK'
      BY QueueFrame DEF At
<1>7. OwnedOK'
      BY DEF OwnedOK, Creating, Publishing, At
<1>8. KeepOK'
      BY KeepFrame DEF ThreadOK, Armed, At, Deleting, Threads
<1>9. UsedOK'
      BY UsedFrame
<1>10. OncePerOccurrence'
      BY OnceFrame
<1> QED BY <1>1, <1>2, <1>3, <1>4, <1>5, <1>6, <1>7, <1>8, <1>9, <1>10

\* Every record has been looked at.
LEMMA PairsChecked ==
  ASSUME Inv,
         boot.pc = "pairs", boot.todo = {},
         boot' \in BootType, boot'.pc = "files",
         UNCHANGED <<files, cat, ops, row, queue, th, today, retired, muted, faults,
            edits>>
  PROVE  Inv'
<1> USE DEF Inv
<1>1. TypeOK'
      BY DEF TypeOK
<1>2. ASSUME NEW u \in Threads PROVE ThreadOK(u)'
      BY DEF ThreadOK, Creating, Publishing, Deleting, At, Absent
<1>3. ASSUME NEW b \in Arts PROVE ArtOK(b)'
      BY DEF ArtOK, Absent, Torn
<1>4. Apart'
      BY DEF Apart, Busy, Creating, Publishing, Deleting, At
<1>5. SchedOK'
      BY DEF SchedOK, Closed, At
<1>6. QueueOK'
      BY QueueFrame DEF At
<1>7. OwnedOK'
      BY DEF OwnedOK, Creating, Publishing, At
<1>8. KeepOK'
      BY DEF KeepOK, Kept, Later, Deleting, At
<1>9. UsedOK'
      BY UsedFrame
<1>10. OncePerOccurrence'
      BY OnceFrame
<1> QED BY <1>1, <1>2, <1>3, <1>4, <1>5, <1>6, <1>7, <1>8, <1>9, <1>10

\* A record is looked at; it goes when its pair is not whole.
LEMMA PairChecked ==
  ASSUME Inv,
         NEW a \in boot.todo,
         a \in Arts,
         boot.pc = "pairs",
         ~Locked(a),
         boot' \in BootType, boot'.pc = "pairs", boot'.todo = boot.todo \ {a},
         \/ files[a] = "pair" /\ cat' = cat
         \/ files[a] # "pair" /\ Recorded(a, FALSE, "no", "user", TRUE),
         UNCHANGED <<files, ops, row, queue, th, today, retired, muted, faults, edits>>
  PROVE  Inv'
<1> USE DEF Inv
<1>0. \A t \in Threads : Publishing(t) \/ Deleting(t) => th[t].art # a
      BY DEF Locked
<1>1. TypeOK'
      BY DEF TypeOK, Recorded
<1>2. ASSUME NEW u \in Threads PROVE ThreadOK(u)'
      BY <1>0 DEF ThreadOK, Creating, Publishing, Deleting, At, Absent, Armed,
         Threads, Recorded
<1>3. ASSUME NEW b \in Arts PROVE ArtOK(b)'
      BY <1>0 DEF ArtOK, Absent, Torn, Recorded
<1>4. Apart'
      BY DEF Apart, Busy, Creating, Publishing, Deleting, At
<1>5. SchedOK'
      BY <1>0 DEF SchedOK, Closed, At
<1>6. QueueOK'
      BY QueueFrame DEF At
<1>7. OwnedOK'
      BY DEF OwnedOK, Creating, Publishing, At
<1>8. KeepOK'
      BY KeepFrame DEF Deleting, At, ThreadOK, Armed, Threads, Recorded
<1>9. UsedOK'
      BY UsedFrame
<1>10. OncePerOccurrence'
      BY OnceFrame
<1> QED BY <1>1, <1>2, <1>3, <1>4, <1>5, <1>6, <1>7, <1>8, <1>9, <1>10

\* A file that has its record is left, or there is none to look at.
LEMMA FilesLeft ==
  ASSUME Inv,
         boot.pc = "files",
         boot' \in BootType, boot'.pc \in {"files", "rows"},
         UNCHANGED <<files, cat, ops, row, queue, th, today, retired, muted, faults,
            edits>>
  PROVE  Inv'
<1> USE DEF Inv
<1>1. TypeOK'
      BY DEF TypeOK
<1>2. ASSUME NEW u \in Threads PROVE ThreadOK(u)'
      BY DEF ThreadOK, Creating, Publishing, Deleting, At, Absent
<1>3. ASSUME NEW b \in Arts PROVE ArtOK(b)'
      BY DEF ArtOK, Absent, Torn
<1>4. Apart'
      BY DEF Apart, Busy, Creating, Publishing, Deleting, At
<1>5. SchedOK'
      BY DEF SchedOK, Closed, At
<1>6. QueueOK'
      BY QueueFrame DEF At
<1>7. OwnedOK'
      BY DEF OwnedOK, Creating, Publishing, At
<1>8. KeepOK'
      BY DEF KeepOK, Kept, Later, Deleting, At
<1>9. UsedOK'
      BY UsedFrame
<1>10. OncePerOccurrence'
      BY OnceFrame
<1> QED BY <1>1, <1>2, <1>3, <1>4, <1>5, <1>6, <1>7, <1>8, <1>9, <1>10

\* A whole pair without a record is listed again.
LEMMA FileListed ==
  ASSUME Inv,
         NEW a \in Arts,
         boot.pc = "files",
         ~Locked(a),
         boot' \in BootType, boot'.pc = "files",
         ~cat[a].in, files[a] = "pair",
         Recorded(a, TRUE, "no", "user", TRUE),
         UNCHANGED <<files, ops, row, queue, th, today, retired, muted, faults, edits>>
  PROVE  Inv'
<1> USE DEF Inv
<1>0. \A t \in Threads : Publishing(t) \/ Deleting(t) => th[t].art # a
      BY DEF Locked
<1>1. TypeOK'
      BY DEF TypeOK, Recorded
<1>2. ASSUME NEW u \in Threads PROVE ThreadOK(u)'
      BY <1>0 DEF ThreadOK, Creating, Publishing, Deleting, At, Absent, Armed,
         Threads, Recorded
<1>3. ASSUME NEW b \in Arts PROVE ArtOK(b)'
      BY <1>0 DEF ArtOK, Absent, Torn, Recorded
<1>4. Apart'
      BY DEF Apart, Busy, Creating, Publishing, Deleting, At
<1>5. SchedOK'
      BY DEF SchedOK, Closed, At
<1>6. QueueOK'
      BY QueueFrame DEF At
<1>7. OwnedOK'
      BY DEF OwnedOK, Creating, Publishing, At
<1>8. KeepOK'
      BY KeepFrame DEF Deleting, At, ThreadOK, Armed, Threads, Recorded
<1>9. UsedOK'
      BY UsedFrame
<1>10. OncePerOccurrence'
      BY OnceFrame
<1> QED BY <1>1, <1>2, <1>3, <1>4, <1>5, <1>6, <1>7, <1>8, <1>9, <1>10

\* Anything else goes.
LEMMA FileRemoved ==
  ASSUME Inv,
         NEW a \in Arts,
         boot.pc = "files",
         ~Locked(a),
         boot' \in BootType, boot'.pc = "files",
         ~cat[a].in,
         Filed(a, "none"),
         UNCHANGED <<cat, ops, row, queue, th, today, retired, muted, faults, edits>>
  PROVE  Inv'
<1> USE DEF Inv
<1>0. \A t \in Threads : Publishing(t) \/ Deleting(t) => th[t].art # a
      BY DEF Locked
<1>1. TypeOK'
      BY DEF TypeOK, Filed
<1>2. ASSUME NEW u \in Threads PROVE ThreadOK(u)'
      BY <1>0 DEF ThreadOK, Creating, Publishing, Deleting, At, Absent, Armed,
         Threads, Filed
<1>3. ASSUME NEW b \in Arts PROVE ArtOK(b)'
      BY <1>0 DEF ArtOK, Absent, Torn, Filed
<1>4. Apart'
      BY DEF Apart, Busy, Creating, Publishing, Deleting, At
<1>5. SchedOK'
      BY DEF SchedOK, Closed, At
<1>6. QueueOK'
      BY QueueFrame DEF At
<1>7. OwnedOK'
      BY DEF OwnedOK, Creating, Publishing, At
<1>8. KeepOK'
      BY DEF KeepOK, Kept, Later, Deleting, At
<1>9. UsedOK'
      BY UsedFrame
<1>10. OncePerOccurrence'
      BY OnceFrame
<1> QED BY <1>1, <1>2, <1>3, <1>4, <1>5, <1>6, <1>7, <1>8, <1>9, <1>10

\* The occurrence of the row is resumed, given its status, or left.
LEMMA Recovered ==
  ASSUME Inv,
         boot.pc = "rows",
         boot' \in BootType, boot'.pc = "up",
         row' \in RowType, row'.day = row.day,
         row.day = 0 => row' = row /\ queue' = queue,
         NEW q \in {"op", "claim"},
         q = "op" => Closed(row.day),
         queue' = queue \/ queue' = Append(queue, [day |-> row.day, pc |-> q]),
         UNCHANGED <<files, cat, ops, th, today, retired, muted, faults, edits>>
  PROVE  Inv'
<1> USE DEF Inv
<1>1. TypeOK'
  <2>1. queue' \in Seq([day: Days, pc: {"op", "claim"}])
    <3>1. CASE queue' = queue
          BY <3>1 DEF TypeOK
    <3>2. CASE queue' # queue
      <4> DEFINE w == [day |-> row.day, pc |-> q]
      <4>1. w \in [day: Days, pc: {"op", "claim"}]
            BY <3>2, StoreAssumption DEF TypeOK, RowType, Days
      <4>2. queue' = Append(queue, w)
            BY <3>2
      <4> HIDE DEF w
      <4> QED BY <4>1, <4>2 DEF TypeOK
    <3> QED BY <3>1, <3>2
  <2> QED BY <2>1 DEF TypeOK
<1>2. ASSUME NEW u \in Threads PROVE ThreadOK(u)'
      BY DEF ThreadOK, Creating, Publishing, Deleting, At, Absent
<1>3. ASSUME NEW b \in Arts PROVE ArtOK(b)'
      BY DEF ArtOK, Absent, Torn
<1>4. Apart'
      BY DEF Apart, Busy, Creating, Publishing, Deleting, At
<1>5. SchedOK'
      BY DEF SchedOK, Closed, At
<1>6. QueueOK'
  <2>1. queue = <<>> /\ At("sched", "idle") /\ At("sched", "idle")'
        BY DEF SchedOK, At
  <2>2. CASE queue' = queue
        BY <2>1, <2>2 DEF QueueOK
  <2>3. CASE queue' # queue
    <3>1. Len(queue') = 1 /\ queue'[1] = [day |-> row.day, pc |-> q] /\ row.day \in 1..row'.day
          BY <2>1, <2>3, StoreAssumption DEF TypeOK, RowType
    <3> QED BY <2>1, <3>1 DEF QueueOK, Closed
  <2> QED BY <2>2, <2>3
<1>7. OwnedOK'
      BY DEF OwnedOK, Creating, Publishing, At
<1>8. KeepOK'
      BY DEF KeepOK, Kept, Later, Deleting, At
<1>9. UsedOK'
      BY UsedFrame
<1>10. OncePerOccurrence'
      BY OnceFrame
<1> QED BY <1>1, <1>2, <1>3, <1>4, <1>5, <1>6, <1>7, <1>8, <1>9, <1>10

\* The day is claimed and a worker started for it.
LEMMA Dispatched ==
  ASSUME Inv,
         boot.pc = "up", today > 0, row.day # today,
         row' \in RowType, row'.day = today,
         queue' = Append(queue, [day |-> today, pc |-> "op"]),
         UNCHANGED <<files, cat, ops, th, boot, today, retired, muted, faults, edits>>
  PROVE  Inv'
<1> USE DEF Inv
<1>1. TypeOK'
  <2>1. queue' \in Seq([day: Days, pc: {"op", "claim"}])
        BY DEF TypeOK, Days
  <2> QED BY <2>1 DEF TypeOK
<1>2. ASSUME NEW u \in Threads PROVE ThreadOK(u)'
      BY DEF ThreadOK, Creating, Publishing, Deleting, At, Absent
<1>3. ASSUME NEW b \in Arts PROVE ArtOK(b)'
      BY DEF ArtOK, Absent, Torn
<1>4. Apart'
      BY DEF Apart, Busy, Creating, Publishing, Deleting, At
<1>5. SchedOK'
  <2>1. row.day <= row'.day /\ row.day \in Nat /\ today \in Nat
        BY DEF SchedOK, TypeOK, RowType
  <2>2. \A a \in Arts : ops'[a].day <= row'.day
        BY <2>1 DEF SchedOK, TypeOK, OpType
  <2>3. ~At("sched", "idle") => th["sched"].day \in 1..row'.day
        BY <2>1 DEF SchedOK
  <2> QED BY <2>1, <2>2, <2>3 DEF SchedOK, Closed, At
<1>6. QueueOK'
  <2>1. row.day < today /\ row.day \in Nat /\ today \in Nat
        BY DEF SchedOK, TypeOK, RowType
  <2>2. \A a \in Arts : ops[a].day < today
        BY <2>1 DEF SchedOK, TypeOK, OpType
  <2>3. Closed(today)'
        BY <2>2 DEF Closed, TypeOK, OpType
  <2>4. ~At("sched", "idle") => th["sched"].day < today
        BY <2>1 DEF SchedOK
  <2>5. Len(queue') = Len(queue) + 1 /\ Len(queue) \in Nat
        BY DEF TypeOK
  <2>6. \A i \in 1..Len(queue') :
           /\ i = Len(queue') => queue'[i].day = today /\ queue'[i].pc = "op"
           /\ i # Len(queue') => i \in 1..Len(queue) /\ queue'[i] = queue[i]
        BY <2>5 DEF TypeOK
  <2>7. \A i \in 1..Len(queue) : /\ queue[i].day < today /\ queue[i].day \in 1..today
                                 /\ queue[i].pc = "op" => Closed(queue[i].day)'
        BY <2>1 DEF QueueOK, Closed
  <2>8. ASSUME NEW i \in 1..Len(queue')
        PROVE  /\ queue'[i].day \in 1..row'.day
               /\ queue'[i].pc = "op" => Closed(queue'[i].day)
               /\ ~At("sched", "idle")' => th'["sched"].day < queue'[i].day
               /\ \A j \in 1..Len(queue') : i < j => queue'[i].day < queue'[j].day
    <3>1. CASE i = Len(queue')
          BY <3>1, <2>1, <2>3, <2>4, <2>5, <2>6 DEF At, Closed
    <3>2. CASE i # Len(queue')
      <4>1. i \in 1..Len(queue) /\ queue'[i] = queue[i]
            BY <3>2, <2>6
      <4>2. ASSUME NEW j \in 1..Len(queue'), i < j PROVE queue'[i].day < queue'[j].day
        <5>1. CASE j = Len(queue')
          <6>1. queue'[j].day = today /\ queue[i].day < today
                BY <5>1, <4>1, <2>6, <2>7
          <6> QED BY <6>1, <4>1
        <5>2. CASE j # Len(queue')
          <6>1. j \in 1..Len(queue) /\ queue'[j] = queue[j]
                BY <5>2, <2>6
          <6> QED BY <6>1, <4>1, <4>2 DEF QueueOK
        <5> QED BY <5>1, <5>2
      <4>3. ~At("sched", "idle") => th["sched"].day < queue[i].day
            BY <4>1 DEF QueueOK
      <4>4. queue[i].day \in 1..row'.day /\ (queue[i].pc = "op" => Closed(queue[i].day))
            BY <4>1, <2>7 DEF Closed
      <4> QED BY <4>1, <4>2, <4>3, <4>4 DEF At
    <3> QED BY <3>1, <3>2
  <2> QED BY <2>8 DEF QueueOK, At, Closed
<1>7. OwnedOK'
      BY DEF OwnedOK, Creating, Publishing, At
<1>8. KeepOK'
      BY DEF KeepOK, Kept, Later, Deleting, At
<1>9. UsedOK'
      BY UsedFrame
<1>10. OncePerOccurrence'
      BY OnceFrame
<1> QED BY <1>1, <1>2, <1>3, <1>4, <1>5, <1>6, <1>7, <1>8, <1>9, <1>10

\* The next worker gets the run lock.
LEMMA Taken ==
  ASSUME Inv,
         boot.pc = "up", At("sched", "idle"), queue # <<>>,
         Moved("sched", queue[1].pc, queue[1].day, 0, 0, {}),
         queue' = Tail(queue),
         UNCHANGED <<files, cat, ops, row, boot, today, retired, muted, faults, edits>>
  PROVE  Inv'
<1> USE DEF Inv
<1>0. queue[1].pc \in {"op", "claim"} /\ Len(queue) \in Nat /\ 1 \in 1..Len(queue)
  <2>1. Len(queue) \in Nat /\ 1 \in 1..Len(queue)
        BY DEF TypeOK
  <2> DEFINE Worker == [day: Days, pc: {"op", "claim"}]
  <2>2. queue \in Seq(Worker)
        BY DEF TypeOK
  <2>3. \A w \in Worker : w.pc \in {"op", "claim"}
        OBVIOUS
  <2> HIDE DEF Worker
  <2>4. queue[1] \in Worker
        BY <2>1, <2>2
  <2> QED BY <2>1, <2>3, <2>4
<1>1. TypeOK'
  <2>1. queue' \in Seq([day: Days, pc: {"op", "claim"}])
        BY DEF TypeOK
  <2> QED BY <2>1 DEF TypeOK, Moved
<1>2. ASSUME NEW u \in Threads PROVE ThreadOK(u)'
      BY <1>0 DEF ThreadOK, Creating, Publishing, Deleting, At, Absent, Armed,
         Threads, Moved
<1>3. ASSUME NEW b \in Arts PROVE ArtOK(b)'
      BY <1>0 DEF ArtOK, Absent, Torn
<1>4. Apart'
      BY <1>0 DEF Apart, Busy, Creating, Publishing, Deleting, At, Threads, Moved
<1>5. SchedOK'
  <2>1. queue[1].day \in 1..row.day /\ (queue[1].pc = "op" => Closed(queue[1].day))
        BY <1>0 DEF QueueOK
  <2> QED BY <1>0, <2>1 DEF SchedOK, Closed, SchedPcs, At, Threads, Moved
<1>6. QueueOK'
  <2>1. /\ Len(queue') = Len(queue) - 1 /\ Len(queue) \in Nat
        /\ \A i \in 1..Len(queue') : queue'[i] = queue[i + 1] /\ i + 1 \in 1..Len(queue)
        BY <1>0 DEF TypeOK
  <2>2. ASSUME NEW i \in 1..Len(queue')
        PROVE  /\ queue'[i].day \in 1..row'.day
               /\ queue'[i].pc = "op" => Closed(queue'[i].day)
               /\ th'["sched"].day < queue'[i].day
               /\ \A j \in 1..Len(queue') : i < j => queue'[i].day < queue'[j].day
    <3>1. th'["sched"].day < queue'[i].day
          BY <1>0, <2>1 DEF QueueOK, Moved
    <3> QED BY <2>1, <3>1 DEF QueueOK
  <2> QED BY <2>2 DEF QueueOK, Closed
<1>7. OwnedOK'
      BY <1>0, OwnedFrame DEF Creating, Publishing, At, Threads, Moved
<1>8. KeepOK'
      BY <1>0, KeepFrame DEF Deleting, At, ThreadOK, Armed, Threads, Moved
<1>9. UsedOK'
      BY UsedFrame
<1>10. OncePerOccurrence'
      BY OnceFrame
<1> QED BY <1>1, <1>2, <1>3, <1>4, <1>5, <1>6, <1>7, <1>8, <1>9, <1>10

\* The scheduler notes a status of its occurrence and goes on.
LEMMA Noted ==
  ASSUME Inv,
         NEW p \in {"claim", "idle"},
         th["sched"].pc \in {"pend", "done", "fail"},
         Goes2("sched", p),
         row' \in RowType, row'.day = row.day, row.day = 0 => row' = row,
         muted' \in BOOLEAN,
         UNCHANGED <<files, cat, ops, queue, boot, today, retired>>,
         faults' \in 0..MaxFaults, edits' \in 0..MaxEdits
  PROVE  Inv'
<1> USE DEF Inv
<1>1. TypeOK'
      BY DEF TypeOK, Moved, Goes2
<1>2. ASSUME NEW u \in Threads PROVE ThreadOK(u)'
      BY DEF ThreadOK, Creating, Publishing, Deleting, At, Absent, Armed, Threads,
         Moved, Goes2
<1>3. ASSUME NEW b \in Arts PROVE ArtOK(b)'
      BY DEF ArtOK, Absent, Torn
<1>4. Apart'
      BY DEF Apart, Busy, Creating, Publishing, Deleting, At, Threads, Moved, Goes2
<1>5. SchedOK'
      BY DEF SchedOK, Closed, At, Threads, Moved, Goes2
<1>6. QueueOK'
      BY QueueFrame DEF At, Threads, Moved, Goes2
<1>7. OwnedOK'
      BY OwnedFrame DEF Creating, Publishing, At, Threads, Moved, Goes2
<1>8. KeepOK'
      BY KeepFrame DEF Deleting, At, ThreadOK, Armed, Threads, Moved, Goes2
<1>9. UsedOK'
      BY UsedFrame
<1>10. OncePerOccurrence'
      BY OnceFrame
<1> QED BY <1>1, <1>2, <1>3, <1>4, <1>5, <1>6, <1>7, <1>8, <1>9, <1>10

\* Retention claims what is too many.
LEMMA ClaimedAll ==
  ASSUME Inv,
         boot.pc = "up",
         At("sched", "claim"),
         cat' \in [Arts -> CatType],
         NEW S \in SUBSET Snap,
         \A a \in Arts : /\ cat'[a].in = cat[a].in /\ cat'[a].once = cat[a].once
                         /\ a \notin Candidates => cat'[a].claim = cat[a].claim /\ cat'[a].who = cat[a].who
                         /\ a \in Candidates => cat'[a].claim = "claimed" /\ cat'[a].who = "sched",
         \A s \in S : s.art \in Candidates,
         Moved("sched", "next", th["sched"].day, th["sched"].art, th["sched"].ver, S),
         UNCHANGED <<files, ops, row, queue, boot, today, retired, muted, faults,
            edits>>
  PROVE  Inv'
<1> USE DEF Inv
<1>0. \A a \in Candidates : a \in Arts /\ cat[a].in /\ cat[a].claim = "no"
      BY DEF Candidates, Eligible
<1>1. TypeOK'
      BY DEF TypeOK, Moved
<1>2. ASSUME NEW u \in Threads PROVE ThreadOK(u)'
      BY <1>0 DEF ThreadOK, Creating, Publishing, Deleting, At, Absent, Armed,
         Threads, Moved
<1>3. ASSUME NEW b \in Arts PROVE ArtOK(b)'
      BY <1>0 DEF ArtOK, Absent, Torn
<1>4. Apart'
      BY DEF Apart, Busy, Creating, Publishing, Deleting, At, Threads, Moved
<1>5. SchedOK'
      BY DEF SchedOK, Closed, At, Threads, Moved
<1>6. QueueOK'
      BY QueueFrame DEF At, Threads, Moved
<1>7. OwnedOK'
      BY OwnedFrame DEF Creating, Publishing, At, Threads, Moved
<1>8. KeepOK'
  <2>1. ASSUME NEW a \in Candidates PROVE Kept(a)' /\ ops[a].day # 0
    <3> DEFINE N == {b \in Eligible : b > a}
    <3>1. ASSUME NEW b \in N PROVE b \in Later(a)'
      <4>1. b \in Arts /\ cat[b].in /\ cat[b].claim = "no" /\ ops[b].day # 0 /\ b > a
            BY DEF Eligible
      <4>2. files[b] = "pair" /\ cat[b].once
            BY <4>1 DEF ArtOK, Torn
      <4>3. b \notin retired
            BY <4>1, <4>2 DEF ArtOK
      <4> QED BY <4>1, <4>2, <4>3 DEF Later
    <3>2. N \subseteq Later(a)' /\ Later(a)' \subseteq Arts
          BY <3>1 DEF Later
    <3>3. Cardinality(N) >= Keep /\ ops[a].day # 0 /\ a \in Int
          BY DEF Candidates, Eligible, Arts
    <3> HIDE DEF N
    <3>4. Cardinality(Later(a)') >= Keep
          BY <3>2, <3>3, KeptStays
    <3> QED BY <3>3, <3>4 DEF Kept
  <2>2. \A a \in retired' : Kept(a)'
    <3> TAKE a \in retired'
    <3>1. a \in Int /\ Kept(a)
          BY DEF KeepOK, TypeOK, Arts
    <3>2. Later(a) \subseteq Later(a)' /\ Later(a)' \subseteq Arts
          BY DEF Later
    <3> QED BY <3>1, <3>2, KeptStays DEF Kept
  <2>3. \A s \in th'["sched"].todo : Kept(s.art)' /\ ops'[s.art].day # 0
        BY <2>1 DEF Moved, Kept, Later
  <2>4. ~Deleting("sched")'
        BY DEF Deleting, Moved
  <2> QED BY <2>2, <2>3, <2>4 DEF KeepOK
<1>9. UsedOK'
      BY UsedFrame
<1>10. OncePerOccurrence'
      BY OnceFrame
<1> QED BY <1>1, <1>2, <1>3, <1>4, <1>5, <1>6, <1>7, <1>8, <1>9, <1>10

\* Retention begins one of the deletions it has claimed.
LEMMA ClaimBegun ==
  ASSUME Inv,
         NEW s \in th["sched"].todo,
         s.art \in Arts,
         At("sched", "next"), LockFree("sched", s.art),
         cat[s.art].in, cat[s.art].claim = "claimed",
         \A r \in th["sched"].todo \ {s} : s.art < r.art,
         Recorded(s.art, cat[s.art].in, "deleting", "sched", cat[s.art].once),
         Moved("sched", "cut", th["sched"].day, s.art, th["sched"].ver, th["sched"].todo \ {s}),
         UNCHANGED <<files, ops, row, queue, boot, today, retired, muted, faults,
            edits>>
  PROVE  Inv'
<1> USE DEF Inv
<1>0. ~Publishing("user") /\ ~Deleting("user")
      BY FreeOthers DEF LockFree, Threads
<1>1. TypeOK'
      BY DEF TypeOK, Moved, Recorded
<1>2. ASSUME NEW u \in Threads PROVE ThreadOK(u)'
      BY <1>0 DEF ThreadOK, Creating, Publishing, Deleting, At, Absent, Armed,
         Threads, Moved, Recorded
<1>3. ASSUME NEW b \in Arts PROVE ArtOK(b)'
      BY DEF ArtOK, Absent, Torn, Moved, Recorded
<1>4. Apart'
      BY <1>0 DEF Apart, Busy, Creating, Publishing, Deleting, At, Threads, Moved,
         Recorded
<1>5. SchedOK'
      BY DEF SchedOK, Closed, At, Threads, Moved, Recorded
<1>6. QueueOK'
      BY QueueFrame DEF At, Threads, Moved, Recorded
<1>7. OwnedOK'
      BY OwnedFrame DEF Creating, Publishing, At, Threads, Moved, Recorded
<1>8. KeepOK'
  <2>1. retired \subseteq Arts /\ Arts \subseteq Int /\ th["sched"].todo \subseteq Snap
        BY DEF TypeOK, Arts, ThreadType, Threads
  <2>2. \A r \in Snap : r.art \in Arts
        BY DEF Snap
  <2>3. ASSUME NEW a \in Int, Kept(a) PROVE Kept(a)'
    <3>1. Later(a) \subseteq Later(a)' /\ Later(a)' \subseteq Arts
          BY DEF Later, Recorded
    <3> QED BY <2>3, <3>1, KeptStays DEF Kept
  <2>4. \A a \in retired' : Kept(a)'
    <3> TAKE a \in retired'
    <3>1. a \in Int /\ Kept(a)
          BY <2>1 DEF KeepOK
    <3> QED BY <3>1, <2>3 DEF Kept, Later
  <2>5. ASSUME NEW r \in th["sched"].todo PROVE Kept(r.art)' /\ ops'[r.art].day # 0
    <3>1. r.art \in Int /\ Kept(r.art) /\ ops[r.art].day # 0
          BY <2>1, <2>2 DEF KeepOK
    <3> QED BY <3>1, <2>3 DEF Kept, Later
  <2>6. \A r \in th'["sched"].todo : Kept(r.art)' /\ ops'[r.art].day # 0
        BY <2>5 DEF Kept, Later, Moved
  <2>7. (LET a == th["sched"].art IN
           Kept(a) /\ ops[a].day # 0 /\ \A r \in th["sched"].todo : r.art > a)'
        BY <2>1, <2>2, <2>5 DEF Kept, Later, Moved, Arts
  <2> QED BY <2>4, <2>6, <2>7 DEF KeepOK
<1>9. UsedOK'
      BY UsedFrame
<1>10. OncePerOccurrence'
      BY OnceFrame
<1> QED BY <1>1, <1>2, <1>3, <1>4, <1>5, <1>6, <1>7, <1>8, <1>9, <1>10

\* A claim that is lost, or cannot be locked, is skipped.
LEMMA ClaimSkipped ==
  ASSUME Inv,
         NEW s \in th["sched"].todo,
         At("sched", "next"),
         Moved("sched", "next", th["sched"].day, th["sched"].art, th["sched"].ver, th["sched"].todo \ {s}),
         UNCHANGED <<files, cat, ops, row, queue, boot, today, retired, muted>>,
         faults' \in 0..MaxFaults, edits' \in 0..MaxEdits
  PROVE  Inv'
<1> USE DEF Inv
<1>1. TypeOK'
      BY DEF TypeOK, Moved
<1>2. ASSUME NEW u \in Threads PROVE ThreadOK(u)'
      BY DEF ThreadOK, Creating, Publishing, Deleting, At, Absent, Threads, Moved
<1>3. ASSUME NEW b \in Arts PROVE ArtOK(b)'
      BY DEF ArtOK, Absent, Torn
<1>4. Apart'
      BY DEF Apart, Busy, Creating, Publishing, Deleting, At, Threads, Moved
<1>5. SchedOK'
      BY DEF SchedOK, Closed, At, Threads, Moved
<1>6. QueueOK'
      BY QueueFrame DEF At, Threads, Moved
<1>7. OwnedOK'
      BY OwnedFrame DEF Creating, Publishing, At, Threads, Moved
<1>8. KeepOK'
      BY KeepFrame DEF Deleting, At, ThreadOK, Armed, Threads, Moved
<1>9. UsedOK'
      BY UsedFrame
<1>10. OncePerOccurrence'
      BY OnceFrame
<1> QED BY <1>1, <1>2, <1>3, <1>4, <1>5, <1>6, <1>7, <1>8, <1>9, <1>10

-----------------------------------------------------------------------------
(* Every action keeps the invariant.                                        *)

\* The types of a thread, a record, an operation.
LEMMA InvTypes ==
  ASSUME Inv
  PROVE  /\ th \in [Threads -> ThreadType] /\ cat \in [Arts -> CatType]
         /\ ops \in [Arts -> OpType] /\ files \in [Arts -> Files]
         /\ \A t \in Threads : th[t].pc \in Armed => th[t].art \in Arts
         /\ faults \in 0..MaxFaults /\ edits \in 0..MaxEdits
BY DEF Inv, TypeOK, ThreadOK

LEMMA FaultsCounted ==
  ASSUME Inv
  PROVE  /\ Fine => faults' \in 0..MaxFaults
         /\ Upset => faults' \in 0..MaxFaults
         /\ Asked => edits' \in 0..MaxEdits
         /\ UNCHANGED edits => edits' \in 0..MaxEdits
BY StoreAssumption DEF Inv, TypeOK, Fine, Upset, Asked

\* A record of a thread with two or three fields replaced.
AtDay(x, p, d) == [x EXCEPT !.pc = p, !.day = d]
OnArt(x, p, a) == [x EXCEPT !.pc = p, !.art = a]
OnVersion(x, p, a, v) == [x EXCEPT !.pc = p, !.art = a, !.ver = v]
OnTodo(x, p, a, S) == [x EXCEPT !.todo = S, !.pc = p, !.art = a]

LEMMA DayUpdate ==
  ASSUME NEW x \in ThreadType, NEW p \in Pcs, NEW d \in 0..MaxDays
  PROVE  LET r == AtDay(x, p, d) IN
           /\ r \in ThreadType /\ r.pc = p /\ r.day = d /\ r.art = x.art /\ r.ver = x.ver
           /\ r.todo = x.todo
<1> DEFINE q == [x EXCEPT !.pc = p]
<1>1. /\ q \in ThreadType /\ q.pc = p /\ q.day = x.day /\ q.art = x.art /\ q.ver = x.ver
      /\ q.todo = x.todo
      BY DEF ThreadType, Pcs
<1>2. AtDay(x, p, d) = [q EXCEPT !.day = d]
      BY DEF AtDay
<1> HIDE DEF q
<1> QED BY <1>1, <1>2 DEF ThreadType

LEMMA ArtUpdate ==
  ASSUME NEW x \in ThreadType, NEW p \in Pcs, NEW a \in 0..MaxArts
  PROVE  LET r == OnArt(x, p, a) IN
           /\ r \in ThreadType /\ r.pc = p /\ r.day = x.day /\ r.art = a /\ r.ver = x.ver
           /\ r.todo = x.todo
<1> DEFINE q == [x EXCEPT !.pc = p]
<1>1. /\ q \in ThreadType /\ q.pc = p /\ q.day = x.day /\ q.art = x.art /\ q.ver = x.ver
      /\ q.todo = x.todo
      BY DEF ThreadType, Pcs
<1>2. OnArt(x, p, a) = [q EXCEPT !.art = a]
      BY DEF OnArt
<1> HIDE DEF q
<1> QED BY <1>1, <1>2 DEF ThreadType

LEMMA VersionUpdate ==
  ASSUME NEW x \in ThreadType, NEW p \in Pcs, NEW a \in 0..MaxArts, NEW v \in Nat
  PROVE  LET r == OnVersion(x, p, a, v) IN
           /\ r \in ThreadType /\ r.pc = p /\ r.day = x.day /\ r.art = a /\ r.ver = v
           /\ r.todo = x.todo
<1> DEFINE q == OnArt(x, p, a)
<1>1. /\ q \in ThreadType /\ q.pc = p /\ q.day = x.day /\ q.art = a /\ q.ver = x.ver
      /\ q.todo = x.todo
      BY ArtUpdate
<1>2. OnVersion(x, p, a, v) = [q EXCEPT !.ver = v]
      BY DEF OnVersion, OnArt
<1> HIDE DEF q
<1> QED BY <1>1, <1>2 DEF ThreadType

LEMMA TodoUpdate ==
  ASSUME NEW x \in ThreadType, NEW p \in Pcs, NEW a \in 0..MaxArts, NEW S \in SUBSET Snap
  PROVE  LET r == OnTodo(x, p, a, S) IN
           /\ r \in ThreadType /\ r.pc = p /\ r.day = x.day /\ r.art = a /\ r.ver = x.ver
           /\ r.todo = S
<1> DEFINE q == [x EXCEPT !.todo = S]
<1>1. /\ q \in ThreadType /\ q.pc = x.pc /\ q.day = x.day /\ q.art = x.art /\ q.ver = x.ver
      /\ q.todo = S
      BY DEF ThreadType
<1>2. OnTodo(x, p, a, S) = OnArt(q, p, a)
      BY DEF OnTodo, OnArt
<1> HIDE DEF q
<1> QED BY <1>1, <1>2, ArtUpdate

LEMMA CreateStep ==
  ASSUME Inv, NEW t \in Threads, Create(t)
  PROVE  Inv'
<1> USE InvTypes, FaultsCounted
<1>1. CASE CreateOp(t)
  <2> DEFINE used == {a \in Arts : ops[a].status # "none"}
             a == Cardinality(used) + 1
  <2>1. CASE a \in Arts /\ Fine /\ ops' = [ops EXCEPT ![a].status = "active", ![a].day = th[t].day]
             /\ Becomes(t, [th[t] EXCEPT !.pc = "publish", !.art = a])
    <3>1. PICK n \in 0..MaxArts : used = 1..n
          BY DEF Inv, UsedOK
    <3>2. a = n + 1
      <4>1. Cardinality(1..n) = n
            BY FS_Interval
      <4> QED BY <3>1, <4>1
    <3>3. a \in Arts /\ used = 1..(a - 1)
      <4>1. a - 1 = n
            BY <3>2
      <4> QED BY <3>1, <2>1, <4>1
    <3> HIDE DEF a
    <3>6. \A b \in Arts : b \notin 1..(a - 1) => ops[b].status = "none"
          BY <3>3
    <3>7. ops[a].status = "none" /\ \A b \in Arts : b > a => ops[b].status = "none"
          BY <3>3, <3>6 DEF Arts
    <3>4. Operated(a, th[t].day, ops[a].cancel, ops[a].stage, "active")
      <4> DEFINE r == [ops[a] EXCEPT !.status = "active", !.day = th[t].day]
      <4>1. ops[a] \in OpType /\ th[t].day \in 0..MaxDays
            BY <2>1 DEF ThreadType
      <4>2. /\ r \in OpType /\ r.day = th[t].day /\ r.cancel = ops[a].cancel
            /\ r.stage = ops[a].stage /\ r.status = "active"
            BY <4>1 DEF OpType
      <4>3. ops' = [ops EXCEPT ![a] = r]
            BY <2>1
      <4> HIDE DEF r
      <4> QED BY <3>3, <4>2, <4>3 DEF Operated
    <3>5. Moved(t, "publish", th[t].day, a, th[t].ver, th[t].todo)
      <4> DEFINE r == OnArt(th[t], "publish", a)
      <4>1. th[t] \in ThreadType /\ "publish" \in Pcs /\ a \in 0..MaxArts
            BY <3>3 DEF Pcs, Arts
      <4>4. /\ r \in ThreadType /\ r.pc = "publish" /\ r.day = th[t].day /\ r.art = a
            /\ r.ver = th[t].ver /\ r.todo = th[t].todo
            BY <4>1, ArtUpdate
      <4>5. Becomes(t, r)
            BY <2>1 DEF OnArt
      <4> HIDE DEF r
      <4>6. Moved(t, r.pc, r.day, r.art, r.ver, r.todo)
            BY <4>4, <4>5, BecomesMoved
      <4> QED BY <4>4, <4>6
    <3> QED BY <1>1, <2>1, <3>3, <3>4, <3>5, <3>7, Created DEF CreateOp, Fine, disk, sched
  <2>2. CASE Upset /\ UNCHANGED ops /\ Goes(t, IF t = "user" THEN "idle" ELSE "fail")
    <3> DEFINE p == IF t = "user" THEN "idle" ELSE "fail"
    <3>1. Goes2(t, p)
          BY <2>2, GoesMoved DEF Pcs
    <3> QED BY <1>1, <2>2, <3>1, Stumbles
            DEF CreateOp, disk, sched, At, Creating, Publishing, Deleting, Threads
  <2> QED BY <1>1, <2>1, <2>2 DEF CreateOp
<1>2. CASE Build(t)
  <2>1. CASE Fine /\ ops' = [ops EXCEPT ![th[t].art].stage = "publish"] /\ UNCHANGED th
    <3>1. th[t].art \in Arts
          BY <1>2 DEF Build, At, Armed
    <3>2. Operated(th[t].art, ops[th[t].art].day, ops[th[t].art].cancel, "publish",
                   ops[th[t].art].status)
          BY <2>1, <3>1, OpFacts DEF Statuses
    <3> QED BY <1>2, <2>1, <3>2, Built DEF Build, Fine, disk, sched
  <2>2. CASE Upset /\ UNCHANGED ops /\ Goes(t, "opfail")
    <3>1. Goes2(t, "opfail")
          BY <2>2, GoesMoved DEF Pcs
    <3> QED BY <1>2, <2>2, <3>1, Stumbles
            DEF Build, disk, sched, At, Creating, Publishing, Deleting
  <2> QED BY <1>2, <2>1, <2>2 DEF Build
<1>3. CASE RenameArchive(t)
  <2> DEFINE a == th[t].art
  <2>0. a \in Arts /\ files[a] \in Files
        BY <1>3 DEF RenameArchive, At, Armed
  <2>1. CASE Fine /\ ops[a].cancel /\ Goes(t, "opcancel") /\ UNCHANGED files
    <3>1. Goes2(t, "opcancel")
          BY <2>1, GoesMoved DEF Pcs
    <3> QED BY <1>3, <2>1, <3>1, Stumbles
            DEF RenameArchive, Fine, sched, At, Creating, Publishing, Deleting
  <2>2. CASE Fine /\ ~ops[a].cancel /\ Goes(t, "sum") /\ files' = [files EXCEPT ![a] = "archive"]
    <3>1. Goes2(t, "sum")
          BY <2>2, GoesMoved DEF Pcs
    <3>2. Filed(a, "archive")
          BY <2>0, <2>2 DEF Filed, Files
    <3> QED BY <1>3, <2>2, <3>1, <3>2, ArchivePublished DEF RenameArchive, Fine, sched
  <2>3. CASE Upset /\ Goes(t, "opfail") /\ UNCHANGED files
    <3>1. Goes2(t, "opfail")
          BY <2>3, GoesMoved DEF Pcs
    <3> QED BY <1>3, <2>3, <3>1, Stumbles
            DEF RenameArchive, sched, At, Creating, Publishing, Deleting
  <2> QED BY <1>3, <2>1, <2>2, <2>3 DEF RenameArchive
<1>4. CASE RenameChecksum(t)
  <2>0. th[t].art \in Arts
        BY <1>4 DEF RenameChecksum, At, Armed
  <2>1. CASE Fine /\ Goes(t, "catalog") /\ files' = [files EXCEPT ![th[t].art] = "pair"]
    <3>1. Goes2(t, "catalog")
          BY <2>1, GoesMoved DEF Pcs
    <3>2. Filed(th[t].art, "pair")
          BY <2>0, <2>1 DEF Filed, Files
    <3> QED BY <1>4, <2>1, <3>1, <3>2, ChecksumPublished DEF RenameChecksum, Fine, sched
  <2>2. CASE Upset /\ Goes(t, "opfail") /\ UNCHANGED files
    <3>1. Goes2(t, "opfail")
          BY <2>2, GoesMoved DEF Pcs
    <3> QED BY <1>4, <2>2, <3>1, Stumbles
            DEF RenameChecksum, sched, At, Creating, Publishing, Deleting
  <2> QED BY <1>4, <2>1, <2>2 DEF RenameChecksum
<1>5. CASE CommitRecord(t)
  <2>0. th[t].art \in Arts
        BY <1>5 DEF CommitRecord, At, Armed
  <2>1. CASE Fine /\ Goes(t, "complete") /\ Publish(th[t].art)
    <3>1. Goes2(t, "complete")
          BY <2>1, GoesMoved DEF Pcs
    <3>2. Recorded(th[t].art, TRUE, "no", "user", TRUE)
          BY <2>0, <2>1, ListFacts
    <3> QED BY <1>5, <2>1, <3>1, <3>2, Committed DEF CommitRecord, Fine, sched
  <2>2. CASE Upset /\ Goes(t, "opfail") /\ UNCHANGED cat
    <3>1. Goes2(t, "opfail")
          BY <2>2, GoesMoved DEF Pcs
    <3> QED BY <1>5, <2>2, <3>1, Stumbles
            DEF CommitRecord, sched, At, Creating, Publishing, Deleting
  <2> QED BY <1>5, <2>1, <2>2 DEF CommitRecord
<1>6. CASE CompleteOp(t)
  <2>0. th[t].art \in Arts
        BY <1>6 DEF CompleteOp, At, Armed
  <2> DEFINE p == IF t = "user" THEN "idle" ELSE "pend"
             o == ops[th[t].art]
  <2>1. CASE Fine /\ OpStatus(th[t].art, "done") /\ Goes(t, p)
    <3>1. Goes2(t, p)
          BY <2>1, GoesMoved DEF Pcs
    <3>2. Operated(th[t].art, o.day, o.cancel, o.stage, "done")
          BY <2>0, <2>1, OpFacts DEF Statuses
    <3> QED BY <1>6, <2>1, <3>1, <3>2, OpEnded
            DEF CompleteOp, Fine, disk, sched, At, Creating, Publishing, Threads
  <2>2. CASE Upset /\ UNCHANGED ops /\ Goes(t, "opfail")
    <3>1. Goes2(t, "opfail")
          BY <2>2, GoesMoved DEF Pcs
    <3> QED BY <1>6, <2>2, <3>1, Stumbles
            DEF CompleteOp, disk, sched, At, Creating, Publishing, Deleting
  <2> QED BY <1>6, <2>1, <2>2 DEF CompleteOp
<1>7. CASE EndOp(t)
  <2>0. th[t].art \in Arts
        BY <1>7 DEF EndOp, At, Armed
  <2> DEFINE p == IF t = "user" THEN "idle" ELSE "fail"
             o == ops[th[t].art]
  <2>1. Goes2(t, p)
        BY <1>7, GoesMoved DEF EndOp, Pcs
  <2>2. CASE At(t, "opfail") /\ OpStatus(th[t].art, "failed")
    <3>1. Operated(th[t].art, o.day, o.cancel, o.stage, "failed")
          BY <2>0, <2>2, OpFacts DEF Statuses
    <3> QED BY <1>7, <2>1, <2>2, <3>1, OpEnded
            DEF EndOp, disk, sched, At, Creating, Publishing, Threads
  <2>3. CASE At(t, "opcancel") /\ OpStatus(th[t].art, "cancelled")
    <3>1. Operated(th[t].art, o.day, o.cancel, o.stage, "cancelled")
          BY <2>0, <2>3, OpFacts DEF Statuses
    <3> QED BY <1>7, <2>1, <2>3, <3>1, OpEnded
            DEF EndOp, disk, sched, At, Creating, Publishing, Threads
  <2> QED BY <1>7, <2>2, <2>3 DEF EndOp
<1> QED BY <1>1, <1>2, <1>3, <1>4, <1>5, <1>6, <1>7 DEF Create

LEMMA DeleteStep ==
  ASSUME Inv, NEW t \in Threads, Delete(t)
  PROVE  Inv'
<1> USE InvTypes, FaultsCounted
<1> DEFINE a == th[t].art
           p == Ended(t)
<1>0. /\ a \in Arts /\ Deleting(t) /\ cat[a] \in CatType /\ files[a] \in Files
      /\ p \in {"idle", "next"} /\ (t = "user" <=> p = "idle")
      BY DEF Delete, UnlinkArchive, UnlinkChecksum, FinishDelete, At, Armed, Deleting, Ended
<1>1. ASSUME DeleteFails(t), UNCHANGED <<ops, sched, boot, today, retired, edits>>
      PROVE  Inv'
  <2>1. Goes2(t, p)
        BY <1>0, <1>1, GoesMoved DEF DeleteFails, Pcs
  <2>2. Recorded(a, cat[a].in, "failed", t, cat[a].once)
        BY <1>0, <1>1, RecordFacts DEF DeleteFails, Claims
  <2> QED BY <1>0, <1>1, <2>1, <2>2, DeleteFailed DEF DeleteFails, sched
<1>2. CASE UnlinkArchive(t)
  <2> DEFINE f == IF files[a] \in {"pair", "checksum"} THEN "checksum" ELSE "none"
  <2>1. CASE Fine /\ UNCHANGED cat /\ Goes(t, "cutsum") /\ files' = [files EXCEPT ![a] = f]
    <3>1. Goes2(t, "cutsum")
          BY <2>1, GoesMoved DEF Pcs
    <3>2. Filed(a, f) /\ f \in {"none", "checksum"} /\ (files[a] = "none" => f = "none")
          BY <1>0, <2>1 DEF Filed, Files
    <3> HIDE DEF f
    <3> QED BY <1>2, <2>1, <3>1, <3>2, ArchiveCut DEF UnlinkArchive, Fine, sched
  <2> QED BY <1>1, <1>2, <2>1 DEF UnlinkArchive
<1>3. CASE UnlinkChecksum(t)
  <2>1. CASE Fine /\ UNCHANGED cat /\ Goes(t, "finish") /\ files' = [files EXCEPT ![a] = "none"]
    <3>1. Goes2(t, "finish")
          BY <2>1, GoesMoved DEF Pcs
    <3>2. Filed(a, "none")
          BY <1>0, <2>1 DEF Filed, Files
    <3> QED BY <1>3, <2>1, <3>1, <3>2, ChecksumCut DEF UnlinkChecksum, Fine, sched
  <2> QED BY <1>1, <1>3, <2>1 DEF UnlinkChecksum
<1>4. CASE FinishDelete(t)
  <2>1. Goes2(t, p)
        BY <1>0, <1>4, GoesMoved DEF FinishDelete, Pcs
  <2>2. cat' = cat \/ Recorded(a, FALSE, "no", "user", TRUE)
        BY <1>0, <1>4, ListFacts DEF FinishDelete
  <2>3. cat' \in [Arts -> CatType] /\ faults' \in 0..MaxFaults
        BY <1>4, <2>2 DEF FinishDelete, Recorded
  <2> QED BY <1>0, <1>4, <2>1, <2>2, <2>3, PairGone DEF FinishDelete, sched
<1> QED BY <1>2, <1>3, <1>4 DEF Delete


LEMMA IdleFacts ==
  /\ Idle \in ThreadType /\ Idle.pc = "idle" /\ Idle.day = 0 /\ Idle.art = 0 /\ Idle.ver = 0
  /\ Idle.todo = {}
BY StoreAssumption DEF Idle, ThreadType

LEMMA UserStep ==
  ASSUME Inv, User
  PROVE  Inv'
<1> USE InvTypes, FaultsCounted
<1>0. "user" \in Threads
      BY DEF Threads
<1>1. CASE CreateByHand
  <2>1. Goes2("user", "op")
        BY <1>0, <1>1, GoesMoved DEF CreateByHand, Pcs
  <2> QED BY <1>1, <2>1, AskedToCreate DEF CreateByHand, disk, sched
<1>2. CASE ClearHistory
  <2>1. ASSUME NEW a \in Arts
        PROVE  /\ ops'[a] \in OpType /\ ops'[a].day = ops[a].day /\ ops'[a].cancel = ops[a].cancel
               /\ ops'[a].status = IF ops[a].status \in {"done", "failed", "cancelled"}
                                   THEN "cleared" ELSE ops[a].status
    <3>1. ops[a] \in OpType /\ [ops[a] EXCEPT !.status = "cleared"] \in OpType
          BY DEF OpType
    <3>2. ops'[a] = IF ops[a].status \in {"done", "failed", "cancelled"}
                    THEN [ops[a] EXCEPT !.status = "cleared"] ELSE ops[a]
          BY <1>2 DEF ClearHistory
    <3> QED BY <3>1, <3>2 DEF OpType
  <2>2. ops' \in [Arts -> OpType]
        BY <1>2, <2>1 DEF ClearHistory
  <2> QED BY <1>2, <2>1, <2>2, Cleared DEF ClearHistory, disk, sched
<1>3. CASE \E a \in Arts : BeginDelete(a)
  <2>1. PICK a \in Arts : BeginDelete(a)
        BY <1>3
  <2> DEFINE r == OnArt(Idle, "cut", a)
  <2>2. /\ r \in ThreadType /\ r.pc = "cut" /\ r.day = 0 /\ r.art = a /\ r.ver = 0
        /\ r.todo = {} /\ Becomes("user", r)
    <3>1. a \in 0..MaxArts /\ "cut" \in Pcs
          BY DEF Arts, Pcs
    <3>2. Becomes("user", r)
          BY <2>1 DEF BeginDelete, OnArt
    <3> QED BY <3>1, <3>2, IdleFacts, ArtUpdate
  <2> HIDE DEF r
  <2>3. Moved("user", r.pc, r.day, r.art, r.ver, r.todo)
        BY <1>0, <2>2, BecomesMoved
  <2>4. Moved("user", "cut", 0, a, 0, {})
        BY <2>2, <2>3
  <2>5. Recorded(a, cat[a].in, "deleting", "user", cat[a].once)
        BY <1>0, <2>1, RecordFacts DEF BeginDelete, Claims
  <2> QED BY <2>1, <2>4, <2>5, DeleteBegun DEF BeginDelete, sched
<1>4. CASE \E a \in Arts : BeginVerify(a)
  <2>1. PICK a \in Arts : BeginVerify(a)
        BY <1>4
  <2> DEFINE v == cat[a].ver
             r == OnVersion(Idle, "verify", a, v)
  <2>2. /\ r \in ThreadType /\ r.pc = "verify" /\ r.day = 0 /\ r.art = a /\ r.ver = v
        /\ r.todo = {} /\ Becomes("user", r)
    <3>1. a \in 0..MaxArts /\ "verify" \in Pcs /\ v \in Nat
          BY DEF Arts, Pcs, CatType
    <3>2. Becomes("user", r)
          BY <2>1 DEF BeginVerify, OnVersion
    <3> QED BY <3>1, <3>2, IdleFacts, VersionUpdate
  <2> HIDE DEF r
  <2>3. Moved("user", r.pc, r.day, r.art, r.ver, r.todo)
        BY <1>0, <2>2, BecomesMoved
  <2>4. Moved("user", "verify", 0, a, v, {})
        BY <2>2, <2>3
  <2> QED BY <2>1, <2>4, VerifyBegun DEF BeginVerify, disk, sched
<1>5. CASE \E a \in Arts : Cancel(a)
  <2>1. PICK a \in Arts : Cancel(a)
        BY <1>5
  <2>2. Operated(a, ops[a].day, TRUE, ops[a].stage, ops[a].status)
        BY <2>1, OpFacts DEF Cancel, Statuses
  <2> QED BY <2>1, <2>2, Cancelled DEF Cancel, disk, sched
<1> QED BY <1>1, <1>2, <1>3, <1>4, <1>5 DEF User

\* A new version or an older claim.
LEMMA MinorFacts ==
  ASSUME cat \in [Arts -> CatType], NEW a \in Arts,
         \/ cat' = [cat EXCEPT ![a].ver = @ + 1]
         \/ cat' = [cat EXCEPT ![a].old = TRUE]
         \/ cat' = cat
  PROVE  /\ cat' \in [Arts -> CatType]
         /\ \A b \in Arts : /\ cat'[b].in = cat[b].in /\ cat'[b].claim = cat[b].claim
                            /\ cat'[b].who = cat[b].who /\ cat'[b].once = cat[b].once
<1> DEFINE v == cat[a].ver + 1
           p == [cat[a] EXCEPT !.ver = v]
           o == [cat[a] EXCEPT !.old = TRUE]
<1>1. cat[a] \in CatType /\ v \in Nat
      BY DEF CatType
<1>2. /\ p \in CatType /\ p.in = cat[a].in /\ p.claim = cat[a].claim /\ p.who = cat[a].who
      /\ p.once = cat[a].once
      BY <1>1 DEF CatType
<1>3. /\ o \in CatType /\ o.in = cat[a].in /\ o.claim = cat[a].claim /\ o.who = cat[a].who
      /\ o.once = cat[a].once
      BY <1>1 DEF CatType
<1>4. \/ cat' = [cat EXCEPT ![a] = p] \/ cat' = [cat EXCEPT ![a] = o] \/ cat' = cat
      OBVIOUS
<1> HIDE DEF p, o
<1> QED BY <1>2, <1>3, <1>4

LEMMA VerifyStep ==
  ASSUME Inv, EndVerify
  PROVE  Inv'
<1> USE InvTypes
<1> DEFINE a == th["user"].art
<1>1. a \in Arts /\ "user" \in Threads
      BY DEF EndVerify, At, Armed, Threads
<1>2. Moved("user", Idle.pc, Idle.day, Idle.art, Idle.ver, Idle.todo)
      BY <1>1, IdleFacts, BecomesMoved DEF EndVerify
<1>3. Moved("user", "idle", 0, 0, 0, {})
      BY <1>2, IdleFacts
<1>4. cat' = [cat EXCEPT ![a].ver = @ + 1] \/ cat' = cat
      BY DEF EndVerify
<1>5. /\ cat' \in [Arts -> CatType]
      /\ \A b \in Arts : /\ cat'[b].in = cat[b].in /\ cat'[b].claim = cat[b].claim
                         /\ cat'[b].who = cat[b].who /\ cat'[b].once = cat[b].once
      BY <1>1, <1>4, MinorFacts
<1> QED BY <1>3, <1>5, VerifyEnded DEF EndVerify, sched

LEMMA TimeStep ==
  ASSUME Inv, NextDay \/ Crash \/ RecoveryFails \/ \E a \in Arts : Expire(a)
  PROVE  Inv'
<1> USE InvTypes, FaultsCounted
<1>1. CASE NextDay
      BY <1>1, DayPassed DEF NextDay, disk, sched
<1>2. CASE Crash
  <2>1. boot' \in BootType /\ boot'.pc = "down"
        BY <1>2 DEF Crash, BootType
  <2> QED BY <1>2, <2>1, Crashed DEF Crash, disk
<1>3. CASE \E a \in Arts : Expire(a)
  <2>1. PICK a \in Arts : Expire(a)
        BY <1>3
  <2>2. /\ cat' \in [Arts -> CatType]
        /\ \A b \in Arts : /\ cat'[b].in = cat[b].in /\ cat'[b].claim = cat[b].claim
                           /\ cat'[b].who = cat[b].who /\ cat'[b].once = cat[b].once
        BY <2>1, MinorFacts DEF Expire
  <2> QED BY <2>1, <2>2, ClaimExpired DEF Expire, sched
<1>4. CASE RecoveryFails
  <2>1. boot' \in BootType /\ boot'.pc = "failed" /\ boot.pc # "up"
    <3>1. boot \in BootType /\ boot' = [boot EXCEPT !.pc = "failed"]
          BY <1>4 DEF RecoveryFails, BootGoes, Inv, TypeOK
    <3> QED BY <1>4, <3>1 DEF RecoveryFails, BootType
  <2> QED BY <1>4, <2>1, RecoveryFailed DEF RecoveryFails, disk, sched
<1> QED BY <1>1, <1>2, <1>3, <1>4

\* The status of an occurrence, noted when the row is still its own.
LEMMA StatusFacts ==
  ASSUME row \in RowType, NEW d, NEW s \in {"pending", "completed", "failed"}, SetStatus(d, s)
  PROVE  row' \in RowType /\ row'.day = row.day /\ (row.day # d => row' = row)
BY DEF SetStatus, RowType

LEMMA ScheduleStep ==
  ASSUME Inv, Schedule \/ Dispatch
  PROVE  Inv'
<1> USE InvTypes, FaultsCounted
<1>0. /\ "sched" \in Threads /\ row \in RowType /\ queue \in Seq([day: Days, pc: {"op", "claim"}])
      /\ today \in 0..MaxDays /\ th["sched"].day \in 0..MaxDays
      /\ (~At("sched", "idle") => th["sched"].day # 0 /\ boot.pc = "up")
      BY DEF Inv, TypeOK, SchedOK, Threads, ThreadType
<1>1. CASE Dispatch
  <2>1. row' \in RowType /\ row'.day = today
        BY <1>0, <1>1 DEF Dispatch, RowType
  <2> QED BY <1>1, <2>1, Dispatched DEF Dispatch, disk
<1>2. CASE TakeWorker
  <2> DEFINE q == Head(queue).pc
             d == Head(queue).day
             r == AtDay(Idle, q, d)
  <2>1. Head(queue) = queue[1] /\ q \in {"op", "claim"} /\ d \in Days
    <3> DEFINE Worker == [day: Days, pc: {"op", "claim"}]
    <3>1. \A x \in Worker : x.pc \in {"op", "claim"} /\ x.day \in Days
          OBVIOUS
    <3>2. queue \in Seq(Worker)
          BY <1>0
    <3> HIDE DEF Worker
    <3>3. Head(queue) = queue[1] /\ queue[1] \in Worker
          BY <1>2, <3>2 DEF TakeWorker
    <3> QED BY <3>1, <3>3
  <2>2. /\ r \in ThreadType /\ r.pc = q /\ r.day = d /\ r.art = 0 /\ r.ver = 0
        /\ r.todo = {} /\ Becomes("sched", r)
    <3>1. d \in 0..MaxDays /\ q \in Pcs
          BY <2>1 DEF Days, Pcs
    <3>2. Becomes("sched", r)
          BY <1>2 DEF TakeWorker, AtDay
    <3> QED BY <3>1, <3>2, IdleFacts, DayUpdate
  <2> HIDE DEF r
  <2>3. Moved("sched", r.pc, r.day, r.art, r.ver, r.todo)
        BY <1>0, <2>2, BecomesMoved
  <2>4. Moved("sched", queue[1].pc, queue[1].day, 0, 0, {})
        BY <2>1, <2>2, <2>3
  <2> QED BY <1>2, <2>4, Taken DEF TakeWorker, disk
<1>3. CASE Pend
  <2>1. CASE Fine /\ SetStatus(th["sched"].day, "pending") /\ Goes("sched", "claim")
    <3>1. Goes2("sched", "claim")
          BY <1>0, <2>1, GoesMoved DEF Pcs
    <3>2. row' \in RowType /\ row'.day = row.day /\ (row.day = 0 => row' = row)
          BY <1>0, <1>3, <2>1, StatusFacts DEF Pend, At
    <3>3. muted' \in BOOLEAN
          BY <1>3 DEF Pend, Inv, TypeOK
    <3> QED BY <1>3, <2>1, <3>1, <3>2, <3>3, Noted DEF Pend, disk, At
  <2>2. CASE Upset /\ UNCHANGED row /\ Goes("sched", "fail")
    <3>1. Goes2("sched", "fail")
          BY <1>0, <2>2, GoesMoved DEF Pcs
    <3> QED BY <1>0, <1>3, <2>2, <3>1, Stumbles
            DEF Pend, disk, At, Creating, Publishing, Deleting
  <2> QED BY <1>3, <2>1, <2>2 DEF Pend
<1>4. CASE ClaimOld
  <2> DEFINE S == {[art |-> a, ver |-> cat[a].ver + 1] : a \in Candidates}
             r == [th["sched"] EXCEPT !.pc = "next", !.todo = S]
  <2>0. Candidates \subseteq Arts
        BY DEF Candidates, Eligible
  <2>1. CASE Fine /\ UNCHANGED <<>> /\ Becomes("sched", r)
             /\ cat' = [a \in Arts |-> IF a \in Candidates
                          THEN [cat[a] EXCEPT !.claim = "claimed", !.ver = @ + 1, !.who = "sched"]
                          ELSE cat[a]]
    <3>1. S \in SUBSET Snap /\ \A s \in S : s.art \in Candidates
          BY <2>0 DEF Snap, CatType
    <3>2. ASSUME NEW a \in Arts
          PROVE  /\ cat'[a] \in CatType /\ cat'[a].in = cat[a].in /\ cat'[a].once = cat[a].once
                 /\ a \notin Candidates => cat'[a].claim = cat[a].claim /\ cat'[a].who = cat[a].who
                 /\ a \in Candidates => cat'[a].claim = "claimed" /\ cat'[a].who = "sched"
      <4>1. cat[a] \in CatType
            OBVIOUS
      <4>2. CASE a \in Candidates
        <5> DEFINE u == [cat[a] EXCEPT !.claim = "claimed"]
                   v == [u EXCEPT !.ver = cat[a].ver + 1]
                   w == [v EXCEPT !.who = "sched"]
        <5>1. /\ u \in CatType /\ u.in = cat[a].in /\ u.once = cat[a].once
              /\ u.claim = "claimed" /\ u.ver = cat[a].ver /\ cat[a].ver + 1 \in Nat
              BY <4>1 DEF CatType, Claims
        <5>2. cat'[a] = w
              BY <2>1, <4>1, <4>2, <5>1 DEF CatType
        <5> HIDE DEF u
        <5>3. /\ v \in CatType /\ v.in = cat[a].in /\ v.once = cat[a].once /\ v.claim = "claimed"
              BY <5>1 DEF CatType
        <5> HIDE DEF v
        <5>4. /\ w \in CatType /\ w.in = cat[a].in /\ w.once = cat[a].once /\ w.claim = "claimed"
              /\ w.who = "sched"
              BY <5>3 DEF CatType, Threads
        <5> QED BY <4>2, <5>2, <5>4
      <4>3. CASE a \notin Candidates
            BY <2>1, <4>1, <4>3
      <4> QED BY <4>2, <4>3
    <3>3. cat' \in [Arts -> CatType]
          BY <2>1, <3>2
    <3> HIDE DEF S
    <3>4. /\ r \in ThreadType /\ r.pc = "next" /\ r.day = th["sched"].day
          /\ r.art = th["sched"].art /\ r.ver = th["sched"].ver /\ r.todo = S
          BY <1>0, <3>1 DEF ThreadType
    <3> HIDE DEF r
    <3>5. Moved("sched", r.pc, r.day, r.art, r.ver, r.todo)
          BY <1>0, <2>1, <3>4, BecomesMoved
    <3>6. Moved("sched", "next", th["sched"].day, th["sched"].art, th["sched"].ver, S)
          BY <3>4, <3>5
    <3> QED BY <1>0, <1>4, <2>1, <3>1, <3>2, <3>3, <3>6, ClaimedAll DEF ClaimOld, sched, Fine, At
  <2>2. CASE Upset /\ UNCHANGED cat /\ Goes("sched", "fail")
    <3>1. Goes2("sched", "fail")
          BY <1>0, <2>2, GoesMoved DEF Pcs
    <3> QED BY <1>0, <1>4, <2>2, <3>1, Stumbles
            DEF ClaimOld, sched, At, Creating, Publishing, Deleting
  <2> QED BY <1>4, <2>1, <2>2 DEF ClaimOld
<1>5. CASE BeginClaimed
  <2>1. PICK s \in th["sched"].todo :
          LET rest == th["sched"].todo \ {s}
              mine == cat[s.art].in /\ cat[s.art].ver = s.ver /\ cat[s.art].claim = "claimed"
              skip == Becomes("sched", [th["sched"] EXCEPT !.todo = rest]) /\ UNCHANGED cat
          IN  /\ \A r \in rest : s.art < r.art
              /\ At("sched", "next") /\ UNCHANGED <<files, ops, sched, boot, today, retired, edits>>
              /\ \/ /\ Fine /\ LockFree("sched", s.art) /\ mine /\ Record(s.art, "deleting", "sched")
                    /\ Becomes("sched", [th["sched"] EXCEPT !.todo = rest, !.pc = "cut", !.art = s.art])
                 \/ Fine /\ LockFree("sched", s.art) /\ ~mine /\ skip
                 \/ Upset /\ skip
        BY <1>5 DEF BeginClaimed
  <2> DEFINE rest == th["sched"].todo \ {s}
             w == [th["sched"] EXCEPT !.todo = rest]
             r == OnTodo(th["sched"], "cut", s.art, rest)
  <2>2. s \in Snap /\ s.art \in Arts /\ rest \in SUBSET Snap /\ th["sched"] \in ThreadType
        BY <1>0 DEF ThreadType, Snap
  <2>3. CASE /\ Fine /\ LockFree("sched", s.art) /\ cat[s.art].in /\ cat[s.art].claim = "claimed"
             /\ Record(s.art, "deleting", "sched") /\ Becomes("sched", r)
    <3>1. Recorded(s.art, cat[s.art].in, "deleting", "sched", cat[s.art].once)
          BY <1>0, <2>2, <2>3, RecordFacts DEF Claims
    <3> HIDE DEF rest
    <3>2. /\ r \in ThreadType /\ r.pc = "cut" /\ r.day = th["sched"].day /\ r.art = s.art
          /\ r.ver = th["sched"].ver /\ r.todo = rest
      <4>1. s.art \in 0..MaxArts /\ "cut" \in Pcs
            BY <2>2 DEF Arts, Pcs
      <4> QED BY <2>2, <4>1, TodoUpdate
    <3> HIDE DEF r
    <3>3. Moved("sched", r.pc, r.day, r.art, r.ver, r.todo)
          BY <1>0, <2>3, <3>2, BecomesMoved
    <3>4. Moved("sched", "cut", th["sched"].day, s.art, th["sched"].ver, rest)
          BY <3>2, <3>3
    <3> USE DEF rest
    <3> QED BY <2>1, <2>2, <2>3, <3>1, <3>4, ClaimBegun DEF sched, Fine
  <2>4. CASE (Fine \/ Upset) /\ Becomes("sched", w) /\ UNCHANGED cat
    <3> HIDE DEF rest
    <3>2. /\ w \in ThreadType /\ w.pc = "next" /\ w.day = th["sched"].day
          /\ w.art = th["sched"].art /\ w.ver = th["sched"].ver /\ w.todo = rest
          BY <2>1, <2>2 DEF ThreadType, At
    <3> HIDE DEF w
    <3>3. Moved("sched", w.pc, w.day, w.art, w.ver, w.todo)
          BY <1>0, <2>4, <3>2, BecomesMoved
    <3>4. Moved("sched", "next", th["sched"].day, th["sched"].art, th["sched"].ver, rest)
          BY <3>2, <3>3
    <3> USE DEF rest
    <3> QED BY <2>1, <2>4, <3>4, ClaimSkipped DEF sched
  <2> QED BY <2>1, <2>3, <2>4 DEF OnTodo
<1>6. CASE AllDeleted
  <2>1. Goes2("sched", "done")
        BY <1>0, <1>6, GoesMoved DEF AllDeleted, Pcs
  <2> QED BY <1>0, <1>6, <2>1, Stumbles
          DEF AllDeleted, disk, sched, At, Creating, Publishing, Deleting
<1>7. CASE Report
  <2>1. Goes2("sched", "idle")
        BY <1>0, <1>7, GoesMoved DEF Report, Pcs
  <2>2. th["sched"].pc \in {"done", "fail"}
        BY <1>7 DEF Report, At
  <2>3. row' \in RowType /\ row'.day = row.day /\ (row.day = 0 => row' = row)
    <3>1. CASE UNCHANGED row
          BY <1>0, <3>1
    <3>2. CASE SetStatus(th["sched"].day, IF At("sched", "done") THEN "completed" ELSE "failed")
          BY <1>0, <2>2, <3>2, StatusFacts DEF At
    <3> QED BY <1>7, <3>1, <3>2 DEF Report
  <2>4. muted' \in BOOLEAN /\ faults' \in 0..MaxFaults
        BY <1>7 DEF Report, Inv, TypeOK
  <2> QED BY <1>7, <2>1, <2>2, <2>3, <2>4, Noted DEF Report, disk
<1> QED BY <1>1, <1>2, <1>3, <1>4, <1>5, <1>6, <1>7 DEF Schedule

\* The start goes on, with one of its sets replaced.
LEMMA BootUpdates ==
  ASSUME boot \in BootType, NEW p \in {"down", "ops", "claims", "pairs", "files", "rows", "up"},
         NEW S \in SUBSET Arts
  PROVE  /\ boot' = [boot EXCEPT !.pc = p] => boot' \in BootType /\ boot'.pc = p
         /\ boot' = [boot EXCEPT !.pc = p, !.before = S] => boot' \in BootType /\ boot'.pc = p
         /\ boot' = [boot EXCEPT !.pc = p, !.known = S] => boot' \in BootType /\ boot'.pc = p
         /\ boot' = [boot EXCEPT !.pc = p, !.todo = S]
              => boot' \in BootType /\ boot'.pc = p /\ boot'.todo = S
         /\ boot' = [boot EXCEPT !.todo = S]
              => boot' \in BootType /\ boot'.pc = boot.pc /\ boot'.todo = S
<1> DEFINE q == [boot EXCEPT !.pc = p]
<1>1. q \in BootType /\ q.pc = p
      BY DEF BootType
<1>2. [boot EXCEPT !.todo = S] \in BootType /\ [boot EXCEPT !.todo = S].pc = boot.pc
      /\ [boot EXCEPT !.todo = S].todo = S
      BY DEF BootType
<1>3. /\ boot' = [boot EXCEPT !.pc = p, !.before = S] => boot' = [q EXCEPT !.before = S]
      /\ boot' = [boot EXCEPT !.pc = p, !.known = S] => boot' = [q EXCEPT !.known = S]
      /\ boot' = [boot EXCEPT !.pc = p, !.todo = S] => boot' = [q EXCEPT !.todo = S]
      OBVIOUS
<1>4. boot' = [boot EXCEPT !.pc = p] => boot' = q
      OBVIOUS
<1> HIDE DEF q
<1>5. /\ boot' = [q EXCEPT !.before = S] => boot' \in BootType /\ boot'.pc = p
      /\ boot' = [q EXCEPT !.known = S] => boot' \in BootType /\ boot'.pc = p
      /\ boot' = [q EXCEPT !.todo = S] => boot' \in BootType /\ boot'.pc = p /\ boot'.todo = S
      BY <1>1 DEF BootType
<1> QED BY <1>1, <1>2, <1>3, <1>4, <1>5

LEMMA BootStep ==
  ASSUME Inv, Boot
  PROVE  Inv'
<1> USE InvTypes
<1>0. boot \in BootType /\ row \in RowType /\ boot.todo \in SUBSET Arts
      BY DEF Inv, TypeOK, BootType
<1>1. CASE Start
  <2> DEFINE S == {a \in Arts : ops[a].status # "none"}
  <2>1. boot' = [boot EXCEPT !.pc = "ops", !.before = S] /\ S \in SUBSET Arts
        BY <1>1 DEF Start
  <2> HIDE DEF S
  <2>2. boot' \in BootType /\ boot'.pc = "ops"
        BY <1>0, <2>1, BootUpdates
  <2> QED BY <1>1, <2>2, Started DEF Start, disk
<1>2. CASE Abandon
  <2> DEFINE active == {a \in Arts : ops[a].status = "active"}
             live == {a \in active : th["user"].art = a /\ Creating("user")}
             S == {a \in active : ops[a].stage = "publish"}
  <2>1. boot' = [boot EXCEPT !.pc = "claims", !.known = S] /\ S \in SUBSET Arts
        BY <1>2 DEF Abandon
  <2> HIDE DEF S
  <2>2. boot' \in BootType /\ boot'.pc = "claims"
        BY <1>0, <2>1, BootUpdates
  <2>3. ASSUME NEW a \in Arts
        PROVE  /\ ops'[a] \in OpType /\ ops'[a].day = ops[a].day /\ ops'[a].cancel = ops[a].cancel
               /\ ops'[a].status = IF /\ ops[a].status = "active"
                                      /\ ~(th["user"].art = a /\ Creating("user"))
                                   THEN "failed" ELSE ops[a].status
    <3>1. ops[a] \in OpType /\ [ops[a] EXCEPT !.status = "failed"] \in OpType
          BY DEF OpType
    <3>2. ops'[a] = IF ops[a].status = "active" /\ ~(th["user"].art = a /\ Creating("user"))
                    THEN [ops[a] EXCEPT !.status = "failed"] ELSE ops[a]
          BY <1>2 DEF Abandon
    <3> QED BY <3>1, <3>2 DEF OpType
  <2>4. ops' \in [Arts -> OpType]
        BY <1>2, <2>3 DEF Abandon
  <2> QED BY <1>2, <2>2, <2>3, <2>4, Abandoned DEF Abandon, disk, sched
<1>3. CASE ReleaseClaims
  <2> DEFINE stale(a) == /\ cat[a].claim # "no" /\ cat[a].old
                         /\ ~(cat[a].who = "user" /\ Deleting("user") /\ th["user"].art = a)
             S == {a \in Arts : cat[a].in}
  <2>1. boot' = [boot EXCEPT !.pc = "pairs", !.todo = S]
        BY <1>3 DEF ReleaseClaims
  <2>2. boot' \in BootType /\ boot'.pc = "pairs" /\ boot'.todo = S
    <3>1. S \in SUBSET Arts
          OBVIOUS
    <3> HIDE DEF S
    <3> QED BY <1>0, <2>1, <3>1, BootUpdates
  <2>3. ASSUME NEW a \in Arts
        PROVE  /\ cat'[a] \in CatType /\ cat'[a].in = cat[a].in /\ cat'[a].once = cat[a].once
               /\ cat'[a].who = cat[a].who
               /\ cat'[a].claim = cat[a].claim \/ cat'[a].claim = "no"
               /\ cat[a].who = "user" /\ Deleting("user") /\ th["user"].art = a
                    => cat'[a].claim = cat[a].claim
    <3> DEFINE v == [cat[a] EXCEPT !.claim = "no"]
               w == [v EXCEPT !.ver = cat[a].ver + 1]
               r == [w EXCEPT !.old = FALSE]
    <3>1. cat[a] \in CatType
          OBVIOUS
    <3>2. cat'[a] = IF stale(a) THEN r ELSE cat[a]
          BY <1>3, <3>1 DEF ReleaseClaims, CatType
    <3>3. /\ v \in CatType /\ v.in = cat[a].in /\ v.once = cat[a].once /\ v.who = cat[a].who
          /\ v.claim = "no" /\ cat[a].ver + 1 \in Nat
          BY <3>1 DEF CatType, Claims
    <3> HIDE DEF v
    <3>4. /\ w \in CatType /\ w.in = cat[a].in /\ w.once = cat[a].once /\ w.who = cat[a].who
          /\ w.claim = "no"
          BY <3>3 DEF CatType
    <3> HIDE DEF w
    <3>5. /\ r \in CatType /\ r.in = cat[a].in /\ r.once = cat[a].once /\ r.who = cat[a].who
          /\ r.claim = "no"
          BY <3>4 DEF CatType
    <3> HIDE DEF r
    <3> QED BY <3>1, <3>2, <3>5
  <2>4. cat' \in [Arts -> CatType]
        BY <1>3, <2>3 DEF ReleaseClaims
  <2> QED BY <1>3, <2>2, <2>3, <2>4, Released DEF ReleaseClaims, sched
<1>4. CASE CheckPair
  <2>1. CASE boot.todo = {} /\ UNCHANGED cat
             /\ boot' = [boot EXCEPT !.pc = "files", !.todo = {a \in Arts : files[a] # "none"}]
    <3> DEFINE S == {a \in Arts : files[a] # "none"}
    <3>1. boot' = [boot EXCEPT !.pc = "files", !.todo = S] /\ S \in SUBSET Arts
          BY <2>1
    <3> HIDE DEF S
    <3>2. boot' \in BootType /\ boot'.pc = "files"
          BY <1>0, <3>1, BootUpdates
    <3> QED BY <1>4, <2>1, <3>2, PairsChecked DEF CheckPair, sched
  <2>2. CASE \E a \in boot.todo :
               /\ ~Locked(a) /\ ~Reading("user", a)
               /\ IF PairThere(a) THEN UNCHANGED cat ELSE Drop(a)
               /\ boot' = [boot EXCEPT !.todo = @ \ {a}]
    <3>1. PICK a \in boot.todo :
               /\ ~Locked(a)
               /\ IF PairThere(a) THEN UNCHANGED cat ELSE Drop(a)
               /\ boot' = [boot EXCEPT !.todo = @ \ {a}]
          BY <2>2
    <3> DEFINE S == boot.todo \ {a}
    <3>2. a \in Arts /\ S \in SUBSET Arts /\ boot' = [boot EXCEPT !.todo = S]
          BY <1>0, <3>1
    <3>3. boot' \in BootType /\ boot'.pc = "pairs" /\ boot'.todo = S
          BY <1>0, <1>4, <3>2, BootUpdates DEF CheckPair
    <3>4. \/ files[a] = "pair" /\ cat' = cat
          \/ files[a] # "pair" /\ Recorded(a, FALSE, "no", "user", TRUE)
          BY <3>1, <3>2, ListFacts DEF PairThere
    <3> QED BY <1>4, <3>1, <3>2, <3>3, <3>4, PairChecked DEF CheckPair, sched
  <2> QED BY <1>4, <2>1, <2>2 DEF CheckPair
<1>5. CASE CheckFiles
  <2>1. CASE boot.todo = {} /\ BootGoes("rows") /\ UNCHANGED disk
    <3>1. boot' \in BootType /\ boot'.pc = "rows"
          BY <1>0, <2>1, BootUpdates DEF BootGoes
    <3> QED BY <1>5, <2>1, <3>1, FilesLeft DEF CheckFiles, disk, sched
  <2>2. CASE ~(boot.todo = {} /\ BootGoes("rows") /\ UNCHANGED disk)
    <3>1. PICK a \in boot.todo :
            /\ ~Locked(a) /\ ~Reading("user", a)
            /\ CASE cat[a].in -> UNCHANGED disk
                 [] ~cat[a].in /\ files[a] = "pair" /\ a \in boot.known ->
                      Publish(a) /\ UNCHANGED files
                 [] OTHER -> files' = [files EXCEPT ![a] = "none"] /\ UNCHANGED cat
            /\ boot' = [boot EXCEPT !.todo = @ \ {a}]
          BY <1>5, <2>2 DEF CheckFiles
    <3> DEFINE S == boot.todo \ {a}
    <3>2. a \in Arts /\ S \in SUBSET Arts /\ boot' = [boot EXCEPT !.todo = S]
          BY <1>0, <3>1
    <3>3. boot' \in BootType /\ boot'.pc = "files"
          BY <1>0, <1>5, <3>2, BootUpdates DEF CheckFiles
    <3>4. CASE cat[a].in
          BY <1>5, <3>1, <3>3, <3>4, FilesLeft DEF CheckFiles, disk, sched
    <3>5. CASE ~cat[a].in /\ files[a] = "pair" /\ a \in boot.known
      <4>1. Recorded(a, TRUE, "no", "user", TRUE) /\ files' = files
            BY <3>1, <3>2, <3>5, ListFacts
      <4> QED BY <1>5, <3>1, <3>2, <3>3, <3>5, <4>1, FileListed DEF CheckFiles, sched
    <3>6. CASE ~cat[a].in /\ ~(files[a] = "pair" /\ a \in boot.known)
      <4>1. Filed(a, "none") /\ cat' = cat
            BY <3>1, <3>2, <3>6 DEF Filed, Files
      <4> QED BY <1>5, <3>1, <3>2, <3>3, <3>6, <4>1, FileRemoved DEF CheckFiles, sched
    <3> QED BY <3>4, <3>5, <3>6
  <2> QED BY <2>1, <2>2
<1>6. CASE Recover
  <2> DEFINE d == row.day
  <2>1. boot' \in BootType /\ boot'.pc = "up"
        BY <1>0, <1>6, BootUpdates DEF Recover, BootGoes
  <2>2. row.day = 0 => row.status = "completed"
        BY DEF Inv, SchedOK
  <2>3. ASSUME ~Of(d, {"done", "failed", "cancelled"}), d # 0
        PROVE  Closed(d)
    <3> SUFFICES ASSUME NEW a \in Arts, ops[a].day = d PROVE ops[a].status = "cleared"
      BY DEF Closed
    <3>1. ops[a].status \notin {"done", "failed", "cancelled"}
          BY <2>3 DEF Of
    <3>2. ops[a].status # "none"
          BY <2>3 DEF Inv, ArtOK
    <3>3. ops[a].status # "active"
          BY <1>6, <2>3 DEF Inv, OwnedOK, ThreadOK, SchedOK, Recover, Creating, Publishing, At,
                            Threads
    <3>4. ops[a] \in OpType
          OBVIOUS
    <3> QED BY <3>1, <3>2, <3>3, <3>4 DEF OpType
  <2>4. ASSUME NEW q \in {"op", "claim"}, q = "op" => Closed(d),
               queue' = queue \/ queue' = Append(queue, [day |-> d, pc |-> q]),
               row' \in RowType, row'.day = row.day, row.day = 0 => row' = row /\ queue' = queue
        PROVE  Inv'
        BY <1>6, <2>1, <2>4, Recovered DEF Recover, disk
  <2>5. CASE row.status = "pending"
    <3>1. queue' = Append(queue, [day |-> d, pc |-> "claim"]) /\ row' = row /\ d # 0
          BY <1>6, <2>2, <2>5 DEF Recover
    <3> QED BY <1>0, <2>4, <3>1
  <2>6. CASE row.status = "claimed" /\ Of(d, {"done"})
    <3>0. Of(d, {"done", "failed", "cancelled"})
          BY <2>6 DEF Of
    <3>1. queue' = Append(queue, [day |-> d, pc |-> "claim"]) /\ SetStatus(d, "pending") /\ d # 0
          BY <1>6, <2>2, <2>6, <3>0 DEF Recover
    <3> QED BY <1>0, <2>4, <3>1, StatusFacts
  <2>7. CASE SetStatus(d, "failed") /\ UNCHANGED queue /\ d # 0
        BY <1>0, <2>4, <2>7, StatusFacts
  <2>8. CASE row.status = "claimed" /\ ~Of(d, {"done", "failed", "cancelled"}) /\ d = today
    <3>0. ~Of(d, {"done"}) /\ ~Of(d, {"failed", "cancelled"})
          BY <2>8 DEF Of
    <3>1. queue' = Append(queue, [day |-> d, pc |-> "op"]) /\ row' = row /\ d # 0
          BY <1>6, <2>2, <2>8, <3>0 DEF Recover
    <3> QED BY <1>0, <2>3, <2>4, <2>8, <3>1
  <2>9. CASE UNCHANGED <<row, queue>>
        BY <1>0, <2>4, <2>9
  <2> QED BY <1>6, <2>2, <2>5, <2>6, <2>7, <2>8, <2>9 DEF Recover
<1> QED BY <1>1, <1>2, <1>3, <1>4, <1>5, <1>6 DEF Boot

-----------------------------------------------------------------------------
(* The theorems.                                                            *)

LEMMA InitInv == Init => Inv
<1> SUFFICES ASSUME Init PROVE Inv
  OBVIOUS
<1>1. /\ files = [a \in Arts |-> "none"] /\ th = [t \in Threads |-> Idle] /\ queue = <<>>
      /\ row.day = 0 /\ row.status = "completed" /\ boot.pc = "up" /\ today = 0 /\ retired = {}
      BY DEF Init
<1>2. /\ cat \in [Arts -> CatType] /\ ops \in [Arts -> OpType] /\ th \in [Threads -> ThreadType]
      /\ \A a \in Arts : /\ ops[a].status = "none" /\ ops[a].day = 0 /\ ~ops[a].cancel
                         /\ ~cat[a].in /\ cat[a].claim = "no"
      /\ \A t \in Threads : th[t].pc = "idle" /\ th[t].day = 0 /\ th[t].todo = {}
  <2>1. Gone \in CatType /\ ~Gone.in /\ Gone.claim = "no"
        BY DEF Gone, CatType, Claims, Threads
  <2>2. cat \in [Arts -> CatType] /\ \A a \in Arts : ~cat[a].in /\ cat[a].claim = "no"
        BY <2>1 DEF Init
  <2>3. ops \in [Arts -> OpType]
        /\ \A a \in Arts : ops[a].status = "none" /\ ops[a].day = 0 /\ ~ops[a].cancel
        BY StoreAssumption DEF Init, OpType
  <2>4. th \in [Threads -> ThreadType]
        /\ \A t \in Threads : th[t].pc = "idle" /\ th[t].day = 0 /\ th[t].todo = {}
        BY <1>1, IdleFacts
  <2> QED BY <2>2, <2>3, <2>4
<1>3. TypeOK
  <2>1. files \in [Arts -> Files] /\ row \in RowType /\ boot \in BootType
        BY StoreAssumption DEF Init, Files, RowType, BootType
  <2>2. queue \in Seq([day: Days, pc: {"op", "claim"}])
        BY <1>1
  <2>3. today \in 0..MaxDays /\ faults \in 0..MaxFaults /\ edits \in 0..MaxEdits
    <3>1. today = 0 /\ faults = 0 /\ edits = 0
          BY DEF Init
    <3> QED BY <3>1, StoreAssumption
  <2>4. retired \in SUBSET Arts /\ muted \in BOOLEAN
        BY DEF Init
  <2> QED BY <1>2, <2>1, <2>2, <2>3, <2>4 DEF TypeOK
<1>4. ASSUME NEW t \in Threads PROVE ThreadOK(t)
      BY <1>2 DEF ThreadOK, Armed, At, Creating, Publishing, Deleting
<1>5. ASSUME NEW a \in Arts PROVE ArtOK(a)
      BY <1>1, <1>2 DEF ArtOK, Absent, Torn
<1>6. Apart /\ OwnedOK
      BY <1>1, <1>2 DEF Apart, OwnedOK, Busy, At, Creating, Publishing, Deleting, Threads
<1>7. SchedOK /\ QueueOK
      BY <1>1, <1>2 DEF SchedOK, QueueOK, SchedPcs, At, Threads
<1>8. KeepOK
      BY <1>1, <1>2 DEF KeepOK, Deleting, At, Threads
<1>9. UsedOK
  <2>1. {a \in Arts : ops[a].status # "none"} = 1..0 /\ 0 \in 0..MaxArts
        BY <1>2, StoreAssumption
  <2> QED BY <2>1 DEF UsedOK
<1>10. OncePerOccurrence
      BY <1>2 DEF OncePerOccurrence
<1> QED BY <1>3, <1>4, <1>5, <1>6, <1>7, <1>8, <1>9, <1>10 DEF Inv

\* No step disturbs the invariant.
LEMMA NextInv ==
  ASSUME Inv, [Next]_vars
  PROVE  Inv'
<1>1. CASE Next
  <2>1. ASSUME NEW t \in Threads, Work(t) PROVE Inv'
        BY <2>1, CreateStep, DeleteStep DEF Work
  <2> QED BY <1>1, <2>1, ScheduleStep, UserStep, VerifyStep, BootStep, TimeStep DEF Next
<1>2. CASE UNCHANGED vars
  <2> USE <1>2 DEF vars
  <2>1. TypeOK' /\ SchedOK' /\ QueueOK' /\ OwnedOK' /\ UsedOK' /\ OncePerOccurrence'
        BY DEF Inv, TypeOK, SchedOK, QueueOK, OwnedOK, UsedOK, OncePerOccurrence, Closed, At,
               Creating, Publishing
  <2>2. Apart' /\ KeepOK'
        BY DEF Inv, Apart, KeepOK, Kept, Later, Busy, At, Creating, Publishing, Deleting
  <2>3. ASSUME NEW t \in Threads PROVE ThreadOK(t)'
        BY DEF Inv, ThreadOK, Absent, At, Creating, Publishing, Deleting
  <2>4. ASSUME NEW a \in Arts PROVE ArtOK(a)'
        BY DEF Inv, ArtOK, Absent, Torn
  <2> QED BY <2>1, <2>2, <2>3, <2>4 DEF Inv
<1> QED BY <1>1, <1>2

LEMMA Invariance == Spec => []Inv
<1>1. Inv /\ [Next]_vars => Inv'
      BY NextInv
<1> QED BY InitInv, <1>1, PTL DEF Spec

\* Files, catalog, operations, the row, the queue and the threads keep their types.
THEOREM BackupTypes == Spec => []TypeOK
<1>1. Inv => TypeOK
      BY DEF Inv
<1> QED BY <1>1, Invariance, PTL

\* Whatever was interrupted, once a start has reconciled every listed backup that
\* no deletion has begun on has its archive and its checksum (reconcile_startup).
THEOREM ListedIsWhole == Spec => []PairBehindRecord
<1>1. Inv => PairBehindRecord
  <2> SUFFICES ASSUME Inv, boot.pc = "up", NEW a \in Arts, cat[a].in,
                      cat[a].claim \in {"no", "claimed"}
               PROVE  files[a] = "pair"
    BY DEF PairBehindRecord
  <2> QED BY DEF Inv, ArtOK, Torn
<1> QED BY <1>1, Invariance, PTL

\* Retention leaves Keep newer automatic backups behind every one it removes,
\* across crashes, expired claims and interrupted deletions (apply_keep_last).
THEOREM RetentionKeeps == Spec => []KeepsLast
<1>1. Inv => KeepsLast
      BY DEF Inv, KeepOK, Kept, Later, KeepsLast
<1> QED BY <1>1, Invariance, PTL

\* No occurrence is run twice, however often it is interrupted and recovered,
\* unless the user cleared the record of its run (_recover_interrupted_occurrences).
THEOREM OncePerDay == Spec => []OncePerOccurrence
<1>1. Inv => OncePerOccurrence
      BY DEF Inv
<1> QED BY <1>1, Invariance, PTL

\* An accepted cancellation is honoured and a cancelled create leaves nothing
\* behind (the check under the lock of the operations before the publication).
THEOREM CancelHolds == Spec => []CancelIsHonoured
<1>1. Inv => CancelIsHonoured
      BY DEF Inv, ArtOK, Absent, CancelIsHonoured
<1> QED BY <1>1, Invariance, PTL
=============================================================================
