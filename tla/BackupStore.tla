---------------------------- MODULE BackupStore ----------------------------
(***************************************************************************)
(* The daily backups of one target (core/backup): the scheduler's claim of  *)
(* a day's occurrence, the create pipeline with its publication of archive  *)
(* and checksum, retention, the user's own create, delete, verify, cancel   *)
(* and clearing of the history, a crash between any two writes, and         *)
(* reconcile_startup with the recovery of interrupted occurrences.          *)
(* One rename, unlink or atomic JSON write is one step.                     *)
(***************************************************************************)
EXTENDS Integers, Sequences, FiniteSets

CONSTANTS MaxDays, MaxArts,  \* bounds: days, create operations
          Keep,              \* keep_last of the schedule
          MaxFaults,         \* bound: crashes and failed writes
          MaxEdits           \* bound: requests of the user

ASSUME StoreAssumption ==
  /\ MaxDays \in Nat /\ MaxArts \in Nat /\ MaxFaults \in Nat /\ MaxEdits \in Nat
  /\ Keep \in Nat \ {0}

Days == 1..MaxDays
Arts == 1..MaxArts       \* a create operation and the backup it makes
Threads == {"sched", "user"}

VARIABLES
  files,   \* files[a]: what the final directory holds of backup a
  cat,     \* the catalog
  ops,     \* the create operations; ops[a].day = 0 for a manual one
  row,     \* automatic_state.json of the job
  queue,   \* workers waiting for the scheduler's run lock
  th,      \* what the scheduler's running worker and the user's request do
  boot,    \* the start of the panel
  today,
  retired, \* history: backups removed by retention
  muted,   \* history: a status of an occurrence could not be written since the start
  faults, edits

vars == <<files, cat, ops, row, queue, th, boot, today, retired, muted, faults, edits>>

Files == {"none", "archive", "pair", "checksum"}
Claims == {"no", "claimed", "deleting", "failed"}
CatType == [in: BOOLEAN, ver: Nat, claim: Claims, old: BOOLEAN, who: Threads,
            once: BOOLEAN]  \* history: it has been listed
OpType == [day: 0..MaxDays, cancel: BOOLEAN, stage: {"build", "publish"},
           status: {"none", "active", "done", "failed", "cancelled", "cleared"}]
RowType == [day: 0..MaxDays, status: {"claimed", "pending", "completed", "failed"}]
Snap == [art: Arts, ver: Nat]
ThreadType ==
  [pc: {"idle", "op", "publish", "sum", "catalog", "complete", "opfail", "opcancel",
        "pend", "claim", "next", "cut", "cutsum", "finish", "done", "fail", "verify"},
   day: 0..MaxDays, art: 0..MaxArts, ver: Nat, todo: SUBSET Snap]
Idle == [pc |-> "idle", day |-> 0, art |-> 0, ver |-> 0, todo |-> {}]
BootType == [pc: {"down", "ops", "claims", "pairs", "files", "rows", "up", "failed"},
             known: SUBSET Arts, todo: SUBSET Arts,
             before: SUBSET Arts]  \* history: the operations there were at the start
Gone == [in |-> FALSE, ver |-> 0, claim |-> "no", old |-> FALSE, who |-> "user",
         once |-> FALSE]

Init ==
  /\ files = [a \in Arts |-> "none"] /\ cat = [a \in Arts |-> Gone]
  /\ ops = [a \in Arts |-> [day |-> 0, cancel |-> FALSE, stage |-> "build", status |-> "none"]]
  /\ row = [day |-> 0, status |-> "completed"] /\ queue = <<>>
  /\ th = [t \in Threads |-> Idle]
  /\ boot = [pc |-> "up", known |-> {}, todo |-> {}, before |-> {}]
  /\ today = 0 /\ retired = {} /\ muted = FALSE /\ faults = 0 /\ edits = 0

-----------------------------------------------------------------------------
(* How a step can go, the locks.                                            *)

Upset == faults < MaxFaults /\ faults' = faults + 1
Fine == UNCHANGED faults
Asked == edits < MaxEdits /\ edits' = edits + 1
disk == <<files, cat>>
sched == <<row, queue, muted>>

At(t, pc) == th[t].pc = pc
Goes(t, pc) == th' = [th EXCEPT ![t].pc = pc]
Becomes(t, rec) == th' = [th EXCEPT ![t] = rec]
Up == boot.pc # "down"

\* Holding an artifact lock exclusively, the destination lock, and
\* operations.records.locked().
Publishing(t) == th[t].pc \in {"sum", "catalog", "complete"}
Creating(t) == Publishing(t) \/ th[t].pc \in {"publish", "opfail", "opcancel"}
Deleting(t) == th[t].pc \in {"cut", "cutsum", "finish"}
Reading(t, a) == At(t, "verify") /\ th[t].art = a
DestinationFree(t) == \A s \in Threads \ {t} : ~Publishing(s) /\ ~Deleting(s)
\* Mutated: the lock is given up before the publication.
RecordsFreed == TRUE
RecordsFree == \A t \in Threads : ~Publishing(t)
Locked(a) == \E t \in Threads : th[t].art = a /\ (Publishing(t) \/ Deleting(t))
LockFree(t, a) == DestinationFree(t) /\ \A s \in Threads : ~Reading(s, a)

\* A catalog record changed under the catalog lock.
Record(a, claim, who) ==
  cat' = [cat EXCEPT ![a].claim = claim, ![a].ver = @ + 1, ![a].old = FALSE, ![a].who = who]
Publish(a) == cat' = [cat EXCEPT ![a] = [Gone EXCEPT !.in = TRUE, !.ver = 1, !.once = TRUE]]
Drop(a) == cat' = [cat EXCEPT ![a] = [Gone EXCEPT !.once = TRUE]]
OpStatus(a, s) == ops' = [ops EXCEPT ![a].status = s]

-----------------------------------------------------------------------------
(* create and create_bot4vps.                                               *)

\* The operation: a retry finds the one with its request_id while it runs.
CreateOp(t) ==
  LET used == {a \in Arts : ops[a].status # "none"}
      a == Cardinality(used) + 1
  IN  /\ At(t, "op") /\ RecordsFree /\ UNCHANGED <<disk, sched, boot, today, retired, edits>>
      /\ \/ /\ a \in Arts /\ Fine
            /\ ops' = [ops EXCEPT ![a].status = "active", ![a].day = th[t].day]
            /\ Becomes(t, [th[t] EXCEPT !.pc = "publish", !.art = a])
         \/ Upset /\ UNCHANGED ops /\ Goes(t, IF t = "user" THEN "idle" ELSE "fail")

\* The archive is made and checked in staging; the stage says what is next.
Build(t) ==
  /\ At(t, "publish") /\ ops[th[t].art].stage = "build" /\ RecordsFree
  /\ UNCHANGED <<disk, sched, boot, today, retired, edits>>
  /\ \/ Fine /\ ops' = [ops EXCEPT ![th[t].art].stage = "publish"] /\ UNCHANGED th
     \/ Upset /\ UNCHANGED ops /\ Goes(t, "opfail")

\* The cancellation is read under the lock of the operations, kept until the
\* operation is complete.
RenameArchive(t) ==
  LET a == th[t].art
  IN  /\ At(t, "publish") /\ ops[a].stage = "publish" /\ DestinationFree(t)
      /\ UNCHANGED <<cat, ops, sched, boot, today, retired, edits>>
      /\ \/ Fine /\ ops[a].cancel /\ Goes(t, "opcancel") /\ UNCHANGED files
         \/ Fine /\ ~ops[a].cancel /\ Goes(t, "sum") /\ files' = [files EXCEPT ![a] = "archive"]
         \/ Upset /\ Goes(t, "opfail") /\ UNCHANGED files

RenameChecksum(t) ==
  /\ At(t, "sum") /\ UNCHANGED <<cat, ops, sched, boot, today, retired, edits>>
  /\ \/ Fine /\ Goes(t, "catalog") /\ files' = [files EXCEPT ![th[t].art] = "pair"]
     \/ Upset /\ Goes(t, "opfail") /\ UNCHANGED files

CommitRecord(t) ==
  /\ At(t, "catalog") /\ UNCHANGED <<files, ops, sched, boot, today, retired, edits>>
  /\ \/ Fine /\ Goes(t, "complete") /\ Publish(th[t].art)
     \/ Upset /\ Goes(t, "opfail") /\ UNCHANGED cat

CompleteOp(t) ==
  /\ At(t, "complete") /\ UNCHANGED <<disk, sched, boot, today, retired, edits>>
  /\ \/ Fine /\ OpStatus(th[t].art, "done") /\ Goes(t, IF t = "user" THEN "idle" ELSE "pend")
     \/ Upset /\ UNCHANGED ops /\ Goes(t, "opfail")

\* The except clauses.
EndOp(t) ==
  /\ \/ At(t, "opfail") /\ OpStatus(th[t].art, "failed")
     \/ At(t, "opcancel") /\ OpStatus(th[t].art, "cancelled")
  /\ RecordsFree /\ Goes(t, IF t = "user" THEN "idle" ELSE "fail")
  /\ UNCHANGED <<disk, sched, boot, today, retired, faults, edits>>

Create(t) == CreateOp(t) \/ Build(t) \/ RenameArchive(t) \/ RenameChecksum(t)
             \/ CommitRecord(t) \/ CompleteOp(t) \/ EndOp(t)

-----------------------------------------------------------------------------
(* Deleting a pair, for the user and for retention.                         *)

Ended(t) == IF t = "user" THEN "idle" ELSE "next"

\* delete_pair fails: the intent becomes delete_failed.
DeleteFails(t) ==
  Upset /\ Record(th[t].art, "failed", t) /\ UNCHANGED files /\ Goes(t, Ended(t))

UnlinkArchive(t) ==
  /\ At(t, "cut") /\ UNCHANGED <<ops, sched, boot, today, retired, edits>>
  /\ \/ /\ Fine /\ UNCHANGED cat /\ Goes(t, "cutsum")
        /\ files' = [files EXCEPT ![th[t].art] = IF @ \in {"pair", "checksum"} THEN "checksum"
                                                 ELSE "none"]
     \/ DeleteFails(t)

UnlinkChecksum(t) ==
  /\ At(t, "cutsum") /\ UNCHANGED <<ops, sched, boot, today, retired, edits>>
  /\ \/ Fine /\ UNCHANGED cat /\ Goes(t, "finish") /\ files' = [files EXCEPT ![th[t].art] = "none"]
     \/ DeleteFails(t)

FinishDelete(t) ==
  LET a == th[t].art
  IN  /\ At(t, "finish") /\ UNCHANGED <<files, ops, sched, boot, today, edits>>
      /\ Goes(t, Ended(t))
      /\ retired' = IF t = "sched" THEN retired \cup {a} ELSE retired
      /\ (Fine /\ Drop(a)) \/ (Upset /\ UNCHANGED cat)

Delete(t) == UnlinkArchive(t) \/ UnlinkChecksum(t) \/ FinishDelete(t)

-----------------------------------------------------------------------------
(* The scheduler.                                                           *)

\* _claim replaces the job's row; an occurrence already in it is not taken.
Dispatch ==
  /\ boot.pc = "up" /\ today > 0 /\ row.day # today
  /\ row' = [day |-> today, status |-> "claimed"]
  /\ queue' = Append(queue, [day |-> today, pc |-> "op"])
  /\ UNCHANGED <<disk, ops, th, boot, today, retired, muted, faults, edits>>

TakeWorker ==
  /\ boot.pc = "up" /\ At("sched", "idle") /\ queue # <<>>
  /\ Becomes("sched", [Idle EXCEPT !.pc = Head(queue).pc, !.day = Head(queue).day])
  /\ queue' = Tail(queue)
  /\ UNCHANGED <<disk, ops, row, muted, boot, today, retired, faults, edits>>

\* _set_status: nothing when a later occurrence has taken the row.
\* Mutated: a failure is only logged.
OnlySuccess(d, s) == row' = IF row.day = d /\ s # "failed" THEN [row EXCEPT !.status = s] ELSE row
SetStatus(d, s) == row' = IF row.day = d THEN [row EXCEPT !.status = s] ELSE row

Pend ==
  /\ At("sched", "pend") /\ UNCHANGED <<disk, ops, queue, muted, boot, today, retired, edits>>
  /\ \/ Fine /\ SetStatus(th["sched"].day, "pending") /\ Goes("sched", "claim")
     \/ Upset /\ UNCHANGED row /\ Goes("sched", "fail")

\* claim_retention_scope: verified automatic backups no one has claimed, but
\* for the newest Keep, under one catalog lock.
Eligible == {a \in Arts : cat[a].in /\ cat[a].claim = "no" /\ ops[a].day # 0}
\* Mutated: the newest are counted over all the backups of the target.
CandidatesOfAll == {a \in Eligible : Cardinality({b \in Arts : cat[b].in /\ b > a}) >= Keep}
Candidates == {a \in Eligible : Cardinality({b \in Eligible : b > a}) >= Keep}
ClaimOld ==
  /\ At("sched", "claim") /\ RecordsFree
  /\ UNCHANGED <<files, ops, sched, boot, today, retired, edits>>
  /\ \/ /\ Fine
        /\ cat' = [a \in Arts |-> IF a \in Candidates
                     THEN [cat[a] EXCEPT !.claim = "claimed", !.ver = @ + 1, !.who = "sched"]
                     ELSE cat[a]]
        /\ Becomes("sched", [th["sched"] EXCEPT !.pc = "next",
             !.todo = {[art |-> a, ver |-> cat[a].ver + 1] : a \in Candidates}])
     \/ Upset /\ UNCHANGED cat /\ Goes("sched", "fail")

\* begin_claimed_delete by compare-and-set; a claim that is lost or cannot
\* be locked in time is skipped.
BeginClaimed ==
  \E s \in th["sched"].todo :
    LET rest == th["sched"].todo \ {s}
        own == cat[s.art].in /\ cat[s.art].ver = s.ver /\ cat[s.art].claim = "claimed"
        skip == Becomes("sched", [th["sched"] EXCEPT !.todo = rest]) /\ UNCHANGED cat
    IN  /\ \A r \in rest : s.art < r.art
        /\ At("sched", "next") /\ UNCHANGED <<files, ops, sched, boot, today, retired, edits>>
        /\ \/ /\ Fine /\ LockFree("sched", s.art) /\ own /\ Record(s.art, "deleting", "sched")
              /\ Becomes("sched", [th["sched"] EXCEPT !.todo = rest, !.pc = "cut", !.art = s.art])
           \/ Fine /\ LockFree("sched", s.art) /\ ~own /\ skip
           \/ Upset /\ skip

AllDeleted ==
  /\ At("sched", "next") /\ th["sched"].todo = {} /\ Goes("sched", "done")
  /\ UNCHANGED <<disk, ops, sched, boot, today, retired, faults, edits>>

\* The last status of the occurrence; an error here is nobody's to handle.
Report ==
  /\ \E s \in {"done", "fail"} : At("sched", s)
  /\ Goes("sched", "idle") /\ UNCHANGED <<disk, ops, queue, boot, today, retired, edits>>
  /\ \/ /\ Fine /\ UNCHANGED muted
        /\ SetStatus(th["sched"].day, IF At("sched", "done") THEN "completed" ELSE "failed")
     \/ Upset /\ UNCHANGED row /\ muted' = TRUE

Schedule == TakeWorker \/ Pend \/ ClaimOld \/ BeginClaimed \/ AllDeleted \/ Report

-----------------------------------------------------------------------------
(* The user.                                                                *)

CreateByHand ==
  /\ Up /\ At("user", "idle") /\ Asked /\ Goes("user", "op")
  /\ UNCHANGED <<disk, ops, sched, boot, today, retired, faults>>

\* begin_delete: not of a backup that is claimed, but of one whose deletion failed.
BeginDelete(a) ==
  /\ Up /\ At("user", "idle") /\ Asked /\ LockFree("user", a)
  /\ cat[a].in /\ cat[a].claim \in {"no", "failed"}
  /\ Record(a, "deleting", "user")
  /\ Becomes("user", [Idle EXCEPT !.pc = "cut", !.art = a])
  /\ UNCHANGED <<files, ops, sched, boot, today, retired, faults>>

\* verify: the record is read before the lock, its version asked for at the end.
BeginVerify(a) ==
  /\ Up /\ At("user", "idle") /\ Asked /\ cat[a].in /\ ~Locked(a)
  /\ Becomes("user", [Idle EXCEPT !.pc = "verify", !.art = a, !.ver = cat[a].ver])
  /\ UNCHANGED <<disk, ops, sched, boot, today, retired, faults>>
EndVerify ==
  LET a == th["user"].art
      same == cat[a].in /\ cat[a].ver = th["user"].ver /\ cat[a].claim = "no"
  IN  /\ At("user", "verify") /\ Becomes("user", Idle)
      /\ IF same /\ files[a] = "pair" THEN cat' = [cat EXCEPT ![a].ver = @ + 1]
         ELSE UNCHANGED cat
      /\ UNCHANGED <<files, ops, sched, boot, today, retired, faults, edits>>

Cancel(a) ==
  /\ Up /\ Asked /\ ops[a].status = "active" /\ RecordsFree
  /\ ops' = [ops EXCEPT ![a].cancel = TRUE]
  /\ UNCHANGED <<disk, sched, th, boot, today, retired, faults>>

ClearHistory ==
  /\ Up /\ Asked
  /\ ops' = [a \in Arts |-> IF ops[a].status \in {"done", "failed", "cancelled"}
                            THEN [ops[a] EXCEPT !.status = "cleared"] ELSE ops[a]]
  /\ UNCHANGED <<disk, sched, th, boot, today, retired, faults>>

User == CreateByHand \/ ClearHistory \/ \E a \in Arts : BeginDelete(a) \/ BeginVerify(a) \/ Cancel(a)

-----------------------------------------------------------------------------
(* Time, the crash and the next start.                                      *)

NextDay ==
  /\ today < MaxDays /\ today' = today + 1
  /\ UNCHANGED <<disk, ops, sched, th, boot, retired, faults, edits>>
Expire(a) ==
  /\ cat[a].claim # "no" /\ ~cat[a].old /\ cat' = [cat EXCEPT ![a].old = TRUE]
  /\ UNCHANGED <<files, ops, sched, th, boot, today, retired, faults, edits>>

Crash ==
  /\ Up /\ Upset
  /\ th' = [t \in Threads |-> Idle] /\ queue' = <<>>
  /\ boot' = [pc |-> "down", known |-> {}, todo |-> {}, before |-> {}]
  /\ UNCHANGED <<disk, ops, row, today, retired, muted, edits>>

BootGoes(pc) == boot' = [boot EXCEPT !.pc = pc]

\* A recovery that raises is only logged: the panel works, without its scheduler.
RecoveryFails ==
  /\ boot.pc \notin {"down", "up", "failed"} /\ Upset /\ BootGoes("failed")
  /\ UNCHANGED <<disk, ops, sched, th, today, retired, edits>>

Start ==
  /\ boot.pc = "down" /\ muted' = FALSE
  /\ boot' = [boot EXCEPT !.pc = "ops", !.before = {a \in Arts : ops[a].status # "none"}]
  /\ UNCHANGED <<disk, ops, row, queue, th, today, retired, faults, edits>>

\* Operations without an owner are abandoned; those that were publishing are
\* remembered, the one the user has running now included.
Abandon ==
  LET active == {a \in Arts : ops[a].status = "active"}
      live == {a \in active : th["user"].art = a /\ Creating("user")}
  IN  /\ boot.pc = "ops" /\ RecordsFree
      /\ ops' = [a \in Arts |-> IF a \in active \ live
                                THEN [ops[a] EXCEPT !.status = "failed"] ELSE ops[a]]
      /\ boot' = [boot EXCEPT !.pc = "claims",
                              !.known = {a \in active : ops[a].stage = "publish"}]
      /\ UNCHANGED <<disk, sched, th, today, retired, faults, edits>>

\* Expired claims of dead owners.
ReleaseClaims ==
  LET live(a) == cat[a].who = "user" /\ Deleting("user") /\ th["user"].art = a
      stale(a) == cat[a].claim # "no" /\ cat[a].old /\ ~live(a)
  IN  /\ boot.pc = "claims"
      /\ cat' = [a \in Arts |-> IF stale(a)
                   THEN [cat[a] EXCEPT !.claim = "no", !.ver = @ + 1, !.old = FALSE]
                   ELSE cat[a]]
      /\ boot' = [boot EXCEPT !.pc = "pairs", !.todo = {a \in Arts : cat[a].in}]
      /\ UNCHANGED <<files, ops, sched, th, today, retired, faults, edits>>

\* A record without its two files ends an interrupted deletion or is isolated.
\* Mutated: a record is kept for what is left of its pair.
SomethingThere(a) == files[a] # "none"
PairThere(a) == files[a] = "pair"
CheckPair ==
  /\ boot.pc = "pairs" /\ UNCHANGED <<files, ops, sched, th, today, retired, faults, edits>>
  /\ \/ boot.todo = {} /\ UNCHANGED cat
        /\ boot' = [boot EXCEPT !.pc = "files", !.todo = {a \in Arts : files[a] # "none"}]
     \/ \E a \in boot.todo :
          /\ ~Locked(a) /\ ~Reading("user", a)
          /\ IF PairThere(a) THEN UNCHANGED cat ELSE Drop(a)
          /\ boot' = [boot EXCEPT !.todo = @ \ {a}]

\* A pair without a record is published again when its operation was seen
\* publishing, anything else goes to quarantine.
CheckFiles ==
  /\ boot.pc = "files" /\ UNCHANGED <<ops, sched, th, today, retired, faults, edits>>
  /\ \/ boot.todo = {} /\ BootGoes("rows") /\ UNCHANGED disk
     \/ \E a \in boot.todo :
          /\ ~Locked(a) /\ ~Reading("user", a)
          /\ CASE cat[a].in -> UNCHANGED disk
               [] ~cat[a].in /\ files[a] = "pair" /\ a \in boot.known ->
                    Publish(a) /\ UNCHANGED files
               [] OTHER -> files' = [files EXCEPT ![a] = "none"] /\ UNCHANGED cat
          /\ boot' = [boot EXCEPT !.todo = @ \ {a}]

\* _recover_interrupted_occurrences.
\* Mutated: the request is looked for among the running operations only.
OfRunning(d, s) == "active" \in s /\ \E a \in Arts : ops[a].day = d /\ ops[a].status = "active"
Of(d, s) == \E a \in Arts : ops[a].day = d /\ ops[a].status \in s
Recover ==
  LET d == row.day
      resume(pc) == queue' = Append(queue, [day |-> d, pc |-> pc])
  IN  /\ boot.pc = "rows" /\ BootGoes("up")
      /\ UNCHANGED <<disk, ops, th, muted, today, retired, faults, edits>>
      /\ CASE row.status = "pending" -> resume("claim") /\ UNCHANGED row
           [] row.status = "claimed" /\ Of(d, {"done"}) ->
                resume("claim") /\ SetStatus(d, "pending")
           [] row.status = "claimed" /\ ~Of(d, {"done"}) /\ Of(d, {"failed", "cancelled"}) ->
                SetStatus(d, "failed") /\ UNCHANGED queue
           [] row.status = "claimed" /\ ~Of(d, {"done", "failed", "cancelled"}) /\ d = today ->
                resume("op") /\ UNCHANGED row
           [] row.status = "claimed" /\ ~Of(d, {"done", "failed", "cancelled"}) /\ d # today ->
                SetStatus(d, "failed") /\ UNCHANGED queue
           [] OTHER -> UNCHANGED <<row, queue>>

Boot == Start \/ Abandon \/ ReleaseClaims \/ CheckPair \/ CheckFiles \/ Recover

Work(t) == Create(t) \/ Delete(t)
Next ==
  \/ Dispatch \/ Schedule \/ User \/ EndVerify \/ Boot \/ RecoveryFails \/ Crash \/ NextDay
  \/ \E t \in Threads : Work(t)
  \/ \E a \in Arts : Expire(a)

Spec == Init /\ [][Next]_vars
FairSpec ==
  Spec /\ WF_vars(Boot) /\ WF_vars(Schedule \/ Work("sched")) /\ WF_vars(Work("user") \/ EndVerify)

-----------------------------------------------------------------------------
\* Every variable keeps its type.
TypeOK ==
  /\ files \in [Arts -> Files] /\ cat \in [Arts -> CatType] /\ ops \in [Arts -> OpType]
  /\ row \in RowType /\ queue \in Seq([day: Days, pc: {"op", "claim"}])
  /\ th \in [Threads -> ThreadType] /\ boot \in BootType
  /\ today \in 0..MaxDays /\ retired \in SUBSET Arts /\ muted \in BOOLEAN
  /\ faults \in 0..MaxFaults /\ edits \in 0..MaxEdits

\* Once a start has reconciled, a backup the catalog lists and no deletion has
\* been started for has both of its files, whatever was interrupted before,
\* an earlier reconciliation included.
PairBehindRecord ==
  boot.pc = "up" =>
    \A a \in Arts : cat[a].in /\ cat[a].claim \in {"no", "claimed"} => files[a] = "pair"

\* When a reconciliation ends, what an earlier process left half published or
\* half deleted is whole or gone: files and record are both there or neither.
ReconciledIsWhole ==
  [][boot.pc = "files" /\ boot'.pc = "rows" =>
       \A a \in boot.before : ~Locked(a) /\ cat[a].claim = "no" =>
         files[a] = IF cat[a].in THEN "pair" ELSE "none"]_vars

\* For every backup retention has removed, Keep newer automatic ones were
\* left by it, across crashes, expired claims and interrupted deletions.
KeepsLast ==
  \A a \in retired :
    Cardinality({b \in Arts \ retired : b > a /\ ops[b].day # 0 /\ cat[b].once}) >= Keep

\* An occurrence is run at most once, whatever is interrupted and recovered,
\* unless the user has cleared the record of its first run.
OncePerOccurrence ==
  \A a, b \in Arts :
    a < b /\ ops[a].day = ops[b].day /\ ops[a].day # 0 => ops[a].status = "cleared"

\* A create whose cancellation was accepted is never completed, and one that
\* is reported as cancelled has left no backup, listed or not.
CancelIsHonoured ==
  \A a \in Arts :
    /\ ops[a].cancel => ops[a].status # "done"
    /\ ops[a].status = "cancelled" => files[a] = "none" /\ ~cat[a].in

\* A claimed occurrence gets its final status, or the next day's takes its
\* place, unless writing the status itself failed, or a recovery did and the panel
\* is without its scheduler until it starts again.
EveryOccurrenceSettles ==
  \A d \in Days :
    (row.day = d /\ row.status \in {"claimed", "pending"})
      ~> (row.day # d \/ row.status \in {"completed", "failed"} \/ muted \/ boot.pc = "failed")
=============================================================================
