------------------------------ MODULE Restore ------------------------------
(***************************************************************************)
(* Restoring an archive onto a server (core/backup/manager.py,              *)
(* _restore_source): the preparation that shows what will be replaced and   *)
(* deleted, the application of what was prepared, the protective copy, the  *)
(* cancellation and the boundary past which it is refused, deletion,        *)
(* extraction and verification, with a server others work on meanwhile, SSH *)
(* and disk errors, a crash of the panel and its next start.                *)
(* One archive, one server; one SSH command or one write of a record is one *)
(* step.                                                                    *)
(***************************************************************************)
EXTENDS Integers

CONSTANTS Paths,    \* files at or below the first level of the restored root
          Tops,     \* first-level objects of the root
          Top,      \* Top[p]: the one p is or lies in
          Archive,  \* the files the archive holds
          MaxOps, MaxFaults, MaxEdits  \* bounds: operations, errors and crashes, foreign edits

ASSUME RestoreAssumption ==
  /\ Top \in [Paths -> Tops] /\ Archive \subseteq Paths
  /\ \A p, q \in Paths : Top[q] = p => Top[p] = p /\ p = q  \* nothing lies below a file
  /\ MaxOps \in Nat /\ MaxFaults \in Nat /\ MaxEdits \in Nat

VARIABLES
  target,  \* what the server holds at each path
  ops,     \* restore operations
  copies,  \* copies[o]: the protective copy operation o made
  w,       \* the worker that holds the maintenance permit
  up,      \* the panel runs
  touched, \* history: paths others changed since the worker read the server
  faults, edits

vars == <<target, ops, copies, w, up, touched, faults, edits>>

Ops == 1..MaxOps
Content == {"none", "old", "foreign", "archived"}
Nodes == Paths \cup Tops
Modes == {"merge", "clean"}
OpType == [kind: {"none", "prepare", "apply"}, mode: Modes, protective: BOOLEAN,
           from: 0..MaxOps,       \* the preparation an application is of
           shown: SUBSET Nodes,   \* the delete-set of the selection contract
           status: {"none", "running", "completed", "failed", "cancelled"},
           cancel: BOOLEAN, mutated: BOOLEAN,
           copy: 0..MaxOps]       \* the protective copy named to the user
CopyType == [there: BOOLEAN, named: BOOLEAN, has: [Paths -> Content]]
WorkerType ==
  [pc: {"idle", "inventory", "exists", "copy", "drop", "name", "upload", "boundary",
        "delete", "extract", "verify", "finish", "fail"},
   op: 0..MaxOps, doomed: SUBSET Nodes, saved: SUBSET Tops,
   overlooked: SUBSET Tops,  \* history: objects to protect whose test failed
   old: SUBSET Ops, todo: SUBSET Nodes, skipped: SUBSET Paths]
Idle == [pc |-> "idle", op |-> 0, doomed |-> {}, saved |-> {}, overlooked |-> {},
         old |-> {}, todo |-> {}, skipped |-> {}]
NoOp == [kind |-> "none", mode |-> "merge", protective |-> FALSE, from |-> 0, shown |-> {},
         status |-> "none", cancel |-> FALSE, mutated |-> FALSE, copy |-> 0]
NoCopy == [there |-> FALSE, named |-> FALSE, has |-> [p \in Paths |-> "none"]]

Init ==
  /\ target \in [Paths -> {"none", "old"}]
  /\ ops = [o \in Ops |-> NoOp] /\ copies = [o \in Ops |-> NoCopy]
  /\ w = Idle /\ up = TRUE /\ touched = {} /\ faults = 0 /\ edits = 0

-----------------------------------------------------------------------------
Upset == faults < MaxFaults /\ faults' = faults + 1
Fine == UNCHANGED faults
UpsetUnless(fine) == IF fine THEN Fine ELSE Upset
At(pc) == up /\ w.pc = pc
Goes(pc) == w' = [w EXCEPT !.pc = pc]
Op == ops[w.op]

Present(node) == \E p \in Paths : (p = node \/ Top[p] = node) /\ target[p] # "none"

\* The uppermost object that is removed with p: its whole first-level object
\* when nothing in the archive lies there.
Node(p) == IF \E q \in Archive : Top[q] = Top[p] THEN p ELSE Top[p]
\* planned_removals: what a literal snapshot of the archive does not have.
DeleteSet == {Node(p) : p \in {q \in Paths \ Archive : target[q] # "none"}}
\* protective_sources: the roots whole, or the objects the archive reaches.
\* Mutated: a clean restore saves no more than a merging one.
ReachedByArchive(mode) == {Top[p] : p \in Archive}
Reached(mode) == IF mode = "clean" THEN Tops ELSE {Top[p] : p \in Archive}

-----------------------------------------------------------------------------
(* Requests.                                                                *)

\* The operation is registered before the permit is asked for, and fails when
\* another holds it.
Register(rec) ==
  \E o \in Ops :
    /\ ops[o].kind = "none" /\ \A q \in Ops : q < o => ops[q].kind # "none"
    /\ IF w.pc = "idle"
       THEN /\ ops' = [ops EXCEPT ![o] = [rec EXCEPT !.status = "running"]]
            /\ w' = [Idle EXCEPT !.pc = "inventory", !.op = o]
            /\ touched' = {}
       ELSE /\ ops' = [ops EXCEPT ![o] = [NoOp EXCEPT !.kind = rec.kind, !.status = "failed"]]
            /\ UNCHANGED <<w, touched>>
    /\ UNCHANGED <<target, copies, up, faults, edits>>

Prepare ==
  \E mode \in Modes, protective \in BOOLEAN :
    up /\ Register([NoOp EXCEPT !.kind = "prepare", !.mode = mode, !.protective = protective])

\* _prepared_restore_contract: a completed preparation, however old.
Apply ==
  \E o \in Ops :
    /\ up /\ ops[o].kind = "prepare" /\ ops[o].status = "completed"
    /\ Register([NoOp EXCEPT !.kind = "apply", !.mode = ops[o].mode,
                             !.protective = ops[o].protective, !.from = o])

\* request_cancel.
Cancel ==
  \E o \in Ops :
    /\ up /\ ops[o].status = "running" /\ ~ops[o].mutated /\ ~ops[o].cancel
    /\ ops' = [ops EXCEPT ![o].cancel = TRUE]
    /\ UNCHANGED <<target, copies, w, up, touched, faults, edits>>

-----------------------------------------------------------------------------
(* The worker: reading the server.                                          *)

Stops == Upset /\ Goes("fail") /\ UNCHANGED <<target, ops, copies>>

\* The delete-set is calculated again and must be the one that was shown.
\* Mutated: it is only calculated.
SameOrNot(doomed) == TRUE
SameSet(doomed) == Op.kind = "apply" => ops[Op.from].shown = doomed
Doomed == IF Op.mode = "clean" THEN DeleteSet ELSE {}
\* The test of the root is a command of its own; when it fails the root counts
\* as absent, with nothing in it to delete.
InventoryOf(S) == UpsetUnless(S = Doomed) /\ S \in {Doomed, {}}
ReadInventory ==
  /\ At("inventory") /\ UNCHANGED <<target, copies, up, touched, edits>>
  /\ \/ \E doomed \in SUBSET Nodes :
          /\ InventoryOf(doomed) /\ SameSet(doomed)
          /\ ops' = [ops EXCEPT ![w.op].shown = doomed]
          /\ w' = [w EXCEPT !.pc = "exists", !.doomed = doomed]
     \/ \E doomed \in SUBSET Nodes :
          InventoryOf(doomed) /\ ~SameSet(doomed) /\ Goes("fail") /\ UNCHANGED ops
     \/ Upset /\ Goes("fail") /\ UNCHANGED ops

\* existing_target_paths: which of the objects to protect are there.  An object
\* whose test fails, for whatever reason, counts as absent and is not copied;
\* without any object there is no copy, and a warning.
AfterCopy == IF Op.kind = "prepare" THEN "finish" ELSE "upload"
There == {t \in Reached(Op.mode) : Present(t)}
ReadExisting ==
  /\ At("exists") /\ UNCHANGED <<target, ops, copies, up, touched, edits>>
  /\ \/ ~Op.protective /\ Fine /\ Goes(AfterCopy)
     \/ \E saved \in SUBSET There :
          /\ Op.protective /\ UpsetUnless(saved = There)
          /\ w' = [w EXCEPT !.pc = IF saved # {} THEN "copy" ELSE AfterCopy,
                            !.saved = saved, !.overlooked = There \ saved]
     \/ Upset /\ Goes("fail")

-----------------------------------------------------------------------------
(* _protective_backup: publish the new copy, delete the ones that carry the *)
(* protective name, give it that name.                                      *)

Previous == {o \in Ops : copies[o].there /\ copies[o].named}
Taken == [p \in Paths |-> IF Top[p] \in w.saved THEN target[p] ELSE "none"]
\* Mutated: the previous copies are deleted first.
PublishLast ==
  /\ At("copy") /\ UNCHANGED <<target, ops, up, touched, edits>>
  /\ \/ Fine /\ w' = [w EXCEPT !.pc = "name", !.old = {}]
          /\ copies' = [[o \in Ops |-> IF o \in Previous THEN [copies[o] EXCEPT !.there = FALSE]
                                       ELSE copies[o]]
                        EXCEPT ![w.op] = [there |-> TRUE, named |-> FALSE, has |-> Taken]]
     \/ Upset /\ Goes("fail")
          /\ copies' = [o \in Ops |-> IF o \in Previous THEN [copies[o] EXCEPT !.there = FALSE]
                                      ELSE copies[o]]
PublishCopy ==
  /\ At("copy") /\ UNCHANGED <<target, ops, up, touched, edits>>
  /\ \/ Fine /\ w' = [w EXCEPT !.pc = "drop", !.old = Previous]
          /\ copies' = [copies EXCEPT ![w.op] = [there |-> TRUE, named |-> FALSE, has |-> Taken]]
     \/ Upset /\ Goes("fail") /\ UNCHANGED copies

DropPrevious ==
  /\ At("drop") /\ UNCHANGED <<target, ops, up, touched, edits>>
  /\ \/ w.old = {} /\ Fine /\ Goes("name") /\ UNCHANGED copies
     \/ \E o \in w.old :
          /\ Fine /\ w' = [w EXCEPT !.old = @ \ {o}]
          /\ copies' = [copies EXCEPT ![o].there = FALSE]
     \/ Upset /\ Goes("fail") /\ UNCHANGED copies

NameCopy ==
  /\ At("name") /\ UNCHANGED <<target, up, touched, edits>>
  /\ \/ /\ Fine /\ Goes(AfterCopy) /\ ops' = [ops EXCEPT ![w.op].copy = w.op]
        /\ copies' = [copies EXCEPT ![w.op].named = TRUE]
     \/ Upset /\ Goes("fail") /\ UNCHANGED <<ops, copies>>

-----------------------------------------------------------------------------
(* The delivery and the boundary.                                           *)

Upload ==
  /\ At("upload") /\ UNCHANGED <<up, touched, edits>>
  /\ (Fine /\ Goes("boundary") /\ UNCHANGED <<target, ops, copies>>) \/ Stops

\* mark_restore_mutation_started looks for the cancellation and sets the mark
\* in one write of the record.
CancelSeen(o) == ops[o].cancel
CrossBoundary ==
  /\ At("boundary") /\ UNCHANGED <<target, copies, up, touched, edits>>
  /\ \/ /\ Fine /\ ~CancelSeen(w.op) /\ ops' = [ops EXCEPT ![w.op].mutated = TRUE]
        /\ w' = [w EXCEPT !.pc = "delete", !.todo = w.doomed]
     \/ Fine /\ CancelSeen(w.op) /\ ops' = [ops EXCEPT ![w.op].status = "cancelled"] /\ w' = Idle
     \/ Upset /\ Goes("fail") /\ UNCHANGED ops

-----------------------------------------------------------------------------
(* The changes. A command whose connection is lost may still have done all  *)
(* or a part of its work.                                                   *)

Removed(node) == [p \in Paths |-> IF p = node \/ Top[p] = node THEN "none" ELSE target[p]]
Written(S) == [p \in Paths |-> IF p \in S THEN "archived" ELSE target[p]]

Delete ==
  /\ At("delete") /\ UNCHANGED <<ops, copies, up, touched, edits>>
  /\ \/ /\ w.todo = {} /\ Fine /\ UNCHANGED target
        /\ w' = [w EXCEPT !.pc = "extract", !.todo = Archive]
     \/ \E node \in w.todo :
          Fine /\ target' = Removed(node) /\ w' = [w EXCEPT !.todo = @ \ {node}]
     \/ \E node \in w.todo : Upset /\ target' \in {target, Removed(node)} /\ Goes("fail")

\* classify_restore_tar_diagnostics: only a busy executable is passed over,
\* any other failure of tar ends the operation.
\* Mutated: whatever tar could not write is passed over.
AnyFailure == "verify"
TarFailed == "fail"
Extract ==
  /\ At("extract") /\ UNCHANGED <<ops, copies, up, touched, edits>>
  /\ \/ w.todo = {} /\ Fine /\ Goes("verify") /\ UNCHANGED target
     \/ \E p \in w.todo :
          /\ Fine /\ target' = Written({p}) /\ w' = [w EXCEPT !.todo = @ \ {p}]
     \/ \E p \in w.todo :
          /\ target[p] # "none" /\ Fine /\ UNCHANGED target
          /\ w' = [w EXCEPT !.todo = @ \ {p}, !.skipped = @ \cup {p}]
     \/ \E S \in SUBSET w.todo : Upset /\ target' = Written(S) /\ Goes(TarFailed)

Verify ==
  LET whole == (\A p \in Archive \ w.skipped : target[p] # "none")
               /\ (\A node \in w.doomed : ~Present(node))
  IN  /\ At("verify") /\ UNCHANGED <<up, touched, edits>>
      /\ \/ Fine /\ Goes(IF whole THEN "finish" ELSE "fail") /\ UNCHANGED <<target, ops, copies>>
         \/ Stops

Finish ==
  /\ At("finish") /\ UNCHANGED <<up, touched, edits>>
  /\ \/ /\ Fine /\ w' = Idle /\ UNCHANGED <<target, copies>>
        /\ ops' = [ops EXCEPT ![w.op].status = "completed"]
     \/ Stops

\* The except clauses; when the record cannot be written it stays running.
Fail ==
  /\ At("fail") /\ w' = Idle /\ UNCHANGED <<target, copies, up, touched, edits>>
  /\ (Fine /\ ops' = [ops EXCEPT ![w.op].status = "failed"]) \/ (Upset /\ UNCHANGED ops)

-----------------------------------------------------------------------------
(* Others, the crash and the next start.                                    *)

ForeignEdit ==
  \E p \in Paths, c \in {"none", "foreign"} :
    /\ edits < MaxEdits /\ edits' = edits + 1 /\ target[p] # c
    /\ target' = [target EXCEPT ![p] = c] /\ touched' = touched \cup {p}
    /\ UNCHANGED <<ops, copies, w, up, faults>>

Crash ==
  /\ up /\ Upset /\ up' = FALSE /\ w' = Idle /\ UNCHANGED <<ops, copies, touched, edits>>
  /\ \/ UNCHANGED target
     \/ w.pc = "delete" /\ \E node \in w.todo : target' = Removed(node)
     \/ w.pc = "extract" /\ \E S \in SUBSET w.todo : target' = Written(S)

\* reconcile_startup: operations without an owner are abandoned.
Start ==
  /\ ~up /\ up' = TRUE /\ UNCHANGED <<target, copies, w, touched, faults, edits>>
  /\ ops' = [o \in Ops |-> IF ops[o].status = "running" THEN [ops[o] EXCEPT !.status = "failed"]
                           ELSE ops[o]]

Work == \/ ReadInventory \/ ReadExisting \/ PublishCopy \/ DropPrevious \/ NameCopy \/ Upload
        \/ CrossBoundary \/ Delete \/ Extract \/ Verify \/ Finish \/ Fail

Next == Prepare \/ Apply \/ Cancel \/ Work \/ ForeignEdit \/ Crash \/ Start
Spec == Init /\ [][Next]_vars

-----------------------------------------------------------------------------
\* Every variable keeps its type.
TypeOK ==
  /\ target \in [Paths -> Content] /\ ops \in [Ops -> OpType] /\ copies \in [Ops -> CopyType]
  /\ w \in WorkerType /\ up \in BOOLEAN /\ touched \in SUBSET Paths
  /\ faults \in Nat /\ edits \in Nat

\* The restore, not the others, changes the server in this step.
Ours(p) == edits' = edits /\ target'[p] # target[p]

\* What a restore with a protective copy replaces or deletes is in that copy,
\* unless others changed it after the server was read, or the test whether it is
\* there failed, which passes for its absence (existing_target_paths).
CopyBeforeLoss ==
  [][\A p \in Paths :
       Ours(p) /\ target[p] # "none" /\ Op.protective =>
         \/ p \in touched \/ Top[p] \in w.overlooked
         \/ copies[w.op].there /\ copies[w.op].has[p] = target[p]]_vars

\* existing_target_paths keeps the paths that "really exist" (restore_apply.py:322):
\* all of them, so that nothing is lost for a failed test.
NothingOverlooked ==
  [][\A p \in Paths : Ours(p) /\ target[p] # "none" /\ Op.protective =>
       p \in touched \/ Top[p] \in w.saved]_vars

\* An application deletes no object its preparation did not show, however the
\* server changed in between.
DeletesOnlyShown ==
  [][\A p \in Paths : Ours(p) /\ target'[p] = "none" => Node(p) \in ops[Op.from].shown]_vars

\* A restore whose cancellation was accepted changes nothing, and one that
\* changes something has said so in its record before.
BoundaryFirst == [][\A p \in Paths : Ours(p) => Op.mutated /\ ~Op.cancel]_vars

\* A restore reported as applied has replaced every file tar did not find
\* busy and removed everything it showed, but for what others changed since.
AppliedIsApplied ==
  [][\A o \in Ops :
       ops[o].kind = "apply" /\ ops[o].status = "running" /\ ops'[o].status = "completed" =>
         /\ \A p \in Archive \ (w.skipped \cup touched) : target[p] = "archived"
         /\ \A p \in Paths \ touched : Node(p) \in ops[ops[o].from].shown => target[p] = "none"]_vars

\* Once a protective copy was published, some copy is there at any time, and
\* at most one carries the protective name.
NeverWithoutCopy ==
  /\ (\E o \in Ops : ops[o].copy # 0) => \E o \in Ops : copies[o].there
  /\ \A a, b \in Previous : a = b

\* The copy a restore that failed half-way names to the user as the way back
\* is the one it made (manager.py, mutation_failure).
WayBackStands ==
  \A o \in Ops :
    ops[o].mutated /\ ops[o].status = "failed" /\ ops[o].copy # 0 => copies[ops[o].copy].there
=============================================================================
