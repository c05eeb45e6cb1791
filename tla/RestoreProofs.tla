--------------------------- MODULE RestoreProofs ---------------------------
(***************************************************************************)
(* What is proved of Restore for any files, archive and bounds: types, the  *)
(* protective copy, the boundary, and that what is reported as applied is.  *)
(***************************************************************************)
EXTENDS Restore, TLAPS

-----------------------------------------------------------------------------
(* The inductive invariant.                                                 *)

Changing == w.pc \in {"delete", "extract", "verify"}
Applying == Changing \/ (w.pc = "finish" /\ Op.kind = "apply")
Planned == w.pc \notin {"idle", "inventory", "fail"}

\* A worker runs a registered operation; past the boundary it has said so, and
\* an application is of a preparation that is complete.
WorkerInv ==
  w.pc # "idle" =>
    /\ up /\ w.op \in Ops /\ Op.status = "running" /\ Op.kind \in {"prepare", "apply"}
    /\ Op.kind = "apply" => /\ Op.from \in Ops /\ ops[Op.from].kind = "prepare"
                            /\ ops[Op.from].status = "completed"
    /\ w.pc \in {"upload", "boundary"} => Op.kind = "apply"
    /\ Changing => Op.kind = "apply" /\ Op.mutated /\ ~Op.cancel

\* What the worker is going to delete: nothing of the archive, and what the
\* preparation has shown.
PlanInv ==
  /\ Planned =>
       /\ \A n \in w.doomed : \E q \in Paths \ Archive : n = Node(q)
       /\ Op.mode # "clean" => w.doomed = {}
  /\ Planned /\ w.pc # "idle" /\ Op.kind = "apply" => ops[Op.from].shown = w.doomed
  /\ w.pc = "delete" => w.todo \subseteq w.doomed
  /\ w.pc = "extract" => w.todo \subseteq Archive

\* Which copies there are, and which carry the protective name.
CopyInv ==
  /\ \A o \in Ops : ops[o].kind = "none" => ~copies[o].there /\ ops[o].copy = 0
  /\ w.pc \in {"inventory", "exists", "copy"} => ~copies[w.op].there
  /\ w.pc = "drop" => copies[w.op].there /\ ~copies[w.op].named /\ w.old = Previous
  /\ w.pc = "name" => copies[w.op].there /\ ~copies[w.op].named /\ Previous = {}
  /\ NeverWithoutCopy

\* Nothing at p can be lost: it is in the worker's copy, or not there, or
\* others have changed it, or the test for its object failed.
Held(p) ==
  \/ p \in touched \/ target[p] = "none" \/ Top[p] \in w.overlooked
  \/ copies[w.op].there /\ copies[w.op].has[p] = target[p]
HeldInv ==
  w.pc # "idle" /\ Op.protective =>
    /\ w.pc = "copy" =>
         \A p \in Paths \ touched :
           Top[p] \in Reached(Op.mode) /\ target[p] # "none" => Top[p] \in w.saved \cup w.overlooked
    /\ w.pc \in {"drop", "name", "upload", "boundary", "delete"} =>
         \A p \in Paths : Top[p] \in Reached(Op.mode) => Held(p)
    /\ w.pc = "extract" => \A p \in w.todo : Held(p)

\* How far the deletion and the extraction have come.
DoneInv ==
  /\ w.pc = "delete" => \A p \in Paths \ touched : Node(p) \in w.doomed \ w.todo => target[p] = "none"
  /\ Applying /\ w.pc # "delete" => \A p \in Paths \ touched : Node(p) \in w.doomed => target[p] = "none"
  /\ w.pc = "extract" => \A p \in Archive \ (w.todo \cup w.skipped \cup touched) : target[p] = "archived"
  /\ Applying /\ w.pc \in {"verify", "finish"} =>
       \A p \in Archive \ (w.skipped \cup touched) : target[p] = "archived"

Inv == TypeOK /\ WorkerInv /\ PlanInv /\ CopyInv /\ HeldInv /\ DoneInv

-----------------------------------------------------------------------------
(* Types.                                                                   *)

LEMMA OpsAreNumbers == Ops \subseteq 0..MaxOps /\ 0 \in 0..MaxOps
<1>1. MaxOps \in Nat
      BY RestoreAssumption
<1> QED BY <1>1 DEF Ops

LEMMA ConstantTypes == Idle \in WorkerType /\ NoOp \in OpType /\ NoCopy \in CopyType
BY OpsAreNumbers DEF Idle, WorkerType, NoOp, OpType, NoCopy, CopyType, Modes, Content

LEMMA NodeTypes == (\A p \in Paths : Node(p) \in Nodes) /\ DeleteSet \in SUBSET Nodes
BY RestoreAssumption DEF Node, Nodes, DeleteSet

\* A field of a record takes another value of its type.
LEMMA OpFields ==
    ASSUME NEW r \in OpType
    PROVE  /\ [r EXCEPT !.cancel = TRUE] \in OpType
           /\ [r EXCEPT !.mutated = TRUE] \in OpType
           /\ \A s \in SUBSET Nodes : [r EXCEPT !.shown = s] \in OpType
           /\ \A o \in Ops : [r EXCEPT !.copy = o] \in OpType
           /\ \A s \in {"running", "completed", "failed", "cancelled"} :
                [r EXCEPT !.status = s] \in OpType
BY OpsAreNumbers DEF OpType

LEMMA RegisterType ==
    ASSUME TypeOK, NEW rec \in OpType, Register(rec)
    PROVE  ops' \in [Ops -> OpType] /\ w' \in WorkerType
<1> PICK o \in Ops : Register(rec)!(o)
    BY DEF Register
<1>1. [rec EXCEPT !.status = "running"] \in OpType
      BY OpFields
<1>2. [NoOp EXCEPT !.kind = rec.kind, !.status = "failed"] \in OpType
  <2>1. rec.kind \in {"none", "prepare", "apply"}
        BY DEF OpType
  <2> QED BY <2>1, ConstantTypes DEF OpType
<1>3. [Idle EXCEPT !.pc = "inventory", !.op = o] \in WorkerType
      BY ConstantTypes, OpsAreNumbers DEF WorkerType
<1> QED BY <1>1, <1>2, <1>3 DEF TypeOK

LEMMA ApplyType ==
    ASSUME TypeOK, NEW o \in Ops
    PROVE  [NoOp EXCEPT !.kind = "apply", !.mode = ops[o].mode,
                        !.protective = ops[o].protective, !.from = o] \in OpType
<1>1. ops[o] \in OpType
      BY DEF TypeOK
<1>2. ops[o].mode \in Modes /\ ops[o].protective \in BOOLEAN /\ o \in 0..MaxOps
      BY <1>1, OpsAreNumbers DEF OpType
<1> QED BY <1>2, ConstantTypes DEF OpType

LEMMA OpsType ==
    ASSUME TypeOK, WorkerInv, [Next]_vars
    PROVE  ops' \in [Ops -> OpType]
<1>0. ops \in [Ops -> OpType] /\ (w.pc # "idle" => w.op \in Ops)
      BY DEF TypeOK, WorkerInv
<1>1. CASE Prepare
  <2> PICK mode \in Modes, protective \in BOOLEAN :
        Register([NoOp EXCEPT !.kind = "prepare", !.mode = mode, !.protective = protective])
      BY <1>1 DEF Prepare
  <2>1. [NoOp EXCEPT !.kind = "prepare", !.mode = mode, !.protective = protective] \in OpType
        BY ConstantTypes DEF OpType
  <2> QED BY <2>1, RegisterType
<1>2. CASE Apply
  <2> PICK o \in Ops : Register([NoOp EXCEPT !.kind = "apply", !.mode = ops[o].mode,
                                     !.protective = ops[o].protective, !.from = o])
      BY <1>2 DEF Apply
  <2>2. [NoOp EXCEPT !.kind = "apply", !.mode = ops[o].mode,
                     !.protective = ops[o].protective, !.from = o] \in OpType
        BY ApplyType
  <2> QED BY <2>2, RegisterType
<1>3. CASE Cancel
  <2> PICK o \in Ops : ops' = [ops EXCEPT ![o].cancel = TRUE]
      BY <1>3 DEF Cancel
  <2>1. [ops[o] EXCEPT !.cancel = TRUE] \in OpType
        BY <1>0, OpFields
  <2> QED BY <1>0, <2>1
<1>4. CASE ReadInventory
  <2>1. CASE UNCHANGED ops
        BY <1>0, <2>1
  <2>2. CASE \E s \in SUBSET Nodes : ops' = [ops EXCEPT ![w.op].shown = s]
    <3> PICK s \in SUBSET Nodes : ops' = [ops EXCEPT ![w.op].shown = s]
        BY <2>2
    <3>1. w.op \in Ops
          BY <1>0, <1>4 DEF ReadInventory, At
    <3>2. [ops[w.op] EXCEPT !.shown = s] \in OpType
          BY <1>0, <3>1, OpFields
    <3> QED BY <1>0, <3>1, <3>2
  <2>3. {} \in SUBSET Nodes /\ DeleteSet \in SUBSET Nodes
        BY NodeTypes
  <2> QED BY <1>4, <2>1, <2>2, <2>3 DEF ReadInventory, Stops
<1>5. CASE NameCopy \/ CrossBoundary \/ Finish \/ Fail
  <2>1. w.op \in Ops /\ ops[w.op] \in OpType
        BY <1>0, <1>5 DEF NameCopy, CrossBoundary, Finish, Fail, At
  <2>2. /\ [ops[w.op] EXCEPT !.mutated = TRUE] \in OpType
        /\ [ops[w.op] EXCEPT !.copy = w.op] \in OpType
        /\ [ops[w.op] EXCEPT !.status = "completed"] \in OpType
        /\ [ops[w.op] EXCEPT !.status = "failed"] \in OpType
        /\ [ops[w.op] EXCEPT !.status = "cancelled"] \in OpType
        BY <2>1, OpFields
  <2>3. CASE NameCopy
        BY <1>0, <2>1, <2>2, <2>3 DEF NameCopy
  <2>4. CASE CrossBoundary
        BY <1>0, <2>1, <2>2, <2>4 DEF CrossBoundary
  <2>5. CASE Finish
        BY <1>0, <2>1, <2>2, <2>5 DEF Finish, Stops
  <2>6. CASE Fail
        BY <1>0, <2>1, <2>2, <2>6 DEF Fail
  <2> QED BY <1>5, <2>3, <2>4, <2>5, <2>6
<1>8. CASE Start
      BY <1>0, <1>8, OpFields DEF Start
<1>9. CASE \/ ReadExisting \/ PublishCopy \/ DropPrevious \/ Upload \/ Delete \/ Extract
           \/ Verify \/ ForeignEdit \/ Crash \/ UNCHANGED vars
      BY <1>0, <1>9 DEF ReadExisting, PublishCopy, DropPrevious, Upload, Delete, Extract, Verify,
         ForeignEdit, Crash, Stops, vars
<1> QED BY <1>1, <1>2, <1>3, <1>4, <1>5, <1>8, <1>9 DEF Next, Work

LEMMA WorkerFields ==
    ASSUME NEW r \in WorkerType
    PROVE  /\ \A pc \in {"exists", "copy", "drop", "name", "upload", "boundary", "verify", "finish",
                         "fail"} : [r EXCEPT !.pc = pc] \in WorkerType
           /\ \A s \in SUBSET Nodes : [r EXCEPT !.pc = "exists", !.doomed = s] \in WorkerType
           /\ \A pc \in {"copy", "finish", "upload"}, s \in SUBSET Tops, k \in SUBSET Tops :
                [r EXCEPT !.pc = pc, !.saved = s, !.overlooked = k] \in WorkerType
           /\ \A s \in SUBSET Ops : [r EXCEPT !.pc = "drop", !.old = s] \in WorkerType
           /\ \A s \in SUBSET Ops : [r EXCEPT !.old = s] \in WorkerType
           /\ \A pc \in {"delete", "extract"}, s \in SUBSET Nodes :
                [r EXCEPT !.pc = pc, !.todo = s] \in WorkerType
           /\ \A s \in SUBSET Nodes : [r EXCEPT !.todo = s] \in WorkerType
           /\ \A s \in SUBSET Nodes, k \in SUBSET Paths :
                [r EXCEPT !.todo = s, !.skipped = k] \in WorkerType
BY DEF WorkerType

LEMMA WorkerTypeStep ==
    ASSUME TypeOK, PlanInv, [Next]_vars
    PROVE  w' \in WorkerType
<1>0. /\ w \in WorkerType /\ w.doomed \in SUBSET Nodes /\ w.todo \in SUBSET Nodes
      /\ w.old \in SUBSET Ops /\ w.skipped \in SUBSET Paths /\ Archive \in SUBSET Paths
      /\ Paths \subseteq Nodes
      BY RestoreAssumption DEF TypeOK, WorkerType, Nodes
<1>2. CASE Prepare \/ Apply
  <2>1. CASE Prepare
    <3> PICK mode \in Modes, protective \in BOOLEAN :
          Register([NoOp EXCEPT !.kind = "prepare", !.mode = mode, !.protective = protective])
        BY <2>1 DEF Prepare
    <3>1. [NoOp EXCEPT !.kind = "prepare", !.mode = mode, !.protective = protective] \in OpType
          BY ConstantTypes DEF OpType
    <3> QED BY <3>1, RegisterType
  <2>2. CASE Apply
    <3> PICK o \in Ops : Register([NoOp EXCEPT !.kind = "apply", !.mode = ops[o].mode,
                                       !.protective = ops[o].protective, !.from = o])
        BY <2>2 DEF Apply
    <3>1. [NoOp EXCEPT !.kind = "apply", !.mode = ops[o].mode,
                       !.protective = ops[o].protective, !.from = o] \in OpType
          BY ApplyType
    <3> QED BY <3>1, RegisterType
  <2> QED BY <1>2, <2>1, <2>2
<1>3. CASE ReadInventory
  <2>1. [w EXCEPT !.pc = "fail"] \in WorkerType
        BY <1>0, WorkerFields
  <2>2. \A s \in SUBSET Nodes : [w EXCEPT !.pc = "exists", !.doomed = s] \in WorkerType
        BY <1>0, WorkerFields
  <2> QED BY <1>3, <2>1, <2>2 DEF ReadInventory, Goes
<1>4. CASE ReadExisting
  <2>1. There \subseteq Tops
        BY RestoreAssumption DEF Reached, There
  <2>2. \A pc \in {"fail", "finish", "upload"} : [w EXCEPT !.pc = pc] \in WorkerType
        BY <1>0, WorkerFields
  <2>3. \A pc \in {"copy", "finish", "upload"}, s \in SUBSET Tops, k \in SUBSET Tops :
          [w EXCEPT !.pc = pc, !.saved = s, !.overlooked = k] \in WorkerType
        BY <1>0, WorkerFields
  <2>4. AfterCopy \in {"finish", "upload"}
        BY DEF AfterCopy
  <2>5. CASE \E pc \in {"fail", "finish", "upload"} : Goes(pc)
        BY <2>2, <2>5 DEF Goes
  <2>6. ASSUME NEW saved \in SUBSET There,
               w' = [w EXCEPT !.pc = IF saved # {} THEN "copy" ELSE AfterCopy,
                              !.saved = saved, !.overlooked = There \ saved]
        PROVE  w' \in WorkerType
    <3> DEFINE next == IF saved # {} THEN "copy" ELSE AfterCopy
    <3>1. next \in {"copy", "finish", "upload"}
          BY <2>4
    <3>2. saved \in SUBSET Tops /\ There \ saved \in SUBSET Tops
          BY <2>1
    <3>3. w' = [w EXCEPT !.pc = next, !.saved = saved, !.overlooked = There \ saved]
          BY <2>6
    <3> HIDE DEF next
    <3> QED BY <2>3, <3>1, <3>2, <3>3
  <2> QED BY <1>4, <2>4, <2>5, <2>6 DEF ReadExisting
<1>5. CASE PublishCopy \/ DropPrevious \/ NameCopy
      BY <1>0, <1>5, WorkerFields DEF PublishCopy, DropPrevious, NameCopy, Previous, Goes, AfterCopy
<1>6. CASE CrossBoundary
      BY <1>0, <1>6, WorkerFields, ConstantTypes DEF CrossBoundary, Goes
<1>7. CASE Delete
  <2>1. \A s \in SUBSET Nodes : /\ [w EXCEPT !.todo = s] \in WorkerType
                                /\ [w EXCEPT !.pc = "extract", !.todo = s] \in WorkerType
        BY <1>0, WorkerFields
  <2>2. [w EXCEPT !.pc = "fail"] \in WorkerType
        BY <1>0, WorkerFields
  <2>3. Archive \in SUBSET Nodes /\ \A n : w.todo \ {n} \in SUBSET Nodes
        BY <1>0
  <2> QED BY <1>7, <2>1, <2>2, <2>3 DEF Delete, Goes
<1>8. CASE Extract
  <2>1. \A s \in SUBSET Nodes, k \in SUBSET Paths :
          /\ [w EXCEPT !.todo = s] \in WorkerType
          /\ [w EXCEPT !.todo = s, !.skipped = k] \in WorkerType
        BY <1>0, WorkerFields
  <2>2. [w EXCEPT !.pc = "fail"] \in WorkerType /\ [w EXCEPT !.pc = "verify"] \in WorkerType
        BY <1>0, WorkerFields
  <2>3. \A p : w.todo \ {p} \in SUBSET Nodes
        BY <1>0
  <2>4. \A p \in w.todo : p \in Paths => w.skipped \cup {p} \in SUBSET Paths
        BY <1>0
  <2>5. \A p \in w.todo : p \in Paths
        BY <1>0, <1>8 DEF PlanInv, Extract, At
  <2>6. CASE w' = [w EXCEPT !.pc = "fail"] \/ w' = [w EXCEPT !.pc = "verify"]
        BY <2>2, <2>6
  <2>7. CASE \E p \in w.todo : w' = [w EXCEPT !.todo = @ \ {p}]
        BY <2>1, <2>3, <2>7, <1>0
  <2>8. CASE \E p \in w.todo : w' = [w EXCEPT !.todo = @ \ {p}, !.skipped = @ \cup {p}]
    <3> PICK p \in w.todo : w' = [w EXCEPT !.todo = @ \ {p}, !.skipped = @ \cup {p}]
        BY <2>8
    <3>1. w.todo \ {p} \in SUBSET Nodes /\ w.skipped \cup {p} \in SUBSET Paths
          BY <2>3, <2>4, <2>5
    <3> QED BY <2>1, <3>1
  <2> QED BY <1>8, <2>6, <2>7, <2>8 DEF Extract, Goes, TarFailed
<1>9. CASE Upload \/ Verify \/ Finish \/ Fail \/ Crash
      BY <1>0, <1>9, WorkerFields, ConstantTypes DEF Upload, Verify, Finish, Fail, Crash, Stops, Goes
<1>10. CASE Cancel \/ ForeignEdit \/ Start \/ UNCHANGED vars
      BY <1>0, <1>10 DEF Cancel, ForeignEdit, Start, vars
<1> QED BY <1>2, <1>3, <1>4, <1>5, <1>6, <1>7, <1>8, <1>9, <1>10 DEF Next, Work

LEMMA InitInv == Init => Inv
<1> SUFFICES ASSUME Init PROVE Inv
    OBVIOUS
<1>1. TypeOK
      BY RestoreAssumption, ConstantTypes DEF Init, TypeOK, Content
<1>2. WorkerInv /\ PlanInv /\ CopyInv /\ HeldInv /\ DoneInv
      BY DEF Init, WorkerInv, PlanInv, CopyInv, HeldInv, DoneInv, NeverWithoutCopy, Previous, Changing,
             Applying, Planned, Op, Idle, NoOp, NoCopy
<1> QED BY <1>1, <1>2 DEF Inv

LEMMA TargetType ==
    ASSUME TypeOK, [Next]_vars
    PROVE  target' \in [Paths -> Content]
<1>1. CASE Delete
      BY <1>1 DEF Delete, TypeOK, Content, Removed
<1>2. CASE Extract
      BY <1>2 DEF Extract, TypeOK, Content, Written
<1>3. CASE ForeignEdit
      BY <1>3 DEF ForeignEdit, TypeOK, Content
<1>4. CASE Crash
      BY <1>4 DEF Crash, TypeOK, Content, Removed, Written
<1>5. CASE \/ Prepare \/ Apply \/ Cancel \/ ReadInventory \/ ReadExisting \/ PublishCopy
           \/ DropPrevious \/ NameCopy \/ Upload \/ CrossBoundary \/ Verify \/ Finish \/ Fail
           \/ Start \/ UNCHANGED vars
      BY <1>5 DEF Prepare, Apply, Cancel, ReadInventory, ReadExisting, PublishCopy, DropPrevious,
         NameCopy, Upload, CrossBoundary, Verify, Finish, Fail, Start, TypeOK, vars, Stops, Register
<1> QED BY <1>1, <1>2, <1>3, <1>4, <1>5 DEF Next, Work

LEMMA CopyFields ==
    ASSUME NEW r \in CopyType
    PROVE  [r EXCEPT !.there = FALSE] \in CopyType /\ [r EXCEPT !.named = TRUE] \in CopyType
BY DEF CopyType

LEMMA CopiesType ==
    ASSUME TypeOK, WorkerInv, [Next]_vars
    PROVE  copies' \in [Ops -> CopyType]
<1>0. copies \in [Ops -> CopyType] /\ w.old \in SUBSET Ops /\ (w.pc # "idle" => w.op \in Ops)
      BY DEF TypeOK, WorkerType, WorkerInv
<1>1. CASE PublishCopy
  <2>1. Taken \in [Paths -> Content]
        BY DEF Taken, TypeOK, Content
  <2>2. [there |-> TRUE, named |-> FALSE, has |-> Taken] \in CopyType
        BY <2>1 DEF CopyType
  <2> QED BY <1>0, <1>1, <2>2 DEF PublishCopy
<1>2. CASE DropPrevious
  <2>1. CASE UNCHANGED copies
        BY <1>0, <2>1
  <2>2. CASE \E o \in w.old : copies' = [copies EXCEPT ![o].there = FALSE]
    <3> PICK o \in w.old : copies' = [copies EXCEPT ![o].there = FALSE]
        BY <2>2
    <3>1. o \in Ops /\ [copies[o] EXCEPT !.there = FALSE] \in CopyType
          BY <1>0, CopyFields
    <3> QED BY <1>0, <3>1
  <2> QED BY <1>2, <2>1, <2>2 DEF DropPrevious
<1>3. CASE NameCopy
  <2>1. w.op \in Ops
        BY <1>0, <1>3 DEF NameCopy, At
  <2>2. [copies[w.op] EXCEPT !.named = TRUE] \in CopyType
        BY <1>0, <2>1, CopyFields
  <2> QED BY <1>0, <1>3, <2>1, <2>2 DEF NameCopy
<1>4. CASE \/ Prepare \/ Apply \/ Cancel \/ ReadInventory \/ ReadExisting \/ Upload
           \/ CrossBoundary \/ Delete \/ Extract \/ Verify \/ Finish \/ Fail \/ ForeignEdit
           \/ Crash \/ Start \/ UNCHANGED vars
      BY <1>0, <1>4 DEF Prepare, Apply, Cancel, ReadInventory, ReadExisting, Upload, CrossBoundary,
         Delete, Extract, Verify, Finish, Fail, ForeignEdit, Crash, Start, vars, Stops, Register
<1> QED BY <1>1, <1>2, <1>3, <1>4 DEF Next, Work

LEMMA TypeStep ==
    ASSUME TypeOK, WorkerInv, PlanInv, [Next]_vars
    PROVE  TypeOK'
<1>1. up' \in BOOLEAN /\ touched' \in SUBSET Paths
      BY DEF TypeOK, Next, Work, Prepare, Apply, Register, Cancel, ReadInventory, ReadExisting,
         PublishCopy, DropPrevious, NameCopy, Upload, CrossBoundary, Delete, Extract, Verify, Finish,
         Fail, ForeignEdit, Crash, Start, vars
<1>2. edits' \in Nat
  <2>1. edits' = edits \/ edits' = edits + 1
        BY DEF Next, Work, Prepare, Apply, Register, Cancel, ReadInventory, ReadExisting,
           PublishCopy, DropPrevious, NameCopy, Upload, CrossBoundary, Delete, Extract, Verify,
           Finish, Fail, ForeignEdit, Crash, Start, vars
  <2> QED BY <2>1 DEF TypeOK
<1>3. faults' \in Nat
  <2>1. UNCHANGED faults \/ Upset
        BY DEF Next, Work, Prepare, Apply, Register, Cancel, ReadInventory, ReadExisting,
           PublishCopy, DropPrevious, NameCopy, Upload, CrossBoundary, Delete, Extract, Verify,
           Finish, Fail, ForeignEdit, Crash, Start, vars, Fine, Stops, UpsetUnless, InventoryOf
  <2> QED BY <2>1 DEF TypeOK, Upset
<1> QED BY <1>1, <1>2, <1>3, TargetType, OpsType, CopiesType, WorkerTypeStep DEF TypeOK

\* What a request does: it takes an unused record, and the worker if it is free.
Registered(o, rec) ==
  /\ ops[o].kind = "none" /\ ops' = [ops EXCEPT ![o] = rec] /\ UNCHANGED <<target, copies, up>>
  /\ rec.kind \in {"prepare", "apply"} /\ rec.copy = 0 /\ ~rec.mutated
  /\ \/ /\ w.pc = "idle" /\ up /\ w' = [Idle EXCEPT !.pc = "inventory", !.op = o]
        /\ rec.status = "running"
        /\ rec.kind = "apply" => /\ rec.from \in Ops /\ ops[rec.from].kind = "prepare"
                                 /\ ops[rec.from].status = "completed"
     \/ w.pc # "idle" /\ rec.status = "failed" /\ UNCHANGED <<w, touched>>

LEMMA Registers ==
    ASSUME TypeOK, Prepare \/ Apply
    PROVE  \E o \in Ops : \E rec \in OpType : Registered(o, rec)
<1>1. ASSUME NEW r \in OpType, Register(r), up, r.kind \in {"prepare", "apply"}, r.copy = 0, ~r.mutated,
             r.kind = "apply" => /\ r.from \in Ops /\ ops[r.from].kind = "prepare"
                                 /\ ops[r.from].status = "completed"
      PROVE  \E o \in Ops : \E rec \in OpType : Registered(o, rec)
  <2> PICK o \in Ops : Register(r)!(o)
      BY <1>1 DEF Register
  <2>1. CASE w.pc = "idle"
    <3>1. [r EXCEPT !.status = "running"] \in OpType
          BY <1>1, OpFields
    <3>2. Registered(o, [r EXCEPT !.status = "running"])
          BY <1>1, <2>1 DEF Registered, OpType
    <3> QED BY <3>1, <3>2
  <2>2. CASE w.pc # "idle"
    <3> DEFINE rec == [NoOp EXCEPT !.kind = r.kind, !.status = "failed"]
    <3>1. rec \in OpType
          BY <1>1, ConstantTypes DEF OpType
    <3>2. Registered(o, rec)
          BY <1>1, <2>2 DEF Registered, NoOp
    <3> QED BY <3>1, <3>2
  <2> QED BY <2>1, <2>2
<1>2. CASE Prepare
  <2> PICK mode \in Modes, protective \in BOOLEAN :
        up /\ Register([NoOp EXCEPT !.kind = "prepare", !.mode = mode, !.protective = protective])
      BY <1>2 DEF Prepare
  <2> DEFINE r == [NoOp EXCEPT !.kind = "prepare", !.mode = mode, !.protective = protective]
  <2>1. r \in OpType
        BY ConstantTypes DEF OpType
  <2>2. r.kind = "prepare" /\ r.copy = 0 /\ ~r.mutated
        BY DEF NoOp
  <2>3. up /\ Register(r)
        OBVIOUS
  <2> HIDE DEF r
  <2> QED BY <1>1, <2>1, <2>2, <2>3
<1>3. CASE Apply
  <2> PICK p \in Ops :
        /\ up /\ ops[p].kind = "prepare" /\ ops[p].status = "completed"
        /\ Register([NoOp EXCEPT !.kind = "apply", !.mode = ops[p].mode,
                                 !.protective = ops[p].protective, !.from = p])
      BY <1>3 DEF Apply
  <2> DEFINE r == [NoOp EXCEPT !.kind = "apply", !.mode = ops[p].mode,
                               !.protective = ops[p].protective, !.from = p]
  <2>1. r \in OpType
        BY ApplyType
  <2>2. r.kind = "apply" /\ r.copy = 0 /\ ~r.mutated /\ r.from = p
        BY DEF NoOp
  <2>3. up /\ Register(r) /\ ops[p].kind = "prepare" /\ ops[p].status = "completed"
        OBVIOUS
  <2> HIDE DEF r
  <2> QED BY <1>1, <2>1, <2>2, <2>3
<1> QED BY <1>2, <1>3

LEMMA WorkerStep ==
    ASSUME TypeOK, WorkerInv, [Next]_vars
    PROVE  WorkerInv'
<1>0. w \in WorkerType /\ ops \in [Ops -> OpType]
      BY DEF TypeOK
<1>1. CASE Prepare \/ Apply
  <2> PICK o \in Ops, rec \in OpType : Registered(o, rec)
      BY <1>1, Registers
  <2>1. CASE w.pc = "idle"
    <3>1. /\ w'.pc = "inventory" /\ w'.op = o /\ ops'[o] = rec /\ up'
          BY <1>0, <2>1 DEF Registered, Idle
    <3>2. rec.kind = "apply" => rec.from # o /\ ops'[rec.from] = ops[rec.from]
          BY <1>0, <2>1 DEF Registered
    <3> QED BY <2>1, <3>1, <3>2 DEF WorkerInv, Op, Registered, Changing
  <2>2. CASE w.pc # "idle"
    <3>1. w' = w /\ up' = up
          BY <2>2 DEF Registered
    <3>2. w.op \in Ops /\ w.op # o /\ ops'[w.op] = Op
          BY <1>0, <2>2 DEF Registered, WorkerInv, Op
    <3>3. Op.kind = "apply" => ops'[Op.from] = ops[Op.from]
          BY <1>0, <2>2 DEF Registered, WorkerInv, Op
    <3> QED BY <2>2, <3>1, <3>2, <3>3 DEF WorkerInv, Op, Changing
  <2> QED BY <2>1, <2>2
<1>2. CASE Cancel
  <2> PICK o \in Ops : /\ ops' = [ops EXCEPT ![o].cancel = TRUE] /\ ~ops[o].mutated
                       /\ UNCHANGED <<w, up>>
      BY <1>2 DEF Cancel
  <2>1. \A q \in Ops : /\ ops'[q].kind = ops[q].kind /\ ops'[q].from = ops[q].from
                       /\ ops'[q].status = ops[q].status
        BY <1>0 DEF OpType
  <2>2. \A q \in Ops : q # o => ops'[q] = ops[q]
        BY <1>0
  <2> QED BY <2>1, <2>2 DEF WorkerInv, Op, Changing
<1>3. CASE ReadInventory
  <2>1. w.op \in Ops /\ up /\ up' = up /\ w.pc = "inventory"
        BY <1>3 DEF ReadInventory, At, WorkerInv
  <2>2. w'.op = w.op /\ w'.pc \in {"exists", "fail"}
        BY <1>0, <1>3 DEF ReadInventory, Goes, Stops, WorkerType
  <2>3. ops' = ops \/ \E s \in SUBSET Nodes : ops' = [ops EXCEPT ![w.op].shown = s]
        BY <1>3 DEF ReadInventory
  <2>4. \A q \in Ops : /\ ops'[q].kind = ops[q].kind /\ ops'[q].from = ops[q].from
                       /\ ops'[q].status = ops[q].status
    <3>1. CASE ops' = ops
          BY <3>1
    <3>2. ASSUME NEW s \in SUBSET Nodes, ops' = [ops EXCEPT ![w.op].shown = s]
          PROVE  \A q \in Ops : /\ ops'[q].kind = ops[q].kind /\ ops'[q].from = ops[q].from
                                /\ ops'[q].status = ops[q].status
          BY <1>0, <2>1, <3>2 DEF OpType
    <3> QED BY <2>3, <3>1, <3>2
  <2> QED BY <2>1, <2>2, <2>4 DEF WorkerInv, Op, Changing
<1>4. CASE ReadExisting \/ PublishCopy \/ DropPrevious \/ Upload
  <2>1. w.op \in Ops /\ up /\ up' = up /\ ops' = ops /\ w'.op = w.op
        BY <1>0, <1>4 DEF ReadExisting, PublishCopy, DropPrevious, Upload, At, WorkerInv, Goes, Stops, WorkerType
  <2>2. \/ w'.pc \in {"copy", "drop", "name", "finish", "fail"}
        \/ w'.pc \in {"upload", "boundary"} /\ Op.kind # "prepare"
        BY <1>0, <1>4 DEF ReadExisting, PublishCopy, DropPrevious, Upload, At, WorkerInv, Goes, Stops, WorkerType, AfterCopy
  <2>3. w.pc # "idle"
        BY <1>4 DEF ReadExisting, PublishCopy, DropPrevious, Upload, At
  <2> QED BY <2>1, <2>2, <2>3 DEF WorkerInv, Op, Changing
<1>5. CASE NameCopy
  <2>1. w.op \in Ops /\ up /\ up' = up /\ w.pc = "name" /\ w'.op = w.op
        BY <1>0, <1>5 DEF NameCopy, At, WorkerInv, Goes, WorkerType
  <2>2. \/ w'.pc \in {"finish", "fail"}
        \/ w'.pc = "upload" /\ Op.kind # "prepare"
        BY <1>0, <1>5 DEF NameCopy, Goes, WorkerType, AfterCopy
  <2>3. \A q \in Ops : /\ ops'[q].kind = ops[q].kind /\ ops'[q].from = ops[q].from
                       /\ ops'[q].status = ops[q].status
        BY <1>0, <1>5 DEF NameCopy, OpType
  <2> QED BY <2>1, <2>2, <2>3 DEF WorkerInv, Op, Changing
<1>6. CASE CrossBoundary
  <2>1. w.op \in Ops /\ up /\ up' = up /\ w.pc = "boundary" /\ Op \in OpType
        BY <1>0, <1>6 DEF CrossBoundary, At, WorkerInv, Op
  <2>2. CASE w' = Idle
        BY <2>2 DEF WorkerInv, Idle
  <2>3. CASE ops' = ops /\ Goes("fail")
        BY <1>0, <2>1, <2>3 DEF Goes, WorkerInv, WorkerType, Op, Changing
  <2>4. CASE /\ ~CancelSeen(w.op) /\ ops' = [ops EXCEPT ![w.op].mutated = TRUE]
             /\ w' = [w EXCEPT !.pc = "delete", !.todo = w.doomed]
    <3>1. w'.pc = "delete" /\ w'.op = w.op
          BY <1>0, <2>4 DEF WorkerType
    <3>2. \A q \in Ops : /\ ops'[q].kind = ops[q].kind /\ ops'[q].from = ops[q].from
                         /\ ops'[q].status = ops[q].status
          BY <1>0, <2>4 DEF OpType
    <3>3. ops'[w.op].mutated /\ ~ops'[w.op].cancel
          BY <1>0, <2>1, <2>4 DEF OpType, CancelSeen
    <3> QED BY <2>1, <3>1, <3>2, <3>3 DEF WorkerInv, Op, Changing
  <2> QED BY <1>6, <2>2, <2>3, <2>4 DEF CrossBoundary
<1>7. CASE Delete \/ Extract \/ Verify
  <2>1. w.op \in Ops /\ up /\ up' = up /\ ops' = ops /\ w'.op = w.op /\ Changing /\ w.pc # "idle"
        BY <1>0, <1>7 DEF Delete, Extract, Verify, At, WorkerInv, Goes, Stops, WorkerType, Changing
  <2>2. w'.pc \in {"delete", "extract", "verify", "finish", "fail"}
        BY <1>0, <1>7 DEF Delete, Extract, Verify, At, Goes, Stops, WorkerType, TarFailed
  <2> QED BY <2>1, <2>2 DEF WorkerInv, Op, Changing
<1>8. CASE Finish
  <2>1. CASE w' = Idle
        BY <2>1 DEF WorkerInv, Idle
  <2>2. CASE Stops
    <3>1. w'.pc = "fail" /\ w'.op = w.op /\ ops' = ops /\ up' = up /\ w.pc = "finish"
          BY <1>0, <1>8, <2>2 DEF Stops, Goes, WorkerType, Finish, At
    <3> QED BY <3>1 DEF WorkerInv, Op, Changing
  <2> QED BY <1>8, <2>1, <2>2 DEF Finish
<1>9. CASE Fail \/ Crash
      BY <1>9 DEF Fail, Crash, Idle, WorkerInv
<1>10. CASE Start
      BY <1>10 DEF Start, WorkerInv
<1>11. CASE ForeignEdit \/ UNCHANGED vars
      BY <1>11 DEF ForeignEdit, vars, WorkerInv, Op, Changing
<1> QED BY <1>1, <1>2, <1>3, <1>4, <1>5, <1>6, <1>7, <1>8, <1>9, <1>10, <1>11 DEF Next, Work

\* Every step but a registration and the reading of the server leaves what a
\* record says of its plan, and every step of a worker is of one operation.
LEMMA PlanKept ==
    ASSUME TypeOK, WorkerInv, [Next]_vars, ~(Prepare \/ Apply \/ ReadInventory)
    PROVE  /\ \A q \in Ops : /\ ops'[q].kind = ops[q].kind /\ ops'[q].mode = ops[q].mode
                             /\ ops'[q].from = ops[q].from /\ ops'[q].shown = ops[q].shown
                             /\ ops'[q].protective = ops[q].protective
           /\ w' = Idle \/ (w'.op = w.op /\ w'.doomed = w.doomed)
<1>0. w \in WorkerType /\ ops \in [Ops -> OpType]
      BY DEF TypeOK
<1>1. CASE Cancel \/ NameCopy
      BY <1>0, <1>1 DEF Cancel, NameCopy, OpType, WorkerType, Goes
<1>2. CASE CrossBoundary \/ Finish
  <2>1. \/ w' = Idle \/ w' = [w EXCEPT !.pc = "fail"]
        \/ w' = [w EXCEPT !.pc = "delete", !.todo = w.doomed]
        BY <1>2 DEF CrossBoundary, Finish, Goes, Stops
  <2>2. \/ UNCHANGED ops \/ ops' = [ops EXCEPT ![w.op].mutated = TRUE]
        \/ ops' = [ops EXCEPT ![w.op].status = "cancelled"]
        \/ ops' = [ops EXCEPT ![w.op].status = "completed"]
        BY <1>2 DEF CrossBoundary, Finish, Stops
  <2>3. w' = Idle \/ (w'.op = w.op /\ w'.doomed = w.doomed)
        BY <1>0, <2>1 DEF WorkerType
  <2>4. \A q \in Ops : /\ ops'[q].kind = ops[q].kind /\ ops'[q].mode = ops[q].mode
                       /\ ops'[q].from = ops[q].from /\ ops'[q].shown = ops[q].shown
                       /\ ops'[q].protective = ops[q].protective
        BY <1>0, <2>2 DEF OpType
  <2> QED BY <2>3, <2>4
<1>3. CASE Fail \/ Start
      BY <1>0, <1>3 DEF Fail, Start, OpType
<1>4. CASE ReadExisting \/ PublishCopy \/ DropPrevious \/ Upload \/ Verify
      BY <1>0, <1>4 DEF ReadExisting, PublishCopy, DropPrevious, Upload, Verify, WorkerType, Goes, Stops
<1>5. CASE Delete \/ Extract
      BY <1>0, <1>5 DEF Delete, Extract, WorkerType, Goes
<1>6. CASE ForeignEdit \/ Crash \/ UNCHANGED vars
      BY <1>6 DEF ForeignEdit, Crash, vars
<1> QED BY <1>1, <1>2, <1>3, <1>4, <1>5, <1>6 DEF Next, Work

\* From where to where each step of a worker leads.
LEMMA Moves ==
    ASSUME TypeOK
    PROVE  /\ ReadInventory => w.pc = "inventory" /\ w'.pc \in {"exists", "fail"}
           /\ ReadExisting => w.pc = "exists" /\ w'.pc \in {"copy", "upload", "finish", "fail"}
           /\ PublishCopy => w.pc = "copy" /\ w'.pc \in {"drop", "fail"}
           /\ DropPrevious => w.pc = "drop" /\ w'.pc \in {"drop", "name", "fail"}
           /\ NameCopy => w.pc = "name" /\ w'.pc \in {"upload", "finish", "fail"}
           /\ Upload => w.pc = "upload" /\ w'.pc \in {"boundary", "fail"}
           /\ CrossBoundary => w.pc = "boundary" /\ w'.pc \in {"delete", "idle", "fail"}
           /\ Delete => w.pc = "delete" /\ w'.pc \in {"delete", "extract", "fail"}
           /\ Extract => w.pc = "extract" /\ w'.pc \in {"extract", "verify", "fail"}
           /\ Verify => w.pc = "verify" /\ w'.pc \in {"finish", "fail"}
           /\ Finish => w.pc = "finish" /\ w'.pc \in {"idle", "fail"}
           /\ Fail => w.pc = "fail" /\ w'.pc = "idle"
<1>0. w \in WorkerType
      BY DEF TypeOK
<1>1. ReadInventory => w.pc = "inventory" /\ w'.pc \in {"exists", "fail"}
      BY <1>0 DEF ReadInventory, At, WorkerType, Goes, Stops
<1>2. ReadExisting => w.pc = "exists" /\ w'.pc \in {"copy", "upload", "finish", "fail"}
      BY <1>0 DEF ReadExisting, At, WorkerType, Goes, Stops, AfterCopy
<1>3. PublishCopy => w.pc = "copy" /\ w'.pc \in {"drop", "fail"}
      BY <1>0 DEF PublishCopy, At, WorkerType, Goes
<1>4. DropPrevious => w.pc = "drop" /\ w'.pc \in {"drop", "name", "fail"}
      BY <1>0 DEF DropPrevious, At, WorkerType, Goes
<1>5. NameCopy => w.pc = "name" /\ w'.pc \in {"upload", "finish", "fail"}
      BY <1>0 DEF NameCopy, At, WorkerType, Goes, AfterCopy
<1>6. Upload => w.pc = "upload" /\ w'.pc \in {"boundary", "fail"}
      BY <1>0 DEF Upload, At, WorkerType, Goes, Stops
<1>7. CrossBoundary => w.pc = "boundary" /\ w'.pc \in {"delete", "idle", "fail"}
  <2> SUFFICES ASSUME CrossBoundary PROVE w.pc = "boundary" /\ w'.pc \in {"delete", "idle", "fail"}
      OBVIOUS
  <2>1. \/ w' = Idle \/ w' = [w EXCEPT !.pc = "fail"]
        \/ w' = [w EXCEPT !.pc = "delete", !.todo = w.doomed]
        BY DEF CrossBoundary, Goes
  <2>2. w.pc = "boundary"
        BY DEF CrossBoundary, At
  <2>3. /\ Idle.pc = "idle" /\ [w EXCEPT !.pc = "fail"].pc = "fail"
        /\ [w EXCEPT !.pc = "delete", !.todo = w.doomed].pc = "delete"
        BY <1>0 DEF WorkerType, Idle
  <2> QED BY <2>1, <2>2, <2>3, Zenon
<1>8. Delete => w.pc = "delete" /\ w'.pc \in {"delete", "extract", "fail"}
      BY <1>0 DEF Delete, At, WorkerType, Goes
<1>9. Extract => w.pc = "extract" /\ w'.pc \in {"extract", "verify", "fail"}
      BY <1>0 DEF Extract, At, WorkerType, Goes, TarFailed
<1>10. Verify => w.pc = "verify" /\ w'.pc \in {"finish", "fail"}
      BY <1>0 DEF Verify, At, WorkerType, Goes, Stops
<1>11. Finish => w.pc = "finish" /\ w'.pc \in {"idle", "fail"}
      BY <1>0 DEF Finish, At, WorkerType, Goes, Stops, Idle
<1>12. Fail => w.pc = "fail" /\ w'.pc = "idle"
      BY <1>0 DEF Fail, At, WorkerType, Idle
<1> QED BY <1>1, <1>2, <1>3, <1>4, <1>5, <1>6, <1>7, <1>8, <1>9, <1>10, <1>11, <1>12

\* Where a worker comes from.
LEMMA Origins ==
    ASSUME TypeOK, [Next]_vars, w' # w
    PROVE  /\ w'.pc = "inventory" => Prepare \/ Apply
           /\ w'.pc = "exists" => ReadInventory
           /\ w'.pc = "copy" => ReadExisting
           /\ w'.pc = "drop" => PublishCopy \/ DropPrevious
           /\ w'.pc = "name" => DropPrevious
           /\ w'.pc = "upload" => ReadExisting \/ NameCopy
           /\ w'.pc = "boundary" => Upload
           /\ w'.pc = "delete" => CrossBoundary \/ Delete
           /\ w'.pc = "extract" => Delete \/ Extract
           /\ w'.pc = "verify" => Extract
           /\ w'.pc = "finish" => ReadExisting \/ NameCopy \/ Verify
<1>1. CASE Prepare \/ Apply
  <2>1. w'.pc = "inventory"
        BY <1>1 DEF Prepare, Apply, Register, Idle
  <2> QED BY <1>1, <2>1
<1>2. CASE Work
      BY <1>2, Moves DEF Work
<1>3. CASE Cancel \/ ForeignEdit \/ Crash \/ Start \/ UNCHANGED vars
      BY <1>3 DEF Cancel, ForeignEdit, Crash, Start, vars, Idle
<1> QED BY <1>1, <1>2, <1>3 DEF Next

\* The plan is the one that was shown.
LEMMA PlanStep ==
    ASSUME TypeOK, WorkerInv, PlanInv, [Next]_vars
    PROVE  PlanInv'
<1>0. w \in WorkerType /\ ops \in [Ops -> OpType]
      BY DEF TypeOK
<1>1. CASE Prepare \/ Apply
  <2> PICK o \in Ops, rec \in OpType : Registered(o, rec)
      BY <1>1, Registers
  <2>1. CASE w.pc = "idle"
        BY <2>1 DEF Registered, Idle, PlanInv, Planned
  <2>2. CASE w.pc # "idle"
    <3>1. w' = w /\ w.op \in Ops /\ w.op # o /\ ops'[w.op] = Op
          BY <1>0, <2>2 DEF Registered, WorkerInv, Op
    <3>2. Op.kind = "apply" => ops'[Op.from] = ops[Op.from]
          BY <1>0, <2>2 DEF Registered, WorkerInv, Op
    <3> QED BY <2>2, <3>1, <3>2 DEF PlanInv, Planned, Op, Node
  <2> QED BY <2>1, <2>2
<1>2. CASE ReadInventory
  <2>1. w.op \in Ops /\ w.pc = "inventory"
        BY <1>2 DEF ReadInventory, At, WorkerInv
  <2>2. CASE Goes("fail")
        BY <1>0, <2>2 DEF Goes, WorkerType, PlanInv, Planned
  <2>3. ASSUME NEW doomed \in SUBSET Nodes, doomed \in {Doomed, {}},
               SameSet(doomed), ops' = [ops EXCEPT ![w.op].shown = doomed],
               w' = [w EXCEPT !.pc = "exists", !.doomed = doomed]
        PROVE  PlanInv'
    <3>1. w'.pc = "exists" /\ w'.op = w.op /\ w'.doomed = doomed
          BY <1>0, <2>3 DEF WorkerType
    <3>2. /\ \A n \in doomed : \E q \in Paths \ Archive : n = Node(q)
          /\ Op.mode # "clean" => doomed = {}
          BY <2>3 DEF DeleteSet, Doomed
    <3>3. /\ ops'[w.op].mode = Op.mode /\ ops'[w.op].kind = Op.kind /\ ops'[w.op].from = Op.from
          BY <1>0, <2>1, <2>3 DEF Op, OpType
    <3>4. Op.kind = "apply" => ops'[Op.from].shown = doomed
      <4> SUFFICES ASSUME Op.kind = "apply" PROVE ops'[Op.from].shown = doomed
          OBVIOUS
      <4>1. Op.from \in Ops /\ Op.from # w.op
            BY <2>1 DEF WorkerInv, Op
      <4>2. ops[Op.from].shown = doomed
            BY <2>3 DEF SameSet
      <4> QED BY <1>0, <2>3, <4>1, <4>2
    <3>5. Op' = ops'[w.op]
          BY <3>1 DEF Op
    <3>6. /\ (\A n \in w.doomed : \E q \in Paths \ Archive : n = Node(q))'
          /\ Op'.mode # "clean" => w'.doomed = {}
          BY <3>1, <3>2, <3>3, <3>5 DEF Node
    <3> QED BY <3>1, <3>3, <3>4, <3>5, <3>6 DEF PlanInv, Planned
  <2> QED BY <1>2, <2>2, <2>3 DEF ReadInventory, InventoryOf
<1>3. CASE ~(Prepare \/ Apply \/ ReadInventory)
  <2>1. CASE w' = Idle
        BY <2>1 DEF Idle, PlanInv, Planned
  <2>2. CASE w' # Idle /\ w.pc # "idle"
    <3>1. w'.op = w.op /\ w'.doomed = w.doomed /\ w.op \in Ops
          BY <1>3, <2>2, PlanKept DEF WorkerInv
    <3>2. Planned' => Planned
      <4>1. w' # w => ~(Planned' /\ ~Planned)
            BY <1>3, <2>2, Origins, Moves, WorkerTypeStep DEF Planned, WorkerType
      <4> QED BY <4>1 DEF Planned
    <3>3. /\ Op'.mode = Op.mode /\ Op'.kind = Op.kind /\ Op'.from = Op.from
          /\ Op.kind = "apply" => ops'[Op.from].shown = ops[Op.from].shown
          BY <1>3, <2>2, <3>1, PlanKept DEF Op, WorkerInv
    <3>4. w'.pc = "delete" => w'.todo \subseteq w'.doomed
      <4> SUFFICES ASSUME w'.pc = "delete" PROVE w'.todo \subseteq w.doomed
          BY <3>1
      <4>1. CASE CrossBoundary
        <5>1. w' = [w EXCEPT !.pc = "delete", !.todo = w.doomed]
              BY <1>0, <4>1 DEF CrossBoundary, Goes, WorkerType, Idle
        <5> QED BY <1>0, <5>1 DEF WorkerType
      <4>2. CASE Delete
            BY <1>0, <4>2 DEF Delete, Goes, WorkerType, PlanInv, At
      <4>3. CASE ~(CrossBoundary \/ Delete)
        <5>1. w' = w
              BY <4>3, Origins
        <5> QED BY <5>1 DEF PlanInv
      <4> QED BY <4>1, <4>2, <4>3
    <3>5. w'.pc = "extract" => w'.todo \subseteq Archive
      <4> SUFFICES ASSUME w'.pc = "extract" PROVE w'.todo \subseteq Archive
          OBVIOUS
      <4>2. CASE Delete
            BY <1>0, <4>2 DEF Delete, Goes, WorkerType, At
      <4>3. CASE Extract
            BY <1>0, <4>3 DEF Extract, Goes, WorkerType, PlanInv, At, TarFailed
      <4>4. CASE ~(Delete \/ Extract)
        <5>1. w' = w
              BY <4>4, Origins
        <5> QED BY <5>1 DEF PlanInv
      <4> QED BY <4>2, <4>3, <4>4
    <3>6. (\A n \in w.doomed : \E q \in Paths \ Archive : n = Node(q))
            => (\A n \in w.doomed : \E q \in Paths \ Archive : n = Node(q))'
          BY <3>1 DEF Node
    <3> QED BY <2>2, <3>1, <3>2, <3>3, <3>4, <3>5, <3>6 DEF PlanInv
  <2>3. CASE w.pc = "idle"
    <3>1. w' = Idle \/ w' = w
          BY <1>3, <2>3 DEF Next, Work, Cancel, ReadExisting, PublishCopy, DropPrevious, NameCopy,
             Upload, CrossBoundary, Delete, Extract, Verify, Finish, Fail, ForeignEdit, Crash, Start, vars, At
    <3> QED BY <2>3, <3>1 DEF Idle, PlanInv, Planned
  <2> QED BY <2>1, <2>2, <2>3
<1> QED BY <1>1, <1>2, <1>3

LEMMA CopiesKept ==
    ASSUME TypeOK, [Next]_vars, ~(Prepare \/ Apply \/ PublishCopy \/ DropPrevious \/ NameCopy)
    PROVE  /\ copies' = copies
           /\ \A q \in Ops : ops'[q].kind = ops[q].kind /\ ops'[q].copy = ops[q].copy
           /\ w' = Idle \/ w'.op = w.op
<1>0. w \in WorkerType /\ ops \in [Ops -> OpType]
      BY DEF TypeOK
<1>1. CASE Cancel \/ ReadInventory
  <2>1. CASE Cancel
        BY <1>0, <2>1 DEF Cancel, OpType
  <2>2. CASE ReadInventory
    <3>1. w'.op = w.op /\ copies' = copies
          BY <1>0, <2>2 DEF ReadInventory, WorkerType, Goes, Stops
    <3>2. \A q \in Ops : ops'[q].kind = ops[q].kind /\ ops'[q].copy = ops[q].copy
      <4>1. ops' = ops \/ \E s \in SUBSET Nodes : ops' = [ops EXCEPT ![w.op].shown = s]
            BY <2>2 DEF ReadInventory
      <4>2. CASE ops' = ops
            BY <4>2
      <4>3. ASSUME NEW s \in SUBSET Nodes, ops' = [ops EXCEPT ![w.op].shown = s]
            PROVE  \A q \in Ops : ops'[q].kind = ops[q].kind /\ ops'[q].copy = ops[q].copy
            BY <1>0, <4>3 DEF OpType
      <4> QED BY <4>1, <4>2, <4>3
    <3> QED BY <3>1, <3>2
  <2> QED BY <1>1, <2>1, <2>2
<1>2. CASE CrossBoundary \/ Finish
  <2>1. \/ w' = Idle \/ w' = [w EXCEPT !.pc = "fail"]
        \/ w' = [w EXCEPT !.pc = "delete", !.todo = w.doomed]
        BY <1>2 DEF CrossBoundary, Finish, Goes, Stops
  <2>2. \/ UNCHANGED ops \/ ops' = [ops EXCEPT ![w.op].mutated = TRUE]
        \/ ops' = [ops EXCEPT ![w.op].status = "cancelled"]
        \/ ops' = [ops EXCEPT ![w.op].status = "completed"]
        BY <1>2 DEF CrossBoundary, Finish, Stops
  <2>3. w' = Idle \/ w'.op = w.op
        BY <1>0, <2>1 DEF WorkerType
  <2>4. \A q \in Ops : ops'[q].kind = ops[q].kind /\ ops'[q].copy = ops[q].copy
        BY <1>0, <2>2 DEF OpType
  <2>5. copies' = copies
        BY <1>2 DEF CrossBoundary, Finish, Stops
  <2> QED BY <2>3, <2>4, <2>5
<1>3. CASE Fail \/ Start
      BY <1>0, <1>3 DEF Fail, Start, OpType
<1>4. CASE ReadExisting \/ Upload \/ Verify
      BY <1>0, <1>4 DEF ReadExisting, Upload, Verify, WorkerType, Goes, Stops
<1>5. CASE Delete \/ Extract
      BY <1>0, <1>5 DEF Delete, Extract, WorkerType, Goes
<1>6. CASE ForeignEdit \/ Crash \/ UNCHANGED vars
      BY <1>6 DEF ForeignEdit, Crash, vars
<1> QED BY <1>1, <1>2, <1>3, <1>4, <1>5, <1>6 DEF Next, Work

LEMMA CopyStep ==
    ASSUME TypeOK, WorkerInv, PlanInv, CopyInv, [Next]_vars
    PROVE  CopyInv'
<1>0. w \in WorkerType /\ ops \in [Ops -> OpType] /\ copies \in [Ops -> CopyType]
      BY DEF TypeOK
<1>1. CASE Prepare \/ Apply
  <2> PICK o \in Ops, rec \in OpType : Registered(o, rec)
      BY <1>1, Registers
  <2>1. /\ \A q \in Ops : q # o => ops'[q] = ops[q]
        /\ ops'[o] = rec /\ rec.kind # "none" /\ rec.copy = 0 /\ copies' = copies
        BY <1>0 DEF Registered
  <2>2. Previous' = Previous
        BY <2>1 DEF Previous
  <2>3. \A q \in Ops : /\ ops'[q].kind = "none" => ops[q].kind = "none" /\ q # o
                       /\ ops'[q].copy # 0 => ops[q].copy # 0
        BY <2>1
  <2>4. \A q \in Ops : ops'[q].kind = "none" => ~copies'[q].there /\ ops'[q].copy = 0
        BY <2>1, <2>3 DEF CopyInv
  <2>5. NeverWithoutCopy'
        BY <2>1, <2>2, <2>3 DEF CopyInv, NeverWithoutCopy
  <2>6. CASE w.pc = "idle"
    <3>1. w'.pc = "inventory" /\ w'.op = o /\ ~copies[o].there
          BY <2>6 DEF Registered, Idle, CopyInv
    <3> QED BY <2>1, <2>4, <2>5, <3>1 DEF CopyInv
  <2>7. CASE w.pc # "idle"
    <3>1. w' = w
          BY <2>7 DEF Registered
    <3> QED BY <2>1, <2>2, <2>4, <2>5, <3>1 DEF CopyInv
  <2> QED BY <2>6, <2>7
<1>2. CASE PublishCopy
  <2>1. w.op \in Ops /\ w.pc = "copy" /\ ops' = ops /\ ~copies[w.op].there /\ Op.kind # "none"
        BY <1>2 DEF PublishCopy, At, WorkerInv, CopyInv
  <2>2. CASE Goes("fail") /\ UNCHANGED copies
    <3>1. w'.pc = "fail"
          BY <1>0, <2>2 DEF Goes, WorkerType
    <3> QED BY <2>1, <2>2, <3>1 DEF CopyInv, NeverWithoutCopy, Previous
  <2>3. CASE /\ w' = [w EXCEPT !.pc = "drop", !.old = Previous]
             /\ copies' = [copies EXCEPT ![w.op] = [there |-> TRUE, named |-> FALSE, has |-> Taken]]
    <3>1. w'.pc = "drop" /\ w'.op = w.op /\ w'.old = Previous
          BY <1>0, <2>3 DEF WorkerType
    <3>2. /\ copies'[w.op].there /\ ~copies'[w.op].named
          /\ \A q \in Ops : q # w.op => copies'[q] = copies[q]
          BY <1>0, <2>1, <2>3
    <3>3. Previous' = Previous
          BY <2>1, <3>2 DEF Previous
    <3>4. \A q \in Ops : ops'[q].kind = "none" => ~copies'[q].there /\ ops'[q].copy = 0
          BY <2>1, <3>2 DEF CopyInv, Op
    <3>5. NeverWithoutCopy'
          BY <2>1, <3>2, <3>3 DEF CopyInv, NeverWithoutCopy
    <3> QED BY <3>1, <3>2, <3>3, <3>4, <3>5 DEF CopyInv
  <2> QED BY <1>2, <2>2, <2>3 DEF PublishCopy
<1>3. CASE DropPrevious
  <2>1. /\ w.op \in Ops /\ w.pc = "drop" /\ ops' = ops /\ w.old = Previous
        /\ copies[w.op].there /\ ~copies[w.op].named
        BY <1>3 DEF DropPrevious, At, WorkerInv, CopyInv
  <2>2. CASE Goes("fail") /\ UNCHANGED copies
    <3>1. w'.pc = "fail"
          BY <1>0, <2>2 DEF Goes, WorkerType
    <3> QED BY <2>1, <2>2, <3>1 DEF CopyInv, NeverWithoutCopy, Previous
  <2>3. CASE w.old = {} /\ Goes("name") /\ UNCHANGED copies
    <3>1. w'.pc = "name" /\ w'.op = w.op
          BY <1>0, <2>3 DEF Goes, WorkerType
    <3> QED BY <2>1, <2>3, <3>1 DEF CopyInv, NeverWithoutCopy, Previous
  <2>4. CASE \E o \in w.old : /\ w' = [w EXCEPT !.old = @ \ {o}]
                              /\ copies' = [copies EXCEPT ![o].there = FALSE]
    <3> PICK o \in w.old : /\ w' = [w EXCEPT !.old = @ \ {o}]
                           /\ copies' = [copies EXCEPT ![o].there = FALSE]
        BY <2>4
    <3>1. w'.pc = "drop" /\ w'.op = w.op /\ w'.old = w.old \ {o}
          BY <1>0, <2>1 DEF WorkerType
    <3>2. o \in Ops /\ copies[o].there /\ copies[o].named /\ o # w.op
          BY <2>1 DEF Previous
    <3>3. /\ ~copies'[o].there
          /\ \A q \in Ops : q # o => copies'[q] = copies[q]
          BY <1>0, <3>2 DEF CopyType
    <3>4. Previous' = Previous \ {o}
          BY <3>2, <3>3 DEF Previous
    <3>5. \A q \in Ops : ops'[q].kind = "none" => ~copies'[q].there /\ ops'[q].copy = 0
          BY <2>1, <3>3 DEF CopyInv
    <3>6. copies'[w.op].there /\ ~copies'[w.op].named
          BY <2>1, <3>2, <3>3
    <3>7. NeverWithoutCopy'
          BY <2>1, <3>4, <3>6 DEF CopyInv, NeverWithoutCopy
    <3> QED BY <2>1, <3>1, <3>4, <3>5, <3>6, <3>7 DEF CopyInv
  <2> QED BY <1>3, <2>2, <2>3, <2>4 DEF DropPrevious
<1>4. CASE NameCopy
  <2>1. /\ w.op \in Ops /\ w.pc = "name" /\ Previous = {} /\ Op.kind # "none"
        /\ copies[w.op].there /\ ~copies[w.op].named
        BY <1>4 DEF NameCopy, At, WorkerInv, CopyInv
  <2>2. w'.pc \in {"upload", "finish", "fail"}
        BY <1>4, Moves
  <2>3. CASE UNCHANGED <<ops, copies>>
        BY <2>2, <2>3 DEF CopyInv, NeverWithoutCopy, Previous
  <2>4. CASE /\ ops' = [ops EXCEPT ![w.op].copy = w.op]
             /\ copies' = [copies EXCEPT ![w.op].named = TRUE]
    <3>1. \A q \in Ops : /\ ops'[q].kind = ops[q].kind
                         /\ q # w.op => ops'[q].copy = ops[q].copy
          BY <1>0, <2>1, <2>4 DEF OpType
    <3>2. \A q \in Ops : q # w.op => copies'[q] = copies[q]
          BY <1>0, <2>4
    <3>3. copies'[w.op] = [copies[w.op] EXCEPT !.named = TRUE]
          BY <1>0, <2>1, <2>4
    <3>4. copies'[w.op].there = copies[w.op].there
          BY <1>0, <2>1, <3>3 DEF CopyType
    <3>5. \A a \in Previous' : a = w.op
          BY <2>1, <3>2 DEF Previous
    <3>6. \A q \in Ops : ops'[q].kind = "none" => ~copies'[q].there /\ ops'[q].copy = 0
          BY <2>1, <3>1, <3>2 DEF CopyInv, Op
    <3>7. copies'[w.op].there
          BY <2>1, <3>4
    <3>8. NeverWithoutCopy'
          BY <2>1, <3>5, <3>7 DEF NeverWithoutCopy
    <3> QED BY <2>2, <3>6, <3>8 DEF CopyInv
  <2> QED BY <1>4, <2>3, <2>4 DEF NameCopy
<1>5. CASE ~(Prepare \/ Apply \/ PublishCopy \/ DropPrevious \/ NameCopy)
  <2>1. /\ copies' = copies
        /\ \A q \in Ops : ops'[q].kind = ops[q].kind /\ ops'[q].copy = ops[q].copy
        /\ w' = Idle \/ w'.op = w.op
        BY <1>5, CopiesKept
  <2>2. Previous' = Previous
        BY <2>1 DEF Previous
  <2>3. NeverWithoutCopy'
        BY <2>1, <2>2 DEF CopyInv, NeverWithoutCopy
  <2>4. \A q \in Ops : ops'[q].kind = "none" => ~copies'[q].there /\ ops'[q].copy = 0
        BY <2>1 DEF CopyInv
  <2>5. CASE w' = w
        BY <2>1, <2>2, <2>3, <2>4, <2>5 DEF CopyInv
  <2>6. CASE w' # w /\ w'.pc \in {"inventory", "exists", "copy"}
    <3>1. w.pc \in {"inventory", "exists"} /\ w'.op = w.op
          BY <1>5, <2>1, <2>6, Origins, Moves DEF Idle
    <3> QED BY <2>1, <2>3, <2>4, <2>6, <3>1 DEF CopyInv
  <2>7. CASE w' # w /\ w'.pc \notin {"inventory", "exists", "copy"}
    <3>1. w'.pc \notin {"drop", "name"}
          BY <1>5, <2>7, Origins
    <3> QED BY <2>3, <2>4, <2>7, <3>1 DEF CopyInv
  <2> QED BY <2>5, <2>6, <2>7
<1> QED BY <1>1, <1>2, <1>3, <1>4, <1>5

\* What a request leaves alone: the worker that is there and its operation.
LEMMA RequestKeeps ==
    ASSUME TypeOK, WorkerInv, Prepare \/ Apply
    PROVE  \/ w'.pc = "inventory"
           \/ /\ w.op \in Ops /\ ops'[w.op] = Op /\ w.pc # "idle"
              /\ UNCHANGED <<w, target, copies, touched>>
<1> PICK o \in Ops, rec \in OpType : Registered(o, rec)
    BY Registers
<1>1. CASE w.pc = "idle"
      BY <1>1 DEF Registered, Idle
<1>2. CASE w.pc # "idle"
      BY <1>2 DEF Registered, TypeOK, WorkerInv, Op
<1> QED BY <1>1, <1>2

LEMMA HeldStep ==
    ASSUME TypeOK, WorkerInv, PlanInv, CopyInv, HeldInv, [Next]_vars
    PROVE  HeldInv'
<1>0. w \in WorkerType /\ copies \in [Ops -> CopyType] /\ target \in [Paths -> Content]
      BY DEF TypeOK
<1>1. CASE Prepare \/ Apply
  <2>1. CASE w'.pc = "inventory"
        BY <2>1 DEF HeldInv
  <2>2. CASE w'.pc # "inventory"
        BY <1>1, <2>2, RequestKeeps DEF HeldInv, Held, Op
  <2> QED BY <2>1, <2>2
<1>2. CASE w' = Idle
      BY <1>2 DEF HeldInv, Idle
<1>3. CASE w'.pc = "fail"
      BY <1>3 DEF HeldInv
<1> SUFFICES ASSUME ~(Prepare \/ Apply \/ ReadInventory), w' # Idle, w'.pc # "fail", w'.pc # "idle"
             PROVE  HeldInv'
  <2>1. CASE ReadInventory
        BY <2>1, Moves DEF HeldInv
  <2> QED BY <1>1, <1>2, <1>3, <2>1 DEF HeldInv
<1>4. w'.op = w.op
      BY PlanKept
<1>5. w.pc # "idle"
  <2>1. w.pc = "idle" => w' = w
        BY Moves DEF Next, Work, Cancel, ForeignEdit, Crash, Start, vars
  <2> QED BY <2>1
<1>6. w.op \in Ops /\ Op'.protective = Op.protective /\ Op'.mode = Op.mode /\ Op'.kind = Op.kind
      BY <1>4, <1>5, PlanKept DEF WorkerInv, Op
<1> SUFFICES ASSUME Op.protective
             PROVE  HeldInv'
    BY <1>6 DEF HeldInv
<1>16. ~ReadExisting => w'.overlooked = w.overlooked
  <2> SUFFICES ASSUME ~ReadExisting PROVE w'.overlooked = w.overlooked
      OBVIOUS
  <2>1. CASE PublishCopy \/ DropPrevious \/ NameCopy \/ Upload \/ CrossBoundary
        BY <1>0, <2>1 DEF PublishCopy, DropPrevious, NameCopy, Upload, CrossBoundary, Stops, Goes, WorkerType
  <2>2. CASE Delete \/ Extract \/ Verify \/ Finish \/ Fail
        BY <1>0, <2>2 DEF Delete, Extract, Verify, Finish, Fail, Stops, Goes, WorkerType
  <2>3. CASE Cancel \/ ForeignEdit \/ Crash \/ Start \/ UNCHANGED vars
        BY <2>3 DEF Cancel, ForeignEdit, Crash, Start, vars
  <2> QED BY <2>1, <2>2, <2>3 DEF Next, Work
<1>7. ASSUME ~ReadExisting, touched \subseteq touched',
             copies'[w.op].there = copies[w.op].there, copies'[w.op].has = copies[w.op].has,
             \A p \in Paths : target'[p] = target[p] \/ target'[p] = "none" \/ p \in touched'
      PROVE  \A p \in Paths : Held(p) => Held(p)'
      BY <1>4, <1>7, <1>16 DEF Held
<1>8. CASE ReadExisting
  <2>1. w.pc = "exists" /\ UNCHANGED <<target, touched, copies>>
        BY <1>8 DEF ReadExisting, At
  <2>2. PICK saved \in SUBSET There :
          w' = [w EXCEPT !.pc = IF saved # {} THEN "copy" ELSE AfterCopy,
                         !.saved = saved, !.overlooked = There \ saved]
        BY <1>0, <1>8 DEF ReadExisting, Goes, WorkerType
  <2>3. \A p \in Paths : Top[p] \in Reached(Op.mode) /\ target[p] # "none" => Top[p] \in There
        BY DEF Present, There
  <2>4. /\ w'.saved = saved /\ w'.overlooked = There \ saved
        /\ w'.pc = IF saved # {} THEN "copy" ELSE AfterCopy
        BY <1>0, <2>2 DEF WorkerType
  <2>5. CASE saved # {}
    <3>1. w'.pc = "copy"
          BY <2>4, <2>5
    <3> QED BY <1>6, <2>1, <2>3, <2>4, <3>1 DEF HeldInv, Reached
  <2>6. CASE saved = {}
    <3>1. w'.pc \in {"upload", "finish"}
          BY <2>4, <2>6 DEF AfterCopy
    <3>2. \A p \in Paths : Top[p] \in Reached(Op.mode) => Held(p)'
          BY <2>1, <2>3, <2>4, <2>6 DEF Held
    <3>3. Reached(Op.mode)' = Reached(Op.mode)
          BY <1>6 DEF Reached
    <3> QED BY <3>1, <3>2, <3>3 DEF HeldInv
  <2> QED BY <2>5, <2>6
<1>9. CASE PublishCopy
  <2>1. /\ w.pc = "copy" /\ UNCHANGED <<target, touched>>
        /\ w' = [w EXCEPT !.pc = "drop", !.old = Previous]
        /\ copies' = [copies EXCEPT ![w.op] = [there |-> TRUE, named |-> FALSE, has |-> Taken]]
        BY <1>0, <1>9 DEF PublishCopy, At, Goes, WorkerType
  <2>2. w'.pc = "drop" /\ copies'[w.op].there /\ copies'[w.op].has = Taken
        BY <1>0, <1>6, <2>1 DEF WorkerType
  <2>3. ASSUME NEW p \in Paths, Top[p] \in Reached(Op.mode)
        PROVE  Held(p)'
    <3>1. p \in touched \/ target[p] = "none" \/ Top[p] \in w.saved \cup w.overlooked
          BY <1>5, <2>1, <2>3 DEF HeldInv
    <3>2. Top[p] \in w.saved => Taken[p] = target[p]
          BY DEF Taken
    <3>3. w'.overlooked = w.overlooked
          BY <1>0, <2>1 DEF WorkerType
    <3> QED BY <1>4, <2>1, <2>2, <3>1, <3>2, <3>3 DEF Held
  <2>4. Op'.mode = Op.mode
        BY <1>6
  <2>5. Reached(Op.mode)' = Reached(Op.mode)
        BY <2>4 DEF Reached
  <2> QED BY <2>2, <2>3, <2>5 DEF HeldInv
<1>10. CASE DropPrevious \/ NameCopy \/ Upload \/ CrossBoundary
  <2>1. /\ UNCHANGED <<target, touched>>
        /\ w.pc \in {"drop", "name", "upload", "boundary"}
        /\ w'.pc \in {"drop", "name", "upload", "boundary", "delete", "finish"}
    <3>1. UNCHANGED <<target, touched>>
          BY <1>10 DEF DropPrevious, NameCopy, Upload, CrossBoundary, Stops
    <3> QED BY <1>10, <3>1, Moves, WorkerTypeStep DEF WorkerType, Idle
  <2>2. copies'[w.op].there = copies[w.op].there /\ copies'[w.op].has = copies[w.op].has
    <3>1. CASE DropPrevious
      <4>1. \A o \in w.old : o # w.op /\ o \in Ops
            BY <3>1 DEF DropPrevious, At, CopyInv, Previous
      <4> QED BY <1>0, <1>6, <3>1, <4>1 DEF DropPrevious, CopyType
    <3>2. CASE NameCopy
          BY <1>0, <1>6, <3>2 DEF NameCopy, CopyType
    <3>3. CASE Upload \/ CrossBoundary
          BY <3>3 DEF Upload, CrossBoundary, Stops
    <3> QED BY <1>10, <3>1, <3>2, <3>3
  <2>3. \A p \in Paths : Held(p) => Held(p)'
        BY <1>7, <1>10, <2>1, <2>2, Moves
  <2>4. \A p \in Paths : Top[p] \in Reached(Op.mode) => Held(p)
        BY <1>5, <2>1 DEF HeldInv
  <2>5. Reached(Op.mode)' = Reached(Op.mode)
        BY <1>6 DEF Reached
  <2> QED BY <2>1, <2>3, <2>4, <2>5 DEF HeldInv
<1>11. CASE Delete
  <2>1. w.pc = "delete" /\ UNCHANGED <<copies, touched>>
        BY <1>11 DEF Delete, At
  <2>2. \A p \in Paths : target'[p] = target[p] \/ target'[p] = "none"
        BY <1>11 DEF Delete, Removed
  <2>3. \A p \in Paths : Held(p) => Held(p)'
        BY <1>7, <1>11, <2>1, <2>2, Moves
  <2>4. \A p \in Paths : Top[p] \in Reached(Op.mode) => Held(p)
        BY <1>5, <2>1 DEF HeldInv
  <2>5. Reached(Op.mode)' = Reached(Op.mode)
        BY <1>6 DEF Reached
  <2>6. CASE w'.pc = "delete"
        BY <2>3, <2>4, <2>5, <2>6 DEF HeldInv
  <2>7. CASE w'.pc = "extract"
    <3>1. w'.todo = Archive
          BY <1>0, <1>11, <2>1, <2>7 DEF Delete, Goes, WorkerType
    <3>2. \A p \in Archive : p \in Paths /\ Top[p] \in Reached(Op.mode)
          BY RestoreAssumption DEF Reached
    <3> QED BY <2>3, <2>4, <2>7, <3>1, <3>2 DEF HeldInv
  <2> QED BY <1>11, <2>6, <2>7, Moves
<1>12. CASE Extract
  <2>1. w.pc = "extract" /\ UNCHANGED <<copies, touched>>
        BY <1>12 DEF Extract, At
  <2>2. CASE w'.pc = "verify"
        BY <2>2 DEF HeldInv
  <2>3. CASE w'.pc = "extract"
    <3>1. PICK p \in w.todo : /\ target' = target \/ target' = Written({p})
                              /\ w'.todo = w.todo \ {p}
          BY <1>0, <1>12, <2>1, <2>3 DEF Extract, Goes, WorkerType, TarFailed
    <3>2. \A q \in w.todo : q \in Paths /\ Held(q)
          BY <1>5, <2>1, RestoreAssumption DEF HeldInv, PlanInv
    <3>3. \A q \in w'.todo : target'[q] = target[q]
          BY <3>1, <3>2 DEF Written
    <3>4. \A q \in w'.todo : Held(q)'
          BY <1>4, <1>12, <1>16, <2>1, <3>1, <3>2, <3>3, Moves DEF Held
    <3> QED BY <2>3, <3>4 DEF HeldInv
  <2> QED BY <1>12, <2>2, <2>3, Moves
<1>13. CASE Verify \/ Finish \/ Fail
  <2>1. w'.pc \in {"idle", "finish", "fail"}
        BY <1>13, Moves
  <2> QED BY <2>1 DEF HeldInv
<1>14. CASE Cancel \/ ForeignEdit \/ Start \/ UNCHANGED vars
  <2>1. w' = w /\ copies' = copies /\ touched \subseteq touched'
        BY <1>14 DEF Cancel, ForeignEdit, Start, vars
  <2>2. \A p \in Paths : target'[p] = target[p] \/ p \in touched'
        BY <1>0, <1>14 DEF Cancel, ForeignEdit, Start, vars
  <2>3. \A p \in Paths : Held(p) => Held(p)'
    <3>1. w' = w /\ copies' = copies
          BY <2>1
    <3> QED BY <1>4, <2>1, <2>2, <3>1 DEF Held
  <2>4. Reached(Op.mode)' = Reached(Op.mode)
        BY <1>6 DEF Reached
  <2>5. w.pc = "extract" => w.todo \subseteq Paths
        BY RestoreAssumption DEF PlanInv
  <2> QED BY <1>5, <2>1, <2>2, <2>3, <2>4, <2>5 DEF HeldInv
<1>15. CASE Crash
      BY <1>15 DEF Crash
<1> QED BY <1>8, <1>9, <1>10, <1>11, <1>12, <1>13, <1>14, <1>15 DEF Next, Work

\* What is deleted is not of the archive.
LEMMA DoomedApart ==
    ASSUME PlanInv, Planned, NEW p \in Archive
    PROVE  Node(p) \notin w.doomed
<1>1. SUFFICES ASSUME Node(p) \in w.doomed PROVE FALSE
      OBVIOUS
<1>2. PICK q \in Paths \ Archive : Node(p) = Node(q)
      BY <1>1 DEF PlanInv
<1>3. p \in Paths /\ Node(p) = p
      BY RestoreAssumption DEF Node
<1>4. Node(q) = q \/ Node(q) = Top[q]
      BY DEF Node
<1>5. CASE Node(q) = q
      BY <1>2, <1>3, <1>5
<1>6. CASE Top[q] = p
      BY <1>2, <1>3, <1>6, RestoreAssumption
<1> QED BY <1>2, <1>3, <1>4, <1>5, <1>6

LEMMA DoneStep ==
    ASSUME TypeOK, WorkerInv, PlanInv, DoneInv, [Next]_vars
    PROVE  DoneInv'
<1>0. w \in WorkerType /\ target \in [Paths -> Content]
      BY DEF TypeOK
<1>1. CASE w'.pc \notin {"delete", "extract", "verify", "finish"}
      BY <1>1 DEF DoneInv, Applying, Changing
<1>2. CASE Prepare \/ Apply
  <2>1. CASE w'.pc = "inventory"
        BY <2>1, <1>1
  <2>2. CASE w'.pc # "inventory"
    <3>1. /\ w.op \in Ops /\ ops'[w.op] = Op /\ UNCHANGED <<w, target, touched>>
          BY <1>2, <2>2, RequestKeeps
    <3>2. Applying' => Applying
          BY <3>1 DEF Applying, Changing, Op
    <3>3. \A p \in Paths : Node(p)' = Node(p)
          BY DEF Node
    <3> QED BY <3>1, <3>2 DEF DoneInv, Node
  <2> QED BY <2>1, <2>2
<1> SUFFICES ASSUME ~(Prepare \/ Apply), w'.pc \in {"delete", "extract", "verify", "finish"}
             PROVE  DoneInv'
    BY <1>1, <1>2
<1>3. ~ReadInventory
      BY Moves
<1>4. w'.op = w.op /\ w'.doomed = w.doomed
      BY <1>3, PlanKept DEF Idle
<1>5. w.pc # "idle" /\ w.op \in Ops /\ Op'.kind = Op.kind
  <2>1. w.pc = "idle" => w' = w \/ w' = Idle
        BY <1>3, Moves DEF Next, Work, Cancel, ForeignEdit, Crash, Start, vars
  <2>2. w.pc # "idle"
        BY <2>1 DEF Idle
  <2>3. w.op \in Ops
        BY <2>2 DEF WorkerInv
  <2>4. \A q \in Ops : ops'[q].kind = ops[q].kind
        BY <1>3, PlanKept
  <2> QED BY <1>4, <2>2, <2>3, <2>4 DEF Op
<1>6. CASE CrossBoundary
  <2>1. w' = [w EXCEPT !.pc = "delete", !.todo = w.doomed]
    <3>1. [w EXCEPT !.pc = "fail"].pc = "fail" /\ Idle.pc = "idle"
          BY <1>0 DEF WorkerType, Idle
    <3> QED BY <1>6, <3>1 DEF CrossBoundary, Goes
  <2>2. w'.pc = "delete" /\ w'.todo = w.doomed
        BY <1>0, <2>1 DEF WorkerType
  <2> QED BY <1>4, <2>2 DEF DoneInv, Node
<1>7. CASE Delete
  <2>1. w.pc = "delete" /\ touched' = touched
        BY <1>7 DEF Delete, At
  <2>2. CASE w'.pc = "delete"
    <3>1. PICK node \in w.todo : target' = Removed(node) /\ w' = [w EXCEPT !.todo = @ \ {node}]
          BY <1>0, <1>7, <2>1, <2>2 DEF Delete, Goes, WorkerType
    <3>2. w'.todo = w.todo \ {node}
          BY <1>0, <3>1 DEF WorkerType
    <3>3. ASSUME NEW p \in Paths \ touched, Node(p) \in w.doomed \ w'.todo
          PROVE  target'[p] = "none"
      <4>1. CASE Node(p) = node
            BY <3>1, <4>1 DEF Node, Removed
      <4>2. CASE Node(p) # node
        <5>1. target[p] = "none"
              BY <2>1, <3>2, <3>3, <4>2 DEF DoneInv
        <5> QED BY <3>1, <5>1 DEF Removed
      <4> QED BY <4>1, <4>2
    <3> QED BY <1>4, <2>1, <2>2, <3>3 DEF DoneInv, Node
  <2>3. CASE w'.pc = "extract"
    <3>1. w.todo = {} /\ target' = target /\ w'.todo = Archive
          BY <1>0, <1>7, <2>1, <2>3 DEF Delete, Goes, WorkerType
    <3>2. \A p \in Paths \ touched : Node(p) \in w.doomed => target'[p] = "none"
          BY <2>1, <3>1 DEF DoneInv
    <3> QED BY <1>4, <2>1, <2>3, <3>1, <3>2 DEF DoneInv, Node
  <2> QED BY <1>7, <2>2, <2>3, Moves
<1>8. CASE Extract
  <2>1. w.pc = "extract" /\ touched' = touched /\ Applying
        BY <1>8 DEF Extract, At, Applying, Changing
  <2>2. \A p \in Paths \ touched : Node(p) \in w.doomed => target[p] = "none" /\ p \notin Archive
        BY <2>1, DoomedApart DEF DoneInv, Planned
  <2>3. CASE w'.pc = "extract"
    <3>1. PICK p \in w.todo :
            \/ target' = Written({p}) /\ w' = [w EXCEPT !.todo = @ \ {p}]
            \/ target' = target /\ w' = [w EXCEPT !.todo = @ \ {p}, !.skipped = @ \cup {p}]
          BY <1>0, <1>8, <2>1, <2>3 DEF Extract, Goes, WorkerType, TarFailed
    <3>2. \/ target' = Written({p}) /\ w'.todo = w.todo \ {p} /\ w'.skipped = w.skipped
          \/ target' = target /\ w'.todo = w.todo \ {p} /\ w'.skipped = w.skipped \cup {p}
          BY <1>0, <3>1 DEF WorkerType
    <3>3. w.todo \subseteq Archive /\ Archive \subseteq Paths
          BY <2>1, RestoreAssumption DEF PlanInv
    <3>4. \A q \in Paths \ touched : Node(q) \in w.doomed => target'[q] = "none"
          BY <2>2, <3>2, <3>3 DEF Written
    <3>5. \A q \in Archive \ (w.todo \cup w.skipped \cup touched) : target[q] = "archived"
          BY <2>1 DEF DoneInv
    <3>6. \A q \in Archive \ (w'.todo \cup w'.skipped \cup touched) : target'[q] = "archived"
          BY <3>2, <3>3, <3>5 DEF Written
    <3> QED BY <1>4, <2>1, <2>3, <3>4, <3>6 DEF DoneInv, Node
  <2>4. CASE w'.pc = "verify"
    <3>1. w.todo = {} /\ target' = target /\ w'.skipped = w.skipped
          BY <1>0, <1>8, <2>1, <2>4 DEF Extract, Goes, WorkerType, TarFailed
    <3>2. \A p \in Archive \ (w.skipped \cup touched) : target'[p] = "archived"
          BY <2>1, <3>1 DEF DoneInv
    <3> QED BY <1>4, <2>1, <2>2, <2>4, <3>1, <3>2 DEF DoneInv, Node
  <2> QED BY <1>8, <2>3, <2>4, Moves
<1>9. CASE Verify
  <2>1. w'.pc = "finish" /\ w.pc = "verify" /\ UNCHANGED <<target, touched>>
        BY <1>9, Moves DEF Verify, Stops
  <2>2. w'.skipped = w.skipped
        BY <1>0, <1>9 DEF Verify, Goes, Stops, WorkerType
  <2> QED BY <1>4, <2>1, <2>2 DEF DoneInv, Node, Applying, Changing
<1>10. CASE ReadExisting \/ NameCopy
  <2>1. w'.pc = "finish" /\ Op.kind = "prepare"
    <3>1. w'.pc = "finish"
          BY <1>10, Moves
    <3>2. CASE ReadExisting
      <4>1. w'.pc \in {"copy", "fail", AfterCopy}
            BY <1>0, <3>2 DEF ReadExisting, Goes, WorkerType
      <4> QED BY <3>1, <4>1 DEF AfterCopy
    <3>3. CASE NameCopy
          BY <1>0, <3>1, <3>3 DEF NameCopy, Goes, AfterCopy, WorkerType
    <3> QED BY <1>10, <3>1, <3>2, <3>3
  <2>2. ~Applying'
        BY <1>5, <2>1 DEF Applying, Changing
  <2> QED BY <2>1, <2>2 DEF DoneInv
<1>11. CASE PublishCopy \/ DropPrevious \/ Upload \/ Finish \/ Fail
      BY <1>11, Moves
<1>12. CASE Cancel \/ ForeignEdit \/ Start \/ UNCHANGED vars
  <2>1. w' = w /\ touched \subseteq touched'
        BY <1>12 DEF Cancel, ForeignEdit, Start, vars
  <2>2. \A p \in Paths : target'[p] = target[p] \/ p \in touched'
        BY <1>0, <1>12 DEF Cancel, ForeignEdit, Start, vars
  <2>3. Applying' => Applying
        BY <1>5, <2>1 DEF Applying, Changing
  <2>4. Archive \subseteq Paths
        BY RestoreAssumption
  <2> QED BY <2>1, <2>2, <2>3, <2>4 DEF DoneInv, Node
<1>13. CASE Crash
      BY <1>13 DEF Crash, Idle
<1> QED BY <1>3, <1>6, <1>7, <1>8, <1>9, <1>10, <1>11, <1>12, <1>13 DEF Next, Work

-----------------------------------------------------------------------------
(* The theorems.                                                            *)

LEMMA Invariant == Spec => []Inv
<1>1. Inv /\ [Next]_vars => Inv'
      BY TypeStep, WorkerStep, PlanStep, CopyStep, HeldStep, DoneStep DEF Inv
<1> QED BY <1>1, InitInv, PTL DEF Spec

\* Every variable keeps its type.
THEOREM TypeCorrect == Spec => []TypeOK
BY Invariant, PTL DEF Inv

\* Once a protective copy was published, some copy is there at any time, and
\* at most one carries the protective name.
THEOREM AlwaysACopy == Spec => []NeverWithoutCopy
<1>1. Inv => NeverWithoutCopy
      BY DEF Inv, CopyInv
<1> QED BY <1>1, Invariant, PTL

\* A restore changes the server in one of three steps of its worker.
LEMMA OurSteps ==
    ASSUME Inv, [Next]_vars, NEW p \in Paths, Ours(p)
    PROVE  \/ /\ w.pc = "delete" /\ target'[p] = "none"
              /\ \E node \in w.todo : p = node \/ Top[p] = node
           \/ w.pc = "extract" /\ target'[p] = "archived" /\ p \in w.todo
<1>1. CASE Delete
      BY <1>1 DEF Delete, At, Removed, Ours, Inv, TypeOK
<1>2. CASE Extract
      BY <1>2 DEF Extract, At, Written, Ours, Inv, TypeOK
<1>3. CASE Crash
      BY <1>3 DEF Crash, Removed, Written, Ours, Inv, TypeOK
<1>4. CASE \/ Prepare \/ Apply \/ Cancel \/ ReadInventory \/ ReadExisting \/ PublishCopy
           \/ DropPrevious \/ NameCopy \/ Upload \/ CrossBoundary \/ Verify \/ Finish \/ Fail
           \/ Start \/ UNCHANGED vars
      BY <1>4 DEF Prepare, Apply, Cancel, ReadInventory, ReadExisting, PublishCopy, DropPrevious,
         NameCopy, Upload, CrossBoundary, Verify, Finish, Fail, Start, vars, Stops, Register, Ours
<1>5. CASE ForeignEdit
      BY <1>5 DEF ForeignEdit, Ours, Inv, TypeOK
<1> QED BY <1>1, <1>2, <1>3, <1>4, <1>5 DEF Next, Work

\* A restore whose cancellation was accepted changes nothing, and one that
\* changes something has said so in its record before.
THEOREM NothingBeforeTheBoundary == Spec => BoundaryFirst
<1>1. Inv /\ [Next]_vars => \A p \in Paths : Ours(p) => Op.mutated /\ ~Op.cancel
  <2> SUFFICES ASSUME Inv, [Next]_vars, NEW p \in Paths, Ours(p)
               PROVE  Op.mutated /\ ~Op.cancel
      OBVIOUS
  <2> QED BY OurSteps DEF Inv, WorkerInv, Changing
<1> QED BY <1>1, Invariant, PTL DEF BoundaryFirst, Spec

\* A path that is removed with a planned object is of that object.
LEMMA OnlyItsOwn ==
    ASSUME Inv, w.pc = "delete", NEW p \in Paths, NEW node \in w.todo, p = node \/ Top[p] = node
    PROVE  Node(p) = node
<1>1. node \in w.doomed
      BY DEF Inv, PlanInv
<1>2. PICK q \in Paths \ Archive : node = Node(q)
      BY <1>1 DEF Inv, PlanInv, Planned
<1>3. CASE \E a \in Archive : Top[a] = Top[q]
  <2>1. node = q
        BY <1>2, <1>3 DEF Node
  <2>2. p = q
        BY <2>1, RestoreAssumption
  <2> QED BY <1>2, <2>2
<1>4. CASE ~\E a \in Archive : Top[a] = Top[q]
  <2>1. node = Top[q]
        BY <1>2, <1>4 DEF Node
  <2>2. Top[p] = Top[q]
        BY <2>1, RestoreAssumption
  <2> QED BY <1>4, <2>1, <2>2 DEF Node
<1> QED BY <1>3, <1>4

\* An application deletes no object its preparation did not show.
THEOREM OnlyWhatWasShown == Spec => DeletesOnlyShown
<1>1. Inv /\ [Next]_vars =>
        \A p \in Paths : Ours(p) /\ target'[p] = "none" => Node(p) \in ops[Op.from].shown
  <2> SUFFICES ASSUME Inv, [Next]_vars, NEW p \in Paths, Ours(p), target'[p] = "none"
               PROVE  Node(p) \in ops[Op.from].shown
      OBVIOUS
  <2>1. w.pc = "delete" /\ \E node \in w.todo : p = node \/ Top[p] = node
        BY OurSteps
  <2>2. Node(p) \in w.doomed
        BY <2>1, OnlyItsOwn DEF Inv, PlanInv
  <2> QED BY <2>1, <2>2 DEF Inv, PlanInv, Planned, WorkerInv, Changing
<1> QED BY <1>1, Invariant, PTL DEF DeletesOnlyShown, Spec

\* What a restore with a protective copy replaces or deletes is in that copy,
\* unless others changed it after the server was read or the test for its object
\* failed.
THEOREM CopiedBeforeItIsLost == Spec => CopyBeforeLoss
<1>1. Inv /\ [Next]_vars =>
        \A p \in Paths :
          Ours(p) /\ target[p] # "none" /\ Op.protective =>
            \/ p \in touched \/ Top[p] \in w.overlooked
            \/ copies[w.op].there /\ copies[w.op].has[p] = target[p]
  <2> SUFFICES ASSUME Inv, [Next]_vars, NEW p \in Paths, Ours(p), target[p] # "none", Op.protective
               PROVE  Held(p)
      BY DEF Held
  <2>1. CASE w.pc = "extract" /\ p \in w.todo
        BY <2>1 DEF Inv, HeldInv
  <2>2. CASE w.pc = "delete" /\ \E node \in w.todo : p = node \/ Top[p] = node
    <3>1. w.doomed # {}
          BY <2>2 DEF Inv, PlanInv
    <3>2. Op.mode = "clean"
          BY <2>2, <3>1 DEF Inv, PlanInv, Planned
    <3>3. Top[p] \in Reached(Op.mode)
          BY <3>2, RestoreAssumption DEF Reached
    <3> QED BY <2>2, <3>3 DEF Inv, HeldInv
  <2> QED BY <2>1, <2>2, OurSteps
<1> QED BY <1>1, Invariant, PTL DEF CopyBeforeLoss, Spec

\* A restore reported as applied has replaced and removed everything.
THEOREM AppliedMeansApplied == Spec => AppliedIsApplied
<1> DEFINE A == \A o \in Ops :
       ops[o].kind = "apply" /\ ops[o].status = "running" /\ ops'[o].status = "completed" =>
         /\ \A p \in Archive \ (w.skipped \cup touched) : target[p] = "archived"
         /\ \A p \in Paths \ touched : Node(p) \in ops[ops[o].from].shown => target[p] = "none"
<1>1. Inv /\ [Next]_vars => A
  <2> SUFFICES ASSUME Inv, [Next]_vars, NEW o \in Ops, ops[o].kind = "apply",
                      ops[o].status = "running", ops'[o].status = "completed"
               PROVE  /\ \A p \in Archive \ (w.skipped \cup touched) : target[p] = "archived"
                      /\ \A p \in Paths \ touched : Node(p) \in ops[ops[o].from].shown => target[p] = "none"
      OBVIOUS
  <2>1. Finish /\ o = w.op
    <3>0. ops \in [Ops -> OpType]
          BY DEF Inv, TypeOK
    <3>1. CASE Prepare \/ Apply
      <4> PICK q \in Ops, rec \in OpType : Registered(q, rec)
          BY <3>1, Registers DEF Inv
      <4>1. o # q
            BY DEF Registered
      <4>2. ops'[o] = ops[o]
            BY <3>0, <4>1 DEF Registered
      <4> QED BY <4>2
    <3>2. CASE Finish
          BY <3>0, <3>2 DEF Finish, Stops
    <3>3. CASE Fail \/ Start
          BY <3>0, <3>3 DEF Fail, Start, OpType
    <3>4. CASE Cancel \/ ReadInventory
      <4>1. \A q \in Ops : ops'[q].status = ops[q].status
        <5>1. CASE Cancel
              BY <3>0, <5>1 DEF Cancel, OpType
        <5>2. CASE ReadInventory
              BY <3>0, <5>2 DEF ReadInventory, OpType, Stops
        <5> QED BY <3>4, <5>1, <5>2
      <4> QED BY <4>1
    <3>5. CASE NameCopy \/ CrossBoundary
      <4>1. \/ UNCHANGED ops \/ ops' = [ops EXCEPT ![w.op].mutated = TRUE]
            \/ ops' = [ops EXCEPT ![w.op].status = "cancelled"]
            \/ ops' = [ops EXCEPT ![w.op].copy = w.op]
            BY <3>5 DEF NameCopy, CrossBoundary
      <4>2. \A q \in Ops : ops'[q].status = ops[q].status \/ ops'[q].status = "cancelled"
            BY <3>0, <4>1 DEF OpType
      <4> QED BY <4>2
    <3>6. CASE \/ ReadExisting \/ PublishCopy \/ DropPrevious \/ Upload \/ Delete \/ Extract
               \/ Verify \/ ForeignEdit \/ Crash \/ UNCHANGED vars
      <4>1. ops' = ops
            BY <3>6 DEF ReadExisting, PublishCopy, DropPrevious, Upload, Delete, Extract, Verify,
               ForeignEdit, Crash, Stops, vars
      <4> QED BY <4>1
    <3> QED BY <3>1, <3>2, <3>3, <3>4, <3>5, <3>6 DEF Next, Work
  <2>2. w.pc = "finish" /\ Applying /\ Planned /\ Op = ops[o]
        BY <2>1 DEF Finish, At, Applying, Planned, Op
  <2>3. ops[Op.from].shown = w.doomed
        BY <2>2 DEF Inv, PlanInv
  <2> QED BY <2>2, <2>3 DEF Inv, DoneInv
<1> QED BY <1>1, Invariant, PTL DEF AppliedIsApplied, Spec
=============================================================================
