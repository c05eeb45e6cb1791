----------------------------- MODULE SelfUpdate -----------------------------
(***************************************************************************)
(* Self-update of the panel (core/update): the panel starts a runner in a   *)
(* process of its own (updater.py), the runner backs up, swaps and, on any  *)
(* failure, restores the code (runner.py), and the panel that starts again  *)
(* settles what data/update/state.json says.  The two processes share that  *)
(* file with no lock; one write_state call is one step.  A rollback is the  *)
(* same run with another target, so "new" stands for the target version.    *)
(***************************************************************************)
EXTENDS Integers, FiniteSets

CONSTANTS Clicks,        \* requests to install, at most one runner each
          NPaths,        \* length of CODE_PATHS
          Core,          \* the position of "core", which holds version.py
          OldHas, NewHas, \* the paths each version ships
          OlderPrev,     \* an earlier update left previous_version behind
          MaxReboots, MaxCrashes \* bounds

Paths == 1..NPaths
NoOne == "none"

ASSUME PathsAssumption ==
  /\ NPaths \in Nat \ {0} /\ Core \in OldHas \cap NewHas
  /\ OldHas \subseteq Paths /\ NewHas \subseteq Paths
ASSUME ParamAssumption ==
  /\ OlderPrev \in BOOLEAN /\ MaxReboots \in Nat /\ MaxCrashes \in Nat
  /\ Clicks \cap {NoOne, "asked"} = {}

VARIABLES
  app,     \* the code on disk, path by path
  bak,     \* the backup directory of each run; made: it exists
  made,
  st,      \* state.json: status, action, audit_op and previous_version
  run,     \* the runner of each click: place, path index or streak, restore source
  panel,   \* version the running panel was started from, or "down"
  ask,     \* progress of start_install inside the panel
  check,   \* a check_for_update is waiting for the network
  told,    \* how often each outcome was announced through notify_event
  final,   \* the closing audit entry of each operation
  mishap,  \* history: the disturbances that happened
  reboots, crashes

vars == <<app, bak, made, st, run, panel, ask, check, told, final, mishap, reboots, crashes>>
bounds == <<reboots, crashes>>

OldCode == [p \in Paths |-> IF p \in OldHas THEN "old" ELSE NoOne]
NewCode == [p \in Paths |-> IF p \in NewHas THEN "new" ELSE NoOne]

Busy == {"checking", "downloading", "installing", "rolling_back"}
InRepair == {"restore", "note", "rrestart", "rhealth"}
Forward == {"start", "fetch", "record", "mkdir", "backup", "swap", "pip",
            "restart", "health"}
Ended == {"done", "failed", "killed"}
Alive(c) == run[c].pc \notin Ended \cup {"off"}

Silent == [ok |-> 0, failed |-> 0]
Init ==
  /\ app = OldCode
  /\ bak = [c \in Clicks |-> [p \in Paths |-> NoOne]]
  /\ made = {}
  /\ st = [status |-> "idle", action |-> NoOne, audit |-> NoOne,
           prev |-> IF OlderPrev THEN "older" ELSE NoOne]
  /\ run = [c \in Clicks |-> [pc |-> "off", at |-> 1, dir |-> NoOne]]
  /\ panel = "old"
  /\ ask = [c \in Clicks |-> "idle"]
  /\ check = FALSE
  /\ told = Silent /\ final = [c \in Clicks |-> NoOne]
  /\ mishap = {} /\ reboots = 0 /\ crashes = 0

Goto(c, pc) == run' = [run EXCEPT ![c].pc = pc, ![c].at = 1]

\* The end of a loop over the paths or of the two answers in a row.
AtEnd(at, last) == at = last
Advance(c, last, pc) ==
  IF AtEnd(run[c].at, last) THEN Goto(c, pc)
                            ELSE run' = [run EXCEPT ![c].at = @ + 1]
Patch(status, action) == st' = [st EXCEPT !.status = status, !.action = action]

\* What dies with the panel process: a half-done start_install, a check.
PanelDies ==
  /\ panel' = "down"
  /\ check' = FALSE
  /\ ask' = [c \in Clicks |-> IF ask[c] \in {"launched", "audited"} THEN "gone" ELSE ask[c]]

-----------------------------------------------------------------------------
(* The panel: start_install launches the runner in a thread and only then   *)
(* writes audit_op, the status and the action.                              *)

Click(c) ==
  /\ panel = "old" /\ ask[c] = "idle"
  /\ st.status \notin Busy
  /\ ask' = [ask EXCEPT ![c] = "launched"]
  /\ Goto(c, "start")
  /\ UNCHANGED <<app, bak, made, st, panel, check, told, final, mishap, bounds>>

AuditStarted(c) ==
  /\ ask[c] = "launched"
  /\ ask' = [ask EXCEPT ![c] = "audited"]
  /\ st' = [st EXCEPT !.audit = c]
  /\ UNCHANGED <<app, bak, made, run, panel, check, told, final, mishap, bounds>>

Claim(c) ==
  /\ ask[c] = "audited"
  /\ ask' = [ask EXCEPT ![c] = "claimed"]
  /\ Patch("downloading", "asked")
  /\ mishap' = IF run[c].pc \in {"start", "fetch", "record"} THEN mishap
               ELSE mishap \cup {"late"}
  /\ UNCHANGED <<app, bak, made, run, panel, check, told, final, bounds>>

\* check_for_update: the status is claimed, then the network is awaited.
CheckBegins ==
  /\ panel # "down" /\ ~check /\ st.status \notin Busy
  /\ check' = TRUE
  /\ st' = [st EXCEPT !.status = "checking"]
  /\ UNCHANGED <<app, bak, made, run, panel, ask, told, final, mishap, bounds>>

CheckSucceeds ==
  /\ check /\ check' = FALSE
  /\ mishap' = IF st.status # "checking" THEN mishap \cup {"late"} ELSE mishap
  /\ st' = [st EXCEPT !.status = "idle"]
  /\ UNCHANGED <<app, bak, made, run, panel, ask, told, final, bounds>>

CheckFails ==
  /\ check /\ check' = FALSE
  /\ st' = [st EXCEPT !.status = IF @ = "checking" THEN "idle" ELSE @]
  /\ UNCHANGED <<app, bak, made, run, panel, ask, told, final, mishap, bounds>>

(* A panel that starts: init_on_startup compares the version it was loaded  *)
(* from with the goal of the operation.                                     *)
CloseAudit(ok) ==
  final' = [c \in Clicks |-> IF c = st.audit /\ final[c] = NoOne
                             THEN IF ok THEN "ok" ELSE "failed" ELSE final[c]]

Previous(v) == IF st.action # "asked" THEN "old"
               ELSE IF st.prev = NoOne THEN v ELSE st.prev

\* What a success leaves of the action it has announced.
\* Mutated: the action, for the runner to clear.
LeftToTheRunner == st.action
LeftBySuccess == NoOne

InitOnStartup(v) ==
  LET abandoned == st.action # NoOne /\ st.status \in Busy \ {"checking"}
  IN /\ CloseAudit(v = "new")
     /\ \/ /\ ~abandoned
           /\ st' = [st EXCEPT !.audit = NoOne,
                               !.status = IF @ = "checking" THEN "idle" ELSE @]
           /\ UNCHANGED told
        \/ /\ abandoned /\ v = "new"
           /\ st' = [st EXCEPT !.audit = NoOne, !.status = "idle", !.action = LeftBySuccess,
                               !.prev = IF st.action = "asked" THEN NoOne ELSE "old"]
           /\ told' = [told EXCEPT !.ok = @ + 1]
        \/ /\ abandoned /\ v = "old"
           /\ st' = [st EXCEPT !.audit = NoOne, !.status = "failed", !.action = NoOne]
           /\ told' = IF Previous(v) = v THEN [told EXCEPT !.failed = @ + 1] ELSE told

PanelStarts ==
  /\ panel = "down"
  /\ app[Core] \in {"old", "new"}
  /\ panel' = app[Core]
  /\ InitOnStartup(app[Core])
  /\ UNCHANGED <<app, bak, made, run, ask, check, mishap, bounds>>

PanelCrashes ==
  /\ panel # "down" /\ crashes < MaxCrashes
  /\ PanelDies
  /\ crashes' = crashes + 1
  /\ mishap' = IF \E c \in Clicks : Alive(c) THEN mishap \cup {"crash"} ELSE mishap
  /\ UNCHANGED <<app, bak, made, st, run, told, final, reboots>>

Reboot ==
  /\ reboots < MaxReboots
  /\ PanelDies
  /\ reboots' = reboots + 1
  /\ mishap' = IF \E c \in Clicks : Alive(c) THEN mishap \cup {"reboot"} ELSE mishap
  /\ run' = [c \in Clicks |-> IF Alive(c) THEN [run[c] EXCEPT !.pc = "killed"] ELSE run[c]]
  /\ UNCHANGED <<app, bak, made, st, told, final, crashes>>

-----------------------------------------------------------------------------
(* The runner, main() step by step.                                         *)

RunnerBegins(c) ==
  /\ run[c].pc = "start"
  /\ st' = [st EXCEPT !.status = "downloading"]
  /\ Goto(c, "fetch")
  /\ UNCHANGED <<app, bak, made, panel, ask, check, told, final, mishap, bounds>>

\* Disk check, download and extraction; any of them may raise.
Fetch(c) ==
  /\ run[c].pc = "fetch"
  /\ \E next \in {"record", "error"} : Goto(c, next)
  /\ UNCHANGED <<app, bak, made, st, panel, ask, check, told, final, mishap, bounds>>

Record(c) ==
  /\ run[c].pc = "record"
  /\ Patch("installing", c)
  /\ Goto(c, "mkdir")
  /\ UNCHANGED <<app, bak, made, panel, ask, check, told, final, mishap, bounds>>

MakeBackupDir(c) ==
  /\ run[c].pc = "mkdir"
  /\ \/ made' = made \cup {c} /\ Goto(c, "backup")
     \/ UNCHANGED made /\ Goto(c, "error")
  /\ UNCHANGED <<app, bak, st, panel, ask, check, told, final, mishap, bounds>>

LastCopied == NPaths

BackupPath(c) ==
  /\ run[c].pc = "backup"
  /\ bak' = [bak EXCEPT ![c][run[c].at] = app[run[c].at]]
  /\ Advance(c, LastCopied, "swap")
  /\ UNCHANGED <<app, made, st, panel, ask, check, told, final, mishap, bounds>>

\* The copy of one path raises and leaves nothing, or part of it, behind.
BackupFails(c) ==
  /\ run[c].pc = "backup" /\ app[run[c].at] # NoOne
  /\ \E left \in {NoOne, "part"} : bak' = [bak EXCEPT ![c][run[c].at] = left]
  /\ Goto(c, "error")
  /\ mishap' = mishap \cup {"backup"}
  /\ UNCHANGED <<app, made, st, panel, ask, check, told, final, bounds>>

SwapPath(c) ==
  /\ run[c].pc = "swap"
  /\ app' = [app EXCEPT ![run[c].at] = NewCode[run[c].at]]
  /\ Advance(c, NPaths, "pip")
  /\ UNCHANGED <<bak, made, st, panel, ask, check, told, final, mishap, bounds>>

SwapFails(c) ==
  /\ run[c].pc = "swap"
  /\ \E left \in {app[run[c].at], "part", NoOne} :
       app' = [app EXCEPT ![run[c].at] = left]
  /\ Goto(c, "error")
  /\ UNCHANGED <<bak, made, st, panel, ask, check, told, final, mishap, bounds>>

Pip(c) ==
  /\ run[c].pc = "pip"
  /\ \E next \in {"restart", "error"} : Goto(c, next)
  /\ UNCHANGED <<app, bak, made, st, panel, ask, check, told, final, mishap, bounds>>

\* systemctl restart takes the panel down; PanelStarts brings it back.
RestartService(c, at, ok, bad) ==
  /\ run[c].pc = at
  /\ PanelDies
  /\ \E next \in {ok, bad} : Goto(c, next)
  /\ UNCHANGED <<app, bak, made, st, told, final, mishap, bounds>>

Restart(c) == RestartService(c, "restart", "health", "error")

\* Two answers in a row with the expected version, else the deadline passes.
Poll(c, at, expected, ok) ==
  /\ run[c].pc = at
  /\ IF panel = expected THEN Advance(c, 2, ok) ELSE Goto(c, at)
  /\ UNCHANGED <<app, bak, made, st, panel, ask, check, told, final, mishap, bounds>>

PollNew(c) == Poll(c, "health", "new", "healthy")

HealthDeadline(c) ==
  /\ run[c].pc = "health"
  /\ run' = [run EXCEPT ![c].pc = "restore", ![c].at = 1, ![c].dir = c]
  /\ UNCHANGED <<app, bak, made, st, panel, ask, check, told, final, mishap, bounds>>

Succeed(c) ==
  /\ run[c].pc = "healthy"
  /\ st' = [st EXCEPT !.status = "idle", !.action = NoOne, !.prev = "old"]
  /\ Goto(c, "done")
  /\ UNCHANGED <<app, bak, made, panel, ask, check, told, final, mishap, bounds>>

\* The changelog of the new version cannot be extracted: an error after health.
SucceedRaises(c) ==
  /\ run[c].pc = "healthy"
  /\ Goto(c, "error")
  /\ UNCHANGED <<app, bak, made, st, panel, ask, check, told, final, mishap, bounds>>

\* The except branch looks in state.json for a backup directory that exists.
\* Mutated: it only marks the update as failed.
NoBackup == NoOne
BackupOnRecord == IF st.action \in made THEN st.action ELSE NoOne

Error(c) ==
  /\ run[c].pc = "error"
  /\ IF BackupOnRecord = NoOne
     THEN Goto(c, "fail")
     ELSE run' = [run EXCEPT ![c].pc = "restore", ![c].at = 1, ![c].dir = BackupOnRecord]
  /\ UNCHANGED <<app, bak, made, st, panel, ask, check, told, final, mishap, bounds>>

\* A path the backup lacks is taken for one the old version did not have.
\* Mutated: it is left in place.
RestoredOver(piece, saved) == IF saved = NoOne THEN piece ELSE saved
Restored(piece, saved) == saved

RestorePath(c) ==
  /\ run[c].pc = "restore"
  /\ app' = [app EXCEPT ![run[c].at] = Restored(@, bak[run[c].dir][run[c].at])]
  /\ Advance(c, NPaths, "note")
  /\ UNCHANGED <<bak, made, st, panel, ask, check, told, final, mishap, bounds>>

RestoreFails(c) ==
  /\ run[c].pc = "restore"
  /\ \E left \in {app[run[c].at], "part", NoOne} :
       app' = [app EXCEPT ![run[c].at] = left]
  /\ Goto(c, "fail")
  /\ mishap' = mishap \cup {"restore"}
  /\ UNCHANGED <<bak, made, st, panel, ask, check, told, final, bounds>>

NoteRestored(c) ==
  /\ run[c].pc = "note"
  /\ st' = [st EXCEPT !.status = "rolling_back"]
  /\ Goto(c, "rrestart")
  /\ UNCHANGED <<app, bak, made, panel, ask, check, told, final, mishap, bounds>>

RestartOld(c) == RestartService(c, "rrestart", "rhealth", "fail")

PollOld(c) == Poll(c, "rhealth", "old", "fail")

RestoredDeadline(c) ==
  /\ run[c].pc = "rhealth"
  /\ Goto(c, "fail")
  /\ UNCHANGED <<app, bak, made, st, panel, ask, check, told, final, mishap, bounds>>

\* Mutated: the status of the repair stays.
FinalStatusUnchanged == st.status
FinalStatus == "failed"

FinishFailed(c) ==
  /\ run[c].pc = "fail"
  /\ Patch(FinalStatus, NoOne)
  /\ Goto(c, "failed")
  /\ UNCHANGED <<app, bak, made, panel, ask, check, told, final, mishap, bounds>>

-----------------------------------------------------------------------------
RunnerStep(c) ==
  \/ RunnerBegins(c) \/ Fetch(c) \/ Record(c) \/ MakeBackupDir(c)
  \/ BackupPath(c) \/ BackupFails(c) \/ SwapPath(c) \/ SwapFails(c)
  \/ Pip(c) \/ Restart(c) \/ PollNew(c) \/ HealthDeadline(c)
  \/ Succeed(c) \/ SucceedRaises(c) \/ Error(c)
  \/ RestorePath(c) \/ RestoreFails(c) \/ NoteRestored(c)
  \/ RestartOld(c) \/ PollOld(c) \/ RestoredDeadline(c) \/ FinishFailed(c)

PanelStep ==
  \/ \E c \in Clicks : Click(c) \/ AuditStarted(c) \/ Claim(c)
  \/ CheckBegins \/ CheckSucceeds \/ CheckFails
  \/ PanelStarts

Next ==
  \/ PanelStep
  \/ \E c \in Clicks : RunnerStep(c)
  \/ PanelCrashes \/ Reboot

Spec == Init /\ [][Next]_vars

(* Every wait of the runner has a deadline, the network calls of a check    *)
(* time out, and systemd starts the panel again (Restart=always) on code    *)
(* that is known to run.  Nobody has to click, and new code need not start. *)
FairSpec ==
  /\ Spec
  /\ \A c \in Clicks :
       /\ WF_vars(RunnerStep(c))
       /\ WF_vars(HealthDeadline(c)) /\ WF_vars(RestoredDeadline(c))
       /\ WF_vars(AuditStarted(c)) /\ WF_vars(Claim(c))
  /\ WF_vars(CheckSucceeds \/ CheckFails)
  /\ WF_vars(PanelStarts /\ app = OldCode)
-----------------------------------------------------------------------------
Pieces == {"old", "new", "part", NoOne}
Places == {"off", "healthy", "error", "fail"} \cup Forward \cup InRepair \cup Ended

\* Types of the shared file, the code, the runner and the panel.
TypeOK ==
  /\ app \in [Paths -> Pieces]
  /\ bak \in [Clicks -> [Paths -> Pieces]] /\ made \subseteq Clicks
  /\ st \in [status : Busy \cup {"idle", "failed"}, action : Clicks \cup {"asked", NoOne},
             audit : Clicks \cup {NoOne}, prev : {"older", "old", NoOne}]
  /\ run \in [Clicks -> [pc : Places, at : Nat, dir : Clicks \cup {NoOne}]]
  /\ \A c \in Clicks : run[c].pc \in {"backup", "swap", "restore"} => run[c].at \in Paths
  /\ panel \in {"old", "new", "down"} /\ check \in BOOLEAN
  /\ ask \in [Clicks -> {"idle", "launched", "audited", "claimed", "gone"}]
  /\ told \in [ok : Nat, failed : Nat] /\ final \in [Clicks -> {"ok", "failed", NoOne}]
  /\ mishap \subseteq {"late", "crash", "reboot", "backup", "restore"}
  /\ reboots \in 0..MaxReboots /\ crashes \in 0..MaxCrashes

(* An install that ends leaves one version whole, never a mix: the target   *)
(* when the runner says done, one of the two when it says failed (main,     *)
(* _swap_code, _restore).  Whatever fails in the download, the swap, pip,   *)
(* the restart or the health check is covered; a failed backup, a failed    *)
(* restore, a crash or a claim that comes late are the exceptions.          *)
EndsWhole ==
  mishap = {} =>
    \A c \in Clicks :
      /\ run[c].pc = "done" => app = NewCode
      /\ run[c].pc = "failed" => app \in {OldCode, NewCode}

(* The old code is never lost: each path of it is in the application or in  *)
(* a backup, through every failure, crash and reboot, as long as the backup *)
(* itself did not fail (_backup_code before _swap_code, _restore).          *)
OldSurvivesFullBackup ==
  "backup" \notin mishap =>
    \A p \in OldHas : app[p] = "old" \/ \E c \in Clicks : bak[c][p] = "old"

(* runner.py:410: if the backup was already made, restore, else just fail:  *)
(* giving up on an update must not cost code of the running version.        *)
OldSurvives ==
  \A p \in OldHas : app[p] = "old" \/ \E c \in Clicks : bak[c][p] = "old"

(* One operation is announced at most once, with one outcome: the panel     *)
(* that starts on the new code, the restored panel, and the runner's own    *)
(* writes of the state never make notify_event speak twice, whether it says *)
(* the same or the opposite (init_on_startup).                              *)
OneVerdict == mishap = {} => told.ok + told.failed <= 1

(* When users were told that the update failed, and the runner has ended,   *)
(* the old version is the one on disk and the one running (or down).        *)
FailureIsTrue ==
  mishap = {} /\ told.failed > 0 =>
    \A c \in Clicks : run[c].pc = "failed" => app = OldCode /\ panel \in {"old", "down"}

(* Every install settles: the runner ends and the status leaves the busy    *)
(* ones, so that the next check and install are possible again, unless a    *)
(* reboot cut it or a write of the panel came after the runner's last one.  *)
Settles ==
  \A c \in Clicks :
    ask[c] # "idle" ~>
      \/ run[c].pc \in Ended /\ st.status \in {"idle", "failed", "checking"}
      \/ mishap \cap {"late", "reboot"} # {}

(* docs/architecture.md:346: init_on_startup closes abandoned states.       *)
AbandonedClosed ==
  (st.status \in Busy /\ app = OldCode /\ \A c \in Clicks : ~Alive(c))
    ~> st.status \notin Busy
=============================================================================
