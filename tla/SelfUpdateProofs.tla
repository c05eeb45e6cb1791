-------------------------- MODULE SelfUpdateProofs --------------------------
(***************************************************************************)
(* What is proved of SelfUpdate for any paths, versions and bounds: types   *)
(* for any number of requests, and what one request leaves of the code.     *)
(***************************************************************************)
EXTENDS SelfUpdate, TLAPS

-----------------------------------------------------------------------------
(* Type correctness.  A restore reads a backup: its source is a request.    *)

RunOK ==
    /\ run \in [Clicks -> [pc : Places, at : Nat, dir : Clicks \cup {NoOne}]]
    /\ \A c \in Clicks : run[c].pc \in {"backup", "swap", "restore"} => run[c].at \in Paths
    /\ \A c \in Clicks : run[c].pc = "restore" => run[c].dir \in Clicks

TypeInv == TypeOK /\ RunOK

LEMMA GotoHere ==
    ASSUME RunOK, NEW c \in Clicks, NEW pc, Goto(c, pc)
    PROVE  run'[c].pc = pc /\ run'[c].at = 1
BY DEF RunOK, Goto

LEMMA AdvanceHere ==
    ASSUME RunOK, NEW c \in Clicks, NEW last, NEW pc, Advance(c, last, pc)
    PROVE  \/ run[c].at = last /\ run'[c].pc = pc /\ run'[c].at = 1
           \/ /\ run[c].at # last
              /\ run' = [run EXCEPT ![c].at = run[c].at + 1]
              /\ run'[c].pc = run[c].pc /\ run'[c].at = run[c].at + 1
BY GotoHere DEF RunOK, Advance, AtEnd

LEMMA FirstPath == 1 \in Paths
BY PathsAssumption DEF Paths

LEMMA GotoOK ==
    ASSUME RunOK, NEW c \in Clicks, NEW pc \in Places \ {"restore"}, Goto(c, pc)
    PROVE  RunOK'
BY FirstPath DEF RunOK, Goto

\* The loops stay inside the paths.
LEMMA AdvanceOK ==
    ASSUME RunOK, NEW c \in Clicks, NEW pc \in Places \ {"restore"},
           run[c].pc \in {"backup", "swap", "restore"}, Advance(c, NPaths, pc)
    PROVE  RunOK'
<1>1. CASE run[c].at = NPaths
      BY <1>1, GotoOK DEF Advance, AtEnd
<1>2. CASE run[c].at # NPaths
  <2>1. run[c].at + 1 \in Paths
        BY <1>2, PathsAssumption DEF RunOK, Paths
  <2>2. run' = [run EXCEPT ![c].at = run[c].at + 1]
        BY <1>2 DEF Advance, AtEnd
  <2> QED BY <2>1, <2>2 DEF RunOK, Paths
<1> QED BY <1>1, <1>2

LEMMA InitType == Init => TypeInv
<1> SUFFICES ASSUME Init PROVE TypeInv
    OBVIOUS
<1>1. RunOK
      BY DEF Init, RunOK, Places, Forward, InRepair, Ended
<1>2. st \in [status : Busy \cup {"idle", "failed"}, action : Clicks \cup {"asked", NoOne},
              audit : Clicks \cup {NoOne}, prev : {"older", "old", NoOne}]
      BY ParamAssumption DEF Init, Busy
<1>3. app \in [Paths -> Pieces] /\ bak \in [Clicks -> [Paths -> Pieces]]
      BY DEF Init, OldCode, Pieces, NoOne
<1>4. reboots \in 0..MaxReboots /\ crashes \in 0..MaxCrashes
      BY ParamAssumption DEF Init
<1> QED BY <1>1, <1>2, <1>3, <1>4 DEF Init, TypeInv, TypeOK, RunOK, Silent

LEMMA PanelType ==
    ASSUME TypeInv, PanelStep \/ PanelCrashes \/ Reboot
    PROVE  TypeInv'
<1> USE DEF TypeInv, TypeOK, bounds
<1>1. ASSUME NEW c \in Clicks, Click(c) PROVE TypeInv'
  <2>1. RunOK'
        BY <1>1, GotoOK DEF Click, Places, Forward
  <2> QED BY <1>1, <2>1 DEF Click, RunOK
<1>2. ASSUME NEW c \in Clicks, AuditStarted(c) PROVE TypeInv'
      BY <1>2 DEF AuditStarted, RunOK
<1>3. ASSUME NEW c \in Clicks, Claim(c) PROVE TypeInv'
      BY <1>3 DEF Claim, Patch, Busy, RunOK
<1>4. CASE CheckBegins
      BY <1>4 DEF CheckBegins, Busy, RunOK
<1>5. CASE CheckSucceeds
      BY <1>5 DEF CheckSucceeds, RunOK
<1>6. CASE CheckFails
      BY <1>6 DEF CheckFails, RunOK
<1>7. CASE PanelStarts
  <2>1. PICK v \in {"old", "new"} : v = app[Core] /\ panel' = v /\ InitOnStartup(v)
        BY <1>7 DEF PanelStarts
  <2>2. final' \in [Clicks -> {"ok", "failed", NoOne}]
        BY <2>1 DEF InitOnStartup, CloseAudit
  <2>3. st' \in [status : Busy \cup {"idle", "failed"}, action : Clicks \cup {"asked", NoOne},
                 audit : Clicks \cup {NoOne}, prev : {"older", "old", NoOne}]
    <3>1. CASE st' = [st EXCEPT !.audit = NoOne, !.status = IF @ = "checking" THEN "idle" ELSE @]
          BY <3>1
    <3>2. CASE st' = [st EXCEPT !.audit = NoOne, !.status = "idle", !.action = LeftBySuccess,
                                !.prev = IF st.action = "asked" THEN NoOne ELSE "old"]
          BY <3>2 DEF LeftBySuccess
    <3>3. CASE st' = [st EXCEPT !.audit = NoOne, !.status = "failed", !.action = NoOne]
          BY <3>3
    <3> QED BY <2>1, <3>1, <3>2, <3>3 DEF InitOnStartup
  <2>4. told' \in [ok : Nat, failed : Nat]
        BY <2>1 DEF InitOnStartup
  <2> QED BY <1>7, <2>1, <2>2, <2>3, <2>4 DEF PanelStarts, RunOK
<1>8. CASE PanelCrashes
  <2>1. crashes' \in 0..MaxCrashes
        BY <1>8, ParamAssumption DEF PanelCrashes
  <2>2. mishap' \subseteq {"late", "crash", "reboot", "backup", "restore"}
        BY <1>8 DEF PanelCrashes
  <2>3. ask' \in [Clicks -> {"idle", "launched", "audited", "claimed", "gone"}]
        BY <1>8 DEF PanelCrashes, PanelDies
  <2> QED BY <1>8, <2>1, <2>2, <2>3 DEF PanelCrashes, PanelDies, RunOK
<1>9. CASE Reboot
  <2>1. RunOK'
        BY <1>9 DEF Reboot, RunOK, Places, Ended
  <2>2. reboots' \in 0..MaxReboots
        BY <1>9, ParamAssumption DEF Reboot
  <2>3. mishap' \subseteq {"late", "crash", "reboot", "backup", "restore"}
        BY <1>9 DEF Reboot
  <2>4. ask' \in [Clicks -> {"idle", "launched", "audited", "claimed", "gone"}]
        BY <1>9 DEF Reboot, PanelDies
  <2> QED BY <1>9, <2>1, <2>2, <2>3, <2>4 DEF Reboot, PanelDies, RunOK
<1> QED BY <1>1, <1>2, <1>3, <1>4, <1>5, <1>6, <1>7, <1>8, <1>9 DEF PanelStep

\* The runner up to the swap, and the steps that give up.
LEMMA RunnerType ==
    ASSUME TypeInv, NEW c \in Clicks, RunnerStep(c)
    PROVE  TypeInv'
<1> USE DEF TypeInv, bounds
<1>0. /\ {"fetch", "record", "error", "mkdir", "backup", "swap", "pip", "restart", "health",
          "healthy", "done", "fail", "note", "rrestart", "rhealth", "failed"}
             \subseteq Places \ {"restore"}
      /\ c \in Clicks \cup {"asked", NoOne}
      BY DEF Places, Forward, InRepair, Ended
<1>1. CASE RunnerBegins(c)
  <2>1. RunOK' BY <1>0, <1>1, GotoOK DEF RunnerBegins
  <2> QED BY <1>1, <2>1 DEF RunnerBegins, TypeOK, RunOK, Busy
<1>2. CASE Fetch(c)
  <2>1. RunOK' BY <1>0, <1>2, GotoOK DEF Fetch
  <2> QED BY <1>2, <2>1 DEF Fetch, TypeOK, RunOK
<1>3. CASE Record(c)
  <2>1. RunOK' BY <1>0, <1>3, GotoOK DEF Record
  <2> QED BY <1>0, <1>3, <2>1 DEF Record, Patch, TypeOK, RunOK, Busy
<1>4. CASE MakeBackupDir(c)
  <2>1. RunOK' BY <1>0, <1>4, GotoOK DEF MakeBackupDir
  <2> QED BY <1>4, <2>1 DEF MakeBackupDir, TypeOK, RunOK
<1>5. CASE BackupPath(c)
  <2>1. RunOK' BY <1>0, <1>5, AdvanceOK DEF BackupPath, LastCopied
  <2> QED BY <1>5, <2>1 DEF BackupPath, TypeOK, RunOK
<1>6. CASE BackupFails(c)
  <2>1. RunOK' BY <1>0, <1>6, GotoOK DEF BackupFails
  <2>2. bak' \in [Clicks -> [Paths -> Pieces]]
        BY <1>6 DEF BackupFails, TypeOK, RunOK, Pieces, NoOne
  <2> QED BY <1>6, <2>1, <2>2 DEF BackupFails, TypeOK, RunOK
<1>7. CASE SwapPath(c)
  <2>1. RunOK' BY <1>0, <1>7, AdvanceOK DEF SwapPath
  <2> QED BY <1>7, <2>1 DEF SwapPath, TypeOK, RunOK, Pieces, NewCode
<1>8. CASE SwapFails(c)
  <2>1. RunOK' BY <1>0, <1>8, GotoOK DEF SwapFails
  <2>2. app' \in [Paths -> Pieces]
        BY <1>8 DEF SwapFails, TypeOK, RunOK, Pieces
  <2> QED BY <1>8, <2>1, <2>2 DEF SwapFails, TypeOK, RunOK
<1>9. CASE Pip(c)
  <2>1. RunOK' BY <1>0, <1>9, GotoOK DEF Pip
  <2> QED BY <1>9, <2>1 DEF Pip, TypeOK, RunOK
<1>10. CASE Restart(c) \/ RestartOld(c)
  <2>1. RunOK' BY <1>0, <1>10, GotoOK DEF Restart, RestartOld, RestartService
  <2> QED BY <1>10, <2>1 DEF Restart, RestartOld, RestartService, PanelDies, TypeOK, RunOK
<1>11. CASE PollNew(c) \/ PollOld(c)
  <2>1. run[c].pc \in {"health", "rhealth"}
        BY <1>11 DEF PollNew, PollOld, Poll
  <2>2. \/ \E pc \in Places \ {"restore"} : Goto(c, pc)
        \/ run' = [run EXCEPT ![c].at = run[c].at + 1]
        BY <1>0, <1>11 DEF PollNew, PollOld, Poll, Advance
  <2>3. RunOK'
        BY <2>1, <2>2, GotoOK DEF RunOK
  <2> QED BY <1>11, <2>3 DEF PollNew, PollOld, Poll, TypeOK, RunOK
<1>12. CASE HealthDeadline(c)
  <2>1. RunOK' BY <1>12, FirstPath DEF HealthDeadline, RunOK, Places, InRepair
  <2> QED BY <1>12, <2>1 DEF HealthDeadline, TypeOK, RunOK
<1>13. CASE Succeed(c)
  <2>1. RunOK' BY <1>0, <1>13, GotoOK DEF Succeed
  <2> QED BY <1>13, <2>1 DEF Succeed, TypeOK, RunOK
<1>14. CASE SucceedRaises(c) \/ NoteRestored(c) \/ RestoredDeadline(c)
  <2>1. RunOK' BY <1>0, <1>14, GotoOK DEF SucceedRaises, NoteRestored, RestoredDeadline
  <2> QED BY <1>14, <2>1 DEF SucceedRaises, NoteRestored, RestoredDeadline, TypeOK, RunOK, Busy
<1>15. CASE Error(c)
  <2>1. CASE BackupOnRecord = NoOne
        BY <1>0, <1>15, <2>1, GotoOK DEF Error, TypeOK, RunOK
  <2>2. CASE BackupOnRecord # NoOne
    <3>1. BackupOnRecord \in Clicks
          BY <2>2 DEF BackupOnRecord, TypeOK
    <3>2. RunOK'
          BY <1>15, <2>2, <3>1, FirstPath DEF Error, RunOK, Places, InRepair
    <3> QED BY <1>15, <3>2 DEF Error, TypeOK, RunOK
  <2> QED BY <2>1, <2>2
<1>16. CASE RestorePath(c)
  <2>1. RunOK' BY <1>0, <1>16, AdvanceOK DEF RestorePath
  <2> QED BY <1>16, <2>1 DEF RestorePath, Restored, TypeOK, RunOK
<1>17. CASE RestoreFails(c)
  <2>1. RunOK' BY <1>0, <1>17, GotoOK DEF RestoreFails
  <2> QED BY <1>17, <2>1 DEF RestoreFails, TypeOK, RunOK, Pieces
<1>18. CASE FinishFailed(c)
  <2>1. RunOK' BY <1>0, <1>18, GotoOK DEF FinishFailed
  <2> QED BY <1>18, <2>1 DEF FinishFailed, Patch, FinalStatus, TypeOK, RunOK
<1> QED BY <1>1, <1>2, <1>3, <1>4, <1>5, <1>6, <1>7, <1>8, <1>9, <1>10, <1>11, <1>12,
           <1>13, <1>14, <1>15, <1>16, <1>17, <1>18 DEF RunnerStep

LEMMA NextType == TypeInv /\ [Next]_vars => TypeInv'
<1> SUFFICES ASSUME TypeInv, [Next]_vars PROVE TypeInv'
    OBVIOUS
<1>1. CASE UNCHANGED vars
      BY <1>1 DEF vars, bounds, TypeInv, TypeOK, RunOK
<1>2. CASE Next
      BY <1>2, PanelType, RunnerType DEF Next
<1> QED BY <1>1, <1>2

\* The shared state file, the code and its backups, and every runner keep
\* their types; no loop of a runner leaves the paths.
THEOREM TypeCorrect == Spec => []TypeOK
<1>1. TypeInv => TypeOK
      BY DEF TypeInv
<1> QED BY <1>1, InitType, NextType, PTL DEF Spec

-----------------------------------------------------------------------------
(* One request.  A full backup is made before the first path is replaced,   *)
(* and whatever goes wrong later is repaired from it.                       *)

Full(c) == \A p \in Paths : bak[c][p] = OldCode[p]

\* Where the old code is, as long as no copy of the backup failed.
BackupInv(c) ==
    "backup" \notin mishap =>
        /\ app = OldCode \/ Full(c)
        /\ run[c].pc \in {"off", "start", "fetch", "record", "mkdir", "backup"} => app = OldCode
        /\ run[c].pc = "backup" => \A p \in 1..(run[c].at - 1) : bak[c][p] = OldCode[p]
        /\ run[c].pc \in {"swap", "pip", "restart", "health", "healthy", "done",
                          "restore", "note", "rrestart", "rhealth"} => Full(c)
        /\ c \in made /\ run[c].pc \notin {"backup", "killed"} => Full(c)

\* What the application is made of, as long as nothing but the runner's own
\* steps went wrong, and what it finds in state.json when one of them does.
WholeInv(c) ==
    mishap = {} =>
        /\ run[c].pc \in {"pip", "restart", "health", "healthy", "done"} => app = NewCode
        /\ run[c].pc = "swap" => \A p \in 1..(run[c].at - 1) : app[p] = NewCode[p]
        /\ run[c].pc = "restore" => \A p \in 1..(run[c].at - 1) : app[p] = OldCode[p]
        /\ run[c].pc \in {"note", "rrestart", "rhealth"} => app = OldCode
        /\ run[c].pc \in {"fail", "failed"} => app \in {OldCode, NewCode}
        /\ run[c].pc \in {"start", "fetch", "record", "mkdir", "backup", "swap", "pip",
                          "restart"} => panel # "down"
        /\ run[c].pc \in {"mkdir", "backup", "swap"} => st.action = c
        /\ run[c].pc \in {"backup", "swap"} => c \in made
        /\ run[c].pc = "error" =>
              \/ app \in {OldCode, NewCode}
              \/ c \in made /\ st.action = c /\ panel # "down"

\* A request that nobody has made has no runner.
AskInv(c) == ask[c] = "idle" => run[c].pc = "off"

Inv(c) == TypeInv /\ AskInv(c) /\ BackupInv(c) /\ WholeInv(c)

LEMMA InitInv == ASSUME NEW c \in Clicks, Init PROVE Inv(c)
<1>1. TypeInv BY InitType
<1>2. run[c].pc = "off" /\ app = OldCode /\ made = {}
      BY DEF Init
<1> QED BY <1>1, <1>2 DEF Inv, AskInv, BackupInv, WholeInv

\* A step that leaves the runner and the code alone keeps the invariant, if it
\* neither takes the panel down nor overwrites the action unnoticed.
LEMMA Kept ==
    ASSUME NEW c \in Clicks, Inv(c), TypeInv',
           UNCHANGED <<app, bak, made, run>>, mishap \subseteq mishap',
           ask'[c] = "idle" => ask[c] = "idle",
           mishap' = {} /\ panel # "down" /\ run[c].pc \notin Ended \cup {"off"} =>
              panel' # "down",
           mishap' = {} /\ panel # "down" /\ st.action = c
              /\ run[c].pc \in {"mkdir", "backup", "swap", "error"} => st'.action = c
    PROVE  Inv(c)'
<1>1. AskInv(c)'
      BY DEF Inv, AskInv
<1>2. BackupInv(c)'
      BY DEF Inv, BackupInv, Full
<1>3. WholeInv(c)'
      BY DEF Inv, WholeInv, Ended
<1> QED BY <1>1, <1>2, <1>3 DEF Inv

\* The panel does not touch the code; what it writes into state.json meets the
\* runner late only, and it goes down under the runner's steps by mishap only.
LEMMA PanelKeeps ==
    ASSUME NEW c, Clicks = {c}, Inv(c), PanelStep \/ PanelCrashes \/ Reboot
    PROVE  Inv(c)'
<1>0. c \in Clicks /\ TypeInv' /\ TypeOK /\ run[c] \in [pc : Places, at : Nat, dir : Clicks \cup {NoOne}]
      BY PanelType DEF Inv, TypeInv, RunOK
<1>1. CASE Click(c)
  <2>1. /\ run'[c].pc = "start" /\ run[c].pc = "off"
        /\ ask'[c] = "launched" /\ panel' = "old"
        /\ UNCHANGED <<app, bak, made, mishap>>
        BY <1>0, <1>1 DEF Click, Goto, TypeOK, Inv, AskInv
  <2>2. AskInv(c)' /\ BackupInv(c)' /\ WholeInv(c)'
        BY <2>1 DEF Inv, AskInv, BackupInv, WholeInv, Full
  <2> QED BY <1>0, <2>2 DEF Inv
<1>2. CASE AuditStarted(c)
      BY <1>0, <1>2, Kept DEF AuditStarted, TypeOK
<1>3. CASE Claim(c)
  <2>1. run[c].pc \in {"mkdir", "backup", "swap", "error"} => mishap' # {}
        BY <1>3 DEF Claim
  <2>2. ask'[c] = "claimed" /\ UNCHANGED <<app, bak, made, run, panel>> /\ mishap \subseteq mishap'
        BY <1>0, <1>3 DEF Claim, TypeOK
  <2> QED BY <1>0, <2>1, <2>2, Kept
<1>4. CASE CheckBegins \/ CheckSucceeds \/ CheckFails
  <2>1. /\ UNCHANGED <<app, bak, made, run, panel, ask>> /\ mishap \subseteq mishap'
        /\ st'.action = st.action
        BY <1>4 DEF CheckBegins, CheckSucceeds, CheckFails, TypeOK, Inv, TypeInv
  <2> QED BY <1>0, <2>1, Kept
<1>5. CASE PanelStarts
  <2>1. panel = "down" /\ UNCHANGED <<app, bak, made, run, ask, mishap>>
        BY <1>5 DEF PanelStarts
  <2> QED BY <1>0, <2>1, Kept
<1>6. CASE PanelCrashes
  <2>1. UNCHANGED <<app, bak, made, run, st>> /\ mishap \subseteq mishap'
        BY <1>6 DEF PanelCrashes
  <2>2. run[c].pc \notin Ended \cup {"off"} => mishap' # {}
        BY <1>0, <1>6 DEF PanelCrashes, Alive
  <2>3. ask'[c] = "idle" => ask[c] = "idle"
        BY <1>0, <1>6 DEF PanelCrashes, PanelDies, TypeOK
  <2> QED BY <1>0, <2>1, <2>2, <2>3, Kept
<1>7. CASE Reboot
  <2>1. UNCHANGED <<app, bak, made, st>> /\ mishap \subseteq mishap'
        BY <1>7 DEF Reboot
  <2>2. ask'[c] = "idle" => ask[c] = "idle"
        BY <1>0, <1>7 DEF Reboot, PanelDies, TypeOK
  <2>3. CASE Alive(c)
    <3>1. run'[c].pc = "killed" /\ mishap' # {} /\ run[c].pc # "off"
          BY <1>0, <1>7, <2>3 DEF Reboot, Alive
    <3>2. AskInv(c)' /\ BackupInv(c)' /\ WholeInv(c)'
          BY <2>1, <2>2, <3>1 DEF Inv, AskInv, BackupInv, WholeInv, Full
    <3> QED BY <1>0, <3>2 DEF Inv
  <2>4. CASE ~Alive(c)
    <3>1. run' = run /\ run[c].pc \in Ended \cup {"off"}
          BY <1>0, <1>7, <2>4 DEF Reboot, Alive, TypeOK
    <3> QED BY <1>0, <2>1, <2>2, <3>1, Kept
  <2> QED BY <2>3, <2>4
<1> QED BY <1>1, <1>2, <1>3, <1>4, <1>5, <1>6, <1>7 DEF PanelStep

\* The runner does not make requests: a panel it takes down has made its own.
LEMMA RunnerAsks ==
    ASSUME NEW c, Clicks = {c}, Inv(c), RunnerStep(c)
    PROVE  AskInv(c)'
<1>1. run[c].pc # "off"
      BY DEF RunnerStep, RunnerBegins, Fetch, Record, MakeBackupDir, BackupPath, BackupFails,
             SwapPath, SwapFails, Pip, Restart, PollNew, HealthDeadline, Succeed, SucceedRaises,
             Error, RestorePath, RestoreFails, NoteRestored, RestartOld, PollOld,
             RestoredDeadline, FinishFailed, RestartService, Poll
<1>2. ask[c] # "idle"
      BY <1>1 DEF Inv, AskInv
<1>3. UNCHANGED ask \/ PanelDies
      BY DEF RunnerStep, RunnerBegins, Fetch, Record, MakeBackupDir, BackupPath, BackupFails,
             SwapPath, SwapFails, Pip, Restart, PollNew, HealthDeadline, Succeed, SucceedRaises,
             Error, RestorePath, RestoreFails, NoteRestored, RestartOld, PollOld,
             RestoredDeadline, FinishFailed, RestartService, Poll
<1>4. ask'[c] # "idle"
      BY <1>2, <1>3 DEF PanelDies, Inv, TypeInv, TypeOK
<1> QED BY <1>4 DEF AskInv

\* Up to the copy of the old code.
LEMMA PreparationKeeps ==
    ASSUME NEW c, Clicks = {c}, Inv(c),
           RunnerBegins(c) \/ Fetch(c) \/ Record(c) \/ MakeBackupDir(c), RunnerStep(c)
    PROVE  Inv(c)'
<1>0. /\ c \in Clicks /\ TypeInv' /\ AskInv(c)'
      /\ run[c] \in [pc : Places, at : Nat, dir : Clicks \cup {NoOne}]
      BY RunnerType, RunnerAsks DEF Inv, TypeInv, RunOK
<1>9. Inv(c)' <=> BackupInv(c)' /\ WholeInv(c)'
      BY <1>0 DEF Inv
<1>1. UNCHANGED <<app, bak, panel, mishap>>
      BY DEF RunnerBegins, Fetch, Record, MakeBackupDir
<1>2. run[c].pc \in {"start", "fetch", "record", "mkdir"}
      BY DEF RunnerBegins, Fetch, Record, MakeBackupDir
<1>3. \/ run[c].pc = "start" /\ Goto(c, "fetch") /\ made' = made
      \/ run[c].pc = "fetch" /\ (Goto(c, "record") \/ Goto(c, "error")) /\ made' = made
      \/ run[c].pc = "record" /\ Goto(c, "mkdir") /\ made' = made /\ st'.action = c
      \/ run[c].pc = "mkdir" /\ Goto(c, "error") /\ made' = made
      \/ run[c].pc = "mkdir" /\ Goto(c, "backup") /\ made' = made \cup {c} /\ st' = st
      BY DEF RunnerBegins, Fetch, Record, MakeBackupDir, Patch, Inv, TypeInv, TypeOK
<1>4. \/ run'[c].pc \in {"fetch", "record", "error"} /\ made' = made
      \/ run'[c].pc = "mkdir" /\ made' = made /\ st'.action = c
      \/ /\ run[c].pc = "mkdir" /\ run'[c].pc = "backup" /\ run'[c].at = 1
         /\ made' = made \cup {c} /\ st' = st
      BY <1>0, <1>3, GotoHere DEF Inv, TypeInv
<1>5. BackupInv(c)'
      BY <1>1, <1>2, <1>4 DEF Inv, BackupInv, Full
<1>8. WholeInv(c)'
  <2>1. mishap = {} => app = OldCode /\ panel # "down"
        BY <1>2 DEF Inv, WholeInv, BackupInv
  <2>2. mishap = {} /\ run[c].pc = "mkdir" => st.action = c
        BY DEF Inv, WholeInv
  <2> QED BY <2>1, <2>2, <1>1, <1>4 DEF WholeInv
<1> QED BY <1>5, <1>8, <1>9

\* The copy of the old code, path by path.
LEMMA BackupKeeps ==
    ASSUME NEW c, Clicks = {c}, Inv(c), BackupPath(c) \/ BackupFails(c), RunnerStep(c)
    PROVE  Inv(c)'
<1>0. /\ c \in Clicks /\ TypeInv' /\ AskInv(c)' /\ TypeInv
      /\ run[c] \in [pc : Places, at : Nat, dir : Clicks \cup {NoOne}]
      BY RunnerType, RunnerAsks DEF Inv, TypeInv, RunOK
<1>9. Inv(c)' <=> BackupInv(c)' /\ WholeInv(c)'
      BY <1>0 DEF Inv
<1>1. UNCHANGED <<app, made, st, panel>> /\ mishap \subseteq mishap' /\ run[c].pc = "backup"
      BY DEF BackupPath, BackupFails
<1>2. run[c].at \in Paths
      BY <1>0, <1>1 DEF TypeInv, RunOK
<1>3. CASE BackupPath(c)
  <2>1. \/ run[c].at = NPaths /\ run'[c].pc = "swap" /\ run'[c].at = 1
        \/ run'[c].pc = "backup" /\ run'[c].at = run[c].at + 1
        BY <1>0, <1>1, <1>3, AdvanceHere DEF BackupPath, LastCopied, TypeInv
  <2>2. \A p \in Paths : bak'[c][p] = IF p = run[c].at THEN app[p] ELSE bak[c][p]
        BY <1>0, <1>2, <1>3 DEF BackupPath, TypeInv, TypeOK
  <2>3. "backup" \notin mishap =>
            app = OldCode /\ \A p \in 1..(run[c].at - 1) : bak[c][p] = OldCode[p]
        BY <1>1 DEF Inv, BackupInv
  <2>4. "backup" \notin mishap => \A p \in 1..(run[c].at) : bak'[c][p] = OldCode[p]
        BY <1>2, <2>2, <2>3, PathsAssumption DEF Paths
  <2>5. "backup" \notin mishap /\ run[c].at = NPaths => Full(c)'
        BY <2>4 DEF Full, Paths
  <2>6. BackupInv(c)'
    <3>1. CASE run'[c].pc = "swap"
          BY <1>1, <2>1, <2>3, <2>5, <3>1 DEF BackupInv
    <3>2. CASE run'[c].pc = "backup"
      <4>1. run'[c].at = run[c].at + 1 /\ run'[c].at - 1 = run[c].at
            BY <1>0, <2>1, <3>2
      <4> QED BY <1>1, <2>3, <2>4, <3>2, <4>1 DEF BackupInv
    <3> QED BY <2>1, <3>1, <3>2
  <2>7. WholeInv(c)'
    <3>1. mishap = {} => st.action = c /\ c \in made /\ panel # "down"
          BY <1>1 DEF Inv, WholeInv
    <3>2. 1..(1 - 1) = {}
          OBVIOUS
    <3> QED BY <1>1, <2>1, <3>1, <3>2 DEF WholeInv
  <2> QED BY <1>9, <2>6, <2>7
<1>4. CASE BackupFails(c)
  <2>1. run'[c].pc = "error" /\ "backup" \in mishap'
        BY <1>0, <1>4, GotoHere DEF BackupFails, TypeInv
  <2> QED BY <1>9, <2>1 DEF BackupInv, WholeInv
<1> QED BY <1>3, <1>4

\* The swap works on a full backup, path by path.
LEMMA SwapKeeps ==
    ASSUME NEW c, Clicks = {c}, Inv(c), SwapPath(c) \/ SwapFails(c), RunnerStep(c)
    PROVE  Inv(c)'
<1>0. /\ c \in Clicks /\ TypeInv' /\ AskInv(c)' /\ TypeInv
      /\ run[c] \in [pc : Places, at : Nat, dir : Clicks \cup {NoOne}]
      BY RunnerType, RunnerAsks DEF Inv, TypeInv, RunOK
<1>9. Inv(c)' <=> BackupInv(c)' /\ WholeInv(c)'
      BY <1>0 DEF Inv
<1>1. UNCHANGED <<bak, made, st, panel, mishap>> /\ run[c].pc = "swap"
      BY DEF SwapPath, SwapFails
<1>2. run[c].at \in Paths
      BY <1>0, <1>1 DEF TypeInv, RunOK
<1>3. /\ SwapFails(c) => run'[c].pc = "error"
      /\ SwapPath(c) => \/ run[c].at = NPaths /\ run'[c].pc = "pip"
                        \/ run'[c].pc = "swap" /\ run'[c].at = run[c].at + 1
      BY <1>0, <1>1, AdvanceHere, GotoHere DEF SwapPath, SwapFails, TypeInv
<1>4. BackupInv(c)'
  <2>1. "backup" \notin mishap => Full(c)
        BY <1>1 DEF Inv, BackupInv
  <2>2. "backup" \notin mishap => Full(c)'
        BY <1>1, <2>1 DEF Full
  <2> QED BY <1>1, <1>3, <2>2 DEF BackupInv
<1>5. WholeInv(c)'
  <2>1. mishap = {} => /\ st.action = c /\ c \in made /\ panel # "down"
                       /\ \A p \in 1..(run[c].at - 1) : app[p] = NewCode[p]
        BY <1>1 DEF Inv, WholeInv
  <2>2. CASE SwapFails(c)
    <3>1. run'[c].pc = "error"
          BY <1>0, <2>2, GotoHere DEF SwapFails, TypeInv
    <3> QED BY <1>1, <2>1, <3>1 DEF WholeInv
  <2>3. CASE SwapPath(c)
    <3>1. \A p \in Paths : app'[p] = IF p = run[c].at THEN NewCode[p] ELSE app[p]
          BY <1>0, <1>2, <2>3 DEF SwapPath, TypeInv, TypeOK
    <3>2. mishap = {} => \A p \in 1..(run[c].at) : app'[p] = NewCode[p]
          BY <1>2, <2>1, <3>1, PathsAssumption DEF Paths
    <3>3. CASE run'[c].pc = "pip"
      <4>1. run[c].at = NPaths
            BY <1>3, <3>3
      <4>2. app' \in [Paths -> Pieces] /\ NewCode \in [Paths -> Pieces]
            BY <1>0 DEF TypeInv, TypeOK, NewCode, Pieces
      <4>3. mishap = {} => \A p \in Paths : app'[p] = NewCode[p]
            BY <3>2, <4>1 DEF Paths
      <4>4. mishap = {} => app' = NewCode
            BY <4>2, <4>3
      <4> QED BY <1>1, <2>1, <3>3, <4>4 DEF WholeInv
    <3>4. CASE run'[c].pc = "swap"
      <4>1. run'[c].at - 1 = run[c].at
            BY <1>0, <1>3, <3>4
      <4> QED BY <1>1, <2>1, <3>2, <3>4, <4>1 DEF WholeInv
    <3> QED BY <1>3, <2>3, <3>3, <3>4
  <2> QED BY <2>2, <2>3
<1> QED BY <1>4, <1>5, <1>9

\* From the installed code to the verdict on it.
LEMMA InstalledKeeps ==
    ASSUME NEW c, Clicks = {c}, Inv(c), RunnerStep(c),
           \/ Pip(c) \/ Restart(c) \/ PollNew(c) \/ HealthDeadline(c)
           \/ Succeed(c) \/ SucceedRaises(c)
    PROVE  Inv(c)'
<1>0. /\ c \in Clicks /\ TypeInv' /\ AskInv(c)' /\ TypeInv
      /\ run[c] \in [pc : Places, at : Nat, dir : Clicks \cup {NoOne}]
      BY RunnerType, RunnerAsks DEF Inv, TypeInv, RunOK
<1>9. Inv(c)' <=> BackupInv(c)' /\ WholeInv(c)'
      BY <1>0 DEF Inv
<1>1. UNCHANGED <<app, bak, made, mishap>> /\ (run[c].pc = "pip" => UNCHANGED panel)
      BY DEF Pip, Restart, RestartService, PollNew, Poll, HealthDeadline, Succeed, SucceedRaises
<1>2. run[c].pc \in {"pip", "restart", "health", "healthy"}
      BY DEF Pip, Restart, RestartService, PollNew, Poll, HealthDeadline, Succeed, SucceedRaises
<1>3. \/ run'[c].pc = "restart" /\ run[c].pc = "pip"
      \/ run'[c].pc \in {"error", "health", "healthy", "done"}
      \/ run'[c].pc = "restore" /\ run'[c].at = 1
  <2>1. CASE Pip(c)
        BY <1>0, <2>1, GotoHere DEF Pip, TypeInv
  <2>2. CASE Restart(c)
        BY <1>0, <2>2, GotoHere DEF Restart, RestartService, TypeInv
  <2>3. CASE PollNew(c)
        BY <1>0, <2>3, GotoHere, AdvanceHere DEF PollNew, Poll, TypeInv
  <2>4. CASE HealthDeadline(c)
        BY <1>0, <2>4 DEF HealthDeadline, TypeInv, RunOK
  <2>5. CASE Succeed(c) \/ SucceedRaises(c)
        BY <1>0, <2>5, GotoHere DEF Succeed, SucceedRaises, TypeInv
  <2> QED BY <2>1, <2>2, <2>3, <2>4, <2>5
<1>4. BackupInv(c)'
  <2>1. "backup" \notin mishap => Full(c)
        BY <1>2 DEF Inv, BackupInv
  <2> QED BY <1>1, <1>3, <2>1 DEF BackupInv, Full
<1>5. WholeInv(c)'
  <2>1. mishap = {} => app = NewCode
        BY <1>2 DEF Inv, WholeInv
  <2>2. mishap = {} /\ run[c].pc = "pip" => panel # "down"
        BY DEF Inv, WholeInv
  <2>3. 1..(1 - 1) = {}
        OBVIOUS
  <2> QED BY <1>1, <1>3, <2>1, <2>2, <2>3 DEF WholeInv
<1> QED BY <1>4, <1>5, <1>9

\* After an error: to the restore if state.json names a full backup.
LEMMA ErrorKeeps ==
    ASSUME NEW c, Clicks = {c}, Inv(c), RunnerStep(c), Error(c)
    PROVE  Inv(c)'
<1>0. /\ c \in Clicks /\ TypeInv' /\ AskInv(c)' /\ TypeInv
      /\ run[c] \in [pc : Places, at : Nat, dir : Clicks \cup {NoOne}]
      BY RunnerType, RunnerAsks DEF Inv, TypeInv, RunOK
<1>9. Inv(c)' <=> BackupInv(c)' /\ WholeInv(c)'
      BY <1>0 DEF Inv
<1>1. UNCHANGED <<app, bak, made, mishap>> /\ run[c].pc = "error"
      BY DEF Error
<1>2. CASE BackupOnRecord = NoOne
  <2>1. run'[c].pc = "fail"
        BY <1>0, <1>2, GotoHere DEF Error, TypeInv
  <2>2. ~(c \in made /\ st.action = c)
        BY <1>0, <1>2, ParamAssumption DEF BackupOnRecord
  <2>3. WholeInv(c)'
        BY <1>1, <2>1, <2>2 DEF Inv, WholeInv
  <2>4. BackupInv(c)'
        BY <1>1, <2>1 DEF Inv, BackupInv, Full
  <2> QED BY <1>9, <2>3, <2>4
<1>3. CASE BackupOnRecord # NoOne
  <2>1. run'[c].pc = "restore" /\ run'[c].at = 1
        BY <1>0, <1>3 DEF Error, TypeInv, RunOK
  <2>2. c \in made
        BY <1>0, <1>3 DEF BackupOnRecord, TypeInv, TypeOK
  <2>3. BackupInv(c)'
        BY <1>1, <2>1, <2>2 DEF Inv, BackupInv, Full
  <2>4. 1..(1 - 1) = {}
        OBVIOUS
  <2>5. WholeInv(c)'
        BY <1>1, <2>1, <2>4 DEF WholeInv
  <2> QED BY <1>9, <2>3, <2>5
<1> QED BY <1>2, <1>3

\* The restore, path by path, out of the runner's own full backup.
LEMMA RestoreKeeps ==
    ASSUME NEW c, Clicks = {c}, Inv(c), RunnerStep(c), RestorePath(c) \/ RestoreFails(c)
    PROVE  Inv(c)'
<1>0. /\ c \in Clicks /\ TypeInv' /\ AskInv(c)' /\ TypeInv
      /\ run[c] \in [pc : Places, at : Nat, dir : Clicks \cup {NoOne}]
      BY RunnerType, RunnerAsks DEF Inv, TypeInv, RunOK
<1>9. Inv(c)' <=> BackupInv(c)' /\ WholeInv(c)'
      BY <1>0 DEF Inv
<1>1. UNCHANGED <<bak, made>> /\ mishap \subseteq mishap' /\ run[c].pc = "restore"
      BY DEF RestorePath, RestoreFails
<1>2. run[c].at \in Paths /\ run[c].dir = c
      BY <1>0, <1>1 DEF TypeInv, RunOK
<1>3. "backup" \notin mishap => Full(c) /\ Full(c)'
      BY <1>1 DEF Inv, BackupInv, Full
<1>4. CASE RestoreFails(c)
  <2>1. run'[c].pc = "fail" /\ "restore" \in mishap'
        BY <1>0, <1>4, GotoHere DEF RestoreFails, TypeInv
  <2> QED BY <1>1, <1>3, <1>9, <2>1 DEF BackupInv, WholeInv
<1>5. CASE RestorePath(c)
  <2>1. \/ run[c].at = NPaths /\ run'[c].pc = "note"
        \/ run'[c].pc = "restore" /\ run'[c].at = run[c].at + 1
        BY <1>0, <1>1, <1>5, AdvanceHere DEF RestorePath, TypeInv
  <2>2. BackupInv(c)'
        BY <1>1, <1>3, <2>1 DEF BackupInv
  <2>3. mishap = {} => Full(c) /\ \A p \in 1..(run[c].at - 1) : app[p] = OldCode[p]
        BY <1>1, <1>3 DEF Inv, WholeInv
  <2>4. \A p \in Paths : app'[p] = IF p = run[c].at THEN bak[c][p] ELSE app[p]
        BY <1>0, <1>2, <1>5 DEF RestorePath, Restored, TypeInv, TypeOK
  <2>5. mishap = {} => \A p \in 1..(run[c].at) : app'[p] = OldCode[p]
        BY <1>2, <2>3, <2>4, PathsAssumption DEF Paths, Full
  <2>6. UNCHANGED mishap
        BY <1>5 DEF RestorePath
  <2>7. WholeInv(c)'
    <3>1. CASE run'[c].pc = "note"
      <4>1. app' \in [Paths -> Pieces] /\ OldCode \in [Paths -> Pieces]
            BY <1>0 DEF TypeInv, TypeOK, OldCode, Pieces
      <4>2. mishap = {} => \A p \in Paths : app'[p] = OldCode[p]
            BY <2>1, <2>5, <3>1 DEF Paths
      <4>3. mishap = {} => app' = OldCode
            BY <4>1, <4>2
      <4> QED BY <2>6, <3>1, <4>3 DEF WholeInv
    <3>2. CASE run'[c].pc = "restore"
      <4>1. run'[c].at - 1 = run[c].at
            BY <1>0, <2>1, <3>2
      <4> QED BY <2>5, <2>6, <3>2, <4>1 DEF WholeInv
    <3> QED BY <2>1, <3>1, <3>2
  <2> QED BY <1>9, <2>2, <2>7
<1> QED BY <1>4, <1>5

\* After the restore.
LEMMA RestoredKeeps ==
    ASSUME NEW c, Clicks = {c}, Inv(c), RunnerStep(c),
           \/ NoteRestored(c) \/ RestartOld(c) \/ PollOld(c) \/ RestoredDeadline(c)
           \/ FinishFailed(c)
    PROVE  Inv(c)'
<1>0. /\ c \in Clicks /\ TypeInv' /\ AskInv(c)' /\ TypeInv
      /\ run[c] \in [pc : Places, at : Nat, dir : Clicks \cup {NoOne}]
      BY RunnerType, RunnerAsks DEF Inv, TypeInv, RunOK
<1>9. Inv(c)' <=> BackupInv(c)' /\ WholeInv(c)'
      BY <1>0 DEF Inv
<1>1. UNCHANGED <<app, bak, made, mishap>>
      BY DEF NoteRestored, RestartOld, RestartService, PollOld, Poll, RestoredDeadline, FinishFailed
<1>2. \/ run[c].pc \in {"note", "rrestart", "rhealth"} /\ run'[c].pc \in {"rrestart", "rhealth", "fail"}
      \/ run[c].pc = "fail" /\ run'[c].pc = "failed"
  <2>1. CASE NoteRestored(c)
        BY <1>0, <2>1, GotoHere DEF NoteRestored, TypeInv
  <2>2. CASE RestartOld(c)
        BY <1>0, <2>2, GotoHere DEF RestartOld, RestartService, TypeInv
  <2>3. CASE PollOld(c)
        BY <1>0, <2>3, GotoHere, AdvanceHere DEF PollOld, Poll, TypeInv
  <2>4. CASE RestoredDeadline(c) \/ FinishFailed(c)
        BY <1>0, <2>4, GotoHere DEF RestoredDeadline, FinishFailed, TypeInv
  <2> QED BY <2>1, <2>2, <2>3, <2>4
<1>3. BackupInv(c)'
      BY <1>1, <1>2 DEF Inv, BackupInv, Full
<1>4. WholeInv(c)'
      BY <1>1, <1>2 DEF Inv, WholeInv
<1> QED BY <1>3, <1>4, <1>9

LEMMA NextInv == ASSUME NEW c, Clicks = {c}, Inv(c), [Next]_vars PROVE Inv(c)'
<1>1. CASE UNCHANGED vars
  <2>1. TypeInv'
        BY <1>1, NextType DEF Inv
  <2> QED BY <1>1, <2>1, Kept DEF vars, bounds
<1>2. CASE Next
  <2>1. ASSUME RunnerStep(c) PROVE Inv(c)'
        BY <2>1, PreparationKeeps, BackupKeeps, SwapKeeps, InstalledKeeps, ErrorKeeps,
           RestoreKeeps, RestoredKeeps DEF RunnerStep
  <2> QED BY <1>2, <2>1, PanelKeeps DEF Next
<1> QED BY <1>1, <1>2

\* One update or rollback, through any failures, crashes and reboots: unless a
\* copy of the backup failed, every path of the old code is somewhere on disk.
THEOREM OldNeverLost ==
    ASSUME NEW c, Clicks = {c}
    PROVE  Spec => []OldSurvivesFullBackup
<1>1. Init => Inv(c)
      BY InitInv
<1>2. Inv(c) /\ [Next]_vars => Inv(c)'
      BY NextInv
<1>3. Inv(c) => OldSurvivesFullBackup
  <2> SUFFICES ASSUME Inv(c), "backup" \notin mishap, NEW p \in OldHas
               PROVE  app[p] = "old" \/ bak[c][p] = "old"
      BY DEF OldSurvivesFullBackup
  <2>1. p \in Paths /\ OldCode[p] = "old"
        BY PathsAssumption DEF OldCode
  <2> QED BY <2>1 DEF Inv, BackupInv, Full
<1> QED BY <1>1, <1>2, <1>3, PTL DEF Spec

\* One update or rollback whose own steps are all that fails ends with one
\* version whole, whichever path the failure was at.
THEOREM EndsWithOneVersion ==
    ASSUME NEW c, Clicks = {c}
    PROVE  Spec => []EndsWhole
<1>1. Init => Inv(c)
      BY InitInv
<1>2. Inv(c) /\ [Next]_vars => Inv(c)'
      BY NextInv
<1>3. Inv(c) => EndsWhole
      BY DEF Inv, WholeInv, EndsWhole
<1> QED BY <1>1, <1>2, <1>3, PTL DEF Spec

-----------------------------------------------------------------------------
(* The verdict on one request.  A panel that starts announces an outcome    *)
(* only while state.json still holds an action; what it announces closes    *)
(* the action, and no later step of the same request writes another one.    *)

BeforeRestart == {"off", "start", "fetch", "record", "mkdir", "backup", "swap", "pip", "restart"}
OnTheWayBack == {"restore", "note", "rrestart", "rhealth", "fail", "failed"}

VerdictInv(c) ==
    mishap = {} =>
        /\ run[c].pc = "off" => ask[c] = "idle"
        /\ run[c].pc # "killed"
        /\ run[c].pc \in {"off", "done", "failed"} => st.action = NoOne
        /\ panel = "down" => ask[c] \notin {"launched", "audited"}
        /\ run[c].pc = "error" /\ panel = "down" => app = NewCode
        /\ told.ok + told.failed <= 1
        /\ told # Silent => /\ st.action = NoOne
                            /\ run[c].pc \notin BeforeRestart
                            /\ ask[c] \notin {"launched", "audited"}
        /\ told.failed > 0 =>
              /\ run[c].pc \in OnTheWayBack
              /\ run[c].pc \in {"fail", "failed"} => app = OldCode
              /\ panel = "old" \/ (panel = "down" /\ run[c].pc \in {"rhealth", "fail", "failed"})

LEMMA InitVerdict == ASSUME NEW c \in Clicks, Init PROVE VerdictInv(c)
BY DEF Init, VerdictInv, Silent

LEMMA WhichVersion ==
    /\ OldCode[Core] = "old" /\ NewCode[Core] = "new" /\ OldCode # NewCode
    /\ "old" # "new"
<1>1. Core \in Paths /\ Core \in OldHas /\ Core \in NewHas
      BY PathsAssumption
<1>2. OldCode[Core] = "old" /\ NewCode[Core] = "new"
      BY <1>1 DEF OldCode, NewCode
<1> QED BY <1>2

\* A step after which nothing of the verdict has changed but the place of check.
LEMMA VerdictKept ==
    ASSUME NEW c \in Clicks, VerdictInv(c), mishap \subseteq mishap',
           UNCHANGED <<app, run, panel, told>>,
           mishap' = {} => st'.action = st.action,
           ask'[c] = ask[c] \/ (ask[c] = "launched" /\ ask'[c] = "audited")
    PROVE  VerdictInv(c)'
BY DEF VerdictInv

\* init_on_startup: only an action that is still open is announced, and the
\* version that was started tells which way it went.
LEMMA StartsVerdict ==
    ASSUME NEW c, Clicks = {c}, Inv(c), VerdictInv(c), PanelStarts
    PROVE  VerdictInv(c)'
<1>0. TypeOK /\ c \in Clicks
      BY DEF Inv, TypeInv
<1>1. /\ panel = "down" /\ panel' = app[Core] /\ panel' \in {"old", "new"}
      /\ UNCHANGED <<app, bak, made, run, ask, mishap>>
      BY DEF PanelStarts
<1>2. \/ told' = told /\ st'.action = st.action
      \/ st.action # NoOne /\ st'.action = NoOne /\ panel' = "new" /\ told' = [told EXCEPT !.ok = @ + 1]
      \/ st.action # NoOne /\ st'.action = NoOne /\ panel' = "old"
         /\ told' \in {told, [told EXCEPT !.failed = @ + 1]}
      BY <1>0, <1>1 DEF PanelStarts, InitOnStartup, LeftBySuccess, TypeOK
<1> SUFFICES ASSUME mishap = {} PROVE VerdictInv(c)'
    BY <1>1 DEF VerdictInv
<1>3. /\ run[c].pc \notin {"start", "fetch", "record", "mkdir", "backup", "swap", "pip", "restart"}
      /\ run[c].pc \in {"health", "healthy", "done"} => app = NewCode
      /\ run[c].pc \in {"note", "rrestart", "rhealth"} => app = OldCode
      /\ run[c].pc \in {"fail", "failed"} => app \in {OldCode, NewCode}
      /\ run[c].pc = "error" => app = NewCode
      BY <1>1 DEF Inv, WholeInv, VerdictInv
<1>4. st.action # NoOne => run[c].pc \notin BeforeRestart
      BY <1>3 DEF VerdictInv, BeforeRestart
<1>5. st.action # NoOne => run[c].pc \notin {"off", "done", "failed", "killed"} /\ told = Silent
      BY DEF VerdictInv
<1>6. run[c].pc \in Places
      BY <1>0 DEF TypeOK
<1>7. CASE told' = told /\ st'.action = st.action
  <2>1. told.failed > 0 => app = OldCode
        BY <1>1, <1>3 DEF VerdictInv
  <2>2. told.failed > 0 => panel' = "old"
        BY <1>1, <2>1, WhichVersion
  <2> QED BY <1>1, <1>7, <2>2 DEF VerdictInv
<1>8. CASE st.action # NoOne /\ st'.action = NoOne /\ panel' = "new" /\ told' = [told EXCEPT !.ok = @ + 1]
  <2>1. told'.ok = 1 /\ told'.failed = 0
        BY <1>5, <1>8 DEF Silent
  <2> QED BY <1>1, <1>4, <1>8, <2>1 DEF VerdictInv
<1>9. CASE /\ st.action # NoOne /\ st'.action = NoOne /\ panel' = "old"
           /\ told' \in {told, [told EXCEPT !.failed = @ + 1]}
  <2>1. app # NewCode
        BY <1>1, <1>9, WhichVersion
  <2>2. run[c].pc \in OnTheWayBack
        BY <1>3, <1>4, <1>5, <1>6, <1>9, <2>1 DEF BeforeRestart, OnTheWayBack, Places, Forward, InRepair, Ended
  <2>3. run[c].pc \in {"fail", "failed"} => app = OldCode
        BY <1>3, <2>1
  <2>4. told'.ok + told'.failed <= 1
        BY <1>5, <1>9 DEF Silent
  <2> QED BY <1>1, <1>4, <1>9, <2>2, <2>3, <2>4 DEF VerdictInv
<1> QED BY <1>2, <1>7, <1>8, <1>9

LEMMA PanelVerdict ==
    ASSUME NEW c, Clicks = {c}, Inv(c), VerdictInv(c), PanelStep \/ PanelCrashes \/ Reboot
    PROVE  VerdictInv(c)'
<1>0. c \in Clicks /\ TypeOK /\ run[c] \in [pc : Places, at : Nat, dir : Clicks \cup {NoOne}]
      BY DEF Inv, TypeInv, RunOK
<1>1. CASE Click(c)
  <2>1. /\ run'[c].pc = "start" /\ run[c].pc = "off" /\ ask'[c] = "launched" /\ panel = "old"
        /\ UNCHANGED <<app, mishap, told, panel>>
        BY <1>0, <1>1 DEF Click, Goto, TypeOK, Inv, AskInv
  <2>2. mishap = {} => told = Silent
        BY <2>1 DEF VerdictInv, BeforeRestart
  <2> QED BY <2>1, <2>2 DEF VerdictInv, BeforeRestart, Silent
<1>2. CASE AuditStarted(c)
  <2>1. ask'[c] = "audited" /\ ask[c] = "launched" /\ st'.action = st.action
        BY <1>0, <1>2 DEF AuditStarted, TypeOK
  <2> QED BY <1>0, <1>2, <2>1, VerdictKept DEF AuditStarted
<1>3. CASE Claim(c)
  <2>1. /\ ask'[c] = "claimed" /\ ask[c] = "audited" /\ UNCHANGED <<app, run, panel, told>>
        /\ mishap' = {} => mishap = {} /\ run[c].pc \in {"start", "fetch", "record"}
        BY <1>0, <1>3 DEF Claim, TypeOK
  <2> QED BY <2>1 DEF VerdictInv
<1>4. CASE CheckBegins \/ CheckSucceeds \/ CheckFails
  <2>1. /\ UNCHANGED <<app, run, panel, ask, told>> /\ mishap \subseteq mishap'
        /\ st'.action = st.action
        BY <1>0, <1>4 DEF CheckBegins, CheckSucceeds, CheckFails, TypeOK
  <2> QED BY <1>0, <2>1, VerdictKept
<1>5. CASE PanelStarts
      BY <1>5, StartsVerdict
<1>6. CASE PanelCrashes \/ Reboot
  <2>1. /\ UNCHANGED <<app, st, told>> /\ mishap \subseteq mishap' /\ panel' = "down"
        /\ mishap' = {} => run[c].pc \in Ended \cup {"off"} /\ run' = run
        BY <1>0, <1>6 DEF PanelCrashes, Reboot, PanelDies, Alive, TypeOK
  <2>2. ask'[c] = IF ask[c] \in {"launched", "audited"} THEN "gone" ELSE ask[c]
        BY <1>0, <1>6 DEF PanelCrashes, Reboot, PanelDies
  <2> QED BY <2>1, <2>2 DEF VerdictInv, Ended, OnTheWayBack
<1> QED BY <1>0, <1>1, <1>2, <1>3, <1>4, <1>5, <1>6 DEF PanelStep

\* The runner before its restart: nothing has been announced, and the panel that
\* handles the request is still there.
LEMMA ForwardVerdict ==
    ASSUME NEW c, Clicks = {c}, Inv(c), VerdictInv(c),
           \/ RunnerBegins(c) \/ Fetch(c) \/ Record(c) \/ MakeBackupDir(c)
           \/ BackupPath(c) \/ BackupFails(c) \/ SwapPath(c) \/ SwapFails(c) \/ Pip(c)
    PROVE  VerdictInv(c)'
<1>0. c \in Clicks /\ RunOK
      BY DEF Inv, TypeInv
<1>1. /\ run[c].pc \in BeforeRestart \ {"off", "restart"} /\ mishap \subseteq mishap'
      /\ UNCHANGED <<panel, told, ask>>
      BY DEF RunnerBegins, Fetch, Record, MakeBackupDir, BackupPath, BackupFails, SwapPath,
             SwapFails, Pip, BeforeRestart
<1>2. run'[c].pc \in (BeforeRestart \ {"off"}) \cup {"error"}
      BY <1>0, <1>1, GotoHere, AdvanceHere DEF RunnerBegins, Fetch, Record, MakeBackupDir,
         BackupPath, BackupFails, SwapPath, SwapFails, Pip, BeforeRestart
<1>3. mishap = {} => panel # "down"
      BY <1>1 DEF Inv, WholeInv, BeforeRestart
<1>4. mishap = {} => told = Silent
      BY <1>1 DEF VerdictInv
<1>5. mishap' = {} => /\ run'[c].pc \notin {"off", "killed", "done", "failed"}
                     /\ ask' = ask /\ panel' # "down"
      BY <1>1, <1>2, <1>3 DEF BeforeRestart
<1> QED BY <1>1, <1>4, <1>5 DEF VerdictInv, Silent

LEMMA InstalledVerdict ==
    ASSUME NEW c, Clicks = {c}, Inv(c), VerdictInv(c),
           Restart(c) \/ PollNew(c) \/ HealthDeadline(c) \/ Succeed(c) \/ SucceedRaises(c)
    PROVE  VerdictInv(c)'
<1>0. c \in Clicks /\ RunOK /\ TypeOK
      BY DEF Inv, TypeInv
<1>1. mishap = {} => app = NewCode /\ ~(told.failed > 0)
      BY DEF Restart, RestartService, PollNew, Poll, HealthDeadline, Succeed, SucceedRaises,
             Inv, WholeInv, VerdictInv, OnTheWayBack
<1>2. UNCHANGED <<app, mishap, told>>
      BY DEF Restart, RestartService, PollNew, Poll, HealthDeadline, Succeed, SucceedRaises
<1>3. CASE Restart(c)
  <2>1. panel' = "down" /\ run'[c].pc \in {"health", "error"} /\ UNCHANGED st
        BY <1>0, <1>3, GotoHere DEF Restart, RestartService, PanelDies
  <2>2. ask'[c] = IF ask[c] \in {"launched", "audited"} THEN "gone" ELSE ask[c]
        BY <1>0, <1>3 DEF Restart, RestartService, PanelDies
  <2> QED BY <1>1, <1>2, <2>1, <2>2 DEF VerdictInv, BeforeRestart
<1>4. CASE PollNew(c) \/ HealthDeadline(c) \/ SucceedRaises(c)
  <2>1. run'[c].pc \in {"health", "healthy", "restore", "error"} /\ UNCHANGED <<st, panel, ask>>
    <3>1. CASE PollNew(c)
          BY <1>0, <3>1, GotoHere, AdvanceHere DEF PollNew, Poll
    <3>2. CASE HealthDeadline(c)
          BY <1>0, <3>2 DEF HealthDeadline, RunOK
    <3>3. CASE SucceedRaises(c)
          BY <1>0, <3>3, GotoHere DEF SucceedRaises
    <3> QED BY <1>4, <3>1, <3>2, <3>3
  <2> QED BY <1>1, <1>2, <2>1 DEF VerdictInv, BeforeRestart
<1>5. CASE Succeed(c)
  <2>1. run'[c].pc = "done" /\ st'.action = NoOne /\ UNCHANGED <<panel, ask>>
        BY <1>0, <1>5, GotoHere DEF Succeed, TypeOK
  <2> QED BY <1>1, <1>2, <2>1 DEF VerdictInv, BeforeRestart
<1> QED BY <1>3, <1>4, <1>5

\* The way back.
LEMMA RepairVerdict ==
    ASSUME NEW c, Clicks = {c}, Inv(c), VerdictInv(c),
           \/ Error(c) \/ RestorePath(c) \/ RestoreFails(c) \/ NoteRestored(c) \/ RestartOld(c)
           \/ PollOld(c) \/ RestoredDeadline(c) \/ FinishFailed(c)
    PROVE  VerdictInv(c)'
<1>0. c \in Clicks /\ RunOK /\ TypeOK
      BY DEF Inv, TypeInv
<1>1. CASE Error(c)
  <2>1. run[c].pc = "error" /\ run'[c].pc \in {"fail", "restore"}
        /\ UNCHANGED <<app, mishap, told, st, panel, ask>>
        BY <1>0, <1>1, GotoHere DEF Error, RunOK
  <2>2. mishap = {} => ~(told.failed > 0)
        BY <2>1 DEF VerdictInv, OnTheWayBack
  <2> QED BY <2>1, <2>2 DEF VerdictInv, BeforeRestart
<1>2. CASE RestorePath(c)
  <2>1. run[c].pc = "restore" /\ run'[c].pc \in {"restore", "note"}
        /\ UNCHANGED <<mishap, told, st, panel, ask>>
        BY <1>0, <1>2, AdvanceHere DEF RestorePath
  <2> QED BY <2>1 DEF VerdictInv, BeforeRestart, OnTheWayBack
<1>3. CASE RestoreFails(c)
      BY <1>3 DEF RestoreFails, VerdictInv
<1>4. CASE NoteRestored(c)
  <2>1. run[c].pc = "note" /\ run'[c].pc = "rrestart" /\ st'.action = st.action
        /\ UNCHANGED <<app, mishap, told, panel, ask>>
        BY <1>0, <1>4, GotoHere DEF NoteRestored, TypeOK
  <2> QED BY <2>1 DEF VerdictInv, BeforeRestart, OnTheWayBack
<1>5. CASE RestartOld(c)
  <2>1. run[c].pc = "rrestart" /\ run'[c].pc \in {"rhealth", "fail"} /\ panel' = "down"
        /\ UNCHANGED <<app, mishap, told, st>>
        BY <1>0, <1>5, GotoHere DEF RestartOld, RestartService, PanelDies
  <2>2. ask'[c] = IF ask[c] \in {"launched", "audited"} THEN "gone" ELSE ask[c]
        BY <1>0, <1>5 DEF RestartOld, RestartService, PanelDies
  <2>3. mishap = {} => app = OldCode
        BY <2>1 DEF Inv, WholeInv
  <2> QED BY <2>1, <2>2, <2>3 DEF VerdictInv, BeforeRestart, OnTheWayBack
<1>6. CASE PollOld(c) \/ RestoredDeadline(c)
  <2>1. run[c].pc = "rhealth" /\ run'[c].pc \in {"rhealth", "fail"}
        /\ UNCHANGED <<app, mishap, told, st, panel, ask>>
        BY <1>0, <1>6, GotoHere, AdvanceHere DEF PollOld, Poll, RestoredDeadline
  <2>2. mishap = {} => app = OldCode
        BY <2>1 DEF Inv, WholeInv
  <2> QED BY <2>1, <2>2 DEF VerdictInv, BeforeRestart, OnTheWayBack
<1>7. CASE FinishFailed(c)
  <2>1. run[c].pc = "fail" /\ run'[c].pc = "failed" /\ st'.action = NoOne
        /\ UNCHANGED <<app, mishap, told, panel, ask>>
        BY <1>0, <1>7, GotoHere DEF FinishFailed, Patch, TypeOK
  <2> QED BY <2>1 DEF VerdictInv, BeforeRestart, OnTheWayBack
<1> QED BY <1>1, <1>2, <1>3, <1>4, <1>5, <1>6, <1>7

LEMMA NextVerdict ==
    ASSUME NEW c, Clicks = {c}, Inv(c), VerdictInv(c), [Next]_vars
    PROVE  VerdictInv(c)'
<1>1. CASE UNCHANGED vars
      BY <1>1 DEF vars, VerdictInv
<1>2. CASE RunnerStep(c)
      BY <1>2, ForwardVerdict, InstalledVerdict, RepairVerdict DEF RunnerStep
<1> QED BY <1>1, <1>2, PanelVerdict DEF Next

\* One update or rollback: if its failure was announced and its runner has ended,
\* the old version is on disk and runs, or is about to (init_on_startup, main).
THEOREM FailureMeansOld ==
    ASSUME NEW c, Clicks = {c}
    PROVE  Spec => []FailureIsTrue
<1>1. Init => Inv(c) /\ VerdictInv(c)
      BY InitInv, InitVerdict
<1>2. Inv(c) /\ VerdictInv(c) /\ [Next]_vars => Inv(c)' /\ VerdictInv(c)'
      BY NextInv, NextVerdict
<1>3. VerdictInv(c) => FailureIsTrue
      BY DEF VerdictInv, FailureIsTrue
<1> QED BY <1>1, <1>2, <1>3, PTL DEF Spec

\* One update or rollback is announced once, with one outcome, whatever the order
\* of the panel's starts and the runner's writes (init_on_startup).
THEOREM AnnouncedOnce ==
    ASSUME NEW c, Clicks = {c}
    PROVE  Spec => []OneVerdict
<1>1. Init => Inv(c) /\ VerdictInv(c)
      BY InitInv, InitVerdict
<1>2. Inv(c) /\ VerdictInv(c) /\ [Next]_vars => Inv(c)' /\ VerdictInv(c)'
      BY NextInv, NextVerdict
<1>3. VerdictInv(c) => OneVerdict
      BY DEF VerdictInv, OneVerdict
<1> QED BY <1>1, <1>2, <1>3, PTL DEF Spec

=============================================================================
