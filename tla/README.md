# Verification of Bot4VPS

TLA+ models of the concurrent and crash-prone parts of Bot4VPS, TLC configurations that check them on small
instances, and theorems about them that TLAPS checks for every value of the constants.  Paths are relative to the
repository; `map` in PROJECT.json gives the lines behind every definition.

    tlc -workers 2 -config TaskQueue.cfg TaskQueue        # a run: its configuration and the module PROJECT.json names
    tlapm TaskQueueProofs.tla                             # the proofs of one component

## 1. The system

One Python process, the panel (`core/`, the Telegram bot and the FastAPI web UI in one asyncio loop), a console that
runs the same core in processes of its own, and short-lived detached runners (self-update, web-port change, self-restore).
State is a handful of JSON documents, a SQLite database and files; the servers being administered are reached over SSH.
A component is described by its state, its operations, what it touches, what is hard, and what makes it correct.

| component | state | operations | interacts with | hard behaviour | correct when |
|---|---|---|---|---|---|
| task queue (`core/task_manager.py`) | `_queues`, `_running`, `_queue_state`, `_live_reported` in memory; history files | enqueue, cancel, retry_last_failed, clear_queue, `_pump`, runner, history delete/clear | event service, audit, UIs, services | coroutines interleave at every await; cancel against completion; restart loses memory; disk errors | one task per server, none stranded, each reported once and truthfully, status final |
| task history (`core/task_history_store.py`, `core/json_store.py`) | `logs/tasks/*.json` | append with prune, delete, clear, quarantine | task queue | failing writes, limits | newest N remain |
| live observers (`ui/telegram/task_ui.py`, handlers) | observers suspended in `Task.wait` | start, watch, tell | task queue, Telegram | the mark that silences the event against the event; a reply that raises | the user hears of a result once |
| backup lock protocol (`core/backup/locks.py`) | flock files, `maintenance_state.json` | begin_backup, begin_restore, release, reconcile | manager, scheduler, console | several processes; kill -9; timeouts | restores alone, one backup per target, no stale marker blocks for good |
| backup operations (`core/backup/operations.py`, `manager.py`) | operation records, owner locks | create, restore, reconcile_startup, retention, import, delete | locks, storage, catalog | crash between any two writes; reconciliation beside live operations | a record is closed once and truthfully |
| event service and queue (`core/event_service.py`, `notification_queue.py`) | journal, queue rows with claim and lease | create_event, claim, complete, release, purge | task queue, monitor, notifier | worker threads, leases, policy changes | no event forgotten, one delivery at a time |
| Telegram delivery (`ui/telegram/notifications.py`) | `_PENDING_DELIVERIES`, `_FLUSH_TASK`, window state | notifier, flush, drain, stop/start of the bot | queue, Telegram, web presence | buffer against timer, self-cancelling flush, drain in parallel, restart | as above, and windows respected |
| self-update (`core/update/`) | code tree, backup dir, `state.json` | check, install, rollback, runner, init_on_startup | systemd, audit, event service | two processes on one file; any step fails; reboot | one whole version, old code never lost, one verdict, never stuck |
| background jobs (`core/jobs_runtime.py`) | job table | run_repeating, stop | all | overruns | runs of one job do not overlap |
| availability, SSL monitor (`core/monitor.py`) | `monitor.json`, transitions in SQLite | probes, update_server_availability | events, metrics | probes race; a stale fact in flight | users hear the latest fact |
| backup scheduler (`core/backup/scheduler.py`) | `automatic_state.json`, scheduler owner lock | claim, run, retention, recover | manager, operations | crash between claim, create and retention | each occurrence once |
| artifacts, catalog (`core/backup/storage.py`, `catalog.py`, `record_store.py`) | archive/manifest pairs, `catalog.json` | publish_pair, delete_pair, retention, reconcile | manager | crash between two renames | no pair half there |
| restore planning, application (`restore_plan.py`, `restore_apply.py`) | plan, rollback set on the target | plan, apply, rollback | SSH, locks | failure after the mutation boundary | rolled back or reported as partial |
| self-restore (`self_restore*.py`) | state.json, go file, marker, operation record | launch, gate, stop, extract, start, health; close, adopt, abandon | systemd, locks, startup hooks | runner kills the process it works for; restart before it ends; cancel at the boundary | rewritten alone; true verdict; nothing left behind |
| inventory, validation (`inventory*.py`, `validation.py`, `manifest.py`) | indexes | parse, index | artifacts | little control | pure data |
| secrets, encryption (`core/secretbox.py`, `archive_crypto.py`) | master key file | create/load key, encrypt | config, backups | two processes create the key | one key |
| metrics, state DB (`core/metrics.py`, `state_db.py`, `operation_metrics.py`) | SQLite series, watermark | insert, fold_hours, prune | jobs | fold against prune after downtime | no hour lost |
| audit (`core/audit*.py`) | append-only table | record, query | all | pairing of start and end records | pairs close |
| server registry, config (`core/storage.py`, `servers.py`, `config.py`) | `servers.json`, `config.json` | read, mutate, compare-and-set | all | several processes, quarantine of broken files | no lost update |
| SSH, host keys (`core/ssh.py`, `host_keys.py`) | known keys | connect, run | all | network | key change refused |
| quick setup: SSH access (`quick_setup/ssh_access.py`, `key_registry.py`) | remote sshd config, registry | change_port, keys, rollback | SSH | losing the only door to a host | reachable after any failure |
| quick setup: firewall etc. (`quick_setup/firewall/`, `fail2ban.py`, `packages.py`) | remote rules | apply, switch backend | SSH | partial application | reachable |
| web port (`core/web_port.py`) | config, unit, runner | launch, apply, rollback | systemd | as self-update | panel reachable on one port |
| web TLS (`core/web_tls.py`) | certificates | renew, install | systemd | failed renewal | old certificate kept |
| services (`core/integrator.py`, `services/`) | plug-ins | actions as tasks | task queue, SSH | shell scripts | - |
| web UI, Telegram UI, console, installer (`ui/`, `install.sh`) | sessions, wizards | screens over the core | all | presentation | - |
| scripts, terminal, upload, presence | files, sessions | run, upload | SSH | thin | - |

The hazards in PROJECT.json name, for this code, the line where an interleaving, a crash, a stale read or a partial
failure bites, and the properties aimed at it; a hazard without a property says why.

## 2. The modules and the code

`XProofs` holds the theorems about `X` (section 6), TaskQueueProofs those about LiveReport too; `MCX` gives the constants of its run where it needs definitions for them.

**SerialExecutor** is what the task queue promises: a line of accepted tasks per server, at most one busy, begun from the
head, ended once, and an idle server with work begins it (weak fairness is part of the promise).

**TaskQueue** is `TaskManager`.  An action is the stretch between two suspension points.  No `async with self._lock` block
awaits inside, so the lock is never contended and every block is one step.  `pumps[s]` counts `_pump(s)` coroutines
created and not begun; `stage` is where a task is in runner(): `settling` is the await of the cancel watcher between the
terminal status and the event, `booking` the time between the event and the pump's bookkeeping.  Ids stand for the order
of `created_at`.  A disk error in `_push_history` loses the file.  The queue is memory, so `Restart` loses it; the history
is not.  `pause()` and `_emit_queue_paused` have no callers, so `paused` is always False, `continue_queue` always returns
False and has no action.

**LiveReport** extends TaskQueue with the handlers that start a task and answer for its result: the reply, the scheduled
watcher, `wait()`, the release of the mark, the last message.  Each Telegram call may raise.

**BackupLocks** is `LockCoordinator` as `BackupManager` uses it by any number of processes: owner, admission, maintenance
(shared by backups, exclusive for a restore) and target locks, the marker on disk, the operation records and
`reconcile_startup`.  `Crash(p)` frees every flock of a process and leaves its files.  Reconciliation's reading and clearing of the
marker is one step, because everyone else needs the admission lock it holds.  `ClearGivesUp` is the clearing that waits
five seconds for admission; only a holder that itself waits for maintenance can outlast it.  The timeouts of a backup's shared lock and of a
restore's target are unreachable, which is what NeverWaits says (proved); their actions can only be taken in the cases that remain.
Marker states intent and active are one, since every reader treats them alike.  `create_if_no_match` is abstracted to
operation ids that are never used twice.

**SelfRestore** extends it with the one restore whose process does not survive it: `self_restore.py`, its detached runner (`self_restore_runner.py`), the
startup hooks of `ui/web/app.py`, `bot.py` and the scheduler, and the console's offer to close an open operation.  Own is that restore, Panel the process that begins it.
`Announce`, `Launch`, `CrossBoundary` and `OpenGate` are the four writes of `apply_self_restore` that others can see; then the caller
polls state.json and finalizes (`CallerFinalizes`), or somebody raises (`GiveUp`).  `runner` is where the runner is; its report, the note that the service was stopped and the tree it leaves are
`report`, `stopped`, `tree`.  `RunnerStops` kills the panel with everything it holds (`PanelEnds`, which is Crash for a process that may hold nothing).  `service` walks
through a start: *closing* (reconcile_maintenance_state, then every open self-restore whose report is final or silent is finalized), *adopting* (the owner lock of one
whose runner reports that it runs, and a watcher), *scheduling* (reconcile_startup), *up*.  Adopts is FALSE for the Telegram-only unit, whose hook does not adopt.  A live runner's heartbeat is
never an hour old, so `Silent` is its death.  `early` is history: somebody left or closed Own before the runner had stopped the service.  A finalizer's reading, judging and
closing is one step, because what it reads has come to rest or is silent; the five seconds for which a start waits for admission are not a failure, and the health check's verdict and its report are one step.

**BackupStore** is the life of the backups of one destination: `scheduler.py` (claim, dispatch, run, retention, status,
recovery), `manager.py` (create, delete, verify, cancel, clear, `reconcile_startup`), `storage.py` (publish_pair, delete_pair,
quarantine), `catalog.py` and `operations.py`.  Occurrences are days.  One thread of work at a time holds the worker lock; the user's
requests run beside it, against the same destination, artifact and catalog locks.  `files[a]` is what there is of a pair, whose two files are
moved one after the other; `cat` is the catalog, records with their claims; `ops` the operation records; `row` the line of automatic_state.json; `queue` the
occurrences that wait for the worker; `th` the threads of the scheduler and of the user's request.  `Crash` loses the
memory and the locks, `Boot` is the recovery of a start, step by step, in the order of the code; a recovery that raises is only logged (`RecoveryFails`), and the panel
goes on without its scheduler until the next start.

**Restore** is `prepare_restore`, `apply_restore`, `cancel` and the application itself (`restore_plan.py`, `restore_apply.py`), at the granularity of
the remote commands.  Contents are versions of paths; the tree has two levels so that deleting a directory takes
what is in it.  `target` is the server, `ops` the operations with what each showed and the copy it names, `copies` the protective copies the panel keeps,
`w` the worker with the operation in hand, `touched` what others changed.  A test of a path that fails counts as its absence, as in `existing_target_paths`
(`restore_apply.py:328-338`): the path is not copied and the application goes on (`w.overlooked`); a failed test of a root is an empty inventory.  Between preparation and application others may edit the server (`Edit`), and a step may fail, lose its connection or die with the panel (`Fault`).

**SelfUpdate** is `updater.py` in the panel and `main()` of `runner.py` in its own process, both writing `state.json` with
no lock.  `app`, `bak` hold what each path of CODE_PATHS is made of (old, new, part of a copy, nothing).  `run[c].pc` walks
through main(); any of its steps may raise.  systemd may start the panel whenever it is down; `InitOnStartup` is what that
start does.  A rollback is the same run with another target.  `mishap` is history: which disturbances happened, so that a
property can say which it allows.  One `write_state` is one step, and start-up reconciliation is one step.
pip's packages are outside the tree and are not restored by the code either.

**Delivery** is `notification_queue.py` with the push path (notifier, buffer, timer, flush) and the drain job of
`notifications.py`.  Rows are absent, free, or claimed by one path; `lapsed` is a claim whose five minutes are over.
Two facts of the code matter: `flush_pending` copies the buffer, then clears it, so an entry appended by a worker thread in
between is lost from the buffer while its claim stays; and `flush_pending` runs inside the task it cancels, so a delivery it
starts ends with CancelledError at its first suspension (`FlushCancelled`: the message has left or not).  A lease does not
lapse while its entry is buffered or in the flush, a matter of seconds.  `journal` is what the event journal still holds: its limit and its clearing take events away whose rows
wait (`LeaveJournal`), and such a row is closed untold (`notifications.py:642-645`, 1074-1084).  `told` means delivered to somebody.  Only ordinary events:
availability events are resolved by rules of their own, which Availability has, and events that are journalled only have no row.

**Availability** is one server's reachability: the light checks of an open page, the availability job and the silent system job probe it
(`monitor.py`), fold what they saw into `monitor.json` under the lock, save the transition to the state database and post an online/offline
event; `notifications.py` resolves the row against `reported`, the state users heard last.  A read of `monitor.json` and its truncating
write are separate steps, so a reader meets the torn file.  Messages are in flight between the claim and the completion of
their row.  `heard` is what the last message said.

**HostFirewall** is the server side that the firewall modules share: rule sets of ufw, firewalld and nftables as kernel filter, saved
configuration and unit that is enabled or not, what each backend's open, close, enable, disable and a reboot do to them, and `Admits`, whether a port gets through all
of the filters that are loaded.

**FirewallSwitch** is `switch_backend` with `_switch_rollback`, and open, close, enable and disable beside it (`quick_setup/firewall/`).
A request reads the backends' status and the source's rules, asks the user which of them to keep, prepares the target, gives it the rules, compares both firewalls
once more, switches the source off, verifies with a fresh login, and finishes or undoes.  `fw` is the server, `op` the operation, `ssh` its control session,
`moved` the ports others edited meanwhile.  A `command -v` that fails makes a backend absent in the code, so a look may see `Misread` instead of the server, and ufw's deactivate may change nothing and succeed;
`overlooked` remembers that.  There is one request at a time; **FirewallOverlap** composes two (section 7, 25).  Every call may fail untouched, half-way or after its work; the
server may reboot; somebody else may edit the rules.

**FirewallMigrate** extends it with the older requests for the same firewalls: `migrate` with `_migration_rollback` (the exact rules are carried over, the target keeps its own, rules that cannot
be opened are asked about once all is back), `install_backend` (which becomes a migration when another firewall is active, and has no rollback when
none is) and `remove` of ufw and firewalld.  A change that the code could not save (nftables' dump) is a success with a message, as in the code.

**SshPort** is `change_port` with its rollback and `recover_after_commit` (`ssh_access.py`): sshd's files, the socket drop-in of socket-activated
hosts, the running daemon and socket, the firewall rules of the old and new port and the record in `servers.json`.  A login with the
recorded port is a real attempt against the state of the server.  An opening that is refused may have taken effect and is answered "unchanged" all the same (`ufw.py:291-312`, `nftables.py:1137-1164`); the
call's `overlooked` is the firewalls where that happened.

**SshAccess** is the rest of `ssh_access.py` that changes anything: set and unset of sshd's directives (root login, password authentication) with proof and undoing,
keys (generate, install, switch to, remove), passwords, accounts (create, switch the panel's account, delete), sudo, and the record
the panel keeps.  `conf` is the drop-in on disk, `live` what the running sshd has read, `acct` the server's accounts with their keys and passwords, `files` the key files of
the panel, `rec` its record.  `Prove` is the login with the new way before the record or sshd changes, `Restore` the undoing of a file to what was
read before.  `Relies(m)` are the ways in that an operation that is running has in hand; another user of the panel edits the
record only to a way that works and that no operation is about to take away.  `blind` marks an operation that took a failed command for an answer: a listing that failed is "no sudo", a refused reload on a
socket-activated host is done.

## 3. The runs

| run | instance | distinct states | shows |
|---|---|---|---|
| TaskQueue | 2 servers, 3 tasks, history of 1 | 569 000 | no lost wakeup; one report of each end; every task ends; it implements SerialExecutor |
| LiveReport | 1 server, 2 tasks, Telegram may fail | 137 000 | a waiter wakes only after its event, quietly journalled; every watcher ends |
| BackupLocks | 2 backups of one target, one of a console, and the restore of the installation begun in the panel | 292 000 | exclusion; a restore that ended leaves no marker; only the dead are abandoned; the installation is rewritten with nothing else at work; the verdict on it is true; whatever a death leaves is cleared |
| BackupStore | 2 days, 3 artifacts, keep 1, 2 upsets, 1 request | 192 500 | behind a record stands its pair; the newest are kept; an occurrence runs once and settles; a cancel is honoured |
| Restore | 3 operations, 3 paths, 1 foreign edit, 1 upset | 9 190 000 | what is lost is in a copy, taken before, unless its test failed; only what was shown is deleted; applied means applied |
| SelfUpdate | 3 paths (new only, both, old only), 1 reboot, 1 crash | 79 000 | ends with one whole version; failure reports true; announced once; every install settles |
| SelfUpdateLost | same | stops early | **violated**: the old code survives a failed backup |
| Delivery | 2 events, 2 upsets (restart, stop, mute, pruning of the journal) | 584 000 | nothing forgotten while the journal has it; every event settles (and no deadlock) |
| Availability | 3 probers, 2 flips, 1 row, 1 upset, 1 touch | 113 000 | a change is found by one prober; what users heard comes to be what the panel knows, up to the cases the property names |
| SshPort | 1 change, 2 upsets | 36 700 | the server can be entered; a rollback that says so is one; other rules stay |
| SshAccess | 2 operations in turn, 1 edit, 2 upsets, 68 initial situations | 3 000 000 | the recorded way in works whenever no operation runs; the last key stays while passwords are off; answers are true |
| FirewallSwitch | 2 requests of any kind in turn, 1 edit, 1 upset, ten initial situations | 698 000 | SSH stays admitted; a finished switch outlives a reboot; no server is left bare; the list decided on is fresh; undone is undone |

Every property of a passing run has a mutant in PROJECT.json: a plausible bug in a mapped definition that makes TLC find
the property violated.  Mutated forms stand beside the definitions, marked "Mutated".  Type invariants are not in the runs: they are
proved, as parts of inductive invariants (section 6).  `OneAtATime`, `FailureIsReal`, `OneAttempt`, `MarkerHasName` and `BoundaryFirst` are theorems and therefore left to the proofs.

Deadlock is not checked where the system really stops: a bounded number of tasks, operations or clicks is used up.

## 4. Bounds

- *Tasks, events, operations.*  Two waiting behind one running is what the queue's hazards need: a cancel in the middle of a
  queue, a retry put before what waits, a pump scheduled twice.  Two events are one digest, or a single with a latecomer.
  Two backups of one target, one in the panel and one in a console, and the restore of the installation give every pair of kinds; a second restore brings nothing to the
  composition that the proofs of section 6 do not cover.  Deaths and restarts have no bound of their own: operations are used up.
- *HistoryLimit = 1* makes pruning happen with the second task, so that a recorded failure may be gone from the history.
- *Results* = a success with warnings and a failure: the two ways the code tells apart; a cancelled outcome arises in the queue and
  in a runner that finds the flag.  *Observed* = FALSE in TaskQueue, since LiveReport adds the marked tasks.
- *BackupStore.*  MaxDays 2 and Keep 1: the second day's backup makes retention delete the first; MaxArts 3 leaves one for the user; MaxFaults 2: a crash
  and a crash during the recovery from it, or an error before a crash; MaxEdits 1 is one request of the user: verify, delete, cancel, clear.
- *Restore.*  Three paths: one in the archive with another beside it in its directory, and one in a directory of its own, which is what deletion,
  overwriting and the protection of neighbours tell apart.  Three operations: a backup's restore, a second preparation over it, and the way back.
- *Paths* = 3 in SelfUpdate: one path per kind (new only, both, old only), the middle one holding version.py, so that a panel that
  starts in mid-swap sees either version.  OlderPrev: an earlier update left its previous_version behind.
- *Availability.*  Probers job, page and sync are the three ways a probe is folded; MaxFlips 2 lets a server go and come back during a message, MaxRows 1 (2 was
  checked once, 1 050 000 states) is the row a newer fact must close.
- *SshPort, SshAccess, FirewallSwitch.*  MaxFaults 2 (1 in FirewallSwitch: section 7, 19) is a failure and a failure of its undoing; MaxEdits 1 one change made by somebody else in between;
  MaxCalls 2 any operation after any other (three without edits were checked once, 852 000 states); MaxRounds 2 a request and the answer to its question; Ports 22, 80 and 443 are SSH,
  a port in the list decided on, and one that is added later.
- *MaxReboots, MaxCrashes, MaxUpsets* bound disturbances, not normal steps; two upsets (MaxStops) are enough for a stop during a restart's aftermath, or for a mute or a pruning
  between a claim and its delivery.  The proofs of section 6 need none of these bounds.

## 5. Fairness

- *TaskQueue, LiveReport.*  Weak fairness on pumps, runners, observers: asyncio runs every coroutine that is
  scheduled; and on executors, which carry their own timeouts.  No caller is obliged to call, and no Restart is forced.
- *BackupLocks.*  Weak fairness on the steps of an operation, of the caller and of the runner: every poll of a lock, every wait and every command ends by its timeout.  The services
  run with `Restart=always` (install.sh, `ui/cli/systemd_ops.py`) and reconcile as they start, hence weak fairness on a start, and the assumption that it is not killed half-way for ever.
  Two more are asked of the administrator: a service that the runner could not start is started, and one that is up is restarted some day, since only a start looks
  for what a death has left.  DeathIsNoticed needs both.
- *BackupStore.*  Weak fairness on Boot (for the same reason), on the scheduler's work (`Schedule \/ Work("sched")`) and on the user's (`Work("user") \/ EndVerify`); nobody has to ask for anything, and the clock need not reach another day.  None on RecoveryFails: nothing obliges a recovery to raise, and
  EveryOccurrenceSettles excuses a panel that is left without its scheduler.
- *SelfUpdate.*  Weak fairness on the runner, whose waits all have deadlines, on the two writes of
  start_install, on the end of a check, and on the start of the panel on the old, known-to-run code only: new code may never start.
- *Delivery.*  Timers, flush, leases and windows pass with the clock; BotStarts because a stopped bot is started again;
  strong fairness on DrainBegins (the drain is a repeating job that upsets may disable for a while) and on DrainSends
  (Telegram does not fail every single time).  Nobody has to read, mute or unmute.
- *Availability.*  Weak fairness on the steps of a probe that has begun and on the ageing of leases, strong fairness on the steps of the drain (the drain repeats, and Telegram and the disk do not fail every time); no new probe is forced.
- *Restore, SshPort, SshAccess, FirewallSwitch* have safety properties only and assume no fairness: whatever stops in mid-way is a state they speak about.

## 6. Proofs

Each theorem follows the same argument: an invariant that is inductive, one lemma for each group of actions, and a last temporal step.

**TaskQueueProofs**, for any servers, number of tasks and history limit.  `OneAtATime` is inductive with TypeOK once it
says both directions (who is in `_running` is active; who is active is in `_running`) and that the entries of all queues are distinct; its
proof rests on lemmas about removing a position from a sequence and putting one in front, which the module holds.  `NoLostWakeup` is inductive with TypeOK.  `NeverBack`
needs `StatusInv` (a status is set only when a task leaves its queue or executor) and `Onward`, the list of what a step
may do to one task.  `RecordedFailureIsReal` uses the same list.  `EndIsReportedOnce` needs `JournalInv`, that a task which is not
over has been announced at most once and nothing else, and a second list, `Journals`: what a step may add to one task's journal.  `Serializes` is the refinement to
SerialExecutor, one lemma per kind of step: enqueue and retry accept, a cancel in the queue withdraws, the pump begins and finishes, a restart stops, all else
stutters.  It needs TypeOK and OneAtATime, since what is running or over must not be accepted again.
The observers of LiveReport call the queue with any value of `live_reported`, so all these lemmas are about `QueueStep`, in which the calls (`Asks`) leave it open.
`LiveInv` adds to them that a task has its status before its runner looks for the final event (`EndedInv`) and that whoever waits keeps the mark and was not
announced before (`WaitInv`); LiveTypes and WokenAfterTheEvent follow.

**BackupProofs** has three parts.  The first is the lock protocol, for any operations, targets and processes.  `ProtocolInv` relates each place in the protocol to the lock
it holds and to the name on the marker (AdmissionInv, MaintenanceInv, TargetInv, MarkerInv); `RecordInv` relates it
to the record.  MutualExclusion, NobodyWaits, MarkerCleared, LiveMarkerKept and AbandonedAreDead follow, and LocksTypeCorrect and MarkerNamed besides, all of the protocol alone (`LocksSpec`).

The second part is the protocol with a self-restore (`SelfSpec`), for any operations, targets and processes.  `SelfInv` is `ProtocolInv` with four parts.  `RunnerInv`: what the runner's
place says of its report, the gate and the tree.  `LocksInv`: while the installation is rewritten Own is dead, its marker stands and nobody holds maintenance; that
needs that a marker of Own with a runner excludes holders of the shared lock.  `StartInv`: what each stage of a start has got done, above all that behind it an open operation with a live or successful
runner is held by a live owner; this is where Adopts is needed.  `VerdictInv`: what a closed record may say.  The steps of the lock protocol are not gone through four times: each is shown once to be `Steady`,
a list of what it may do to Own, the marker and the phase, and Steady steps keep the invariant.  SelfExclusion, SelfMarkerCleared, NothingElseAtWork, VerdictTrue (assuming Adopts) and, with
`SelfRecordInv`, SelfAbandonedAreDead are everything safe that the run BackupLocks checks.

The third part is the daily backups (`Spec` of BackupStore), for any number of days, artifacts, errors, crashes and requests.  `Inv` is TypeOK and OncePerOccurrence with eight parts, checked by TLC before it was proved.
`ThreadOK`: what the step that a thread is at relies on (its operation is the running one, its pair is not listed yet, the record it deletes carries its claim).
`Apart`: the two threads neither publish or delete at once nor create the same backup.  `ArtOK`: what status, files and record of one backup may be together; a listed backup that is not whole (`Torn`)
is one the reconciliation of the start under way has yet to look at.  `OwnedOK`: once a start has been through the operations and its recovery has not failed, a running one has its thread.
`SchedOK`, `QueueOK`: the occurrences are worked off in the order of their days, and one still to be run has no operation but a cleared one.
`KeepOK`: behind every backup that retention has removed, is removing or has on its list there are Keep newer ones, because it takes the oldest first.  `UsedOK`: operations are numbered in their order.
BackupTypes, ListedIsWhole, RetentionKeeps, OncePerDay and CancelHolds follow.  A step of the work has several outcomes; there is one lemma per outcome, which says field by
field what it does, and each part of the invariant is shown from that.

**RestoreProofs**, for any paths, contents, operations, edits and upsets.  `Inv` is TypeOK with five parts: `WorkerInv` (where the worker is and which operation it has in
hand), `PlanInv` (a plan that has been confirmed is what the server was compared with), `CopyInv` (from the boundary on, the operation's protective copy holds
what it will overwrite or delete), `HeldInv` (a copy that an operation names is not dropped before its boundary is crossed) and `DoneInv` (which paths are done).
AlwaysACopy, NothingBeforeTheBoundary, OnlyWhatWasShown, CopiedBeforeItIsLost (with the excuse of a test that failed, section 7, 21) and AppliedMeansApplied follow from it;
the second is no property of the run, because the proof covers it.

**SelfUpdateProofs**, for any paths, versions and bounds.  `TypeCorrect` holds for any number of requests; it needs that a
restore always has a source.  `OldNeverLost` and `EndsWithOneVersion` are about one request (`Clicks = {c}`): with two the
statement is false: when the second request's download fails, its runner restores from the backup directory that state.json
names, which is the first one's and may be half filled.  start_install awaits between its check of the status and its claim, so two can start (a hazard).
`BackupInv` says the application is untouched until the backup is full, and that a recorded backup is full whenever
an error or a deadline may restore from it.  `FailureMeansOld` and `AnnouncedOnce` (one request again, any number of starts, crashes and reboots) add `VerdictInv`: what has been announced has
closed the action in state.json, the panel that the runner takes down has no write of start_install left to make, and a failure is announced on the way back only, by a panel that
started on the old code.  `told` counts the announcements of each outcome, so that a second one, repeated or contradicting, breaks OneVerdict.  `WholeInv` says how far a loop has come, and that as long as nothing else went wrong the panel is
up and state.json names the runner's backup, so that an error in mid-swap finds it.

**AvailabilityProofs**, for any probers, rows and bounds.  `MonitorInv` says that a probe inside the lock is alone there and compares with what the file holds
(MonitoringOK, Measured, LockInv, WriterInv, RecordInv); `TellingOK` and `KnownInv` type the rest.  EachChangeFoundOnce follows: no two probers post one change.

The last section of AvailabilityProofs is about the queue that its events go through (Delivery), for any set of events and any bound on stops.  `PushInv`: what the
buffer or the flush holds was dispatched, and its lease runs; `DrainInv`: the drain may lose a claim only on an event the notifier has already seen, so nobody can
claim it again from the push side.  `gone` from the journal is the only other way out of the queue.  With these, OneAttempt and NothingForgotten are inductive: QueueTypes, NeverTwoAttempts, NeverForgotten.

**FirewallProofs**, for any ports, initial firewalls, requests, edits and rounds, over the steps of FirewallMigrate too (`SpecMore`).  `ActInv` is the types, what an operation in hand names (`OpOK`) and that
past the first step some firewall filters (`OnInv`): FirewallTypes, and NeverWithout for any number of failures.  Every theorem of this module is about requests that come one after another: the code has nothing that
makes them, and two that overlap break NeverBare (section 7, 25).  What a look may see is bounded by `SeenFacts`: the server, or the server with installed backends missing.  `SafeInv` is what keeps the SSH port open: every backend `LetsIn` (also when a boot starts it from what is saved), and a source or
an active target shelters the panel through being switched off and on.  It is inductive with ActInv as long as a firewalld that is installed has the SSH port in its saved rules (`Configured`): SshStaysConfigured, for any number of failures.
That holds until a first failure, and the failure that ends it is alone: SshStays, `[](faults <= 1 => SshStaysOpen)`.  With two failures TLC locks the panel out in six steps: ufw is disabled; a switch
to firewalld fails while its ports are written (`firewalld.py:62-80`) and leaves it installed without the SSH port; firewalld is enabled, which starts it before it opens that port (174-202), and fails in between.
`ServerAssumption` is the hypothesis about the server the panel finds: it can be entered, and still after a reboot.  SwitchLasts needs `HostInv` (a backend that is enabled has rules to start from, and of nftables only the
panel's own table filters at a boot) and `FwdInv` (what an operation on its way forward has done so far: the target is made ready, what follows carries it, and it is switched on and enabled before the source goes) as long as the request has not overlooked a backend;
its hypothesis `Own` is that the persistent nftables rules are the panel's own, since a foreign table's persistence is left to the administrator (`nftables.py:480`).  FreshDecision adds `DecInv`: which rules each step between the inventory and the
switching-off may still rely on.

**SshPortProofs**, for any ports, firewalls and bounds.  PortTypes is about any number of overlapping calls.  The other three are about one call (`Ops = {o}`), since two overlapping ones lock out (section 7, 8), on
a host that is not socket-activated or whose ssh.socket has no drop-in of the panel's yet, since on one whose port the panel moved before a single upset locks out (section 7, 18).  `CallsInv` is TypeOK with five parts.
`CallInv`: what each step of the call says of its flags.  `FilesInv`: sshd's files are the snapshot's, those of both ports or those of the new one; what the snapshot and no socket drop-in give is what was listened on
before; one of the two ports is always listened on.  `WallsInv`: what was admitted before is what is admitted now without what was added and with the old port; until the commit, and once the old access is proved,
the old port is admitted, and from the snapshot to the last cleanup the new one is.  `UpsetInv`: which steps take an upset to get to, above all that with one upset a committed call that goes back has either
the old port admitted again or sshd still on the new one and no session that could move it.  `SafeInv`: the ways in that one upset leaves, now and after a reboot.  NeverShutOut,
RollbackHolds and RulesStay follow; the last two for any number of upsets.  There is one lemma per action: what it does to the call, then each part of the invariant.

**SshAccessProofs**, for any accounts, passwords, keys, edits and upsets, and any number of operations one after another: `~MayOverlap` is assumed, since two overlapping ones lock out (section 7, 9).
`ActInv` is the types, that one operation at most is running, and what each step says of the operation at it: the kinds that pass by it (`Passers`), whose account it is about (`Own`: the panel's own, or one that is not),
what it was given (`Given`) and what it has done so far (`Doing`).  `WasInv` says how things stood when it began (`Before`), since an undoing is only as good as what was read first, and that at rest the daemon runs what is on disk; `torn` excuses
both.  AccessTypes and TrueAnswers follow from these two for any server.  The other two theorems start from a server that the panel can enter (`Login(rec)`).  `LastInv` is about keys (`LastKey`): once the check has passed, the record or the running
operation can still enter without the key it is about to take, or the one a rollback would take, and the user's edits keep off what it has in hand (`InHand`).  `WayInv` is the way in itself: at each step the record enters, under what sshd
has read and under what is on disk (`Way`), or the operation still has what brings it back (`Safe`).  LastKeyKept and RouteKept follow.  For each action one lemma says what it does to the operation, the accounts and the configuration, and a second that it keeps the invariant.
The proof found an error of the model: in `Gates` the two refusals of add_key_to_user_fn (`ssh_access.py:3068-3089`) had become one through a misaligned conjunct.

The assumptions are the ASSUMEs of the modules; every run evaluates those of its module.

Only model-checked: liveness (EveryTaskEnds, WatchersEnd, DeathIsNoticed, EveryOccurrenceSettles, Settles, EventuallySettled, EventuallySaid) and the fairness of the
refinement to SerialExecutor, since fairness and ENABLED are out of TLAPS's reach; the sharper ReconciledIsWhole, which no run lists and nobody has proved yet; and
UndoneIsReal, which has no proof because it is no theorem for every MaxFaults: it is about one upset, and two upsets break it (section 7, 19).  No RECURSIVE operator is used, and nothing needs induction over data.

## 7. What the code does not keep

SelfUpdateLost is the run that expects a violation.  Where another configuration is named, it is kept beside it with one property that TLC finds
violated; run it with the module of that component's run.  "X in C.cfg" stands for a copy of C.cfg with the property X in place of those it has.

1. **A failed backup costs code** (SelfUpdateLost, `runner.py:410-413`).  `_backup_code` creates its directory before the first copy; when a copy raises,
   the restore takes every path the backup lacks for a new one and deletes it, though nothing had been replaced.
2. **clear_queue leaves audit pairs open** (TaskQueueAudit).  A waiting task whose start record was written when it was queued
   is closed as CANCELLED without an event (`task_manager.py:528`), against "the pair must come together" (763-765).
3. **A result may be told twice** (LiveReportTwice).  An observer that begins between the terminal status and the event releases the mark first.
4. **A result may be told by nobody** (LiveReportLost).  The mark is set before the reply; if the reply raises, nobody removes it.
5. **A status that stays busy** (AbandonedClosed in SelfUpdate.cfg).  A reboot between the runner's first status and the panel's action, or while the restored
   panel is being judged, leaves a busy status with no action, which init_on_startup does not close.
6. **A digest ignores the window** (HeldWhileOpen in Delivery.cfg).  The window is asked for single entries only.
7. **The way back of a half-failed restore can be gone** (RestoreWayBack, without foreign edits).  A new preparation's protective copy replaces the one that
   an earlier restore, which failed beyond its boundary, names as its way back (`manager.py:3210-3240`).
8. **Two changes of the SSH port lock out** (SshPortOverlap).  Nothing keeps them apart (`ssh_access.py:542`); each works from its own snapshot.
9. **Overlapping operations lock out** (SshAccessOverlap).  delete_user reads the record, switch_user records the account, delete_user deletes it.
   In the same way an undone file, restored whole, takes back what a concurrent operation wrote.
10. **Passwords can be turned off under root's way in** (SshAccessNoKey).  set_password_auth(False) asks for the panel's key and not for
   root's, against its comment (`ssh_access.py:2340-2342`).
11. **A verified rollback may not outlive a reboot** (FirewallSwitchUndone).  The rollback to nftables reports itself verified and leaves
   `nftables.service` disabled (`nftables.py:471-475` against 721, 1015).
12. **An unsaved switching-off is not told** (FirewallSwitchUnsaved).  When nftables is the source and its dump fails, the success answer drops the message, against
   "must be visible" (`nftables.py:569-571`); after a reboot both firewalls filter.
13. **A rule opened during a migration is lost** (FirewallMigrateLost).  migrate does not read the source's rules again before it switches the
   source off, as switch_backend does.
14. **A half-prepared nftables stays in force** (FirewallMigrateHidden).  When the preparation fails after the bypass is gone, the rollback takes no step against the
   target and its scan hides nftables behind the active source, so it reports itself verified while both filter.
15. **A failed preparation is never verified** (FailedPreparationIsTold in FirewallMigrateHidden.cfg).  `require_target=False` skips the target among the named, but not in the set of managed firewalls
   it expects active (`firewall/__init__.py:2275-2279`), so the rollback ends "unverified" for ufw and firewalld, which is what its docstring (2238-2243) says it avoids.
16. **A Telegram-only unit abandons a restore that succeeded** (VerdictIsTrue in BackupLocks.cfg with Adopts = FALSE).  `bot.py:365-380` calls reconcile_self_restores and not adopt_live_self_restores; the scheduler's
   reconcile_startup then abandons an operation whose runner is still at work, which is what the docstring of adopt_live_self_restores (`self_restore.py:556-565`) says must not happen.
17. **"Unmodified" is said of an installation that is then replaced** (UnmodifiedIsUntouched in BackupLocks.cfg).  Before the runner's first report the console's offer (`ui/cli/menu.py:1116-1130`, `ops.py:976`), or a start, closes the operation
   of a caller that is alive and goes on to let the runner go; finalize_self_restore does not look at the owner lock.
18. **A second change of a socket's port locks out when it fails** (SshPortMoved).  Where ssh.socket listens and an earlier change moved it, the undoing removes the panel's drop-in of ssh.socket
   (`_socket_clear_listen_ports`, `ssh_access.py:386-387`, 936) instead of putting back the one it found, against the docstring of `_restore_original_sshd` ("Вернуть exact snapshot и доказать рабочий старый доступ", 371): the socket
   listens on 22 again, which the firewalls no longer admit.
19. **A verified rollback may open a port** (UndoneIsReal in FirewallSwitch.cfg with MaxFaults = 2).  A port whose opening failed after firewalld had saved it is in its permanent rules and not in force.  When a migration
   away from that firewalld switches it off and the step reports a failure, the undoing starts it again, and it loads what it had saved.  `_migration_rollback` (`firewall/__init__.py:2390`) asks who is active and never reads the source's rules
   again, as the rollback of a switch does, and reports itself verified with the port open.  Where firewalld's rules agree with what it saved when it is switched off, TLC finds nothing with two upsets and with three.

20. **A row may be closed untold** (ClosedWasKnown in Delivery.cfg).  An event that the journal's limit (`json_store.py:494-507`) or its clearing removes while its row waits is closed by the delivery, which takes it for read
   (`notifications.py:642-645`): nobody was told, read it or muted it.  NothingForgotten and EventuallySettled are about events that the journal keeps.
21. **A path may be overwritten without its copy** (NothingOverlooked in Restore.cfg).  `existing_target_paths` keeps the paths that "really exist" and takes every nonzero code of `test` for absence (`restore_apply.py:328-338`), a refused sudo and
   a lost channel included; the path is left out of the protective copy (`manager.py:3367`) and then replaced or deleted.  Without any path left the copy is skipped with a warning (3495-3499).
22. **A rule may stay open behind a complete rollback** (NothingLeftOpen in SshPort.cfg).  An opening that took effect and was answered as a failure has `changed=False` (`ufw.py:291-312`, `nftables.py:1137-1164`), so the cleanup has nothing to
   take away and the rollback reports itself complete (`ssh_access.py:647-654`).
23. **A success that nobody saw** (SuccessWasSeen in SshAccess.cfg).  revoke_sudo takes a listing that failed for "no sudo" and answers success (`ssh_access.py:1307-1323`, 2307-2315); `_sshd_reload` reports a refused reload on a
   socket-activated host as done (211).  The second leaves file and daemon apart, which RouteWorks excuses as `torn`.
24. **A switch may be reported done with its source on** (SwitchIsReal in FirewallSwitch.cfg with MaxFaults = 2).  A failed `command -v` is "not installed" (`ufw.py:46-47`, `firewalld.py:38-45`, `nftables.py:67-71`): ufw's deactivate then answers success and changes nothing
   (84-94), and the final scan misses it in the same way (`firewall/__init__.py:1536-1553`).  Either failure alone is noticed.
25. **Two overlapping switches leave a server bare** (FirewallOverlap, run with that module).  Nothing keeps requests for one server apart (`firewall/__init__.py:981`, 4046, 4187, `quick_setup/manager.py:320-453`; each web request has a thread of its own).
   The switching-off of a source fails in the first, whose rollback proves the source safe (744-750); the second switch of the same firewalls prepares, compares and switches the source off (1481-1521); the first
   goes on to remove its table or to deactivate the target (782-815, 904) without looking again.  NeverBare is violated in 28 states.  SSH stays admitted in this instance (INVARIANT SshStaysOpen, 754 000 states, no error).

What the passing properties allow, and a reader should know:

- *Self-update.*  The panel that starts on the new version announces success before the runner's
  health check has judged it (OneVerdict allows it and excludes any second announcement, the same or another).
- *Delivery.*  A push delivery is in practice left to the drain, because the flush cancels itself.
- *Availability.*  EventuallySaid names its excuses, each of which TLC needs: the silent system job and the online anchor (`monitor.py:761-771`) take a change they find first and nobody is
  told (the docstring, 896-898, says reports are the light monitor's); a death between saving the change and posting its event, or between completing the row
  and remembering what was delivered (`notifications.py:733-737`); a message overtaken by a row that was closed against the older reported state; a server first
  seen offline, whose recovery is never told; a torn `monitor.json`, after which monitoring stops for good.
- *BackupStore.*  Clearing the history between two steps of the recovery makes an occurrence run again (against `docs/architecture.md:286-287` and `scheduler.py:24`), so
  OncePerOccurrence speaks of histories that are left alone meanwhile.  The claims of a dead retention are released by the reconciliation of a later start; a crash during a reconciliation
  turns a publication that could be recovered into a quarantined one; a failing last write of a status leaves the row open until the next start.  A recovery that raises (`scheduler.py:65-68`; `app.py:379` only logs it) leaves the panel without its scheduler until then:
  nothing is dispatched, what was claimed stays open, and the user's requests meet what was not reconciled, so PairBehindRecord speaks of a panel that is up after a full recovery.
- *Self-restore.*  `early` excuses what 17 describes, and a panel that dies by itself between letting the runner go and being stopped by it: its successor clears the marker
  and backups may start while the installation is rewritten.  poll_runner_state waits for ever for a runner that never writes state.json (its staleness test needs a state); such a caller ends with its process.
  A systemctl that takes longer than its timeout raises out of the runner's main, so that the start of the service, "best-effort whatever failed" (`self_restore_runner.py:412`), is not reached.
- *Restore.*  A cancel that is accepted while the preparation runs is ignored; a failing write of the final failure leaves the operation running until the next start.
- *SshPort.*  NeverLockedOut is about one upset.  With two, `recover_after_commit` moves sshd back to the old port even when reopening its rule has failed.
  An exception early in the rollback meets an unbound `socket_ports` and leaves no rollback at all.
- *SshAccess.*  `torn` marks two cases RouteWorks excuses: change_password that fails by an exception after the password was set, where only a refused write or a failed login is undone;
  and an operation that ended or died with a drop-in ahead of the daemon, which a later reload applies.  A rollback puts back the stored password, not the one that was in force.
  delete_user without the home keeps `authorized_keys`, which an account created again under that name gets back; a create_user that fails removes the home (`ssh_access.py:2166-2174`).
- *FirewallSwitch.*  Its properties are about requests that come one after another.  firewalld's permanent half stays behind a rollback that reports itself verified; firewalld starts before its SSH port is admitted (`firewalld.py:179-180`); a disable that
  fails leaves a bystander enabled for the next boot.  A migration to a target that was already active does not look at whether it starts at boot; a rule that was
  half opened while the answer says "unchanged" stays with the target.

## 8. Not modelled, and why

- Data and presentation: parsers, keyboards, texts, the front end, shell scripts of the services, cryptography.  Most of the repository's lines are
  of this kind (`ui/` and the service plug-ins), so the map's share of all lines is far below its share of the lines that hold state and order.
- Inside modelled components: removing the nftables package and the choice among several nftables chains (FirewallMigrate); the read-modify-write within one `write_state`, two update runners at once, and an update started from the console (SelfUpdate); restores
  from the previous protective copy, which the code refuses (Restore); reads in the web and muting (Availability: Delivery has them), the SSL, key and address jobs; import bundles and staging (BackupStore); two firewall requests at once, but for the instance of FirewallOverlap; NOPASSWD sudo,
  accounts without a login shell, an SSH agent's keys and the key registry (SshAccess, where a password and a sudo step given together are one step);
  remote commands after a lost connection are one burst (Restore).
- Components marked not_modelled in PROJECT.json, with the reason there.

## 9. Plan

Done, in this order: the task queue with its promise and its observers; the lock protocol with crash and reconciliation; the self-update; the delivery; availability;
the backups' life and their scheduler; restores; the SSH port, the firewalls and the SSH access of a server; the self-restore over the lock protocol.
Next, most important first:

1. **Proof** of UndoneIsReal for the firewalls, under the condition that section 7, 19 names: its invariant relates the source's, the target's and the saved rules at each step of a switch and of a migration.
2. **Stores**: JsonStore (compare-and-set under flock, quarantine), the master key's creation, the server registry.
3. **Metrics**: fold against prune and the watermark.
4. **Web port** as an instance of the runner pattern of SelfUpdate; SelfUpdate with two requests and write_state as read and write.

Abstract specifications worth stating: a readers-writers lock that BackupLocks implements, a lossless queue for Delivery, an at-most-once runner for the
scheduler.
