------------------------------ MODULE SshPort ------------------------------
(***************************************************************************)
(* change_port of core/quick_setup/ssh_access.py: moving the SSH port of a  *)
(* server the panel can reach only through SSH.  One remote command, login  *)
(* or servers.json write is one step; nothing in the panel serialises two   *)
(* requests for one server, so calls overlap when MayOverlap holds.  A      *)
(* remote command may fail without effect, or take effect and be reported   *)
(* as failed; a login may be refused by the network; the server may reboot  *)
(* and the panel may die: at most MaxFaults such upsets.                    *)
(***************************************************************************)
EXTENDS Integers, FiniteSets

CONSTANTS Ops,         \* calls of change_port
          Ports, Base, \* port numbers; Base is sshd's default, 22
          Walls,       \* the active firewalls: a port must pass all of them
          Hosts,       \* initial sshd configurations
          MayOverlap,  \* two calls may run at once
          MaxFaults    \* bound

ASSUME PortAssumption == Base \in Ports /\ MaxFaults \in Nat /\ MayOverlap \in BOOLEAN
\* main: Port lines of sshd_config; drop: of the panel's drop-in;
\* bysock: ssh.socket listens; sock: the panel's ssh.socket drop-in.
ASSUME HostAssumption ==
  Hosts \subseteq [main: SUBSET Ports, drop: SUBSET Ports,
                   bysock: BOOLEAN, sock: SUBSET Ports]

VARIABLES
  conf,    \* the files on the server, as in Hosts
  live,    \* ports sshd (or ssh.socket) listens on
  allow,   \* allow[w]: ports firewall w admits
  record,  \* the port servers.json holds
  op,      \* the calls
  faults

vars == <<conf, live, allow, record, op, faults>>
host == <<conf, live, allow>>

\* Ports a (re)start of sshd or of ssh.socket listens on.
Configured(c) ==
  LET own == IF c.bysock THEN c.sock ELSE c.main \cup c.drop
  IN  IF own = {} THEN {Base} ELSE own

\* A new login on p succeeds.
Door(p) == p \in live /\ \A w \in Walls : p \in allow[w]

Closed == {"idle", "done", "failed", "broken", "dead"}
Steps == {"connect", "preflight", "open", "unopen", "snapshot", "write", "sockq",
          "socket", "reload", "check", "verify", "commit", "close", "final",
          "reopen", "unreopen", "preclear", "fallback", "rfile", "rsock",
          "rload", "rverify", "rlisten", "revert", "cleanup"}
Running(o) == op[o].pc \notin Closed

\* via: the session the undoing uses; overlooked (history): firewalls where a
\* refused opening took effect and was answered as no change.
OpType ==
  [pc: Steps \cup Closed, old: Ports, new: Ports, want: SUBSET Ports,
   snap: SUBSET Ports, todo: SUBSET Walls, added: SUBSET Walls, back: SUBSET Walls, overlooked: SUBSET Walls,
   sock: {"unbound", "yes", "no"}, ctl: BOOLEAN, fall: BOOLEAN,
   via: {"ctl", "fall"}, committed: BOOLEAN, spoilt: BOOLEAN,
   restored: BOOLEAN, proved: BOOLEAN, complete: BOOLEAN,
   before: [live: SUBSET Ports, allow: [Walls -> SUBSET Ports]]]

Init ==
  /\ conf \in Hosts
  /\ live = Configured(conf)
  /\ record \in live
  /\ allow \in [Walls -> {{record}, {record, Base}, Ports}]
  /\ op = [o \in Ops |->
       [pc |-> "idle", old |-> record, new |-> record, want |-> {}, snap |-> {},
        todo |-> {}, added |-> {}, back |-> {}, overlooked |-> {}, sock |-> "unbound",
        ctl |-> FALSE, fall |-> FALSE, via |-> "ctl", committed |-> FALSE, spoilt |-> FALSE,
        restored |-> FALSE, proved |-> FALSE, complete |-> FALSE,
        before |-> [live |-> live, allow |-> allow]]]
  /\ faults = 0

-----------------------------------------------------------------------------
(* How a step can go.                                                       *)

Upset == faults < MaxFaults /\ faults' = faults + 1
Fine == UNCHANGED faults
At(o, pc) == op[o].pc = pc
Go(o, pc) == op' = [op EXCEPT ![o].pc = pc]
Becomes(o, rec) == op' = [op EXCEPT ![o] = rec]

\* The session a step uses is still there.
Session(o) == IF op[o].via = "ctl" THEN op[o].ctl ELSE op[o].fall

\* exec_sudo fails: no effect, or (when the session lives) the effect.
Fails(o, untouched, effect) ==
  \/ Session(o) /\ Upset /\ (untouched \/ effect)
  \/ ~Session(o) /\ Fine /\ untouched
Works(o, effect) == Session(o) /\ Fine /\ effect

\* A check whose true answer is yes; "no" may be the network's fault.
Answer(yes, ok, notok) ==
  \/ yes /\ Fine /\ ok
  \/ ~yes /\ Fine /\ notok
  \/ yes /\ Upset /\ notok

SetAllow(w, ports) == allow' = [allow EXCEPT ![w] = ports]

\* An exception before the commit (the generic except clause).  Reading
\* socket_ports before its assignment raises inside the handler.
Raised(o) ==
  CASE op[o].sock = "unbound" -> Go(o, "broken")
    [] op[o].sock = "yes" -> Go(o, "preclear")
    [] OTHER -> Go(o, "fallback")

\* What recover_after_commit does first: the old port is admitted again.
\* Mutated: it is not.
RecoverBlind(o, rec) ==
  Becomes(o, [rec EXCEPT !.todo = {}, !.added = op[o].added, !.spoilt = FALSE, !.pc = "fallback"])
RecoverWith(o, rec) ==
  Becomes(o, [rec EXCEPT !.todo = Walls, !.added = op[o].added, !.spoilt = FALSE,
                         !.pc = IF Walls = {} THEN "fallback" ELSE "reopen"])

-----------------------------------------------------------------------------
(* Up to the snapshot: the new port is admitted by every firewall first.    *)

Begin(o, p) ==
  /\ At(o, "idle") /\ p # record
  /\ MayOverlap \/ \A q \in Ops : ~Running(q)
  /\ op' = [op EXCEPT ![o].pc = "connect", ![o].old = record, ![o].new = p,
                      ![o].before = [live |-> live, allow |-> allow]]
  /\ UNCHANGED <<host, record, faults>>

Connect(o) ==
  /\ At(o, "connect")
  /\ Answer(Door(op[o].old),
            Becomes(o, [op[o] EXCEPT !.pc = "preflight", !.ctl = TRUE]),
            Go(o, "failed"))
  /\ UNCHANGED <<host, record>>

\* active_backends_on_ssh and preflight_close_port_on_ssh of the old port.
Preflight(o) ==
  /\ At(o, "preflight")
  /\ \/ Works(o, Becomes(o, [op[o] EXCEPT !.todo = Walls,
                        !.pc = IF Walls = {} THEN "snapshot" ELSE "open"]))
     \/ Fails(o, Go(o, "failed"), FALSE)
  /\ UNCHANGED <<host, record>>

\* open_port of one backend.  A rule that was there is not the panel's.  A
\* refused one may have taken effect (got); the panel calls the rule its own
\* only if it saw it appear (seen), and reads nothing after a failed command.
\* Mutated: every rule it asked for is.
AddedAlways(o, w) == {w}
AddedBy(o, w) == IF op[o].new \in allow[w] THEN {} ELSE {w}
OpenNew(o, w) ==
  LET p == op[o].new
      left == op[o].todo \ {w}
  IN  /\ At(o, "open") /\ w \in op[o].todo
      /\ \/ /\ Works(o, SetAllow(w, allow[w] \cup {p}))
            /\ Becomes(o, [op[o] EXCEPT !.todo = left,
                 !.added = @ \cup AddedBy(o, w),
                 !.pc = IF left = {} THEN "snapshot" ELSE "open"])
         \/ \E got \in SUBSET AddedBy(o, w) : \E seen \in SUBSET got :    \* refused
              /\ Session(o) /\ Upset
              /\ SetAllow(w, IF got = {} THEN allow[w] ELSE allow[w] \cup {p})
              /\ Becomes(o, [op[o] EXCEPT !.todo = op[o].added, !.restored = TRUE,
                   !.added = @ \cup seen, !.overlooked = @ \cup (got \ seen),
                   !.pc = IF op[o].added = {} THEN "rverify" ELSE "unopen"])
         \/ /\ Fails(o, UNCHANGED allow, SetAllow(w, allow[w] \cup {p}))
            /\ Go(o, "failed")                           \* raised: no snapshot yet
      /\ UNCHANGED <<conf, live, record>>

\* open_port_on_ssh takes back what it had opened before the refusal.
Unopen(o, w) ==
  LET left == op[o].todo \ {w}
      on == IF left = {} THEN "rverify" ELSE "unopen"
      gone == SetAllow(w, allow[w] \ {op[o].new})
  IN  /\ At(o, "unopen") /\ w \in op[o].todo
      /\ \/ /\ Works(o, gone)
            /\ Becomes(o, [op[o] EXCEPT !.todo = left, !.added = @ \ {w}, !.pc = on])
         \/ /\ Fails(o, UNCHANGED allow, gone)
            /\ Becomes(o, [op[o] EXCEPT !.todo = left, !.pc = on])
      /\ UNCHANGED <<conf, live, record>>

Snapshot(o) ==
  /\ At(o, "snapshot")
  /\ \/ Works(o, Becomes(o, [op[o] EXCEPT !.snap = conf.drop, !.pc = "write",
                                          !.want = {op[o].old, op[o].new}]))
     \/ Fails(o, Go(o, "failed"), FALSE)
  /\ UNCHANGED <<host, record>>

-----------------------------------------------------------------------------
(* sshd on both ports, then on the new one only: the same steps for want =  *)
(* {old, new} and want = {new}.                                             *)

Write(o) ==
  LET written == conf' = [conf EXCEPT !.drop = op[o].want]
  IN  /\ At(o, "write")
      /\ \/ /\ Works(o, written)
            /\ Go(o, CASE op[o].sock = "unbound" -> "sockq"
                       [] op[o].sock = "yes" -> "socket"
                       [] OTHER -> "reload")
         \/ Fails(o, UNCHANGED conf, written) /\ Raised(o)
      /\ UNCHANGED <<live, allow, record>>

\* _socket_activated; its answer becomes socket_ports.  A command that fails
\* answers no.
SocketAsked(o) ==
  /\ At(o, "sockq")
  /\ \/ Works(o, Becomes(o, IF conf.bysock
                            THEN [op[o] EXCEPT !.sock = "yes", !.pc = "socket"]
                            ELSE [op[o] EXCEPT !.sock = "no", !.pc = "reload"]))
     \/ Session(o) /\ Upset /\ Becomes(o, [op[o] EXCEPT !.sock = "no", !.pc = "reload"])
     \/ Fails(o, Raised(o), FALSE)
  /\ UNCHANGED <<host, record>>

\* The ssh.socket drop-in is written and the socket restarted; the restart
\* may be what fails.
Socket(o, ports, next, broken) ==
  LET wrote == conf' = [conf EXCEPT !.sock = ports]
      both == wrote /\ live' = Configured(conf')
  IN  \/ Works(o, both) /\ next
      \/ /\ Fails(o, UNCHANGED <<conf, live>>, both \/ (wrote /\ UNCHANGED live))
         /\ broken

ListenBySocket(o) ==
  /\ At(o, "socket")
  /\ Socket(o, op[o].want, Go(o, "reload"), Raised(o))
  /\ UNCHANGED <<allow, record>>

\* _sshd_reload; under socket activation it leaves the listeners alone, and a
\* reload that fails counts as done.
Reloaded == live' = IF conf.bysock THEN live ELSE Configured(conf)
Reload(o) ==
  /\ At(o, "reload")
  /\ \/ Works(o, Reloaded) /\ Go(o, "check")
     \/ conf.bysock /\ Session(o) /\ Upset /\ UNCHANGED live /\ Go(o, "check")
     \/ Fails(o, UNCHANGED live, Reloaded) /\ Raised(o)
  /\ UNCHANGED <<conf, allow, record>>

\* _port_listening of both ports.
CheckListeners(o) ==
  /\ At(o, "check")
  /\ Answer(Session(o) /\ live \cap {op[o].old, op[o].new} = op[o].want,
            Go(o, "verify"), Raised(o))
  /\ UNCHANGED <<host, record>>

\* _verify_candidate on the new port.
Verify(o) ==
  /\ At(o, "verify")
  /\ Answer(Door(op[o].new),
            Becomes(o, IF op[o].want = {op[o].new}
                       THEN [op[o] EXCEPT !.pc = "commit"]
                       ELSE [op[o] EXCEPT !.pc = "write", !.want = {op[o].new}]),
            Go(o, "fallback"))
  /\ UNCHANGED <<host, record>>

-----------------------------------------------------------------------------
(* servers.json by compare-and-set, the old port closed, a last login.      *)

Commit(o) ==
  /\ At(o, "commit") /\ UNCHANGED host
  /\ \/ /\ record = op[o].old /\ record' = op[o].new /\ Fine
        /\ Becomes(o, [op[o] EXCEPT !.committed = TRUE, !.todo = Walls,
                         !.pc = IF Walls = {} THEN "final" ELSE "close"])
     \/ record # op[o].old /\ UNCHANGED record /\ Fine /\ Go(o, "fallback")
     \/ UNCHANGED record /\ Upset /\ Raised(o)

\* After the last firewall; one refusal is enough to go back.
AfterClose(o, rec) ==
  CASE rec.todo # {} -> Becomes(o, rec)
    [] rec.todo = {} /\ rec.spoilt -> RecoverWith(o, rec)
    [] OTHER -> Becomes(o, [rec EXCEPT !.pc = "final"])
CloseOld(o, w) ==
  LET closed == [op[o] EXCEPT !.todo = @ \ {w}]
      gone == SetAllow(w, allow[w] \ {op[o].old})
  IN  /\ At(o, "close") /\ w \in op[o].todo
      /\ \/ Works(o, gone) /\ AfterClose(o, closed)
         \/ /\ Session(o) /\ Upset /\ UNCHANGED allow
            /\ AfterClose(o, [closed EXCEPT !.spoilt = TRUE])
         \/ Fails(o, UNCHANGED allow, gone) /\ RecoverWith(o, op[o])
      /\ UNCHANGED <<conf, live, record>>

Final(o) ==
  /\ At(o, "final")
  /\ Answer(Door(op[o].new), Go(o, "done"), RecoverWith(o, op[o]))
  /\ UNCHANGED <<host, record>>

-----------------------------------------------------------------------------
(* The way back: recover_after_commit, _restore_original_sshd and           *)
(* _firewall_cleanup_after_rollback.                                        *)

ReopenOld(o, w) ==
  LET p == op[o].old
      left == op[o].todo \ {w}
      opened == SetAllow(w, allow[w] \cup {p})
  IN  /\ At(o, "reopen") /\ w \in op[o].todo
      /\ \/ /\ Works(o, opened)
            /\ Becomes(o, [op[o] EXCEPT !.todo = left,
                 !.back = IF p \in allow[w] THEN @ ELSE @ \cup {w},
                 !.pc = IF left = {} THEN "fallback" ELSE "reopen"])
         \/ /\ Session(o) /\ Upset /\ (UNCHANGED allow \/ opened)    \* refused
            /\ Becomes(o, [op[o] EXCEPT !.todo = op[o].back,
                 !.pc = IF op[o].back = {} THEN "fallback" ELSE "unreopen"])
         \/ Fails(o, UNCHANGED allow, opened) /\ Go(o, "fallback")
      /\ UNCHANGED <<conf, live, record>>

Unreopen(o, w) ==
  LET left == op[o].todo \ {w}
      gone == SetAllow(w, allow[w] \ {op[o].old})
  IN  /\ At(o, "unreopen") /\ w \in op[o].todo
      /\ Works(o, gone) \/ Fails(o, UNCHANGED allow, gone)
      /\ Becomes(o, [op[o] EXCEPT !.todo = left,
                       !.pc = IF left = {} THEN "fallback" ELSE "unreopen"])
      /\ UNCHANGED <<conf, live, record>>

\* The except clause clears the socket drop-in before the restore; a failure
\* here leaves change_port by an exception.
Preclear(o) ==
  /\ At(o, "preclear")
  /\ Socket(o, {}, Go(o, "fallback"), Go(o, "broken"))
  /\ UNCHANGED <<allow, record>>

Fallback(o) ==
  /\ At(o, "fallback")
  /\ Answer(Door(op[o].old), Becomes(o, [op[o] EXCEPT !.fall = TRUE, !.pc = "rfile"]),
                             Go(o, "rfile"))
  /\ UNCHANGED <<host, record>>

\* The next session tries from the start; without one the undoing has failed.
NextSession(o) ==
  Becomes(o, IF op[o].via = "ctl" /\ op[o].fall
             THEN [op[o] EXCEPT !.via = "fall", !.pc = "rfile"]
             ELSE [op[o] EXCEPT !.pc = "rverify"])

\* restore_file, then _socket_activated: again a command that fails answers no.
RestoreFile(o) ==
  LET back == conf' = [conf EXCEPT !.drop = op[o].snap]
  IN  /\ At(o, "rfile")
      /\ \/ Works(o, back) /\ Go(o, IF conf.bysock THEN "rsock" ELSE "rload")
         \/ Session(o) /\ Upset /\ back /\ Go(o, "rload")
         \/ Fails(o, UNCHANGED conf, back) /\ NextSession(o)
      /\ UNCHANGED <<live, allow, record>>

RestoreSocket(o) ==
  /\ At(o, "rsock")
  /\ Socket(o, {}, Go(o, "rload"), NextSession(o))
  /\ UNCHANGED <<allow, record>>

RestoreReload(o) ==
  /\ At(o, "rload")
  /\ \/ /\ Works(o, Reloaded) \/ (conf.bysock /\ Session(o) /\ Upset /\ UNCHANGED live)
        /\ Becomes(o, [op[o] EXCEPT !.restored = TRUE, !.pc = "rverify"])
     \/ Fails(o, UNCHANGED live, Reloaded) /\ NextSession(o)
  /\ UNCHANGED <<conf, allow, record>>

\* The old access is proved by a login, not assumed.
RestoreVerify(o) ==
  /\ At(o, "rverify")
  /\ Answer(Door(op[o].old), Becomes(o, [op[o] EXCEPT !.proved = TRUE, !.pc = "rlisten"]),
                             Go(o, "rlisten"))
  /\ UNCHANGED <<host, record>>

RestoreListen(o) ==
  LET on(c) == [op[o] EXCEPT !.complete = c /\ op[o].restored /\ op[o].proved,
                             !.via = "ctl", !.todo = op[o].added,
                             !.pc = IF op[o].committed THEN "revert" ELSE "cleanup"]
  IN  /\ At(o, "rlisten")
      /\ Answer((op[o].ctl \/ op[o].fall) /\ op[o].new \notin live,
                Becomes(o, on(TRUE)), Becomes(o, on(FALSE)))
      /\ UNCHANGED <<host, record>>

Revert(o) ==
  LET rec(ok) == [op[o] EXCEPT !.complete = @ /\ ok, !.pc = "cleanup"]
      proven == op[o].restored /\ op[o].proved
  IN  /\ At(o, "revert") /\ UNCHANGED host
      /\ \/ /\ proven /\ record = op[o].new /\ record' = op[o].old /\ Fine
            /\ Becomes(o, rec(TRUE))
         \/ /\ ~(proven /\ record = op[o].new) /\ UNCHANGED record /\ Fine
            /\ Becomes(o, rec(FALSE))
         \/ UNCHANGED record /\ Upset /\ Becomes(o, rec(FALSE))

\* Only a rule the call added, and only after a proved rollback.
CleanedBy(o) == IF op[o].complete THEN op[o].todo ELSE {}
Cleanup(o) ==
  /\ At(o, "cleanup")
  /\ IF CleanedBy(o) = {}
     THEN Go(o, "failed") /\ UNCHANGED <<allow, faults>>
     ELSE \E w \in CleanedBy(o) :
            LET gone == SetAllow(w, allow[w] \ {op[o].new})
            IN  \/ /\ Works(o, gone)
                   /\ Becomes(o, [op[o] EXCEPT !.todo = @ \ {w}, !.added = @ \ {w}])
                \/ /\ Fails(o, UNCHANGED allow, gone)
                   /\ Becomes(o, [op[o] EXCEPT !.todo = @ \ {w}])
  /\ UNCHANGED <<conf, live, record>>

-----------------------------------------------------------------------------
(* The server restarts: sessions die, listeners come from the files.  The   *)
(* panel dies: its calls are gone.                                          *)

Reboot ==
  /\ Upset
  /\ live' = Configured(conf)
  /\ op' = [o \in Ops |-> [op[o] EXCEPT !.ctl = FALSE, !.fall = FALSE]]
  /\ UNCHANGED <<conf, allow, record>>

PanelDies ==
  /\ Upset /\ \E o \in Ops : Running(o)
  /\ op' = [o \in Ops |-> IF Running(o) THEN [op[o] EXCEPT !.pc = "dead"] ELSE op[o]]
  /\ UNCHANGED <<host, record>>

Proceed(o) ==
  \/ Connect(o) \/ Preflight(o) \/ Snapshot(o)
  \/ \E w \in Walls : OpenNew(o, w) \/ Unopen(o, w) \/ CloseOld(o, w)
                      \/ ReopenOld(o, w) \/ Unreopen(o, w)
  \/ Write(o) \/ SocketAsked(o) \/ ListenBySocket(o) \/ Reload(o)
  \/ CheckListeners(o) \/ Verify(o) \/ Commit(o) \/ Final(o)
  \/ Preclear(o) \/ Fallback(o) \/ RestoreFile(o) \/ RestoreSocket(o)
  \/ RestoreReload(o) \/ RestoreVerify(o) \/ RestoreListen(o) \/ Revert(o)
  \/ Cleanup(o)

Next ==
  \/ \E o \in Ops : Proceed(o) \/ \E p \in Ports : Begin(o, p)
  \/ Reboot \/ PanelDies

Spec == Init /\ [][Next]_vars

-----------------------------------------------------------------------------
\* Every variable keeps its type.
TypeOK ==
  /\ conf \in [main: SUBSET Ports, drop: SUBSET Ports,
               bysock: BOOLEAN, sock: SUBSET Ports]
  /\ live \in SUBSET Ports /\ allow \in [Walls -> SUBSET Ports]
  /\ record \in Ports /\ op \in [Ops -> OpType] /\ faults \in 0..MaxFaults

Enterable == \E p \in Ports : Door(p)
\* Whatever one upset interrupts, some port is listened on and admitted by
\* every firewall: the server can still be entered.  (After a second one in
\* the way back itself it may not be.)
NeverLockedOut == faults <= 1 => Enterable

\* Once every call has ended, however they overlapped, the server can still be
\* entered (ssh_access.py's "no: roll back, leave servers.json alone").
EntranceAtRest == (\A o \in Ops : ~Running(o)) => Enterable

\* A call that reports a complete rollback has left the files, listeners,
\* record and rules as it found them, but for a rule its last cleanup could
\* not remove (which the answer names: rule_retained) and for the rule of a
\* refused opening that took effect all the same.
RollbackIsReal ==
  \A o \in Ops : op[o].pc = "cleanup" /\ op[o].complete =>
    /\ live = op[o].before.live /\ record = op[o].old
    /\ conf.drop = op[o].snap \/ op[o].want = {}
    /\ \A w \in Walls : op[o].before.allow[w] =
         IF w \in op[o].added \cup op[o].overlooked
         THEN allow[w] \ {op[o].new} ELSE allow[w]

\* Without that exception: what a call that reports a complete rollback has left
\* open it names.
NothingLeftOpen ==
  \A o \in Ops : op[o].pc = "failed" /\ op[o].complete =>
    \A w \in Walls \ op[o].added : op[o].new \in allow[w] => op[o].new \in op[o].before.allow[w]

\* A call never takes away an admission that was there before it, but for
\* the old port's, and this one only when the new port is recorded.
OthersRulesStay ==
  [][\A w \in Walls : \A p \in allow[w] \ allow'[w] : \E o \in Ops :
       /\ Running(o)
       /\ \/ p = op[o].new /\ p \notin op[o].before.allow[w]
          \/ p = op[o].old /\ op[o].committed]_vars

=============================================================================
