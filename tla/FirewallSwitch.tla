--------------------------- MODULE FirewallSwitch ---------------------------
(***************************************************************************)
(* switch_backend of core/quick_setup/firewall: replacing the active        *)
(* firewall of a server by another one with the rules the user chose, and   *)
(* its rollback, next to the panel's own open/close/enable/disable requests *)
(* for the same server.  One backend call over SSH is one step; the calls   *)
(* of HostFirewall say what it does when it works or fails half-way.        *)
(***************************************************************************)
EXTENDS HostFirewall

CONSTANTS Firewalls,    \* initial states of the server's firewalls
          Ambiguous,    \* ports whose rules cannot be carried over exactly
          MaxFaults, MaxEdits, MaxRounds \* bounds: upsets, edits, requests

ASSUME SwitchAssumption ==
  /\ Ssh \in Ports /\ Ambiguous \subseteq Ports \ {Ssh}
  /\ Firewalls \subseteq [Backends -> FwType]
  /\ MaxFaults \in Nat /\ MaxEdits \in Nat /\ MaxRounds \in Nat

\* A backend that lets the panel in while it filters, and once a boot has
\* started it; only a table of nftables is named in servers.json.
LetsIn(b, r) ==
  /\ r.on => Ssh \in r.rules
  /\ b = "firewalld" /\ (r.on \/ r.boot) => r.have /\ Ssh \in r.saved
  /\ b = "nftables" /\ r.file = "on" => Ssh \in r.saved
  /\ r.named => b = "nftables"

\* firewalld will admit the SSH port when it is started.
Configured(r) == r.have => Ssh \in r.saved

\* The server the panel finds: it gets in, and does so after a reboot.
ASSUME ServerAssumption ==
  \A f \in Firewalls :
    Configured(f["firewalld"]) /\ \A b \in Backends : LetsIn(b, f[b])

VARIABLES
  fw,      \* the server's firewalls
  op,      \* the switch
  ssh,     \* its control session lives
  moved,   \* history: ports others edited since the switch last compared rules
  overlooked, \* history: it took an installed backend for absent
  faults, edits, rounds

vars == <<fw, op, ssh, moved, overlooked, faults, edits, rounds>>
bounds == <<faults, edits, rounds>>

NoFw == "none"
\* Of the requests FirewallMigrate adds.
MoreKinds == {"migrate", "install", "remove"}
MoreSteps == {"m_scan", "m_inventory", "m_prepare", "m_detect", "m_allow", "m_add", "m_verify",
              "m_login", "m_confirm", "m_off", "m_final", "m_login2", "m_verify2", "m_back",
              "m_safe", "m_unmake", "m_clean", "m_target_off", "m_last",
              "r_scan", "r_off", "r_look", "r_package"}
AtRest == {"idle", "asked", "switched", "stopped", "undone", "stuck", "removed"}
Steps == {"scan", "inventory", "prepare", "allow", "confirm_on", "baseline",
          "add", "preflight", "drop", "verify", "login", "confirm", "off", "login2",
          "final", "persist", "back", "safe", "readd", "unmake", "clean", "compare",
          "target_off", "last"}
OpType ==
  [pc: AtRest \cup Steps \cup MoreSteps, kind: {"switch"} \cup MoreKinds,
   src: Backends \cup {NoFw}, dst: Backends,
   had: SUBSET Ports, unclear: SUBSET Ports,   \* source inventory
   asked: SUBSET Ports, accepted: BOOLEAN,     \* what the user was shown, answered
   want: SUBSET Ports,                         \* desired
   made: BOOLEAN, base: SUBSET Ports, based: BOOLEAN, \* target: provisioned, snapshot
   todo: SUBSET Ports, added: SUBSET Ports, dropped: SUBSET Ports,
   offed: BOOLEAN,                             \* source deactivation and its state
   kept: {"no", "partly", "blind", "yes"}, was: FwType,
   safe: BOOLEAN, ok: BOOLEAN, warned: BOOLEAN,
   \* the other requests only (FirewallMigrate)
   wason: BOOLEAN, ready: BOOLEAN,             \* target: active before, prepared
   blind: Backends \cup {NoFw}, skip: SUBSET Ports, \* accepted: no rules of it, without these
   failed: SUBSET Ports, loose: BOOLEAN]       \* rules not opened, one perhaps opened

Idle(d) == [pc |-> "idle", kind |-> "switch", src |-> NoFw, dst |-> d, had |-> {}, unclear |-> {},
            asked |-> {}, accepted |-> FALSE, want |-> {}, made |-> FALSE,
            base |-> {}, based |-> FALSE, todo |-> {}, added |-> {}, dropped |-> {},
            offed |-> FALSE, kept |-> "no", was |-> fw[d], safe |-> FALSE,
            ok |-> TRUE, warned |-> FALSE, wason |-> FALSE, ready |-> FALSE, blind |-> NoFw,
            skip |-> {}, failed |-> {}, loose |-> FALSE]

Init ==
  /\ fw \in Firewalls
  /\ op = Idle("ufw") /\ ssh = FALSE /\ moved = {} /\ overlooked = FALSE
  /\ faults = 0 /\ edits = 0 /\ rounds = 0

-----------------------------------------------------------------------------
OneMore == faults < MaxFaults /\ faults' = faults + 1 /\ UNCHANGED <<edits, rounds>>
Upset == OneMore /\ UNCHANGED overlooked
Fine == UNCHANGED <<bounds, overlooked>>
Same == UNCHANGED fw
At(pc) == op.pc = pc
Go(pc) == op' = [op EXCEPT !.pc = pc]
Set(b, r) == fw' = [fw EXCEPT ![b] = r]
src == op.src
dst == op.dst

\* A step that works; a change of nftables that could not be saved counts as
\* one (_with_persistence).  The same step failing: untouched, half done, or
\* done and reported as failed.
Undumped(r, was) == {[r EXCEPT !.saved = was.saved, !.file = was.file, !.boot = was.boot],
                     [r EXCEPT !.boot = was.boot]}
Works(b, r) ==
  \/ ssh /\ Fine /\ Set(b, r)
  \/ ssh /\ Upset /\ b = "nftables" /\ \E u \in Undumped(r, fw[b]) \ {r} : Set(b, u)
Fails(b, r, half) ==
  \/ ssh /\ Upset /\ (Same \/ \E h \in half \cup {r} : Set(b, h))
  \/ ~ssh /\ Fine /\ Same
\* A read of the server, and what a read that fails does.
Reads == ssh /\ Fine /\ Same
ReadFails == Same /\ ((ssh /\ Upset) \/ (~ssh /\ Fine))
\* A detection whose `command -v` fails says "not installed", not "unknown":
\* what a look at all backends may see instead of them.
Missing(lost) ==
  [b \in Backends |-> IF b \in lost
                      THEN [fw[b] EXCEPT !.have = FALSE, !.on = FALSE, !.named = FALSE] ELSE fw[b]]
Misread == {Missing(lost) : lost \in SUBSET {b \in Backends : fw[b].have \/ fw[b].named} \ {{}}}
Overlooks == ssh /\ OneMore /\ overlooked' = TRUE /\ Same
\* A look that goes on when what it sees fits.
Looks(Fits(_), good, bad) ==
  \/ Reads /\ (IF Fits(fw) THEN good ELSE bad)
  \/ Overlooks /\ (\E seen \in Misread : Fits(seen)) /\ good
  \/ ReadFails /\ bad
\* deactivate of ufw, its detection overlooked, changes nothing and succeeds.
OffBlindly(b) == b = "ufw" /\ Overlooks
\* _verify_real_ssh: a new login.
Login(yes, no) ==
  /\ Same
  /\ \/ Admits(fw, Ssh) /\ Fine /\ yes
     \/ ~Admits(fw, Ssh) /\ Fine /\ no
     \/ Admits(fw, Ssh) /\ Upset /\ no

\* The except clause: a switch with a source is undone, one without is not.
Reconcile == src # NoFw
Abandon(o) ==
  op' = [o EXCEPT !.pc = IF ~Reconcile \/ o.pc \in {"scan", "inventory"} THEN "stopped"
                         ELSE IF o.offed THEN "back" ELSE "safe",
                  !.safe = FALSE, !.ok = ~o.offed]

-----------------------------------------------------------------------------
(* The request, the question to the user and his answer.                    *)

Request(d) ==
  /\ op.pc \in AtRest \ {"asked"} /\ rounds < MaxRounds /\ rounds' = rounds + 1
  /\ Admits(fw, Ssh)
  /\ op' = [Idle(d) EXCEPT !.pc = "scan"] /\ ssh' = TRUE /\ moved' = {} /\ overlooked' = FALSE
  /\ UNCHANGED <<fw, faults, edits>>

Starts(f) ==
  LET ends == [op EXCEPT !.pc = "stopped"]
  IN  op' = IF Uncertain(f) \/ Cardinality(Active(f)) > 1 THEN ends
            ELSE IF dst \in Active(f) THEN (IF op.accepted THEN ends ELSE [op EXCEPT !.pc = "switched"])
            ELSE IF Active(f) # {}
            THEN [op EXCEPT !.pc = "inventory", !.src = CHOOSE b \in Active(f) : TRUE]
            ELSE IF op.accepted THEN ends ELSE [op EXCEPT !.pc = "prepare", !.want = {Ssh}]
Scan ==
  /\ At("scan") /\ UNCHANGED <<ssh, moved>>
  /\ \/ Reads /\ Starts(fw)
     \/ Overlooks /\ \E seen \in Misread : Starts(seen)
     \/ ReadFails /\ Go("stopped")

\* The decision is tied to a fingerprint of the rules the user saw.
\* Mutated: the fingerprint is not compared.
AnyFingerprint(now) == TRUE
SameFingerprint(now) == op.asked = now
Inventory ==
  LET now == fw[src].rules
      exact == now \ Ambiguous
      got == [op EXCEPT !.had = exact, !.unclear = now \cap Ambiguous]
      others == now \ {Ssh}
  IN  /\ At("inventory") /\ UNCHANGED ssh /\ moved' = {}
      /\ \/ /\ Reads
            /\ IF op.accepted
               THEN IF SameFingerprint(now) /\ op.want \subseteq exact \cup {Ssh}
                    THEN op' = [got EXCEPT !.pc = "prepare"] ELSE Go("stopped")
               ELSE IF others # {} THEN op' = [got EXCEPT !.pc = "asked", !.asked = now]
               ELSE op' = [got EXCEPT !.pc = "prepare", !.want = exact \cup {Ssh}]
         \/ ReadFails /\ Go("stopped")

\* The user takes some of the rules he was shown; the request starts anew.
Decide ==
  /\ At("asked") /\ op.kind = "switch" /\ Same /\ UNCHANGED bounds /\ moved' = {} /\ overlooked' = FALSE
  /\ \/ /\ \E sel \in SUBSET op.asked :
             op' = [Idle(dst) EXCEPT !.pc = "scan", !.accepted = TRUE,
                      !.asked = op.asked, !.want = sel \cup {Ssh}]
        /\ ssh' = Admits(fw, Ssh)
     \/ Go("stopped") /\ UNCHANGED ssh

-----------------------------------------------------------------------------
(* The target: prepared, given the rules, compared; then the source goes.   *)

\* ensure_installed.  A table servers.json does not name is refused.
Prepare ==
  LET done == Readied(dst, fw[dst])
      begun == [op EXCEPT !.made = (dst = "nftables" /\ ~fw[dst].have)]
      refused == dst = "nftables" /\ fw[dst].have /\ ~fw[dst].named
  IN  /\ At("prepare") /\ UNCHANGED <<ssh, moved>>
      /\ \/ ~refused /\ Works(dst, done) /\ op' = [begun EXCEPT !.pc = "allow"]
         \/ ~refused /\ Fails(dst, done, HalfReadied(dst, fw[dst])) /\ Abandon(begun)
         \/ refused /\ (Reads \/ ReadFails) /\ Abandon(begun)

Open(p, next) ==
  LET was == p \in fw[dst].rules \/ (dst = "firewalld" /\ p \in fw[dst].saved)
  IN  \/ /\ Works(dst, Opened(dst, fw[dst], p))
         /\ op' = [next EXCEPT !.added = IF was THEN @ ELSE @ \cup {p}]
      \/ Fails(dst, Opened(dst, fw[dst], p), HalfOpened(dst, fw[dst], p)) /\ Abandon(op)

AllowSsh ==
  /\ At("allow") /\ UNCHANGED <<ssh, moved>>
  /\ Open(Ssh, [op EXCEPT !.pc = "confirm_on"])

ConfirmOn ==
  /\ At("confirm_on") /\ UNCHANGED <<ssh, moved>>
  /\ \/ /\ Reads
        /\ IF fw[dst].on /\ Ssh \in fw[dst].rules
           THEN Go(IF Reconcile THEN "baseline" ELSE "login") ELSE Abandon(op)
     \/ ReadFails /\ Abandon(op)

Baseline ==
  /\ At("baseline") /\ UNCHANGED <<ssh, moved>>
  /\ \/ /\ Reads
        /\ op' = [op EXCEPT !.pc = "add", !.base = fw[dst].rules, !.based = TRUE,
                            !.todo = op.want \ fw[dst].rules]
     \/ ReadFails /\ Abandon(op)

AddRule ==
  /\ At("add") /\ UNCHANGED <<ssh, moved>>
  /\ IF op.todo = {}
     THEN /\ op' = [op EXCEPT !.pc = "preflight", !.todo = op.base \ (op.want \cup {Ssh})]
          /\ Same /\ Fine
     ELSE \E p \in op.todo : Open(p, [op EXCEPT !.todo = @ \ {p}])

\* preflight_close_port of every stale rule before the first removal.
PreflightDrops ==
  /\ At("preflight") /\ UNCHANGED <<ssh, moved>>
  /\ (Reads /\ Go("drop")) \/ (ReadFails /\ Abandon(op))

DropRule ==
  /\ At("drop") /\ UNCHANGED <<ssh, moved>>
  /\ IF op.todo = {} THEN Go("verify") /\ Same /\ Fine
     ELSE \E p \in op.todo :
            LET trying == [op EXCEPT !.todo = @ \ {p}, !.dropped = @ \cup {p}]
            IN  \/ Works(dst, Dropped(dst, fw[dst], p)) /\ op' = trying
                \/ /\ Fails(dst, Dropped(dst, fw[dst], p), HalfDropped(dst, fw[dst], p))
                   /\ Abandon(trying)

\* _switch_exact_verification of the target.
Verify ==
  /\ At("verify") /\ UNCHANGED <<ssh, moved>>
  /\ \/ Reads /\ (IF fw[dst].rules = op.want THEN Go("login") ELSE Abandon(op))
     \/ ReadFails /\ Abandon(op)

LoginWithBoth ==
  /\ At("login") /\ UNCHANGED <<ssh, moved>>
  /\ Login(Go(IF Reconcile THEN "confirm" ELSE "login2"), Abandon(op))

\* The source is still active and still has the rules read at the start.
SourceAsRead == fw[src].rules \ Ambiguous = op.had /\ fw[src].rules \cap Ambiguous = op.unclear
OnlyParties(f) ==
  /\ f[src].on /\ f[dst].on /\ SourceAsRead
  /\ {b \in Managed : f[b].have /\ f[b].on} = {src, dst} \cap Managed
Confirm ==
  /\ At("confirm") /\ UNCHANGED ssh
  /\ Looks(OnlyParties, Go("off") /\ moved' = {}, Abandon(op) /\ UNCHANGED moved)

\* An exception leaves no state to restore from (kept).
SourceOff ==
  LET begun == [op EXCEPT !.offed = TRUE, !.was = fw[src]]
      done == Disabled(src, fw[src])
  IN  /\ At("off") /\ UNCHANGED <<ssh, moved>>
      /\ \/ /\ Works(src, done)
            /\ op' = [begun EXCEPT !.pc = "login2", !.kept = "yes", !.warned = fw'[src] # done]
         \/ /\ OffBlindly(src)
            /\ op' = [begun EXCEPT !.pc = "login2", !.kept = "blind"]
         \/ /\ Fails(src, done, HalfDisabled(src, fw[src]))
            /\ Abandon(begun) \/ (ssh /\ Abandon([begun EXCEPT !.kept = "partly"]))

LoginAfter ==
  /\ At("login2") /\ UNCHANGED <<ssh, moved>>
  /\ Login(Go("final"), Abandon(op))

OnlyTarget(f) == ~Uncertain(f) /\ Active(f) = {dst}
FinalScan ==
  LET fits(f) == OnlyTarget(f) /\ (Reconcile => fw[dst].rules = op.want)
  IN  /\ At("final") /\ UNCHANGED <<ssh, moved>>
      /\ Looks(fits, Go(IF fw[dst].named THEN "persist" ELSE "switched"), Abandon(op))

\* _finalize_nftables_persistence: its failure is a warning.
Persist ==
  LET done == Persisted(fw[dst], TRUE)
  IN  /\ At("persist") /\ UNCHANGED <<ssh, moved>>
      /\ \/ ssh /\ Fine /\ Set(dst, done) /\ Go("switched")
         \/ /\ Fails(dst, done, {Persisted(fw[dst], FALSE)})
            /\ op' = [op EXCEPT !.pc = "switched", !.warned = TRUE]

-----------------------------------------------------------------------------
(* _switch_rollback: the source first; the target is cut down only when the *)
(* source is proved active, unchanged and reachable (safe).                 *)

\* nftables: restore removes the bypass only when deactivate saw it appear; ufw:
\* what deactivate did not see active is not enabled (and counts as restored).
RestoreSource ==
  LET done == IF src = "nftables" /\ op.kept = "partly" THEN fw[src]
              ELSE Restored(src, fw[src], op.was)
      next(ok) == op' = [op EXCEPT !.pc = "safe", !.ok = ok]
  IN  /\ At("back") /\ UNCHANGED <<ssh, moved>>
      /\ IF op.kept \in {"no", "blind"} THEN Same /\ Fine /\ next(op.kept = "blind")
         ELSE \/ Works(src, done) /\ next(done.on)
              \/ Fails(src, done, HalfRestored(src, fw[src], op.was)) /\ next(FALSE)

\* Mutated: the login is enough.
LoginEnough == Admits(fw, Ssh)
SafeSource == op.ok /\ fw[src].on /\ SourceAsRead /\ Admits(fw, Ssh)
ProveSource ==
  LET next(safe) == op' = [op EXCEPT !.pc = "readd", !.safe = safe, !.ok = safe,
                                     !.todo = op.dropped]
  IN  /\ At("safe") /\ UNCHANGED <<ssh, moved>>
      /\ \/ Reads /\ next(SafeSource)
         \/ ReadFails /\ next(FALSE)

ReaddRule ==
  /\ At("readd") /\ UNCHANGED <<ssh, moved>>
  /\ IF op.todo = {} THEN Go(IF op.made /\ op.safe THEN "unmake" ELSE "clean") /\ Same /\ Fine
     ELSE \E p \in op.todo :
            LET done == Opened(dst, fw[dst], p)
                left == [op EXCEPT !.todo = @ \ {p}]
            IN  \/ Works(dst, done) /\ op' = left
                \/ /\ Fails(dst, done, HalfOpened(dst, fw[dst], p))
                   /\ op' = [left EXCEPT !.ok = FALSE]

\* The table this switch made is removed with its file, service and choice.
Unmake ==
  LET gone == Unprovisioned(fw[dst])
  IN  /\ At("unmake") /\ UNCHANGED <<ssh, moved>>
      /\ \/ ssh /\ Fine /\ Set(dst, gone) /\ Go("last")
         \/ ssh /\ Upset /\ (\E r \in Unnoticed(fw[dst]) : Set(dst, r)) /\ Go("last")
         \/ Fails(dst, gone, HalfUnprovisioned(fw[dst])) /\ Go("clean")

\* Rules the switch added, but for the SSH port's.
Cleanable == op.added \ {Ssh}
CleanRule ==
  /\ At("clean") /\ UNCHANGED <<ssh, moved>>
  /\ IF Cleanable = {} \/ ~op.safe
     THEN /\ op' = [op EXCEPT !.pc = "compare", !.ok = @ /\ Cleanable = {}]
          /\ Same /\ Fine
     ELSE \E p \in Cleanable :
            LET done == Dropped(dst, fw[dst], p)
                left == [op EXCEPT !.added = @ \ {p}]
            IN  \/ Works(dst, done) /\ op' = left
                \/ /\ Fails(dst, done, HalfDropped(dst, fw[dst], p))
                   /\ op' = [left EXCEPT !.ok = FALSE]

\* Without a snapshot of the target there is nothing to compare with.
CompareTarget ==
  LET next(same) == op' = [op EXCEPT !.pc = "target_off", !.ok = @ /\ op.based /\ same]
  IN  /\ At("compare") /\ UNCHANGED <<ssh, moved>>
      /\ (Reads /\ next(fw[dst].rules = op.base \cup {Ssh})) \/ (ReadFails /\ next(FALSE))

TargetOff ==
  LET done == Disabled(dst, fw[dst])
      next(ok) == op' = [op EXCEPT !.pc = "last", !.ok = @ /\ ok]
  IN  /\ At("target_off") /\ UNCHANGED <<ssh, moved>>
      /\ \/ ~(fw[dst].on /\ op.safe) /\ Reads /\ next(~fw[dst].on)
         \/ fw[dst].on /\ op.safe /\ Works(dst, done) /\ next(TRUE)
         \/ fw[dst].on /\ op.safe /\ OffBlindly(dst) /\ next(TRUE)
         \/ fw[dst].on /\ op.safe /\ Fails(dst, done, HalfDisabled(dst, fw[dst])) /\ next(FALSE)
         \/ ReadFails /\ next(FALSE)

\* The final scan and the final login.
LastLook ==
  LET fits(f) == ~Uncertain(f) /\ Active(f) = {src} /\ Admits(fw, Ssh)
  IN  /\ At("last") /\ UNCHANGED <<ssh, moved>>
      /\ Looks(fits, Go(IF op.ok THEN "undone" ELSE "stuck"), Go("stuck"))

-----------------------------------------------------------------------------
(* The other requests for the same server.                                  *)

\* open_port and close_port of the panel, between the steps of a switch.
Edit(p) ==
  /\ edits < MaxEdits /\ edits' = edits + 1 /\ UNCHANGED <<faults, rounds, overlooked>>
  /\ ~Uncertain(fw) /\ Admits(fw, Ssh)
  /\ \E b \in Active(fw) :
       /\ Active(fw) = {b} /\ p \notin Ambiguous
       /\ \/ Set(b, Opened(b, fw[b], p))
          \/ p # Ssh /\ p \in fw[b].rules /\ Set(b, Dropped(b, fw[b], p))
  /\ moved' = moved \cup {p} /\ UNCHANGED <<op, ssh>>

\* disable: the only active firewall.  enable: only when none is active.  An
\* upset is a call that fails or an active firewall that is overlooked.
OneCall(b, Fits(_), done, half) ==
  /\ op.pc \in AtRest \ {"asked"} /\ Admits(fw, Ssh)
  /\ \/ /\ Fits(fw) /\ Set(b, done)
        /\ rounds < MaxRounds /\ rounds' = rounds + 1 /\ UNCHANGED <<faults, edits, overlooked>>
     \/ Upset /\ Fits(fw) /\ \E h \in half \cup {done} : Set(b, h)
     \/ Upset /\ (\E seen \in Misread : Fits(seen)) /\ Set(b, done)
  /\ op' = Idle(dst) /\ UNCHANGED <<ssh, moved>>

Disable(b) ==
  LET fits(f) == ~Uncertain(f) /\ Active(f) = {b}
  IN  OneCall(b, fits, Disabled(b, fw[b]), HalfDisabled(b, fw[b]))
Enable(b) ==
  LET fits(f) == ~Uncertain(f) /\ Active(f) = {} /\ f[b].have
  IN  OneCall(b, fits, Enabled(b, fw[b]), HalfEnabled(b, fw[b]))

Reboot ==
  /\ Upset
  /\ fw' = [b \in Backends |-> Booted(b, fw[b])]
  /\ ssh' = FALSE /\ UNCHANGED <<op, moved>>

Proceed ==
  \/ Scan \/ Inventory \/ Prepare \/ AllowSsh \/ ConfirmOn \/ Baseline
  \/ AddRule \/ PreflightDrops \/ DropRule \/ Verify \/ LoginWithBoth \/ Confirm
  \/ SourceOff \/ LoginAfter \/ FinalScan \/ Persist
  \/ RestoreSource \/ ProveSource \/ ReaddRule \/ Unmake \/ CleanRule
  \/ CompareTarget \/ TargetOff \/ LastLook

Next ==
  \/ Proceed \/ Decide \/ Reboot
  \/ \E b \in Backends : Request(b) \/ Disable(b) \/ Enable(b)
  \/ \E p \in Ports : Edit(p)

Spec == Init /\ [][Next]_vars

-----------------------------------------------------------------------------
\* Every variable keeps its type.
TypeOK ==
  /\ fw \in [Backends -> FwType] /\ ssh \in BOOLEAN /\ overlooked \in BOOLEAN
  /\ op \in OpType /\ moved \in SUBSET Ports
  /\ faults \in 0..MaxFaults /\ edits \in 0..MaxEdits /\ rounds \in 0..MaxRounds

\* No order of these calls, failures and reboots shuts the panel out.
SshStaysOpen == Admits(fw, Ssh)

\* On a server that has one request at a time, none but disable and remove, and
\* no rollback, takes it through a moment without any firewall.
NeverBare ==
  [][op' # op /\ op'.pc # "idle" /\ op'.kind # "remove" /\ (\E b \in Backends : fw[b].on)
       => \E b \in Backends : fw'[b].on]_vars

\* After a switch or migration reported as done, its rules saved, a reboot
\* brings back the target (one that was active before: if it was to start) with
\* the rules chosen (a switch: with no other) and not the source; unless the
\* request overlooked an installed backend (SwitchIsReal: without that excuse).
AfterReboot == [b \in Backends |-> Booted(b, fw[b])]
SwitchIsReal ==
  op.pc = "switched" /\ Reconcile /\ ~op.warned =>
    /\ AfterReboot[dst].on \/ op.wason
    /\ ~AfterReboot[src].on
    /\ \A p \in Ports \ moved :
         /\ p \in op.want => p \in AfterReboot[dst].rules
         /\ op.kind = "switch" /\ p \in AfterReboot[dst].rules => p \in op.want
SwitchOutlivesReboot == ~overlooked => SwitchIsReal

\* When the source of a switch is switched off it has the rules the user
\* decided on.
DecisionIsFresh ==
  [][op.pc = "off" /\ op'.pc = "login2" =>
       \A p \in Ports \ moved :
         p \in fw[src].rules <=> p \in IF op.accepted THEN op.asked ELSE op.want]_vars

\* A rollback reported as verified has brought back the source, alone (or
\* beside a target that was active before) and with its rules, and left the
\* target off (unless its preparation for a migration failed) with what it had
\* (the SSH port may be new, and a rule that a migration opened half-way and was
\* told it had not changed) or removed with its table; unless the request
\* overlooked an installed backend.
UndoneIsReal ==
  [][op.pc \in {"last", "m_last"} /\ op'.pc \in {"undone", "asked"} /\ ~overlooked' =>
       /\ Active(fw) = {b \in {src, dst} \cap Backends : b = src \/ op.wason}
       /\ ~fw[dst].on \/ op.wason \/ (op.kind = "migrate" /\ ~op.ready)
       /\ Reconcile /\ op.blind = NoFw =>
            \A p \in Ports \ moved : p \in fw[src].rules <=> p \in op.had \cup op.unclear
       /\ \/ op.made /\ ~fw[dst].have
          \/ /\ op.based \/ op.kind # "switch"
             /\ op.base \ moved \subseteq fw[dst].rules
             /\ dst # "firewalld" => fw[dst].rules \subseteq op.base \cup {Ssh} \cup moved \cup op.failed]_vars

\* What a finished switch or migration switched off stays off, whatever the
\* answer warned of (nftables.py: a change that could not be saved must be
\* visible in the answer).
OffStaysOff == op.pc = "switched" /\ Reconcile => ~AfterReboot[src].on

\* A migration carries over all rules its source has at the end (but those the
\* user gave up), so that nothing open before is closed unasked.
NothingLeftBehind ==
  op.pc = "switched" /\ op.kind = "migrate" /\ Reconcile /\ op.blind = NoFw =>
    fw[src].rules \ (Ambiguous \cup op.skip) \subseteq fw[dst].rules

\* A target that was not active before filters nothing after a rollback reported
\* as verified (__init__.py: the changes of the attempt are rolled back).
UndoneIsOff == op.pc = "undone" => op.wason \/ ~fw[dst].on

\* When a migration failed at the preparation of a target that is still off, and
\* nothing else went wrong, its rollback is reported as verified (__init__.py:
\* require_target allows for a preparation that was not confirmed).
FailedPreparationIsTold ==
  op.pc = "stuck" /\ op.kind = "migrate" /\ Reconcile /\ ssh =>
    op.ready \/ op.wason \/ fw[dst].on

\* After a rollback reported as verified and a reboot the source filters again
\* (nftables.py: the panel answers for its table surviving a reboot).
UndoneOutlivesReboot ==
  op.pc = "undone" /\ moved = {} => Active(AfterReboot) = {src}
=============================================================================
