--------------------------- MODULE FirewallMigrate ---------------------------
(***************************************************************************)
(* The other ways to another firewall in core/quick_setup/firewall: migrate *)
(* carries the exact rules over and keeps what the target has, with a       *)
(* rollback of its own; install_backend hands over to it when another       *)
(* firewall is active and has no rollback when none is; remove takes a      *)
(* package away.  They work on the operation and the steps of               *)
(* FirewallSwitch.  A server has one request of this kind at a time here;   *)
(* nothing in the code sees to that, and FirewallOverlap has two.           *)
(***************************************************************************)
EXTENDS FirewallSwitch

\* The except clause: what was begun is rolled back, unless nothing was or an
\* installation has no source.
Begun == op.kind = "migrate" /\ ~(op.pc = "m_detect" /\ op.wason)
              /\ op.pc \notin {"m_scan", "m_inventory"}
GiveUp(o) == op' = [o EXCEPT !.pc = IF Begun THEN "m_back" ELSE "stopped",
                             !.safe = FALSE, !.ok = TRUE]
Sees(holds, good, bad) == (Reads /\ IF holds THEN good ELSE bad) \/ (ReadFails /\ bad)
OthersIn(f) == Active(f) \ {dst}
\* A switched-on target is saved, if it is the named table.
DonePc == IF fw[dst].named /\ dst = "nftables" THEN "persist" ELSE "switched"

-----------------------------------------------------------------------------
(* The request, the inventory of the source and the user's decisions.       *)

RequestMore(d, k) ==
  /\ op.pc \in AtRest \ {"asked"} /\ rounds < MaxRounds /\ rounds' = rounds + 1
  /\ Admits(fw, Ssh)
  /\ op' = [Idle(d) EXCEPT !.kind = k, !.pc = IF k = "remove" THEN "r_scan" ELSE "m_scan"]
  /\ ssh' = TRUE /\ moved' = {} /\ overlooked' = FALSE
  /\ UNCHANGED <<fw, faults, edits>>

\* The target may be active beside its source; an active target alone is only
\* confirmed, by install_backend with a save of its table.
AlreadyAlone ==
  IF op.accepted THEN Same /\ Fine /\ Go("stopped")
  ELSE IF op.kind = "install" THEN Reads /\ Go(DonePc)
  ELSE Login(Go("switched"), Go("stopped"))
MStarts(f) ==
  op' = IF OnlyTarget(f)
        THEN [op EXCEPT !.pc = IF op.accepted THEN "stopped"
                              ELSE IF op.kind = "install" THEN DonePc
                              ELSE IF Admits(fw, Ssh) THEN "switched" ELSE "stopped"]
        ELSE IF \/ Uncertain(f) \/ Cardinality(OthersIn(f)) > 1
                \/ op.kind = "install" /\ Cardinality(Active(f)) > 1
                \/ op.accepted /\ OthersIn(f) = {}
        THEN [op EXCEPT !.pc = "stopped"]
        ELSE IF OthersIn(f) = {}
        THEN [op EXCEPT !.pc = "m_prepare", !.want = {Ssh}, !.base = fw[dst].rules]
        ELSE [op EXCEPT !.pc = "m_inventory", !.kind = "migrate",
                       !.src = CHOOSE b \in OthersIn(f) : TRUE, !.wason = dst \in Active(f)]
MScan ==
  /\ At("m_scan") /\ UNCHANGED <<ssh, moved>>
  /\ \/ ssh /\ OnlyTarget(fw) /\ AlreadyAlone
     \/ Reads /\ ~OnlyTarget(fw) /\ MStarts(fw)
     \/ Overlooks /\ \E seen \in Misread : MStarts(seen)
     \/ ReadFails /\ Go("stopped")

\* The rules are asked about when some are unclear, when they cannot be read,
\* and when a later attempt could not open some (MLast).
MInventory ==
  LET now == fw[src].rules
      got == [op EXCEPT !.asked = now, !.had = now \ Ambiguous, !.unclear = now \cap Ambiguous,
                        !.base = fw[dst].rules]
      goes(want) == op' = [got EXCEPT !.pc = IF op.wason THEN "m_detect" ELSE "m_prepare",
                                      !.want = want \cup {Ssh}, !.todo = want \ {Ssh}]
  IN  /\ At("m_inventory") /\ UNCHANGED ssh /\ moved' = {}
      /\ \/ op.blind = src /\ Reads /\ goes({})
         \/ op.blind \notin {NoFw, src} /\ Same /\ Fine /\ Go("stopped")
         \/ /\ op.blind = NoFw /\ Reads
            /\ IF op.accepted /\ ~SameFingerprint(now) THEN Go("stopped")
               ELSE IF ~op.accepted /\ got.unclear # {} THEN op' = [got EXCEPT !.pc = "asked"]
               ELSE goes(got.had \ op.skip)
         \/ /\ op.blind = NoFw /\ ReadFails
            /\ IF op.accepted THEN Go("stopped") ELSE op' = [op EXCEPT !.pc = "asked", !.blind = src]

\* The decision comes back signed with the request that starts anew.
MDecide ==
  /\ At("asked") /\ op.kind = "migrate" /\ Same /\ UNCHANGED bounds /\ moved' = {} /\ overlooked' = FALSE
  /\ \/ /\ op' = [Idle(dst) EXCEPT !.kind = "migrate", !.pc = "m_scan", !.accepted = TRUE,
                    !.asked = op.asked, !.blind = op.blind, !.skip = op.skip \cup op.failed]
        /\ ssh' = Admits(fw, Ssh)
     \/ Go("stopped") /\ UNCHANGED ssh

-----------------------------------------------------------------------------
(* The target: prepared, given rules, verified; then the source goes.       *)

MPrepare ==
  LET done == Readied(dst, fw[dst])
      begun == [op EXCEPT !.made = (dst = "nftables" /\ ~fw[dst].have)]
      refused == dst = "nftables" /\ fw[dst].have /\ ~fw[dst].named
  IN  /\ At("m_prepare") /\ UNCHANGED <<ssh, moved>>
      /\ \/ ~refused /\ Works(dst, done) /\ op' = [begun EXCEPT !.pc = "m_detect", !.ready = TRUE]
         \/ ~refused /\ Fails(dst, done, HalfReadied(dst, fw[dst])) /\ GiveUp(begun)
         \/ refused /\ (Reads \/ ReadFails) /\ GiveUp(begun)

MDetect ==
  /\ At("m_detect") /\ UNCHANGED <<ssh, moved>>
  /\ Sees(fw[dst].on, Go("m_allow"), GiveUp(op))

\* A mutation says whether it changed something, unless it raises.
New(p, o) == [o EXCEPT !.added = IF p \in fw[dst].rules \/ (dst = "firewalld" /\ p \in fw[dst].saved)
                                 THEN @ ELSE @ \cup {p}]
Refused(p, unchanged, changed) ==
  /\ ssh /\ Upset
  /\ \/ (Same \/ \E h \in HalfOpened(dst, fw[dst], p) : Set(dst, h)) /\ unchanged
     \/ Set(dst, Opened(dst, fw[dst], p)) /\ changed
Raised(p) == Fails(dst, Opened(dst, fw[dst], p), HalfOpened(dst, fw[dst], p))

MAllow ==
  /\ At("m_allow") /\ UNCHANGED <<ssh, moved>>
  /\ \/ Works(dst, Opened(dst, fw[dst], Ssh)) /\ op' = [New(Ssh, op) EXCEPT !.pc = "m_add"]
     \/ Refused(Ssh, GiveUp(op), GiveUp(New(Ssh, op)))
     \/ Raised(Ssh) /\ GiveUp(op)

\* A rule that cannot be opened does not stop the others.
MAdd ==
  /\ At("m_add") /\ UNCHANGED <<ssh, moved>>
  /\ IF op.todo = {}
     THEN Same /\ Fine /\ (IF op.failed # {} THEN GiveUp(op) ELSE Go("m_verify"))
     ELSE \E p \in op.todo :
            LET left == [op EXCEPT !.todo = @ \ {p}]
                bad == [left EXCEPT !.failed = @ \cup {p}, !.want = @ \ {p}]
            IN  \/ Works(dst, Opened(dst, fw[dst], p)) /\ op' = New(p, left)
                \/ Refused(p, op' = bad, op' = New(p, bad))
                \/ Raised(p) /\ op' = [bad EXCEPT !.loose = TRUE]

\* _verify_expected_rules: nothing is missing; more may be there.
WholeTarget == fw[dst].on /\ op.want \subseteq fw[dst].rules
MVerify ==
  /\ At("m_verify") /\ UNCHANGED <<ssh, moved>>
  /\ Sees(WholeTarget, Go("m_login"), GiveUp(op))

MLogin ==
  /\ At("m_login") /\ UNCHANGED <<ssh, moved>>
  /\ Login(Go(IF op.kind = "install" THEN "m_final" ELSE "m_confirm"), GiveUp(op))

\* Both are active and no other; the source's rules are not read again.
Parties == {dst} \cup ({src} \ {NoFw})
BothActive(f, parties) ==
  /\ \A b \in parties : f[b].on
  /\ {b \in Managed : f[b].have /\ f[b].on} = Parties \cap Managed
MConfirm ==
  LET fits(f) == BothActive(f, Parties)
  IN  /\ At("m_confirm") /\ UNCHANGED <<ssh, moved>>
      /\ Looks(fits, Go(IF Reconcile THEN "m_off" ELSE "m_final"), GiveUp(op))

\* Only a change that the answer tells of is restored later.
MSourceOff ==
  LET done == Disabled(src, fw[src])
  IN  /\ At("m_off") /\ UNCHANGED <<ssh, moved>>
      /\ \/ /\ Works(src, done)
            /\ op' = [op EXCEPT !.pc = "m_final", !.was = fw[src], !.kept = "yes",
                                !.warned = fw'[src] # done]
         \/ OffBlindly(src) /\ Go("m_final")
         \/ Fails(src, done, HalfDisabled(src, fw[src])) /\ GiveUp(op)
         \/ ssh /\ Upset /\ Set(src, done) /\ GiveUp([op EXCEPT !.was = fw[src], !.kept = "partly"])

MFinalScan ==
  /\ At("m_final") /\ UNCHANGED <<ssh, moved>>
  /\ Looks(OnlyTarget, Go(IF op.kind = "migrate" THEN "m_login2" ELSE DonePc), GiveUp(op))

MLoginAfter ==
  /\ At("m_login2") /\ UNCHANGED <<ssh, moved>>
  /\ Login(Go("m_verify2"), GiveUp(op))

MFinalRules ==
  /\ At("m_verify2") /\ UNCHANGED <<ssh, moved>>
  /\ Sees(op.want \subseteq fw[dst].rules, Go(DonePc), GiveUp(op))

-----------------------------------------------------------------------------
(* _migration_rollback.                                                     *)

MBack ==
  LET done == IF src = "nftables" /\ op.kept = "partly" THEN fw[src]
              ELSE Restored(src, fw[src], op.was)
      next(ok) == op' = [op EXCEPT !.pc = "m_safe", !.ok = ok]
  IN  /\ At("m_back") /\ UNCHANGED <<ssh, moved>>
      /\ IF op.kept = "no" THEN Same /\ Fine /\ next(TRUE)
         ELSE \/ Works(src, done) /\ next(done.on)
              \/ Fails(src, done, HalfRestored(src, fw[src], op.was)) /\ next(FALSE)

\* An inactive target is only allowed for when its preparation failed, and
\* even then a managed one is expected among the active (Parties).
MSafe ==
  LET expected == IF op.wason \/ op.ready THEN Parties ELSE Parties \ {dst}
      fits(f) == op.ok /\ BothActive(f, expected) /\ Admits(fw, Ssh)
      next(ok) == op' = [op EXCEPT !.pc = "m_unmake", !.ok = ok, !.safe = ok /\ Reconcile]
  IN  At("m_safe") /\ UNCHANGED <<ssh, moved>> /\ Looks(fits, next(TRUE), next(FALSE))

MUnmake ==
  LET gone == Unprovisioned(fw[dst])
      unmade == op' = [op EXCEPT !.pc = "m_last", !.added = {}]
  IN  /\ At("m_unmake") /\ UNCHANGED <<ssh, moved>>
      /\ IF ~op.made \/ op.wason \/ ~op.safe THEN Same /\ Fine /\ Go("m_clean")
         ELSE \/ ssh /\ Fine /\ Set(dst, gone) /\ unmade
              \/ ssh /\ Upset /\ (\E r \in Unnoticed(fw[dst]) : Set(dst, r)) /\ unmade
              \/ Fails(dst, gone, HalfUnprovisioned(fw[dst])) /\ Go("m_clean")

\* An active target is cleaned in any case; the rule of the SSH port stays with
\* a target that is to be switched off.
MClean ==
  LET clears == op.wason \/ (op.ready /\ op.safe)
      todo == IF ~clears THEN {} ELSE IF op.wason THEN op.added ELSE op.added \ {Ssh}
  IN  /\ At("m_clean") /\ UNCHANGED <<ssh, moved>>
      /\ IF todo = {}
         THEN /\ op' = [op EXCEPT !.pc = "m_target_off", !.ok = @ /\ op.added = {}]
              /\ Same /\ Fine
         ELSE \E p \in todo :
                LET done == Dropped(dst, fw[dst], p)
                    left == [op EXCEPT !.added = @ \ {p}]
                IN  \/ Works(dst, done) /\ op' = left
                    \/ /\ Fails(dst, done, HalfDropped(dst, fw[dst], p))
                       /\ op' = [left EXCEPT !.ok = FALSE]

MTargetOff ==
  LET done == Disabled(dst, fw[dst])
      next(ok) == op' = [op EXCEPT !.pc = "m_last", !.ok = @ /\ ok]
  IN  /\ At("m_target_off") /\ UNCHANGED <<ssh, moved>>
      /\ IF op.wason \/ ~op.ready \/ ~op.safe
         THEN Same /\ Fine /\ next(op.wason \/ ~op.ready)
         ELSE \/ Works(dst, done) /\ next(TRUE)
              \/ OffBlindly(dst) /\ next(TRUE)
              \/ Fails(dst, done, HalfDisabled(dst, fw[dst])) /\ next(FALSE)

\* Rules that could not be opened are asked about once all else is back.
MLast ==
  LET before == ({src} \ {NoFw}) \cup (IF op.wason THEN {dst} ELSE {})
      fits(f) == op.ok /\ ~Uncertain(f) /\ Active(f) = before /\ Admits(fw, Ssh)
      next == IF op.failed = {} THEN "undone" ELSE IF op.loose THEN "stuck" ELSE "asked"
  IN  At("m_last") /\ UNCHANGED <<ssh, moved>> /\ Looks(fits, Go(next), Go("stuck"))

-----------------------------------------------------------------------------
(* remove of ufw or firewalld: off, looked at, then the package.            *)

RStarts(f) ==
  op' = [op EXCEPT !.pc = IF Uncertain(f) THEN "stopped"
                          ELSE IF ~f[dst].have THEN "removed"
                          ELSE IF dst \notin Active(f) THEN "r_package"
                          ELSE IF Cardinality(Active(f)) > 1 THEN "stopped" ELSE "r_off"]
RScan ==
  /\ At("r_scan") /\ UNCHANGED <<ssh, moved>>
  /\ \/ Reads /\ RStarts(fw)
     \/ Overlooks /\ \E seen \in Misread : RStarts(seen)
     \/ ReadFails /\ Go("stopped")

ROff ==
  LET done == Disabled(dst, fw[dst])
  IN  /\ At("r_off") /\ UNCHANGED <<ssh, moved>>
      /\ \/ Works(dst, done) /\ Go("r_look")
         \/ OffBlindly(dst) /\ Go("r_look")
         \/ Fails(dst, done, HalfDisabled(dst, fw[dst])) /\ Go("stopped")

RLook ==
  LET fits(f) == ~fw[dst].on /\ ~Uncertain(f) /\ Active(f) = {}
  IN  At("r_look") /\ UNCHANGED <<ssh, moved>> /\ Looks(fits, Go("r_package"), Go("stopped"))

\* The configuration stays, the unit goes with the package.
RPackage ==
  LET gone == [fw[dst] EXCEPT !.have = FALSE, !.boot = FALSE, !.on = FALSE]
  IN  /\ At("r_package") /\ UNCHANGED <<ssh, moved>>
      /\ \/ ssh /\ Fine /\ Set(dst, gone) /\ Go("removed")
         \/ Fails(dst, gone, {}) /\ Go("stopped")

-----------------------------------------------------------------------------
Migrates ==
  \/ MScan \/ MInventory \/ MPrepare \/ MDetect \/ MAllow \/ MAdd \/ MVerify
  \/ MLogin \/ MConfirm \/ MSourceOff \/ MFinalScan \/ MLoginAfter \/ MFinalRules
  \/ MBack \/ MSafe \/ MUnmake \/ MClean \/ MTargetOff \/ MLast

Removes == RScan \/ ROff \/ RLook \/ RPackage

NextMore ==
  \/ Next \/ Migrates \/ MDecide \/ Removes
  \/ \E b \in Backends, k \in {"migrate", "install"} : RequestMore(b, k)
  \/ \E b \in Managed : RequestMore(b, "remove")

SpecMore == Init /\ [][NextMore]_vars
=============================================================================
