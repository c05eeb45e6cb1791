--------------------------- MODULE FirewallProofs ---------------------------
(***************************************************************************)
(* What is proved of the switch, the migration, the installation and the   *)
(* removal of a server's firewalls, for any ports, initial states and      *)
(* bounds.                                                                 *)
(***************************************************************************)
EXTENDS FirewallMigrate, TLAPS

-----------------------------------------------------------------------------
(* What a call makes of a backend is a backend.                             *)

LEMMA SshIsPort == Ssh \in Ports
BY SwitchAssumption

LEMMA FwFields ==
  ASSUME NEW r \in FwType
  PROVE  /\ r.have \in BOOLEAN /\ r.on \in BOOLEAN /\ r.boot \in BOOLEAN /\ r.named \in BOOLEAN
         /\ r.rules \in SUBSET Ports /\ r.saved \in SUBSET Ports
         /\ r.file \in {"none", "on", "bypass"}
BY DEF FwType

LEMMA PersistedType ==
  ASSUME NEW r \in FwType, NEW sync \in BOOLEAN
  PROVE  Persisted(r, sync) \in FwType
BY DEF Persisted, FwType

LEMMA OnOff ==
  ASSUME NEW r \in FwType, NEW on \in BOOLEAN
  PROVE  [r EXCEPT !.on = on] \in FwType
BY DEF FwType

LEMMA OpenedType ==
  ASSUME NEW b \in Backends, NEW r \in FwType, NEW p \in Ports
  PROVE  Opened(b, r, p) \in FwType /\ HalfOpened(b, r, p) \subseteq FwType
<1> DEFINE more == [r EXCEPT !.rules = @ \cup {p}, !.saved = @ \cup {p}]
<1>1. more \in FwType
      BY DEF FwType
<1>2. Persisted(more, FALSE) \in FwType
      BY <1>1, PersistedType
<1>3. [r EXCEPT !.rules = @ \cup {p}] \in FwType /\ [r EXCEPT !.saved = @ \cup {p}] \in FwType
      BY DEF FwType
<1> HIDE DEF more
<1>4. Opened(b, r, p) \in {r, more, Persisted(more, FALSE)}
      BY DEF Opened, more
<1>5. HalfOpened(b, r, p) \subseteq {[r EXCEPT !.rules = @ \cup {p}], [r EXCEPT !.saved = @ \cup {p}]}
      BY DEF HalfOpened
<1> QED BY <1>1, <1>2, <1>3, <1>4, <1>5

LEMMA DroppedType ==
  ASSUME NEW b \in Backends, NEW r \in FwType, NEW p \in Ports
  PROVE  Dropped(b, r, p) \in FwType /\ HalfDropped(b, r, p) \subseteq FwType
<1> DEFINE less == [r EXCEPT !.rules = @ \ {p}, !.saved = @ \ {p}]
<1>1. less \in FwType
      BY DEF FwType
<1>2. Persisted(less, FALSE) \in FwType
      BY <1>1, PersistedType
<1>3. [r EXCEPT !.rules = @ \ {p}] \in FwType /\ [r EXCEPT !.saved = @ \ {p}] \in FwType
      BY DEF FwType
<1> HIDE DEF less
<1>4. Dropped(b, r, p) \in {less, Persisted(less, FALSE)}
      BY DEF Dropped, less
<1>5. HalfDropped(b, r, p) \subseteq {[r EXCEPT !.rules = @ \ {p}], [r EXCEPT !.saved = @ \ {p}]}
      BY DEF HalfDropped
<1> QED BY <1>1, <1>2, <1>3, <1>4, <1>5

LEMMA ReadiedType ==
  ASSUME NEW b \in Backends, NEW r \in FwType
  PROVE  Readied(b, r) \in FwType /\ HalfReadied(b, r) \subseteq FwType
<1> USE SshIsPort
<1>1. SshSaved(r) \in FwType /\ NewTable(r, TRUE) \in FwType /\ NewTable(r, FALSE) \in FwType
      BY DEF SshSaved, NewTable, FwType
<1>2. Opened(b, r, Ssh) \in FwType /\ HalfOpened(b, r, Ssh) \subseteq FwType
      BY OpenedType
<1> QED BY <1>1, <1>2 DEF Readied, HalfReadied, FwType

LEMMA EnabledType ==
  ASSUME NEW b \in Backends, NEW r \in FwType
  PROVE  Enabled(b, r) \in FwType /\ HalfEnabled(b, r) \subseteq FwType
<1> USE SshIsPort
<1> DEFINE s == [r EXCEPT !.on = TRUE, !.rules = r.saved]
<1>1. s \in FwType
      BY DEF FwType
<1>2. Opened(b, r, Ssh) \in FwType /\ HalfOpened(b, r, Ssh) \subseteq FwType
      BY OpenedType
<1>3. Opened(b, s, Ssh) \in FwType /\ HalfOpened(b, s, Ssh) \subseteq FwType
      BY <1>1, OpenedType
<1>4. [Opened(b, r, Ssh) EXCEPT !.on = TRUE] \in FwType
      BY <1>2, OnOff
<1>5. Persisted([Opened(b, r, Ssh) EXCEPT !.on = TRUE], TRUE) \in FwType
      BY <1>4, PersistedType
<1> HIDE DEF s
<1>6. /\ [Opened(b, s, Ssh) EXCEPT !.boot = TRUE] \in FwType
      /\ [Opened(b, r, Ssh) EXCEPT !.on = TRUE, !.boot = TRUE] \in FwType
      BY <1>2, <1>3 DEF FwType
<1>7. Enabled(b, r) \in FwType
      BY <1>5, <1>6 DEF Enabled, s
<1>8. HalfEnabled(b, r) \subseteq FwType
      BY <1>1, <1>2, <1>3, <1>4 DEF HalfEnabled, s
<1> QED BY <1>7, <1>8

LEMMA DisabledType ==
  ASSUME NEW b \in Backends, NEW r \in FwType
  PROVE  Disabled(b, r) \in FwType /\ HalfDisabled(b, r) \subseteq FwType
<1>1. Persisted([r EXCEPT !.on = FALSE], TRUE) \in FwType
      BY PersistedType, OnOff
<1> QED BY <1>1 DEF Disabled, HalfDisabled, FwType

LEMMA RestoredType ==
  ASSUME NEW b \in Backends, NEW r \in FwType, NEW was \in FwType
  PROVE  Restored(b, r, was) \in FwType /\ HalfRestored(b, r, was) \subseteq FwType
<1>1. Persisted([r EXCEPT !.on = TRUE], FALSE) \in FwType
      BY PersistedType, OnOff
<1> QED BY <1>1 DEF Restored, HalfRestored, FwType

LEMMA UnprovisionedType ==
  ASSUME NEW r \in FwType
  PROVE  /\ Unprovisioned(r) \in FwType /\ HalfUnprovisioned(r) \subseteq FwType
         /\ Unnoticed(r) \subseteq FwType
<1> DEFINE u == Unprovisioned(r)
<1>1. u \in FwType
      BY DEF Unprovisioned, FwType
<1> HIDE DEF u
<1>2. /\ [r EXCEPT !.have = FALSE, !.on = FALSE, !.rules = {}] \in FwType
      /\ [u EXCEPT !.have = r.have, !.on = r.on, !.rules = r.rules] \in FwType
      /\ [u EXCEPT !.file = r.file, !.saved = r.saved] \in FwType
      /\ [u EXCEPT !.boot = r.boot] \in FwType /\ [u EXCEPT !.named = r.named] \in FwType
      BY <1>1 DEF FwType
<1> QED BY <1>1, <1>2 DEF HalfUnprovisioned, Unnoticed, u

LEMMA BootedType ==
  ASSUME NEW b \in Backends, NEW r \in FwType
  PROVE  Booted(b, r) \in FwType
BY DEF Booted, FwType

LEMMA UndumpedType ==
  ASSUME NEW r \in FwType, NEW was \in FwType
  PROVE  Undumped(r, was) \subseteq FwType
BY DEF Undumped, FwType

-----------------------------------------------------------------------------
(* The operation's record.                                                  *)

Pcs == AtRest \cup Steps \cup MoreSteps

LEMMA PcFacts ==
  /\ {"idle", "asked", "switched", "stopped", "undone", "stuck", "removed"} \subseteq Pcs
  /\ {"scan", "inventory", "prepare", "allow", "confirm_on", "baseline", "add", "preflight",
      "drop", "verify", "login", "confirm", "off", "login2", "final", "persist", "back",
      "safe", "readd", "unmake", "clean", "compare", "target_off", "last"} \subseteq Pcs
  /\ {"m_scan", "m_inventory", "m_prepare", "m_detect", "m_allow", "m_add", "m_verify",
      "m_login", "m_confirm", "m_off", "m_final", "m_login2", "m_verify2", "m_back",
      "m_safe", "m_unmake", "m_clean", "m_target_off", "m_last"} \subseteq Pcs
  /\ {"r_scan", "r_off", "r_look", "r_package"} \subseteq Pcs
BY DEF Pcs, AtRest, Steps, MoreSteps

LEMMA OpFields ==
  ASSUME NEW o \in OpType
  PROVE  /\ o.pc \in Pcs /\ o.src \in Backends \cup {NoFw} /\ o.dst \in Backends
         /\ o.blind \in Backends \cup {NoFw} /\ o.was \in FwType
         /\ o.had \in SUBSET Ports /\ o.unclear \in SUBSET Ports /\ o.asked \in SUBSET Ports
         /\ o.want \in SUBSET Ports /\ o.base \in SUBSET Ports /\ o.todo \in SUBSET Ports
         /\ o.added \in SUBSET Ports /\ o.dropped \in SUBSET Ports /\ o.skip \in SUBSET Ports
         /\ o.failed \in SUBSET Ports
         /\ o.accepted \in BOOLEAN /\ o.made \in BOOLEAN /\ o.based \in BOOLEAN /\ o.offed \in BOOLEAN
         /\ o.safe \in BOOLEAN /\ o.ok \in BOOLEAN /\ o.warned \in BOOLEAN /\ o.wason \in BOOLEAN
         /\ o.ready \in BOOLEAN /\ o.loose \in BOOLEAN
         /\ o.kept \in {"no", "partly", "blind", "yes"}
BY DEF OpType, Pcs

LEMMA Updates ==
  ASSUME NEW o \in OpType
  PROVE  /\ \A v \in Pcs : [o EXCEPT !.pc = v] \in OpType
         /\ \A v \in SUBSET Ports :
              /\ [o EXCEPT !.had = v] \in OpType /\ [o EXCEPT !.unclear = v] \in OpType
              /\ [o EXCEPT !.asked = v] \in OpType /\ [o EXCEPT !.want = v] \in OpType
              /\ [o EXCEPT !.base = v] \in OpType /\ [o EXCEPT !.todo = v] \in OpType
              /\ [o EXCEPT !.added = v] \in OpType /\ [o EXCEPT !.dropped = v] \in OpType
              /\ [o EXCEPT !.skip = v] \in OpType /\ [o EXCEPT !.failed = v] \in OpType
         /\ \A v \in BOOLEAN :
              /\ [o EXCEPT !.accepted = v] \in OpType /\ [o EXCEPT !.made = v] \in OpType
              /\ [o EXCEPT !.based = v] \in OpType /\ [o EXCEPT !.offed = v] \in OpType
              /\ [o EXCEPT !.safe = v] \in OpType /\ [o EXCEPT !.ok = v] \in OpType
              /\ [o EXCEPT !.warned = v] \in OpType /\ [o EXCEPT !.wason = v] \in OpType
              /\ [o EXCEPT !.ready = v] \in OpType /\ [o EXCEPT !.loose = v] \in OpType
         /\ \A v \in Backends \cup {NoFw} :
              /\ [o EXCEPT !.src = v] \in OpType /\ [o EXCEPT !.blind = v] \in OpType
         /\ \A v \in FwType :
              /\ [o EXCEPT !.was = v] \in OpType
         /\ \A v \in {"no", "partly", "blind", "yes"} :
              /\ [o EXCEPT !.kept = v] \in OpType
         /\ \A v \in {"switch"} \cup MoreKinds :
              /\ [o EXCEPT !.kind = v] \in OpType
<1>1. \A v \in Pcs : [o EXCEPT !.pc = v] \in OpType
      BY DEF OpType, Pcs
<1>2. \A v \in SUBSET Ports : [o EXCEPT !.had = v] \in OpType
      BY DEF OpType, Pcs
<1>3. \A v \in SUBSET Ports : [o EXCEPT !.unclear = v] \in OpType
      BY DEF OpType, Pcs
<1>4. \A v \in SUBSET Ports : [o EXCEPT !.asked = v] \in OpType
      BY DEF OpType, Pcs
<1>5. \A v \in SUBSET Ports : [o EXCEPT !.want = v] \in OpType
      BY DEF OpType, Pcs
<1>6. \A v \in SUBSET Ports : [o EXCEPT !.base = v] \in OpType
      BY DEF OpType, Pcs
<1>7. \A v \in SUBSET Ports : [o EXCEPT !.todo = v] \in OpType
      BY DEF OpType, Pcs
<1>8. \A v \in SUBSET Ports : [o EXCEPT !.added = v] \in OpType
      BY DEF OpType, Pcs
<1>9. \A v \in SUBSET Ports : [o EXCEPT !.dropped = v] \in OpType
      BY DEF OpType, Pcs
<1>10. \A v \in SUBSET Ports : [o EXCEPT !.skip = v] \in OpType
      BY DEF OpType, Pcs
<1>11. \A v \in SUBSET Ports : [o EXCEPT !.failed = v] \in OpType
      BY DEF OpType, Pcs
<1>12. \A v \in BOOLEAN : [o EXCEPT !.accepted = v] \in OpType
      BY DEF OpType, Pcs
<1>13. \A v \in BOOLEAN : [o EXCEPT !.made = v] \in OpType
      BY DEF OpType, Pcs
<1>14. \A v \in BOOLEAN : [o EXCEPT !.based = v] \in OpType
      BY DEF OpType, Pcs
<1>15. \A v \in BOOLEAN : [o EXCEPT !.offed = v] \in OpType
      BY DEF OpType, Pcs
<1>16. \A v \in BOOLEAN : [o EXCEPT !.safe = v] \in OpType
      BY DEF OpType, Pcs
<1>17. \A v \in BOOLEAN : [o EXCEPT !.ok = v] \in OpType
      BY DEF OpType, Pcs
<1>18. \A v \in BOOLEAN : [o EXCEPT !.warned = v] \in OpType
      BY DEF OpType, Pcs
<1>19. \A v \in BOOLEAN : [o EXCEPT !.wason = v] \in OpType
      BY DEF OpType, Pcs
<1>20. \A v \in BOOLEAN : [o EXCEPT !.ready = v] \in OpType
      BY DEF OpType, Pcs
<1>21. \A v \in BOOLEAN : [o EXCEPT !.loose = v] \in OpType
      BY DEF OpType, Pcs
<1>22. \A v \in Backends \cup {NoFw} : [o EXCEPT !.src = v] \in OpType
      BY DEF OpType, Pcs
<1>23. \A v \in Backends \cup {NoFw} : [o EXCEPT !.blind = v] \in OpType
      BY DEF OpType, Pcs
<1>24. \A v \in FwType : [o EXCEPT !.was = v] \in OpType
      BY DEF OpType, Pcs
<1>25. \A v \in {"no", "partly", "blind", "yes"} : [o EXCEPT !.kept = v] \in OpType
      BY DEF OpType, Pcs
<1>26. \A v \in {"switch"} \cup MoreKinds : [o EXCEPT !.kind = v] \in OpType
      BY DEF OpType, Pcs
<1> QED BY <1>1, <1>2, <1>3, <1>4, <1>5, <1>6, <1>7, <1>8, <1>9, <1>10, <1>11,
           <1>12, <1>13, <1>14, <1>15, <1>16, <1>17, <1>18, <1>19, <1>20, <1>21, <1>22, <1>23, <1>24, <1>25, <1>26

-----------------------------------------------------------------------------
(* What holds of the operation at each of its steps.                        *)

\* Where the source is known to be proved active; where the target may have
\* been active before; where there is a source; up to where a switch decides.
SafePcs == AtRest \cup {"readd", "unmake", "clean", "compare", "target_off", "last",
                        "m_unmake", "m_clean", "m_target_off", "m_last"}
WasonPcs == AtRest \cup {"persist"}
              \cup (MoreSteps \ {"m_scan", "m_prepare", "r_scan", "r_off", "r_look", "r_package"})
Sourced == {"inventory", "confirm", "off", "back", "safe", "m_inventory", "m_off"}
Removing == {"r_scan", "r_off", "r_look", "r_package"}
Deciding == {"prepare", "allow", "confirm_on", "baseline", "add", "preflight", "drop",
             "verify", "login", "confirm", "off"}

OpOK(o) ==
  /\ o \in OpType
  /\ o.src # o.dst
  /\ o.made => o.dst = "nftables"
  /\ o.pc = "unmake" => o.made /\ o.safe
  /\ o.pc \in {"preflight", "drop"} => Ssh \notin o.todo
  /\ o.pc \in Sourced \/ o.kept # "no" \/ o.safe => o.src # NoFw
  /\ o.kept # "no" => o.was.on
  /\ o.safe => o.pc \in SafePcs
  /\ o.wason => o.pc \in WasonPcs
  /\ o.pc \in Removing => o.kind = "remove" /\ o.src = NoFw
  /\ o.pc = "scan" => o.src = NoFw
  /\ o.pc \in Deciding \cup {"scan", "inventory"} => o.kept = "no"
  /\ o.pc = "m_scan" => o.added = {}

\* What the user decided on.
Decided(o) == IF o.accepted THEN o.asked ELSE o.want

\* A step from o to x keeps the parties, and x is one of those the step from o
\* may lead to.
Kin(o, x) ==
  /\ o.pc \notin AtRest
  /\ x.src = o.src /\ x.dst = o.dst /\ x.wason = o.wason
  /\ x.pc \in {"off", "m_off"} => o.pc \in {"off", "m_off", "confirm", "m_confirm"}
  /\ x.pc \in {"scan", "inventory"} => x.pc = o.pc
  /\ x.safe => o.safe \/ o.pc \in {"safe", "m_safe"}
  /\ x.pc \in Deciding /\ o.pc # "inventory" => /\ o.pc \in Deciding /\ Decided(x) = Decided(o)
                                             /\ x.had = o.had /\ x.unclear = o.unclear
  /\ Ssh \in x.added => Ssh \in o.added \/ Ssh \notin fw[o.dst].rules

LEMMA GoType ==
  ASSUME op \in OpType, NEW pc \in Pcs, Go(pc)
  PROVE  op' \in OpType /\ op' = [op EXCEPT !.pc = pc]
BY Updates DEF Go

LEMMA AbandonOK ==
  ASSUME NEW o, OpOK(o), Kin(op, o), Abandon(o), o.pc \in Steps \ {"persist"}
  PROVE  OpOK(op') /\ Kin(op, op') /\ op'.pc \in {"stopped", "back", "safe"}
<1>1. o \in OpType /\ o.offed \in BOOLEAN
      BY OpFields DEF OpOK
<1>2. PICK pc \in {"stopped", "back", "safe"} :
        /\ op' = [o EXCEPT !.pc = pc, !.safe = FALSE, !.ok = ~o.offed]
        /\ pc # "stopped" => Reconcile
      BY DEF Abandon
<1>3. op' \in OpType
      BY <1>1, <1>2, Updates, PcFacts
<1>4. ~o.wason
      BY DEF OpOK, WasonPcs, Steps, AtRest, MoreSteps
<1>5. (op'.pc = "stopped" \/ o.src # NoFw) /\ op'.pc \in {"stopped", "back", "safe"}
      BY <1>1, <1>2 DEF OpType, Reconcile, src, Kin
<1>6. OpOK(op')
      BY <1>1, <1>2, <1>3, <1>4, <1>5 DEF OpOK, SafePcs, Sourced, AtRest, Removing, Deciding
<1> QED BY <1>1, <1>2, <1>3, <1>5, <1>6 DEF Kin, Deciding

LEMMA GiveUpOK ==
  ASSUME NEW o, OpOK(o), Kin(op, o), GiveUp(o)
  PROVE  OpOK(op') /\ Kin(op, op') /\ op'.pc \in {"m_back", "stopped"}
<1>1. o \in OpType
      BY DEF OpOK
<1>2. PICK pc \in {"m_back", "stopped"} : op' = [o EXCEPT !.pc = pc, !.safe = FALSE, !.ok = TRUE]
      BY DEF GiveUp
<1>3. op' \in OpType
      BY <1>1, <1>2, Updates, PcFacts
<1>4. OpOK(op')
      BY <1>1, <1>2, <1>3 DEF OpOK, SafePcs, WasonPcs, Sourced, AtRest, MoreSteps, Removing, Deciding
<1> QED BY <1>1, <1>2, <1>3, <1>4 DEF Kin, Deciding

LEMMA ConfirmOnOK ==
  ASSUME OpOK(op), ConfirmOn
  PROVE  OpOK(op') /\ Kin(op, op')
<1>1. CASE Abandon(op)
      BY <1>1, AbandonOK DEF Kin, ConfirmOn, At, AtRest, Steps, Deciding
<1>2. ASSUME NEW pc \in {"baseline", "login"}, Go(pc)
      PROVE  OpOK(op') /\ Kin(op, op')
  <2>1. op' \in OpType /\ op' = [op EXCEPT !.pc = pc]
        BY <1>2, GoType, PcFacts DEF OpOK
  <2> QED BY <1>2, <2>1 DEF OpOK, Kin, SafePcs, WasonPcs, Sourced, Removing, Deciding, AtRest, MoreSteps,
             Decided, ConfirmOn, At
<1> QED BY <1>1, <1>2 DEF ConfirmOn

LEMMA PreflightDropsOK ==
  ASSUME OpOK(op), PreflightDrops
  PROVE  OpOK(op') /\ Kin(op, op')
<1>1. CASE Abandon(op)
      BY <1>1, AbandonOK DEF Kin, PreflightDrops, At, AtRest, Steps, Deciding
<1>2. ASSUME NEW pc \in {"drop"}, Go(pc)
      PROVE  OpOK(op') /\ Kin(op, op')
  <2>1. op' \in OpType /\ op' = [op EXCEPT !.pc = pc]
        BY <1>2, GoType, PcFacts DEF OpOK
  <2> QED BY <1>2, <2>1 DEF OpOK, Kin, SafePcs, WasonPcs, Sourced, Removing, Deciding, AtRest, MoreSteps,
             Decided, PreflightDrops, At
<1> QED BY <1>1, <1>2 DEF PreflightDrops

LEMMA VerifyOK ==
  ASSUME OpOK(op), Verify
  PROVE  OpOK(op') /\ Kin(op, op')
<1>1. CASE Abandon(op)
      BY <1>1, AbandonOK DEF Kin, Verify, At, AtRest, Steps, Deciding
<1>2. ASSUME NEW pc \in {"login"}, Go(pc)
      PROVE  OpOK(op') /\ Kin(op, op')
  <2>1. op' \in OpType /\ op' = [op EXCEPT !.pc = pc]
        BY <1>2, GoType, PcFacts DEF OpOK
  <2> QED BY <1>2, <2>1 DEF OpOK, Kin, SafePcs, WasonPcs, Sourced, Removing, Deciding, AtRest, MoreSteps,
             Decided, Verify, At
<1> QED BY <1>1, <1>2 DEF Verify

LEMMA LoginWithBothOK ==
  ASSUME OpOK(op), LoginWithBoth
  PROVE  OpOK(op') /\ Kin(op, op')
<1>1. CASE Abandon(op)
      BY <1>1, AbandonOK DEF Kin, LoginWithBoth, At, AtRest, Steps, Deciding
<1>2. ASSUME NEW pc \in {"confirm", "login2"}, Go(pc), pc = "confirm" => Reconcile
      PROVE  OpOK(op') /\ Kin(op, op')
  <2>1. op' \in OpType /\ op' = [op EXCEPT !.pc = pc]
        BY <1>2, GoType, PcFacts DEF OpOK
  <2> QED BY <1>2, <2>1 DEF OpOK, Kin, SafePcs, WasonPcs, Sourced, Removing, Deciding, AtRest, MoreSteps,
             Decided, LoginWithBoth, At, Reconcile, src
<1> QED BY <1>1, <1>2 DEF LoginWithBoth, Login

LEMMA ConfirmOK ==
  ASSUME OpOK(op), Confirm
  PROVE  OpOK(op') /\ Kin(op, op')
<1>1. CASE Abandon(op)
      BY <1>1, AbandonOK DEF Kin, Confirm, At, AtRest, Steps, Deciding
<1>2. ASSUME NEW pc \in {"off"}, Go(pc)
      PROVE  OpOK(op') /\ Kin(op, op')
  <2>1. op' \in OpType /\ op' = [op EXCEPT !.pc = pc]
        BY <1>2, GoType, PcFacts DEF OpOK
  <2> QED BY <1>2, <2>1 DEF OpOK, Kin, SafePcs, WasonPcs, Sourced, Removing, Deciding, AtRest, MoreSteps,
             Decided, Confirm, At
<1> QED BY <1>1, <1>2 DEF Confirm, Looks

LEMMA LoginAfterOK ==
  ASSUME OpOK(op), LoginAfter
  PROVE  OpOK(op') /\ Kin(op, op')
<1>1. CASE Abandon(op)
      BY <1>1, AbandonOK DEF Kin, LoginAfter, At, AtRest, Steps, Deciding
<1>2. ASSUME NEW pc \in {"final"}, Go(pc)
      PROVE  OpOK(op') /\ Kin(op, op')
  <2>1. op' \in OpType /\ op' = [op EXCEPT !.pc = pc]
        BY <1>2, GoType, PcFacts DEF OpOK
  <2> QED BY <1>2, <2>1 DEF OpOK, Kin, SafePcs, WasonPcs, Sourced, Removing, Deciding, AtRest, MoreSteps,
             LoginAfter, At
<1> QED BY <1>1, <1>2 DEF LoginAfter, Login

LEMMA FinalScanOK ==
  ASSUME OpOK(op), FinalScan
  PROVE  OpOK(op') /\ Kin(op, op')
<1>1. CASE Abandon(op)
      BY <1>1, AbandonOK DEF Kin, FinalScan, At, AtRest, Steps, Deciding
<1>2. ASSUME NEW pc \in {"persist", "switched"}, Go(pc)
      PROVE  OpOK(op') /\ Kin(op, op')
  <2>1. op' \in OpType /\ op' = [op EXCEPT !.pc = pc]
        BY <1>2, GoType, PcFacts DEF OpOK
  <2> QED BY <1>2, <2>1 DEF OpOK, Kin, SafePcs, WasonPcs, Sourced, Removing, Deciding, AtRest, MoreSteps,
             FinalScan, At
<1> QED BY <1>1, <1>2 DEF FinalScan, Looks

LEMMA UnmakeOK ==
  ASSUME OpOK(op), Unmake
  PROVE  OpOK(op') /\ Kin(op, op')
<1>1. ASSUME NEW pc \in {"last", "clean"}, Go(pc)
      PROVE  OpOK(op') /\ Kin(op, op')
  <2>1. op' \in OpType /\ op' = [op EXCEPT !.pc = pc]
        BY <1>1, GoType, PcFacts DEF OpOK
  <2> QED BY <1>1, <2>1 DEF OpOK, Kin, SafePcs, WasonPcs, Sourced, Removing, Deciding, AtRest, MoreSteps,
             Unmake, At
<1> QED BY <1>1 DEF Unmake

LEMMA LastLookOK ==
  ASSUME OpOK(op), LastLook
  PROVE  OpOK(op') /\ Kin(op, op')
<1>1. ASSUME NEW pc \in {"undone", "stuck"}, Go(pc)
      PROVE  OpOK(op') /\ Kin(op, op')
  <2>1. op' \in OpType /\ op' = [op EXCEPT !.pc = pc]
        BY <1>1, GoType, PcFacts DEF OpOK
  <2> QED BY <1>1, <2>1 DEF OpOK, Kin, SafePcs, WasonPcs, Sourced, Removing, Deciding, AtRest, MoreSteps,
             LastLook, At
<1> QED BY <1>1 DEF LastLook, Looks

LEMMA MDetectOK ==
  ASSUME OpOK(op), MDetect
  PROVE  OpOK(op') /\ Kin(op, op')
<1>1. CASE GiveUp(op)
      BY <1>1, GiveUpOK DEF Kin, MDetect, At, AtRest, Deciding
<1>2. ASSUME NEW pc \in {"m_allow"}, Go(pc)
      PROVE  OpOK(op') /\ Kin(op, op')
  <2>1. op' \in OpType /\ op' = [op EXCEPT !.pc = pc]
        BY <1>2, GoType, PcFacts DEF OpOK
  <2> QED BY <1>2, <2>1 DEF OpOK, Kin, SafePcs, WasonPcs, Sourced, Removing, Deciding, AtRest, MoreSteps,
             MDetect, At
<1> QED BY <1>1, <1>2 DEF MDetect, Sees

LEMMA MVerifyOK ==
  ASSUME OpOK(op), MVerify
  PROVE  OpOK(op') /\ Kin(op, op')
<1>1. CASE GiveUp(op)
      BY <1>1, GiveUpOK DEF Kin, MVerify, At, AtRest, Deciding
<1>2. ASSUME NEW pc \in {"m_login"}, Go(pc)
      PROVE  OpOK(op') /\ Kin(op, op')
  <2>1. op' \in OpType /\ op' = [op EXCEPT !.pc = pc]
        BY <1>2, GoType, PcFacts DEF OpOK
  <2> QED BY <1>2, <2>1 DEF OpOK, Kin, SafePcs, WasonPcs, Sourced, Removing, Deciding, AtRest, MoreSteps,
             MVerify, At
<1> QED BY <1>1, <1>2 DEF MVerify, Sees

LEMMA MLoginOK ==
  ASSUME OpOK(op), MLogin
  PROVE  OpOK(op') /\ Kin(op, op')
<1>1. CASE GiveUp(op)
      BY <1>1, GiveUpOK DEF Kin, MLogin, At, AtRest, Deciding
<1>2. ASSUME NEW pc \in {"m_final", "m_confirm"}, Go(pc)
      PROVE  OpOK(op') /\ Kin(op, op')
  <2>1. op' \in OpType /\ op' = [op EXCEPT !.pc = pc]
        BY <1>2, GoType, PcFacts DEF OpOK
  <2> QED BY <1>2, <2>1 DEF OpOK, Kin, SafePcs, WasonPcs, Sourced, Removing, Deciding, AtRest, MoreSteps,
             MLogin, At
<1> QED BY <1>1, <1>2 DEF MLogin, Login

LEMMA MConfirmOK ==
  ASSUME OpOK(op), MConfirm
  PROVE  OpOK(op') /\ Kin(op, op')
<1>1. CASE GiveUp(op)
      BY <1>1, GiveUpOK DEF Kin, MConfirm, At, AtRest, Deciding
<1>2. ASSUME NEW pc \in {"m_off", "m_final"}, Go(pc), pc = "m_off" => Reconcile
      PROVE  OpOK(op') /\ Kin(op, op')
  <2>1. op' \in OpType /\ op' = [op EXCEPT !.pc = pc]
        BY <1>2, GoType, PcFacts DEF OpOK
  <2> QED BY <1>2, <2>1 DEF OpOK, Kin, SafePcs, WasonPcs, Sourced, Removing, Deciding, AtRest, MoreSteps,
             MConfirm, At, Reconcile, src
<1> QED BY <1>1, <1>2 DEF MConfirm, Looks

LEMMA MFinalScanOK ==
  ASSUME OpOK(op), MFinalScan
  PROVE  OpOK(op') /\ Kin(op, op')
<1>1. CASE GiveUp(op)
      BY <1>1, GiveUpOK DEF Kin, MFinalScan, At, AtRest, Deciding
<1>2. ASSUME NEW pc \in {"m_login2", "persist", "switched"}, Go(pc)
      PROVE  OpOK(op') /\ Kin(op, op')
  <2>1. op' \in OpType /\ op' = [op EXCEPT !.pc = pc]
        BY <1>2, GoType, PcFacts DEF OpOK
  <2> QED BY <1>2, <2>1 DEF OpOK, Kin, SafePcs, WasonPcs, Sourced, Removing, Deciding, AtRest, MoreSteps,
             MFinalScan, At
<1> QED BY <1>1, <1>2 DEF MFinalScan, Looks, DonePc

LEMMA MLoginAfterOK ==
  ASSUME OpOK(op), MLoginAfter
  PROVE  OpOK(op') /\ Kin(op, op')
<1>1. CASE GiveUp(op)
      BY <1>1, GiveUpOK DEF Kin, MLoginAfter, At, AtRest, Deciding
<1>2. ASSUME NEW pc \in {"m_verify2"}, Go(pc)
      PROVE  OpOK(op') /\ Kin(op, op')
  <2>1. op' \in OpType /\ op' = [op EXCEPT !.pc = pc]
        BY <1>2, GoType, PcFacts DEF OpOK
  <2> QED BY <1>2, <2>1 DEF OpOK, Kin, SafePcs, WasonPcs, Sourced, Removing, Deciding, AtRest, MoreSteps,
             MLoginAfter, At
<1> QED BY <1>1, <1>2 DEF MLoginAfter, Login

LEMMA MFinalRulesOK ==
  ASSUME OpOK(op), MFinalRules
  PROVE  OpOK(op') /\ Kin(op, op')
<1>1. CASE GiveUp(op)
      BY <1>1, GiveUpOK DEF Kin, MFinalRules, At, AtRest, Deciding
<1>2. ASSUME NEW pc \in {"persist", "switched"}, Go(pc)
      PROVE  OpOK(op') /\ Kin(op, op')
  <2>1. op' \in OpType /\ op' = [op EXCEPT !.pc = pc]
        BY <1>2, GoType, PcFacts DEF OpOK
  <2> QED BY <1>2, <2>1 DEF OpOK, Kin, SafePcs, WasonPcs, Sourced, Removing, Deciding, AtRest, MoreSteps,
             MFinalRules, At
<1> QED BY <1>1, <1>2 DEF MFinalRules, Sees, DonePc

LEMMA MLastOK ==
  ASSUME OpOK(op), MLast
  PROVE  OpOK(op') /\ Kin(op, op')
<1>1. ASSUME NEW pc \in {"undone", "stuck", "asked"}, Go(pc)
      PROVE  OpOK(op') /\ Kin(op, op')
  <2>1. op' \in OpType /\ op' = [op EXCEPT !.pc = pc]
        BY <1>1, GoType, PcFacts DEF OpOK
  <2> QED BY <1>1, <2>1 DEF OpOK, Kin, SafePcs, WasonPcs, Sourced, Removing, Deciding, AtRest, MoreSteps,
             MLast, At
<1> QED BY <1>1 DEF MLast, Looks

LEMMA RScanOK ==
  ASSUME OpOK(op), RScan
  PROVE  OpOK(op') /\ Kin(op, op')
<1>1. ASSUME NEW pc \in {"stopped", "removed", "r_package", "r_off"}, Go(pc)
      PROVE  OpOK(op') /\ Kin(op, op')
  <2>1. op' \in OpType /\ op' = [op EXCEPT !.pc = pc]
        BY <1>1, GoType, PcFacts DEF OpOK
  <2> QED BY <1>1, <2>1 DEF OpOK, Kin, SafePcs, WasonPcs, Sourced, Removing, Deciding, AtRest, MoreSteps,
             RScan, At
<1> QED BY <1>1 DEF RScan, RStarts, Go

LEMMA ROffOK ==
  ASSUME OpOK(op), ROff
  PROVE  OpOK(op') /\ Kin(op, op')
<1>1. ASSUME NEW pc \in {"r_look", "stopped"}, Go(pc)
      PROVE  OpOK(op') /\ Kin(op, op')
  <2>1. op' \in OpType /\ op' = [op EXCEPT !.pc = pc]
        BY <1>1, GoType, PcFacts DEF OpOK
  <2> QED BY <1>1, <2>1 DEF OpOK, Kin, SafePcs, WasonPcs, Sourced, Removing, Deciding, AtRest, MoreSteps,
             ROff, At
<1> QED BY <1>1 DEF ROff

LEMMA RLookOK ==
  ASSUME OpOK(op), RLook
  PROVE  OpOK(op') /\ Kin(op, op')
<1>1. ASSUME NEW pc \in {"r_package", "stopped"}, Go(pc)
      PROVE  OpOK(op') /\ Kin(op, op')
  <2>1. op' \in OpType /\ op' = [op EXCEPT !.pc = pc]
        BY <1>1, GoType, PcFacts DEF OpOK
  <2> QED BY <1>1, <2>1 DEF OpOK, Kin, SafePcs, WasonPcs, Sourced, Removing, Deciding, AtRest, MoreSteps,
             RLook, At
<1> QED BY <1>1 DEF RLook, Looks

LEMMA RPackageOK ==
  ASSUME OpOK(op), RPackage
  PROVE  OpOK(op') /\ Kin(op, op')
<1>1. ASSUME NEW pc \in {"removed", "stopped"}, Go(pc)
      PROVE  OpOK(op') /\ Kin(op, op')
  <2>1. op' \in OpType /\ op' = [op EXCEPT !.pc = pc]
        BY <1>1, GoType, PcFacts DEF OpOK
  <2> QED BY <1>1, <2>1 DEF OpOK, Kin, SafePcs, WasonPcs, Sourced, Removing, Deciding, AtRest, MoreSteps,
             RPackage, At
<1> QED BY <1>1 DEF RPackage

FwOK == fw \in [Backends -> FwType]

LEMMA PartyFields ==
  ASSUME FwOK, OpOK(op)
  PROVE  /\ dst \in Backends /\ fw[dst] \in FwType
         /\ Reconcile => src \in Backends /\ fw[src] \in FwType
BY OpFields DEF OpOK, FwOK, dst, src, Reconcile

LEMMA NotWellOK ==
  ASSUME NEW o, OpOK(o), Kin(op, o), op' = [o EXCEPT !.ok = FALSE]
  PROVE  OpOK(op') /\ Kin(op, op')
<1>1. o \in OpType /\ op' \in OpType
      BY Updates DEF OpOK
<1> QED BY <1>1 DEF OpOK, Kin, Decided

LEMMA OpenOK ==
  ASSUME OpOK(op), NEW p \in Ports, NEW next, OpOK(next), Kin(op, next), next.pc # "m_scan",
         op.pc \in Steps \ {"persist"}, Open(p, next)
  PROVE  OpOK(op') /\ Kin(op, op')
<1>1. CASE Abandon(op)
      BY <1>1, AbandonOK DEF Kin, Steps, MoreSteps, Deciding
<1>2. ASSUME NEW w \in BOOLEAN, p \in fw[dst].rules => w,
             op' = [next EXCEPT !.added = IF w THEN @ ELSE @ \cup {p}]
      PROVE  OpOK(op') /\ Kin(op, op')
  <2>1. next \in OpType /\ next.added \in SUBSET Ports
        BY OpFields DEF OpOK
  <2>2. op' \in OpType
        BY <1>2, <2>1, Updates
  <2> QED BY <1>2, <2>1, <2>2 DEF OpOK, Kin, dst, Decided
<1> QED BY <1>1, <1>2 DEF Open

LEMMA PrepareOK ==
  ASSUME FwOK, OpOK(op), Prepare
  PROVE  OpOK(op') /\ Kin(op, op')
<1>1. PICK m \in BOOLEAN :
        /\ m => dst = "nftables"
        /\ \/ op' = [[op EXCEPT !.made = m] EXCEPT !.pc = "allow"]
           \/ Abandon([op EXCEPT !.made = m])
      BY DEF Prepare
<1> DEFINE begun == [op EXCEPT !.made = m]
<1>2. op \in OpType /\ begun \in OpType
      BY Updates DEF OpOK
<1>3. OpOK(begun) /\ Kin(op, begun) /\ begun.pc = "prepare"
      BY <1>1, <1>2 DEF OpOK, Kin, Prepare, At, dst, SafePcs, WasonPcs, Sourced, Removing, Deciding, AtRest, MoreSteps,
             Decided
<1> HIDE DEF begun
<1>4. CASE op' = [begun EXCEPT !.pc = "allow"]
  <2>1. op' \in OpType
        BY <1>2, <1>4, Updates, PcFacts
  <2> QED BY <1>2, <1>3, <1>4, <2>1 DEF OpOK, Kin, SafePcs, WasonPcs, Sourced, Removing, Deciding, AtRest, MoreSteps,
             Decided
<1>5. CASE Abandon(begun)
      BY <1>3, <1>5, AbandonOK DEF Steps
<1> QED BY <1>1, <1>4, <1>5 DEF begun

LEMMA AllowSshOK ==
  ASSUME FwOK, OpOK(op), AllowSsh
  PROVE  OpOK(op') /\ Kin(op, op')
<1> DEFINE next == [op EXCEPT !.pc = "confirm_on"]
<1>1. op \in OpType /\ next \in OpType
      BY Updates, PcFacts DEF OpOK
<1>2. OpOK(next) /\ Kin(op, next) /\ next.pc = "confirm_on" /\ op.pc = "allow"
      BY <1>1 DEF OpOK, Kin, AllowSsh, At, SafePcs, WasonPcs, Sourced, Removing, Deciding, AtRest, MoreSteps,
             Decided
<1> QED BY <1>2, OpenOK, SshIsPort DEF AllowSsh, Steps

LEMMA BaselineOK ==
  ASSUME FwOK, OpOK(op), Baseline
  PROVE  OpOK(op') /\ Kin(op, op')
<1>1. CASE Abandon(op)
      BY <1>1, AbandonOK DEF Kin, Baseline, At, AtRest, Steps, Deciding
<1>2. CASE op' = [op EXCEPT !.pc = "add", !.base = fw[dst].rules, !.based = TRUE,
                            !.todo = op.want \ fw[dst].rules]
  <2>1. op \in OpType /\ fw[dst].rules \in SUBSET Ports /\ op.want \ fw[dst].rules \in SUBSET Ports
        BY PartyFields, FwFields, OpFields DEF OpOK
  <2>2. op' \in OpType
        BY <1>2, <2>1, Updates, PcFacts
  <2> QED BY <1>2, <2>1, <2>2 DEF OpOK, Kin, Baseline, At, SafePcs, WasonPcs, Sourced, Removing, Deciding, AtRest, MoreSteps,
             Decided
<1> QED BY <1>1, <1>2 DEF Baseline

LEMMA AddRuleOK ==
  ASSUME FwOK, OpOK(op), AddRule
  PROVE  OpOK(op') /\ Kin(op, op')
<1>1. op \in OpType /\ op.todo \in SUBSET Ports /\ op.base \ (op.want \cup {Ssh}) \in SUBSET Ports
      BY OpFields DEF OpOK
<1>2. CASE op' = [op EXCEPT !.pc = "preflight", !.todo = op.base \ (op.want \cup {Ssh})]
  <2>1. op' \in OpType
        BY <1>1, <1>2, Updates, PcFacts
  <2> QED BY <1>1, <1>2, <2>1 DEF OpOK, Kin, AddRule, At, SafePcs, WasonPcs, Sourced, Removing, Deciding, AtRest, MoreSteps,
             Decided
<1>3. ASSUME NEW p \in op.todo, Open(p, [op EXCEPT !.todo = @ \ {p}])
      PROVE  OpOK(op') /\ Kin(op, op')
  <2> DEFINE next == [op EXCEPT !.todo = @ \ {p}]
  <2>1. p \in Ports /\ next \in OpType
        BY <1>1, Updates
  <2>2. OpOK(next) /\ Kin(op, next) /\ next.pc = "add" /\ op.pc = "add"
        BY <1>1, <2>1 DEF OpOK, Kin, AddRule, At, SafePcs, WasonPcs, Sourced, Removing, Deciding, AtRest, MoreSteps,
             Decided
  <2> QED BY <1>3, <2>1, <2>2, OpenOK DEF Steps
<1> QED BY <1>2, <1>3 DEF AddRule

LEMMA DropRuleOK ==
  ASSUME FwOK, OpOK(op), DropRule
  PROVE  OpOK(op') /\ Kin(op, op')
<1>1. op \in OpType /\ op.todo \in SUBSET Ports /\ op.dropped \in SUBSET Ports /\ op.pc = "drop"
      BY OpFields DEF OpOK, DropRule, At
<1>2. CASE Go("verify")
  <2>1. op' \in OpType /\ op' = [op EXCEPT !.pc = "verify"]
        BY <1>1, <1>2, GoType, PcFacts
  <2> QED BY <1>1, <2>1 DEF OpOK, Kin, SafePcs, WasonPcs, Sourced, Removing, Deciding, AtRest, MoreSteps,
             Decided
<1>3. ASSUME NEW p \in op.todo,
             NEW trying, trying = [op EXCEPT !.todo = @ \ {p}, !.dropped = @ \cup {p}],
             op' = trying \/ Abandon(trying)
      PROVE  OpOK(op') /\ Kin(op, op')
  <2>1. trying \in OpType
        BY <1>1, <1>3, Updates
  <2>2. OpOK(trying) /\ Kin(op, trying) /\ trying.pc = "drop"
        BY <1>1, <1>3, <2>1 DEF OpOK, Kin, SafePcs, WasonPcs, Sourced, Removing, Deciding, AtRest, MoreSteps,
             Decided
  <2> QED BY <1>3, <2>2, AbandonOK DEF Steps
<1> QED BY <1>2, <1>3 DEF DropRule

\* The source filters when it is switched off.
OnAtOff == ssh /\ op.pc \in {"off", "m_off"} => fw[src].on

LEMMA SourceOffOK ==
  ASSUME FwOK, OpOK(op), OnAtOff, SourceOff
  PROVE  OpOK(op') /\ Kin(op, op') /\ op'.pc \notin {"off", "m_off"}
<1> DEFINE begun == [op EXCEPT !.offed = TRUE, !.was = fw[src]]
           partly == [begun EXCEPT !.kept = "partly"]
<1>1. op \in OpType /\ op.pc = "off" /\ op.src # NoFw /\ fw[src] \in FwType
      BY PartyFields DEF OpOK, SourceOff, At, Sourced, Reconcile, src
<1>2. begun \in OpType /\ partly \in OpType
      BY <1>1, Updates
<1>3. OpOK(begun) /\ Kin(op, begun) /\ begun.pc = "off"
      BY <1>1, <1>2 DEF OpOK, Kin, SafePcs, WasonPcs, Sourced, Removing, Deciding, AtRest, MoreSteps,
             Decided
<1>4. ASSUME ssh, Abandon(partly)
      PROVE  OpOK(op') /\ Kin(op, op') /\ op'.pc \notin {"off", "m_off"}
  <2>1. PICK pc \in {"stopped", "back"} : op' = [partly EXCEPT !.pc = pc, !.safe = FALSE, !.ok = ~partly.offed]
        BY <1>1, <1>2, <1>4 DEF Abandon, OpType
  <2>2. partly.offed \in BOOLEAN /\ partly.was.on /\ partly.kept = "partly"
        BY <1>1, <1>2, <1>4, OpFields DEF OnAtOff, OpType
  <2>3. op' \in OpType
        BY <1>2, <2>1, <2>2, Updates, PcFacts
  <2> QED BY <1>1, <1>2, <2>1, <2>2, <2>3 DEF OpOK, Kin, SafePcs, WasonPcs, Sourced, Removing, Deciding, AtRest, MoreSteps,
             Decided
<1> HIDE DEF begun
<1>5. CASE Abandon(begun)
      BY <1>3, <1>5, AbandonOK DEF Steps
<1>6. ASSUME NEW w \in BOOLEAN, ssh,
             op' = [begun EXCEPT !.pc = "login2", !.kept = "yes", !.warned = w]
      PROVE  OpOK(op') /\ Kin(op, op') /\ op'.pc \notin {"off", "m_off"}
  <2>1. op' \in OpType
        BY <1>2, <1>6, Updates, PcFacts
  <2>2. begun.was.on
        BY <1>1, <1>6 DEF begun, OnAtOff, OpType
  <2> QED BY <1>2, <1>3, <1>6, <2>1, <2>2 DEF OpOK, Kin, SafePcs, WasonPcs, Sourced, Removing, Deciding, AtRest, MoreSteps,
             Decided
<1>7. ASSUME ssh, op' = [begun EXCEPT !.pc = "login2", !.kept = "blind"]
      PROVE  OpOK(op') /\ Kin(op, op') /\ op'.pc \notin {"off", "m_off"}
  <2>1. op' \in OpType
        BY <1>2, <1>7, Updates, PcFacts
  <2>2. begun.was.on
        BY <1>1, <1>7 DEF begun, OnAtOff, OpType
  <2> QED BY <1>2, <1>3, <1>7, <2>1, <2>2 DEF OpOK, Kin, SafePcs, WasonPcs, Sourced, Removing, Deciding, AtRest, MoreSteps,
             Decided
<1> QED BY <1>4, <1>5, <1>6, <1>7 DEF SourceOff, Works, OffBlindly, Overlooks, begun

LEMMA PersistOK ==
  ASSUME FwOK, OpOK(op), Persist
  PROVE  OpOK(op') /\ Kin(op, op')
<1>1. op \in OpType /\ op.pc = "persist"
      BY DEF OpOK, Persist, At
<1>2. PICK w \in BOOLEAN : op' = [op EXCEPT !.pc = "switched", !.warned = w]
  <2>1. CASE Go("switched")
    <3>1. op' = [op EXCEPT !.pc = "switched", !.warned = op.warned]
          BY <1>1, <2>1 DEF Go, OpType
    <3> QED BY <1>1, <3>1, OpFields
  <2> QED BY <2>1 DEF Persist
<1>3. op' \in OpType
      BY <1>1, <1>2, Updates, PcFacts
<1> QED BY <1>1, <1>2, <1>3 DEF OpOK, Kin, SafePcs, WasonPcs, Sourced, Removing, Deciding, AtRest, MoreSteps,
             Decided

LEMMA RestoreSourceOK ==
  ASSUME FwOK, OpOK(op), RestoreSource
  PROVE  OpOK(op') /\ Kin(op, op')
<1>1. op \in OpType /\ op.pc = "back" /\ op.src # NoFw /\ op.was \in FwType /\ fw[src] \in FwType
      BY PartyFields, OpFields DEF OpOK, RestoreSource, At, Sourced, Reconcile, src
<1>2. fw[src].on \in BOOLEAN /\ Restored(src, fw[src], op.was).on \in BOOLEAN
      BY <1>1, FwFields, RestoredType, PartyFields DEF Reconcile, src
<1>3. PICK ok \in BOOLEAN : op' = [op EXCEPT !.pc = "safe", !.ok = ok]
      BY <1>2 DEF RestoreSource
<1>4. op' \in OpType
      BY <1>1, <1>3, Updates, PcFacts
<1> QED BY <1>1, <1>3, <1>4 DEF OpOK, Kin, SafePcs, WasonPcs, Sourced, Removing, Deciding, AtRest, MoreSteps,
             Decided

LEMMA ProveSourceOK ==
  ASSUME FwOK, OpOK(op), ProveSource
  PROVE  OpOK(op') /\ Kin(op, op')
<1>1. PICK s \in BOOLEAN : op' = [op EXCEPT !.pc = "readd", !.safe = s, !.ok = s, !.todo = op.dropped]
  <2>1. SafeSource \in BOOLEAN
        BY DEF SafeSource
  <2> QED BY <2>1 DEF ProveSource
<1>2. op \in OpType /\ op.dropped \in SUBSET Ports /\ op.pc = "safe"
      BY OpFields DEF OpOK, ProveSource, At
<1>3. op' \in OpType
      BY <1>1, <1>2, Updates, PcFacts
<1> QED BY <1>1, <1>2, <1>3 DEF OpOK, Kin, SafePcs, WasonPcs, Sourced, Removing, Deciding, AtRest, MoreSteps,
             Decided

LEMMA ReaddRuleOK ==
  ASSUME FwOK, OpOK(op), ReaddRule
  PROVE  OpOK(op') /\ Kin(op, op')
<1>1. op \in OpType /\ op.todo \in SUBSET Ports /\ op.pc = "readd"
      BY OpFields DEF OpOK, ReaddRule, At
<1>2. ASSUME NEW pc \in {"unmake", "clean"}, Go(pc), pc = "unmake" => op.made /\ op.safe
      PROVE  OpOK(op') /\ Kin(op, op')
  <2>1. op' \in OpType /\ op' = [op EXCEPT !.pc = pc]
        BY <1>1, <1>2, GoType, PcFacts
  <2> QED BY <1>1, <1>2, <2>1 DEF OpOK, Kin, SafePcs, WasonPcs, Sourced, Removing, Deciding, AtRest, MoreSteps,
             Decided
<1>3. ASSUME NEW p \in op.todo, NEW left, left = [op EXCEPT !.todo = @ \ {p}],
             op' = left \/ op' = [left EXCEPT !.ok = FALSE]
      PROVE  OpOK(op') /\ Kin(op, op')
  <2>1. left \in OpType
        BY <1>1, <1>3, Updates
  <2>2. OpOK(left) /\ Kin(op, left) /\ left.pc = op.pc
        BY <1>1, <1>3, <2>1 DEF OpOK, Kin, SafePcs, WasonPcs, Sourced, Removing, Deciding, AtRest, MoreSteps,
             Decided
  <2> QED BY <1>3, <2>2, NotWellOK
<1> QED BY <1>2, <1>3 DEF ReaddRule

LEMMA CleanRuleOK ==
  ASSUME FwOK, OpOK(op), CleanRule
  PROVE  OpOK(op') /\ Kin(op, op')
<1>1. op \in OpType /\ op.added \in SUBSET Ports /\ op.ok \in BOOLEAN /\ op.pc = "clean"
      BY OpFields DEF OpOK, CleanRule, At
<1>2. ASSUME NEW ok \in BOOLEAN, op' = [op EXCEPT !.pc = "compare", !.ok = ok]
      PROVE  OpOK(op') /\ Kin(op, op')
  <2>1. op' \in OpType
        BY <1>1, <1>2, Updates, PcFacts
  <2> QED BY <1>1, <1>2, <2>1 DEF OpOK, Kin, SafePcs, WasonPcs, Sourced, Removing, Deciding, AtRest, MoreSteps,
             Decided
<1>3. ASSUME NEW p \in Cleanable, NEW left, left = [op EXCEPT !.added = @ \ {p}],
             op' = left \/ op' = [left EXCEPT !.ok = FALSE]
      PROVE  OpOK(op') /\ Kin(op, op')
  <2>1. left \in OpType
        BY <1>1, <1>3, Updates
  <2>2. OpOK(left) /\ Kin(op, left) /\ left.pc = op.pc
        BY <1>1, <1>3, <2>1 DEF OpOK, Kin, SafePcs, WasonPcs, Sourced, Removing, Deciding, AtRest, MoreSteps,
             Decided
  <2> QED BY <1>3, <2>2, NotWellOK
<1> QED BY <1>1, <1>2, <1>3 DEF CleanRule

LEMMA CompareTargetOK ==
  ASSUME FwOK, OpOK(op), CompareTarget
  PROVE  OpOK(op') /\ Kin(op, op')
<1>1. op \in OpType /\ op.pc = "compare"
      BY DEF OpOK, CompareTarget, At
<1>2. PICK ok \in BOOLEAN : op' = [op EXCEPT !.pc = "target_off", !.ok = ok]
      BY <1>1, OpFields DEF CompareTarget
<1>3. op' \in OpType
      BY <1>1, <1>2, Updates, PcFacts
<1> QED BY <1>1, <1>2, <1>3 DEF OpOK, Kin, SafePcs, WasonPcs, Sourced, Removing, Deciding, AtRest, MoreSteps,
             Decided

LEMMA TargetOffOK ==
  ASSUME FwOK, OpOK(op), TargetOff
  PROVE  OpOK(op') /\ Kin(op, op')
<1>1. op \in OpType /\ op.pc = "target_off"
      BY DEF OpOK, TargetOff, At
<1>2. PICK ok \in BOOLEAN : op' = [op EXCEPT !.pc = "last", !.ok = ok]
      BY <1>1, OpFields DEF TargetOff
<1>3. op' \in OpType
      BY <1>1, <1>2, Updates, PcFacts
<1> QED BY <1>1, <1>2, <1>3 DEF OpOK, Kin, SafePcs, WasonPcs, Sourced, Removing, Deciding, AtRest, MoreSteps,
             Decided

LEMMA MInventoryOK ==
  ASSUME FwOK, OpOK(op), MInventory
  PROVE  OpOK(op') /\ Kin(op, op')
<1>1. op \in OpType /\ op.pc = "m_inventory" /\ src \in Backends /\ op.skip \in SUBSET Ports
      BY PartyFields, OpFields DEF OpOK, MInventory, At, Sourced, Reconcile, src
<1>2. CASE op' = [op EXCEPT !.pc = "asked", !.blind = src]
  <2>1. op' \in OpType
        BY <1>1, <1>2, Updates, PcFacts
  <2> QED BY <1>1, <1>2, <2>1 DEF OpOK, Kin, SafePcs, WasonPcs, Sourced, Removing, Deciding, AtRest, MoreSteps,
             Decided
<1>3. CASE Go("stopped")
  <2>1. op' \in OpType /\ op' = [op EXCEPT !.pc = "stopped"]
        BY <1>1, <1>3, GoType, PcFacts
  <2> QED BY <1>1, <2>1 DEF OpOK, Kin, SafePcs, WasonPcs, Sourced, Removing, Deciding, AtRest, MoreSteps,
             Decided
<1> DEFINE now == fw[src].rules
           got == [op EXCEPT !.asked = now, !.had = now \ Ambiguous, !.unclear = now \cap Ambiguous,
                             !.base = fw[dst].rules]
<1>4. now \in SUBSET Ports /\ fw[dst].rules \in SUBSET Ports
      BY <1>1, PartyFields, FwFields DEF FwOK
<1>5. got \in OpType
      BY <1>1, <1>4, Updates
<1>6. OpOK(got) /\ Kin(op, got) /\ got.pc = "m_inventory" /\ got.had \in SUBSET Ports
      BY <1>1, <1>4, <1>5, OpFields DEF OpOK, Kin, SafePcs, WasonPcs, Sourced, Removing, Deciding, AtRest, MoreSteps,
             Decided
<1> HIDE DEF got
<1>7. CASE op' = [got EXCEPT !.pc = "asked"]
  <2>1. op' \in OpType
        BY <1>5, <1>7, Updates, PcFacts
  <2> QED BY <1>5, <1>6, <1>7, <2>1 DEF OpOK, Kin, SafePcs, WasonPcs, Sourced, Removing, Deciding, AtRest, MoreSteps,
             Decided
<1>8. ASSUME NEW want \in SUBSET Ports,
             op' = [got EXCEPT !.pc = IF op.wason THEN "m_detect" ELSE "m_prepare",
                               !.want = want \cup {Ssh}, !.todo = want \ {Ssh}]
      PROVE  OpOK(op') /\ Kin(op, op')
  <2>1. want \cup {Ssh} \in SUBSET Ports /\ want \ {Ssh} \in SUBSET Ports
        BY SshIsPort
  <2>2. PICK pc \in {"m_detect", "m_prepare"} :
          /\ pc = "m_prepare" => ~op.wason
          /\ op' = [got EXCEPT !.pc = pc, !.want = want \cup {Ssh}, !.todo = want \ {Ssh}]
        BY <1>8
  <2>3. op' \in OpType
        BY <1>5, <2>1, <2>2, Updates, PcFacts
  <2>4. got.wason = op.wason
        BY <1>6 DEF Kin
  <2> QED BY <1>5, <1>6, <2>2, <2>3, <2>4 DEF OpOK, Kin, SafePcs, WasonPcs, Sourced, Removing, Deciding, AtRest, MoreSteps,
             Decided
<1>9. {} \in SUBSET Ports /\ got.had \ op.skip \in SUBSET Ports
      BY <1>6
<1> QED BY <1>2, <1>3, <1>7, <1>8, <1>9 DEF MInventory, got

LEMMA MPrepareOK ==
  ASSUME FwOK, OpOK(op), MPrepare
  PROVE  OpOK(op') /\ Kin(op, op')
<1>1. PICK m \in BOOLEAN :
        /\ m => dst = "nftables"
        /\ \/ op' = [[op EXCEPT !.made = m] EXCEPT !.pc = "m_detect", !.ready = TRUE]
           \/ GiveUp([op EXCEPT !.made = m])
      BY DEF MPrepare
<1> DEFINE begun == [op EXCEPT !.made = m]
<1>2. op \in OpType /\ begun \in OpType
      BY Updates DEF OpOK
<1>3. OpOK(begun) /\ Kin(op, begun) /\ begun.pc = "m_prepare"
      BY <1>1, <1>2 DEF OpOK, Kin, MPrepare, At, dst, SafePcs, WasonPcs, Sourced, Removing, Deciding, AtRest, MoreSteps,
             Decided
<1> HIDE DEF begun
<1>4. CASE op' = [begun EXCEPT !.pc = "m_detect", !.ready = TRUE]
  <2>1. op' \in OpType
        BY <1>2, <1>4, Updates, PcFacts
  <2> QED BY <1>2, <1>3, <1>4, <2>1 DEF OpOK, Kin, SafePcs, WasonPcs, Sourced, Removing, Deciding, AtRest, MoreSteps,
             Decided
<1>5. CASE GiveUp(begun)
      BY <1>3, <1>5, GiveUpOK
<1> QED BY <1>1, <1>4, <1>5 DEF begun

LEMMA NewOK ==
  ASSUME NEW p \in Ports, NEW o, OpOK(o), Kin(op, o), o.pc # "m_scan"
  PROVE  OpOK(New(p, o)) /\ Kin(op, New(p, o)) /\ New(p, o).pc = o.pc
<1>1. o \in OpType /\ o.added \in SUBSET Ports
      BY OpFields DEF OpOK
<1>2. PICK w \in BOOLEAN :
        /\ p \in fw[dst].rules => w
        /\ New(p, o) = [o EXCEPT !.added = IF w THEN @ ELSE @ \cup {p}]
      BY DEF New
<1>3. New(p, o) \in OpType
  <2>1. (IF w THEN o.added ELSE o.added \cup {p}) \in SUBSET Ports
        BY <1>1
  <2> QED BY <1>1, <1>2, <2>1, Updates
<1> QED BY <1>1, <1>2, <1>3 DEF OpOK, Kin, dst, Decided

LEMMA MAllowOK ==
  ASSUME FwOK, OpOK(op), MAllow
  PROVE  OpOK(op') /\ Kin(op, op')
<1>1. op \in OpType /\ op.pc = "m_allow" /\ Kin(op, op)
      BY DEF OpOK, MAllow, At, Kin, AtRest, Deciding
<1> DEFINE n == New(Ssh, op)
<1>2. OpOK(n) /\ Kin(op, n) /\ n.pc = "m_allow"
      BY <1>1, NewOK, SshIsPort
<1> HIDE DEF n
<1>3. CASE GiveUp(op) \/ GiveUp(n)
      BY <1>1, <1>2, <1>3, GiveUpOK
<1>4. CASE op' = [n EXCEPT !.pc = "m_add"]
  <2>1. n \in OpType /\ op' \in OpType
        BY <1>2, <1>4, Updates, PcFacts DEF OpOK
  <2> QED BY <1>2, <1>4, <2>1 DEF OpOK, Kin, SafePcs, WasonPcs, Sourced, Removing, Deciding, AtRest, MoreSteps,
             Decided
<1> QED BY <1>3, <1>4 DEF MAllow, Refused, n

LEMMA MAddOK ==
  ASSUME FwOK, OpOK(op), MAdd
  PROVE  OpOK(op') /\ Kin(op, op')
<1>1. /\ op \in OpType /\ op.pc = "m_add" /\ Kin(op, op)
      /\ op.todo \in SUBSET Ports /\ op.failed \in SUBSET Ports /\ op.want \in SUBSET Ports
      BY OpFields DEF OpOK, MAdd, At, Kin, AtRest, Deciding
<1>2. CASE GiveUp(op)
      BY <1>1, <1>2, GiveUpOK
<1>3. CASE Go("m_verify")
  <2>1. op' \in OpType /\ op' = [op EXCEPT !.pc = "m_verify"]
        BY <1>1, <1>3, GoType, PcFacts
  <2> QED BY <1>1, <2>1 DEF OpOK, Kin, SafePcs, WasonPcs, Sourced, Removing, Deciding, AtRest, MoreSteps,
             Decided
<1>4. ASSUME NEW p \in op.todo,
             NEW left, left = [op EXCEPT !.todo = @ \ {p}],
             NEW bad, bad = [left EXCEPT !.failed = @ \cup {p}, !.want = @ \ {p}]
      PROVE  /\ OpOK(left) /\ Kin(op, left) /\ left.pc = "m_add"
             /\ OpOK(bad) /\ Kin(op, bad) /\ bad.pc = "m_add"
             /\ p \in Ports
  <2>0. p \in Ports /\ op.todo \ {p} \in SUBSET Ports
        BY <1>1
  <2>1. left \in OpType /\ left.failed = op.failed /\ left.want = op.want
    <3>1. left \in OpType
          BY <1>1, <1>4, <2>0, Updates
    <3> QED BY <1>1, <1>4, <3>1 DEF OpType
  <2>2. OpOK(left) /\ Kin(op, left) /\ left.pc = "m_add"
        BY <1>1, <1>4, <2>1 DEF OpOK, Kin, SafePcs, WasonPcs, Sourced, Removing, Deciding, AtRest, MoreSteps,
             Decided
  <2>3. bad \in OpType
    <3>1. left.failed \cup {p} \in SUBSET Ports /\ left.want \ {p} \in SUBSET Ports
          BY <1>1, <2>0, <2>1
    <3> QED BY <1>4, <2>1, <3>1, Updates
  <2>4. OpOK(bad) /\ Kin(op, bad) /\ bad.pc = "m_add"
        BY <1>4, <2>1, <2>2, <2>3 DEF OpOK, Kin, SafePcs, WasonPcs, Sourced, Removing, Deciding, AtRest, MoreSteps,
             Decided
  <2> QED BY <2>0, <2>2, <2>4
<1>5. ASSUME NEW o, OpOK(o), Kin(op, o), o.pc = "m_add", op' = [o EXCEPT !.loose = TRUE]
      PROVE  OpOK(op') /\ Kin(op, op')
  <2>1. o \in OpType /\ op' \in OpType
        BY <1>5, Updates DEF OpOK
  <2> QED BY <1>5, <2>1 DEF OpOK, Kin, Decided
<1>6. ASSUME NEW p \in op.todo,
             NEW left, left = [op EXCEPT !.todo = @ \ {p}],
             NEW bad, bad = [left EXCEPT !.failed = @ \cup {p}, !.want = @ \ {p}],
             \/ op' \in {New(p, left), bad, New(p, bad)}
             \/ op' = [bad EXCEPT !.loose = TRUE]
      PROVE  OpOK(op') /\ Kin(op, op')
  <2>1. /\ OpOK(left) /\ Kin(op, left) /\ left.pc = "m_add"
        /\ OpOK(bad) /\ Kin(op, bad) /\ bad.pc = "m_add" /\ p \in Ports
        BY <1>4, <1>6
  <2>2. /\ OpOK(New(p, left)) /\ Kin(op, New(p, left))
        /\ OpOK(New(p, bad)) /\ Kin(op, New(p, bad))
        BY <2>1, NewOK
  <2>3. CASE op' \in {New(p, left), bad, New(p, bad)}
        BY <2>1, <2>2, <2>3
  <2>4. CASE op' = [bad EXCEPT !.loose = TRUE]
        BY <1>5, <2>1, <2>4
  <2> QED BY <1>6, <2>3, <2>4
<1> QED BY <1>2, <1>3, <1>6 DEF MAdd, Refused

LEMMA MSourceOffOK ==
  ASSUME FwOK, OpOK(op), OnAtOff, MSourceOff
  PROVE  OpOK(op') /\ Kin(op, op') /\ op'.pc \notin {"off", "m_off"}
<1>1. op \in OpType /\ op.pc = "m_off" /\ op.src # NoFw /\ fw[src] \in FwType /\ Kin(op, op)
      BY PartyFields DEF OpOK, MSourceOff, At, Sourced, Reconcile, src, Kin, AtRest, Deciding
<1>2. CASE GiveUp(op)
      BY <1>1, <1>2, GiveUpOK
<1>3. ASSUME ssh, NEW w \in BOOLEAN,
             op' = [op EXCEPT !.pc = "m_final", !.was = fw[src], !.kept = "yes", !.warned = w]
      PROVE  OpOK(op') /\ Kin(op, op') /\ op'.pc \notin {"off", "m_off"}
  <2>1. op' \in OpType /\ op'.was.on
    <3>1. op' \in OpType
          BY <1>1, <1>3, Updates, PcFacts
    <3> QED BY <1>1, <1>3, <3>1 DEF OpType, OnAtOff
  <2> QED BY <1>1, <1>3, <2>1 DEF OpOK, Kin, SafePcs, WasonPcs, Sourced, Removing, Deciding, AtRest, MoreSteps,
             Decided
<1>4. ASSUME ssh, NEW o, o = [op EXCEPT !.was = fw[src], !.kept = "partly"], GiveUp(o)
      PROVE  OpOK(op') /\ Kin(op, op') /\ op'.pc \notin {"off", "m_off"}
  <2>1. o \in OpType
        BY <1>1, <1>4, Updates
  <2>2. o.was.on
        BY <1>1, <1>4 DEF OpType, OnAtOff
  <2>3. OpOK(o) /\ Kin(op, o)
        BY <1>1, <1>4, <2>1, <2>2 DEF OpOK, Kin, SafePcs, WasonPcs, Sourced, Removing, Deciding, AtRest, MoreSteps,
             Decided
  <2> QED BY <1>4, <2>3, GiveUpOK
<1>5. CASE Go("m_final")
  <2>1. op' \in OpType /\ op' = [op EXCEPT !.pc = "m_final"]
        BY <1>1, <1>5, GoType, PcFacts
  <2> QED BY <1>1, <2>1 DEF OpOK, Kin, SafePcs, WasonPcs, Sourced, Removing, Deciding, AtRest, MoreSteps,
             Decided
<1> QED BY <1>2, <1>3, <1>4, <1>5 DEF MSourceOff, Works

LEMMA MBackOK ==
  ASSUME FwOK, OpOK(op), MBack
  PROVE  OpOK(op') /\ Kin(op, op')
<1>1. op \in OpType /\ op.pc = "m_back" /\ op.was \in FwType
      BY OpFields DEF OpOK, MBack, At
<1>2. ASSUME op.kept # "no"
      PROVE  fw[src].on \in BOOLEAN /\ Restored(src, fw[src], op.was).on \in BOOLEAN
  <2>1. src \in Backends /\ fw[src] \in FwType
        BY <1>2, PartyFields DEF OpOK, Reconcile, src
  <2>2. Restored(src, fw[src], op.was) \in FwType
        BY <1>1, <2>1, RestoredType
  <2> QED BY <2>1, <2>2, FwFields
<1>3. PICK ok \in BOOLEAN : op' = [op EXCEPT !.pc = "m_safe", !.ok = ok]
      BY <1>2 DEF MBack
<1>4. op' \in OpType
      BY <1>1, <1>3, Updates, PcFacts
<1> QED BY <1>1, <1>3, <1>4 DEF OpOK, Kin, SafePcs, WasonPcs, Sourced, Removing, Deciding, AtRest, MoreSteps,
             Decided

LEMMA MSafeOK ==
  ASSUME FwOK, OpOK(op), MSafe
  PROVE  OpOK(op') /\ Kin(op, op')
<1>1. op \in OpType /\ op.pc = "m_safe"
      BY DEF OpOK, MSafe, At
<1>2. PICK ok \in BOOLEAN, safe \in BOOLEAN :
        /\ op' = [op EXCEPT !.pc = "m_unmake", !.ok = ok, !.safe = safe]
        /\ safe => Reconcile
  <2>1. PICK ok \in BOOLEAN : op' = [op EXCEPT !.pc = "m_unmake", !.ok = ok, !.safe = ok /\ Reconcile]
        BY DEF MSafe, Looks
  <2>2. (ok /\ Reconcile) \in BOOLEAN
        OBVIOUS
  <2> QED BY <2>1, <2>2
<1>3. op' \in OpType
      BY <1>1, <1>2, Updates, PcFacts
<1> QED BY <1>1, <1>2, <1>3 DEF OpOK, Kin, Reconcile, src, SafePcs, WasonPcs, Sourced, Removing, Deciding, AtRest, MoreSteps,
             Decided

LEMMA MUnmakeOK ==
  ASSUME FwOK, OpOK(op), MUnmake
  PROVE  OpOK(op') /\ Kin(op, op')
<1>1. op \in OpType /\ op.pc = "m_unmake"
      BY DEF OpOK, MUnmake, At
<1>2. CASE Go("m_clean")
  <2>1. op' \in OpType /\ op' = [op EXCEPT !.pc = "m_clean"]
        BY <1>1, <1>2, GoType, PcFacts
  <2> QED BY <1>1, <2>1 DEF OpOK, Kin, SafePcs, WasonPcs, Sourced, Removing, Deciding, AtRest, MoreSteps,
             Decided
<1>3. CASE op' = [op EXCEPT !.pc = "m_last", !.added = {}]
  <2>1. op' \in OpType
        BY <1>1, <1>3, Updates, PcFacts
  <2> QED BY <1>1, <1>3, <2>1 DEF OpOK, Kin, SafePcs, WasonPcs, Sourced, Removing, Deciding, AtRest, MoreSteps,
             Decided
<1> QED BY <1>2, <1>3 DEF MUnmake

LEMMA MCleanOK ==
  ASSUME FwOK, OpOK(op), MClean
  PROVE  OpOK(op') /\ Kin(op, op')
<1>1. op \in OpType /\ op.added \in SUBSET Ports /\ op.ok \in BOOLEAN /\ op.pc = "m_clean"
      BY OpFields DEF OpOK, MClean, At
<1>2. ASSUME NEW ok \in BOOLEAN, op' = [op EXCEPT !.pc = "m_target_off", !.ok = ok]
      PROVE  OpOK(op') /\ Kin(op, op')
  <2>1. op' \in OpType
        BY <1>1, <1>2, Updates, PcFacts
  <2> QED BY <1>1, <1>2, <2>1 DEF OpOK, Kin, SafePcs, WasonPcs, Sourced, Removing, Deciding, AtRest, MoreSteps,
             Decided
<1>3. ASSUME NEW p, NEW left, left = [op EXCEPT !.added = @ \ {p}],
             op' = left \/ op' = [left EXCEPT !.ok = FALSE]
      PROVE  OpOK(op') /\ Kin(op, op')
  <2>1. left \in OpType
        BY <1>1, <1>3, Updates
  <2>2. OpOK(left) /\ Kin(op, left) /\ left.pc = op.pc
        BY <1>1, <1>3, <2>1 DEF OpOK, Kin, SafePcs, WasonPcs, Sourced, Removing, Deciding, AtRest, MoreSteps,
             Decided
  <2> QED BY <1>3, <2>2, NotWellOK
<1> QED BY <1>1, <1>2, <1>3 DEF MClean

LEMMA MTargetOffOK ==
  ASSUME FwOK, OpOK(op), MTargetOff
  PROVE  OpOK(op') /\ Kin(op, op')
<1>1. op \in OpType /\ op.pc = "m_target_off"
      BY DEF OpOK, MTargetOff, At
<1>2. PICK ok \in BOOLEAN : op' = [op EXCEPT !.pc = "m_last", !.ok = ok]
      BY <1>1, OpFields DEF MTargetOff
<1>3. op' \in OpType
      BY <1>1, <1>2, Updates, PcFacts
<1> QED BY <1>1, <1>2, <1>3 DEF OpOK, Kin, SafePcs, WasonPcs, Sourced, Removing, Deciding, AtRest, MoreSteps,
             Decided

-----------------------------------------------------------------------------
(* The steps that begin: a scan finds the source, an inventory reads it.    *)

Filters(b) == b \in Backends /\ fw[b].have /\ fw[b].on

LEMMA SeenFacts ==
  ASSUME FwOK, NEW f \in {fw} \cup Misread, NEW b \in Backends
  PROVE  (f[b].on => fw[b].on) /\ (f[b].have => fw[b].have) /\ f[b].rules = fw[b].rules
<1>1. fw[b] \in FwType
      BY DEF FwOK
<1>2. CASE f \in Misread
  <2>1. PICK lost \in SUBSET {c \in Backends : fw[c].have \/ fw[c].named} : f = Missing(lost)
        BY <1>2 DEF Misread
  <2>2. f[b] \in {fw[b], [fw[b] EXCEPT !.have = FALSE, !.on = FALSE, !.named = FALSE]}
        BY <2>1 DEF Missing
  <2> QED BY <1>1, <2>2 DEF FwType
<1> QED BY <1>2

LEMMA ActiveFacts ==
  ASSUME FwOK
  PROVE  /\ \A f \in {fw} \cup Misread : \A b \in Active(f) : Filters(b)
         /\ \A b \in Managed : fw[b].have /\ fw[b].on => b \in Active(fw)
<1>1. ASSUME NEW f \in {fw} \cup Misread, NEW b \in Active(f)
      PROVE  Filters(b)
  <2>1. b \in Backends /\ f[b].have /\ f[b].on
        BY <1>1 DEF Active, Managed, Backends
  <2> QED BY <2>1, SeenFacts DEF Filters
<1> QED BY <1>1 DEF Active

\* What a scan keeps, and where it leads.
Found(o, x) ==
  /\ x.dst = o.dst /\ x.added = o.added /\ x.safe = o.safe
  /\ x.pc \in {"stopped", "switched", "persist", "prepare", "inventory", "m_prepare", "m_inventory"}
  /\ x.pc \in {"inventory", "m_inventory"} => (Reads \/ Overlooks) /\ x.src # x.dst /\ Filters(x.src)
  /\ x.pc \notin {"inventory", "m_inventory"} => x.src = o.src
  /\ x.pc = "prepare" => x.src = NoFw
  /\ x.pc # "m_inventory" => x.wason = o.wason
  /\ x.pc = "m_inventory" => o.pc = "m_scan"
  /\ x.pc = "inventory" => o.pc = "scan"
  /\ x.wason => o.wason \/ (Filters(x.dst) /\ x.dst \in Managed)

LEMMA ScanOK ==
  ASSUME FwOK, OpOK(op), Scan
  PROVE  OpOK(op') /\ Found(op, op')
<1>1. op \in OpType /\ op.pc = "scan"
      BY DEF OpOK, Scan, At
<1>2. ASSUME NEW pc \in {"stopped", "switched"}, Go(pc)
      PROVE  OpOK(op') /\ Found(op, op')
  <2>1. op' \in OpType /\ op' = [op EXCEPT !.pc = pc]
        BY <1>1, <1>2, GoType, PcFacts
  <2> QED BY <1>1, <1>2, <2>1 DEF OpOK, Found, SafePcs, WasonPcs, Sourced, Removing, Deciding, AtRest, MoreSteps,
             Decided
<1>3. CASE op' = [op EXCEPT !.pc = "prepare", !.want = {Ssh}]
  <2>1. op' \in OpType
        BY <1>1, <1>3, Updates, PcFacts, SshIsPort
  <2> QED BY <1>1, <1>3, <2>1 DEF OpOK, Found, SafePcs, WasonPcs, Sourced, Removing, Deciding, AtRest, MoreSteps,
             Decided
<1>4. ASSUME NEW b \in Backends, Filters(b), b # dst, Reads \/ Overlooks,
             op' = [op EXCEPT !.pc = "inventory", !.src = b]
      PROVE  OpOK(op') /\ Found(op, op')
  <2>1. b \in Backends /\ b # NoFw
        BY <1>4 DEF Backends, NoFw
  <2>2. op' \in OpType
        BY <1>1, <1>4, <2>1, Updates, PcFacts
  <2>3. op'.pc = "inventory" /\ op'.src = b /\ op'.dst = op.dst /\ b # op.dst
        BY <1>1, <1>4, <2>2 DEF OpType, dst
  <2> QED BY <1>1, <1>4, <2>1, <2>2, <2>3 DEF OpOK, Found, SafePcs, WasonPcs, Sourced, Removing, Deciding, AtRest, MoreSteps,
             Decided
<1>5. ASSUME NEW f \in {fw} \cup Misread, Starts(f), Reads \/ Overlooks
      PROVE  OpOK(op') /\ Found(op, op')
  <2>1. Active(f) # {} => (CHOOSE b \in Active(f) : TRUE) \in Active(f)
        OBVIOUS
  <2>2. \A b \in Active(f) : Filters(b)
        BY ActiveFacts
  <2>3. \/ \E pc \in {"stopped", "switched"} : Go(pc)
        \/ op' = [op EXCEPT !.pc = "prepare", !.want = {Ssh}]
        \/ \E b \in Active(f) : b # dst /\ op' = [op EXCEPT !.pc = "inventory", !.src = b]
        BY <1>5, <2>1 DEF Starts, Go
  <2> QED BY <1>2, <1>3, <1>4, <1>5, <2>2, <2>3 DEF Filters
<1> QED BY <1>2, <1>5 DEF Scan

LEMMA MScanOK ==
  ASSUME FwOK, OpOK(op), MScan
  PROVE  OpOK(op') /\ Found(op, op')
<1>1. op \in OpType /\ op.pc = "m_scan" /\ op.dst \in Backends /\ ~op.wason
      BY OpFields DEF OpOK, MScan, At, WasonPcs, AtRest
<1>2. ASSUME NEW pc \in {"stopped", "switched", "persist"}, Go(pc)
      PROVE  OpOK(op') /\ Found(op, op')
  <2>1. op' \in OpType /\ op' = [op EXCEPT !.pc = pc]
        BY <1>1, <1>2, GoType, PcFacts
  <2> QED BY <1>1, <1>2, <2>1 DEF OpOK, Found, SafePcs, WasonPcs, Sourced, Removing, Deciding, AtRest, MoreSteps,
             Decided
<1>3. CASE op' = [op EXCEPT !.pc = "m_prepare", !.want = {Ssh}, !.base = fw[dst].rules]
  <2>1. fw[dst].rules \in SUBSET Ports /\ {Ssh} \in SUBSET Ports
        BY PartyFields, FwFields, SshIsPort
  <2>2. op' \in OpType
        BY <1>1, <1>3, <2>1, Updates, PcFacts
  <2> QED BY <1>1, <1>3, <2>2 DEF OpOK, Found, SafePcs, WasonPcs, Sourced, Removing, Deciding, AtRest, MoreSteps,
             Decided
<1>4. ASSUME NEW f \in {fw} \cup Misread, NEW b \in OthersIn(f), Reads \/ Overlooks,
             op' = [op EXCEPT !.pc = "m_inventory", !.kind = "migrate",
                              !.src = b, !.wason = dst \in Active(f)]
      PROVE  OpOK(op') /\ Found(op, op')
  <2>1. /\ Filters(b) /\ b # dst /\ b \in Backends /\ b # NoFw
        /\ dst \in Active(f) => Filters(dst) /\ dst \in Managed
    <3>1. b \in Active(f) /\ b # dst
          BY <1>4 DEF OthersIn
    <3>2. dst \in Active(f) => dst \in Managed
          BY <3>1 DEF Active
    <3> QED BY <3>1, <3>2, ActiveFacts DEF Backends, NoFw, Filters
  <2>2. PICK w \in BOOLEAN :
          /\ w => Filters(dst) /\ dst \in Managed
          /\ op' = [op EXCEPT !.pc = "m_inventory", !.kind = "migrate", !.src = b, !.wason = w]
    <3>1. (dst \in Active(f)) \in BOOLEAN
          OBVIOUS
    <3> QED BY <1>4, <2>1, <3>1, Zenon
  <2>3. "migrate" \in {"switch"} \cup MoreKinds
        BY DEF MoreKinds
  <2>4. op' \in OpType
        BY <1>1, <2>1, <2>2, <2>3, Updates, PcFacts
  <2>5. /\ op'.pc = "m_inventory" /\ op'.src = b /\ op'.dst = op.dst /\ op'.wason = w
        /\ op'.made = op.made /\ op'.kept = op.kept /\ op'.safe = op.safe
        /\ op'.added = op.added /\ op'.was = op.was
        BY <1>1, <2>2, <2>3, <2>4 DEF OpType
  <2> QED BY <1>1, <1>4, <2>1, <2>2, <2>4, <2>5 DEF OpOK, Found, dst, SafePcs, WasonPcs, Sourced, Removing, Deciding, AtRest, MoreSteps,
             Decided
<1>5. ASSUME NEW f \in {fw} \cup Misread, MStarts(f), Reads \/ Overlooks
      PROVE  OpOK(op') /\ Found(op, op')
  <2>1. OthersIn(f) # {} => (CHOOSE b \in OthersIn(f) : TRUE) \in OthersIn(f)
        OBVIOUS
  <2>2. \/ \E pc \in {"stopped", "switched", "persist"} : Go(pc)
        \/ op' = [op EXCEPT !.pc = "m_prepare", !.want = {Ssh}, !.base = fw[dst].rules]
        \/ \E b \in OthersIn(f) :
             op' = [op EXCEPT !.pc = "m_inventory", !.kind = "migrate",
                              !.src = b, !.wason = dst \in Active(f)]
        BY <1>5, <2>1 DEF MStarts, DonePc, Go
  <2> QED BY <1>2, <1>3, <1>4, <1>5, <2>2
<1> QED BY <1>2, <1>5 DEF MScan, AlreadyAlone, Login, DonePc

LEMMA InventoryOK ==
  ASSUME FwOK, OpOK(op), Inventory
  PROVE  OpOK(op') /\ Kin(op, op')
<1>1. op \in OpType /\ op.pc = "inventory" /\ src \in Backends
      BY PartyFields, OpFields DEF OpOK, Inventory, At, Sourced, Reconcile, src
<1>2. CASE Go("stopped")
  <2>1. op' \in OpType /\ op' = [op EXCEPT !.pc = "stopped"]
        BY <1>1, <1>2, GoType, PcFacts
  <2> QED BY <1>1, <2>1 DEF OpOK, Kin, SafePcs, WasonPcs, Sourced, Removing, Deciding, AtRest, MoreSteps,
             Decided
<1> DEFINE now == fw[src].rules
           got == [op EXCEPT !.had = now \ Ambiguous, !.unclear = now \cap Ambiguous]
<1>3. now \in SUBSET Ports
      BY <1>1, FwFields DEF FwOK
<1>4. got \in OpType
      BY <1>1, <1>3, Updates
<1>5. OpOK(got) /\ Kin(op, got) /\ got.pc = "inventory"
      BY <1>1, <1>4 DEF OpOK, Kin, SafePcs, WasonPcs, Sourced, Removing, Deciding, AtRest, MoreSteps,
             Decided
<1> HIDE DEF got
<1>6. ASSUME NEW want \in SUBSET Ports, NEW asked \in SUBSET Ports, NEW pc \in {"prepare", "asked"},
             op' = [got EXCEPT !.pc = pc, !.asked = asked, !.want = want]
      PROVE  OpOK(op') /\ Kin(op, op')
  <2>1. op' \in OpType
        BY <1>4, <1>6, Updates, PcFacts
  <2> QED BY <1>1, <1>4, <1>5, <1>6, <2>1 DEF OpOK, Kin, SafePcs, WasonPcs, Sourced, Removing, Deciding, AtRest, MoreSteps,
             Decided
<1>7. /\ got.asked \in SUBSET Ports /\ got.want \in SUBSET Ports
      /\ (now \ Ambiguous) \cup {Ssh} \in SUBSET Ports
      BY <1>3, <1>4, OpFields, SshIsPort
<1>8. \/ Go("stopped")
      \/ op' = [got EXCEPT !.pc = "prepare"]
      \/ op' = [got EXCEPT !.pc = "asked", !.asked = now]
      \/ op' = [got EXCEPT !.pc = "prepare", !.want = (now \ Ambiguous) \cup {Ssh}]
      BY DEF Inventory, got
<1>9. \/ Go("stopped")
      \/ op' = [got EXCEPT !.pc = "prepare", !.asked = got.asked, !.want = got.want]
      \/ op' = [got EXCEPT !.pc = "asked", !.asked = now, !.want = got.want]
      \/ op' = [got EXCEPT !.pc = "prepare", !.asked = got.asked, !.want = (now \ Ambiguous) \cup {Ssh}]
      BY <1>4, <1>8 DEF OpType
<1> QED BY <1>2, <1>3, <1>6, <1>7, <1>9

\* An operation that begins.
Fresh(x) ==
  /\ x.src = NoFw /\ x.wason = FALSE /\ x.safe = FALSE /\ x.added = {}
  /\ x.pc \in {"idle", "scan", "m_scan", "r_scan"}

LEMMA IdleOK ==
  ASSUME FwOK, NEW d \in Backends
  PROVE  Idle(d) \in OpType /\ OpOK(Idle(d)) /\ Fresh(Idle(d)) /\ Idle(d).dst = d
<1>1. Idle(d) \in OpType
      BY DEF Idle, OpType, AtRest, MoreSteps, Backends, NoFw, FwOK
<1>2. Idle(d).src = NoFw /\ Idle(d).dst = d /\ d # NoFw
      BY DEF Idle, Backends, NoFw
<1> QED BY <1>1, <1>2 DEF OpOK, Fresh, Idle, SafePcs, WasonPcs, Sourced, Removing, Deciding, AtRest, MoreSteps,
             Decided

LEMMA RequestOK ==
  ASSUME FwOK, NEW d \in Backends, Request(d)
  PROVE  OpOK(op') /\ Fresh(op') /\ op'.pc = "scan"
<1>1. op' = [Idle(d) EXCEPT !.pc = "scan"] /\ Idle(d) \in OpType /\ OpOK(Idle(d)) /\ Fresh(Idle(d))
      BY IdleOK DEF Request
<1>2. op' \in OpType
      BY <1>1, Updates, PcFacts
<1>3. Idle(d).kept = "no" /\ Idle(d).made = FALSE
      BY DEF Idle
<1> QED BY <1>1, <1>2, <1>3 DEF OpOK, Fresh, SafePcs, WasonPcs, Sourced, Removing, Deciding, AtRest, MoreSteps,
             Decided

LEMMA RequestMoreOK ==
  ASSUME FwOK, NEW d \in Backends, NEW k \in MoreKinds, RequestMore(d, k)
  PROVE  OpOK(op') /\ Fresh(op') /\ op'.pc \in {"m_scan", "r_scan"}
<1>1. Idle(d) \in OpType /\ OpOK(Idle(d)) /\ Fresh(Idle(d))
      BY IdleOK
<1>2. PICK pc \in {"m_scan", "r_scan"} : /\ op' = [Idle(d) EXCEPT !.kind = k, !.pc = pc]
                                         /\ pc = "r_scan" => k = "remove"
      BY DEF RequestMore
<1>3. op' \in OpType
      BY <1>1, <1>2, Updates, PcFacts
<1> QED BY <1>1, <1>2, <1>3 DEF OpOK, Fresh, SafePcs, WasonPcs, Sourced, Removing, Deciding, AtRest, MoreSteps,
             Decided

LEMMA DecideOK ==
  ASSUME FwOK, OpOK(op), Decide
  PROVE  OpOK(op') /\ (Go("stopped") \/ (Fresh(op') /\ op'.pc = "scan"))
<1>1. op \in OpType /\ dst \in Backends /\ op.pc = "asked" /\ op.asked \in SUBSET Ports
      BY OpFields DEF OpOK, Decide, At, dst
<1>2. CASE Go("stopped")
  <2>1. op' \in OpType /\ op' = [op EXCEPT !.pc = "stopped"]
        BY <1>1, <1>2, GoType, PcFacts
  <2> QED BY <1>1, <1>2, <2>1 DEF OpOK, SafePcs, WasonPcs, Sourced, Removing, Deciding, AtRest, MoreSteps,
             Decided
<1>3. ASSUME NEW sel \in SUBSET op.asked,
             op' = [Idle(dst) EXCEPT !.pc = "scan", !.accepted = TRUE,
                                     !.asked = op.asked, !.want = sel \cup {Ssh}]
      PROVE  OpOK(op') /\ Fresh(op') /\ op'.pc = "scan"
  <2>1. Idle(dst) \in OpType /\ OpOK(Idle(dst)) /\ Fresh(Idle(dst))
        BY <1>1, IdleOK
  <2>2. sel \cup {Ssh} \in SUBSET Ports
        BY <1>1, SshIsPort
  <2>3. op' \in OpType
        BY <1>1, <1>3, <2>1, <2>2, Updates, PcFacts
  <2>4. Idle(dst).kept = "no" /\ Idle(dst).made = FALSE
        BY DEF Idle
  <2> QED BY <1>3, <2>1, <2>3, <2>4 DEF OpOK, Fresh, SafePcs, WasonPcs, Sourced, Removing, Deciding, AtRest, MoreSteps,
             Decided
<1> QED BY <1>2, <1>3 DEF Decide

LEMMA MDecideOK ==
  ASSUME FwOK, OpOK(op), MDecide
  PROVE  OpOK(op') /\ (Go("stopped") \/ (Fresh(op') /\ op'.pc = "m_scan"))
<1>1. /\ op \in OpType /\ dst \in Backends /\ op.pc = "asked" /\ op.asked \in SUBSET Ports
      /\ op.skip \cup op.failed \in SUBSET Ports /\ op.blind \in Backends \cup {NoFw}
      BY OpFields DEF OpOK, MDecide, At, dst
<1>2. CASE Go("stopped")
  <2>1. op' \in OpType /\ op' = [op EXCEPT !.pc = "stopped"]
        BY <1>1, <1>2, GoType, PcFacts
  <2> QED BY <1>1, <1>2, <2>1 DEF OpOK, SafePcs, WasonPcs, Sourced, Removing, Deciding, AtRest, MoreSteps,
             Decided
<1>3. CASE op' = [Idle(dst) EXCEPT !.kind = "migrate", !.pc = "m_scan", !.accepted = TRUE,
                    !.asked = op.asked, !.blind = op.blind, !.skip = op.skip \cup op.failed]
  <2>1. Idle(dst) \in OpType /\ OpOK(Idle(dst)) /\ Fresh(Idle(dst))
        BY <1>1, IdleOK
  <2>2. "migrate" \in {"switch"} \cup MoreKinds
        BY DEF MoreKinds
  <2>3. op' \in OpType
        BY <1>1, <1>3, <2>1, <2>2, Updates, PcFacts
  <2> QED BY <1>3, <2>1, <2>3 DEF OpOK, Fresh, SafePcs, WasonPcs, Sourced, Removing, Deciding, AtRest, MoreSteps,
             Decided
<1> QED BY <1>2, <1>3 DEF MDecide

-----------------------------------------------------------------------------
(* What a step does to the server.                                          *)

\* What a call that works or fails may leave of a backend, or a step of one.
Outcomes(b, done, half) ==
  {done, fw[b]} \cup half \cup (IF b = "nftables" THEN Undumped(done, fw[b]) ELSE {})
Hits(b, X) == UNCHANGED fw \/ (ssh /\ \E x \in X : Set(b, x))

BoundsOK ==
  /\ faults \in 0..MaxFaults /\ edits \in 0..MaxEdits /\ rounds \in 0..MaxRounds
  /\ overlooked \in BOOLEAN
\* What a step of an operation costs.
Costs == Fine \/ Upset \/ (OneMore /\ overlooked' = TRUE)

LEMMA Counted ==
  ASSUME BoundsOK, Costs
  PROVE  BoundsOK'
<1>1. /\ UNCHANGED <<edits, rounds>> /\ (faults' = faults \/ (faults < MaxFaults /\ faults' = faults + 1))
      /\ overlooked' = overlooked \/ overlooked' = TRUE
      BY DEF Costs, Fine, Upset, OneMore, bounds
<1>2. faults' \in 0..MaxFaults /\ edits' \in 0..MaxEdits /\ rounds' \in 0..MaxRounds
      BY <1>1, SwitchAssumption DEF BoundsOK
<1>3. overlooked' \in BOOLEAN
      BY <1>1 DEF BoundsOK
<1> QED BY <1>2, <1>3 DEF BoundsOK

LEMMA UpsetCounts ==
  ASSUME BoundsOK, Upset
  PROVE  faults' # faults
<1>1. faults \in Nat /\ faults' = faults + 1
      BY SwitchAssumption DEF BoundsOK, Upset, OneMore
<1> QED BY <1>1

LEMMA Called ==
  ASSUME NEW b, NEW done, NEW half, Works(b, done) \/ Fails(b, done, half)
  PROVE  Hits(b, Outcomes(b, done, half)) /\ Costs
BY DEF Costs, Works, Fails, Hits, Outcomes, Same

Readies == /\ op.pc \in {"prepare", "m_prepare"}
           /\ Hits(dst, Outcomes(dst, Readied(dst, fw[dst]), HalfReadied(dst, fw[dst])))
           /\ faults' = faults => UNCHANGED fw \/ Set(dst, Readied(dst, fw[dst]))
Opens == /\ op.pc \in {"allow", "add", "readd", "m_allow", "m_add"}
         /\ \E p \in Ports : Hits(dst, Outcomes(dst, Opened(dst, fw[dst], p), HalfOpened(dst, fw[dst], p)))
Drops == /\ op.pc \in {"drop", "clean", "m_clean"}
         /\ \E p \in Ports :
              /\ p = Ssh => op.wason /\ Ssh \in op.added
              /\ Hits(dst, Outcomes(dst, Dropped(dst, fw[dst], p), HalfDropped(dst, fw[dst], p)))
SourceDown == /\ op.pc \in {"off", "m_off"}
              /\ Hits(src, Outcomes(src, Disabled(src, fw[src]), HalfDisabled(src, fw[src])))
SourceUp == /\ op.pc \in {"back", "m_back"} /\ op.kept # "no"
            /\ Hits(src, Outcomes(src, Restored(src, fw[src], op.was), HalfRestored(src, fw[src], op.was)))
Saves == /\ op.pc = "persist"
         /\ Hits(dst, {Persisted(fw[dst], TRUE), Persisted(fw[dst], FALSE), fw[dst]})
Unmakes == /\ op.pc \in {"unmake", "m_unmake"} /\ op.safe /\ ~op.wason /\ op.made
           /\ Hits(dst, {Unprovisioned(fw[dst]), fw[dst]} \cup Unnoticed(fw[dst])
                          \cup HalfUnprovisioned(fw[dst]))
TargetDown == /\ op.pc \in {"target_off", "m_target_off"} /\ op.safe /\ ~op.wason
              /\ Hits(dst, Outcomes(dst, Disabled(dst, fw[dst]), HalfDisabled(dst, fw[dst])))
Gone == [fw[dst] EXCEPT !.have = FALSE, !.boot = FALSE, !.on = FALSE]
Removal == /\ op.pc \in Removing
           /\ \/ Hits(dst, Outcomes(dst, Disabled(dst, fw[dst]), HalfDisabled(dst, fw[dst])))
              \/ Hits(dst, {Gone, fw[dst]})

Served ==
  \/ UNCHANGED fw \/ Readies \/ Opens \/ Drops \/ SourceDown \/ SourceUp \/ Saves \/ Unmakes
  \/ TargetDown \/ Removal

LEMMA ReadsOnly ==
  ASSUME \/ Scan \/ Inventory \/ ConfirmOn \/ Baseline \/ PreflightDrops \/ Verify
         \/ LoginWithBoth \/ Confirm \/ LoginAfter \/ FinalScan \/ ProveSource
         \/ CompareTarget \/ LastLook
         \/ MScan \/ MInventory \/ MDetect \/ MVerify \/ MLogin \/ MConfirm \/ MFinalScan
         \/ MLoginAfter \/ MFinalRules \/ MSafe \/ MLast \/ RScan \/ RLook
  PROVE  UNCHANGED fw /\ UNCHANGED ssh /\ Costs
<1> USE DEF Costs, Looks, Overlooks, Reads, ReadFails, Same, Login, Sees, AlreadyAlone
<1>1. CASE Scan \/ Inventory \/ ConfirmOn \/ Baseline \/ PreflightDrops \/ Verify
      BY <1>1 DEF Scan, Inventory, ConfirmOn, Baseline, PreflightDrops, Verify
<1>2. CASE LoginWithBoth \/ Confirm \/ LoginAfter \/ FinalScan \/ ProveSource \/ CompareTarget \/ LastLook
      BY <1>2 DEF LoginWithBoth, Confirm, LoginAfter, FinalScan, ProveSource, CompareTarget, LastLook
<1>3. CASE MScan \/ MInventory \/ MDetect \/ MVerify \/ MLogin \/ MConfirm
      BY <1>3 DEF MScan, MInventory, MDetect, MVerify, MLogin, MConfirm
<1>4. CASE MFinalScan \/ MLoginAfter \/ MFinalRules \/ MSafe \/ MLast \/ RScan \/ RLook
      BY <1>4 DEF MFinalScan, MLoginAfter, MFinalRules, MSafe, MLast, RScan, RLook
<1> QED BY <1>1, <1>2, <1>3, <1>4

LEMMA PrepareServes ==
  ASSUME FwOK, OpOK(op), BoundsOK, Prepare
  PROVE  (UNCHANGED fw \/ Readies) /\ UNCHANGED ssh /\ Costs
<1> DEFINE done == Readied(dst, fw[dst])
<1>1. Works(dst, done) \/ Fails(dst, done, HalfReadied(dst, fw[dst])) \/ (Same /\ Costs)
      BY DEF Costs, Prepare, Reads, ReadFails
<1>2. faults' = faults => Same \/ Set(dst, done)
  <2>1. Upset => faults' # faults
        BY UpsetCounts
  <2> QED BY <2>1 DEF Prepare, Works, Fails, Reads, ReadFails, Same
<1> QED BY <1>1, <1>2, Called DEF Prepare, Readies, At, Same

LEMMA MPrepareServes ==
  ASSUME FwOK, OpOK(op), BoundsOK, MPrepare
  PROVE  (UNCHANGED fw \/ Readies) /\ UNCHANGED ssh /\ Costs
<1> DEFINE done == Readied(dst, fw[dst])
<1>1. Works(dst, done) \/ Fails(dst, done, HalfReadied(dst, fw[dst])) \/ (Same /\ Costs)
      BY DEF Costs, MPrepare, Reads, ReadFails
<1>2. faults' = faults => Same \/ Set(dst, done)
  <2>1. Upset => faults' # faults
        BY UpsetCounts
  <2> QED BY <2>1 DEF MPrepare, Works, Fails, Reads, ReadFails, Same
<1> QED BY <1>1, <1>2, Called DEF MPrepare, Readies, At, Same

LEMMA AllowSshServes ==
  ASSUME FwOK, OpOK(op), AllowSsh
  PROVE  (UNCHANGED fw \/ Opens) /\ UNCHANGED ssh /\ Costs
<1>1. \/ UNCHANGED fw /\ Costs
      \/ \E p \in Ports : \/ Works(dst, Opened(dst, fw[dst], p))
                          \/ Fails(dst, Opened(dst, fw[dst], p), HalfOpened(dst, fw[dst], p))
      BY SshIsPort DEF Costs, AllowSsh, Open
<1> QED BY <1>1, Called DEF AllowSsh, Opens, At

LEMMA AddRuleServes ==
  ASSUME FwOK, OpOK(op), AddRule
  PROVE  (UNCHANGED fw \/ Opens) /\ UNCHANGED ssh /\ Costs
<1>1. \/ UNCHANGED fw /\ Costs
      \/ \E p \in Ports : \/ Works(dst, Opened(dst, fw[dst], p))
                          \/ Fails(dst, Opened(dst, fw[dst], p), HalfOpened(dst, fw[dst], p))
      BY OpFields DEF Costs, AddRule, Open, OpOK, Same
<1> QED BY <1>1, Called DEF AddRule, Opens, At

LEMMA ReaddRuleServes ==
  ASSUME FwOK, OpOK(op), ReaddRule
  PROVE  (UNCHANGED fw \/ Opens) /\ UNCHANGED ssh /\ Costs
<1>1. \/ UNCHANGED fw /\ Costs
      \/ \E p \in Ports : \/ Works(dst, Opened(dst, fw[dst], p))
                          \/ Fails(dst, Opened(dst, fw[dst], p), HalfOpened(dst, fw[dst], p))
      BY OpFields DEF Costs, ReaddRule, OpOK, Same
<1> QED BY <1>1, Called DEF ReaddRule, Opens, At

LEMMA MAllowServes ==
  ASSUME FwOK, OpOK(op), MAllow
  PROVE  (UNCHANGED fw \/ Opens) /\ UNCHANGED ssh /\ Costs
<1>1. \/ Works(dst, Opened(dst, fw[dst], Ssh))
      \/ Fails(dst, Opened(dst, fw[dst], Ssh), HalfOpened(dst, fw[dst], Ssh))
      BY DEF Costs, MAllow, Refused, Raised, Fails
<1> QED BY <1>1, Called, SshIsPort DEF MAllow, Opens, At

LEMMA MAddServes ==
  ASSUME FwOK, OpOK(op), MAdd
  PROVE  (UNCHANGED fw \/ Opens) /\ UNCHANGED ssh /\ Costs
<1>1. \/ UNCHANGED fw /\ Costs
      \/ \E p \in Ports : \/ Works(dst, Opened(dst, fw[dst], p))
                          \/ Fails(dst, Opened(dst, fw[dst], p), HalfOpened(dst, fw[dst], p))
      BY OpFields DEF Costs, MAdd, Refused, Raised, Fails, OpOK, Same
<1> QED BY <1>1, Called DEF MAdd, Opens, At

LEMMA DropRuleServes ==
  ASSUME FwOK, OpOK(op), DropRule
  PROVE  (UNCHANGED fw \/ Drops) /\ UNCHANGED ssh /\ Costs
<1>1. \/ UNCHANGED fw /\ Costs
      \/ \E p \in Ports : /\ p = Ssh => op.wason /\ Ssh \in op.added
                          /\ \/ Works(dst, Dropped(dst, fw[dst], p))
                             \/ Fails(dst, Dropped(dst, fw[dst], p), HalfDropped(dst, fw[dst], p))
      BY OpFields DEF Costs, DropRule, OpOK, Same, At
<1> QED BY <1>1, Called DEF DropRule, Drops, At

LEMMA CleanRuleServes ==
  ASSUME FwOK, OpOK(op), CleanRule
  PROVE  (UNCHANGED fw \/ Drops) /\ UNCHANGED ssh /\ Costs
<1>1. \/ UNCHANGED fw /\ Costs
      \/ \E p \in Ports : /\ p = Ssh => op.wason /\ Ssh \in op.added
                          /\ \/ Works(dst, Dropped(dst, fw[dst], p))
                             \/ Fails(dst, Dropped(dst, fw[dst], p), HalfDropped(dst, fw[dst], p))
      BY OpFields DEF Costs, CleanRule, Cleanable, OpOK, Same
<1> QED BY <1>1, Called DEF CleanRule, Drops, At

LEMMA MCleanServes ==
  ASSUME FwOK, OpOK(op), MClean
  PROVE  (UNCHANGED fw \/ Drops) /\ UNCHANGED ssh /\ Costs
<1>1. \/ UNCHANGED fw /\ Costs
      \/ \E p \in Ports : /\ p = Ssh => op.wason /\ Ssh \in op.added
                          /\ \/ Works(dst, Dropped(dst, fw[dst], p))
                             \/ Fails(dst, Dropped(dst, fw[dst], p), HalfDropped(dst, fw[dst], p))
      BY OpFields DEF Costs, MClean, OpOK, Same
<1> QED BY <1>1, Called DEF MClean, Drops, At

LEMMA SourceOffServes ==
  ASSUME FwOK, OpOK(op), SourceOff
  PROVE  (UNCHANGED fw \/ SourceDown) /\ UNCHANGED ssh /\ Costs
<1>1. \/ UNCHANGED fw /\ Costs
      \/ Works(src, Disabled(src, fw[src]))
      \/ Fails(src, Disabled(src, fw[src]), HalfDisabled(src, fw[src]))
      BY DEF Costs, OffBlindly, Overlooks, SourceOff, Fails, Same, Reads, ReadFails
<1> QED BY <1>1, Called DEF SourceOff, SourceDown, At

LEMMA MSourceOffServes ==
  ASSUME FwOK, OpOK(op), MSourceOff
  PROVE  (UNCHANGED fw \/ SourceDown) /\ UNCHANGED ssh /\ Costs
<1>1. \/ UNCHANGED fw /\ Costs
      \/ Works(src, Disabled(src, fw[src]))
      \/ Fails(src, Disabled(src, fw[src]), HalfDisabled(src, fw[src]))
      BY DEF Costs, OffBlindly, Overlooks, MSourceOff, Fails, Same, Reads, ReadFails
<1> QED BY <1>1, Called DEF MSourceOff, SourceDown, At

LEMMA MTargetOffServes ==
  ASSUME FwOK, OpOK(op), MTargetOff
  PROVE  (UNCHANGED fw \/ TargetDown) /\ UNCHANGED ssh /\ Costs
<1>1. \/ UNCHANGED fw /\ Costs
      \/ op.safe /\ ~op.wason /\ Works(dst, Disabled(dst, fw[dst]))
      \/ op.safe /\ ~op.wason /\ Fails(dst, Disabled(dst, fw[dst]), HalfDisabled(dst, fw[dst]))
      BY DEF Costs, OffBlindly, Overlooks, MTargetOff, Same
<1> QED BY <1>1, Called DEF MTargetOff, TargetDown, At

LEMMA ROffServes ==
  ASSUME FwOK, OpOK(op), ROff
  PROVE  (UNCHANGED fw \/ Removal) /\ UNCHANGED ssh /\ Costs
<1>1. \/ UNCHANGED fw /\ Costs
      \/ Works(dst, Disabled(dst, fw[dst]))
      \/ Fails(dst, Disabled(dst, fw[dst]), HalfDisabled(dst, fw[dst]))
      BY DEF Costs, OffBlindly, Overlooks, ROff, Fails, Same, Reads, ReadFails
<1> QED BY <1>1, Called DEF ROff, Removal, At, Removing

LEMMA TargetOffServes ==
  ASSUME FwOK, OpOK(op), TargetOff
  PROVE  (UNCHANGED fw \/ TargetDown) /\ UNCHANGED ssh /\ Costs
<1>1. \/ UNCHANGED fw /\ Costs
      \/ op.safe /\ Works(dst, Disabled(dst, fw[dst]))
      \/ op.safe /\ Fails(dst, Disabled(dst, fw[dst]), HalfDisabled(dst, fw[dst]))
      BY DEF Costs, OffBlindly, Overlooks, TargetOff, Same, Reads, ReadFails
<1>2. op.pc = "target_off" /\ ~op.wason
      BY DEF TargetOff, At, OpOK, WasonPcs, AtRest, MoreSteps
<1> QED BY <1>1, <1>2, Called DEF TargetOff, TargetDown

LEMMA Undumping ==
  ASSUME NEW r \in FwType
  PROVE  Undumped(r, r) \subseteq {r}
<1>1. [r EXCEPT !.boot = r.boot] = r
      BY DEF FwType
<1>2. [r EXCEPT !.saved = r.saved, !.file = r.file, !.boot = r.boot] = r
  <2>1. [r EXCEPT !.saved = r.saved] = r /\ [r EXCEPT !.file = r.file] = r
        BY DEF FwType
  <2> QED BY <1>1, <2>1
<1> QED BY <1>1, <1>2 DEF Undumped

LEMMA RestoreSourceServes ==
  ASSUME FwOK, OpOK(op), RestoreSource
  PROVE  (UNCHANGED fw \/ SourceUp) /\ UNCHANGED ssh /\ Costs
<1> DEFINE done == IF src = "nftables" /\ op.kept = "partly" THEN fw[src]
                    ELSE Restored(src, fw[src], op.was)
<1>1. \/ UNCHANGED fw /\ Costs
      \/ /\ op.kept # "no"
         /\ Works(src, done) \/ Fails(src, done, HalfRestored(src, fw[src], op.was))
      BY DEF Costs, RestoreSource, Same
<1>2. CASE op.kept # "no" /\ (Works(src, done) \/ Fails(src, done, HalfRestored(src, fw[src], op.was)))
  <2>1. Hits(src, Outcomes(src, done, HalfRestored(src, fw[src], op.was))) /\ Costs
        BY <1>2, Called
  <2>2. CASE done = Restored(src, fw[src], op.was)
        BY <1>2, <2>1, <2>2 DEF RestoreSource, SourceUp, At
  <2>3. CASE src = "nftables" /\ done = fw[src]
    <3>1. src \in Backends /\ fw[src] \in FwType
          BY <1>2, PartyFields DEF OpOK, Reconcile, src
    <3>2. Undumped(fw[src], fw[src]) \subseteq {fw[src]}
          BY <3>1, Undumping
    <3>3. Outcomes(src, fw[src], HalfRestored(src, fw[src], op.was))
            \subseteq Outcomes(src, Restored(src, fw[src], op.was), HalfRestored(src, fw[src], op.was))
          BY <3>2 DEF Outcomes
    <3> QED BY <1>2, <2>1, <2>3, <3>3 DEF RestoreSource, SourceUp, At, Hits
  <2> QED BY <2>2, <2>3 DEF RestoreSource
<1> QED BY <1>1, <1>2 DEF RestoreSource

LEMMA MBackServes ==
  ASSUME FwOK, OpOK(op), MBack
  PROVE  (UNCHANGED fw \/ SourceUp) /\ UNCHANGED ssh /\ Costs
<1> DEFINE done == IF src = "nftables" /\ op.kept = "partly" THEN fw[src]
                    ELSE Restored(src, fw[src], op.was)
<1>1. \/ UNCHANGED fw /\ Costs
      \/ /\ op.kept # "no"
         /\ Works(src, done) \/ Fails(src, done, HalfRestored(src, fw[src], op.was))
      BY DEF Costs, MBack, Same
<1>2. CASE op.kept # "no" /\ (Works(src, done) \/ Fails(src, done, HalfRestored(src, fw[src], op.was)))
  <2>1. Hits(src, Outcomes(src, done, HalfRestored(src, fw[src], op.was))) /\ Costs
        BY <1>2, Called
  <2>2. CASE done = Restored(src, fw[src], op.was)
        BY <1>2, <2>1, <2>2 DEF MBack, SourceUp, At
  <2>3. CASE src = "nftables" /\ done = fw[src]
    <3>1. src \in Backends /\ fw[src] \in FwType
          BY <1>2, PartyFields DEF OpOK, Reconcile, src
    <3>2. Undumped(fw[src], fw[src]) \subseteq {fw[src]}
          BY <3>1, Undumping
    <3>3. Outcomes(src, fw[src], HalfRestored(src, fw[src], op.was))
            \subseteq Outcomes(src, Restored(src, fw[src], op.was), HalfRestored(src, fw[src], op.was))
          BY <3>2 DEF Outcomes
    <3> QED BY <1>2, <2>1, <2>3, <3>3 DEF MBack, SourceUp, At, Hits
  <2> QED BY <2>2, <2>3 DEF MBack
<1> QED BY <1>1, <1>2 DEF MBack

LEMMA PersistServes ==
  ASSUME FwOK, OpOK(op), Persist
  PROVE  (UNCHANGED fw \/ Saves) /\ UNCHANGED ssh /\ Costs
BY DEF Costs, Persist, Saves, Hits, Fails, Same, At

LEMMA UnmakeServes ==
  ASSUME FwOK, OpOK(op), Unmake
  PROVE  (UNCHANGED fw \/ Unmakes) /\ UNCHANGED ssh /\ Costs
BY DEF Costs, Unmake, Unmakes, Hits, Fails, Same, At, OpOK, WasonPcs, AtRest, MoreSteps

LEMMA MUnmakeServes ==
  ASSUME FwOK, OpOK(op), MUnmake
  PROVE  (UNCHANGED fw \/ Unmakes) /\ UNCHANGED ssh /\ Costs
BY DEF Costs, MUnmake, Unmakes, Hits, Fails, Same, At, OpOK, WasonPcs, AtRest, MoreSteps

LEMMA RPackageServes ==
  ASSUME FwOK, OpOK(op), RPackage
  PROVE  (UNCHANGED fw \/ Removal) /\ UNCHANGED ssh /\ Costs
BY DEF Costs, RPackage, Removal, Removing, Hits, Fails, Same, At, Gone

LEMMA OutcomesType ==
  ASSUME FwOK, NEW b \in Backends, NEW done \in FwType, NEW half \in SUBSET FwType
  PROVE  Outcomes(b, done, half) \subseteq FwType
<1>1. fw[b] \in FwType
      BY DEF FwOK
<1> QED BY <1>1, UndumpedType DEF Outcomes

LEMMA HitsType ==
  ASSUME FwOK, NEW b \in Backends, NEW X \in SUBSET FwType, Hits(b, X)
  PROVE  FwOK'
BY DEF FwOK, Hits, Set

LEMMA ServedType ==
  ASSUME FwOK, OpOK(op), Served
  PROVE  FwOK'
<1>1. dst \in Backends /\ fw[dst] \in FwType /\ op.was \in FwType
      BY PartyFields, OpFields DEF OpOK
<1>2. ASSUME op.pc \in Sourced \/ op.kept # "no"
      PROVE  src \in Backends /\ fw[src] \in FwType
      BY <1>2, PartyFields DEF OpOK, Reconcile, src
<1>3. CASE Readies
      BY <1>1, <1>3, ReadiedType, OutcomesType, HitsType DEF Readies
<1>4. CASE Opens
      BY <1>1, <1>4, OpenedType, OutcomesType, HitsType DEF Opens
<1>5. CASE Drops
      BY <1>1, <1>5, DroppedType, OutcomesType, HitsType DEF Drops
<1>6. CASE SourceDown
      BY <1>2, <1>6, DisabledType, OutcomesType, HitsType DEF SourceDown, Sourced
<1>7. CASE SourceUp
      BY <1>1, <1>2, <1>7, RestoredType, OutcomesType, HitsType DEF SourceUp, Sourced
<1>8. CASE Saves
      BY <1>1, <1>8, PersistedType, HitsType DEF Saves
<1>9. CASE Unmakes
      BY <1>1, <1>9, UnprovisionedType, HitsType DEF Unmakes
<1>10. CASE TargetDown
       BY <1>1, <1>10, DisabledType, OutcomesType, HitsType DEF TargetDown
<1>11. CASE Removal
  <2>1. Gone \in FwType
        BY <1>1 DEF Gone, FwType
  <2> QED BY <1>1, <1>11, <2>1, DisabledType, OutcomesType, HitsType DEF Removal
<1>12. CASE UNCHANGED fw
       BY <1>12 DEF FwOK
<1> QED BY <1>3, <1>4, <1>5, <1>6, <1>7, <1>8, <1>9, <1>10, <1>11, <1>12 DEF Served

-----------------------------------------------------------------------------
(* What filters, keeps filtering: the source until the target does, then    *)
(* the target until the source does again.                                  *)

LEMMA StaysOn ==
  ASSUME NEW b \in Backends, NEW r \in FwType, NEW p \in Ports
  PROVE  /\ \A x \in {Opened(b, r, p)} \cup HalfOpened(b, r, p) : x.on = r.on
         /\ \A x \in {Dropped(b, r, p)} \cup HalfDropped(b, r, p) : x.on = r.on
         /\ \A sync \in BOOLEAN : Persisted(r, sync).on = r.on
         /\ \A x \in {Readied(b, r)} \cup HalfReadied(b, r) : r.on => x.on
<1>1. ASSUME NEW q \in FwType, NEW sync \in BOOLEAN PROVE Persisted(q, sync).on = q.on
      BY DEF Persisted, FwType
<1>2. ASSUME NEW o \in Ports
      PROVE  \A x \in {Opened(b, r, o)} \cup HalfOpened(b, r, o) : x \in FwType /\ x.on = r.on
  <2> DEFINE more == [r EXCEPT !.rules = @ \cup {o}, !.saved = @ \cup {o}]
  <2>1. more \in FwType /\ more.on = r.on
        BY DEF FwType
  <2>2. Opened(b, r, o) \in {r, more, Persisted(more, FALSE)}
        BY DEF Opened
  <2>3. HalfOpened(b, r, o) \subseteq {[r EXCEPT !.rules = @ \cup {o}], [r EXCEPT !.saved = @ \cup {o}]}
        BY DEF HalfOpened
  <2>4. /\ [r EXCEPT !.rules = @ \cup {o}] \in FwType /\ [r EXCEPT !.rules = @ \cup {o}].on = r.on
        /\ [r EXCEPT !.saved = @ \cup {o}] \in FwType /\ [r EXCEPT !.saved = @ \cup {o}].on = r.on
        BY DEF FwType
  <2> HIDE DEF more
  <2> QED BY <1>1, <2>1, <2>2, <2>3, <2>4, PersistedType
<1>3. \A x \in {Dropped(b, r, p)} \cup HalfDropped(b, r, p) : x.on = r.on
  <2> DEFINE less == [r EXCEPT !.rules = @ \ {p}, !.saved = @ \ {p}]
  <2>1. less \in FwType /\ less.on = r.on
        BY DEF FwType
  <2>2. Dropped(b, r, p) \in {less, Persisted(less, FALSE)}
        BY DEF Dropped
  <2>3. HalfDropped(b, r, p) \subseteq {[r EXCEPT !.rules = @ \ {p}], [r EXCEPT !.saved = @ \ {p}]}
        BY DEF HalfDropped
  <2>4. [r EXCEPT !.rules = @ \ {p}].on = r.on /\ [r EXCEPT !.saved = @ \ {p}].on = r.on
        BY DEF FwType
  <2> HIDE DEF less
  <2> QED BY <1>1, <2>1, <2>2, <2>3, <2>4
<1>4. \A x \in {Readied(b, r)} \cup HalfReadied(b, r) : r.on => x.on
  <2>1. \A x \in {Opened(b, r, Ssh)} \cup HalfOpened(b, r, Ssh) : x \in FwType /\ x.on = r.on
        BY <1>2, SshIsPort
  <2>2. CASE b = "nftables" /\ ~r.have
        BY <2>2 DEF Readied, HalfReadied, NewTable, FwType
  <2>3. CASE b = "nftables" /\ r.have
        BY <2>1, <2>3 DEF Readied, HalfReadied, FwType
  <2>4. CASE b # "nftables"
        BY <2>4 DEF Readied, HalfReadied, SshSaved, FwType, Backends
  <2> QED BY <2>2, <2>3, <2>4
<1> QED BY <1>1, <1>2, <1>3, <1>4

LEMMA OutcomesOn ==
  ASSUME FwOK, NEW b \in Backends, NEW done \in FwType, NEW half \in SUBSET FwType,
         NEW x \in Outcomes(b, done, half)
  PROVE  x.on = done.on \/ x.on = fw[b].on \/ x \in half
<1>1. ASSUME x \in Undumped(done, fw[b]) PROVE x.on = done.on
      BY <1>1 DEF Undumped, FwType
<1> QED BY <1>1 DEF Outcomes

\* The source filters when it is switched off, and when a rollback has found
\* it so; the target when the source is switched off.
OnInv ==
  /\ ssh /\ op.pc \in {"off", "m_off"} => fw[src].on /\ fw[dst].on
  /\ ssh /\ op.safe /\ op.pc \notin AtRest => fw[src].on

LEMMA ServedOn ==
  ASSUME FwOK, OpOK(op), OnInv, Served
  PROVE  /\ op.pc \notin Removing /\ (\E b \in Backends : fw[b].on) => \E b \in Backends : fw'[b].on
         /\ ssh /\ op.safe /\ op.pc \notin AtRest => fw'[src].on
<1>1. dst \in Backends /\ fw[dst] \in FwType /\ op.was \in FwType /\ src # dst
      BY PartyFields, OpFields DEF OpOK, src, dst
<1>2. ASSUME op.pc \in Sourced \/ op.kept # "no" \/ op.safe
      PROVE  src \in Backends /\ fw[src] \in FwType
      BY <1>2, PartyFields DEF OpOK, Reconcile, src
<1>3. ASSUME NEW X, Hits(dst, X), \A x \in X : fw[dst].on => x.on
      PROVE  /\ \A b \in Backends : fw[b].on => fw'[b].on
             /\ op.safe => fw'[src] = fw[src]
      BY <1>1, <1>2, <1>3 DEF Hits, Set, FwOK
<1>4. CASE Readies
  <2>1. \A x \in Outcomes(dst, Readied(dst, fw[dst]), HalfReadied(dst, fw[dst])) : fw[dst].on => x.on
        BY <1>1, StaysOn, ReadiedType, OutcomesOn, SshIsPort
  <2> QED BY <1>3, <1>4, <2>1 DEF Readies, OnInv
<1>5. CASE Opens
  <2>1. ASSUME NEW p \in Ports
        PROVE  \A x \in Outcomes(dst, Opened(dst, fw[dst], p), HalfOpened(dst, fw[dst], p)) : fw[dst].on => x.on
        BY <1>1, StaysOn, OpenedType, OutcomesOn
  <2> QED BY <1>3, <1>5, <2>1 DEF Opens, OnInv
<1>6. CASE Drops
  <2>1. ASSUME NEW p \in Ports
        PROVE  \A x \in Outcomes(dst, Dropped(dst, fw[dst], p), HalfDropped(dst, fw[dst], p)) : fw[dst].on => x.on
        BY <1>1, StaysOn, DroppedType, OutcomesOn
  <2> QED BY <1>3, <1>6, <2>1 DEF Drops, OnInv
<1>7. CASE Saves
  <2> DEFINE X == {Persisted(fw[dst], TRUE), Persisted(fw[dst], FALSE), fw[dst]}
  <2>1. \A x \in X : fw[dst].on => x.on
        BY <1>1, StaysOn, SshIsPort
  <2>2. Hits(dst, X)
        BY <1>7 DEF Saves
  <2> HIDE DEF X
  <2> QED BY <1>3, <2>1, <2>2 DEF OnInv
<1>8. CASE SourceDown
  <2>1. ~op.safe
        BY <1>8 DEF SourceDown, OpOK, SafePcs, AtRest
  <2>2. fw'[dst] = fw[dst] /\ (ssh \/ UNCHANGED fw)
        BY <1>1, <1>8 DEF SourceDown, Hits, Set, FwOK
  <2> QED BY <1>1, <1>8, <2>1, <2>2 DEF SourceDown, OnInv
<1>9. CASE SourceUp
  <2>1. ~op.safe /\ op.was.on /\ src \in Backends /\ fw[src] \in FwType
        BY <1>2, <1>9 DEF SourceUp, OpOK, SafePcs, AtRest
  <2>2. \A x \in {Restored(src, fw[src], op.was)} \cup HalfRestored(src, fw[src], op.was) : fw[src].on => x.on
        BY <1>1, <2>1 DEF Restored, HalfRestored, Persisted, FwType
  <2>3. \A x \in Outcomes(src, Restored(src, fw[src], op.was), HalfRestored(src, fw[src], op.was)) : fw[src].on => x.on
        BY <1>1, <2>1, <2>2, RestoredType, OutcomesOn
  <2>4. \A b \in Backends : fw[b].on => fw'[b].on
        BY <1>9, <2>1, <2>3 DEF SourceUp, Hits, Set, FwOK
  <2> QED BY <2>1, <2>4
<1>10. CASE Unmakes \/ TargetDown
  <2>1. /\ op.safe /\ src \in Backends /\ op.pc \notin AtRest
        BY <1>2, <1>10 DEF Unmakes, TargetDown, AtRest
  <2>2. fw'[src] = fw[src] /\ (ssh \/ UNCHANGED fw)
        BY <1>1, <1>10, <2>1 DEF Unmakes, TargetDown, Hits, Set, FwOK
  <2> QED BY <2>1, <2>2 DEF OnInv
<1>11. CASE Removal
  <2>1. op.pc \in Removing /\ ~op.safe
        BY <1>11 DEF Removal, Removing, OpOK, SafePcs, AtRest
  <2> QED BY <2>1
<1>12. CASE UNCHANGED fw
       BY <1>12 DEF OnInv
<1> QED BY <1>4, <1>5, <1>6, <1>7, <1>8, <1>9, <1>10, <1>11, <1>12 DEF Served

\* The steps in groups: all of the switch, the migration and the removal but the
\* first scans and those after which a firewall may be switched off.
Prepares ==
  \/ Inventory \/ Prepare \/ AllowSsh \/ ConfirmOn \/ Baseline \/ AddRule
  \/ PreflightDrops \/ DropRule \/ Verify \/ LoginWithBoth
Finishes ==
  \/ LoginAfter \/ FinalScan \/ Persist \/ RestoreSource \/ ReaddRule \/ Unmake
  \/ CleanRule \/ CompareTarget \/ TargetOff \/ LastLook
MPrepares ==
  \/ MInventory \/ MPrepare \/ MDetect \/ MAllow \/ MAdd \/ MVerify \/ MLogin
  \/ MFinalScan \/ MLoginAfter \/ MFinalRules
MUndoes ==
  \/ MBack \/ MUnmake \/ MClean \/ MTargetOff \/ MLast

LEMMA PreparesOK ==
  ASSUME FwOK, OpOK(op), BoundsOK, Prepares
  PROVE  /\ OpOK(op') /\ Kin(op, op') /\ Served /\ UNCHANGED ssh /\ Costs
         /\ op.pc \notin {"off", "m_off", "confirm", "m_confirm", "safe", "m_safe"}
<1>1. CASE Inventory
      BY <1>1, InventoryOK, ReadsOnly DEF Inventory, At, Served
<1>2. CASE Prepare
      BY <1>2, PrepareOK, PrepareServes DEF Prepare, At, Served
<1>3. CASE AllowSsh
      BY <1>3, AllowSshOK, AllowSshServes DEF AllowSsh, At, Served
<1>4. CASE ConfirmOn
      BY <1>4, ConfirmOnOK, ReadsOnly DEF ConfirmOn, At, Served
<1>5. CASE Baseline
      BY <1>5, BaselineOK, ReadsOnly DEF Baseline, At, Served
<1>6. CASE AddRule
      BY <1>6, AddRuleOK, AddRuleServes DEF AddRule, At, Served
<1>7. CASE PreflightDrops
      BY <1>7, PreflightDropsOK, ReadsOnly DEF PreflightDrops, At, Served
<1>8. CASE DropRule
      BY <1>8, DropRuleOK, DropRuleServes DEF DropRule, At, Served
<1>9. CASE Verify
      BY <1>9, VerifyOK, ReadsOnly DEF Verify, At, Served
<1>10. CASE LoginWithBoth
      BY <1>10, LoginWithBothOK, ReadsOnly DEF LoginWithBoth, At, Served
<1> QED BY <1>1, <1>2, <1>3, <1>4, <1>5, <1>6, <1>7, <1>8, <1>9, <1>10 DEF Prepares

LEMMA FinishesOK ==
  ASSUME FwOK, OpOK(op), Finishes
  PROVE  /\ OpOK(op') /\ Kin(op, op') /\ Served /\ UNCHANGED ssh /\ Costs
         /\ op.pc \notin {"off", "m_off", "confirm", "m_confirm", "safe", "m_safe"}
<1>1. CASE LoginAfter
      BY <1>1, LoginAfterOK, ReadsOnly DEF LoginAfter, At, Served
<1>2. CASE FinalScan
      BY <1>2, FinalScanOK, ReadsOnly DEF FinalScan, At, Served
<1>3. CASE Persist
      BY <1>3, PersistOK, PersistServes DEF Persist, At, Served
<1>4. CASE RestoreSource
      BY <1>4, RestoreSourceOK, RestoreSourceServes DEF RestoreSource, At, Served
<1>5. CASE ReaddRule
      BY <1>5, ReaddRuleOK, ReaddRuleServes DEF ReaddRule, At, Served
<1>6. CASE Unmake
      BY <1>6, UnmakeOK, UnmakeServes DEF Unmake, At, Served
<1>7. CASE CleanRule
      BY <1>7, CleanRuleOK, CleanRuleServes DEF CleanRule, At, Served
<1>8. CASE CompareTarget
      BY <1>8, CompareTargetOK, ReadsOnly DEF CompareTarget, At, Served
<1>9. CASE TargetOff
      BY <1>9, TargetOffOK, TargetOffServes DEF TargetOff, At, Served
<1>10. CASE LastLook
      BY <1>10, LastLookOK, ReadsOnly DEF LastLook, At, Served
<1> QED BY <1>1, <1>2, <1>3, <1>4, <1>5, <1>6, <1>7, <1>8, <1>9, <1>10 DEF Finishes

LEMMA MPreparesOK ==
  ASSUME FwOK, OpOK(op), BoundsOK, MPrepares
  PROVE  /\ OpOK(op') /\ Kin(op, op') /\ Served /\ UNCHANGED ssh /\ Costs
         /\ op.pc \notin {"off", "m_off", "confirm", "m_confirm", "safe", "m_safe"}
<1>1. CASE MInventory
      BY <1>1, MInventoryOK, ReadsOnly DEF MInventory, At, Served
<1>2. CASE MPrepare
      BY <1>2, MPrepareOK, MPrepareServes DEF MPrepare, At, Served
<1>3. CASE MDetect
      BY <1>3, MDetectOK, ReadsOnly DEF MDetect, At, Served
<1>4. CASE MAllow
      BY <1>4, MAllowOK, MAllowServes DEF MAllow, At, Served
<1>5. CASE MAdd
      BY <1>5, MAddOK, MAddServes DEF MAdd, At, Served
<1>6. CASE MVerify
      BY <1>6, MVerifyOK, ReadsOnly DEF MVerify, At, Served
<1>7. CASE MLogin
      BY <1>7, MLoginOK, ReadsOnly DEF MLogin, At, Served
<1>8. CASE MFinalScan
      BY <1>8, MFinalScanOK, ReadsOnly DEF MFinalScan, At, Served
<1>9. CASE MLoginAfter
      BY <1>9, MLoginAfterOK, ReadsOnly DEF MLoginAfter, At, Served
<1>10. CASE MFinalRules
      BY <1>10, MFinalRulesOK, ReadsOnly DEF MFinalRules, At, Served
<1> QED BY <1>1, <1>2, <1>3, <1>4, <1>5, <1>6, <1>7, <1>8, <1>9, <1>10 DEF MPrepares

LEMMA MUndoesOK ==
  ASSUME FwOK, OpOK(op), MUndoes
  PROVE  /\ OpOK(op') /\ Kin(op, op') /\ Served /\ UNCHANGED ssh /\ Costs
         /\ op.pc \notin {"off", "m_off", "confirm", "m_confirm", "safe", "m_safe"}
<1>1. CASE MBack
      BY <1>1, MBackOK, MBackServes DEF MBack, At, Served
<1>2. CASE MUnmake
      BY <1>2, MUnmakeOK, MUnmakeServes DEF MUnmake, At, Served
<1>3. CASE MClean
      BY <1>3, MCleanOK, MCleanServes DEF MClean, At, Served
<1>4. CASE MTargetOff
      BY <1>4, MTargetOffOK, MTargetOffServes DEF MTargetOff, At, Served
<1>5. CASE MLast
      BY <1>5, MLastOK, ReadsOnly DEF MLast, At, Served
<1> QED BY <1>1, <1>2, <1>3, <1>4, <1>5 DEF MUndoes

LEMMA RemovesOK ==
  ASSUME FwOK, OpOK(op), Removes
  PROVE  /\ OpOK(op') /\ Kin(op, op') /\ Served /\ UNCHANGED ssh /\ Costs
         /\ op.pc \notin {"off", "m_off", "confirm", "m_confirm", "safe", "m_safe"}
<1>1. CASE RScan
      BY <1>1, RScanOK, ReadsOnly DEF RScan, At, Served
<1>2. CASE ROff
      BY <1>2, ROffOK, ROffServes DEF ROff, At, Served
<1>3. CASE RLook
      BY <1>3, RLookOK, ReadsOnly DEF RLook, At, Served
<1>4. CASE RPackage
      BY <1>4, RPackageOK, RPackageServes DEF RPackage, At, Served
<1> QED BY <1>1, <1>2, <1>3, <1>4 DEF Removes

-----------------------------------------------------------------------------
(* Every variable keeps its type, and no step bares a server.               *)

ActInv ==
  /\ FwOK /\ ssh \in BOOLEAN /\ moved \in SUBSET Ports /\ BoundsOK
  /\ OpOK(op) /\ OnInv

LEMMA ActInit == Init => ActInv
<1> SUFFICES ASSUME Init PROVE ActInv
    OBVIOUS
<1>1. FwOK /\ "ufw" \in Backends
      BY SwitchAssumption DEF Init, FwOK, Backends
<1>2. OpOK(op) /\ Fresh(op)
      BY <1>1, IdleOK DEF Init
<1>3. BoundsOK /\ ssh = FALSE /\ moved = {}
  <2>1. faults \in 0..MaxFaults /\ edits \in 0..MaxEdits /\ rounds \in 0..MaxRounds
        BY SwitchAssumption DEF Init
  <2>2. overlooked \in BOOLEAN /\ ssh = FALSE /\ moved = {}
        BY DEF Init
  <2> QED BY <2>1, <2>2 DEF BoundsOK
<1> QED BY <1>1, <1>2, <1>3 DEF ActInv, OnInv

\* A step of the switch, the migration or the removal.
LEMMA OnKin ==
  ASSUME ActInv, Kin(op, op'), OpOK(op'), Served, UNCHANGED ssh,
         op.pc \notin {"off", "m_off", "confirm", "m_confirm", "safe", "m_safe"}
  PROVE  OnInv'
<1>1. ssh /\ op.safe /\ op.pc \notin AtRest => fw'[src].on
      BY ServedOn DEF ActInv
<1> QED BY <1>1 DEF ActInv, OnInv, Kin, src, dst

Bares == (\E b \in Backends : fw[b].on) /\ ~ \E b \in Backends : fw'[b].on

LEMMA GroupsOn ==
  ASSUME ActInv, Prepares \/ Finishes \/ MPrepares \/ MUndoes \/ Removes
  PROVE  /\ FwOK' /\ UNCHANGED ssh /\ BoundsOK' /\ OpOK(op') /\ OnInv'
         /\ op.pc \in Removing \/ ~Bares
<1> USE DEF ActInv
<1>1. /\ OpOK(op') /\ Kin(op, op') /\ Served /\ UNCHANGED ssh /\ Costs
      /\ op.pc \notin {"off", "m_off", "confirm", "m_confirm", "safe", "m_safe"}
      BY PreparesOK, FinishesOK, MPreparesOK, MUndoesOK, RemovesOK
<1>2. FwOK' /\ BoundsOK' /\ OnInv'
      BY <1>1, ServedType, Counted, OnKin
<1> QED BY <1>1, <1>2, ServedOn DEF Bares

LEMMA TurnsOn ==
  ASSUME ActInv, Confirm \/ MConfirm \/ SourceOff \/ MSourceOff \/ ProveSource \/ MSafe
  PROVE  FwOK' /\ UNCHANGED ssh /\ BoundsOK' /\ OpOK(op') /\ OnInv' /\ ~Bares
<1> USE DEF ActInv
<1>1. ASSUME Confirm \/ MConfirm \/ ProveSource \/ MSafe
      PROVE  UNCHANGED <<fw, ssh>> /\ Costs
      BY <1>1, ReadsOnly
<1>2. CASE Confirm
  <2>1. OpOK(op') /\ Kin(op, op') /\ ~op.safe /\ op.pc = "confirm"
        BY <1>2, ConfirmOK DEF Confirm, At, OpOK, SafePcs, AtRest
  <2>2. op'.pc \in {"off", "m_off"} => fw[src].on /\ fw[dst].on
    <3>1. CASE Abandon(op)
          BY <1>2, <2>1, <3>1, AbandonOK DEF Kin, AtRest, Steps, Deciding
    <3>2. CASE \E f \in {fw} \cup Misread : OnlyParties(f)
          BY <2>1, <3>2, SeenFacts, PartyFields DEF OnlyParties, OpOK, Sourced, Reconcile, src
    <3> QED BY <1>2, <3>1, <3>2 DEF Confirm, Looks
  <2>3. OnInv'
        BY <1>1, <1>2, <2>1, <2>2 DEF OnInv, Kin, src, dst
  <2> QED BY <1>1, <1>2, <2>1, <2>3, Counted DEF FwOK, Bares
<1>3. CASE MConfirm
  <2>1. OpOK(op') /\ Kin(op, op') /\ ~op.safe /\ op.pc = "m_confirm"
        BY <1>3, MConfirmOK DEF MConfirm, At, OpOK, SafePcs, AtRest
  <2>2. op'.pc \in {"off", "m_off"} => fw[src].on /\ fw[dst].on
    <3>1. CASE GiveUp(op)
          BY <2>1, <3>1 DEF GiveUp, OpOK, OpType
    <3>2. CASE Reconcile /\ \E f \in {fw} \cup Misread : BothActive(f, Parties)
      <4>1. PICK f \in {fw} \cup Misread : f[src].on /\ f[dst].on
            BY <3>2 DEF BothActive, Parties, Reconcile
      <4> QED BY <3>2, <4>1, SeenFacts, PartyFields
    <3>3. CASE Go("m_final")
          BY <2>1, <3>3 DEF Go, OpOK, OpType
    <3> QED BY <1>3, <3>1, <3>2, <3>3 DEF MConfirm, Looks
  <2>3. OnInv'
        BY <1>1, <1>3, <2>1, <2>2 DEF OnInv, Kin, src, dst
  <2> QED BY <1>1, <1>3, <2>1, <2>3, Counted DEF FwOK, Bares
<1>4. CASE SourceOff
  <2>1. /\ OpOK(op') /\ Kin(op, op') /\ ~op.safe /\ op.pc = "off"
        /\ op'.pc \notin {"off", "m_off"}
        BY <1>4, SourceOffOK DEF SourceOff, At, OpOK, SafePcs, AtRest, OnAtOff, OnInv
  <2>2. Served /\ UNCHANGED ssh /\ Costs
        BY <1>4, SourceOffServes DEF Served
  <2>4. OnInv' /\ op.pc \notin Removing
        BY <2>1 DEF OnInv, Kin, Removing
  <2> QED BY <2>1, <2>2, <2>4, ServedType, ServedOn, Counted DEF Bares
<1>5. CASE MSourceOff
  <2>1. /\ OpOK(op') /\ Kin(op, op') /\ ~op.safe /\ op.pc = "m_off"
        /\ op'.pc \notin {"off", "m_off"}
        BY <1>5, MSourceOffOK DEF MSourceOff, At, OpOK, SafePcs, AtRest, OnAtOff, OnInv
  <2>2. Served /\ UNCHANGED ssh /\ Costs
        BY <1>5, MSourceOffServes DEF Served
  <2>4. OnInv' /\ op.pc \notin Removing
        BY <2>1 DEF OnInv, Kin, Removing
  <2> QED BY <2>1, <2>2, <2>4, ServedType, ServedOn, Counted DEF Bares
<1>6. CASE ProveSource
  <2>1. OpOK(op') /\ Kin(op, op') /\ ~op.safe /\ op.pc = "safe"
        BY <1>6, ProveSourceOK DEF ProveSource, At, OpOK, SafePcs, AtRest
  <2>2. op'.safe => fw[src].on
        BY <1>6, <2>1 DEF ProveSource, SafeSource, OpOK, OpType
  <2>3. OnInv'
        BY <1>1, <1>6, <2>1, <2>2 DEF OnInv, Kin, src, dst
  <2> QED BY <1>1, <1>6, <2>1, <2>3, Counted DEF FwOK, Bares
<1>7. CASE MSafe
  <2>1. OpOK(op') /\ Kin(op, op') /\ ~op.safe /\ op.pc = "m_safe"
        BY <1>7, MSafeOK DEF MSafe, At, OpOK, SafePcs, AtRest
  <2>2. op'.safe => fw[src].on
    <3>1. CASE op' = [op EXCEPT !.pc = "m_unmake", !.ok = FALSE, !.safe = FALSE /\ Reconcile]
          BY <2>1, <3>1 DEF OpOK, OpType
    <3>2. CASE \E f \in {fw} \cup Misread :
                 BothActive(f, IF op.wason \/ op.ready THEN Parties ELSE Parties \ {dst})
      <4>1. ASSUME op'.safe
            PROVE  \E f \in {fw} \cup Misread : f[src].on
            BY <2>1, <3>2, <4>1 DEF BothActive, Parties, OpOK, Kin, src, dst
      <4>2. ASSUME op'.safe
            PROVE  src \in Backends
            BY <2>1, <4>2, OpFields DEF OpOK, Kin, src
      <4> QED BY <4>1, <4>2, SeenFacts
    <3> QED BY <1>7, <3>1, <3>2 DEF MSafe, Looks
  <2>3. OnInv'
        BY <1>1, <1>7, <2>1, <2>2 DEF OnInv, Kin, src, dst
  <2> QED BY <1>1, <1>7, <2>1, <2>3, Counted DEF FwOK, Bares
<1> QED BY <1>2, <1>3, <1>4, <1>5, <1>6, <1>7

LEMMA TurnsKin ==
  ASSUME ActInv, Confirm \/ MConfirm \/ SourceOff \/ MSourceOff \/ ProveSource \/ MSafe
  PROVE  /\ OpOK(op') /\ Kin(op, op') /\ Served /\ UNCHANGED ssh /\ Costs
         /\ op.pc \in {"off", "m_off"} => op'.pc \notin {"off", "m_off"}
<1> USE DEF ActInv
<1>1. CASE Confirm \/ MConfirm \/ ProveSource \/ MSafe
      BY <1>1, ConfirmOK, MConfirmOK, ProveSourceOK, MSafeOK, ReadsOnly
      DEF Served, Confirm, MConfirm, ProveSource, MSafe, At
<1>2. CASE SourceOff \/ MSourceOff
      BY <1>2, SourceOffOK, MSourceOffOK, SourceOffServes, MSourceOffServes DEF Served, OnInv, OnAtOff
<1> QED BY <1>1, <1>2

LEMMA ScansOn ==
  ASSUME ActInv, Scan \/ MScan
  PROVE  /\ UNCHANGED <<fw, ssh>> /\ Costs /\ BoundsOK' /\ OpOK(op') /\ Found(op, op')
         /\ OnInv'
<1> USE DEF ActInv
<1>1. /\ UNCHANGED <<fw, ssh>> /\ Costs /\ BoundsOK' /\ OpOK(op') /\ Found(op, op')
      BY ReadsOnly, Counted, ScanOK, MScanOK
<1>2. op'.pc \notin {"off", "m_off"} /\ op.pc \notin SafePcs
      BY <1>1 DEF Found, Scan, MScan, At, SafePcs, AtRest
<1>3. ~op'.safe
      BY <1>1, <1>2 DEF Found, OpOK
<1> QED BY <1>1, <1>2, <1>3 DEF OnInv

LEMMA StartsOn ==
  ASSUME ActInv,
         \/ Decide \/ MDecide
         \/ \E b \in Backends : Request(b) \/ \E k \in MoreKinds : RequestMore(b, k)
  PROVE  /\ UNCHANGED fw /\ ssh' \in BOOLEAN /\ BoundsOK' /\ OpOK(op') /\ OnInv'
         /\ Go("stopped") \/ (Fresh(op') /\ (ssh' => Admits(fw, Ssh)))
<1> USE DEF ActInv
<1>1. UNCHANGED fw
      BY DEF Decide, MDecide, Same, Request, RequestMore
<1>2. BoundsOK'
  <2>1. CASE Decide \/ MDecide
        BY <2>1 DEF Decide, MDecide, BoundsOK, bounds
  <2>2. CASE \E b \in Backends : Request(b) \/ \E k \in MoreKinds : RequestMore(b, k)
    <3>1. rounds < MaxRounds /\ rounds' = rounds + 1 /\ UNCHANGED <<faults, edits>> /\ overlooked' = FALSE
          BY <2>2 DEF Request, RequestMore
    <3>2. faults' \in 0..MaxFaults /\ edits' \in 0..MaxEdits /\ rounds' \in 0..MaxRounds
          BY <3>1, SwitchAssumption DEF BoundsOK
    <3> QED BY <3>1, <3>2 DEF BoundsOK
  <2> QED BY <2>1, <2>2
<1>3. OpOK(op') /\ (Go("stopped") \/ (Fresh(op') /\ ~Go("stopped")))
      BY DecideOK, MDecideOK, RequestOK, RequestMoreOK
<1>4. ssh' \in BOOLEAN /\ (Go("stopped") \/ (ssh' => Admits(fw, Ssh)))
      BY DEF Decide, MDecide, Request, RequestMore, Admits
<1>5. OnInv'
  <2>1. CASE Go("stopped")
    <3>1. op'.pc = "stopped"
          BY <2>1 DEF Go, OpOK, OpType
    <3> QED BY <3>1 DEF OnInv, AtRest
  <2>2. CASE Fresh(op')
        BY <2>2 DEF OnInv, Fresh
  <2> QED BY <1>3, <2>1, <2>2
<1> QED BY <1>1, <1>2, <1>3, <1>4, <1>5

LEMMA OneCallOn ==
  ASSUME ActInv, NEW b \in Backends, Disable(b) \/ Enable(b)
  PROVE  /\ FwOK' /\ UNCHANGED ssh /\ BoundsOK' /\ OpOK(op') /\ OnInv' /\ op' = Idle(dst) /\ Fresh(op')
<1> USE DEF ActInv
<1>1. fw[b] \in FwType
      BY DEF FwOK
<1>2. PICK x \in FwType : Set(b, x)
      BY <1>1, DisabledType, EnabledType DEF Disable, Enable, OneCall
<1>3. FwOK'
      BY <1>2 DEF FwOK, Set
<1>4. BoundsOK'
  <2>1. CASE Upset
        BY <2>1, Counted DEF Costs
  <2>2. CASE rounds < MaxRounds /\ rounds' = rounds + 1 /\ UNCHANGED <<faults, edits, overlooked>>
        BY <2>2, SwitchAssumption DEF BoundsOK
  <2> QED BY <2>1, <2>2 DEF Disable, Enable, OneCall
<1>5. op' = Idle(dst) /\ UNCHANGED ssh
      BY DEF Disable, Enable, OneCall
<1>6. OpOK(op') /\ Fresh(op')
      BY <1>5, IdleOK, PartyFields
<1>7. OnInv'
      BY <1>6 DEF OnInv, Fresh
<1> QED BY <1>3, <1>4, <1>5, <1>6, <1>7

\* A change by one of the panel's other requests.
Edited(b, p) ==
  \/ Set(b, Opened(b, fw[b], p))
  \/ p # Ssh /\ Set(b, Dropped(b, fw[b], p))

LEMMA EditOn ==
  ASSUME ActInv, NEW p \in Ports, Edit(p)
  PROVE  /\ FwOK' /\ UNCHANGED <<op, ssh>> /\ BoundsOK' /\ OnInv' /\ moved' = moved \cup {p}
         /\ \E b \in Backends : Edited(b, p) /\ Admits(fw, Ssh)
         /\ \A b \in Backends : fw'[b].on = fw[b].on
<1> USE DEF ActInv
<1>1. PICK b \in Backends : Edited(b, p) /\ Admits(fw, Ssh)
      BY ActiveFacts DEF Edit, Edited, Filters
<1>2. fw[b] \in FwType
      BY <1>1 DEF FwOK
<1>3. FwOK'
      BY <1>1, <1>2, OpenedType, DroppedType DEF FwOK, Edited, Set
<1>4. \A c \in Backends : fw'[c].on = fw[c].on
      BY <1>1, <1>2, StaysOn DEF FwOK, Edited, Set
<1>5. BoundsOK'
      BY SwitchAssumption DEF Edit, BoundsOK
<1>6. UNCHANGED <<op, ssh>> /\ moved' = moved \cup {p}
      BY DEF Edit
<1>7. OnInv'
  <2>1. dst \in Backends /\ (op.pc \in {"off", "m_off"} \/ op.safe => src \in Backends)
        BY PartyFields DEF OpOK, Sourced, Reconcile, src
  <2> QED BY <1>4, <1>6, <2>1 DEF OnInv, src, dst
<1> QED BY <1>1, <1>3, <1>4, <1>5, <1>6, <1>7

LEMMA RebootOn ==
  ASSUME ActInv, Reboot
  PROVE  FwOK' /\ ssh' = FALSE /\ UNCHANGED <<op, moved>> /\ BoundsOK' /\ OnInv'
<1> USE DEF ActInv
<1>1. FwOK'
      BY BootedType DEF FwOK, Reboot
<1> QED BY <1>1, Counted DEF Costs, Reboot, OnInv

LEMMA MovedType ==
  ASSUME ActInv, NextMore
  PROVE  moved' \in SUBSET Ports
<1>1. ASSUME Proceed PROVE moved' \in {moved, {}}
      BY <1>1 DEF Proceed, Scan, Inventory, Prepare, AllowSsh, ConfirmOn, Baseline, AddRule,
           PreflightDrops, DropRule, Verify, LoginWithBoth, Confirm, SourceOff, LoginAfter,
           FinalScan, Looks, Persist, RestoreSource, ProveSource, ReaddRule, Unmake, CleanRule,
           CompareTarget, TargetOff, LastLook
<1>2. ASSUME Migrates \/ Removes PROVE moved' \in {moved, {}}
      BY <1>2 DEF Migrates, Removes, MScan, MInventory, MPrepare, MDetect, MAllow, MAdd, MVerify,
           MLogin, MConfirm, MSourceOff, MFinalScan, MLoginAfter, MFinalRules, MBack, MSafe,
           MUnmake, MClean, MTargetOff, MLast, RScan, ROff, RLook, RPackage
<1>3. ASSUME \/ Decide \/ MDecide \/ Reboot
             \/ \E b \in Backends : \/ Request(b) \/ Disable(b) \/ Enable(b)
                                    \/ \E k \in MoreKinds : RequestMore(b, k)
      PROVE  moved' \in {moved, {}}
      BY <1>3 DEF Decide, MDecide, Reboot, Request, RequestMore, Disable, Enable, OneCall
<1>4. ASSUME NEW p \in Ports, Edit(p) PROVE moved' = moved \cup {p}
      BY <1>4 DEF Edit
<1> QED BY <1>1, <1>2, <1>3, <1>4 DEF NextMore, Next, ActInv, MoreKinds, Managed, Backends

\* The steps of NextMore, by what they do to the firewalls and the operation.
LEMMA StepsOf ==
  ASSUME NextMore
  PROVE  \/ Prepares \/ Finishes \/ MPrepares \/ MUndoes \/ Removes
         \/ Confirm \/ MConfirm \/ SourceOff \/ MSourceOff \/ ProveSource \/ MSafe
         \/ Scan \/ MScan \/ Decide \/ MDecide
         \/ \E b \in Backends : Request(b) \/ \E k \in MoreKinds : RequestMore(b, k)
         \/ \E b \in Backends : Disable(b) \/ Enable(b)
         \/ \E p \in Ports : Edit(p)
         \/ Reboot
<1>1. ASSUME NEW b \in Managed, RequestMore(b, "remove")
      PROVE  \E c \in Backends : \E k \in MoreKinds : RequestMore(c, k)
      BY <1>1 DEF Managed, Backends, MoreKinds
<1>2. ASSUME Proceed
      PROVE  Prepares \/ Finishes \/ Confirm \/ SourceOff \/ ProveSource \/ Scan
      BY <1>2 DEF Proceed, Prepares, Finishes
<1>3. ASSUME Migrates
      PROVE  MPrepares \/ MUndoes \/ MConfirm \/ MSourceOff \/ MSafe \/ MScan
      BY <1>3 DEF Migrates, MPrepares, MUndoes
<1> QED BY <1>1, <1>2, <1>3 DEF NextMore, Next, MoreKinds

LEMMA ActStep ==
  ASSUME ActInv, [NextMore]_vars
  PROVE  ActInv'
<1>1. CASE UNCHANGED vars
  <2>1. UNCHANGED <<fw, op, ssh, moved, overlooked, faults, edits, rounds>>
        BY <1>1 DEF vars
  <2> QED BY <2>1 DEF ActInv, FwOK, BoundsOK, OnInv, src, dst
<1>2. CASE NextMore
  <2>1. /\ FwOK' /\ ssh' \in BOOLEAN /\ BoundsOK' /\ OpOK(op') /\ OnInv'
    <3>1. CASE Prepares \/ Finishes \/ MPrepares \/ MUndoes \/ Removes
          BY <3>1, GroupsOn DEF ActInv
    <3>2. CASE Confirm \/ MConfirm \/ SourceOff \/ MSourceOff \/ ProveSource \/ MSafe
          BY <3>2, TurnsOn DEF ActInv
    <3>3. CASE Scan \/ MScan
          BY <3>3, ScansOn DEF ActInv, FwOK
    <3>4. CASE \/ Decide \/ MDecide
               \/ \E b \in Backends : Request(b) \/ \E k \in MoreKinds : RequestMore(b, k)
          BY <3>4, StartsOn DEF ActInv, FwOK
    <3>5. CASE \E b \in Backends : Disable(b) \/ Enable(b)
          BY <3>5, OneCallOn DEF ActInv
    <3>6. CASE \E p \in Ports : Edit(p)
          BY <3>6, EditOn DEF ActInv
    <3>7. CASE Reboot
          BY <3>7, RebootOn DEF ActInv
    <3> QED BY <1>2, StepsOf, <3>1, <3>2, <3>3, <3>4, <3>5, <3>6, <3>7
  <2> QED BY <1>2, <2>1, MovedType DEF ActInv
<1> QED BY <1>1, <1>2

LEMMA RemovesKind ==
  ASSUME OpOK(op), Removes
  PROVE  op'.kind = "remove"
<1>1. op.kind = "remove" /\ op \in OpType
      BY DEF OpOK, Removes, RScan, ROff, RLook, RPackage, At, Removing
<1>2. PICK pc : op' = [op EXCEPT !.pc = pc]
      BY DEF Removes, RScan, ROff, RLook, RPackage, Looks, RStarts, Go
<1> QED BY <1>1, <1>2 DEF OpType

LEMMA GroupPcs ==
  ASSUME Prepares \/ Finishes \/ MPrepares \/ MUndoes
  PROVE  op.pc \notin Removing
<1> USE DEF At, Removing
<1>1. CASE Prepares
      BY <1>1 DEF Prepares, Inventory, Prepare, AllowSsh, ConfirmOn, Baseline, AddRule,
           PreflightDrops, DropRule, Verify, LoginWithBoth
<1>2. CASE Finishes
      BY <1>2 DEF Finishes, LoginAfter, FinalScan, Persist, RestoreSource, ReaddRule, Unmake,
           CleanRule, CompareTarget, TargetOff, LastLook
<1>3. CASE MPrepares
      BY <1>3 DEF MPrepares, MInventory, MPrepare, MDetect, MAllow, MAdd, MVerify, MLogin,
           MFinalScan, MLoginAfter, MFinalRules
<1>4. CASE MUndoes
      BY <1>4 DEF MUndoes, MBack, MUnmake, MClean, MTargetOff, MLast
<1> QED BY <1>1, <1>2, <1>3, <1>4

LEMMA ActAlways == SpecMore => []ActInv
<1>1. Init => ActInv
      BY ActInit
<1>2. ActInv /\ [NextMore]_vars => ActInv'
      BY ActStep
<1> QED BY <1>1, <1>2, PTL DEF SpecMore

\* Every variable of the switch and the migration keeps its type.
THEOREM FirewallTypes == SpecMore => []TypeOK
<1>1. ActInv => TypeOK
      BY DEF ActInv, TypeOK, FwOK, BoundsOK, OpOK
<1> QED BY <1>1, ActAlways, PTL

\* On a server that has one request at a time, for every number of failures,
\* overlooked firewalls and reboots: only a disable, a removal or a reboot
\* leaves a server that had a firewall without one.
THEOREM NeverWithout == SpecMore => NeverBare
<1>1. ASSUME ActInv, [NextMore]_vars
      PROVE  [op' # op /\ op'.pc # "idle" /\ op'.kind # "remove" /\ (\E b \in Backends : fw[b].on)
                => \E b \in Backends : fw'[b].on]_vars
  <2> SUFFICES ASSUME NextMore, op' # op, op'.pc # "idle", op'.kind # "remove",
                      \E b \in Backends : fw[b].on
               PROVE  \E b \in Backends : fw'[b].on
      BY <1>1
  <2>1. CASE Prepares \/ Finishes \/ MPrepares \/ MUndoes
    <3>1. op.pc \notin Removing
          BY <2>1, GroupPcs
    <3> QED BY <1>1, <2>1, <3>1, GroupsOn DEF Bares
  <2>2. CASE Removes
    <3>1. op'.kind = "remove"
          BY <1>1, <2>2, RemovesKind DEF ActInv
    <3> QED BY <3>1
  <2>3. CASE Confirm \/ MConfirm \/ SourceOff \/ MSourceOff \/ ProveSource \/ MSafe
        BY <1>1, <2>3, TurnsOn DEF Bares
  <2>4. CASE Scan \/ MScan
        BY <1>1, <2>4, ScansOn
  <2>5. CASE \/ Decide \/ MDecide
             \/ \E b \in Backends : Request(b) \/ \E k \in MoreKinds : RequestMore(b, k)
        BY <1>1, <2>5, StartsOn
  <2>6. CASE \E b \in Backends : Disable(b) \/ Enable(b)
    <3>1. op' = Idle(dst)
          BY <1>1, <2>6, OneCallOn
    <3> QED BY <3>1 DEF Idle
  <2>7. CASE (\E p \in Ports : Edit(p)) \/ Reboot
        BY <1>1, <2>7, EditOn, RebootOn
  <2> QED BY StepsOf, <2>1, <2>2, <2>3, <2>4, <2>5, <2>6, <2>7
<1> QED BY <1>1, ActAlways, PTL DEF SpecMore, NeverBare

-----------------------------------------------------------------------------
(* What a call makes of a backend that lets the panel in.                   *)

\* A backend that admits it, whether it filters or not, and however it is
\* switched off and on.
Shelters(b, r) == Ssh \in r.rules /\ (b = "firewalld" => Ssh \in r.saved)

\* From r to x nothing is lost.
Gentle(b, r, x) ==
  /\ LetsIn(b, r) => LetsIn(b, x)
  /\ Shelters(b, r) => Shelters(b, x)
  /\ x.on = r.on /\ x.have = r.have

LEMMA OpenedGood ==
  ASSUME NEW b \in Backends, NEW r \in FwType, NEW p \in Ports
  PROVE  /\ Gentle(b, r, Opened(b, r, p))
         /\ \A x \in HalfOpened(b, r, p) : Gentle(b, r, x)
         /\ LetsIn(b, r) /\ p = Ssh => Ssh \in Opened(b, r, p).rules
         /\ LetsIn(b, r) /\ p = Ssh => Shelters(b, Opened(b, r, p))
<1> USE DEF FwType, LetsIn, Shelters, Gentle, Backends
<1>1. CASE b = "ufw"
      BY <1>1 DEF Opened, HalfOpened
<1>2. CASE b = "firewalld"
      BY <1>2 DEF Opened, HalfOpened
<1>3. CASE b = "nftables"
      BY <1>3 DEF Opened, HalfOpened, Persisted
<1> QED BY <1>1, <1>2, <1>3

LEMMA DroppedGood ==
  ASSUME NEW b \in Backends, NEW r \in FwType, NEW p \in Ports \ {Ssh}
  PROVE  /\ Gentle(b, r, Dropped(b, r, p))
         /\ \A x \in HalfDropped(b, r, p) : Gentle(b, r, x)
<1> USE DEF FwType, LetsIn, Shelters, Gentle, Backends
<1>1. CASE b = "ufw"
      BY <1>1 DEF Dropped, HalfDropped
<1>2. CASE b = "firewalld"
      BY <1>2 DEF Dropped, HalfDropped
<1>3. CASE b = "nftables"
      BY <1>3 DEF Dropped, HalfDropped, Persisted
<1> QED BY <1>1, <1>2, <1>3

LEMMA UndumpedGood ==
  ASSUME NEW r \in FwType, NEW was \in FwType, NEW x \in Undumped(r, was), LetsIn("nftables", was)
  PROVE  Gentle("nftables", r, x) /\ x.rules = r.rules
BY DEF Undumped, FwType, LetsIn, Shelters, Gentle

LEMMA ReadiedGood ==
  ASSUME NEW b \in Backends, NEW r \in FwType, LetsIn(b, r)
  PROVE  /\ LetsIn(b, Readied(b, r)) /\ Shelters(b, Readied(b, r)) /\ Readied(b, r).on
         /\ \A x \in HalfReadied(b, r) : LetsIn(b, x) /\ (r.on => x.on)
<1> USE DEF FwType, LetsIn, Shelters, Gentle, Backends
<1>1. CASE b = "ufw"
      BY <1>1 DEF Readied, HalfReadied, SshSaved
<1>2. CASE b = "firewalld"
      BY <1>2 DEF Readied, HalfReadied, SshSaved
<1>3. CASE b = "nftables" /\ ~r.have
  <2>1. Readied(b, r) = NewTable(r, TRUE) /\ HalfReadied(b, r) = {NewTable(r, FALSE), NewTable(r, TRUE)}
        BY <1>3 DEF Readied, HalfReadied
  <2>2. ASSUME NEW named \in BOOLEAN
        PROVE  /\ NewTable(r, named).on /\ NewTable(r, named).rules = {Ssh}
               /\ NewTable(r, named).saved = r.saved /\ NewTable(r, named).file = r.file
        BY DEF NewTable
  <2> QED BY <1>3, <2>1, <2>2
<1>4. CASE b = "nftables" /\ r.have
  <2>1. Opened(b, r, Ssh) \in FwType /\ Gentle(b, r, Opened(b, r, Ssh)) /\ Ssh \in Opened(b, r, Ssh).rules
        BY SshIsPort, OpenedType, OpenedGood
  <2>2. \A x \in HalfOpened(b, r, Ssh) : Gentle(b, r, x)
        BY SshIsPort, OpenedGood
  <2>3. Readied(b, r) = [Opened(b, r, Ssh) EXCEPT !.on = TRUE]
        BY <1>4 DEF Readied
  <2>4. HalfReadied(b, r) = {Opened(b, r, Ssh)} \cup HalfOpened(b, r, Ssh)
        BY <1>4 DEF HalfReadied
  <2> QED BY <1>4, <2>1, <2>2, <2>3, <2>4
<1> QED BY <1>1, <1>2, <1>3, <1>4

LEMMA EnabledGood ==
  ASSUME NEW b \in Backends, NEW r \in FwType, LetsIn(b, r), r.have
  PROVE  /\ LetsIn(b, Enabled(b, r))
         /\ (b = "firewalld" => Ssh \in r.saved) => \A x \in HalfEnabled(b, r) : LetsIn(b, x)
<1> DEFINE o == Opened(b, r, Ssh)
<1>0. o \in FwType /\ Gentle(b, r, o) /\ Ssh \in o.rules
      BY SshIsPort, OpenedType, OpenedGood
<1> HIDE DEF o
<1> USE DEF FwType, LetsIn, Shelters, Gentle, Backends
<1>1. CASE b = "ufw"
      BY <1>1 DEF Enabled, HalfEnabled, Opened
<1>2. CASE b = "firewalld"
  <2> DEFINE s == [r EXCEPT !.on = TRUE, !.rules = r.saved]
  <2>1. s \in FwType /\ s.on /\ s.have /\ s.rules = r.saved /\ s.saved = r.saved /\ ~s.named
        BY <1>2
  <2> HIDE DEF s
  <2>2. /\ Opened(b, s, Ssh).on /\ Opened(b, s, Ssh).have
        /\ Ssh \in Opened(b, s, Ssh).rules /\ Ssh \in Opened(b, s, Ssh).saved
        /\ ~Opened(b, s, Ssh).named
        BY <1>2, <2>1, SshIsPort DEF Opened
  <2>3. HalfOpened(b, s, Ssh) = {[s EXCEPT !.saved = @ \cup {Ssh}]}
        BY <1>2 DEF HalfOpened
  <2>4. Enabled(b, r) = [Opened(b, s, Ssh) EXCEPT !.boot = TRUE]
        BY <1>2 DEF Enabled, s
  <2>5. HalfEnabled(b, r) = {s, Opened(b, s, Ssh)} \cup HalfOpened(b, s, Ssh)
        BY <1>2 DEF HalfEnabled, s
  <2>6. Opened(b, s, Ssh) \in FwType
        BY <2>1, SshIsPort, OpenedType
  <2>7. LetsIn(b, Enabled(b, r))
        BY <1>2, <2>2, <2>4, <2>6
  <2>8. ASSUME Ssh \in r.saved PROVE \A x \in HalfEnabled(b, r) : LetsIn(b, x)
        BY <1>2, <2>1, <2>2, <2>3, <2>5, <2>8
  <2> QED BY <1>2, <2>7, <2>8
<1>3. CASE b = "nftables"
  <2>2. Enabled(b, r) = Persisted([o EXCEPT !.on = TRUE], TRUE)
        BY <1>3 DEF Enabled, o
  <2>3. HalfEnabled(b, r) = {o, [o EXCEPT !.on = TRUE]}
        BY <1>3 DEF HalfEnabled, o
  <2>4. LetsIn(b, [o EXCEPT !.on = TRUE]) /\ LetsIn(b, o)
        BY <1>0, <1>3
  <2>5. LetsIn(b, Persisted([o EXCEPT !.on = TRUE], TRUE))
        BY <1>0, <1>3, <2>4 DEF Persisted
  <2> QED BY <2>2, <2>3, <2>4, <2>5
<1> QED BY <1>1, <1>2, <1>3

LEMMA DisabledGood ==
  ASSUME NEW b \in Backends, NEW r \in FwType, LetsIn(b, r), NEW x \in HalfDisabled(b, r) \cup {Disabled(b, r)}
  PROVE  LetsIn(b, x) /\ (Shelters(b, r) => Shelters(b, x)) /\ x.have = r.have
<1> USE DEF FwType, LetsIn, Shelters, Backends
<1>1. CASE b = "ufw"
      BY <1>1 DEF Disabled, HalfDisabled
<1>2. CASE b = "firewalld"
      BY <1>2 DEF Disabled, HalfDisabled
<1>3. CASE b = "nftables"
  <2> DEFINE q == [r EXCEPT !.on = FALSE]
  <2>1. q \in FwType /\ ~q.on /\ q.rules = r.rules /\ q.saved = r.saved /\ q.have = r.have /\ q.file = r.file
        OBVIOUS
  <2>2. x \in {q, Persisted(q, TRUE)}
        BY <1>3 DEF Disabled, HalfDisabled
  <2> HIDE DEF q
  <2>3. LetsIn(b, q) /\ (Shelters(b, r) => Shelters(b, q))
        BY <1>3, <2>1
  <2>4. /\ Persisted(q, TRUE).on = q.on /\ Persisted(q, TRUE).rules = q.rules
        /\ Persisted(q, TRUE).have = q.have
        /\ Persisted(q, TRUE).file = "on" => Persisted(q, TRUE).saved = r.saved /\ r.file = "on"
        BY <2>1 DEF Persisted
  <2> QED BY <1>3, <2>1, <2>2, <2>3, <2>4
<1> QED BY <1>1, <1>2, <1>3

LEMMA RestoredGood ==
  ASSUME NEW b \in Backends, NEW r \in FwType, NEW was \in FwType, LetsIn(b, r), Shelters(b, r), r.have,
         NEW x \in HalfRestored(b, r, was) \cup {Restored(b, r, was)}
  PROVE  LetsIn(b, x) /\ Shelters(b, x) /\ x.have /\ (r.on /\ was.on => x.on)
BY DEF FwType, LetsIn, Shelters, Backends, Restored, HalfRestored, Persisted

LEMMA UnprovisionedGood ==
  ASSUME NEW r \in FwType, LetsIn("nftables", r),
         NEW x \in HalfUnprovisioned(r) \cup Unnoticed(r) \cup {Unprovisioned(r)}
  PROVE  LetsIn("nftables", x)
<1> DEFINE u == Unprovisioned(r)
<1>1. u.have = FALSE /\ u.on = FALSE /\ u.file = "none" /\ u \in FwType
      BY UnprovisionedType DEF Unprovisioned, FwType
<1> HIDE DEF u
<1>2. CASE x = u
      BY <1>1, <1>2 DEF LetsIn
<1>3. CASE x = [r EXCEPT !.have = FALSE, !.on = FALSE, !.rules = {}]
      BY <1>3 DEF LetsIn, FwType
<1>4. CASE x = [u EXCEPT !.have = r.have, !.on = r.on, !.rules = r.rules]
      BY <1>1, <1>4 DEF LetsIn, FwType
<1>5. CASE x = [u EXCEPT !.file = r.file, !.saved = r.saved]
      BY <1>1, <1>5 DEF LetsIn, FwType
<1>6. CASE x \in {[u EXCEPT !.boot = r.boot], [u EXCEPT !.named = r.named]}
      BY <1>1, <1>6 DEF LetsIn, FwType
<1> QED BY <1>2, <1>3, <1>4, <1>5, <1>6 DEF HalfUnprovisioned, Unnoticed, u

LEMMA BootedGood ==
  ASSUME NEW b \in Backends, NEW r \in FwType, LetsIn(b, r)
  PROVE  LetsIn(b, Booted(b, r))
BY DEF FwType, LetsIn, Booted

-----------------------------------------------------------------------------
(* The panel is not locked out.                                             *)

\* A step of the switch or the migration that is under way.
Busy == ssh /\ op.pc \notin AtRest

\* Every backend lets the panel in; the source does, however it is switched
\* off and on; so does a target that was active before, and its rule for the
\* SSH port is not one to be cleaned away.
SafeInv ==
  /\ \A b \in Backends : LetsIn(b, fw[b])
  /\ Busy /\ src # NoFw => Shelters(src, fw[src]) /\ fw[src].have
  /\ Busy /\ op.wason => Shelters(dst, fw[dst]) /\ Ssh \notin op.added

LEMMA SafeInit == Init => SafeInv /\ Configured(fw["firewalld"])
BY ServerAssumption DEF Init, SafeInv, Busy

LEMMA SafeAdmits == SafeInv => SshStaysOpen
BY DEF SafeInv, LetsIn, SshStaysOpen, Admits

\* A call that leaves a backend as it was or worse in one of its results.
LEMMA OutcomesLetIn ==
  ASSUME FwOK, NEW b \in Backends, NEW done \in FwType, NEW half \in SUBSET FwType,
         LetsIn(b, fw[b]), \A x \in {done} \cup half : LetsIn(b, x)
  PROVE  \A x \in Outcomes(b, done, half) : LetsIn(b, x)
<1>1. fw[b] \in FwType
      BY DEF FwOK
<1>2. ASSUME b = "nftables", NEW x \in Undumped(done, fw[b]) PROVE LetsIn(b, x)
      BY <1>1, <1>2, UndumpedGood DEF Gentle
<1> QED BY <1>2 DEF Outcomes

LEMMA OutcomesGentle ==
  ASSUME FwOK, NEW b \in Backends, NEW done \in FwType, NEW half \in SUBSET FwType,
         LetsIn(b, fw[b]), \A x \in {done} \cup half : Gentle(b, fw[b], x)
  PROVE  \A x \in Outcomes(b, done, half) : Gentle(b, fw[b], x)
<1>1. fw[b] \in FwType
      BY DEF FwOK
<1>2. ASSUME b = "nftables", NEW x \in Undumped(done, fw[b]) PROVE Gentle(b, fw[b], x)
      BY <1>1, <1>2, UndumpedGood DEF Gentle
<1> QED BY <1>2 DEF Outcomes, Gentle

LEMMA OutcomesShelter ==
  ASSUME FwOK, NEW b \in Backends, NEW done \in FwType, NEW half \in SUBSET FwType,
         LetsIn(b, fw[b]), Shelters(b, fw[b]), \A x \in {done} \cup half : Shelters(b, x)
  PROVE  \A x \in Outcomes(b, done, half) : Shelters(b, x)
<1>1. fw[b] \in FwType
      BY DEF FwOK
<1>2. ASSUME b = "nftables", NEW x \in Undumped(done, fw[b]) PROVE Shelters(b, x)
      BY <1>1, <1>2, UndumpedGood DEF Gentle
<1> QED BY <1>2 DEF Outcomes

LEMMA OutcomesThere ==
  ASSUME FwOK, NEW b \in Backends, NEW done \in FwType, NEW half \in SUBSET FwType,
         fw[b].have, \A x \in {done} \cup half : x.have
  PROVE  \A x \in Outcomes(b, done, half) : x.have
<1>1. ASSUME NEW x \in Undumped(done, fw[b]) PROVE x.have
      BY <1>1 DEF Undumped, FwType
<1> QED BY <1>1 DEF Outcomes

\* A call to the target that is gentle with it, and one to the source.
LEMMA TargetHit ==
  ASSUME FwOK, OpOK(op), SafeInv, NEW X, Hits(dst, X),
         \A x \in X : LetsIn(dst, x) /\ (Shelters(dst, fw[dst]) => Shelters(dst, x))
  PROVE  /\ \A b \in Backends : LetsIn(b, fw'[b])
         /\ src \in Backends => fw'[src] = fw[src]
         /\ Shelters(dst, fw[dst]) => Shelters(dst, fw'[dst])
BY PartyFields DEF FwOK, OpOK, SafeInv, Hits, Set, src, dst

LEMMA SourceHit ==
  ASSUME FwOK, OpOK(op), SafeInv, src \in Backends, NEW X, Hits(src, X),
         \A x \in X : LetsIn(src, x) /\ Shelters(src, x) /\ x.have,
         Shelters(src, fw[src]) /\ fw[src].have
  PROVE  /\ \A b \in Backends : LetsIn(b, fw'[b])
         /\ fw'[dst] = fw[dst]
         /\ Shelters(src, fw'[src]) /\ fw'[src].have
BY PartyFields DEF FwOK, OpOK, SafeInv, Hits, Set, src, dst

\* What the calls of the requests under way leave.
LEMMA ServedSafe ==
  ASSUME ActInv, SafeInv, Served
  PROVE  /\ \A b \in Backends : LetsIn(b, fw'[b])
         /\ Busy /\ src # NoFw => Shelters(src, fw'[src]) /\ fw'[src].have
         /\ Busy /\ op.wason => Shelters(dst, fw'[dst])
<1> USE DEF ActInv
<1>1. /\ dst \in Backends /\ fw[dst] \in FwType /\ op.was \in FwType /\ src # dst
      /\ src # NoFw => src \in Backends /\ fw[src] \in FwType /\ LetsIn(src, fw[src])
      /\ LetsIn(dst, fw[dst])
      BY PartyFields, OpFields DEF OpOK, src, dst, FwOK, SafeInv
<1>2. ASSUME NEW X, Hits(dst, X),
             \A x \in X : LetsIn(dst, x) /\ (Shelters(dst, fw[dst]) => Shelters(dst, x))
      PROVE  /\ \A b \in Backends : LetsIn(b, fw'[b])
             /\ Busy /\ src # NoFw => Shelters(src, fw'[src]) /\ fw'[src].have
             /\ Busy /\ op.wason => Shelters(dst, fw'[dst])
      BY <1>1, <1>2, TargetHit DEF SafeInv
<1>3. CASE Readies
  <2> DEFINE X == Outcomes(dst, Readied(dst, fw[dst]), HalfReadied(dst, fw[dst]))
  <2>1. \A x \in X : LetsIn(dst, x)
        BY <1>1, ReadiedGood, ReadiedType, OutcomesLetIn
  <2>2. Hits(dst, X) /\ ~op.wason
        BY <1>3 DEF Readies, OpOK, WasonPcs, AtRest, MoreSteps
  <2> HIDE DEF X
  <2>3. /\ \A b \in Backends : LetsIn(b, fw'[b])
        /\ src \in Backends => fw'[src] = fw[src]
        BY <1>1, <2>1, <2>2 DEF FwOK, SafeInv, Hits, Set
  <2> QED BY <1>1, <2>2, <2>3 DEF SafeInv
<1>4. CASE Opens
  <2>1. PICK p \in Ports : Hits(dst, Outcomes(dst, Opened(dst, fw[dst], p), HalfOpened(dst, fw[dst], p)))
        BY <1>4 DEF Opens
  <2>2. \A x \in Outcomes(dst, Opened(dst, fw[dst], p), HalfOpened(dst, fw[dst], p)) : Gentle(dst, fw[dst], x)
        BY <1>1, OpenedType, OpenedGood, OutcomesGentle
  <2> QED BY <1>1, <1>2, <2>1, <2>2 DEF Gentle
<1>5. CASE Drops
  <2>1. PICK p \in Ports :
          /\ p = Ssh => op.wason /\ Ssh \in op.added
          /\ Hits(dst, Outcomes(dst, Dropped(dst, fw[dst], p), HalfDropped(dst, fw[dst], p)))
        BY <1>5 DEF Drops
  <2>2. CASE p = Ssh
    <3>1. ~ssh
          BY <1>5, <2>1, <2>2 DEF SafeInv, Busy, Drops, AtRest
    <3> QED BY <2>1, <3>1 DEF Hits, SafeInv
  <2>3. CASE p # Ssh
    <3>1. \A x \in Outcomes(dst, Dropped(dst, fw[dst], p), HalfDropped(dst, fw[dst], p)) : Gentle(dst, fw[dst], x)
          BY <1>1, <2>3, DroppedType, DroppedGood, OutcomesGentle
    <3> QED BY <1>1, <1>2, <2>1, <3>1 DEF Gentle
  <2> QED BY <2>2, <2>3
<1>6. ASSUME SourceDown \/ SourceUp, ssh
      PROVE  /\ src \in Backends /\ fw[src] \in FwType /\ LetsIn(src, fw[src])
             /\ Shelters(src, fw[src]) /\ fw[src].have
      BY <1>1, <1>6 DEF SourceDown, SourceUp, OpOK, Sourced, SafeInv, Busy, AtRest, src
<1>7. ASSUME SourceDown \/ SourceUp, ~ssh
      PROVE  UNCHANGED fw
      BY <1>7 DEF SourceDown, SourceUp, Hits
<1>8. CASE SourceDown /\ ssh
  <2> DEFINE X == Outcomes(src, Disabled(src, fw[src]), HalfDisabled(src, fw[src]))
  <2>1. \A x \in {Disabled(src, fw[src])} \cup HalfDisabled(src, fw[src]) :
          LetsIn(src, x) /\ Shelters(src, x) /\ x.have
        BY <1>1, <1>6, <1>8, DisabledGood
  <2>2. \A x \in X : LetsIn(src, x) /\ Shelters(src, x)
        BY <1>1, <1>6, <1>8, <2>1, DisabledType, OutcomesLetIn, OutcomesShelter
  <2>3. \A x \in X : x.have
        BY <1>6, <1>8, <2>1, DisabledType, OutcomesThere
  <2>4. Hits(src, X)
        BY <1>8 DEF SourceDown
  <2> HIDE DEF X
  <2> QED BY <1>1, <1>6, <1>8, <2>2, <2>3, <2>4, SourceHit DEF SafeInv
<1>9. CASE SourceUp /\ ssh
  <2> DEFINE X == Outcomes(src, Restored(src, fw[src], op.was), HalfRestored(src, fw[src], op.was))
  <2>1. \A x \in {Restored(src, fw[src], op.was)} \cup HalfRestored(src, fw[src], op.was) :
          LetsIn(src, x) /\ Shelters(src, x) /\ x.have
        BY <1>1, <1>6, <1>9, RestoredGood
  <2>2. \A x \in X : LetsIn(src, x) /\ Shelters(src, x)
        BY <1>1, <1>6, <1>9, <2>1, RestoredType, OutcomesLetIn, OutcomesShelter
  <2>3. \A x \in X : x.have
        BY <1>1, <1>6, <1>9, <2>1, RestoredType, OutcomesThere
  <2>4. Hits(src, X)
        BY <1>9 DEF SourceUp
  <2> HIDE DEF X
  <2> QED BY <1>1, <1>6, <1>9, <2>2, <2>3, <2>4, SourceHit DEF SafeInv
<1>10. CASE Saves
  <2> DEFINE X == {Persisted(fw[dst], TRUE), Persisted(fw[dst], FALSE), fw[dst]}
  <2>1. ASSUME NEW sync \in BOOLEAN
        PROVE  LetsIn(dst, Persisted(fw[dst], sync))
                 /\ (Shelters(dst, fw[dst]) => Shelters(dst, Persisted(fw[dst], sync)))
        BY <1>1 DEF LetsIn, Shelters, Persisted, FwType, Backends
  <2>2. \A x \in X : LetsIn(dst, x) /\ (Shelters(dst, fw[dst]) => Shelters(dst, x))
        BY <1>1, <2>1
  <2>3. Hits(dst, X)
        BY <1>10 DEF Saves
  <2> HIDE DEF X
  <2> QED BY <1>2, <2>2, <2>3
<1>11. ASSUME ~op.wason, NEW X, Hits(dst, X), \A x \in X : LetsIn(dst, x)
       PROVE  /\ \A b \in Backends : LetsIn(b, fw'[b])
              /\ Busy /\ src # NoFw => Shelters(src, fw'[src]) /\ fw'[src].have
              /\ Busy /\ op.wason => Shelters(dst, fw'[dst])
  <2>1. /\ \A b \in Backends : LetsIn(b, fw'[b])
        /\ src \in Backends => fw'[src] = fw[src]
        BY <1>1, <1>11 DEF FwOK, SafeInv, Hits, Set
  <2> QED BY <1>1, <1>11, <2>1 DEF SafeInv
<1>12. CASE Unmakes
  <2> DEFINE X == {Unprovisioned(fw[dst]), fw[dst]} \cup Unnoticed(fw[dst]) \cup HalfUnprovisioned(fw[dst])
  <2>1. dst = "nftables" /\ ~op.wason /\ Hits(dst, X)
        BY <1>12 DEF Unmakes, OpOK, dst
  <2>2. \A x \in X : LetsIn(dst, x)
        BY <1>1, <2>1, UnprovisionedGood
  <2> HIDE DEF X
  <2> QED BY <1>11, <2>1, <2>2
<1>13. \A x \in Outcomes(dst, Disabled(dst, fw[dst]), HalfDisabled(dst, fw[dst])) : LetsIn(dst, x)
       BY <1>1, DisabledGood, DisabledType, OutcomesLetIn
<1>14. CASE TargetDown
       BY <1>11, <1>13, <1>14 DEF TargetDown
<1>15. CASE Removal
  <2>1. ~op.wason
        BY <1>15 DEF Removal, Removing, OpOK, WasonPcs, AtRest
  <2>2. LetsIn(dst, Gone)
        BY <1>1 DEF Gone, LetsIn, FwType
  <2>3. CASE Hits(dst, {Gone, fw[dst]})
    <3>1. \A x \in {Gone, fw[dst]} : LetsIn(dst, x)
          BY <1>1, <2>2
    <3> QED BY <1>11, <2>1, <2>3, <3>1
  <2>4. CASE Hits(dst, Outcomes(dst, Disabled(dst, fw[dst]), HalfDisabled(dst, fw[dst])))
        BY <1>11, <1>13, <2>1, <2>4
  <2> QED BY <1>15, <2>3, <2>4 DEF Removal
<1>16. CASE UNCHANGED fw
       BY <1>16 DEF SafeInv
<1> QED BY <1>3, <1>4, <1>5, <1>7, <1>8, <1>9, <1>10, <1>12, <1>14, <1>15, <1>16 DEF Served

\* A step of a request under way that is none of the scans.
LEMMA KinSafe ==
  ASSUME ActInv, SafeInv, Served, OpOK(op'), Kin(op, op'), UNCHANGED ssh
  PROVE  SafeInv'
<1>1. /\ \A b \in Backends : LetsIn(b, fw'[b])
      /\ Busy /\ src # NoFw => Shelters(src, fw'[src]) /\ fw'[src].have
      /\ Busy /\ op.wason => Shelters(dst, fw'[dst])
      BY ServedSafe
<1>2. op.pc \notin AtRest /\ src' = src /\ dst' = dst /\ op'.wason = op.wason
      BY DEF Kin, src, dst
<1>3. Busy /\ op.wason => Ssh \notin op'.added
      BY DEF SafeInv, Shelters, Kin, dst
<1> QED BY <1>1, <1>2, <1>3 DEF SafeInv, Busy

\* The first scan finds source and target filtering.
LEMMA ScanSafe ==
  ASSUME ActInv, SafeInv, Scan \/ MScan
  PROVE  SafeInv'
<1>1. UNCHANGED <<fw, ssh>> /\ OpOK(op') /\ Found(op, op')
      BY ScansOn
<1>2. op.pc \in {"scan", "m_scan"} /\ ~op.wason /\ (op.pc = "m_scan" => op.added = {})
      BY DEF Scan, MScan, At, ActInv, OpOK, WasonPcs, AtRest, MoreSteps
<1>3. ASSUME Busy', src' # NoFw
      PROVE  Shelters(src', fw[src']) /\ fw[src'].have
  <2>1. CASE op'.pc \in {"inventory", "m_inventory"}
    <3>1. Filters(src')
          BY <1>1, <2>1 DEF Found, src
    <3> QED BY <3>1 DEF Filters, SafeInv, LetsIn, Shelters
  <2>2. CASE op'.pc \notin {"inventory", "m_inventory"}
    <3>1. src' = src /\ Busy
          BY <1>1, <1>3, <2>2 DEF Found, src, Busy, Scan, MScan, At, AtRest
    <3> QED BY <1>3, <3>1 DEF SafeInv
  <2> QED BY <2>1, <2>2
<1>4. ASSUME Busy', op'.wason
      PROVE  Shelters(dst', fw[dst']) /\ Ssh \notin op'.added
  <2>1. op.pc = "m_scan"
        BY <1>1, <1>2, <1>4 DEF Found
  <2>2. Filters(dst') /\ Ssh \notin op'.added
        BY <1>1, <1>2, <1>4, <2>1 DEF Found, dst
  <2> QED BY <2>2 DEF Filters, SafeInv, LetsIn, Shelters
<1> QED BY <1>1, <1>3, <1>4 DEF SafeInv

LEMMA StartSafe ==
  ASSUME ActInv, SafeInv,
         \/ Decide \/ MDecide
         \/ \E b \in Backends : Request(b) \/ \E k \in MoreKinds : RequestMore(b, k)
  PROVE  SafeInv'
<1>1. UNCHANGED fw /\ (Go("stopped") \/ Fresh(op'))
      BY StartsOn
<1>2. CASE Go("stopped")
  <2>1. op'.pc = "stopped"
        BY <1>2 DEF Go, ActInv, OpOK, OpType
  <2> QED BY <1>1, <2>1 DEF SafeInv, Busy, AtRest
<1>3. CASE Fresh(op')
      BY <1>1, <1>3 DEF SafeInv, Fresh, src
<1> QED BY <1>1, <1>2, <1>3

\* A call that fails half-way is the only one that may leave firewalld without
\* the SSH port: at its start, when it was not set up for it.
LEMMA OneCallSafe ==
  ASSUME ActInv, SafeInv, NEW b \in Backends, Disable(b) \/ Enable(b),
         faults' = faults \/ Configured(fw["firewalld"])
  PROVE  SafeInv'
<1>1. fw[b] \in FwType /\ LetsIn(b, fw[b])
      BY DEF ActInv, FwOK, SafeInv
<1>2. Fresh(op')
      BY OneCallOn
<1>3. PICK x : Set(b, x) /\ LetsIn(b, x)
  <2>1. CASE Disable(b)
    <3>1. PICK x \in HalfDisabled(b, fw[b]) \cup {Disabled(b, fw[b])} : Set(b, x)
          BY <2>1 DEF Disable, OneCall
    <3> QED BY <1>1, <3>1, DisabledGood
  <2>2. CASE Enable(b)
    <3>1. fw[b].have /\ b \in Backends
          BY <2>2, SeenFacts DEF Enable, OneCall, ActInv
    <3>2. CASE Set(b, Enabled(b, fw[b]))
          BY <1>1, <3>1, <3>2, EnabledGood
    <3>3. ASSUME NEW x \in HalfEnabled(b, fw[b]), Set(b, x), faults' = faults + 1
          PROVE  LetsIn(b, x)
      <4>1. b = "firewalld" => Ssh \in fw[b].saved
            BY <3>1, <3>3, SwitchAssumption DEF ActInv, BoundsOK, Configured
      <4> QED BY <1>1, <3>1, <3>3, <4>1, EnabledGood
    <3> QED BY <2>2, <3>2, <3>3 DEF Enable, OneCall, Upset, OneMore
  <2> QED BY <2>1, <2>2
<1>4. \A c \in Backends : LetsIn(c, fw'[c])
      BY <1>3 DEF Set, ActInv, FwOK, SafeInv
<1> QED BY <1>2, <1>4 DEF SafeInv, Fresh, src

LEMMA EditSafe ==
  ASSUME ActInv, SafeInv, NEW p \in Ports, Edit(p)
  PROVE  SafeInv'
<1>1. PICK b \in Backends : Edited(b, p)
      BY EditOn
<1>2. fw[b] \in FwType /\ UNCHANGED <<op, ssh>>
      BY EditOn DEF ActInv, FwOK
<1>3. PICK x : Set(b, x) /\ Gentle(b, fw[b], x)
      BY <1>1, <1>2, OpenedGood, DroppedGood DEF Edited
<1>4. \A c \in Backends : Gentle(c, fw[c], fw'[c])
      BY <1>3 DEF Set, ActInv, FwOK, Gentle
<1>5. dst \in Backends /\ (src # NoFw => src \in Backends)
      BY PartyFields DEF ActInv, Reconcile
<1> QED BY <1>2, <1>4, <1>5 DEF SafeInv, Gentle, Busy, src, dst

LEMMA SafeStep ==
  ASSUME ActInv, SafeInv, [NextMore]_vars, faults' = faults \/ Configured(fw["firewalld"])
  PROVE  SafeInv'
<1>1. CASE UNCHANGED vars
  <2>1. UNCHANGED <<fw, op, ssh>>
        BY <1>1 DEF vars
  <2> QED BY <2>1 DEF SafeInv, Busy, src, dst
<1>2. CASE Prepares \/ Finishes \/ MPrepares \/ MUndoes \/ Removes
      BY <1>2, PreparesOK, FinishesOK, MPreparesOK, MUndoesOK, RemovesOK, KinSafe DEF ActInv
<1>3. CASE Confirm \/ MConfirm \/ SourceOff \/ MSourceOff \/ ProveSource \/ MSafe
      BY <1>3, TurnsKin, KinSafe
<1>4. CASE Scan \/ MScan
      BY <1>4, ScanSafe
<1>5. CASE \/ Decide \/ MDecide
           \/ \E b \in Backends : Request(b) \/ \E k \in MoreKinds : RequestMore(b, k)
      BY <1>5, StartSafe
<1>6. CASE \E b \in Backends : Disable(b) \/ Enable(b)
      BY <1>6, OneCallSafe
<1>7. CASE \E p \in Ports : Edit(p)
      BY <1>7, EditSafe
<1>8. CASE Reboot
      BY <1>8, BootedGood DEF Reboot, SafeInv, Busy, ActInv, FwOK
<1> QED BY <1>1, <1>2, <1>3, <1>4, <1>5, <1>6, <1>7, <1>8, StepsOf

\* firewalld stays set up for the SSH port by whatever is done to it ...
LEMMA StaysConfigured ==
  ASSUME NEW r \in FwType, LetsIn("firewalld", r), Configured(r)
  PROVE  LET b == "firewalld" IN
         /\ Configured(Readied(b, r)) /\ Configured(Persisted(r, TRUE)) /\ Configured(Persisted(r, FALSE))
         /\ \A p \in Ports : \A x \in {Opened(b, r, p)} \cup HalfOpened(b, r, p) : Configured(x)
         /\ \A p \in Ports \ {Ssh} : \A x \in {Dropped(b, r, p)} \cup HalfDropped(b, r, p) : Configured(x)
         /\ \A x \in {Disabled(b, r)} \cup HalfDisabled(b, r) : Configured(x)
         /\ \A was \in FwType : \A x \in {Restored(b, r, was)} \cup HalfRestored(b, r, was) : Configured(x)
         /\ r.have => \A x \in {Enabled(b, r)} \cup HalfEnabled(b, r) : Configured(x)
         /\ Configured(Booted(b, r)) /\ Configured([r EXCEPT !.have = FALSE, !.boot = FALSE, !.on = FALSE])
<1> DEFINE b == "firewalld"
<1> USE DEF Configured, FwType
<1>1. Configured(Readied(b, r))
      BY DEF Readied, SshSaved
<1>2. Configured(Persisted(r, TRUE)) /\ Configured(Persisted(r, FALSE))
      BY DEF Persisted, LetsIn
<1>3. \A p \in Ports : \A x \in {Opened(b, r, p)} \cup HalfOpened(b, r, p) : Configured(x)
      BY DEF Opened, HalfOpened
<1>4. \A p \in Ports \ {Ssh} : \A x \in {Dropped(b, r, p)} \cup HalfDropped(b, r, p) : Configured(x)
      BY DEF Dropped, HalfDropped
<1>5. \A x \in {Disabled(b, r)} \cup HalfDisabled(b, r) : Configured(x)
      BY DEF Disabled, HalfDisabled
<1>6. \A was \in FwType : \A x \in {Restored(b, r, was)} \cup HalfRestored(b, r, was) : Configured(x)
      BY DEF Restored, HalfRestored
<1>7. ASSUME r.have PROVE \A x \in {Enabled(b, r)} \cup HalfEnabled(b, r) : Configured(x)
  <2> DEFINE s == [r EXCEPT !.on = TRUE, !.rules = r.saved]
  <2>1. Ssh \in s.saved /\ s \in FwType
        BY <1>7
  <2> HIDE DEF s
  <2>2. Ssh \in Opened(b, s, Ssh).saved /\ \A x \in HalfOpened(b, s, Ssh) : Ssh \in x.saved
        BY <2>1, SshIsPort DEF Opened, HalfOpened
  <2>3. Opened(b, s, Ssh) \in FwType
        BY <2>1, SshIsPort, OpenedType DEF Backends
  <2>4. Enabled(b, r) = [Opened(b, s, Ssh) EXCEPT !.boot = TRUE]
        BY DEF Enabled, s
  <2>5. HalfEnabled(b, r) = {s, Opened(b, s, Ssh)} \cup HalfOpened(b, s, Ssh)
        BY DEF HalfEnabled, s
  <2> QED BY <2>1, <2>2, <2>3, <2>4, <2>5
<1>8. Configured(Booted(b, r)) /\ Configured([r EXCEPT !.have = FALSE, !.boot = FALSE, !.on = FALSE])
      BY DEF Booted
<1> QED BY <1>1, <1>2, <1>3, <1>4, <1>5, <1>6, <1>7, <1>8

\* ... but for an installation that fails half-way.
LEMMA ConfiguredStep ==
  ASSUME ActInv, SafeInv, Configured(fw["firewalld"]), [NextMore]_vars, faults' = faults
  PROVE  Configured(fw'["firewalld"])
<1> USE DEF ActInv
<1> DEFINE r == fw["firewalld"]
<1>1. r \in FwType /\ LetsIn("firewalld", r) /\ "firewalld" \in Backends
      BY DEF FwOK, SafeInv, Backends
<1>2. ASSUME NEW b, NEW X, Hits(b, X), b = "firewalld" => \A x \in X : Configured(x)
      PROVE  Configured(fw'["firewalld"])
      BY <1>1, <1>2 DEF Hits, Set, FwOK
<1>3. CASE Readies
  <2>1. Hits(dst, {Readied(dst, fw[dst])})
        BY <1>3 DEF Readies, Hits
  <2> QED BY <1>1, <1>2, <2>1, StaysConfigured
<1>4. ASSUME NEW b, NEW done, NEW half, Hits(b, Outcomes(b, done, half)),
             b = "firewalld" => \A x \in {done} \cup half : Configured(x)
      PROVE  Configured(fw'["firewalld"])
  <2>1. b = "firewalld" => \A x \in Outcomes(b, done, half) : Configured(x)
        BY <1>4 DEF Outcomes
  <2> QED BY <1>2, <1>4, <2>1
<1>5. CASE Opens
      BY <1>1, <1>4, <1>5, StaysConfigured DEF Opens
<1>6. CASE Drops
  <2>1. PICK p \in Ports :
          /\ p = Ssh => op.wason /\ Ssh \in op.added
          /\ Hits(dst, Outcomes(dst, Dropped(dst, fw[dst], p), HalfDropped(dst, fw[dst], p)))
        BY <1>6 DEF Drops
  <2>2. CASE p = Ssh
    <3>1. ~ssh
          BY <1>6, <2>1, <2>2 DEF SafeInv, Busy, Drops, AtRest
    <3> QED BY <2>1, <3>1 DEF Hits
  <2>3. CASE p # Ssh
        BY <1>1, <1>4, <2>1, <2>3, StaysConfigured
  <2> QED BY <2>2, <2>3
<1>7. CASE SourceDown
      BY <1>1, <1>4, <1>7, StaysConfigured DEF SourceDown
<1>8. CASE SourceUp
  <2>1. op.was \in FwType
        BY OpFields DEF OpOK
  <2> QED BY <1>1, <1>4, <1>8, <2>1, StaysConfigured DEF SourceUp
<1>9. CASE Saves
      BY <1>1, <1>2, <1>9, StaysConfigured DEF Saves
<1>10. CASE Unmakes
      BY <1>2, <1>10 DEF Unmakes, OpOK, dst
<1>11. CASE TargetDown
      BY <1>1, <1>4, <1>11, StaysConfigured DEF TargetDown
<1>12. CASE Removal
  <2>1. CASE Hits(dst, {Gone, fw[dst]})
        BY <1>1, <1>2, <2>1, StaysConfigured DEF Gone
  <2>2. CASE Hits(dst, Outcomes(dst, Disabled(dst, fw[dst]), HalfDisabled(dst, fw[dst])))
        BY <1>1, <1>4, <2>2, StaysConfigured
  <2> QED BY <1>12, <2>1, <2>2 DEF Removal
<1>13. CASE Served
      BY <1>3, <1>5, <1>6, <1>7, <1>8, <1>9, <1>10, <1>11, <1>12, <1>13 DEF Served
<1>14. CASE UNCHANGED vars
      BY <1>14 DEF vars
<1>15. CASE Prepares \/ Finishes \/ MPrepares \/ MUndoes \/ Removes
      BY <1>13, <1>15, PreparesOK, FinishesOK, MPreparesOK, MUndoesOK, RemovesOK
<1>16. CASE Confirm \/ MConfirm \/ SourceOff \/ MSourceOff \/ ProveSource \/ MSafe
      BY <1>13, <1>16, TurnsKin
<1>17. CASE Scan \/ MScan
      BY <1>17, ScansOn
<1>18. CASE \/ Decide \/ MDecide
           \/ \E b \in Backends : Request(b) \/ \E k \in MoreKinds : RequestMore(b, k)
      BY <1>18, StartsOn
<1>19. ASSUME NEW b \in Backends, Disable(b) \/ Enable(b)
       PROVE  Configured(fw'["firewalld"])
  <2>1. PICK x : /\ Set(b, x)
                 /\ \/ x \in {Disabled(b, fw[b])} \cup HalfDisabled(b, fw[b])
                    \/ fw[b].have /\ x \in {Enabled(b, fw[b])} \cup HalfEnabled(b, fw[b])
        BY <1>19, SeenFacts DEF Disable, Enable, OneCall
  <2>2. b = "firewalld" => Configured(x)
        BY <1>1, <2>1, StaysConfigured
  <2> QED BY <1>1, <2>1, <2>2 DEF Set, FwOK
<1>20. ASSUME NEW p \in Ports, Edit(p)
       PROVE  Configured(fw'["firewalld"])
  <2>1. PICK b \in Backends : Edited(b, p)
        BY <1>20, EditOn
  <2>2. PICK x : Set(b, x) /\ (b = "firewalld" => Configured(x))
        BY <1>1, <2>1, StaysConfigured DEF Edited
  <2> QED BY <1>1, <2>2 DEF Set, FwOK
<1>21. CASE Reboot
      BY <1>1, <1>21, StaysConfigured DEF Reboot
<1> QED BY <1>14, <1>15, <1>16, <1>17, <1>18, <1>19, <1>20, <1>21, StepsOf

LEMMA FaultsGrow ==
  ASSUME ActInv, [NextMore]_vars
  PROVE  faults' \in {faults, faults + 1}
<1>1. ASSUME Costs PROVE faults' \in {faults, faults + 1}
      BY <1>1 DEF Costs, Fine, Upset, OneMore, bounds
<1>2. CASE Prepares \/ Finishes \/ MPrepares \/ MUndoes \/ Removes
      BY <1>1, <1>2, PreparesOK, FinishesOK, MPreparesOK, MUndoesOK, RemovesOK DEF ActInv
<1>3. CASE Confirm \/ MConfirm \/ SourceOff \/ MSourceOff \/ ProveSource \/ MSafe
      BY <1>1, <1>3, TurnsKin
<1>4. CASE Scan \/ MScan
      BY <1>1, <1>4, ScansOn
<1>5. CASE \/ Decide \/ MDecide
           \/ \E b \in Backends : Request(b) \/ \E k \in MoreKinds : RequestMore(b, k)
      BY <1>5 DEF Decide, MDecide, Request, RequestMore, bounds
<1>6. CASE \E b \in Backends : Disable(b) \/ Enable(b)
      BY <1>1, <1>6 DEF Costs, Disable, Enable, OneCall
<1>7. CASE \E p \in Ports : Edit(p)
      BY <1>7 DEF Edit
<1>8. CASE Reboot
      BY <1>1, <1>8 DEF Costs, Reboot
<1>9. CASE UNCHANGED vars
      BY <1>9 DEF vars
<1> QED BY <1>2, <1>3, <1>4, <1>5, <1>6, <1>7, <1>8, <1>9, StepsOf

\* On a server that has one request at a time, one call that fails, one firewall
\* that is overlooked or one reboot, at any step and together with any number of
\* requests and of edits by others, does not lock the panel out; nor was
\* firewalld left without the SSH port before it.
THEOREM SshStays == SpecMore => [](faults <= 1 => SshStaysOpen)
<1> DEFINE Inv == /\ ActInv
                  /\ faults = 0 => Configured(fw["firewalld"])
                  /\ faults <= 1 => SafeInv
<1>1. Init => Inv
      BY ActInit, SafeInit DEF Init
<1>2. Inv /\ [NextMore]_vars => Inv'
  <2> SUFFICES ASSUME Inv, [NextMore]_vars PROVE Inv'
      OBVIOUS
  <2>1. ActInv' /\ faults \in Nat /\ faults' \in {faults, faults + 1}
        BY ActStep, FaultsGrow, SwitchAssumption DEF ActInv, BoundsOK
  <2>2. ASSUME faults' = 0 PROVE Configured(fw'["firewalld"])
        BY <2>1, <2>2, ConfiguredStep
  <2>3. ASSUME faults' <= 1 PROVE SafeInv'
        BY <2>1, <2>3, SafeStep
  <2> QED BY <2>1, <2>2, <2>3
<1>3. Inv => (faults <= 1 => SshStaysOpen)
      BY SafeAdmits
<1> QED BY <1>1, <1>2, <1>3, PTL DEF SpecMore

\* On a server that has one request at a time, any number of failures, overlooked
\* firewalls and reboots: the panel stays in as long as firewalld, where it is
\* installed, is set up for the SSH port.
THEOREM SshStaysConfigured ==
  SpecMore /\ [](Configured(fw["firewalld"])) => []SshStaysOpen
<1>1. Init => ActInv /\ SafeInv
      BY ActInit, SafeInit
<1>2. ActInv /\ SafeInv /\ Configured(fw["firewalld"]) /\ [NextMore]_vars => (ActInv /\ SafeInv)'
      BY ActStep, SafeStep
<1> QED BY <1>1, <1>2, SafeAdmits, PTL DEF SpecMore

-----------------------------------------------------------------------------
(* A switch carries out what the user decided on.                           *)

\* What a scan finds admits the SSH port; past the inventory the rules read at
\* it are those decided on; where the source is switched off it still has them.
DecInv ==
  /\ ssh /\ op.pc = "scan" => Admits(fw, Ssh)
  /\ ssh /\ op.pc = "inventory" => Ssh \in fw[src].rules
  /\ op.pc \in Deciding /\ src # NoFw => op.had \cup op.unclear = Decided(op)
  /\ ssh /\ op.pc = "off" => \A p \in Ports \ moved : p \in fw[src].rules <=> p \in op.had \cup op.unclear

\* A read of the rules that the user need not be asked about any more.
LEMMA InventoryDecides ==
  ASSUME ActInv, DecInv, Inventory
  PROVE  op'.pc \in Deciding => op'.had \cup op'.unclear = Decided(op')
<1> USE DEF ActInv
<1>1. op \in OpType /\ op.pc = "inventory" /\ src \in Backends
      BY PartyFields DEF OpOK, Inventory, At, Sourced, Reconcile, src
<1> DEFINE now == fw[src].rules
           got == [op EXCEPT !.had = now \ Ambiguous, !.unclear = now \cap Ambiguous]
<1>2. now \in SUBSET Ports
      BY <1>1, FwFields DEF FwOK
<1>3. /\ got \in OpType /\ got.had \cup got.unclear = now /\ got.asked = op.asked
      /\ got.accepted = op.accepted
  <2>1. got \in OpType
        BY <1>1, <1>2, Updates
  <2>2. /\ got.had = now \ Ambiguous /\ got.unclear = now \cap Ambiguous
        /\ got.asked = op.asked /\ got.accepted = op.accepted
        BY <1>1 DEF OpType
  <2> QED BY <2>1, <2>2
<1> HIDE DEF got
<1>4. CASE Go("stopped")
  <2>1. op'.pc = "stopped"
        BY <1>1, <1>4 DEF Go, OpType
  <2> QED BY <2>1 DEF Deciding
<1>5. CASE op' = [got EXCEPT !.pc = "prepare"] /\ op.accepted /\ SameFingerprint(now)
      BY <1>3, <1>5 DEF SameFingerprint, Decided, OpType
<1>6. CASE op' = [got EXCEPT !.pc = "asked", !.asked = now]
  <2>1. op'.pc = "asked"
        BY <1>3, <1>6 DEF OpType
  <2> QED BY <2>1 DEF Deciding
<1>7. CASE /\ op' = [got EXCEPT !.pc = "prepare", !.want = (now \ Ambiguous) \cup {Ssh}]
           /\ ~op.accepted /\ now \ {Ssh} = {} /\ ssh
  <2>1. Ssh \in now /\ Ssh \notin Ambiguous
        BY <1>1, <1>7, SwitchAssumption DEF DecInv
  <2>2. now = (now \ Ambiguous) \cup {Ssh}
        BY <1>7, <2>1
  <2>3. Decided(op') = (now \ Ambiguous) \cup {Ssh} /\ op'.had = got.had /\ op'.unclear = got.unclear
        BY <1>3, <1>7 DEF Decided, OpType
  <2> QED BY <1>3, <2>2, <2>3
<1>8. \/ Go("stopped")
      \/ op' = [got EXCEPT !.pc = "prepare"] /\ op.accepted /\ SameFingerprint(now)
      \/ op' = [got EXCEPT !.pc = "asked", !.asked = now]
      \/ /\ op' = [got EXCEPT !.pc = "prepare", !.want = (now \ Ambiguous) \cup {Ssh}]
         /\ ~op.accepted /\ now \ {Ssh} = {} /\ ssh
      BY DEF Inventory, got, Reads
<1> QED BY <1>4, <1>5, <1>6, <1>7, <1>8

\* The source is as it was read when it is about to be switched off.
LEMMA ConfirmsSource ==
  ASSUME ActInv, Confirm, op'.pc = "off"
  PROVE  \A p \in Ports \ moved' : p \in fw'[src'].rules <=> p \in op'.had \cup op'.unclear
<1>1. CASE Abandon(op)
  <2>1. OpOK(op) /\ Kin(op, op) /\ op.pc \in Steps \ {"persist"}
        BY DEF ActInv, Confirm, At, Kin, AtRest, Steps, Deciding
  <2> QED BY <1>1, <2>1, AbandonOK
<1>2. CASE (Reads \/ Overlooks) /\ SourceAsRead /\ Go("off")
  <2>1. /\ op'.had = op.had /\ op'.unclear = op.unclear /\ src' = src /\ UNCHANGED fw
        BY <1>2 DEF ActInv, OpOK, OpType, Go, Reads, Overlooks, Same, src
  <2> QED BY <1>2, <2>1 DEF SourceAsRead
<1> QED BY <1>1, <1>2 DEF Confirm, Looks, OnlyParties

\* A step of the switch that reads nothing of the source.
LEMMA KinDecides ==
  ASSUME ActInv, DecInv, OpOK(op'), Kin(op, op'), UNCHANGED ssh, op.pc \notin {"inventory", "confirm", "off", "scan"}
  PROVE  DecInv'
BY DEF DecInv, Kin, Deciding, src

LEMMA EditedRules ==
  ASSUME NEW b \in Backends, NEW r \in FwType, NEW p \in Ports
  PROVE  /\ Opened(b, r, p).rules = r.rules \cup {p}
         /\ Dropped(b, r, p).rules = r.rules \ {p}
<1>1. Opened(b, r, p).rules = r.rules \cup {p}
      BY DEF Opened, Persisted, FwType
<1>2. Dropped(b, r, p).rules = r.rules \ {p}
      BY DEF Dropped, Persisted, FwType
<1> QED BY <1>1, <1>2

LEMMA EditDecides ==
  ASSUME ActInv, DecInv, NEW p \in Ports, Edit(p)
  PROVE  DecInv'
<1>1. PICK b \in Backends : Edited(b, p)
      BY EditOn
<1>2. UNCHANGED <<op, ssh>> /\ moved' = moved \cup {p} /\ \A c \in Backends : fw'[c].on = fw[c].on
      BY EditOn
<1>3. \A c \in Backends : \A q \in Ports :
        (q # p => (q \in fw'[c].rules <=> q \in fw[c].rules))
        /\ (Ssh \in fw[c].rules => Ssh \in fw'[c].rules)
      BY <1>1, EditedRules DEF Edited, Set, ActInv, FwOK
<1>4. op.pc \in {"inventory", "off"} => src \in Backends
      BY PartyFields DEF ActInv, OpOK, Sourced, Reconcile, src
<1>5. Admits(fw, Ssh) => Admits(fw, Ssh)'
      BY <1>2, <1>3, SshIsPort DEF Admits
<1> QED BY <1>2, <1>3, <1>4, <1>5, SshIsPort DEF DecInv, src, Decided

LEMMA DecStep ==
  ASSUME ActInv, DecInv, [NextMore]_vars
  PROVE  DecInv'
<1> USE DEF ActInv
<1>1. CASE UNCHANGED vars
  <2>1. UNCHANGED <<fw, op, ssh, moved>>
        BY <1>1 DEF vars
  <2> QED BY <2>1 DEF DecInv, src, Admits, Decided
<1>2. CASE Inventory
  <2>1. OpOK(op') /\ Kin(op, op') /\ op.pc = "inventory" /\ src' = src
        BY <1>2, InventoryOK DEF Inventory, At, Kin, src
  <2>2. op'.pc \notin {"scan", "inventory", "off"}
    <3>1. \/ Go("stopped") \/ op'.pc \in {"asked", "prepare"}
          BY <1>2 DEF Inventory, OpOK, OpType
    <3>2. CASE Go("stopped")
          BY <3>2 DEF Go, OpOK, OpType
    <3> QED BY <3>1, <3>2
  <2> QED BY <1>2, <2>1, <2>2, InventoryDecides DEF DecInv
<1>3. CASE Prepares /\ ~Inventory
  <2>1. op.pc \notin {"inventory", "confirm", "off", "scan"}
        BY <1>3 DEF Prepares, Prepare, AllowSsh, ConfirmOn, Baseline, AddRule, PreflightDrops,
                    DropRule, Verify, LoginWithBoth, At
  <2> QED BY <1>3, <2>1, PreparesOK, KinDecides
<1>4. CASE Finishes \/ MPrepares \/ MUndoes \/ Removes
  <2>1. op.pc \notin {"inventory", "confirm", "off", "scan"}
        BY <1>4 DEF Finishes, LoginAfter, FinalScan, Persist, RestoreSource, ReaddRule, Unmake,
             CleanRule, CompareTarget, TargetOff, LastLook, MPrepares, MInventory, MPrepare,
             MDetect, MAllow, MAdd, MVerify, MLogin, MFinalScan, MLoginAfter, MFinalRules,
             MUndoes, MBack, MUnmake, MClean, MTargetOff, MLast, Removes, RScan, ROff, RLook,
             RPackage, At
  <2> QED BY <1>4, <2>1, FinishesOK, MPreparesOK, MUndoesOK, RemovesOK, KinDecides
<1>5. CASE MConfirm \/ MSourceOff \/ ProveSource \/ MSafe
  <2>1. op.pc \notin {"inventory", "confirm", "off", "scan"}
        BY <1>5 DEF MConfirm, MSourceOff, ProveSource, MSafe, At
  <2> QED BY <1>5, <2>1, TurnsKin, KinDecides
<1>6. CASE Confirm
  <2>1. OpOK(op') /\ Kin(op, op') /\ op.pc = "confirm"
        BY <1>6, TurnsKin DEF Confirm, At
  <2>2. op'.pc \notin {"scan", "inventory"}
        BY <2>1 DEF Kin
  <2>3. op'.pc \in Deciding /\ src' # NoFw => op'.had \cup op'.unclear = Decided(op')
        BY <2>1 DEF DecInv, Kin, Deciding, src
  <2> QED BY <1>6, <2>2, <2>3, ConfirmsSource DEF DecInv
<1>7. CASE SourceOff
  <2>1. OpOK(op') /\ Kin(op, op') /\ op.pc = "off" /\ op'.pc # "off"
        BY <1>7, TurnsKin DEF SourceOff, At
  <2>2. op'.pc \notin {"scan", "inventory"}
        BY <2>1 DEF Kin
  <2>3. op'.pc \in Deciding /\ src' # NoFw => op'.had \cup op'.unclear = Decided(op')
        BY <2>1 DEF DecInv, Kin, Deciding, src
  <2> QED BY <2>1, <2>2, <2>3 DEF DecInv
<1>8. CASE Scan \/ MScan
  <2>1. UNCHANGED <<fw, ssh>> /\ Found(op, op') /\ op.pc \in {"scan", "m_scan"}
        BY <1>8, ScansOn DEF Scan, MScan, At
  <2>2. /\ op'.pc \notin {"scan", "off"}
        /\ op'.pc \in Deciding => src' = NoFw
        BY <2>1 DEF Found, Deciding, src
  <2>3. ASSUME ssh, op'.pc = "inventory" PROVE Ssh \in fw[src'].rules
    <3>1. op.pc = "scan" /\ Filters(src')
          BY <1>8, <2>1, <2>3 DEF Found, src
    <3> QED BY <2>3, <3>1 DEF Filters, DecInv, Admits
  <2> QED BY <2>1, <2>2, <2>3 DEF DecInv
<1>9. CASE \/ Decide \/ MDecide
           \/ \E b \in Backends : Request(b) \/ \E k \in MoreKinds : RequestMore(b, k)
  <2>1. UNCHANGED fw /\ (Go("stopped") \/ (Fresh(op') /\ (ssh' => Admits(fw, Ssh))))
        BY <1>9, StartsOn
  <2>2. CASE Go("stopped")
    <3>1. op'.pc = "stopped"
          BY <2>2 DEF Go, OpOK, OpType
    <3> QED BY <3>1 DEF DecInv, Deciding
  <2>3. CASE Fresh(op') /\ (ssh' => Admits(fw, Ssh))
        BY <2>1, <2>3 DEF DecInv, Fresh, Deciding, Admits
  <2> QED BY <2>1, <2>2, <2>3
<1>10. CASE \E b \in Backends : Disable(b) \/ Enable(b)
  <2>1. op'.pc = "idle"
        BY <1>10, OneCallOn DEF Idle
  <2> QED BY <2>1 DEF DecInv, Deciding
<1>11. CASE \E p \in Ports : Edit(p)
       BY <1>11, EditDecides
<1>12. CASE Reboot
  <2>1. ~ssh' /\ UNCHANGED op
        BY <1>12 DEF Reboot
  <2> QED BY <2>1 DEF DecInv, src, Decided
<1> QED BY <1>1, <1>2, <1>3, <1>4, <1>5, <1>6, <1>7, <1>8, <1>9, <1>10, <1>11, <1>12, StepsOf

\* The source of a switch is switched off over a living session only.
LEMMA OffWorks ==
  ASSUME ActInv, NextMore, op.pc = "off", op'.pc = "login2"
  PROVE  ssh
<1> USE DEF ActInv
<1>1. CASE SourceOff
  <2> SUFFICES ASSUME NEW kept \in {"no", "partly", "blind", "yes"},
                      Abandon([op EXCEPT !.offed = TRUE, !.was = fw[src], !.kept = kept])
               PROVE  FALSE
    <3>1. op = [op EXCEPT !.kept = op.kept] /\ op.kept \in {"no", "partly", "blind", "yes"}
          BY DEF OpOK, OpType
    <3>2. [op EXCEPT !.offed = TRUE, !.was = fw[src]]
            = [op EXCEPT !.offed = TRUE, !.was = fw[src], !.kept = op.kept]
          BY DEF OpOK, OpType
    <3> QED BY <1>1, <3>1, <3>2 DEF SourceOff, Works, OffBlindly, Overlooks
  <2> DEFINE o == [op EXCEPT !.offed = TRUE, !.was = fw[src], !.kept = kept]
  <2>1. src \in Backends /\ fw[src] \in FwType
        BY PartyFields DEF OpOK, Sourced, Reconcile, src
  <2>2. o \in OpType
        BY <2>1, Updates DEF OpOK
  <2> HIDE DEF o
  <2>3. PICK pc \in {"stopped", "back", "safe"} :
          op' = [o EXCEPT !.pc = pc, !.safe = FALSE, !.ok = ~o.offed]
        BY DEF Abandon, o
  <2> QED BY <2>2, <2>3 DEF OpType
<1>2. CASE Prepares \/ Finishes \/ MPrepares \/ MUndoes \/ Removes
      BY <1>2, PreparesOK, FinishesOK, MPreparesOK, MUndoesOK, RemovesOK
<1>3. CASE Confirm \/ MConfirm \/ MSourceOff \/ ProveSource \/ MSafe \/ Scan \/ MScan \/ Decide \/ MDecide
      BY <1>3 DEF Confirm, MConfirm, MSourceOff, ProveSource, MSafe, Scan, MScan, Decide, MDecide, At
<1>4. CASE \E b \in Backends : \/ Request(b) \/ Disable(b) \/ Enable(b)
                               \/ \E k \in MoreKinds : RequestMore(b, k)
      BY <1>4 DEF Request, Disable, Enable, OneCall, RequestMore, AtRest
<1>5. CASE (\E p \in Ports : Edit(p)) \/ Reboot
      BY <1>5 DEF Edit, Reboot
<1> QED BY <1>1, <1>2, <1>3, <1>4, <1>5, StepsOf

\* On a server that has one request at a time, for any number of failures,
\* overlooked firewalls and edits by others: when the source of a switch
\* is switched off, its rules are those the user was shown and decided on.
THEOREM FreshDecision == SpecMore => DecisionIsFresh
<1>1. Init => ActInv /\ DecInv
  <2>1. Init => op.pc = "idle"
        BY DEF Init, Idle
  <2> QED BY <2>1, ActInit DEF DecInv, Deciding
<1>2. ActInv /\ DecInv /\ [NextMore]_vars => (ActInv /\ DecInv)'
      BY ActStep, DecStep
<1>3. ASSUME ActInv, DecInv, [NextMore]_vars
      PROVE  [op.pc = "off" /\ op'.pc = "login2" =>
                \A p \in Ports \ moved :
                  p \in fw[src].rules <=> p \in IF op.accepted THEN op.asked ELSE op.want]_vars
  <2> SUFFICES ASSUME NextMore, op.pc = "off", op'.pc = "login2"
               PROVE  \A p \in Ports \ moved : p \in fw[src].rules <=> p \in Decided(op)
      BY <1>3 DEF Decided
  <2>1. src # NoFw /\ op.had \cup op.unclear = Decided(op)
        BY <1>3 DEF DecInv, ActInv, OpOK, Sourced, Deciding, src
  <2>2. ssh
        BY <1>3, OffWorks
  <2> QED BY <1>3, <2>1, <2>2 DEF DecInv
<1> QED BY <1>1, <1>2, <1>3, PTL DEF SpecMore, DecisionIsFresh

-----------------------------------------------------------------------------
(* A switch that is done outlives a reboot.                                 *)

\* A table the panel does not manage is not started with the service ("a
\* foreign chain: its persistence is up to the administrator", nftables.py).
Own(r) == r.named \/ ~(r.boot /\ r.file = "on")

\* Only a table of nftables is named, an unnamed one does not start filtering
\* at boot, and firewalld neither runs nor starts where it is not installed.
Sound(b, r) ==
  /\ r.named => b = "nftables"
  /\ b = "nftables" => Own(r)
  /\ b = "firewalld" /\ (r.on \/ r.boot) => r.have

\* From r to x: sound, installed and named as before, and an unnamed table's
\* file and service are untouched.
Plain(b, r, x) ==
  /\ Sound(b, r) => Sound(b, x)
  /\ b = "firewalld" /\ r.have => x.have
  /\ r.named => x.named
  /\ b = "nftables" /\ ~x.named => x.file = r.file /\ x.boot = r.boot

LEMMA OpenedPlain ==
  ASSUME NEW b \in Backends, NEW r \in FwType, NEW p \in Ports,
         NEW x \in {Opened(b, r, p)} \cup HalfOpened(b, r, p)
  PROVE  Plain(b, r, x) /\ x.boot = r.boot /\ x.have = r.have /\ x.named = r.named
<1> USE DEF FwType, Plain, Sound, Own, Backends
<1>1. CASE b = "nftables"
      BY <1>1 DEF Opened, HalfOpened, Persisted
<1>2. CASE b # "nftables"
      BY <1>2 DEF Opened, HalfOpened
<1> QED BY <1>1, <1>2

LEMMA DroppedPlain ==
  ASSUME NEW b \in Backends, NEW r \in FwType, NEW p \in Ports,
         NEW x \in {Dropped(b, r, p)} \cup HalfDropped(b, r, p)
  PROVE  Plain(b, r, x) /\ x.boot = r.boot /\ x.named = r.named
<1> USE DEF FwType, Plain, Sound, Own, Backends
<1>1. CASE b = "nftables"
      BY <1>1 DEF Dropped, HalfDropped, Persisted
<1>2. CASE b # "nftables"
      BY <1>2 DEF Dropped, HalfDropped
<1> QED BY <1>1, <1>2

LEMMA ReadiedPlain ==
  ASSUME NEW b \in Backends, NEW r \in FwType, NEW x \in {Readied(b, r)} \cup HalfReadied(b, r)
  PROVE  Plain(b, r, x)
<1> USE DEF FwType, Plain, Sound, Own, Backends
<1>1. CASE b = "nftables" /\ ~r.have
      BY <1>1 DEF Readied, HalfReadied, NewTable
<1>2. CASE b = "nftables" /\ r.have
  <2> DEFINE o == Opened(b, r, Ssh)
  <2>1. o \in FwType /\ Plain(b, r, o)
        BY SshIsPort, OpenedType, OpenedPlain
  <2>2. \A y \in HalfOpened(b, r, Ssh) : Plain(b, r, y)
        BY SshIsPort, OpenedPlain
  <2> HIDE DEF o
  <2>3. Plain(b, r, [o EXCEPT !.on = TRUE])
        BY <1>2, <2>1
  <2> QED BY <1>2, <2>1, <2>2, <2>3 DEF Readied, HalfReadied, o
<1>3. CASE b # "nftables"
      BY <1>3 DEF Readied, HalfReadied, SshSaved
<1> QED BY <1>1, <1>2, <1>3

\* What a target is after its preparation.
LEMMA ReadiedFirm ==
  ASSUME NEW b \in Backends, NEW r \in FwType
  PROVE  LET x == Readied(b, r) IN
         /\ b = "firewalld" => x.boot /\ (~r.on => x.rules = x.saved)
         /\ b = "nftables" /\ (r.have => r.named) => x.named
<1> USE DEF FwType, Backends
<1>1. CASE b = "nftables" /\ ~r.have
      BY <1>1 DEF Readied, NewTable
<1>2. CASE b = "nftables" /\ r.have
  <2> DEFINE o == Opened(b, r, Ssh)
  <2>1. o \in FwType /\ o.named = r.named
        BY SshIsPort, OpenedType, OpenedPlain
  <2> HIDE DEF o
  <2> QED BY <1>2, <2>1 DEF Readied, o
<1>3. CASE b # "nftables"
      BY <1>3 DEF Readied, SshSaved
<1> QED BY <1>1, <1>2, <1>3

LEMMA PersistedPlain ==
  ASSUME NEW b \in Backends, NEW r \in FwType, NEW sync \in BOOLEAN
  PROVE  Plain(b, r, Persisted(r, sync)) /\ (r.named => Persisted(r, sync).named)
BY DEF FwType, Plain, Sound, Own, Backends, Persisted

LEMMA DisabledPlain ==
  ASSUME NEW b \in Backends, NEW r \in FwType, NEW x \in {Disabled(b, r)} \cup HalfDisabled(b, r)
  PROVE  Plain(b, r, x)
<1> USE DEF FwType, Plain, Sound, Own, Backends
<1>1. CASE b = "nftables"
      BY <1>1 DEF Disabled, HalfDisabled, Persisted
<1>2. CASE b # "nftables"
      BY <1>2 DEF Disabled, HalfDisabled
<1> QED BY <1>1, <1>2

\* What is switched off stays off.
LEMMA DisabledFirm ==
  ASSUME NEW b \in Backends, NEW r \in FwType, Sound(b, r)
  PROVE  ~Disabled(b, r).on /\ ~Booted(b, Disabled(b, r)).on
<1> USE DEF FwType, Backends
<1>1. CASE b = "nftables"
  <2> DEFINE q == [r EXCEPT !.on = FALSE]
  <2>1. /\ q \in FwType /\ ~q.on /\ q.named = r.named /\ q.boot = r.boot /\ q.file = r.file
        OBVIOUS
  <2> HIDE DEF q
  <2>2. Disabled(b, r) = Persisted(q, TRUE)
        BY <1>1 DEF Disabled, q
  <2>3. /\ Persisted(q, TRUE) \in FwType /\ ~Persisted(q, TRUE).on
        /\ ~(Persisted(q, TRUE).boot /\ Persisted(q, TRUE).file = "on")
        BY <1>1, <2>1 DEF Persisted, Sound, Own
  <2> QED BY <1>1, <2>2, <2>3 DEF Booted
<1>2. CASE b # "nftables"
      BY <1>2 DEF Disabled, Booted
<1> QED BY <1>1, <1>2

LEMMA RestoredPlain ==
  ASSUME NEW b \in Backends, NEW r \in FwType, NEW was \in FwType, b = "firewalld" => r.have,
         NEW x \in {Restored(b, r, was)} \cup HalfRestored(b, r, was)
  PROVE  Plain(b, r, x)
<1> USE DEF FwType, Plain, Sound, Own, Backends
<1>1. CASE b = "nftables"
      BY <1>1 DEF Restored, HalfRestored, Persisted
<1>2. CASE b # "nftables"
      BY <1>2 DEF Restored, HalfRestored
<1> QED BY <1>1, <1>2

LEMMA EnabledPlain ==
  ASSUME NEW b \in Backends, NEW r \in FwType, r.have, NEW x \in {Enabled(b, r)} \cup HalfEnabled(b, r)
  PROVE  Plain(b, r, x)
<1> DEFINE o == Opened(b, r, Ssh)
<1>0. o \in FwType /\ Plain(b, r, o) /\ o.have = r.have
      BY SshIsPort, OpenedType, OpenedPlain
<1> HIDE DEF o
<1> USE DEF FwType, Plain, Sound, Own, Backends
<1>1. CASE b = "nftables"
  <2> DEFINE q == [o EXCEPT !.on = TRUE]
  <2>1. q \in FwType /\ Plain(b, r, q)
        BY <1>0, <1>1
  <2>2. Plain(b, q, Persisted(q, TRUE))
        BY <2>1, PersistedPlain
  <2>3. Plain(b, r, Persisted(q, TRUE))
        BY <1>1, <2>1, <2>2
  <2>4. x \in {o, q, Persisted(q, TRUE)}
        BY <1>1 DEF Enabled, HalfEnabled, o
  <2> QED BY <1>0, <2>1, <2>3, <2>4
<1>2. CASE b = "firewalld"
  <2> DEFINE s == [r EXCEPT !.on = TRUE, !.rules = r.saved]
  <2>1. s \in FwType /\ s.have /\ s.named = r.named
        OBVIOUS
  <2> HIDE DEF s
  <2>2. \A y \in {Opened(b, s, Ssh)} \cup HalfOpened(b, s, Ssh) :
          y \in FwType /\ y.have /\ y.named = r.named
        BY <2>1, SshIsPort, OpenedType, OpenedPlain
  <2>3. x \in {[Opened(b, s, Ssh) EXCEPT !.boot = TRUE], s, Opened(b, s, Ssh)} \cup HalfOpened(b, s, Ssh)
        BY <1>2 DEF Enabled, HalfEnabled, s
  <2>4. x.have /\ x.named = r.named
        BY <2>1, <2>2, <2>3
  <2> QED BY <1>2, <2>4
<1>3. CASE b = "ufw"
  <2>1. x \in {o, [o EXCEPT !.on = TRUE, !.boot = TRUE]}
        BY <1>3 DEF Enabled, HalfEnabled, o
  <2> QED BY <1>0, <1>3, <2>1
<1> QED BY <1>1, <1>2, <1>3

LEMMA UnprovisionedPlain ==
  ASSUME NEW r \in FwType, Own(r), NEW x \in {Unprovisioned(r)} \cup HalfUnprovisioned(r) \cup Unnoticed(r)
  PROVE  Own(x)
<1> DEFINE u == Unprovisioned(r)
<1>1. u.boot = FALSE /\ u.file = "none" /\ u \in FwType
      BY UnprovisionedType DEF Unprovisioned, FwType
<1> HIDE DEF u
<1>2. CASE x = u
      BY <1>1, <1>2 DEF Own
<1>3. CASE x = [r EXCEPT !.have = FALSE, !.on = FALSE, !.rules = {}]
      BY <1>3 DEF Own, FwType
<1>4. CASE x = [u EXCEPT !.have = r.have, !.on = r.on, !.rules = r.rules]
      BY <1>1, <1>4 DEF Own, FwType
<1>5. CASE x = [u EXCEPT !.file = r.file, !.saved = r.saved]
      BY <1>1, <1>5 DEF Own, FwType
<1>6. CASE x \in {[u EXCEPT !.boot = r.boot], [u EXCEPT !.named = r.named]}
      BY <1>1, <1>6 DEF Own, FwType
<1> QED BY <1>2, <1>3, <1>4, <1>5, <1>6 DEF HalfUnprovisioned, Unnoticed, u

LEMMA BootedPlain ==
  ASSUME NEW b \in Backends, NEW r \in FwType
  PROVE  /\ Sound(b, r) => Sound(b, Booted(b, r))
         /\ b = "firewalld" => Booted(b, r).have = r.have
         /\ Booted(b, Booted(b, r)) = Booted(b, r)
<1> USE DEF FwType, Backends
<1>1. Sound(b, r) => Sound(b, Booted(b, r))
      BY DEF Sound, Own, Booted
<1>2. b = "firewalld" => Booted(b, r).have = r.have
      BY DEF Booted
<1>3. Booted(b, Booted(b, r)) = Booted(b, r)
  <2>1. CASE b = "ufw"
        BY <2>1 DEF Booted
  <2>2. CASE b = "firewalld"
        BY <2>2 DEF Booted
  <2>3. CASE b = "nftables"
    <3>1. CASE r.boot /\ r.file # "none"
          BY <2>3, <3>1 DEF Booted
    <3>2. CASE ~(r.boot /\ r.file # "none")
          BY <2>3, <3>2 DEF Booted
    <3> QED BY <3>1, <3>2
  <2> QED BY <2>1, <2>2, <2>3
<1> QED BY <1>1, <1>2, <1>3

LEMMA OutcomesPlain ==
  ASSUME FwOK, NEW b \in Backends, NEW done \in FwType, NEW half \in SUBSET FwType,
         \A x \in {done} \cup half : Plain(b, fw[b], x),
         NEW x \in Outcomes(b, done, half), Sound(b, fw[b])
  PROVE  Sound(b, x) /\ (b = "firewalld" /\ fw[b].have => x.have)
<1>1. fw[b] \in FwType
      BY DEF FwOK
<1>2. ASSUME b = "nftables", x \in Undumped(done, fw[b]) PROVE Sound(b, x)
      BY <1>1, <1>2 DEF Undumped, FwType, Plain, Sound, Own
<1> QED BY <1>2 DEF Outcomes, Plain, Backends

\* What the server is; the source of an operation under way, if it is firewalld,
\* is there; a target active beside its source is not the table of nftables.
HostInv ==
  /\ \A b \in Backends : Sound(b, fw[b])
  /\ src = "firewalld" /\ op.pc \notin AtRest => fw[src].have
  /\ op.wason => dst \in Managed

LEMMA ServedHost ==
  ASSUME ActInv, HostInv, Served
  PROVE  /\ \A b \in Backends : Sound(b, fw'[b])
         /\ src = "firewalld" /\ op.pc \notin AtRest => fw'[src].have
<1> USE DEF ActInv
<1>1. \A b \in Backends : fw[b] \in FwType /\ Sound(b, fw[b])
      BY DEF FwOK, HostInv
<1>2. dst \in Backends /\ (op.pc \in Sourced \/ op.kept # "no" => src \in Backends)
      BY PartyFields DEF OpOK, Reconcile, src
<1>3. ASSUME NEW b \in Backends, NEW X, Hits(b, X), \A x \in X : Sound(b, x),
             b = "firewalld" /\ fw[b].have /\ src = b => \A x \in X : x.have
      PROVE  /\ \A c \in Backends : Sound(c, fw'[c])
             /\ src = "firewalld" /\ op.pc \notin AtRest => fw'[src].have
      BY <1>1, <1>3 DEF Hits, Set, FwOK, HostInv, Backends
<1>4. ASSUME NEW b \in Backends, NEW done \in FwType, NEW half \in SUBSET FwType,
             \A x \in {done} \cup half : Plain(b, fw[b], x), Hits(b, Outcomes(b, done, half))
      PROVE  /\ \A c \in Backends : Sound(c, fw'[c])
             /\ src = "firewalld" /\ op.pc \notin AtRest => fw'[src].have
      BY <1>1, <1>3, <1>4, OutcomesPlain
<1>5. CASE Readies
      BY <1>1, <1>2, <1>4, <1>5, ReadiedType, ReadiedPlain DEF Readies
<1>6. CASE Opens
  <2>1. PICK p \in Ports : Hits(dst, Outcomes(dst, Opened(dst, fw[dst], p), HalfOpened(dst, fw[dst], p)))
        BY <1>6 DEF Opens
  <2>2. Opened(dst, fw[dst], p) \in FwType /\ HalfOpened(dst, fw[dst], p) \subseteq FwType
        BY <1>1, <1>2, OpenedType
  <2>3. \A x \in {Opened(dst, fw[dst], p)} \cup HalfOpened(dst, fw[dst], p) : Plain(dst, fw[dst], x)
        BY <1>1, <1>2, OpenedPlain
  <2> QED BY <1>2, <1>4, <2>1, <2>2, <2>3
<1>7. CASE Drops
  <2>1. PICK p \in Ports : Hits(dst, Outcomes(dst, Dropped(dst, fw[dst], p), HalfDropped(dst, fw[dst], p)))
        BY <1>7 DEF Drops
  <2>2. Dropped(dst, fw[dst], p) \in FwType /\ HalfDropped(dst, fw[dst], p) \subseteq FwType
        BY <1>1, <1>2, DroppedType
  <2>3. \A x \in {Dropped(dst, fw[dst], p)} \cup HalfDropped(dst, fw[dst], p) : Plain(dst, fw[dst], x)
        BY <1>1, <1>2, DroppedPlain
  <2> QED BY <1>2, <1>4, <2>1, <2>2, <2>3
<1>8. CASE SourceDown
      BY <1>1, <1>2, <1>4, <1>8, DisabledType, DisabledPlain DEF SourceDown, Sourced
<1>9. CASE SourceUp
  <2>1. op.was \in FwType /\ op.pc \notin AtRest
        BY <1>9, OpFields DEF OpOK, SourceUp, AtRest
  <2>2. src \in Backends /\ (src = "firewalld" => fw[src].have)
        BY <1>2, <1>9, <2>1 DEF SourceUp, HostInv
  <2> QED BY <1>1, <1>4, <1>9, <2>1, <2>2, RestoredType, RestoredPlain DEF SourceUp
<1>10. CASE Saves
  <2>1. ASSUME NEW sync \in BOOLEAN
        PROVE  /\ Sound(dst, Persisted(fw[dst], sync))
               /\ dst = "firewalld" /\ fw[dst].have => Persisted(fw[dst], sync).have
        BY <1>1, <1>2, PersistedPlain DEF Plain
  <2> DEFINE X == {Persisted(fw[dst], TRUE), Persisted(fw[dst], FALSE), fw[dst]}
  <2>2. \A x \in X : Sound(dst, x) /\ (dst = "firewalld" /\ fw[dst].have => x.have)
        BY <1>1, <1>2, <2>1
  <2>3. Hits(dst, X)
        BY <1>10 DEF Saves
  <2> HIDE DEF X
  <2> QED BY <1>2, <1>3, <2>2, <2>3
<1>11. CASE Unmakes
  <2>1. dst = "nftables"
        BY <1>11 DEF Unmakes, OpOK, dst
  <2>2. \A x \in {Unprovisioned(fw[dst]), fw[dst]} \cup Unnoticed(fw[dst]) \cup HalfUnprovisioned(fw[dst]) :
          Sound(dst, x)
        BY <1>1, <1>2, <2>1, UnprovisionedPlain DEF Sound
  <2> QED BY <1>2, <1>3, <1>11, <2>1, <2>2 DEF Unmakes
<1>12. CASE TargetDown
       BY <1>1, <1>2, <1>4, <1>12, DisabledType, DisabledPlain DEF TargetDown
<1>13. CASE Removal
  <2>1. src = NoFw
        BY <1>13 DEF Removal, OpOK, src
  <2>2. CASE Hits(dst, {Gone, fw[dst]})
    <3>1. Sound(dst, Gone)
          BY <1>1, <1>2 DEF Gone, Sound, Own, FwType
    <3> QED BY <1>1, <1>2, <1>3, <2>1, <2>2, <3>1 DEF NoFw
  <2>3. CASE Hits(dst, Outcomes(dst, Disabled(dst, fw[dst]), HalfDisabled(dst, fw[dst])))
        BY <1>1, <1>2, <1>4, <2>3, DisabledType, DisabledPlain
  <2> QED BY <1>13, <2>2, <2>3 DEF Removal
<1>14. CASE UNCHANGED fw
       BY <1>1, <1>14 DEF HostInv
<1> QED BY <1>5, <1>6, <1>7, <1>8, <1>9, <1>10, <1>11, <1>12, <1>13, <1>14 DEF Served

LEMMA HostStep ==
  ASSUME ActInv, HostInv, [NextMore]_vars
  PROVE  HostInv'
<1> USE DEF ActInv
<1>1. \A b \in Backends : fw[b] \in FwType /\ Sound(b, fw[b])
      BY DEF FwOK, HostInv
<1>2. ASSUME Served, OpOK(op'), Kin(op, op') PROVE HostInv'
      BY <1>2, ServedHost DEF HostInv, Kin, src, dst
<1>3. CASE Prepares \/ Finishes \/ MPrepares \/ MUndoes \/ Removes
      BY <1>2, <1>3, PreparesOK, FinishesOK, MPreparesOK, MUndoesOK, RemovesOK
<1>4. CASE Confirm \/ MConfirm \/ SourceOff \/ MSourceOff \/ ProveSource \/ MSafe
      BY <1>2, <1>4, TurnsKin
<1>5. CASE Scan \/ MScan
  <2>1. UNCHANGED fw /\ Found(op, op') /\ op.pc \notin AtRest
        BY <1>5, ScansOn DEF Scan, MScan, At, AtRest
  <2>2. op'.pc \notin AtRest /\ src' = "firewalld" => fw'[src'].have
        BY <2>1 DEF Filters, Found, HostInv, src
  <2>3. op'.wason => op'.dst \in Managed
    <3>1. CASE op'.pc = "m_inventory"
          BY <2>1, <3>1 DEF Found, HostInv, dst
    <3>2. CASE op'.pc # "m_inventory"
          BY <2>1, <3>2 DEF Found, HostInv, dst
    <3> QED BY <3>1, <3>2
  <2> QED BY <1>1, <2>1, <2>2, <2>3 DEF HostInv, dst
<1>6. CASE \/ Decide \/ MDecide
           \/ \E b \in Backends : Request(b) \/ \E k \in MoreKinds : RequestMore(b, k)
  <2>1. UNCHANGED fw /\ (Go("stopped") \/ Fresh(op'))
        BY <1>6, StartsOn
  <2>2. CASE Go("stopped")
    <3>1. op'.pc = "stopped" /\ op'.wason = op.wason /\ op'.dst = op.dst
          BY <2>2 DEF Go, OpOK, OpType
    <3> QED BY <1>1, <2>1, <3>1 DEF HostInv, AtRest, dst
  <2>3. CASE Fresh(op')
        BY <1>1, <2>1, <2>3 DEF HostInv, Fresh, src, NoFw
  <2> QED BY <2>1, <2>2, <2>3
<1>7. ASSUME NEW b \in Backends, Disable(b) \/ Enable(b)
      PROVE  HostInv'
  <2>1. PICK x : /\ Set(b, x)
                 /\ \/ x \in {Disabled(b, fw[b])} \cup HalfDisabled(b, fw[b])
                    \/ fw[b].have /\ x \in {Enabled(b, fw[b])} \cup HalfEnabled(b, fw[b])
        BY <1>7, SeenFacts DEF Disable, Enable, OneCall, ActInv
  <2>2. Sound(b, x)
        BY <1>1, <2>1, DisabledPlain, EnabledPlain DEF Plain
  <2>3. Fresh(op')
        BY <1>7, OneCallOn
  <2> QED BY <1>1, <2>1, <2>2, <2>3 DEF HostInv, Fresh, src, NoFw, Set, FwOK
<1>8. ASSUME NEW p \in Ports, Edit(p)
      PROVE  HostInv'
  <2>1. PICK b \in Backends : Edited(b, p)
        BY <1>8, EditOn
  <2>2. PICK x : Set(b, x) /\ Plain(b, fw[b], x)
        BY <1>1, <2>1, OpenedPlain, DroppedPlain DEF Edited
  <2>3. UNCHANGED op
        BY <1>8 DEF Edit
  <2> QED BY <1>1, <2>2, <2>3 DEF HostInv, Plain, src, dst, Set, FwOK, Backends
<1>9. CASE Reboot
  <2>1. UNCHANGED op
        BY <1>9 DEF Reboot
  <2>2. \A b \in Backends : fw'[b] = Booted(b, fw[b])
        BY <1>9 DEF Reboot
  <2>3. \A b \in Backends : Sound(b, fw'[b]) /\ (b = "firewalld" => fw'[b].have = fw[b].have)
        BY <1>1, <2>2, BootedPlain
  <2> QED BY <2>1, <2>3 DEF HostInv, src, dst, Backends
<1>10. CASE UNCHANGED vars
  <2>1. UNCHANGED <<fw, op>>
        BY <1>10 DEF vars
  <2> QED BY <1>1, <2>1 DEF HostInv, src, dst
<1> QED BY <1>3, <1>4, <1>5, <1>6, <1>7, <1>8, <1>9, <1>10, StepsOf

LEMMA HostInit ==
  ASSUME Init, Own(fw["nftables"])
  PROVE  HostInv
<1>1. \A b \in Backends : LetsIn(b, fw[b])
      BY ServerAssumption DEF Init
<1>2. op.src = NoFw /\ ~op.wason
      BY DEF Init, Idle
<1> QED BY <1>1, <1>2 DEF HostInv, Sound, LetsIn, src, NoFw

\* The rules the user chose: all of them, and after a switch no other, but for
\* the ports others edited.
Kept(o, S, others) ==
  \A p \in Ports \ others : /\ p \in o.want => p \in S
                            /\ o.kind = "switch" /\ p \in S => p \in o.want

SwitchReady == {"allow", "confirm_on", "baseline", "add", "preflight", "drop", "verify", "login",
                "confirm", "off", "login2", "final"}
MVerified == {"m_verify", "m_login", "m_confirm", "m_off", "m_final", "m_login2", "m_verify2"}
MAdded == {"m_add"} \cup MVerified
MReady == {"m_detect", "m_allow"} \cup MAdded
Late == {"login2", "final", "m_final", "m_login2", "m_verify2", "persist", "switched"}
Forward == {"m_scan", "inventory", "prepare", "m_inventory", "m_prepare", "persist", "switched"}
             \cup SwitchReady \cup MReady

\* The target starts at boot (nftables: can be saved to) from its preparation
\* on; firewalld then starts with the rules it has after a switch.
Prepared ==
  /\ ssh /\ Reconcile /\ dst = "firewalld" /\ op.pc \in {"inventory", "prepare"} => ~fw[dst].on
  /\ ssh /\ ~op.wason /\ op.pc \in SwitchReady \cup MReady =>
       (dst = "firewalld" => fw[dst].boot) /\ (dst = "nftables" => fw[dst].named)
  /\ ssh /\ Reconcile /\ dst = "firewalld" /\ op.pc \in SwitchReady => fw[dst].rules = fw[dst].saved

\* A migration: what it has been through of its rules firewalld has saved.
Carried ==
  /\ op.pc = "m_scan" => src = NoFw
  /\ op.pc \in {"m_inventory", "m_prepare"} \cup MReady /\ Reconcile => op.kind = "migrate"
  /\ op.pc \in {"m_prepare", "m_detect", "m_allow"} => op.want \subseteq op.todo \cup {Ssh}
  /\ ssh /\ dst = "firewalld" /\ op.pc \in MAdded => op.want \ (op.todo \cup moved) \subseteq fw[dst].saved
  /\ op.pc \in MVerified => op.todo = {}

\* The source is off and stays off, the target is on and has the rules; at the
\* end it will have them after a reboot.
Finished ==
  /\ ssh /\ Reconcile /\ op.pc \in {"m_login2", "m_verify2", "persist"} => fw[dst].on
  /\ ssh /\ Reconcile /\ op.pc = "persist" =>
       dst = "nftables" /\ fw[dst].named /\ Kept(op, fw[dst].rules, moved)
  /\ Reconcile /\ ~op.warned /\ op.pc \in Late => ~fw[src].on /\ ~Booted(src, fw[src]).on
  /\ Reconcile /\ ~op.warned /\ op.pc = "switched" =>
       /\ Booted(dst, fw[dst]).on \/ op.wason
       /\ Kept(op, fw[dst].rules, moved) /\ Kept(op, Booted(dst, fw[dst]).rules, moved)

FwdInv == Prepared /\ Carried /\ Finished

LEMMA LeavesForward ==
  ASSUME op'.pc \notin Forward \/ (op'.pc \in {"m_scan", "switched", "persist", "prepare"} /\ op'.src = NoFw)
  PROVE  FwdInv'
BY DEF FwdInv, Prepared, Carried, Finished, Forward, SwitchReady, MReady, MAdded, MVerified, Late,
       src, dst, Reconcile, NoFw

\* What a rule that is opened or removed leaves of firewalld's configuration.
LEMMA OpenedFirm ==
  ASSUME NEW r \in FwType, NEW p \in Ports
  PROVE  LET b == "firewalld" IN
         /\ \A x \in {Opened(b, r, p)} \cup HalfOpened(b, r, p) : r.saved \subseteq x.saved
         /\ p \in Opened(b, r, p).saved
         /\ r.rules = r.saved => Opened(b, r, p).rules = Opened(b, r, p).saved
         /\ r.rules = r.saved => Dropped(b, r, p).rules = Dropped(b, r, p).saved
         /\ r.saved \ {p} \subseteq Dropped(b, r, p).saved
<1> DEFINE more == [r EXCEPT !.rules = @ \cup {p}, !.saved = @ \cup {p}]
           less == [r EXCEPT !.rules = @ \ {p}, !.saved = @ \ {p}]
<1>1. /\ more.rules = r.rules \cup {p} /\ more.saved = r.saved \cup {p}
      /\ less.rules = r.rules \ {p} /\ less.saved = r.saved \ {p}
      /\ [r EXCEPT !.saved = @ \cup {p}].saved = r.saved \cup {p}
      BY DEF FwType
<1>2. Opened("firewalld", r, p) = IF p \in r.rules \cap r.saved THEN r ELSE more
      BY DEF Opened
<1>3. Dropped("firewalld", r, p) = less
      BY DEF Dropped
<1>4. HalfOpened("firewalld", r, p) = {[r EXCEPT !.saved = @ \cup {p}]}
      BY DEF HalfOpened
<1> HIDE DEF more, less
<1> QED BY <1>1, <1>2, <1>3, <1>4

\* What a change by another request makes of a target after a reboot.
LEMMA EditedBoots ==
  ASSUME NEW b \in Backends, NEW r \in FwType, NEW p \in Ports, r.on,
         NEW x \in {Opened(b, r, p), Dropped(b, r, p)}, b = "nftables" => Booted(b, r).on
  PROVE  /\ Booted(b, r).on => Booted(b, x).on
         /\ \A q \in Ports \ {p} : \/ q \in Booted(b, x).rules <=> q \in Booted(b, r).rules
                                   \/ q \in Booted(b, x).rules <=> q \in r.rules
<1> USE DEF FwType, Backends
<1>1. CASE b = "ufw"
  <2>1. x.on /\ \A q \in Ports \ {p} : q \in x.rules <=> q \in r.rules
        BY StaysOn, EditedRules
  <2>2. Booted(b, x) = x /\ Booted(b, r) = r
        BY <1>1 DEF Booted
  <2> QED BY <2>1, <2>2
<1>2. CASE b = "firewalld"
  <2>1. x.boot = r.boot /\ x \in FwType
        BY OpenedPlain, DroppedPlain, OpenedType, DroppedType
  <2>2. \A q \in Ports \ {p} : q \in x.saved <=> q \in r.saved
    <3>1. CASE x = Opened(b, r, p)
          BY <1>2, <3>1 DEF Opened
    <3>2. CASE x = Dropped(b, r, p)
          BY <1>2, <3>2 DEF Dropped
    <3> QED BY <3>1, <3>2
  <2>3. /\ Booted(b, x).on = x.boot /\ Booted(b, x).rules = x.saved
        /\ Booted(b, r).on = r.boot /\ Booted(b, r).rules = r.saved
        BY <1>2, <2>1 DEF Booted
  <2> QED BY <2>1, <2>2, <2>3
<1>3. CASE b = "nftables"
  <2>1. r.boot /\ r.file = "on"
        BY <1>3 DEF Booted
  <2> DEFINE more == [r EXCEPT !.rules = @ \cup {p}, !.saved = @ \cup {p}]
             less == [r EXCEPT !.rules = @ \ {p}, !.saved = @ \ {p}]
  <2>2. ASSUME NEW y \in FwType, y.on, y.boot, y.file = "on",
               \A q \in Ports \ {p} : /\ q \in y.rules <=> q \in r.rules
                                      /\ q \in y.saved <=> q \in r.saved
        PROVE  LET z == Persisted(y, FALSE) IN
               /\ z \in FwType /\ z.boot /\ z.file = "on" /\ z.saved \in {y.saved, y.rules}
        BY <2>2 DEF Persisted
  <2>3. /\ more \in FwType /\ more.on /\ more.boot /\ more.file = "on"
        /\ \A q \in Ports \ {p} : (q \in more.rules <=> q \in r.rules) /\ (q \in more.saved <=> q \in r.saved)
        BY <2>1
  <2>4. /\ less \in FwType /\ less.on /\ less.boot /\ less.file = "on"
        /\ \A q \in Ports \ {p} : (q \in less.rules <=> q \in r.rules) /\ (q \in less.saved <=> q \in r.saved)
        BY <2>1
  <2>5. x \in {r, Persisted(more, FALSE), Persisted(less, FALSE)}
        BY <1>3 DEF Opened, Dropped
  <2> HIDE DEF more, less
  <2>6. /\ x \in FwType /\ x.boot /\ x.file = "on"
        /\ \A q \in Ports \ {p} : \/ q \in x.saved <=> q \in r.saved
                                  \/ q \in x.saved <=> q \in r.rules
        BY <2>1, <2>2, <2>3, <2>4, <2>5
  <2>7. Booted(b, x).on /\ Booted(b, x).rules = x.saved /\ Booted(b, r).rules = r.saved
        BY <1>3, <2>1, <2>6 DEF Booted
  <2> QED BY <2>6, <2>7
<1> QED BY <1>1, <1>2, <1>3

LEMMA PersistedBoots ==
  ASSUME NEW r \in FwType, r.named, r.on
  PROVE  LET x == Persisted(r, TRUE) IN
         x.rules = r.rules /\ Booted("nftables", x).on /\ Booted("nftables", x).rules = r.rules
BY DEF Persisted, Booted, FwType

\* The requests of others, and a reboot.
LEMMA EditFwd ==
  ASSUME ActInv, HostInv, FwdInv, NEW p \in Ports, Edit(p)
  PROVE  FwdInv'
<1> USE DEF ActInv
<1>1. /\ UNCHANGED <<op, ssh>> /\ moved' = moved \cup {p} /\ moved \in SUBSET Ports
      /\ \A c \in Backends : fw'[c].on = fw[c].on
      BY EditOn
<1>2. PICK b \in Backends :
        fw[b].on /\ (Set(b, Opened(b, fw[b], p)) \/ Set(b, Dropped(b, fw[b], p)))
      BY ActiveFacts DEF Edit, Filters
<1>3. fw[b] \in FwType /\ dst \in Backends /\ (Reconcile => src \in Backends)
      BY PartyFields DEF FwOK
<1> DEFINE r == fw[b]
<1>4. PICK x \in {Opened(b, r, p), Dropped(b, r, p)} : fw' = [fw EXCEPT ![b] = x]
      BY <1>2 DEF Set
<1>5. fw'[b] = x /\ \A c \in Backends \ {b} : fw'[c] = fw[c]
      BY <1>3, <1>4 DEF FwOK
<1>6. x.boot = r.boot /\ x.named = r.named /\ \A q \in Ports \ {p} : q \in x.rules <=> q \in r.rules
      BY <1>3, <1>4, OpenedPlain, DroppedPlain, EditedRules
<1>7. b = "firewalld" => /\ r.saved \ {p} \subseteq x.saved
                         /\ r.rules = r.saved => x.rules = x.saved
      BY <1>3, <1>4, OpenedFirm
<1>8. Prepared'
      BY <1>1, <1>3, <1>5, <1>6, <1>7 DEF FwdInv, Prepared, src, dst, Reconcile
<1>9. Carried'
      BY <1>1, <1>3, <1>5, <1>7 DEF FwdInv, Carried, src, dst, Reconcile
<1>10. ASSUME b = dst, Reconcile, ~op.warned, op.pc = "switched"
       PROVE  /\ Booted(dst, x).on \/ op.wason
              /\ Kept(op, Booted(dst, x).rules, moved')
  <2>1. dst = "nftables" => ~op.wason
        BY DEF HostInv, Managed
  <2>2. /\ Booted(dst, r).on \/ op.wason
        /\ Kept(op, r.rules, moved) /\ Kept(op, Booted(dst, r).rules, moved)
        BY <1>10 DEF FwdInv, Finished, Late
  <2>3. /\ Booted(b, r).on => Booted(b, x).on
        /\ \A q \in Ports \ {p} : \/ q \in Booted(b, x).rules <=> q \in Booted(b, r).rules
                                  \/ q \in Booted(b, x).rules <=> q \in r.rules
        BY <1>2, <1>3, <1>4, <1>10, <2>1, <2>2, EditedBoots
  <2> QED BY <1>1, <1>10, <2>2, <2>3 DEF Kept
<1>11. Finished'
       BY <1>1, <1>2, <1>3, <1>5, <1>6, <1>10 DEF FwdInv, Finished, src, dst, Reconcile, Kept
<1> QED BY <1>8, <1>9, <1>11 DEF FwdInv

LEMMA RebootFwd ==
  ASSUME ActInv, FwdInv, Reboot
  PROVE  FwdInv'
<1> USE DEF ActInv
<1>1. /\ ssh' = FALSE /\ UNCHANGED <<op, moved>>
      /\ \A b \in Backends : fw'[b] = Booted(b, fw[b]) /\ Booted(b, fw'[b]) = Booted(b, fw[b])
      BY BootedPlain DEF Reboot, FwOK
<1>2. dst \in Backends /\ (Reconcile => src \in Backends)
      BY PartyFields
<1>3. Prepared' /\ Carried'
      BY <1>1 DEF FwdInv, Prepared, Carried, src, dst, Reconcile
<1>4. Finished'
      BY <1>1, <1>2 DEF FwdInv, Finished, src, dst, Reconcile
<1> QED BY <1>3, <1>4 DEF FwdInv

-----------------------------------------------------------------------------
(* The steps of a switch, one by one.                                       *)

\* The fields the invariant speaks of, but for the place.
Alike(o, x) ==
  /\ x.src = o.src /\ x.dst = o.dst /\ x.wason = o.wason /\ x.kind = o.kind
  /\ x.want = o.want /\ x.todo = o.todo /\ x.warned = o.warned

LEMMA GoAlike ==
  ASSUME OpOK(op), NEW pc, Go(pc)
  PROVE  op'.pc = pc /\ Alike(op, op')
BY DEF OpOK, OpType, Go, Alike

LEMMA AbandonPc ==
  ASSUME NEW o \in OpType, Abandon(o)
  PROVE  op'.pc \in {"stopped", "back", "safe"}
BY DEF Abandon, OpType

LEMMA GiveUpPc ==
  ASSUME NEW o \in OpType, GiveUp(o)
  PROVE  op'.pc \in {"m_back", "stopped"}
BY DEF GiveUp, OpType

LEMMA ForwardPcs ==
  /\ {"stopped", "back", "safe", "m_back", "asked", "undone", "stuck", "removed", "idle", "scan",
      "readd", "unmake", "clean", "compare", "target_off", "last", "m_safe", "m_unmake", "m_clean",
      "m_target_off", "m_last", "r_scan", "r_off", "r_look", "r_package"} \cap Forward = {}
  /\ SwitchReady \ Late = {"allow", "confirm_on", "baseline", "add", "preflight", "drop", "verify",
                           "login", "confirm", "off"}
BY DEF Forward, SwitchReady, MReady, MAdded, MVerified, Late

LEMMA Backwards ==
  ASSUME ActInv,
         \/ RestoreSource \/ ReaddRule \/ Unmake \/ CleanRule \/ CompareTarget \/ TargetOff \/ LastLook
         \/ MUndoes \/ Removes \/ ProveSource \/ MSafe
  PROVE  op'.pc \notin Forward
<1> USE DEF ActInv
<1>1. op \in OpType
      BY DEF OpOK
<1>2. \A pc : Go(pc) => op'.pc = pc
      BY GoAlike
<1>3. CASE RestoreSource \/ ProveSource \/ CompareTarget \/ TargetOff
  <2>1. op'.pc \in {"safe", "readd", "target_off", "last"}
        BY <1>1, <1>3 DEF RestoreSource, ProveSource, CompareTarget, TargetOff, OpType
  <2> QED BY <2>1, ForwardPcs
<1>4. CASE ReaddRule \/ CleanRule
  <2>1. op'.pc \in {"readd", "unmake", "clean", "compare"}
    <3>1. op.pc \in {"readd", "clean"}
          BY <1>4 DEF ReaddRule, CleanRule, At
    <3>2. CASE ReaddRule
      <4>1. \/ Go("unmake") \/ Go("clean")
            \/ \E p \in op.todo : \/ op' = [op EXCEPT !.todo = @ \ {p}]
                                  \/ op' = [[op EXCEPT !.todo = @ \ {p}] EXCEPT !.ok = FALSE]
            BY <3>2 DEF ReaddRule
      <4> QED BY <1>1, <1>2, <3>1, <4>1 DEF OpType
    <3>3. CASE CleanRule
      <4>1. \/ op' = [op EXCEPT !.pc = "compare", !.ok = @ /\ Cleanable = {}]
            \/ \E p \in Cleanable : \/ op' = [op EXCEPT !.added = @ \ {p}]
                                    \/ op' = [[op EXCEPT !.added = @ \ {p}] EXCEPT !.ok = FALSE]
            BY <3>3 DEF CleanRule
      <4> QED BY <1>1, <3>1, <4>1 DEF OpType
    <3> QED BY <1>4, <3>2, <3>3
  <2> QED BY <2>1, ForwardPcs
<1>5. CASE Unmake \/ LastLook
  <2>1. op'.pc \in {"last", "clean", "undone", "stuck"}
        BY <1>2, <1>5 DEF Unmake, LastLook, Looks
  <2> QED BY <2>1, ForwardPcs
<1>6. CASE MBack \/ MSafe \/ MTargetOff
  <2>1. op'.pc \in {"m_safe", "m_unmake", "m_last"}
        BY <1>1, <1>6 DEF MBack, MSafe, MTargetOff, Looks, OpType
  <2> QED BY <2>1, ForwardPcs
<1>7. CASE MUnmake \/ MLast
  <2>1. op'.pc \in {"m_last", "m_clean", "undone", "stuck", "asked"}
        BY <1>1, <1>2, <1>7 DEF MUnmake, MLast, Looks, OpType
  <2> QED BY <2>1, ForwardPcs
<1>8. CASE MClean
  <2>1. \/ op'.pc = "m_target_off"
        \/ \E p : \/ op' = [op EXCEPT !.added = @ \ {p}]
                  \/ op' = [[op EXCEPT !.added = @ \ {p}] EXCEPT !.ok = FALSE]
        BY <1>1, <1>8 DEF MClean, OpType
  <2>2. op'.pc \in {"m_target_off", "m_clean"}
        BY <1>1, <1>8, <2>1 DEF MClean, At, OpType
  <2> QED BY <2>2, ForwardPcs
<1>9. CASE Removes
  <2>1. op'.pc \in {"stopped", "removed", "r_package", "r_off", "r_look"}
        BY <1>2, <1>9 DEF Removes, RScan, ROff, RLook, RPackage, Looks, RStarts, Go
  <2> QED BY <2>1, ForwardPcs
<1> QED BY <1>3, <1>4, <1>5, <1>6, <1>7, <1>8, <1>9 DEF MUndoes

\* A step of a switch that changes nothing of the server.
LEMMA SwitchGoesOn ==
  ASSUME ActInv, FwdInv, OpOK(op'), Kin(op, op'), UNCHANGED <<fw, ssh>>, op.pc \in SwitchReady,
         op'.pc \in SwitchReady \ Late \/ (op'.pc = "login2" /\ ~Reconcile)
  PROVE  FwdInv'
<1>1. /\ src' = src /\ dst' = dst /\ op'.wason = op.wason /\ Reconcile' = Reconcile
      BY DEF Kin, src, dst, Reconcile
<1>2. Prepared'
      BY <1>1 DEF FwdInv, Prepared, SwitchReady, MReady, MAdded, MVerified
<1>3. Carried' /\ Finished'
      BY <1>1 DEF Carried, Finished, SwitchReady, MReady, MAdded, MVerified, Late
<1> QED BY <1>2, <1>3 DEF FwdInv

\* A step that opens or removes a rule.
LEMMA SwitchWorks ==
  ASSUME ActInv, FwdInv, OpOK(op'), Kin(op, op'), UNCHANGED ssh, NEW p \in Ports,
         Works(dst, Opened(dst, fw[dst], p)) \/ Works(dst, Dropped(dst, fw[dst], p)),
         op.pc \in SwitchReady, op'.pc \in SwitchReady \ Late
  PROVE  FwdInv'
<1> USE DEF ActInv
<1>1. /\ src' = src /\ dst' = dst /\ op'.wason = op.wason /\ Reconcile' = Reconcile
      BY DEF Kin, src, dst, Reconcile
<1>2. dst \in Backends /\ fw[dst] \in FwType
      BY PartyFields
<1>3. PICK done \in {Opened(dst, fw[dst], p), Dropped(dst, fw[dst], p)} : Works(dst, done)
      OBVIOUS
<1>4. done \in FwType /\ done.boot = fw[dst].boot /\ done.named = fw[dst].named
      BY <1>2, <1>3, OpenedType, DroppedType, OpenedPlain, DroppedPlain
<1>5. dst = "firewalld" /\ fw[dst].rules = fw[dst].saved => done.rules = done.saved
      BY <1>2, <1>3, OpenedFirm
<1>6. PICK x : /\ fw' = [fw EXCEPT ![dst] = x]
               /\ x = done \/ (dst = "nftables" /\ x \in Undumped(done, fw[dst]))
      BY <1>3 DEF Works, Set
<1>7. x.named = done.named /\ (dst = "firewalld" => x = done)
      BY <1>4, <1>6 DEF Undumped, FwType
<1>8. fw'[dst] = x
      BY <1>2, <1>6 DEF FwOK
<1>9. Prepared'
      BY <1>1, <1>4, <1>5, <1>7, <1>8 DEF FwdInv, Prepared, SwitchReady, MReady, MAdded, MVerified, Late
<1>10. Carried' /\ Finished'
       BY <1>1 DEF Carried, Finished, SwitchReady, MReady, MAdded, MVerified, Late
<1> QED BY <1>9, <1>10 DEF FwdInv

LEMMA ReadingFwd ==
  ASSUME ActInv, FwdInv, ConfirmOn \/ Baseline \/ PreflightDrops \/ Verify \/ LoginWithBoth \/ Confirm
  PROVE  FwdInv'
<1> USE DEF ActInv
<1>1. OpOK(op') /\ Kin(op, op') /\ UNCHANGED <<fw, ssh>> /\ op \in OpType
      BY ConfirmOnOK, BaselineOK, PreflightDropsOK, VerifyOK, LoginWithBothOK, ConfirmOK, ReadsOnly DEF OpOK
<1>2. op.pc \in SwitchReady
      BY DEF SwitchReady, ConfirmOn, Baseline, PreflightDrops, Verify, LoginWithBoth, Confirm, At
<1>3. \/ op'.pc \in {"stopped", "back", "safe"}
      \/ op'.pc \in SwitchReady \ Late \/ (op'.pc = "login2" /\ ~Reconcile)
  <2>1. \A pc : Go(pc) => op'.pc = pc
        BY GoAlike
  <2>2. Abandon(op) => op'.pc \in {"stopped", "back", "safe"}
        BY <1>1, AbandonPc
  <2>3. CASE ConfirmOn \/ PreflightDrops \/ Verify
        BY <2>1, <2>2, <2>3, ForwardPcs DEF ConfirmOn, PreflightDrops, Verify
  <2>4. CASE LoginWithBoth \/ Confirm
        BY <2>1, <2>2, <2>4, ForwardPcs DEF LoginWithBoth, Confirm, Looks, Login
  <2>5. CASE Baseline
    <3>1. op'.pc = "add" \/ Abandon(op)
          BY <1>1, <2>5 DEF Baseline, OpType
    <3> QED BY <2>2, <3>1, ForwardPcs
  <2> QED BY <2>3, <2>4, <2>5
<1> QED BY <1>1, <1>2, <1>3, ForwardPcs, LeavesForward, SwitchGoesOn

LEMMA AllowSshFwd ==
  ASSUME ActInv, FwdInv, AllowSsh
  PROVE  FwdInv'
<1> USE DEF ActInv
<1>1. OpOK(op') /\ Kin(op, op') /\ UNCHANGED ssh /\ op \in OpType /\ op.pc \in SwitchReady
      BY AllowSshOK DEF OpOK, AllowSsh, At, SwitchReady
<1>2. CASE Abandon(op)
      BY <1>1, <1>2, AbandonPc, ForwardPcs, LeavesForward
<1>3. CASE ~Abandon(op)
  <2>1. Works(dst, Opened(dst, fw[dst], Ssh))
        BY <1>3 DEF AllowSsh, Open
  <2>2. op'.pc = "confirm_on"
        BY <1>1, <1>3 DEF AllowSsh, Open, OpType
  <2> QED BY <1>1, <2>1, <2>2, SwitchWorks, SshIsPort, ForwardPcs
<1> QED BY <1>2, <1>3

LEMMA AddRuleFwd ==
  ASSUME ActInv, FwdInv, AddRule
  PROVE  FwdInv'
<1> USE DEF ActInv
<1>1. OpOK(op') /\ Kin(op, op') /\ UNCHANGED ssh /\ op \in OpType /\ op.pc = "add" /\ op.pc \in SwitchReady
      BY AddRuleOK DEF OpOK, AddRule, At, SwitchReady
<1>2. CASE Abandon(op)
      BY <1>1, <1>2, AbandonPc, ForwardPcs, LeavesForward
<1>3. CASE op.todo = {}
  <2>1. UNCHANGED fw /\ op'.pc = "preflight"
        BY <1>1, <1>3 DEF AddRule, Same, OpType
  <2> QED BY <1>1, <2>1, SwitchGoesOn, ForwardPcs
<1>4. CASE ~Abandon(op) /\ op.todo # {}
  <2>1. PICK p \in op.todo : Open(p, [op EXCEPT !.todo = @ \ {p}])
        BY <1>4 DEF AddRule
  <2>2. Works(dst, Opened(dst, fw[dst], p)) /\ p \in Ports
        BY <1>1, <1>4, <2>1, OpFields DEF Open
  <2>3. op'.pc = "add"
        BY <1>1, <1>4, <2>1 DEF Open, OpType
  <2> QED BY <1>1, <2>2, <2>3, SwitchWorks, ForwardPcs
<1> QED BY <1>2, <1>3, <1>4

LEMMA DropRuleFwd ==
  ASSUME ActInv, FwdInv, DropRule
  PROVE  FwdInv'
<1> USE DEF ActInv
<1>1. OpOK(op') /\ Kin(op, op') /\ UNCHANGED ssh /\ op \in OpType /\ op.pc = "drop" /\ op.pc \in SwitchReady
      BY DropRuleOK DEF OpOK, DropRule, At, SwitchReady
<1>2. CASE op.todo = {}
  <2>1. UNCHANGED fw /\ op'.pc = "verify"
        BY <1>1, <1>2 DEF DropRule, Same, OpType, Go
  <2> QED BY <1>1, <2>1, SwitchGoesOn, ForwardPcs
<1>3. ASSUME NEW p \in op.todo,
             NEW trying, trying = [op EXCEPT !.todo = @ \ {p}, !.dropped = @ \cup {p}],
             \/ Works(dst, Dropped(dst, fw[dst], p)) /\ op' = trying
             \/ Abandon(trying)
      PROVE  FwdInv'
  <2>1. p \in Ports /\ op.todo \in SUBSET Ports /\ op.dropped \in SUBSET Ports
        BY <1>1, OpFields
  <2>2. trying \in OpType /\ trying.pc = "drop"
        BY <1>1, <1>3, <2>1 DEF OpType
  <2> QED BY <1>1, <1>3, <2>1, <2>2, AbandonPc, SwitchWorks, ForwardPcs, LeavesForward
<1> QED BY <1>2, <1>3 DEF DropRule

LEMMA ScanFwd ==
  ASSUME ActInv, HostInv, Scan, ~overlooked'
  PROVE  FwdInv'
<1> USE DEF ActInv
<1>1. UNCHANGED <<fw, ssh>> /\ Found(op, op') /\ op.src = NoFw /\ op \in OpType
      BY ScansOn DEF Scan, At, OpOK
<1>2. CASE op'.pc # "inventory"
  <2>1. \A pc : Go(pc) => op'.pc = pc
        BY GoAlike
  <2>2. op'.pc \in {"stopped", "switched", "prepare", "inventory"}
        BY <1>1, <2>1 DEF Scan, Starts, Overlooks, OpType
  <2>3. op'.src = NoFw
        BY <1>1, <1>2, <2>2 DEF Found
  <2> QED BY <1>2, <2>2, <2>3, ForwardPcs, LeavesForward
<1>3. CASE op'.pc = "inventory"
  <2>1. dst \notin Active(fw)
    <3>1. \A pc : Go(pc) => op'.pc = pc
          BY GoAlike
    <3> QED BY <1>1, <1>3, <3>1 DEF Scan, Starts, Overlooks, OpType
  <2>2. dst' = dst
        BY <1>1 DEF Found, dst
  <2>3. dst = "firewalld" => ~fw[dst].on
        BY <1>1, <2>1, ActiveFacts DEF ActInv, HostInv, Sound, Managed, Backends
  <2> QED BY <1>1, <1>3, <2>2, <2>3 DEF FwdInv, Prepared, Carried, Finished, SwitchReady, MReady,
                                     MAdded, MVerified, Late
<1> QED BY <1>2, <1>3

LEMMA InventoryFwd ==
  ASSUME ActInv, FwdInv, Inventory
  PROVE  FwdInv'
<1> USE DEF ActInv
<1>1. OpOK(op') /\ Kin(op, op') /\ UNCHANGED <<fw, ssh>> /\ op.pc = "inventory" /\ op \in OpType
      BY InventoryOK, ReadsOnly DEF Inventory, At, OpOK
<1>2. op'.pc \in {"stopped", "asked", "prepare"}
  <2>1. \A pc : Go(pc) => op'.pc = pc
        BY GoAlike
  <2>2. \/ Go("stopped") \/ op'.pc \in {"asked", "prepare"}
        BY <1>1 DEF Inventory, OpType
  <2> QED BY <2>1, <2>2
<1>3. CASE op'.pc = "prepare"
  <2>1. Reconcile' = Reconcile /\ dst' = dst
        BY <1>1 DEF Kin, Reconcile, src, dst
  <2> QED BY <1>1, <1>3, <2>1 DEF FwdInv, Prepared, Carried, Finished, SwitchReady, MReady,
                                MAdded, MVerified, Late
<1> QED BY <1>2, <1>3, ForwardPcs, LeavesForward

\* The preparation of a target by either way.
LEMMA ReadiesTarget ==
  ASSUME ActInv, ~(dst = "nftables" /\ fw[dst].have /\ ~fw[dst].named), Works(dst, Readied(dst, fw[dst]))
  PROVE  /\ dst = "firewalld" => fw'[dst].boot /\ (~fw[dst].on => fw'[dst].rules = fw'[dst].saved)
         /\ dst = "nftables" => fw'[dst].named
<1> USE DEF ActInv
<1> DEFINE done == Readied(dst, fw[dst])
<1>1. dst \in Backends /\ fw[dst] \in FwType /\ done \in FwType
      BY PartyFields, ReadiedType
<1>2. /\ dst = "firewalld" => done.boot /\ (~fw[dst].on => done.rules = done.saved)
      /\ dst = "nftables" => done.named
      BY <1>1, ReadiedFirm
<1> HIDE DEF done
<1>3. PICK x : /\ fw' = [fw EXCEPT ![dst] = x]
               /\ x = done \/ (dst = "nftables" /\ x \in Undumped(done, fw[dst]))
      BY DEF Works, Set, done
<1>4. x.named = done.named /\ (dst = "firewalld" => x = done) /\ fw'[dst] = x
      BY <1>1, <1>3 DEF Undumped, FwType, FwOK
<1> QED BY <1>2, <1>4

LEMMA PrepareFwd ==
  ASSUME ActInv, FwdInv, Prepare
  PROVE  FwdInv'
<1> USE DEF ActInv
<1>1. OpOK(op') /\ Kin(op, op') /\ UNCHANGED ssh /\ op.pc = "prepare" /\ op \in OpType
      BY PrepareOK DEF Prepare, At, OpOK
<1> DEFINE begun == [op EXCEPT !.made = (dst = "nftables" /\ ~fw[dst].have)]
           refused == dst = "nftables" /\ fw[dst].have /\ ~fw[dst].named
<1>2. begun \in OpType
      BY <1>1 DEF OpType
<1>3. CASE Abandon(begun)
      BY <1>2, <1>3, AbandonPc, ForwardPcs, LeavesForward
<1>4. CASE ~refused /\ Works(dst, Readied(dst, fw[dst])) /\ op' = [begun EXCEPT !.pc = "allow"]
  <2>1. op'.pc = "allow"
        BY <1>2, <1>4 DEF OpType
  <2>2. Reconcile' = Reconcile /\ dst' = dst
        BY <1>1 DEF Kin, Reconcile, src, dst
  <2>3. /\ dst = "firewalld" => fw'[dst].boot /\ (~fw[dst].on => fw'[dst].rules = fw'[dst].saved)
        /\ dst = "nftables" => fw'[dst].named
        BY <1>4, ReadiesTarget
  <2>4. ssh /\ Reconcile /\ dst = "firewalld" => ~fw[dst].on
        BY <1>1 DEF FwdInv, Prepared
  <2> QED BY <1>1, <2>1, <2>2, <2>3, <2>4 DEF FwdInv, Prepared, Carried, Finished, SwitchReady, MReady,
                                             MAdded, MVerified, Late
<1> QED BY <1>3, <1>4 DEF Prepare

\* The last steps of either way, and those of a migration.
LEMMA SourceOffFwd ==
  ASSUME ActInv, HostInv, FwdInv, SourceOff, ~overlooked'
  PROVE  FwdInv'
<1> USE DEF ActInv
<1>1. OpOK(op') /\ Kin(op, op') /\ UNCHANGED ssh /\ op.pc = "off" /\ op \in OpType /\ Reconcile
      BY TurnsKin DEF SourceOff, At, OpOK, Sourced, Reconcile, src
<1>2. /\ dst \in Backends /\ src \in Backends /\ src # dst
      /\ fw[src] \in FwType /\ fw[dst] \in FwType /\ Sound(src, fw[src])
      BY <1>1, PartyFields DEF OpOK, HostInv, src, dst
<1> DEFINE begun == [op EXCEPT !.offed = TRUE, !.was = fw[src]]
           done == Disabled(src, fw[src])
<1>3. begun \in OpType /\ [begun EXCEPT !.kept = "partly"] \in OpType
      BY <1>1, <1>2, Updates
<1> HIDE DEF begun, done
<1>4. CASE Abandon(begun) \/ Abandon([begun EXCEPT !.kept = "partly"])
      BY <1>3, <1>4, AbandonPc, ForwardPcs, LeavesForward
<1>5. CASE /\ Works(src, done)
           /\ op' = [begun EXCEPT !.pc = "login2", !.kept = "yes", !.warned = fw'[src] # done]
  <2>1. op'.pc = "login2"
        BY <1>3, <1>5 DEF OpType
  <2>2. ~op'.warned => fw'[src] = done
        BY <1>3, <1>5 DEF OpType
  <2>3. fw'[dst] = fw[dst]
        BY <1>2, <1>5 DEF Works, Set, FwOK
  <2>4. ~done.on /\ ~Booted(src, done).on
        BY <1>2, DisabledFirm DEF done
  <2>5. src' = src /\ dst' = dst /\ op'.wason = op.wason /\ Reconcile' = Reconcile
        BY <1>1 DEF Kin, src, dst, Reconcile
  <2>6. Prepared'
        BY <1>1, <2>1, <2>3, <2>5 DEF FwdInv, Prepared, SwitchReady, MReady, MAdded, MVerified
  <2>7. Carried' /\ Finished'
        BY <2>1, <2>2, <2>4, <2>5 DEF Carried, Finished, MReady, MAdded, MVerified
  <2> QED BY <2>6, <2>7 DEF FwdInv
<1> QED BY <1>4, <1>5 DEF SourceOff, OffBlindly, Overlooks, begun, done

LEMMA LoginAfterFwd ==
  ASSUME ActInv, FwdInv, LoginAfter
  PROVE  FwdInv'
<1> USE DEF ActInv
<1>1. op \in OpType /\ UNCHANGED <<fw, ssh>> /\ op.pc = "login2"
      BY ReadsOnly DEF LoginAfter, At, OpOK
<1>2. CASE Abandon(op)
      BY <1>1, <1>2, AbandonPc, ForwardPcs, LeavesForward
<1>3. CASE Go("final")
  <2>1. op'.pc = "final" /\ Alike(op, op')
        BY <1>3, GoAlike
  <2>2. src' = src /\ dst' = dst /\ Reconcile' = Reconcile
        BY <2>1 DEF Alike, src, dst, Reconcile
  <2> QED BY <1>1, <2>1, <2>2 DEF FwdInv, Prepared, Carried, Finished, Alike, SwitchReady, MReady, MAdded,
                                 MVerified, Late
<1> QED BY <1>2, <1>3 DEF LoginAfter, Login

\* What a target that filters is after a reboot, once it is prepared.
LEMMA FirmBoots ==
  ASSUME NEW b \in Backends, NEW r \in FwType, b # "nftables", r.on, b = "firewalld" => r.boot
  PROVE  /\ Booted(b, r).on
         /\ Booted(b, r).rules = IF b = "firewalld" THEN r.saved ELSE r.rules
BY DEF Booted, FwType, Backends

LEMMA FinalScanFwd ==
  ASSUME ActInv, HostInv, FwdInv, FinalScan, ~overlooked'
  PROVE  FwdInv'
<1> USE DEF ActInv
<1>1. op \in OpType /\ UNCHANGED <<fw, ssh, moved>> /\ op.pc = "final" /\ ~op.wason
      BY ReadsOnly DEF FinalScan, At, OpOK, WasonPcs, AtRest, MoreSteps
<1>2. CASE Abandon(op)
      BY <1>1, <1>2, AbandonPc, ForwardPcs, LeavesForward
<1>3. CASE ~Abandon(op)
  <2> DEFINE next == IF fw[dst].named THEN "persist" ELSE "switched"
  <2>1. ssh /\ Active(fw) = {dst} /\ (Reconcile => fw[dst].rules = op.want) /\ Go(next)
        BY <1>3 DEF FinalScan, Looks, OnlyTarget, Overlooks, Reads
  <2>2. op'.pc = next /\ Alike(op, op')
        BY <2>1, GoAlike
  <2>3. src' = src /\ dst' = dst /\ Reconcile' = Reconcile
        BY <2>2 DEF Alike, src, dst, Reconcile
  <2>4. dst \in Backends /\ fw[dst] \in FwType /\ fw[dst].on
        BY <2>1, PartyFields, ActiveFacts DEF Filters
  <2>5. /\ dst = "firewalld" => fw[dst].boot /\ (Reconcile => fw[dst].rules = fw[dst].saved)
        /\ dst = "nftables" <=> fw[dst].named
        BY <1>1, <2>1, <2>4 DEF FwdInv, Prepared, SwitchReady, HostInv, Sound
  <2>6. Kept(op', op.want, moved)
        BY <2>2 DEF Kept, Alike
  <2>7. Prepared' /\ Carried'
        BY <2>2 DEF Prepared, Carried, SwitchReady, MReady, MAdded, MVerified
  <2>8. CASE ~Reconcile
        BY <2>3, <2>7, <2>8 DEF FwdInv, Finished
  <2>9. CASE Reconcile /\ fw[dst].named
        BY <1>1, <2>1, <2>2, <2>3, <2>4, <2>5, <2>6, <2>7, <2>9 DEF FwdInv, Finished, Alike, Late
  <2>10. CASE Reconcile /\ ~fw[dst].named
    <3>1. Booted(dst, fw[dst]).on /\ Booted(dst, fw[dst]).rules = op.want
          BY <2>1, <2>4, <2>5, <2>10, FirmBoots
    <3> QED BY <1>1, <2>1, <2>2, <2>3, <2>6, <2>7, <2>10, <3>1 DEF FwdInv, Finished, Alike, Late
  <2> QED BY <2>8, <2>9, <2>10
<1> QED BY <1>2, <1>3

LEMMA PersistFwd ==
  ASSUME ActInv, FwdInv, Persist
  PROVE  FwdInv'
<1> USE DEF ActInv
<1>1. op \in OpType /\ op.pc = "persist" /\ UNCHANGED <<ssh, moved>>
      BY DEF Persist, At, OpOK
<1> DEFINE done == Persisted(fw[dst], TRUE)
<1>2. dst \in Backends /\ fw[dst] \in FwType /\ (Reconcile => src \in Backends /\ src # dst)
      BY PartyFields DEF OpOK, src, dst
<1>3. CASE op' = [op EXCEPT !.pc = "switched", !.warned = TRUE]
  <2>1. op'.pc = "switched" /\ op'.warned
        BY <1>1, <1>3 DEF OpType
  <2> QED BY <2>1 DEF FwdInv, Prepared, Carried, Finished, SwitchReady, MReady, MAdded, MVerified
<1>4. CASE ssh /\ Set(dst, done) /\ Go("switched")
  <2>1. op'.pc = "switched" /\ Alike(op, op')
        BY <1>4, GoAlike
  <2>2. src' = src /\ dst' = dst /\ Reconcile' = Reconcile
        BY <2>1 DEF Alike, src, dst, Reconcile
  <2>3. Prepared' /\ Carried'
        BY <2>1 DEF Prepared, Carried, SwitchReady, MReady, MAdded, MVerified
  <2>4. CASE ~Reconcile
        BY <2>2, <2>3, <2>4 DEF FwdInv, Finished
  <2>5. CASE Reconcile
    <3>1. dst = "nftables" /\ fw[dst].named /\ fw[dst].on /\ Kept(op, fw[dst].rules, moved)
          BY <1>1, <1>4, <2>5 DEF FwdInv, Finished
    <3>2. done.rules = fw[dst].rules /\ Booted(dst, done).on /\ Booted(dst, done).rules = fw[dst].rules
          BY <1>2, <3>1, PersistedBoots
    <3>3. fw'[dst] = done /\ fw'[src] = fw[src]
          BY <1>2, <1>4, <2>5 DEF Set, FwOK
    <3>4. Kept(op', fw[dst].rules, moved)
          BY <2>1, <3>1 DEF Kept, Alike
    <3>5. ~op.warned => ~fw[src].on /\ ~Booted(src, fw[src]).on
          BY <1>1, <2>5 DEF FwdInv, Finished, Late
    <3>6. op'.warned = op.warned
          BY <2>1 DEF Alike
    <3> HIDE DEF done
    <3>7. Finished'
          BY <1>1, <2>1, <2>2, <3>2, <3>3, <3>4, <3>5, <3>6 DEF Finished
    <3> QED BY <2>3, <3>7 DEF FwdInv
  <2> QED BY <2>4, <2>5
<1> QED BY <1>3, <1>4 DEF Persist

LEMMA MScanFwd ==
  ASSUME ActInv, FwdInv, MScan
  PROVE  FwdInv'
<1> USE DEF ActInv
<1>1. Found(op, op') /\ op.pc = "m_scan" /\ op \in OpType /\ op.src = NoFw /\ UNCHANGED <<fw, ssh>>
      BY ScansOn DEF MScan, At, OpOK, FwdInv, Carried, src
<1>2. CASE op'.pc = "m_prepare"
  <2>1. op'.src = NoFw
        BY <1>1, <1>2 DEF Found
  <2>2. op'.want = {Ssh}
    <3>1. \A pc : Go(pc) => op'.pc = pc
          BY GoAlike
    <3> QED BY <1>1, <1>2, <3>1 DEF MScan, MStarts, DonePc, AlreadyAlone, Login, OpType
  <2> QED BY <1>2, <2>1, <2>2 DEF FwdInv, Prepared, Carried, Finished, SwitchReady, MReady, MAdded,
                                 MVerified, Late, Reconcile, src
<1>3. CASE op'.pc = "m_inventory"
  <2>1. op'.kind = "migrate"
    <3>1. \A pc : Go(pc) => op'.pc = pc
          BY GoAlike
    <3>2. "migrate" \in {"switch"} \cup MoreKinds
          BY DEF MoreKinds
    <3> QED BY <1>1, <1>3, <3>1, <3>2 DEF MScan, MStarts, DonePc, AlreadyAlone, Login, OpType
  <2> QED BY <1>3, <2>1 DEF FwdInv, Prepared, Carried, Finished, SwitchReady, MReady, MAdded,
                           MVerified, Late
<1>4. CASE op'.pc \notin {"m_prepare", "m_inventory"}
  <2>1. op'.pc \in {"stopped", "switched", "persist", "prepare", "inventory"} /\ op'.pc # "inventory"
        BY <1>1, <1>4 DEF Found
  <2>2. op'.src = NoFw
        BY <1>1, <1>4, <2>1 DEF Found
  <2> QED BY <2>1, <2>2, ForwardPcs, LeavesForward
<1> QED BY <1>2, <1>3, <1>4

LEMMA MInventoryFwd ==
  ASSUME ActInv, FwdInv, MInventory
  PROVE  FwdInv'
<1> USE DEF ActInv
<1>1. OpOK(op') /\ Kin(op, op') /\ UNCHANGED <<fw, ssh>> /\ op.pc = "m_inventory" /\ op \in OpType
      BY MInventoryOK, ReadsOnly DEF MInventory, At, OpOK
<1>2. \/ op'.pc \in {"stopped", "asked"}
      \/ /\ op'.pc = IF op.wason THEN "m_detect" ELSE "m_prepare"
         /\ op'.kind = op.kind
         /\ \E w : op'.want = w \cup {Ssh} /\ op'.todo = w \ {Ssh}
  <2>1. \A pc : Go(pc) => op'.pc = pc
        BY GoAlike
  <2> DEFINE now == fw[src].rules
             got == [op EXCEPT !.asked = now, !.had = now \ Ambiguous, !.unclear = now \cap Ambiguous,
                               !.base = fw[dst].rules]
             goes(want) == op' = [got EXCEPT !.pc = IF op.wason THEN "m_detect" ELSE "m_prepare",
                                             !.want = want \cup {Ssh}, !.todo = want \ {Ssh}]
  <2>2. src \in Backends /\ fw[src] \in FwType /\ fw[dst] \in FwType
        BY <1>1, PartyFields DEF OpOK, Sourced, Reconcile, src
  <2>3. got \in OpType /\ got.kind = op.kind
    <3>1. now \in SUBSET Ports /\ fw[dst].rules \in SUBSET Ports
          BY <2>2, FwFields
    <3>2. got \in OpType
          BY <1>1, <3>1, Updates
    <3> QED BY <1>1, <3>2 DEF OpType
  <2> HIDE DEF got
  <2>4. ASSUME NEW w, goes(w)
        PROVE  /\ op'.pc = IF op.wason THEN "m_detect" ELSE "m_prepare"
               /\ op'.kind = op.kind /\ op'.want = w \cup {Ssh} /\ op'.todo = w \ {Ssh}
        BY <2>3, <2>4 DEF OpType
  <2>5. \/ goes({}) \/ goes(got.had \ op.skip) \/ Go("stopped")
        \/ op' = [got EXCEPT !.pc = "asked"] \/ op' = [op EXCEPT !.pc = "asked", !.blind = src]
        BY DEF MInventory, got
  <2>6. op' \in {[got EXCEPT !.pc = "asked"], [op EXCEPT !.pc = "asked", !.blind = src]} => op'.pc = "asked"
        BY <1>1, <2>3 DEF OpType
  <2> HIDE DEF goes
  <2> QED BY <2>1, <2>4, <2>5, <2>6
<1>3. CASE op'.pc \in {"stopped", "asked"}
      BY <1>3, ForwardPcs, LeavesForward
<1>4. CASE op'.pc \notin {"stopped", "asked"}
  <2>1. Reconcile' = Reconcile /\ op'.wason = op.wason
        BY <1>1 DEF Kin, Reconcile, src
  <2>2. op'.pc = IF op.wason THEN "m_detect" ELSE "m_prepare"
        BY <1>2, <1>4
  <2>3. op'.kind = op.kind /\ op'.want \subseteq op'.todo \cup {Ssh}
        BY <1>2, <1>4
  <2>4. Prepared' /\ Finished'
        BY <2>1, <2>2 DEF Prepared, Finished, SwitchReady, MReady, MAdded, MVerified, Late
  <2>5. Carried'
        BY <1>1, <2>1, <2>2, <2>3 DEF FwdInv, Carried, MReady, MAdded, MVerified
  <2> QED BY <2>4, <2>5 DEF FwdInv
<1> QED BY <1>3, <1>4

LEMMA MPrepareFwd ==
  ASSUME ActInv, FwdInv, MPrepare
  PROVE  FwdInv'
<1> USE DEF ActInv
<1>1. OpOK(op') /\ Kin(op, op') /\ UNCHANGED ssh /\ op.pc = "m_prepare" /\ op \in OpType
      BY MPrepareOK DEF MPrepare, At, OpOK
<1> DEFINE begun == [op EXCEPT !.made = (dst = "nftables" /\ ~fw[dst].have)]
           refused == dst = "nftables" /\ fw[dst].have /\ ~fw[dst].named
<1>2. begun \in OpType
      BY <1>1 DEF OpType
<1>3. CASE GiveUp(begun)
      BY <1>2, <1>3, GiveUpPc, ForwardPcs, LeavesForward
<1>4. CASE ~refused /\ Works(dst, Readied(dst, fw[dst])) /\ op' = [begun EXCEPT !.pc = "m_detect", !.ready = TRUE]
  <2>1. op'.pc = "m_detect" /\ op'.kind = op.kind /\ op'.want = op.want /\ op'.todo = op.todo
        BY <1>1, <1>4 DEF OpType
  <2>2. Reconcile' = Reconcile /\ dst' = dst /\ op'.wason = op.wason
        BY <1>1 DEF Kin, Reconcile, src, dst
  <2>3. (dst = "firewalld" => fw'[dst].boot) /\ (dst = "nftables" => fw'[dst].named)
        BY <1>4, ReadiesTarget
  <2>4. Prepared' /\ Finished'
        BY <2>1, <2>2, <2>3 DEF Prepared, Finished, SwitchReady, MReady, MAdded, MVerified, Late
  <2>5. Carried'
        BY <1>1, <2>1, <2>2 DEF FwdInv, Carried, MReady, MAdded, MVerified
  <2> QED BY <2>4, <2>5 DEF FwdInv
<1> QED BY <1>3, <1>4 DEF MPrepare

\* A step of a migration that changes nothing of the server.
LEMMA MGoesOn ==
  ASSUME ActInv, FwdInv, Alike(op, op'), UNCHANGED <<fw, ssh, moved>>,
         op.pc \in MReady, op'.pc \in MReady,
         op'.pc \in MAdded => op.pc \in MAdded, op'.pc \in MVerified => op.todo = {},
         op'.pc \in {"m_detect", "m_allow"} => op.pc \in {"m_detect", "m_allow"},
         op'.pc \in Late => op.pc \in Late \/ ~Reconcile,
         op'.pc \in {"m_login2", "m_verify2"} => op.pc \in {"m_login2", "m_verify2"} \/ fw[dst].on
  PROVE  FwdInv'
<1>1. /\ src' = src /\ dst' = dst /\ Reconcile' = Reconcile /\ op'.wason = op.wason
      /\ op'.kind = op.kind /\ op'.want = op.want /\ op'.todo = op.todo /\ op'.warned = op.warned
      BY DEF Alike, src, dst, Reconcile
<1>2. Prepared'
      BY <1>1 DEF FwdInv, Prepared, SwitchReady, MReady, MAdded, MVerified
<1>3. Carried'
      BY <1>1 DEF FwdInv, Carried, MReady, MAdded, MVerified
<1>4. Finished'
      BY <1>1 DEF FwdInv, Finished, MReady, MAdded, MVerified, Late
<1> QED BY <1>2, <1>3, <1>4 DEF FwdInv

LEMMA MReadingFwd ==
  ASSUME ActInv, FwdInv, MDetect \/ MVerify \/ MLogin \/ MConfirm \/ MLoginAfter
  PROVE  FwdInv'
<1> USE DEF ActInv
<1>1. op \in OpType /\ UNCHANGED <<fw, ssh, moved>>
      BY ReadsOnly DEF MDetect, MVerify, MLogin, MConfirm, MLoginAfter, OpOK
<1>2. CASE GiveUp(op)
      BY <1>1, <1>2, GiveUpPc, ForwardPcs, LeavesForward
<1>3. ASSUME NEW pc, Go(pc) PROVE op'.pc = pc /\ Alike(op, op')
      BY <1>3, GoAlike
<1> USE DEF MReady, MAdded, MVerified, Late
<1>4. CASE MDetect /\ Go("m_allow")
  <2>1. op'.pc = "m_allow" /\ Alike(op, op') /\ op.pc = "m_detect"
        BY <1>3, <1>4 DEF MDetect, At
  <2> QED BY <1>1, <2>1, MGoesOn
<1>5. CASE MVerify /\ Go("m_login")
  <2>1. op'.pc = "m_login" /\ Alike(op, op') /\ op.pc = "m_verify"
        BY <1>3, <1>5 DEF MVerify, At
  <2>2. op.todo = {}
        BY <2>1 DEF FwdInv, Carried
  <2> QED BY <1>1, <2>1, <2>2, MGoesOn
<1>6. CASE MLogin /\ Go(IF op.kind = "install" THEN "m_final" ELSE "m_confirm")
  <2>1. /\ op'.pc = IF op.kind = "install" THEN "m_final" ELSE "m_confirm"
        /\ Alike(op, op') /\ op.pc = "m_login"
        BY <1>3, <1>6 DEF MLogin, At
  <2>2. op.todo = {} /\ (Reconcile => op.kind = "migrate")
        BY <2>1 DEF FwdInv, Carried
  <2> QED BY <1>1, <2>1, <2>2, MGoesOn
<1>7. CASE MConfirm /\ Go(IF Reconcile THEN "m_off" ELSE "m_final")
  <2>1. /\ op'.pc = IF Reconcile THEN "m_off" ELSE "m_final"
        /\ Alike(op, op') /\ op.pc = "m_confirm"
        BY <1>3, <1>7 DEF MConfirm, At
  <2>2. op.todo = {}
        BY <2>1 DEF FwdInv, Carried
  <2> QED BY <1>1, <2>1, <2>2, MGoesOn
<1>8. CASE MLoginAfter /\ Go("m_verify2")
  <2>1. op'.pc = "m_verify2" /\ Alike(op, op') /\ op.pc = "m_login2"
        BY <1>3, <1>8 DEF MLoginAfter, At
  <2>2. op.todo = {}
        BY <2>1 DEF FwdInv, Carried
  <2> QED BY <1>1, <2>1, <2>2, MGoesOn
<1> QED BY <1>2, <1>4, <1>5, <1>6, <1>7, <1>8 DEF MDetect, MVerify, MLogin, MConfirm, MLoginAfter, Looks, Sees, Login

\* A rule that a migration opens, or fails to.
LEMMA MOpens ==
  ASSUME ActInv, NEW p \in Ports, NEW yes, NEW no,
         Works(dst, Opened(dst, fw[dst], p)) \/ Refused(p, yes, no) \/ Raised(p)
  PROVE  /\ fw'[dst].boot = fw[dst].boot /\ fw'[dst].named = fw[dst].named
         /\ dst = "firewalld" => fw[dst].saved \subseteq fw'[dst].saved
         /\ dst = "firewalld" /\ Works(dst, Opened(dst, fw[dst], p)) => p \in fw'[dst].saved
<1> USE DEF ActInv
<1> DEFINE done == Opened(dst, fw[dst], p)
           half == HalfOpened(dst, fw[dst], p)
<1>1. dst \in Backends /\ fw[dst] \in FwType /\ done \in FwType
      BY PartyFields, OpenedType
<1>2. \A x \in {done} \cup half : x.boot = fw[dst].boot /\ x.named = fw[dst].named
      BY <1>1, OpenedPlain
<1>3. dst = "firewalld" => /\ \A x \in {done} \cup half : fw[dst].saved \subseteq x.saved
                           /\ p \in done.saved
      BY <1>1, OpenedFirm
<1> HIDE DEF done, half
<1>4. ASSUME NEW x \in Undumped(done, fw[dst]), dst = "nftables"
      PROVE  x.boot = fw[dst].boot /\ x.named = fw[dst].named
      BY <1>1, <1>2, <1>4 DEF Undumped, FwType
<1>5. \A x : Set(dst, x) => fw'[dst] = x
      BY <1>1 DEF Set, FwOK
<1>6. Works(dst, done) => \E x : /\ Set(dst, x)
                                 /\ x = done \/ (dst = "nftables" /\ x \in Undumped(done, fw[dst]))
      BY DEF Works
<1>7. CASE Works(dst, done)
  <2>1. PICK x : Set(dst, x) /\ (x = done \/ (dst = "nftables" /\ x \in Undumped(done, fw[dst])))
        BY <1>6, <1>7
  <2> QED BY <1>2, <1>3, <1>4, <1>5, <2>1 DEF done, half
<1>8. CASE ~Works(dst, done)
  <2>1. Same \/ \E x \in {done} \cup half : Set(dst, x)
        BY <1>8 DEF Refused, Raised, Fails, done, half
  <2>2. fw'[dst] \in {fw[dst], done} \cup half
        BY <1>5, <2>1 DEF Same
  <2> QED BY <1>2, <1>3, <1>8, <2>2 DEF done, half
<1> QED BY <1>7, <1>8

LEMMA MAllowFwd ==
  ASSUME ActInv, FwdInv, MAllow
  PROVE  FwdInv'
<1> USE DEF ActInv
<1>1. UNCHANGED <<ssh, moved>> /\ op.pc = "m_allow" /\ op \in OpType /\ Kin(op, op)
      BY DEF MAllow, At, OpOK, Kin, AtRest, Deciding
<1> DEFINE n == New(Ssh, op)
<1>2. n \in OpType /\ Alike(op, n)
  <2>1. OpOK(n)
        BY <1>1, NewOK, SshIsPort
  <2>2. Alike(op, n)
        BY <1>1 DEF New, Alike, OpType
  <2> QED BY <2>1, <2>2 DEF OpOK
<1> HIDE DEF n
<1>3. CASE GiveUp(op) \/ GiveUp(n)
      BY <1>1, <1>2, <1>3, GiveUpPc, ForwardPcs, LeavesForward
<1>4. CASE Works(dst, Opened(dst, fw[dst], Ssh)) /\ op' = [n EXCEPT !.pc = "m_add"]
  <2>1. op'.pc = "m_add" /\ Alike(op, op')
        BY <1>2, <1>4 DEF Alike, OpType
  <2>2. src' = src /\ dst' = dst /\ Reconcile' = Reconcile /\ op'.wason = op.wason /\ op'.kind = op.kind
        BY <2>1 DEF Alike, src, dst, Reconcile
  <2>3. /\ fw'[dst].boot = fw[dst].boot /\ fw'[dst].named = fw[dst].named
        /\ dst = "firewalld" => Ssh \in fw'[dst].saved
        BY <1>4, SshIsPort, MOpens
  <2>4. op'.want \subseteq op'.todo \cup {Ssh}
        BY <1>1, <2>1 DEF FwdInv, Carried, Alike
  <2>5. Prepared'
        BY <1>1, <2>1, <2>2, <2>3 DEF FwdInv, Prepared, SwitchReady, MReady, MAdded, MVerified
  <2>6. Carried'
        BY <1>1, <2>1, <2>2, <2>3, <2>4 DEF FwdInv, Carried, MReady, MAdded, MVerified
  <2>7. Finished'
        BY <2>1 DEF Finished, Late
  <2> QED BY <2>5, <2>6, <2>7 DEF FwdInv
<1> QED BY <1>3, <1>4 DEF MAllow, Refused, n

LEMMA MAddFwd ==
  ASSUME ActInv, FwdInv, MAdd
  PROVE  FwdInv'
<1> USE DEF ActInv
<1>1. UNCHANGED <<ssh, moved>> /\ op.pc = "m_add" /\ op \in OpType
      BY DEF MAdd, At, OpOK
<1>2. CASE GiveUp(op)
      BY <1>1, <1>2, GiveUpPc, ForwardPcs, LeavesForward
<1>3. CASE op.todo = {} /\ ~GiveUp(op)
  <2>1. UNCHANGED fw /\ op'.pc = "m_verify" /\ Alike(op, op')
        BY <1>3, GoAlike DEF MAdd, Same
  <2> QED BY <1>1, <1>3, <2>1, MGoesOn DEF MReady, MAdded, MVerified, Late
<1>4. ASSUME NEW p \in op.todo,
             NEW left, left = [op EXCEPT !.todo = @ \ {p}],
             NEW bad, bad = [left EXCEPT !.failed = @ \cup {p}, !.want = @ \ {p}],
             \/ Works(dst, Opened(dst, fw[dst], p)) /\ op' = New(p, left)
             \/ Refused(p, op' = bad, op' = New(p, bad))
             \/ Raised(p) /\ op' = [bad EXCEPT !.loose = TRUE]
      PROVE  FwdInv'
  <2>1. /\ p \in Ports /\ op.todo \in SUBSET Ports /\ op.failed \in SUBSET Ports
        /\ op.want \in SUBSET Ports /\ op.added \in SUBSET Ports
        BY <1>1, OpFields
  <2>2. left \in OpType /\ left.pc = "m_add" /\ left.src = op.src /\ left.dst = op.dst
        /\ left.wason = op.wason /\ left.kind = op.kind /\ left.want = op.want /\ left.todo = op.todo \ {p}
        BY <1>1, <1>4, <2>1 DEF OpType
  <2>3. bad \in OpType /\ bad.pc = "m_add" /\ bad.src = op.src /\ bad.dst = op.dst /\ bad.wason = op.wason
        /\ bad.kind = op.kind /\ bad.want = op.want \ {p} /\ bad.todo = op.todo \ {p}
    <3>1. bad.todo = left.todo
          BY <1>4, <2>2 DEF OpType
    <3>2. bad \in OpType /\ bad.want = left.want \ {p}
      <4>1. left.failed \cup {p} \in SUBSET Ports /\ left.want \ {p} \in SUBSET Ports
            BY <2>1, <2>2, OpFields
      <4>2. [left EXCEPT !.failed = left.failed \cup {p}] \in OpType
            BY <2>2, <4>1, Updates
      <4>3. bad = [[left EXCEPT !.failed = left.failed \cup {p}] EXCEPT !.want = left.want \ {p}]
            BY <1>4, <2>2, <4>2 DEF OpType
      <4>4. bad \in OpType
            BY <4>1, <4>2, <4>3, Updates
      <4> QED BY <1>4, <2>2, <4>4 DEF OpType
    <3>3. /\ bad.pc = left.pc /\ bad.src = left.src /\ bad.dst = left.dst
          /\ bad.wason = left.wason /\ bad.kind = left.kind
          BY <1>4, <2>2 DEF OpType
    <3> QED BY <2>2, <3>1, <3>2, <3>3
  <2>4. ASSUME NEW o \in OpType
        PROVE  Alike(o, New(p, o)) /\ New(p, o).pc = o.pc
        BY <2>4 DEF New, Alike, OpType
  <2>5. Alike(bad, [bad EXCEPT !.loose = TRUE]) /\ [bad EXCEPT !.loose = TRUE].pc = bad.pc
        BY <2>3 DEF Alike, OpType
  <2>6. /\ op'.pc = "m_add" /\ op'.src = op.src /\ op'.dst = op.dst /\ op'.wason = op.wason
        /\ op'.kind = op.kind /\ op'.todo = op.todo \ {p}
        /\ \/ op'.want = op.want \ {p}
           \/ op'.want = op.want /\ Works(dst, Opened(dst, fw[dst], p))
    <3>1. CASE op' = New(p, left) /\ Works(dst, Opened(dst, fw[dst], p))
          BY <2>2, <2>4, <3>1 DEF Alike
    <3>2. CASE op' \in {bad, New(p, bad), [bad EXCEPT !.loose = TRUE]}
          BY <2>3, <2>4, <2>5, <3>2 DEF Alike
    <3> QED BY <1>4, <3>1, <3>2 DEF Refused
  <2>7. src' = src /\ dst' = dst /\ Reconcile' = Reconcile
        BY <2>6 DEF src, dst, Reconcile
  <2>8. /\ fw'[dst].boot = fw[dst].boot /\ fw'[dst].named = fw[dst].named
        /\ dst = "firewalld" => fw[dst].saved \subseteq fw'[dst].saved
        /\ dst = "firewalld" /\ Works(dst, Opened(dst, fw[dst], p)) => p \in fw'[dst].saved
        BY <1>4, <2>1, MOpens
  <2>9. Prepared'
        BY <1>1, <2>6, <2>7, <2>8 DEF FwdInv, Prepared, SwitchReady, MReady, MAdded, MVerified
  <2>10. Carried'
    <3>1. ssh /\ dst = "firewalld" => op.want \ (op.todo \cup moved) \subseteq fw[dst].saved
          BY <1>1 DEF FwdInv, Carried, MAdded
    <3>2. ssh' /\ dst' = "firewalld" => op'.want \ (op'.todo \cup moved') \subseteq fw'[dst'].saved
          BY <1>1, <2>6, <2>7, <2>8, <3>1
    <3>3. Reconcile => op.kind = "migrate"
          BY <1>1 DEF FwdInv, Carried, MReady, MAdded
    <3> QED BY <2>6, <2>7, <3>2, <3>3 DEF Carried, MVerified
  <2>11. Finished'
        BY <2>6 DEF Finished, Late
  <2> QED BY <2>9, <2>10, <2>11 DEF FwdInv
<1> QED BY <1>2, <1>3, <1>4 DEF MAdd

LEMMA MSourceOffFwd ==
  ASSUME ActInv, HostInv, FwdInv, MSourceOff, ~overlooked'
  PROVE  FwdInv'
<1> USE DEF ActInv
<1>1. OpOK(op') /\ UNCHANGED <<ssh, moved>> /\ op.pc = "m_off" /\ op \in OpType /\ Reconcile
      BY TurnsKin DEF MSourceOff, At, OpOK, Sourced, Reconcile, src
<1>2. /\ dst \in Backends /\ src \in Backends /\ src # dst
      /\ fw[src] \in FwType /\ fw[dst] \in FwType /\ Sound(src, fw[src])
      BY <1>1, PartyFields DEF OpOK, HostInv, src, dst
<1> DEFINE begun == [op EXCEPT !.was = fw[src], !.kept = "partly"]
           done == Disabled(src, fw[src])
<1>3. begun \in OpType
      BY <1>1, <1>2, Updates
<1> HIDE DEF begun, done
<1>4. CASE GiveUp(op) \/ GiveUp(begun)
      BY <1>1, <1>3, <1>4, GiveUpPc, ForwardPcs, LeavesForward
<1>5. CASE /\ Works(src, done)
           /\ op' = [op EXCEPT !.pc = "m_final", !.was = fw[src], !.kept = "yes", !.warned = fw'[src] # done]
  <2>1. /\ op'.pc = "m_final" /\ op'.src = op.src /\ op'.dst = op.dst /\ op'.wason = op.wason
        /\ op'.kind = op.kind /\ op'.want = op.want /\ op'.todo = op.todo
        /\ ~op'.warned => fw'[src] = done
        BY <1>1, <1>5 DEF OpType
  <2>2. fw'[dst] = fw[dst]
        BY <1>2, <1>5 DEF Works, Set, FwOK
  <2>3. ~done.on /\ ~Booted(src, done).on
        BY <1>2, DisabledFirm DEF done
  <2>4. src' = src /\ dst' = dst /\ Reconcile' = Reconcile
        BY <2>1 DEF src, dst, Reconcile
  <2>5. Prepared'
        BY <1>1, <2>1, <2>2, <2>4 DEF FwdInv, Prepared, SwitchReady, MReady, MAdded, MVerified
  <2>6. Carried'
        BY <1>1, <2>1, <2>2, <2>4 DEF FwdInv, Carried, MReady, MAdded, MVerified
  <2>7. Finished'
        BY <2>1, <2>3, <2>4 DEF Finished
  <2> QED BY <2>5, <2>6, <2>7 DEF FwdInv
<1> QED BY <1>4, <1>5 DEF MSourceOff, OffBlindly, Overlooks, begun, done

LEMMA MFinalScanFwd ==
  ASSUME ActInv, FwdInv, MFinalScan, ~overlooked'
  PROVE  FwdInv'
<1> USE DEF ActInv
<1>1. op \in OpType /\ UNCHANGED <<fw, ssh, moved>> /\ op.pc = "m_final"
      BY ReadsOnly DEF MFinalScan, At, OpOK
<1>2. CASE GiveUp(op)
      BY <1>1, <1>2, GiveUpPc, ForwardPcs, LeavesForward
<1>3. op.todo = {} /\ (Reconcile => op.kind = "migrate")
      BY <1>1 DEF FwdInv, Carried, MReady, MAdded, MVerified
<1>4. CASE Active(fw) = {dst} /\ op.kind = "migrate" /\ Go("m_login2")
  <2>1. op'.pc = "m_login2" /\ Alike(op, op') /\ fw[dst].on
        BY <1>4, GoAlike, ActiveFacts DEF Filters
  <2> QED BY <1>1, <1>3, <2>1, MGoesOn DEF MReady, MAdded, MVerified, Late
<1>5. CASE op.kind # "migrate" /\ \E pc \in {"persist", "switched"} : Go(pc)
  <2>1. op'.pc \in {"persist", "switched"} /\ Alike(op, op')
        BY <1>5, GoAlike
  <2>2. op'.src = NoFw
        BY <1>3, <1>5, <2>1 DEF Alike, Reconcile, src
  <2> QED BY <2>1, <2>2, LeavesForward
<1>6. \/ GiveUp(op)
      \/ /\ Active(fw) = {dst}
         /\ \E pc \in {"m_login2", "persist", "switched"} :
              Go(pc) /\ (pc = "m_login2" <=> op.kind = "migrate")
  <2> DEFINE next == IF op.kind = "migrate" THEN "m_login2"
                     ELSE IF fw[dst].named /\ dst = "nftables" THEN "persist" ELSE "switched"
  <2>1. GiveUp(op) \/ (Active(fw) = {dst} /\ Go(next))
        BY DEF MFinalScan, Looks, OnlyTarget, Overlooks, DonePc
  <2>2. next \in {"m_login2", "persist", "switched"} /\ (next = "m_login2" <=> op.kind = "migrate")
        OBVIOUS
  <2> HIDE DEF next
  <2> QED BY <2>1, <2>2
<1> QED BY <1>2, <1>4, <1>5, <1>6

LEMMA MFinalRulesFwd ==
  ASSUME ActInv, HostInv, FwdInv, MFinalRules
  PROVE  FwdInv'
<1> USE DEF ActInv
<1>1. op \in OpType /\ UNCHANGED <<fw, ssh, moved>> /\ op.pc = "m_verify2"
      BY ReadsOnly DEF MFinalRules, At, OpOK
<1>2. CASE GiveUp(op)
      BY <1>1, <1>2, GiveUpPc, ForwardPcs, LeavesForward
<1>3. CASE ~GiveUp(op)
  <2> DEFINE next == IF fw[dst].named /\ dst = "nftables" THEN "persist" ELSE "switched"
  <2>1. ssh /\ op.want \subseteq fw[dst].rules /\ Go(next)
        BY <1>3 DEF MFinalRules, Sees, Reads, DonePc
  <2>2. op'.pc = next /\ Alike(op, op')
        BY <2>1, GoAlike
  <2>3. src' = src /\ dst' = dst /\ Reconcile' = Reconcile
        BY <2>2 DEF Alike, src, dst, Reconcile
  <2>4. CASE ~Reconcile
        BY <2>2, <2>3, <2>4, LeavesForward DEF Reconcile, src
  <2>5. CASE Reconcile
    <3>1. fw[dst].on /\ op.kind = "migrate" /\ op.todo = {}
          BY <1>1, <2>1, <2>5 DEF FwdInv, Finished, Carried, MReady, MAdded, MVerified
    <3>2. dst \in Backends /\ fw[dst] \in FwType
          BY PartyFields
    <3>3. Prepared' /\ Carried'
          BY <2>2 DEF Prepared, Carried, SwitchReady, MReady, MAdded, MVerified
    <3>4. ~op.warned => ~fw[src].on /\ ~Booted(src, fw[src]).on
          BY <1>1, <2>5 DEF FwdInv, Finished, Late
    <3>5. Kept(op', fw[dst].rules, moved)
          BY <2>1, <2>2, <3>1 DEF Kept, Alike
    <3>6. CASE next = "persist"
          BY <1>1, <2>2, <2>3, <2>5, <3>1, <3>3, <3>4, <3>5, <3>6 DEF FwdInv, Finished, Alike, Late
    <3>7. CASE next = "switched"
      <4>1. dst # "nftables"
            BY <1>1, <2>1, <3>7 DEF FwdInv, Prepared, MReady, MAdded, MVerified, HostInv, Managed
      <4>2. dst = "firewalld" => /\ fw[dst].boot \/ op.wason
                                 /\ op.want \ moved \subseteq fw[dst].saved
            BY <1>1, <2>1, <3>1 DEF FwdInv, Prepared, Carried, MReady, MAdded, MVerified
      <4>3. CASE dst = "firewalld"
        <5>1. Booted(dst, fw[dst]).on = fw[dst].boot /\ Booted(dst, fw[dst]).rules = fw[dst].saved
              BY <3>2, <4>3 DEF Booted, FwType
        <5>2. Kept(op', fw[dst].saved, moved)
              BY <2>2, <3>1, <4>2, <4>3 DEF Kept, Alike
        <5> QED BY <1>1, <2>2, <2>3, <3>3, <3>4, <3>5, <3>7, <4>2, <4>3, <5>1, <5>2
                DEF FwdInv, Finished, Alike, Late
      <4>4. CASE dst = "ufw"
        <5>1. Booted(dst, fw[dst]) = fw[dst]
              BY <4>4 DEF Booted
        <5> QED BY <1>1, <2>2, <2>3, <3>1, <3>3, <3>4, <3>5, <3>7, <5>1 DEF FwdInv, Finished, Alike, Late
      <4> QED BY <3>2, <4>1, <4>3, <4>4 DEF Backends
    <3> QED BY <3>6, <3>7
  <2> QED BY <2>4, <2>5
<1> QED BY <1>2, <1>3

\* Nothing but a new request forgets that a firewall was overlooked.
LEMMA Remembers ==
  ASSUME ActInv, [NextMore]_vars, overlooked
  PROVE  \/ overlooked'
         \/ Decide \/ MDecide
         \/ \E b \in Backends : Request(b) \/ \E k \in MoreKinds : RequestMore(b, k)
<1>1. ASSUME Costs PROVE overlooked'
      BY <1>1 DEF Costs, Fine, Upset
<1>2. CASE Prepares \/ Finishes \/ MPrepares \/ MUndoes \/ Removes
      BY <1>1, <1>2, PreparesOK, FinishesOK, MPreparesOK, MUndoesOK, RemovesOK DEF ActInv
<1>3. CASE Confirm \/ MConfirm \/ SourceOff \/ MSourceOff \/ ProveSource \/ MSafe
      BY <1>1, <1>3, TurnsKin
<1>4. CASE Scan \/ MScan
      BY <1>1, <1>4, ScansOn
<1>5. CASE \E b \in Backends : Disable(b) \/ Enable(b)
      BY <1>5 DEF Upset, Disable, Enable, OneCall
<1>6. CASE (\E p \in Ports : Edit(p)) \/ Reboot
      BY <1>6 DEF Upset, Edit, Reboot
<1>7. CASE UNCHANGED vars
      BY <1>7 DEF vars
<1> QED BY <1>2, <1>3, <1>4, <1>5, <1>6, <1>7, StepsOf

LEMMA FwdStep ==
  ASSUME ActInv, HostInv, ~overlooked => FwdInv, [NextMore]_vars, ~overlooked'
  PROVE  FwdInv'
<1> USE DEF ActInv
<1>1. FwdInv \/ Decide \/ MDecide
      \/ \E b \in Backends : Request(b) \/ \E k \in MoreKinds : RequestMore(b, k)
      BY Remembers
<1>2. CASE \/ Decide \/ MDecide
           \/ \E b \in Backends : Request(b) \/ \E k \in MoreKinds : RequestMore(b, k)
  <2>1. Go("stopped") \/ Fresh(op')
        BY <1>2, StartsOn
  <2>2. CASE Go("stopped")
    <3>1. op'.pc = "stopped"
          BY <2>2, GoAlike
    <3> QED BY <3>1, ForwardPcs, LeavesForward
  <2>3. CASE Fresh(op')
    <3>1. op'.pc \in {"idle", "scan", "m_scan", "r_scan"} /\ op'.src = NoFw
          BY <2>3 DEF Fresh
    <3> QED BY <3>1, ForwardPcs, LeavesForward
  <2> QED BY <2>1, <2>2, <2>3
<1>3. ASSUME FwdInv PROVE FwdInv'
  <2>1. CASE Prepares
        BY <2>1, <1>3, InventoryFwd, PrepareFwd, AllowSshFwd, ReadingFwd, AddRuleFwd, DropRuleFwd DEF Prepares
  <2>2. CASE Finishes
        BY <2>2, <1>3, LoginAfterFwd, FinalScanFwd, PersistFwd, Backwards, LeavesForward DEF Finishes
  <2>3. CASE MPrepares
        BY <2>3, <1>3, MInventoryFwd, MPrepareFwd, MReadingFwd, MAllowFwd, MAddFwd, MFinalScanFwd, MFinalRulesFwd
        DEF MPrepares
  <2>4. CASE MUndoes \/ Removes \/ ProveSource \/ MSafe
        BY <2>4, <1>3, Backwards, LeavesForward
  <2>5. CASE Confirm \/ MConfirm \/ SourceOff \/ MSourceOff
        BY <2>5, <1>3, ReadingFwd, MReadingFwd, SourceOffFwd, MSourceOffFwd
  <2>6. CASE Scan \/ MScan
        BY <2>6, <1>3, ScanFwd, MScanFwd
  <2>7. CASE \E b \in Backends : Disable(b) \/ Enable(b)
    <3>1. op' = Idle(dst)
          BY <2>7, <1>3, OneCallOn
    <3>2. op'.pc = "idle"
          BY <3>1 DEF Idle
    <3> QED BY <3>2, ForwardPcs, LeavesForward
  <2>8. CASE \E p \in Ports : Edit(p)
        BY <2>8, <1>3, EditFwd
  <2>9. CASE Reboot
        BY <2>9, <1>3, RebootFwd
  <2>10. CASE UNCHANGED vars
    <3>1. UNCHANGED <<fw, op, ssh, moved>>
          BY <2>10 DEF vars
    <3> QED BY <1>3, <3>1 DEF FwdInv, Prepared, Carried, Finished, src, dst, Reconcile
  <2> QED BY StepsOf, <1>2, <2>1, <2>2, <2>3, <2>4, <2>5, <2>6, <2>7, <2>8, <2>9, <2>10
<1> QED BY <1>1, <1>2, <1>3

\* A switch or migration that was reported as done, its rules saved, outlives a
\* reboot, unless it took an installed firewall for absent, with any number of
\* other failures, changes by others and reboots on the way: on a server that has
\* one request at a time and where no table that the panel does not manage is
\* started at boot (its persistence is up to the administrator, nftables.py).
THEOREM SwitchLasts ==
  SpecMore /\ Own(fw["nftables"]) => []SwitchOutlivesReboot
<1> DEFINE Inv == ActInv /\ HostInv /\ (~overlooked => FwdInv)
<1>1. Init /\ Own(fw["nftables"]) => Inv
  <2> SUFFICES ASSUME Init, Own(fw["nftables"]) PROVE ActInv /\ HostInv /\ FwdInv
      OBVIOUS
  <2>1. op.pc = "idle" /\ op.pc \notin Forward
        BY ForwardPcs DEF Init, Idle
  <2>2. FwdInv
        BY <2>1 DEF FwdInv, Prepared, Carried, Finished, Forward, SwitchReady, MReady, MAdded, MVerified, Late
  <2> QED BY <2>2, ActInit, HostInit
<1>2. Inv /\ [NextMore]_vars => Inv'
      BY ActStep, HostStep, FwdStep
<1>3. Inv => SwitchOutlivesReboot
  <2> SUFFICES ASSUME ActInv, FwdInv, op.pc = "switched", Reconcile, ~op.warned
               PROVE  /\ AfterReboot[dst].on \/ op.wason
                      /\ ~AfterReboot[src].on
                      /\ \A p \in Ports \ moved :
                           /\ p \in op.want => p \in AfterReboot[dst].rules
                           /\ op.kind = "switch" /\ p \in AfterReboot[dst].rules => p \in op.want
      BY DEF SwitchOutlivesReboot, SwitchIsReal
  <2>1. dst \in Backends /\ src \in Backends
        BY PartyFields DEF ActInv
  <2>2. AfterReboot[dst] = Booted(dst, fw[dst]) /\ AfterReboot[src] = Booted(src, fw[src])
        BY <2>1 DEF AfterReboot
  <2> QED BY <2>2 DEF FwdInv, Finished, Late, Kept
<1> QED BY <1>1, <1>2, <1>3, PTL DEF SpecMore
=============================================================================
