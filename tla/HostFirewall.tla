---------------------------- MODULE HostFirewall ----------------------------
(***************************************************************************)
(* What the three firewall backends of core/quick_setup/firewall do to a    *)
(* server: the effect of a call that works, and the states it can be left   *)
(* in when one of its commands fails half-way.  A backend is a record:      *)
(*   have   ufw, firewalld: installed; nftables: the table "bot4vps" exists *)
(*   on     it filters                                                      *)
(*   rules  ports it admits now; saved: ports it will admit when started    *)
(*   boot   it is started at boot                                           *)
(*   file   nftables: what bot4vps.conf holds (with or without the bypass)  *)
(*   named  nftables: servers.json names the table as the one to manage     *)
(***************************************************************************)
EXTENDS Integers, FiniteSets

CONSTANTS Ports, Ssh    \* ports that occur in rules; the server's SSH port

Backends == {"ufw", "firewalld", "nftables"}
Managed == {"ufw", "firewalld"}

FwType == [have: BOOLEAN, on: BOOLEAN, rules: SUBSET Ports, boot: BOOLEAN,
           saved: SUBSET Ports, file: {"none", "on", "bypass"}, named: BOOLEAN]

\* _persist_owned_ruleset: the table, if it is the one named, is dumped; the
\* service follows the chain's state only when asked to (sync).
\* Mutated: the service is left as it is.
OnlyDumped(r, sync) ==
  [r EXCEPT !.saved = r.rules, !.file = IF r.on THEN "on" ELSE "bypass"]
Persisted(r, sync) ==
  IF ~r.named THEN r ELSE
  [r EXCEPT !.saved = r.rules, !.file = IF r.on THEN "on" ELSE "bypass",
            !.boot = IF sync THEN r.on ELSE @]

\* open_port: permanent before runtime for firewalld, the dump after the
\* rule for nftables.
Opened(b, r, p) ==
  IF p \in r.rules \cap r.saved \/ (b = "nftables" /\ p \in r.rules) THEN r
  ELSE LET added == [r EXCEPT !.rules = @ \cup {p}, !.saved = @ \cup {p}]
       IN  IF b = "nftables" THEN Persisted(added, FALSE) ELSE added
HalfOpened(b, r, p) ==
  CASE b = "firewalld" -> {[r EXCEPT !.saved = @ \cup {p}]}
    [] b = "nftables" -> {[r EXCEPT !.rules = @ \cup {p}]}
    [] OTHER -> {}

\* close_port and cleanup_mutation of an exact rule.
Dropped(b, r, p) ==
  LET less == [r EXCEPT !.rules = @ \ {p}, !.saved = @ \ {p}]
  IN  IF b = "nftables" THEN Persisted(less, FALSE) ELSE less
HalfDropped(b, r, p) ==
  CASE b = "firewalld" -> {[r EXCEPT !.saved = @ \ {p}]}
    [] b = "nftables" -> {[r EXCEPT !.rules = @ \ {p}]}
    [] OTHER -> {}

\* ensure_installed: the SSH port is admitted before filtering starts.
\* nftables: a table is made when there is none, else the bypass goes.
SshSaved(r) == [r EXCEPT !.have = TRUE, !.saved = @ \cup {Ssh},
                         !.rules = IF r.on THEN @ ELSE @ \cup {Ssh}]
\* Mutated: the filter is started first.
StartedFirst(b, r) == {[r EXCEPT !.have = TRUE, !.on = TRUE, !.rules = @ \ {Ssh}]}
NewTable(r, named) == [r EXCEPT !.have = TRUE, !.on = TRUE, !.rules = {Ssh}, !.named = @ \/ named]
Readied(b, r) ==
  CASE b = "nftables" /\ ~r.have -> NewTable(r, TRUE)
    [] b = "nftables" /\ r.have -> [Opened(b, r, Ssh) EXCEPT !.on = TRUE]
    [] b = "firewalld" -> LET s == SshSaved(r)
                          IN  [s EXCEPT !.on = TRUE, !.boot = TRUE,
                                        !.rules = IF r.on THEN @ \cup {Ssh} ELSE s.saved]
    [] OTHER -> [SshSaved(r) EXCEPT !.on = TRUE, !.boot = TRUE, !.rules = @ \cup {Ssh}]
HalfReadied(b, r) ==
  CASE b = "nftables" /\ ~r.have -> {NewTable(r, FALSE), NewTable(r, TRUE)}
    [] b = "nftables" /\ r.have -> {Opened(b, r, Ssh)} \cup HalfOpened(b, r, Ssh)
    [] OTHER -> {[r EXCEPT !.have = TRUE], SshSaved(r)}

\* activate of an installed, inactive backend.  firewalld is started before
\* the SSH port is opened.
Enabled(b, r) ==
  CASE b = "nftables" -> Persisted([Opened(b, r, Ssh) EXCEPT !.on = TRUE], TRUE)
    [] b = "firewalld" -> [Opened(b, [r EXCEPT !.on = TRUE, !.rules = r.saved], Ssh)
                             EXCEPT !.boot = TRUE]
    [] OTHER -> [Opened(b, r, Ssh) EXCEPT !.on = TRUE, !.boot = TRUE]
HalfEnabled(b, r) ==
  CASE b = "nftables" -> {Opened(b, r, Ssh), [Opened(b, r, Ssh) EXCEPT !.on = TRUE]}
    [] b = "firewalld" -> LET s == [r EXCEPT !.on = TRUE, !.rules = r.saved]
                          IN  {s, Opened(b, s, Ssh)} \cup HalfOpened(b, s, Ssh)
    [] OTHER -> {Opened(b, r, Ssh)}

\* deactivate: rules and configuration stay; nftables gets its bypass rule.
Disabled(b, r) ==
  CASE b = "nftables" -> Persisted([r EXCEPT !.on = FALSE], TRUE)
    [] b = "firewalld" -> [r EXCEPT !.on = FALSE, !.boot = FALSE, !.rules = r.saved]
    [] OTHER -> [r EXCEPT !.on = FALSE, !.boot = FALSE]
HalfDisabled(b, r) ==
  CASE b = "nftables" -> {[r EXCEPT !.on = FALSE]}
    [] b = "firewalld" -> {[r EXCEPT !.on = FALSE, !.rules = r.saved]}
    [] OTHER -> {}

\* restore, from the state deactivate returned.
Restored(b, r, was) ==
  CASE b = "nftables" -> Persisted([r EXCEPT !.on = TRUE], FALSE)
    [] b = "firewalld" -> [r EXCEPT !.boot = was.boot, !.on = was.on]
    [] OTHER -> [r EXCEPT !.on = TRUE, !.boot = TRUE]
HalfRestored(b, r, was) ==
  CASE b = "nftables" -> {[r EXCEPT !.on = TRUE]}
    [] b = "firewalld" -> {[r EXCEPT !.boot = was.boot]}
    [] OTHER -> {}

\* rollback_provisioned_ruleset: table, conf and service, and the choice.
\* Mutated: the table stays.
TableStays(r) == [r EXCEPT !.boot = FALSE, !.saved = {}, !.file = "none", !.named = FALSE]
Unprovisioned(r) == [r EXCEPT !.have = FALSE, !.on = FALSE, !.rules = {},
                              !.boot = FALSE, !.saved = {}, !.file = "none", !.named = FALSE]
HalfUnprovisioned(r) ==
  {[r EXCEPT !.have = FALSE, !.on = FALSE, !.rules = {}],
   [Unprovisioned(r) EXCEPT !.have = r.have, !.on = r.on, !.rules = r.rules],
   [Unprovisioned(r) EXCEPT !.file = r.file, !.saved = r.saved]}
\* The errors it does not report.
Unnoticed(r) ==
  {[Unprovisioned(r) EXCEPT !.boot = r.boot], [Unprovisioned(r) EXCEPT !.named = r.named]}

\* What a reboot leaves.
Booted(b, r) ==
  CASE b = "nftables" ->
         IF r.boot /\ r.file # "none"
         THEN [r EXCEPT !.have = TRUE, !.on = r.file = "on", !.rules = r.saved]
         ELSE [r EXCEPT !.have = FALSE, !.on = FALSE, !.rules = {}]
    [] b = "firewalld" -> [r EXCEPT !.on = r.boot, !.rules = r.saved]
    [] OTHER -> r

\* A port is reachable when every active firewall admits it.
Admits(fw, p) == \A b \in Backends : fw[b].on => p \in fw[b].rules

\* _logical_scan_on_ssh: nftables is hidden behind an active ufw or firewalld.
Active(fw) ==
  LET managed == {b \in Managed : fw[b].have /\ fw[b].on}
  IN  IF managed # {} THEN managed
      ELSE {b \in {"nftables"} : fw[b].have /\ fw[b].on}
\* The table named in servers.json has disappeared: detection fails.
Uncertain(fw) ==
  fw["nftables"].named /\ ~fw["nftables"].have /\ Active(fw) \cap Managed = {}
=============================================================================
