----------------------------- MODULE SshAccess -----------------------------
(***************************************************************************)
(* Who may enter a server and how: the operations of                        *)
(* core/quick_setup/ssh_access.py on accounts, passwords, keys, root login  *)
(* and password authentication, for a panel that has no other way in than   *)
(* the route servers.json records.  One remote command, login or            *)
(* compare-and-set of the record is one step.  The handlers run in worker   *)
(* threads that nothing serialises, so operations overlap when MayOverlap   *)
(* holds.  A command may be refused, or the connection lost with or without *)
(* its effect; a login may fail for a moment, a save may raise, the panel   *)
(* may die: at most MaxFaults such upsets.                                  *)
(***************************************************************************)
EXTENDS Integers, FiniteSets

CONSTANTS Ops,         \* operations that can run at once
          Users, Root,
          Passwords, Keys,
          None,        \* no password, no key
          Starts,      \* initial situations
          MayOverlap,  \* operations may run at once
          MaxCalls, MaxEdits, MaxFaults   \* bounds

ASSUME AccessAssumption ==
  /\ Root \in Users /\ None \notin Passwords \cup Keys
  /\ MayOverlap \in BOOLEAN /\ {MaxCalls, MaxEdits, MaxFaults} \subseteq Nat

\* The two directives of the panel's drop-in, and what an account is.
Settings == [root: {"yes", "no", "prohibit-password"}, pwd: BOOLEAN]
Accounts == [there: BOOLEAN, pass: Passwords \cup {None}, keys: SUBSET Keys, sudo: BOOLEAN]
\* The connection fields of servers.json; pass is also the sudo password.
Records == [user: Users, auth: {"key", "password"}, pass: Passwords \cup {None}, key: Keys \cup {None}]

ASSUME StartAssumption ==
  Starts \subseteq [sshd: Settings, acct: [Users -> Accounts], rec: Records, files: SUBSET Keys]

VARIABLES
  conf,     \* the drop-in on the server
  live,     \* what the running sshd obeys
  acct,     \* the accounts of the server with their authorized_keys
  rec,      \* the record in servers.json
  files,    \* key pairs in the panel's keys directory
  op,       \* the operations
  torn,     \* history: one was cut between two steps that belong together
  managed,  \* history: the user was last told that the panel has sudo
  calls, edits, faults

server == <<conf, live, acct>>
panel == <<rec, files, managed>>
bounds == <<calls, edits>>
vars == <<server, panel, op, torn, bounds, faults>>

\* create_ssh_client: whether sshd under settings s lets r in.
LoginUnder(s, r) ==
  /\ acct[r.user].there
  /\ IF r.auth = "key"
     THEN r.key \in files \cap acct[r.user].keys /\ (r.user = Root => s.root # "no")
     ELSE /\ s.pwd /\ r.pass # None /\ r.pass = acct[r.user].pass
          /\ r.user = Root => s.root = "yes"
Login(r) == LoginUnder(live, r)
\* exec_sudo: root needs none, others their own password.
Sudo(r) ==
  r.user = Root \/ (acct[r.user].sudo /\ r.pass # None /\ r.pass = acct[r.user].pass)
\* A login of root with his password, given by the user, succeeds.
RootDoor == live.pwd /\ live.root = "yes" /\ acct[Root].pass # None

Closed == {"idle", "ok", "failed", "restored", "broken", "dead"}
Steps == {"connect", "probe", "check", "change", "make", "write", "verify", "commit",
          "undo", "prove", "leave", "erase", "clear", "restore", "target",
          "reread", "enter", "setting", "reload", "confirm", "unset", "reload2", "confirm2",
          "useradd", "fill", "userdel", "alter"}
Running(o) == op[o].pc \in Steps
AtRest == \A o \in Ops : ~Running(o)

Nobody == [user |-> Root, auth |-> "password", pass |-> None, key |-> None]
\* work: the record as the operation read it; wire: its session lives;
\* sudo: sudo was confirmed; keys, conf, old: what an undoing puts back;
\* blind: a command that failed was taken for an answer; was: how things stood
\* when it began.
Blank ==
  [pc |-> "idle", kind |-> "none", who |-> Root, key |-> None, pass |-> None, on |-> FALSE,
   work |-> Nobody, wire |-> FALSE, sudo |-> FALSE, blind |-> FALSE, keys |-> {}, old |-> None,
   conf |-> [root |-> "no", pwd |-> FALSE],
   was |-> [conf |-> [root |-> "no", pwd |-> FALSE], there |-> FALSE, keys |-> {}, pass |-> None]]

Init ==
  \E s \in Starts :
    /\ conf = s.sshd /\ live = s.sshd /\ acct = s.acct /\ rec = s.rec /\ files = s.files
    /\ op = [o \in Ops |-> Blank]
    /\ torn = FALSE /\ managed = Sudo(s.rec)
    /\ calls = 0 /\ edits = 0 /\ faults = 0

-----------------------------------------------------------------------------
(* How a step can go.                                                       *)

Upset == faults < MaxFaults /\ faults' = faults + 1
Fine == UNCHANGED faults
At(o, pc) == op[o].pc = pc
Becomes(o, q) ==
  op' = [op EXCEPT ![o] = IF q.pc \in Closed THEN [Blank EXCEPT !.pc = q.pc, !.blind = q.blind] ELSE q]
To(o, pc) == Becomes(o, [op[o] EXCEPT !.pc = pc])
Lost(o, pc) == Becomes(o, [op[o] EXCEPT !.pc = pc, !.wire = FALSE])
Unseen(o, pc) == Becomes(o, [op[o] EXCEPT !.pc = pc, !.blind = TRUE])

\* A command of the operation's session that does effect when it is able to.
Command(o, able, effect, untouched, done, refused, raised) ==
  \/ op[o].wire /\ able /\ Fine /\ effect /\ To(o, done)
  \/ op[o].wire /\ ~able /\ Fine /\ untouched /\ To(o, refused)
  \/ ~op[o].wire /\ Fine /\ untouched /\ To(o, raised)
  \/ op[o].wire /\ Upset /\ untouched /\ To(o, refused)
  \/ op[o].wire /\ Upset /\ ((able /\ effect) \/ untouched) /\ Lost(o, raised)

\* A login of its own; "no" may be the network's fault.
Answer(o, yes, good, bad) ==
  \/ yes /\ Fine /\ To(o, good)
  \/ ~yes /\ Fine /\ To(o, bad)
  \/ yes /\ Upset /\ To(o, bad)

\* compare_and_set_server_connection.
Cas(o, new, saved, conflict, error) ==
  \/ rec = op[o].work /\ Fine /\ rec' = new /\ To(o, saved)
  \/ rec # op[o].work /\ Fine /\ UNCHANGED rec /\ To(o, conflict)
  \/ rec = op[o].work /\ Upset /\ UNCHANGED rec /\ To(o, error)

Account(o, a) == acct' = [acct EXCEPT ![op[o].who] = a]
Of(o) == acct[op[o].who]
SetPass(o, p) == Account(o, [Of(o) EXCEPT !.pass = p])
SetKeys(o, ks) == Account(o, [Of(o) EXCEPT !.keys = ks])

\* An operation gave up with a new password in force that is recorded nowhere,
\* or ended with a drop-in sshd does not run with: it gave up, or took a reload
\* that failed for done.
Tears(o) ==
  torn' = \/ torn
          \/ /\ op'[o].pc \in {"failed", "broken"} \/ (op[o].blind /\ op'[o].pc \in Closed)
             /\ conf' # live'
          \/ /\ op'[o].pc \in {"failed", "broken"} /\ op[o].kind = "change_password"
             /\ acct'[op[o].who].pass # op[o].was.pass

-----------------------------------------------------------------------------
(* The requests, and what is refused before any connection.                 *)

Request(kind, whos, keys, passes, ons) ==
  [kind: {kind}, who: whos, key: keys, pass: passes, on: ons]
Self == {rec.user}
\* revoke_sudo and delete_user refuse the account the panel uses.
Others == Users \ Self
Fresh == {k \in Keys \ files : \A u \in Users : k \notin acct[u].keys}

\* on: the directive's new value, switch_to_key, allow_without_sudo, sudo for a
\* new account, remove_home.
Requests ==
  UNION {
    Request("change_password", Self, {None}, Passwords, {FALSE}),
    Request("set_user_password", Users \ Self, {None}, Passwords, {FALSE}),
    Request("set_root_login", {Root}, {None}, {None}, IF Root \in Self THEN {TRUE} ELSE BOOLEAN),
    Request("set_password_auth", Self, {rec.key}, {None}, BOOLEAN),
    Request("install_pubkey", Self, Keys \ files, {None}, {FALSE}),
    Request("install_pubkey", Self, files, {None}, BOOLEAN),
    Request("add_key_to_user", IF Fresh = {} THEN {} ELSE Users, {None}, {None}, {FALSE}),
    Request("select_user_key", Self, files, {None}, {FALSE}),
    Request("remove_key_from_user", Users, Keys, {None}, {FALSE}),
    Request("switch_user", Users, files, Passwords \cup {None}, BOOLEAN),
    Request("switch_user", Users, {None}, Passwords, BOOLEAN),
    Request("create_user", Users \ {Root}, {None}, Passwords \cup {None}, BOOLEAN),
    Request("grant_sudo", Users \ {Root}, {None}, {None}, {FALSE}),
    Request("revoke_sudo", Others \ {Root}, {None}, {None}, {FALSE}),
    Request("delete_user", Others \ {Root}, {None}, {None}, BOOLEAN)}

Entry(q) ==
  CASE q.kind \in {"set_root_login", "delete_user"} -> "probe"
    [] q.kind = "set_password_auth" /\ q.on -> "reread"
    [] OTHER -> "connect"

Begin(o) ==
  /\ ~Running(o) /\ calls < MaxCalls /\ calls' = calls + 1
  /\ MayOverlap \/ AtRest
  /\ \E q \in Requests :
       Becomes(o, [Blank EXCEPT !.pc = Entry(q), !.kind = q.kind, !.who = q.who, !.key = q.key,
                     !.pass = q.pass, !.on = q.on, !.work = rec,
                     !.was = [conf |-> conf, there |-> acct[q.who].there, keys |-> acct[q.who].keys,
                              pass |-> acct[q.who].pass]])
  /\ UNCHANGED <<server, panel, torn, edits, faults>>

\* create_ssh_client and _resolve_exec.  Only switch_user goes on without a
\* session, since its target may be all that works.
Connect(o) ==
  /\ At(o, "connect")
  /\ LET w == op[o].work
         next == CASE op[o].kind = "change_password" -> "change"
                   [] op[o].kind = "create_user" -> "useradd"
                   [] op[o].kind \in {"grant_sudo", "revoke_sudo", "delete_user"} -> "alter"
                   [] op[o].kind = "switch_user" -> "target"
                   [] OTHER -> "check"
         enter(sudo) == Becomes(o, [op[o] EXCEPT !.pc = next, !.wire = TRUE, !.sudo = sudo])
         stay == To(o, IF op[o].kind = "switch_user" THEN "target" ELSE "failed")
     IN  \/ Login(w) /\ Fine /\ enter(Sudo(w))
         \/ ~Login(w) /\ Fine /\ stay
         \/ Login(w) /\ Upset /\ (enter(FALSE) \/ stay)
  /\ UNCHANGED <<server, panel, torn, bounds>>

\* _verify_login_and_sudo of the current route, before anything is touched.
Probe(o) ==
  /\ At(o, "probe")
  /\ Answer(o, Login(op[o].work) /\ Sudo(op[o].work),
            IF op[o].kind = "delete_user" THEN "connect" ELSE "reread", "failed")
  /\ UNCHANGED <<server, panel, torn, bounds>>

-----------------------------------------------------------------------------
(* What is asked of the server before it is changed.                        *)

\* The key taken away is the one the panel enters with; it is the one recorded.
RouteUses(q) == q.who = q.work.user /\ q.work.auth = "key" /\ q.work.key = q.key /\ q.key \in files
Recorded(q) == q.who = q.work.user /\ q.work.key = q.key /\ q.key \in files
\* Whose last key is protected.
Guarded(q) == q.who \in {Root, q.work.user}

\* remove_key_from_user: sshd -T tells whether passwords are accepted.
ToRemove(q) ==
  LET a == acct[q.who]
      other == q.work.pass # None
      may == /\ a.there /\ q.key \in a.keys
             /\ q.who = q.work.user \/ Sudo(q.work)
             /\ q.who = Root /\ q.work.user # Root => RootDoor
  IN  CASE ~may -> "failed"
        [] may /\ RouteUses(q) -> IF conf.pwd /\ other THEN "prove" ELSE "failed"
        [] may /\ ~RouteUses(q) /\ Guarded(q) /\ a.keys = {q.key} ->
             IF ~conf.pwd THEN "failed"
             ELSE IF q.who = q.work.user /\ q.work.auth = "key"
                  THEN IF other THEN "prove" ELSE "failed"
                  ELSE "erase"
        [] OTHER -> "erase"

\* Where the reading leads; without sudo the registry of keys may be out of date.
Gates(q) ==
  LET a == acct[q.who]
      only(yes, pc) == {IF a.there /\ yes THEN pc ELSE "failed"}
      taken == \E u \in Users \ {q.who} : q.key \in acct[u].keys
  IN  CASE q.kind = "set_user_password" ->
             only(Sudo(q.work) /\ (q.who = Root => RootDoor), "change")
        [] q.kind = "set_password_auth" -> only(q.key \in files \cap a.keys, "verify")
        [] q.kind = "install_pubkey" ->
             only(~taken, "write") \cup (IF taken /\ ~q.sudo THEN {"write"} ELSE {})
        [] q.kind = "add_key_to_user" ->
             only(/\ q.who = q.work.user \/ Sudo(q.work)
                  /\ q.who = Root /\ q.work.user # Root => RootDoor, "make")
        [] q.kind = "select_user_key" ->
             only(q.key \in files \cap a.keys, IF q.work.key = q.key THEN "ok" ELSE "commit")
        [] OTHER -> {ToRemove(q)}

Check(o) ==
  /\ At(o, "check")
  /\ \/ Fine /\ \E pc \in Gates(op[o]) :
            Becomes(o, [op[o] EXCEPT !.pc = pc, !.old = IF op[o].kind = "set_user_password"
                                                       THEN Of(o).pass ELSE None])
     \/ Upset /\ To(o, "failed")
  /\ UNCHANGED <<server, panel, torn, bounds>>

-----------------------------------------------------------------------------
(* Passwords: change_password of the panel's account, set_user_password.    *)

\* chpasswd through sudo, or passwd with the recorded password.
Change(o) ==
  LET q == op[o] IN
  /\ At(o, "change")
  /\ Command(o, IF q.kind = "set_user_password" \/ q.sudo THEN Sudo(q.work)
                ELSE q.work.pass # None /\ q.work.pass = Of(o).pass,
             SetPass(o, q.pass), UNCHANGED acct, "verify", "failed", "failed")
  /\ UNCHANGED <<conf, live, panel, bounds>> /\ Tears(o)

\* The record as it would be, whose way in is tried before it is saved.
Candidate(q) ==
  CASE q.kind = "change_password" -> [q.work EXCEPT !.pass = q.pass]
    [] q.kind = "set_user_password" -> [user |-> q.who, auth |-> "password", pass |-> q.pass, key |-> None]
    [] OTHER -> [q.work EXCEPT !.auth = "key", !.key = q.key]

\* sudo is asked for only if it was there before.
Verify(o) ==
  LET q == op[o]
      bad == CASE q.kind = "change_password" \/ (q.kind = "set_user_password" /\ q.who = Root) -> "undo"
               [] q.kind \in {"install_pubkey", "add_key_to_user"} -> "restore"
               [] OTHER -> "failed"
      good == CASE q.kind = "set_user_password" -> "ok"
                [] q.kind = "set_password_auth" /\ q.work.auth = "key" -> "reread"
                [] OTHER -> "commit"
  IN  /\ At(o, "verify")
      /\ IF q.kind = "set_user_password" /\ q.who # Root /\ ~conf.pwd
         THEN Fine /\ To(o, "ok")
         ELSE Answer(o, /\ Login(Candidate(q))
                        /\ q.kind # "set_user_password" /\ q.sudo => Sudo(Candidate(q)), good, bad)
      /\ UNCHANGED <<server, panel, torn, bounds>>

\* What each operation changes in the record.
Patched(q) ==
  CASE q.kind = "change_password" -> [q.work EXCEPT !.pass = q.pass]
    [] q.kind \in {"set_password_auth", "install_pubkey"} -> [q.work EXCEPT !.auth = "key", !.key = q.key]
    [] OTHER -> [q.work EXCEPT !.key = q.key]

\* Only a conflict is answered by putting the password back.
Commit(o) ==
  LET keys == op[o].kind \in {"install_pubkey", "add_key_to_user"} IN
  /\ At(o, "commit") /\ op[o].kind # "switch_user"
  /\ Cas(o, Patched(op[o]),
         IF op[o].kind = "set_password_auth" THEN "reread" ELSE "ok",
         CASE op[o].kind = "change_password" -> "undo" [] keys -> "restore" [] OTHER -> "failed",
         IF keys THEN "restore" ELSE "failed")
  /\ UNCHANGED <<server, files, managed, bounds>> /\ Tears(o)

\* The recorded password (or, for root, the one the user gave) is set again.
Undo(o) ==
  LET q == op[o]
      back == IF q.kind = "change_password" THEN q.work.pass ELSE q.old
  IN  /\ At(o, "undo")
      /\ IF back = None
         THEN Fine /\ UNCHANGED acct /\ To(o, "broken")
         ELSE Command(o, CASE q.kind = "set_user_password" -> Sudo(q.work)
                           [] q.kind # "set_user_password" /\ q.sudo -> Sudo([q.work EXCEPT !.pass = q.pass])
                           [] OTHER -> q.pass = Of(o).pass,
                      SetPass(o, back), UNCHANGED acct, "restored", "broken", "broken")
      /\ UNCHANGED <<conf, live, panel, bounds>> /\ Tears(o)

-----------------------------------------------------------------------------
(* Keys.                                                                    *)

\* _create_local_key_pair.
Make(o) ==
  /\ At(o, "make")
  /\ \/ \E k \in Fresh :
          /\ Fine /\ files' = files \cup {k}
          /\ Becomes(o, [op[o] EXCEPT !.pc = "write", !.key = k])
     \/ (Upset \/ (Fresh = {} /\ Fine)) /\ UNCHANGED files /\ To(o, "failed")
  /\ UNCHANGED <<server, rec, managed, torn, bounds>>

\* The session may write authorized_keys of that account.
Writable(q) == q.who = q.work.user \/ Sudo(q.work)

\* The snapshot of authorized_keys, and the key appended.  A failure inside
\* _append_pubkey_to leaves add_key_to_user no snapshot: only its pair is deleted.
Write(o) ==
  LET q == [op[o] EXCEPT !.keys = Of(o).keys]
      added == SetKeys(o, q.keys \cup {q.key})
      done == IF \/ q.kind = "install_pubkey" /\ q.on
                 \/ q.kind = "add_key_to_user" /\ q.who = q.work.user
              THEN "verify" ELSE "ok"
      fails(wire) ==
        IF q.kind = "add_key_to_user"
        THEN To(o, "failed") /\ files' = files \ {q.key}
        ELSE Becomes(o, [q EXCEPT !.pc = "restore", !.wire = wire]) /\ UNCHANGED files
  IN  /\ At(o, "write")
      /\ \/ Writable(q) /\ Fine /\ added /\ UNCHANGED files /\ Becomes(o, [q EXCEPT !.pc = done])
         \/ ~Writable(q) /\ Fine /\ UNCHANGED acct /\ fails(TRUE)
         \/ Upset /\ UNCHANGED acct /\ fails(TRUE)
         \/ Writable(q) /\ Upset /\ (added \/ UNCHANGED acct) /\ fails(FALSE)
      /\ UNCHANGED <<conf, live, rec, managed, torn, bounds>>

\* Mutated: the snapshot is put back as that of a file that was not there.
RestoreAbsent(o) ==
  /\ At(o, "restore")
  /\ Command(o, Writable(op[o]), SetKeys(o, {}), UNCHANGED acct, "restored", "broken", "broken")
  /\ files' = IF op[o].kind = "add_key_to_user" THEN files \ {op[o].key} ELSE files
  /\ UNCHANGED <<conf, live, rec, managed, bounds>> /\ Tears(o)
\* authorized_keys as the snapshot has it; a pair made for nothing is deleted.
Restore(o) ==
  /\ At(o, "restore")
  /\ Command(o, Writable(op[o]), SetKeys(o, op[o].keys), UNCHANGED acct, "restored", "broken", "broken")
  /\ files' = IF op[o].kind = "add_key_to_user" THEN files \ {op[o].key} ELSE files
  /\ UNCHANGED <<conf, live, rec, managed, bounds>> /\ Tears(o)

\* Mutated: the password is proved, and the key stays the recorded way in.
ProveOnly(o) ==
  LET q == op[o]
      r == [q.work EXCEPT !.auth = "password"]
  IN  /\ At(o, "prove")
      /\ Answer(o, Login(r) /\ (q.sudo => Sudo(r)), "erase", "failed")
      /\ UNCHANGED <<server, panel, torn, bounds>>
\* remove_key_from_user: the password is proved, then recorded as the way in ...
Prove(o) ==
  LET q == op[o]
      r == [q.work EXCEPT !.auth = "password"]
  IN  /\ At(o, "prove")
      /\ Answer(o, Login(r) /\ (q.sudo => Sudo(r)), IF RouteUses(q) THEN "leave" ELSE "erase", "failed")
      /\ UNCHANGED <<server, panel, torn, bounds>>

Leave(o) ==
  /\ At(o, "leave")
  /\ Cas(o, [op[o].work EXCEPT !.auth = "password", !.key = None], "erase", "failed", "failed")
  /\ UNCHANGED <<server, files, managed, torn, bounds>>

\* ... and only then the key's line goes.
Erase(o) ==
  LET q == [op[o] EXCEPT !.keys = Of(o).keys]
      gone == SetKeys(o, q.keys \ {q.key})
  IN  /\ At(o, "erase")
      /\ \/ /\ q.key \in q.keys /\ Writable(q) /\ Fine /\ gone
            /\ Becomes(o, [q EXCEPT !.pc = IF Recorded(q) /\ ~RouteUses(q) THEN "clear" ELSE "ok"])
         \/ (q.key \notin q.keys \/ ~Writable(q)) /\ Fine /\ UNCHANGED acct /\ To(o, "failed")
         \/ Upset /\ (UNCHANGED acct \/ (Writable(q) /\ gone)) /\ To(o, "failed")
      /\ UNCHANGED <<conf, live, panel, torn, bounds>>

\* The record of a key that is gone is cleared; a conflict leaves it.
Clear(o) ==
  /\ At(o, "clear")
  /\ Cas(o, [op[o].work EXCEPT !.key = None], "ok", "ok", "restore")
  /\ UNCHANGED <<server, files, managed, torn, bounds>>

-----------------------------------------------------------------------------
(* switch_user: the target is tried, gated, and only then recorded.         *)

Target(q) ==
  IF q.key # None
  THEN [user |-> q.who, auth |-> "key", pass |-> q.pass, key |-> q.key]
  ELSE [user |-> q.who, auth |-> "password", pass |-> q.pass, key |-> None]

\* From an account without sudo, by key, to one that may have it: only with the
\* target's own password.  info: id of the target could be read.
Gate(q, sudo, info) ==
  q.key # None /\ ~q.sudo /\ info /\ (q.who = Root \/ acct[q.who].sudo)
    => IF q.who = Root THEN RootDoor /\ q.pass = acct[Root].pass ELSE sudo

Try(o) ==
  LET q == op[o]
      r == Target(q)
      outcome(sudo, info) ==
        IF Login(r) /\ Gate(q, sudo, info) /\ (sudo \/ q.on)
        THEN Becomes(o, [q EXCEPT !.pc = "commit", !.sudo = sudo])
        ELSE To(o, "failed")
  IN  /\ At(o, "target")
      /\ \/ Fine /\ outcome(Sudo(r), TRUE)
         \/ Upset /\ (To(o, "failed") \/ outcome(FALSE, TRUE) \/ outcome(Sudo(r), FALSE))
      /\ UNCHANGED <<server, panel, torn, bounds>>

Switch(o) ==
  /\ At(o, "commit") /\ op[o].kind = "switch_user"
  /\ Cas(o, Target(op[o]), "ok", "failed", "failed")
  /\ managed' = IF op'[o].pc = "ok" THEN op[o].sudo ELSE managed
  /\ UNCHANGED <<server, files, torn, bounds>>

-----------------------------------------------------------------------------
(* The drop-in of sshd (_mutate_sshd_setting), with the record read again.  *)

Reread(o) ==
  /\ At(o, "reread") /\ Fine
  /\ Becomes(o, [op[o] EXCEPT !.pc = "enter", !.work = rec])
  /\ UNCHANGED <<server, panel, torn, bounds>>

Enter(o) ==
  /\ At(o, "enter")
  /\ LET enter == Becomes(o, [op[o] EXCEPT !.pc = "setting", !.wire = TRUE])
     IN  \/ Login(op[o].work) /\ Fine /\ enter
         \/ ~Login(op[o].work) /\ Fine /\ To(o, "failed")
         \/ Login(op[o].work) /\ Upset /\ To(o, "failed")
  /\ UNCHANGED <<server, panel, torn, bounds>>

\* _dropin_with_setting.
With(q, c) ==
  IF q.kind = "set_root_login" THEN [c EXCEPT !.root = IF q.on THEN "yes" ELSE "no"]
                               ELSE [c EXCEPT !.pwd = q.on]

\* The snapshot of the drop-in, and the directive in it.
Setting(o) ==
  LET q == [op[o] EXCEPT !.conf = conf] IN
  /\ At(o, "setting")
  /\ \/ /\ Sudo(q.work) /\ Fine /\ conf' = With(q, conf)
        /\ Becomes(o, [q EXCEPT !.pc = "reload"])
     \/ ~Sudo(q.work) /\ Fine /\ UNCHANGED conf /\ To(o, "failed")
     \/ Upset /\ UNCHANGED conf /\ (To(o, "failed") \/ Becomes(o, [q EXCEPT !.pc = "unset"]))
     \/ /\ Sudo(q.work) /\ Upset /\ conf' \in {conf, With(q, conf)}
        /\ Becomes(o, [q EXCEPT !.pc = "unset", !.wire = FALSE])
  /\ UNCHANGED <<live, acct, panel, bounds>> /\ Tears(o)

\* _sshd_reload and sshd -T, which reads the file: on a socket-activated host a
\* reload that failed counts as done.
Reload(o) ==
  /\ \/ /\ At(o, "reload")
        /\ Command(o, Sudo(op[o].work), live' = conf, UNCHANGED live, "confirm", "unset", "unset")
     \/ /\ At(o, "reload2")
        /\ Command(o, Sudo(op[o].work), live' = conf, UNCHANGED live, "confirm2", "broken", "broken")
     \/ /\ At(o, "reload") \/ At(o, "reload2")
        /\ op[o].wire /\ Sudo(op[o].work) /\ Upset /\ UNCHANGED live
        /\ Unseen(o, IF At(o, "reload") THEN "confirm" ELSE "confirm2")
  /\ UNCHANGED <<conf, acct, panel, bounds>> /\ Tears(o)

\* _verify_login_and_sudo of the route after the change, or after its undoing.
Confirm(o) ==
  LET yes == Login(op[o].work) /\ Sudo(op[o].work) IN
  /\ \/ At(o, "confirm") /\ Answer(o, yes, "ok", "unset")
     \/ At(o, "confirm2") /\ Answer(o, yes, "restored", "broken")
  /\ UNCHANGED <<server, panel, bounds>> /\ Tears(o)

\* Mutated: the file is put back, sshd is not told.
UnsetOnly(o) ==
  /\ At(o, "unset")
  /\ Command(o, Sudo(op[o].work), conf' = op[o].conf, UNCHANGED conf, "confirm2", "broken", "broken")
  /\ UNCHANGED <<live, acct, panel, bounds>> /\ Tears(o)
Unset(o) ==
  /\ At(o, "unset")
  /\ Command(o, Sudo(op[o].work), conf' = op[o].conf, UNCHANGED conf, "reload2", "broken", "broken")
  /\ UNCHANGED <<live, acct, panel, bounds>> /\ Tears(o)

-----------------------------------------------------------------------------
(* Accounts.                                                                *)

\* A home that stayed keeps its authorized_keys.
NewAccount(a) == [there |-> TRUE, pass |-> None, keys |-> a.keys, sudo |-> FALSE]
Gone(home) == [there |-> FALSE, pass |-> None, keys |-> home, sudo |-> FALSE]

Useradd(o) ==
  /\ At(o, "useradd")
  /\ Command(o, Sudo(op[o].work) /\ ~Of(o).there, Account(o, NewAccount(Of(o))), UNCHANGED acct,
             "fill", "failed", "failed")
  /\ UNCHANGED <<conf, live, panel, torn, bounds>>

\* The password, the sudo group and the check of both.
Fill(o) ==
  /\ At(o, "fill")
  /\ Command(o, Sudo(op[o].work), Account(o, [Of(o) EXCEPT !.pass = op[o].pass, !.sudo = op[o].on]),
             UNCHANGED acct, "ok", "userdel", "userdel")
  /\ UNCHANGED <<conf, live, panel, torn, bounds>>

Userdel(o) ==
  /\ At(o, "userdel")
  /\ Command(o, Sudo(op[o].work), Account(o, Gone({})), UNCHANGED acct, "restored", "broken", "broken")
  /\ UNCHANGED <<conf, live, panel, torn, bounds>>

\* grant_sudo, revoke_sudo, delete_user: one command that is not undone.
Altered(q, a) ==
  CASE q.kind = "grant_sudo" -> [a EXCEPT !.sudo = TRUE]
    [] q.kind = "revoke_sudo" -> [a EXCEPT !.sudo = FALSE]
    [] OTHER -> Gone(IF q.on THEN {} ELSE a.keys)

\* revoke_sudo asks first whether there is sudo; a listing that fails, for want
\* of the panel's own sudo too, means that there is none: nothing left to do.
Alter(o) ==
  LET q == op[o]
      lists == q.kind = "revoke_sudo" /\ Of(o).there
  IN
  /\ At(o, "alter")
  /\ \/ /\ lists => Sudo(q.work)
        /\ Command(o, Sudo(q.work) /\ Of(o).there, Account(o, Altered(q, Of(o))), UNCHANGED acct,
                   "ok", "failed", "failed")
     \/ lists /\ ((~Sudo(q.work) /\ Fine) \/ Upset) /\ UNCHANGED acct /\ Unseen(o, "ok")
     \/ Upset /\ UNCHANGED acct /\ To(o, "failed")
  /\ UNCHANGED <<conf, live, panel, torn, bounds>>

-----------------------------------------------------------------------------
(* The panel's process, and its user beside the operations.                 *)

\* A way in an operation is about to take away, or may yet take back.
Relies(q, r) ==
  CASE q.kind = "change_password" -> r.user = q.who /\ r.pass # q.work.pass
    [] q.kind = "set_root_login" -> r.user = Root
    [] q.kind = "set_password_auth" -> r.auth = "password"
    [] q.kind \in {"install_pubkey", "add_key_to_user"} -> r.key = q.key /\ r.key # None
    [] q.kind = "remove_key_from_user" -> r.user = q.who /\ r.key = q.key
    [] q.kind \in {"set_user_password", "create_user", "revoke_sudo", "delete_user"} -> r.user = q.who
    [] OTHER -> FALSE

\* Assumption on the user: the record is edited to a way in that works and that
\* no running operation has in hand.
Edit ==
  /\ edits < MaxEdits /\ edits' = edits + 1
  /\ \E r \in Records \ {rec} :
       /\ Login(r) /\ LoginUnder(conf, r) /\ \A o \in Ops : Running(o) => ~Relies(op[o], r)
       /\ rec' = r /\ managed' = Sudo(r)
  /\ UNCHANGED <<server, files, op, torn, calls, faults>>

\* Deleting a key pair in the files page: refused for a key some record enters
\* with.  Assumption: not while an operation is about to record it.
DropKey ==
  /\ edits < MaxEdits /\ edits' = edits + 1
  /\ \E k \in files :
       /\ ~(rec.auth = "key" /\ rec.key = k)
       /\ \A o \in Ops : Running(o) => k \notin {op[o].key, op[o].work.key}
       /\ files' = files \ {k}
  /\ UNCHANGED <<server, rec, managed, op, torn, calls, faults>>

PanelDies ==
  /\ ~AtRest /\ Upset
  /\ op' = [o \in Ops |-> IF Running(o) THEN [Blank EXCEPT !.pc = "dead"] ELSE op[o]]
  /\ torn' = (\/ torn \/ conf # live
              \/ \E o \in Ops : op[o].kind = "change_password" /\ op[o].pc \in {"verify", "commit", "undo"})
  /\ UNCHANGED <<server, panel, bounds>>

Next ==
  \/ \E o \in Ops :
       \/ Begin(o) \/ Connect(o) \/ Probe(o) \/ Check(o)
       \/ Change(o) \/ Verify(o) \/ Commit(o) \/ Undo(o)
       \/ Make(o) \/ Write(o) \/ Restore(o) \/ Prove(o) \/ Leave(o) \/ Erase(o) \/ Clear(o)
       \/ Try(o) \/ Switch(o)
       \/ Reread(o) \/ Enter(o) \/ Setting(o) \/ Reload(o) \/ Confirm(o) \/ Unset(o)
       \/ Useradd(o) \/ Fill(o) \/ Userdel(o) \/ Alter(o)
  \/ Edit \/ DropKey \/ PanelDies

Spec == Init /\ [][Next]_vars

-----------------------------------------------------------------------------

Kinds ==
  {"none", "change_password", "set_user_password", "set_root_login", "set_password_auth",
   "install_pubkey", "add_key_to_user", "select_user_key", "remove_key_from_user",
   "switch_user", "create_user", "grant_sudo", "revoke_sudo", "delete_user"}
OpType ==
  [pc: Steps \cup Closed, kind: Kinds, who: Users, key: Keys \cup {None}, pass: Passwords \cup {None},
   on: BOOLEAN, work: Records, wire: BOOLEAN, sudo: BOOLEAN, blind: BOOLEAN, keys: SUBSET Keys,
   old: Passwords \cup {None}, conf: Settings,
   was: [conf: Settings, there: BOOLEAN, keys: SUBSET Keys, pass: Passwords \cup {None}]]

\* Every variable has its type.
TypeOK ==
  /\ conf \in Settings /\ live \in Settings /\ acct \in [Users -> Accounts]
  /\ rec \in Records /\ files \subseteq Keys /\ op \in [Ops -> OpType]
  /\ torn \in BOOLEAN /\ managed \in BOOLEAN
  /\ calls \in 0..MaxCalls /\ edits \in 0..MaxEdits /\ faults \in 0..MaxFaults

\* Whatever sequence of operations ran, and wherever one of them failed, was cut
\* off or met an edit of the record: the panel can enter the server by the route
\* servers.json holds, now and after sshd reads its configuration again, and it
\* has sudo unless its user agreed to do without.  A way in is proved and recorded
\* before the one in use is taken away (ssh_access.py's opening principle).  Not
\* promised once an operation was torn, or ended on a reload whose failure it
\* took for done.
RouteWorks ==
  AtRest /\ ~torn => Login(rec) /\ LoginUnder(conf, rec) /\ (managed => Sudo(rec))

\* While sshd takes no passwords, no step takes the last key of the panel's account
\* or of root (the docstring of remove_key_from_user).
LastKeyStays ==
  [][~live.pwd =>
       \A u \in {Root, rec.user} : acct[u].there /\ acct[u].keys # {} => acct'[u].keys # {}]_vars

Achieved(q) ==
  CASE q.kind = "change_password" -> acct[q.who].pass = q.pass /\ rec.pass = q.pass
    [] q.kind = "set_user_password" -> acct[q.who].pass = q.pass
    [] q.kind = "set_root_login" -> live = conf /\ live.root = (IF q.on THEN "yes" ELSE "no")
    [] q.kind = "set_password_auth" -> live = conf /\ live.pwd = q.on
    [] q.kind = "install_pubkey" -> q.key \in acct[q.who].keys /\ (q.on => rec.auth = "key" /\ rec.key = q.key)
    [] q.kind = "add_key_to_user" -> q.key \in acct[q.who].keys \cap files
    [] q.kind = "remove_key_from_user" -> q.key \notin acct[q.who].keys
    [] q.kind = "switch_user" -> rec = Target(q)
    [] q.kind = "create_user" -> acct[q.who].there /\ acct[q.who].sudo = q.on
    [] q.kind = "grant_sudo" -> acct[q.who].sudo
    [] q.kind = "revoke_sudo" -> ~acct[q.who].sudo
    [] q.kind = "delete_user" -> ~acct[q.who].there
    [] OTHER -> rec.key = q.key \/ q.work.key = q.key

Undone(q) ==
  /\ conf = q.was.conf /\ live = conf /\ acct[q.who].there = q.was.there
  /\ q.kind # "create_user" => acct[q.who].keys = q.was.keys
  /\ q.kind = "change_password" => acct[q.who].pass = q.work.pass
  /\ q.kind = "set_user_password" => acct[q.who].pass = q.was.pass

\* An operation that answers with success did what was asked, unless it took a
\* failed command for an answer (revoke_sudo's listing, a reload on a
\* socket-activated host), and one that answers that the former state is back
\* left it so, on the server as it runs.
AnswersAreTrue ==
  [][\A o \in Ops : \A q \in {op[o]} : Running(o) =>
       /\ op'[o].pc = "ok" => op'[o].blind \/ Achieved(q)'
       /\ op'[o].pc = "restored" => torn' \/ Undone(q)']_vars

\* The first half without its excuse.  revoke_sudo and _sshd_reload do not keep
\* it (README, section 7); no configuration checks it.
SuccessWasSeen ==
  [][\A o \in Ops : \A q \in {op[o]} : Running(o) /\ op'[o].pc = "ok" => Achieved(q)']_vars

\* The key manager's invariant on switching passwords off: the panel's account and
\* root have a key then.  set_password_auth looks at the panel's key alone.
KeysWithoutPasswords ==
  [][live.pwd /\ ~live'.pwd => \A u \in {Root, rec.user} : acct[u].keys # {}]_vars
=============================================================================
