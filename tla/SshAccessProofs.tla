-------------------------- MODULE SshAccessProofs --------------------------
(***************************************************************************)
(* Proofs about SshAccess, for any accounts, passwords, keys and settings   *)
(* and any number of operations one after another, edits and upsets: types, *)
(* true answers, the last key, and the recorded way in.                     *)
(***************************************************************************)
EXTENDS SshAccess, TLAPS

-----------------------------------------------------------------------------
(* What an operation in hand is about.                                      *)

Setters == {"set_root_login", "set_password_auth"}
Keyed == {"install_pubkey", "add_key_to_user", "remove_key_from_user"}
Late == {"reload", "confirm", "unset", "reload2", "confirm2"}
Written == {"verify", "commit", "restore"}

\* Which operations pass by which steps.
Passers ==
  [connect |-> {"change_password", "set_user_password", "set_password_auth", "install_pubkey",
                "add_key_to_user", "select_user_key", "remove_key_from_user", "switch_user",
                "create_user", "grant_sudo", "revoke_sudo", "delete_user"},
   probe |-> {"set_root_login", "delete_user"},
   check |-> {"set_user_password", "set_password_auth", "select_user_key"} \cup Keyed,
   change |-> {"change_password", "set_user_password"},
   make |-> {"add_key_to_user"},
   write |-> {"install_pubkey", "add_key_to_user"},
   verify |-> {"change_password", "set_user_password", "set_password_auth", "install_pubkey", "add_key_to_user"},
   commit |-> {"change_password", "set_password_auth", "install_pubkey", "add_key_to_user",
               "select_user_key", "switch_user"},
   undo |-> {"change_password", "set_user_password"},
   prove |-> {"remove_key_from_user"}, leave |-> {"remove_key_from_user"},
   erase |-> {"remove_key_from_user"}, clear |-> {"remove_key_from_user"},
   restore |-> Keyed,
   target |-> {"switch_user"},
   reread |-> Setters, enter |-> Setters, setting |-> Setters, reload |-> Setters,
   confirm |-> Setters, unset |-> Setters, reload2 |-> Setters, confirm2 |-> Setters,
   useradd |-> {"create_user"}, fill |-> {"create_user"}, userdel |-> {"create_user"},
   alter |-> {"grant_sudo", "revoke_sudo", "delete_user"}]

\* The operations on the account the panel enters with, and on that of another.
Own(q) ==
  /\ q.kind \in {"change_password", "install_pubkey", "select_user_key"} => q.who = q.work.user
  /\ q.kind = "set_password_auth" /\ q.pc \in {"connect", "check", "verify", "commit"} => q.who = q.work.user
  /\ q.pc = "clear" => q.who = q.work.user /\ q.work.auth = "password"
  /\ q.kind = "add_key_to_user" /\ q.pc \in {"verify", "commit"} => q.who = q.work.user
  /\ q.kind \in {"set_user_password", "revoke_sudo", "delete_user"} => q.who # q.work.user
  /\ q.kind \in {"revoke_sudo", "delete_user", "create_user"} => q.who # Root

\* The key and the password it is given.
Given(q) ==
  /\ q.kind \in {"install_pubkey", "select_user_key", "remove_key_from_user"} => q.key \in Keys
  /\ q.kind = "add_key_to_user" /\ q.pc \in {"write"} \cup Written => q.key \in Keys
  /\ q.kind \in {"change_password", "set_user_password"} => q.pass \in Passwords
  /\ q.kind = "add_key_to_user" /\ q.pc \in {"write", "verify", "commit"} => q.key \in files

\* What it has done so far.
Doing(q) ==
  LET a == acct[q.who] IN
  /\ q.kind = "change_password" /\ q.pc \in {"verify", "commit", "undo"} => a.pass = q.pass
  /\ q.kind = "set_user_password" /\ q.pc = "verify" => a.pass = q.pass
  /\ q.kind \in {"install_pubkey", "add_key_to_user"} /\ q.pc \in {"verify", "commit"} => q.key \in a.keys
  /\ q.kind = "remove_key_from_user" /\ q.pc = "clear" => q.key \notin a.keys
  /\ q.pc = "fill" => a.there
  /\ q.kind \in Keyed /\ q.pc \in Written \cup {"clear"} => a.keys \subseteq q.keys \cup {q.key}
  /\ q.pc = "reload" => conf = With(q, q.conf)
  /\ q.pc = "confirm" => conf = With(q, q.conf) /\ (q.blind \/ live = conf)
  /\ q.blind => q.pc \in Late

\* The user's edits keep off what it has in hand.
InHand(q) ==
  /\ q.kind # "add_key_to_user" => rec = q.work \/ ~Relies(q, rec)
  /\ q.kind = "add_key_to_user" /\ q.pc \in {"write"} \cup Written /\ rec.auth = "key" => rec.key # q.key

Alone == \A o, p \in Ops : Running(o) /\ Running(p) => o = p

ActInv ==
  /\ TypeOK /\ Alone
  /\ \A o \in Ops : Running(o) =>
       /\ op[o].kind \in Passers[op[o].pc]
       /\ Own(op[o]) /\ Given(op[o]) /\ Doing(op[o])

-----------------------------------------------------------------------------
(* How things stood when it began.                                          *)

Before(q) ==
  LET a == acct[q.who]
      w == q.was
  IN
  /\ q.kind \in Setters /\ q.pc \in Late => q.conf = w.conf
  /\ q.kind \in Setters /\ q.pc \in {"reload2", "confirm2"} => conf = w.conf
  /\ q.kind \notin Setters \/ q.pc \notin Late => conf = w.conf
  /\ q.pc \notin {"reload", "unset", "reload2", "confirm", "confirm2"} => conf = live
  /\ q.pc \in {"confirm", "confirm2"} /\ ~q.blind => conf = live
  /\ q.pc \notin {"fill", "userdel"} => a.there = w.there
  /\ q.pc \in {"fill", "userdel"} => ~w.there
  /\ IF q.kind \in Keyed /\ q.pc \in Written \cup {"clear"} THEN q.keys = w.keys
     ELSE q.kind # "create_user" => a.keys = w.keys
  /\ q.pc \in {"probe", "connect", "check"} => a.pass = w.pass
  /\ q.pc = "change" /\ q.kind = "change_password" => a.pass = w.pass
  /\ q.kind = "set_user_password" /\ q.pc \in {"change", "verify", "undo"} => q.old = w.pass

WasInv ==
  torn \/ /\ AtRest => conf = live
          /\ \A o \in Ops : Running(o) => Before(op[o])

-----------------------------------------------------------------------------
(* The last key.                                                            *)

Enterable(r) == live.pwd \/ (r.auth = "key" /\ r.key \in acct[r.user].keys)

LastKey(q) ==
  q.kind \in Keyed =>
  /\ q.pc \in {"connect", "check", "make", "write", "prove"} => rec = q.work \/ Enterable(rec)
  /\ q.pc \in {"check", "make", "write", "prove"} => Enterable(q.work)
  /\ q.pc \in {"make", "write"} \cup Written /\ q.who = Root => q.who = q.work.user \/ live.pwd
  /\ q.pc \in Written \cup {"clear"} /\ q.who \in {rec.user, q.work.user} => live.pwd \/ q.keys # {}
  /\ q.pc \in {"erase", "leave"} /\ q.who \in {Root, rec.user} =>
        live.pwd \/ ~(acct[q.who].keys \subseteq {q.key})

\* Nor does it delete the account the panel enters with.
Spares(q) ==
  /\ LastKey(q) /\ InHand(q)
  /\ q.kind = "set_root_login" /\ ~q.on => q.work.user # Root
  /\ q.pc \in {"fill", "userdel"} => q.who # rec.user
  /\ q.pc = "commit" /\ q.kind = "switch_user" => acct[q.who].there
  /\ q.pc = "commit" /\ q.kind # "change_password" => q.key \in files \/ (q.kind = "switch_user" /\ q.key = None)

LastInv ==
  /\ acct[rec.user].there
  /\ rec.auth = "key" => rec.key \in files
  /\ \A o \in Ops : Running(o) => Spares(op[o])

-----------------------------------------------------------------------------
(* The way in.                                                              *)

Door(s, a, r) ==
  /\ a.there
  /\ IF r.auth = "key"
     THEN r.key \in files \cap a.keys /\ (r.user = Root => s.root # "no")
     ELSE /\ s.pwd /\ r.pass # None /\ r.pass = a.pass
          /\ r.user = Root => s.root = "yes"
Power(a, r) == r.user = Root \/ (a.sudo /\ r.pass # None /\ r.pass = a.pass)

\* The account with which the panel enters, once an operation that does not
\* commit its password is undone.
Back(q) ==
  IF q.kind = "change_password" /\ q.pc \in {"verify", "commit", "undo"} /\ rec.user = q.who
  THEN [acct[rec.user] EXCEPT !.pass = q.work.pass] ELSE acct[rec.user]
Way(s, a) == Door(s, a, rec) /\ (managed => Power(a, rec))

\* What is recorded when the record has not changed: a way in that was tried.
Committable(q) ==
  /\ q.kind \in {"install_pubkey", "add_key_to_user", "select_user_key", "set_password_auth"} =>
       q.key \in files \cap acct[q.work.user].keys
  /\ q.kind \in {"install_pubkey", "set_password_auth", "change_password"} =>
       Door(live, acct[q.work.user], Patched(q))
  /\ q.kind = "switch_user" =>
       /\ Door(live, acct[q.who], Target(q))
       /\ q.sudo => Power(acct[q.who], Target(q))

Safe(q) ==
  /\ Way(live, Back(q))
  /\ q.kind \in Setters /\ q.pc \in Late =>
       \A s \in {q.conf, With(q, q.conf)} : Door(s, acct[rec.user], rec)
  /\ q.kind \in Setters /\ q.pc \in Late => {conf, live} \subseteq {q.conf, With(q, q.conf)}
  /\ /\ q.kind = "change_password" /\ q.pc \in {"verify", "commit", "undo"} /\ rec.user = q.who
     /\ rec.auth = "password" \/ (managed /\ q.who # Root)
     => rec.pass = q.work.pass /\ q.work.pass \in {q.was.pass, q.pass}
  /\ q.kind \in Keyed /\ q.pc \in Written \cup {"clear"} /\ rec.user = q.who /\ rec.auth = "key" =>
       rec.key \in q.keys
  /\ q.kind = "set_password_auth" /\ ~q.on /\ q.pc \in {"reread", "enter", "setting"} \cup Late => rec.auth = "key"
  /\ q.pc = "commit" => Committable(q)
  /\ q.pc = "leave" => Door(live, acct[q.work.user], [q.work EXCEPT !.auth = "password"])
  /\ q.pc = "erase" /\ rec.user = q.who /\ rec.auth = "key" => rec.key # q.key

WayInv ==
  torn \/ /\ AtRest => Way(live, acct[rec.user])
          /\ \A o \in Ops : Running(o) => Safe(op[o])

-----------------------------------------------------------------------------
(* Steps of one operation.                                                  *)

\* What a step leaves alone of what an operation has in hand.
Like(q, c) ==
  /\ c.kind = q.kind /\ c.who = q.who /\ c.key = q.key /\ c.pass = q.pass /\ c.on = q.on
  /\ c.work = q.work /\ c.blind = q.blind /\ c.was = q.was
Same(q, c) ==
  Like(q, c) /\ c.sudo = q.sudo /\ c.keys = q.keys /\ c.old = q.old /\ c.conf = q.conf
Ends(q, c) ==
  /\ c.kind = q.kind /\ c.who = q.who /\ c.key = q.key /\ c.pass = q.pass /\ c.on = q.on
  /\ c.work = q.work /\ c.was = q.was
Outcome(o, c) == c \in OpType /\ Becomes(o, c)

\* The blank operation has its type.
LEMMA BlankTyped ==
  /\ Blank \in OpType
  /\ \A pc \in Closed, b \in BOOLEAN : [Blank EXCEPT !.pc = pc, !.blind = b] \in OpType
  /\ \A pc \in Closed : [Blank EXCEPT !.pc = pc] \in OpType
<1>1. Root \in Users /\ Nobody \in Records
      BY AccessAssumption DEF Nobody, Records
<1> DEFINE d == [root |-> "no", pwd |-> FALSE]
<1>2. d \in Settings
      BY DEF Settings
<1> DEFINE w == [conf |-> d, there |-> FALSE, keys |-> {}, pass |-> None]
<1>3. w \in [conf: Settings, there: BOOLEAN, keys: SUBSET Keys, pass: Passwords \cup {None}]
      BY <1>2
<1>4. Blank = [pc |-> "idle", kind |-> "none", who |-> Root, key |-> None, pass |-> None, on |-> FALSE,
               work |-> Nobody, wire |-> FALSE, sudo |-> FALSE, blind |-> FALSE, keys |-> {}, old |-> None,
               conf |-> d, was |-> w]
      BY DEF Blank
<1> HIDE DEF d, w
<1>6. "idle" \in Steps \cup Closed
      BY DEF Closed
<1>5. Blank \in OpType
  <2>1. "none" \in Kinds
        BY DEF Kinds
  <2>2. Root \in Users /\ None \in Keys \cup {None} /\ None \in Passwords \cup {None} /\ {} \in SUBSET Keys
        BY <1>1
  <2> QED BY <1>1, <1>2, <1>3, <1>4, <1>6, <2>1, <2>2 DEF OpType
<1> QED BY <1>5 DEF OpType

\* The fields of an operation.
LEMMA Fields ==
  ASSUME NEW q \in OpType
  PROVE  /\ q.pc \in Steps \cup Closed /\ q.kind \in Kinds /\ q.who \in Users /\ q.key \in Keys \cup {None}
         /\ q.pass \in Passwords \cup {None} /\ q.on \in BOOLEAN /\ q.work \in Records
         /\ q.wire \in BOOLEAN /\ q.sudo \in BOOLEAN /\ q.blind \in BOOLEAN /\ q.keys \subseteq Keys
         /\ q.old \in Passwords \cup {None} /\ q.conf \in Settings
         /\ q.was.conf \in Settings /\ q.was.there \in BOOLEAN /\ q.was.keys \subseteq Keys
         /\ q.was.pass \in Passwords \cup {None}
         /\ q.work.user \in Users /\ q.work.auth \in {"key", "password"}
         /\ q.work.pass \in Passwords \cup {None} /\ q.work.key \in Keys \cup {None}
BY DEF OpType, Records

\* A step to pc, with or without the session.
LEMMA Moves ==
  ASSUME op \in [Ops -> OpType], NEW o \in Ops, NEW pc \in Steps \cup Closed, To(o, pc) \/ Lost(o, pc)
  PROVE  \E c : Outcome(o, c) /\ Same(op[o], c) /\ c.pc = pc
<1> DEFINE q == op[o]
<1>1. q \in OpType
      OBVIOUS
<1> HIDE DEF q
<1>2. [q EXCEPT !.pc = pc] \in OpType /\ Same(q, [q EXCEPT !.pc = pc]) /\ [q EXCEPT !.pc = pc].pc = pc
      BY <1>1 DEF OpType, Same, Like
<1>3. [q EXCEPT !.pc = pc, !.wire = FALSE] \in OpType
      BY <1>1 DEF OpType
<1>4. Same(q, [q EXCEPT !.pc = pc, !.wire = FALSE]) /\ [q EXCEPT !.pc = pc, !.wire = FALSE].pc = pc
      BY <1>1 DEF OpType, Same, Like
<1>5. CASE To(o, pc)
      BY <1>5, <1>2 DEF To, Outcome, q
<1>6. CASE Lost(o, pc)
      BY <1>6, <1>3, <1>4 DEF Lost, Outcome, q
<1> QED BY <1>5, <1>6

\* A step to pc that takes a failed command for an answer.
LEMMA Blinded ==
  ASSUME op \in [Ops -> OpType], NEW o \in Ops, NEW pc \in Steps \cup Closed, Unseen(o, pc)
  PROVE  \E c : Outcome(o, c) /\ Ends(op[o], c) /\ c.conf = op[o].conf /\ c.blind /\ c.pc = pc
<1> DEFINE q == op[o]
           c == [q EXCEPT !.pc = pc, !.blind = TRUE]
<1>1. q \in OpType
      OBVIOUS
<1> HIDE DEF q
<1>2. c \in OpType /\ Ends(q, c) /\ c.conf = q.conf /\ c.blind /\ c.pc = pc
      BY <1>1 DEF OpType, Ends
<1>3. Becomes(o, c)
      BY DEF Unseen, q
<1> HIDE DEF c
<1> QED BY <1>2, <1>3 DEF Outcome, q

\* After its step only the operation that took it can be under way.
LEMMA Frame ==
  ASSUME op \in [Ops -> OpType], Alone, NEW o \in Ops, Running(o) \/ AtRest, NEW c, Outcome(o, c)
  PROVE  /\ op' \in [Ops -> OpType] /\ Alone'
         /\ op'[o] = IF c.pc \in Closed THEN [Blank EXCEPT !.pc = c.pc, !.blind = c.blind] ELSE c
         /\ op'[o].pc = c.pc /\ op'[o].blind = c.blind
         /\ \A p \in Ops \ {o} : op'[p] = op[p] /\ ~Running(p)
         /\ \A p \in Ops : Running(p)' => p = o /\ op'[p] = c /\ c.pc \in Steps
         /\ AtRest' <=> c.pc \in Closed
<1>1. c \in OpType /\ c.pc \in Steps \cup Closed /\ c.blind \in BOOLEAN
      BY Fields DEF Outcome
<1> DEFINE d == IF c.pc \in Closed THEN [Blank EXCEPT !.pc = c.pc, !.blind = c.blind] ELSE c
<1>2. op' = [op EXCEPT ![o] = d]
      BY DEF Outcome, Becomes
<1>3. d \in OpType
      BY <1>1, BlankTyped
<1>4. d.pc = c.pc /\ d.blind = c.blind
      BY DEF Blank
<1>5. \A pc \in Closed : pc \notin Steps
      BY DEF Closed, Steps
<1>6. c.pc \in Steps => d = c
      BY <1>5
<1>7. \A p \in Ops \ {o} : ~Running(p)
      BY DEF Alone, AtRest
<1> HIDE DEF d
<1>8. op' \in [Ops -> OpType] /\ op'[o] = d /\ \A p \in Ops \ {o} : op'[p] = op[p]
      BY <1>2, <1>3
<1>9. \A p \in Ops : Running(p)' => p = o /\ op'[p] = c /\ c.pc \in Steps
      BY <1>8, <1>7, <1>6, <1>4 DEF Running
<1>10. AtRest' <=> c.pc \in Closed
      BY <1>1, <1>4, <1>5, <1>7, <1>8 DEF AtRest, Running
<1>11. Alone'
      BY <1>9 DEF Alone
<1> QED BY <1>4, <1>7, <1>8, <1>9, <1>10, <1>11 DEF d

\* Which steps and which ends there are.
LEMMA Names == /\ \A pc \in Closed : pc \notin Steps
               /\ {"idle", "ok", "failed", "restored", "broken", "dead"} \subseteq Closed
BY DEF Closed, Steps

-----------------------------------------------------------------------------
(* What each step does.                                                     *)

\* The step of an operation does effect to the account it is about.
Puts(u, there, pass, keys, sudo) ==
  /\ acct' \in [Users -> Accounts] /\ \A v \in Users \ {u} : acct'[v] = acct[v]
  /\ acct'[u].there = there /\ acct'[u].pass = pass /\ acct'[u].keys = keys /\ acct'[u].sudo = sudo

LEMMA AccountPut ==
  ASSUME TypeOK, NEW o \in Ops, NEW a \in Accounts, Account(o, a)
  PROVE  Puts(op[o].who, a.there, a.pass, a.keys, a.sudo)
<1>1. op[o].who \in Users /\ acct \in [Users -> Accounts]
      BY Fields DEF TypeOK
<1> QED BY <1>1 DEF Account, Puts

LEMMA AccountFields ==
  ASSUME TypeOK, NEW u \in Users
  PROVE  /\ acct[u] \in Accounts /\ acct[u].there \in BOOLEAN /\ acct[u].pass \in Passwords \cup {None}
         /\ acct[u].keys \subseteq Keys /\ acct[u].sudo \in BOOLEAN
BY DEF TypeOK, Accounts

LEMMA PassPut ==
  ASSUME TypeOK, NEW o \in Ops, NEW p \in Passwords \cup {None}, SetPass(o, p)
  PROVE  LET a == acct[op[o].who] IN Puts(op[o].who, a.there, p, a.keys, a.sudo)
<1> DEFINE a == acct[op[o].who]
<1>1. a \in Accounts
      BY Fields, AccountFields DEF TypeOK
<1> HIDE DEF a
<1> DEFINE b == [a EXCEPT !.pass = p]
<1>2. b \in Accounts /\ b.there = a.there /\ b.pass = p /\ b.keys = a.keys /\ b.sudo = a.sudo
      BY <1>1 DEF Accounts
<1>3. Account(o, b)
      BY DEF SetPass, Of, a
<1> HIDE DEF b
<1> QED BY <1>2, <1>3, AccountPut DEF a

LEMMA KeysPut ==
  ASSUME TypeOK, NEW o \in Ops, NEW ks \in SUBSET Keys, SetKeys(o, ks)
  PROVE  LET a == acct[op[o].who] IN Puts(op[o].who, a.there, a.pass, ks, a.sudo)
<1> DEFINE a == acct[op[o].who]
<1>1. a \in Accounts
      BY Fields, AccountFields DEF TypeOK
<1> HIDE DEF a
<1> DEFINE b == [a EXCEPT !.keys = ks]
<1>2. b \in Accounts /\ b.there = a.there /\ b.pass = a.pass /\ b.keys = ks /\ b.sudo = a.sudo
      BY <1>1 DEF Accounts
<1>3. Account(o, b)
      BY DEF SetKeys, Of, a
<1> HIDE DEF b
<1> QED BY <1>2, <1>3, AccountPut DEF a

LEMMA FaultsBound == ASSUME TypeOK, Fine \/ Upset PROVE faults' \in 0..MaxFaults
BY AccessAssumption DEF TypeOK, Fine, Upset

LEMMA FailedSteps ==
  /\ {"failed", "restored", "broken", "ok", "connect", "probe", "check", "change", "make", "write", "verify",
      "commit", "undo", "prove", "leave", "erase", "clear", "restore", "target", "reread", "enter",
      "setting", "reload", "confirm", "unset", "reload2", "confirm2", "useradd", "fill", "userdel",
      "alter"} \subseteq Steps \cup Closed
BY DEF Steps, Closed

\* A command of the operation's session: what it did, and where it led.
LEMMA ChangeDoes ==
  ASSUME TypeOK, NEW o \in Ops, Change(o)
  PROVE  LET q == op[o]
             a == acct[q.who]
             done == Puts(q.who, a.there, q.pass, a.keys, a.sudo)
         IN  /\ q.pc = "change" /\ UNCHANGED <<conf, live, panel, bounds>> /\ Tears(o) /\ faults' \in 0..MaxFaults
             /\ \E c : /\ Outcome(o, c) /\ Same(q, c)
                       /\ (c.pc = "verify" /\ done) \/ (c.pc = "failed" /\ (UNCHANGED acct \/ done))
<1> DEFINE q == op[o]
           a == acct[q.who]
           done == Puts(q.who, a.there, q.pass, a.keys, a.sudo)
<1>1. SetPass(o, q.pass) => done
      BY PassPut, Fields DEF TypeOK
<1>2. \A pc \in {"verify", "failed"} : To(o, pc) \/ Lost(o, pc)
                                        => \E c : Outcome(o, c) /\ Same(q, c) /\ c.pc = pc
      BY Moves, FailedSteps DEF TypeOK
<1>3. faults' \in 0..MaxFaults
      BY FaultsBound DEF Change, Command
<1> QED BY <1>1, <1>2, <1>3 DEF Change, Command, At

LEMMA UndoDoes ==
  ASSUME TypeOK, NEW o \in Ops, Undo(o)
  PROVE  LET q == op[o]
             a == acct[q.who]
             back == IF q.kind = "change_password" THEN q.work.pass ELSE q.old
             done == Puts(q.who, a.there, back, a.keys, a.sudo)
         IN  /\ q.pc = "undo" /\ UNCHANGED <<conf, live, panel, bounds>> /\ Tears(o) /\ faults' \in 0..MaxFaults
             /\ \E c : /\ Outcome(o, c) /\ Same(q, c)
                       /\ (c.pc = "restored" /\ done) \/ (c.pc = "broken" /\ (UNCHANGED acct \/ done))
<1> DEFINE q == op[o]
           a == acct[q.who]
           back == IF q.kind = "change_password" THEN q.work.pass ELSE q.old
           done == Puts(q.who, a.there, back, a.keys, a.sudo)
<1>1. back \in Passwords \cup {None}
      BY Fields DEF TypeOK
<1>2. SetPass(o, back) => done
      BY <1>1, PassPut
<1>3. \A pc \in {"restored", "broken"} : To(o, pc) \/ Lost(o, pc)
                                          => \E c : Outcome(o, c) /\ Same(q, c) /\ c.pc = pc
      BY Moves, FailedSteps DEF TypeOK
<1>4. /\ At(o, "undo") /\ UNCHANGED <<conf, live, panel, bounds>> /\ Tears(o)
      /\ \/ back = None /\ Fine /\ UNCHANGED acct /\ To(o, "broken")
         \/ \E able \in BOOLEAN : Command(o, able, SetPass(o, back), UNCHANGED acct, "restored", "broken", "broken")
      BY DEF Undo, Command
<1> QED BY <1>2, <1>3, <1>4, FaultsBound DEF Command, At

LEMMA MakeDoes ==
  ASSUME TypeOK, NEW o \in Ops, Make(o)
  PROVE  LET q == op[o] IN
         /\ q.pc = "make" /\ UNCHANGED <<server, rec, managed, torn, bounds>> /\ faults' \in 0..MaxFaults
         /\ \/ \E k \in Fresh, c \in OpType :
                 /\ Outcome(o, c) /\ c.pc = "write" /\ c.key = k /\ c.kind = q.kind /\ c.who = q.who
                 /\ c.pass = q.pass /\ c.on = q.on /\ c.work = q.work /\ c.blind = q.blind /\ c.was = q.was
                 /\ files' = files \cup {k}
            \/ \E c : Outcome(o, c) /\ Same(q, c) /\ c.pc = "failed" /\ UNCHANGED files
<1> DEFINE q == op[o]
<1>1. \A pc \in {"failed"} : To(o, pc) => \E c : Outcome(o, c) /\ Same(q, c) /\ c.pc = pc
      BY Moves, FailedSteps DEF TypeOK
<1>2. ASSUME NEW k \in Fresh, Becomes(o, [op[o] EXCEPT !.pc = "write", !.key = k])
      PROVE  \E c \in OpType :
                 /\ Outcome(o, c) /\ c.pc = "write" /\ c.key = k /\ c.kind = q.kind /\ c.who = q.who
                 /\ c.pass = q.pass /\ c.on = q.on /\ c.work = q.work /\ c.blind = q.blind /\ c.was = q.was
  <2> DEFINE c == [q EXCEPT !.pc = "write", !.key = k]
  <2>1. k \in Keys /\ "write" \in Steps \cup Closed /\ q \in OpType
        BY FailedSteps DEF Fresh, TypeOK
  <2> HIDE DEF q
  <2>2. /\ c \in OpType /\ c.pc = "write" /\ c.key = k /\ c.kind = q.kind /\ c.who = q.who
        /\ c.pass = q.pass /\ c.on = q.on /\ c.work = q.work /\ c.blind = q.blind /\ c.was = q.was
        BY <2>1 DEF OpType
  <2>3. Outcome(o, c)
        BY <1>2, <2>2 DEF Outcome, q
  <2> QED BY <2>2, <2>3
<1>3. faults' \in 0..MaxFaults
      BY FaultsBound DEF Make
<1> QED BY <1>1, <1>2, <1>3 DEF Make, At

LEMMA WriteDoes ==
  ASSUME TypeOK, NEW o \in Ops, Write(o), op[o].kind \in {"install_pubkey", "add_key_to_user"}
  PROVE  LET q == op[o]
             a == acct[q.who]
             added == Puts(q.who, a.there, a.pass, a.keys \cup {q.key}, a.sudo)
         IN  /\ q.pc = "write" /\ UNCHANGED <<conf, live, rec, managed, torn, bounds>> /\ faults' \in 0..MaxFaults
             /\ \E c : /\ Outcome(o, c) /\ Like(q, c)
                       /\ \/ /\ c.pc \in {"verify", "ok"} /\ c.keys = a.keys /\ (q.key \in Keys => added) /\ UNCHANGED files
                             /\ c.pc = "verify" /\ q.kind = "add_key_to_user" => q.who = q.work.user
                             /\ c.pc = "ok" /\ q.kind = "install_pubkey" => ~q.on
                          \/ /\ q.kind = "add_key_to_user" /\ c.pc = "failed" /\ files' = files \ {q.key}
                             /\ UNCHANGED acct \/ (q.key \in Keys => added)
                          \/ /\ q.kind = "install_pubkey" /\ c.pc = "restore" /\ c.keys = a.keys /\ UNCHANGED files
                             /\ UNCHANGED acct \/ (q.key \in Keys => added)
<1> DEFINE q == op[o]
           a == acct[q.who]
           r == [q EXCEPT !.keys = a.keys]
           puts == SetKeys(o, r.keys \cup {r.key})
           added == Puts(q.who, a.there, a.pass, a.keys \cup {q.key}, a.sudo)
<1>1. q \in OpType /\ a.keys \in SUBSET Keys /\ Of(o) = a /\ q.who \in Users
      BY Fields, AccountFields DEF TypeOK, Of
<1>2. r \in OpType /\ r.keys = a.keys /\ Like(q, r) /\ r.key = q.key
      BY <1>1 DEF OpType, Like
<1>3. q.key \in Keys /\ puts => added
      BY <1>1, <1>2, KeysPut
<1>4. ASSUME NEW pc \in {"verify", "ok", "restore"}, NEW w \in BOOLEAN,
             Becomes(o, [r EXCEPT !.pc = pc]) \/ Becomes(o, [r EXCEPT !.pc = pc, !.wire = w])
      PROVE  \E c : Outcome(o, c) /\ Like(q, c) /\ c.pc = pc /\ c.keys = a.keys
  <2> HIDE DEF q, r
  <2>1. pc \in Steps \cup Closed
        BY FailedSteps
  <2>2. /\ [r EXCEPT !.pc = pc] \in OpType /\ Like(r, [r EXCEPT !.pc = pc])
        /\ [r EXCEPT !.pc = pc].pc = pc /\ [r EXCEPT !.pc = pc].keys = r.keys
        BY <1>2, <2>1 DEF OpType, Like
  <2>3. /\ [r EXCEPT !.pc = pc, !.wire = w] \in OpType /\ Like(r, [r EXCEPT !.pc = pc, !.wire = w])
        /\ [r EXCEPT !.pc = pc, !.wire = w].pc = pc /\ [r EXCEPT !.pc = pc, !.wire = w].keys = r.keys
        BY <1>2, <2>1 DEF OpType, Like
  <2> QED BY <1>2, <1>4, <2>2, <2>3 DEF Outcome, Like
<1>5. To(o, "failed") => \E c : Outcome(o, c) /\ Like(q, c) /\ c.pc = "failed"
      BY Moves, FailedSteps DEF TypeOK, Same
<1> DEFINE done == IF \/ r.kind = "install_pubkey" /\ r.on
                      \/ r.kind = "add_key_to_user" /\ r.who = r.work.user
                   THEN "verify" ELSE "ok"
           fails(wire) ==
             IF r.kind = "add_key_to_user"
             THEN To(o, "failed") /\ files' = files \ {r.key}
             ELSE Becomes(o, [r EXCEPT !.pc = "restore", !.wire = wire]) /\ UNCHANGED files
<1>6. /\ q.pc = "write" /\ UNCHANGED <<conf, live, rec, managed, torn, bounds>> /\ (Fine \/ Upset)
      /\ \/ puts /\ UNCHANGED files /\ Becomes(o, [r EXCEPT !.pc = done])
         \/ UNCHANGED acct /\ fails(TRUE)
         \/ (puts \/ UNCHANGED acct) /\ fails(FALSE)
      BY <1>1 DEF Write, At
<1>7. /\ done \in {"verify", "ok"}
      /\ done = "verify" /\ q.kind = "add_key_to_user" => q.who = q.work.user
      /\ done = "ok" /\ q.kind = "install_pubkey" => ~q.on
      BY <1>2 DEF Like
<1>8. \A w \in BOOLEAN : fails(w) =>
        \/ q.kind = "add_key_to_user" /\ files' = files \ {q.key} /\ \E c : Outcome(o, c) /\ Like(q, c) /\ c.pc = "failed"
        \/ q.kind = "install_pubkey" /\ UNCHANGED files
             /\ \E c : Outcome(o, c) /\ Like(q, c) /\ c.pc = "restore" /\ c.keys = a.keys
      BY <1>2, <1>4, <1>5 DEF Like
<1> HIDE DEF done, fails, puts, r
<1>9. puts => (q.key \in Keys => added)
      BY <1>3
<1> HIDE DEF added
<1>10. Becomes(o, [r EXCEPT !.pc = done]) => \E c : Outcome(o, c) /\ Like(q, c) /\ c.pc = done /\ c.keys = a.keys
      BY <1>4, <1>7
<1>11. CASE puts /\ UNCHANGED files /\ Becomes(o, [r EXCEPT !.pc = done])
      BY <1>6, <1>7, <1>9, <1>10, <1>11, FaultsBound DEF added
<1>12. CASE UNCHANGED acct /\ fails(TRUE)
      BY <1>6, <1>8, <1>12, FaultsBound DEF added
<1>13. CASE (puts \/ UNCHANGED acct) /\ fails(FALSE)
      BY <1>6, <1>8, <1>9, <1>13, FaultsBound DEF added
<1> QED BY <1>6, <1>11, <1>12, <1>13

LEMMA RestoreDoes ==
  ASSUME TypeOK, NEW o \in Ops, Restore(o)
  PROVE  LET q == op[o]
             a == acct[q.who]
             done == Puts(q.who, a.there, a.pass, q.keys, a.sudo)
         IN  /\ q.pc = "restore" /\ UNCHANGED <<conf, live, rec, managed, bounds>> /\ Tears(o) /\ faults' \in 0..MaxFaults
             /\ files' = IF q.kind = "add_key_to_user" THEN files \ {q.key} ELSE files
             /\ \E c : /\ Outcome(o, c) /\ Same(q, c)
                       /\ (c.pc = "restored" /\ done) \/ (c.pc = "broken" /\ (UNCHANGED acct \/ done))
<1> DEFINE q == op[o]
           a == acct[q.who]
           done == Puts(q.who, a.there, a.pass, q.keys, a.sudo)
<1>1. SetKeys(o, q.keys) => done
      BY KeysPut, Fields DEF TypeOK
<1>2. \A pc \in {"restored", "broken"} : To(o, pc) \/ Lost(o, pc)
                                          => \E c : Outcome(o, c) /\ Same(q, c) /\ c.pc = pc
      BY Moves, FailedSteps DEF TypeOK
<1>3. faults' \in 0..MaxFaults
      BY FaultsBound DEF Restore, Command
<1> QED BY <1>1, <1>2, <1>3 DEF Restore, Command, At

\* A login or a compare-and-set leads to one of a few steps.
LEMMA Leads ==
  ASSUME TypeOK, NEW o \in Ops, NEW pc \in Steps \cup Closed, To(o, pc)
  PROVE  \E c : Outcome(o, c) /\ Same(op[o], c) /\ c.pc = pc
BY Moves DEF TypeOK

LEMMA ProveDoes ==
  ASSUME TypeOK, NEW o \in Ops, Prove(o)
  PROVE  LET q == op[o] IN
         /\ q.pc = "prove" /\ UNCHANGED <<server, panel, torn, bounds>> /\ faults' \in 0..MaxFaults
         /\ \E c : /\ Outcome(o, c) /\ Same(q, c)
                   /\ \/ c.pc = "leave" /\ RouteUses(q) /\ Login([q.work EXCEPT !.auth = "password"])
                      \/ c.pc = "erase" /\ ~RouteUses(q) /\ Login([q.work EXCEPT !.auth = "password"])
                      \/ c.pc = "failed"
<1>1. faults' \in 0..MaxFaults
      BY FaultsBound DEF Prove, Answer
<1>2. \A pc \in {"leave", "erase", "failed"} : To(o, pc) => \E c : Outcome(o, c) /\ Same(op[o], c) /\ c.pc = pc
      BY Leads, FailedSteps
<1> QED BY <1>1, <1>2 DEF Prove, Answer, At

LEMMA LeaveDoes ==
  ASSUME TypeOK, NEW o \in Ops, Leave(o)
  PROVE  LET q == op[o] IN
         /\ q.pc = "leave" /\ UNCHANGED <<server, files, managed, torn, bounds>> /\ faults' \in 0..MaxFaults
         /\ \E c : /\ Outcome(o, c) /\ Same(q, c)
                   /\ \/ /\ c.pc = "erase" /\ rec = q.work
                         /\ rec' = [q.work EXCEPT !.auth = "password", !.key = None]
                      \/ c.pc = "failed" /\ UNCHANGED rec
<1>1. faults' \in 0..MaxFaults
      BY FaultsBound DEF Leave, Cas
<1>2. \A pc \in {"erase", "failed"} : To(o, pc) => \E c : Outcome(o, c) /\ Same(op[o], c) /\ c.pc = pc
      BY Leads, FailedSteps
<1> QED BY <1>1, <1>2 DEF Leave, Cas, At

LEMMA ClearDoes ==
  ASSUME TypeOK, NEW o \in Ops, Clear(o)
  PROVE  LET q == op[o] IN
         /\ q.pc = "clear" /\ UNCHANGED <<server, files, managed, torn, bounds>> /\ faults' \in 0..MaxFaults
         /\ \E c : /\ Outcome(o, c) /\ Same(q, c)
                   /\ \/ c.pc = "ok" /\ rec = q.work /\ rec' = [q.work EXCEPT !.key = None]
                      \/ c.pc \in {"ok", "restore"} /\ UNCHANGED rec
<1>1. faults' \in 0..MaxFaults
      BY FaultsBound DEF Clear, Cas
<1>2. \A pc \in {"ok", "restore"} : To(o, pc) => \E c : Outcome(o, c) /\ Same(op[o], c) /\ c.pc = pc
      BY Leads, FailedSteps
<1> QED BY <1>1, <1>2 DEF Clear, Cas, At

LEMMA SwitchDoes ==
  ASSUME TypeOK, NEW o \in Ops, Switch(o)
  PROVE  LET q == op[o] IN
         /\ q.pc = "commit" /\ q.kind = "switch_user" /\ UNCHANGED <<server, files, torn, bounds>>
         /\ faults' \in 0..MaxFaults
         /\ \E c : /\ Outcome(o, c) /\ Same(q, c)
                   /\ \/ c.pc = "ok" /\ rec = q.work /\ rec' = Target(q) /\ managed' = q.sudo
                      \/ c.pc = "failed" /\ UNCHANGED <<rec, managed>>
<1>1. faults' \in 0..MaxFaults
      BY FaultsBound DEF Switch, Cas
<1>2. \A pc \in {"ok", "failed"} :
        To(o, pc) => \E c : Outcome(o, c) /\ Same(op[o], c) /\ c.pc = pc /\ op'[o].pc = pc
  <2>1. \A c : Outcome(o, c) /\ c.pc \in {"ok", "failed"} => op'[o].pc = c.pc
        BY FailedSteps, BlankTyped DEF Outcome, Becomes, TypeOK, Blank, Closed
  <2> QED BY <2>1, Leads, FailedSteps
<1> QED BY <1>1, <1>2 DEF Switch, Cas, At

LEMMA CommitDoes ==
  ASSUME TypeOK, NEW o \in Ops, Commit(o)
  PROVE  LET q == op[o] IN
         /\ q.pc = "commit" /\ q.kind # "switch_user" /\ UNCHANGED <<server, files, managed, bounds>> /\ Tears(o)
         /\ faults' \in 0..MaxFaults
         /\ \E c : /\ Outcome(o, c) /\ Same(q, c)
                   /\ \/ /\ c.pc = IF q.kind = "set_password_auth" THEN "reread" ELSE "ok"
                         /\ rec = q.work /\ rec' = Patched(q)
                      \/ /\ UNCHANGED rec
                         /\ c.pc \in IF q.kind = "change_password" THEN {"undo", "failed"}
                                     ELSE IF q.kind \in {"install_pubkey", "add_key_to_user"} THEN {"restore"} ELSE {"failed"}
<1> DEFINE q == op[o]
           saved == IF q.kind = "set_password_auth" THEN "reread" ELSE "ok"
           keys == q.kind \in {"install_pubkey", "add_key_to_user"}
           conflict == CASE q.kind = "change_password" -> "undo" [] keys -> "restore" [] OTHER -> "failed"
           error == IF keys THEN "restore" ELSE "failed"
<1>1. faults' \in 0..MaxFaults
      BY FaultsBound DEF Commit, Cas
<1>2. \A pc \in {"ok", "failed", "restore", "undo", "reread"} :
        To(o, pc) => \E c : Outcome(o, c) /\ Same(q, c) /\ c.pc = pc
      BY Leads, FailedSteps
<1>3. /\ saved \in {"ok", "reread"} /\ error \in {"restore", "failed"}
      /\ {conflict, error} \subseteq IF q.kind = "change_password" THEN {"undo", "failed"}
                                     ELSE IF keys THEN {"restore"} ELSE {"failed"}
      OBVIOUS
<1>4. Cas(o, Patched(q), saved, conflict, error) /\ At(o, "commit") /\ q.kind # "switch_user"
      /\ UNCHANGED <<server, files, managed, bounds>> /\ Tears(o)
      BY DEF Commit
<1> HIDE DEF saved, conflict, error
<1>5. \/ To(o, saved) /\ rec = q.work /\ rec' = Patched(q)
      \/ (To(o, conflict) \/ To(o, error)) /\ UNCHANGED rec
      BY <1>4 DEF Cas
<1>6. {conflict, error} \subseteq {"ok", "failed", "restore", "undo", "reread"}
      BY <1>3
<1> QED BY <1>1, <1>2, <1>3, <1>4, <1>5, <1>6 DEF At, saved

LEMMA EraseDoes ==
  ASSUME TypeOK, NEW o \in Ops, Erase(o)
  PROVE  LET q == op[o]
             a == acct[q.who]
             gone == Puts(q.who, a.there, a.pass, a.keys \ {q.key}, a.sudo)
         IN  /\ q.pc = "erase" /\ UNCHANGED <<conf, live, panel, torn, bounds>> /\ faults' \in 0..MaxFaults
             /\ \E c : /\ Outcome(o, c) /\ Like(q, c)
                       /\ \/ /\ c.pc = "clear" /\ c.keys = a.keys /\ q.key \in a.keys /\ gone
                             /\ Recorded(q) /\ ~RouteUses(q)
                          \/ c.pc = "ok" /\ gone
                          \/ c.pc = "failed" /\ (UNCHANGED acct \/ gone)
<1> DEFINE q == op[o]
           a == acct[q.who]
           r == [q EXCEPT !.keys = a.keys]
           puts == SetKeys(o, r.keys \ {r.key})
           gone == Puts(q.who, a.there, a.pass, a.keys \ {q.key}, a.sudo)
           next == IF Recorded(r) /\ ~RouteUses(r) THEN "clear" ELSE "ok"
<1>1. q \in OpType /\ a.keys \in SUBSET Keys /\ Of(o) = a /\ q.who \in Users
      BY Fields, AccountFields DEF TypeOK, Of
<1>2. r \in OpType /\ r.keys = a.keys /\ Like(q, r) /\ r.key = q.key
      BY <1>1 DEF OpType, Like
<1>3. puts => gone
      BY <1>1, <1>2, KeysPut
<1>4. /\ q.pc = "erase" /\ UNCHANGED <<conf, live, panel, torn, bounds>> /\ (Fine \/ Upset)
      /\ \/ r.key \in r.keys /\ puts /\ Becomes(o, [r EXCEPT !.pc = next])
         \/ UNCHANGED acct /\ To(o, "failed")
         \/ (UNCHANGED acct \/ puts) /\ To(o, "failed")
      BY <1>1 DEF Erase, At
<1>5. To(o, "failed") => \E c : Outcome(o, c) /\ Like(q, c) /\ c.pc = "failed"
      BY Leads, FailedSteps DEF Same
<1>6. next \in {"clear", "ok"} /\ (next = "clear" => Recorded(q) /\ ~RouteUses(q))
      BY <1>2 DEF Recorded, RouteUses, Like
<1> HIDE DEF q, r, next, puts, gone
<1>7. [r EXCEPT !.pc = next] \in OpType /\ Like(r, [r EXCEPT !.pc = next]) /\ [r EXCEPT !.pc = next].pc = next
      /\ [r EXCEPT !.pc = next].keys = r.keys
      BY <1>2, <1>6, FailedSteps DEF OpType, Like
<1>8. Becomes(o, [r EXCEPT !.pc = next]) => \E c : Outcome(o, c) /\ Like(q, c) /\ c.pc = next /\ c.keys = a.keys
      BY <1>2, <1>7 DEF Outcome, Like
<1> QED BY <1>2, <1>3, <1>4, <1>5, <1>6, <1>8, FaultsBound DEF q, gone

LEMMA TryDoes ==
  ASSUME TypeOK, NEW o \in Ops, Try(o)
  PROVE  LET q == op[o] IN
         /\ q.pc = "target" /\ UNCHANGED <<server, panel, torn, bounds>> /\ faults' \in 0..MaxFaults
         /\ \E c : /\ Outcome(o, c) /\ Like(q, c)
                   /\ \/ c.pc = "commit" /\ Login(Target(q)) /\ (c.sudo => Sudo(Target(q)))
                      \/ c.pc = "failed"
<1> DEFINE q == op[o]
<1>1. faults' \in 0..MaxFaults
      BY FaultsBound DEF Try
<1>2. To(o, "failed") => \E c : Outcome(o, c) /\ Like(q, c) /\ c.pc = "failed"
      BY Leads, FailedSteps DEF Same
<1>3. ASSUME NEW b \in BOOLEAN, Becomes(o, [q EXCEPT !.pc = "commit", !.sudo = b])
      PROVE  \E c : Outcome(o, c) /\ Like(q, c) /\ c.pc = "commit" /\ c.sudo = b
  <2>1. q \in OpType /\ "commit" \in Steps \cup Closed
        BY FailedSteps DEF TypeOK
  <2> HIDE DEF q
  <2>2. /\ [q EXCEPT !.pc = "commit", !.sudo = b] \in OpType /\ Like(q, [q EXCEPT !.pc = "commit", !.sudo = b])
        /\ [q EXCEPT !.pc = "commit", !.sudo = b].pc = "commit" /\ [q EXCEPT !.pc = "commit", !.sudo = b].sudo = b
        BY <2>1 DEF OpType, Like
  <2> QED BY <1>3, <2>2 DEF Outcome
<1>4. Sudo(Target(q)) \in BOOLEAN
      BY DEF Sudo
<1> DEFINE commits(b) == Login(Target(q)) /\ Becomes(o, [q EXCEPT !.pc = "commit", !.sudo = b])
<1>5. /\ q.pc = "target" /\ UNCHANGED <<server, panel, torn, bounds>>
      /\ To(o, "failed") \/ commits(Sudo(Target(q))) \/ commits(FALSE)
      BY DEF Try, At
<1> QED BY <1>1, <1>2, <1>3, <1>4, <1>5

LEMMA VerifyDoes ==
  ASSUME TypeOK, NEW o \in Ops, Verify(o)
  PROVE  LET q == op[o] IN
         /\ q.pc = "verify" /\ UNCHANGED <<server, panel, torn, bounds>> /\ faults' \in 0..MaxFaults
         /\ \E c : /\ Outcome(o, c) /\ Same(q, c)
                   /\ \/ q.kind = "set_user_password" /\ c.pc \in {"ok", "failed", "undo"}
                      \/ /\ q.kind # "set_user_password" /\ Login(Candidate(q))
                         /\ c.pc = IF q.kind = "set_password_auth" /\ q.work.auth = "key" THEN "reread" ELSE "commit"
                      \/ q.kind = "change_password" /\ c.pc = "undo"
                      \/ q.kind \in {"install_pubkey", "add_key_to_user"} /\ c.pc = "restore"
                      \/ q.kind \notin {"set_user_password", "change_password", "install_pubkey", "add_key_to_user"}
                         /\ c.pc = "failed"
<1> DEFINE q == op[o]
           bad == CASE q.kind = "change_password" \/ (q.kind = "set_user_password" /\ q.who = Root) -> "undo"
                    [] q.kind \in {"install_pubkey", "add_key_to_user"} -> "restore"
                    [] OTHER -> "failed"
           good == CASE q.kind = "set_user_password" -> "ok"
                     [] q.kind = "set_password_auth" /\ q.work.auth = "key" -> "reread"
                     [] OTHER -> "commit"
           yes == Login(Candidate(q)) /\ (q.kind # "set_user_password" /\ q.sudo => Sudo(Candidate(q)))
<1>1. faults' \in 0..MaxFaults
      BY FaultsBound DEF Verify, Answer
<1>2. \A pc \in {"ok", "failed", "undo", "restore", "reread", "commit"} :
        To(o, pc) => \E c : Outcome(o, c) /\ Same(q, c) /\ c.pc = pc
      BY Leads, FailedSteps
<1>3. /\ bad \in {"undo", "restore", "failed"} /\ good \in {"ok", "reread", "commit"}
      /\ q.kind = "set_user_password" => good = "ok" /\ bad \in {"undo", "failed"}
      /\ q.kind = "change_password" => bad = "undo"
      /\ q.kind \in {"install_pubkey", "add_key_to_user"} => bad = "restore"
      /\ q.kind \notin {"set_user_password", "change_password", "install_pubkey", "add_key_to_user"} => bad = "failed"
      /\ q.kind # "set_user_password" =>
           good = IF q.kind = "set_password_auth" /\ q.work.auth = "key" THEN "reread" ELSE "commit"
      OBVIOUS
<1>4. /\ At(o, "verify") /\ UNCHANGED <<server, panel, torn, bounds>>
      /\ \/ q.kind = "set_user_password" /\ To(o, "ok")
         \/ Answer(o, yes, good, bad)
      BY DEF Verify
<1> HIDE DEF bad, good
<1>5. \/ q.kind = "set_user_password" /\ To(o, "ok")
      \/ yes /\ To(o, good)
      \/ To(o, bad)
      BY <1>4 DEF Answer
<1> QED BY <1>1, <1>2, <1>3, <1>4, <1>5 DEF At

LEMMA ProbeDoes ==
  ASSUME TypeOK, NEW o \in Ops, Probe(o)
  PROVE  LET q == op[o] IN
         /\ q.pc = "probe" /\ UNCHANGED <<server, panel, torn, bounds>> /\ faults' \in 0..MaxFaults
         /\ \E c : /\ Outcome(o, c) /\ Same(q, c)
                   /\ \/ c.pc = IF q.kind = "delete_user" THEN "connect" ELSE "reread"
                      \/ c.pc = "failed"
<1>1. faults' \in 0..MaxFaults
      BY FaultsBound DEF Probe, Answer
<1>2. \A pc \in {"connect", "reread", "failed"} : To(o, pc) => \E c : Outcome(o, c) /\ Same(op[o], c) /\ c.pc = pc
      BY Leads, FailedSteps
<1>3. \/ To(o, IF op[o].kind = "delete_user" THEN "connect" ELSE "reread")
      \/ To(o, "failed")
      BY DEF Probe, Answer
<1> QED BY <1>1, <1>2, <1>3 DEF Probe, At

LEMMA ConnectDoes ==
  ASSUME TypeOK, NEW o \in Ops, Connect(o)
  PROVE  LET q == op[o] IN
         /\ q.pc = "connect" /\ UNCHANGED <<server, panel, torn, bounds>> /\ faults' \in 0..MaxFaults
         /\ \E c : /\ Outcome(o, c) /\ Like(q, c)
                   /\ \/ c.pc = "failed"
                      \/ q.kind = "switch_user" /\ c.pc = "target"
                      \/ /\ Login(q.work)
                         /\ \/ q.kind = "change_password" /\ c.pc = "change"
                            \/ q.kind = "create_user" /\ c.pc = "useradd"
                            \/ q.kind \in {"grant_sudo", "revoke_sudo", "delete_user"} /\ c.pc = "alter"
                            \/ /\ q.kind \notin {"change_password", "create_user", "grant_sudo", "revoke_sudo",
                                                 "delete_user", "switch_user"}
                               /\ c.pc = "check"
<1> DEFINE q == op[o]
           next == CASE op[o].kind = "change_password" -> "change"
                     [] op[o].kind = "create_user" -> "useradd"
                     [] op[o].kind \in {"grant_sudo", "revoke_sudo", "delete_user"} -> "alter"
                     [] op[o].kind = "switch_user" -> "target"
                     [] OTHER -> "check"
           stay == IF op[o].kind = "switch_user" THEN "target" ELSE "failed"
           enter(sudo) == Becomes(o, [q EXCEPT !.pc = next, !.wire = TRUE, !.sudo = sudo])
<1>1. faults' \in 0..MaxFaults
      BY FaultsBound DEF Connect
<1>2. stay \in {"target", "failed"} /\ (stay = "target" => q.kind = "switch_user")
      OBVIOUS
<1>3. /\ next \in {"change", "useradd", "alter", "target", "check"}
      /\ next = "change" => q.kind = "change_password"
      /\ next = "useradd" => q.kind = "create_user"
      /\ next = "alter" => q.kind \in {"grant_sudo", "revoke_sudo", "delete_user"}
      /\ next = "target" => q.kind = "switch_user"
      /\ next = "check" => q.kind \notin {"change_password", "create_user", "grant_sudo", "revoke_sudo",
                                         "delete_user", "switch_user"}
      OBVIOUS
<1>4. /\ q.pc = "connect" /\ UNCHANGED <<server, panel, torn, bounds>>
      /\ \/ Login(q.work) /\ enter(Sudo(q.work))
         \/ Login(q.work) /\ enter(FALSE)
         \/ To(o, stay)
      BY DEF Connect, At
<1>5. Sudo(q.work) \in BOOLEAN /\ q \in OpType /\ next \in Steps \cup Closed
      BY <1>3, FailedSteps DEF Sudo, TypeOK
<1>6. \A pc \in {"target", "failed"} : To(o, pc) => \E c : Outcome(o, c) /\ Like(q, c) /\ c.pc = pc
      BY Leads, FailedSteps DEF Same
<1> HIDE DEF q, next, stay
<1>7. ASSUME NEW b \in BOOLEAN, enter(b)
      PROVE  \E c : Outcome(o, c) /\ Like(q, c) /\ c.pc = next
  <2>1. /\ [q EXCEPT !.pc = next, !.wire = TRUE, !.sudo = b] \in OpType
        /\ Like(q, [q EXCEPT !.pc = next, !.wire = TRUE, !.sudo = b])
        /\ [q EXCEPT !.pc = next, !.wire = TRUE, !.sudo = b].pc = next
        BY <1>5 DEF OpType, Like
  <2> QED BY <1>7, <2>1 DEF Outcome
<1> HIDE DEF enter
<1>8. \/ Login(q.work) /\ \E c : Outcome(o, c) /\ Like(q, c) /\ c.pc = next
      \/ \E c : Outcome(o, c) /\ Like(q, c) /\ c.pc = stay
      BY <1>2, <1>4, <1>5, <1>6, <1>7
<1> QED BY <1>1, <1>2, <1>3, <1>4, <1>8 DEF q

\* What the reading before the change lets pass.
LEMMA GatesLead ==
  ASSUME NEW q, q.kind \in Passers["check"], NEW pc \in Gates(q)
  PROVE  LET a == acct[q.who] IN
         \/ pc = "failed"
         \/ q.kind = "set_user_password" /\ pc = "change"
         \/ q.kind = "set_password_auth" /\ pc = "verify" /\ q.key \in files \cap a.keys
         \/ q.kind = "install_pubkey" /\ pc = "write"
         \/ q.kind = "add_key_to_user" /\ pc = "make" /\ (q.who = Root /\ q.work.user # Root => live.pwd)
         \/ q.kind = "select_user_key" /\ pc = "commit" /\ q.key \in files \cap a.keys
         \/ q.kind = "select_user_key" /\ pc = "ok" /\ q.work.key = q.key
         \/ /\ q.kind = "remove_key_from_user" /\ q.key \in a.keys /\ (q.who = Root /\ q.work.user # Root => live.pwd)
            /\ \/ pc = "prove"
               \/ /\ pc = "erase" /\ ~RouteUses(q)
                  /\ Guarded(q) /\ a.keys = {q.key} /\ q.who = q.work.user => q.work.auth # "key"
<1> DEFINE a == acct[q.who]
<1>1. q.kind \in {"set_user_password", "set_password_auth", "select_user_key", "install_pubkey",
                  "add_key_to_user", "remove_key_from_user"}
      BY DEF Passers, Keyed
<1>2. CASE q.kind = "set_user_password"
      BY <1>2 DEF Gates
<1>3. CASE q.kind = "set_password_auth"
      BY <1>3 DEF Gates
<1>4. CASE q.kind = "install_pubkey"
      BY <1>4 DEF Gates
<1>5. CASE q.kind = "add_key_to_user"
      BY <1>5 DEF Gates, RootDoor
<1>6. CASE q.kind = "select_user_key"
      BY <1>6 DEF Gates
<1>7. CASE q.kind = "remove_key_from_user"
  <2>1. pc = ToRemove(q)
        BY <1>7 DEF Gates
  <2> DEFINE may == /\ a.there /\ q.key \in a.keys
                    /\ q.who = q.work.user \/ Sudo(q.work)
                    /\ q.who = Root /\ q.work.user # Root => RootDoor
  <2>2. CASE ~may
        BY <2>1, <2>2 DEF ToRemove
  <2>3. CASE may /\ RouteUses(q)
    <3>1. pc \in {"prove", "failed"}
          BY <2>1, <2>3 DEF ToRemove
    <3> QED BY <3>1, <2>3, <1>7 DEF RootDoor
  <2>4. CASE may /\ ~RouteUses(q) /\ Guarded(q) /\ a.keys = {q.key}
    <3>1. pc = IF ~conf.pwd THEN "failed"
               ELSE IF q.who = q.work.user /\ q.work.auth = "key"
                    THEN IF q.work.pass # None THEN "prove" ELSE "failed"
                    ELSE "erase"
          BY <2>1, <2>4 DEF ToRemove
    <3> QED BY <3>1, <2>4, <1>7 DEF RootDoor
  <2>5. CASE may /\ ~RouteUses(q) /\ ~(Guarded(q) /\ a.keys = {q.key})
    <3>1. pc = "erase"
          BY <2>1, <2>5 DEF ToRemove
    <3> QED BY <3>1, <2>5, <1>7 DEF RootDoor
  <2> QED BY <2>2, <2>3, <2>4, <2>5
<1> QED BY <1>1, <1>2, <1>3, <1>4, <1>5, <1>6, <1>7

LEMMA CheckDoes ==
  ASSUME TypeOK, NEW o \in Ops, Check(o), op[o].kind \in Passers["check"]
  PROVE  LET q == op[o] IN
         /\ q.pc = "check" /\ UNCHANGED <<server, panel, torn, bounds>> /\ faults' \in 0..MaxFaults
         /\ \E c : /\ Outcome(o, c) /\ Like(q, c) /\ (c.pc = "failed" \/ c.pc \in Gates(q))
                   /\ c.pc # "failed" /\ q.kind = "set_user_password" => c.old = acct[q.who].pass
<1> DEFINE q == op[o]
           old == IF op[o].kind = "set_user_password" THEN Of(o).pass ELSE None
<1>1. faults' \in 0..MaxFaults
      BY FaultsBound DEF Check
<1>2. To(o, "failed") => \E c : Outcome(o, c) /\ Like(q, c) /\ c.pc = "failed"
      BY Leads, FailedSteps DEF Same
<1>3. old \in Passwords \cup {None} /\ q \in OpType /\ (q.kind = "set_user_password" => old = acct[q.who].pass)
      BY AccountFields, Fields DEF TypeOK, Of
<1>4. \A pc \in Gates(q) : pc \in Steps \cup Closed
      BY GatesLead, FailedSteps
<1>5. /\ q.pc = "check" /\ UNCHANGED <<server, panel, torn, bounds>>
      /\ To(o, "failed") \/ \E pc \in Gates(q) : Becomes(o, [q EXCEPT !.pc = pc, !.old = old])
      BY DEF Check, At
<1> HIDE DEF q, old
<1>6. ASSUME NEW pc \in Gates(q), Becomes(o, [q EXCEPT !.pc = pc, !.old = old])
      PROVE  \E c : Outcome(o, c) /\ Like(q, c) /\ c.pc = pc /\ c.old = old
  <2>1. /\ [q EXCEPT !.pc = pc, !.old = old] \in OpType /\ Like(q, [q EXCEPT !.pc = pc, !.old = old])
        /\ [q EXCEPT !.pc = pc, !.old = old].pc = pc /\ [q EXCEPT !.pc = pc, !.old = old].old = old
        BY <1>3, <1>4 DEF OpType, Like
  <2> QED BY <1>6, <2>1 DEF Outcome
<1>7. (\E c : Outcome(o, c) /\ Like(q, c) /\ c.pc = "failed")
      \/ \E pc \in Gates(q) : \E c : Outcome(o, c) /\ Like(q, c) /\ c.pc = pc /\ c.old = old
      BY <1>2, <1>5, <1>6
<1> QED BY <1>1, <1>3, <1>5, <1>7 DEF q

LEMMA RereadDoes ==
  ASSUME TypeOK, NEW o \in Ops, Reread(o)
  PROVE  LET q == op[o] IN
         /\ q.pc = "reread" /\ UNCHANGED <<server, panel, torn, bounds>> /\ faults' \in 0..MaxFaults
         /\ \E c : /\ Outcome(o, c) /\ c.pc = "enter" /\ c.work = rec /\ c.kind = q.kind /\ c.who = q.who
                   /\ c.key = q.key /\ c.pass = q.pass /\ c.on = q.on /\ c.blind = q.blind /\ c.was = q.was
<1> DEFINE q == op[o]
           c == [q EXCEPT !.pc = "enter", !.work = rec]
<1>1. q \in OpType /\ rec \in Records /\ "enter" \in Steps \cup Closed
      BY FailedSteps DEF TypeOK
<1>2. q.pc = "reread" /\ UNCHANGED <<server, panel, torn, bounds>> /\ faults' \in 0..MaxFaults /\ Becomes(o, c)
      BY FaultsBound DEF Reread, At
<1> HIDE DEF q
<1>3. /\ c \in OpType /\ c.pc = "enter" /\ c.work = rec /\ c.kind = q.kind /\ c.who = q.who
      /\ c.key = q.key /\ c.pass = q.pass /\ c.on = q.on /\ c.blind = q.blind /\ c.was = q.was
      BY <1>1 DEF OpType
<1>4. Outcome(o, c)
      BY <1>2, <1>3 DEF Outcome
<1> HIDE DEF c
<1> QED BY <1>2, <1>3, <1>4 DEF q

LEMMA EnterDoes ==
  ASSUME TypeOK, NEW o \in Ops, Enter(o)
  PROVE  LET q == op[o] IN
         /\ q.pc = "enter" /\ UNCHANGED <<server, panel, torn, bounds>> /\ faults' \in 0..MaxFaults
         /\ \E c : Outcome(o, c) /\ Same(q, c) /\ c.pc \in {"setting", "failed"}
<1> DEFINE q == op[o]
           c == [q EXCEPT !.pc = "setting", !.wire = TRUE]
<1>1. q \in OpType /\ "setting" \in Steps \cup Closed
      BY FailedSteps DEF TypeOK
<1>2. q.pc = "enter" /\ UNCHANGED <<server, panel, torn, bounds>> /\ faults' \in 0..MaxFaults
      BY FaultsBound DEF Enter, At
<1>5. Becomes(o, c) \/ To(o, "failed")
      BY DEF Enter
<1>3. To(o, "failed") => \E d : Outcome(o, d) /\ Same(q, d) /\ d.pc = "failed"
      BY Leads, FailedSteps
<1> HIDE DEF q
<1>4. c \in OpType /\ c.pc = "setting" /\ Same(q, c)
      BY <1>1 DEF OpType, Same, Like
<1> HIDE DEF c
<1> QED BY <1>2, <1>3, <1>4, <1>5 DEF Outcome, q

LEMMA SettingDoes ==
  ASSUME TypeOK, NEW o \in Ops, Setting(o)
  PROVE  LET q == op[o] IN
         /\ q.pc = "setting" /\ UNCHANGED <<live, acct, panel, bounds>> /\ Tears(o) /\ faults' \in 0..MaxFaults
         /\ \E c : /\ Outcome(o, c) /\ Like(q, c)
                   /\ \/ c.pc = "reload" /\ c.conf = conf /\ conf' = With(q, conf)
                      \/ c.pc = "failed" /\ UNCHANGED conf
                      \/ c.pc = "unset" /\ c.conf = conf /\ conf' \in {conf, With(q, conf)}
<1> DEFINE q == op[o]
           r == [q EXCEPT !.conf = conf]
<1>1. q \in OpType /\ conf \in Settings
      BY DEF TypeOK
<1>2. r \in OpType /\ r.conf = conf /\ Like(q, r)
      BY <1>1 DEF OpType, Like
<1>3. With(r, conf) = With(q, conf)
      BY <1>2 DEF With, Like
<1>4. /\ q.pc = "setting" /\ UNCHANGED <<live, acct, panel, bounds>> /\ Tears(o) /\ faults' \in 0..MaxFaults
      /\ \/ conf' = With(r, conf) /\ Becomes(o, [r EXCEPT !.pc = "reload"])
         \/ UNCHANGED conf /\ To(o, "failed")
         \/ UNCHANGED conf /\ Becomes(o, [r EXCEPT !.pc = "unset"])
         \/ conf' \in {conf, With(r, conf)} /\ Becomes(o, [r EXCEPT !.pc = "unset", !.wire = FALSE])
      BY FaultsBound DEF Setting, At
<1>5. To(o, "failed") => \E c : Outcome(o, c) /\ Like(q, c) /\ c.pc = "failed"
      BY Leads, FailedSteps DEF Same
<1> HIDE DEF q, r
<1>6. ASSUME NEW pc \in {"reload", "unset"},
             Becomes(o, [r EXCEPT !.pc = pc]) \/ Becomes(o, [r EXCEPT !.pc = pc, !.wire = FALSE])
      PROVE  \E c : Outcome(o, c) /\ Like(q, c) /\ c.pc = pc /\ c.conf = conf
  <2>1. pc \in Steps \cup Closed
        BY FailedSteps
  <2>2. /\ [r EXCEPT !.pc = pc] \in OpType /\ Like(r, [r EXCEPT !.pc = pc])
        /\ [r EXCEPT !.pc = pc].pc = pc /\ [r EXCEPT !.pc = pc].conf = r.conf
        BY <1>2, <2>1 DEF OpType, Like
  <2>3. /\ [r EXCEPT !.pc = pc, !.wire = FALSE] \in OpType /\ Like(r, [r EXCEPT !.pc = pc, !.wire = FALSE])
        /\ [r EXCEPT !.pc = pc, !.wire = FALSE].pc = pc /\ [r EXCEPT !.pc = pc, !.wire = FALSE].conf = r.conf
        BY <1>2, <2>1 DEF OpType, Like
  <2> QED BY <1>2, <1>6, <2>2, <2>3 DEF Outcome, Like
<1> QED BY <1>3, <1>4, <1>5, <1>6 DEF q

LEMMA ReloadDoes ==
  ASSUME TypeOK, NEW o \in Ops, Reload(o)
  PROVE  LET q == op[o] IN
         /\ UNCHANGED <<conf, acct, panel, bounds>> /\ Tears(o) /\ faults' \in 0..MaxFaults
         /\ \E c : /\ Outcome(o, c) /\ With(c, c.conf) = With(q, q.conf)
                   /\ \/ /\ Same(q, c)
                         /\ \/ q.pc = "reload" /\ c.pc = "confirm" /\ live' = conf
                            \/ q.pc = "reload" /\ c.pc = "unset" /\ live' \in {live, conf}
                            \/ q.pc = "reload2" /\ c.pc = "confirm2" /\ live' = conf
                            \/ q.pc = "reload2" /\ c.pc = "broken" /\ live' \in {live, conf}
                      \/ /\ Ends(q, c) /\ c.conf = q.conf /\ c.blind /\ UNCHANGED live
                         /\ \/ q.pc = "reload" /\ c.pc = "confirm"
                            \/ q.pc = "reload2" /\ c.pc = "confirm2"
<1> DEFINE q == op[o]
<1>1. \A pc \in {"confirm", "unset", "confirm2", "broken"} :
        To(o, pc) \/ Lost(o, pc) => \E c : Outcome(o, c) /\ Same(q, c) /\ c.pc = pc
      BY Moves, FailedSteps DEF TypeOK
<1>2. \A pc \in {"confirm", "confirm2"} :
        Unseen(o, pc) => \E c : Outcome(o, c) /\ Ends(q, c) /\ c.conf = q.conf /\ c.blind /\ c.pc = pc
      BY Blinded, FailedSteps DEF TypeOK
<1>3. \A c : Same(q, c) \/ (Ends(q, c) /\ c.conf = q.conf) => With(c, c.conf) = With(q, q.conf)
      BY DEF Same, Like, Ends, With
<1>4. faults' \in 0..MaxFaults
      BY FaultsBound DEF Reload, Command
<1>5. CASE At(o, "reload") /\ Command(o, Sudo(q.work), live' = conf, UNCHANGED live, "confirm", "unset", "unset")
      BY <1>1, <1>3, <1>4, <1>5 DEF Reload, Command, At
<1>6. CASE /\ At(o, "reload2")
           /\ Command(o, Sudo(q.work), live' = conf, UNCHANGED live, "confirm2", "broken", "broken")
      BY <1>1, <1>3, <1>4, <1>6 DEF Reload, Command, At
<1>7. CASE UNCHANGED live /\ At(o, "reload") /\ Unseen(o, "confirm")
      BY <1>2, <1>3, <1>4, <1>7 DEF Reload, At
<1>8. CASE UNCHANGED live /\ At(o, "reload2") /\ Unseen(o, "confirm2")
      BY <1>2, <1>3, <1>4, <1>8 DEF Reload, At
<1> QED BY <1>5, <1>6, <1>7, <1>8 DEF Reload, At

LEMMA ConfirmDoes ==
  ASSUME TypeOK, NEW o \in Ops, Confirm(o)
  PROVE  LET q == op[o] IN
         /\ UNCHANGED <<server, panel, bounds>> /\ Tears(o) /\ faults' \in 0..MaxFaults
         /\ \E c : /\ Outcome(o, c) /\ Same(q, c)
                   /\ \/ q.pc = "confirm" /\ c.pc \in {"ok", "unset"}
                      \/ q.pc = "confirm2" /\ c.pc \in {"restored", "broken"}
<1> DEFINE q == op[o]
<1>1. \A pc \in {"ok", "unset", "restored", "broken"} : To(o, pc) => \E c : Outcome(o, c) /\ Same(q, c) /\ c.pc = pc
      BY Leads, FailedSteps
<1>2. faults' \in 0..MaxFaults
      BY FaultsBound DEF Confirm, Answer
<1> QED BY <1>1, <1>2 DEF Confirm, Answer, At

LEMMA UnsetDoes ==
  ASSUME TypeOK, NEW o \in Ops, Unset(o)
  PROVE  LET q == op[o] IN
         /\ q.pc = "unset" /\ UNCHANGED <<live, acct, panel, bounds>> /\ Tears(o) /\ faults' \in 0..MaxFaults
         /\ \E c : /\ Outcome(o, c) /\ Same(q, c)
                   /\ \/ c.pc = "reload2" /\ conf' = q.conf
                      \/ c.pc = "broken" /\ conf' \in {conf, q.conf}
<1> DEFINE q == op[o]
<1>1. \A pc \in {"reload2", "broken"} :
        To(o, pc) \/ Lost(o, pc) => \E c : Outcome(o, c) /\ Same(q, c) /\ c.pc = pc
      BY Moves, FailedSteps DEF TypeOK
<1>2. faults' \in 0..MaxFaults
      BY FaultsBound DEF Unset, Command
<1> QED BY <1>1, <1>2 DEF Unset, Command, At

LEMMA UseraddDoes ==
  ASSUME TypeOK, NEW o \in Ops, Useradd(o)
  PROVE  LET q == op[o]
             a == acct[q.who]
             done == ~a.there /\ Puts(q.who, TRUE, None, a.keys, FALSE)
         IN  /\ q.pc = "useradd" /\ UNCHANGED <<conf, live, panel, torn, bounds>> /\ faults' \in 0..MaxFaults
             /\ \E c : /\ Outcome(o, c) /\ Same(q, c)
                       /\ (c.pc = "fill" /\ done) \/ (c.pc = "failed" /\ (UNCHANGED acct \/ done))
<1> DEFINE q == op[o]
           a == acct[q.who]
           puts == Account(o, NewAccount(Of(o)))
<1>1. a \in Accounts
      BY Fields, AccountFields DEF TypeOK
<1>2. /\ NewAccount(a) \in Accounts /\ NewAccount(a).there = TRUE /\ NewAccount(a).pass = None
      /\ NewAccount(a).keys = a.keys /\ NewAccount(a).sudo = FALSE
      BY <1>1 DEF NewAccount, Accounts
<1>3. puts => Puts(q.who, TRUE, None, a.keys, FALSE)
      BY <1>2, AccountPut DEF Of
<1>4. \A pc \in {"fill", "failed"} :
        To(o, pc) \/ Lost(o, pc) => \E c : Outcome(o, c) /\ Same(q, c) /\ c.pc = pc
      BY Moves, FailedSteps DEF TypeOK
<1>5. faults' \in 0..MaxFaults
      BY FaultsBound DEF Useradd, Command
<1> QED BY <1>3, <1>4, <1>5 DEF Useradd, Command, At, Of

LEMMA FillDoes ==
  ASSUME TypeOK, NEW o \in Ops, Fill(o)
  PROVE  LET q == op[o]
             a == acct[q.who]
             done == Puts(q.who, a.there, q.pass, a.keys, q.on)
         IN  /\ q.pc = "fill" /\ UNCHANGED <<conf, live, panel, torn, bounds>> /\ faults' \in 0..MaxFaults
             /\ \E c : /\ Outcome(o, c) /\ Same(q, c)
                       /\ (c.pc = "ok" /\ done) \/ (c.pc = "userdel" /\ (UNCHANGED acct \/ done))
<1> DEFINE q == op[o]
           a == acct[q.who]
           b == [a EXCEPT !.pass = q.pass, !.sudo = q.on]
           puts == Account(o, b)
<1>1. a \in Accounts /\ q.pass \in Passwords \cup {None} /\ q.on \in BOOLEAN
      BY Fields, AccountFields DEF TypeOK
<1>2. b \in Accounts /\ b.there = a.there /\ b.pass = q.pass /\ b.keys = a.keys /\ b.sudo = q.on
      BY <1>1 DEF Accounts
<1>3. puts => Puts(q.who, a.there, q.pass, a.keys, q.on)
      BY <1>2, AccountPut
<1>4. \A pc \in {"ok", "userdel"} :
        To(o, pc) \/ Lost(o, pc) => \E c : Outcome(o, c) /\ Same(q, c) /\ c.pc = pc
      BY Moves, FailedSteps DEF TypeOK
<1>5. faults' \in 0..MaxFaults
      BY FaultsBound DEF Fill, Command
<1> QED BY <1>3, <1>4, <1>5 DEF Fill, Command, At, Of

LEMMA UserdelDoes ==
  ASSUME TypeOK, NEW o \in Ops, Userdel(o)
  PROVE  LET q == op[o]
             done == Puts(q.who, FALSE, None, {}, FALSE)
         IN  /\ q.pc = "userdel" /\ UNCHANGED <<conf, live, panel, torn, bounds>> /\ faults' \in 0..MaxFaults
             /\ \E c : /\ Outcome(o, c) /\ Same(q, c)
                       /\ (c.pc = "restored" /\ done) \/ (c.pc = "broken" /\ (UNCHANGED acct \/ done))
<1> DEFINE q == op[o]
<1>1. /\ Gone({}) \in Accounts /\ Gone({}).there = FALSE /\ Gone({}).pass = None
      /\ Gone({}).keys = {} /\ Gone({}).sudo = FALSE
      BY DEF Gone, Accounts
<1>2. Account(o, Gone({})) => Puts(q.who, FALSE, None, {}, FALSE)
      BY <1>1, AccountPut
<1>3. \A pc \in {"restored", "broken"} :
        To(o, pc) \/ Lost(o, pc) => \E c : Outcome(o, c) /\ Same(q, c) /\ c.pc = pc
      BY Moves, FailedSteps DEF TypeOK
<1>4. faults' \in 0..MaxFaults
      BY FaultsBound DEF Userdel, Command
<1> QED BY <1>2, <1>3, <1>4 DEF Userdel, Command, At

LEMMA AlterDoes ==
  ASSUME TypeOK, NEW o \in Ops, Alter(o), op[o].kind \in Passers["alter"]
  PROVE  LET q == op[o]
             a == acct[q.who]
             done == \/ q.kind = "grant_sudo" /\ Puts(q.who, a.there, a.pass, a.keys, TRUE)
                     \/ q.kind = "revoke_sudo" /\ Puts(q.who, a.there, a.pass, a.keys, FALSE)
                     \/ q.kind = "delete_user" /\ Puts(q.who, FALSE, None, IF q.on THEN {} ELSE a.keys, FALSE)
         IN  /\ q.pc = "alter" /\ UNCHANGED <<conf, live, panel, torn, bounds>> /\ faults' \in 0..MaxFaults
             /\ \E c : /\ Outcome(o, c) /\ Ends(q, c)
                       /\ \/ c.pc = "ok" /\ done
                          \/ c.pc = "failed" /\ (UNCHANGED acct \/ done)
                          \/ c.pc = "ok" /\ c.blind /\ UNCHANGED acct
<1> DEFINE q == op[o]
           a == acct[q.who]
           puts == Account(o, Altered(q, Of(o)))
           home == IF q.on THEN {} ELSE a.keys
           done == \/ q.kind = "grant_sudo" /\ Puts(q.who, a.there, a.pass, a.keys, TRUE)
                   \/ q.kind = "revoke_sudo" /\ Puts(q.who, a.there, a.pass, a.keys, FALSE)
                   \/ q.kind = "delete_user" /\ Puts(q.who, FALSE, None, home, FALSE)
<1>1. a \in Accounts /\ home \subseteq Keys /\ Of(o) = a
      BY Fields, AccountFields DEF TypeOK, Of
<1>2. /\ Gone(home) \in Accounts /\ Gone(home).there = FALSE /\ Gone(home).pass = None
      /\ Gone(home).keys = home /\ Gone(home).sudo = FALSE
      BY <1>1 DEF Gone, Accounts
<1>3. ASSUME q.kind = "delete_user", puts PROVE done
  <2>1. Account(o, Gone(home))
        BY <1>1, <1>3 DEF Altered
  <2>2. Puts(q.who, FALSE, None, home, FALSE)
        BY <1>2, <2>1, AccountPut
  <2> QED BY <2>2, <1>3
<1>4. ASSUME q.kind = "grant_sudo", puts PROVE done
  <2> DEFINE b == [a EXCEPT !.sudo = TRUE]
  <2>1. Account(o, b)
        BY <1>1, <1>4 DEF Altered
  <2>2. b \in Accounts /\ b.there = a.there /\ b.pass = a.pass /\ b.keys = a.keys /\ b.sudo = TRUE
        BY <1>1 DEF Accounts
  <2> HIDE DEF b
  <2>3. Puts(q.who, a.there, a.pass, a.keys, TRUE)
        BY <2>1, <2>2, AccountPut
  <2> QED BY <2>3, <1>4
<1>5. ASSUME q.kind = "revoke_sudo", puts PROVE done
  <2> DEFINE b == [a EXCEPT !.sudo = FALSE]
  <2>1. Account(o, b)
        BY <1>1, <1>5 DEF Altered
  <2>2. b \in Accounts /\ b.there = a.there /\ b.pass = a.pass /\ b.keys = a.keys /\ b.sudo = FALSE
        BY <1>1 DEF Accounts
  <2> HIDE DEF b
  <2>3. Puts(q.who, a.there, a.pass, a.keys, FALSE)
        BY <2>1, <2>2, AccountPut
  <2> QED BY <2>3, <1>5
<1>6. puts => done
      BY <1>3, <1>4, <1>5 DEF Passers
<1>7. \A pc \in {"ok", "failed"} :
        To(o, pc) \/ Lost(o, pc) => \E c : Outcome(o, c) /\ Ends(q, c) /\ c.pc = pc
      BY Moves, FailedSteps DEF TypeOK, Same, Like, Ends
<1>8. Unseen(o, "ok") => \E c : Outcome(o, c) /\ Ends(q, c) /\ c.blind /\ c.pc = "ok"
      BY Blinded, FailedSteps DEF TypeOK
<1>9. faults' \in 0..MaxFaults
      BY FaultsBound DEF Alter, Command
<1> HIDE DEF done
<1> DEFINE ends == \E c : /\ Outcome(o, c) /\ Ends(q, c)
                          /\ \/ c.pc = "ok" /\ done
                             \/ c.pc = "failed" /\ (UNCHANGED acct \/ done)
                             \/ c.pc = "ok" /\ c.blind /\ UNCHANGED acct
<1>10. CASE Command(o, Sudo(q.work) /\ Of(o).there, puts, UNCHANGED acct, "ok", "failed", "failed")
  <2>1. ends
        BY <1>6, <1>7, <1>10 DEF Command
  <2> QED BY <2>1, <1>9 DEF Alter, At, done
<1>11. CASE UNCHANGED acct /\ (Unseen(o, "ok") \/ To(o, "failed"))
  <2>1. ends
        BY <1>7, <1>8, <1>11
  <2> QED BY <2>1, <1>9 DEF Alter, At, done
<1> QED BY <1>10, <1>11 DEF Alter

-----------------------------------------------------------------------------
(* Types, and what an operation in hand is about.                           *)

Parts(q) == Own(q) /\ Given(q) /\ Doing(q)

LEMMA ActFacts ==
  ASSUME ActInv, NEW o \in Ops, Running(o)
  PROVE  TypeOK /\ op[o] \in OpType /\ op[o].kind \in Passers[op[o].pc] /\ Parts(op[o])
BY DEF ActInv, TypeOK, Parts

\* What is to be shown of a step.
LEMMA ActBy ==
  ASSUME ActInv, NEW o \in Ops, Running(o) \/ AtRest, NEW c, Outcome(o, c),
         conf' \in Settings, live' \in Settings, acct' \in [Users -> Accounts], rec' \in Records,
         files' \subseteq Keys, torn' \in BOOLEAN, managed' \in BOOLEAN,
         calls' \in 0..MaxCalls, edits' \in 0..MaxEdits, faults' \in 0..MaxFaults,
         c.pc \in Steps => c.kind \in Passers[c.pc] /\ Own(c) /\ Given(c)' /\ Doing(c)'
  PROVE  ActInv'
<1>1. /\ op' \in [Ops -> OpType] /\ Alone'
      /\ \A p \in Ops : Running(p)' => op'[p] = c /\ c.pc \in Steps
      BY Frame DEF ActInv, TypeOK
<1>2. TypeOK'
      BY <1>1 DEF TypeOK
<1>3. ASSUME NEW p \in Ops, Running(p)'
      PROVE  op'[p].kind \in Passers[op'[p].pc] /\ Own(op[p])' /\ Given(op[p])' /\ Doing(op[p])'
  <2>1. op'[p] = c /\ c.pc \in Steps
        BY <1>1, <1>3
  <2>2. Own(op'[p]) /\ op'[p].kind \in Passers[op'[p].pc]
        BY <2>1
  <2>3. Given(op[p])'
        BY <2>1 DEF Given
  <2>4. Doing(op[p])'
        BY <2>1 DEF Doing, With
  <2> QED BY <2>2, <2>3, <2>4 DEF Own
<1> QED BY <1>1, <1>2, <1>3 DEF ActInv

LEMMA RecordTypes ==
  ASSUME NEW q \in OpType
  PROVE  /\ Patched(q) \in Records /\ Target(q) \in Records
         /\ [q.work EXCEPT !.auth = "password", !.key = None] \in Records
         /\ [q.work EXCEPT !.auth = "password"] \in Records
         /\ [q.work EXCEPT !.key = None] \in Records
<1>1. q.work \in Records /\ q.pass \in Passwords \cup {None} /\ q.key \in Keys \cup {None} /\ q.who \in Users
      BY Fields
<1>2. /\ [q.work EXCEPT !.pass = q.pass] \in Records
      /\ [q.work EXCEPT !.auth = "key", !.key = q.key] \in Records
      /\ [q.work EXCEPT !.key = q.key] \in Records
      /\ [q.work EXCEPT !.auth = "password", !.key = None] \in Records
      /\ [q.work EXCEPT !.auth = "password"] \in Records
      /\ [q.work EXCEPT !.key = None] \in Records
      BY <1>1 DEF Records
<1>3. Patched(q) \in Records
      BY <1>2 DEF Patched
<1>4. Target(q) \in Records
      BY <1>1 DEF Target, Records
<1> QED BY <1>2, <1>3, <1>4

LEMMA SettingTypes ==
  ASSUME NEW q, NEW f \in Settings, q.on \in BOOLEAN PROVE With(q, f) \in Settings
BY DEF With, Settings

LEMMA TearsTyped == ASSUME NEW o, Tears(o) PROVE torn' \in BOOLEAN
BY DEF Tears


\* The same for the other invariants.
LEMMA WasBy ==
  ASSUME ActInv, WasInv, NEW o \in Ops, Running(o) \/ AtRest, NEW c, Outcome(o, c), torn => torn',
         ~torn' => /\ c.pc \in Closed => conf' = live'
                   /\ c.pc \in Steps => Before(c)'
  PROVE  WasInv'
<1>1. (AtRest' <=> c.pc \in Closed) /\ \A p \in Ops : Running(p)' => op'[p] = c /\ c.pc \in Steps
      BY Frame DEF ActInv, TypeOK
<1>2. ASSUME ~torn', NEW p \in Ops, Running(p)'
      PROVE  Before(op[p])'
  <2>1. op'[p] = c /\ Before(c)'
        BY <1>1, <1>2
  <2> QED BY <2>1 DEF Before
<1> QED BY <1>1, <1>2 DEF WasInv

LEMMA LastBy ==
  ASSUME ActInv, LastInv, NEW o \in Ops, Running(o) \/ AtRest, NEW c, Outcome(o, c),
         acct'[rec'.user].there, rec'.auth = "key" => rec'.key \in files',
         c.pc \in Steps => Spares(c)'
  PROVE  LastInv'
<1>1. \A p \in Ops : Running(p)' => op'[p] = c /\ c.pc \in Steps
      BY Frame DEF ActInv, TypeOK
<1>2. ASSUME NEW p \in Ops, Running(p)'
      PROVE  Spares(op[p])'
  <2>1. op'[p] = c /\ Spares(c)'
        BY <1>1, <1>2
  <2> QED BY <2>1 DEF Spares, LastKey, InHand, Enterable, Relies
<1> QED BY <1>2 DEF LastInv

LEMMA WayBy ==
  ASSUME ActInv, WayInv, NEW o \in Ops, Running(o) \/ AtRest, NEW c, Outcome(o, c), torn => torn',
         ~torn' => /\ c.pc \in Closed => Way(live, acct[rec.user])'
                   /\ c.pc \in Steps => Safe(c)'
  PROVE  WayInv'
<1>1. (AtRest' <=> c.pc \in Closed) /\ \A p \in Ops : Running(p)' => op'[p] = c /\ c.pc \in Steps
      BY Frame DEF ActInv, TypeOK
<1>2. ASSUME ~torn', NEW p \in Ops, Running(p)'
      PROVE  Safe(op[p])'
  <2>1. op'[p] = c /\ Safe(c)'
        BY <1>1, <1>2
  <2> QED BY <2>1 DEF Safe, Committable, Way, Door, Power, Back, With, Patched, Target
<1>3. ~torn' /\ AtRest' => Way(live, acct[rec.user])'
      BY <1>1 DEF Way, Door, Power
<1> QED BY <1>2, <1>3 DEF WayInv

-----------------------------------------------------------------------------
(* What a step of an operation has to show.                                 *)

Spared ==
  ~live.pwd => \A u \in {Root, rec.user} : acct[u].there /\ acct[u].keys # {} => acct'[u].keys # {}

\* Of each of the invariants, and of the answer.
Acts(c) == c.pc \in Steps => c.kind \in Passers[c.pc] /\ Own(c) /\ Given(c)' /\ Doing(c)'
Answers(q, c) ==
  /\ c.pc = "ok" => c.blind \/ Achieved(q)'
  /\ WasInv /\ ~torn' /\ c.pc = "restored" => Undone(q)'
Stays(c) == (c.pc \in Closed => conf' = live') /\ (c.pc \in Steps => Before(c)')
Lasts(c) ==
  /\ acct'[rec'.user].there /\ (rec'.auth = "key" => rec'.key \in files')
  /\ c.pc \in Steps => Spares(c)'
Admits(c) == (c.pc \in Closed => Way(live, acct[rec.user])') /\ (c.pc \in Steps => Safe(c)')

\* What a step keeps.
Keeps(o) ==
  /\ Running(o) /\ ActInv'
  /\ WasInv => WasInv'
  /\ LastInv => LastInv' /\ Spared
  /\ WasInv /\ LastInv /\ WayInv => WayInv'
  /\ \A q \in {op[o]} : /\ op'[o].pc = "ok" => op'[o].blind \/ Achieved(q)'
                        /\ WasInv /\ op'[o].pc = "restored" => torn' \/ Undone(q)'

\* What is known of an operation that is under way.
Knows(q) ==
  /\ q \in OpType /\ q.kind \in Passers[q.pc] /\ Own(q) /\ Given(q) /\ Doing(q)
  /\ {q.who, q.work.user, rec.user, Root} \subseteq Users /\ rec.auth \in {"key", "password"}
  /\ WasInv /\ ~torn => Before(q)
  /\ LastInv => Spares(q) /\ acct[rec.user].there /\ (rec.auth = "key" => rec.key \in files)
  /\ WayInv /\ ~torn => Safe(q)

LEMMA Known ==
  ASSUME ActInv, NEW o \in Ops, Running(o)
  PROVE  TypeOK /\ Knows(op[o])
<1>1. TypeOK /\ op[o] \in OpType
      BY DEF ActInv, TypeOK
<1>2. {op[o].who, op[o].work.user, rec.user, Root} \subseteq Users /\ rec.auth \in {"key", "password"}
      BY <1>1, Fields, AccessAssumption DEF TypeOK, Records
<1> QED BY <1>1, <1>2 DEF ActInv, Knows, WasInv, LastInv, WayInv

LEMMA KeepsBy ==
  ASSUME ActInv, NEW o \in Ops, NEW q, q = op[o], Running(o), NEW c, Outcome(o, c),
         conf' \in Settings, live' \in Settings, acct' \in [Users -> Accounts], rec' \in Records,
         files' \subseteq Keys, managed' \in BOOLEAN,
         calls' \in 0..MaxCalls, edits' \in 0..MaxEdits, faults' \in 0..MaxFaults,
         torn' \in BOOLEAN, torn => torn',
         Acts(c), Answers(q, c),
         WasInv /\ ~torn' => Stays(c),
         LastInv => Lasts(c) /\ Spared,
         WasInv /\ LastInv /\ WayInv /\ ~torn' => Admits(c)
  PROVE  Keeps(o)
<1>1. ActInv'
      BY ActBy DEF Acts
<1>2. ASSUME WasInv PROVE WasInv'
      BY <1>2, WasBy DEF Stays
<1>3. ASSUME LastInv PROVE LastInv'
      BY <1>3, LastBy DEF Lasts
<1>4. ASSUME WasInv, LastInv, WayInv PROVE WayInv'
      BY <1>4, WayBy DEF Admits
<1>5. op'[o].pc = c.pc /\ op'[o].blind = c.blind
      BY Frame DEF ActInv, TypeOK
<1>6. \A p \in {op[o]} : /\ op'[o].pc = "ok" => op'[o].blind \/ Achieved(p)'
                         /\ WasInv /\ op'[o].pc = "restored" => torn' \/ Undone(p)'
  <2>1. SUFFICES ASSUME NEW p, p = op[o]
                 PROVE  /\ op'[o].pc = "ok" => op'[o].blind \/ Achieved(p)'
                        /\ WasInv /\ op'[o].pc = "restored" => torn' \/ Undone(p)'
        OBVIOUS
  <2>2. p = q
        BY <2>1
  <2> QED BY <1>5, <2>2 DEF Answers, Achieved, Undone, Target
<1> QED BY <1>1, <1>2, <1>3, <1>4, <1>6 DEF Keeps

\* A step that only looks.
LEMMA KeepsLooking ==
  ASSUME ActInv, NEW o \in Ops, NEW q, q = op[o], Running(o), NEW c, Outcome(o, c),
         UNCHANGED <<conf, live, acct, rec, files, managed, calls, edits>>, faults' \in 0..MaxFaults,
         torn' \in BOOLEAN, torn => torn',
         Acts(c), Answers(q, c),
         WasInv /\ ~torn' => Stays(c),
         LastInv => Lasts(c),
         WasInv /\ LastInv /\ WayInv /\ ~torn' => Admits(c)
  PROVE  Keeps(o)
BY KeepsBy DEF ActInv, TypeOK, Spared

\* What an operation that gave up may leave torn.
LEMMA TearsMean ==
  ASSUME ActInv, NEW o \in Ops, NEW q, q = op[o], Running(o), NEW c, Outcome(o, c), Tears(o)
  PROVE  /\ torn' \in BOOLEAN /\ (torn => torn')
         /\ ~torn' /\ c.pc \in {"failed", "broken"} =>
              conf' = live' /\ (q.kind = "change_password" => acct'[q.who].pass = q.was.pass)
         /\ ~torn' /\ c.pc \in Closed /\ q.blind => conf' = live'
<1>1. op'[o].pc = c.pc
      BY Frame DEF ActInv, TypeOK
<1> QED BY <1>1 DEF Tears, ActInv, TypeOK

\* The records that operations try and save.
LEMMA Shapes ==
  ASSUME NEW q \in OpType
  PROVE  /\ q.kind \in {"change_password", "set_user_password"} \/
              /\ Candidate(q).user = q.work.user /\ Candidate(q).auth = "key"
              /\ Candidate(q).pass = q.work.pass /\ Candidate(q).key = q.key
         /\ q.kind = "change_password" =>
              /\ Patched(q).user = q.work.user /\ Patched(q).auth = q.work.auth
              /\ Patched(q).pass = q.pass /\ Patched(q).key = q.work.key /\ Candidate(q) = Patched(q)
         /\ q.kind \in {"set_password_auth", "install_pubkey"} =>
              /\ Patched(q).user = q.work.user /\ Patched(q).auth = "key"
              /\ Patched(q).pass = q.work.pass /\ Patched(q).key = q.key
         /\ q.kind \in {"add_key_to_user", "select_user_key"} =>
              /\ Patched(q).user = q.work.user /\ Patched(q).auth = q.work.auth
              /\ Patched(q).pass = q.work.pass /\ Patched(q).key = q.key
         /\ /\ Target(q).user = q.who /\ Target(q).auth = (IF q.key # None THEN "key" ELSE "password")
            /\ Target(q).pass = q.pass /\ Target(q).key = q.key
         /\ LET r == [q.work EXCEPT !.auth = "password"] IN
              r.user = q.work.user /\ r.auth = "password" /\ r.pass = q.work.pass /\ r.key = q.work.key
         /\ LET r == [q.work EXCEPT !.auth = "password", !.key = None] IN
              r.user = q.work.user /\ r.auth = "password" /\ r.pass = q.work.pass /\ r.key = None
         /\ LET r == [q.work EXCEPT !.key = None] IN
              r.user = q.work.user /\ r.auth = q.work.auth /\ r.pass = q.work.pass /\ r.key = None
<1>1. q.work \in Records
      BY Fields
<1> DEFINE k == [q.work EXCEPT !.auth = "key", !.key = q.key]
           p == [q.work EXCEPT !.pass = q.pass]
           l == [q.work EXCEPT !.key = q.key]
           w == [q.work EXCEPT !.auth = "password"]
           v == [q.work EXCEPT !.auth = "password", !.key = None]
           n == [q.work EXCEPT !.key = None]
<1>2. /\ k.user = q.work.user /\ k.auth = "key" /\ k.pass = q.work.pass /\ k.key = q.key
      /\ p.user = q.work.user /\ p.auth = q.work.auth /\ p.pass = q.pass /\ p.key = q.work.key
      /\ l.user = q.work.user /\ l.auth = q.work.auth /\ l.pass = q.work.pass /\ l.key = q.key
      BY <1>1 DEF Records
<1>3. /\ w.user = q.work.user /\ w.auth = "password" /\ w.pass = q.work.pass /\ w.key = q.work.key
      /\ v.user = q.work.user /\ v.auth = "password" /\ v.pass = q.work.pass /\ v.key = None
      /\ n.user = q.work.user /\ n.auth = q.work.auth /\ n.pass = q.work.pass /\ n.key = None
      BY <1>1 DEF Records
<1>4. /\ q.kind \notin {"change_password", "set_user_password"} => Candidate(q) = k
      /\ q.kind = "change_password" => Candidate(q) = p
      BY DEF Candidate
<1>5. /\ q.kind = "change_password" => Patched(q) = p
      /\ q.kind \in {"set_password_auth", "install_pubkey"} => Patched(q) = k
      /\ q.kind \in {"add_key_to_user", "select_user_key"} => Patched(q) = l
      BY DEF Patched
<1>6. /\ Target(q).user = q.who /\ Target(q).auth = (IF q.key # None THEN "key" ELSE "password")
      /\ Target(q).pass = q.pass /\ Target(q).key = q.key
      BY DEF Target
<1> HIDE DEF k, p, l
<1>7. /\ q.kind \in {"change_password", "set_user_password"} \/
           /\ Candidate(q).user = q.work.user /\ Candidate(q).auth = "key"
           /\ Candidate(q).pass = q.work.pass /\ Candidate(q).key = q.key
      /\ q.kind = "change_password" =>
           /\ Patched(q).user = q.work.user /\ Patched(q).auth = q.work.auth
           /\ Patched(q).pass = q.pass /\ Patched(q).key = q.work.key /\ Candidate(q) = Patched(q)
      BY <1>2, <1>4, <1>5
<1>8. /\ q.kind \in {"set_password_auth", "install_pubkey"} =>
           /\ Patched(q).user = q.work.user /\ Patched(q).auth = "key"
           /\ Patched(q).pass = q.work.pass /\ Patched(q).key = q.key
      /\ q.kind \in {"add_key_to_user", "select_user_key"} =>
           /\ Patched(q).user = q.work.user /\ Patched(q).auth = q.work.auth
           /\ Patched(q).pass = q.work.pass /\ Patched(q).key = q.key
      BY <1>2, <1>5
<1> QED BY <1>3, <1>6, <1>7, <1>8

LEMMA Alike ==
  ASSUME NEW q, NEW c, Like(q, c)
  PROVE  Patched(c) = Patched(q) /\ Target(c) = Target(q) /\ \A f : With(c, f) = With(q, f)
BY DEF Like, Patched, Target, With

LEMMA Repassed ==
  ASSUME NEW a \in Accounts, NEW p
  PROVE  LET b == [a EXCEPT !.pass = p] IN b.there = a.there /\ b.keys = a.keys /\ b.sudo = a.sudo /\ b.pass = p
BY DEF Accounts

\* The account the panel would be back in.
LEMMA BackIs ==
  ASSUME NEW q, acct[rec.user] \in Accounts
  PROVE  LET a == acct[rec.user]
             b == Back(q)
         IN  /\ b.there = a.there /\ b.keys = a.keys /\ b.sudo = a.sudo
             /\ b.pass = IF q.kind = "change_password" /\ q.pc \in {"verify", "commit", "undo"} /\ rec.user = q.who
                         THEN q.work.pass ELSE a.pass
BY Repassed DEF Back

LEMMA BackBecomes ==
  ASSUME NEW q, acct'[rec'.user] \in Accounts
  PROVE  LET a == acct'[rec'.user]
             b == Back(q)'
         IN  /\ b.there = a.there /\ b.keys = a.keys /\ b.sudo = a.sudo
             /\ b.pass = IF q.kind = "change_password" /\ q.pc \in {"verify", "commit", "undo"} /\ rec'.user = q.who
                         THEN q.work.pass ELSE a.pass
BY Repassed DEF Back

-----------------------------------------------------------------------------
(* The steps that only look.                                                *)

\* create_ssh_client and what is asked of the session.
LEMMA ConnectKeeps == ASSUME ActInv, NEW o \in Ops, Connect(o) PROVE Keeps(o)
<1> SUFFICES ASSUME NEW q, q = op[o] PROVE Keeps(o)
      OBVIOUS
<1>1. /\ TypeOK /\ q.pc = "connect" /\ Running(o) /\ Knows(q)
      /\ q.kind \in {"change_password", "set_user_password", "set_password_auth", "install_pubkey", "add_key_to_user",
                    "select_user_key", "remove_key_from_user", "switch_user", "create_user", "grant_sudo",
                    "revoke_sudo", "delete_user"}
  <2>1. TypeOK /\ q.pc = "connect" /\ Running(o)
        BY DEF Connect, At, ActInv, Running, Steps
  <2>2. Knows(q)
        BY <2>1, Known
  <2> QED BY <2>1, <2>2 DEF Knows, Passers
<1>2. PICK c : /\ Outcome(o, c) /\ Like(q, c)
               /\ \/ c.pc = "failed"
                  \/ q.kind = "switch_user" /\ c.pc = "target"
                  \/ /\ Login(q.work)
                     /\ \/ q.kind = "change_password" /\ c.pc = "change"
                        \/ q.kind = "create_user" /\ c.pc = "useradd"
                        \/ q.kind \in {"grant_sudo", "revoke_sudo", "delete_user"} /\ c.pc = "alter"
                        \/ /\ q.kind \notin {"change_password", "create_user", "grant_sudo", "revoke_sudo",
                                             "delete_user", "switch_user"}
                           /\ c.pc = "check"
      BY <1>1, ConnectDoes
<1>3. /\ UNCHANGED <<conf, live, acct, rec, files, managed, calls, edits>> /\ faults' \in 0..MaxFaults
      /\ torn' \in BOOLEAN /\ torn' = torn
      BY <1>1, ConnectDoes DEF server, panel, bounds, TypeOK
<1>4. Acts(c)
      BY <1>1, <1>2, <1>3
      DEF Acts, Like, Same, Steps, Knows, Passers, Keyed, Setters, Written, Own, Given, Doing, Late
<1>5. Answers(q, c)
      BY <1>1, <1>2, <1>3
      DEF Answers, Like, Same
<1>6. WasInv /\ ~torn' => Stays(c)
      BY <1>1, <1>2, <1>3
      DEF Stays, Like, Same, Steps, Knows, Before, Setters, Late, Keyed, Written
<1>7. ASSUME LastInv PROVE Lasts(c)
  <2>1. c.pc \in Steps => LastKey(c)'
        BY <1>1, <1>2, <1>3, <1>7
        DEF Like, Same, Steps, Knows, Spares, LastKey, Enterable, Keyed, Written, Login, LoginUnder
  <2>2. c.pc \in Steps => InHand(c)'
        BY <1>1, <1>2, <1>3, <1>7
        DEF Like, Same, Steps, Knows, Spares, InHand, Relies, Written
  <2> QED BY <1>1, <1>2, <1>3, <1>7, <2>1, <2>2
        DEF Like, Same, Steps, Lasts, Knows, Spares
<1>8. ASSUME WasInv, LastInv, WayInv, ~torn' PROVE Admits(c)
      BY <1>1, <1>2, <1>3, <1>8
      DEF Like, Same, Steps, Admits, Knows, Safe, Way, Back, Door, Power, Setters, Late, Keyed,
          Written, Committable, With
<1> QED BY <1>1, <1>2, <1>3, <1>4, <1>5, <1>6, <1>7, <1>8, KeepsLooking

\* _verify_login_and_sudo before anything is touched.
LEMMA ProbeKeeps == ASSUME ActInv, NEW o \in Ops, Probe(o) PROVE Keeps(o)
<1> SUFFICES ASSUME NEW q, q = op[o] PROVE Keeps(o)
      OBVIOUS
<1>1. /\ TypeOK /\ q.pc = "probe" /\ Running(o) /\ Knows(q)
      /\ q.kind \in {"set_root_login", "delete_user"}
  <2>1. TypeOK /\ q.pc = "probe" /\ Running(o)
        BY DEF Probe, At, ActInv, Running, Steps
  <2>2. Knows(q)
        BY <2>1, Known
  <2> QED BY <2>1, <2>2 DEF Knows, Passers
<1>2. PICK c : /\ Outcome(o, c) /\ Same(q, c)
               /\ c.pc = "failed" \/ c.pc = IF q.kind = "delete_user" THEN "connect" ELSE "reread"
      BY <1>1, ProbeDoes
<1>3. /\ UNCHANGED <<conf, live, acct, rec, files, managed, calls, edits>> /\ faults' \in 0..MaxFaults
      /\ torn' \in BOOLEAN /\ torn' = torn
      BY <1>1, ProbeDoes DEF server, panel, bounds, TypeOK
<1>4. Acts(c)
      BY <1>1, <1>2, <1>3
      DEF Acts, Like, Same, Steps, Knows, Passers, Keyed, Setters, Written, Own, Given, Doing, Late
<1>5. Answers(q, c)
      BY <1>1, <1>2, <1>3
      DEF Answers, Like, Same
<1>6. WasInv /\ ~torn' => Stays(c)
      BY <1>1, <1>2, <1>3
      DEF Stays, Like, Same, Steps, Knows, Before, Setters, Late, Keyed, Written
<1>7. ASSUME LastInv PROVE Lasts(c)
  <2>1. c.pc \in Steps => LastKey(c)'
        BY <1>1, <1>2, <1>3, <1>7
        DEF Like, Same, Steps, Knows, Spares, LastKey, Enterable, Keyed, Written
  <2>2. c.pc \in Steps => InHand(c)'
        BY <1>1, <1>2, <1>3, <1>7
        DEF Like, Same, Steps, Knows, Spares, InHand, Relies, Written
  <2> QED BY <1>1, <1>2, <1>3, <1>7, <2>1, <2>2
        DEF Like, Same, Steps, Lasts, Knows, Spares
<1>8. ASSUME WasInv, LastInv, WayInv, ~torn' PROVE Admits(c)
      BY <1>1, <1>2, <1>3, <1>8
      DEF Like, Same, Steps, Admits, Knows, Safe, Way, Back, Door, Power, Setters, Late, Keyed,
          Written, Committable, With
<1> QED BY <1>1, <1>2, <1>3, <1>4, <1>5, <1>6, <1>7, <1>8, KeepsLooking

\* What is asked of the server before it is changed.
LEMMA CheckKeeps == ASSUME ActInv, NEW o \in Ops, Check(o) PROVE Keeps(o)
<1> SUFFICES ASSUME NEW q, q = op[o] PROVE Keeps(o)
      OBVIOUS
<1>1. /\ TypeOK /\ q.pc = "check" /\ Running(o) /\ Knows(q)
      /\ q.kind \in {"set_user_password", "set_password_auth", "select_user_key", "install_pubkey",
                    "add_key_to_user", "remove_key_from_user"}
  <2>1. TypeOK /\ q.pc = "check" /\ Running(o)
        BY DEF Check, At, ActInv, Running, Steps
  <2>2. Knows(q)
        BY <2>1, Known
  <2> QED BY <2>1, <2>2 DEF Knows, Passers, Keyed
<1>2. PICK c : /\ Outcome(o, c) /\ Like(q, c)
               /\ c.pc # "failed" /\ q.kind = "set_user_password" => c.old = acct[q.who].pass
               /\ \/ c.pc = "failed"
                  \/ q.kind = "set_user_password" /\ c.pc = "change"
                  \/ q.kind = "set_password_auth" /\ c.pc = "verify" /\ q.key \in files \cap acct[q.who].keys
                  \/ q.kind = "install_pubkey" /\ c.pc = "write"
                  \/ q.kind = "add_key_to_user" /\ c.pc = "make" /\ (q.who = Root /\ q.work.user # Root => live.pwd)
                  \/ q.kind = "select_user_key" /\ c.pc = "commit" /\ q.key \in files \cap acct[q.who].keys
                  \/ q.kind = "select_user_key" /\ c.pc = "ok" /\ q.work.key = q.key
                  \/ /\ q.kind = "remove_key_from_user" /\ q.key \in acct[q.who].keys
                     /\ q.who = Root /\ q.work.user # Root => live.pwd
                     /\ \/ c.pc = "prove"
                        \/ /\ c.pc = "erase" /\ ~RouteUses(q)
                           /\ /\ Guarded(q) /\ acct[q.who].keys = {q.key} /\ q.who = q.work.user
                              => q.work.auth # "key"
      BY <1>1, CheckDoes, GatesLead DEF Knows
<1>3. /\ UNCHANGED <<conf, live, acct, rec, files, managed, calls, edits>> /\ faults' \in 0..MaxFaults
      /\ torn' \in BOOLEAN /\ torn' = torn
      BY <1>1, CheckDoes DEF server, panel, bounds, TypeOK, Knows
<1>4. Acts(c)
      BY <1>1, <1>2, <1>3
      DEF Acts, Like, Same, Steps, Knows, Passers, Keyed, Setters, Written, Own, Given, Doing, Late
<1>5. Answers(q, c)
      BY <1>1, <1>2, <1>3
      DEF Answers, Achieved, Like, Same
<1>6. WasInv /\ ~torn' => Stays(c)
      BY <1>1, <1>2, <1>3
      DEF Stays, Like, Same, Steps, Knows, Before, Setters, Late, Keyed, Written
<1>7. ASSUME LastInv PROVE Lasts(c)
  <2>1. c.pc \in Steps => LastKey(c)'
    <3>1. acct[q.who].keys \subseteq {q.key} /\ q.key \in acct[q.who].keys => acct[q.who].keys = {q.key}
          OBVIOUS
    <3>2. c.pc = "erase" /\ c.who \in {Root, rec.user} => live.pwd \/ ~(acct[q.who].keys \subseteq {q.key})
          BY <1>1, <1>2, <1>3, <1>7, <3>1 DEF Like, Knows, Spares, LastKey, Enterable, Keyed,
                 Guarded, InHand, Relies
    <3> QED BY <1>1, <1>2, <1>3, <1>7, <3>2
          DEF Like, Steps, Knows, Spares, LastKey, Enterable, Keyed, Written, Own
  <2>2. c.pc \in Steps => InHand(c)'
        BY <1>1, <1>2, <1>3, <1>7
        DEF Like, Same, Steps, Knows, Spares, InHand, Relies, Written
  <2> QED BY <1>1, <1>2, <1>3, <1>7, <2>1, <2>2
        DEF Like, Same, Steps, Lasts, Knows, Spares
<1>8. ASSUME WasInv, LastInv, WayInv, ~torn' PROVE Admits(c)
  <2>1. Way(live, acct[rec.user])' /\ ~torn /\ Back(c)' = acct'[rec'.user]
        BY <1>1, <1>2, <1>3, <1>8 DEF Like, Knows, Safe, Way, Back, Door, Power
  <2>2. c.pc \in Steps => Way(live, Back(c))'
        BY <1>1, <1>2, <1>3, <1>8, <2>1 DEF Way, Door, Power
  <2>3. c.pc = "erase" /\ rec'.user = c.who /\ rec'.auth = "key" => rec'.key # c.key
        BY <1>1, <1>2, <1>3, <1>8, <2>1 DEF Like, Knows, Spares, InHand, Relies, RouteUses, Way, Door
  <2>4. c.pc = "commit" => Committable(c)'
        BY <1>1, <1>2, <1>3, <1>8 DEF Like, Committable, Knows, Own
  <2>5. c.pc \in Steps => Safe(c)'
        BY <1>1, <1>2, <1>3, <1>8, <2>2, <2>3, <2>4 DEF Like, Steps, Safe, Setters, Late, Keyed, Written
  <2> QED BY <2>1, <2>5 DEF Admits
<1> QED BY <1>1, <1>2, <1>3, <1>4, <1>5, <1>6, <1>7, <1>8, KeepsLooking

\* The candidate is tried.
LEMMA VerifyKeeps == ASSUME ActInv, NEW o \in Ops, Verify(o) PROVE Keeps(o)
<1> SUFFICES ASSUME NEW q, q = op[o] PROVE Keeps(o)
      OBVIOUS
<1>1. /\ TypeOK /\ q.pc = "verify" /\ Running(o) /\ Knows(q)
      /\ q.kind \in {"change_password", "set_user_password", "set_password_auth", "install_pubkey", "add_key_to_user"}
  <2>1. TypeOK /\ q.pc = "verify" /\ Running(o)
        BY DEF Verify, At, ActInv, Running, Steps
  <2>2. Knows(q)
        BY <2>1, Known
  <2> QED BY <2>1, <2>2 DEF Knows, Passers
<1>2. PICK c : /\ Outcome(o, c) /\ Same(q, c)
               /\ \/ q.kind = "set_user_password" /\ c.pc \in {"ok", "failed", "undo"}
                  \/ /\ q.kind # "set_user_password" /\ Login(Candidate(q))
                     /\ c.pc = IF q.kind = "set_password_auth" /\ q.work.auth = "key" THEN "reread" ELSE "commit"
                  \/ q.kind = "change_password" /\ c.pc = "undo"
                  \/ q.kind \in {"install_pubkey", "add_key_to_user"} /\ c.pc = "restore"
                  \/ /\ q.kind \notin {"set_user_password", "change_password", "install_pubkey", "add_key_to_user"}
                     /\ c.pc = "failed"
      BY <1>1, VerifyDoes
<1>3. /\ UNCHANGED <<conf, live, acct, rec, files, managed, calls, edits>> /\ faults' \in 0..MaxFaults
      /\ torn' \in BOOLEAN /\ torn' = torn
      BY <1>1, VerifyDoes DEF server, panel, bounds, TypeOK
<1>4. /\ q.kind \in {"set_password_auth", "install_pubkey", "add_key_to_user"} =>
           /\ Candidate(q).user = q.work.user /\ Candidate(q).auth = "key" /\ Candidate(q).key = q.key
           /\ Patched(q).user = q.work.user /\ Patched(q).key = q.key
           /\ q.kind # "add_key_to_user" => Patched(q).auth = "key"
      /\ q.kind = "change_password" => Candidate(q) = Patched(q) /\ Patched(q).user = q.work.user
      BY <1>1, <1>2, <1>3, Shapes DEF Knows
<1>5. Acts(c)
      BY <1>1, <1>2, <1>3, <1>4
      DEF Acts, Like, Same, Steps, Knows, Passers, Keyed, Setters, Written, Own, Given, Doing, Late
<1>6. Answers(q, c)
      BY <1>1, <1>2, <1>3, <1>4
      DEF Answers, Achieved, Knows, Doing
<1>7. WasInv /\ ~torn' => Stays(c)
      BY <1>1, <1>2, <1>3, <1>4
      DEF Stays, Like, Same, Steps, Knows, Before, Setters, Late, Keyed, Written
<1>8. ASSUME LastInv PROVE Lasts(c)
  <2>1. c.pc \in Steps => LastKey(c)'
        BY <1>1, <1>2, <1>3, <1>4, <1>8
        DEF Like, Same, Steps, Knows, Spares, LastKey, Enterable, Keyed, Written
  <2>2. c.pc \in Steps => InHand(c)'
        BY <1>1, <1>2, <1>3, <1>4, <1>8
        DEF Like, Same, Steps, Knows, Spares, InHand, Relies, Written
  <2> QED BY <1>1, <1>2, <1>3, <1>4, <1>8, <2>1, <2>2
        DEF Like, Same, Steps, Lasts, Knows, Spares, Login, LoginUnder
<1>9. ASSUME WasInv, LastInv, WayInv, ~torn' PROVE Admits(c)
  <2>1. c.pc \in Closed => Way(live, acct[rec.user])'
        BY <1>1, <1>2, <1>3, <1>4, <1>9 DEF Like, Same, Knows, Safe, Way, Back, Door, Power, Closed
  <2>2. c.pc \in Steps => Way(live, Back(c))'
        BY <1>1, <1>2, <1>3, <1>4, <1>9 DEF Like, Same, Knows, Safe, Way, Back, Door, Power, Steps
  <2>3. c.pc = "commit" /\ c.kind # "add_key_to_user" => Door(live, acct[c.work.user], Patched(c))'
        BY <1>1, <1>2, <1>3, <1>4, <1>9, Alike DEF Like, Same, Login, LoginUnder, Door
  <2>4. c.pc = "commit" => Committable(c)'
        BY <1>1, <1>2, <1>3, <1>4, <1>9, <2>3 DEF Like, Same, Committable, Login, LoginUnder, Door
  <2>5. c.pc = "reread" => rec'.auth = "key"
        BY <1>1, <1>2, <1>3, <1>4, <1>9 DEF Knows, Spares, InHand, Relies, TypeOK, Records
  <2>6. c.pc \in Steps => Safe(c)'
        BY <1>1, <1>2, <1>3, <1>4, <1>9, <2>2, <2>4, <2>5 DEF Like, Same, Knows, Steps, Safe,
               Setters, Late, Keyed, Written
  <2> QED BY <2>1, <2>6 DEF Admits
<1> QED BY <1>1, <1>2, <1>3, <1>4, <1>5, <1>6, <1>7, <1>8, <1>9, KeepsLooking

\* The password is proved before the last key goes.
LEMMA ProveKeeps == ASSUME ActInv, NEW o \in Ops, Prove(o) PROVE Keeps(o)
<1> SUFFICES ASSUME NEW q, q = op[o] PROVE Keeps(o)
      OBVIOUS
<1>1. /\ TypeOK /\ q.pc = "prove" /\ Running(o) /\ Knows(q)
      /\ q.kind \in {"remove_key_from_user"}
  <2>1. TypeOK /\ q.pc = "prove" /\ Running(o)
        BY DEF Prove, At, ActInv, Running, Steps
  <2>2. Knows(q)
        BY <2>1, Known
  <2> QED BY <2>1, <2>2 DEF Knows, Passers
<1>2. PICK c : /\ Outcome(o, c) /\ Same(q, c)
               /\ \/ c.pc = "leave" /\ RouteUses(q) /\ Login([q.work EXCEPT !.auth = "password"])
                  \/ c.pc = "erase" /\ ~RouteUses(q) /\ Login([q.work EXCEPT !.auth = "password"])
                  \/ c.pc = "failed"
      BY <1>1, ProveDoes
<1>3. /\ UNCHANGED <<conf, live, acct, rec, files, managed, calls, edits>> /\ faults' \in 0..MaxFaults
      /\ torn' \in BOOLEAN /\ torn' = torn
      BY <1>1, ProveDoes DEF server, panel, bounds, TypeOK
<1>4. LET r == [q.work EXCEPT !.auth = "password"] IN
        r.user = q.work.user /\ r.auth = "password" /\ r.pass = q.work.pass
      BY <1>1, <1>2, <1>3, Shapes DEF Knows
<1>5. Acts(c)
      BY <1>1, <1>2, <1>3, <1>4
      DEF Acts, Like, Same, Steps, Knows, Passers, Keyed, Setters, Written, Own, Given, Doing, Late
<1>6. Answers(q, c)
      BY <1>1, <1>2, <1>3, <1>4
      DEF Answers, Like, Same
<1>7. WasInv /\ ~torn' => Stays(c)
      BY <1>1, <1>2, <1>3, <1>4
      DEF Stays, Like, Same, Steps, Knows, Before, Setters, Late, Keyed, Written
<1>8. ASSUME LastInv PROVE Lasts(c)
  <2>1. c.pc \in Steps => LastKey(c)'
        BY <1>1, <1>2, <1>3, <1>4, <1>8
        DEF Like, Same, Steps, Knows, Spares, LastKey, Enterable, Keyed, Written, Login, LoginUnder
  <2>2. c.pc \in Steps => InHand(c)'
        BY <1>1, <1>2, <1>3, <1>4, <1>8
        DEF Like, Same, Steps, Knows, Spares, InHand, Relies, Written
  <2> QED BY <1>1, <1>2, <1>3, <1>4, <1>8, <2>1, <2>2
        DEF Like, Same, Steps, Lasts, Knows, Spares
<1>9. ASSUME WasInv, LastInv, WayInv, ~torn' PROVE Admits(c)
      BY <1>1, <1>2, <1>3, <1>4, <1>9
      DEF Like, Same, Steps, Admits, Knows, Safe, Way, Back, Door, Power, Setters, Late, Keyed,
          Written, Committable, With, Login, LoginUnder, RouteUses, Spares, InHand, Relies
<1> QED BY <1>1, <1>2, <1>3, <1>4, <1>5, <1>6, <1>7, <1>8, <1>9, KeepsLooking

\* The target of a switch is tried.
LEMMA TryKeeps == ASSUME ActInv, NEW o \in Ops, Try(o) PROVE Keeps(o)
<1> SUFFICES ASSUME NEW q, q = op[o] PROVE Keeps(o)
      OBVIOUS
<1>1. /\ TypeOK /\ q.pc = "target" /\ Running(o) /\ Knows(q)
      /\ q.kind \in {"switch_user"}
  <2>1. TypeOK /\ q.pc = "target" /\ Running(o)
        BY DEF Try, At, ActInv, Running, Steps
  <2>2. Knows(q)
        BY <2>1, Known
  <2> QED BY <2>1, <2>2 DEF Knows, Passers
<1>2. PICK c : /\ Outcome(o, c) /\ Like(q, c)
               /\ \/ c.pc = "commit" /\ Login(Target(q)) /\ (c.sudo => Sudo(Target(q)))
                  \/ c.pc = "failed"
      BY <1>1, TryDoes
<1>3. /\ UNCHANGED <<conf, live, acct, rec, files, managed, calls, edits>> /\ faults' \in 0..MaxFaults
      /\ torn' \in BOOLEAN /\ torn' = torn
      BY <1>1, TryDoes DEF server, panel, bounds, TypeOK
<1>4. /\ Target(q).user = q.who /\ Target(q).auth = (IF q.key # None THEN "key" ELSE "password")
      /\ Target(q).key = q.key
      BY <1>1, <1>2, <1>3, Shapes DEF Knows
<1>5. Acts(c)
      BY <1>1, <1>2, <1>3, <1>4
      DEF Acts, Like, Same, Steps, Knows, Passers, Keyed, Setters, Written, Own, Given, Doing, Late
<1>6. Answers(q, c)
      BY <1>1, <1>2, <1>3, <1>4
      DEF Answers, Like, Same
<1>7. WasInv /\ ~torn' => Stays(c)
      BY <1>1, <1>2, <1>3, <1>4
      DEF Stays, Like, Same, Steps, Knows, Before, Setters, Late, Keyed, Written
<1>8. ASSUME LastInv PROVE Lasts(c)
  <2>1. c.pc \in Steps => LastKey(c)'
        BY <1>1, <1>2, <1>3, <1>4, <1>8
        DEF Like, Same, Steps, Knows, Spares, LastKey, Enterable, Keyed, Written
  <2>2. c.pc \in Steps => InHand(c)'
        BY <1>1, <1>2, <1>3, <1>4, <1>8
        DEF Like, Same, Steps, Knows, Spares, InHand, Relies, Written
  <2> QED BY <1>1, <1>2, <1>3, <1>4, <1>8, <2>1, <2>2
        DEF Like, Same, Steps, Lasts, Knows, Spares, Login, LoginUnder
<1>9. ASSUME WasInv, LastInv, WayInv, ~torn' PROVE Admits(c)
      BY <1>1, <1>2, <1>3, <1>4, <1>9
      DEF Like, Same, Steps, Admits, Knows, Safe, Way, Back, Door, Power, Setters, Late, Keyed,
          Written, Committable, With, Login, LoginUnder, Sudo, Target
<1> QED BY <1>1, <1>2, <1>3, <1>4, <1>5, <1>6, <1>7, <1>8, <1>9, KeepsLooking

\* The record is read again.
LEMMA RereadKeeps == ASSUME ActInv, NEW o \in Ops, Reread(o) PROVE Keeps(o)
<1> SUFFICES ASSUME NEW q, q = op[o] PROVE Keeps(o)
      OBVIOUS
<1>1. /\ TypeOK /\ q.pc = "reread" /\ Running(o) /\ Knows(q)
      /\ q.kind \in Setters
  <2>1. TypeOK /\ q.pc = "reread" /\ Running(o)
        BY DEF Reread, At, ActInv, Running, Steps
  <2>2. Knows(q)
        BY <2>1, Known
  <2> QED BY <2>1, <2>2 DEF Knows, Passers
<1>2. PICK c : /\ Outcome(o, c) /\ c.pc = "enter" /\ c.work = rec /\ c.kind = q.kind /\ c.who = q.who
               /\ c.key = q.key /\ c.pass = q.pass /\ c.on = q.on /\ c.blind = q.blind /\ c.was = q.was
      BY <1>1, RereadDoes
<1>3. /\ UNCHANGED <<conf, live, acct, rec, files, managed, calls, edits>> /\ faults' \in 0..MaxFaults
      /\ torn' \in BOOLEAN /\ torn' = torn
      BY <1>1, RereadDoes DEF server, panel, bounds, TypeOK
<1>4. Acts(c)
      BY <1>1, <1>2, <1>3
      DEF Acts, Like, Same, Steps, Knows, Passers, Keyed, Setters, Written, Own, Given, Doing, Late
<1>5. Answers(q, c)
      BY <1>1, <1>2, <1>3
      DEF Answers
<1>6. WasInv /\ ~torn' => Stays(c)
      BY <1>1, <1>2, <1>3
      DEF Stays, Like, Same, Steps, Knows, Before, Setters, Late, Keyed, Written
<1>7. ASSUME LastInv PROVE Lasts(c)
  <2>1. c.pc \in Steps => LastKey(c)'
        BY <1>1, <1>2, <1>3, <1>7
        DEF Like, Same, Steps, Knows, Spares, LastKey, Enterable, Keyed, Written
  <2>2. c.pc \in Steps => InHand(c)'
        BY <1>1, <1>2, <1>3, <1>7
        DEF Like, Same, Steps, Knows, Spares, InHand, Relies, Written
  <2> QED BY <1>1, <1>2, <1>3, <1>7, <2>1, <2>2
        DEF Like, Same, Steps, Lasts, Knows, Spares, InHand, Relies
<1>8. ASSUME WasInv, LastInv, WayInv, ~torn' PROVE Admits(c)
      BY <1>1, <1>2, <1>3, <1>8
      DEF Like, Same, Steps, Admits, Knows, Safe, Way, Back, Door, Power, Setters, Late, Keyed,
          Written, Committable, With
<1> QED BY <1>1, <1>2, <1>3, <1>4, <1>5, <1>6, <1>7, <1>8, KeepsLooking

\* The session in which the drop-in is written.
LEMMA EnterKeeps == ASSUME ActInv, NEW o \in Ops, Enter(o) PROVE Keeps(o)
<1> SUFFICES ASSUME NEW q, q = op[o] PROVE Keeps(o)
      OBVIOUS
<1>1. /\ TypeOK /\ q.pc = "enter" /\ Running(o) /\ Knows(q)
      /\ q.kind \in Setters
  <2>1. TypeOK /\ q.pc = "enter" /\ Running(o)
        BY DEF Enter, At, ActInv, Running, Steps
  <2>2. Knows(q)
        BY <2>1, Known
  <2> QED BY <2>1, <2>2 DEF Knows, Passers
<1>2. PICK c : Outcome(o, c) /\ Same(q, c) /\ c.pc \in {"setting", "failed"}
      BY <1>1, EnterDoes
<1>3. /\ UNCHANGED <<conf, live, acct, rec, files, managed, calls, edits>> /\ faults' \in 0..MaxFaults
      /\ torn' \in BOOLEAN /\ torn' = torn
      BY <1>1, EnterDoes DEF server, panel, bounds, TypeOK
<1>4. Acts(c)
      BY <1>1, <1>2, <1>3
      DEF Acts, Like, Same, Steps, Knows, Passers, Keyed, Setters, Written, Own, Given, Doing, Late
<1>5. Answers(q, c)
      BY <1>1, <1>2, <1>3
      DEF Answers, Like, Same
<1>6. WasInv /\ ~torn' => Stays(c)
      BY <1>1, <1>2, <1>3
      DEF Stays, Like, Same, Steps, Knows, Before, Setters, Late, Keyed, Written
<1>7. ASSUME LastInv PROVE Lasts(c)
  <2>1. c.pc \in Steps => LastKey(c)'
        BY <1>1, <1>2, <1>3, <1>7
        DEF Like, Same, Steps, Knows, Spares, LastKey, Enterable, Keyed, Written
  <2>2. c.pc \in Steps => InHand(c)'
        BY <1>1, <1>2, <1>3, <1>7
        DEF Like, Same, Steps, Knows, Spares, InHand, Relies, Written
  <2> QED BY <1>1, <1>2, <1>3, <1>7, <2>1, <2>2
        DEF Like, Same, Steps, Lasts, Knows, Spares
<1>8. ASSUME WasInv, LastInv, WayInv, ~torn' PROVE Admits(c)
      BY <1>1, <1>2, <1>3, <1>8
      DEF Like, Same, Steps, Admits, Knows, Safe, Way, Back, Door, Power, Setters, Late, Keyed,
          Written, Committable, With
<1> QED BY <1>1, <1>2, <1>3, <1>4, <1>5, <1>6, <1>7, <1>8, KeepsLooking

\* _verify_login_and_sudo after the change, or after its undoing.
LEMMA ConfirmKeeps == ASSUME ActInv, NEW o \in Ops, Confirm(o) PROVE Keeps(o)
<1> SUFFICES ASSUME NEW q, q = op[o] PROVE Keeps(o)
      OBVIOUS
<1>1. /\ TypeOK /\ q.pc \in {"confirm", "confirm2"} /\ Running(o) /\ Knows(q)
      /\ q.kind \in Setters
  <2>1. TypeOK /\ q.pc \in {"confirm", "confirm2"} /\ Running(o)
        BY DEF Confirm, At, ActInv, Running, Steps
  <2>2. Knows(q)
        BY <2>1, Known
  <2> QED BY <2>1, <2>2 DEF Knows, Passers
<1>2. PICK c : /\ Outcome(o, c) /\ Same(q, c)
               /\ \/ q.pc = "confirm" /\ c.pc \in {"ok", "unset"}
                  \/ q.pc = "confirm2" /\ c.pc \in {"restored", "broken"}
      BY <1>1, ConfirmDoes
<1>3. /\ UNCHANGED <<conf, live, acct, rec, files, managed, calls, edits>> /\ faults' \in 0..MaxFaults
      /\ torn' \in BOOLEAN /\ (torn => torn')
      /\ ~torn' /\ c.pc \in {"failed", "broken"} =>
           conf' = live' /\ (q.kind = "change_password" => acct'[q.who].pass = q.was.pass)
      /\ ~torn' /\ c.pc \in Closed /\ q.blind => conf' = live'
      BY <1>1, <1>2, ConfirmDoes, TearsMean DEF server, panel, bounds
<1>4. Acts(c)
      BY <1>1, <1>2, <1>3
      DEF Acts, Like, Same, Steps, Knows, Passers, Keyed, Setters, Written, Own, Given, Doing, Late
<1>5. Answers(q, c)
  <2>1. c.pc = "ok" /\ ~c.blind => live' = With(q, q.conf) /\ live' = conf'
        BY <1>1, <1>2, <1>3 DEF Knows, Doing, With, Same, Like
  <2>2. q.conf \in Settings
        BY <1>1, <1>2, <1>3, Fields DEF Knows
  <2>3. c.pc = "ok" /\ ~c.blind => Achieved(q)'
        BY <1>1, <1>2, <1>3, <2>1, <2>2 DEF Achieved, With, Setters, Settings
  <2>4. WasInv /\ ~torn' /\ c.pc = "restored" => conf' = live'
        BY <1>1, <1>2, <1>3, Names DEF Knows, Before
  <2>5. WasInv /\ ~torn' /\ c.pc = "restored" => Undone(q)'
        BY <1>1, <1>2, <1>3, <2>4 DEF Knows, Before, Undone, Setters, Late, Keyed, Written
  <2> QED BY <2>3, <2>5 DEF Answers
<1>6. ASSUME WasInv, ~torn' PROVE Stays(c)
  <2>1. c.pc \in Closed => conf' = live'
        BY <1>1, <1>2, <1>3, <1>6 DEF Knows, Before
  <2>2. c.pc \in Steps => Before(c)'
        BY <1>1, <1>2, <1>3, <1>6 DEF Like, Same, Steps, Knows, Before, Setters, Late, Keyed, Written
  <2> QED BY <2>1, <2>2 DEF Stays
<1>7. ASSUME LastInv PROVE Lasts(c)
  <2>1. c.pc \in Steps => LastKey(c)'
        BY <1>1, <1>2, <1>3, <1>7
        DEF Like, Same, Steps, Knows, Spares, LastKey, Enterable, Keyed, Written
  <2>2. c.pc \in Steps => InHand(c)'
        BY <1>1, <1>2, <1>3, <1>7
        DEF Like, Same, Steps, Knows, Spares, InHand, Relies, Written
  <2> QED BY <1>1, <1>2, <1>3, <1>7, <2>1, <2>2
        DEF Like, Same, Steps, Lasts, Knows, Spares
<1>8. ASSUME WasInv, LastInv, WayInv, ~torn' PROVE Admits(c)
      BY <1>1, <1>2, <1>3, <1>8
      DEF Like, Same, Steps, Admits, Knows, Safe, Way, Back, Door, Power, Setters, Late, Keyed,
          Written, Committable, With
<1> QED BY <1>1, <1>2, <1>3, <1>4, <1>5, <1>6, <1>7, <1>8, KeepsLooking

-----------------------------------------------------------------------------
(* The steps that change an account.                                        *)

\* chpasswd or passwd.
LEMMA ChangeKeeps == ASSUME ActInv, NEW o \in Ops, Change(o) PROVE Keeps(o)
<1> SUFFICES ASSUME NEW q, q = op[o] PROVE Keeps(o)
      OBVIOUS
<1>1. /\ TypeOK /\ q.pc = "change" /\ Running(o) /\ Knows(q)
      /\ q.kind \in {"change_password", "set_user_password"}
  <2>1. TypeOK /\ q.pc = "change" /\ Running(o)
        BY DEF Change, At, ActInv, Running, Steps
  <2>2. Knows(q)
        BY <2>1, Known
  <2> QED BY <2>1, <2>2 DEF Knows, Passers
<1>2. PICK c : /\ Outcome(o, c) /\ Same(q, c)
               /\ LET a == acct[q.who]
                      done == Puts(q.who, a.there, q.pass, a.keys, a.sudo)
                  IN  (c.pc = "verify" /\ done) \/ (c.pc = "failed" /\ (UNCHANGED acct \/ done))
      BY <1>1, ChangeDoes
<1>3. /\ UNCHANGED <<conf, live, rec, files, managed, calls, edits>> /\ faults' \in 0..MaxFaults
      /\ torn' \in BOOLEAN /\ (torn => torn')
      /\ ~torn' /\ c.pc \in {"failed", "broken"} =>
           conf' = live' /\ (q.kind = "change_password" => acct'[q.who].pass = q.was.pass)
      BY <1>1, <1>2, ChangeDoes, TearsMean DEF server, panel, bounds
<1>4. /\ acct' \in [Users -> Accounts] /\ \A v \in Users \ {q.who} : acct'[v] = acct[v]
      /\ acct'[q.who].there = acct[q.who].there /\ acct'[q.who].keys = acct[q.who].keys
      /\ acct'[q.who].sudo = acct[q.who].sudo
      /\ acct'[q.who].pass \in {acct[q.who].pass, q.pass}
      /\ c.pc = "verify" => acct'[q.who].pass = q.pass
      BY <1>1, <1>2, <1>3 DEF Puts, TypeOK
<1>5. q.kind = "set_user_password" /\ LastInv => rec.user # q.who
      BY <1>1 DEF Knows, Spares, InHand, Relies, Own
<1>6. Acts(c)
      BY <1>1, <1>2, <1>3, <1>4, <1>5
      DEF Acts, Like, Same, Steps, Knows, Passers, Keyed, Setters, Written, Own, Given, Doing, Late
<1>7. Answers(q, c)
      BY <1>1, <1>2, <1>3, <1>4, <1>5
      DEF Answers, Like, Same
<1>8. WasInv /\ ~torn' => Stays(c)
      BY <1>1, <1>2, <1>3, <1>4, <1>5
      DEF Stays, Like, Same, Steps, Knows, Before, Setters, Late, Keyed, Written
<1>9. ASSUME LastInv PROVE Lasts(c) /\ Spared
  <2>1. c.pc \in Steps => LastKey(c)'
        BY <1>1, <1>2, <1>3, <1>4, <1>5, <1>9
        DEF Like, Same, Steps, Knows, Spares, LastKey, Enterable, Keyed, Written
  <2>2. c.pc \in Steps => InHand(c)'
        BY <1>1, <1>2, <1>3, <1>4, <1>5, <1>9
        DEF Like, Same, Steps, Knows, Spares, InHand, Relies, Written
  <2>3. Lasts(c)
        BY <1>1, <1>2, <1>3, <1>4, <1>5, <1>9, <2>1, <2>2
        DEF Like, Same, Steps, Lasts, Knows, Spares
  <2>4. Spared
        BY <1>1, <1>2, <1>3, <1>4, <1>5, <1>9
        DEF Spared, Knows
  <2> QED BY <2>3, <2>4
<1>10. ASSUME WasInv, LastInv, WayInv, ~torn' PROVE Admits(c)
  <2>1. rec.user = q.who /\ q.kind = "change_password" /\ (rec.auth = "password" \/ (managed /\ q.who # Root))
             => rec.pass = q.work.pass /\ rec.pass = acct[q.who].pass
        BY <1>1, <1>2, <1>3, <1>4, <1>5, <1>10 DEF Knows, Spares, InHand, Relies, Safe, Way, Back,
               Door, Power
  <2>2. c.pc = "failed" => Way(live, acct[rec.user])'
        BY <1>1, <1>2, <1>3, <1>4, <1>5, <1>10 DEF Same, Like, Knows, Safe, Way, Back, Door, Power,
               Before
  <2>3. LET b == Back(c)' IN
          /\ b.there = acct'[rec'.user].there /\ b.keys = acct'[rec'.user].keys /\ b.sudo = acct'[rec'.user].sudo
          /\ c.pc = "verify" => b.pass = IF q.kind = "change_password" /\ rec.user = q.who THEN q.work.pass
                                        ELSE acct'[rec'.user].pass
        BY <1>1, <1>2, <1>3, <1>4, <1>5, <1>10, BackBecomes DEF Knows, Same, Like
  <2>4. Way(live, acct[rec.user])
        BY <1>1, <1>2, <1>3, <1>4, <1>5, <1>10 DEF Knows, Safe, Back
  <2>5. c.pc = "verify" => LET b == Back(c)' IN
          /\ b.there = acct[rec.user].there /\ b.keys = acct[rec.user].keys /\ b.sudo = acct[rec.user].sudo
          /\ rec.auth = "password" \/ (managed /\ rec.user # Root) => b.pass = acct[rec.user].pass
        BY <1>1, <1>2, <1>3, <1>4, <1>5, <1>10, <2>1, <2>3 DEF Knows
  <2>6. c.pc = "verify" => Way(live, Back(c))'
        BY <1>1, <1>2, <1>3, <1>4, <1>5, <1>10, <2>4, <2>5 DEF Knows, Way, Door, Power
  <2>7. c.pc = "verify" => Safe(c)'
        BY <1>1, <1>2, <1>3, <1>4, <1>5, <1>10, <2>1, <2>6 DEF Same, Like, Knows, Safe, Before,
               Setters, Late, Keyed, Written
  <2> QED BY <1>1, <1>2, <1>3, <1>4, <1>5, <1>10, <2>2, <2>7 DEF Admits, Steps, Closed
<1> QED BY <1>1, <1>2, <1>3, <1>4, <1>5, <1>6, <1>7, <1>8, <1>9, <1>10, KeepsBy DEF TypeOK

\* The former password is set again.
LEMMA UndoKeeps == ASSUME ActInv, NEW o \in Ops, Undo(o) PROVE Keeps(o)
<1> SUFFICES ASSUME NEW q, q = op[o] PROVE Keeps(o)
      OBVIOUS
<1>1. /\ TypeOK /\ q.pc = "undo" /\ Running(o) /\ Knows(q)
      /\ q.kind \in {"change_password", "set_user_password"}
  <2>1. TypeOK /\ q.pc = "undo" /\ Running(o)
        BY DEF Undo, At, ActInv, Running, Steps
  <2>2. Knows(q)
        BY <2>1, Known
  <2> QED BY <2>1, <2>2 DEF Knows, Passers
<1>2. PICK c : /\ Outcome(o, c) /\ Same(q, c)
               /\ LET a == acct[q.who]
                      back == IF q.kind = "change_password" THEN q.work.pass ELSE q.old
                      done == Puts(q.who, a.there, back, a.keys, a.sudo)
                  IN  (c.pc = "restored" /\ done) \/ (c.pc = "broken" /\ (UNCHANGED acct \/ done))
      BY <1>1, UndoDoes
<1>3. /\ UNCHANGED <<conf, live, rec, files, managed, calls, edits>> /\ faults' \in 0..MaxFaults
      /\ torn' \in BOOLEAN /\ (torn => torn')
      /\ ~torn' /\ c.pc \in {"failed", "broken"} =>
           conf' = live' /\ (q.kind = "change_password" => acct'[q.who].pass = q.was.pass)
      BY <1>1, <1>2, UndoDoes, TearsMean DEF server, panel, bounds
<1>4. /\ acct' \in [Users -> Accounts] /\ \A v \in Users \ {q.who} : acct'[v] = acct[v]
      /\ acct'[q.who].there = acct[q.who].there /\ acct'[q.who].keys = acct[q.who].keys
      /\ acct'[q.who].sudo = acct[q.who].sudo
      /\ q.kind = "change_password" => acct'[q.who].pass \in {acct[q.who].pass, q.work.pass}
      /\ c.pc = "restored" => acct'[q.who].pass = IF q.kind = "change_password" THEN q.work.pass ELSE q.old
      BY <1>1, <1>2, <1>3 DEF Puts, TypeOK
<1>5. q.kind = "set_user_password" /\ LastInv => rec.user # q.who
      BY <1>1 DEF Knows, Spares, InHand, Relies, Own
<1>6. Acts(c)
      BY <1>1, <1>2, <1>3, <1>4, <1>5
      DEF Acts, Like, Same, Steps, Knows, Passers, Keyed, Setters, Written, Own, Given, Doing
<1>7. Answers(q, c)
      BY <1>1, <1>2, <1>3, <1>4, <1>5
      DEF Answers, Undone, Knows, Before, Setters, Late, Keyed, Written
<1>8. WasInv /\ ~torn' => Stays(c)
      BY <1>1, <1>2, <1>3, <1>4, <1>5
      DEF Stays, Like, Same, Steps, Knows, Before, Setters, Late, Keyed, Written
<1>9. ASSUME LastInv PROVE Lasts(c) /\ Spared
  <2>1. c.pc \in Steps => LastKey(c)'
        BY <1>1, <1>2, <1>3, <1>4, <1>5, <1>9
        DEF Like, Same, Steps, Knows, Spares, LastKey, Enterable, Keyed, Written
  <2>2. c.pc \in Steps => InHand(c)'
        BY <1>1, <1>2, <1>3, <1>4, <1>5, <1>9
        DEF Like, Same, Steps, Knows, Spares, InHand, Relies, Written
  <2>3. Lasts(c)
        BY <1>1, <1>2, <1>3, <1>4, <1>5, <1>9, <2>1, <2>2
        DEF Like, Same, Steps, Lasts, Knows, Spares
  <2>4. Spared
        BY <1>1, <1>2, <1>3, <1>4, <1>5, <1>9
        DEF Spared, Knows
  <2> QED BY <2>3, <2>4
<1>10. ASSUME WasInv, LastInv, WayInv, ~torn' PROVE Admits(c)
  <2>1. rec.user = q.who /\ q.kind = "change_password" /\ (rec.auth = "password" \/ (managed /\ q.who # Root))
             => rec.pass = q.work.pass /\ q.work.pass \in {q.was.pass, q.pass}
        BY <1>1, <1>2, <1>3, <1>4, <1>5, <1>10 DEF Knows, Safe
  <2>2. q.kind = "change_password" => acct[q.who].pass = q.pass
        BY <1>1, <1>2, <1>3, <1>4, <1>5, <1>10 DEF Knows, Doing
  <2>3. rec.user = q.who /\ q.kind = "change_password" /\ (rec.auth = "password" \/ (managed /\ q.who # Root))
             => acct'[q.who].pass = q.work.pass
        BY <1>1, <1>2, <1>3, <1>4, <1>5, <1>10, <2>1, <2>2
  <2>4. LET b == Back(q) IN
          /\ b.there = acct[rec.user].there /\ b.keys = acct[rec.user].keys /\ b.sudo = acct[rec.user].sudo
          /\ b.pass = IF q.kind = "change_password" /\ rec.user = q.who THEN q.work.pass ELSE acct[rec.user].pass
        BY <1>1, <1>2, <1>3, <1>4, <1>5, <1>10, BackIs DEF Knows, TypeOK
  <2>5. Way(live, Back(q))
        BY <1>1, <1>2, <1>3, <1>4, <1>5, <1>10 DEF Knows, Safe
  <2>6. LET b == Back(q)
            a == acct'[rec'.user]
        IN  /\ b.there = a.there /\ b.keys = a.keys /\ b.sudo = a.sudo
            /\ rec.auth = "password" \/ (managed /\ rec.user # Root) => b.pass = a.pass
        BY <1>1, <1>2, <1>3, <1>4, <1>5, <1>10, <2>3, <2>4 DEF Knows
  <2>7. Way(live, acct[rec.user])'
        BY <1>1, <1>2, <1>3, <1>4, <1>5, <1>10, <2>5, <2>6 DEF Knows, Way, Door, Power
  <2> QED BY <1>1, <1>2, <1>3, <1>4, <1>5, <1>10, <2>7 DEF Admits, Steps, Closed
<1> QED BY <1>1, <1>2, <1>3, <1>4, <1>5, <1>6, <1>7, <1>8, <1>9, <1>10, KeepsBy DEF TypeOK

\* The key is appended.
LEMMA WriteKeeps == ASSUME ActInv, NEW o \in Ops, Write(o) PROVE Keeps(o)
<1> SUFFICES ASSUME NEW q, q = op[o] PROVE Keeps(o)
      OBVIOUS
<1>1. /\ TypeOK /\ q.pc = "write" /\ Running(o) /\ Knows(q)
      /\ q.kind \in {"install_pubkey", "add_key_to_user"}
  <2>1. TypeOK /\ q.pc = "write" /\ Running(o)
        BY DEF Write, At, ActInv, Running, Steps
  <2>2. Knows(q)
        BY <2>1, Known
  <2> QED BY <2>1, <2>2 DEF Knows, Passers
<1>2. PICK c : /\ Outcome(o, c) /\ Like(q, c)
               /\ LET a == acct[q.who]
                      added == Puts(q.who, a.there, a.pass, a.keys \cup {q.key}, a.sudo)
                  IN  \/ /\ c.pc \in {"verify", "ok"} /\ c.keys = a.keys /\ added /\ UNCHANGED files
                         /\ c.pc = "verify" /\ q.kind = "add_key_to_user" => q.who = q.work.user
                         /\ c.pc = "ok" /\ q.kind = "install_pubkey" => ~q.on
                      \/ /\ q.kind = "add_key_to_user" /\ c.pc = "failed" /\ files' = files \ {q.key}
                         /\ UNCHANGED acct \/ added
                      \/ /\ q.kind = "install_pubkey" /\ c.pc = "restore" /\ c.keys = a.keys /\ UNCHANGED files
                         /\ UNCHANGED acct \/ added
      BY <1>1, WriteDoes DEF Knows, Given
<1>3. /\ UNCHANGED <<conf, live, rec, managed, calls, edits>> /\ faults' \in 0..MaxFaults
      /\ torn' \in BOOLEAN /\ torn' = torn
      BY <1>1, WriteDoes DEF server, panel, bounds, TypeOK, Knows
<1>4. /\ acct' \in [Users -> Accounts] /\ \A v \in Users \ {q.who} : acct'[v] = acct[v]
      /\ acct'[q.who].there = acct[q.who].there /\ acct'[q.who].pass = acct[q.who].pass
      /\ acct'[q.who].sudo = acct[q.who].sudo
      /\ acct'[q.who].keys \in {acct[q.who].keys, acct[q.who].keys \cup {q.key}}
      /\ c.pc \in {"verify", "ok"} => acct'[q.who].keys = acct[q.who].keys \cup {q.key}
      /\ files' \subseteq Keys /\ (q.kind = "install_pubkey" => files' = files)
      /\ c.pc \in {"verify", "restore"} => c.keys = acct[q.who].keys
      BY <1>1, <1>2, <1>3 DEF Puts, TypeOK
<1>5. Acts(c)
      BY <1>1, <1>2, <1>3, <1>4
      DEF Acts, Like, Same, Steps, Knows, Passers, Keyed, Setters, Written, Own, Given, Doing, Late
<1>6. Answers(q, c)
      BY <1>1, <1>2, <1>3, <1>4
      DEF Answers, Achieved, Knows, Given
<1>7. WasInv /\ ~torn' => Stays(c)
      BY <1>1, <1>2, <1>3, <1>4
      DEF Stays, Like, Same, Steps, Knows, Before, Setters, Late, Keyed, Written
<1>8. ASSUME LastInv PROVE Lasts(c) /\ Spared
  <2>1. c.pc \in Steps => LastKey(c)'
        BY <1>1, <1>2, <1>3, <1>4, <1>8
        DEF Like, Same, Steps, Knows, Spares, LastKey, Enterable, Keyed, Written
  <2>2. c.pc \in Steps => InHand(c)'
        BY <1>1, <1>2, <1>3, <1>4, <1>8
        DEF Like, Same, Steps, Knows, Spares, InHand, Relies, Written
  <2>3. Lasts(c)
        BY <1>1, <1>2, <1>3, <1>4, <1>8, <2>1, <2>2
        DEF Like, Same, Steps, Lasts, Knows, Spares, InHand
  <2>4. Spared
        BY <1>1, <1>2, <1>3, <1>4, <1>8
        DEF Spared, Knows
  <2> QED BY <2>3, <2>4
<1>9. ASSUME WasInv, LastInv, WayInv, ~torn' PROVE Admits(c)
      BY <1>1, <1>2, <1>3, <1>4, <1>9
      DEF Like, Same, Steps, Admits, Knows, Safe, Way, Back, Door, Power, Setters, Late, Keyed,
          Written, Committable, With, Spares, InHand
<1> QED BY <1>1, <1>2, <1>3, <1>4, <1>5, <1>6, <1>7, <1>8, <1>9, KeepsBy DEF TypeOK

\* authorized_keys as the snapshot has it.
LEMMA RestoreKeeps == ASSUME ActInv, NEW o \in Ops, Restore(o) PROVE Keeps(o)
<1> SUFFICES ASSUME NEW q, q = op[o] PROVE Keeps(o)
      OBVIOUS
<1>1. /\ TypeOK /\ q.pc = "restore" /\ Running(o) /\ Knows(q)
      /\ q.kind \in {"install_pubkey", "add_key_to_user", "remove_key_from_user"}
  <2>1. TypeOK /\ q.pc = "restore" /\ Running(o)
        BY DEF Restore, At, ActInv, Running, Steps
  <2>2. Knows(q)
        BY <2>1, Known
  <2> QED BY <2>1, <2>2 DEF Knows, Passers, Keyed
<1>2. PICK c : /\ Outcome(o, c) /\ Same(q, c)
               /\ LET a == acct[q.who]
                      done == Puts(q.who, a.there, a.pass, q.keys, a.sudo)
                  IN  (c.pc = "restored" /\ done) \/ (c.pc = "broken" /\ (UNCHANGED acct \/ done))
      BY <1>1, RestoreDoes
<1>3. /\ UNCHANGED <<conf, live, rec, managed, calls, edits>> /\ faults' \in 0..MaxFaults
      /\ files' = IF q.kind = "add_key_to_user" THEN files \ {q.key} ELSE files
      /\ torn' \in BOOLEAN /\ (torn => torn')
      /\ ~torn' /\ c.pc \in {"failed", "broken"} =>
           conf' = live' /\ (q.kind = "change_password" => acct'[q.who].pass = q.was.pass)
      BY <1>1, <1>2, RestoreDoes, TearsMean DEF server, panel, bounds
<1>4. /\ acct' \in [Users -> Accounts] /\ \A v \in Users \ {q.who} : acct'[v] = acct[v]
      /\ acct'[q.who].there = acct[q.who].there /\ acct'[q.who].pass = acct[q.who].pass
      /\ acct'[q.who].sudo = acct[q.who].sudo
      /\ acct'[q.who].keys \in {acct[q.who].keys, q.keys}
      /\ c.pc = "restored" => acct'[q.who].keys = q.keys
      /\ files' \subseteq Keys
      BY <1>1, <1>2, <1>3 DEF Puts, TypeOK
<1>5. Acts(c)
      BY <1>1, <1>2, <1>3, <1>4
      DEF Acts, Like, Same, Steps, Knows, Passers, Keyed, Setters, Written, Own, Given, Doing
<1>6. Answers(q, c)
      BY <1>1, <1>2, <1>3, <1>4
      DEF Answers, Undone, Knows, Before, Setters, Late, Keyed, Written
<1>7. WasInv /\ ~torn' => Stays(c)
      BY <1>1, <1>2, <1>3, <1>4
      DEF Stays, Like, Same, Steps, Knows, Before, Setters, Late, Keyed, Written
<1>8. ASSUME LastInv PROVE Lasts(c) /\ Spared
  <2>1. c.pc \in Steps => LastKey(c)'
        BY <1>1, <1>2, <1>3, <1>4, <1>8
        DEF Like, Same, Steps, Knows, Spares, LastKey, Enterable, Keyed, Written
  <2>2. c.pc \in Steps => InHand(c)'
        BY <1>1, <1>2, <1>3, <1>4, <1>8
        DEF Like, Same, Steps, Knows, Spares, InHand, Relies, Written
  <2>3. Lasts(c)
        BY <1>1, <1>2, <1>3, <1>4, <1>8, <2>1, <2>2
        DEF Like, Same, Steps, Lasts, Knows, Spares, InHand, Written
  <2>4. Spared
        BY <1>1, <1>2, <1>3, <1>4, <1>8
        DEF Spared, Knows, Spares, LastKey, Keyed, Written
  <2> QED BY <2>3, <2>4
<1>9. ASSUME WasInv, LastInv, WayInv, ~torn' PROVE Admits(c)
      BY <1>1, <1>2, <1>3, <1>4, <1>9
      DEF Like, Same, Steps, Admits, Knows, Safe, Way, Back, Door, Power, Setters, Late, Keyed,
          Written, Committable, With, Spares, InHand
<1> QED BY <1>1, <1>2, <1>3, <1>4, <1>5, <1>6, <1>7, <1>8, <1>9, KeepsBy DEF TypeOK

\* The key's line goes.
LEMMA EraseKeeps == ASSUME ActInv, NEW o \in Ops, Erase(o) PROVE Keeps(o)
<1> SUFFICES ASSUME NEW q, q = op[o] PROVE Keeps(o)
      OBVIOUS
<1>1. /\ TypeOK /\ q.pc = "erase" /\ Running(o) /\ Knows(q)
      /\ q.kind \in {"remove_key_from_user"}
  <2>1. TypeOK /\ q.pc = "erase" /\ Running(o)
        BY DEF Erase, At, ActInv, Running, Steps
  <2>2. Knows(q)
        BY <2>1, Known
  <2> QED BY <2>1, <2>2 DEF Knows, Passers
<1>2. PICK c : /\ Outcome(o, c) /\ Like(q, c)
               /\ LET a == acct[q.who]
                      gone == Puts(q.who, a.there, a.pass, a.keys \ {q.key}, a.sudo)
                  IN  \/ /\ c.pc = "clear" /\ c.keys = a.keys /\ q.key \in a.keys /\ gone
                         /\ Recorded(q) /\ ~RouteUses(q)
                      \/ c.pc = "ok" /\ gone
                      \/ c.pc = "failed" /\ (UNCHANGED acct \/ gone)
      BY <1>1, EraseDoes
<1>3. /\ UNCHANGED <<conf, live, rec, files, managed, calls, edits>> /\ faults' \in 0..MaxFaults
      /\ torn' \in BOOLEAN /\ torn' = torn
      BY <1>1, EraseDoes DEF server, panel, bounds, TypeOK
<1>4. /\ acct' \in [Users -> Accounts] /\ \A v \in Users \ {q.who} : acct'[v] = acct[v]
      /\ acct'[q.who].there = acct[q.who].there /\ acct'[q.who].pass = acct[q.who].pass
      /\ acct'[q.who].sudo = acct[q.who].sudo
      /\ acct'[q.who].keys \in {acct[q.who].keys, acct[q.who].keys \ {q.key}}
      /\ c.pc \in {"clear", "ok"} => acct'[q.who].keys = acct[q.who].keys \ {q.key}
      /\ c.pc = "clear" => c.keys = acct[q.who].keys /\ q.key \in c.keys /\ q.work.auth = "password"
      BY <1>1, <1>2, <1>3, Fields DEF Puts, TypeOK, Knows, Recorded, RouteUses
<1>5. Acts(c)
  <2>1. c.pc = "clear" => c.kind \in Passers[c.pc] /\ Own(c) /\ Given(c)'
        BY <1>1, <1>2, <1>3, <1>4 DEF Like, Knows, Passers, Own, Given, Written, Recorded
  <2>2. c.pc = "clear" => Doing(c)'
        BY <1>1, <1>2, <1>3, <1>4 DEF Knows, Like, Doing, Late, Keyed, Written
  <2> QED BY <1>1, <1>2, <1>3, <1>4, <2>1, <2>2 DEF Acts, Steps
<1>6. Answers(q, c)
      BY <1>1, <1>2, <1>3, <1>4
      DEF Answers, Achieved
<1>7. WasInv /\ ~torn' => Stays(c)
      BY <1>1, <1>2, <1>3, <1>4
      DEF Stays, Like, Same, Steps, Knows, Before, Setters, Late, Keyed, Written
<1>8. ASSUME LastInv PROVE Lasts(c) /\ Spared
  <2>1. c.pc \in Steps => LastKey(c)'
        BY <1>1, <1>2, <1>3, <1>4, <1>8
        DEF Like, Same, Steps, Knows, Spares, LastKey, Enterable, Keyed, Written
  <2>2. c.pc \in Steps => InHand(c)'
        BY <1>1, <1>2, <1>3, <1>4, <1>8
        DEF Like, Same, Steps, Knows, Spares, InHand, Relies, Written
  <2>3. Lasts(c)
        BY <1>1, <1>2, <1>3, <1>4, <1>8, <2>1, <2>2
        DEF Like, Same, Steps, Lasts, Knows, Spares
  <2>4. Spared
        BY <1>1, <1>2, <1>3, <1>4, <1>8
        DEF Spared, Knows, Spares, LastKey, Keyed
  <2> QED BY <2>3, <2>4
<1>9. ASSUME WasInv, LastInv, WayInv, ~torn' PROVE Admits(c)
  <2>1. Way(live, acct[rec.user]) /\ (rec.user = q.who /\ rec.auth = "key" => rec.key # q.key)
        BY <1>1, <1>2, <1>3, <1>4, <1>9 DEF Knows, Safe, Back
  <2>2. Way(live, acct[rec.user])'
        BY <1>1, <1>2, <1>3, <1>4, <1>9, <2>1 DEF Knows, Way, Door, Power
  <2>3. c.pc = "clear" => Safe(c)'
        BY <1>1, <1>2, <1>3, <1>4, <1>9, <2>1, <2>2 DEF Like, Way, Door, Safe, Back, Setters, Late,
               Keyed, Written
  <2> QED BY <1>1, <1>2, <1>3, <1>4, <1>9, <2>2, <2>3 DEF Admits, Steps
<1> QED BY <1>1, <1>2, <1>3, <1>4, <1>5, <1>6, <1>7, <1>8, <1>9, KeepsBy DEF TypeOK

\* useradd.
LEMMA UseraddKeeps == ASSUME ActInv, NEW o \in Ops, Useradd(o) PROVE Keeps(o)
<1> SUFFICES ASSUME NEW q, q = op[o] PROVE Keeps(o)
      OBVIOUS
<1>1. /\ TypeOK /\ q.pc = "useradd" /\ Running(o) /\ Knows(q)
      /\ q.kind \in {"create_user"}
  <2>1. TypeOK /\ q.pc = "useradd" /\ Running(o)
        BY DEF Useradd, At, ActInv, Running, Steps
  <2>2. Knows(q)
        BY <2>1, Known
  <2> QED BY <2>1, <2>2 DEF Knows, Passers
<1>2. PICK c : /\ Outcome(o, c) /\ Same(q, c)
               /\ LET a == acct[q.who]
                      done == ~a.there /\ Puts(q.who, TRUE, None, a.keys, FALSE)
                  IN  (c.pc = "fill" /\ done) \/ (c.pc = "failed" /\ (UNCHANGED acct \/ done))
      BY <1>1, UseraddDoes
<1>3. /\ UNCHANGED <<conf, live, rec, files, managed, calls, edits>> /\ faults' \in 0..MaxFaults
      /\ torn' \in BOOLEAN /\ torn' = torn
      BY <1>1, UseraddDoes DEF server, panel, bounds, TypeOK
<1>4. /\ acct' \in [Users -> Accounts] /\ \A v \in Users \ {q.who} : acct'[v] = acct[v]
      /\ acct'[q.who] # acct[q.who] => ~acct[q.who].there
      /\ acct'[q.who].keys = acct[q.who].keys
      /\ c.pc = "fill" => ~acct[q.who].there /\ acct'[q.who].there
      BY <1>1, <1>2, <1>3 DEF Puts, TypeOK
<1>5. Acts(c)
  <2>1. c.pc = "fill" => c.kind \in Passers[c.pc] /\ Own(c) /\ Given(c)'
        BY <1>1, <1>2, <1>3, <1>4 DEF Like, Same, Knows, Passers, Own, Given
  <2>2. c.pc = "fill" => Doing(c)'
        BY <1>1, <1>2, <1>3, <1>4 DEF Knows, Like, Same, Doing, Late, Keyed, Written
  <2> QED BY <1>1, <1>2, <1>3, <1>4, <2>1, <2>2 DEF Acts, Steps
<1>6. Answers(q, c)
      BY <1>1, <1>2, <1>3, <1>4
      DEF Answers, Like, Same
<1>7. WasInv /\ ~torn' => Stays(c)
      BY <1>1, <1>2, <1>3, <1>4
      DEF Stays, Like, Same, Steps, Knows, Before, Setters, Late, Keyed, Written
<1>8. ASSUME LastInv PROVE Lasts(c) /\ Spared
  <2>1. c.pc \in Steps => LastKey(c)'
        BY <1>1, <1>2, <1>3, <1>4, <1>8
        DEF Like, Same, Steps, Knows, Spares, LastKey, Enterable, Keyed, Written
  <2>2. c.pc \in Steps => InHand(c)'
        BY <1>1, <1>2, <1>3, <1>4, <1>8
        DEF Like, Same, Steps, Knows, Spares, InHand, Relies, Written
  <2>3. Lasts(c)
        BY <1>1, <1>2, <1>3, <1>4, <1>8, <2>1, <2>2
        DEF Like, Same, Steps, Lasts, Knows, Spares
  <2>4. Spared
        BY <1>1, <1>2, <1>3, <1>4, <1>8
        DEF Spared, Knows
  <2> QED BY <2>3, <2>4
<1>9. ASSUME WasInv, LastInv, WayInv, ~torn' PROVE Admits(c)
  <2>1. Way(live, acct[rec.user])
        BY <1>1, <1>2, <1>3, <1>4, <1>9 DEF Knows, Safe, Back
  <2>2. acct'[rec'.user] = acct[rec.user]
        BY <1>1, <1>2, <1>3, <1>4, <1>9 DEF Knows
  <2>3. Way(live, acct[rec.user])'
        BY <1>1, <1>2, <1>3, <1>4, <1>9, <2>1, <2>2 DEF Way, Door, Power
  <2> QED BY <1>1, <1>2, <1>3, <1>4, <1>9, <2>3 DEF Like, Same, Steps, Admits, Safe, Back, Setters,
                 Late, Keyed, Written
<1> QED BY <1>1, <1>2, <1>3, <1>4, <1>5, <1>6, <1>7, <1>8, <1>9, KeepsBy DEF TypeOK

\* The password and the sudo group.
LEMMA FillKeeps == ASSUME ActInv, NEW o \in Ops, Fill(o) PROVE Keeps(o)
<1> SUFFICES ASSUME NEW q, q = op[o] PROVE Keeps(o)
      OBVIOUS
<1>1. /\ TypeOK /\ q.pc = "fill" /\ Running(o) /\ Knows(q)
      /\ q.kind \in {"create_user"}
  <2>1. TypeOK /\ q.pc = "fill" /\ Running(o)
        BY DEF Fill, At, ActInv, Running, Steps
  <2>2. Knows(q)
        BY <2>1, Known
  <2> QED BY <2>1, <2>2 DEF Knows, Passers
<1>2. PICK c : /\ Outcome(o, c) /\ Same(q, c)
               /\ LET a == acct[q.who]
                      done == Puts(q.who, a.there, q.pass, a.keys, q.on)
                  IN  (c.pc = "ok" /\ done) \/ (c.pc = "userdel" /\ (UNCHANGED acct \/ done))
      BY <1>1, FillDoes
<1>3. /\ UNCHANGED <<conf, live, rec, files, managed, calls, edits>> /\ faults' \in 0..MaxFaults
      /\ torn' \in BOOLEAN /\ torn' = torn
      BY <1>1, FillDoes DEF server, panel, bounds, TypeOK
<1>4. /\ acct' \in [Users -> Accounts] /\ \A v \in Users \ {q.who} : acct'[v] = acct[v]
      /\ acct'[q.who].there = acct[q.who].there /\ acct'[q.who].keys = acct[q.who].keys
      /\ c.pc = "ok" => acct'[q.who].sudo = q.on
      BY <1>1, <1>2, <1>3 DEF Puts, TypeOK
<1>5. Acts(c)
      BY <1>1, <1>2, <1>3, <1>4
      DEF Acts, Like, Same, Steps, Knows, Passers, Keyed, Setters, Written, Own, Given, Doing, Late
<1>6. Answers(q, c)
  <2>1. acct[q.who].there /\ acct[q.who].there \in BOOLEAN
        BY <1>1, <1>2, <1>3, <1>4, AccountFields DEF Knows, Doing
  <2>2. c.pc = "ok" => acct'[q.who].there /\ acct'[q.who].sudo = q.on
        BY <1>1, <1>2, <1>3, <1>4, <2>1
  <2> QED BY <1>1, <1>2, <1>3, <1>4, <2>2 DEF Answers, Achieved
<1>7. WasInv /\ ~torn' => Stays(c)
      BY <1>1, <1>2, <1>3, <1>4
      DEF Stays, Like, Same, Steps, Knows, Before, Setters, Late, Keyed, Written
<1>8. ASSUME LastInv PROVE Lasts(c) /\ Spared
  <2>1. c.pc \in Steps => LastKey(c)'
        BY <1>1, <1>2, <1>3, <1>4, <1>8
        DEF Like, Same, Steps, Knows, Spares, LastKey, Enterable, Keyed, Written
  <2>2. c.pc \in Steps => InHand(c)'
        BY <1>1, <1>2, <1>3, <1>4, <1>8
        DEF Like, Same, Steps, Knows, Spares, InHand, Relies, Written
  <2>3. Lasts(c)
        BY <1>1, <1>2, <1>3, <1>4, <1>8, <2>1, <2>2
        DEF Like, Same, Steps, Lasts, Knows, Spares
  <2>4. Spared
        BY <1>1, <1>2, <1>3, <1>4, <1>8
        DEF Spared, Knows
  <2> QED BY <2>3, <2>4
<1>9. ASSUME WasInv, LastInv, WayInv, ~torn' PROVE Admits(c)
  <2>1. rec.user # q.who /\ acct'[rec'.user] = acct[rec.user]
        BY <1>1, <1>2, <1>3, <1>4, <1>9 DEF Knows, Spares
  <2>2. Way(live, acct[rec.user])'
        BY <1>1, <1>2, <1>3, <1>4, <1>9, <2>1 DEF Knows, Safe, Way, Back, Door, Power
  <2> QED BY <1>1, <1>2, <1>3, <1>4, <1>9, <2>2 DEF Like, Same, Steps, Admits, Safe, Back, Setters,
                 Late, Keyed, Written
<1> QED BY <1>1, <1>2, <1>3, <1>4, <1>5, <1>6, <1>7, <1>8, <1>9, KeepsBy DEF TypeOK

\* The account that was not finished is deleted.
LEMMA UserdelKeeps == ASSUME ActInv, NEW o \in Ops, Userdel(o) PROVE Keeps(o)
<1> SUFFICES ASSUME NEW q, q = op[o] PROVE Keeps(o)
      OBVIOUS
<1>1. /\ TypeOK /\ q.pc = "userdel" /\ Running(o) /\ Knows(q)
      /\ q.kind \in {"create_user"}
  <2>1. TypeOK /\ q.pc = "userdel" /\ Running(o)
        BY DEF Userdel, At, ActInv, Running, Steps
  <2>2. Knows(q)
        BY <2>1, Known
  <2> QED BY <2>1, <2>2 DEF Knows, Passers
<1>2. PICK c : /\ Outcome(o, c) /\ Same(q, c)
               /\ LET done == Puts(q.who, FALSE, None, {}, FALSE)
                  IN  (c.pc = "restored" /\ done) \/ (c.pc = "broken" /\ (UNCHANGED acct \/ done))
      BY <1>1, UserdelDoes
<1>3. /\ UNCHANGED <<conf, live, rec, files, managed, calls, edits>> /\ faults' \in 0..MaxFaults
      /\ torn' \in BOOLEAN /\ torn' = torn
      BY <1>1, UserdelDoes DEF server, panel, bounds, TypeOK
<1>4. /\ acct' \in [Users -> Accounts] /\ \A v \in Users \ {q.who} : acct'[v] = acct[v]
      /\ c.pc = "restored" => acct'[q.who].there = FALSE
      BY <1>1, <1>2, <1>3 DEF Puts, TypeOK
<1>5. Acts(c)
      BY <1>1, <1>2, <1>3, <1>4
      DEF Acts, Like, Same, Steps, Knows, Passers, Keyed, Setters, Written, Own, Given, Doing
<1>6. Answers(q, c)
  <2>1. q.was.there \in BOOLEAN
        BY <1>1, <1>2, <1>3, <1>4, Fields DEF Knows
  <2>2. WasInv /\ ~torn => q.was.there = FALSE
        BY <1>1, <1>2, <1>3, <1>4, <2>1 DEF Knows, Before
  <2> QED BY <1>1, <1>2, <1>3, <1>4, <2>2 DEF Answers, Undone, Knows, Before, Setters, Late, Keyed,
                 Written
<1>7. WasInv /\ ~torn' => Stays(c)
      BY <1>1, <1>2, <1>3, <1>4
      DEF Stays, Like, Same, Steps, Knows, Before, Setters, Late, Keyed, Written
<1>8. ASSUME LastInv PROVE Lasts(c) /\ Spared
  <2>1. c.pc \in Steps => LastKey(c)'
        BY <1>1, <1>2, <1>3, <1>4, <1>8
        DEF Like, Same, Steps, Knows, Spares, LastKey, Enterable, Keyed, Written
  <2>2. c.pc \in Steps => InHand(c)'
        BY <1>1, <1>2, <1>3, <1>4, <1>8
        DEF Like, Same, Steps, Knows, Spares, InHand, Relies, Written
  <2>3. Lasts(c)
        BY <1>1, <1>2, <1>3, <1>4, <1>8, <2>1, <2>2
        DEF Like, Same, Steps, Lasts, Knows, Spares
  <2>4. Spared
        BY <1>1, <1>2, <1>3, <1>4, <1>8
        DEF Spared, Knows, Own, Spares
  <2> QED BY <2>3, <2>4
<1>9. ASSUME WasInv, LastInv, WayInv, ~torn' PROVE Admits(c)
      BY <1>1, <1>2, <1>3, <1>4, <1>9
      DEF Like, Same, Steps, Admits, Knows, Safe, Way, Back, Door, Power, Setters, Late, Keyed,
          Written, Committable, With, Spares
<1> QED BY <1>1, <1>2, <1>3, <1>4, <1>5, <1>6, <1>7, <1>8, <1>9, KeepsBy DEF TypeOK

\* grant_sudo, revoke_sudo and delete_user.
LEMMA AlterKeeps == ASSUME ActInv, NEW o \in Ops, Alter(o) PROVE Keeps(o)
<1> SUFFICES ASSUME NEW q, q = op[o] PROVE Keeps(o)
      OBVIOUS
<1>1. /\ TypeOK /\ q.pc = "alter" /\ Running(o) /\ Knows(q)
      /\ q.kind \in {"grant_sudo", "revoke_sudo", "delete_user"}
  <2>1. TypeOK /\ q.pc = "alter" /\ Running(o)
        BY DEF Alter, At, ActInv, Running, Steps
  <2>2. Knows(q)
        BY <2>1, Known
  <2> QED BY <2>1, <2>2 DEF Knows, Passers
<1>2. PICK c : /\ Outcome(o, c) /\ Ends(q, c)
               /\ LET a == acct[q.who]
                      done == \/ q.kind = "grant_sudo" /\ Puts(q.who, a.there, a.pass, a.keys, TRUE)
                              \/ q.kind = "revoke_sudo" /\ Puts(q.who, a.there, a.pass, a.keys, FALSE)
                              \/ /\ q.kind = "delete_user"
                                 /\ Puts(q.who, FALSE, None, IF q.on THEN {} ELSE a.keys, FALSE)
                  IN  \/ c.pc = "ok" /\ done
                      \/ c.pc = "failed" /\ (UNCHANGED acct \/ done)
                      \/ c.pc = "ok" /\ c.blind /\ UNCHANGED acct
      BY <1>1, AlterDoes DEF Knows
<1>3. /\ UNCHANGED <<conf, live, rec, files, managed, calls, edits>> /\ faults' \in 0..MaxFaults
      /\ torn' \in BOOLEAN /\ torn' = torn
      BY <1>1, AlterDoes DEF server, panel, bounds, TypeOK, Knows
<1>4. /\ acct' \in [Users -> Accounts] /\ \A v \in Users \ {q.who} : acct'[v] = acct[v]
      /\ q.kind = "grant_sudo" =>
           /\ acct'[q.who].there = acct[q.who].there /\ acct'[q.who].keys = acct[q.who].keys
           /\ acct'[q.who].pass = acct[q.who].pass /\ acct'[q.who].sudo \in {acct[q.who].sudo, TRUE}
      /\ c.pc = "ok" /\ ~c.blind /\ q.kind \in {"grant_sudo", "revoke_sudo"} =>
           acct'[q.who].sudo = (q.kind = "grant_sudo")
      /\ c.pc = "ok" /\ ~c.blind /\ q.kind = "delete_user" => ~acct'[q.who].there
      BY <1>1, <1>2, <1>3 DEF Puts, TypeOK
<1>5. LastInv /\ q.kind # "grant_sudo" => rec.user # q.who /\ Root # q.who
      BY <1>1 DEF Knows, Spares, InHand, Relies, Own
<1>6. Acts(c)
      BY <1>1, <1>2, <1>3, <1>4, <1>5
      DEF Acts, Ends, Steps, Knows, Passers, Keyed, Setters, Written, Own, Given, Doing
<1>7. Answers(q, c)
      BY <1>1, <1>2, <1>3, <1>4, <1>5
      DEF Answers, Achieved
<1>8. WasInv /\ ~torn' => Stays(c)
      BY <1>1, <1>2, <1>3, <1>4, <1>5
      DEF Stays, Ends, Steps, Knows, Before, Setters, Late, Keyed, Written
<1>9. ASSUME LastInv PROVE Lasts(c) /\ Spared
  <2>1. c.pc \in Steps => LastKey(c)'
        BY <1>1, <1>2, <1>3, <1>4, <1>5, <1>9
        DEF Ends, Steps, Knows, Spares, LastKey, Enterable, Keyed, Written
  <2>2. c.pc \in Steps => InHand(c)'
        BY <1>1, <1>2, <1>3, <1>4, <1>5, <1>9
        DEF Ends, Steps, Knows, Spares, InHand, Relies, Written
  <2>3. Lasts(c)
        BY <1>1, <1>2, <1>3, <1>4, <1>5, <1>9, <2>1, <2>2
        DEF Ends, Steps, Lasts, Knows, Spares
  <2>4. \A u \in {Root, rec.user} : acct'[u].keys = acct[u].keys
        BY <1>1, <1>2, <1>3, <1>4, <1>5, <1>9 DEF Knows
  <2>5. Spared
        BY <2>4 DEF Spared
  <2> QED BY <2>3, <2>5
<1>10. ASSUME WasInv, LastInv, WayInv, ~torn' PROVE Admits(c)
  <2>1. Way(live, acct[rec.user])
        BY <1>1, <1>2, <1>3, <1>4, <1>5, <1>10 DEF Knows, Safe, Back
  <2>2. q.kind # "grant_sudo" => acct'[rec'.user] = acct[rec.user]
        BY <1>1, <1>2, <1>3, <1>4, <1>5, <1>10 DEF Knows
  <2>3. /\ acct'[rec'.user].sudo \in {acct[rec.user].sudo, TRUE}
        /\ acct'[rec'.user].there = acct[rec.user].there
        /\ acct'[rec'.user].keys = acct[rec.user].keys
        /\ acct'[rec'.user].pass = acct[rec.user].pass
        BY <1>1, <1>2, <1>3, <1>4, <1>5, <1>10, <2>2 DEF Knows
  <2>4. Way(live, acct[rec.user])'
        BY <1>1, <1>2, <1>3, <1>4, <1>5, <1>10, <2>1, <2>3 DEF Way, Door, Power
  <2> QED BY <1>1, <1>2, <1>3, <1>4, <1>5, <1>10, <2>4 DEF Admits, Steps, Closed
<1> QED BY <1>1, <1>2, <1>3, <1>4, <1>5, <1>6, <1>7, <1>8, <1>9, <1>10, KeepsBy DEF TypeOK

-----------------------------------------------------------------------------
(* The steps that change the record and the keys.                           *)

\* The password is recorded as the way in.
LEMMA LeaveKeeps == ASSUME ActInv, NEW o \in Ops, Leave(o) PROVE Keeps(o)
<1> SUFFICES ASSUME NEW q, q = op[o] PROVE Keeps(o)
      OBVIOUS
<1>1. /\ TypeOK /\ q.pc = "leave" /\ Running(o) /\ Knows(q)
      /\ q.kind \in {"remove_key_from_user"}
  <2>1. TypeOK /\ q.pc = "leave" /\ Running(o)
        BY DEF Leave, At, ActInv, Running, Steps
  <2>2. Knows(q)
        BY <2>1, Known
  <2> QED BY <2>1, <2>2 DEF Knows, Passers
<1>2. PICK c : /\ Outcome(o, c) /\ Same(q, c)
               /\ \/ /\ c.pc = "erase" /\ rec = q.work
                     /\ rec' = [q.work EXCEPT !.auth = "password", !.key = None]
                  \/ c.pc = "failed" /\ UNCHANGED rec
      BY <1>1, LeaveDoes
<1>3. /\ UNCHANGED <<conf, live, acct, files, managed, calls, edits>> /\ faults' \in 0..MaxFaults
      /\ torn' \in BOOLEAN /\ torn' = torn
      BY <1>1, LeaveDoes DEF server, panel, bounds, TypeOK
<1>4. rec' \in Records
      BY <1>1, <1>2, <1>3, RecordTypes DEF TypeOK, Knows
<1>5. LET r == [q.work EXCEPT !.auth = "password", !.key = None] IN
        r.user = q.work.user /\ r.auth = "password" /\ r.pass = q.work.pass /\ r.key = None
      BY <1>1, <1>2, <1>3, <1>4, Shapes DEF Knows
<1>6. /\ rec'.user = rec.user /\ rec'.pass = rec.pass
      /\ c.pc = "erase" => rec'.auth = "password" /\ rec'.key = None /\ rec = q.work
      /\ c.pc = "failed" => rec' = rec
      BY <1>1, <1>2, <1>3, <1>4, <1>5
<1>7. q.key # None
      BY <1>1, <1>2, <1>3, <1>4, <1>5, <1>6, AccessAssumption DEF Knows, Given
<1>8. LET r == [q.work EXCEPT !.auth = "password"] IN r.user = q.work.user /\ r.auth = "password" /\ r.pass = q.work.pass
      BY <1>1, <1>2, <1>3, <1>4, <1>5, <1>6, <1>7, Shapes DEF Knows
<1>9. Acts(c)
      BY <1>1, <1>2, <1>3, <1>4, <1>5, <1>6, <1>7, <1>8
      DEF Acts, Like, Same, Steps, Knows, Passers, Keyed, Setters, Written, Own, Given, Doing, Late
<1>10. Answers(q, c)
      BY <1>1, <1>2, <1>3, <1>4, <1>5, <1>6, <1>7, <1>8
      DEF Answers, Like, Same
<1>11. WasInv /\ ~torn' => Stays(c)
      BY <1>1, <1>2, <1>3, <1>4, <1>5, <1>6, <1>7, <1>8
      DEF Stays, Like, Same, Steps, Knows, Before, Setters, Late, Keyed, Written
<1>12. ASSUME LastInv PROVE Lasts(c) /\ Spared
  <2>1. c.pc \in Steps => LastKey(c)'
        BY <1>1, <1>2, <1>3, <1>4, <1>5, <1>6, <1>7, <1>8, <1>12
        DEF Like, Same, Steps, Knows, Spares, LastKey, Enterable, Keyed, Written
  <2>2. c.pc \in Steps => InHand(c)'
        BY <1>1, <1>2, <1>3, <1>4, <1>5, <1>6, <1>7, <1>8, <1>12
        DEF Like, Same, Steps, Knows, Spares, InHand, Relies, Written
  <2>3. Lasts(c)
        BY <1>1, <1>2, <1>3, <1>4, <1>5, <1>6, <1>7, <1>8, <1>12, <2>1, <2>2
        DEF Like, Same, Steps, Lasts, Knows, Spares
  <2>4. Spared
        BY <1>1, <1>2, <1>3, <1>4, <1>5, <1>6, <1>7, <1>8, <1>12
        DEF Spared
  <2> QED BY <2>3, <2>4
<1>13. ASSUME WasInv, LastInv, WayInv, ~torn' PROVE Admits(c)
      BY <1>1, <1>2, <1>3, <1>4, <1>5, <1>6, <1>7, <1>8, <1>13
      DEF Like, Same, Steps, Admits, Knows, Safe, Way, Back, Door, Power, Setters, Late, Keyed,
          Written, Committable, With
<1> QED BY <1>1, <1>2, <1>3, <1>4, <1>5, <1>6, <1>7, <1>8, <1>9, <1>10, <1>11, <1>12, <1>13, KeepsBy
           DEF TypeOK

\* The record of a key that is gone is cleared.
LEMMA ClearKeeps == ASSUME ActInv, NEW o \in Ops, Clear(o) PROVE Keeps(o)
<1> SUFFICES ASSUME NEW q, q = op[o] PROVE Keeps(o)
      OBVIOUS
<1>1. /\ TypeOK /\ q.pc = "clear" /\ Running(o) /\ Knows(q)
      /\ q.kind \in {"remove_key_from_user"}
  <2>1. TypeOK /\ q.pc = "clear" /\ Running(o)
        BY DEF Clear, At, ActInv, Running, Steps
  <2>2. Knows(q)
        BY <2>1, Known
  <2> QED BY <2>1, <2>2 DEF Knows, Passers
<1>2. PICK c : /\ Outcome(o, c) /\ Same(q, c)
               /\ \/ c.pc = "ok" /\ rec = q.work /\ rec' = [q.work EXCEPT !.key = None]
                  \/ c.pc \in {"ok", "restore"} /\ UNCHANGED rec
      BY <1>1, ClearDoes
<1>3. /\ UNCHANGED <<conf, live, acct, files, managed, calls, edits>> /\ faults' \in 0..MaxFaults
      /\ torn' \in BOOLEAN /\ torn' = torn
      BY <1>1, ClearDoes DEF server, panel, bounds, TypeOK
<1>4. rec' \in Records
      BY <1>1, <1>2, <1>3, RecordTypes DEF TypeOK, Knows
<1>5. LET r == [q.work EXCEPT !.key = None] IN
        r.user = q.work.user /\ r.auth = q.work.auth /\ r.pass = q.work.pass /\ r.key = None
      BY <1>1, <1>2, <1>3, <1>4, Shapes DEF Knows
<1>6. /\ rec'.user = rec.user /\ rec'.pass = rec.pass /\ rec'.auth = rec.auth
      /\ rec' # rec => rec = q.work
      /\ c.pc = "restore" => rec' = rec
      BY <1>1, <1>2, <1>3, <1>4, <1>5
<1>7. Acts(c)
      BY <1>1, <1>2, <1>3, <1>4, <1>5, <1>6
      DEF Acts, Like, Same, Steps, Knows, Passers, Keyed, Setters, Written, Own, Given, Doing, Late
<1>8. Answers(q, c)
      BY <1>1, <1>2, <1>3, <1>4, <1>5, <1>6
      DEF Answers, Achieved, Knows, Doing
<1>9. WasInv /\ ~torn' => Stays(c)
      BY <1>1, <1>2, <1>3, <1>4, <1>5, <1>6
      DEF Stays, Like, Same, Steps, Knows, Before, Setters, Late, Keyed, Written
<1>10. ASSUME LastInv PROVE Lasts(c) /\ Spared
  <2>1. c.pc \in Steps => LastKey(c)'
        BY <1>1, <1>2, <1>3, <1>4, <1>5, <1>6, <1>10
        DEF Like, Same, Steps, Knows, Spares, LastKey, Enterable, Keyed, Written, Own
  <2>2. c.pc \in Steps => InHand(c)'
        BY <1>1, <1>2, <1>3, <1>4, <1>5, <1>6, <1>10
        DEF Like, Same, Steps, Knows, Spares, InHand, Relies, Written
  <2>3. Lasts(c)
        BY <1>1, <1>2, <1>3, <1>4, <1>5, <1>6, <1>10, <2>1, <2>2
        DEF Like, Same, Steps, Lasts, Knows, Spares, Own
  <2>4. Spared
        BY <1>1, <1>2, <1>3, <1>4, <1>5, <1>6, <1>10
        DEF Spared
  <2> QED BY <2>3, <2>4
<1>11. ASSUME WasInv, LastInv, WayInv, ~torn' PROVE Admits(c)
      BY <1>1, <1>2, <1>3, <1>4, <1>5, <1>6, <1>11
      DEF Like, Same, Steps, Admits, Knows, Safe, Way, Back, Door, Power, Setters, Late, Keyed,
          Written, Committable, With, Own
<1> QED BY <1>1, <1>2, <1>3, <1>4, <1>5, <1>6, <1>7, <1>8, <1>9, <1>10, <1>11, KeepsBy DEF TypeOK

\* switch_user records its target.
LEMMA SwitchKeeps == ASSUME ActInv, NEW o \in Ops, Switch(o) PROVE Keeps(o)
<1> SUFFICES ASSUME NEW q, q = op[o] PROVE Keeps(o)
      OBVIOUS
<1>1. /\ TypeOK /\ q.pc = "commit" /\ q.kind = "switch_user" /\ Running(o) /\ Knows(q)
      /\ q.kind \in {"switch_user"}
  <2>1. TypeOK /\ q.pc = "commit" /\ q.kind = "switch_user" /\ Running(o)
        BY DEF Switch, At, ActInv, Running, Steps
  <2>2. Knows(q)
        BY <2>1, Known
  <2> QED BY <2>1, <2>2 DEF Knows, Passers
<1>2. PICK c : /\ Outcome(o, c) /\ Same(q, c)
               /\ \/ c.pc = "ok" /\ rec = q.work /\ rec' = Target(q) /\ managed' = q.sudo
                  \/ c.pc = "failed" /\ UNCHANGED <<rec, managed>>
      BY <1>1, SwitchDoes
<1>3. /\ UNCHANGED <<conf, live, acct, files, calls, edits>> /\ faults' \in 0..MaxFaults
      /\ torn' \in BOOLEAN /\ torn' = torn
      BY <1>1, SwitchDoes DEF server, panel, bounds, TypeOK
<1>4. /\ rec' \in Records /\ managed' \in BOOLEAN
      BY <1>1, <1>2, <1>3, Fields, RecordTypes DEF TypeOK, Knows
<1>5. /\ Target(q).user = q.who /\ Target(q).key = q.key
      /\ Target(q).auth = (IF q.key # None THEN "key" ELSE "password")
      BY <1>1, <1>2, <1>3, <1>4, Shapes DEF Knows
<1>6. Acts(c)
      BY <1>1, <1>2, <1>3, <1>4, <1>5
      DEF Acts, Like, Same, Steps, Knows, Passers, Keyed, Setters, Written, Own, Given, Doing
<1>7. Answers(q, c)
      BY <1>1, <1>2, <1>3, <1>4, <1>5
      DEF Answers, Achieved, Target
<1>8. WasInv /\ ~torn' => Stays(c)
      BY <1>1, <1>2, <1>3, <1>4, <1>5
      DEF Stays, Like, Same, Steps, Knows, Before, Setters, Late, Keyed, Written
<1>9. ASSUME LastInv PROVE Lasts(c) /\ Spared
  <2>1. c.pc \in Steps => LastKey(c)'
        BY <1>1, <1>2, <1>3, <1>4, <1>5, <1>9
        DEF Like, Same, Steps, Knows, Spares, LastKey, Enterable, Keyed, Written
  <2>2. c.pc \in Steps => InHand(c)'
        BY <1>1, <1>2, <1>3, <1>4, <1>5, <1>9
        DEF Like, Same, Steps, Knows, Spares, InHand, Relies, Written
  <2>3. Lasts(c)
        BY <1>1, <1>2, <1>3, <1>4, <1>5, <1>9, <2>1, <2>2
        DEF Like, Same, Steps, Lasts, Knows, Spares
  <2>4. Spared
        BY <1>1, <1>2, <1>3, <1>4, <1>5, <1>9
        DEF Spared
  <2> QED BY <2>3, <2>4
<1>10. ASSUME WasInv, LastInv, WayInv, ~torn' PROVE Admits(c)
      BY <1>1, <1>2, <1>3, <1>4, <1>5, <1>10
      DEF Like, Same, Steps, Admits, Knows, Safe, Way, Back, Door, Power, Setters, Late, Keyed,
          Written, Committable, With
<1> QED BY <1>1, <1>2, <1>3, <1>4, <1>5, <1>6, <1>7, <1>8, <1>9, <1>10, KeepsBy DEF TypeOK

\* The other operations record what they proved.
LEMMA CommitKeeps == ASSUME ActInv, NEW o \in Ops, Commit(o) PROVE Keeps(o)
<1> SUFFICES ASSUME NEW q, q = op[o] PROVE Keeps(o)
      OBVIOUS
<1>1. /\ TypeOK /\ q.pc = "commit" /\ q.kind # "switch_user" /\ Running(o) /\ Knows(q)
      /\ q.kind \in {"change_password", "set_password_auth", "install_pubkey", "add_key_to_user", "select_user_key"}
  <2>1. TypeOK /\ q.pc = "commit" /\ q.kind # "switch_user" /\ Running(o)
        BY DEF Commit, At, ActInv, Running, Steps
  <2>2. Knows(q)
        BY <2>1, Known
  <2> QED BY <2>1, <2>2 DEF Knows, Passers
<1>2. PICK c : /\ Outcome(o, c) /\ Same(q, c)
               /\ \/ /\ c.pc = IF q.kind = "set_password_auth" THEN "reread" ELSE "ok"
                     /\ rec = q.work /\ rec' = Patched(q)
                  \/ /\ UNCHANGED rec
                     /\ c.pc \in IF q.kind = "change_password" THEN {"undo", "failed"}
                                 ELSE IF q.kind \in {"install_pubkey", "add_key_to_user"} THEN {"restore"} ELSE {"failed"}
      BY <1>1, CommitDoes
<1>3. /\ UNCHANGED <<conf, live, acct, files, managed, calls, edits>> /\ faults' \in 0..MaxFaults
      /\ torn' \in BOOLEAN /\ (torn => torn')
      /\ ~torn' /\ c.pc \in {"failed", "broken"} =>
           conf' = live' /\ (q.kind = "change_password" => acct'[q.who].pass = q.was.pass)
      BY <1>1, <1>2, CommitDoes, TearsMean DEF server, panel, bounds
<1>4. rec' \in Records
      BY <1>1, <1>2, <1>3, RecordTypes DEF TypeOK, Knows
<1>5. /\ Patched(q).user = q.work.user
      /\ Patched(q).key = (IF q.kind = "change_password" THEN q.work.key ELSE q.key)
      /\ Patched(q).pass = (IF q.kind = "change_password" THEN q.pass ELSE q.work.pass)
      /\ Patched(q).auth = (IF q.kind \in {"set_password_auth", "install_pubkey"} THEN "key" ELSE q.work.auth)
      BY <1>1, <1>2, <1>3, <1>4, Shapes DEF Knows
<1>6. /\ \/ rec' = rec /\ c.pc \notin {"ok", "reread"}
         \/ /\ rec = q.work /\ rec'.user = rec.user
            /\ q.kind = "change_password" =>
                 c.pc = "ok" /\ rec'.auth = rec.auth /\ rec'.pass = q.pass /\ rec'.key = rec.key
            /\ q.kind \in {"set_password_auth", "install_pubkey"} =>
                 rec'.auth = "key" /\ rec'.pass = rec.pass /\ rec'.key = q.key
            /\ q.kind \in {"add_key_to_user", "select_user_key"} =>
                 c.pc = "ok" /\ rec'.auth = rec.auth /\ rec'.pass = rec.pass /\ rec'.key = q.key
            /\ q.kind = "set_password_auth" <=> c.pc = "reread"
      BY <1>1, <1>2, <1>3, <1>4, <1>5
<1>7. Acts(c)
      BY <1>1, <1>2, <1>3, <1>4, <1>5, <1>6
      DEF Acts, Like, Same, Steps, Knows, Passers, Keyed, Setters, Written, Own, Given, Doing, Late
<1>8. Answers(q, c)
      BY <1>1, <1>2, <1>3, <1>4, <1>5, <1>6
      DEF Answers, Achieved, Knows, Doing, Given
<1>9. WasInv /\ ~torn' => Stays(c)
      BY <1>1, <1>2, <1>3, <1>4, <1>5, <1>6
      DEF Stays, Like, Same, Steps, Knows, Before, Setters, Late, Keyed, Written
<1>10. ASSUME LastInv PROVE Lasts(c) /\ Spared
  <2>1. c.pc \in Steps => LastKey(c)'
        BY <1>1, <1>2, <1>3, <1>4, <1>5, <1>6, <1>10
        DEF Like, Same, Steps, Knows, Spares, LastKey, Enterable, Keyed, Written
  <2>2. c.pc \in Steps => InHand(c)'
        BY <1>1, <1>2, <1>3, <1>4, <1>5, <1>6, <1>10
        DEF Like, Same, Steps, Knows, Spares, InHand, Relies, Written
  <2>3. Lasts(c)
        BY <1>1, <1>2, <1>3, <1>4, <1>5, <1>6, <1>10, <2>1, <2>2
        DEF Like, Same, Steps, Lasts, Knows, Spares
  <2>4. Spared
        BY <1>1, <1>2, <1>3, <1>4, <1>5, <1>6, <1>10
        DEF Spared
  <2> QED BY <2>3, <2>4
<1>11. ASSUME WasInv, LastInv, WayInv, ~torn' PROVE Admits(c)
  <2>1. q.kind # "change_password" => Way(live, acct[rec.user])
        BY <1>1, <1>2, <1>3, <1>4, <1>5, <1>6, <1>11 DEF Knows, Safe, Back
  <2>2. q.kind # "change_password" => Way(live, acct[rec.user])'
        BY <1>1, <1>2, <1>3, <1>4, <1>5, <1>6, <1>11, <2>1 DEF Knows, Own, Safe, Committable, Way,
               Door, Power
  <2>3. LET b == Back(q) IN
          /\ b.there = acct[rec.user].there /\ b.keys = acct[rec.user].keys /\ b.sudo = acct[rec.user].sudo
          /\ b.pass = IF q.kind = "change_password" /\ rec.user = q.who THEN q.work.pass ELSE acct[rec.user].pass
        BY <1>1, <1>2, <1>3, <1>4, <1>5, <1>6, <1>11, BackIs DEF Knows, TypeOK
  <2>4. q.kind = "change_password" => acct[q.who].pass = q.pass /\ q.pass # None /\ q.who = q.work.user
        BY <1>1, <1>2, <1>3, <1>4, <1>5, <1>6, <1>11, AccessAssumption DEF Knows, Own, Given, Doing
  <2>5. q.kind = "change_password" /\ c.pc = "ok" => Way(live, acct[rec.user])'
        BY <1>1, <1>2, <1>3, <1>4, <1>5, <1>6, <1>11, <2>3, <2>4 DEF Knows, Safe, Committable, Way,
               Door, Power
  <2>6. q.kind = "change_password" /\ c.pc = "failed" => LET b == Back(q)
            a == acct[rec.user]
        IN  /\ b.there = a.there /\ b.keys = a.keys /\ b.sudo = a.sudo
            /\ rec.auth = "password" \/ (managed /\ rec.user # Root) => b.pass = a.pass
        BY <1>1, <1>2, <1>3, <1>4, <1>5, <1>6, <1>11, <2>3, <2>4 DEF Knows, Safe
  <2>9. q.kind = "change_password" /\ c.pc = "failed" => Way(live, acct[rec.user])'
        BY <1>1, <1>2, <1>3, <1>4, <1>5, <1>6, <1>11, <2>6 DEF Knows, Safe, Way, Door, Power
  <2>7. q.kind = "change_password" /\ c.pc = "undo" => Safe(c)'
        BY <1>1, <1>2, <1>3, <1>4, <1>5, <1>6, <1>11 DEF Same, Like, Knows, Safe, Back, Way, Door,
               Power, Setters, Late, Keyed, Written
  <2>8. q.kind # "change_password" /\ c.pc \in Steps => Safe(c)'
        BY <1>1, <1>2, <1>3, <1>4, <1>5, <1>6, <1>11, <2>2 DEF Same, Like, Knows, Safe, Back,
               Setters, Late, Keyed, Written
  <2> QED BY <1>1, <1>2, <1>3, <1>4, <1>5, <1>6, <1>11, <2>2, <2>5, <2>7, <2>8, <2>9 DEF Admits,
                 Closed, Steps
<1> QED BY <1>1, <1>2, <1>3, <1>4, <1>5, <1>6, <1>7, <1>8, <1>9, <1>10, <1>11, KeepsBy DEF TypeOK

\* _create_local_key_pair.
LEMMA MakeKeeps == ASSUME ActInv, NEW o \in Ops, Make(o) PROVE Keeps(o)
<1> SUFFICES ASSUME NEW q, q = op[o] PROVE Keeps(o)
      OBVIOUS
<1>1. /\ TypeOK /\ q.pc = "make" /\ Running(o) /\ Knows(q)
      /\ q.kind \in {"add_key_to_user"}
  <2>1. TypeOK /\ q.pc = "make" /\ Running(o)
        BY DEF Make, At, ActInv, Running, Steps
  <2>2. Knows(q)
        BY <2>1, Known
  <2> QED BY <2>1, <2>2 DEF Knows, Passers
<1>2. PICK c : /\ Outcome(o, c) /\ c.kind = q.kind /\ c.who = q.who /\ c.pass = q.pass /\ c.on = q.on
               /\ c.work = q.work /\ c.blind = q.blind /\ c.was = q.was
               /\ \/ c.pc = "write" /\ c.key \in Fresh /\ files' = files \cup {c.key}
                  \/ c.pc = "failed" /\ UNCHANGED files
      BY <1>1, MakeDoes DEF Same, Like
<1>3. /\ UNCHANGED <<conf, live, acct, rec, managed, calls, edits>> /\ faults' \in 0..MaxFaults
      /\ torn' \in BOOLEAN /\ torn' = torn
      BY <1>1, MakeDoes DEF server, panel, bounds, TypeOK
<1>4. files' \subseteq Keys /\ files \subseteq files' /\ (c.pc = "write" => c.key \in files' \ files)
      BY <1>1, <1>2, <1>3 DEF TypeOK, Fresh
<1>5. Acts(c)
      BY <1>1, <1>2, <1>3, <1>4
      DEF Acts, Like, Same, Steps, Knows, Passers, Keyed, Setters, Written, Own, Given, Doing, Late
<1>6. Answers(q, c)
      BY <1>1, <1>2, <1>3, <1>4
      DEF Answers
<1>7. WasInv /\ ~torn' => Stays(c)
      BY <1>1, <1>2, <1>3, <1>4
      DEF Stays, Like, Same, Steps, Knows, Before, Setters, Late, Keyed, Written
<1>8. ASSUME LastInv PROVE Lasts(c) /\ Spared
  <2>1. c.pc \in Steps => LastKey(c)'
        BY <1>1, <1>2, <1>3, <1>4, <1>8
        DEF Like, Same, Steps, Knows, Spares, LastKey, Enterable, Keyed, Written
  <2>2. c.pc \in Steps => InHand(c)'
        BY <1>1, <1>2, <1>3, <1>4, <1>8
        DEF Like, Same, Steps, Knows, Spares, InHand, Relies, Written
  <2>3. Lasts(c)
        BY <1>1, <1>2, <1>3, <1>4, <1>8, <2>1, <2>2
        DEF Like, Same, Steps, Lasts, Knows, Spares
  <2>4. Spared
        BY <1>1, <1>2, <1>3, <1>4, <1>8
        DEF Spared
  <2> QED BY <2>3, <2>4
<1>9. ASSUME WasInv, LastInv, WayInv, ~torn' PROVE Admits(c)
      BY <1>1, <1>2, <1>3, <1>4, <1>9
      DEF Like, Same, Steps, Admits, Knows, Safe, Way, Back, Door, Power, Setters, Late, Keyed,
          Written, Committable, With
<1> QED BY <1>1, <1>2, <1>3, <1>4, <1>5, <1>6, <1>7, <1>8, <1>9, KeepsBy DEF TypeOK

-----------------------------------------------------------------------------
(* The steps that change the drop-in, and what sshd runs with.              *)

\* The directive in the drop-in.
LEMMA SettingKeeps == ASSUME ActInv, NEW o \in Ops, Setting(o) PROVE Keeps(o)
<1> SUFFICES ASSUME NEW q, q = op[o] PROVE Keeps(o)
      OBVIOUS
<1>1. /\ TypeOK /\ q.pc = "setting" /\ Running(o) /\ Knows(q)
      /\ q.kind \in Setters
  <2>1. TypeOK /\ q.pc = "setting" /\ Running(o)
        BY DEF Setting, At, ActInv, Running, Steps
  <2>2. Knows(q)
        BY <2>1, Known
  <2> QED BY <2>1, <2>2 DEF Knows, Passers
<1>2. PICK c : /\ Outcome(o, c) /\ Like(q, c)
               /\ \/ c.pc = "reload" /\ c.conf = conf /\ conf' = With(q, conf)
                  \/ c.pc = "failed" /\ UNCHANGED conf
                  \/ c.pc = "unset" /\ c.conf = conf /\ conf' \in {conf, With(q, conf)}
      BY <1>1, SettingDoes
<1>3. /\ UNCHANGED <<live, acct, rec, files, managed, calls, edits>> /\ faults' \in 0..MaxFaults
      /\ torn' \in BOOLEAN /\ (torn => torn')
      /\ ~torn' /\ c.pc \in {"failed", "broken"} =>
           conf' = live' /\ (q.kind = "change_password" => acct'[q.who].pass = q.was.pass)
      BY <1>1, <1>2, SettingDoes, TearsMean DEF server, panel, bounds
<1>4. conf' \in Settings
      BY <1>1, <1>2, <1>3, SettingTypes, Fields DEF TypeOK, Knows
<1>5. \A f : With(c, f) = With(q, f)
      BY <1>1, <1>2, <1>3, <1>4, Alike
<1>6. Acts(c)
      BY <1>1, <1>2, <1>3, <1>4, <1>5
      DEF Acts, Like, Same, Steps, Knows, Passers, Keyed, Setters, Written, Own, Given, Doing, Late
<1>7. Answers(q, c)
      BY <1>1, <1>2, <1>3, <1>4, <1>5
      DEF Answers, Like, Same
<1>8. ASSUME WasInv, ~torn' PROVE Stays(c)
  <2>1. conf = live \/ q.pc \in {"reload", "unset", "reload2"}
        BY <1>1, <1>2, <1>3, <1>4, <1>5, <1>8 DEF Knows, Before
  <2>2. c.pc \in Closed => conf' = live'
        BY <1>1, <1>2, <1>3, <1>4, <1>5, <1>8, <2>1 DEF Closed
  <2>3. q.kind \notin Keyed /\ q.kind \notin {"create_user", "change_password", "set_user_password"}
        BY <1>1, <1>2, <1>3, <1>4, <1>5, <1>8 DEF Setters, Keyed
  <2>4. c.pc \in Steps => Before(c)'
        BY <1>1, <1>2, <1>3, <1>4, <1>5, <1>8, <2>1, <2>3 DEF Like, Same, Knows, Before, Setters,
               Late, Steps
  <2> QED BY <2>2, <2>4 DEF Stays
<1>9. ASSUME LastInv PROVE Lasts(c) /\ Spared
  <2>1. c.pc \in Steps => LastKey(c)'
        BY <1>1, <1>2, <1>3, <1>4, <1>5, <1>9
        DEF Like, Same, Steps, Knows, Spares, LastKey, Enterable, Keyed, Written
  <2>2. c.pc \in Steps => InHand(c)'
        BY <1>1, <1>2, <1>3, <1>4, <1>5, <1>9
        DEF Like, Same, Steps, Knows, Spares, InHand, Relies, Written
  <2>3. Lasts(c)
        BY <1>1, <1>2, <1>3, <1>4, <1>5, <1>9, <2>1, <2>2
        DEF Like, Same, Steps, Lasts, Knows, Spares
  <2>4. Spared
        BY <1>1, <1>2, <1>3, <1>4, <1>5, <1>9
        DEF Spared
  <2> QED BY <2>3, <2>4
<1>10. ASSUME WasInv, LastInv, WayInv, ~torn' PROVE Admits(c)
  <2>1. Way(live, acct[rec.user]) /\ conf = live
        BY <1>1, <1>2, <1>3, <1>4, <1>5, <1>10 DEF Knows, Safe, Before, Back, Setters
  <2>2. /\ (q.kind = "set_root_login" /\ ~q.on => rec.user # Root)
        /\ (q.kind = "set_password_auth" /\ ~q.on => rec.auth = "key")
        BY <1>1, <1>2, <1>3, <1>4, <1>5, <1>10 DEF Knows, Spares, InHand, Relies, Safe
  <2>3. q.on \in BOOLEAN /\ conf \in Settings
        BY <1>1, <1>2, <1>3, <1>4, <1>5, <1>10, Fields DEF Knows, TypeOK
  <2>4. Door(With(q, conf), acct[rec.user], rec)
        BY <1>1, <1>2, <1>3, <1>4, <1>5, <1>10, <2>1, <2>2, <2>3 DEF With, Settings, Setters, Way, Door
  <2>5. Way(live, acct[rec.user])'
        BY <1>1, <1>2, <1>3, <1>4, <1>5, <1>10, <2>1 DEF Way, Door, Power
  <2>6. c.pc \in {"reload", "unset"} => \A s \in {c.conf, With(c, c.conf)} : Door(s, acct[rec.user], rec)'
        BY <1>1, <1>2, <1>3, <1>4, <1>5, <1>10, <2>1, <2>4 DEF Way, Door
  <2>7. c.pc \in {"reload", "unset"} => {conf', live'} \subseteq {c.conf, With(c, c.conf)}
        BY <1>1, <1>2, <1>3, <1>4, <1>5, <1>10, <2>1
  <2>8. c.pc \in Steps => Safe(c)'
        BY <1>1, <1>2, <1>3, <1>4, <1>5, <1>10, <2>2, <2>5, <2>6, <2>7 DEF Like, Safe, Back,
               Setters, Late, Keyed, Written, Steps, With
  <2> QED BY <2>5, <2>8 DEF Admits
<1> QED BY <1>1, <1>2, <1>3, <1>4, <1>5, <1>6, <1>7, <1>8, <1>9, <1>10, KeepsBy DEF TypeOK

\* _sshd_reload.
LEMMA ReloadKeeps == ASSUME ActInv, NEW o \in Ops, Reload(o) PROVE Keeps(o)
<1> SUFFICES ASSUME NEW q, q = op[o] PROVE Keeps(o)
      OBVIOUS
<1>1. /\ TypeOK /\ q.pc \in {"reload", "reload2"} /\ Running(o) /\ Knows(q)
      /\ q.kind \in Setters
  <2>1. TypeOK /\ q.pc \in {"reload", "reload2"} /\ Running(o)
        BY DEF Reload, At, ActInv, Running, Steps
  <2>2. Knows(q)
        BY <2>1, Known
  <2> QED BY <2>1, <2>2 DEF Knows, Passers
<1>2. PICK c : /\ Outcome(o, c) /\ With(c, c.conf) = With(q, q.conf) /\ Ends(q, c) /\ c.conf = q.conf
               /\ \/ q.pc = "reload" /\ c.pc = "confirm" /\ ((c.blind /\ live' = live) \/ live' = conf)
                  \/ q.pc = "reload" /\ c.pc = "unset" /\ live' \in {live, conf}
                  \/ q.pc = "reload2" /\ c.pc = "confirm2" /\ ((c.blind /\ live' = live) \/ live' = conf)
                  \/ q.pc = "reload2" /\ c.pc = "broken" /\ live' \in {live, conf}
      BY <1>1, ReloadDoes DEF Ends, Same, Like
<1>3. /\ UNCHANGED <<conf, acct, rec, files, managed, calls, edits>> /\ faults' \in 0..MaxFaults
      /\ torn' \in BOOLEAN /\ (torn => torn')
      /\ ~torn' /\ c.pc \in {"failed", "broken"} =>
           conf' = live' /\ (q.kind = "change_password" => acct'[q.who].pass = q.was.pass)
      BY <1>1, <1>2, ReloadDoes, TearsMean DEF server, panel, bounds
<1>4. live' \in Settings
      BY <1>1, <1>2, <1>3 DEF TypeOK
<1>5. \A f : With(c, f) = With(q, f)
      BY <1>2 DEF Ends, With
<1>6. Acts(c)
      BY <1>1, <1>2, <1>3, <1>4, <1>5
      DEF Acts, Ends, Steps, Knows, Passers, Keyed, Setters, Written, Own, Given, Doing, Late
<1>7. Answers(q, c)
      BY <1>1, <1>2, <1>3, <1>4, <1>5
      DEF Answers
<1>8. ASSUME WasInv, ~torn' PROVE Stays(c)
  <2>1. conf = live \/ q.pc \in {"reload", "unset", "reload2"}
        BY <1>1, <1>2, <1>3, <1>4, <1>5, <1>8 DEF Knows, Before
  <2>2. c.pc \in Closed => conf' = live'
        BY <1>1, <1>2, <1>3, <1>4, <1>5, <1>8, <2>1 DEF Closed
  <2>3. q.kind \notin Keyed /\ q.kind \notin {"create_user", "change_password", "set_user_password"}
        BY <1>1, <1>2, <1>3, <1>4, <1>5, <1>8 DEF Setters, Keyed
  <2>4. c.pc \in Steps => Before(c)'
        BY <1>1, <1>2, <1>3, <1>4, <1>5, <1>8, <2>1, <2>3 DEF Ends, Knows, Before, Setters,
               Late, Steps
  <2> QED BY <2>2, <2>4 DEF Stays
<1>9. ASSUME LastInv PROVE Lasts(c) /\ Spared
  <2>1. c.pc \in Steps => LastKey(c)'
        BY <1>1, <1>2, <1>3, <1>4, <1>5, <1>9
        DEF Ends, Steps, Knows, Spares, LastKey, Enterable, Keyed, Written
  <2>2. c.pc \in Steps => InHand(c)'
        BY <1>1, <1>2, <1>3, <1>4, <1>5, <1>9
        DEF Ends, Steps, Knows, Spares, InHand, Relies, Written
  <2>3. Lasts(c)
        BY <1>1, <1>2, <1>3, <1>4, <1>5, <1>9, <2>1, <2>2
        DEF Ends, Steps, Lasts, Knows, Spares
  <2>4. Spared
        BY <1>1, <1>2, <1>3, <1>4, <1>5, <1>9
        DEF Spared
  <2> QED BY <2>3, <2>4
<1>10. ASSUME WasInv, LastInv, WayInv, ~torn' PROVE Admits(c)
  <2>1. /\ Way(live, acct[rec.user])
        /\ (\A s \in {q.conf, With(q, q.conf)} : Door(s, acct[rec.user], rec))
        /\ {conf, live} \subseteq {q.conf, With(q, q.conf)}
        BY <1>1, <1>2, <1>3, <1>4, <1>5, <1>10 DEF Knows, Safe, Back, Setters, Late
  <2>2. Door(live, acct[rec.user], rec)'
        BY <1>1, <1>2, <1>3, <1>4, <1>5, <1>10, <2>1 DEF Way, Door
  <2>3. Way(live, acct[rec.user])'
        BY <1>1, <1>2, <1>3, <1>4, <1>5, <1>10, <2>1, <2>2 DEF Way, Power
  <2>4. /\ (\A s \in {c.conf, With(c, c.conf)} : Door(s, acct[rec.user], rec)')
        /\ {conf', live'} \subseteq {c.conf, With(c, c.conf)}
        BY <1>1, <1>2, <1>3, <1>4, <1>5, <1>10, <2>1 DEF Door
  <2>5. c.pc \in Steps => Safe(c)'
        BY <1>1, <1>2, <1>3, <1>4, <1>5, <1>10, <2>3, <2>4 DEF Ends, Knows, Safe, Back,
               Setters, Late, Keyed, Written, Steps, With
  <2> QED BY <2>3, <2>5 DEF Admits
<1> QED BY <1>1, <1>2, <1>3, <1>4, <1>5, <1>6, <1>7, <1>8, <1>9, <1>10, KeepsBy DEF TypeOK

\* The drop-in as the snapshot has it.
LEMMA UnsetKeeps == ASSUME ActInv, NEW o \in Ops, Unset(o) PROVE Keeps(o)
<1> SUFFICES ASSUME NEW q, q = op[o] PROVE Keeps(o)
      OBVIOUS
<1>1. /\ TypeOK /\ q.pc = "unset" /\ Running(o) /\ Knows(q)
      /\ q.kind \in Setters
  <2>1. TypeOK /\ q.pc = "unset" /\ Running(o)
        BY DEF Unset, At, ActInv, Running, Steps
  <2>2. Knows(q)
        BY <2>1, Known
  <2> QED BY <2>1, <2>2 DEF Knows, Passers
<1>2. PICK c : /\ Outcome(o, c) /\ Same(q, c)
               /\ \/ c.pc = "reload2" /\ conf' = q.conf
                  \/ c.pc = "broken" /\ conf' \in {conf, q.conf}
      BY <1>1, UnsetDoes
<1>3. /\ UNCHANGED <<live, acct, rec, files, managed, calls, edits>> /\ faults' \in 0..MaxFaults
      /\ torn' \in BOOLEAN /\ (torn => torn')
      /\ ~torn' /\ c.pc \in {"failed", "broken"} =>
           conf' = live' /\ (q.kind = "change_password" => acct'[q.who].pass = q.was.pass)
      BY <1>1, <1>2, UnsetDoes, TearsMean DEF server, panel, bounds
<1>4. conf' \in Settings
      BY <1>1, <1>2, <1>3, Fields DEF TypeOK, Knows
<1>5. \A f : With(c, f) = With(q, f)
      BY <1>1, <1>2, <1>3, <1>4, Alike DEF Same
<1>6. Acts(c)
      BY <1>1, <1>2, <1>3, <1>4, <1>5
      DEF Acts, Like, Same, Steps, Knows, Passers, Keyed, Setters, Written, Own, Given, Doing, Late
<1>7. Answers(q, c)
      BY <1>1, <1>2, <1>3, <1>4, <1>5
      DEF Answers, Like, Same
<1>8. ASSUME WasInv, ~torn' PROVE Stays(c)
  <2>1. conf = live \/ q.pc \in {"reload", "unset", "reload2"}
        BY <1>1, <1>2, <1>3, <1>4, <1>5, <1>8 DEF Knows, Before
  <2>2. c.pc \in Closed => conf' = live'
        BY <1>1, <1>2, <1>3, <1>4, <1>5, <1>8, <2>1 DEF Closed
  <2>3. q.kind \notin Keyed /\ q.kind \notin {"create_user", "change_password", "set_user_password"}
        BY <1>1, <1>2, <1>3, <1>4, <1>5, <1>8 DEF Setters, Keyed
  <2>4. c.pc \in Steps => Before(c)'
        BY <1>1, <1>2, <1>3, <1>4, <1>5, <1>8, <2>1, <2>3 DEF Like, Same, Knows, Before, Setters,
               Late, Steps
  <2> QED BY <2>2, <2>4 DEF Stays
<1>9. ASSUME LastInv PROVE Lasts(c) /\ Spared
  <2>1. c.pc \in Steps => LastKey(c)'
        BY <1>1, <1>2, <1>3, <1>4, <1>5, <1>9
        DEF Like, Same, Steps, Knows, Spares, LastKey, Enterable, Keyed, Written
  <2>2. c.pc \in Steps => InHand(c)'
        BY <1>1, <1>2, <1>3, <1>4, <1>5, <1>9
        DEF Like, Same, Steps, Knows, Spares, InHand, Relies, Written
  <2>3. Lasts(c)
        BY <1>1, <1>2, <1>3, <1>4, <1>5, <1>9, <2>1, <2>2
        DEF Like, Same, Steps, Lasts, Knows, Spares
  <2>4. Spared
        BY <1>1, <1>2, <1>3, <1>4, <1>5, <1>9
        DEF Spared
  <2> QED BY <2>3, <2>4
<1>10. ASSUME WasInv, LastInv, WayInv, ~torn' PROVE Admits(c)
  <2>1. /\ Way(live, acct[rec.user])
        /\ (\A s \in {q.conf, With(q, q.conf)} : Door(s, acct[rec.user], rec))
        /\ {conf, live} \subseteq {q.conf, With(q, q.conf)}
        BY <1>1, <1>2, <1>3, <1>4, <1>5, <1>10 DEF Knows, Safe, Back, Setters, Late
  <2>2. Door(live, acct[rec.user], rec)'
        BY <1>1, <1>2, <1>3, <1>4, <1>5, <1>10, <2>1 DEF Way, Door
  <2>3. Way(live, acct[rec.user])'
        BY <1>1, <1>2, <1>3, <1>4, <1>5, <1>10, <2>1, <2>2 DEF Way, Power
  <2>4. /\ (\A s \in {c.conf, With(c, c.conf)} : Door(s, acct[rec.user], rec)')
        /\ {conf', live'} \subseteq {c.conf, With(c, c.conf)}
        BY <1>1, <1>2, <1>3, <1>4, <1>5, <1>10, <2>1 DEF Same, Door
  <2>5. c.pc \in Steps => Safe(c)'
        BY <1>1, <1>2, <1>3, <1>4, <1>5, <1>10, <2>3, <2>4 DEF Same, Like, Knows, Safe, Back,
               Setters, Late, Keyed, Written, Steps, With
  <2> QED BY <2>3, <2>5 DEF Admits
<1> QED BY <1>1, <1>2, <1>3, <1>4, <1>5, <1>6, <1>7, <1>8, <1>9, <1>10, KeepsBy DEF TypeOK

-----------------------------------------------------------------------------
(* An operation begins.                                                     *)

LEMMA RequestIs ==
  ASSUME NEW kind, NEW whos, NEW keys, NEW passes, NEW ons, NEW q \in Request(kind, whos, keys, passes, ons)
  PROVE  q.kind = kind /\ q.who \in whos /\ q.key \in keys /\ q.pass \in passes /\ q.on \in ons
BY DEF Request

\* What a request asks for.
LEMMA RequestMeans ==
  ASSUME TypeOK, NEW q \in Requests
  PROVE  /\ q.kind \in Kinds \ {"none"} /\ q.who \in Users /\ q.key \in Keys \cup {None}
         /\ q.pass \in Passwords \cup {None} /\ q.on \in BOOLEAN
         /\ q.kind \in {"change_password", "set_password_auth", "install_pubkey", "select_user_key"} => q.who = rec.user
         /\ q.kind \in {"set_user_password", "revoke_sudo", "delete_user"} => q.who # rec.user
         /\ q.kind \in {"create_user", "revoke_sudo", "delete_user"} => q.who # Root
         /\ q.kind = "set_root_login" /\ ~q.on => rec.user # Root
         /\ q.kind \in {"change_password", "set_user_password"} => q.pass \in Passwords
         /\ q.kind \in {"install_pubkey", "select_user_key", "remove_key_from_user"} => q.key \in Keys
<1>1. /\ rec.user \in Users /\ rec.key \in Keys \cup {None} /\ files \subseteq Keys /\ Root \in Users
      /\ Self = {rec.user} /\ Others = Users \ {rec.user}
      BY AccessAssumption DEF TypeOK, Records, Self, Others
<1>2. \/ q \in Request("change_password", Self, {None}, Passwords, {FALSE})
      \/ q \in Request("set_user_password", Users \ Self, {None}, Passwords, {FALSE})
      \/ q \in Request("set_root_login", {Root}, {None}, {None}, IF Root \in Self THEN {TRUE} ELSE BOOLEAN)
      \/ q \in Request("set_password_auth", Self, {rec.key}, {None}, BOOLEAN)
      \/ q \in Request("install_pubkey", Self, Keys \ files, {None}, {FALSE})
      \/ q \in Request("install_pubkey", Self, files, {None}, BOOLEAN)
      \/ q \in Request("add_key_to_user", IF Fresh = {} THEN {} ELSE Users, {None}, {None}, {FALSE})
      \/ q \in Request("select_user_key", Self, files, {None}, {FALSE})
      \/ q \in Request("remove_key_from_user", Users, Keys, {None}, {FALSE})
      \/ q \in Request("switch_user", Users, files, Passwords \cup {None}, BOOLEAN)
      \/ q \in Request("switch_user", Users, {None}, Passwords, BOOLEAN)
      \/ q \in Request("create_user", Users \ {Root}, {None}, Passwords \cup {None}, BOOLEAN)
      \/ q \in Request("grant_sudo", Users \ {Root}, {None}, {None}, {FALSE})
      \/ q \in Request("revoke_sudo", Others \ {Root}, {None}, {None}, {FALSE})
      \/ q \in Request("delete_user", Others \ {Root}, {None}, {None}, BOOLEAN)
      BY DEF Requests
<1>3. \/ q.kind = "change_password" /\ q.who \in Self /\ q.key = None /\ q.pass \in Passwords /\ q.on = FALSE
      \/ q.kind = "set_user_password" /\ q.who \in Users \ Self /\ q.key = None /\ q.pass \in Passwords /\ q.on = FALSE
      \/ /\ q.kind = "set_root_login" /\ q.who = Root /\ q.key = None /\ q.pass = None
         /\ q.on \in IF Root \in Self THEN {TRUE} ELSE BOOLEAN
      \/ q.kind = "set_password_auth" /\ q.who \in Self /\ q.key = rec.key /\ q.pass = None /\ q.on \in BOOLEAN
      \/ q.kind = "install_pubkey" /\ q.who \in Self /\ q.key \in Keys /\ q.pass = None /\ q.on \in BOOLEAN
      \/ q.kind = "add_key_to_user" /\ q.who \in Users /\ q.key = None /\ q.pass = None /\ q.on = FALSE
      \/ q.kind = "select_user_key" /\ q.who \in Self /\ q.key \in Keys /\ q.pass = None /\ q.on = FALSE
      \/ q.kind = "remove_key_from_user" /\ q.who \in Users /\ q.key \in Keys /\ q.pass = None /\ q.on = FALSE
      \/ /\ q.kind = "switch_user" /\ q.who \in Users /\ q.key \in Keys \cup {None}
         /\ q.pass \in Passwords \cup {None} /\ q.on \in BOOLEAN
      \/ /\ q.kind = "create_user" /\ q.who \in Users \ {Root} /\ q.key = None
         /\ q.pass \in Passwords \cup {None} /\ q.on \in BOOLEAN
      \/ q.kind = "grant_sudo" /\ q.who \in Users \ {Root} /\ q.key = None /\ q.pass = None /\ q.on = FALSE
      \/ /\ q.kind \in {"revoke_sudo", "delete_user"} /\ q.who \in Others \ {Root} /\ q.key = None
         /\ q.pass = None /\ q.on \in BOOLEAN
      BY <1>1, <1>2 DEF Request
<1>4. q.kind \in Kinds \ {"none"}
      BY <1>3 DEF Kinds
<1> QED BY <1>1, <1>3, <1>4

LEMMA BeginKeeps ==
  ASSUME ActInv, NEW o \in Ops, Begin(o), ~MayOverlap
  PROVE  /\ ~Running(o) /\ AtRest /\ UNCHANGED <<conf, live, acct>>
         /\ ActInv'
         /\ WasInv => WasInv'
         /\ LastInv => LastInv'
         /\ WasInv /\ LastInv /\ WayInv => WayInv'
<1>1. /\ TypeOK /\ AtRest /\ ~Running(o) /\ calls' \in 0..MaxCalls
      /\ UNCHANGED <<conf, live, acct, rec, files, managed, torn, edits, faults>>
      BY AccessAssumption DEF Begin, server, panel, ActInv, TypeOK
<1> DEFINE w(q) == [conf |-> conf, there |-> acct[q.who].there, keys |-> acct[q.who].keys, pass |-> acct[q.who].pass]
           new(q) == [Blank EXCEPT !.pc = Entry(q), !.kind = q.kind, !.who = q.who, !.key = q.key,
                        !.pass = q.pass, !.on = q.on, !.work = rec, !.was = w(q)]
<1>2. PICK q \in Requests : Becomes(o, new(q))
      BY DEF Begin
<1>3. /\ Entry(q) \in {"probe", "reread", "connect"}
      /\ q.kind \in {"set_root_login", "delete_user"} => Entry(q) = "probe"
      /\ q.kind = "set_password_auth" => Entry(q) = IF q.on THEN "reread" ELSE "connect"
      /\ q.kind \notin {"set_root_login", "delete_user", "set_password_auth"} => Entry(q) = "connect"
      BY DEF Entry
<1>4. /\ q.kind \in Kinds \ {"none"} /\ q.who \in Users /\ q.key \in Keys \cup {None}
      /\ q.pass \in Passwords \cup {None} /\ q.on \in BOOLEAN
      BY <1>1, RequestMeans
<1>5. /\ w(q) \in [conf: Settings, there: BOOLEAN, keys: SUBSET Keys, pass: Passwords \cup {None}]
      /\ w(q).conf = conf /\ w(q).there = acct[q.who].there
      /\ w(q).keys = acct[q.who].keys /\ w(q).pass = acct[q.who].pass
      BY <1>1, <1>4, AccountFields DEF TypeOK
<1>6. Blank \in OpType /\ rec \in Records /\ Entry(q) \in Steps \cup Closed
      BY <1>1, <1>3, BlankTyped DEF Steps, TypeOK
<1> HIDE DEF w
<1>7. PICK c : /\ Outcome(o, c)
               /\ c.pc = Entry(q) /\ c.kind = q.kind /\ c.who = q.who /\ c.key = q.key /\ c.pass = q.pass
               /\ c.on = q.on /\ c.work = rec /\ c.was = w(q) /\ ~c.blind
  <2>1. /\ new(q) \in OpType /\ new(q).pc = Entry(q) /\ new(q).kind = q.kind /\ new(q).who = q.who
        /\ new(q).key = q.key /\ new(q).pass = q.pass /\ new(q).on = q.on /\ new(q).work = rec /\ new(q).was = w(q)
        BY <1>4, <1>5, <1>6 DEF OpType
  <2>2. new(q).blind = FALSE
        BY <1>6 DEF OpType, Blank
  <2> QED BY <1>2, <2>1, <2>2 DEF Outcome
<1> HIDE DEF new
<1>8. c.kind \in Passers[c.pc]
      BY <1>3, <1>4, <1>7 DEF Kinds, Passers, Setters
<1>9. /\ c.kind \in {"change_password", "set_password_auth", "install_pubkey", "select_user_key"} => c.who = rec.user
      /\ c.kind \in {"set_user_password", "revoke_sudo", "delete_user"} => c.who # rec.user
      /\ c.kind \in {"create_user", "revoke_sudo", "delete_user"} => c.who # Root
      /\ c.kind = "set_root_login" /\ ~c.on => rec.user # Root
      /\ c.kind \in {"change_password", "set_user_password"} => c.pass \in Passwords
      /\ c.kind \in {"install_pubkey", "select_user_key", "remove_key_from_user"} => c.key \in Keys
      BY <1>1, <1>7, RequestMeans
<1>10. Own(c) /\ Given(c)' /\ Doing(c)'
      BY <1>3, <1>7, <1>9 DEF Own, Given, Doing, Written, Keyed
<1>11. ActInv'
      BY <1>1, <1>7, <1>8, <1>10, ActBy DEF TypeOK
<1>12. c.pc \in Steps /\ c.pc \notin Closed
      BY <1>3, <1>7 DEF Steps, Closed
<1>13. ASSUME WasInv PROVE WasInv'
  <2>1. ~torn => Before(c)'
        BY <1>1, <1>3, <1>5, <1>7, <1>13 DEF WasInv, Before, Setters, Late, Keyed, Written
  <2> QED BY <1>1, <1>7, <1>12, <1>13, <2>1, WasBy
<1>14. ASSUME LastInv PROVE LastInv'
  <2>1. Spares(c)'
        BY <1>1, <1>3, <1>7, <1>9 DEF Spares, LastKey, InHand, Keyed, Written
  <2> QED BY <1>1, <1>7, <1>14, <2>1, LastBy DEF LastInv
<1>15. ASSUME WasInv, LastInv, WayInv PROVE WayInv'
  <2>1. ~torn => Way(live, acct[rec.user])'
        BY <1>1, <1>15 DEF WayInv, Way, Door, Power
  <2>2. ~torn => Safe(c)'
        BY <1>1, <1>3, <1>7, <2>1 DEF Safe, Back, Setters, Late, Keyed, Written
  <2> QED BY <1>1, <1>7, <1>12, <1>15, <2>2, WayBy
<1> QED BY <1>1, <1>11, <1>13, <1>14, <1>15

-----------------------------------------------------------------------------
(* The user beside the operations, and the end of the panel's process.      *)

\* What the next state inherits.
Inherits ==
  /\ ActInv'
  /\ WasInv => WasInv'
  /\ LastInv => LastInv' /\ Spared
  /\ WasInv /\ LastInv /\ WayInv => WayInv'

\* The record is edited.
LEMMA EditKeeps == ASSUME ActInv, Edit PROVE Inherits /\ UNCHANGED op
<1>1. /\ TypeOK /\ edits' \in 0..MaxEdits
      /\ UNCHANGED <<conf, live, acct, files, op, torn, calls, faults>>
      BY AccessAssumption DEF Edit, server, ActInv, TypeOK
<1>2. /\ rec' \in Records /\ Login(rec') /\ LoginUnder(conf, rec') /\ managed' = Sudo(rec')
      /\ \A o \in Ops : Running(o) => ~Relies(op[o], rec')
      BY DEF Edit
<1>3. ActInv'
      BY <1>1, <1>2 DEF ActInv, TypeOK, Alone, Running, Own, Given, Doing, Sudo
<1>4. WasInv => WasInv'
      BY <1>1 DEF WasInv, AtRest, Running, Before
<1>5. /\ rec'.user \in Users /\ acct[rec'.user].there /\ rec'.auth \in {"key", "password"}
      /\ rec'.auth = "key" => rec'.key \in files \cap acct[rec'.user].keys /\ rec'.key \in Keys
      /\ rec'.auth = "password" => live.pwd
      BY <1>1, <1>2 DEF Login, LoginUnder, Records, TypeOK
<1>6. ASSUME LastInv, NEW o \in Ops, Running(o), NEW q, q = op[o] PROVE Spares(q)'
  <2>1. Knows(q) /\ ~Relies(q, rec')
        BY <1>2, <1>6, Known
  <2>2. q.kind \in Keyed /\ q.pc \in {"write", "leave", "erase", "clear"} \cup Written => q.key # None
        BY <2>1, AccessAssumption DEF Knows, Passers, Given, Keyed, Written
  <2>3. InHand(q)'
        BY <1>1, <2>1, <2>2 DEF InHand, Relies, Keyed, Written
  <2>4. LastKey(q)'
    <3>1. Enterable(rec)'
          BY <1>1, <1>5 DEF Enterable
    <3>2. q.kind \in Keyed /\ q.pc \in Written \cup {"clear"} /\ rec'.user = q.who => live.pwd \/ q.keys # {}
          BY <1>5, <2>1, <2>2 DEF Knows, Doing, Relies, Keyed, Written
    <3>3. q.pc \in {"erase", "leave"} /\ rec'.user = q.who => live.pwd \/ ~(acct[q.who].keys \subseteq {q.key})
          BY <1>5, <2>1, <2>2 DEF Knows, Passers, Relies
    <3>4. LastKey(q)
          BY <1>6, <2>1 DEF Knows, Spares
    <3> QED BY <1>1, <3>1, <3>2, <3>3, <3>4 DEF LastKey, Enterable
  <2>5. q.pc \in {"fill", "userdel"} => q.who # rec'.user
        BY <2>1 DEF Knows, Passers, Relies
  <2> QED BY <1>1, <1>6, <2>1, <2>3, <2>4, <2>5 DEF Knows, Spares
<1>7. ASSUME LastInv PROVE LastInv' /\ Spared
  <2>1. ASSUME NEW o \in Ops, Running(o)' PROVE Spares(op[o])'
    <3>1. PICK q : q = op[o]
          OBVIOUS
    <3>2. Spares(q)' /\ op'[o] = q
          BY <1>1, <1>6, <1>7, <2>1, <3>1 DEF Running
    <3> QED BY <3>2 DEF Spares, LastKey, InHand, Enterable, Relies
  <2> QED BY <1>1, <1>5, <2>1 DEF LastInv, Spared
<1>8. /\ Door(live, acct[rec.user], rec)' /\ Door(conf, acct[rec.user], rec)' /\ (managed' => Power(acct[rec.user], rec)')
      /\ Way(live, acct[rec.user])'
      BY <1>1, <1>2 DEF Login, LoginUnder, Sudo, Door, Power, Way
<1>9. ASSUME WasInv, LastInv, WayInv, ~torn, NEW o \in Ops, Running(o), NEW q, q = op[o] PROVE Safe(q)'
  <2>1. Knows(q) /\ ~Relies(q, rec') /\ acct'[rec'.user] \in Accounts
        BY <1>1, <1>2, <1>5, <1>9, Known DEF TypeOK
  <2>2. Safe(q)
        BY <1>9, <2>1 DEF Knows
  <2>3. q.kind = "change_password" /\ q.pc \in {"verify", "commit", "undo"} /\ rec'.user = q.who =>
          /\ rec'.pass = q.work.pass
          /\ rec'.auth = "password" \/ (managed' /\ q.who # Root) => rec'.pass = q.pass
        BY <1>1, <1>8, <2>1 DEF Knows, Doing, Relies, Door, Power
  <2>4. Way(live, Back(q))'
        BY <1>5, <1>8, <2>1, <2>3, BackBecomes DEF Way, Door, Power
  <2>5. q.kind \in Setters /\ q.pc \in Late => \A s \in {q.conf, With(q, q.conf)} : Door(s, acct[rec.user], rec)'
    <3>1. q.kind = "set_root_login" => rec'.user # Root
          BY <2>1 DEF Relies
    <3>2. q.kind = "set_password_auth" => rec'.auth = "key"
          BY <1>5, <2>1 DEF Relies
    <3>3. q.conf \in Settings
          BY <2>1, Fields DEF Knows
    <3>4. q.kind = "set_root_login" => With(q, q.conf).pwd = q.conf.pwd
          BY <3>3 DEF With, Settings
    <3>5. q.kind = "set_password_auth" => With(q, q.conf).root = q.conf.root
          BY <3>3 DEF With, Settings
    <3>6. q.kind \in Setters /\ q.pc \in Late => live \in {q.conf, With(q, q.conf)}
          BY <2>2 DEF Safe
    <3> QED BY <1>1, <1>8, <3>1, <3>2, <3>4, <3>5, <3>6 DEF Setters, Door
  <2>6. q.kind \in Keyed /\ q.pc \in Written \cup {"clear"} /\ rec'.user = q.who /\ rec'.auth = "key"
             => rec'.key \in q.keys
        BY <1>5, <2>1, AccessAssumption DEF Knows, Doing, Relies, Keyed, Written
  <2>7. q.kind = "set_password_auth" => rec'.auth = "key"
        BY <1>5, <2>1 DEF Relies
  <2>8. q.pc = "erase" /\ rec'.user = q.who => rec'.key # q.key
        BY <2>1 DEF Knows, Passers, Relies
  <2>9. q.pc = "commit" => Committable(q)'
        BY <1>1, <2>2 DEF Safe, Committable, Door, Power, Patched, Target
  <2>10. q.pc = "leave" => Door(live, acct[q.work.user], [q.work EXCEPT !.auth = "password"])'
        BY <1>1, <2>2 DEF Safe, Door
  <2> QED BY <1>1, <2>2, <2>3, <2>4, <2>5, <2>6, <2>7, <2>8, <2>9, <2>10 DEF Safe, With
<1>10. ASSUME WasInv, LastInv, WayInv PROVE WayInv'
  <2>1. ASSUME ~torn', NEW o \in Ops, Running(o)' PROVE Safe(op[o])'
    <3>1. PICK q : q = op[o]
          OBVIOUS
    <3>2. Safe(q)' /\ op'[o] = q
          BY <1>1, <1>9, <1>10, <2>1, <3>1 DEF Running
    <3> QED BY <3>2 DEF Safe, Committable, Way, Door, Power, Back, With, Patched, Target
  <2> QED BY <1>8, <2>1 DEF WayInv
<1> QED BY <1>1, <1>3, <1>4, <1>7, <1>10 DEF Inherits

\* A key pair is deleted.
LEMMA DropKeyKeeps == ASSUME ActInv, DropKey PROVE Inherits /\ UNCHANGED op
<1>1. /\ TypeOK /\ edits' \in 0..MaxEdits
      /\ UNCHANGED <<conf, live, acct, rec, managed, op, torn, calls, faults>>
      BY AccessAssumption DEF DropKey, server, ActInv, TypeOK
<1>2. PICK k \in files : /\ ~(rec.auth = "key" /\ rec.key = k)
                         /\ \A o \in Ops : Running(o) => k \notin {op[o].key, op[o].work.key}
                         /\ files' = files \ {k}
      BY DEF DropKey
<1>3. ActInv'
      BY <1>1, <1>2 DEF ActInv, TypeOK, Alone, Running, Own, Given, Doing
<1>4. WasInv => WasInv'
      BY <1>1 DEF WasInv, AtRest, Running, Before
<1>5. LastInv => LastInv' /\ Spared
      BY <1>1, <1>2 DEF LastInv, Spared, Running, Spares, LastKey, InHand, Enterable, Relies
<1>6. ASSUME WayInv, ~torn, NEW o \in Ops, Running(o), NEW q, q = op[o] PROVE Safe(q)'
  <2>1. Knows(q) /\ Safe(q) /\ k \notin {q.key, q.work.key}
        BY <1>2, <1>6, Known DEF Knows
  <2>2. Way(live, Back(q))' /\ Back(q)' = Back(q)
        BY <1>1, <1>2, <2>1 DEF Safe, Way, Door, Power, Back
  <2>3. (\A s \in {q.conf, With(q, q.conf)} : Door(s, acct[rec.user], rec))
          => \A s \in {q.conf, With(q, q.conf)} : Door(s, acct[rec.user], rec)'
        BY <1>1, <1>2 DEF Door
  <2>4. q.pc = "commit" => /\ q.kind \in {"install_pubkey", "set_password_auth", "change_password"} =>
                                Patched(q).key \in {q.key, q.work.key}
                           /\ Target(q).key = q.key
        BY <2>1, Shapes DEF Knows
  <2>5. q.pc = "commit" => Committable(q)'
        BY <1>1, <1>2, <2>1, <2>4 DEF Safe, Committable, Door, Power, Patched, Target
  <2>6. q.pc = "leave" => Door(live, acct[q.work.user], [q.work EXCEPT !.auth = "password"])'
    <3>1. [q.work EXCEPT !.auth = "password"].auth = "password"
          BY <2>1, Shapes DEF Knows
    <3> QED BY <1>1, <2>1, <3>1 DEF Safe, Door
  <2> QED BY <1>1, <2>1, <2>2, <2>3, <2>5, <2>6 DEF Safe, With
<1>7. ASSUME WayInv PROVE WayInv'
  <2>1. ASSUME ~torn', NEW o \in Ops, Running(o)' PROVE Safe(op[o])'
    <3>1. PICK q : q = op[o]
          OBVIOUS
    <3>2. Safe(q)' /\ op'[o] = q
          BY <1>1, <1>6, <1>7, <2>1, <3>1 DEF Running
    <3> QED BY <3>2 DEF Safe, Committable, Way, Door, Power, Back, With, Patched, Target
  <2>2. ~torn' /\ AtRest' => Way(live, acct[rec.user])'
        BY <1>1, <1>2, <1>7 DEF WayInv, AtRest, Running, Way, Door, Power
  <2> QED BY <2>1, <2>2 DEF WayInv
<1> QED BY <1>1, <1>3, <1>4, <1>5, <1>7 DEF Inherits

\* The panel's process ends.
LEMMA PanelDiesKeeps == ASSUME ActInv, PanelDies PROVE Inherits /\ \A o \in Ops : Running(o) => op'[o].pc = "dead"
<1>1. /\ TypeOK /\ faults' \in 0..MaxFaults /\ ~AtRest
      /\ UNCHANGED <<conf, live, acct, rec, files, managed, calls, edits>>
      BY FaultsBound DEF PanelDies, server, panel, bounds, ActInv, TypeOK
<1>2. /\ torn' \in BOOLEAN /\ (torn => torn')
      /\ ~torn' => /\ conf = live
                   /\ \A o \in Ops : op[o].kind = "change_password" => op[o].pc \notin {"verify", "commit", "undo"}
      BY <1>1 DEF PanelDies, TypeOK
<1> DEFINE d == [Blank EXCEPT !.pc = "dead"]
<1>3. d \in OpType /\ d.pc = "dead"
      BY BlankTyped, Names DEF Blank
<1> HIDE DEF d
<1>4. op' = [o \in Ops |-> IF Running(o) THEN d ELSE op[o]]
      BY DEF PanelDies, d
<1>5. op' \in [Ops -> OpType] /\ \A o \in Ops : op'[o] = IF Running(o) THEN d ELSE op[o]
      BY <1>1, <1>3, <1>4 DEF TypeOK
<1>6. AtRest' /\ \A o \in Ops : ~Running(o)' /\ (Running(o) => op'[o].pc = "dead")
      BY <1>3, <1>5 DEF AtRest, Running, Steps
<1>7. ActInv'
      BY <1>1, <1>2, <1>5, <1>6 DEF ActInv, TypeOK, Alone
<1>8. WasInv => WasInv'
      BY <1>1, <1>2, <1>6 DEF WasInv
<1>9. LastInv => LastInv' /\ Spared
      BY <1>1, <1>6 DEF LastInv, Spared
<1>10. ASSUME WayInv PROVE WayInv'
  <2>1. PICK o \in Ops : Running(o)
        BY <1>1 DEF AtRest
  <2>2. ~torn' => Way(live, acct[rec.user])
        BY <1>2, <1>10, <2>1 DEF WayInv, Safe, Back
  <2> QED BY <1>1, <1>6, <2>2 DEF WayInv, Way, Door, Power
<1> QED BY <1>6, <1>7, <1>8, <1>9, <1>10 DEF Inherits

-----------------------------------------------------------------------------
(* Every step, and the theorems.                                            *)

True(o, q) ==
  /\ op'[o].pc = "ok" => op'[o].blind \/ Achieved(q)'
  /\ WasInv /\ op'[o].pc = "restored" => torn' \/ Undone(q)'

LEMMA OneKeeps ==
  ASSUME ActInv, NEW o \in Ops, Keeps(o)
  PROVE  Inherits /\ \A p \in Ops : \A q \in {op[p]} : Running(p) => True(p, q)
BY DEF Keeps, Inherits, True, ActInv, Alone

LEMMA StepKeeps ==
  ASSUME ActInv, [Next]_vars, ~MayOverlap
  PROVE  Inherits /\ \A p \in Ops : \A q \in {op[p]} : Running(p) => True(p, q)
<1>1. CASE UNCHANGED vars
  <2>1. UNCHANGED <<conf, live, acct, rec, files, managed, op, torn, calls, edits, faults>>
        BY <1>1 DEF vars, server, panel, bounds
  <2>2. ActInv'
        BY <2>1 DEF ActInv, TypeOK, Alone, Running, Own, Given, Doing, With
  <2>3. WasInv => WasInv'
        BY <2>1 DEF WasInv, AtRest, Running, Before
  <2>4. LastInv => LastInv' /\ Spared
        BY <2>1 DEF LastInv, Spared, Running, Spares, LastKey, InHand, Enterable, Relies
  <2>5. ASSUME WayInv PROVE WayInv'
    <3>1. ASSUME ~torn, NEW o \in Ops, Running(o) PROVE Safe(op[o])'
      <4>1. Safe(op[o])
            BY <2>5, <3>1 DEF WayInv
      <4> QED BY <2>1, <4>1 DEF Safe, Committable, Way, Door, Power, Back, With, Patched, Target
    <3>2. ~torn /\ AtRest => Way(live, acct[rec.user])'
          BY <2>1, <2>5 DEF WayInv, Way, Door, Power
    <3> QED BY <2>1, <3>1, <3>2 DEF WayInv, AtRest, Running
  <2>6. \A p \in Ops : Running(p) => op'[p].pc \notin {"ok", "restored"}
        BY <2>1 DEF Running, Steps
  <2> QED BY <2>2, <2>3, <2>4, <2>5, <2>6 DEF Inherits, True
<1>2. CASE \E o \in Ops : Begin(o)
  <2>1. PICK o \in Ops : Begin(o)
        BY <1>2
  <2>2. AtRest /\ Inherits
        BY <2>1, BeginKeeps DEF Inherits, Spared
  <2> QED BY <2>2 DEF AtRest
<1>3. CASE \E o \in Ops : Connect(o) \/ Probe(o) \/ Check(o) \/ Verify(o) \/ Prove(o) \/ Try(o)
                          \/ Reread(o) \/ Enter(o) \/ Confirm(o)
      BY <1>3, OneKeeps, ConnectKeeps, ProbeKeeps, CheckKeeps, VerifyKeeps, ProveKeeps, TryKeeps,
         RereadKeeps, EnterKeeps, ConfirmKeeps
<1>4. CASE \E o \in Ops : Change(o) \/ Undo(o) \/ Write(o) \/ Restore(o) \/ Erase(o)
                          \/ Useradd(o) \/ Fill(o) \/ Userdel(o) \/ Alter(o)
      BY <1>4, OneKeeps, ChangeKeeps, UndoKeeps, WriteKeeps, RestoreKeeps, EraseKeeps,
         UseraddKeeps, FillKeeps, UserdelKeeps, AlterKeeps
<1>5. CASE \E o \in Ops : Leave(o) \/ Clear(o) \/ Switch(o) \/ Commit(o) \/ Make(o)
                          \/ Setting(o) \/ Reload(o) \/ Unset(o)
      BY <1>5, OneKeeps, LeaveKeeps, ClearKeeps, SwitchKeeps, CommitKeeps, MakeKeeps,
         SettingKeeps, ReloadKeeps, UnsetKeeps
<1>6. CASE Edit \/ DropKey
  <2>1. Inherits /\ op' = op
        BY <1>6, EditKeeps, DropKeyKeeps
  <2>2. \A p \in Ops : Running(p) => op'[p].pc \notin {"ok", "restored"}
        BY <2>1 DEF Running, Steps
  <2> QED BY <2>1, <2>2 DEF True
<1>7. CASE PanelDies
      BY <1>7, PanelDiesKeeps DEF True
<1> QED BY <1>1, <1>2, <1>3, <1>4, <1>5, <1>6, <1>7 DEF Next

\* How it starts.
LEMMA InitActs == Init => ActInv /\ WasInv
<1> SUFFICES ASSUME Init PROVE ActInv /\ WasInv
    OBVIOUS
<1>1. op = [o \in Ops |-> Blank] /\ torn = FALSE /\ conf = live /\ calls = 0 /\ edits = 0 /\ faults = 0
      BY DEF Init
<1>2. Blank \in OpType /\ Blank.pc = "idle"
      BY BlankTyped DEF Blank
<1>3. \A o \in Ops : ~Running(o)
      BY <1>1, <1>2 DEF Running, Steps
<1>4. conf \in Settings /\ acct \in [Users -> Accounts] /\ rec \in Records /\ files \subseteq Keys
      BY StartAssumption DEF Init
<1>5. managed \in BOOLEAN
  <2>1. PICK s \in Starts : rec = s.rec /\ managed = Sudo(s.rec)
        BY DEF Init
  <2> QED BY <1>4, <2>1 DEF Sudo, Accounts, Records
<1>6. 0 \in 0..MaxCalls /\ 0 \in 0..MaxEdits /\ 0 \in 0..MaxFaults
      BY AccessAssumption
<1> QED BY <1>1, <1>2, <1>3, <1>4, <1>5, <1>6 DEF ActInv, TypeOK, Alone, WasInv

LEMMA InitEnters == Init /\ Login(rec) => LastInv /\ WayInv
<1> SUFFICES ASSUME Init, Login(rec) PROVE LastInv /\ WayInv
    OBVIOUS
<1>1. \A o \in Ops : ~Running(o)
      BY DEF Init, Running, Steps, Blank
<1>2. managed => Power(acct[rec.user], rec)
      BY DEF Init, Sudo, Power
<1> QED BY <1>1, <1>2 DEF LastInv, WayInv, Way, Door, Login, LoginUnder

\* Whatever one operation after another does: every variable keeps its type
\* (the fields of an operation under way among them).
THEOREM AccessTypes == ASSUME ~MayOverlap PROVE Spec => []TypeOK
<1>1. Init => ActInv
      BY InitActs
<1>2. ActInv /\ [Next]_vars => ActInv'
      BY StepKeeps DEF Inherits
<1>3. ActInv => TypeOK
      BY DEF ActInv
<1> QED BY <1>1, <1>2, <1>3, PTL DEF Spec

\* An operation that answers with success did what was asked, and one that answers
\* that the former state is back left it so: for operations one after another,
\* and whatever each of them finds (_undo_setting, _restore_authorized_keys and
\* the success messages of ssh_access.py).  The exception, a failed command that
\* it took for an answer (blind), is in the statement: _sudo_privilege_listing_ok
\* and _sshd_reload do that.
THEOREM TrueAnswers == ASSUME ~MayOverlap PROVE Spec => AnswersAreTrue
<1>1. Init => ActInv /\ WasInv
      BY InitActs
<1>2. ActInv /\ WasInv /\ [Next]_vars => ActInv' /\ WasInv'
      BY StepKeeps DEF Inherits
<1>3. ActInv /\ WasInv /\ [Next]_vars =>
        [\A o \in Ops : \A q \in {op[o]} : Running(o) =>
           /\ op'[o].pc = "ok" => op'[o].blind \/ Achieved(q)'
           /\ op'[o].pc = "restored" => torn' \/ Undone(q)']_vars
      BY StepKeeps DEF True
<1> QED BY <1>1, <1>2, <1>3, PTL DEF Spec, AnswersAreTrue

\* From a server the panel can enter: while sshd takes no passwords, no step of
\* one operation after another takes the last key of root or of the panel's account
\* (remove_key_from_user's check, and every undoing of an append).
THEOREM LastKeyKept == ASSUME ~MayOverlap PROVE Spec /\ Login(rec) => LastKeyStays
<1>1. Init /\ Login(rec) => ActInv /\ LastInv
      BY InitActs, InitEnters
<1>2. ActInv /\ LastInv /\ [Next]_vars => ActInv' /\ LastInv'
      BY StepKeeps DEF Inherits
<1>3. ActInv /\ LastInv /\ [Next]_vars =>
        [~live.pwd => \A u \in {Root, rec.user} :
           acct[u].there /\ acct[u].keys # {} => acct'[u].keys # {}]_vars
      BY StepKeeps DEF Inherits, Spared
<1> QED BY <1>1, <1>2, <1>3, PTL DEF Spec, LastKeyStays

\* From a server the panel can enter: after any operations one after another, with
\* any upsets and edits, the recorded route still enters it, now and after sshd
\* reads its configuration again, with sudo where the panel had it
\* (the opening principle of ssh_access.py).  Until one gave up with its work half
\* done, or ended on a reload whose failure it took for done (torn).
THEOREM RouteKept == ASSUME ~MayOverlap PROVE Spec /\ Login(rec) => []RouteWorks
<1>1. Init /\ Login(rec) => ActInv /\ WasInv /\ LastInv /\ WayInv
      BY InitActs, InitEnters
<1>2. ActInv /\ WasInv /\ LastInv /\ WayInv /\ [Next]_vars => ActInv' /\ WasInv' /\ LastInv' /\ WayInv'
      BY StepKeeps DEF Inherits
<1>3. ActInv /\ WasInv /\ LastInv /\ WayInv => RouteWorks
      BY DEF WasInv, WayInv, Way, Door, Power, RouteWorks, Login, LoginUnder, Sudo
<1> QED BY <1>1, <1>2, <1>3, PTL DEF Spec
=============================================================================
