---------------------------- MODULE MCSshAccess ----------------------------
EXTENDS SshAccess, TLC

CONSTANTS ann, root, k1, k2, p1, p2, none

\* Situations the panel may find: it enters as root or as ann, by password or by
\* key; ann has sudo or not, root has a key or not; three settings of sshd.
MCSettings == {[root |-> "yes", pwd |-> TRUE], [root |-> "prohibit-password", pwd |-> TRUE],
               [root |-> "no", pwd |-> FALSE]}
MCAccounts ==
  {(root :> [there |-> TRUE, pass |-> p1, keys |-> rk, sudo |-> TRUE]) @@
   (ann :> [there |-> TRUE, pass |-> p2, keys |-> ak, sudo |-> s]) :
      rk \in {{}, {k1}}, ak \in {{}, {k2}}, s \in BOOLEAN}
MCRecords ==
  {[user |-> root, auth |-> "password", pass |-> p1, key |-> none],
   [user |-> root, auth |-> "key", pass |-> none, key |-> k1],
   [user |-> ann, auth |-> "password", pass |-> p2, key |-> none],
   [user |-> ann, auth |-> "key", pass |-> p2, key |-> k2]}
Enters(s) ==
  LET r == s.rec
      a == s.acct[r.user]
  IN  IF r.auth = "key" THEN r.key \in s.files \cap a.keys /\ (r.user = root => s.sshd.root # "no")
      ELSE s.sshd.pwd /\ r.pass = a.pass /\ (r.user = root => s.sshd.root = "yes")
MCStarts ==
  {s \in [sshd: MCSettings, acct: MCAccounts, rec: MCRecords, files: {{k1}, {k2}}] : Enters(s)}
=============================================================================
