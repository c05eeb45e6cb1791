-------------------------- MODULE MCFirewallSwitch --------------------------
EXTENDS FirewallMigrate, TLC

Absent == [have |-> FALSE, on |-> FALSE, rules |-> {}, boot |-> FALSE,
           saved |-> {}, file |-> "none", named |-> FALSE]
With(on, rules, file) == [have |-> TRUE, on |-> on, rules |-> rules, boot |-> on,
                          saved |-> rules, file |-> file, named |-> file # "none"]
Both == {22, 80}
\* One active firewall or none, next to inactive ones that were configured.
MCFirewalls ==
  {("ufw" :> With(TRUE, {22, 80}, "none")) @@ ("firewalld" :> f) @@ ("nftables" :> n) :
     f \in {Absent, With(FALSE, {22, 443}, "none")},
     n \in {Absent, With(FALSE, {22, 443}, "bypass")}}
  \cup
  {("ufw" :> With(FALSE, {443}, "none")) @@ ("firewalld" :> f) @@ ("nftables" :> n) :
     f \in {With(TRUE, {22, 80}, "none"), With(FALSE, {22}, "none")},
     n \in {Absent, With(FALSE, {22}, "bypass")}}
MCNftables ==
  {("ufw" :> With(FALSE, {22}, "none")) @@ ("firewalld" :> Absent)
     @@ ("nftables" :> With(TRUE, {22, 80}, "on"))}
\* A rule that cannot be carried over exactly (443 with Ambiguous = {443}).
MCUnclear ==
  {("ufw" :> With(TRUE, {22, 443}, "none")) @@ ("firewalld" :> Absent) @@ ("nftables" :> Absent)}
MCAll == MCFirewalls \cup MCNftables \cup MCUnclear
=============================================================================
