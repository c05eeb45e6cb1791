--------------------------- MODULE FirewallOverlap ---------------------------
(***************************************************************************)
(* Two requests for the firewalls of one server, step by step in any order: *)
(* no lock in core/quick_setup keeps them apart, and the web routes run     *)
(* each in a thread of its own.  The first has the variables op, ssh, moved *)
(* and overlooked; the server and the bounds are common.                    *)
(***************************************************************************)
EXTENDS MCFirewallSwitch

VARIABLES op2, ssh2, moved2, overlooked2

Second == INSTANCE FirewallMigrate
            WITH op <- op2, ssh <- ssh2, moved <- moved2, overlooked <- overlooked2

both == <<vars, op2, ssh2, moved2, overlooked2>>

\* A reboot ends the sessions of both.  The second is a switch; the ports others
\* edit are not kept for it: the instance has no edits.
FirstMoves ==
  Next /\ op'.pc # "idle" /\ ssh2' = (ssh2 /\ ~Reboot) /\ UNCHANGED <<op2, moved2, overlooked2>>
SecondMoves ==
  Second!Next /\ op2'.pc # "idle" /\ ssh' = (ssh /\ ~Second!Reboot) /\ UNCHANGED <<op, moved, overlooked>>

\* What a call would do to a table that the other has removed is left out: it fails.
Existing == \A b \in Backends : fw'[b].on => fw'[b].have

SpecBoth == Init /\ Second!Init /\ [][(FirstMoves \/ SecondMoves) /\ Existing]_both
=============================================================================
