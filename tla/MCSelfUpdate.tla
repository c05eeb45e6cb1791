---------------------------- MODULE MCSelfUpdate ----------------------------
(* Three paths: one only the new version ships, "core", one only the old.   *)
EXTENDS SelfUpdate

CONSTANTS c1

MCClicks == {c1}
MCOldHas == {2, 3}
MCNewHas == {1, 2}
=============================================================================
