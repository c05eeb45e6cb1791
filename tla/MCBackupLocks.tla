--------------------------- MODULE MCBackupLocks ---------------------------
(* Two backups of one target and the restore of Bot4VPS itself, begun in   *)
(* the panel; one of the backups belongs to a console.                     *)
EXTENDS SelfRestore, TLC

CONSTANTS b1, b2, r1, here, elsewhere, panel, cli

MCBackups == {b1, b2}
MCRestores == {r1}
MCTargets == {here, elsewhere}
MCTargetOf == b1 :> here @@ b2 :> here @@ r1 :> elsewhere
MCProcs == {panel, cli}
MCHomeOf == b1 :> panel @@ b2 :> cli @@ r1 :> panel

=============================================================================
