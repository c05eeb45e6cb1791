----------------------------- MODULE MCRestore -----------------------------
EXTENDS Restore

\* dx is in the archive, dy lies beside it, ez in a directory of its own.
MCPaths == {"dx", "dy", "ez"}
MCTops == {"d", "e"}
MCTop == [p \in MCPaths |-> IF p = "ez" THEN "e" ELSE "d"]
MCArchive == {"dx"}
=============================================================================
