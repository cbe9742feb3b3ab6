-------------------------- MODULE MCSourceWatcher --------------------------
(* A source directory with a file g and a directory d, in which there is a file f. *)
EXTENDS SourceWatcher

CONSTANTS root, d, f, g

MCPaths == {root, d, f, g}
MCKinds ==
  [p \in MCPaths |-> IF p = f THEN {"file"} ELSE IF p = g THEN {"file", "directory"}
                     ELSE {"directory"}]
MCParent == [p \in {d, f, g} |-> IF p = f THEN d ELSE root]
=============================================================================
