---------------------------- MODULE MCPreparedRuns ----------------------------
(***************************************************************************)
(* PreparedRuns for TLC: projects, keys and values are interchangeable.    *)
(***************************************************************************)
EXTENDS PreparedRuns, TLC

Symmetry == Permutations(Projects) \cup Permutations(Keys) \cup Permutations(Values)
=============================================================================
