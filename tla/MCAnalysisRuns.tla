--------------------------- MODULE MCAnalysisRuns ---------------------------
(* Small instances of AnalysisRuns. *)
EXTENDS AnalysisRuns, TLC

CONSTANTS r1, r2, a1, a2, a3, x, y

Symmetry == Permutations({r1, r2}) \cup Permutations({a1, a2, a3}) \cup Permutations({x, y})

=============================================================================
