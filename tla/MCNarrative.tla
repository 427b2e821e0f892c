----------------------------- MODULE MCNarrative -----------------------------
(* Small instances of Narrative. *)
EXTENDS Narrative, TLC

CONSTANTS f1, a, t1, t2

Symmetry == Permutations({t1, t2})

=============================================================================
