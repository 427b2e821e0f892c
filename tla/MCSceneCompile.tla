--------------------------- MODULE MCSceneCompile ---------------------------
\* Model values and symmetry of the instances of SceneCompile.
EXTENDS SceneCompile, TLC

CONSTANTS s1, s2, r1, r2, q1, q2

Revisions == r1 :> 2 @@ r2 :> 1

Symmetric == Permutations({s1, s2}) \cup Permutations({q1, q2})

=============================================================================
