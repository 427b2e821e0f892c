--------------------------- MODULE MCSceneRecords ---------------------------
\* Model values and symmetry of the instance of SceneRecords.
EXTENDS SceneRecords, TLC

CONSTANTS r1, r2, q1, q2

Symmetric == Permutations({r1, r2}) \cup Permutations({q1, q2})

=============================================================================
