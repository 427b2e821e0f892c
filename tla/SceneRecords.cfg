\* Two records with two revisions each, two requests beside decisions.
SPECIFICATION Spec
CONSTANTS
    r1 = r1
    r2 = r2
    q1 = q1
    q2 = q2
    Records = {r1, r2}
    Positions = {1, 2}
    Requests = {q1, q2}
    MaxRevision = 2
INVARIANTS CommittedLineage SnapshotIsTheList
PROPERTY ImplementsAcceptedScenes
SYMMETRY Symmetric
CHECK_DEADLOCK FALSE
