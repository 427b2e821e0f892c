\* Two records exchange two scene numbers beside two parses.
SPECIFICATION Spec
CONSTANTS
    s1 = s1
    s2 = s2
    r1 = r1
    r2 = r2
    q1 = q1
    q2 = q2
    Scenes = {s1, s2}
    Records = {r1, r2}
    Parses = {q1, q2}
    Positions = {1, 2}
    NoRecord = NoRecord
    MaxRevision <- Revisions
    MaxProposals = 3
    MaxEdits = 1
INVARIANT BatchApplies
PROPERTIES UpdatesReplaceWhatWasCompared PlanNeverGoesBack
SYMMETRY Symmetric
CHECK_DEADLOCK FALSE
