\* One parse beside an author who accepts: a decided proposal changes again.
SPECIFICATION Spec
CONSTANTS
    s1 = s1
    s2 = s2
    r1 = r1
    r2 = r2
    q1 = q1
    q2 = q2
    Scenes = {s1, s2}
    Records = {r1, r2}
    Parses = {q1}
    Positions = {1, 2}
    NoRecord = NoRecord
    MaxRevision <- Revisions
    MaxProposals = 3
    MaxEdits = 0
PROPERTY DecisionsAreFinal
CHECK_DEADLOCK FALSE
