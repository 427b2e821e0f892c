SPECIFICATION Spec
CONSTANTS
    i1 = i1
    v1 = v1
    v2 = v2
    t1 = t1
    p1 = p1
    p2 = p2
    e1 = e1
    Ids = {i1}
    Values = {v1, v2}
    Threads = {t1}
    Scenes = {1}
    Proposals = {p1, p2}
    Editors = {e1}
    Statuses <- MCStatuses
    MaxVersion = 2
SYMMETRY Symmetric
CHECK_DEADLOCK FALSE
INVARIANTS
    EffectIffAccepted
PROPERTIES
    AcceptedChangesAreCurrent
