SPECIFICATION AnalysisSpec
CONSTANTS
    r1 = r1
    r2 = r2
    a1 = a1
    a2 = a2
    a3 = a3
    x = x
    y = y
    Requests = {r1, r2}
    Inputs = {x, y}
    Proposals = {a1, a2, a3}
    MaxRuns = 2
CHECK_DEADLOCK FALSE
SYMMETRY Symmetry
INVARIANTS
    ResultsResolve
    PendingIsCurrent
PROPERTY WritebackDecisionsAreFinal
