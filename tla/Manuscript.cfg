SPECIFICATION Spec
CONSTANTS
    Scenes = {s1}
    Proposals = {p1, p2}
    Authors = {a1, a2}
    Texts = {t1}
    None = None
    MaxVersion = 3
    MaxPlan = 2
SYMMETRY MCSymmetry
INVARIANTS
    HistoryIsGapless
    PipelineIsComplete
    NoLostEdit
    AcceptedExactlyOnce
    PlanDriftIsVisible
