SPECIFICATION Spec
CONSTANTS
    LastStep = 3
    DependsOn <- MCDependsOn
    Optional <- MCOptional
    Virtual <- MCVirtual
    Authors = {a1, a2}
    Texts = {t1, t2}
    None = None
    MaxRevision = 2
    MaxRows = 3
SYMMETRY MCSymmetry
INVARIANTS
    CommittedLineage
    StalenessIsExact
    ProjectionIsAcceptedText
    EveryCommitIsIndexed
