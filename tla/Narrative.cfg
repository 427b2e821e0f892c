SPECIFICATION NarrativeSpec
CONSTANTS
    f1 = f1
    a = a
    t1 = t1
    t2 = t2
    Facts = {f1}
    Characters = {a}
    Texts = {t1, t2}
    Positions = {1, 2}
    MaxRowVersion = 3
CHECK_DEADLOCK FALSE
SYMMETRY Symmetry
INVARIANTS
    PromptAndLeakCheckAgree
    KnowledgeIsOfThisFact
    RosterIsConfirmedKnowledge
    HistoryIsComplete
PROPERTY VersionsIdentifyContents
