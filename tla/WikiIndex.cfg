SPECIFICATION FairWikiSpec
CONSTANTS
    Scenes = {scene}
    Steps = {step}
    SceneRevisions = 3
    StepRevisions = 2
    ListLimit = 3
    MaxInterruptions = 1
CHECK_DEADLOCK FALSE
INVARIANTS
    InOrderIndexIsCurrent
    NewestSceneTextIsEvidence
PROPERTY PendingIsIngested
