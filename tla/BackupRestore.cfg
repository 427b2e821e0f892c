SPECIFICATION FairSpec
CONSTANTS
    Ops = {1, 2, 3}
    None = None
    MaxWrites = 2
    MaxFaults = 2
    MaxCrashes = 2
INVARIANTS
    ServedStateAgrees
    AuthorWritesSurvive
    NothingIsLost
PROPERTY StartsAgain
