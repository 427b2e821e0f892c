SPECIFICATION FairSpec
CONSTANTS
    p1 = p1
    p2 = p2
    j1 = j1
    j2 = j2
    Projects = {p1}
    Jobs = {j1, j2}
    ProjectOf <- OneProject
    Payloads = {d1}
    PackagePayloads = {d2}
    Workers = {w1, w2}
    None = None
    MaxAttempts = 2
    MaxOutages = 1
    MaxStoreErrors = 1
INVARIANTS
    OneHandlerPerProject
    SuccessMeansEffect
PROPERTIES
    RunsSerially
    OnlyADeadLoopStallsJobs
