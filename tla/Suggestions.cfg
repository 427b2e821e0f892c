\* One call over three models beside an author who edits: calls share no row.
SPECIFICATION Spec
CONSTANTS
    c1 = c1
    p1 = p1
    p2 = p2
    p3 = p3
    Calls = {c1}
    Profiles = {p1, p2, p3}
    Catalog <- ThreeModels
    Fallbacks <- TheOthers
    NoProfile = NoProfile
    MaxVersion = 3
INVARIANTS RecordsAreTrue AttemptsFollowThePolicy StoredAnswersAreAccountedFor StaleAnswersAreDropped
CHECK_DEADLOCK FALSE
