SPECIFICATION FairSpec
CONSTANTS
    Procs = {p1, p2}
    Payloads = {h1, h2}
    Parts = 2
    LiveLocksAge = TRUE
    MaxSetbacks = 2
INVARIANTS
    MutualExclusion
    ToldMeansVisible
    NoRepeatWhileRemembered
PROPERTY
    RetriedIntentSettles
CHECK_DEADLOCK FALSE
