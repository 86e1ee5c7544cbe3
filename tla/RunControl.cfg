SPECIFICATION RunFairSpec
CONSTANTS
    SessionKeys = {s1, s2}
    Runs = {r1, r2}
    Stops = {k1}
    NoKey = NoKey
INVARIANTS
    RunTypeOK
    RecordsAreOfRunningTasks
    HonestVerdict
PROPERTIES
    NoTurnAfterStop
    StopSparesLaterWork
    EveryMessageLeaves
CHECK_DEADLOCK FALSE
