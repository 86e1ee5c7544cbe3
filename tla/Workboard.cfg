SPECIFICATION FairSpec
CONSTANTS
    Autopilots = {a1}
    Runs = {r1}
    Agents = {g1}
    Ttl = 1
    Grace = 1
    MaxClaims = 2
    MaxBeats = 2
    MaxSetbacks = 2
INVARIANT LeaseHolds
PROPERTIES
    NoneIsStranded
    RunningEnds
CHECK_DEADLOCK FALSE
