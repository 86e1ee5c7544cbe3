CONSTANTS
    Flows = {"recovery", "plan", "review", "capacity", "replies"}
    Clicks = {c1, c2, c3}
    MaxStarts = 2
    Lifetime = 1
    MaxTime = 1
    MaxSetbacks = 2
SPECIFICATION Spec
INVARIANTS
    OneDecision
    VisibleButtonsRegistered
PROPERTIES
    ResolvedStays
    RunningIsResolved
CHECK_DEADLOCK FALSE
