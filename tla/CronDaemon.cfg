SPECIFICATION FairSpec
CONSTANTS
    Jobs = {j1}
    Operators = {o1, o2}
    Timer = timer
    Loops = {}
    Intervals = {1}
    Patterns = {2}
    MaxAttempts = 2
    MaxCatchup = 1
    MaxTime = 3
    MaxMutations = 2
    MaxRestarts = 1
INVARIANTS
    OncePerWindow
    NoGap
PROPERTIES
    DueIsEmitted
CHECK_DEADLOCK FALSE
