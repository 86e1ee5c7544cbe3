SPECIFICATION RunSpec
CONSTANTS
    SessionKeys = {s1, s2}
    Runs = {r1, r2}
    Stops = {k1}
    NoKey = NoKey
INVARIANT StopsOnlyOneSession
CHECK_DEADLOCK FALSE
