SPECIFICATION GuardSpec
CONSTANTS
    Deliveries = {d1, d2, d3}
    MessageKeys = {k1, k2}
    Ttl = 2
    MaxEntries = 1
    MaxRecords = 1
    MaxClock = 3
    MaxSetbacks = 2
INVARIANTS
    OnceAfterAnswer
CHECK_DEADLOCK FALSE
