SPECIFICATION StoreFairSpec
CONSTANTS
    Runs = {m1, s1}
    Scheduled = {s1}
    MaxRetries = 1
    MaxRescues = 2
    MaxCrashes = 1
INVARIANTS StoreTypeOK KeptWhenAlone FailsClosed
PROPERTY EndsOnRecord
CHECK_DEADLOCK FALSE
