SPECIFICATION FairSpec
CONSTANTS
    Keys = {k1, k2}
    MaxMessages = 3
INVARIANTS
    TypeOK
    FlushedOnce
    TextsInOrder
    CloseFlushes
PROPERTIES
    ChainsAreSerial
    EveryMessageIsRun
CHECK_DEADLOCK FALSE
