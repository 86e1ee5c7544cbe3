\* Three processes, of any kinds, one message (delivered any number of times),
\* one setback.
\* In the end every process is gone: the system stops.
CONSTANTS
    Taps = {t1, t2, t3}
    Messages = {m1}
    MaxSetbacks = 1
SPECIFICATION Spec
CHECK_DEADLOCK FALSE
INVARIANTS
    OneTap
    RunOnce
PROPERTY StopEnds
