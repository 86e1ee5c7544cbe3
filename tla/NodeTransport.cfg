\* Two requests, a runner process, two submissions in the gateway at a time,
\* two setbacks.  The system may rest: nothing is asked for, nothing runs.
CONSTANTS
    Requests = {r1, r2}
    Runners = {n1}
    Posts = {p1, p2}
    MaxSetbacks = 2
SPECIFICATION Spec
CHECK_DEADLOCK FALSE
INVARIANTS
    NoneSkipped
    AnsweredOnce
PROPERTY ApprovedIsAnswered
