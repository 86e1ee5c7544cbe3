---------------------------- MODULE SerialExecutor ----------------------------
(***************************************************************************)
(* What the session queue promises its callers: the work of one session    *)
(* runs one task at a time, in the order it was submitted, and different    *)
(* sessions do not wait for each other.  Work that has not begun can be     *)
(* withdrawn, a whole session at once; work that has begun cannot.          *)
(***************************************************************************)
CONSTANTS
    Sessions,
    Tasks,
    NoSession \* not a session

VARIABLES
    phase,   \* "new", "waiting", "running", "finished" or "withdrawn"
    session, \* the session of each submitted task, NoSession before
    ahead    \* the tasks that must be out of the way before this one begins

vars == <<phase, session, ahead>>

Unfinished(s) == {t \in Tasks : session[t] = s /\ phase[t] \in {"waiting", "running"}}

Init ==
    /\ phase = [t \in Tasks |-> "new"]
    /\ session = [t \in Tasks |-> NoSession]
    /\ ahead = [t \in Tasks |-> {}]

Submit(s, t) ==
    /\ phase[t] = "new"
    /\ phase' = [phase EXCEPT ![t] = "waiting"]
    /\ session' = [session EXCEPT ![t] = s]
    /\ ahead' = [ahead EXCEPT ![t] = Unfinished(s)]

Begin(t) ==
    /\ phase[t] = "waiting"
    /\ ahead[t] = {}
    /\ phase' = [phase EXCEPT ![t] = "running"]
    /\ UNCHANGED <<session, ahead>>

\* The tasks gone are in nobody's way any more.
OutOfTheWay(gone) == ahead' = [t \in Tasks |-> ahead[t] \ gone]

Finish(t) ==
    /\ phase[t] = "running"
    /\ phase' = [phase EXCEPT ![t] = "finished"]
    /\ OutOfTheWay({t})
    /\ UNCHANGED session

Withdraw(s) ==
    LET gone == {t \in Tasks : session[t] = s /\ phase[t] = "waiting"}
    IN  /\ gone # {}
        /\ phase' = [t \in Tasks |-> IF t \in gone THEN "withdrawn" ELSE phase[t]]
        /\ ahead' = [t \in Tasks |-> IF t \in gone THEN {} ELSE ahead[t] \ gone]
        /\ UNCHANGED session

Next ==
    \E t \in Tasks :
        \/ \E s \in Sessions : Submit(s, t) \/ Withdraw(s)
        \/ Begin(t)
        \/ Finish(t)

Spec == Init /\ [][Next]_vars
=============================================================================
