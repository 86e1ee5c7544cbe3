-------------------------- MODULE SessionActorQueue --------------------------
(***************************************************************************)
(* NeonSessionActorQueue of src/gateway/sessionActorQueue.ts: per session a  *)
(* state object with a promise chain (tail), a map from task ids to task     *)
(* states and two counters.  cleanupIdle forgets idle objects, so a session  *)
(* may have had several; the chain of a forgotten object keeps its closures  *)
(* and can still run.                                                        *)
(*                                                                         *)
(* A chain is not stored: a task's turn comes when every task of its object *)
(* with a smaller id has settled.  Enqueue, cancelPending and cleanupIdle    *)
(* are synchronous and so atomic; Start and Reject are the microtask that    *)
(* the settled predecessor schedules.                                       *)
(***************************************************************************)
EXTENDS Naturals, FiniteSets

CONSTANTS
    Sessions, \* normalized session keys
    Tasks,    \* calls of enqueue or run
    Objects,  \* INeonSessionActorQueueState objects the process may allocate
    NoSession, NoObject \* undefined

ASSUME TasksAssumption == IsFiniteSet(Tasks)
ASSUME UndefinedAssumption == NoSession \notin Sessions /\ NoObject \notin Objects

VARIABLES
    object,  \* the Map sessions: the live object of a session, or NoObject
    used,    \* the objects allocated so far
    owner,   \* the session and object a task was enqueued with
    taskId,  \* its id on that object
    state,   \* its entry in tasks; "new" before and "done", "rejected" after
    nextId,  \* nextTaskId of each object
    active,  \* the counter active of each object
    pending, \* the counter pending of each object
    aged     \* objects whose lastSettledAtMs is maxIdleMs or more ago

vars == <<object, used, owner, taskId, state, nextId, active, pending, aged>>

Nobody == [session |-> NoSession, object |-> NoObject]

TaskStates == {"new", "queued", "active", "cancelled", "done", "rejected"}

On(o, states) == {t \in Tasks : owner[t].object = o /\ state[t] \in states}
Of(s, states) == {t \in Tasks : owner[t].session = s /\ state[t] \in states}

Init ==
    /\ object = [s \in Sessions |-> NoObject]
    /\ used = {}
    /\ owner = [t \in Tasks |-> Nobody]
    /\ taskId = [t \in Tasks |-> 0]
    /\ state = [t \in Tasks |-> "new"]
    /\ nextId = [o \in Objects |-> 1]
    /\ active = [o \in Objects |-> 0]
    /\ pending = [o \in Objects |-> 0]
    /\ aged = {}

----------------------------------------------------------------------------

EnqueueOn(s, t, o) ==
    /\ state' = [state EXCEPT ![t] = "queued"]
    /\ owner' = [owner EXCEPT ![t] = [session |-> s, object |-> o]]
    /\ taskId' = [taskId EXCEPT ![t] = nextId[o]]
    /\ nextId' = [nextId EXCEPT ![o] = @ + 1]
    /\ pending' = [pending EXCEPT ![o] = @ + 1]
    /\ UNCHANGED <<active, aged>>

\* enqueue, when getOrCreateState finds the session's object ...
EnqueueExisting(s, t) ==
    /\ state[t] = "new"
    /\ object[s] # NoObject
    /\ EnqueueOn(s, t, object[s])
    /\ UNCHANGED <<object, used>>

\* ... and when it allocates one.
EnqueueFirst(s, t, o) ==
    /\ state[t] = "new"
    /\ object[s] = NoObject
    /\ o \notin used
    /\ EnqueueOn(s, t, o)
    /\ object' = [object EXCEPT ![s] = o]
    /\ used' = used \cup {o}

----------------------------------------------------------------------------
(* The chain.                                                              *)

\* Mutants: the tail is replaced by the task alone; the tail of a rejected
\* task is not caught, so that nothing after it runs.
TurnNow(t) == TRUE
TurnUnlessPoisoned(t) ==
    \A u \in On(owner[t].object, TaskStates) :
        taskId[u] < taskId[t] => state[u] = "done"

Turn(t) ==
    \A u \in On(owner[t].object, {"queued", "active", "cancelled"}) :
        taskId[u] >= taskId[t]

Start(t) ==
    /\ state[t] = "queued"
    /\ Turn(t)
    /\ state' = [state EXCEPT ![t] = "active"]
    /\ active' = [active EXCEPT ![owner[t].object] = @ + 1]
    /\ UNCHANGED <<object, used, owner, taskId, nextId, pending, aged>>

\* The task finds itself cancelled: its promise rejects, it never ran.
Reject(t) ==
    /\ state[t] = "cancelled"
    /\ Turn(t)
    /\ state' = [state EXCEPT ![t] = "rejected"]
    /\ UNCHANGED <<object, used, owner, taskId, nextId, active, pending, aged>>

Less(n, k) == IF k < n THEN n - k ELSE 0

\* The task resolves or throws; finally does the same for both.
Settle(t) ==
    LET o == owner[t].object
    IN  /\ state[t] = "active"
        /\ state' = [state EXCEPT ![t] = "done"]
        /\ active' = [active EXCEPT ![o] = @ - 1]
        /\ pending' = [pending EXCEPT ![o] = Less(@, 1)]
        /\ aged' = aged \ {o}
        /\ UNCHANGED <<object, used, owner, taskId, nextId>>

----------------------------------------------------------------------------

Cancels(o) == On(o, {"queued"})

CancelPending(s) ==
    LET o == object[s]
        cancelled == Cancels(o)
    IN  /\ o # NoObject
        /\ cancelled # {}
        /\ state' = [t \in Tasks |-> IF t \in cancelled THEN "cancelled" ELSE state[t]]
        /\ pending' = [pending EXCEPT ![o] = Less(@, Cardinality(cancelled))]
        /\ aged' = aged \ {o}
        /\ UNCHANGED <<object, used, owner, taskId, nextId, active>>

Idle(o) == active[o] = 0 /\ pending[o] = 0

CleanupIdle ==
    LET removed == {s \in Sessions :
                       object[s] # NoObject /\ Idle(object[s]) /\ object[s] \in aged}
    IN  /\ removed # {}
        /\ object' = [s \in Sessions |-> IF s \in removed THEN NoObject ELSE object[s]]
        /\ UNCHANGED <<used, owner, taskId, state, nextId, active, pending, aged>>

\* maxIdleMs pass without a settlement on this object.
Age(o) ==
    /\ o \in used \ aged
    /\ aged' = aged \cup {o}
    /\ UNCHANGED <<object, used, owner, taskId, state, nextId, active, pending>>

Next ==
    \/ \E s \in Sessions, t \in Tasks :
          EnqueueExisting(s, t) \/ \E o \in Objects : EnqueueFirst(s, t, o)
    \/ \E t \in Tasks : Start(t) \/ Reject(t) \/ Settle(t)
    \/ \E s \in Sessions : CancelPending(s)
    \/ CleanupIdle
    \/ \E o \in Objects : Age(o)

Spec == Init /\ [][Next]_vars

\* Microtasks run, and a task that runs ends: the harness bounds a turn by
\* turnCompletionTimeoutMs.
Fairness == \A t \in Tasks : WF_vars(Start(t)) /\ WF_vars(Reject(t)) /\ WF_vars(Settle(t))
FairSpec == Spec /\ Fairness

----------------------------------------------------------------------------
(* Properties.                                                             *)

TypeOK ==
    /\ object \in [Sessions -> Objects \cup {NoObject}]
    /\ used \subseteq Objects
    /\ owner \in [Tasks -> [session : Sessions, object : Objects] \cup {Nobody}]
    /\ taskId \in [Tasks -> Nat]
    /\ state \in [Tasks -> TaskStates]
    /\ nextId \in [Objects -> Nat]
    /\ active \in [Objects -> Nat]
    /\ pending \in [Objects -> Nat]
    /\ aged \subseteq Objects

\* "serializes work for the same session key": two tasks of a session never
\* run together, not even when the first belongs to an object that
\* cleanupIdle has forgotten since.
OneRunsPerSession ==
    \A s \in Sessions : \A t, u \in Of(s, {"active"}) : t = u

\* What getPendingCountForSession and snapshot report is the truth about the
\* session: its unfinished tasks, none of them hidden on a forgotten object.
CountsAreExact ==
    \A s \in Sessions :
        LET known == object[s] # NoObject
        IN  /\ Cardinality(Of(s, {"queued", "active"}))
                   = IF known THEN pending[object[s]] ELSE 0
            /\ Cardinality(Of(s, {"active"})) = IF known THEN active[object[s]] ELSE 0

\* Every promise that enqueue hands out settles: a failed or a cancelled task
\* does not poison the chain behind it.
EveryTaskSettles ==
    \A t \in Tasks : state[t] = "queued" ~> state[t] \in {"done", "rejected"}

(* The queue as a SerialExecutor.                                          *)

Phase(t) ==
    CASE state[t] = "queued" -> "waiting"
      [] state[t] = "active" -> "running"
      [] state[t] = "done" -> "finished"
      [] state[t] \in {"cancelled", "rejected"} -> "withdrawn"
      [] OTHER -> "new"
Before(t) ==
    IF state[t] # "queued" THEN {}
    ELSE {u \in On(owner[t].object, {"queued", "active"}) : taskId[u] < taskId[t]}

Serial == INSTANCE SerialExecutor WITH
    phase <- [t \in Tasks |-> Phase(t)],
    session <- [t \in Tasks |-> owner[t].session],
    ahead <- [t \in Tasks |-> Before(t)]

\* Work of a session runs in the order of the enqueue calls, across objects.
IsSerialExecutor == Serial!Spec
=============================================================================
