---------------------------- MODULE SessionProofs ----------------------------
(* What holds of SessionActorQueue for any sessions, objects and finite     *)
(* number of tasks, and of RunControl for any sessions, runs and stops.     *)
EXTENDS SessionActorQueue, RunControl, FiniteSetTheorems, TLAPS

Unsettled == {"queued", "active", "cancelled"}
Unfinished == {"queued", "active"}

(* The inductive invariant.                                                 *)

\* Who is where: a task is enqueued once, on an object that was allocated.
Placed ==
    \A t \in Tasks :
        IF state[t] = "new" THEN owner[t] = Nobody
        ELSE owner[t] \in [session : Sessions, object : used]

\* An object serves one session.
OneSessionPerObject ==
    /\ \A s \in Sessions : object[s] \in used \cup {NoObject}
    /\ \A r, s \in Sessions : object[r] = object[s] /\ object[s] # NoObject => r = s
    /\ \A t \in Tasks, s \in Sessions :
           owner[t].object = object[s] /\ object[s] # NoObject => owner[t].session = s
    /\ \A t, u \in Tasks :
           owner[t].object = owner[u].object => owner[t].session = owner[u].session

\* Unfinished work is on the live object of its session.
WorkIsLive ==
    \A t \in Tasks : state[t] \in Unfinished => object[owner[t].session] = owner[t].object

\* The counters count.
CountersTrue ==
    \A o \in Objects :
        /\ active[o] = Cardinality(On(o, {"active"}))
        /\ pending[o] = Cardinality(On(o, Unfinished))

\* Ids of an object are handed out once, and the running task has the least.
Chained ==
    /\ \A t \in Tasks : state[t] # "new" => taskId[t] < nextId[owner[t].object]
    /\ \A t, u \in Tasks :
           /\ state[t] # "new" /\ state[u] # "new"
           /\ owner[t].object = owner[u].object
           /\ taskId[t] = taskId[u]
           => t = u
    /\ \A t \in Tasks : state[t] = "active" => Turn(t)

IInv == TypeOK /\ Placed /\ OneSessionPerObject /\ WorkIsLive /\ CountersTrue /\ Chained

----------------------------------------------------------------------------

\* Sets of tasks are finite.
LEMMA FiniteTasks ==
    ASSUME NEW S \in SUBSET Tasks
    PROVE  IsFiniteSet(S) /\ Cardinality(S) \in Nat
  BY TasksAssumption, FS_Subset, FS_CardinalityType

\* A task that is not new has its object among the objects.
LEMMA OwnerTyped ==
    ASSUME TypeOK, Placed, NEW t \in Tasks, state[t] # "new"
    PROVE  owner[t].object \in Objects /\ owner[t].object \in used
           /\ owner[t].session \in Sessions
  BY UndefinedAssumption DEF TypeOK, Placed, Nobody

\* Initially nothing is enqueued.
LEMMA Initially == Init => IInv
<1> SUFFICES ASSUME Init PROVE IInv
  OBVIOUS
<1>1. TypeOK
  BY DEF Init, TypeOK, TaskStates, Nobody
<1>2. Placed /\ WorkIsLive /\ Chained
  BY DEF Init, Placed, WorkIsLive, Chained, Unfinished
<1>3. OneSessionPerObject
  BY DEF Init, OneSessionPerObject, Nobody
<1>4. CountersTrue
  <2> SUFFICES ASSUME NEW o \in Objects
               PROVE  active[o] = Cardinality(On(o, {"active"}))
                      /\ pending[o] = Cardinality(On(o, Unfinished))
    BY DEF CountersTrue
  <2>1. On(o, {"active"}) = {} /\ On(o, Unfinished) = {}
    BY DEF Init, On, Unfinished
  <2> QED BY <2>1, FS_EmptySet DEF Init
<1> QED BY <1>1, <1>2, <1>3, <1>4 DEF IInv

----------------------------------------------------------------------------
(* One lemma per kind of step.                                              *)

\* A task joins object o of session s: the live one, or one just allocated.
LEMMA EnqueueStep ==
    ASSUME IInv, NEW s \in Sessions, NEW t \in Tasks, NEW o \in Objects,
           state[t] = "new",
           EnqueueOn(s, t, o),
           \/ object[s] = o /\ UNCHANGED <<object, used>>
           \/ /\ object[s] = NoObject /\ o \notin used
              /\ object' = [object EXCEPT ![s] = o] /\ used' = used \cup {o}
    PROVE  IInv'
<1> USE DEF IInv
<1>1. object'[s] = o /\ o \in used' /\ used \subseteq used' /\ used' \subseteq Objects
      /\ object' \in [Sessions -> Objects \cup {NoObject}]
      /\ \A r \in Sessions : r # s => object'[r] = object[r]
  BY UndefinedAssumption DEF TypeOK, OneSessionPerObject
<1>2. /\ state'[t] = "queued" /\ owner'[t] = [session |-> s, object |-> o]
      /\ taskId'[t] = nextId[o] /\ nextId'[o] = nextId[o] + 1 /\ nextId[o] \in Nat
      /\ \A u \in Tasks : u # t => /\ state'[u] = state[u] /\ owner'[u] = owner[u]
                                   /\ taskId'[u] = taskId[u]
      /\ \A p \in Objects : p # o => nextId'[p] = nextId[p] /\ pending'[p] = pending[p]
      /\ pending'[o] = pending[o] + 1 /\ active' = active
  BY DEF EnqueueOn, TypeOK
<1>3. \A u \in Tasks : owner[u].object = o => owner[u].session = s
  BY UndefinedAssumption, OwnerTyped DEF OneSessionPerObject, Placed, Nobody
<1>4. \A r \in Sessions : object[r] = o => r = s
  BY UndefinedAssumption DEF OneSessionPerObject
<1>5. TypeOK'
  BY <1>1 DEF TypeOK, EnqueueOn, TaskStates
<1>6. Placed'
  BY <1>1, <1>2 DEF Placed
<1>7. OneSessionPerObject'
  <2>1. \A r \in Sessions : object'[r] \in used' \cup {NoObject}
    BY <1>1 DEF OneSessionPerObject
  <2>2. \A q, r \in Sessions : object'[q] = object'[r] /\ object'[r] # NoObject => q = r
    BY <1>1, <1>4 DEF OneSessionPerObject
  <2>3. \A u \in Tasks, r \in Sessions :
            owner'[u].object = object'[r] /\ object'[r] # NoObject => owner'[u].session = r
    BY <1>1, <1>2, <1>3, <1>4 DEF OneSessionPerObject
  <2>4. \A u, v \in Tasks :
            owner'[u].object = owner'[v].object => owner'[u].session = owner'[v].session
    BY <1>2, <1>3 DEF OneSessionPerObject
  <2> QED BY <2>1, <2>2, <2>3, <2>4 DEF OneSessionPerObject
<1>8. WorkIsLive'
  <2> SUFFICES ASSUME NEW u \in Tasks, state'[u] \in Unfinished
               PROVE  object'[owner'[u].session] = owner'[u].object
    BY DEF WorkIsLive
  <2>1. CASE u = t
    BY <2>1, <1>1, <1>2
  <2>2. CASE u # t
    <3>1. state[u] \in Unfinished /\ owner'[u] = owner[u] /\ state[u] # "new"
      BY <2>2, <1>2 DEF Unfinished
    <3>2. object[owner[u].session] = owner[u].object /\ owner[u].object \in Objects
          /\ owner[u].object \in used
      BY <3>1, OwnerTyped DEF WorkIsLive
    <3>3. object'[owner[u].session] = object[owner[u].session]
      BY <3>1, <3>2, <1>1, OwnerTyped, UndefinedAssumption
    <3> QED BY <3>1, <3>2, <3>3
  <2> QED BY <2>1, <2>2
<1>9. CountersTrue'
  <2> SUFFICES ASSUME NEW p \in Objects
               PROVE  active'[p] = Cardinality(On(p, {"active"})')
                      /\ pending'[p] = Cardinality(On(p, Unfinished)')
    BY DEF CountersTrue, Unfinished
  <2>1. On(p, {"active"})' = On(p, {"active"})
    BY <1>2 DEF On
  <2>2. CASE p # o
    <3>1. On(p, Unfinished)' = On(p, Unfinished)
      BY <2>2, <1>2 DEF On, Unfinished
    <3> QED BY <2>1, <2>2, <3>1, <1>2 DEF CountersTrue
  <2>3. CASE p = o
    <3>1. On(o, Unfinished)' = On(o, Unfinished) \cup {t} /\ t \notin On(o, Unfinished)
      BY <1>2 DEF On, Unfinished
    <3>2. On(o, Unfinished) \in SUBSET Tasks
      BY DEF On
    <3>3. Cardinality(On(o, Unfinished) \cup {t}) = Cardinality(On(o, Unfinished)) + 1
      BY <3>1, <3>2, FiniteTasks, FS_AddElement
    <3> QED BY <2>1, <2>3, <3>1, <3>3, <1>2 DEF CountersTrue
  <2> QED BY <2>2, <2>3
<1>10. Chained'
  <2>1. \A u \in Tasks : state'[u] # "new" => taskId'[u] < nextId'[owner'[u].object]
    <3> SUFFICES ASSUME NEW u \in Tasks, state'[u] # "new"
                 PROVE  taskId'[u] < nextId'[owner'[u].object]
      OBVIOUS
    <3>1. CASE u = t
      BY <3>1, <1>2
    <3>2. CASE u # t
      <4>1. owner[u].object \in Objects /\ nextId[owner[u].object] \in Nat
            /\ taskId[u] \in Nat /\ taskId[u] < nextId[owner[u].object]
        BY <3>2, <1>2, OwnerTyped DEF Chained, TypeOK
      <4> QED BY <4>1, <3>2, <1>2
    <3> QED BY <3>1, <3>2
  <2>2. \A u, v \in Tasks :
            /\ state'[u] # "new" /\ state'[v] # "new"
            /\ owner'[u].object = owner'[v].object
            /\ taskId'[u] = taskId'[v]
            => u = v
    <3>1. \A u \in Tasks : u # t /\ state[u] # "new" /\ owner[u].object = o
              => taskId[u] < nextId[o] /\ taskId[u] \in Nat
      BY DEF Chained, TypeOK
    <3> QED BY <3>1, <1>2 DEF Chained
  <2>3. \A u \in Tasks : state'[u] = "active" => Turn(u)'
    <3> SUFFICES ASSUME NEW u \in Tasks, state'[u] = "active",
                        NEW v \in Tasks, owner'[v].object = owner'[u].object,
                        state'[v] \in Unsettled
                 PROVE  taskId'[v] >= taskId'[u]
      BY DEF Turn, On, Unsettled
    <3>1. u # t /\ state[u] = "active" /\ Turn(u) /\ taskId[u] \in Nat
      BY <1>2 DEF Chained, TypeOK
    <3>2. CASE v # t
      BY <3>1, <3>2, <1>2 DEF Turn, On, Unsettled
    <3>3. CASE v = t
      BY <3>1, <3>3, <1>2 DEF Chained
    <3> QED BY <3>2, <3>3
  <2> QED BY <2>1, <2>2, <2>3 DEF Chained
<1> QED BY <1>5, <1>6, <1>7, <1>8, <1>9, <1>10

\* Steps that only move tasks forward keep the placement.
LEMMA PlacementKept ==
    ASSUME IInv, UNCHANGED <<object, used, owner, taskId, nextId>>,
           \A t \in Tasks : state'[t] = "new" <=> state[t] = "new",
           \A t \in Tasks : state'[t] \in Unfinished => state[t] \in Unfinished
    PROVE  /\ Placed' /\ OneSessionPerObject' /\ WorkIsLive'
           /\ \A t \in Tasks : state'[t] # "new" => taskId'[t] < nextId'[owner'[t].object]
           /\ \A t, u \in Tasks :
                  /\ state'[t] # "new" /\ state'[u] # "new"
                  /\ owner'[t].object = owner'[u].object
                  /\ taskId'[t] = taskId'[u]
                  => t = u
<1> USE DEF IInv
<1>1. Placed'
  BY DEF Placed
<1>2. OneSessionPerObject'
  BY DEF OneSessionPerObject
<1>3. WorkIsLive'
  BY DEF WorkIsLive
<1> QED BY <1>1, <1>2, <1>3 DEF Chained

LEMMA StartStep == ASSUME IInv, NEW t \in Tasks, Start(t) PROVE IInv'
<1> USE DEF IInv
<1> DEFINE o == owner[t].object
<1>1. o \in Objects /\ active[o] \in Nat
  BY OwnerTyped DEF Start, TypeOK
<1>2. /\ state[t] = "queued" /\ state'[t] = "active"
      /\ \A u \in Tasks : u # t => state'[u] = state[u]
      /\ active'[o] = active[o] + 1
      /\ \A p \in Objects : p # o => active'[p] = active[p]
      /\ UNCHANGED <<object, used, owner, taskId, nextId, pending, aged>>
  BY <1>1 DEF Start, TypeOK
<1>3. TypeOK'
  BY <1>1 DEF TypeOK, Start, TaskStates
<1>4. \A u \in Tasks : ~(state[u] = "active" /\ owner[u].object = o)
  <2> SUFFICES ASSUME NEW u \in Tasks, state[u] = "active", owner[u].object = o
               PROVE  FALSE
    OBVIOUS
  <2>1. taskId[t] >= taskId[u]
    BY <1>2 DEF Chained, Turn, On
  <2>2. taskId[u] >= taskId[t]
    BY DEF Start, Turn, On
  <2>3. taskId[u] = taskId[t]
    BY <2>1, <2>2 DEF TypeOK
  <2> QED BY <2>3, <1>2 DEF Chained
<1>5. CountersTrue'
  <2> SUFFICES ASSUME NEW p \in Objects
               PROVE  active'[p] = Cardinality(On(p, {"active"})')
                      /\ pending'[p] = Cardinality(On(p, Unfinished)')
    BY DEF CountersTrue, Unfinished
  <2>1. On(p, Unfinished)' = On(p, Unfinished)
    BY <1>2 DEF On, Unfinished
  <2>2. CASE p # o
    <3>1. On(p, {"active"})' = On(p, {"active"})
      BY <2>2, <1>2 DEF On
    <3> QED BY <2>1, <3>1, <2>2, <1>2 DEF CountersTrue
  <2>3. CASE p = o
    <3>1. On(o, {"active"})' = On(o, {"active"}) \cup {t} /\ t \notin On(o, {"active"})
      BY <1>2 DEF On
    <3>2. On(o, {"active"}) \in SUBSET Tasks
      BY DEF On
    <3>3. Cardinality(On(o, {"active"}) \cup {t}) = Cardinality(On(o, {"active"})) + 1
      BY <3>1, <3>2, FiniteTasks, FS_AddElement
    <3> QED BY <2>1, <2>3, <3>1, <3>3, <1>2 DEF CountersTrue
  <2> QED BY <2>2, <2>3
<1>6. \A u \in Tasks : state'[u] = "active" => Turn(u)'
  <2> SUFFICES ASSUME NEW u \in Tasks, state'[u] = "active",
                      NEW v \in Tasks, owner[v].object = owner[u].object,
                      state'[v] \in Unsettled
               PROVE  taskId[v] >= taskId[u]
    BY <1>2 DEF Turn, On, Unsettled
  <2>1. state[v] \in Unsettled
    BY <1>2 DEF Unsettled
  <2>2. Turn(u)
    BY <1>2 DEF Start, Chained
  <2> QED BY <2>1, <2>2 DEF Turn, On, Unsettled
<1>7. \A u \in Tasks : /\ state'[u] = "new" <=> state[u] = "new"
                       /\ state'[u] \in Unfinished => state[u] \in Unfinished
  BY <1>2 DEF Unfinished
<1> QED BY <1>2, <1>3, <1>5, <1>6, <1>7, PlacementKept DEF Chained

\* A task that is settling leaves the running ones where they are.
LEMMA TurnKept ==
    ASSUME IInv, UNCHANGED <<owner, taskId>>,
           \A t \in Tasks : state'[t] \in Unsettled => state[t] \in Unsettled,
           \A t \in Tasks : state'[t] = "active" => state[t] = "active"
    PROVE  \A t \in Tasks : state'[t] = "active" => Turn(t)'
BY DEF IInv, Chained, Turn, On, Unsettled

LEMMA RejectStep == ASSUME IInv, NEW t \in Tasks, Reject(t) PROVE IInv'
<1> USE DEF IInv
<1>1. /\ state[t] = "cancelled" /\ state'[t] = "rejected"
      /\ \A u \in Tasks : u # t => state'[u] = state[u]
      /\ UNCHANGED <<object, used, owner, taskId, nextId, active, pending, aged>>
  BY DEF Reject, TypeOK
<1>2. TypeOK'
  BY DEF TypeOK, Reject, TaskStates
<1>3. CountersTrue'
  <2>1. \A p \in Objects : On(p, {"active"})' = On(p, {"active"})
                           /\ On(p, Unfinished)' = On(p, Unfinished)
    BY <1>1 DEF On, Unfinished
  <2> QED BY <2>1, <1>1 DEF CountersTrue, Unfinished
<1>4. \A u \in Tasks : /\ state'[u] = "new" <=> state[u] = "new"
                       /\ state'[u] \in Unfinished => state[u] \in Unfinished
                       /\ state'[u] \in Unsettled => state[u] \in Unsettled
                       /\ state'[u] = "active" => state[u] = "active"
  BY <1>1 DEF Unfinished, Unsettled
<1> QED BY <1>1, <1>2, <1>3, <1>4, PlacementKept, TurnKept DEF Chained

LEMMA SettleStep == ASSUME IInv, NEW t \in Tasks, Settle(t) PROVE IInv'
<1> USE DEF IInv
<1> DEFINE o == owner[t].object
<1>1. o \in Objects /\ active[o] \in Nat /\ pending[o] \in Nat
  BY OwnerTyped DEF Settle, TypeOK
<1>2. t \in On(o, {"active"}) /\ t \in On(o, Unfinished)
  BY DEF Settle, On, Unfinished
<1>3. /\ On(o, {"active"}) \in SUBSET Tasks
      /\ Cardinality(On(o, {"active"}) \ {t}) = active[o] - 1
      /\ On(o, Unfinished) \in SUBSET Tasks
      /\ Cardinality(On(o, Unfinished) \ {t}) = pending[o] - 1
  <2>1. On(o, {"active"}) \in SUBSET Tasks /\ On(o, Unfinished) \in SUBSET Tasks
    BY DEF On
  <2>2. IsFiniteSet(On(o, {"active"})) /\ IsFiniteSet(On(o, Unfinished))
    BY <2>1, FiniteTasks
  <2>3. Cardinality(On(o, {"active"}) \ {t}) = Cardinality(On(o, {"active"})) - 1
    BY <1>2, <2>2, FS_RemoveElement
  <2>4. Cardinality(On(o, Unfinished) \ {t}) = Cardinality(On(o, Unfinished)) - 1
    BY <1>2, <2>2, FS_RemoveElement
  <2> QED BY <2>1, <2>3, <2>4, <1>1 DEF CountersTrue
<1>4. active[o] - 1 \in Nat /\ pending[o] - 1 \in Nat
  <2>1. Cardinality(On(o, {"active"}) \ {t}) \in Nat
        /\ Cardinality(On(o, Unfinished) \ {t}) \in Nat
    <3>1. On(o, {"active"}) \ {t} \in SUBSET Tasks /\ On(o, Unfinished) \ {t} \in SUBSET Tasks
      BY <1>3
    <3> QED BY <3>1, FiniteTasks
  <2> QED BY <2>1, <1>3
<1>5. /\ state[t] = "active" /\ state'[t] = "done"
      /\ \A u \in Tasks : u # t => state'[u] = state[u]
      /\ active'[o] = active[o] - 1 /\ pending'[o] = pending[o] - 1
      /\ \A p \in Objects : p # o => active'[p] = active[p] /\ pending'[p] = pending[p]
      /\ UNCHANGED <<object, used, owner, taskId, nextId>>
  BY <1>1, <1>4 DEF Settle, TypeOK, Less
<1>6. TypeOK'
  <2>1. active' \in [Objects -> Nat] /\ pending' \in [Objects -> Nat]
    BY <1>1, <1>4, <1>5 DEF Settle, TypeOK
  <2> QED BY <2>1 DEF TypeOK, Settle, TaskStates
<1>7. CountersTrue'
  <2> SUFFICES ASSUME NEW p \in Objects
               PROVE  active'[p] = Cardinality(On(p, {"active"})')
                      /\ pending'[p] = Cardinality(On(p, Unfinished)')
    BY DEF CountersTrue, Unfinished
  <2>1. CASE p # o
    <3>1. On(p, {"active"})' = On(p, {"active"}) /\ On(p, Unfinished)' = On(p, Unfinished)
      BY <2>1, <1>5 DEF On, Unfinished
    <3> QED BY <3>1, <2>1, <1>5 DEF CountersTrue
  <2>2. CASE p = o
    <3>1. On(o, {"active"})' = On(o, {"active"}) \ {t}
          /\ On(o, Unfinished)' = On(o, Unfinished) \ {t}
      BY <1>5 DEF On, Unfinished
    <3> QED BY <3>1, <2>2, <1>3, <1>5
  <2> QED BY <2>1, <2>2
<1>8. \A u \in Tasks : /\ state'[u] = "new" <=> state[u] = "new"
                       /\ state'[u] \in Unfinished => state[u] \in Unfinished
                       /\ state'[u] \in Unsettled => state[u] \in Unsettled
                       /\ state'[u] = "active" => state[u] = "active"
  BY <1>5 DEF Unfinished, Unsettled
<1> QED BY <1>5, <1>6, <1>7, <1>8, PlacementKept, TurnKept DEF Chained

\* Of what is unfinished on an object, only the queued part is cancelled.
LEMMA CancelStep == ASSUME IInv, NEW s \in Sessions, CancelPending(s) PROVE IInv'
<1> USE DEF IInv
<1> DEFINE o == object[s]
<1>1. o \in Objects /\ active[o] \in Nat /\ pending[o] \in Nat
  BY UndefinedAssumption DEF CancelPending, TypeOK
<1>2. /\ \A u \in Tasks : state'[u] = IF u \in On(o, {"queued"}) THEN "cancelled" ELSE state[u]
      /\ pending'[o] = Less(pending[o], Cardinality(On(o, {"queued"})))
      /\ \A p \in Objects : p # o => pending'[p] = pending[p]
      /\ UNCHANGED <<object, used, owner, taskId, nextId, active>>
  BY <1>1 DEF CancelPending, Cancels, TypeOK
<1>3. pending[o] = Cardinality(On(o, {"queued"})) + active[o]
      /\ Cardinality(On(o, {"queued"})) \in Nat
  <2>1. /\ On(o, {"queued"}) \in SUBSET Tasks /\ On(o, {"active"}) \in SUBSET Tasks
        /\ On(o, Unfinished) = On(o, {"queued"}) \cup On(o, {"active"})
        /\ On(o, {"queued"}) \cap On(o, {"active"}) = {}
    BY DEF On, Unfinished
  <2>2. IsFiniteSet(On(o, {"queued"})) /\ IsFiniteSet(On(o, {"active"}))
        /\ Cardinality(On(o, {"queued"})) \in Nat /\ Cardinality(On(o, {"active"})) \in Nat
    BY <2>1, FiniteTasks
  <2>3. Cardinality(On(o, Unfinished))
            = Cardinality(On(o, {"queued"})) + Cardinality(On(o, {"active"}))
              - Cardinality(On(o, {"queued"}) \cap On(o, {"active"}))
    BY <2>1, <2>2, FS_Union
  <2>4. Cardinality(On(o, {"queued"}) \cap On(o, {"active"})) = 0
    BY <2>1, FS_EmptySet
  <2> QED BY <2>2, <2>3, <2>4, <1>1 DEF CountersTrue
<1>4. pending'[o] = active[o]
  BY <1>1, <1>2, <1>3 DEF Less
<1>5. TypeOK'
  <2>1. pending' \in [Objects -> Nat]
    BY <1>1, <1>2, <1>4 DEF CancelPending, TypeOK
  <2>2. state' \in [Tasks -> TaskStates]
    BY <1>2 DEF CancelPending, Cancels, TypeOK, TaskStates
  <2> QED BY <2>1, <2>2 DEF TypeOK, CancelPending
<1>6. CountersTrue'
  <2> SUFFICES ASSUME NEW p \in Objects
               PROVE  active'[p] = Cardinality(On(p, {"active"})')
                      /\ pending'[p] = Cardinality(On(p, Unfinished)')
    BY DEF CountersTrue, Unfinished
  <2>1. On(p, {"active"})' = On(p, {"active"})
    BY <1>2 DEF On
  <2>2. CASE p # o
    <3>1. On(p, Unfinished)' = On(p, Unfinished)
      BY <2>2, <1>2 DEF On, Unfinished
    <3> QED BY <2>1, <3>1, <2>2, <1>2 DEF CountersTrue
  <2>3. CASE p = o
    <3>1. On(o, Unfinished)' = On(o, {"active"})
      BY <1>2 DEF On, Unfinished
    <3> QED BY <2>1, <2>3, <3>1, <1>2, <1>4 DEF CountersTrue
  <2> QED BY <2>2, <2>3
<1>7. \A u \in Tasks : /\ state'[u] = "new" <=> state[u] = "new"
                       /\ state'[u] \in Unfinished => state[u] \in Unfinished
                       /\ state'[u] \in Unsettled => state[u] \in Unsettled
                       /\ state'[u] = "active" => state[u] = "active"
  BY <1>2 DEF Unfinished, Unsettled, On
<1> QED BY <1>2, <1>5, <1>6, <1>7, PlacementKept, TurnKept DEF Chained

\* An object without work is nobody's live object.
LEMMA CleanupStep == ASSUME IInv, CleanupIdle PROVE IInv'
<1> USE DEF IInv
<1>1. /\ \A s \in Sessions : \/ object'[s] = object[s]
                             \/ object'[s] = NoObject /\ object[s] # NoObject /\ Idle(object[s])
      /\ object' \in [Sessions -> Objects \cup {NoObject}]
      /\ UNCHANGED <<used, owner, taskId, state, nextId, active, pending, aged>>
  BY DEF CleanupIdle, TypeOK
<1>2. TypeOK'
  BY <1>1 DEF TypeOK
<1>3. WorkIsLive'
  <2> SUFFICES ASSUME NEW t \in Tasks, state[t] \in Unfinished
               PROVE  object'[owner[t].session] = owner[t].object
    BY <1>1 DEF WorkIsLive
  <2>1. object[owner[t].session] = owner[t].object /\ owner[t].session \in Sessions
        /\ owner[t].object \in Objects
    BY OwnerTyped DEF WorkIsLive, Unfinished
  <2>2. t \in On(owner[t].object, Unfinished) /\ On(owner[t].object, Unfinished) \in SUBSET Tasks
    BY DEF On
  <2>3. Cardinality(On(owner[t].object, Unfinished)) # 0
    BY <2>2, FiniteTasks, FS_EmptySet
  <2>4. ~Idle(object[owner[t].session])
    BY <2>1, <2>3 DEF Idle, CountersTrue
  <2> QED BY <2>1, <2>4, <1>1
<1>4. OneSessionPerObject' /\ Placed'
  BY <1>1 DEF OneSessionPerObject, Placed
<1>5. CountersTrue' /\ Chained'
  BY <1>1 DEF CountersTrue, Chained, On, Turn, Unfinished
<1> QED BY <1>2, <1>3, <1>4, <1>5

LEMMA QuietStep ==
    ASSUME IInv, aged' \subseteq Objects,
           UNCHANGED <<object, used, owner, taskId, state, nextId, active, pending>>
    PROVE  IInv'
<1> USE DEF IInv
<1>1. TypeOK'
  BY DEF TypeOK
<1>2. Placed' /\ OneSessionPerObject' /\ WorkIsLive'
  BY DEF Placed, OneSessionPerObject, WorkIsLive
<1>3. CountersTrue' /\ Chained'
  BY DEF CountersTrue, Chained, On, Turn, Unfinished
<1> QED BY <1>1, <1>2, <1>3

\* Every step preserves the invariant.
LEMMA Inductively == IInv /\ [Next]_vars => IInv'
<1> SUFFICES ASSUME IInv, [Next]_vars PROVE IInv'
  OBVIOUS
<1>1. ASSUME NEW s \in Sessions, NEW t \in Tasks, EnqueueExisting(s, t) PROVE IInv'
  <2>1. object[s] \in Objects
    BY <1>1 DEF EnqueueExisting, IInv, TypeOK
  <2> QED BY <1>1, <2>1, EnqueueStep DEF EnqueueExisting
<1>2. ASSUME NEW s \in Sessions, NEW t \in Tasks, NEW o \in Objects, EnqueueFirst(s, t, o)
      PROVE  IInv'
  BY <1>2, EnqueueStep DEF EnqueueFirst
<1>3. ASSUME NEW t \in Tasks, Start(t) \/ Reject(t) \/ Settle(t) PROVE IInv'
  BY <1>3, StartStep, RejectStep, SettleStep
<1>4. ASSUME NEW s \in Sessions, CancelPending(s) PROVE IInv'
  BY <1>4, CancelStep
<1>5. CASE CleanupIdle
  BY <1>5, CleanupStep
<1>6. ASSUME NEW o \in Objects, Age(o) PROVE IInv'
  <2>1. aged' \subseteq Objects
    BY <1>6 DEF Age, IInv, TypeOK
  <2> QED BY <1>6, <2>1, QuietStep DEF Age
<1>7. CASE UNCHANGED vars
  <2>1. aged' \subseteq Objects
    BY <1>7 DEF vars, IInv, TypeOK
  <2> QED BY <1>7, <2>1, QuietStep DEF vars
<1> QED BY <1>1, <1>2, <1>3, <1>4, <1>5, <1>6, <1>7 DEF Next

----------------------------------------------------------------------------

\* IInv holds in every reachable state.
THEOREM Invariance == Spec => []IInv
BY Initially, Inductively, PTL DEF Spec

\* Every variable keeps its type; no counter goes below zero.
THEOREM TypeCorrect == Spec => []TypeOK
<1>1. IInv => TypeOK
  BY DEF IInv
<1> QED BY <1>1, Invariance, PTL
\* The unfinished work of a session is the unfinished work of its live object.
LEMMA WorkOfSession ==
    ASSUME IInv, NEW s \in Sessions, NEW states \in SUBSET Unfinished
    PROVE  Of(s, states) = IF object[s] = NoObject THEN {} ELSE On(object[s], states)
<1> USE DEF IInv
<1>1. \A t \in Tasks : state[t] \in states =>
          /\ owner[t].object # NoObject
          /\ object[owner[t].session] = owner[t].object
          /\ (object[s] = owner[t].object => owner[t].session = s)
  <2> SUFFICES ASSUME NEW t \in Tasks, state[t] \in states
               PROVE  /\ owner[t].object # NoObject
                      /\ object[owner[t].session] = owner[t].object
                      /\ (object[s] = owner[t].object => owner[t].session = s)
    OBVIOUS
  <2>1. state[t] \in Unfinished /\ state[t] # "new"
    BY DEF Unfinished
  <2>2. owner[t].object \in Objects
    BY <2>1, OwnerTyped
  <2>3. owner[t].object # NoObject
    BY <2>2, UndefinedAssumption
  <2> QED BY <2>1, <2>3 DEF WorkIsLive, OneSessionPerObject
<1>2. CASE object[s] = NoObject
  BY <1>1, <1>2 DEF Of
<1>3. CASE object[s] # NoObject
  BY <1>1, <1>3 DEF Of, On
<1> QED BY <1>2, <1>3

\* Two tasks of a session never run at the same time.
THEOREM Serialised == Spec => []OneRunsPerSession
<1>1. IInv => OneRunsPerSession
  <2> SUFFICES ASSUME IInv, NEW s \in Sessions,
                      NEW t \in Of(s, {"active"}), NEW u \in Of(s, {"active"})
               PROVE  t = u
    BY DEF OneRunsPerSession
  <2>1. t \in Tasks /\ u \in Tasks /\ state[t] = "active" /\ state[u] = "active"
        /\ owner[t].object = owner[u].object
    BY DEF IInv, WorkIsLive, Of, Unfinished
  <2>2. Turn(t) /\ Turn(u)
    BY <2>1 DEF IInv, Chained
  <2>3. taskId[u] >= taskId[t] /\ taskId[t] >= taskId[u]
    BY <2>1, <2>2 DEF Turn, On
  <2>4. taskId[t] \in Nat /\ taskId[u] \in Nat
    BY <2>1 DEF IInv, TypeOK
  <2>5. taskId[t] = taskId[u]
    BY <2>3, <2>4
  <2> QED BY <2>1, <2>5 DEF IInv, Chained
<1> QED BY <1>1, Invariance, PTL

\* The counters that the queue reports are exact.
THEOREM Exact == Spec => []CountsAreExact
<1>1. IInv => CountsAreExact
  <2> SUFFICES ASSUME IInv, NEW s \in Sessions
               PROVE  /\ Cardinality(Of(s, {"queued", "active"}))
                             = IF object[s] # NoObject THEN pending[object[s]] ELSE 0
                      /\ Cardinality(Of(s, {"active"}))
                             = IF object[s] # NoObject THEN active[object[s]] ELSE 0
    BY DEF CountsAreExact
  <2>1. /\ Of(s, Unfinished) = IF object[s] = NoObject THEN {} ELSE On(object[s], Unfinished)
        /\ Of(s, {"active"}) = IF object[s] = NoObject THEN {} ELSE On(object[s], {"active"})
    <3>1. {"active"} \in SUBSET Unfinished /\ Unfinished \in SUBSET Unfinished
      BY DEF Unfinished
    <3> QED BY <3>1, WorkOfSession
  <2>2. CASE object[s] = NoObject
    BY <2>1, <2>2, FS_EmptySet DEF Unfinished
  <2>3. CASE object[s] # NoObject
    <3>1. object[s] \in Objects
      BY <2>3 DEF IInv, TypeOK
    <3> QED BY <2>1, <2>3, <3>1 DEF IInv, CountersTrue, Unfinished
  <2> QED BY <2>2, <2>3
<1> QED BY <1>1, Invariance, PTL

----------------------------------------------------------------------------
(* The refinement of SerialExecutor.                                       *)

\* The mapped variables.
phaseMap == [t \in Tasks |-> Phase(t)]
sessionMap == [t \in Tasks |-> owner[t].session]
aheadMap == [t \in Tasks |-> Before(t)]

\* How the phases read the states.
LEMMA PhaseOf ==
    ASSUME TypeOK, NEW t \in Tasks
    PROVE  /\ Phase(t) = "new" <=> state[t] = "new"
           /\ Phase(t) = "waiting" <=> state[t] = "queued"
           /\ Phase(t) = "running" <=> state[t] = "active"
           /\ Phase(t) = "finished" <=> state[t] = "done"
           /\ Phase(t) = "withdrawn" <=> state[t] \in {"cancelled", "rejected"}
           /\ Phase(t) \in {"new", "waiting", "running", "finished", "withdrawn"}
BY DEF TypeOK, TaskStates, Phase

LEMMA InitMaps == Init => Serial!Init
BY DEF Init, Serial!Init, Phase, Before, Nobody

LEMMA SubmitMaps ==
    ASSUME IInv, IInv', NEW s \in Sessions, NEW t \in Tasks, NEW o \in Objects,
           state[t] = "new", EnqueueOn(s, t, o),
           \/ object[s] = o
           \/ object[s] = NoObject /\ o \notin used
    PROVE  Serial!Submit(s, t)
<1> USE DEF IInv
<1>1. /\ state'[t] = "queued" /\ owner'[t] = [session |-> s, object |-> o]
      /\ taskId'[t] = nextId[o]
      /\ \A u \in Tasks : u # t => /\ state'[u] = state[u] /\ owner'[u] = owner[u]
                                   /\ taskId'[u] = taskId[u]
  BY DEF EnqueueOn, TypeOK
<1>2. phaseMap[t] = "new" /\ phaseMap' = [phaseMap EXCEPT ![t] = "waiting"]
  <2>1. \A u \in Tasks : u # t => Phase(u)' = Phase(u)
    BY <1>1 DEF Phase
  <2>2. Phase(t) = "new" /\ Phase(t)' = "waiting"
    BY <1>1 DEF Phase
  <2> QED BY <2>1, <2>2 DEF phaseMap
<1>3. sessionMap' = [sessionMap EXCEPT ![t] = s]
  <2>1. \A u \in Tasks : owner'[u].session = IF u = t THEN s ELSE owner[u].session
    BY <1>1
  <2> QED BY <2>1 DEF sessionMap
<1>4. Before(t)' = Of(s, Unfinished)
  <2>1. Before(t)' = {u \in Tasks : /\ u # t /\ owner[u].object = o
                                    /\ state[u] \in Unfinished /\ taskId[u] < nextId[o]}
    <3>1. ~(nextId[o] < nextId[o])
      BY DEF TypeOK
    <3> QED BY <1>1, <3>1 DEF Before, On, Unfinished
  <2>2. \A u \in Tasks : owner[u].object = o /\ state[u] \in Unfinished =>
            taskId[u] < nextId[o] /\ u # t
    BY DEF Chained, Unfinished
  <2>3. Before(t)' = On(o, Unfinished)
    BY <2>1, <2>2 DEF On
  <2>4. Of(s, Unfinished) = IF object[s] = NoObject THEN {} ELSE On(object[s], Unfinished)
    BY WorkOfSession
  <2>5. CASE object[s] = o
    BY <2>3, <2>4, <2>5, UndefinedAssumption
  <2>6. CASE object[s] = NoObject /\ o \notin used
    <3>1. On(o, Unfinished) = {}
      BY <2>6, OwnerTyped DEF On, Unfinished
    <3> QED BY <2>3, <2>4, <2>6, <3>1
  <2> QED BY <2>5, <2>6
<1>5. aheadMap' = [aheadMap EXCEPT ![t] = Of(s, Unfinished)]
  <2>1. ASSUME NEW u \in Tasks, u # t PROVE Before(u)' = Before(u)
    <3>1. CASE state[u] # "queued"
      BY <1>1, <2>1, <3>1 DEF Before
    <3>2. CASE state[u] = "queued"
      <4>1. taskId[u] < nextId[owner[u].object] /\ taskId[u] \in Nat
            /\ owner[u].object \in Objects
        BY <3>2, OwnerTyped DEF Chained, TypeOK
      <4>2. ~(owner'[t].object = owner[u].object /\ taskId'[t] < taskId[u])
        BY <1>1, <4>1 DEF TypeOK
      <4> QED BY <1>1, <2>1, <3>2, <4>2 DEF Before, On
    <3> QED BY <3>1, <3>2
  <2> QED BY <2>1, <1>4 DEF aheadMap
<1>6. Serial!Unfinished(s) = Of(s, Unfinished)
  BY PhaseOf DEF Serial!Unfinished, Of, Unfinished
<1> QED BY <1>2, <1>3, <1>5, <1>6 DEF Serial!Submit, phaseMap, sessionMap, aheadMap

LEMMA BeginMaps ==
    ASSUME IInv, IInv', NEW t \in Tasks, Start(t)
    PROVE  Serial!Begin(t)
<1> USE DEF IInv
<1>1. /\ state[t] = "queued" /\ state'[t] = "active"
      /\ \A u \in Tasks : u # t => state'[u] = state[u]
      /\ UNCHANGED <<owner, taskId>>
  BY DEF Start, TypeOK
<1>2. phaseMap[t] = "waiting" /\ phaseMap' = [phaseMap EXCEPT ![t] = "running"]
  BY <1>1 DEF phaseMap, Phase
<1>3. Before(t) = {}
  <2>1. \A u \in On(owner[t].object, {"queued", "active"}) : ~(taskId[u] < taskId[t])
    BY DEF Start, Turn, On, TypeOK
  <2> QED BY <2>1, <1>1 DEF Before
<1>4. aheadMap' = aheadMap
  <2>1. \A u \in Tasks : Before(u)' = Before(u)
    BY <1>1, <1>3 DEF Before, On
  <2> QED BY <2>1 DEF aheadMap
<1> QED BY <1>1, <1>2, <1>3, <1>4 DEF Serial!Begin, phaseMap, aheadMap

LEMMA FinishMaps ==
    ASSUME IInv, NEW t \in Tasks, Settle(t)
    PROVE  Serial!Finish(t)
<1> USE DEF IInv
<1>1. /\ state[t] = "active" /\ state'[t] = "done"
      /\ \A u \in Tasks : u # t => state'[u] = state[u]
      /\ UNCHANGED <<owner, taskId>>
  BY DEF Settle, TypeOK
<1>2. phaseMap[t] = "running" /\ phaseMap' = [phaseMap EXCEPT ![t] = "finished"]
  BY <1>1 DEF phaseMap, Phase
<1>3. \A u \in Tasks : Before(u)' = Before(u) \ {t}
  BY <1>1 DEF Before, On
<1> QED BY <1>1, <1>2, <1>3 DEF Serial!Finish, Serial!OutOfTheWay, phaseMap

LEMMA WithdrawMaps ==
    ASSUME IInv, NEW s \in Sessions, CancelPending(s)
    PROVE  Serial!Withdraw(s)
<1> USE DEF IInv
<1> DEFINE gone == On(object[s], {"queued"})
<1>1. /\ gone # {} /\ object[s] # NoObject
      /\ \A u \in Tasks : state'[u] = IF u \in gone THEN "cancelled" ELSE state[u]
      /\ UNCHANGED <<owner, taskId>>
  BY DEF CancelPending, Cancels
<1>2. gone = {u \in Tasks : owner[u].session = s /\ Phase(u) = "waiting"}
  <2>1. Of(s, {"queued"}) = gone
    BY <1>1, WorkOfSession DEF Unfinished
  <2> QED BY <2>1, PhaseOf DEF Of
<1>3. \A u \in Tasks : Phase(u)' = IF u \in gone THEN "withdrawn" ELSE Phase(u)
  BY <1>1 DEF Phase
<1>4. \A u \in Tasks : Before(u)' = IF u \in gone THEN {} ELSE Before(u) \ gone
  BY <1>1 DEF Before, On
<1> QED BY <1>1, <1>2, <1>3, <1>4 DEF Serial!Withdraw

\* What the executor does not see.
LEMMA QuietMaps ==
    ASSUME UNCHANGED <<owner, taskId>>,
           \/ UNCHANGED state
           \/ \E t \in Tasks : TypeOK /\ Reject(t)
    PROVE  UNCHANGED Serial!vars
<1>1. CASE UNCHANGED state
  BY <1>1 DEF Serial!vars, Phase, Before, On
<1>2. ASSUME NEW t \in Tasks, TypeOK, Reject(t) PROVE UNCHANGED Serial!vars
  <2>1. /\ state[t] = "cancelled" /\ state'[t] = "rejected"
        /\ \A u \in Tasks : u # t => state'[u] = state[u]
    BY <1>2 DEF Reject, TypeOK
  <2>2. \A u \in Tasks : Phase(u)' = Phase(u)
    BY <2>1 DEF Phase
  <2>3. \A u \in Tasks : Before(u)' = Before(u)
    BY <2>1 DEF Before, On
  <2> QED BY <2>2, <2>3 DEF Serial!vars
<1> QED BY <1>1, <1>2

\* The session queue implements a serial executor: one task of a session at
\* a time, in the order of the enqueue calls, whatever is cancelled, cleaned
\* up or thrown in between.
THEOREM Implements == Spec => IsSerialExecutor
<1>1. IInv /\ IInv' /\ [Next]_vars => [Serial!Next]_(Serial!vars)
  <2> SUFFICES ASSUME IInv, IInv', [Next]_vars PROVE [Serial!Next]_(Serial!vars)
    OBVIOUS
  <2>1. ASSUME NEW s \in Sessions, NEW t \in Tasks, EnqueueExisting(s, t)
        PROVE  Serial!Submit(s, t)
    <3>1. object[s] \in Objects
      BY <2>1 DEF EnqueueExisting, IInv, TypeOK
    <3> QED BY <2>1, <3>1, SubmitMaps DEF EnqueueExisting
  <2>2. ASSUME NEW s \in Sessions, NEW t \in Tasks, NEW o \in Objects, EnqueueFirst(s, t, o)
        PROVE  Serial!Submit(s, t)
    BY <2>2, SubmitMaps DEF EnqueueFirst
  <2>3. ASSUME NEW t \in Tasks, Start(t) PROVE Serial!Begin(t)
    BY <2>3, BeginMaps
  <2>4. ASSUME NEW t \in Tasks, Settle(t) PROVE Serial!Finish(t)
    BY <2>4, FinishMaps
  <2>5. ASSUME NEW t \in Tasks, Reject(t) PROVE UNCHANGED Serial!vars
    BY <2>5, QuietMaps DEF Reject, IInv
  <2>6. ASSUME NEW s \in Sessions, CancelPending(s) PROVE Serial!Next
    <3>1. PICK t \in Tasks : t \in Cancels(object[s])
      BY <2>6 DEF CancelPending, Cancels, On
    <3>2. Serial!Withdraw(s)
      BY <2>6, WithdrawMaps
    <3> QED BY <3>1, <3>2 DEF Serial!Next
  <2>7. CASE CleanupIdle
    BY <2>7, QuietMaps DEF CleanupIdle
  <2>8. ASSUME NEW o \in Objects, Age(o) PROVE UNCHANGED Serial!vars
    BY <2>8, QuietMaps DEF Age
  <2>9. CASE UNCHANGED vars
    BY <2>9, QuietMaps DEF vars
  <2> QED BY <2>1, <2>2, <2>3, <2>4, <2>5, <2>6, <2>7, <2>8, <2>9 DEF Next, Serial!Next
<1> QED BY <1>1, InitMaps, Invariance, PTL DEF Spec, IsSerialExecutor, Serial!Spec

----------------------------------------------------------------------------
(* The runs and the stop.                                                   *)

\* A run's place says what the queue makes of its task.
Staged ==
    \A r \in Runs :
        /\ phase[r] = "new" <=> place[r] \in {"unwritten", "written"}
        /\ phase[r] = "running" <=>
               place[r] \in {"prepare", "opening", "requesting", "waiting", "closing"}
        /\ phase[r] = "finished" <=> place[r] = "left"
        /\ place[r] # "unwritten" => home[r] \in SessionKeys

\* Before its request a run has no turn.
Early == {"unwritten", "written", "arrived", "prepare", "opening"}
Unasked == \A r \in Runs : place[r] \in Early => turn[r] = "none"

\* A stop finds every run that listens, and the signal of one that a stop has
\* found and that has not asked yet is aborted.
InReach ==
    \A r \in Runs :
        /\ Listening(r) => r \in controllers \cup aborted
        /\ place[r] = "opening" /\ r \in older => r \in aborted

\* Only older work is aborted, and while a stop awaits nothing, only older work
\* is in its session's queue.
AbortedIsOlder == aborted \subseteq older
QueuedIsOlder ==
    \A k \in Stops, r \in Runs :
        /\ Interrupting(k) /\ aimed[k] = {}
        /\ home[r] = stop[k].session /\ phase[r] = "waiting"
        => r \in older

\* A record is of a turn that the app server has begun; so is what a stop
\* aims at, and what it has interrupted is no longer in progress.
Begun(status) == status \notin {"none", "asked"}
Broken(status) == status \notin {"none", "asked", "inProgress"}
KnownTurns ==
    /\ \A r \in Runs : tracked[r] # NoTurn => Begun(turn[tracked[r]])
    /\ \A k \in Stops :
          /\ \A rec \in aimed[k] : Begun(turn[rec.turn])
          /\ \A rec \in sent[k] : Broken(turn[rec.turn])

\* A stop answers once, and neither "stopped" nor "idle" after a failure.
Answers ==
    \A k \in Stops :
        /\ stop[k].state # "new" => stop[k].session \in SessionKeys
        /\ verdict[k] # "none" => stop[k].state = "answered"
        /\ verdict[k] \in {"stopped", "idle"} => aimed[k] \subseteq sent[k]

\* Of two unfinished tasks of a session one is ahead of the other, and nothing
\* is ahead of one that runs.
InLine ==
    /\ \A r \in Runs : phase[r] = "running" => ahead[r] = {}
    /\ \A r, q \in Runs :
          /\ r # q /\ home[r] = home[q]
          /\ phase[r] \in {"waiting", "running"} /\ phase[q] \in {"waiting", "running"}
          => r \in ahead[q] \/ q \in ahead[r]

RunInv ==
    /\ RunTypeOK /\ Staged /\ Unasked /\ InReach /\ KnownTurns /\ Answers
    /\ InLine /\ AbortedIsOlder /\ QueuedIsOlder /\ RecordsAreOfRunningTasks

\* Two messages of a session are never between queue and answer together.
OneRunAtATime ==
    \A r, q \in Runs :
        phase[r] = "running" /\ phase[q] = "running" /\ home[r] = home[q] => r = q

----------------------------------------------------------------------------

Phases == {"new", "waiting", "running", "finished", "withdrawn"}

LEMMA RunInitially == RunInit => RunInv
<1> SUFFICES ASSUME RunInit PROVE RunInv
  OBVIOUS
<1>1. RunTypeOK
  BY DEF RunInit, RunTypeOK, Places, Queue!Init, Gone
<1>2. Staged /\ Unasked /\ InReach
  BY DEF RunInit, Staged, Unasked, InReach, Listening, Queue!Init
<1>3. KnownTurns /\ Answers
  BY DEF RunInit, KnownTurns, Answers
<1>4. InLine /\ AbortedIsOlder /\ QueuedIsOlder /\ RecordsAreOfRunningTasks
  BY DEF RunInit, InLine, AbortedIsOlder, QueuedIsOlder, Interrupting, RecordsAreOfRunningTasks,
         Queue!Init
<1> QED
  BY <1>1, <1>2, <1>3, <1>4 DEF RunInv

\* The queue's own steps keep its types.
LEMMA QueueTypes ==
    ASSUME RunTypeOK, NEW s \in SessionKeys,
           \/ Queue!Withdraw(s)
           \/ \E r \in Runs : Queue!Submit(s, r) \/ Queue!Begin(r) \/ Queue!Finish(r)
    PROVE  phase' \in [Runs -> Phases] /\ ahead' \in [Runs -> SUBSET Runs]
<1>0. phase \in [Runs -> Phases] /\ ahead \in [Runs -> SUBSET Runs]
  BY DEF RunTypeOK, Phases
<1>1. ASSUME NEW r \in Runs, Queue!Submit(s, r)
      PROVE  phase' \in [Runs -> Phases] /\ ahead' \in [Runs -> SUBSET Runs]
  BY <1>0, <1>1 DEF Queue!Submit, Queue!Unfinished, Phases
<1>2. ASSUME NEW r \in Runs, Queue!Begin(r) \/ Queue!Finish(r)
      PROVE  phase' \in [Runs -> Phases] /\ ahead' \in [Runs -> SUBSET Runs]
  BY <1>0, <1>2 DEF Queue!Begin, Queue!Finish, Queue!OutOfTheWay, Phases
<1>3. ASSUME Queue!Withdraw(s)
      PROVE  phase' \in [Runs -> Phases] /\ ahead' \in [Runs -> SUBSET Runs]
  BY <1>0, <1>3 DEF Queue!Withdraw, Phases
<1> QED
  BY <1>1, <1>2, <1>3

LEMMA RunTypesStep ==
    ASSUME RunInv, [RunNext]_runVars
    PROVE  RunTypeOK'
<1> USE DEF RunInv, Go, queue, run, stops, Places, Gone
<1>0. RunTypeOK /\ Staged
  OBVIOUS
<1>1. ASSUME NEW r \in Runs, Arrive(r) PROVE RunTypeOK'
  <2>1. home[r] \in SessionKeys
    BY <1>0, <1>1 DEF Arrive, Staged
  <2>2. phase' \in [Runs -> Phases] /\ ahead' \in [Runs -> SUBSET Runs]
    BY <2>1, <1>0, <1>1, QueueTypes DEF Arrive
  <2> QED
    BY <2>2, <1>0, <1>1 DEF Arrive, RunTypeOK, Phases
<1>2. ASSUME NEW r \in Runs, Take(r) \/ Skip(r) \/ Leave(r) PROVE RunTypeOK'
  <2>1. home[r] \in SessionKeys
    BY <1>0, <1>2 DEF Take, Skip, Leave, Staged
  <2>2. phase' \in [Runs -> Phases] /\ ahead' \in [Runs -> SUBSET Runs]
    BY <2>1, <1>0, <1>2, QueueTypes DEF Take, Skip, Leave
  <2>3. place' \in [Runs -> Places]
    <3>1. place \in [Runs -> Places]
      BY <1>0 DEF RunTypeOK
    <3>2. place' = [place EXCEPT ![r] = "prepare"] \/ place' = [place EXCEPT ![r] = "left"]
      BY <1>2 DEF Take, Skip, Leave
    <3> QED
      BY <3>1, <3>2
  <2>4. UNCHANGED <<setup, home, older, controllers, aborted, heard, tracked, outcome, turn, stops>>
    BY <1>2 DEF Take, Skip, Leave
  <2> QED
    BY <2>2, <2>3, <2>4, <1>0 DEF RunTypeOK, Phases
<1>3. ASSUME NEW r \in Runs, Register(r) PROVE RunTypeOK'
  BY <1>0, <1>3 DEF Register, RunTypeOK
<1>4. ASSUME NEW r \in Runs, Ask(r) PROVE RunTypeOK'
  BY <1>0, <1>4 DEF Ask, RunTypeOK
<1>5. ASSUME NEW r \in Runs, Answered(r) PROVE RunTypeOK'
  BY <1>0, <1>5 DEF Answered, RunTypeOK, Track, RecordOf
<1>6. ASSUME NEW r \in Runs, Complete(r) \/ GiveUp(r) PROVE RunTypeOK'
  <2>1. PICK status \in {"completed", "failed", "cancelled"} : End(r, status)
    BY <1>6 DEF Complete, GiveUp, Unhappy
  <2> QED
    BY <2>1, <1>0 DEF End, RunTypeOK, RecordAfter
<1>7. ASSUME NEW r \in Runs, TurnStarts(r) PROVE RunTypeOK'
  BY <1>0, <1>7 DEF TurnStarts, RunTypeOK, Track, RecordOf
<1>8. ASSUME NEW r \in Runs, NEW s \in SessionKeys, Write(r, s) PROVE RunTypeOK'
  BY <1>0, <1>8 DEF Write, RunTypeOK
<1>9. ASSUME NEW r \in Runs, NEW status \in {"completed", "failed", "interrupted"},
             TurnEnds(r, status)
      PROVE  RunTypeOK'
  BY <1>0, <1>9 DEF TurnEnds, RunTypeOK
<1>10. ASSUME NEW k \in Stops, NEW s \in SessionKeys, StopBlocked(k, s) PROVE RunTypeOK'
  BY <1>0, <1>10 DEF StopBlocked, RunTypeOK
<1>11. ASSUME NEW k \in Stops, NEW s \in SessionKeys, StopBegins(k, s) PROVE RunTypeOK'
  <2>1. aimed' \in [Stops -> SUBSET [run : Runs, turn : Runs]]
    <3>1. \A q \in Written(s) : q \in Runs /\ (tracked[q] # NoTurn => tracked[q] \in Runs)
      BY <1>0 DEF Written, RunTypeOK
    <3>2. {[run |-> q, turn |-> tracked[q]] : q \in {p \in Written(s) : tracked[p] # NoTurn}}
              \in SUBSET [run : Runs, turn : Runs]
      BY <3>1
    <3> QED
      BY <3>2, <1>0, <1>11 DEF StopBegins, RunTypeOK
  <2>2. stop' \in [Stops -> [session : SessionKeys \cup {NoKey},
                             state : {"new", "interrupting", "interrupting, aborted some",
                                      "answered"}]]
    BY <1>0, <1>11 DEF StopBegins, RunTypeOK
  <2>3. older' \subseteq Runs /\ controllers' \subseteq Runs /\ aborted' \subseteq Runs
    BY <1>0, <1>11 DEF StopBegins, RunTypeOK, ControllersOf, Written
  <2> QED
    BY <2>1, <2>2, <2>3, <1>0, <1>11 DEF StopBegins, RunTypeOK
<1>12. ASSUME NEW k \in Stops, InterruptSent(k) \/ InterruptFails(k) PROVE RunTypeOK'
  <2>1. CASE InterruptSent(k)
    <3>1. PICK rec \in Due(k) :
              /\ sent' = [sent EXCEPT ![k] = @ \cup {rec}]
              /\ turn' = IF turn[rec.turn] = "inProgress"
                         THEN [turn EXCEPT ![rec.turn] = "stopping"] ELSE turn
      BY <2>1 DEF InterruptSent
    <3>2. rec \in [run : Runs, turn : Runs]
      BY <1>0 DEF Due, RunTypeOK
    <3>3. /\ sent' \in [Stops -> SUBSET [run : Runs, turn : Runs]]
          /\ turn' \in [Runs -> {"none", "asked", "inProgress", "stopping"} \cup Gone]
      <4>1. /\ sent \in [Stops -> SUBSET [run : Runs, turn : Runs]]
            /\ turn \in [Runs -> {"none", "asked", "inProgress", "stopping"} \cup Gone]
        BY <1>0 DEF RunTypeOK
      <4>2. sent' \in [Stops -> SUBSET [run : Runs, turn : Runs]]
        BY <4>1, <3>1, <3>2
      <4> QED
        BY <4>1, <4>2, <3>1
    <3> QED
      BY <2>1, <3>3, <1>0 DEF InterruptSent, RunTypeOK
  <2>2. CASE InterruptFails(k)
    <3>1. PICK rec \in Due(k) : failed' = [failed EXCEPT ![k] = @ \cup {rec}]
      BY <2>2 DEF InterruptFails
    <3>2. rec \in [run : Runs, turn : Runs]
      BY <1>0 DEF Due, RunTypeOK
    <3>3. failed' \in [Stops -> SUBSET [run : Runs, turn : Runs]]
      <4>1. failed \in [Stops -> SUBSET [run : Runs, turn : Runs]]
        BY <1>0 DEF RunTypeOK
      <4> QED
        BY <4>1, <3>1, <3>2
    <3> QED
      BY <2>2, <3>3, <1>0 DEF InterruptFails, RunTypeOK
  <2> QED
    BY <1>12, <2>1, <2>2
<1>13. ASSUME NEW k \in Stops, StopAnswers(k) PROVE RunTypeOK'
  <2>1. stop[k].session \in SessionKeys
    BY <1>0, <1>13 DEF StopAnswers, Answers, Interrupting
  <2>2. phase' \in [Runs -> Phases] /\ ahead' \in [Runs -> SUBSET Runs]
    BY <2>1, <1>0, <1>13, QueueTypes DEF StopAnswers, RunTypeOK, Phases
  <2>3. verdict' \in [Stops -> {"none", "stopped", "idle", "blocked", "partial"}]
    BY <1>0, <1>13 DEF StopAnswers, RunTypeOK, Verdict
  <2>4. stop' \in [Stops -> [session : SessionKeys \cup {NoKey},
                             state : {"new", "interrupting", "interrupting, aborted some",
                                      "answered"}]]
    <3>1. stop \in [Stops -> [session : SessionKeys \cup {NoKey},
                              state : {"new", "interrupting", "interrupting, aborted some",
                                       "answered"}]]
      BY <1>0 DEF RunTypeOK
    <3> QED
      BY <3>1, <1>13 DEF StopAnswers
  <2> QED
    BY <2>2, <2>3, <2>4, <1>0, <1>13 DEF StopAnswers, RunTypeOK, Phases
<1>14. CASE UNCHANGED runVars
  BY <1>0, <1>14 DEF runVars, RunTypeOK
<1> QED
  BY <1>1, <1>2, <1>3, <1>4, <1>5, <1>6, <1>7, <1>8, <1>9, <1>10, <1>11, <1>12, <1>13, <1>14
  DEF RunNext, Proceed

----------------------------------------------------------------------------
(* What a step may do to the queue, to a place and to a turn.               *)

InRun == {"prepare", "opening", "requesting", "waiting", "closing"}

\* A run's own steps between its task's begin and end.
OwnStep(r) == Register(r) \/ Ask(r) \/ Answered(r) \/ Complete(r) \/ GiveUp(r)

\* The steps of the app server and of a stop that leave the queue alone.
Aside ==
    \/ \E r \in Runs :
          \/ TurnStarts(r)
          \/ \E status \in {"completed", "failed", "interrupted"} : TurnEnds(r, status)
    \/ \E k \in Stops :
          \/ \E s \in SessionKeys : StopBlocked(k, s) \/ StopBegins(k, s)
          \/ InterruptSent(k) \/ InterruptFails(k)

LEMMA OwnStepMoves ==
    ASSUME NEW r \in Runs, OwnStep(r)
    PROVE  /\ UNCHANGED <<phase, ahead, home, older, stops>>
           /\ place[r] \in InRun \ {"closing"}
           /\ \E where \in InRun \ {"prepare"} : Go(r, where)
  BY DEF OwnStep, Register, Ask, Answered, Complete, GiveUp, End, Listening, queue, InRun

LEMMA AsideMoves ==
    ASSUME Aside
    PROVE  UNCHANGED <<phase, ahead, home, place, outcome>>
  BY DEF Aside, TurnStarts, TurnEnds, StopBlocked, StopBegins, InterruptSent, InterruptFails,
         queue, run

LEMMA AnswerMoves ==
    ASSUME NEW k \in Stops, StopAnswers(k), phase \in [Runs -> Phases],
           ahead \in [Runs -> SUBSET Runs]
    PROVE  /\ UNCHANGED <<home, place>>
           /\ \E gone \in SUBSET {r \in Runs : phase[r] = "waiting"} :
                 /\ phase' = [r \in Runs |-> IF r \in gone THEN "withdrawn" ELSE phase[r]]
                 /\ ahead' = [r \in Runs |-> IF r \in gone THEN {} ELSE ahead[r] \ gone]
<1>1. UNCHANGED <<home, place>>
  BY DEF StopAnswers, run
<1>2. CASE UNCHANGED queue
  <2>1. /\ phase' = [r \in Runs |-> IF r \in {} THEN "withdrawn" ELSE phase[r]]
        /\ ahead' = [r \in Runs |-> IF r \in {} THEN {} ELSE ahead[r] \ {}]
    BY <1>2 DEF queue
  <2> QED
    BY <1>1, <2>1
<1>3. CASE Queue!Withdraw(stop[k].session)
  BY <1>1, <1>3 DEF Queue!Withdraw
<1> QED
  BY <1>2, <1>3 DEF StopAnswers

LEMMA Cases ==
    ASSUME [RunNext]_runVars
    PROVE  \/ \E r \in Runs :
                 \/ Arrive(r) \/ Take(r) \/ Skip(r) \/ Leave(r) \/ OwnStep(r)
                 \/ \E s \in SessionKeys : Write(r, s)
           \/ \E k \in Stops : StopAnswers(k)
           \/ Aside
           \/ UNCHANGED runVars
  BY DEF RunNext, Proceed, OwnStep, Aside

\* Places are passed in one direction.
LEMMA PlacesMove ==
    ASSUME RunTypeOK, [RunNext]_runVars, NEW r \in Runs
    PROVE  /\ place'[r] \in Early => place[r] \in Early
           /\ place'[r] \in {"opening", "requesting", "waiting"} =>
                  Listening(r) \/ Register(r)
           /\ place'[r] = "opening" => place[r] = "opening" \/ Register(r)
<1>0. place \in [Runs -> Places]
  BY DEF RunTypeOK
<1> USE DEF Go, Early, Listening
<1>1. ASSUME NEW q \in Runs, Arrive(q) \/ Take(q) \/ Skip(q) \/ Leave(q)
      PROVE  \/ place[q] = "written" /\ Go(q, "arrived")
             \/ place[q] = "arrived" /\ Go(q, "prepare")
             \/ place[q] \in {"prepare", "closing"} /\ Go(q, "left")
  BY <1>1 DEF Arrive, Take, Skip, Leave
<1>2. ASSUME NEW q \in Runs, NEW s \in SessionKeys, Write(q, s)
      PROVE  place[q] = "unwritten" /\ Go(q, "written")
  BY <1>2 DEF Write
<1>3. ASSUME NEW q \in Runs, OwnStep(q)
      PROVE  \/ Register(q) /\ place[q] = "prepare" /\ Go(q, "opening")
             \/ place[q] = "opening" /\ Go(q, "requesting")
             \/ place[q] = "requesting" /\ Go(q, "waiting")
             \/ Listening(q) /\ Go(q, "closing")
  BY <1>3 DEF OwnStep, Register, Ask, Answered, Complete, GiveUp, End
<1>4. ASSUME (\E k \in Stops : StopAnswers(k)) \/ Aside \/ UNCHANGED runVars
      PROVE  UNCHANGED place
  BY <1>4, AsideMoves DEF StopAnswers, run, runVars
<1> QED
  BY <1>0, <1>1, <1>2, <1>3, <1>4, Cases

\* A turn that has begun goes on to its end; one that has ended stays so.
LEMMA TurnsMove ==
    ASSUME RunTypeOK, Unasked, [RunNext]_runVars, NEW q \in Runs
    PROVE  /\ Begun(turn[q]) => Begun(turn'[q])
           /\ Broken(turn[q]) => Broken(turn'[q])
           /\ turn[q] \in Gone => turn'[q] = turn[q]
           /\ turn[q] = "none" => turn'[q] = "none" \/ Ask(q)
<1>0. turn \in [Runs -> {"none", "asked", "inProgress", "stopping"} \cup Gone]
  BY DEF RunTypeOK
<1> USE DEF Begun, Broken, Gone
<1>1. ASSUME NEW r \in Runs, Ask(r)
      PROVE  turn[r] = "none" /\ turn' = [turn EXCEPT ![r] = "asked"]
  BY <1>1 DEF Ask, Unasked, Early
<1>2. ASSUME NEW r \in Runs, Complete(r) \/ GiveUp(r)
      PROVE  \/ turn' = turn
             \/ /\ turn[r] \notin {"none"} \cup Gone
                /\ turn' = [turn EXCEPT ![r] = "gone"]
  <2>1. \E status : End(r, status)
    BY <1>2 DEF Complete, GiveUp
  <2> QED
    BY <2>1 DEF End
<1>3. ASSUME NEW r \in Runs, TurnStarts(r)
      PROVE  turn[r] = "asked" /\ turn' = [turn EXCEPT ![r] = "inProgress"]
  BY <1>3 DEF TurnStarts
<1>4. ASSUME NEW r \in Runs, NEW status \in {"completed", "failed", "interrupted"},
             TurnEnds(r, status)
      PROVE  turn[r] \in {"inProgress", "stopping"} /\ turn' = [turn EXCEPT ![r] = status]
  BY <1>4 DEF TurnEnds
<1>5. ASSUME NEW k \in Stops, InterruptSent(k)
      PROVE  \/ turn' = turn
             \/ \E r \in Runs : turn[r] = "inProgress" /\ turn' = [turn EXCEPT ![r] = "stopping"]
  <2>1. aimed[k] \subseteq [run : Runs, turn : Runs]
    BY DEF RunTypeOK
  <2> QED
    BY <1>5, <2>1 DEF InterruptSent, Due
<1>6. ASSUME \/ \E r \in Runs :
                   \/ Arrive(r) \/ Take(r) \/ Skip(r) \/ Leave(r) \/ Register(r) \/ Answered(r)
                   \/ \E s \in SessionKeys : Write(r, s)
             \/ \E k \in Stops :
                   \/ \E s \in SessionKeys : StopBlocked(k, s) \/ StopBegins(k, s)
                   \/ InterruptFails(k) \/ StopAnswers(k)
             \/ UNCHANGED runVars
      PROVE  turn' = turn
  BY <1>6 DEF Arrive, Take, Skip, Leave, Register, Answered, Write, StopBlocked, StopBegins,
              InterruptFails, StopAnswers, runVars
<1> QED
  <2>1. CASE turn' = turn
    BY <2>1
  <2>2. CASE \E r \in Runs : Ask(r)
    BY <2>2, <1>0, <1>1
  <2>3. CASE \E r \in Runs : Complete(r) \/ GiveUp(r)
    BY <2>3, <1>0, <1>2
  <2>4. CASE \E r \in Runs : TurnStarts(r)
    BY <2>4, <1>0, <1>3
  <2>5. CASE \E r \in Runs : \E status \in {"completed", "failed", "interrupted"} :
                 TurnEnds(r, status)
    BY <2>5, <1>0, <1>4
  <2>6. CASE \E k \in Stops : InterruptSent(k)
    BY <2>6, <1>0, <1>5
  <2> QED
    BY <1>6, <2>1, <2>2, <2>3, <2>4, <2>5, <2>6 DEF RunNext, Proceed

----------------------------------------------------------------------------
(* The parts of the invariant, one by one.                                  *)

LEMMA StagedStep ==
    ASSUME RunInv, [RunNext]_runVars
    PROVE  Staged'
<1>0. /\ Staged
      /\ phase \in [Runs -> Phases]
      /\ ahead \in [Runs -> SUBSET Runs]
      /\ place \in [Runs -> Places]
      /\ home \in [Runs -> SessionKeys \cup {NoKey}]
  BY DEF RunInv, RunTypeOK, Phases
<1> USE DEF Go
<1>1. ASSUME NEW r \in Runs, NEW s \in SessionKeys, Write(r, s) PROVE Staged'
  BY <1>0, <1>1 DEF Write, Staged, queue
<1>2. ASSUME NEW r \in Runs, Arrive(r) PROVE Staged'
  BY <1>0, <1>2 DEF Arrive, Staged, Queue!Submit
<1>3. ASSUME NEW r \in Runs, Take(r) PROVE Staged'
  BY <1>0, <1>3 DEF Take, Staged, Queue!Begin
<1>4. ASSUME NEW r \in Runs, Skip(r) \/ Leave(r) PROVE Staged'
  BY <1>0, <1>4 DEF Skip, Leave, Staged, Queue!Finish
<1>5. ASSUME NEW r \in Runs, OwnStep(r) PROVE Staged'
  <2>1. PICK where \in InRun : Go(r, where)
    BY <1>5, OwnStepMoves
  <2> QED
    BY <1>0, <1>5, <2>1, OwnStepMoves DEF Staged, InRun
<1>6. ASSUME NEW k \in Stops, StopAnswers(k) PROVE Staged'
  <2>1. PICK gone \in SUBSET {r \in Runs : phase[r] = "waiting"} :
            phase' = [r \in Runs |-> IF r \in gone THEN "withdrawn" ELSE phase[r]]
    BY <1>0, <1>6, AnswerMoves
  <2>2. UNCHANGED <<place, home>>
    BY <1>0, <1>6, AnswerMoves
  <2> QED
    BY <1>0, <2>1, <2>2 DEF Staged
<1>7. CASE Aside \/ UNCHANGED runVars
  BY <1>0, <1>7, AsideMoves DEF Staged, runVars, queue, run
<1> QED
  BY <1>1, <1>2, <1>3, <1>4, <1>5, <1>6, <1>7, Cases

LEMMA InLineStep ==
    ASSUME RunInv, [RunNext]_runVars
    PROVE  InLine'
<1>0. /\ Staged /\ InLine
      /\ phase \in [Runs -> Phases]
      /\ ahead \in [Runs -> SUBSET Runs]
      /\ home \in [Runs -> SessionKeys \cup {NoKey}]
  BY DEF RunInv, RunTypeOK, Phases
<1> USE DEF Go
<1>1. ASSUME NEW r \in Runs, NEW s \in SessionKeys, Write(r, s) PROVE InLine'
  <2>1. phase[r] = "new"
    BY <1>0, <1>1 DEF Write, Staged
  <2> QED
    BY <1>0, <1>1, <2>1 DEF Write, InLine, queue
<1>2. ASSUME NEW r \in Runs, Arrive(r) PROVE InLine'
  <2>1. /\ phase[r] = "new"
        /\ phase' = [phase EXCEPT ![r] = "waiting"]
        /\ ahead' = [ahead EXCEPT ![r] = {t \in Runs : /\ (IF phase[t] = "new" THEN NoKey ELSE home[t]) = home[r]
                                                     /\ phase[t] \in {"waiting", "running"}}]
        /\ home' = home
    BY <1>2 DEF Arrive, Queue!Submit, Queue!Unfinished
  <2> QED
    BY <1>0, <2>1 DEF InLine
<1>3. ASSUME NEW r \in Runs, Take(r) PROVE InLine'
  BY <1>0, <1>3 DEF Take, InLine, Queue!Begin
<1>4. ASSUME NEW r \in Runs, Skip(r) \/ Leave(r) PROVE InLine'
  BY <1>0, <1>4 DEF Skip, Leave, InLine, Queue!Finish, Queue!OutOfTheWay
<1>5. ASSUME NEW k \in Stops, StopAnswers(k) PROVE InLine'
  BY <1>0, <1>5, AnswerMoves DEF InLine
<1>6. CASE (\E r \in Runs : OwnStep(r)) \/ Aside \/ UNCHANGED runVars
  BY <1>0, <1>6, OwnStepMoves, AsideMoves DEF InLine, runVars, queue, run
<1> QED
  BY <1>1, <1>2, <1>3, <1>4, <1>5, <1>6, Cases

LEMMA UnaskedStep ==
    ASSUME RunInv, [RunNext]_runVars
    PROVE  Unasked'
<1> SUFFICES ASSUME NEW r \in Runs, place'[r] \in Early PROVE turn'[r] = "none"
  BY DEF Unasked, Early
<1>1. RunTypeOK /\ Unasked
  BY DEF RunInv
<1>2. turn[r] = "none"
  BY <1>1, PlacesMove DEF Unasked
<1>3. ~ Ask(r)
  BY <1>1 DEF Ask, Go, Early, RunTypeOK
<1> QED
  BY <1>1, <1>2, <1>3, TurnsMove

LEMMA InReachStep ==
    ASSUME RunInv, [RunNext]_runVars
    PROVE  InReach'
<1>0. RunTypeOK /\ InReach
  BY DEF RunInv
<1> SUFFICES ASSUME NEW r \in Runs
             PROVE  /\ place'[r] \in {"opening", "requesting", "waiting"} =>
                          r \in controllers' \cup aborted'
                    /\ place'[r] = "opening" /\ r \in older' => r \in aborted'
  BY DEF InReach, Listening
<1>1. CASE Register(r)
  BY <1>0, <1>1 DEF Register, CutOff
<1>2. CASE (\E q \in Runs : q # r /\ Register(q)) /\ ~ Register(r)
  BY <1>0, <1>2, PlacesMove DEF Register, InReach
<1>3. ASSUME NEW k \in Stops, NEW s \in SessionKeys, StopBegins(k, s), ~ Register(r)
      PROVE  /\ place'[r] \in {"opening", "requesting", "waiting"} =>
                   r \in controllers' \cup aborted'
             /\ place'[r] = "opening" /\ r \in older' => r \in aborted'
  BY <1>0, <1>3, PlacesMove DEF StopBegins, InReach, ControllersOf, Listening
<1>4. CASE UNCHANGED <<older, controllers, aborted>> /\ ~ Register(r)
  BY <1>0, <1>4, PlacesMove DEF InReach
<1>5. \/ UNCHANGED <<older, controllers, aborted>>
      \/ \E q \in Runs : Register(q)
      \/ \E k \in Stops, s \in SessionKeys : StopBegins(k, s)
  BY DEF RunNext, Proceed, Write, Arrive, Take, Skip, Ask, Answered, Complete, GiveUp, Leave, End,
         TurnStarts, TurnEnds, StopBlocked, InterruptSent, InterruptFails, StopAnswers, run,
         runVars
<1> QED
  BY <1>1, <1>2, <1>3, <1>4, <1>5

LEMMA KnownTurnsStep ==
    ASSUME RunInv, [RunNext]_runVars
    PROVE  KnownTurns'
<1>0. RunTypeOK /\ Unasked /\ KnownTurns
  BY DEF RunInv
<1>1. \A q \in Runs :
          /\ Begun(turn[q]) => Begun(turn'[q])
          /\ Broken(turn[q]) => Broken(turn'[q])
  BY <1>0, TurnsMove
<1>2. ASSUME NEW r \in Runs, tracked'[r] # NoTurn
      PROVE  Begun(turn'[tracked'[r]])
  <2>0. /\ tracked \in [Runs -> Runs \cup {NoTurn}]
        /\ turn \in [Runs -> {"none", "asked", "inProgress", "stopping"} \cup Gone]
        /\ \A q \in Runs : tracked[q] # NoTurn => Begun(turn[tracked[q]])
    BY <1>0 DEF RunTypeOK, KnownTurns
  <2>1. CASE tracked'[r] = tracked[r]
    BY <1>1, <1>2, <2>0, <2>1
  <2>2. ASSUME NEW q \in Runs, Answered(q), tracked'[r] # tracked[r]
        PROVE  Begun(turn'[tracked'[r]])
    BY <1>1, <1>2, <2>0, <2>2 DEF Answered, Track, RecordOf, Begun
  <2>3. ASSUME NEW q \in Runs, TurnStarts(q), tracked'[r] # tracked[r]
        PROVE  Begun(turn'[tracked'[r]])
    BY <1>2, <2>0, <2>3 DEF TurnStarts, Track, RecordOf, Begun
  <2>4. ASSUME NEW q \in Runs, Complete(q) \/ GiveUp(q)
        PROVE  tracked'[r] = tracked[r]
    <3>1. tracked' = [tracked EXCEPT ![q] = NoTurn]
      BY <2>4 DEF Complete, GiveUp, End, RecordAfter
    <3> QED
      BY <3>1, <2>0, <1>2
  <2>5. \/ UNCHANGED tracked
        \/ \E q \in Runs : Answered(q) \/ TurnStarts(q) \/ Complete(q) \/ GiveUp(q)
    BY DEF RunNext, Proceed, Write, Arrive, Take, Skip, Register, Ask, Leave, TurnEnds,
           StopBlocked, StopBegins, InterruptSent, InterruptFails, StopAnswers, run, runVars
  <2> QED
    BY <2>1, <2>2, <2>3, <2>4, <2>5
<1>3. ASSUME NEW k \in Stops
      PROVE  /\ \A rec \in aimed'[k] : Begun(turn'[rec.turn])
             /\ \A rec \in sent'[k] : Broken(turn'[rec.turn])
  <2>0. /\ aimed \in [Stops -> SUBSET [run : Runs, turn : Runs]]
        /\ sent \in [Stops -> SUBSET [run : Runs, turn : Runs]]
        /\ \A rec \in aimed[k] : rec.turn \in Runs /\ Begun(turn[rec.turn])
        /\ \A rec \in sent[k] : rec.turn \in Runs /\ Broken(turn[rec.turn])
    <3>1. /\ aimed \in [Stops -> SUBSET [run : Runs, turn : Runs]]
          /\ sent \in [Stops -> SUBSET [run : Runs, turn : Runs]]
      BY <1>0 DEF RunTypeOK
    <3>2. \A rec \in aimed[k] \cup sent[k] : rec.turn \in Runs
      BY <3>1
    <3>3. /\ \A rec \in aimed[k] : Begun(turn[rec.turn])
          /\ \A rec \in sent[k] : Broken(turn[rec.turn])
      BY <1>0 DEF KnownTurns
    <3> QED
      BY <3>1, <3>2, <3>3
  <2>1. CASE UNCHANGED <<aimed, sent>>
    BY <1>1, <2>0, <2>1
  <2>2. ASSUME NEW j \in Stops, NEW s \in SessionKeys, StopBegins(j, s)
        PROVE  /\ \A rec \in aimed'[k] : Begun(turn'[rec.turn])
               /\ \A rec \in sent'[k] : Broken(turn'[rec.turn])
    <3>1. \A rec \in {[run |-> r, turn |-> tracked[r]] :
                         r \in {q \in Written(s) : tracked[q] # NoTurn}} : Begun(turn[rec.turn])
      BY <1>0 DEF KnownTurns, Written
    <3>2. turn' = turn /\ sent' = sent
      BY <2>2 DEF StopBegins
    <3>3. \A rec \in aimed'[k] : Begun(turn[rec.turn])
      BY <2>0, <2>2, <3>1 DEF StopBegins
    <3> QED
      BY <2>0, <3>2, <3>3
  <2>3. ASSUME NEW j \in Stops, InterruptSent(j)
        PROVE  /\ \A rec \in aimed'[k] : Begun(turn'[rec.turn])
               /\ \A rec \in sent'[k] : Broken(turn'[rec.turn])
    <3>1. PICK rec \in Due(j) :
              /\ sent' = [sent EXCEPT ![j] = @ \cup {rec}]
              /\ turn' = IF turn[rec.turn] = "inProgress"
                         THEN [turn EXCEPT ![rec.turn] = "stopping"] ELSE turn
      BY <2>3 DEF InterruptSent
    <3>2. aimed' = aimed
      BY <2>3 DEF InterruptSent
    <3>3. rec.turn \in Runs /\ Begun(turn[rec.turn])
      <4>1. rec \in aimed[j] /\ aimed[j] \subseteq [run : Runs, turn : Runs]
        BY <1>0 DEF Due, RunTypeOK
      <4>2. Begun(turn[rec.turn])
        BY <1>0, <4>1 DEF KnownTurns
      <4> QED
        BY <4>1, <4>2
    <3>4. turn \in [Runs -> {"none", "asked", "inProgress", "stopping"} \cup Gone]
      BY <1>0 DEF RunTypeOK
    <3>5. Broken(turn'[rec.turn])
      BY <3>1, <3>3, <3>4 DEF Begun, Broken
    <3>6. sent'[k] \subseteq sent[k] \cup {rec}
      BY <2>0, <3>1
    <3> QED
      BY <1>1, <2>0, <3>2, <3>5, <3>6
  <2>4. \/ UNCHANGED <<aimed, sent>>
        \/ \E j \in Stops : InterruptSent(j) \/ \E s \in SessionKeys : StopBegins(j, s)
    BY DEF RunNext, Proceed, Write, Arrive, Take, Skip, Register, Ask, Answered, Complete, GiveUp,
           Leave, End, TurnStarts, TurnEnds, StopBlocked, InterruptFails, StopAnswers, stops,
           runVars
  <2> QED
    BY <2>1, <2>2, <2>3, <2>4
<1> QED
  BY <1>2, <1>3 DEF KnownTurns

LEMMA AnswersStep ==
    ASSUME RunInv, [RunNext]_runVars
    PROVE  Answers'
<1>0. /\ Answers
      /\ stop \in [Stops -> [session : SessionKeys \cup {NoKey},
                             state : {"new", "interrupting", "interrupting, aborted some",
                                      "answered"}]]
      /\ aimed \in [Stops -> SUBSET [run : Runs, turn : Runs]]
      /\ sent \in [Stops -> SUBSET [run : Runs, turn : Runs]]
      /\ verdict \in [Stops -> {"none", "stopped", "idle", "blocked", "partial"}]
  BY DEF RunInv, RunTypeOK
<1>1. ASSUME NEW k \in Stops, NEW s \in SessionKeys, StopBlocked(k, s) PROVE Answers'
  BY <1>0, <1>1 DEF StopBlocked, Answers
<1>2. ASSUME NEW k \in Stops, NEW s \in SessionKeys, StopBegins(k, s) PROVE Answers'
  <2>1. /\ stop[k].state = "new"
        /\ stop' = [stop EXCEPT ![k] = [session |-> s,
                       state |-> IF ControllersOf(s) \subseteq aborted THEN "interrupting"
                                 ELSE "interrupting, aborted some"]]
        /\ \A j \in Stops : j # k => aimed'[j] = aimed[j]
        /\ UNCHANGED <<sent, verdict>>
    BY <1>0, <1>2 DEF StopBegins
  <2> QED
    BY <1>0, <2>1 DEF Answers
<1>3. ASSUME NEW k \in Stops, InterruptSent(k) PROVE Answers'
  <2>1. PICK rec : sent' = [sent EXCEPT ![k] = @ \cup {rec}]
    BY <1>3 DEF InterruptSent
  <2>2. UNCHANGED <<stop, aimed, verdict>>
    BY <1>3 DEF InterruptSent
  <2>3. \A j \in Stops : sent[j] \subseteq sent'[j]
    BY <1>0, <2>1
  <2> QED
    BY <1>0, <2>2, <2>3 DEF Answers
<1>4. ASSUME NEW k \in Stops, StopAnswers(k) PROVE Answers'
  <2>1. /\ stop[k].state # "new"
        /\ stop' = [stop EXCEPT ![k].state = "answered"]
        /\ Due(k) = {}
        /\ UNCHANGED <<aimed, sent, failed>>
    BY <1>4 DEF StopAnswers, Interrupting
  <2>2. PICK stopped \in BOOLEAN :
            verdict' = [verdict EXCEPT ![k] = Verdict(failed[k] # {}, stopped)]
    BY <1>4 DEF StopAnswers
  <2>3. verdict'[k] \in {"stopped", "idle"} => failed[k] = {}
    BY <1>0, <2>2 DEF Verdict
  <2>4. failed[k] = {} => aimed[k] \subseteq sent[k]
    BY <2>1 DEF Due
  <2>5. \A j \in Stops : j # k => verdict'[j] = verdict[j] /\ stop'[j] = stop[j]
    BY <1>0, <2>1, <2>2
  <2>6. stop'[k].state = "answered" /\ stop'[k].session = stop[k].session
    BY <1>0, <2>1
  <2> QED
    BY <1>0, <2>1, <2>3, <2>4, <2>5, <2>6 DEF Answers
<1>5. CASE UNCHANGED <<stop, aimed, sent, verdict>>
  BY <1>0, <1>5 DEF Answers
<1>6. \/ UNCHANGED <<stop, aimed, sent, verdict>>
      \/ \E k \in Stops :
            \/ \E s \in SessionKeys : StopBlocked(k, s) \/ StopBegins(k, s)
            \/ InterruptSent(k) \/ StopAnswers(k)
  BY DEF RunNext, Proceed, Write, Arrive, Take, Skip, Register, Ask, Answered, Complete, GiveUp,
         Leave, End, TurnStarts, TurnEnds, InterruptFails, stops, runVars
<1> QED
  BY <1>1, <1>2, <1>3, <1>4, <1>5, <1>6

LEMMA AbortsStep ==
    ASSUME RunInv, [RunNext]_runVars
    PROVE  AbortedIsOlder'
<1>0. AbortedIsOlder /\ RunTypeOK
  BY DEF RunInv
<1>1. ASSUME NEW r \in Runs, Register(r) PROVE AbortedIsOlder'
  BY <1>0, <1>1 DEF Register, CutOff, AbortedIsOlder
<1>2. ASSUME NEW k \in Stops, NEW s \in SessionKeys, StopBegins(k, s) PROVE AbortedIsOlder'
  BY <1>0, <1>2 DEF StopBegins, ControllersOf, AbortedIsOlder
<1>3. CASE UNCHANGED <<older, aborted>>
  BY <1>0, <1>3 DEF AbortedIsOlder
<1>4. \/ UNCHANGED <<older, aborted>>
      \/ \E r \in Runs : Register(r)
      \/ \E k \in Stops, s \in SessionKeys : StopBegins(k, s)
  BY DEF RunNext, Proceed, Write, Arrive, Take, Skip, Ask, Answered, Complete, GiveUp, Leave, End,
         TurnStarts, TurnEnds, StopBlocked, InterruptSent, InterruptFails, StopAnswers, run,
         runVars
<1> QED
  BY <1>1, <1>2, <1>3, <1>4

\* A message comes to wait only by its arrival.
LEMMA WaitingMoves ==
    ASSUME RunInv, [RunNext]_runVars, NEW r \in Runs, phase'[r] = "waiting"
    PROVE  home'[r] = home[r] /\ (phase[r] = "waiting" \/ Arrive(r))
<1>0. /\ Staged
      /\ phase \in [Runs -> Phases] /\ ahead \in [Runs -> SUBSET Runs]
      /\ home \in [Runs -> SessionKeys \cup {NoKey}]
  BY DEF RunInv, RunTypeOK, Phases
<1>1. ASSUME NEW q \in Runs, Arrive(q) PROVE home'[r] = home[r] /\ (phase[r] = "waiting" \/ q = r)
  BY <1>0, <1>1 DEF Arrive, Queue!Submit
<1>2. ASSUME NEW q \in Runs, Take(q) PROVE home'[r] = home[r] /\ phase[r] = "waiting"
  BY <1>0, <1>2 DEF Take, Queue!Begin
<1>3. ASSUME NEW q \in Runs, Skip(q) \/ Leave(q) PROVE home'[r] = home[r] /\ phase[r] = "waiting"
  BY <1>0, <1>3 DEF Skip, Leave, Queue!Finish
<1>4. ASSUME NEW q \in Runs, NEW s \in SessionKeys, Write(q, s)
      PROVE  home'[r] = home[r] /\ phase[r] = "waiting"
  BY <1>0, <1>4 DEF Write, Staged, queue
<1>5. ASSUME NEW k \in Stops, StopAnswers(k) PROVE home'[r] = home[r] /\ phase[r] = "waiting"
  BY <1>0, <1>5, AnswerMoves
<1>6. CASE (\E q \in Runs : OwnStep(q)) \/ Aside \/ UNCHANGED runVars
  BY <1>6, OwnStepMoves, AsideMoves DEF runVars, queue, run
<1> QED
  BY <1>1, <1>2, <1>3, <1>4, <1>5, <1>6, Cases

LEMMA QueuedStep ==
    ASSUME RunInv, [RunNext]_runVars
    PROVE  QueuedIsOlder'
<1>0. /\ QueuedIsOlder
      /\ stop \in [Stops -> [session : SessionKeys \cup {NoKey},
                             state : {"new", "interrupting", "interrupting, aborted some",
                                      "answered"}]]
      /\ aimed \in [Stops -> SUBSET [run : Runs, turn : Runs]]
  BY DEF RunInv, RunTypeOK
<1> SUFFICES ASSUME NEW k \in Stops, NEW r \in Runs, Interrupting(k)', aimed'[k] = {},
                    home'[r] = stop'[k].session, phase'[r] = "waiting"
             PROVE  r \in older'
  BY DEF QueuedIsOlder
<1>1. home'[r] = home[r] /\ (phase[r] = "waiting" \/ Arrive(r))
  BY WaitingMoves
<1>2. older \subseteq older'
  BY DEF RunNext, Proceed, Write, Arrive, Take, Skip, Register, Ask, Answered, Complete, GiveUp,
         Leave, End, TurnStarts, TurnEnds, StopBlocked, StopBegins, InterruptSent,
         InterruptFails, StopAnswers, run, runVars
<1>3. CASE Interrupting(k) /\ aimed[k] = {} /\ stop'[k].session = stop[k].session
  <2>1. CASE phase[r] = "waiting"
    BY <1>0, <1>1, <1>2, <1>3, <2>1 DEF QueuedIsOlder
  <2>2. CASE Arrive(r)
    BY <1>1, <1>2, <1>3, <2>2 DEF Arrive, AtOnce
  <2> QED
    BY <1>1, <2>1, <2>2
<1>4. ASSUME NEW s \in SessionKeys, StopBegins(k, s) PROVE r \in older'
  BY <1>0, <1>1, <1>4 DEF StopBegins, Written
<1>5. CASE ~ \E s \in SessionKeys : StopBegins(k, s)
  <2>1. ASSUME NEW j \in Stops, StopAnswers(j)
        PROVE  Interrupting(k) /\ aimed[k] = {} /\ stop'[k].session = stop[k].session
    BY <1>0, <2>1 DEF StopAnswers, Interrupting
  <2>2. ASSUME NEW j \in Stops, NEW s \in SessionKeys, StopBlocked(j, s)
        PROVE  Interrupting(k) /\ aimed[k] = {} /\ stop'[k].session = stop[k].session
    BY <1>0, <2>2 DEF StopBlocked, Interrupting
  <2>3. ASSUME NEW j \in Stops, NEW s \in SessionKeys, StopBegins(j, s)
        PROVE  Interrupting(k) /\ aimed[k] = {} /\ stop'[k].session = stop[k].session
    BY <1>0, <1>5, <2>3 DEF StopBegins, Interrupting
  <2>4. ASSUME UNCHANGED <<stop, aimed>>
        PROVE  Interrupting(k) /\ aimed[k] = {} /\ stop'[k].session = stop[k].session
    BY <2>4 DEF Interrupting
  <2>5. \/ UNCHANGED <<stop, aimed>>
        \/ \E j \in Stops :
              \/ StopAnswers(j)
              \/ \E s \in SessionKeys : StopBlocked(j, s) \/ StopBegins(j, s)
    BY DEF RunNext, Proceed, Write, Arrive, Take, Skip, Register, Ask, Answered, Complete, GiveUp,
           Leave, End, TurnStarts, TurnEnds, InterruptSent, InterruptFails, stops, runVars
  <2> QED
    BY <1>3, <2>1, <2>2, <2>3, <2>4, <2>5
<1> QED
  BY <1>4, <1>5

LEMMA RecordsStep ==
    ASSUME RunInv, [RunNext]_runVars
    PROVE  RecordsAreOfRunningTasks'
<1>0. RunTypeOK /\ RecordsAreOfRunningTasks /\ Staged'
  BY StagedStep DEF RunInv
<1>1. tracked \in [Runs -> Runs \cup {NoTurn}] /\ place \in [Runs -> Places]
  BY <1>0 DEF RunTypeOK
<1> SUFFICES ASSUME NEW r \in Runs, tracked'[r] # NoTurn
             PROVE  place'[r] \in {"opening", "requesting", "waiting"}
  BY <1>0 DEF RecordsAreOfRunningTasks, Listening, Staged
<1>2. ASSUME NEW q \in Runs, Answered(q)
      PROVE  place'[r] \in {"opening", "requesting", "waiting"}
  BY <1>0, <1>1, <1>2 DEF Answered, Track, Go, RecordsAreOfRunningTasks, Listening
<1>3. ASSUME NEW q \in Runs, TurnStarts(q)
      PROVE  place'[r] \in {"opening", "requesting", "waiting"}
  BY <1>0, <1>1, <1>3 DEF TurnStarts, Track, Hears, RecordsAreOfRunningTasks, Listening
<1>4. ASSUME NEW q \in Runs, Complete(q) \/ GiveUp(q)
      PROVE  place'[r] \in {"opening", "requesting", "waiting"}
  <2>1. /\ place' = [place EXCEPT ![q] = "closing"]
        /\ tracked' = [tracked EXCEPT ![q] = NoTurn]
    BY <1>4 DEF Complete, GiveUp, End, Go, RecordAfter
  <2> QED
    BY <1>0, <1>1, <2>1 DEF RecordsAreOfRunningTasks, Listening
<1>5. ASSUME tracked' = tracked, ~ \E q \in Runs : Answered(q) \/ Complete(q) \/ GiveUp(q)
      PROVE  place'[r] \in {"opening", "requesting", "waiting"}
  <2>1. place[r] \in {"opening", "requesting", "waiting"}
    BY <1>0, <1>5 DEF RecordsAreOfRunningTasks, Listening
  <2>2. \/ place' = place
        \/ \E q \in Runs, where \in {"written", "arrived", "prepare", "opening", "left"} :
              /\ place[q] \in {"unwritten", "written", "arrived", "prepare", "closing"}
              /\ Go(q, where)
        \/ \E q \in Runs : place[q] = "opening" /\ Go(q, "requesting")
    BY <1>5 DEF RunNext, Proceed, Write, Arrive, Take, Skip, Register, Ask, Leave, TurnStarts,
                TurnEnds, StopBlocked, StopBegins, InterruptSent, InterruptFails, StopAnswers,
                run, runVars
  <2> QED
    BY <1>1, <2>1, <2>2 DEF Go
<1>6. \/ UNCHANGED tracked
      \/ \E q \in Runs : Answered(q) \/ TurnStarts(q) \/ Complete(q) \/ GiveUp(q)
  BY DEF RunNext, Proceed, Write, Arrive, Take, Skip, Register, Ask, Leave, TurnEnds,
         StopBlocked, StopBegins, InterruptSent, InterruptFails, StopAnswers, run, runVars
<1> QED
  BY <1>2, <1>3, <1>4, <1>5, <1>6

LEMMA RunInductively == RunInv /\ [RunNext]_runVars => RunInv'
  BY RunTypesStep, StagedStep, UnaskedStep, InReachStep, KnownTurnsStep,
     AnswersStep, InLineStep, AbortsStep, QueuedStep, RecordsStep
  DEF RunInv

\* The invariant behind what follows: what each place of a message says about
\* its task, its turn and its signal, and what a stop knows of the turns it
\* interrupts (discordRunControl.ts, codexAppServerHarness.ts).
THEOREM RunInvariance == RunSpec => []RunInv
  BY RunInitially, RunInductively, PTL DEF RunSpec

\* Every variable of the way of a message and of the stop keeps its type: a record
\* of the registry is of a run, and what a stop interrupts is a set of such records.
THEOREM RunTypes == RunSpec => []RunTypeOK
<1>1. RunInv => RunTypeOK
  BY DEF RunInv
<1> QED
  BY <1>1, RunInvariance, PTL

\* What was written after the stops of its session is neither aborted nor withdrawn,
\* for any number of stops under way, unless cancelPending finds it in the queue after
\* the await for interrupts that a stop of its own session had to send.
THEOREM LaterWorkIsSpared == RunSpec => StopSparesLaterWork
<1>1. ASSUME RunInv, RunInv', [RunNext]_runVars, NEW r \in Runs,
             \/ r \in aborted' \ aborted
             \/ phase[r] = "waiting" /\ phase'[r] = "withdrawn"
      PROVE  \/ r \in older'
             \/ \E k \in Stops : /\ Interrupting(k) /\ stop[k].session = home[r]
                                 /\ aimed[k] # {}
  <2>1. CASE r \in aborted'
    BY <1>1, <2>1 DEF RunInv, AbortedIsOlder
  <2>2. ASSUME NEW k \in Stops, StopAnswers(k), phase[r] = "waiting", phase'[r] = "withdrawn"
        PROVE  \/ r \in older'
               \/ Interrupting(k) /\ stop[k].session = home[r] /\ aimed[k] # {}
    <3>1. Interrupting(k) /\ older' = older
      BY <2>2 DEF StopAnswers, run
    <3>2. Queue!Withdraw(stop[k].session)
      BY <2>2 DEF StopAnswers, queue
    <3>3. home[r] = stop[k].session
      BY <2>2, <3>2 DEF Queue!Withdraw
    <3> QED
      BY <1>1, <2>2, <3>1, <3>3 DEF RunInv, QueuedIsOlder
  <2>3. ASSUME NEW q \in Runs, Arrive(q) \/ Take(q) \/ Skip(q) \/ Leave(q)
        PROVE  ~ (phase[r] = "waiting" /\ phase'[r] = "withdrawn")
    <3>1. phase \in [Runs -> Phases]
      BY <1>1 DEF RunInv, RunTypeOK, Phases
    <3>2. \E status \in {"waiting", "running", "finished"} : phase' = [phase EXCEPT ![q] = status]
      BY <2>3 DEF Arrive, Take, Skip, Leave, Queue!Submit, Queue!Begin, Queue!Finish
    <3> QED
      BY <3>1, <3>2
  <2>4. CASE UNCHANGED phase
    BY <1>1, <2>1, <2>4
  <2>5. \/ UNCHANGED phase
        \/ \E k \in Stops : StopAnswers(k)
        \/ \E q \in Runs : Arrive(q) \/ Take(q) \/ Skip(q) \/ Leave(q)
    BY <1>1, Cases, OwnStepMoves, AsideMoves DEF Write, queue, runVars
  <2> QED
    BY <1>1, <2>1, <2>2, <2>3, <2>4, <2>5
<1>2. RunInv /\ RunInv' /\ [RunNext]_runVars =>
          [\A r \in Runs :
              \/ r \in aborted' \ aborted
              \/ phase[r] = "waiting" /\ phase'[r] = "withdrawn"
              => \/ r \in older'
                 \/ \E k \in Stops : /\ Interrupting(k) /\ stop[k].session = home[r]
                                     /\ aimed[k] # {}]_runVars
  BY <1>1
<1> QED
  BY <1>2, RunInvariance, PTL DEF RunSpec, StopSparesLaterWork

\* No record of the in-flight registry outlives the queue's task of its run: onRunEnd
\* is reached whatever the run dies of.
THEOREM RecordsGoWithTasks == RunSpec => []RecordsAreOfRunningTasks
<1>1. RunInv => RecordsAreOfRunningTasks
  BY DEF RunInv
<1> QED
  BY <1>1, RunInvariance, PTL

\* When stopSession answers "stopped" or "idle", no turn that the registry knew of
\* is in progress, however many of its interrupts were late or failed.
THEOREM VerdictsAreHonest == RunSpec => []HonestVerdict
<1>1. RunInv => HonestVerdict
  BY DEF RunInv, KnownTurns, Answers, HonestVerdict, Broken
<1> QED
  BY <1>1, RunInvariance, PTL

\* Wherever a stop catches a message, before the tap, in the queue or between queue
\* and harness, no turn/start is sent for it afterwards.
THEOREM StoppedIsNotAsked == RunSpec => NoTurnAfterStop
<1>1. ASSUME RunInv, [RunNext]_runVars, NEW r \in Runs, turn[r] = "none", r \in older
      PROVE  turn'[r] = "none"
  <2>1. RunTypeOK /\ Unasked /\ InReach
    BY <1>1 DEF RunInv
  <2>2. ~ Ask(r)
    BY <1>1, <2>1 DEF Ask, InReach
  <2> QED
    BY <1>1, <2>1, <2>2, TurnsMove
<1>2. RunInv /\ [RunNext]_runVars =>
          [\A r \in Runs : turn[r] = "none" /\ r \in older => turn'[r] = "none"]_runVars
  BY <1>1
<1> QED
  BY <1>2, RunInvariance, PTL DEF RunSpec, NoTurnAfterStop

\* Two messages of a session are never both on the way from the queue to the answer,
\* whatever is stopped, withdrawn or given up between them.
THEOREM OneRunPerSession == RunSpec => []OneRunAtATime
<1>1. RunInv => OneRunAtATime
  BY DEF RunInv, RunTypeOK, InLine, OneRunAtATime
<1> QED
  BY <1>1, RunInvariance, PTL

(* The queue of the runs is the SerialExecutor that SessionActorQueue       *)
(* implements: the way of a message uses it as its specification allows.    *)

LEMMA RunsStartSerial == RunInit => Queue!Init
  BY DEF RunInit, Queue!Init

\* A step that leaves the queue and the homes of its tasks alone.
LEMMA QueueQuiet ==
    ASSUME UNCHANGED <<phase, ahead, home>>
    PROVE  UNCHANGED Queue!vars
  BY DEF Queue!vars

LEMMA QueueStep ==
    ASSUME RunInv, [RunNext]_runVars
    PROVE  [Queue!Next]_(Queue!vars)
<1>0. Staged /\ Answers
  BY DEF RunInv
<1>1. ASSUME NEW r \in Runs, Arrive(r) PROVE Queue!Next
  <2>1. home[r] \in SessionKeys /\ Queue!Submit(home[r], r)
    BY <1>0, <1>1 DEF Arrive, Staged
  <2> QED
    BY <2>1 DEF Queue!Next
<1>2. ASSUME NEW r \in Runs, Take(r) \/ Skip(r) \/ Leave(r) PROVE Queue!Next
  <2>1. Queue!Begin(r) \/ Queue!Finish(r)
    BY <1>2 DEF Take, Skip, Leave
  <2> QED
    BY <2>1 DEF Queue!Next
<1>3. ASSUME NEW k \in Stops, StopAnswers(k) PROVE [Queue!Next]_(Queue!vars)
  <2>1. CASE UNCHANGED queue
    <3>1. UNCHANGED <<phase, ahead, home>>
      BY <1>3, <2>1 DEF StopAnswers, run, queue
    <3> QED
      BY <3>1, QueueQuiet
  <2>2. CASE ~ UNCHANGED queue
    <3>1. /\ Queue!Withdraw(stop[k].session)
          /\ \E r \in Runs : phase[r] = "waiting"
          /\ stop[k].session \in SessionKeys
      BY <1>0, <1>3, <2>2 DEF StopAnswers, Answers, Interrupting
    <3> QED
      BY <3>1 DEF Queue!Next
  <2> QED
    BY <2>1, <2>2
<1>4. ASSUME NEW r \in Runs, NEW s \in SessionKeys, Write(r, s) PROVE UNCHANGED Queue!vars
  <2>1. phase' = phase /\ ahead' = ahead /\ phase[r] = "new"
    BY <1>0, <1>4 DEF Write, Staged, queue
  <2>2. \A q \in Runs : q # r => home'[q] = home[q]
    BY <1>4 DEF Write, RunInv, RunTypeOK
  <2> QED
    BY <2>1, <2>2 DEF Queue!vars
<1>5. CASE (\E r \in Runs : OwnStep(r)) \/ Aside \/ UNCHANGED runVars
  <2>1. UNCHANGED <<phase, ahead, home>>
    BY <1>5, OwnStepMoves, AsideMoves DEF runVars, queue, run
  <2> QED
    BY <2>1, QueueQuiet
<1> QED
  BY <1>1, <1>2, <1>3, <1>4, <1>5, Cases

\* The tap and the stop use their queue as SerialExecutor allows: every step of a
\* message is one step of that specification, which SessionActorQueue implements, or
\* leaves the queue alone.
THEOREM RunsAreSerial == RunSpec => Queue!Spec
  BY RunInvariance, RunsStartSerial, QueueStep, PTL DEF RunSpec, Queue!Spec
=============================================================================
