--------------------------- MODULE CronDaemonProofs ---------------------------
(***************************************************************************)
(* Theorems about CronDaemon, for any jobs, schedules, drivers and bounds.   *)
(***************************************************************************)
EXTENDS CronDaemon, Integers, TLAPS

Executing == {"run", "delay"}

\* e has been run, or the cursor covers it and its tick will run it.
Known(e) ==
    \/ runs[e] # "none"
    \/ \E d \in Drivers : pc[d] \in Executing /\ e \in todo[d]

\* What holds whether or not ticks overlap.
Quiet ==
    /\ \A d \in Drivers :
          /\ pc[d] \in {"idle", "read"} => todo[d] = {}
          /\ pc[d] \notin Executing => running[d] = NoRun
          /\ pc[d] = "delay" => running[d] # NoRun /\ attempts[d] < MaxAttempts
          /\ running[d] # NoRun => runs[running[d]] # "none"
    /\ torn => \E d \in Drivers : pc[d] = "fill"

SilencedBare == \A j \in silenced : store[j].schedule = NoSchedule

Alone == \A d, x \in Drivers : pc[d] \in Writing /\ pc[x] \in Writing => d = x

\* No window beyond the cursor is known, unless the cursor was lost; then all that is
\* known is older than the process.
Covered ==
    \A e \in Occurrences : Known(e) =>
        /\ e[2] <= clock
        /\ \/ e[2] <= cursor[e[1]]
           \/ cursor[e[1]] = Never /\ (e[2] < clock \/ daemon = "down")

FreshRead ==
    \A d \in Drivers : pc[d] = "read" =>
        /\ held[d] = cursor
        /\ \A e \in Occurrences : Known(e) /\ cursor[e[1]] = Never => e[2] < now[d]

Ahead(d, j) ==
    held[d][j] # cursor[j] =>
        /\ cursor[j] < held[d][j] /\ held[d][j] <= clock
        /\ \A e \in Occurrences : Known(e) /\ e[1] = j => e[2] < held[d][j]

Planned ==
    \A d \in Drivers : pc[d] \in {"truncate", "fill"} =>
        /\ \A j \in Jobs : Ahead(d, j)
        /\ \A e \in todo[d] : e[2] = held[d][e[1]] /\ held[d][e[1]] # cursor[e[1]]

Unstarted ==
    \A d \in Drivers : pc[d] \in Executing => \A e \in todo[d] :
        /\ runs[e] = "none"
        /\ \A x \in Drivers : x # d /\ pc[x] \in Executing => e \notin todo[x]

Sequential == Alone /\ Covered /\ FreshRead /\ Planned /\ Unstarted

IInv ==
    /\ TypeOK
    /\ Quiet
    /\ SilencedBare
    /\ OncePerWindow
    /\ ~overlapped => Sequential

----------------------------------------------------------------------------
(* What is due is later than the last window, and nothing lies between.      *)

LEMMA MatchIsAfter ==
    ASSUME NEW n \in Nat, NEW e \in Nat \ {0}
    PROVE  NextMatch(e, n) \in Nat /\ NextMatch(e, n) > n
<1> DEFINE q == n \div e
           r == n % e
<1>1. q \in Int /\ r \in 0..(e - 1) /\ n = e * q + r
  BY SMT
<1> HIDE DEF q, r
<1>2. q >= 0
  BY <1>1, SMT
<1>3. (q + 1) * e = e * q + e
  BY <1>1, SMT
<1>4. e * q \in Nat
  BY <1>1, <1>2, SMT
<1> QED
  BY <1>1, <1>3, <1>4, SMT DEF q, NextMatch

LEMMA NeverWithoutSchedule ==
    ASSUME NEW last, NEW at PROVE NextRun(NoSchedule, last, at) = Never
<1>1. NoSchedule.kind = "none"
  BY DEF NoSchedule
<1> QED
  BY <1>1 DEF NextRun

\* A window that is due is newer than the last one, or is now if there is none.
LEMMA DueIsLater ==
    ASSUME NEW s \in Schedules, NEW last \in Nat, NEW at \in Nat,
           NextRun(s, last, at) # Never
    PROVE  /\ NextRun(s, last, at) \in Nat
           /\ last # Never => NextRun(s, last, at) > last
           /\ last = Never => NextRun(s, last, at) = at
<1>1. CASE s.kind = "none"
  BY <1>1 DEF NextRun
<1>2. CASE s \in [kind : {"interval"}, every : Intervals]
  <2>1. s.kind = "interval" /\ s.every \in Nat \ {0}
    BY <1>2, CronAssumption
  <2>2. NextRun(s, last, at) = IF last = Never THEN at ELSE last + s.every
    BY <2>1 DEF NextRun
  <2> QED
    BY <2>1, <2>2 DEF Never
<1>3. CASE s \in [kind : {"cron"}, every : Patterns]
  <2>1. s.kind = "cron" /\ s.every \in Nat \ {0}
    BY <1>3, CronAssumption
  <2>2. NextRun(s, last, at) = IF last = Never THEN Never
                               ELSE NextMatch(s.every, last)
    BY <2>1 DEF NextRun
  <2> QED
    BY <2>1, <2>2, MatchIsAfter
<1> QED
  BY <1>1, <1>2, <1>3 DEF Schedules, NoSchedule

\* There is never a window to catch up with: the next window follows the last one.
THEOREM NothingToCatchUp ==
    ASSUME NEW s \in Schedules, NEW last \in Nat, NEW at \in Nat
    PROVE  CatchUp(s, last, NextRun(s, last, at)) = {}
<1> SUFFICES ASSUME NEW w \in CatchUp(s, last, NextRun(s, last, at)) PROVE FALSE
  OBVIOUS
<1>1. s.kind = "interval" /\ last # Never /\ w \in Nat /\ last < w
  BY DEF CatchUp, Times
<1>2. s.every \in Nat \ {0}
  <2>1. s # NoSchedule /\ s \notin [kind : {"cron"}, every : Patterns]
    BY <1>1 DEF NoSchedule
  <2>2. s \in [kind : {"interval"}, every : Intervals]
    BY <2>1 DEF Schedules
  <2> QED
    BY <2>2, CronAssumption
<1>3. NextRun(s, last, at) = last + s.every
  BY <1>1 DEF NextRun
<1>4. PICK k \in 1..MaxCatchup : w + k * s.every = last + s.every
  BY <1>3 DEF CatchUp
<1>5. k \in Nat \ {0} /\ k * s.every \in Nat
  BY <1>2, <1>4, CronAssumption, SMT
<1>6. k * s.every >= s.every
  BY <1>2, <1>5, SMT
<1> QED
  BY <1>1, <1>2, <1>4, <1>5, <1>6, SMT

----------------------------------------------------------------------------
(* Type correctness.                                                        *)

LEMMA SchedulesDiffer ==
    /\ Kept \notin Schedules
    /\ NoSchedule \in Schedules
    /\ Absent \in Jobstates
    /\ NoEvent \notin Events
    /\ NoRun \notin Occurrences
<1>1. Kept \notin Schedules
  BY DEF Kept, Schedules, NoSchedule
<1>2. NoSchedule \in Schedules
  BY DEF Schedules
<1>3. Absent \in Jobstates
  BY <1>2 DEF Absent, Jobstates
<1>4. NoEvent \notin Events
  BY DEF NoEvent, Events, Mutations
<1>5. NoRun \notin Occurrences
  BY DEF NoRun, Occurrences
<1> QED
  BY <1>1, <1>2, <1>3, <1>4, <1>5

LEMMA ProjectType ==
    ASSUME NEW job \in Jobstates, NEW e \in Events
    PROVE  Project(job, e) \in Jobstates
<1>1. CASE e.mutation = "remove"
  BY <1>1, SchedulesDiffer DEF Project
<1>2. CASE e.mutation # "remove"
  <2>1. (IF e.schedule = Kept THEN job.schedule ELSE e.schedule) \in Schedules
    BY DEF Events, Jobstates
  <2>2. (e.mutation = "enable" \/ (job.enabled /\ e.mutation # "disable")) \in BOOLEAN
    OBVIOUS
  <2> QED
    BY <1>2, <2>1, <2>2 DEF Project, Jobstates
<1> QED
  BY <1>1, <1>2

\* What a tick makes of a cursor: a window that is due replaces the last one, and
\* nothing else is to be run.
LEMMA NextCursorFacts ==
    ASSUME store \in [Jobs -> Jobstates], NEW last \in Cursors, NEW at \in 0..MaxTime
    PROVE  /\ NextCursor(last, at) \in Cursors
           /\ \A j \in Jobs : NextCursor(last, at)[j] # last[j] =>
                 /\ last[j] < NextCursor(last, at)[j] /\ NextCursor(last, at)[j] <= at
                 /\ last[j] = Never => NextCursor(last, at)[j] = at
                 /\ store[j].schedule # NoSchedule
           /\ \A e \in Emissions(last, at) :
                 /\ e \in Occurrences
                 /\ e[2] = NextCursor(last, at)[e[1]]
                 /\ NextCursor(last, at)[e[1]] # last[e[1]]
<1> DEFINE to == NextCursor(last, at)
           due == DueJobs(last, at)
<1>0. at \in Nat /\ MaxTime \in Nat
  BY CronAssumption
<1>1. ASSUME NEW j \in Jobs
      PROVE  store[j].schedule \in Schedules /\ last[j] \in Nat /\ last[j] <= MaxTime
  BY <1>1, <1>0 DEF Jobstates, Cursors
<1>2. ASSUME NEW j \in due
      PROVE  /\ j \in Jobs
             /\ to[j] = NextRun(store[j].schedule, last[j], at)
             /\ to[j] \in 1..at
             /\ to[j] # last[j]
  BY DEF DueJobs, IsDue, NextCursor
<1>3. ASSUME NEW j \in Jobs, j \notin due PROVE to[j] = last[j]
  BY <1>3 DEF NextCursor
<1>4. ASSUME NEW j \in Jobs, to[j] # last[j]
      PROVE  /\ last[j] < to[j] /\ to[j] <= at
             /\ last[j] = Never => to[j] = at
             /\ store[j].schedule # NoSchedule
  <2>1. j \in due
    BY <1>3, <1>4
  <2>2. to[j] = NextRun(store[j].schedule, last[j], at) /\ to[j] \in 1..at
    BY <1>2, <2>1
  <2>3. NextRun(store[j].schedule, last[j], at) # Never
    BY <2>2, <1>0 DEF Never
  <2>4. /\ last[j] # Never => NextRun(store[j].schedule, last[j], at) > last[j]
        /\ last[j] = Never => NextRun(store[j].schedule, last[j], at) = at
    BY <2>3, <1>0, <1>1, DueIsLater
  <2>5. store[j].schedule # NoSchedule
    <3> SUFFICES ASSUME store[j].schedule = NoSchedule PROVE FALSE
      OBVIOUS
    <3>1. NextRun(NoSchedule, last[j], at) = Never
      BY NeverWithoutSchedule
    <3> HIDE DEF to
    <3> QED
      BY <2>3, <3>1
  <2>6. /\ last[j] # Never => to[j] > last[j]
        /\ last[j] = Never => to[j] = at
        /\ to[j] \in 1..at
    BY <2>2, <2>4
  <2> HIDE DEF to
  <2>7. last[j] < to[j] /\ to[j] <= at
    BY <2>6, <1>0, <1>1 DEF Never
  <2> QED
    BY <2>5, <2>6, <2>7
<1>5. to \in Cursors
  <2>1. ASSUME NEW j \in Jobs PROVE to[j] \in 0..MaxTime
    <3> HIDE DEF to, due
    <3>1. CASE j \in due
      <4>1. to[j] \in 1..at
        BY <1>2, <3>1
      <4> QED
        BY <4>1, <1>0
    <3>2. CASE j \notin due
      <4>1. to[j] = last[j]
        BY <1>3, <3>2
      <4> QED
        BY <4>1, <1>0, <1>1
    <3> QED
      BY <3>1, <3>2
  <2> QED
    BY <2>1 DEF Cursors, NextCursor
<1>6. ASSUME NEW e \in Emissions(last, at)
      PROVE  e \in Occurrences /\ e[2] = to[e[1]] /\ to[e[1]] # last[e[1]]
  <2>1. e \in Occurrences /\ e[1] \in due
    BY DEF Emissions, Occurrences
  <2>2. \/ e[2] = to[e[1]]
        \/ e[2] \in CatchUp(store[e[1]].schedule, last[e[1]], to[e[1]])
    BY DEF Emissions
  <2>3. CatchUp(store[e[1]].schedule, last[e[1]], to[e[1]]) = {}
    BY <1>2, <2>1, <1>0, <1>1, NothingToCatchUp
  <2> QED
    BY <1>2, <2>1, <2>2, <2>3
<1> QED
  BY <1>4, <1>5, <1>6


LEMMA TypeInit == Init => TypeOK /\ Quiet
<1> SUFFICES ASSUME Init PROVE TypeOK /\ Quiet
  OBVIOUS
<1>1. 1 \in Times /\ Never \in 0..1 /\ Blank \in Cursors
  BY CronAssumption DEF Times, Never, Blank, Cursors
<1>2. store \in [Jobs -> Jobstates]
  <2>1. [there : {TRUE}, schedule : Schedules, enabled : BOOLEAN] \subseteq Jobstates
    BY DEF Jobstates
  <2> QED
    BY <2>1, SchedulesDiffer DEF Init
<1>3. TypeOK
  <2>1. clock \in Times /\ mutations \in 0..MaxMutations /\ restarts \in 0..MaxRestarts
    BY <1>1, CronAssumption DEF Init
  <2>2. attempts \in [Drivers -> 0..MaxAttempts] /\ now \in [Drivers -> 0..clock]
    BY <1>1, CronAssumption DEF Init
  <2>3. /\ pending \in [Operators -> Events \cup {NoEvent}]
        /\ pc \in [Drivers -> Steps] /\ held \in [Drivers -> Cursors]
        /\ todo \in [Drivers -> SUBSET Occurrences]
        /\ running \in [Drivers -> Occurrences \cup {NoRun}]
        /\ runs \in [Occurrences -> Statuses]
        /\ cursor \in Cursors /\ since \in Cursors /\ silenced \in SUBSET Jobs
        /\ torn \in BOOLEAN /\ overlapped \in BOOLEAN /\ repeated \in BOOLEAN
        /\ daemon = "up"
    BY <1>1 DEF Init, Steps, Occurrences, Statuses
  <2> QED
    BY <1>2, <2>1, <2>2, <2>3 DEF TypeOK
<1>4. Quiet
  BY DEF Quiet, Init, Executing
<1> QED
  BY <1>3, <1>4

\* The store changes in no way a tick could notice but by its next snapshot.
LEMMA TypeStore ==
    ASSUME TypeOK, NEW o \in Operators, Resolve(o) \/ Append(o)
    PROVE  /\ store' \in [Jobs -> Jobstates] /\ pending' \in [Operators -> Events \cup {NoEvent}]
           /\ mutations' \in 0..MaxMutations
           /\ since' \in Cursors /\ silenced' \in SUBSET Jobs
<1>1. CASE Resolve(o)
  <2>1. pending' \in [Operators -> Events \cup {NoEvent}]
    BY <1>1 DEF Resolve, TypeOK
  <2>2. mutations' \in 0..MaxMutations
    BY <1>1, CronAssumption DEF Resolve, TypeOK
  <2> QED
    BY <1>1, <2>1, <2>2 DEF Resolve, TypeOK, fileVars
<1>2. CASE Append(o)
  <2>1. pending[o] \in Events /\ pending[o].job \in Jobs
    BY <1>2 DEF Append, TypeOK, Events
  <2>2. Project(store[pending[o].job], pending[o]) \in Jobstates
    BY <2>1, ProjectType DEF TypeOK
  <2>3. Never \in 0..MaxTime
    BY CronAssumption DEF Never
  <2>4. since' \in Cursors
    BY <1>2, <2>1, <2>3 DEF Append, TypeOK, Cursors
  <2> QED
    BY <1>2, <2>1, <2>2, <2>4 DEF Append, TypeOK
<1> QED
  BY <1>1, <1>2

LEMMA TypeStep ==
    TypeOK /\ Quiet /\ [Next]_vars => TypeOK'
<1> SUFFICES ASSUME TypeOK, Quiet, [Next]_vars PROVE TypeOK'
  OBVIOUS
<1>0. Blank \in Cursors /\ Never \in 0..MaxTime /\ MaxTime \in Nat /\ clock \in Nat
  BY CronAssumption DEF Blank, Cursors, Never, TypeOK, Times
<1>1. CASE UNCHANGED vars
  BY <1>1 DEF TypeOK, vars, storeVars, processVars, fileVars, tickVars, runVars
<1>2. CASE Tick \/ Restart
  <2>1. clock' \in Times /\ clock' = clock + 1 /\ now' = now /\ daemon' \in {"up", daemon}
    BY <1>2, <1>0, CronAssumption DEF Tick, Restart, TypeOK, Times, tickVars
  <2>2. now' \in [Drivers -> 0..clock']
    BY <2>1, <1>0 DEF TypeOK
  <2>3. UNCHANGED <<storeVars, restarts, fileVars, held, runVars, pc, todo>>
    BY <1>2 DEF Tick, Restart, tickVars
  <2>4. daemon' \in {"up", "stopped", "down"} /\ (daemon' = "down" => \A d \in Drivers : pc'[d] = "idle")
    BY <2>1, <2>3 DEF TypeOK
  <2> QED
    BY <2>1, <2>2, <2>3, <2>4 DEF TypeOK, storeVars, fileVars, runVars
<1>3. CASE Stop
  BY <1>3 DEF Stop, TypeOK, storeVars, fileVars, tickVars, runVars
<1>4. ASSUME NEW o \in Operators, Resolve(o) \/ Append(o) PROVE TypeOK'
  <2>1. UNCHANGED <<cursor, torn, overlapped, processVars, tickVars, runVars, pc, todo>>
    BY <1>4 DEF Resolve, Append, fileVars
  <2>2. /\ store' \in [Jobs -> Jobstates] /\ pending' \in [Operators -> Events \cup {NoEvent}]
        /\ mutations' \in 0..MaxMutations
        /\ since' \in Cursors /\ silenced' \in SUBSET Jobs
    BY <1>4, TypeStore
  <2> QED
    BY <2>1, <2>2 DEF TypeOK, processVars, tickVars, runVars
<1>5. CASE Crash
  <2>1. /\ cursor' \in Cursors /\ held' \in [Drivers -> Cursors]
        /\ now' \in [Drivers -> 0..clock] /\ since' \in Cursors
    <3>1. cursor' \in Cursors /\ held' \in [Drivers -> Cursors]
      BY <1>5, <1>0 DEF Crash, TypeOK
    <3>2. now' \in [Drivers -> 0..clock]
      BY <1>5, <1>0 DEF Crash, Never
    <3>3. since' \in Cursors
      BY <1>5, <1>0 DEF Crash, TypeOK, Cursors
    <3> QED
      BY <3>1, <3>2, <3>3
  <2>2. restarts' \in 0..MaxRestarts /\ attempts' \in [Drivers -> 0..MaxAttempts]
    BY <1>5, CronAssumption DEF Crash, TypeOK
  <2>3. /\ pc' = [d \in Drivers |-> "idle"] /\ todo' = [d \in Drivers |-> {}]
        /\ running' = [d \in Drivers |-> NoRun] /\ torn' = FALSE /\ daemon' = "down"
        /\ UNCHANGED <<storeVars, clock, overlapped, runs, repeated>>
    BY <1>5 DEF Crash
  <2> QED
    BY <2>1, <2>2, <2>3 DEF TypeOK, storeVars, Steps
<1>6. ASSUME NEW d \in Drivers, Read(d) PROVE TypeOK'
  <2>1. held' \in [Drivers -> Cursors] /\ now' \in [Drivers -> 0..clock]
    BY <1>6, <1>0 DEF Read, TypeOK
  <2>2. overlapped' \in BOOLEAN
    BY <1>6 DEF Read
  <2> QED
    BY <1>6, <2>1, <2>2 DEF Read, Go, TypeOK, Steps, storeVars, processVars, runVars
<1>7. ASSUME NEW d \in Drivers, Snapshot(d) PROVE TypeOK'
  <2>1. now[d] \in 0..MaxTime /\ held[d] \in Cursors
    BY <1>0 DEF TypeOK, Times
  <2>2. NextCursor(held[d], now[d]) \in Cursors /\ Emissions(held[d], now[d]) \subseteq Occurrences
    BY <2>1, NextCursorFacts DEF TypeOK
  <2>3. held' \in [Drivers -> Cursors] /\ todo' \in [Drivers -> SUBSET Occurrences]
    BY <1>7, <2>2 DEF Snapshot, TypeOK
  <2>4. now' \in [Drivers -> 0..clock]
    BY <1>7, <1>0 DEF Snapshot, TypeOK, Never
  <2>5. daemon # "down"
    BY <1>7 DEF Snapshot, TypeOK
  <2> QED
    BY <1>7, <2>3, <2>4, <2>5 DEF Snapshot, Go, TypeOK, Steps, storeVars, processVars, fileVars, runVars
<1>8. ASSUME NEW d \in Drivers, Truncate(d) PROVE TypeOK'
  <2>1. daemon # "down"
    BY <1>8 DEF Truncate, TypeOK
  <2> QED
    BY <1>8, <2>1 DEF Truncate, Go, TypeOK, Steps, storeVars, processVars, tickVars, runVars
<1>9. ASSUME NEW d \in Drivers, Fill(d) PROVE TypeOK'
  <2>1. daemon # "down" /\ held[d] \in Cursors
    BY <1>9 DEF Fill, TypeOK
  <2>2. held' \in [Drivers -> Cursors] /\ cursor' \in Cursors
    BY <1>9, <1>0, <2>1 DEF Fill, TypeOK
  <2>3. since' \in Cursors
    BY <1>9, <2>1 DEF Fill, TypeOK, Cursors
  <2> QED
    BY <1>9, <2>1, <2>2, <2>3 DEF Fill, Go, TypeOK, Steps, storeVars, processVars, runVars
<1>10. ASSUME NEW d \in Drivers, Begin(d) PROVE TypeOK'
  <2>1. 1 \in 0..MaxAttempts /\ repeated' \in BOOLEAN
    BY <1>10, CronAssumption DEF Begin, TypeOK
  <2>2. PICK e \in todo[d] :
           /\ todo' = [todo EXCEPT ![d] = @ \ {e}]
           /\ \/ /\ running' = [running EXCEPT ![d] = e]
                 /\ attempts' = [attempts EXCEPT ![d] = 1]
                 /\ runs' = [runs EXCEPT ![e] = "running"]
              \/ /\ runs' = [runs EXCEPT ![e] = "ended"]
                 /\ UNCHANGED <<running, attempts>>
    BY <1>10 DEF Begin, FirstAttempt, WithoutAgent
  <2>3. e \in Occurrences /\ todo' \in [Drivers -> SUBSET Occurrences]
    BY <2>2 DEF TypeOK
  <2>4. /\ running' \in [Drivers -> Occurrences \cup {NoRun}]
        /\ attempts' \in [Drivers -> 0..MaxAttempts]
        /\ runs' \in [Occurrences -> Statuses]
    BY <2>1, <2>2, <2>3 DEF TypeOK, Statuses
  <2> QED
    BY <1>10, <2>1, <2>3, <2>4 DEF Begin, TypeOK, storeVars, processVars, fileVars, tickVars
<1>11. ASSUME NEW d \in Drivers, End(d) PROVE TypeOK'
  <2>1. 0 \in 0..MaxAttempts
    BY CronAssumption
  <2>2. /\ running' \in [Drivers -> Occurrences \cup {NoRun}]
        /\ attempts' \in [Drivers -> 0..MaxAttempts]
        /\ runs' \in [Occurrences -> Statuses]
    BY <1>11, <2>1 DEF End, TypeOK, Statuses
  <2> QED
    BY <1>11, <2>2 DEF End, TypeOK, storeVars, processVars, fileVars, tickVars
<1>12. ASSUME NEW d \in Drivers, FailTransiently(d) PROVE TypeOK'
  <2>1. daemon # "down" /\ runs' \in [Occurrences -> Statuses]
    BY <1>12 DEF FailTransiently, TypeOK, Statuses
  <2> QED
    BY <1>12, <2>1 DEF FailTransiently, Go, TypeOK, Steps, storeVars, processVars, fileVars, tickVars
<1>13. ASSUME NEW d \in Drivers, Retry(d) PROVE TypeOK'
  <2>1. daemon # "down" /\ runs' \in [Occurrences -> Statuses]
    BY <1>13 DEF Retry, TypeOK, Statuses
  <2>2. attempts[d] + 1 \in 0..MaxAttempts
    BY <1>13, CronAssumption DEF Retry, TypeOK, Quiet
  <2>3. attempts' \in [Drivers -> 0..MaxAttempts]
    BY <1>13, <2>2 DEF Retry, TypeOK
  <2> QED
    BY <1>13, <2>1, <2>3 DEF Retry, Go, TypeOK, Steps, storeVars, processVars, fileVars, tickVars
<1>14. ASSUME NEW d \in Drivers, Done(d) PROVE TypeOK'
  BY <1>14 DEF Done, Go, TypeOK, Steps, storeVars, processVars, fileVars, tickVars, runVars
<1> QED
  BY <1>1, <1>2, <1>3, <1>4, <1>5, <1>6, <1>7, <1>8, <1>9, <1>10, <1>11, <1>12, <1>13, <1>14
     DEF Next, TickStep

LEMMA QuietStep ==
    TypeOK /\ Quiet /\ [Next]_vars => Quiet'
<1> SUFFICES ASSUME TypeOK, Quiet, [Next]_vars PROVE Quiet'
  OBVIOUS
<1> USE DEF Executing
<1>1. CASE UNCHANGED <<pc, todo, torn, running, attempts, runs>>
  BY <1>1 DEF Quiet
<1>2. CASE Crash
  BY <1>2 DEF Crash, Quiet
<1>3. ASSUME NEW d \in Drivers, Read(d) \/ Snapshot(d) \/ Truncate(d) PROVE Quiet'
  BY <1>3 DEF Read, Snapshot, Truncate, Go, Quiet, TypeOK, runVars, fileVars
<1>4. ASSUME NEW d \in Drivers, Fill(d) PROVE Quiet'
  BY <1>4 DEF Fill, Go, Quiet, TypeOK, runVars
<1>5. ASSUME NEW d \in Drivers, Begin(d) PROVE Quiet'
  <2>1. PICK e \in todo[d] :
           /\ todo' = [todo EXCEPT ![d] = @ \ {e}]
           /\ \/ /\ running' = [running EXCEPT ![d] = e]
                 /\ attempts' = [attempts EXCEPT ![d] = 1]
                 /\ runs' = [runs EXCEPT ![e] = "running"]
              \/ /\ runs' = [runs EXCEPT ![e] = "ended"]
                 /\ UNCHANGED <<running, attempts>>
    BY <1>5 DEF Begin, FirstAttempt, WithoutAgent
  <2>2. pc[d] = "run" /\ UNCHANGED <<pc, torn>>
    BY <1>5 DEF Begin, fileVars
  <2> QED
    BY <2>1, <2>2 DEF Quiet, TypeOK
<1>6. ASSUME NEW d \in Drivers, End(d) PROVE Quiet'
  BY <1>6 DEF End, Quiet, TypeOK, fileVars
<1>7. ASSUME NEW d \in Drivers, FailTransiently(d) PROVE Quiet'
  BY <1>7 DEF FailTransiently, MayRetry, Go, Quiet, TypeOK, fileVars
<1>8. ASSUME NEW d \in Drivers, Retry(d) PROVE Quiet'
  BY <1>8 DEF Retry, Go, Quiet, TypeOK, fileVars
<1>9. ASSUME NEW d \in Drivers, Done(d) PROVE Quiet'
  BY <1>9 DEF Done, Go, Quiet, TypeOK, fileVars, runVars
<1>10. ASSUME Tick \/ Stop \/ Restart \/ (\E o \in Operators : Resolve(o) \/ Append(o)) \/ UNCHANGED vars
       PROVE  UNCHANGED <<pc, todo, torn, running, attempts, runs>>
  BY <1>10 DEF Tick, Stop, Restart, Resolve, Append, vars, fileVars, runVars
<1> QED
  BY <1>1, <1>2, <1>3, <1>4, <1>5, <1>6, <1>7, <1>8, <1>9, <1>10 DEF Next, TickStep

\* The clock, the store, the types: every variable has its type, and the runs of a tick
\* never take an attempt more than they may.
THEOREM TypeCorrect == Spec => []TypeOK
<1>1. Init => TypeOK /\ Quiet
  BY TypeInit
<1>2. TypeOK /\ Quiet /\ [Next]_vars => (TypeOK /\ Quiet)'
  BY TypeStep, QuietStep
<1> QED
  BY <1>1, <1>2, PTL DEF Spec

----------------------------------------------------------------------------
(* What was removed.                                                        *)

LEMMA BareStep ==
    TypeOK /\ SilencedBare /\ [Next]_vars => SilencedBare'
<1> SUFFICES ASSUME TypeOK, SilencedBare, [Next]_vars PROVE SilencedBare'
  OBVIOUS
<1>1. CASE UNCHANGED <<store, silenced>>
  BY <1>1 DEF SilencedBare
<1>2. ASSUME NEW o \in Operators, Append(o) PROVE SilencedBare'
  <2> DEFINE e == pending[o]
  <2>1. e \in Events /\ e.job \in Jobs
    BY <1>2 DEF Append, TypeOK, Events
  <2>2. store' = [store EXCEPT ![e.job] = Project(store[e.job], e)]
    BY <1>2 DEF Append
  <2>3. silenced' = IF e.mutation = "remove" THEN silenced \cup {e.job}
                    ELSE IF e.schedule = Kept THEN silenced ELSE silenced \ {e.job}
    BY <1>2 DEF Append
  <2>4. \A j \in Jobs \ {e.job} : store'[j] = store[j]
    BY <2>2 DEF TypeOK
  <2>5. e.job \in silenced' => store'[e.job].schedule = NoSchedule
    <3>1. store'[e.job] = Project(store[e.job], e)
      BY <2>1, <2>2 DEF TypeOK
    <3>2. e.mutation = "remove" => Project(store[e.job], e).schedule = NoSchedule
      BY DEF Project, Absent
    <3>3. e.mutation # "remove" /\ e.schedule = Kept =>
             Project(store[e.job], e).schedule = store[e.job].schedule
      BY DEF Project
    <3> HIDE DEF e
    <3> QED
      BY <2>3, <3>1, <3>2, <3>3 DEF SilencedBare
  <2> HIDE DEF e
  <2>6. silenced' \subseteq Jobs /\ silenced' \subseteq silenced \cup {e.job}
    BY <2>1, <2>3 DEF TypeOK
  <2> QED
    BY <2>4, <2>5, <2>6 DEF SilencedBare
<1>3. ASSUME \/ Tick \/ Stop \/ Crash \/ Restart \/ UNCHANGED vars
             \/ \E o \in Operators : Resolve(o)
             \/ \E d \in Drivers : Read(d) \/ TickStep(d) \/ FailTransiently(d)
      PROVE  UNCHANGED <<store, silenced>>
  <2> USE DEF storeVars
  <2>1. CASE Tick \/ Stop \/ Crash \/ Restart \/ UNCHANGED vars
    BY <2>1 DEF Tick, Stop, Crash, Restart, vars
  <2>2. CASE \E o \in Operators : Resolve(o)
    BY <2>2 DEF Resolve
  <2>3. ASSUME NEW d \in Drivers, Read(d) \/ TickStep(d) \/ FailTransiently(d)
        PROVE  UNCHANGED <<store, silenced>>
    BY <2>3 DEF Read, TickStep, Snapshot, Truncate, Fill, Begin, Retry, End, Done, FailTransiently
  <2> QED
    BY <1>3, <2>1, <2>2, <2>3
<1> QED
  BY <1>1, <1>2, <1>3 DEF Next

\* Only a snapshot takes a tick from reading to writing.
LEMMA OnlySnapshot ==
    ASSUME TypeOK, [Next]_vars, NEW d \in Drivers, pc[d] = "read", pc'[d] = "truncate"
    PROVE  Snapshot(d)
<1>1. CASE \/ Tick \/ Stop \/ Restart \/ UNCHANGED vars
           \/ \E o \in Operators : Resolve(o) \/ Append(o)
  BY <1>1 DEF Tick, Stop, Restart, Resolve, Append, vars
<1>2. CASE Crash
  BY <1>2 DEF Crash
<1>3. ASSUME NEW x \in Drivers, Read(x) \/ TickStep(x) \/ FailTransiently(x) PROVE Snapshot(d)
  BY <1>3 DEF Read, TickStep, Snapshot, Truncate, Fill, Begin, Retry, End, Done, FailTransiently, Go, TypeOK
<1> QED
  BY <1>1, <1>2, <1>3 DEF Next

\* A job that was removed is not run by any later tick until it is given a schedule
\* again (projectNeonCronStoreJobs merges a late enable into the defaults, which are
\* manual-only).
THEOREM RemovedNeverRuns == Spec => RemovedStaysSilent
<1>1. Init => TypeOK /\ Quiet /\ SilencedBare
  BY TypeInit DEF Init, SilencedBare
<1>2. TypeOK /\ Quiet /\ SilencedBare /\ [Next]_vars => (TypeOK /\ Quiet /\ SilencedBare)'
  BY TypeStep, QuietStep, BareStep
<1>3. TypeOK /\ SilencedBare /\ [Next]_vars =>
        \A d \in Drivers :
          pc[d] = "read" /\ pc'[d] = "truncate" => \A e \in todo'[d] : e[1] \notin silenced
  <2> SUFFICES ASSUME TypeOK, SilencedBare, [Next]_vars, NEW d \in Drivers,
                      pc[d] = "read", pc'[d] = "truncate", NEW e \in todo'[d]
               PROVE  e[1] \notin silenced
    OBVIOUS
  <2>1. Snapshot(d)
    BY OnlySnapshot
  <2>2. now[d] \in 0..MaxTime /\ held[d] \in Cursors /\ store \in [Jobs -> Jobstates]
    BY CronAssumption DEF TypeOK, Times
  <2>3. e \in Emissions(held[d], now[d])
    BY <2>1 DEF Snapshot, TypeOK
  <2>4. e \in Occurrences /\ NextCursor(held[d], now[d])[e[1]] # held[d][e[1]]
    BY <2>2, <2>3, NextCursorFacts
  <2>5. store[e[1]].schedule # NoSchedule
    BY <2>2, <2>4, NextCursorFacts DEF Occurrences
  <2> QED
    BY <2>5 DEF SilencedBare
<1> QED
  BY <1>1, <1>2, <1>3, PTL DEF Spec, RemovedStaysSilent

----------------------------------------------------------------------------
(* One run per window.                                                      *)

\* A step that changes neither the cursor nor what a tick has read or planned, and
\* after which no more is known than before.
LEMMA Undisturbed ==
    ASSUME TypeOK, Alone, Covered, FreshRead, Planned,
           UNCHANGED <<cursor, held, now>>,
           clock' \in {clock, clock + 1},
           daemon = "down" => daemon' = "down" \/ clock' = clock + 1,
           \A d \in Drivers :
              /\ pc'[d] = "read" => pc[d] = "read"
              /\ pc'[d] \in {"truncate", "fill"} =>
                    pc[d] \in {"truncate", "fill"} /\ todo'[d] = todo[d],
           \A e \in Occurrences : Known(e)' => Known(e)
    PROVE  Alone' /\ Covered' /\ FreshRead' /\ Planned'
<1>0. clock \in Nat /\ clock' >= clock
  BY CronAssumption DEF TypeOK, Times
<1>1. Alone'
  BY DEF Alone, Writing
<1>2. Covered'
  <2> SUFFICES ASSUME NEW e \in Occurrences, Known(e)'
               PROVE  /\ e[2] <= clock'
                      /\ e[2] <= cursor'[e[1]] \/ (cursor'[e[1]] = Never /\ (e[2] < clock' \/ daemon' = "down"))
    BY DEF Covered
  <2>1. e[2] \in Nat
    BY DEF Occurrences, Times
  <2>2. /\ e[2] <= clock
        /\ e[2] <= cursor[e[1]] \/ (cursor[e[1]] = Never /\ (e[2] < clock \/ daemon = "down"))
    BY DEF Covered
  <2>3. daemon = "down" => daemon' = "down" \/ e[2] < clock'
    BY <1>0, <2>1, <2>2
  <2>4. e[2] <= clock' /\ (e[2] < clock => e[2] < clock')
    BY <1>0, <2>1, <2>2
  <2> QED
    BY <2>2, <2>3, <2>4
<1>3. FreshRead'
  BY DEF FreshRead
<1>4. Planned'
  <2>1. ASSUME NEW d \in Drivers, NEW j \in Jobs, Ahead(d, j) PROVE Ahead(d, j)'
    <3>1. held[d][j] # cursor[j] => held[d][j] <= clock'
      <4>1. held[d][j] \in Nat
        BY CronAssumption DEF TypeOK, Cursors
      <4> QED
        BY <1>0, <2>1, <4>1 DEF Ahead
    <3> QED
      BY <2>1, <3>1 DEF Ahead
  <2> QED
    BY <2>1 DEF Planned
<1> QED
  BY <1>1, <1>2, <1>3, <1>4

\* A step that starts no run and hands none on.
LEMMA StillUnstarted ==
    ASSUME Unstarted,
           \A d \in Drivers : pc'[d] \in Executing => pc[d] \in Executing /\ todo'[d] = todo[d],
           \A e \in Occurrences : runs[e] = "none" => runs'[e] = "none",
           TypeOK
    PROVE  Unstarted'
BY DEF Unstarted, TypeOK

\* Steps of the process, the store and a tick that leave the cursor and the plans alone.
LEMMA SequentialElsewhere ==
    ASSUME TypeOK, Quiet, Sequential,
           \/ Tick \/ Stop \/ Restart \/ UNCHANGED vars
           \/ \E o \in Operators : Resolve(o) \/ Append(o)
           \/ \E d \in Drivers : Truncate(d) \/ End(d) \/ FailTransiently(d) \/ Retry(d) \/ Done(d)
    PROVE  Sequential'
<1> USE DEF Executing
<1>1. ASSUME Tick \/ Stop \/ Restart \/ UNCHANGED vars \/ \E o \in Operators : Resolve(o) \/ Append(o)
      PROVE  Sequential'
  <2>1. UNCHANGED <<cursor, held, now, pc, todo, runs>>
    BY <1>1 DEF Tick, Stop, Restart, Resolve, Append, vars, fileVars, tickVars, runVars
  <2>2. /\ clock' \in {clock, clock + 1}
        /\ daemon = "down" => daemon' = "down" \/ clock' = clock + 1
    BY <1>1 DEF Tick, Stop, Restart, Resolve, Append, vars, processVars
  <2>3. \A e \in Occurrences : Known(e)' => Known(e)
    BY <2>1 DEF Known
  <2>4. Alone' /\ Covered' /\ FreshRead' /\ Planned'
    BY <2>1, <2>2, <2>3, Undisturbed DEF Sequential
  <2>5. Unstarted'
    BY <2>1 DEF Unstarted, Sequential
  <2> QED
    BY <2>4, <2>5 DEF Sequential
<1>2. ASSUME NEW d \in Drivers, Truncate(d) \/ End(d) \/ FailTransiently(d) \/ Retry(d) \/ Done(d)
      PROVE  Sequential'
  <2>1. UNCHANGED <<cursor, held, now, clock, daemon, todo>>
    BY <1>2 DEF Truncate, End, FailTransiently, Retry, Done, fileVars, tickVars, processVars
  <2>2. /\ \A x \in Drivers : x # d => pc'[x] = pc[x]
        /\ \/ pc[d] = "truncate" /\ pc'[d] = "fill"
           \/ pc[d] \in Executing /\ pc'[d] \in Executing
           \/ pc'[d] = "idle"
    BY <1>2 DEF Truncate, End, FailTransiently, Retry, Done, Go, TypeOK
  <2>3. \A e \in Occurrences :
           /\ runs'[e] # "none" => runs[e] # "none"
           /\ runs[e] = "none" => runs'[e] = "none"
    BY <1>2 DEF Truncate, End, FailTransiently, Retry, Done, runVars, Quiet, TypeOK
  <2>4. \A e \in Occurrences : Known(e)' => Known(e)
    BY <2>1, <2>2, <2>3 DEF Known
  <2>5. Alone' /\ Covered' /\ FreshRead' /\ Planned'
    BY <2>1, <2>2, <2>4, Undisturbed DEF Sequential
  <2>6. Unstarted'
    BY <2>1, <2>2, <2>3, StillUnstarted DEF Sequential
  <2> QED
    BY <2>5, <2>6 DEF Sequential
<1> QED
  BY <1>1, <1>2

\* A run is begun: what it is about to be given was not known to anyone else.
LEMMA SequentialBegin ==
    ASSUME TypeOK, Sequential, NEW d \in Drivers, Begin(d)
    PROVE  Sequential' /\ repeated' = repeated
<1> USE DEF Executing
<1>1. PICK e \in todo[d] :
         /\ todo' = [todo EXCEPT ![d] = @ \ {e}]
         /\ repeated' = (repeated \/ runs[e] # "none")
         /\ \/ runs' = [runs EXCEPT ![e] = "running"]
            \/ runs' = [runs EXCEPT ![e] = "ended"]
  BY DEF Begin, FirstAttempt, WithoutAgent
<1>2. pc[d] = "run" /\ UNCHANGED <<pc, cursor, held, now, clock, daemon>>
  BY DEF Begin, fileVars, tickVars, processVars
<1>3. e \in Occurrences /\ runs[e] = "none"
  BY <1>1, <1>2 DEF TypeOK, Sequential, Unstarted
<1>4. repeated' = repeated
  BY <1>1, <1>3 DEF TypeOK
<1>5. \A f \in Occurrences : f # e => runs'[f] = runs[f]
  BY <1>1 DEF TypeOK
<1>6. \A f \in Occurrences : Known(f)' => Known(f)
  BY <1>1, <1>2, <1>5 DEF Known, TypeOK
<1>7. Alone' /\ Covered' /\ FreshRead' /\ Planned'
  <2>1. \A x \in Drivers : pc[x] \in {"truncate", "fill"} => todo'[x] = todo[x]
    BY <1>1, <1>2 DEF TypeOK
  <2> QED
    BY <1>2, <1>6, <2>1, Undisturbed DEF Sequential
<1>8. Unstarted'
  <2> SUFFICES ASSUME NEW x \in Drivers, pc[x] \in Executing, NEW f \in todo'[x]
               PROVE  /\ runs'[f] = "none"
                      /\ \A y \in Drivers : y # x /\ pc[y] \in Executing => f \notin todo'[y]
    BY <1>2 DEF Unstarted
  <2>1. f \in todo[x] /\ f \in Occurrences /\ \A y \in Drivers : todo'[y] \subseteq todo[y]
    BY <1>1 DEF TypeOK
  <2>2. f # e
    BY <1>1, <1>2, <2>1 DEF Sequential, Unstarted, TypeOK
  <2> QED
    BY <1>5, <2>1, <2>2 DEF Sequential, Unstarted
<1> QED
  BY <1>4, <1>7, <1>8 DEF Sequential

LEMMA SequentialCrash ==
    ASSUME TypeOK, Sequential, Crash
    PROVE  Sequential'
<1> USE DEF Executing
<1>1. /\ \A d \in Drivers : pc'[d] = "idle" /\ todo'[d] = {}
      /\ daemon' = "down" /\ clock' = clock /\ runs' = runs
      /\ \A j \in Jobs : cursor'[j] = cursor[j] \/ cursor'[j] = Never
  BY DEF Crash, Blank
<1>2. Alone' /\ FreshRead' /\ Planned' /\ Unstarted'
  BY <1>1 DEF Alone, Writing, FreshRead, Planned, Unstarted
<1>3. Covered'
  <2> SUFFICES ASSUME NEW e \in Occurrences, Known(e)'
               PROVE  e[2] <= clock /\ (e[2] <= cursor'[e[1]] \/ cursor'[e[1]] = Never)
    BY <1>1 DEF Covered
  <2>1. Known(e)
    BY <1>1 DEF Known
  <2>2. e[2] <= clock /\ (e[2] <= cursor[e[1]] \/ cursor[e[1]] = Never)
    BY <2>1 DEF Sequential, Covered
  <2> QED
    BY <1>1, <2>2 DEF Occurrences
<1> QED
  BY <1>2, <1>3 DEF Sequential

\* A tick that finds nobody else at the cursor reads what is in it.
LEMMA SequentialRead ==
    ASSUME TypeOK, Quiet, Sequential, NEW d \in Drivers, Read(d), ~overlapped'
    PROVE  Sequential'
<1> USE DEF Executing
<1>1. /\ daemon = "up" /\ now'[d] = clock /\ held'[d] = (IF torn THEN Blank ELSE cursor)
      /\ pc' = [pc EXCEPT ![d] = "read"]
      /\ \A x \in Drivers : x # d => now'[x] = now[x] /\ held'[x] = held[x]
      /\ UNCHANGED <<clock, daemon, cursor, todo, runs>>
  BY DEF Read, Go, TypeOK, processVars, runVars
<1>2. \A x \in Drivers : pc[x] \notin Writing
  BY DEF Read
<1>3. held'[d] = cursor
  BY <1>1, <1>2 DEF Quiet, Writing
<1>4. pc[d] = "idle"
  BY DEF Read
<1>5. \A e \in Occurrences : Known(e)' <=> Known(e)
  BY <1>1, <1>4 DEF Known, TypeOK
<1>6. Alone' /\ Planned'
  BY <1>1, <1>2 DEF Alone, Planned, Writing, TypeOK
<1>7. Covered'
  BY <1>1, <1>5 DEF Covered, Sequential
<1>8. FreshRead'
  <2> SUFFICES ASSUME NEW x \in Drivers, pc'[x] = "read"
               PROVE  /\ held'[x] = cursor'
                      /\ \A e \in Occurrences : Known(e)' /\ cursor'[e[1]] = Never => e[2] < now'[x]
    BY DEF FreshRead
  <2>1. x = d
    BY <1>1, <1>2 DEF Writing, TypeOK
  <2>2. ASSUME NEW e \in Occurrences, Known(e), cursor[e[1]] = Never PROVE e[2] < clock
    <3>1. e[2] \in Nat \ {0}
      BY CronAssumption DEF Occurrences, Times
    <3>2. e[2] <= cursor[e[1]] \/ e[2] < clock
      BY <1>1, <2>2 DEF Sequential, Covered
    <3> QED
      BY <2>2, <3>1, <3>2 DEF Never
  <2> QED
    BY <1>1, <1>3, <1>5, <2>1, <2>2
<1>9. Unstarted'
  BY <1>1, StillUnstarted DEF Sequential, TypeOK
<1> QED
  BY <1>6, <1>7, <1>8, <1>9 DEF Sequential

\* What a snapshot plans is newer than anything known.
LEMMA SequentialSnapshot ==
    ASSUME TypeOK, Quiet, Sequential, NEW d \in Drivers, Snapshot(d)
    PROVE  Sequential'
<1> USE DEF Executing
<1> DEFINE to == NextCursor(held[d], now[d])
<1>1. /\ pc[d] = "read" /\ held[d] = cursor
      /\ \A e \in Occurrences : Known(e) /\ cursor[e[1]] = Never => e[2] < now[d]
  BY DEF Snapshot, Sequential, FreshRead
<1>2. /\ held'[d] = to /\ todo'[d] = Emissions(held[d], now[d])
      /\ pc' = [pc EXCEPT ![d] = "truncate"]
      /\ \A x \in Drivers : x # d => held'[x] = held[x] /\ now'[x] = now[x] /\ todo'[x] = todo[x]
      /\ UNCHANGED <<clock, daemon, cursor, runs>>
  BY DEF Snapshot, Go, TypeOK, processVars, fileVars, runVars
<1>3. clock \in Nat /\ now[d] \in Nat /\ now[d] <= clock /\ now[d] \in 0..MaxTime /\ held[d] \in Cursors
  BY CronAssumption DEF TypeOK, Times
<1>4. /\ to \in Cursors
      /\ \A j \in Jobs : to[j] # cursor[j] =>
            /\ cursor[j] < to[j] /\ to[j] <= now[d]
            /\ cursor[j] = Never => to[j] = now[d]
      /\ \A e \in Emissions(held[d], now[d]) :
            e \in Occurrences /\ e[2] = to[e[1]] /\ to[e[1]] # cursor[e[1]]
  BY <1>1, <1>3, NextCursorFacts DEF TypeOK
<1> HIDE DEF to
<1>5. \A e \in Occurrences : Known(e)' <=> Known(e)
  BY <1>1, <1>2 DEF Known, TypeOK
<1>6. Alone'
  BY <1>1, <1>2 DEF Sequential, Alone, Writing, TypeOK
<1>7. \A x \in Drivers : x # d => pc[x] \notin Writing /\ pc'[x] = pc[x]
  BY <1>1, <1>2 DEF Sequential, Alone, Writing, TypeOK
<1>8. Covered'
  BY <1>2, <1>5 DEF Covered, Sequential
<1>9. FreshRead'
  BY <1>2, <1>7 DEF FreshRead, Writing, TypeOK
<1>10. Planned'
  <2>1. ASSUME NEW j \in Jobs PROVE Ahead(d, j)'
    <3> SUFFICES ASSUME to[j] # cursor[j]
                 PROVE  /\ cursor[j] < to[j] /\ to[j] <= clock
                        /\ \A e \in Occurrences : Known(e) /\ e[1] = j => e[2] < to[j]
      BY <1>2, <1>5 DEF Ahead
    <3>1. cursor[j] \in Nat /\ to[j] \in Nat
      BY <1>4, CronAssumption DEF TypeOK, Cursors
    <3>2. cursor[j] < to[j] /\ to[j] <= clock
      BY <1>3, <1>4, <3>1
    <3>3. ASSUME NEW e \in Occurrences, Known(e), e[1] = j PROVE e[2] < to[j]
      <4>1. e[2] \in Nat
        BY DEF Occurrences, Times
      <4>2. CASE e[2] <= cursor[j]
        BY <3>1, <3>2, <4>1, <4>2
      <4>3. CASE cursor[j] = Never
        BY <1>1, <1>4, <3>3, <4>3
      <4> QED
        BY <3>3, <4>2, <4>3 DEF Sequential, Covered
    <3> QED
      BY <3>2, <3>3
  <2>2. \A e \in todo'[d] : e[2] = held'[d][e[1]] /\ held'[d][e[1]] # cursor'[e[1]]
    BY <1>2, <1>4
  <2>3. \A x \in Drivers : pc'[x] \in {"truncate", "fill"} => x = d
    BY <1>7 DEF Writing
  <2> QED
    BY <2>1, <2>2, <2>3 DEF Planned
<1>11. Unstarted'
  <2>1. \A x \in Drivers : pc'[x] \in Executing => pc[x] \in Executing /\ todo'[x] = todo[x]
    BY <1>2 DEF TypeOK
  <2> QED
    BY <1>2, <2>1, StillUnstarted DEF Sequential
<1> QED
  BY <1>6, <1>8, <1>9, <1>10, <1>11 DEF Sequential

\* The cursor covers what the tick goes on to run, and no one has run it before.
LEMMA SequentialFill ==
    ASSUME TypeOK, Quiet, Sequential, NEW d \in Drivers, Fill(d)
    PROVE  Sequential' /\ \A j \in Jobs : cursor'[j] >= cursor[j]
<1> USE DEF Executing
<1>1. /\ pc[d] = "fill" /\ cursor' = held[d]
      /\ pc' = [pc EXCEPT ![d] = "run"]
      /\ UNCHANGED <<clock, daemon, todo, runs>>
  BY DEF Fill, Go, processVars, runVars
<1>2. /\ \A j \in Jobs : Ahead(d, j)
      /\ \A e \in todo[d] : e[2] = held[d][e[1]] /\ held[d][e[1]] # cursor[e[1]]
  BY <1>1 DEF Sequential, Planned
<1>3. \A x \in Drivers : x # d => pc[x] \notin Writing /\ pc'[x] = pc[x]
  BY <1>1 DEF Sequential, Alone, Writing, TypeOK
<1>4. todo[d] \subseteq Occurrences /\ \A e \in Occurrences : e[1] \in Jobs /\ e[2] \in Nat
  BY DEF TypeOK, Occurrences, Times
<1>5. \A j \in Jobs : cursor[j] \in Nat /\ held[d][j] \in Nat
  BY CronAssumption DEF TypeOK, Cursors
<1>6. \A e \in todo[d] : ~Known(e)
  BY <1>2, <1>4 DEF Ahead
<1>7. \A e \in Occurrences : Known(e)' => Known(e) \/ e \in todo[d]
  BY <1>1, <1>3 DEF Known, TypeOK
<1>8. \A j \in Jobs : cursor'[j] >= cursor[j]
  BY <1>1, <1>2, <1>5 DEF Ahead
<1>9. Alone' /\ FreshRead' /\ Planned'
  BY <1>1, <1>3 DEF Alone, FreshRead, Planned, Writing, TypeOK
<1>10. Covered'
  <2> SUFFICES ASSUME NEW e \in Occurrences, Known(e)'
               PROVE  /\ e[2] <= clock
                      /\ \/ e[2] <= held[d][e[1]]
                         \/ held[d][e[1]] = Never /\ (e[2] < clock \/ daemon = "down")
    BY <1>1 DEF Covered
  <2>1. CASE Known(e) /\ held[d][e[1]] = cursor[e[1]]
    BY <2>1 DEF Sequential, Covered
  <2>2. CASE Known(e) /\ held[d][e[1]] # cursor[e[1]]
    <3>1. e[2] < held[d][e[1]] /\ held[d][e[1]] <= clock
      BY <1>2, <1>4, <2>2 DEF Ahead
    <3> QED
      BY <1>4, <1>5, <2>2, <3>1 DEF Sequential, Covered
  <2>3. CASE e \in todo[d]
    <3>1. e[2] = held[d][e[1]] /\ held[d][e[1]] <= clock
      BY <1>2, <1>4, <2>3 DEF Ahead
    <3> QED
      BY <1>4, <3>1
  <2> QED
    BY <1>7, <2>1, <2>2, <2>3
<1>11. Unstarted'
  <2> SUFFICES ASSUME NEW x \in Drivers, pc'[x] \in Executing, NEW e \in todo[x]
               PROVE  /\ runs[e] = "none"
                      /\ \A y \in Drivers : y # x /\ pc'[y] \in Executing => e \notin todo[y]
    BY <1>1 DEF Unstarted
  <2>1. CASE x = d
    <3>1. ~Known(e)
      BY <1>6, <2>1
    <3> QED
      BY <1>3, <1>4, <2>1, <3>1 DEF Known
  <2>2. CASE x # d
    <3>1. pc[x] \in Executing /\ Known(e)
      BY <1>3, <2>2 DEF Known
    <3>2. e \notin todo[d]
      BY <1>6, <3>1
    <3> QED
      BY <1>3, <3>1, <3>2 DEF Sequential, Unstarted
  <2> QED
    BY <2>1, <2>2
<1> QED
  BY <1>8, <1>9, <1>10, <1>11 DEF Sequential

\* Every step that changes the cursor moves it forward, unless it was torn by a crash.
LEMMA SequentialStep ==
    ASSUME TypeOK, Quiet, Sequential, [Next]_vars, ~overlapped'
    PROVE  /\ Sequential'
           /\ repeated' = repeated
           /\ \A j \in Jobs : cursor'[j] >= cursor[j] \/ (torn /\ daemon' = "down")
<1>0. \A j \in Jobs : cursor[j] \in Nat
  BY CronAssumption DEF TypeOK, Cursors
<1>1. ASSUME \/ Tick \/ Stop \/ Restart \/ UNCHANGED vars
             \/ \E o \in Operators : Resolve(o) \/ Append(o)
             \/ \E d \in Drivers : Truncate(d) \/ End(d) \/ FailTransiently(d) \/ Retry(d) \/ Done(d)
      PROVE  Sequential' /\ UNCHANGED <<repeated, cursor>>
  <2>1. Sequential'
    BY <1>1, SequentialElsewhere
  <2>2. UNCHANGED <<repeated, cursor>>
    BY <1>1 DEF Tick, Stop, Restart, Resolve, Append, vars, Truncate, End, FailTransiently, Retry,
                Done, runVars, fileVars
  <2> QED
    BY <2>1, <2>2
<1>2. ASSUME NEW d \in Drivers, Begin(d) PROVE Sequential' /\ UNCHANGED <<repeated, cursor>>
  <2>1. cursor' = cursor
    BY <1>2 DEF Begin, fileVars
  <2> QED
    BY <1>2, <2>1, SequentialBegin
<1>3. CASE Crash
  <2>1. Sequential' /\ repeated' = repeated
    BY <1>3, SequentialCrash DEF Crash
  <2>2. daemon' = "down" /\ cursor' = IF torn THEN Blank ELSE cursor
    BY <1>3 DEF Crash
  <2> QED
    BY <1>0, <2>1, <2>2
<1>4. ASSUME NEW d \in Drivers, Read(d) \/ Snapshot(d) PROVE Sequential' /\ UNCHANGED <<repeated, cursor>>
  <2>1. UNCHANGED <<repeated, cursor>>
    BY <1>4 DEF Read, Snapshot, runVars, fileVars
  <2> QED
    BY <1>4, <2>1, SequentialRead, SequentialSnapshot
<1>5. ASSUME NEW d \in Drivers, Fill(d)
      PROVE  Sequential' /\ repeated' = repeated /\ \A j \in Jobs : cursor'[j] >= cursor[j]
  <2>1. repeated' = repeated
    BY <1>5 DEF Fill, runVars
  <2> QED
    BY <1>5, <2>1, SequentialFill
<1> QED
  <2>1. \A j \in Jobs : cursor' = cursor => cursor'[j] >= cursor[j]
    BY <1>0
  <2> QED
    BY <1>1, <1>2, <1>3, <1>4, <1>5, <2>1 DEF Next, TickStep

\* Once ticks have overlapped they have: the history does not forget.
LEMMA OverlapStays ==
    ASSUME TypeOK, [Next]_vars, ~overlapped'
    PROVE  ~overlapped
BY DEF Next, TickStep, Tick, Stop, Crash, Restart, Resolve, Append, Read, Snapshot, Truncate, Fill,
       Begin, Retry, End, Done, FailTransiently, vars, fileVars

LEMMA SequentialInit == Init => IInv
<1> SUFFICES ASSUME Init PROVE IInv
  OBVIOUS
<1> USE DEF Executing
<1>1. TypeOK /\ Quiet
  BY TypeInit
<1>2. SilencedBare /\ OncePerWindow
  BY DEF Init, SilencedBare, OncePerWindow
<1>3. \A e \in Occurrences : ~Known(e)
  BY DEF Init, Known, Occurrences
<1>4. Sequential
  BY <1>3 DEF Init, Sequential, Alone, Writing, Covered, FreshRead, Planned, Unstarted
<1> QED
  BY <1>1, <1>2, <1>4 DEF IInv

LEMMA IInvStep == IInv /\ [Next]_vars => IInv'
<1> SUFFICES ASSUME IInv, [Next]_vars PROVE IInv'
  OBVIOUS
<1>1. TypeOK' /\ Quiet' /\ SilencedBare'
  BY TypeStep, QuietStep, BareStep DEF IInv
<1>2. ASSUME ~overlapped' PROVE Sequential' /\ ~repeated'
  <2>1. ~overlapped
    BY <1>2, OverlapStays DEF IInv
  <2> QED
    BY <1>2, <2>1, SequentialStep DEF IInv, OncePerWindow
<1> QED
  BY <1>1, <1>2 DEF IInv, OncePerWindow

\* No occurrence of a job is run a second time (the cursor is written before the runs
\* and every window is later than the last one), through any stop, crash and restart and
\* with any number of drivers whose readings and writings of the cursor do not overlap.
THEOREM RunsOnce == Spec => []OncePerWindow
<1>1. Init => IInv
  BY SequentialInit
<1>2. IInv /\ [Next]_vars => IInv'
  BY IInvStep
<1>3. IInv => OncePerWindow
  BY DEF IInv
<1> QED
  BY <1>1, <1>2, <1>3, PTL DEF Spec

\* The cursor of a job only moves forward, but for a crash between the truncation of the
\* file and its filling (writeFile of writeNeonCronDaemonCursor).
THEOREM CursorMovesForward == Spec => CursorOnlyForward
<1>1. Init => IInv
  BY SequentialInit
<1>2. IInv /\ [Next]_vars => IInv'
  BY IInvStep
<1>3. IInv /\ [Next]_vars =>
        (~overlapped' => \A j \in Jobs : cursor'[j] >= cursor[j] \/ (torn /\ daemon' = "down"))
  <2> SUFFICES ASSUME IInv, [Next]_vars, ~overlapped'
               PROVE  \A j \in Jobs : cursor'[j] >= cursor[j] \/ (torn /\ daemon' = "down")
    OBVIOUS
  <2>1. ~overlapped
    BY OverlapStays DEF IInv
  <2> QED
    BY <2>1, SequentialStep DEF IInv
<1> QED
  BY <1>1, <1>2, <1>3, PTL DEF Spec, CursorOnlyForward

----------------------------------------------------------------------------
(* No window is left out.                                                   *)

\* w is the window of s that follows last.
Follows(s, last, w) ==
    /\ s.kind = "interval" => w = last + s.every
    /\ s.kind = "cron" => w = NextMatch(s.every, last)

\* The occurrence has its record or is about to get it.
OnItsWay(j, w) == runs[<<j, w>>] # "none" \/ \E d \in Drivers : <<j, w>> \in todo[d]

\* The cursor is a window of the unbroken series.
Series ==
    \A j \in Jobs : since[j] # Never =>
        /\ since[j] <= cursor[j]
        /\ store[j].schedule.kind = "interval" =>
              (cursor[j] - since[j]) % store[j].schedule.every = 0

\* What is planned is the next one, and will be run.
PlannedNext ==
    \A d \in Drivers, j \in Jobs :
        pc[d] \in {"truncate", "fill"} /\ held[d][j] # cursor[j] =>
            /\ <<j, held[d][j]>> \in todo[d]
            /\ since[j] # Never => Follows(store[j].schedule, cursor[j], held[d][j])

InSeries(j, w) ==
    LET s == store[j].schedule IN
    /\ s.kind # "none" /\ since[j] # Never /\ w \in since[j]..cursor[j]
    /\ (w - (IF s.kind = "interval" THEN since[j] ELSE 0)) % s.every = 0

Gapless == \A j \in Jobs, w \in Times : InSeries(j, w) => OnItsWay(j, w)

LEMMA NoGapIsGapless == NoGap <=> (~overlapped => Gapless)
BY DEF NoGap, Gapless, InSeries, OnItsWay

LEMMA DivideBack ==
    ASSUME NEW a \in Nat, NEW e \in Nat \ {0}, a % e = 0
    PROVE  a \div e \in Nat /\ a = e * (a \div e)
<1> DEFINE q == a \div e
           r == a % e
<1>1. q \in Int /\ r \in 0..(e - 1) /\ a = e * q + r
  BY SMT
<1>2. r = 0
  OBVIOUS
<1> HIDE DEF q, r
<1>3. a = e * q
  BY <1>1, <1>2, SMT
<1>4. q >= 0
  BY <1>1, <1>3, SMT
<1> QED
  BY <1>1, <1>3, <1>4 DEF q

LEMMA MultiplesApart ==
    ASSUME NEW a \in Nat, NEW b \in Nat, NEW e \in Nat \ {0}, a % e = 0, b % e = 0, a < b
    PROVE  a + e <= b
<1>1. PICK p \in Nat : a = e * p
  BY DivideBack
<1>2. PICK q \in Nat : b = e * q
  BY DivideBack
<1>3. p < q
  BY <1>1, <1>2, SMT
<1>4. e * (p + 1) = e * p + e
  BY SMT
<1>5. e * (p + 1) <= e * q
  BY <1>3, SMT
<1> QED
  BY <1>1, <1>2, <1>4, <1>5, SMT

LEMMA MultipleMore ==
    ASSUME NEW a \in Nat, NEW e \in Nat \ {0}, a % e = 0
    PROVE  (a + e) % e = 0
<1> DEFINE p == (a + e) \div e
           r == (a + e) % e
<1>1. p \in Int /\ r \in 0..(e - 1) /\ a + e = e * p + r
  BY SMT
<1>2. PICK q \in Nat : a = e * q
  BY DivideBack
<1> HIDE DEF p, r
<1>3. e * (q + 1) = e * p + r
  BY <1>1, <1>2, SMT
<1>4. ~(p < q + 1)
  <2> SUFFICES ASSUME p < q + 1 PROVE FALSE
    OBVIOUS
  <2>1. e * (p + 1) <= e * (q + 1)
    BY <1>1, SMT
  <2>2. e * (p + 1) = e * p + e
    BY <1>1, SMT
  <2>3. e * p \in Int
    BY <1>1, SMT
  <2> QED
    BY <1>1, <1>3, <2>1, <2>2, <2>3, SMT
<1>5. e * (q + 1) <= e * p
  BY <1>1, <1>4, SMT
<1>6. e * p \in Int
  BY <1>1, SMT
<1>7. r = 0
  BY <1>1, <1>3, <1>5, <1>6, SMT
<1> QED
  BY <1>7 DEF r

\* Between a window of a cron expression and the next there is no other.
LEMMA MatchIsNext ==
    ASSUME NEW n \in Nat, NEW w \in Nat, NEW e \in Nat \ {0}, w % e = 0, n < w
    PROVE  NextMatch(e, n) <= w
<1>1. PICK q \in Nat : w = e * q
  BY DivideBack
<1> DEFINE p == n \div e
           r == n % e
<1>2. p \in Int /\ r \in 0..(e - 1) /\ n = e * p + r
  BY SMT
<1> HIDE DEF p, r
<1>3. p < q
  BY <1>1, <1>2, SMT
<1>4. e * (p + 1) <= e * q
  BY <1>2, <1>3, SMT
<1>5. (p + 1) * e = e * (p + 1)
  BY <1>2, SMT
<1> QED
  BY <1>1, <1>2, <1>4, <1>5, SMT DEF p, NextMatch

LEMMA EveryType ==
    ASSUME NEW s \in Schedules, s.kind # "none"
    PROVE  s.every \in Nat \ {0} /\ s.kind \in {"interval", "cron"}
<1>1. s # NoSchedule
  BY DEF NoSchedule
<1>2. s \in [kind : {"interval"}, every : Intervals] \cup [kind : {"cron"}, every : Patterns]
  BY <1>1 DEF Schedules
<1> QED
  BY <1>2, CronAssumption

\* From one window of the series to the next there is none in between.
LEMMA NoneBetween ==
    ASSUME NEW s \in Schedules, NEW first \in Nat, NEW last \in Nat, NEW next, NEW w \in Nat,
           s.kind # "none", first <= last, Follows(s, last, next), last < w, w <= next,
           s.kind = "interval" => (last - first) % s.every = 0,
           (w - (IF s.kind = "interval" THEN first ELSE 0)) % s.every = 0
    PROVE  w = next
<1>1. s.every \in Nat \ {0} /\ s.kind \in {"interval", "cron"}
  BY EveryType
<1>2. CASE s.kind = "interval"
  <2>1. PICK e \in Nat \ {0} : e = s.every
    BY <1>1
  <2>2. PICK a \in Nat : a = last - first
    BY SMT
  <2>3. PICK b \in Nat : b = w - first
    BY SMT
  <2>4. a % e = 0 /\ b % e = 0 /\ a < b
    BY <1>2, <2>1, <2>2, <2>3
  <2>5. a + e <= b
    BY <2>4, MultiplesApart
  <2>6. next = last + e
    BY <1>2, <2>1 DEF Follows
  <2> QED
    BY <2>2, <2>3, <2>5, <2>6
<1>3. CASE s.kind = "cron"
  <2>1. PICK e \in Nat \ {0} : e = s.every
    BY <1>1
  <2>2. w - 0 = w /\ w % e = 0
    BY <1>3, <2>1
  <2>3. next = NextMatch(e, last)
    BY <1>3, <2>1 DEF Follows
  <2>4. NextMatch(e, last) \in Nat /\ NextMatch(e, last) <= w
    BY <2>2, MatchIsAfter, MatchIsNext
  <2> QED
    BY <2>3, <2>4
<1> QED
  BY <1>1, <1>2, <1>3

LEMMA CursorTypes ==
    ASSUME TypeOK, NEW j \in Jobs
    PROVE  /\ since[j] \in Nat /\ cursor[j] \in Nat /\ cursor[j] <= MaxTime
           /\ \A d \in Drivers : held[d][j] \in Nat /\ held[d][j] <= MaxTime
           /\ store[j].schedule \in Schedules
BY CronAssumption DEF TypeOK, Cursors, Jobstates

\* The steps that leave the cursor alone: a series is broken or goes on with the
\* schedule it had, and what was to be run still is, or has its record.
LEMMA GapElsewhere ==
    ASSUME TypeOK, TypeOK', Series, PlannedNext, Gapless, UNCHANGED cursor,
           \A j \in Jobs : \/ since'[j] = Never
                           \/ since'[j] = since[j] /\ store'[j].schedule = store[j].schedule,
           \A e \in Occurrences : runs[e] # "none" => runs'[e] # "none",
           \A d \in Drivers : \A e \in todo[d] : e \in todo'[d] \/ runs'[e] # "none",
           \A d \in Drivers : pc'[d] \in {"truncate", "fill"} =>
               pc[d] \in {"truncate", "fill"} /\ held'[d] = held[d] /\ todo[d] \subseteq todo'[d]
    PROVE  Series' /\ PlannedNext' /\ Gapless'
<1>1. Series'
  BY DEF Series
<1>2. PlannedNext'
  BY DEF PlannedNext, Follows
<1>3. Gapless'
  <2> SUFFICES ASSUME NEW j \in Jobs, NEW w \in Times, InSeries(j, w)' PROVE OnItsWay(j, w)'
    BY DEF Gapless
  <2>1. since'[j] = since[j] /\ store'[j].schedule = store[j].schedule /\ cursor'[j] = cursor[j]
    BY DEF InSeries
  <2>2. InSeries(j, w)
    BY <2>1 DEF InSeries
  <2>3. OnItsWay(j, w) /\ <<j, w>> \in Occurrences
    BY <2>2 DEF Gapless, Occurrences
  <2> QED
    BY <2>3 DEF OnItsWay
<1> QED
  BY <1>1, <1>2, <1>3

\* A change of the store breaks the series of its job unless it keeps the schedule.
LEMMA GapStore ==
    ASSUME TypeOK, NEW o \in Operators, Append(o), NEW j \in Jobs
    PROVE  \/ since'[j] = Never
           \/ since'[j] = since[j] /\ store'[j].schedule = store[j].schedule
<1> DEFINE e == pending[o]
<1>1. e \in Events /\ e.job \in Jobs
  BY DEF Append, TypeOK, Events
<1>2. CASE e.mutation = "remove" \/ e.schedule # Kept
  BY <1>1, <1>2 DEF Append, TypeOK, Cursors
<1>3. CASE ~(e.mutation = "remove" \/ e.schedule # Kept)
  <2>1. Project(store[e.job], e).schedule = store[e.job].schedule
    BY <1>3 DEF Project
  <2>2. since' = since /\ store' = [store EXCEPT ![e.job] = Project(store[e.job], e)]
    BY <1>3 DEF Append
  <2> QED
    BY <1>1, <2>1, <2>2 DEF TypeOK
<1> QED
  BY <1>2, <1>3

\* A snapshot plans the window that follows the one in the cursor.
LEMMA GapSnapshot ==
    ASSUME TypeOK, TypeOK', Quiet, Sequential, Series, PlannedNext, Gapless,
           NEW d \in Drivers, Snapshot(d)
    PROVE  Series' /\ PlannedNext' /\ Gapless'
<1> DEFINE to == NextCursor(held[d], now[d])
<1>1. pc[d] = "read" /\ held[d] = cursor /\ todo[d] = {}
  BY DEF Snapshot, Sequential, FreshRead, Quiet
<1>2. /\ held'[d] = to /\ todo'[d] = Emissions(cursor, now[d])
      /\ \A x \in Drivers : x # d =>
            pc'[x] = pc[x] /\ held'[x] = held[x] /\ todo'[x] = todo[x]
      /\ UNCHANGED <<store, cursor, since, runs>>
  BY <1>1 DEF Snapshot, Go, TypeOK, storeVars, fileVars, runVars
<1>3. Series'
  BY <1>2 DEF Series
<1>4. Gapless'
  BY <1>1, <1>2 DEF Gapless, InSeries, OnItsWay
<1>5. PlannedNext'
  <2> SUFFICES ASSUME NEW x \in Drivers, NEW j \in Jobs, pc'[x] \in {"truncate", "fill"},
                      held'[x][j] # cursor[j]
               PROVE  /\ <<j, held'[x][j]>> \in todo'[x]
                      /\ since[j] # Never => Follows(store[j].schedule, cursor[j], held'[x][j])
    BY <1>2 DEF PlannedNext
  <2>1. CASE x # d
    BY <1>2, <2>1 DEF PlannedNext
  <2>2. CASE x = d
    <3>1. j \in DueJobs(cursor, now[d]) /\ to[j] = NextRun(store[j].schedule, cursor[j], now[d])
      BY <1>1, <1>2, <2>2 DEF NextCursor
    <3>2. to[j] \in Times
      <4>1. to[j] \in 1..now[d] /\ now[d] \in 0..clock /\ clock \in Times
        BY <3>1 DEF DueJobs, IsDue, TypeOK
      <4> HIDE DEF to
      <4> QED
        BY <4>1, CronAssumption DEF Times
    <3>3. <<j, to[j]>> \in Emissions(cursor, now[d])
      BY <1>1, <3>1, <3>2 DEF Emissions
    <3>4. ASSUME since[j] # Never PROVE Follows(store[j].schedule, cursor[j], to[j])
      <4>1. cursor[j] # Never
        BY <3>4, CursorTypes DEF Series, Never
      <4> HIDE DEF to
      <4> QED
        BY <3>1, <4>1 DEF NextRun, Follows
    <3> QED
      BY <1>2, <2>2, <3>3, <3>4
  <2> QED
    BY <2>1, <2>2
<1> QED
  BY <1>3, <1>4, <1>5

\* The cursor moves on by one window, which is about to be run.
LEMMA GapFill ==
    ASSUME TypeOK, TypeOK', Quiet, Sequential, Series, PlannedNext, Gapless,
           NEW d \in Drivers, Fill(d)
    PROVE  Series' /\ PlannedNext' /\ Gapless'
<1>1. /\ pc[d] = "fill" /\ cursor' = held[d] /\ pc' = [pc EXCEPT ![d] = "run"]
      /\ since' = [j \in Jobs |-> IF since[j] = Never /\ <<j, held[d][j]>> \in todo[d]
                                  THEN held[d][j] ELSE since[j]]
      /\ UNCHANGED <<store, todo, runs>>
  BY DEF Fill, Go, storeVars, runVars
<1>2. PlannedNext'
  <2>1. \A x \in Drivers : pc'[x] \notin {"truncate", "fill"}
    BY <1>1 DEF Sequential, Alone, Writing, TypeOK
  <2> QED
    BY <2>1 DEF PlannedNext
<1>3. ASSUME NEW j \in Jobs, since'[j] # Never
      PROVE  \/ since[j] = Never /\ since'[j] = held[d][j] /\ <<j, held[d][j]>> \in todo[d]
             \/ since[j] # Never /\ since'[j] = since[j] /\ held[d][j] = cursor[j]
             \/ /\ since[j] # Never /\ since'[j] = since[j] /\ <<j, held[d][j]>> \in todo[d]
                /\ Follows(store[j].schedule, cursor[j], held[d][j])
                /\ cursor[j] < held[d][j]
  <2>1. /\ held[d][j] # cursor[j] =>
              /\ cursor[j] < held[d][j] /\ <<j, held[d][j]>> \in todo[d]
              /\ since[j] # Never => Follows(store[j].schedule, cursor[j], held[d][j])
    BY <1>1 DEF Sequential, Planned, Ahead, PlannedNext
  <2> QED
    BY <1>1, <1>3, <2>1
<1>4. Series'
  <2> SUFFICES ASSUME NEW j \in Jobs, since'[j] # Never
               PROVE  /\ since'[j] <= held[d][j]
                      /\ store[j].schedule.kind = "interval" =>
                            (held[d][j] - since'[j]) % store[j].schedule.every = 0
    BY <1>1 DEF Series
  <2>1. /\ since[j] \in Nat /\ cursor[j] \in Nat /\ held[d][j] \in Nat
        /\ store[j].schedule \in Schedules
    BY CursorTypes
  <2>2. CASE since'[j] = held[d][j]
    <3>1. store[j].schedule.kind = "interval" => store[j].schedule.every \in Nat \ {0}
      BY <2>1, EveryType
    <3>2. held[d][j] - held[d][j] = 0 /\ \A n \in Nat \ {0} : 0 % n = 0
      BY <2>1, SMT
    <3> QED
      BY <2>1, <2>2, <3>1, <3>2
  <2>3. CASE since[j] # Never /\ since'[j] = since[j] /\ held[d][j] = cursor[j]
    BY <2>3 DEF Series
  <2>4. CASE /\ since[j] # Never /\ since'[j] = since[j]
             /\ Follows(store[j].schedule, cursor[j], held[d][j])
             /\ cursor[j] < held[d][j]
    <3>1. since[j] <= cursor[j]
      BY <2>4 DEF Series
    <3>2. ASSUME store[j].schedule.kind = "interval"
          PROVE  (held[d][j] - since[j]) % store[j].schedule.every = 0
      <4>1. PICK e \in Nat \ {0} : e = store[j].schedule.every
        BY <2>1, <3>2, EveryType
      <4>2. PICK a \in Nat : a = cursor[j] - since[j]
        BY <2>1, <3>1, SMT
      <4>3. a % e = 0
        BY <2>4, <3>2, <4>1, <4>2 DEF Series
      <4>4. held[d][j] = cursor[j] + e
        BY <2>4, <3>2, <4>1 DEF Follows
      <4>5. held[d][j] - since[j] = a + e
        BY <2>1, <4>2, <4>4, SMT
      <4> QED
        BY <4>1, <4>3, <4>5, MultipleMore
    <3> QED
      BY <2>1, <2>4, <3>1, <3>2
  <2> QED
    BY <1>3, <2>2, <2>3, <2>4
<1>5. Gapless'
  <2> SUFFICES ASSUME NEW j \in Jobs, NEW w \in Times, InSeries(j, w)' PROVE OnItsWay(j, w)
    BY <1>1 DEF Gapless, OnItsWay
  <2>1. /\ since[j] \in Nat /\ cursor[j] \in Nat /\ held[d][j] \in Nat /\ w \in Nat
        /\ store[j].schedule \in Schedules
    BY CursorTypes DEF Times
  <2>2. since'[j] # Never /\ since'[j] <= w /\ w <= held[d][j] /\ store[j].schedule.kind # "none"
    BY <1>1, <2>1 DEF InSeries
  <2>3. CASE w = held[d][j] /\ <<j, held[d][j]>> \in todo[d]
    BY <2>3 DEF OnItsWay
  <2>4. CASE since[j] # Never /\ since'[j] = since[j] /\ w <= cursor[j]
    <3>1. InSeries(j, w)
      BY <1>1, <2>1, <2>2, <2>4 DEF InSeries
    <3> QED
      BY <3>1 DEF Gapless
  <2>5. CASE /\ since[j] # Never /\ since'[j] = since[j] /\ <<j, held[d][j]>> \in todo[d]
             /\ Follows(store[j].schedule, cursor[j], held[d][j])
             /\ cursor[j] < w
    <3>1. /\ since[j] <= cursor[j]
          /\ store[j].schedule.kind = "interval" =>
                (cursor[j] - since[j]) % store[j].schedule.every = 0
      BY <2>5 DEF Series
    <3>2. (w - (IF store[j].schedule.kind = "interval" THEN since[j] ELSE 0))
             % store[j].schedule.every = 0
      BY <1>1, <2>5 DEF InSeries
    <3>3. w = held[d][j]
      BY <2>1, <2>2, <2>5, <3>1, <3>2, NoneBetween
    <3> QED
      BY <2>3, <2>5, <3>3
  <2> QED
    BY <1>3, <2>1, <2>2, <2>3, <2>4, <2>5
<1> QED
  BY <1>2, <1>4, <1>5

\* A crash breaks the series of what was about to be run, and every series if it
\* tears the cursor.
LEMMA GapCrash ==
    ASSUME TypeOK, TypeOK', Quiet, Sequential, Series, PlannedNext, Gapless, Crash
    PROVE  Series' /\ PlannedNext' /\ Gapless'
<1>1. /\ \A d \in Drivers : pc'[d] = "idle" /\ todo'[d] = {}
      /\ UNCHANGED <<store, runs>>
  BY DEF Crash, storeVars
<1>2. PlannedNext'
  BY <1>1 DEF PlannedNext
<1>3. ASSUME NEW j \in Jobs, since'[j] # Never
      PROVE  /\ ~torn /\ cursor' = cursor /\ since'[j] = since[j]
             /\ \A d \in Drivers : pc[d] \in Executing => \A w \in Times : <<j, w>> \notin todo[d]
  BY <1>3 DEF Crash, Executing
<1>4. Series'
  BY <1>1, <1>3 DEF Series
<1>5. Gapless'
  <2> SUFFICES ASSUME NEW j \in Jobs, NEW w \in Times, InSeries(j, w)' PROVE runs[<<j, w>>] # "none"
    BY <1>1 DEF Gapless, OnItsWay
  <2>1. since'[j] # Never
    BY DEF InSeries
  <2>2. InSeries(j, w) /\ w <= cursor[j]
    BY <1>1, <1>3, <2>1, CursorTypes DEF InSeries, Times
  <2>3. OnItsWay(j, w)
    BY <2>2 DEF Gapless
  <2>4. ASSUME NEW d \in Drivers, <<j, w>> \in todo[d] PROVE FALSE
    <3>1. pc[d] \notin Executing
      BY <1>3, <2>1, <2>4
    <3>2. pc[d] \in {"truncate", "fill"}
      BY <2>4, <3>1 DEF Quiet, TypeOK, Steps, Executing
    <3>3. w = held[d][j] /\ held[d][j] # cursor[j] /\ cursor[j] < held[d][j]
      BY <2>4, <3>2 DEF Sequential, Planned, Ahead
    <3> QED
      BY <2>2, <3>3, CursorTypes
  <2> QED
    BY <2>3, <2>4 DEF OnItsWay
<1> QED
  BY <1>2, <1>4, <1>5

LEMMA GapStep ==
    ASSUME IInv, [Next]_vars, ~overlapped, ~overlapped', Series, PlannedNext, Gapless
    PROVE  Series' /\ PlannedNext' /\ Gapless'
<1>0. TypeOK /\ TypeOK' /\ Quiet /\ Sequential
  BY IInvStep DEF IInv
<1>1. ASSUME \/ Tick \/ Stop \/ Restart \/ UNCHANGED vars
             \/ \E o \in Operators : Resolve(o)
             \/ \E d \in Drivers : Read(d) \/ Truncate(d) \/ Done(d)
      PROVE  Series' /\ PlannedNext' /\ Gapless'
  <2>1. UNCHANGED <<cursor, since, store, runs, todo>>
    BY <1>1 DEF Tick, Stop, Restart, Resolve, Read, Truncate, Done, vars, storeVars, fileVars,
       runVars
  <2>2. \A d \in Drivers : pc'[d] \in {"truncate", "fill"} =>
           pc[d] \in {"truncate", "fill"} /\ held'[d] = held[d]
    BY <1>0, <1>1 DEF Tick, Stop, Restart, Resolve, Read, Truncate, Done, Go, vars, tickVars, TypeOK
  <2> QED
    BY <1>0, <2>1, <2>2, GapElsewhere
<1>2. ASSUME NEW d \in Drivers, Begin(d) \/ End(d) \/ FailTransiently(d) \/ Retry(d)
      PROVE  Series' /\ PlannedNext' /\ Gapless'
  <2>1. UNCHANGED <<cursor, since, store, held>>
    BY <1>2 DEF Begin, End, FailTransiently, Retry, storeVars, fileVars, tickVars
  <2>2. \A e \in Occurrences : runs[e] # "none" => runs'[e] # "none"
    BY <1>0, <1>2 DEF Begin, FirstAttempt, WithoutAgent, End, FailTransiently, Retry, TypeOK
  <2>3. \A x \in Drivers : \A e \in todo[x] : e \in todo'[x] \/ runs'[e] # "none"
    BY <1>0, <1>2 DEF Begin, FirstAttempt, WithoutAgent, End, FailTransiently, Retry, TypeOK
  <2>4. \A x \in Drivers : pc'[x] \in {"truncate", "fill"} =>
           pc[x] \in {"truncate", "fill"} /\ todo[x] \subseteq todo'[x]
    BY <1>0, <1>2 DEF Begin, End, FailTransiently, Retry, Go, TypeOK
  <2> QED
    BY <1>0, <2>1, <2>2, <2>3, <2>4, GapElsewhere
<1>3. ASSUME NEW o \in Operators, Append(o) PROVE Series' /\ PlannedNext' /\ Gapless'
  <2>1. UNCHANGED <<cursor, runs, todo, pc, held>>
    BY <1>3 DEF Append, tickVars, runVars
  <2>2. \A j \in Jobs : \/ since'[j] = Never
                        \/ since'[j] = since[j] /\ store'[j].schedule = store[j].schedule
    BY <1>0, <1>3, GapStore
  <2> QED
    BY <1>0, <2>1, <2>2, GapElsewhere
<1> QED
  BY <1>0, <1>1, <1>2, <1>3, GapSnapshot, GapFill, GapCrash DEF Next, TickStep

\* Between the first window of a series that nothing has broken and the cursor every
\* window of the schedule has its record or is about to be run: the cursor covers no
\* window that planNeonCronDaemonTick has not handed out, for any schedules and
\* any interleaving of ticks that do not overlap at the cursor.
THEOREM NothingLeftOut == Spec => []NoGap
<1> DEFINE GInv == IInv /\ (~overlapped => Series /\ PlannedNext /\ Gapless)
<1>1. Init => GInv
  <2> SUFFICES ASSUME Init PROVE GInv
    OBVIOUS
  <2>1. IInv
    BY SequentialInit
  <2>2. Series /\ PlannedNext /\ Gapless
    BY DEF Init, Blank, Series, PlannedNext, Gapless, InSeries
  <2> QED
    BY <2>1, <2>2
<1>2. GInv /\ [Next]_vars => GInv'
  <2> SUFFICES ASSUME GInv, [Next]_vars PROVE GInv'
    OBVIOUS
  <2>1. IInv'
    BY IInvStep
  <2>2. ASSUME ~overlapped' PROVE Series' /\ PlannedNext' /\ Gapless'
    <3>1. ~overlapped
      BY <2>2, OverlapStays DEF IInv
    <3> QED
      BY <2>2, <3>1, GapStep
  <2> QED
    BY <2>1, <2>2
<1>3. GInv => NoGap
  BY NoGapIsGapless
<1> QED
  BY <1>1, <1>2, <1>3, PTL DEF Spec

=============================================================================
