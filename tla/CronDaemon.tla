------------------------------ MODULE CronDaemon ------------------------------
(***************************************************************************)
(* The cron daemon (src/automation/cronDaemonService.ts) above its cursor    *)
(* file (cronDaemonRuntime.ts), the store of jobs (cronStore.ts) and the     *)
(* execution of what is due (cronRunExecutor.ts).                           *)
(*                                                                         *)
(* A tick reads the cursor, takes a snapshot of the jobs, writes the cursor  *)
(* that covers what is due and only then runs it, one run after the other.   *)
(* The timer never starts a tick while its own is under way, but a loop that *)
(* calls tickOnce (cron-daemon-run --ticks) or the daemon of another process *)
(* does not look at the timer's.  Times are numbered from 1; an occurrence   *)
(* of a job is named by its window, the time at which it was due.            *)
(***************************************************************************)
EXTENDS Naturals

CONSTANTS
    Jobs, Operators,
    Timer, Loops,       \* who calls tickOnce
    Intervals,          \* of the schedules every-<N>m
    Patterns,           \* of cron expressions: due at the multiples
    MaxAttempts,        \* attempts of one run
    MaxCatchup,         \* maxCatchupPerJob
    MaxTime,            \* bound: the clock
    MaxMutations,       \* bound: changes of the store
    MaxRestarts         \* bound: ends of the process

Drivers == {Timer} \cup Loops

ASSUME CronAssumption ==
    /\ Intervals \subseteq Nat \ {0} /\ Patterns \subseteq Nat \ {0}
    /\ MaxAttempts \in Nat \ {0} /\ MaxCatchup \in Nat
    /\ MaxTime \in Nat \ {0} /\ MaxMutations \in Nat /\ MaxRestarts \in Nat

Never == 0
Times == 1..MaxTime

\* manual-only and everything that does not parse is NoSchedule: it is never due.
NoSchedule == [kind |-> "none", every |-> 0]
Schedules == {NoSchedule} \cup [kind : {"interval"}, every : Intervals]
                          \cup [kind : {"cron"}, every : Patterns]

\* A job that is not in the projection, and the defaults of one that comes into it.
Absent == [there |-> FALSE, schedule |-> NoSchedule, enabled |-> TRUE]

\* The schedule of an event that carries none.
Kept == [kind |-> "kept", every |-> 0]
Mutations == {"add", "update", "remove", "enable", "disable"}
Events == [job : Jobs, mutation : Mutations, schedule : Schedules \cup {Kept}]
NoEvent == [mutation |-> "no event"]

VARIABLES
    clock,
    store,      \* the projection of the event log
    pending,    \* the event each operator is about to append
    mutations,
    daemon,     \* "up", "stopped" or "down"
    restarts,
    cursor,     \* the cursor file: the last window of each job
    torn,       \* the file is truncated and not yet filled
    pc, now, held, todo, \* of a tick: its step, its time, the cursor it has read and
                         \* then the one it writes, and what it has to run
    running, attempts,   \* the run a tick is in and its attempts
    runs,       \* the run store: the status of each occurrence
    overlapped, \* history: a tick read the cursor another was about to write
    repeated,   \* history: an occurrence was started that had been run before
    since,      \* history: first window of an unbroken series
    silenced    \* history: removed, and given no schedule since

storeVars == <<store, pending, mutations, silenced>>
processVars == <<clock, daemon, restarts>>
fileVars == <<cursor, torn, overlapped, since>>
tickVars == <<now, held>>
runVars == <<running, attempts, runs, repeated>>
vars == <<storeVars, processVars, fileVars, tickVars, runVars, pc, todo>>

Blank == [j \in Jobs |-> Never]
NoRun == <<>>

Init ==
    /\ clock = 1
    /\ store \in [Jobs -> {Absent} \cup [there : {TRUE}, schedule : Schedules, enabled : BOOLEAN]]
    /\ pending = [o \in Operators |-> NoEvent]
    /\ mutations = 0
    /\ daemon = "up"
    /\ restarts = 0
    /\ cursor = Blank
    /\ torn = FALSE
    /\ pc = [d \in Drivers |-> "idle"]
    /\ now = [d \in Drivers |-> Never]
    /\ held = [d \in Drivers |-> Blank]
    /\ todo = [d \in Drivers |-> {}]
    /\ running = [d \in Drivers |-> NoRun]
    /\ attempts = [d \in Drivers |-> 0]
    /\ runs = [e \in Jobs \X Times |-> "none"]
    /\ overlapped = FALSE
    /\ repeated = FALSE
    /\ since = Blank
    /\ silenced = {}

Tick ==
    /\ clock < MaxTime
    /\ clock' = clock + 1
    /\ UNCHANGED <<storeVars, daemon, restarts, fileVars, tickVars, runVars, pc, todo>>

-----------------------------------------------------------------------------
(* The store: read and check, then append.                                  *)

\* add wants a free id and a schedule, everything else an id that is there; only an
\* add or an update may carry a schedule.
Allowed(job, e) ==
    /\ (e.mutation = "add") = ~job.there
    /\ e.mutation = "add" => e.schedule # Kept
    /\ e.schedule # Kept => e.mutation \in {"add", "update"}

Resolve(o) ==
    /\ pending[o] = NoEvent
    /\ mutations < MaxMutations
    /\ mutations' = mutations + 1
    /\ \E e \in Events :
          /\ Allowed(store[e.job], e)
          /\ pending' = [pending EXCEPT ![o] = e]
    /\ UNCHANGED <<store, silenced, processVars, fileVars, tickVars, runVars, pc, todo>>

\* What an event makes of a job, whether or not the job is still what the operator read.
Project(job, e) ==
    IF e.mutation = "remove" THEN Absent
    ELSE [there    |-> TRUE,
          schedule |-> IF e.schedule = Kept THEN job.schedule ELSE e.schedule,
          enabled  |-> e.mutation = "enable" \/ (job.enabled /\ e.mutation # "disable")]

Append(o) ==
    /\ pending[o] # NoEvent
    /\ LET e == pending[o] IN
          /\ store' = [store EXCEPT ![e.job] = Project(store[e.job], e)]
          /\ silenced' = IF e.mutation = "remove" THEN silenced \cup {e.job}
                         ELSE IF e.schedule = Kept THEN silenced ELSE silenced \ {e.job}
          /\ since' = IF e.mutation = "remove" \/ e.schedule # Kept
                      THEN [since EXCEPT ![e.job] = Never] ELSE since
    /\ pending' = [pending EXCEPT ![o] = NoEvent]
    /\ UNCHANGED <<mutations, cursor, torn, overlapped, processVars, tickVars, runVars, pc, todo>>

-----------------------------------------------------------------------------
(* What is due.                                                             *)

\* The first match of a cron expression strictly after a time.
NextMatch(every, after) == (after \div every + 1) * every

\* nextRunAt of a job whose last window is given; Never if there is none.
NextRun(schedule, last, at) ==
    CASE schedule.kind = "none"     -> Never
      [] schedule.kind = "interval" -> IF last = Never THEN at ELSE last + schedule.every
      [] schedule.kind = "cron"     -> IF last = Never THEN Never
                                       ELSE NextMatch(schedule.every, last)

IsDue(job, last, at) ==
    /\ job.enabled
    /\ NextRun(job.schedule, last, at) \in 1..at

DueJobs(last, at) ==
    {j \in Jobs : /\ IsDue(store[j], last[j], at)
                  /\ NextRun(store[j].schedule, last[j], at) # last[j]}

NextCursor(last, at) ==
    [j \in Jobs |-> IF j \in DueJobs(last, at)
                    THEN NextRun(store[j].schedule, last[j], at) ELSE last[j]]

\* The windows between the last one and the current one, no more than MaxCatchup.
CatchUp(schedule, last, window) ==
    {w \in Times : /\ schedule.kind = "interval" /\ last # Never
                   /\ last < w /\ w < window
                   /\ \E k \in 1..MaxCatchup : w + k * schedule.every = window}

\* Mutant: what is late is not run.
EmissionsFresh(last, at) ==
    {e \in Jobs \X Times : e[1] \in DueJobs(last, at) /\ e[2] = NextCursor(last, at)[e[1]] /\ e[2] = at}

Emissions(last, at) ==
    LET to == NextCursor(last, at)
    IN  {e \in Jobs \X Times :
           /\ e[1] \in DueJobs(last, at)
           /\ \/ e[2] = to[e[1]]
              \/ e[2] \in CatchUp(store[e[1]].schedule, last[e[1]], to[e[1]])}

-----------------------------------------------------------------------------
(* A tick.                                                                  *)

Steps == {"idle", "read", "truncate", "fill", "run", "delay"}
Writing == {"read", "truncate", "fill"}
Go(d, step) == pc' = [pc EXCEPT ![d] = step]

\* A file that does not parse is read as an empty cursor.
Read(d) ==
    /\ daemon = "up" /\ pc[d] = "idle"
    /\ now' = [now EXCEPT ![d] = clock]
    /\ held' = [held EXCEPT ![d] = IF torn THEN Blank ELSE cursor]
    /\ overlapped' = (overlapped \/ \E x \in Drivers : pc[x] \in Writing)
    /\ Go(d, "read")
    /\ UNCHANGED <<storeVars, processVars, cursor, torn, since, runVars, todo>>

Snapshot(d) ==
    /\ pc[d] = "read"
    /\ held' = [held EXCEPT ![d] = NextCursor(held[d], now[d])]
    /\ todo' = [todo EXCEPT ![d] = Emissions(held[d], now[d])]
    /\ now' = [now EXCEPT ![d] = Never]
    /\ Go(d, "truncate")
    /\ UNCHANGED <<storeVars, processVars, fileVars, runVars>>

Truncate(d) ==
    /\ pc[d] = "truncate"
    /\ torn' = TRUE
    /\ Go(d, "fill")
    /\ UNCHANGED <<storeVars, processVars, cursor, overlapped, since, tickVars, runVars, todo>>

\* Mutant: the file gets back what it held.
FillOld(d) ==
    /\ pc[d] = "fill"
    /\ torn' = FALSE
    /\ held' = [held EXCEPT ![d] = Blank]
    /\ Go(d, "run")
    /\ UNCHANGED <<storeVars, processVars, cursor, since, overlapped, now, runVars, todo>>

Fill(d) ==
    /\ pc[d] = "fill"
    /\ cursor' = held[d]
    /\ held' = [held EXCEPT ![d] = Blank]
    /\ torn' = FALSE
    /\ since' = [j \in Jobs |-> IF since[j] = Never /\ <<j, held[d][j]>> \in todo[d]
                                THEN held[d][j] ELSE since[j]]
    /\ Go(d, "run")
    /\ UNCHANGED <<storeVars, processVars, overlapped, now, runVars, todo>>

\* A run without an agent, or while the execution of agents is off, is on record as ended.
WithoutAgent(e) ==
    /\ runs' = [runs EXCEPT ![e] = "ended"]
    /\ UNCHANGED <<running, attempts>>

FirstAttempt(d, e) ==
    /\ running' = [running EXCEPT ![d] = e]
    /\ attempts' = [attempts EXCEPT ![d] = 1]
    /\ runs' = [runs EXCEPT ![e] = "running"]

\* The run that is next gets its record.
Begin(d) ==
    /\ pc[d] = "run" /\ running[d] = NoRun
    /\ \E e \in todo[d] :
          /\ todo' = [todo EXCEPT ![d] = @ \ {e}]
          /\ repeated' = (repeated \/ runs[e] # "none")
          /\ FirstAttempt(d, e) \/ WithoutAgent(e)
    /\ UNCHANGED <<storeVars, processVars, fileVars, tickVars, pc>>

\* Mutant: the tick does not notice that its run has ended.
EndUnnoticed(d) ==
    /\ pc[d] = "run" /\ running[d] # NoRun
    /\ runs' = [runs EXCEPT ![running[d]] = "ended"]
    /\ UNCHANGED <<storeVars, processVars, fileVars, tickVars, running, attempts, repeated, pc, todo>>

\* The harness has an answer or has failed for good.
End(d) ==
    /\ pc[d] = "run" /\ running[d] # NoRun
    /\ runs' = [runs EXCEPT ![running[d]] = "ended"]
    /\ running' = [running EXCEPT ![d] = NoRun]
    /\ attempts' = [attempts EXCEPT ![d] = 0]
    /\ UNCHANGED <<storeVars, processVars, fileVars, tickVars, repeated, pc, todo>>

\* Which failures are transient is the harness's word.
MayRetry(d) == attempts[d] < MaxAttempts

\* A transient failure is on record as failed until the delay before the retry is over.
FailTransiently(d) ==
    /\ pc[d] = "run" /\ running[d] # NoRun
    /\ MayRetry(d)
    /\ runs' = [runs EXCEPT ![running[d]] = "ended"]
    /\ Go(d, "delay")
    /\ UNCHANGED <<storeVars, processVars, fileVars, tickVars, running, attempts, repeated, todo>>

Retry(d) ==
    /\ pc[d] = "delay"
    /\ runs' = [runs EXCEPT ![running[d]] = "running"]
    /\ attempts' = [attempts EXCEPT ![d] = @ + 1]
    /\ Go(d, "run")
    /\ UNCHANGED <<storeVars, processVars, fileVars, tickVars, running, repeated, todo>>

Done(d) ==
    /\ pc[d] = "run" /\ running[d] = NoRun /\ todo[d] = {}
    /\ Go(d, "idle")
    /\ UNCHANGED <<storeVars, processVars, fileVars, tickVars, runVars, todo>>

-----------------------------------------------------------------------------
(* The process.                                                             *)

\* stop clears the timer; a tick under way goes on to its end.
Stop ==
    /\ daemon = "up"
    /\ daemon' = "stopped"
    /\ UNCHANGED <<storeVars, clock, restarts, fileVars, tickVars, runVars, pc, todo>>

\* Also any error of a tick: nobody handles the promise, and the process ends.  What
\* the cursor covers and no run has been started for is lost.
Crash ==
    /\ daemon # "down"
    /\ restarts < MaxRestarts
    /\ restarts' = restarts + 1
    /\ daemon' = "down"
    /\ cursor' = IF torn THEN Blank ELSE cursor
    /\ torn' = FALSE
    /\ since' = [j \in Jobs |->
                   IF torn \/ \E d \in Drivers : pc[d] \in {"run", "delay"} /\ \E w \in Times : <<j, w>> \in todo[d]
                   THEN Never ELSE since[j]]
    /\ pc' = [d \in Drivers |-> "idle"]
    /\ todo' = [d \in Drivers |-> {}]
    /\ running' = [d \in Drivers |-> NoRun]
    /\ attempts' = [d \in Drivers |-> 0]
    /\ now' = [d \in Drivers |-> Never]
    /\ held' = [d \in Drivers |-> Blank]
    /\ UNCHANGED <<storeVars, clock, overlapped, runs, repeated>>

\* A process starts when the one before it has ended, and that takes time.
Restart ==
    /\ daemon = "down" \/ (daemon = "stopped" /\ \A d \in Drivers : pc[d] = "idle")
    /\ clock < MaxTime
    /\ clock' = clock + 1
    /\ daemon' = "up"
    /\ UNCHANGED <<storeVars, restarts, fileVars, tickVars, runVars, pc, todo>>

-----------------------------------------------------------------------------
TickStep(d) ==
    \/ Snapshot(d) \/ Truncate(d) \/ Fill(d)
    \/ Begin(d) \/ Retry(d) \/ End(d) \/ Done(d)

Next ==
    \/ Tick \/ Stop \/ Crash \/ Restart
    \/ \E o \in Operators : Resolve(o) \/ Append(o)
    \/ \E d \in Drivers : Read(d) \/ TickStep(d) \/ FailTransiently(d)

Spec == Init /\ [][Next]_vars

\* setInterval fires again and again, and a harness has time-outs: a run ends.
FairSpec ==
    /\ Spec
    /\ WF_vars(Read(Timer))
    /\ \A d \in Drivers : WF_vars(TickStep(d))

-----------------------------------------------------------------------------
(* Properties.                                                              *)

Occurrences == Jobs \X Times
Statuses == {"none", "running", "ended"}
Jobstates == [there : BOOLEAN, schedule : Schedules, enabled : BOOLEAN]
Cursors == [Jobs -> 0..MaxTime]

\* The types of the variables; a tick only runs while the process is up or is being
\* stopped, and a run has no more attempts than it may have.
TypeOK ==
    /\ clock \in Times
    /\ store \in [Jobs -> Jobstates]
    /\ pending \in [Operators -> Events \cup {NoEvent}]
    /\ mutations \in 0..MaxMutations
    /\ daemon \in {"up", "stopped", "down"}
    /\ restarts \in 0..MaxRestarts
    /\ cursor \in Cursors /\ torn \in BOOLEAN
    /\ pc \in [Drivers -> Steps]
    /\ daemon = "down" => \A d \in Drivers : pc[d] = "idle"
    /\ now \in [Drivers -> 0..clock] /\ held \in [Drivers -> Cursors]
    /\ todo \in [Drivers -> SUBSET Occurrences]
    /\ running \in [Drivers -> Occurrences \cup {NoRun}]
    /\ attempts \in [Drivers -> 0..MaxAttempts]
    /\ runs \in [Occurrences -> Statuses]
    /\ overlapped \in BOOLEAN /\ repeated \in BOOLEAN
    /\ since \in Cursors
    /\ silenced \in SUBSET Jobs

\* No occurrence of a job is run a second time, whatever crashes and restarts come in
\* between, even if the cursor is torn and lost: as long as no tick reads the cursor
\* that another one is about to write, a run may outlast any number of later ticks.
OncePerWindow == ~overlapped => ~repeated

\* What the daemon has missed it makes up for: between the first window of a series that
\* no change of the schedule, no torn cursor and no crash between the cursor's writing
\* and the run has broken, and the window in the cursor, each occurrence has its record or
\* is about to get it.  So the bounded catch-up that drops old windows never has anything to do.
NoGap ==
    ~overlapped =>
        \A j \in Jobs, w \in Times :
            LET s == store[j].schedule IN
            /\ s.kind # "none" /\ since[j] # Never /\ w \in since[j]..cursor[j]
            /\ (w - (IF s.kind = "interval" THEN since[j] ELSE 0)) % s.every = 0
            => runs[<<j, w>>] # "none" \/ \E d \in Drivers : <<j, w>> \in todo[d]

\* The cursor of a job never moves back, but for a crash while it is being written.
CursorOnlyForward ==
    [][~overlapped' => \A j \in Jobs : cursor'[j] >= cursor[j] \/ (torn /\ daemon' = "down")]_vars

\* A job that was removed is not run by any later tick until it is given a schedule
\* again, although an enable or a disable that was checked before it was removed
\* brings it back, and its place in the cursor is still there.
RemovedStaysSilent ==
    [][\A d \in Drivers :
          pc[d] = "read" /\ pc'[d] = "truncate" => \A e \in todo'[d] : e[1] \notin silenced]_vars

\* What is due is written into the cursor and so handed to its run, however long the
\* runs before it take, unless the job or the daemon is stopped first.
DueIsEmitted ==
    \A j \in Jobs, w \in 0..MaxTime :
        daemon = "up" /\ cursor[j] = w /\ IsDue(store[j], w, clock)
        ~> daemon # "up" \/ cursor[j] # w \/ ~IsDue(store[j], w, clock)
=============================================================================
