------------------------------ MODULE RunControl ------------------------------
(***************************************************************************)
(* A Discord message from its writing to the end of its run, and the stop   *)
(* command that cuts in: the tap (discordShadowTap.ts, discordIngress.ts),  *)
(* the run (shadowGateway.ts, codexAppServerHarness.ts), the registry of    *)
(* in-flight runs (inFlightRunRegistry.ts) and the stop                     *)
(* (discordRunControl.ts), all under src/gateway and src/harness, in front  *)
(* of a Codex app server.  The session queue is the SerialExecutor that     *)
(* SessionActorQueue implements; its tasks are the runs.                    *)
(*                                                                         *)
(* A message, its task, its run and its turn share one name.  Time is kept  *)
(* only as far as the stop's cutoff tells it apart: a message is older if a *)
(* stop of its session came after its createdAt.  The two clocks involved   *)
(* (Discord's and the tap's) are taken to agree, and the Maps are taken to  *)
(* stay below their limit of 5000 entries.                                  *)
(***************************************************************************)
EXTENDS Naturals, FiniteSets

CONSTANTS
    SessionKeys, \* codex session keys
    Runs,        \* messages that become runs
    Stops,       \* stop commands
    NoKey        \* not a session key

VARIABLES
    setup,       \* shared: one pooled client or one per run; gate: lifecycle gate
    phase, ahead,\* the session queue
    home,        \* the session of each message that has been written
    place,       \* where the processing of the message stands
    older,       \* createdAt is at or before the cutoff of the session
    controllers, \* the runs in the Map controllers
    aborted,     \* the runs whose signal is aborted
    turn,        \* what the app server makes of each run's turn
    heard,       \* the status the run's subscription heard last, "failed" sticks
    tracked,     \* the turn under each run's record in the registry, or NoTurn
    outcome,     \* the status of each run
    stop,        \* the stop commands: their session and where they stand
    aimed, sent, failed, \* records each stop set out to interrupt, and how that went
    verdict      \* the state each stop answered

queue == <<phase, ahead>>
run == <<home, place, older, controllers, aborted, heard, tracked, outcome>>
stops == <<stop, aimed, sent, failed, verdict>>
runVars == <<setup, queue, run, turn, stops>>

NoTurn == "no turn"
Gone == {"completed", "interrupted", "failed", "gone"}
Places == {"unwritten", "written", "arrived", "prepare", "opening", "requesting",
           "waiting", "closing", "left"}
Listening(r) == place[r] \in {"opening", "requesting", "waiting"}

\* The runs an answer of the app server can be heard by.
Hears(r, q) == Listening(r) /\ (setup.shared \/ r = q)

Queue == INSTANCE SerialExecutor WITH
    Tasks <- Runs,
    Sessions <- SessionKeys,
    NoSession <- NoKey,
    session <- [r \in Runs |-> IF phase[r] = "new" THEN NoKey ELSE home[r]]

RunInit ==
    /\ setup \in [shared : BOOLEAN, gate : BOOLEAN]
    /\ home = [r \in Runs |-> NoKey]
    /\ Queue!Init
    /\ place = [r \in Runs |-> "unwritten"]
    /\ older = {}
    /\ controllers = {}
    /\ aborted = {}
    /\ turn = [r \in Runs |-> "none"]
    /\ heard = [r \in Runs |-> "nothing"]
    /\ tracked = [r \in Runs |-> NoTurn]
    /\ outcome = [r \in Runs |-> "none"]
    /\ stop = [k \in Stops |-> [session |-> NoKey, state |-> "new"]]
    /\ aimed = [k \in Stops |-> {}]
    /\ sent = [k \in Stops |-> {}]
    /\ failed = [k \in Stops |-> {}]
    /\ verdict = [k \in Stops |-> "none"]

Go(r, where) == place' = [place EXCEPT ![r] = where]

Interrupting(k) == stop[k].state \in {"interrupting", "interrupting, aborted some"}

----------------------------------------------------------------------------
(* The message on its way to the queue.                                     *)

\* Somebody writes; Discord stamps createdAt.
Write(r, s) ==
    /\ place[r] = "unwritten"
    /\ home' = [home EXCEPT ![r] = s]
    /\ Go(r, "written")
    /\ UNCHANGED <<setup, queue, older, controllers, aborted, heard, tracked, outcome, turn,
                   stops>>

\* A stop of session s awaits no interrupt: it goes on within the same turn of the
\* event loop, before anything that was written since can come in.
AtOnce(s) == \E k \in Stops : Interrupting(k) /\ stop[k].session = s /\ aimed[k] = {}

\* handleTapMessage has it and enqueues it.
Arrive(r) ==
    /\ place[r] = "written"
    /\ r \in older \/ ~AtOnce(home[r])
    /\ Go(r, "arrived")
    /\ UNCHANGED <<setup, home, older, controllers, aborted, heard, tracked, outcome, turn, stops>>
    /\ Queue!Submit(home[r], r)

Take(r) ==
    /\ place[r] = "arrived"
    /\ Go(r, "prepare")
    /\ UNCHANGED <<setup, home, older, controllers, aborted, heard, tracked, outcome, turn, stops>>
    /\ Queue!Begin(r)

\* A message that never becomes a run: a cron command, or a step before the
\* run that throws.
Skip(r) ==
    /\ place[r] = "prepare"
    /\ Go(r, "left")
    /\ UNCHANGED <<setup, home, older, controllers, aborted, heard, tracked, outcome, turn, stops>>
    /\ Queue!Finish(r)

----------------------------------------------------------------------------
(* The run.                                                                 *)

\* Mutant: a run that reaches the harness late is not held to the cutoff.
NotCutOff(r) == FALSE

\* Mutant: when the message was written is not looked at.
EverCutOff(r) == setup.gate /\ \E k \in Stops : stop[k].session = home[r]

CutOff(r) == r \in older

\* resolveAbortSignal, at the start of runNeonGatewayShadow; then the harness
\* leases a client and subscribes.
Register(r) ==
    /\ place[r] = "prepare"
    /\ controllers' = controllers \cup {r}
    /\ aborted' = IF CutOff(r) THEN aborted \cup {r} ELSE aborted
    /\ Go(r, "opening")
    /\ UNCHANGED <<setup, queue, home, older, heard, tracked, outcome, turn, stops>>

\* turn/start is sent unless the signal is aborted.
Ask(r) ==
    /\ place[r] = "opening"
    /\ r \notin aborted
    /\ turn' = [turn EXCEPT ![r] = "asked"]
    /\ Go(r, "requesting")
    /\ UNCHANGED <<setup, queue, home, older, controllers, aborted, heard, tracked, outcome,
                   stops>>

\* onRunStart: the registry takes a record only if its gate is open.
RecordOf(q) == IF setup.gate THEN q ELSE NoTurn

\* The harness tracks a run once, under the run's own id.
Track(listeners, q) ==
    tracked' = [r \in Runs |-> IF r \in listeners /\ tracked[r] = NoTurn
                               THEN RecordOf(q) ELSE tracked[r]]

\* The response to turn/start.
Answered(r) ==
    /\ place[r] = "requesting"
    /\ turn[r] \notin {"none", "asked"}
    /\ Go(r, "waiting")
    /\ Track({r}, r)
    /\ UNCHANGED <<setup, queue, home, older, controllers, aborted, heard, outcome, turn, stops>>

\* Mutant: the record stays in the registry.
KeepsRecord(r) == tracked[r]

RecordAfter(r) == NoTurn

\* finally: onRunEnd, unsubscribe and release, which closes a client of its own.
End(r, status) ==
    /\ Go(r, "closing")
    /\ outcome' = [outcome EXCEPT ![r] = status]
    /\ tracked' = [tracked EXCEPT ![r] = RecordAfter(r)]
    /\ turn' = IF setup.shared \/ turn[r] \in {"none"} \cup Gone THEN turn
               ELSE [turn EXCEPT ![r] = "gone"]
    /\ UNCHANGED <<setup, queue, home, older, controllers, aborted, heard, stops>>

\* Mutant: the app server's word for it.
UnhappyTurn(r) == IF r \in aborted THEN "interrupted" ELSE "failed"

Unhappy(r) == IF r \in aborted THEN "cancelled" ELSE "failed"

\* waitForTurnCompletion sees a terminal status.
Complete(r) ==
    /\ place[r] = "waiting"
    /\ heard[r] # "nothing"
    /\ End(r, IF heard[r] = "failed" THEN Unhappy(r) ELSE "completed")

\* An aborted signal, a failed request or the timeout ends the run.
\* Mutant: only an abort does.
OnlyAborted(r) == r \in aborted

MayGiveUp(r) == TRUE

GiveUp(r) ==
    /\ Listening(r)
    /\ place[r] = "waiting" => heard[r] = "nothing"
    /\ MayGiveUp(r)
    /\ End(r, Unhappy(r))

\* The run is written and its task returns.
Leave(r) ==
    /\ place[r] = "closing"
    /\ Go(r, "left")
    /\ UNCHANGED <<setup, home, older, controllers, aborted, heard, tracked, outcome, turn, stops>>
    /\ Queue!Finish(r)

----------------------------------------------------------------------------
(* The app server.  It notifies a connection of every turn on it.          *)

TurnStarts(q) ==
    /\ turn[q] = "asked"
    /\ turn' = [turn EXCEPT ![q] = "inProgress"]
    /\ Track({r \in Runs : Hears(r, q)}, q)
    /\ UNCHANGED <<setup, queue, home, place, older, controllers, aborted, heard, outcome, stops>>

TurnEnds(q, status) ==
    /\ \/ turn[q] = "inProgress" /\ status \in {"completed", "failed"}
       \/ turn[q] = "stopping" /\ status \in {"completed", "failed", "interrupted"}
    /\ turn' = [turn EXCEPT ![q] = status]
    /\ heard' = [r \in Runs |-> IF Hears(r, q) /\ heard[r] # "failed" THEN status ELSE heard[r]]
    /\ UNCHANGED <<setup, queue, home, place, older, controllers, aborted, tracked, outcome,
                   stops>>

----------------------------------------------------------------------------
(* stopSession.                                                             *)

StopBlocked(k, s) ==
    /\ stop[k].state = "new"
    /\ ~setup.gate
    /\ stop' = [stop EXCEPT ![k] = [session |-> s, state |-> "answered"]]
    /\ verdict' = [verdict EXCEPT ![k] = "blocked"]
    /\ UNCHANGED <<setup, queue, run, turn, aimed, sent, failed>>

Written(s) == {r \in Runs : home[r] = s}

ControllersOf(s) == controllers \cap Written(s)

\* Everything up to the await: cutoff, snapshot and aborts.
StopBegins(k, s) ==
    LET stopped == ControllersOf(s)
    IN  /\ stop[k].state = "new"
        /\ setup.gate
        /\ older' = older \cup Written(s)
        /\ aimed' = [aimed EXCEPT ![k] =
               {[run |-> r, turn |-> tracked[r]] :
                   r \in {q \in Written(s) : tracked[q] # NoTurn}}]
        /\ controllers' = controllers \ stopped
        /\ aborted' = aborted \cup stopped
        /\ stop' = [stop EXCEPT ![k] = [session |-> s,
               state |-> IF stopped \subseteq aborted THEN "interrupting"
                         ELSE "interrupting, aborted some"]]
        /\ UNCHANGED <<setup, queue, home, place, heard, tracked, outcome, turn, sent, failed,
                       verdict>>

Due(k) == aimed[k] \ (sent[k] \cup failed[k])

\* turn/interrupt reaches the server, which accepts it for a turn it knows.
InterruptSent(k) ==
    /\ Interrupting(k)
    /\ \E rec \in Due(k) :
          /\ sent' = [sent EXCEPT ![k] = @ \cup {rec}]
          /\ turn' = IF turn[rec.turn] = "inProgress"
                     THEN [turn EXCEPT ![rec.turn] = "stopping"] ELSE turn
    /\ UNCHANGED <<setup, queue, run, stop, aimed, failed, verdict>>

InterruptFails(k) ==
    /\ Interrupting(k)
    /\ \E rec \in Due(k) : failed' = [failed EXCEPT ![k] = @ \cup {rec}]
    /\ UNCHANGED <<setup, queue, run, turn, stop, aimed, sent, verdict>>

\* Mutant: failures are not looked at.
VerdictOfSuccesses(failures, stopped) == IF stopped THEN "stopped" ELSE "idle"

Verdict(failures, stopped) ==
    IF failures THEN (IF stopped THEN "partial" ELSE "blocked")
    ELSE IF stopped THEN "stopped" ELSE "idle"

\* All interrupts have settled: cancelPending, then the answer.
StopAnswers(k) ==
    LET s == stop[k].session
        pending == {r \in Runs : home[r] = s /\ phase[r] = "waiting"}
    IN  /\ Interrupting(k)
        /\ Due(k) = {}
        /\ stop' = [stop EXCEPT ![k].state = "answered"]
        /\ verdict' = [verdict EXCEPT ![k] =
               Verdict(failed[k] # {},
                       \/ sent[k] # {}
                       \/ stop[k].state = "interrupting, aborted some"
                       \/ pending # {})]
        /\ UNCHANGED <<setup, run, turn, aimed, sent, failed>>
        /\ IF pending = {} THEN UNCHANGED queue ELSE Queue!Withdraw(s)

----------------------------------------------------------------------------

\* What a run's own code does next.
Proceed(r) ==
    \/ Take(r) \/ Skip(r) \/ Register(r) \/ Ask(r) \/ Answered(r) \/ Complete(r) \/ GiveUp(r)
    \/ Leave(r)

RunNext ==
    \/ \E r \in Runs :
          \/ Arrive(r) \/ Proceed(r) \/ TurnStarts(r)
          \/ \E s \in SessionKeys : Write(r, s)
          \/ \E status \in {"completed", "failed", "interrupted"} : TurnEnds(r, status)
    \/ \E k \in Stops :
          \/ \E s \in SessionKeys : StopBlocked(k, s) \/ StopBegins(k, s)
          \/ InterruptSent(k) \/ InterruptFails(k) \/ StopAnswers(k)

RunSpec == RunInit /\ [][RunNext]_runVars

\* Requests and turns time out on the client's side, so that its code always
\* goes on.  Nothing is asked of the app server.
RunFairness ==
    /\ \A r \in Runs : WF_runVars(Proceed(r))
    /\ \A k \in Stops : WF_runVars(InterruptFails(k)) /\ WF_runVars(StopAnswers(k))
RunFairSpec == RunSpec /\ RunFairness

----------------------------------------------------------------------------
(* Properties.                                                              *)

RunTypeOK ==
    /\ setup \in [shared : BOOLEAN, gate : BOOLEAN]
    /\ phase \in [Runs -> {"new", "waiting", "running", "finished", "withdrawn"}]
    /\ ahead \in [Runs -> SUBSET Runs]
    /\ home \in [Runs -> SessionKeys \cup {NoKey}]
    /\ place \in [Runs -> Places]
    /\ older \subseteq Runs /\ controllers \subseteq Runs /\ aborted \subseteq Runs
    /\ turn \in [Runs -> {"none", "asked", "inProgress", "stopping"} \cup Gone]
    /\ heard \in [Runs -> {"nothing", "completed", "failed", "interrupted"}]
    /\ tracked \in [Runs -> Runs \cup {NoTurn}]
    /\ outcome \in [Runs -> {"none", "completed", "failed", "cancelled"}]
    /\ stop \in [Stops -> [session : SessionKeys \cup {NoKey},
                           state : {"new", "interrupting", "interrupting, aborted some",
                                    "answered"}]]
    /\ aimed \in [Stops -> SUBSET [run : Runs, turn : Runs]]
    /\ sent \in [Stops -> SUBSET [run : Runs, turn : Runs]]
    /\ failed \in [Stops -> SUBSET [run : Runs, turn : Runs]]
    /\ verdict \in [Stops -> {"none", "stopped", "idle", "blocked", "partial"}]

\* "applies the stop cutoff to an older run that reaches the harness late":
\* wherever a stop catches a message, on its way, in the queue or between
\* dequeue and harness, no turn is asked for it afterwards.
NoTurnAfterStop ==
    [][\A r \in Runs : turn[r] = "none" /\ r \in older => turn'[r] = "none"]_runVars

\* What is written after a stop is neither aborted nor withdrawn, by the cutoff or
\* by cancelPending, and no other session's work ever is; but for this: while a
\* stop awaits the app server's answers, what its session's queue takes in
\* meanwhile is withdrawn with the rest.
StopSparesLaterWork ==
    [][\A r \in Runs :
          \/ r \in aborted' \ aborted
          \/ phase[r] = "waiting" /\ phase'[r] = "withdrawn"
          => \/ r \in older'
             \/ \E k \in Stops : /\ Interrupting(k) /\ stop[k].session = home[r]
                                 /\ aimed[k] # {}]_runVars

\* The registry never shows a run as busy that has left its task: whatever a
\* run dies of, its record goes with it.
RecordsAreOfRunningTasks ==
    \A r \in Runs : tracked[r] # NoTurn => phase[r] = "running" /\ Listening(r)

\* A stop that answers "stopped" or "idle" leaves no turn going that the
\* registry knew of.
HonestVerdict ==
    \A k \in Stops : verdict[k] \in {"stopped", "idle"} =>
        \A rec \in aimed[k] : turn[rec.turn] # "inProgress"

\* However the app server behaves, a session is never stuck behind a run.
EveryMessageLeaves ==
    \A r \in Runs : phase[r] = "waiting" ~> phase[r] \in {"finished", "withdrawn"}

\* "stops only one session, interrupts its run": a turn is interrupted only by
\* a stop of the session it belongs to.
StopsOnlyOneSession ==
    \A q \in Runs : turn[q] = "stopping" => q \in older
=============================================================================
