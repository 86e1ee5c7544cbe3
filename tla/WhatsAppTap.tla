---------------------------- MODULE WhatsAppTap ----------------------------
(***************************************************************************)
(* The processes that open the owner's WhatsApp session (src/channels): the *)
(* shadow tap and the canary tap, and the login of the linked device, which *)
(* does what a shadow tap without messages does.  One lock file is to keep  *)
(* them apart, one file of claimed message ids is to keep a message from    *)
(* being handled twice.                                                     *)
(*                                                                         *)
(* A tap is one process: it reads the claims, takes the lock, handles the   *)
(* messages that arrive one batch after another, and releases the lock; it  *)
(* can die at any point.  Each file operation is a step of its own.  What   *)
(* WhatsApp delivers is arbitrary: a message may come again, to any tap.    *)
(*                                                                         *)
(* Abstracted: drops by policy (a dropped message changes nothing), when    *)
(* the limits of the claims (2000 entries, 30 days) are reached, which may  *)
(* be at any claim and any start, the limit of the reconnects, credentials, *)
(* the run and the reply themselves (the reply's delivery is                *)
(* DeliveryReceipts), a process id that is used again.  An upsert that      *)
(* waits in the queue of its tap is one that arrives later, or never if the *)
(* tap is stopped before.                                                   *)
(***************************************************************************)
EXTENDS Naturals, FiniteSets

CONSTANTS
    Taps,           \* processes that are started, each of them once
    Messages,       \* messages of the owner
    MaxSetbacks     \* bound: failed writes and runs, crashes, claims dropped for age

ASSUME SetbacksAssumption == MaxSetbacks \in Nat

VARIABLES
    kind,        \* what each process is
    at,          \* where its main thread stands
    work,        \* where its message queue stands
    batch,       \* what is left of the upsert in hand
    current,     \* the message in hand
    known,       \* the claims it holds in memory
    lock,        \* the lock file: absent, still empty, or with its owner
    file,        \* the claims in the replay file
    handled,     \* history: messages whose run has begun
    again,       \* history: messages whose run has begun twice
    shared,      \* history: messages claimed while another tap had the file read
    forgotten,   \* history: messages whose claim a tap has dropped as too old or too many
    raced,       \* history: two takeovers of a dead one's lock overlapped
    crashed,     \* history: processes that died
    setbacks     \* how many of the MaxSetbacks have happened

files == <<lock, file>>
queue == <<work, batch, current, known>>
history == <<handled, again, shared, forgotten, raced, crashed>>
vars == <<kind, at, queue, files, history, setbacks>>

----------------------------------------------------------------------------

Kinds == {"shadow", "canary"}
Stages == {"off", "lock", "inspect", "remove", "retake", "fill", "open", "down",
           "drain", "release", "unlink", "gone"}
WorkStages == {"idle", "next", "persist", "run", "running"}

Nobody == [by |-> {}, state |-> "absent"]
Locks == [by : SUBSET Taps, state : {"absent", "empty", "held"}]

Setback == setbacks < MaxSetbacks /\ setbacks' = setbacks + 1

\* process.kill(pid, 0): a process lives until its queue is done, too.
IsProcessAlive(t) == at[t] \notin {"off", "gone"} \/ work[t] # "idle"

\* Between acquire and release.
Holds(t) == at[t] \in {"open", "down", "drain"}

Go(t, stage) == at' = [at EXCEPT ![t] = stage]

Init ==
    /\ kind \in [Taps -> Kinds]
    /\ at = [t \in Taps |-> "off"]
    /\ work = [t \in Taps |-> "idle"]
    /\ batch = [t \in Taps |-> {}]
    /\ current = [t \in Taps |-> {}]
    /\ known = [t \in Taps |-> {}]
    /\ lock = Nobody
    /\ file = {}
    /\ handled = {}
    /\ again = {}
    /\ shared = {}
    /\ forgotten = {}
    /\ raced = FALSE
    /\ crashed = {}
    /\ setbacks = 0

----------------------------------------------------------------------------
(* Starting: the claims are read, then acquireNeonWhatsAppTapLock.         *)

\* pruneEntries: the oldest claims may be dropped, none, some or all of them.
Prune(claims, kept) ==
    /\ IF kept = claims THEN UNCHANGED setbacks ELSE Setback
    /\ forgotten' = forgotten \cup (claims \ kept)

Begin(t) ==
    /\ at[t] = "off"
    /\ \E kept \in SUBSET file :
          Prune(file, kept) /\ known' = [known EXCEPT ![t] = kept]
    /\ Go(t, "lock")
    /\ UNCHANGED <<kind, work, batch, current, files, handled, again, shared,
                   raced, crashed>>

\* open(path, "wx"): there is a file, without its content yet.
Creates(t) ==
    /\ lock' = [by |-> {t}, state |-> "empty"]
    /\ Go(t, "fill")

TryLock(t) ==
    /\ at[t] = "lock"
    /\ IF lock = Nobody THEN Creates(t) ELSE Go(t, "inspect") /\ UNCHANGED lock
    /\ UNCHANGED <<kind, queue, file, history, setbacks>>

\* Mutant: whoever finds a lock takes it for a dead one's.
AnyOwner(t) == lock.state = "held"

IsDeadOnes(t) == lock.state = "held" /\ \A u \in lock.by : ~IsProcessAlive(u)

\* An absent, malformed or living lock ends the start.
Inspect(t) ==
    /\ at[t] = "inspect"
    /\ Go(t, IF IsDeadOnes(t) THEN "remove" ELSE "gone")
    /\ UNCHANGED <<kind, queue, files, history, setbacks>>

\* rm(path), whoever's lock is there by now.
Remove(t) ==
    /\ at[t] = "remove"
    /\ Go(t, IF lock = Nobody THEN "gone" ELSE "retake")
    /\ lock' = Nobody
    /\ raced' = (raced \/ \E u \in Taps \ {t} : at[u] = "remove")
    /\ UNCHANGED <<kind, queue, file, handled, again, shared, forgotten,
                   crashed, setbacks>>

Retake(t) ==
    /\ at[t] = "retake"
    /\ IF lock = Nobody THEN Creates(t) ELSE Go(t, "gone") /\ UNCHANGED lock
    /\ UNCHANGED <<kind, queue, file, history, setbacks>>

\* The record goes into the file that was created, if it is still there.
Fill(t) ==
    /\ at[t] = "fill"
    /\ lock' = IF lock.by = {t} THEN [lock EXCEPT !.state = "held"] ELSE lock
    /\ Go(t, "open")
    /\ UNCHANGED <<kind, queue, file, history, setbacks>>

\* The record cannot be written: rm(path, force).
FillFails(t) ==
    /\ at[t] = "fill"
    /\ Setback
    /\ lock' = Nobody
    /\ Go(t, "gone")
    /\ UNCHANGED <<kind, queue, file, history>>

Acquire(t) ==
    Begin(t) \/ TryLock(t) \/ Inspect(t) \/ Remove(t) \/ Retake(t) \/ Fill(t)

----------------------------------------------------------------------------
(* Messages: processUpsert, one message of the batch after the other.      *)

Upsert(t) ==
    /\ at[t] = "open"
    /\ work[t] = "idle"
    /\ \E ms \in SUBSET Messages :
          ms # {} /\ batch' = [batch EXCEPT ![t] = ms]
    /\ work' = [work EXCEPT ![t] = "next"]
    /\ UNCHANGED <<kind, at, current, known, files, history, setbacks>>

\* Mutant: the claim is remembered in memory only.
RunsAtOnce == "run"

AfterClaim == "persist"

\* claim: known still, or remembered in memory and then written.
Claim(t, m) ==
    /\ work[t] = "next"
    /\ m \in batch[t]
    /\ batch' = [batch EXCEPT ![t] = @ \ {m}]
    /\ \E kept \in SUBSET known[t] :
          /\ Prune(known[t], kept)
          /\ known' = [known EXCEPT ![t] = kept \cup {m}]
          /\ IF m \in kept
             THEN UNCHANGED <<work, current>>
             ELSE /\ current' = [current EXCEPT ![t] = {m}]
                  /\ work' = [work EXCEPT ![t] = AfterClaim]
    /\ UNCHANGED <<kind, at, files, handled, again, shared, raced, crashed>>

BatchDone(t) ==
    /\ work[t] = "next"
    /\ batch[t] = {}
    /\ work' = [work EXCEPT ![t] = "idle"]
    /\ UNCHANGED <<kind, at, batch, current, known, files, history, setbacks>>

\* Others that have read the file will not see this claim.
HasRead(u) == IsProcessAlive(u)

\* writeReplayEntries: all it knows, by rename.
Persist(t) ==
    /\ work[t] = "persist"
    /\ file' = known[t]
    /\ shared' = IF \E u \in Taps \ {t} : HasRead(u)
                 THEN shared \cup current[t] ELSE shared
    /\ work' = [work EXCEPT ![t] = "run"]
    /\ UNCHANGED <<kind, at, batch, current, known, lock, handled, again,
                   forgotten, raced, crashed, setbacks>>

Run(t) ==
    /\ work[t] = "run"
    /\ handled' = handled \cup current[t]
    /\ again' = again \cup (handled \cap current[t])
    /\ work' = [work EXCEPT ![t] = "running"]
    /\ UNCHANGED <<kind, at, batch, current, known, files, shared, forgotten,
                   raced, crashed, setbacks>>

\* The run is over, and a canary's reply sent, suppressed or uncertain.
RunEnds(t) ==
    /\ work[t] = "running"
    /\ work' = [work EXCEPT ![t] = "next"]
    /\ current' = [current EXCEPT ![t] = {}]
    /\ UNCHANGED <<kind, at, batch, known, files, history, setbacks>>

\* A step throws: the rest of the batch is not looked at.
WorkFails(t) ==
    /\ work[t] # "idle"
    /\ Setback
    /\ work' = [work EXCEPT ![t] = "idle"]
    /\ batch' = [batch EXCEPT ![t] = {}]
    /\ current' = [current EXCEPT ![t] = {}]
    /\ UNCHANGED <<kind, at, known, files, history>>

Process(t) ==
    \/ \E m \in Messages : Claim(t, m)
    \/ BatchDone(t) \/ Persist(t) \/ Run(t) \/ RunEnds(t)

----------------------------------------------------------------------------
(* Stopping.                                                               *)

\* The operator's stop: the queue is waited for.
Close(t) ==
    /\ at[t] \in {"open", "down"}
    /\ Go(t, "drain")
    /\ UNCHANGED <<kind, queue, files, history, setbacks>>

AfterShadowClosed == "release"

\* A shadow tap lets the lock go at once, even while its queue goes on; a canary
\* tap reconnects after a delay, or gives up when it has often enough.
TransportCloses(t) ==
    /\ \/ /\ kind[t] = "shadow"
          /\ at[t] \in {"open", "drain"}
          /\ Go(t, AfterShadowClosed)
       \/ /\ kind[t] = "canary"
          /\ at[t] = "open"
          /\ \E stage \in {"down", "drain"} : Go(t, stage)
    /\ UNCHANGED <<kind, queue, files, history, setbacks>>

\* The delay is over; a socket that cannot be opened counts as closed again.
Reconnect(t) ==
    /\ at[t] = "down"
    /\ Go(t, "open")
    /\ UNCHANGED <<kind, queue, files, history, setbacks>>

\* Mutant: the queue is waited for even if it is empty for good.
WorksFirst(t) == work[t] = "next"

IsDrained(t) == work[t] = "idle"

Drained(t) ==
    /\ at[t] = "drain"
    /\ IsDrained(t)
    /\ Go(t, "release")
    /\ UNCHANGED <<kind, queue, files, history, setbacks>>

\* release: a lock that is not its own any more is left alone.
ReadOwnLock(t) ==
    /\ at[t] = "release"
    /\ Go(t, IF lock = [by |-> {t}, state |-> "held"] THEN "unlink" ELSE "gone")
    /\ UNCHANGED <<kind, queue, files, history, setbacks>>

Unlink(t) ==
    /\ at[t] = "unlink"
    /\ lock' = Nobody
    /\ Go(t, "gone")
    /\ UNCHANGED <<kind, queue, file, history, setbacks>>

Release(t) == Drained(t) \/ ReadOwnLock(t) \/ Unlink(t)

Crash(t) ==
    /\ IsProcessAlive(t)
    /\ Setback
    /\ Go(t, "gone")
    /\ work' = [work EXCEPT ![t] = "idle"]
    /\ batch' = [batch EXCEPT ![t] = {}]
    /\ current' = [current EXCEPT ![t] = {}]
    /\ known' = [known EXCEPT ![t] = {}]
    /\ crashed' = crashed \cup {t}
    /\ UNCHANGED <<kind, files, handled, again, shared, forgotten, raced>>

----------------------------------------------------------------------------

Tap(t) ==
    \/ Acquire(t) \/ FillFails(t)
    \/ Upsert(t) \/ Process(t) \/ WorkFails(t)
    \/ Close(t) \/ TransportCloses(t) \/ Reconnect(t) \/ Release(t)
    \/ Crash(t)

Next == \E t \in Taps : Tap(t)

\* A run ends (the harness has a time limit) and a process goes on.
Spec ==
    /\ Init
    /\ [][Next]_vars
    /\ \A t \in Taps : WF_vars(Process(t) \/ Release(t))

----------------------------------------------------------------------------
(* What must hold.                                                         *)

\* Every variable has its type; only a process has anything in hand.
TypeOK ==
    /\ kind \in [Taps -> Kinds]
    /\ at \in [Taps -> Stages]
    /\ work \in [Taps -> WorkStages]
    /\ batch \in [Taps -> SUBSET Messages]
    /\ current \in [Taps -> SUBSET Messages]
    /\ known \in [Taps -> SUBSET Messages]
    /\ lock \in Locks
    /\ file \subseteq Messages
    /\ handled \subseteq Messages
    /\ again \subseteq Messages
    /\ shared \subseteq Messages
    /\ forgotten \subseteq Messages
    /\ raced \in BOOLEAN
    /\ crashed \subseteq Taps
    /\ setbacks \in 0 .. MaxSetbacks

\* At most one process has the session open.  The window left: two starts that
\* both found the lock of a dead one remove it one after the other, the second
\* removing the lock the first has just taken.
OneTap == ~raced => \A t, u \in Taps : Holds(t) /\ Holds(u) => t = u

\* A message is run at most once, over restarts and crashes too, as long as its
\* claim is kept.  The window left: the claims are read before the lock is taken,
\* and a shadow tap gives the lock up while its queue goes on, so that a tap that
\* lives already may not see, and will write over, what another one claims.
RunOnce == again \subseteq shared \cup forgotten

\* A lock outlives its process only by a crash: however a start or a stop ends,
\* a write that fails and a lock lost to another process included, the process
\* leaves no lock of its own behind.
NoLockLeft == \A t \in lock.by : at[t] = "gone" => t \in crashed

\* A tap that is told to stop, or gives up, ends and lets the lock go.
StopEnds == \A t \in Taps : at[t] = "drain" ~> at[t] = "gone"

=============================================================================
