-------------------------- MODULE DeliveryReceipts --------------------------
(***************************************************************************)
(* The delivery of ONE intent by executeNeonExactlyOnceDelivery, of         *)
(* src/gateway/deliveryReceiptStore.ts: a receipt file, a lock file opened  *)
(* with "wx" that is taken over once it is older than lockStaleMs, and the  *)
(* chunked send of the Discord transport, whose nonces the platform         *)
(* remembers for a while.                                                  *)
(*                                                                         *)
(* A proc is a caller: one call at a time, a call being every step from    *)
(* "called" to the answer.  Every awaited file or network operation is one *)
(* step; between two of them anything else may happen, a crash included.   *)
(*                                                                         *)
(* Abstracted: timestamps, attempt counts, message ids (reported, never    *)
(* tested); a payload is its hash; the clock is the action LockAges.       *)
(***************************************************************************)
EXTENDS Naturals

CONSTANTS
    Procs,        \* callers of executeNeonExactlyOnceDelivery for this intent
    Payloads,     \* payload hashes a caller may bring
    Parts,        \* number of chunks a body is split into
    LiveLocksAge, \* may a lock grow stale while its holder is still at work?
    MaxSetbacks   \* bound: refusals, lost or failed sends, failed writes, crashes

ASSUME PartsAssumption == Parts \in Nat \ {0}
ASSUME SetbacksAssumption == MaxSetbacks \in Nat
ASSUME LiveLocksAgeAssumption == LiveLocksAge \in BOOLEAN

VARIABLES
    receipt,    \* the receipt file, NoReceipt while it does not exist
    lock,       \* the lock file: "free" (absent), "fresh" or "stale" (old mtime)
    pc,         \* where each call stands
    payload,    \* the payload hash of each call
    part,       \* the chunk the send of each call is at, 1 outside a send
    answer,     \* what each proc's latest call returned
    visible,    \* <<payload, chunk>> pairs the recipient can see
    repeated,   \* chunks the recipient saw more than once
    remembered, \* chunks whose nonce the platform still remembers
    forgot,     \* history: the platform has dropped a nonce it had seen
    usurped,    \* history: a lock was removed as stale under a call at work
    setbacks    \* how many of the MaxSetbacks have happened

vars == <<receipt, lock, pc, payload, part, answer, visible, repeated,
          remembered, forgot, usurped, setbacks>>
files == <<receipt, lock>>
platform == <<visible, repeated, remembered, forgot>>
call == <<payload, part>>

States == {"attempting", "delivered", "suppressed", "uncertain"}
Receipts == [state : States, payload : Payloads]
NoReceipt == [state |-> "absent"]

Recording == {"recordDelivered", "recordSuppressed", "recordUncertain"}
Owning == {"record", "send"} \cup Recording
Critical == {"lockedRead", "unlock"} \cup Owning
Places == {"idle", "called", "acquire", "stat", "unlinkStale", "reopen",
           "concurrentRead"} \cup Critical
Answers == {"none", "delivered", "already-delivered", "suppressed", "in-flight",
            "transport-error", "payload-mismatch", "rejected"}

PartSet == 1 .. Parts
AllParts(h) == {h} \X PartSet

----------------------------------------------------------------------------
(* resolveExistingReceipt: the answer a receipt already settles.           *)

Settled(r, h) ==
    IF r = NoReceipt THEN "none"
    ELSE IF r.payload # h THEN "payload-mismatch"
    ELSE IF r.state = "delivered" THEN "already-delivered"
    ELSE "none"

Go(p, place) == pc' = [pc EXCEPT ![p] = place]
Answer(p, a) == answer' = [answer EXCEPT ![p] = a]
Return(p, place, a) == Go(p, place) /\ Answer(p, a)

\* Something went wrong: at most MaxSetbacks times in a behaviour.
Setback == setbacks < MaxSetbacks /\ setbacks' = setbacks + 1

Init ==
    /\ receipt = NoReceipt
    /\ lock = "free"
    /\ pc = [p \in Procs |-> "idle"]
    /\ payload \in [Procs -> Payloads]
    /\ part = [p \in Procs |-> 1]
    /\ answer = [p \in Procs |-> "none"]
    /\ visible = {}
    /\ repeated = {}
    /\ remembered = {}
    /\ forgot = FALSE
    /\ usurped = FALSE
    /\ setbacks = 0

----------------------------------------------------------------------------
(* The call up to the lock.                                                *)

Call(p, h) ==
    /\ pc[p] = "idle"
    /\ Return(p, "called", "none")
    /\ payload' = [payload EXCEPT ![p] = h]
    /\ UNCHANGED <<files, part, platform, usurped, setbacks>>

FirstRead(p) ==
    /\ pc[p] = "called"
    /\ LET a == Settled(receipt, payload[p])
       IN  Return(p, IF a = "none" THEN "acquire" ELSE "idle", a)
    /\ UNCHANGED <<files, call, platform, usurped, setbacks>>

\* Mutant: open with "w", which creates the file over an existing one.
OpensAlways(l) == TRUE

\* open(lockPath, "wx"): creates the file or fails with EEXIST.
Opens(l) == l = "free"

OpenExclusive(p, otherwise) ==
    /\ IF Opens(lock)
       THEN lock' = "fresh" /\ Go(p, "lockedRead")
       ELSE lock' = lock /\ Go(p, otherwise)
    /\ UNCHANGED <<receipt, answer, call, platform, usurped, setbacks>>

Acquire(p) == pc[p] = "acquire" /\ OpenExclusive(p, "stat")
Reopen(p) == pc[p] = "reopen" /\ OpenExclusive(p, "concurrentRead")

\* Mutant: a lock is never taken over.
NeverStale(l) == FALSE

TooOld(l) == l = "stale"

StatLock(p) ==
    /\ pc[p] = "stat"
    /\ Go(p, IF TooOld(lock) THEN "unlinkStale" ELSE "concurrentRead")
    /\ UNCHANGED <<files, answer, call, platform, usurped, setbacks>>

\* unlink(lockPath) removes whatever lock is there now, ENOENT gives up.
UnlinkStale(p) ==
    /\ pc[p] = "unlinkStale"
    /\ lock' = "free"
    /\ Go(p, IF lock = "free" THEN "concurrentRead" ELSE "reopen")
    /\ usurped' = (usurped \/ \E q \in Procs : pc[q] \in Critical)
    /\ UNCHANGED <<receipt, answer, call, platform, setbacks>>

ConcurrentRead(p) ==
    /\ pc[p] = "concurrentRead"
    /\ LET a == Settled(receipt, payload[p])
       IN  Return(p, "idle", IF a = "none" THEN "in-flight" ELSE a)
    /\ UNCHANGED <<files, call, platform, usurped, setbacks>>

----------------------------------------------------------------------------
(* Under the lock.                                                         *)

LockedRead(p) ==
    /\ pc[p] = "lockedRead"
    /\ LET a == Settled(receipt, payload[p])
       IN  Return(p, IF a = "none" THEN "record" ELSE "unlock", a)
    /\ UNCHANGED <<files, call, platform, usurped, setbacks>>

Write(p, state) == receipt' = [state |-> state, payload |-> payload[p]]

RecordAttempt(p) ==
    /\ pc[p] = "record"
    /\ Write(p, "attempting")
    /\ Go(p, "send")
    /\ part' = [part EXCEPT ![p] = 1]
    /\ UNCHANGED <<lock, answer, payload, platform, usurped, setbacks>>

\* The write of the attempt fails: the call rejects, through finally.
RecordAttemptFails(p) ==
    /\ pc[p] = "record"
    /\ Setback
    /\ Return(p, "unlock", "rejected")
    /\ UNCHANGED <<files, call, platform, usurped>>

\* The outbound gate refuses: outboundSent is false, nothing is posted.
Refuse(p) ==
    /\ pc[p] = "send"
    /\ part[p] = 1
    /\ Setback
    /\ Go(p, "recordSuppressed")
    /\ UNCHANGED <<files, answer, call, platform, usurped>>

\* Mutant: a nonce drawn per caller instead of derived from the intent.
FreshNonce(p) == <<p, part[p]>>

\* createNeonDiscordDeliveryNonce(intentId, part): the intent is fixed here.
Nonce(p) == part[p]

\* One chunk reaches the platform, which shows it unless it remembers its nonce.
Post(p) ==
    LET chunk == <<payload[p], part[p]>>
    IN  /\ pc[p] = "send"
        /\ remembered' = remembered \cup {Nonce(p)}
        /\ IF Nonce(p) \in remembered
           THEN UNCHANGED <<visible, repeated>>
           ELSE /\ visible' = visible \cup {chunk}
                /\ repeated' = IF chunk \in visible
                               THEN repeated \cup {part[p]}
                               ELSE repeated
        /\ UNCHANGED <<files, answer, payload, forgot, usurped>>

\* Mutant: the send answers after its first chunk.
AfterFirst(p) == "recordDelivered"

AfterPost(p) == IF part[p] = Parts THEN "recordDelivered" ELSE "send"
NextPart(p) == IF part[p] < Parts THEN part[p] + 1 ELSE 1

PostAnswered(p) ==
    /\ Post(p)
    /\ Go(p, AfterPost(p))
    /\ part' = [part EXCEPT ![p] = NextPart(p)]
    /\ UNCHANGED setbacks

PostAnswerLost(p) ==
    /\ Post(p)
    /\ Setback
    /\ Go(p, "recordUncertain")
    /\ part' = [part EXCEPT ![p] = 1]

\* The transport throws before the platform sees the chunk.
PostFails(p) ==
    /\ pc[p] = "send"
    /\ Setback
    /\ Go(p, "recordUncertain")
    /\ part' = [part EXCEPT ![p] = 1]
    /\ UNCHANGED <<files, answer, payload, platform, usurped>>

RecordDelivered(p) ==
    /\ pc[p] = "recordDelivered"
    /\ Write(p, "delivered")
    /\ Return(p, "unlock", "delivered")
    /\ UNCHANGED <<lock, call, platform, usurped, setbacks>>

RecordSuppressed(p) ==
    /\ pc[p] = "recordSuppressed"
    /\ Write(p, "suppressed")
    /\ Return(p, "unlock", "suppressed")
    /\ UNCHANGED <<lock, call, platform, usurped, setbacks>>

\* Writing the outcome fails: the catch records the attempt as uncertain.
RecordOutcomeFails(p) ==
    /\ pc[p] \in {"recordDelivered", "recordSuppressed"}
    /\ Setback
    /\ Go(p, "recordUncertain")
    /\ UNCHANGED <<files, answer, call, platform, usurped>>

RecordUncertain(p) ==
    /\ pc[p] = "recordUncertain"
    /\ Write(p, "uncertain")
    /\ Return(p, "unlock", "transport-error")
    /\ UNCHANGED <<lock, call, platform, usurped, setbacks>>

RecordUncertainFails(p) ==
    /\ pc[p] = "recordUncertain"
    /\ Setback
    /\ Return(p, "unlock", "rejected")
    /\ UNCHANGED <<files, call, platform, usurped>>

\* finally: unlink(lockPath), whoever's lock is there now.
Unlock(p) ==
    /\ pc[p] = "unlock"
    /\ lock' = "free"
    /\ Go(p, "idle")
    /\ UNCHANGED <<receipt, answer, call, platform, usurped, setbacks>>

----------------------------------------------------------------------------
(* The environment: the process dies, time passes, the platform forgets.   *)

Crash(p) ==
    /\ pc[p] # "idle"
    /\ Setback
    /\ Return(p, "idle", "none")
    /\ part' = [part EXCEPT ![p] = 1]
    /\ UNCHANGED <<files, payload, platform, usurped>>

LockAges ==
    /\ lock = "fresh"
    /\ LiveLocksAge \/ \A p \in Procs : pc[p] \notin Critical
    /\ lock' = "stale"
    /\ UNCHANGED <<receipt, pc, answer, call, platform, usurped, setbacks>>

PlatformForgets ==
    /\ remembered # {}
    /\ remembered' = {}
    /\ forgot' = TRUE
    /\ UNCHANGED <<files, pc, answer, call, visible, repeated, usurped, setbacks>>

\* What a live process does next of its own accord.
Proceed(p) ==
    \/ FirstRead(p) \/ Acquire(p) \/ StatLock(p) \/ UnlinkStale(p) \/ Reopen(p)
    \/ ConcurrentRead(p) \/ LockedRead(p) \/ RecordAttempt(p) \/ PostAnswered(p)
    \/ RecordDelivered(p) \/ RecordSuppressed(p) \/ RecordUncertain(p) \/ Unlock(p)

Suffer(p) ==
    \/ RecordAttemptFails(p) \/ Refuse(p) \/ PostAnswerLost(p) \/ PostFails(p)
    \/ RecordOutcomeFails(p) \/ RecordUncertainFails(p) \/ Crash(p)

Next ==
    \/ \E p \in Procs : Proceed(p) \/ Suffer(p) \/ \E h \in Payloads : Call(p, h)
    \/ LockAges
    \/ PlatformForgets

Spec == Init /\ [][Next]_vars

\* A started call runs on until it answers, and time passes.  Nothing makes
\* anybody call.
Fairness == WF_vars(LockAges) /\ \A p \in Procs : WF_vars(Proceed(p))
FairSpec == Spec /\ Fairness

----------------------------------------------------------------------------
(* Properties.                                                             *)

TypeOK ==
    /\ receipt \in Receipts \cup {NoReceipt}
    /\ lock \in {"free", "fresh", "stale"}
    /\ pc \in [Procs -> Places]
    /\ payload \in [Procs -> Payloads]
    /\ part \in [Procs -> PartSet]
    /\ answer \in [Procs -> Answers]
    /\ visible \subseteq Payloads \X PartSet
    /\ repeated \subseteq PartSet
    /\ remembered \subseteq PartSet
    /\ forgot \in BOOLEAN
    /\ usurped \in BOOLEAN
    /\ setbacks \in 0 .. MaxSetbacks

\* "wx" and the unlink in finally keep calls of one intent apart, across
\* crashes and takeovers of a dead caller's lock, for as long as no lock was
\* removed as stale under a call that was still at work.
MutualExclusion ==
    ~usurped => \A p, q \in Procs :
                    pc[p] \in Critical /\ pc[q] \in Critical => p = q

\* A caller is told "delivered" or "already-delivered" only when every chunk
\* of the payload IT brought is visible: never for half a message, never on
\* the strength of another payload's receipt.
ToldMeansVisible ==
    \A p \in Procs :
        answer[p] \in {"delivered", "already-delivered"} /\ ~usurped
            => AllParts(payload[p]) \subseteq visible

\* No chunk becomes visible twice while the platform remembers its nonce:
\* not after a lost response, a crash, a failed receipt write, nor even when
\* two callers hold the lock at once.
NoRepeatWhileRemembered == repeated # {} => forgot

\* Chunks of two different payloads are never mixed in one delivery.
OnePayloadVisible ==
    ~usurped => \A a, b \in visible : a[1] = b[1]

\* A receipt that says "delivered" is final: it is never rewritten and nothing
\* is posted for the intent again, however often it is replayed.
DeliveredIsFinal ==
    [][receipt.state = "delivered" /\ ~usurped
          => UNCHANGED <<receipt, visible, repeated>>]_vars

\* The lock of a dead caller and a half-done attempt never wedge an intent: if
\* some payload is presented again and again, it gets delivered, unless the
\* receipt is already committed to another payload.
RetriedIntentSettles ==
    \A h \in Payloads :
        []<>(\E p \in Procs : pc[p] = "called" /\ payload[p] = h)
            => <>(receipt # NoReceipt /\ (receipt.state = "delivered" \/ receipt.payload # h))

=============================================================================
