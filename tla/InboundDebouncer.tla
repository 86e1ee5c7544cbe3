--------------------------- MODULE InboundDebouncer ---------------------------
(***************************************************************************)
(* createNeonInboundDebouncer (src/gateway/inboundDebouncer.ts) as the       *)
(* Discord tap uses it (src/gateway/discordShadowTap.ts).  Messages of one   *)
(* key, which is one author in one conversation, are collected in a bucket   *)
(* until a timer fires; commands and media are run at once, after what is in *)
(* the bucket.  Batches of a key run on a promise chain.                     *)
(*                                                                         *)
(* Messages are numbered as they reach enqueue; a batch has the number of    *)
(* its first message, and 0 is no batch.  A bucket with messages always has  *)
(* its timer, so the timer is not a variable of its own.                     *)
(***************************************************************************)
EXTENDS Naturals

CONSTANTS
    Keys,       \* discord:account:conversation:author
    MaxMessages \* bound: messages that arrive

ASSUME MaxMessagesAssumption == MaxMessages \in Nat

VARIABLES
    count,     \* messages so far
    key, text, \* of each message its key and whether shouldDebounce
    bucket,    \* the Map buckets: the items waiting for the timer of a key
    batchOf,   \* the batch a message was flushed with
    prev,      \* the promise a batch was chained to
    tail,      \* the Map keyChains
    stage,     \* of each batch
    forgotten, \* batches whose finally block has run
    behind,    \* the flush that enqueue awaits before it runs a message at once
    gone,      \* "cancelled" with their bucket, "lost" to a flush that failed
    tap,       \* close of the tap's handle
    awaited    \* the flushes close awaits

vars == <<count, key, text, bucket, batchOf, prev, tail, stage, forgotten, behind, gone, tap,
          awaited>>

Messages == 1..MaxMessages
First(S) == CHOOSE i \in S : \A j \in S : i <= j
Settled(b) == stage[b] \in {"resolved", "rejected"}

Init ==
    /\ count = 0
    /\ key \in [Messages -> Keys]
    /\ text \in [Messages -> BOOLEAN]
    /\ bucket = [k \in Keys |-> {}]
    /\ batchOf = [i \in Messages |-> 0]
    /\ prev = [b \in Messages |-> 0]
    /\ tail = [k \in Keys |-> 0]
    /\ stage = [b \in Messages |-> "none"]
    /\ forgotten = {}
    /\ behind = [i \in Messages |-> 0]
    /\ gone = [cancelled |-> {}, lost |-> {}]
    /\ tap = "open"
    /\ awaited = {}

----------------------------------------------------------------------------

\* Mutant: a batch waits for its predecessor to succeed (no catch).
ReadyAfterSuccess(b) == prev[b] # 0 => stage[prev[b]] = "resolved"

Ready(b) == prev[b] # 0 => Settled(prev[b])

Held(i) == behind[i] # 0 /\ batchOf[i] = 0 /\ i \notin gone.lost

\* Messages, timers and the signal to close are tasks of the event loop: when
\* one begins, every promise that could go on has gone on.
Resumed ==
    /\ \A b \in Messages : stage[b] = "chained" => ~Ready(b)
    /\ \A b \in Messages : Settled(b) => b \in forgotten
    /\ \A i \in Messages : Held(i) => behind[i] \notin forgotten

\* Mutant: a batch is chained to nothing.
ChainedToNothing(k) == 0

ChainedTo(k) == tail[k]

Heads(S) == {i \in S : i = First({j \in S : key[j] = key[i]})}

\* runFlush up to its await, for the messages of S, one batch per key.
RunFlush(S) ==
    /\ batchOf' = [i \in Messages |-> IF i \in S THEN First({j \in S : key[j] = key[i]})
                                      ELSE batchOf[i]]
    /\ prev' = [b \in Messages |-> IF b \in Heads(S) THEN ChainedTo(key[b]) ELSE prev[b]]
    /\ tail' = [k \in Keys |-> IF \E b \in Heads(S) : key[b] = k
                               THEN First({i \in S : key[i] = k}) ELSE tail[k]]
    /\ stage' = [b \in Messages |-> IF b \in Heads(S) THEN "chained" ELSE stage[b]]

\* What flushKey does to the Map, for the keys K.
\* Mutant: the bucket is left where it is.
KeepsBucket(K) == bucket

Without(K) == [k \in Keys |-> IF k \in K THEN {} ELSE bucket[k]]

\* Mutant: one bucket for everybody.
JoinsAll(i) == [k \in Keys |-> bucket[k] \cup {i}]

Joins(i) == [bucket EXCEPT ![key[i]] = @ \cup {i}]

Arrives(i) ==
    /\ Resumed
    /\ tap # "closed"
    /\ i = count + 1
    /\ count' = i

\* enqueue of text, which sets the timer anew.
EnqueueText(i) ==
    /\ Arrives(i)
    /\ text[i]
    /\ bucket' = Joins(i)
    /\ UNCHANGED <<key, text, batchOf, prev, tail, stage, forgotten, behind, gone, tap, awaited>>

\* enqueue of anything else, when there is nothing to flush ...
EnqueueNow(i) ==
    /\ Arrives(i)
    /\ ~text[i]
    /\ bucket[key[i]] = {}
    /\ RunFlush({i})
    /\ UNCHANGED <<key, text, bucket, forgotten, behind, gone, tap, awaited>>

\* ... and when there is: it awaits that flush, all of it, before it goes on.
EnqueueBehind(i) ==
    /\ Arrives(i)
    /\ ~text[i]
    /\ bucket[key[i]] # {}
    /\ RunFlush(bucket[key[i]])
    /\ behind' = [behind EXCEPT ![i] = First(bucket[key[i]])]
    /\ bucket' = Without({key[i]})
    /\ UNCHANGED <<key, text, forgotten, gone, tap, awaited>>

GoOn(i) ==
    /\ Held(i)
    /\ stage[behind[i]] = "resolved"
    /\ behind[i] \in forgotten
    /\ RunFlush({i})
    /\ UNCHANGED <<count, key, text, bucket, forgotten, behind, gone, tap, awaited>>

\* The flush failed, so enqueue throws and the message is recorded as an error.
Lose(i) ==
    /\ Held(i)
    /\ stage[behind[i]] = "rejected"
    /\ behind[i] \in forgotten
    /\ gone' = [gone EXCEPT !.lost = @ \cup {i}]
    /\ UNCHANGED <<count, key, text, bucket, batchOf, prev, tail, stage, forgotten, behind, tap,
                   awaited>>

CancelKey(k) ==
    /\ Resumed
    /\ bucket[k] # {}
    /\ gone' = [gone EXCEPT !.cancelled = @ \cup bucket[k]]
    /\ bucket' = [bucket EXCEPT ![k] = {}]
    /\ UNCHANGED <<count, key, text, batchOf, prev, tail, stage, forgotten, behind, tap, awaited>>

----------------------------------------------------------------------------
(* The promises.                                                            *)

Start(b) ==
    /\ stage[b] = "chained"
    /\ Ready(b)
    /\ stage' = [stage EXCEPT ![b] = "running"]
    /\ UNCHANGED <<count, key, text, bucket, batchOf, prev, tail, forgotten, behind, gone, tap,
                   awaited>>

\* onFlush is processTapMessage, whole: it returns, or throws out of its own catch.
Finish(b, how) ==
    /\ stage[b] = "running"
    /\ how \in {"resolved", "rejected"}
    /\ stage' = [stage EXCEPT ![b] = how]
    /\ UNCHANGED <<count, key, text, bucket, batchOf, prev, tail, forgotten, behind, gone, tap,
                   awaited>>

\* Mutant: the finally block does not look whether the chain has grown.
AlwaysDelete(b) == TRUE

IsTail(b) == tail[key[b]] = b

Forget(b) ==
    /\ Settled(b)
    /\ b \notin forgotten
    /\ forgotten' = forgotten \cup {b}
    /\ tail' = IF IsTail(b) THEN [tail EXCEPT ![key[b]] = 0] ELSE tail
    /\ UNCHANGED <<count, key, text, bucket, batchOf, prev, stage, behind, gone, tap, awaited>>

\* The timer of a bucket.
Fire(k) ==
    /\ Resumed
    /\ bucket[k] # {}
    /\ RunFlush(bucket[k])
    /\ bucket' = Without({k})
    /\ UNCHANGED <<count, key, text, forgotten, behind, gone, tap, awaited>>

----------------------------------------------------------------------------
(* close of the tap: flushAll, and only then the adapter.                  *)

FlushAll ==
    /\ Resumed
    /\ tap = "open"
    /\ LET waiting == UNION {bucket[k] : k \in Keys}
       IN  /\ RunFlush(waiting)
           /\ awaited' = Heads(waiting)
    /\ bucket' = Without(Keys)
    /\ tap' = "closing"
    /\ UNCHANGED <<count, key, text, forgotten, behind, gone>>

CloseAdapter ==
    /\ tap = "closing"
    /\ awaited \subseteq {b \in forgotten : stage[b] = "resolved"}
    /\ tap' = "closed"
    /\ UNCHANGED <<count, key, text, bucket, batchOf, prev, tail, stage, forgotten, behind, gone,
                   awaited>>

\* A failed flush makes close throw before the adapter is closed.
CloseFails ==
    /\ tap = "closing"
    /\ \E b \in awaited \cap forgotten : stage[b] = "rejected"
    /\ tap' = "not closed"
    /\ UNCHANGED <<count, key, text, bucket, batchOf, prev, tail, stage, forgotten, behind, gone,
                   awaited>>

----------------------------------------------------------------------------

Next ==
    \/ \E i \in Messages :
          \/ EnqueueText(i) \/ EnqueueNow(i) \/ EnqueueBehind(i) \/ GoOn(i) \/ Lose(i)
          \/ Start(i) \/ Forget(i)
          \/ \E how \in {"resolved", "rejected"} : Finish(i, how)
    \/ \E k \in Keys : Fire(k) \/ CancelKey(k)
    \/ FlushAll \/ CloseAdapter \/ CloseFails

Spec == Init /\ [][Next]_vars

\* Timers fire once the author pauses, which is sure where messages are
\* finitely many, and promises are resumed.  That onFlush returns is what
\* EveryMessageLeaves of RunControl says of the run behind it.
Fairness ==
    /\ \A k \in Keys : WF_vars(Fire(k))
    /\ \A i \in Messages :
          /\ WF_vars(GoOn(i) \/ Lose(i))
          /\ WF_vars(Start(i) \/ Finish(i, "resolved") \/ Finish(i, "rejected") \/ Forget(i))
FairSpec == Spec /\ Fairness

----------------------------------------------------------------------------
(* Properties.                                                              *)

Of(k) == {i \in 1..count : key[i] = k}

TypeOK ==
    /\ count \in 0..MaxMessages
    /\ key \in [Messages -> Keys]
    /\ text \in [Messages -> BOOLEAN]
    /\ \A k \in Keys : bucket[k] \subseteq Of(k) /\ tail[k] \in Of(k) \cup {0}
    /\ batchOf \in [Messages -> 0..MaxMessages]
    /\ prev \in [Messages -> 0..MaxMessages]
    /\ stage \in [Messages -> {"none", "chained", "running", "resolved", "rejected"}]
    /\ forgotten \subseteq Messages
    /\ behind \in [Messages -> 0..MaxMessages]
    /\ gone \in [cancelled : SUBSET Messages, lost : SUBSET Messages]
    /\ tap \in {"open", "closing", "closed", "not closed"}
    /\ awaited \subseteq Messages

\* The batches of one author in one conversation are never run at the same
\* time, although the Map forgets a chain as soon as its last batch settles.
OneAtATime ==
    \A b, c \in Messages : stage[b] = "running" /\ stage[c] = "running" /\ key[b] = key[c] => b = c

\* A key's chain of promises as an executor of one session, whose number is 1.  Its tasks
\* are the batches of the key, each named by its first message.
PhaseIn(k) == [b \in Messages |->
    IF key[b] # k \/ stage[b] = "none" THEN "new"
    ELSE IF stage[b] = "chained" THEN "waiting"
    ELSE IF stage[b] = "running" THEN "running" ELSE "finished"]
SessionIn(k) == [b \in Messages |-> IF key[b] = k /\ stage[b] # "none" THEN 1 ELSE 0]

\* The batches that are not over; the one a batch is linked to is in S with it.
Unsettled(k) == {b \in Messages : key[b] = k /\ stage[b] \in {"chained", "running"}}
Linked(k, S) == \A b \in S : prev[b] \in Unsettled(k) => prev[b] \in S

\* What a batch that is not over waits for: whatever the links lead to from it.
AheadIn(k) == [b \in Messages |->
    {c \in Unsettled(k) \ {b} :
        /\ b \in Unsettled(k)
        /\ \A S \in SUBSET Unsettled(k) : b \in S /\ Linked(k, S) => c \in S}]

Author(k) == INSTANCE SerialExecutor WITH
    Sessions <- {1}, NoSession <- 0, Tasks <- Messages,
    phase <- PhaseIn(k), session <- SessionIn(k), ahead <- AheadIn(k)

\* Each author's batches are run one at a time and in the order they were flushed,
\* whatever other authors do, although the Map forgets a chain as soon as its last
\* batch settles, and the next batch begins a new one.
ChainsAreSerial ==
    /\ \A k \in Keys : Author(k)!Init
    /\ [][\A k \in Keys : [Author(k)!Next]_(Author(k)!vars)]_vars

\* A message that waits in a bucket has not been flushed, so that no message
\* is run twice.
FlushedOnce ==
    \A k \in Keys : \A i \in bucket[k] : batchOf[i] = 0

Begun(i) == batchOf[i] # 0 /\ stage[batchOf[i]] \in {"running", "resolved", "rejected"}
Over(i) == batchOf[i] # 0 /\ Settled(batchOf[i])
Before(i, j) == i < j /\ key[i] = key[j]

\* Text is run in the order it was written: a text is not run while an earlier
\* one of its author waits or is being run, unless it is in the same batch.
TextsInOrder ==
    \A i, j \in 1..count :
        Before(i, j) /\ text[i] /\ text[j] /\ Begun(j)
            => batchOf[i] = batchOf[j] \/ Over(i) \/ i \in gone.cancelled

\* "flushes pending debounced text when the Discord tap closes": when the
\* adapter is closed, what close flushed is over and so is every text before it.
CloseFlushes ==
    tap = "closed" =>
        \A j \in awaited : \A i \in 1..j :
            key[i] = key[j] /\ text[i] => Over(i) \/ i \in gone.cancelled

\* Every message is run, unless its bucket is cancelled or the flush it was
\* held behind fails.  A batch that fails takes nothing else with it.
EveryMessageIsRun ==
    \A i \in Messages :
        i <= count ~> \/ Over(i) \/ i \in gone.cancelled
                      \/ behind[i] # 0 /\ stage[behind[i]] = "rejected"
=============================================================================
