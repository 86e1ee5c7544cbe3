---------------------------- MODULE RecordProofs -----------------------------
(* What holds of DeliveryReceipts for any callers, payloads and number of   *)
(* chunks, and of RunStore for any runs, rescues and crashes: the files in  *)
(* which the gateway keeps what it has done.                                *)
EXTENDS DeliveryReceipts, RunStore, FiniteSetTheorems, TLAPS

(* The inductive invariant.  MutualExclusion is not inductive: a second    *)
(* caller must be kept out by the lock file itself.                        *)

\* While a call is at work the lock file exists, and nobody else is at work.
Excluded ==
    ~usurped => \A p \in Procs : pc[p] \in Critical =>
                    /\ lock # "free"
                    /\ \A q \in Procs : pc[q] \in Critical => q = p

\* A call that is about to record or send owns the receipt it will rewrite.
OwnsReceipt ==
    ~usurped => \A p \in Procs :
        /\ pc[p] = "record" => Settled(receipt, payload[p]) = "none"
        /\ pc[p] \in {"send"} \cup Recording =>
               receipt = [state |-> "attempting", payload |-> payload[p]]

\* What is visible, and what the platform remembers, is of the receipt's payload.
PlatformAgrees ==
    ~usurped =>
        /\ \A c \in visible : receipt # NoReceipt /\ c[1] = receipt.payload
        /\ \A k \in remembered :
               receipt # NoReceipt /\ <<receipt.payload, k>> \in visible

\* The chunks before the current one are visible; all of them, once sent.
SentSoFar ==
    ~usurped => \A p \in Procs :
        /\ pc[p] = "send" => \A k \in PartSet : k < part[p] => <<payload[p], k>> \in visible
        /\ pc[p] = "recordDelivered" => AllParts(payload[p]) \subseteq visible

\* A "delivered" receipt tells the truth.
ReceiptTrue ==
    ~usurped /\ receipt # NoReceipt /\ receipt.state = "delivered"
        => AllParts(receipt.payload) \subseteq visible

\* A platform that never forgot remembers every chunk it shows.
Remembers == ~forgot => \A c \in visible : c[2] \in remembered

IInv ==
    /\ TypeOK /\ Excluded /\ OwnsReceipt /\ PlatformAgrees /\ SentSoFar
    /\ ReceiptTrue /\ ToldMeansVisible /\ Remembers /\ NoRepeatWhileRemembered

----------------------------------------------------------------------------
(* Typing.                                                                 *)

\* What a receipt settles is one of the answers, and "none" only when the
\* receipt is absent or belongs to this payload and is not delivered.
LEMMA SettledAnswer ==
    ASSUME NEW h \in Payloads, receipt \in Receipts \cup {NoReceipt}
    PROVE  /\ Settled(receipt, h) \in {"none", "payload-mismatch", "already-delivered"}
           /\ Settled(receipt, h) = "none" /\ receipt # NoReceipt
                  => receipt.payload = h /\ receipt.state # "delivered"
           /\ Settled(receipt, h) = "already-delivered"
                  => receipt # NoReceipt /\ receipt.payload = h /\ receipt.state = "delivered"
  BY DEF Settled

\* The chunk a send is at, and the next one, exist.
LEMMA PartInRange ==
    ASSUME TypeOK, NEW p \in Procs
    PROVE  /\ part[p] \in PartSet /\ NextPart(p) \in PartSet /\ 1 \in PartSet
           /\ <<payload[p], part[p]>> \in Payloads \X PartSet
  BY PartsAssumption DEF TypeOK, NextPart, PartSet

\* A chunk on the platform leaves the platform's state well typed.
LEMMA PostTyping ==
    ASSUME TypeOK, NEW p \in Procs, Post(p)
    PROVE  /\ visible' \subseteq Payloads \X PartSet
           /\ repeated' \subseteq PartSet
           /\ remembered' \subseteq PartSet
           /\ UNCHANGED <<receipt, lock, answer, payload, forgot, usurped>>
<1>1. part[p] \in PartSet /\ <<payload[p], part[p]>> \in Payloads \X PartSet
  BY PartInRange
<1>2. visible \subseteq Payloads \X PartSet /\ repeated \subseteq PartSet
        /\ remembered \subseteq PartSet
  BY DEF TypeOK
<1> QED BY <1>1, <1>2 DEF Post, Nonce, files

LEMMA Typing == TypeOK /\ [Next]_vars => TypeOK'
<1> SUFFICES ASSUME TypeOK, [Next]_vars PROVE TypeOK'
  OBVIOUS
<1> USE DEF Places, Critical, Owning, Recording, Answers
<1>1. ASSUME NEW p \in Procs, Proceed(p) PROVE TypeOK'
  <2>1. CASE FirstRead(p) \/ ConcurrentRead(p) \/ LockedRead(p)
    <3>1. Settled(receipt, payload[p]) \in {"none", "payload-mismatch", "already-delivered"}
      BY SettledAnswer DEF TypeOK
    <3> QED BY <2>1, <3>1 DEF TypeOK, FirstRead, ConcurrentRead, LockedRead, Return, Go,
                  Answer, files, call, platform
  <2>2. CASE Acquire(p) \/ Reopen(p) \/ StatLock(p) \/ UnlinkStale(p) \/ Unlock(p)
    BY <2>2 DEF TypeOK, Acquire, Reopen, OpenExclusive, Opens, StatLock, UnlinkStale,
                Unlock, Go, files, call, platform
  <2>3. CASE RecordAttempt(p)
    BY <2>3, PartInRange DEF TypeOK, RecordAttempt, Write, Go, platform, Receipts, States
  <2>4. CASE RecordDelivered(p)
    BY <2>4 DEF TypeOK, RecordDelivered, Write, Return, Go, Answer, call, platform,
                Receipts, States
  <2>5. CASE RecordSuppressed(p)
    BY <2>5 DEF TypeOK, RecordSuppressed, Write, Return, Go, Answer, call, platform,
                Receipts, States
  <2>6. CASE RecordUncertain(p)
    BY <2>6 DEF TypeOK, RecordUncertain, Write, Return, Go, Answer, call, platform,
                Receipts, States
  <2>7. CASE PostAnswered(p)
    <3>1. NextPart(p) \in PartSet
      BY PartInRange
    <3>2. pc' = [pc EXCEPT ![p] = AfterPost(p)] /\ AfterPost(p) \in Places
      BY <2>7 DEF PostAnswered, AfterPost, Go
    <3>3. part' = [part EXCEPT ![p] = NextPart(p)] /\ UNCHANGED setbacks
      BY <2>7 DEF PostAnswered
    <3> QED BY <2>7, <3>1, <3>2, <3>3, PostTyping DEF TypeOK, PostAnswered
  <2> QED BY <1>1, <2>1, <2>2, <2>3, <2>4, <2>5, <2>6, <2>7 DEF Proceed
<1>2. ASSUME NEW p \in Procs, Suffer(p) PROVE TypeOK'
  <2>1. setbacks' \in 0 .. MaxSetbacks
    BY <1>2, SetbacksAssumption DEF TypeOK, Suffer, Setback, RecordAttemptFails, Refuse,
            PostAnswerLost, PostFails, RecordOutcomeFails, RecordUncertainFails, Crash
  <2>2. CASE PostAnswerLost(p)
    <3>1. pc' = [pc EXCEPT ![p] = "recordUncertain"] /\ part' = [part EXCEPT ![p] = 1]
      BY <2>2 DEF PostAnswerLost, Go
    <3> QED BY <2>1, <2>2, <3>1, PostTyping, PartInRange DEF TypeOK, PostAnswerLost
  <2>3. CASE RecordAttemptFails(p) \/ Refuse(p)
    BY <2>1, <2>3 DEF TypeOK, RecordAttemptFails, Refuse, Return, Go, Answer,
                      files, call, platform
  <2>4. CASE PostFails(p)
    BY <2>1, <2>4, PartInRange DEF TypeOK, PostFails, Go, files, platform
  <2>5. CASE RecordOutcomeFails(p) \/ RecordUncertainFails(p)
    BY <2>1, <2>5 DEF TypeOK, RecordOutcomeFails, RecordUncertainFails, Return, Go, Answer,
                      files, call, platform
  <2>6. CASE Crash(p)
    BY <2>1, <2>6, PartInRange DEF TypeOK, Crash, Return, Go, Answer, files, platform
  <2> QED BY <1>2, <2>2, <2>3, <2>4, <2>5, <2>6 DEF Suffer
<1>3. ASSUME NEW p \in Procs, NEW h \in Payloads, Call(p, h) PROVE TypeOK'
  BY <1>3 DEF TypeOK, Call, Return, Go, Answer, files, platform
<1>4. CASE LockAges \/ PlatformForgets
  BY <1>4 DEF TypeOK, LockAges, PlatformForgets, files, call, platform
<1>5. CASE UNCHANGED vars
  BY <1>5 DEF TypeOK, vars
<1> QED BY <1>1, <1>2, <1>3, <1>4, <1>5 DEF Next

----------------------------------------------------------------------------
(* The lock.                                                               *)

LEMMA Exclusion == TypeOK /\ Excluded /\ [Next]_vars => Excluded'
<1> SUFFICES ASSUME TypeOK, Excluded, [Next]_vars PROVE Excluded'
  OBVIOUS
<1> USE DEF TypeOK, Excluded
\* Entering: the lock was free, so nobody was at work.
<1>1. ASSUME NEW p \in Procs, Acquire(p) \/ Reopen(p) PROVE Excluded'
  BY <1>1 DEF Acquire, Reopen, OpenExclusive, Opens, Go, Critical, Owning, Recording
\* Leaving: p was the only one at work.
<1>2. ASSUME NEW p \in Procs, Unlock(p) PROVE Excluded'
  BY <1>2 DEF Unlock, Go, Critical, Owning, Recording
\* Removing a stale lock under a call at work is what usurped records.
<1>3. ASSUME NEW p \in Procs, UnlinkStale(p) PROVE Excluded'
  BY <1>3 DEF UnlinkStale, Go, Critical, Owning, Recording
\* Every other step leaves the lock alone and starts nobody's work.
<1>4. ASSUME NEW p \in Procs, NEW place \in Places, UNCHANGED <<lock, usurped>>,
             pc' = [pc EXCEPT ![p] = place], place \in Critical => pc[p] \in Critical
      PROVE  Excluded'
  BY <1>4
<1>5. ASSUME NEW p \in Procs, Proceed(p) PROVE Excluded'
  <2>1. CASE FirstRead(p) \/ StatLock(p) \/ ConcurrentRead(p) \/ LockedRead(p)
    <3>1. \E place \in Places : /\ pc' = [pc EXCEPT ![p] = place]
                                /\ place \in Critical => pc[p] \in Critical
      BY <2>1 DEF FirstRead, StatLock, ConcurrentRead, LockedRead, Return, Go,
                  Places, Critical, Owning, Recording
    <3> QED BY <2>1, <3>1, <1>4 DEF FirstRead, StatLock, ConcurrentRead, LockedRead, files
  <2>2. CASE \/ RecordAttempt(p) \/ RecordDelivered(p) \/ RecordSuppressed(p)
             \/ RecordUncertain(p) \/ PostAnswered(p)
    <3>1. pc[p] \in Critical /\ UNCHANGED <<lock, usurped>>
      BY <2>2 DEF RecordAttempt, RecordDelivered, RecordSuppressed, RecordUncertain,
                  PostAnswered, Post, files, Critical, Owning, Recording
    <3>2. \E place \in Places : pc' = [pc EXCEPT ![p] = place]
      BY <2>2 DEF RecordAttempt, RecordDelivered, RecordSuppressed, RecordUncertain,
                  PostAnswered, AfterPost, Return, Go, Places, Critical, Owning, Recording
    <3> QED BY <3>1, <3>2, <1>4
  <2> QED BY <1>5, <1>1, <1>2, <1>3, <2>1, <2>2 DEF Proceed
<1>6. ASSUME NEW p \in Procs, Suffer(p) PROVE Excluded'
  <2>1. UNCHANGED <<lock, usurped>>
    BY <1>6 DEF Suffer, RecordAttemptFails, Refuse, PostAnswerLost, PostFails, Post,
                RecordOutcomeFails, RecordUncertainFails, Crash, files
  <2>2. \E place \in Places : /\ pc' = [pc EXCEPT ![p] = place]
                              /\ place \in Critical => pc[p] \in Critical
    BY <1>6 DEF Suffer, RecordAttemptFails, Refuse, PostAnswerLost, PostFails, Post,
                RecordOutcomeFails, RecordUncertainFails, Crash, Return, Go,
                Places, Critical, Owning, Recording
  <2> QED BY <2>1, <2>2, <1>4
<1>7. ASSUME NEW p \in Procs, NEW h \in Payloads, Call(p, h) PROVE Excluded'
  BY <1>7 DEF Call, Return, Go, files, Critical, Owning, Recording
<1>8. CASE LockAges \/ PlatformForgets \/ UNCHANGED vars
  BY <1>8 DEF LockAges, PlatformForgets, files, vars
<1> QED BY <1>5, <1>6, <1>7, <1>8 DEF Next

----------------------------------------------------------------------------
(* What the receipt, the platform and the callers know of each other.      *)

Agreement == OwnsReceipt /\ PlatformAgrees /\ SentSoFar /\ ReceiptTrue /\ ToldMeansVisible

\* A step that changes neither the receipt nor the platform keeps the agreement
\* when it enters no state the agreement speaks of and tells nobody anything.
LEMMA QuietStep ==
    ASSUME TypeOK, Agreement, NEW p \in Procs, NEW place \in Places, NEW a \in Answers,
           UNCHANGED <<receipt, visible, remembered>>, usurped => usurped',
           pc' = [pc EXCEPT ![p] = place], answer' = [answer EXCEPT ![p] = a],
           UNCHANGED payload \/ (pc[p] = "idle" /\ \E h \in Payloads :
                                    payload' = [payload EXCEPT ![p] = h]),
           UNCHANGED part \/ part' = [part EXCEPT ![p] = 1],
           place \in {"record", "send", "recordDelivered"} => place = pc[p],
           place \in Recording => pc[p] \in {"send"} \cup Recording,
           a \in {"delivered", "already-delivered"} => a = answer[p] /\ UNCHANGED payload
    PROVE  Agreement'
<1> USE DEF TypeOK, Agreement
<1>1. CASE usurped'
  BY <1>1 DEF OwnsReceipt, PlatformAgrees, SentSoFar, ReceiptTrue, ToldMeansVisible
<1>2. CASE ~usurped'
  <2>1. ~usurped
    BY <1>2
  <2>2. OwnsReceipt'
    BY <2>1 DEF OwnsReceipt, Recording, Settled
  <2>3. PlatformAgrees' /\ ReceiptTrue'
    BY <2>1 DEF PlatformAgrees, ReceiptTrue, AllParts, PartSet
  <2>4. SentSoFar'
    BY <2>1, PartsAssumption DEF SentSoFar, AllParts, PartSet
  <2>5. ToldMeansVisible'
    BY <2>1 DEF ToldMeansVisible, AllParts, PartSet
  <2> QED BY <2>2, <2>3, <2>4, <2>5
<1> QED BY <1>1, <1>2 DEF TypeOK

\* A receipt may answer for itself: being told "already-delivered" is true.
LEMMA ReadStep ==
    ASSUME TypeOK, Agreement, NEW p \in Procs, FirstRead(p) \/ ConcurrentRead(p) \/ LockedRead(p)
    PROVE  Agreement'
<1> DEFINE a == Settled(receipt, payload[p])
<1>1. /\ UNCHANGED <<receipt, lock, payload, part, visible, repeated, remembered, usurped>>
      /\ \E place \in {"acquire", "idle", "record", "unlock"} :
             /\ pc' = [pc EXCEPT ![p] = place]
             /\ place = "record" => a = "none"
      /\ \E b \in {a, "in-flight"} : answer' = [answer EXCEPT ![p] = b]
  BY DEF FirstRead, ConcurrentRead, LockedRead, Return, Go, Answer, files, call, platform
<1>2. /\ a \in {"none", "payload-mismatch", "already-delivered"}
      /\ a = "already-delivered" => /\ receipt # NoReceipt /\ receipt.payload = payload[p]
                                    /\ receipt.state = "delivered"
  BY SettledAnswer DEF TypeOK
<1>3. OwnsReceipt'
  BY <1>1 DEF TypeOK, Agreement, OwnsReceipt, Recording, Settled
<1>4. PlatformAgrees' /\ ReceiptTrue'
  BY <1>1 DEF TypeOK, Agreement, PlatformAgrees, ReceiptTrue, AllParts, PartSet
<1>5. SentSoFar'
  BY <1>1 DEF TypeOK, Agreement, SentSoFar, AllParts, PartSet
<1>6. ToldMeansVisible'
  BY <1>1, <1>2 DEF TypeOK, Agreement, ToldMeansVisible, ReceiptTrue
<1> QED BY <1>3, <1>4, <1>5, <1>6 DEF Agreement

\* Rewriting the receipt is the holder's privilege: nobody else relies on it.
LEMMA WriteStep ==
    ASSUME TypeOK, Excluded, Agreement, NEW p \in Procs,
           RecordAttempt(p) \/ RecordDelivered(p) \/ RecordSuppressed(p) \/ RecordUncertain(p)
    PROVE  Agreement'
<1> USE DEF TypeOK
<1>1. CASE usurped
  BY <1>1 DEF RecordAttempt, RecordDelivered, RecordSuppressed, RecordUncertain, Agreement,
      OwnsReceipt, PlatformAgrees, SentSoFar, ReceiptTrue, ToldMeansVisible
<1>2. CASE ~usurped
  <2>1. /\ UNCHANGED <<payload, visible, remembered, usurped>>
        /\ pc[p] \in Owning
        /\ UNCHANGED part \/ part' = [part EXCEPT ![p] = 1]
        /\ \E state \in States, place \in {"send", "unlock"}, b \in Answers :
              /\ receipt' = [state |-> state, payload |-> payload[p]]
              /\ pc' = [pc EXCEPT ![p] = place]
              /\ answer' = [answer EXCEPT ![p] = b]
              /\ place = "send" => state = "attempting" /\ part'[p] = 1
              /\ state = "delivered" => pc[p] = "recordDelivered"
              /\ b = "delivered" => b = answer[p] \/ pc[p] = "recordDelivered"
              /\ b = "already-delivered" => answer[p] = b
    BY DEF RecordAttempt, RecordDelivered, RecordSuppressed, RecordUncertain, Owning, Recording,
           States, Answers, Write, Return, Go, Answer, call, platform
  <2>2. \A q \in Procs : q # p => pc[q] \notin Critical
    BY <1>2, <2>1 DEF Excluded, Critical
  <2>3. receipt # NoReceipt => receipt.payload = payload[p]
    BY <1>2, <2>1 DEF Agreement, OwnsReceipt, Owning, Recording, Settled, NoReceipt
  <2>4. OwnsReceipt'
    <3>1. \A q \in Procs \ {p} : pc'[q] \notin {"record", "send"} \cup Recording
      BY <2>1, <2>2 DEF Critical, Owning
    <3>2. pc'[p] \notin {"record"} \cup Recording
      BY <2>1 DEF Recording
    <3>3. pc'[p] = "send" => receipt' = [state |-> "attempting", payload |-> payload'[p]]
      BY <2>1
    <3> QED BY <3>1, <3>2, <3>3 DEF OwnsReceipt
  <2>5. PlatformAgrees'
    <3>1. receipt' # NoReceipt /\ receipt'.payload = payload[p]
      BY <2>1 DEF States, NoReceipt
    <3> QED BY <1>2, <2>1, <2>3, <3>1 DEF Agreement, PlatformAgrees
  <2>6. SentSoFar'
    BY <1>2, <2>1, PartsAssumption DEF Agreement, SentSoFar, PartSet, AllParts
  <2>7. ReceiptTrue'
    BY <1>2, <2>1 DEF Agreement, SentSoFar, ReceiptTrue, PartSet, AllParts
  <2>8. ToldMeansVisible'
    BY <1>2, <2>1 DEF Agreement, SentSoFar, ToldMeansVisible, PartSet, AllParts
  <2> QED BY <2>4, <2>5, <2>6, <2>7, <2>8 DEF Agreement
<1> QED BY <1>1, <1>2

\* A chunk reaches the platform: it belongs to the receipt, and it is visible
\* from now on, either because it was posted or because its nonce says it was.
LEMMA PostStep ==
    ASSUME TypeOK, Agreement, NEW p \in Procs, PostAnswered(p) \/ PostAnswerLost(p)
    PROVE  Agreement'
<1> USE DEF TypeOK
<1>1. /\ UNCHANGED <<receipt, payload, answer, usurped>>
      /\ pc[p] = "send"
      /\ visible \subseteq visible'
      /\ visible' \subseteq visible \cup {<<payload[p], part[p]>>}
      /\ remembered' = remembered \cup {part[p]}
      /\ part[p] \in remembered \/ <<payload[p], part[p]>> \in visible'
  BY DEF PostAnswered, PostAnswerLost, Post, Nonce, files
<1>2. CASE usurped
  BY <1>1, <1>2 DEF Agreement, OwnsReceipt, PlatformAgrees, SentSoFar, ReceiptTrue, ToldMeansVisible
<1>3. CASE ~usurped
  <2>1. receipt = [state |-> "attempting", payload |-> payload[p]] /\ receipt # NoReceipt
    BY <1>1, <1>3 DEF Agreement, OwnsReceipt, NoReceipt
  <2>2. <<payload[p], part[p]>> \in visible'
    BY <1>1, <1>3, <2>1 DEF Agreement, PlatformAgrees
  <2>3. \E place \in {"send", "recordDelivered", "recordUncertain"} :
           /\ pc' = [pc EXCEPT ![p] = place]
           /\ place = "send" => part[p] < Parts /\ part' = [part EXCEPT ![p] = part[p] + 1]
           /\ place = "recordDelivered" => part[p] = Parts
           /\ \A q \in Procs \ {p} : part'[q] = part[q]
    BY PartsAssumption DEF PostAnswered, PostAnswerLost, Go, AfterPost, NextPart, PartSet
  <2>4. OwnsReceipt'
    BY <1>1, <1>3, <2>1, <2>3 DEF Agreement, OwnsReceipt, Recording
  <2>5. PlatformAgrees'
    BY <1>1, <1>3, <2>1, <2>2 DEF Agreement, PlatformAgrees
  <2>6. SentSoFar'
    <3>1. \A q \in Procs \ {p} : /\ pc'[q] = pc[q] /\ part'[q] = part[q]
      BY <2>3
    <3>2. \A k \in PartSet : k < part[p] => <<payload[p], k>> \in visible
      BY <1>1, <1>3 DEF Agreement, SentSoFar
    <3>3. pc'[p] = "send" => \A k \in PartSet : k < part'[p] => <<payload[p], k>> \in visible'
      BY <1>1, <2>2, <2>3, <3>2 DEF PartSet
    <3>4. pc'[p] = "recordDelivered" => AllParts(payload[p]) \subseteq visible'
      BY <1>1, <2>2, <2>3, <3>2, PartsAssumption DEF AllParts, PartSet
    <3> QED BY <1>1, <1>3, <3>1, <3>3, <3>4 DEF Agreement, SentSoFar
  <2>7. ReceiptTrue' /\ ToldMeansVisible'
    BY <1>1, <1>3 DEF Agreement, ReceiptTrue, ToldMeansVisible
  <2> QED BY <2>4, <2>5, <2>6, <2>7 DEF Agreement
<1> QED BY <1>2, <1>3

LEMMA Agreeing == TypeOK /\ Excluded /\ Agreement /\ [Next]_vars => Agreement'
<1> SUFFICES ASSUME TypeOK, Excluded, Agreement, [Next]_vars PROVE Agreement'
  OBVIOUS
<1> USE DEF Places, Critical, Owning, Recording, Answers
<1>1. ASSUME NEW p \in Procs, Proceed(p) PROVE Agreement'
  <2>1. CASE Acquire(p) \/ StatLock(p) \/ UnlinkStale(p) \/ Reopen(p) \/ Unlock(p)
    <3>1. /\ UNCHANGED <<receipt, visible, remembered, payload, part, answer>>
          /\ \E place \in {"idle", "stat", "unlinkStale", "reopen", "concurrentRead", "lockedRead"} :
                pc' = [pc EXCEPT ![p] = place]
      BY <2>1 DEF Acquire, StatLock, UnlinkStale, Reopen, OpenExclusive, Unlock, Go,
                  files, call, platform
    <3>3. usurped => usurped'
      BY <2>1, Zenon DEF Acquire, StatLock, UnlinkStale, Reopen, OpenExclusive, Unlock
    <3>2. answer' = [answer EXCEPT ![p] = answer[p]] /\ answer[p] \in Answers
      BY <3>1 DEF TypeOK
    <3> QED BY <3>1, <3>2, <3>3, QuietStep
  <2>2. CASE FirstRead(p) \/ ConcurrentRead(p) \/ LockedRead(p)
    BY <2>2, ReadStep
  <2>3. CASE RecordAttempt(p) \/ RecordDelivered(p) \/ RecordSuppressed(p) \/ RecordUncertain(p)
    BY <2>3, WriteStep
  <2>4. CASE PostAnswered(p)
    BY <2>4, PostStep
  <2> QED BY <1>1, <2>1, <2>2, <2>3, <2>4 DEF Proceed
<1>2. ASSUME NEW p \in Procs, Suffer(p) PROVE Agreement'
  <2>1. CASE PostAnswerLost(p)
    BY <2>1, PostStep
  <2>2. CASE \/ RecordAttemptFails(p) \/ Refuse(p) \/ PostFails(p) \/ RecordOutcomeFails(p)
             \/ RecordUncertainFails(p) \/ Crash(p)
    <3>1. /\ UNCHANGED <<receipt, visible, remembered, payload, usurped>>
          /\ UNCHANGED part \/ part' = [part EXCEPT ![p] = 1]
          /\ \E place \in {"idle", "unlock", "recordSuppressed", "recordUncertain"} :
                /\ pc' = [pc EXCEPT ![p] = place]
                /\ place \in Recording => pc[p] \in {"send"} \cup Recording
          /\ \/ answer' = answer
             \/ \E a \in {"none", "rejected"} : answer' = [answer EXCEPT ![p] = a]
      BY <2>2 DEF RecordAttemptFails, Refuse, PostFails, RecordOutcomeFails,
                  RecordUncertainFails, Crash, Return, Go, Answer, files, call, platform
    <3>2. PICK a \in Answers :
             /\ answer' = [answer EXCEPT ![p] = a]
             /\ a \in {"delivered", "already-delivered"} => a = answer[p]
      BY <3>1 DEF TypeOK
    <3>3. PICK place \in Places :
             /\ pc' = [pc EXCEPT ![p] = place]
             /\ place \in {"record", "send", "recordDelivered"} => place = pc[p]
             /\ place \in Recording => pc[p] \in {"send"} \cup Recording
      BY <3>1
    <3>4. usurped => usurped'
      BY <3>1, Zenon
    <3> HIDE DEF Recording, Answers, Places
    <3> QED BY <3>1, <3>2, <3>3, <3>4, QuietStep, Zenon
  <2> QED BY <1>2, <2>1, <2>2 DEF Suffer
<1>3. ASSUME NEW p \in Procs, NEW h \in Payloads, Call(p, h) PROVE Agreement'
  <2>1. /\ UNCHANGED <<receipt, visible, remembered, part, usurped>>
        /\ pc[p] = "idle" /\ pc' = [pc EXCEPT ![p] = "called"]
        /\ answer' = [answer EXCEPT ![p] = "none"]
        /\ payload' = [payload EXCEPT ![p] = h]
    BY <1>3 DEF Call, Return, Go, Answer, files, platform
  <2> QED BY <2>1, QuietStep
<1>4. CASE LockAges \/ PlatformForgets \/ UNCHANGED vars
  BY <1>4 DEF LockAges, PlatformForgets, files, call, platform, vars, Agreement, OwnsReceipt,
              PlatformAgrees, SentSoFar, ReceiptTrue, ToldMeansVisible
<1> QED BY <1>1, <1>2, <1>3, <1>4 DEF Next

----------------------------------------------------------------------------
(* The platform's memory.                                                  *)

LEMMA Remembering ==
    TypeOK /\ Remembers /\ NoRepeatWhileRemembered /\ [Next]_vars
        => Remembers' /\ NoRepeatWhileRemembered'
<1> SUFFICES ASSUME TypeOK, Remembers, NoRepeatWhileRemembered, [Next]_vars
             PROVE  Remembers' /\ NoRepeatWhileRemembered'
  OBVIOUS
<1> USE DEF Remembers, NoRepeatWhileRemembered
<1>1. ASSUME NEW p \in Procs, Post(p) PROVE Remembers' /\ NoRepeatWhileRemembered'
  BY <1>1 DEF Post, Nonce
<1>2. CASE UNCHANGED platform
  BY <1>2 DEF platform
<1>3. CASE PlatformForgets
  BY <1>3 DEF PlatformForgets
<1>4. (\E p \in Procs : Post(p)) \/ UNCHANGED platform \/ PlatformForgets
  BY DEF Next, Proceed, Suffer, Call, LockAges, vars, FirstRead, Acquire, StatLock, UnlinkStale,
         Reopen, OpenExclusive, ConcurrentRead, LockedRead, RecordAttempt, PostAnswered,
         RecordDelivered, RecordSuppressed, RecordUncertain, Unlock, RecordAttemptFails, Refuse,
         PostAnswerLost, PostFails, RecordOutcomeFails, RecordUncertainFails, Crash, platform
<1> QED BY <1>1, <1>2, <1>3, <1>4

----------------------------------------------------------------------------
(* The theorems.                                                           *)

LEMMA Initially == Init => IInv
<1> SUFFICES ASSUME Init PROVE IInv
  OBVIOUS
<1>1. 1 \in PartSet /\ 0 \in 0 .. MaxSetbacks
  BY PartsAssumption, SetbacksAssumption DEF PartSet
<1>2. TypeOK
  BY <1>1 DEF Init, TypeOK, Places, Answers
<1> QED BY <1>2 DEF Init, IInv, Excluded, OwnsReceipt, PlatformAgrees, SentSoFar, ReceiptTrue,
              ToldMeansVisible, Remembers, NoRepeatWhileRemembered, Critical, Owning, Recording

LEMMA Inductively == IInv /\ [Next]_vars => IInv'
  BY Typing, Exclusion, Agreeing, Remembering DEF IInv, Agreement

\* The inductive invariant holds throughout every behaviour.
THEOREM Invariance == Spec => []IInv
  BY Initially, Inductively, PTL DEF Spec

\* Every variable keeps its type.
THEOREM TypeCorrect == Spec => []TypeOK
<1>1. IInv => TypeOK
  BY DEF IInv
<1> QED BY <1>1, Invariance, PTL

\* Calls of one intent exclude each other until a lock is removed under a
\* call at work, whatever crashes and takeovers went before.
THEOREM Exclusive == Spec => []MutualExclusion
<1>1. IInv => MutualExclusion
  BY DEF IInv, Excluded, MutualExclusion
<1> QED BY <1>1, Invariance, PTL

\* Nobody is told of a delivery that is not wholly visible.
THEOREM Truthful == Spec => []ToldMeansVisible
<1>1. IInv => ToldMeansVisible
  BY DEF IInv
<1> QED BY <1>1, Invariance, PTL

\* The chunks on the platform are all of one payload.
THEOREM Unmixed == Spec => []OnePayloadVisible
<1>1. IInv => OnePayloadVisible
  BY DEF IInv, PlatformAgrees, OnePayloadVisible
<1> QED BY <1>1, Invariance, PTL

\* Nothing is shown twice while the platform remembers, usurped locks or not.
THEOREM Unrepeated == Spec => []NoRepeatWhileRemembered
<1>1. IInv => NoRepeatWhileRemembered
  BY DEF IInv
<1> QED BY <1>1, Invariance, PTL

\* A delivered receipt is final and nothing more is posted for its intent.
THEOREM Final == Spec => DeliveredIsFinal
<1>1. ASSUME IInv, [Next]_vars, receipt.state = "delivered", ~usurped
      PROVE  UNCHANGED <<receipt, visible, repeated>>
  <2>1. \A p \in Procs : pc[p] \notin Owning
    BY <1>1 DEF IInv, OwnsReceipt, Owning, Settled, NoReceipt, TypeOK
  <2> QED BY <1>1, <2>1 DEF Next, Proceed, Suffer, Call, LockAges, PlatformForgets, vars,
         FirstRead, Acquire, StatLock, UnlinkStale, Reopen, OpenExclusive, ConcurrentRead,
         LockedRead, RecordAttempt, PostAnswered, PostAnswerLost, PostFails, Post,
         RecordDelivered, RecordSuppressed, RecordUncertain, Unlock, RecordAttemptFails,
         Refuse, RecordOutcomeFails, RecordUncertainFails, Crash, files, platform,
         Owning, Recording
<1>2. IInv /\ [Next]_vars
        => [receipt.state = "delivered" /\ ~usurped
               => UNCHANGED <<receipt, visible, repeated>>]_vars
  BY <1>1
<1> QED BY <1>2, Invariance, PTL DEF Spec, DeliveredIsFinal

----------------------------------------------------------------------------
(* The file of runs.                                                        *)

AnyLine == [run : Runs, status : Statuses] \cup {Debris}

----------------------------------------------------------------------------
(* What a selection of lines holds.                                         *)

\* chosen has the lines at the positions, nth of each, and each once.
Lists(chosen, nth, lines, positions) ==
    /\ nth \in [DOMAIN chosen -> positions]
    /\ \A n \in DOMAIN nth : chosen[n] = lines[nth[n]]
    /\ \A m, n \in DOMAIN nth : nth[m] = nth[n] => m = n
    /\ \A i \in positions : \E n \in DOMAIN nth : nth[n] = i

\* LinesAt lists the lines at its positions, each once.
LEMMA LinesListed ==
    ASSUME NEW lines \in Seq(AnyLine), NEW positions \in SUBSET DOMAIN lines
    PROVE  /\ LinesAt(lines, positions) \in Seq(AnyLine)
           /\ \E nth : Lists(LinesAt(lines, positions), nth, lines, positions)
<1> DEFINE size == Cardinality(positions)
           upTo(i) == {j \in positions : j <= i}
           rank(i) == Cardinality(upTo(i))
<1>1. Len(lines) \in Nat /\ positions \in SUBSET (1..Len(lines))
  OBVIOUS
<1>2. IsFiniteSet(positions) /\ size \in Nat
  <2>1. IsFiniteSet(1..Len(lines))
    BY <1>1, FS_Interval
  <2> QED
    BY <1>1, <2>1, FS_Subset, FS_CardinalityType
<1>3. \A i \in positions : IsFiniteSet(upTo(i)) /\ rank(i) \in 1..size
  <2> SUFFICES ASSUME NEW i \in positions PROVE IsFiniteSet(upTo(i)) /\ rank(i) \in 1..size
    OBVIOUS
  <2>1. upTo(i) \in SUBSET positions /\ i \in upTo(i)
    BY <1>1
  <2>2. IsFiniteSet(upTo(i)) /\ Cardinality(upTo(i)) <= size
    BY <1>2, <2>1, FS_Subset
  <2>3. Cardinality(upTo(i)) \in Nat /\ Cardinality(upTo(i)) # 0
    BY <2>1, <2>2, FS_CardinalityType, FS_EmptySet
  <2> QED
    BY <1>2, <2>2, <2>3
<1>4. ASSUME NEW i \in positions, NEW j \in positions, i < j
      PROVE  rank(i) < rank(j)
  <2>1. upTo(i) \in SUBSET upTo(j) /\ j \in upTo(j) /\ j \notin upTo(i)
    BY <1>1, <1>4
  <2>2. rank(i) <= rank(j) /\ rank(i) # rank(j)
    BY <1>3, <2>1, FS_Subset
  <2>3. rank(i) \in 1..size /\ rank(j) \in 1..size
    BY <1>3
  <2> HIDE DEF rank
  <2> QED
    BY <1>2, <2>2, <2>3
<1>5. ASSUME NEW i \in positions, NEW j \in positions, rank(i) = rank(j)
      PROVE  i = j
  <2>1. rank(i) \in 1..size /\ rank(j) \in 1..size
    BY <1>3
  <2>2. i < j \/ j < i \/ i = j
    BY <1>1
  <2>3. ~ (i < j) /\ ~ (j < i)
    <3> HIDE DEF rank
    <3> QED
      BY <1>2, <1>4, <1>5, <2>1
  <2> QED
    BY <2>2, <2>3
<1>6. \A n \in 1..size : \E i \in positions : rank(i) = n
  <2> DEFINE f == [i \in positions |-> rank(i)]
  <2>1. f \in [positions -> 1..size] /\ \A i \in positions : f[i] = rank(i)
    <3>1. \A i \in positions : rank(i) \in 1..size
      BY <1>3
    <3> HIDE DEF rank
    <3> QED
      BY <3>1
  <2>2. f \in Injection(positions, 1..size)
    <3> HIDE DEF rank, f
    <3> QED
      BY <1>5, <2>1 DEF Injection, IsInjective
  <2>3. IsFiniteSet(1..size) /\ Cardinality(1..size) = size
    BY <1>2, FS_Interval
  <2>4. f \in Surjection(positions, 1..size)
    <3> HIDE DEF f
    <3> QED
      BY <2>2, <2>3, FS_Injection
  <2> QED
    <3> HIDE DEF f, rank
    <3> QED
      BY <2>1, <2>4 DEF Surjection
<1> DEFINE nth == [n \in 1..size |-> CHOOSE i \in positions : rank(i) = n]
<1>7. LinesAt(lines, positions) = [n \in 1..size |-> lines[nth[n]]]
  BY DEF LinesAt
<1>8. \A n \in 1..size : nth[n] \in positions /\ rank(nth[n]) = n
  <2> HIDE DEF rank
  <2> QED
    BY <1>6
<1>9. ASSUME NEW i \in positions PROVE rank(i) \in 1..size /\ nth[rank(i)] = i
  <2>1. rank(i) \in 1..size
    BY <1>3
  <2>2. nth[rank(i)] \in positions /\ rank(nth[rank(i)]) = rank(i)
    <3> HIDE DEF nth, rank
    <3> QED
      BY <1>8, <2>1
  <2> QED
    <3> HIDE DEF nth, rank
    <3> QED
      BY <1>5, <2>1, <2>2
<1>10. nth \in [1..size -> positions]
  <2> HIDE DEF rank
  <2>1. \A n \in 1..size : (CHOOSE i \in positions : rank(i) = n) \in positions
    BY <1>6
  <2> QED
    BY <2>1
<1> HIDE DEF nth, rank
<1>11. LinesAt(lines, positions) \in Seq(AnyLine) /\ DOMAIN LinesAt(lines, positions) = 1..size
  <2>1. \A n \in 1..size : lines[nth[n]] \in AnyLine
    BY <1>10
  <2> QED
    BY <1>2, <1>7, <2>1
<1>12. \A n \in 1..size : LinesAt(lines, positions)[n] = lines[nth[n]]
  BY <1>7
<1>13. \A m, n \in 1..size : nth[m] = nth[n] => m = n
  BY <1>8
<1>14. \A i \in positions : \E n \in 1..size : nth[n] = i
  BY <1>9
<1>15. DOMAIN nth = 1..size
  BY <1>10
<1>16. nth \in [DOMAIN LinesAt(lines, positions) -> positions]
  BY <1>10, <1>11
<1>17. Lists(LinesAt(lines, positions), nth, lines, positions)
  BY <1>12, <1>13, <1>14, <1>15, <1>16 DEF Lists
<1> QED
  BY <1>11, <1>17

\* A line of q is on record in lines with this status, or none is, as it may be.
Has(archived, lines, q, status) ==
    \/ status = Unwritten /\ PlacesOf(lines, q) = {}
    \/ /\ status # Unwritten
       /\ \E i \in PlacesOf(lines, q) : PlacesOf(lines, q) = {i} /\ lines[i] = Line(q, status)
    \/ status = "failed" /\ q \in archived /\ PlacesOf(lines, q) = {}

\* A selection that leaves a run's lines in place keeps what is on record of it.
LEMMA KeptByLinesAt ==
    ASSUME NEW lines \in Seq(AnyLine), NEW positions \in SUBSET DOMAIN lines,
           NEW q, NEW status, NEW archived,
           Has(archived, lines, q, status), PlacesOf(lines, q) \subseteq positions
    PROVE  Has(archived, LinesAt(lines, positions), q, status)
<1> DEFINE chosen == LinesAt(lines, positions)
<1>1. PICK nth : Lists(chosen, nth, lines, positions)
  BY LinesListed
<1>2. /\ DOMAIN nth = DOMAIN chosen
      /\ \A n \in DOMAIN nth : chosen[n] = lines[nth[n]] /\ nth[n] \in positions
  BY <1>1 DEF Lists
<1> HIDE DEF chosen
<1>3. \A n \in DOMAIN chosen : n \in PlacesOf(chosen, q) <=> nth[n] \in PlacesOf(lines, q)
  BY <1>2 DEF PlacesOf
<1>4. CASE PlacesOf(lines, q) = {}
  <2>1. PlacesOf(chosen, q) = {}
    BY <1>3, <1>4 DEF PlacesOf
  <2> QED
    BY <1>4, <2>1 DEF Has, chosen
<1>5. CASE PlacesOf(lines, q) # {}
  <2>1. PICK i \in PlacesOf(lines, q) :
            PlacesOf(lines, q) = {i} /\ lines[i] = Line(q, status) /\ status # Unwritten
    BY <1>5 DEF Has
  <2>2. PICK n \in DOMAIN nth : nth[n] = i
    BY <1>1, <2>1 DEF Lists
  <2>3. PlacesOf(chosen, q) = {n}
    BY <1>1, <1>2, <1>3, <2>1, <2>2 DEF PlacesOf, Lists
  <2>4. chosen[n] = Line(q, status)
    BY <1>2, <2>1, <2>2
  <2> QED
    BY <2>1, <2>3, <2>4 DEF Has, chosen
<1> QED
  BY <1>4, <1>5

\* A selection without a run's lines has none of it.
LEMMA NoneByLinesAt ==
    ASSUME NEW lines \in Seq(AnyLine), NEW positions \in SUBSET DOMAIN lines, NEW q,
           PlacesOf(lines, q) \cap positions = {}
    PROVE  PlacesOf(LinesAt(lines, positions), q) = {}
<1>1. PICK nth : Lists(LinesAt(lines, positions), nth, lines, positions)
  BY LinesListed
<1> QED
  BY <1>1 DEF PlacesOf, Lists

\* What is on record of the other runs stays when a line is appended.
LEMMA KeptByAppend ==
    ASSUME NEW lines \in Seq(AnyLine), NEW r \in Runs, NEW status \in Statuses, NEW q \in Runs,
           NEW former, NEW archived,
           IF q = r THEN PlacesOf(lines, r) = {} ELSE Has(archived, lines, q, former)
    PROVE  Has(archived, Append(lines, Line(r, status)), q, IF q = r THEN status ELSE former)
<1> DEFINE longer == Append(lines, Line(r, status))
<1>1. Line(r, status) \in AnyLine /\ Line(r, status).run = r
  BY DEF Line, AnyLine
<1>2. /\ Len(lines) \in Nat /\ DOMAIN lines = 1..Len(lines)
      /\ DOMAIN longer = 1..Len(lines) + 1
      /\ longer[Len(lines) + 1] = Line(r, status)
      /\ \A i \in DOMAIN lines : longer[i] = lines[i]
  BY <1>1
<1> HIDE DEF longer
<1>3. CASE q = r
  <2>1. PlacesOf(longer, q) = {Len(lines) + 1}
    BY <1>1, <1>2, <1>3 DEF PlacesOf
  <2>2. status # Unwritten
    BY DEF Statuses, Ended, Unwritten
  <2> QED
    BY <1>2, <1>3, <2>1, <2>2 DEF Has, longer
<1>4. CASE q # r
  <2>1. PlacesOf(longer, q) = PlacesOf(lines, q)
    BY <1>1, <1>2, <1>4 DEF PlacesOf
  <2>2. \A i \in PlacesOf(lines, q) : longer[i] = lines[i]
    BY <1>2 DEF PlacesOf
  <2> QED
    BY <1>4, <2>1, <2>2 DEF Has, longer
<1> QED
  BY <1>3, <1>4

\* The lines of a rewriting: the other runs' as they were, and its own.
LEMMA LinesOfRewriting ==
    ASSUME NEW r \in Runs, NEW status \in Statuses, file \in Seq(AnyLine)
    PROVE  /\ Lines(r, status) \in Seq(AnyLine)
           /\ \A q \in Runs : \A former, archived :
                 Has(archived, file, q, former) =>
                     Has(archived, Lines(r, status), q, IF q = r THEN status ELSE former)
<1> DEFINE others == {i \in DOMAIN file : file[i].run # r}
<1>1. others \in SUBSET DOMAIN file /\ WithoutRun(file, r) = LinesAt(file, others)
  BY DEF WithoutRun
<1>2. WithoutRun(file, r) \in Seq(AnyLine)
  BY <1>1, LinesListed
<1>3. Lines(r, status) \in Seq(AnyLine)
  BY <1>2 DEF Lines, Line, AnyLine
<1>4. PlacesOf(WithoutRun(file, r), r) = {}
  BY <1>1, NoneByLinesAt DEF PlacesOf
<1>5. ASSUME NEW q \in Runs, NEW former, NEW archived, Has(archived, file, q, former), q # r
      PROVE  Has(archived, WithoutRun(file, r), q, former)
  <2>1. PlacesOf(file, q) \subseteq others
    BY <1>5 DEF PlacesOf
  <2> QED
    BY <1>1, <1>5, <2>1, KeptByLinesAt
<1> QED
  <2> SUFFICES ASSUME NEW q \in Runs, NEW former, NEW archived, Has(archived, file, q, former)
               PROVE  Has(archived, Lines(r, status), q, IF q = r THEN status ELSE former)
    BY <1>3
  <2>1. IF q = r THEN PlacesOf(WithoutRun(file, r), r) = {}
        ELSE Has(archived, WithoutRun(file, r), q, former)
    BY <1>4, <1>5
  <2> QED
    BY <1>2, <2>1, KeptByAppend DEF Lines

----------------------------------------------------------------------------
(* The inductive invariant.                                                 *)

StoreTypes ==
    /\ StoreTypeOK
    /\ rescue \in [step : RescueSteps \cup {"idle"}, kept : Seq(AnyLine), failed : SUBSET Runs]

\* All records up to the n-th are applied.
Applied(records, n) == \A i \in DOMAIN records : i <= n => records[i] = "applied"

\* Unless a rescue died between its record and its last step, every file that was put
\* in place has a record; the rescue under way has made its own, or will.
Records ==
    /\ rescue.step \in {"idle", "check", "archive", "prepare"} =>
           (Applied(evidence, Len(evidence)) => replaced = Len(evidence))
    /\ rescue.step \in {"replace", "apply"} =>
          /\ Len(evidence) > 0 /\ evidence[Len(evidence)] = "prepared"
          /\ Applied(evidence, Len(evidence) - 1) =>
                 Len(evidence) = IF rescue.step = "replace" THEN replaced + 1 ELSE replaced
    /\ rescue.step \in {"check", "archive", "prepare"} => Len(evidence) < rescues
    /\ rescue.step \in {"check", "archive", "prepare", "replace"} => replaced < rescues

\* As long as nobody writes on what another has read, one writer at most is at the file.
Alone == ~overlapped /\ ~erased
OneWriter ==
    /\ \A q, r \in Rewriting : q = r
    /\ Rewriting # {} => ~Rescuing
    /\ \A r \in Runs : op[r].step # "unlinked"
    /\ \A r \in Runs : op[r].step = "fill" => file = <<>>

\* The file has every run with its last status, and so will a rewriting have it.
WhatIsKept ==
    /\ (\A r \in Runs : op[r].step # "fill") => \A q \in Runs : Has(archive, file, q, told[q])
    /\ \A r \in Rewriting : \A q \in Runs :
          Has(archive, op[r].lines, q, IF q = r THEN op[r].status ELSE told[q])

\* A rescue has in hand what the file still holds.
Kept(lines) == LinesAt(lines, {i \in Parsed(lines) : lines[i].status # "failed"})
WhatIsRescued ==
    Rescuing =>
       /\ rescue.kept = Kept(file)
       /\ rescue.failed = RunsOf(file, {"failed"})
       /\ rescue.step \in {"prepare", "replace"} => rescue.failed \subseteq archive

StoreInv ==
    /\ StoreTypes
    /\ Records
    /\ Alone => OneWriter /\ WhatIsKept /\ WhatIsRescued

----------------------------------------------------------------------------

LEMMA RunsOfTyped ==
    ASSUME NEW lines \in Seq(AnyLine)
    PROVE  RunsOf(lines, {"failed"}) \subseteq Runs
  BY DEF RunsOf, AnyLine, Debris, ToSet

LEMMA KeptTyped ==
    ASSUME NEW lines \in Seq(AnyLine)
    PROVE  Kept(lines) \in Seq(AnyLine)
  BY LinesListed DEF Kept, Parsed

LEMMA RemaindersTyped ==
    ASSUME NEW lines \in Seq(AnyLine), NEW rest \in Remainders(lines)
    PROVE  rest \in Seq(AnyLine) /\ (lines = <<>> => rest = <<>>)
<1>1. \A k \in 2..Len(lines) + 1 :
          /\ SubSeq(lines, k, Len(lines)) \in Seq(AnyLine)
          /\ <<Debris>> \o SubSeq(lines, k, Len(lines)) \in Seq(AnyLine)
  <2> SUFFICES ASSUME NEW k \in 2..Len(lines) + 1
               PROVE  /\ SubSeq(lines, k, Len(lines)) \in Seq(AnyLine)
                      /\ <<Debris>> \o SubSeq(lines, k, Len(lines)) \in Seq(AnyLine)
    OBVIOUS
  <2>1. \A i \in k..Len(lines) : lines[i] \in AnyLine
    OBVIOUS
  <2>2. SubSeq(lines, k, Len(lines)) \in Seq(AnyLine)
    BY <2>1
  <2>3. <<Debris>> \in Seq(AnyLine)
    BY DEF AnyLine
  <2> QED
    BY <2>2, <2>3
<1>2. rest = <<>> \/ \E k \in 2..Len(lines) + 1 :
          rest \in {SubSeq(lines, k, Len(lines)), <<Debris>> \o SubSeq(lines, k, Len(lines))}
  BY DEF Remainders
<1>3. CASE rest = <<>>
  BY <1>3
<1>4. ASSUME NEW k \in 2..Len(lines) + 1,
             rest \in {SubSeq(lines, k, Len(lines)), <<Debris>> \o SubSeq(lines, k, Len(lines))}
      PROVE  rest \in Seq(AnyLine) /\ lines # <<>>
  <2>1. Len(lines) # 0
    BY <1>4
  <2>2. lines # <<>>
    BY <2>1
  <2>3. CASE rest = SubSeq(lines, k, Len(lines))
    BY <1>1, <2>2, <2>3
  <2>4. CASE rest = <<Debris>> \o SubSeq(lines, k, Len(lines))
    BY <1>1, <2>2, <2>4
  <2> QED
    BY <1>4, <2>3, <2>4
<1> QED
  BY <1>2, <1>3, <1>4

LEMMA StoreInitially == StoreInit => StoreInv
<1> SUFFICES ASSUME StoreInit PROVE StoreInv
  OBVIOUS
<1>1. StoreTypes
  <2>1. <<>> \in Seq(AnyLine)
    OBVIOUS
  <2>2. op \in [Runs -> [step : Steps, status : Statuses \cup {Unwritten}, lines : Seq(AnyLine)]]
    BY <2>1 DEF StoreInit, Steps, Idle
  <2>3. rescue \in [step : RescueSteps \cup {"idle"}, kept : Seq(AnyLine), failed : SUBSET Runs]
    BY <2>1 DEF StoreInit, NoRescue
  <2>4. evidence \in Seq({"prepared", "applied"}) /\ Len(evidence) = 0 /\ file \in Seq(AnyLine)
    BY DEF StoreInit
  <2>5. /\ told \in [Runs -> Statuses \cup {Unwritten}]
        /\ retries \in 0..MaxRetries /\ gone \subseteq Runs /\ archive \subseteq Runs
        /\ rescues \in 0..MaxRescues /\ replaced \in 0..rescues /\ crashes \in 0..MaxCrashes
        /\ rescues = 0
    BY RunStoreAssumption DEF StoreInit
  <2>6. {overlapped, erased} \subseteq BOOLEAN
    BY Zenon DEF StoreInit
  <2> QED
    BY <2>2, <2>3, <2>4, <2>5, <2>6 DEF StoreTypes, StoreTypeOK, AnyLine
<1>2. Records
  BY DEF StoreInit, Records, NoRescue, Applied, RescueSteps
<1>3. OneWriter /\ WhatIsKept /\ WhatIsRescued
  BY DEF StoreInit, OneWriter, WhatIsKept, WhatIsRescued, Rewriting, Rescuing, Idle, NoRescue,
     RescueSteps, Has, PlacesOf
<1> QED
  BY <1>1, <1>2, <1>3 DEF StoreInv

\* The steps of the runs and of the gateway, which leave the rescue alone.
GatewayStep ==
    \/ \E r \in Runs :
          \/ Rewrite(r) \/ Abandon(r)
          \/ \E status \in Statuses : Read(r, status)
          \/ \E status \in {"completed", "failed"} : AppendRun(r, status)
    \/ GatewayCrash

LEMMA GatewayStepMoves ==
    ASSUME GatewayStep
    PROVE  UNCHANGED rescueVars
  BY DEF GatewayStep, Rewrite, Truncate, Fill, FillUnlinked, Abandon, Read, AppendRun,
         GatewayCrash

LEMMA EvidenceStep ==
    ASSUME StoreInv, [StoreNext]_storeVars
    PROVE  Records' /\ Len(evidence') <= rescues' /\ evidence' \in Seq({"prepared", "applied"})
           /\ rescues' \in 0..MaxRescues /\ replaced' \in 0..rescues'
<1>0. /\ Records
      /\ evidence \in Seq({"prepared", "applied"}) /\ Len(evidence) <= rescues
      /\ rescues \in 0..MaxRescues /\ replaced \in 0..rescues /\ MaxRescues \in Nat
      /\ rescue \in [step : RescueSteps \cup {"idle"}, kept : Seq(AnyLine), failed : SUBSET Runs]
  BY RunStoreAssumption DEF StoreInv, StoreTypes, StoreTypeOK
<1>1. CASE RescueRead
  <2>1. /\ rescue.step = "idle" /\ rescues < MaxRescues
        /\ rescues' = rescues + 1
        /\ rescue'.step = "check"
        /\ UNCHANGED <<evidence, replaced>>
    BY <1>1 DEF RescueRead
  <2>2. /\ Len(evidence') <= rescues' /\ evidence' \in Seq({"prepared", "applied"})
        /\ rescues' \in 0..MaxRescues /\ replaced' \in 0..rescues'
        /\ Len(evidence') < rescues' /\ replaced' < rescues'
    BY <1>0, <2>1
  <2>3. Records'
    BY <1>0, <2>1, <2>2 DEF Records, RescueSteps
  <2> QED
    BY <2>2, <2>3
<1>2. CASE RescueCheck
  BY <1>0, <1>2 DEF RescueCheck, RescueGo, NoRescue, Records, RescueSteps
<1>3. CASE RescueArchive
  BY <1>0, <1>3 DEF RescueArchive, RescueGo, Records, RescueSteps
<1>4. CASE RescuePrepare
  <2>1. /\ evidence' = Append(evidence, "prepared")
        /\ rescue.step = "prepare" /\ rescue'.step = "replace"
        /\ UNCHANGED <<rescues, replaced>>
    BY <1>0, <1>4 DEF RescuePrepare, RescueGo
  <2>2. /\ evidence' \in Seq({"prepared", "applied"})
        /\ Len(evidence') = Len(evidence) + 1
        /\ evidence'[Len(evidence')] = "prepared"
        /\ \A i \in 1..Len(evidence) : evidence'[i] = evidence[i]
    BY <1>0, <2>1
  <2>3. Applied(evidence', Len(evidence') - 1) => Applied(evidence, Len(evidence))
    BY <1>0, <2>2 DEF Applied
  <2> QED
    BY <1>0, <2>1, <2>2, <2>3 DEF Records, RescueSteps
<1>5. CASE RescueReplace
  BY <1>0, <1>5 DEF RescueReplace, RescueGo, Records, RescueSteps
<1>6. CASE RescueApply
  <2>1. /\ evidence' = [evidence EXCEPT ![Len(evidence)] = "applied"]
        /\ rescue.step = "apply" /\ rescue'.step = "idle"
        /\ UNCHANGED <<rescues, replaced>>
    BY <1>0, <1>6 DEF RescueApply, NoRescue
  <2>2. /\ evidence' \in Seq({"prepared", "applied"})
        /\ Len(evidence') = Len(evidence)
        /\ \A i \in 1..Len(evidence) - 1 : evidence'[i] = evidence[i]
    BY <1>0, <2>1 DEF Records
  <2>3. Applied(evidence', Len(evidence')) => Applied(evidence, Len(evidence) - 1)
    <3>1. /\ Len(evidence) \in Nat /\ DOMAIN evidence = 1..Len(evidence)
          /\ DOMAIN evidence' = 1..Len(evidence)
      BY <1>0, <2>2
    <3> QED
      BY <2>2, <3>1 DEF Applied
  <2> QED
    BY <1>0, <2>1, <2>2, <2>3 DEF Records, RescueSteps
<1>7. CASE RescueCrash
  <2>1. /\ rescue'.step = "idle" /\ rescue.step # "idle"
        /\ UNCHANGED <<evidence, rescues, replaced>>
    BY <1>7 DEF RescueCrash, NoRescue
  <2>2. rescue.step \in {"replace", "apply"} => ~ Applied(evidence, Len(evidence))
    BY <1>0 DEF Records, Applied
  <2> QED
    BY <1>0, <2>1, <2>2 DEF Records, RescueSteps
<1>8. CASE GatewayStep \/ UNCHANGED storeVars
  <2>1. UNCHANGED rescueVars
    BY <1>8, GatewayStepMoves DEF storeVars
  <2> QED
    BY <1>0, <2>1 DEF Records, rescueVars
<1> QED
  BY <1>1, <1>2, <1>3, <1>4, <1>5, <1>6, <1>7, <1>8 DEF StoreNext, GatewayStep

OpType == [step : Steps, status : Statuses \cup {Unwritten}, lines : Seq(AnyLine)]
RescueType == [step : RescueSteps \cup {"idle"}, kept : Seq(AnyLine), failed : SUBSET Runs]

LEMMA StoreTypesStep ==
    ASSUME StoreInv, [StoreNext]_storeVars
    PROVE  StoreTypes'
<1>0. /\ file \in Seq(AnyLine) /\ op \in [Runs -> OpType] /\ rescue \in RescueType
      /\ told \in [Runs -> Statuses \cup {Unwritten}]
      /\ retries \in 0..MaxRetries /\ gone \subseteq Runs /\ archive \subseteq Runs
      /\ crashes \in 0..MaxCrashes
      /\ MaxRetries \in Nat /\ MaxCrashes \in Nat
  BY RunStoreAssumption DEF StoreInv, StoreTypes, StoreTypeOK, AnyLine, OpType, RescueType
<1>1. /\ Len(evidence') <= rescues' /\ evidence' \in Seq({"prepared", "applied"})
      /\ rescues' \in 0..MaxRescues /\ replaced' \in 0..rescues'
  BY EvidenceStep
<1>2. file' \in Seq(AnyLine)
  <2>1. ASSUME NEW r \in Runs, Fill(r) PROVE file' \in Seq(AnyLine)
    <3>1. PICK rest \in Remainders(file) : file' = op[r].lines \o rest
      BY <2>1 DEF Fill
    <3>2. rest \in Seq(AnyLine) /\ op[r].lines \in Seq(AnyLine)
      BY <1>0, RemaindersTyped DEF OpType
    <3> QED
      BY <3>1, <3>2
  <2>2. ASSUME NEW r \in Runs, NEW status \in {"completed", "failed"}, AppendRun(r, status)
        PROVE  file' \in Seq(AnyLine)
    <3>1. Line(r, status) \in AnyLine
      BY DEF Line, AnyLine, Statuses, Ended
    <3> QED
      BY <1>0, <2>2, <3>1 DEF AppendRun
  <2>3. ASSUME NEW r \in Runs, Truncate(r) PROVE file' \in Seq(AnyLine)
    BY <2>3 DEF Truncate
  <2>4. CASE RescueReplace
    BY <1>0, <2>4 DEF RescueReplace, RescueType
  <2>5. CASE UNCHANGED file
    BY <1>0, <2>5
  <2>6. \/ UNCHANGED file
        \/ RescueReplace
        \/ \E r \in Runs : \/ Fill(r) \/ Truncate(r)
                           \/ \E status \in {"completed", "failed"} : AppendRun(r, status)
    BY DEF StoreNext, Rewrite, FillUnlinked, Abandon, Read, RescueRead, RescueCheck,
           RescueArchive, RescuePrepare, RescueApply, GatewayCrash, RescueCrash, storeVars
  <2> QED
    BY <2>1, <2>2, <2>3, <2>4, <2>5, <2>6
<1>3. op' \in [Runs -> OpType]
  <2>0. Idle \in OpType
    <3>1. <<>> \in Seq(AnyLine)
      OBVIOUS
    <3> QED
      BY <3>1 DEF Idle, OpType, Steps
  <2>1. ASSUME NEW r \in Runs, NEW status \in Statuses, Read(r, status)
        PROVE  op' \in [Runs -> OpType]
    <3>1. Lines(r, status) \in Seq(AnyLine)
      BY <1>0, LinesOfRewriting
    <3>2. [step |-> "truncate", status |-> status, lines |-> Lines(r, status)] \in OpType
      BY <3>1 DEF OpType, Steps
    <3> QED
      BY <1>0, <2>1, <3>2 DEF Read
  <2>2. ASSUME NEW r \in Runs, Truncate(r) PROVE op' \in [Runs -> OpType]
    <3>1. [op[r] EXCEPT !.step = "fill"] \in OpType
      BY <1>0 DEF OpType, Steps
    <3>2. op' = [op EXCEPT ![r] = [op[r] EXCEPT !.step = "fill"]]
      BY <2>2 DEF Truncate
    <3> QED
      BY <1>0, <3>1, <3>2
  <2>3. ASSUME NEW r \in Runs, Fill(r) \/ FillUnlinked(r) PROVE op' \in [Runs -> OpType]
    BY <1>0, <2>0, <2>3 DEF Fill, FillUnlinked
  <2>4. CASE RescueReplace
    <3>1. \A r \in Runs : op[r] \in OpType /\ [op[r] EXCEPT !.step = "unlinked"] \in OpType
      BY <1>0 DEF OpType, Steps
    <3> QED
      BY <2>4, <3>1 DEF RescueReplace
  <2>5. CASE GatewayCrash
    BY <2>0, <2>5 DEF GatewayCrash
  <2>6. CASE UNCHANGED op
    BY <1>0, <2>6
  <2>7. \/ UNCHANGED op
        \/ RescueReplace \/ GatewayCrash
        \/ \E r \in Runs : \/ Fill(r) \/ FillUnlinked(r) \/ Truncate(r)
                           \/ \E status \in Statuses : Read(r, status)
    BY DEF StoreNext, Rewrite, Abandon, AppendRun, RescueRead, RescueCheck, RescueArchive,
           RescuePrepare, RescueApply, RescueCrash, gatewayVars, storeVars
  <2> QED
    BY <2>1, <2>2, <2>3, <2>4, <2>5, <2>6, <2>7
<1>4. rescue' \in RescueType /\ archive' \subseteq Runs
  <2>0. NoRescue \in RescueType
    <3>1. <<>> \in Seq(AnyLine)
      OBVIOUS
    <3> QED
      BY <3>1 DEF NoRescue, RescueType
  <2>1. CASE RescueRead
    <3>1. Kept(file) \in Seq(AnyLine) /\ RunsOf(file, {"failed"}) \subseteq Runs
      BY <1>0, KeptTyped, RunsOfTyped
    <3>2. rescue' = [step |-> "check", kept |-> Kept(file), failed |-> RunsOf(file, {"failed"})]
      BY <2>1 DEF RescueRead, Kept
    <3> QED
      BY <1>0, <2>1, <3>1, <3>2 DEF RescueRead, RescueType, RescueSteps
  <2>2. CASE RescueCheck \/ RescueArchive \/ RescuePrepare \/ RescueReplace
    <3>1. \/ rescue' = NoRescue
          \/ \E step \in RescueSteps : rescue' = [rescue EXCEPT !.step = step]
      BY <2>2 DEF RescueCheck, RescueArchive, RescuePrepare, RescueReplace, RescueGo, RescueSteps
    <3>2. archive' \subseteq Runs
      BY <1>0, <2>2 DEF RescueCheck, RescueArchive, RescuePrepare, RescueReplace, RescueType
    <3> QED
      BY <1>0, <2>0, <3>1, <3>2 DEF RescueType
  <2>3. CASE RescueApply \/ RescueCrash
    BY <1>0, <2>0, <2>3 DEF RescueApply, RescueCrash
  <2>4. CASE GatewayStep \/ UNCHANGED storeVars
    BY <1>0, <2>4, GatewayStepMoves DEF rescueVars, storeVars
  <2> QED
    BY <2>1, <2>2, <2>3, <2>4 DEF StoreNext, GatewayStep
<1>5. told' \in [Runs -> Statuses \cup {Unwritten}]
  <2>1. \/ UNCHANGED told
        \/ \E r \in Runs : \/ Fill(r) \/ FillUnlinked(r)
                           \/ \E status \in {"completed", "failed"} : AppendRun(r, status)
    BY DEF StoreNext, Rewrite, Truncate, Abandon, Read, RescueRead, RescueCheck, RescueArchive,
           RescuePrepare, RescueReplace, RescueApply, GatewayCrash, RescueCrash, gatewayVars,
           storeVars
  <2>2. \A r \in Runs : op[r].status \in Statuses \cup {Unwritten}
    BY <1>0 DEF OpType
  <2>3. \A r \in Runs : Fill(r) \/ FillUnlinked(r) => told' = [told EXCEPT ![r] = op[r].status]
    BY DEF Fill, FillUnlinked, Told
  <2>4. \A r \in Runs : \A status \in {"completed", "failed"} :
            AppendRun(r, status) => told' = [told EXCEPT ![r] = status] /\ status \in Statuses
    BY DEF AppendRun, Statuses, Ended
  <2> QED
    BY <1>0, <2>1, <2>2, <2>3, <2>4
<1>6. retries' \in 0..MaxRetries
  <2>1. ASSUME NEW r \in Runs, NEW status \in Statuses, Read(r, status)
        PROVE  retries' \in 0..MaxRetries
    <3>1. told[r] = "failed" => retries < MaxRetries
      BY <2>1 DEF Read, Successors, Unwritten
    <3> QED
      BY <1>0, <2>1, <3>1 DEF Read
  <2>2. \/ UNCHANGED retries
        \/ \E r \in Runs, status \in Statuses : Read(r, status)
    BY DEF StoreNext, Rewrite, Truncate, Fill, FillUnlinked, Abandon, AppendRun, RescueRead,
           RescueCheck, RescueArchive, RescuePrepare, RescueReplace, RescueApply, GatewayCrash,
           RescueCrash, gatewayVars, storeVars
  <2> QED
    BY <1>0, <2>1, <2>2
<1>7. gone' \subseteq Runs
  <2>1. \/ UNCHANGED gone
        \/ \E r \in Runs : gone' = gone \cup {r}
        \/ gone' = gone \cup {r \in Runs : told[r] # Unwritten \/ op[r].step # "idle"}
    BY DEF StoreNext, Rewrite, Truncate, Fill, FillUnlinked, Abandon, Read, AppendRun, RescueRead,
           RescueCheck, RescueArchive, RescuePrepare, RescueReplace, RescueApply, GatewayCrash,
           RescueCrash, gatewayVars, storeVars
  <2> QED
    BY <1>0, <2>1
<1>8. crashes' \in 0..MaxCrashes
  <2>1. \/ UNCHANGED crashes
        \/ crashes < MaxCrashes /\ crashes' = crashes + 1
    BY DEF StoreNext, Rewrite, Truncate, Fill, FillUnlinked, Abandon, Read, AppendRun, RescueRead,
           RescueCheck, RescueArchive, RescuePrepare, RescueReplace, RescueApply, GatewayCrash,
           RescueCrash, faultVars, storeVars
  <2> QED
    BY <1>0, <2>1
<1>9. {overlapped', erased'} \subseteq BOOLEAN
  <2>0. overlapped \in BOOLEAN /\ erased \in BOOLEAN
    BY DEF StoreInv, StoreTypes, StoreTypeOK
  <2>1. overlapped' \in BOOLEAN
    <3>1. overlapped' = overlapped \/ overlapped' \in BOOLEAN
      BY Zenon DEF StoreNext, Rewrite, Truncate, Fill, FillUnlinked, Abandon, Read, AppendRun,
             RescueRead, RescueCheck, RescueArchive, RescuePrepare, RescueReplace, RescueApply,
             GatewayCrash, RescueCrash, storeVars
    <3> QED
      BY <2>0, <3>1
  <2>2. erased' \in BOOLEAN
    <3>1. erased' = erased \/ erased' \in BOOLEAN
      BY Zenon DEF StoreNext, Rewrite, Truncate, Fill, FillUnlinked, Abandon, Read, AppendRun,
             RescueRead, RescueCheck, RescueArchive, RescuePrepare, RescueReplace, RescueApply,
             GatewayCrash, RescueCrash, faultVars, storeVars
    <3> QED
      BY <2>0, <3>1
  <2> QED
    BY <2>1, <2>2
<1> QED
  <2>1. /\ rescue'.kept \in Seq(AnyLine) /\ rescue'.failed \subseteq Runs
        /\ rescue'.step \in RescueSteps \cup {"idle"}
    BY <1>4 DEF RescueType
  <2> QED
    BY <1>1, <1>2, <1>3, <1>4, <1>5, <1>6, <1>7, <1>8, <1>9, <2>1
    DEF StoreTypes, StoreTypeOK, OpType, RescueType, AnyLine

----------------------------------------------------------------------------
(* Alone at the file.                                                       *)

\* The archive only grows, and with it what counts as on record.
LEMMA HasGrows ==
    ASSUME NEW archived, NEW larger, archived \subseteq larger,
           NEW lines, NEW q, NEW status, Has(archived, lines, q, status)
    PROVE  Has(larger, lines, q, status)
  BY DEF Has

\* A rescue whose failed runs are in the archive takes no run off the record.
LEMMA RescueKeeps ==
    ASSUME NEW lines \in Seq(AnyLine), NEW q \in Runs,
           NEW status \in Statuses \cup {Unwritten}, NEW archived,
           Has(archived, lines, q, status), RunsOf(lines, {"failed"}) \subseteq archived
    PROVE  Has(archived, Kept(lines), q, status)
<1> DEFINE positions == {i \in Parsed(lines) : lines[i].status # "failed"}
<1>0. positions \in SUBSET DOMAIN lines /\ Kept(lines) = LinesAt(lines, positions)
  BY DEF Parsed, Kept
<1>1. CASE PlacesOf(lines, q) = {}
  BY <1>0, <1>1, KeptByLinesAt
<1>2. ASSUME NEW i \in PlacesOf(lines, q), PlacesOf(lines, q) = {i}, lines[i] = Line(q, status)
      PROVE  Has(archived, Kept(lines), q, status)
  <2>1. i \in DOMAIN lines /\ lines[i].run = q /\ lines[i].status = status
    BY <1>2 DEF PlacesOf, Line
  <2>2. CASE status = "failed"
    <3>1. q \in archived
      BY <2>1, <2>2 DEF RunsOf, ToSet
    <3>2. PlacesOf(lines, q) \cap positions = {}
      BY <1>2, <2>1, <2>2
    <3>3. PlacesOf(Kept(lines), q) = {}
      BY <1>0, <3>2, NoneByLinesAt
    <3> QED
      BY <2>2, <3>1, <3>3 DEF Has
  <2>3. CASE status # "failed"
    <3>1. lines[i] # Debris
      BY <2>1 DEF Debris, Statuses, Ended, Unwritten
    <3>2. PlacesOf(lines, q) \subseteq positions
      BY <1>2, <2>1, <2>3, <3>1 DEF Parsed
    <3> QED
      BY <1>0, <3>2, KeptByLinesAt
  <2> QED
    BY <2>2, <2>3
<1> QED
  BY <1>1, <1>2 DEF Has

LEMMA AloneBefore ==
    ASSUME [StoreNext]_storeVars, Alone'
    PROVE  Alone
<1>1. overlapped => overlapped'
  BY Zenon DEF StoreNext, Rewrite, Truncate, Fill, FillUnlinked, Abandon, Read, AppendRun,
     RescueRead, RescueCheck, RescueArchive, RescuePrepare, RescueReplace, RescueApply,
     GatewayCrash, RescueCrash, storeVars
<1>2. erased => erased'
  BY Zenon DEF StoreNext, Rewrite, Truncate, Fill, FillUnlinked, Abandon, Read, AppendRun,
     RescueRead, RescueCheck, RescueArchive, RescuePrepare, RescueReplace, RescueApply,
     GatewayCrash, RescueCrash, faultVars, storeVars
<1> QED
  BY <1>1, <1>2 DEF Alone

LEMMA AloneStep ==
    ASSUME StoreInv, [StoreNext]_storeVars, Alone'
    PROVE  OneWriter' /\ WhatIsKept' /\ WhatIsRescued'
<1>0. /\ Alone /\ OneWriter /\ WhatIsKept /\ WhatIsRescued
      /\ file \in Seq(AnyLine) /\ op \in [Runs -> OpType] /\ rescue \in RescueType
      /\ told \in [Runs -> Statuses \cup {Unwritten}]
  BY AloneBefore DEF StoreInv, StoreTypes, StoreTypeOK, AnyLine, OpType, RescueType
<1>1. ASSUME NEW r \in Runs, NEW status \in Statuses, Read(r, status)
      PROVE  OneWriter' /\ WhatIsKept' /\ WhatIsRescued'
  <2>1. /\ Rewriting = {} /\ ~ Rescuing
        /\ op' = [op EXCEPT ![r] = [step |-> "truncate", status |-> status,
                                    lines |-> Lines(r, status)]]
        /\ UNCHANGED <<file, told, rescue, archive>>
    BY <1>1 DEF Read, Alone, rescueVars
  <2>2. \A q \in Runs : op[q].step \notin {"truncate", "fill", "unlinked"}
    BY <1>0, <2>1 DEF Rewriting, OneWriter
  <2>3. \A q \in Runs : /\ q # r => op'[q] = op[q]
                        /\ op'[r].step = "truncate" /\ op'[r].status = status
                        /\ op'[r].lines = Lines(r, status)
    BY <1>0, <2>1
  <2>4. OneWriter' /\ WhatIsRescued'
    BY <2>1, <2>2, <2>3 DEF OneWriter, WhatIsRescued, Rewriting, Rescuing
  <2>5. \A q \in Runs : Has(archive, file, q, told[q])
    BY <1>0, <2>2 DEF WhatIsKept
  <2>6. \A q \in Runs : Has(archive, Lines(r, status), q, IF q = r THEN status ELSE told[q])
    BY <1>0, <2>5, LinesOfRewriting
  <2>7. WhatIsKept'
    BY <2>1, <2>2, <2>3, <2>5, <2>6 DEF WhatIsKept, Rewriting
  <2> QED
    BY <2>4, <2>7
<1>2. ASSUME NEW r \in Runs, Truncate(r)
      PROVE  OneWriter' /\ WhatIsKept' /\ WhatIsRescued'
  <2>1. /\ r \in Rewriting
        /\ op' = [op EXCEPT ![r] = [op[r] EXCEPT !.step = "fill"]]
        /\ file' = <<>>
        /\ UNCHANGED <<told, rescue, archive>>
    BY <1>2 DEF Truncate, Rewriting, rescueVars
  <2>2. ~ Rescuing /\ \A q \in Runs : q # r => op[q].step \notin {"truncate", "fill", "unlinked"}
    BY <1>0, <2>1 DEF OneWriter, Rewriting
  <2>3. \A q \in Runs : /\ q # r => op'[q] = op[q]
                        /\ op'[r].step = "fill" /\ op'[r].status = op[r].status
                        /\ op'[r].lines = op[r].lines
    BY <1>0, <2>1 DEF OpType
  <2>4. OneWriter' /\ WhatIsRescued'
    BY <2>1, <2>2, <2>3 DEF OneWriter, WhatIsRescued, Rewriting, Rescuing
  <2>5. \A q \in Runs : Has(archive, op[r].lines, q, IF q = r THEN op[r].status ELSE told[q])
    BY <1>0, <2>1 DEF WhatIsKept
  <2>6. WhatIsKept'
    BY <2>1, <2>2, <2>3, <2>5 DEF WhatIsKept, Rewriting
  <2> QED
    BY <2>4, <2>6
<1>3. ASSUME NEW r \in Runs, Fill(r)
      PROVE  OneWriter' /\ WhatIsKept' /\ WhatIsRescued'
  <2>1. /\ r \in Rewriting /\ op[r].step = "fill"
        /\ op' = [op EXCEPT ![r] = Idle]
        /\ told' = [told EXCEPT ![r] = op[r].status]
        /\ UNCHANGED <<rescue, archive>>
    BY <1>3 DEF Fill, Rewriting, Told, rescueVars
  <2>2. ~ Rescuing /\ \A q \in Runs : q # r => op[q].step \notin {"truncate", "fill", "unlinked"}
    BY <1>0, <2>1 DEF OneWriter, Rewriting
  <2>3. file' = op[r].lines
    <3>1. PICK rest \in Remainders(file) : file' = op[r].lines \o rest
      BY <1>3 DEF Fill
    <3>2. file = <<>>
      BY <1>0, <2>1 DEF OneWriter
    <3>3. rest = <<>>
      BY <1>0, <3>2, RemaindersTyped
    <3> QED
      BY <1>0, <3>1, <3>3 DEF OpType
  <2>4. \A q \in Runs : /\ op'[q].step \notin {"truncate", "fill", "unlinked"}
                        /\ told'[q] = IF q = r THEN op[r].status ELSE told[q]
    BY <1>0, <2>1, <2>2 DEF Idle
  <2>5. OneWriter' /\ WhatIsRescued'
    BY <2>1, <2>2, <2>4 DEF OneWriter, WhatIsRescued, Rewriting, Rescuing
  <2>6. \A q \in Runs : Has(archive, op[r].lines, q, IF q = r THEN op[r].status ELSE told[q])
    BY <1>0, <2>1 DEF WhatIsKept
  <2>7. WhatIsKept'
    BY <2>1, <2>3, <2>4, <2>6 DEF WhatIsKept, Rewriting
  <2> QED
    BY <2>5, <2>7
<1>4. ASSUME NEW r \in Runs, FillUnlinked(r) PROVE FALSE
  BY <1>0, <1>4 DEF FillUnlinked, OneWriter
<1>5. ASSUME NEW r \in Runs, NEW status \in {"completed", "failed"}, AppendRun(r, status)
      PROVE  OneWriter' /\ WhatIsKept' /\ WhatIsRescued'
  <2>1. /\ Rewriting = {} /\ ~ Rescuing
        /\ told[r] = Unwritten
        /\ file' = Append(file, Line(r, status))
        /\ told' = [told EXCEPT ![r] = status]
        /\ UNCHANGED <<op, rescue, archive>>
    BY <1>5 DEF AppendRun, Alone, rescueVars
  <2>2. \A q \in Runs : op[q].step \notin {"truncate", "fill", "unlinked"}
    BY <1>0, <2>1 DEF Rewriting, OneWriter
  <2>3. OneWriter' /\ WhatIsRescued'
    BY <2>1, <2>2 DEF OneWriter, WhatIsRescued, Rewriting, Rescuing
  <2>4. \A q \in Runs : Has(archive, file, q, told[q])
    BY <1>0, <2>2 DEF WhatIsKept
  <2>5. PlacesOf(file, r) = {}
    BY <2>1, <2>4 DEF Has, Unwritten
  <2>6. status \in Statuses
    BY DEF Statuses, Ended
  <2>7. \A q \in Runs : Has(archive, file', q, IF q = r THEN status ELSE told[q])
    BY <1>0, <2>1, <2>4, <2>5, <2>6, KeptByAppend
  <2>8. \A q \in Runs : told'[q] = IF q = r THEN status ELSE told[q]
    BY <1>0, <2>1
  <2>9. WhatIsKept'
    BY <2>1, <2>2, <2>7, <2>8 DEF WhatIsKept, Rewriting
  <2> QED
    BY <2>3, <2>9
<1>6. CASE RescueRead
  <2>1. /\ Rewriting = {}
        /\ rescue' = [step |-> "check", kept |-> Kept(file), failed |-> RunsOf(file, {"failed"})]
        /\ UNCHANGED <<op, file, told, archive>>
    BY <1>6 DEF RescueRead, Kept, Alone, gatewayVars
  <2> QED
    BY <1>0, <2>1 DEF OneWriter, WhatIsKept, WhatIsRescued, Rewriting, Rescuing
<1>7. CASE RescueCheck \/ RescuePrepare
  <2>1. /\ Rescuing
        /\ \/ rescue' = NoRescue
           \/ rescue.step = "check" /\ rescue' = [rescue EXCEPT !.step = "archive"]
           \/ rescue.step = "prepare" /\ rescue' = [rescue EXCEPT !.step = "replace"]
        /\ UNCHANGED <<op, file, told, archive>>
    BY <1>7 DEF RescueCheck, RescuePrepare, RescueGo, Rescuing, RescueSteps, gatewayVars
  <2>2. Rewriting = {} /\ OneWriter'
    BY <1>0, <2>1 DEF OneWriter, Rewriting
  <2>3. WhatIsKept'
    BY <1>0, <2>1 DEF WhatIsKept, Rewriting
  <2>4. WhatIsRescued'
    BY <1>0, <2>1 DEF WhatIsRescued, Rescuing, RescueType, NoRescue, RescueSteps
  <2> QED
    BY <2>2, <2>3, <2>4
<1>8. CASE RescueArchive
  <2>1. /\ Rescuing
        /\ archive' = archive \cup rescue.failed
        /\ rescue' = [rescue EXCEPT !.step = "prepare"]
        /\ UNCHANGED <<op, file, told>>
    BY <1>8 DEF RescueArchive, RescueGo, Rescuing, RescueSteps, gatewayVars
  <2>2. Rewriting = {} /\ OneWriter'
    BY <1>0, <2>1 DEF OneWriter, Rewriting
  <2>3. WhatIsKept'
    BY <1>0, <2>1, <2>2, HasGrows DEF WhatIsKept, Rewriting
  <2>4. WhatIsRescued'
    BY <1>0, <2>1 DEF WhatIsRescued, Rescuing, RescueType
  <2> QED
    BY <2>2, <2>3, <2>4
<1>9. CASE RescueReplace
  <2>1. /\ Rescuing /\ rescue.step = "replace"
        /\ file' = rescue.kept
        /\ rescue'.step = "apply"
        /\ op' = [r \in Runs |-> IF op[r].step = "fill" THEN [op[r] EXCEPT !.step = "unlinked"]
                                ELSE op[r]]
        /\ UNCHANGED <<told, archive>>
    BY <1>0, <1>9 DEF RescueReplace, RescueGo, Rescuing, RescueSteps, RescueType
  <2>2. \A q \in Runs : op[q].step \notin {"truncate", "fill", "unlinked"}
    BY <1>0, <2>1 DEF OneWriter, Rewriting
  <2>3. \A q \in Runs : op'[q] = op[q]
    BY <2>1, <2>2
  <2>4. OneWriter' /\ WhatIsRescued'
    BY <2>1, <2>2, <2>3 DEF OneWriter, WhatIsRescued, Rewriting, Rescuing
  <2>5. file' = Kept(file) /\ RunsOf(file, {"failed"}) \subseteq archive
    BY <1>0, <2>1 DEF WhatIsRescued
  <2>6. \A q \in Runs : Has(archive, file, q, told[q])
    BY <1>0, <2>2 DEF WhatIsKept
  <2>7. \A q \in Runs : Has(archive, file', q, told[q])
    BY <1>0, <2>5, <2>6, RescueKeeps
  <2>8. WhatIsKept'
    BY <2>1, <2>2, <2>3, <2>7 DEF WhatIsKept, Rewriting
  <2> QED
    BY <2>4, <2>8
<1>10. CASE RescueApply \/ RescueCrash
  <2>1. rescue' = NoRescue /\ UNCHANGED <<op, file, told, archive>>
    BY <1>10 DEF RescueApply, RescueCrash, gatewayVars
  <2> QED
    BY <1>0, <2>1 DEF OneWriter, WhatIsKept, WhatIsRescued, Rewriting, Rescuing, NoRescue,
                      RescueSteps
<1>11. CASE GatewayCrash
  <2>1. /\ \A r \in Runs : op[r].step # "fill"
        /\ op' = [r \in Runs |-> Idle]
        /\ UNCHANGED <<file, told, rescue, archive>>
    BY <1>11 DEF GatewayCrash, Alone, rescueVars
  <2>2. \A r \in Runs : op'[r].step = "idle"
    BY <2>1 DEF Idle
  <2> QED
    BY <1>0, <2>1, <2>2 DEF OneWriter, WhatIsKept, WhatIsRescued, Rewriting, Rescuing
<1>12. CASE UNCHANGED <<op, file, told, rescue, archive>>
  BY <1>0, <1>12 DEF OneWriter, WhatIsKept, WhatIsRescued, Rewriting, Rescuing
<1>13. \A r \in Runs : Abandon(r) => UNCHANGED <<op, file, told, rescue, archive>>
  BY DEF Abandon, rescueVars
<1>14. UNCHANGED storeVars => UNCHANGED <<op, file, told, rescue, archive>>
  BY DEF storeVars, gatewayVars, rescueVars
<1> QED
  BY <1>1, <1>2, <1>3, <1>4, <1>5, <1>6, <1>7, <1>8, <1>9, <1>10, <1>11, <1>12, <1>13, <1>14
  DEF StoreNext, Rewrite

LEMMA StoreInductively == StoreInv /\ [StoreNext]_storeVars => StoreInv'
  BY EvidenceStep, StoreTypesStep, AloneStep DEF StoreInv

\* The invariant behind what follows: what the writer at the file and the rescue have in
\* hand of it, and what each step of a rescue has recorded (runStore.ts, runStoreRescue.ts).
THEOREM StoreInvariance == StoreSpec => []StoreInv
  BY StoreInitially, StoreInductively, PTL DEF StoreSpec

\* Types, and that a rescue makes one record at most and replaces the file once at most.
THEOREM StoreCorrectTypes == StoreSpec => []StoreTypeOK
<1>1. StoreInv => StoreTypeOK
  BY DEF StoreInv, StoreTypes
<1> QED
  BY <1>1, StoreInvariance, PTL

\* What was written of a run is on record, once and with its last status, or in the archive.
THEOREM RunsAreKept == StoreSpec => []KeptWhenAlone
<1>1. ASSUME StoreInv PROVE KeptWhenAlone
  <2> SUFFICES ASSUME Alone, NEW r \in Runs, Due(r) # Unwritten
               PROVE  \/ \E i \in PlacesOf(Content, r) :
                            PlacesOf(Content, r) = {i} /\ Content[i] = Line(r, Due(r))
                      \/ Due(r) = "failed" /\ r \in archive /\ PlacesOf(Content, r) = {}
    BY DEF KeptWhenAlone, Alone
  <2>1. OneWriter /\ WhatIsKept
    BY <1>1 DEF StoreInv
  <2>2. Has(archive, Content, r, Due(r))
    <3>1. CASE \E q \in Runs : op[q].step = "fill"
      <4>1. PICK q \in Runs : op[q].step = "fill" /\ Content = op[q].lines
        BY <3>1 DEF Content
      <4>2. \A p \in Runs : op[p].step = "fill" => p = q
        BY <2>1, <4>1 DEF OneWriter, Rewriting
      <4>3. q \in Rewriting /\ Due(r) = IF r = q THEN op[q].status ELSE told[r]
        BY <4>1, <4>2 DEF Rewriting, Due
      <4> QED
        BY <2>1, <4>1, <4>3 DEF WhatIsKept
    <3>2. CASE ~ \E q \in Runs : op[q].step = "fill"
      BY <2>1, <3>2 DEF WhatIsKept, Content, Due
    <3> QED
      BY <3>1, <3>2
  <2> QED
    BY <2>2 DEF Has
<1> QED
  BY <1>1, StoreInvariance, PTL

\* Evidence that is not rejected accounts for every file that a rescue put in place.
THEOREM EvidenceFailsClosed == StoreSpec => []FailsClosed
<1>1. ASSUME StoreInv, Evidence # "invalid" PROVE Len(evidence) = replaced
  <2>1. /\ Records
        /\ evidence \in Seq({"prepared", "applied"})
        /\ rescue.step \in RescueSteps \cup {"idle"}
    BY <1>1 DEF StoreInv, StoreTypes, StoreTypeOK
  <2>2. \A i \in DOMAIN evidence : evidence[i] # "prepared"
    BY <1>1 DEF Evidence, ToSet
  <2>3. Applied(evidence, Len(evidence))
    BY <2>1, <2>2 DEF Applied
  <2>4. rescue.step \notin {"replace", "apply"}
    BY <2>1, <2>2 DEF Records
  <2> QED
    BY <2>1, <2>3, <2>4 DEF Records, RescueSteps
<1> QED
  BY <1>1, StoreInvariance, PTL DEF FailsClosed
=============================================================================
