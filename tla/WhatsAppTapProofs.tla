------------------------ MODULE WhatsAppTapProofs ------------------------
(***************************************************************************)
(* Theorems about WhatsAppTap, for any processes, messages and bounds: one  *)
(* tap at a time, no message run twice, no lock left behind.                *)
(***************************************************************************)
EXTENDS WhatsAppTap, TLAPS

Acquired == {"fill", "open", "down", "drain", "release", "unlink"}

\* The lock file names one process; what the file holds goes with where its
\* process stands.
LockShape ==
    /\ lock = Nobody \/ (lock.state # "absent" /\ \E t \in Taps : lock.by = {t})
    /\ \A t \in lock.by :
          /\ at[t] \in Acquired \cup {"gone"}
          /\ at[t] = "fill" => lock.state = "empty"
          /\ at[t] \in Acquired \ {"fill"} => lock.state = "held"
          /\ at[t] = "gone" => t \in crashed /\ work[t] = "idle"

\* Unless takeovers overlapped, who has acquired the lock still has it, and who
\* is about to remove a lock removes that of a dead one.
Owned ==
    ~raced => \A t \in Taps :
        /\ at[t] \in Acquired => lock.by = {t}
        /\ at[t] = "remove" =>
              lock.state = "held" /\ \A u \in lock.by : ~IsProcessAlive(u)

InHand(t, m) == work[t] \in {"persist", "run"} /\ m \in current[t]
Written(t, m) == work[t] = "run" /\ m \in current[t]

\* What a claim does not answer for: another tap could overlook it, or it was dropped.
Excused == shared \cup forgotten

\* A claim that no other living tap could overlook is, until it is dropped, in the
\* file and in the memory of every living tap, so that nobody claims the message again.
Claims ==
    /\ \A t \in Taps, m \in Messages : InHand(t, m) => m \in known[t]
    /\ \A m \in Messages \ Excused :
          /\ \A t \in Taps : InHand(t, m) => m \notin handled
          /\ \A t, u \in Taps : Written(t, m) /\ InHand(u, m) => t = u
          /\ (m \in handled \/ \E t \in Taps : Written(t, m)) =>
                m \in file /\ \A u \in Taps : IsProcessAlive(u) => m \in known[u]

\* What is not started has nothing in hand.
Unstarted == \A t \in Taps : at[t] = "off" => work[t] = "idle"

IInv == TypeOK /\ Unstarted /\ LockShape /\ Owned /\ Claims /\ RunOnce

----------------------------------------------------------------------------

LEMMA InitInv == Init => IInv
<1> SUFFICES ASSUME Init PROVE IInv
  OBVIOUS
<1>1. TypeOK
  <2>1. lock \in Locks
    BY DEF Init, Locks, Nobody
  <2>2. at \in [Taps -> Stages] /\ work \in [Taps -> WorkStages]
    BY DEF Init, Stages, WorkStages
  <2>3. 0 \in 0 .. MaxSetbacks
    BY SetbacksAssumption
  <2> QED
    BY <2>1, <2>2, <2>3 DEF Init, TypeOK
<1>2. LockShape
  BY DEF Init, LockShape, Nobody
<1>3. Owned
  BY DEF Init, Owned, Acquired
<1>4. Claims
  BY DEF Init, Claims, InHand, Written
<1>5. RunOnce
  BY DEF Init, RunOnce
<1>6. Unstarted
  BY DEF Init, Unstarted
<1> QED
  BY <1>1, <1>2, <1>3, <1>4, <1>5, <1>6 DEF IInv

----------------------------------------------------------------------------
(* Types.                                                                  *)

LEMMA NextType == TypeOK /\ [Next]_vars => TypeOK'
<1> SUFFICES ASSUME TypeOK, [Next]_vars PROVE TypeOK'
  OBVIOUS
<1> USE DEF TypeOK, Locks
<1>0. CASE UNCHANGED vars
  BY <1>0 DEF vars, queue, files, history
<1>1. ASSUME NEW t \in Taps, Tap(t) PROVE TypeOK'
  <2> USE DEF Go
  <2>1. CASE Begin(t)
    BY <2>1, SetbacksAssumption DEF Begin, Prune, Setback, Stages, files
  <2>2. CASE TryLock(t)
    BY <2>2 DEF TryLock, Creates, Stages, queue, history
  <2>3. CASE Inspect(t)
    BY <2>3 DEF Inspect, Stages, queue, files, history
  <2>4. CASE Remove(t)
    BY <2>4 DEF Remove, Stages, queue, Nobody
  <2>5. CASE Retake(t)
    BY <2>5 DEF Retake, Creates, Stages, queue, history
  <2>6. CASE Fill(t)
    BY <2>6 DEF Fill, Stages, queue, history
  <2>7. CASE FillFails(t)
    BY <2>7, SetbacksAssumption DEF FillFails, Setback, Stages, queue, history, Nobody
  <2>8. CASE Upsert(t)
    BY <2>8 DEF Upsert, WorkStages, files, history
  <2>9. ASSUME NEW m \in Messages, Claim(t, m) PROVE TypeOK'
    BY <2>9, SetbacksAssumption DEF Claim, Prune, Setback, AfterClaim, WorkStages, files
  <2>10. CASE BatchDone(t)
    BY <2>10 DEF BatchDone, WorkStages, files, history
  <2>11. CASE Persist(t)
    BY <2>11 DEF Persist, WorkStages
  <2>12. CASE Run(t)
    BY <2>12 DEF Run, WorkStages, files
  <2>13. CASE RunEnds(t)
    BY <2>13 DEF RunEnds, WorkStages, files, history
  <2>14. CASE WorkFails(t)
    BY <2>14, SetbacksAssumption DEF WorkFails, Setback, WorkStages, files, history
  <2>15. CASE Close(t)
    BY <2>15 DEF Close, Stages, queue, files, history
  <2>16. CASE TransportCloses(t)
    BY <2>16 DEF TransportCloses, AfterShadowClosed, Stages, queue, files, history
  <2>17. CASE Reconnect(t)
    BY <2>17 DEF Reconnect, Stages, queue, files, history
  <2>18. CASE Drained(t)
    BY <2>18 DEF Drained, Stages, queue, files, history
  <2>19. CASE ReadOwnLock(t)
    BY <2>19 DEF ReadOwnLock, Stages, queue, files, history
  <2>20. CASE Unlink(t)
    BY <2>20 DEF Unlink, Stages, queue, history, Nobody
  <2>21. CASE Crash(t)
    BY <2>21, SetbacksAssumption DEF Crash, Setback, Stages, WorkStages, files
  <2> QED
    BY <1>1, <2>1, <2>2, <2>3, <2>4, <2>5, <2>6, <2>7, <2>8, <2>9, <2>10, <2>11,
       <2>12, <2>13, <2>14, <2>15, <2>16, <2>17, <2>18, <2>19, <2>20, <2>21
       DEF Tap, Acquire, Process, Release
<1> QED
  BY <1>0, <1>1 DEF Next

----------------------------------------------------------------------------
(* The lock.                                                               *)

\* What the conditions below rest on is left alone, or a queue comes to its end.
LEMMA QueueKeepsLock ==
    ASSUME LockShape, Owned, at' = at, lock' = lock, raced' = raced,
           crashed' = crashed,
           \A t \in Taps : IsProcessAlive(t)' => IsProcessAlive(t),
           \A t \in lock.by : work[t] = "idle" => work'[t] = "idle" \/ at[t] # "gone"
    PROVE  LockShape' /\ Owned'
<1>1. LockShape'
  BY DEF LockShape, Acquired
<1>2. lock.by \subseteq Taps
  BY DEF LockShape, Nobody
<1>3. Owned'
  BY <1>2 DEF Owned
<1> QED
  BY <1>1, <1>3

LEMMA NextLock == TypeOK /\ LockShape /\ Owned /\ [Next]_vars => LockShape' /\ Owned'
<1> SUFFICES ASSUME TypeOK, LockShape, Owned, [Next]_vars PROVE LockShape' /\ Owned'
  OBVIOUS
<1>0. CASE UNCHANGED vars
  BY <1>0, QueueKeepsLock DEF vars, queue, files, history, IsProcessAlive
<1>1. ASSUME NEW t \in Taps, Tap(t) PROVE LockShape' /\ Owned'
  <2> USE DEF Go, TypeOK, Locks, Acquired
  <2>1. CASE Begin(t)
    <3>1. LockShape'
      BY <2>1 DEF Begin, Stages, LockShape, Nobody, queue, files, history
    <3>2. Owned'
      BY <2>1 DEF Begin, Stages, Owned, LockShape, IsProcessAlive, Nobody, queue, files, history
    <3> QED
      BY <3>1, <3>2
  <2>2. CASE TryLock(t)
    <3>1. LockShape'
      BY <2>2 DEF TryLock, Creates, Stages, LockShape, Nobody, queue, files, history
    <3>2. Owned'
      BY <2>2 DEF TryLock, Creates, Stages, Owned, LockShape, IsProcessAlive, Nobody, queue, files, history
    <3> QED
      BY <3>1, <3>2
  <2>3. CASE Inspect(t)
    <3>1. LockShape'
      BY <2>3 DEF Inspect, IsDeadOnes, Stages, LockShape, Nobody, queue, files, history
    <3>2. Owned'
      BY <2>3 DEF Inspect, IsDeadOnes, Stages, Owned, LockShape, IsProcessAlive, Nobody, queue, files, history
    <3> QED
      BY <3>1, <3>2
  <2>4. CASE Remove(t)
    <3>1. LockShape'
      BY <2>4 DEF Remove, Nobody, Stages, LockShape, Nobody, queue, files, history
    <3>2. Owned'
      BY <2>4 DEF Remove, Nobody, Stages, Owned, LockShape, IsProcessAlive, Nobody, queue, files, history
    <3> QED
      BY <3>1, <3>2
  <2>5. CASE Retake(t)
    <3>1. LockShape'
      BY <2>5 DEF Retake, Creates, Stages, LockShape, Nobody, queue, files, history
    <3>2. Owned'
      BY <2>5 DEF Retake, Creates, Stages, Owned, LockShape, IsProcessAlive, Nobody, queue, files, history
    <3> QED
      BY <3>1, <3>2
  <2>6. CASE Fill(t)
    <3>1. LockShape'
      <4>1. CASE lock.by = {t}
        <5>1. lock' = [lock EXCEPT !.state = "held"] /\ at' = [at EXCEPT ![t] = "open"]
          BY <2>6, <4>1 DEF Fill
        <5>2. lock'.by = {t} /\ lock'.state = "held" /\ at'[t] = "open"
          BY <4>1, <5>1, t \in Taps
        <5> QED
          BY <5>2 DEF LockShape
      <4>2. CASE lock.by # {t}
        <5>1. lock' = lock /\ t \notin lock.by
          BY <2>6, <4>2 DEF Fill, LockShape, Nobody
        <5>2. \A u \in lock.by : at'[u] = at[u] /\ work'[u] = work[u]
          BY <2>6, <5>1 DEF Fill, queue, LockShape, Nobody
        <5> QED
          BY <2>6, <5>1, <5>2 DEF Fill, LockShape, history
      <4> QED
        BY <4>1, <4>2
    <3>2. Owned'
      BY <2>6 DEF Fill, Stages, Owned, LockShape, IsProcessAlive, Nobody, queue, files, history
    <3> QED
      BY <3>1, <3>2
  <2>7. CASE FillFails(t)
    <3>1. LockShape'
      BY <2>7 DEF FillFails, Setback, Nobody, Stages, LockShape, Nobody, queue, files, history
    <3>2. Owned'
      BY <2>7 DEF FillFails, Setback, Nobody, Stages, Owned, LockShape, IsProcessAlive, Nobody, queue, files, history
    <3> QED
      BY <3>1, <3>2
  <2>8. CASE Close(t)
    <3>1. LockShape'
      BY <2>8 DEF Close, Stages, LockShape, Nobody, queue, files, history
    <3>2. Owned'
      BY <2>8 DEF Close, Stages, Owned, LockShape, IsProcessAlive, Nobody, queue, files, history
    <3> QED
      BY <3>1, <3>2
  <2>9. CASE TransportCloses(t)
    <3>1. LockShape'
      BY <2>9 DEF TransportCloses, AfterShadowClosed, Stages, LockShape, Nobody, queue, files, history
    <3>2. Owned'
      BY <2>9 DEF TransportCloses, AfterShadowClosed, Stages, Owned, LockShape, IsProcessAlive, Nobody, queue, files, history
    <3> QED
      BY <3>1, <3>2
  <2>10. CASE Reconnect(t)
    <3>1. LockShape'
      BY <2>10 DEF Reconnect, Stages, LockShape, Nobody, queue, files, history
    <3>2. Owned'
      BY <2>10 DEF Reconnect, Stages, Owned, LockShape, IsProcessAlive, Nobody, queue, files, history
    <3> QED
      BY <3>1, <3>2
  <2>11. CASE Drained(t)
    <3>1. LockShape'
      BY <2>11 DEF Drained, IsDrained, Stages, LockShape, Nobody, queue, files, history
    <3>2. Owned'
      BY <2>11 DEF Drained, IsDrained, Stages, Owned, LockShape, IsProcessAlive, Nobody, queue, files, history
    <3> QED
      BY <3>1, <3>2
  <2>12. CASE ReadOwnLock(t)
    <3>1. LockShape'
      BY <2>12 DEF ReadOwnLock, Stages, LockShape, Nobody, queue, files, history
    <3>2. Owned'
      BY <2>12 DEF ReadOwnLock, Stages, Owned, LockShape, IsProcessAlive, Nobody, queue, files, history
    <3> QED
      BY <3>1, <3>2
  <2>13. CASE Unlink(t)
    <3>1. LockShape'
      BY <2>13 DEF Unlink, Nobody, Stages, LockShape, Nobody, queue, files, history
    <3>2. Owned'
      BY <2>13 DEF Unlink, Nobody, Stages, Owned, LockShape, IsProcessAlive, Nobody, queue, files, history
    <3> QED
      BY <3>1, <3>2
  <2>14. CASE Crash(t)
    <3>1. LockShape'
      BY <2>14 DEF Crash, Setback, Stages, LockShape, Nobody, queue, files, history
    <3>2. Owned'
      BY <2>14 DEF Crash, Setback, Stages, Owned, LockShape, IsProcessAlive, Nobody, queue, files, history
    <3> QED
      BY <3>1, <3>2
  <2>15. CASE Upsert(t)
    BY <2>15, QueueKeepsLock DEF Upsert, files, history, IsProcessAlive
  <2>16. ASSUME NEW m \in Messages, Claim(t, m) PROVE LockShape' /\ Owned'
    BY <2>16, QueueKeepsLock DEF Claim, AfterClaim, files, history, IsProcessAlive
  <2>17. CASE BatchDone(t)
    BY <2>17, QueueKeepsLock DEF BatchDone, files, history, IsProcessAlive
  <2>18. CASE Persist(t)
    BY <2>18, QueueKeepsLock DEF Persist, IsProcessAlive
  <2>19. CASE Run(t)
    BY <2>19, QueueKeepsLock DEF Run, files, IsProcessAlive
  <2>20. CASE RunEnds(t)
    BY <2>20, QueueKeepsLock DEF RunEnds, files, history, IsProcessAlive
  <2>21. CASE WorkFails(t)
    BY <2>21, QueueKeepsLock DEF WorkFails, files, history, IsProcessAlive
  <2> QED
    BY <1>1, <2>1, <2>2, <2>3, <2>4, <2>5, <2>6, <2>7, <2>8, <2>9, <2>10, <2>11, <2>12, <2>13, <2>14, <2>15, <2>16, <2>17, <2>18, <2>19, <2>20, <2>21
       DEF Tap, Acquire, Process, Release
<1> QED
  BY <1>0, <1>1 DEF Next

----------------------------------------------------------------------------
(* The claims.                                                             *)

\* Steps of the main thread leave the queues alone; only a beginning process
\* comes to life, and it has read the file, but for what it has dropped.
LEMMA MainKeepsClaims ==
    ASSUME Claims, RunOnce, work' = work, current' = current, file' = file,
           handled' = handled, again' = again, shared' = shared, forgotten \subseteq forgotten',
           \A u \in Taps : known'[u] = known[u] \/ file \ forgotten' \subseteq known'[u],
           \A u \in Taps : known'[u] # known[u] => work[u] = "idle",
           \A u \in Taps : IsProcessAlive(u)' =>
               IsProcessAlive(u) \/ file \ forgotten' \subseteq known'[u]
    PROVE  Claims' /\ RunOnce'
<1>1. RunOnce'
  BY DEF RunOnce
<1>2. \A t \in Taps, m \in Messages :
         /\ InHand(t, m)' <=> InHand(t, m)
         /\ Written(t, m)' <=> Written(t, m)
         /\ InHand(t, m)' => m \in known'[t]
  BY DEF InHand, Written, Claims
<1>3. ASSUME NEW m \in Messages, m \notin shared, m \notin forgotten',
             m \in handled \/ \E t \in Taps : Written(t, m)
      PROVE  m \in file /\ \A u \in Taps : IsProcessAlive(u)' => m \in known'[u]
  <2>1. m \in file /\ \A u \in Taps : IsProcessAlive(u) => m \in known[u]
    BY <1>3 DEF Claims, Excused
  <2> QED
    BY <1>3, <2>1
<1>4. Claims'
  BY <1>2, <1>3 DEF Claims, Excused
<1> QED
  BY <1>1, <1>4

\* Steps that take nothing into a hand, and bring nobody to life.
LEMMA DroppingKeepsClaims ==
    ASSUME Claims, RunOnce, file' = file, handled' = handled, again' = again,
           shared' = shared, forgotten' = forgotten,
           \A t \in Taps, m \in Messages : InHand(t, m)' =>
               InHand(t, m) /\ (Written(t, m)' => Written(t, m)),
           \A u \in Taps : IsProcessAlive(u)' => IsProcessAlive(u) /\ known'[u] = known[u],
           \A t \in Taps, m \in Messages : InHand(t, m)' => known'[t] = known[t]
    PROVE  Claims' /\ RunOnce'
<1>1. RunOnce'
  BY DEF RunOnce
<1>2. \A t \in Taps, m \in Messages : Written(t, m)' => InHand(t, m)' /\ Written(t, m)
  BY DEF InHand, Written
<1>3. \A t \in Taps, m \in Messages : InHand(t, m)' => m \in known'[t]
  BY DEF Claims
<1>4. ASSUME NEW m \in Messages, m \notin Excused
      PROVE  /\ \A t \in Taps : InHand(t, m)' => m \notin handled
             /\ \A t, u \in Taps : Written(t, m)' /\ InHand(u, m)' => t = u
             /\ (m \in handled \/ \E t \in Taps : Written(t, m)') =>
                   m \in file /\ \A u \in Taps : IsProcessAlive(u)' => m \in known'[u]
  BY <1>2, <1>4 DEF Claims
<1>5. Claims'
  BY <1>3, <1>4 DEF Claims, Excused
<1> QED
  BY <1>1, <1>5

\* A message is claimed that is not known, or not any more: unless its claim was
\* dropped, nobody has it in hand or has handled it.
LEMMA ClaimKeepsClaims ==
    ASSUME TypeOK, Claims, RunOnce, NEW t \in Taps, NEW m \in Messages, Claim(t, m)
    PROVE  Claims' /\ RunOnce'
<1> USE DEF TypeOK
<1>1. PICK kept \in SUBSET known[t] :
         /\ forgotten' = forgotten \cup (known[t] \ kept)
         /\ known' = [known EXCEPT ![t] = kept \cup {m}]
         /\ IF m \in kept
            THEN UNCHANGED <<work, current>>
            ELSE /\ current' = [current EXCEPT ![t] = {m}]
                 /\ work' = [work EXCEPT ![t] = "persist"]
  BY DEF Claim, Prune, AfterClaim
<1>2. /\ at' = at /\ file' = file /\ handled' = handled /\ again' = again
      /\ shared' = shared /\ work[t] = "next"
  BY DEF Claim, files
<1>3. Excused \subseteq Excused' /\ known[t] \ kept \subseteq Excused'
  BY <1>1, <1>2 DEF Excused
<1>4. \A u \in Taps, x \in Messages :
         /\ InHand(u, x)' => InHand(u, x) \/ (u = t /\ x = m /\ m \notin kept)
         /\ Written(u, x)' => Written(u, x) /\ u # t
         /\ Written(u, x) => u # t
         /\ InHand(u, x) => u # t
  BY <1>1, <1>2 DEF InHand, Written
<1>5. \A u \in Taps, x \in Messages : x \notin Excused' /\ x \in known[u] => x \in known'[u]
  BY <1>1, <1>3
<1>6. \A u \in Taps : IsProcessAlive(u)' => IsProcessAlive(u)
  BY <1>1, <1>2 DEF IsProcessAlive
<1>7. \A u \in Taps, x \in Messages : InHand(u, x)' => x \in known'[u]
  BY <1>1, <1>4 DEF Claims
<1>8. m \notin kept /\ m \notin Excused' => m \notin handled /\ \A u \in Taps : ~Written(u, m)
  BY <1>2, <1>3 DEF Claims, IsProcessAlive
<1>9. ASSUME NEW x \in Messages, x \notin Excused'
      PROVE  /\ \A u \in Taps : InHand(u, x)' => x \notin handled
             /\ \A u, v \in Taps : Written(u, x)' /\ InHand(v, x)' => u = v
             /\ (x \in handled \/ \E u \in Taps : Written(u, x)') =>
                   x \in file /\ \A u \in Taps : IsProcessAlive(u)' => x \in known'[u]
  <2>1. x \notin Excused
    BY <1>3, <1>9
  <2>2. \A u \in Taps : InHand(u, x)' => x \notin handled
    BY <1>4, <1>8, <1>9, <2>1 DEF Claims
  <2>3. \A u, v \in Taps : Written(u, x)' /\ InHand(v, x)' => u = v
    BY <1>4, <1>8, <1>9, <2>1 DEF Claims
  <2>4. (x \in handled \/ \E u \in Taps : Written(u, x)') =>
           x \in file /\ \A u \in Taps : IsProcessAlive(u)' => x \in known'[u]
    BY <1>4, <1>5, <1>6, <1>9, <2>1 DEF Claims
  <2> QED
    BY <2>2, <2>3, <2>4
<1>10. Claims'
  BY <1>2, <1>7, <1>9 DEF Claims
<1>11. RunOnce'
  BY <1>1, <1>2 DEF RunOnce
<1> QED
  BY <1>10, <1>11

LEMMA PersistKeepsClaims ==
    ASSUME TypeOK, Claims, RunOnce, NEW t \in Taps, Persist(t)
    PROVE  Claims' /\ RunOnce'
<1> USE DEF TypeOK
<1>1. /\ work' = [work EXCEPT ![t] = "run"] /\ file' = known[t]
      /\ at' = at /\ current' = current /\ known' = known
      /\ handled' = handled /\ again' = again
      /\ work[t] = "persist" /\ IsProcessAlive(t)
  BY DEF Persist, IsProcessAlive
<1>2. Excused \subseteq Excused' /\ shared \subseteq shared' /\ forgotten' = forgotten
  BY DEF Persist, Excused
<1>3. \A u \in Taps, x \in Messages :
         /\ InHand(u, x)' <=> InHand(u, x)
         /\ Written(u, x)' => Written(u, x) \/ (u = t /\ InHand(t, x))
  BY <1>1 DEF InHand, Written
<1>4. \A u \in Taps : IsProcessAlive(u)' <=> IsProcessAlive(u)
  BY <1>1 DEF IsProcessAlive
<1>5. \A u \in Taps, x \in Messages : InHand(t, x) /\ x \notin Excused'
         /\ IsProcessAlive(u) => u = t
  BY DEF Persist, HasRead, InHand, Excused
<1>6. \A u \in Taps, x \in Messages : InHand(u, x) => x \in known[u] /\ IsProcessAlive(u)
  BY DEF Claims, InHand, IsProcessAlive
<1>7. ASSUME NEW x \in Messages, x \notin Excused'
      PROVE  /\ \A u \in Taps : InHand(u, x)' => x \notin handled
             /\ \A u, v \in Taps : Written(u, x)' /\ InHand(v, x)' => u = v
             /\ (x \in handled \/ \E u \in Taps : Written(u, x)') =>
                   x \in known[t] /\ \A u \in Taps : IsProcessAlive(u)' => x \in known[u]
  <2>1. x \notin Excused
    BY <1>2, <1>7
  <2>2. \A u, v \in Taps : Written(u, x)' /\ InHand(v, x)' => u = v
    BY <1>3, <1>5, <1>6, <1>7, <2>1 DEF Claims
  <2>3. CASE InHand(t, x)
    BY <1>3, <1>4, <1>5, <1>6, <1>7, <2>1, <2>2, <2>3 DEF Claims
  <2>4. CASE ~InHand(t, x)
    BY <1>1, <1>3, <1>4, <2>1, <2>2, <2>4 DEF Claims
  <2> QED
    BY <2>3, <2>4
<1>8. Claims'
  BY <1>1, <1>3, <1>6, <1>7 DEF Claims
<1>9. RunOnce'
  BY <1>1, <1>2 DEF RunOnce
<1> QED
  BY <1>8, <1>9

LEMMA RunKeepsClaims ==
    ASSUME TypeOK, Claims, RunOnce, NEW t \in Taps, Run(t)
    PROVE  Claims' /\ RunOnce'
<1> USE DEF TypeOK
<1>1. /\ work' = [work EXCEPT ![t] = "running"] /\ file' = file
      /\ at' = at /\ current' = current /\ known' = known /\ shared' = shared
      /\ forgotten' = forgotten /\ handled' = handled \cup current[t]
      /\ again' = again \cup (handled \cap current[t])
      /\ work[t] = "run"
  BY DEF Run, files
<1>2. \A u \in Taps, x \in Messages :
         /\ InHand(u, x)' => InHand(u, x) /\ u # t
         /\ Written(u, x)' => Written(u, x) /\ u # t
  BY <1>1 DEF InHand, Written
<1>3. \A u \in Taps : IsProcessAlive(u)' <=> IsProcessAlive(u)
  BY <1>1 DEF IsProcessAlive
<1>4. \A x \in Messages : x \in current[t] => Written(t, x) /\ InHand(t, x)
  BY <1>1 DEF Written, InHand
<1>5. ASSUME NEW x \in Messages, x \notin Excused
      PROVE  /\ \A u \in Taps : InHand(u, x)' => x \notin handled'
             /\ \A u, v \in Taps : Written(u, x)' /\ InHand(v, x)' => u = v
             /\ (x \in handled' \/ \E u \in Taps : Written(u, x)') =>
                   x \in file /\ \A u \in Taps : IsProcessAlive(u)' => x \in known[u]
  BY <1>1, <1>2, <1>3, <1>4, <1>5 DEF Claims
<1>6. \A u \in Taps, x \in Messages : InHand(u, x)' => x \in known'[u]
  BY <1>1, <1>2 DEF Claims
<1>7. Claims'
  BY <1>1, <1>5, <1>6 DEF Claims, Excused
<1>8. handled \cap current[t] \subseteq Excused
  BY <1>4 DEF Claims
<1>9. RunOnce'
  BY <1>1, <1>8 DEF RunOnce, Excused
<1> QED
  BY <1>7, <1>9

LEMMA NextClaims ==
    TypeOK /\ Unstarted /\ Claims /\ RunOnce /\ [Next]_vars => Claims' /\ RunOnce'
<1> SUFFICES ASSUME TypeOK, Unstarted, Claims, RunOnce, [Next]_vars
             PROVE  Claims' /\ RunOnce'
  OBVIOUS
<1>0. CASE UNCHANGED vars
  BY <1>0, MainKeepsClaims DEF vars, queue, files, history, IsProcessAlive
<1>1. ASSUME NEW t \in Taps, Tap(t) PROVE Claims' /\ RunOnce'
  <2> USE DEF Go, TypeOK
  <2>1. CASE Begin(t)
    <3>1. PICK kept \in SUBSET file :
             /\ forgotten' = forgotten \cup (file \ kept)
             /\ known' = [known EXCEPT ![t] = kept]
      BY <2>1 DEF Begin, Prune
    <3>2. /\ work[t] = "idle" /\ work' = work /\ current' = current /\ file' = file
          /\ handled' = handled /\ again' = again /\ shared' = shared
          /\ at' = [at EXCEPT ![t] = "lock"]
      BY <2>1 DEF Begin, Unstarted, files
    <3>3. \A u \in Taps : known'[u] = known[u] \/ file \ forgotten' \subseteq known'[u]
      BY <3>1
    <3>4. \A u \in Taps : known'[u] # known[u] => work[u] = "idle"
      BY <3>1, <3>2
    <3>5. \A u \in Taps : IsProcessAlive(u)' =>
             IsProcessAlive(u) \/ file \ forgotten' \subseteq known'[u]
      BY <3>1, <3>2 DEF IsProcessAlive
    <3> QED
      BY <3>1, <3>2, <3>3, <3>4, <3>5, MainKeepsClaims
  <2>2. CASE TryLock(t)
    BY <2>2, MainKeepsClaims
       DEF TryLock, Creates, Stages, IsProcessAlive, queue, files, history
  <2>3. CASE Inspect(t)
    BY <2>3, MainKeepsClaims
       DEF Inspect, Stages, IsProcessAlive, queue, files, history
  <2>4. CASE Remove(t)
    BY <2>4, MainKeepsClaims
       DEF Remove, Stages, IsProcessAlive, queue, files, history
  <2>5. CASE Retake(t)
    BY <2>5, MainKeepsClaims
       DEF Retake, Creates, Stages, IsProcessAlive, queue, files, history
  <2>6. CASE Fill(t)
    BY <2>6, MainKeepsClaims
       DEF Fill, Stages, IsProcessAlive, queue, files, history
  <2>7. CASE FillFails(t)
    BY <2>7, MainKeepsClaims
       DEF FillFails, Stages, IsProcessAlive, queue, files, history
  <2>8. CASE Upsert(t)
    BY <2>8, DroppingKeepsClaims
       DEF Upsert, InHand, Written, IsProcessAlive, files, history
  <2>9. CASE Close(t)
    BY <2>9, MainKeepsClaims
       DEF Close, Stages, IsProcessAlive, queue, files, history
  <2>10. CASE TransportCloses(t)
    BY <2>10, MainKeepsClaims
       DEF TransportCloses, AfterShadowClosed, Stages, IsProcessAlive, queue, files, history
  <2>11. CASE Reconnect(t)
    BY <2>11, MainKeepsClaims
       DEF Reconnect, Stages, IsProcessAlive, queue, files, history
  <2>12. CASE Drained(t)
    BY <2>12, MainKeepsClaims
       DEF Drained, Stages, IsProcessAlive, queue, files, history
  <2>13. CASE ReadOwnLock(t)
    BY <2>13, MainKeepsClaims
       DEF ReadOwnLock, Stages, IsProcessAlive, queue, files, history
  <2>14. CASE Unlink(t)
    BY <2>14, MainKeepsClaims
       DEF Unlink, Stages, IsProcessAlive, queue, files, history
  <2>15. CASE BatchDone(t)
    BY <2>15, DroppingKeepsClaims
       DEF BatchDone, InHand, Written, IsProcessAlive, files, history
  <2>16. CASE RunEnds(t)
    BY <2>16, DroppingKeepsClaims
       DEF RunEnds, InHand, Written, IsProcessAlive, files, history
  <2>17. CASE WorkFails(t)
    BY <2>17, DroppingKeepsClaims
       DEF WorkFails, InHand, Written, IsProcessAlive, files, history
  <2>18. CASE Crash(t)
    BY <2>18, DroppingKeepsClaims
       DEF Crash, InHand, Written, IsProcessAlive, files, history
  <2>19. ASSUME NEW m \in Messages, Claim(t, m) PROVE Claims' /\ RunOnce'
    BY <2>19, ClaimKeepsClaims
  <2>20. CASE Persist(t)
    BY <2>20, PersistKeepsClaims
  <2>21. CASE Run(t)
    BY <2>21, RunKeepsClaims
  <2> QED
    BY <1>1, <2>1, <2>2, <2>3, <2>4, <2>5, <2>6, <2>7, <2>8, <2>9, <2>10, <2>11, <2>12, <2>13, <2>14, <2>15, <2>16, <2>17, <2>18, <2>19, <2>20, <2>21
       DEF Tap, Acquire, Process, Release
<1> QED
  BY <1>0, <1>1 DEF Next

----------------------------------------------------------------------------

LEMMA NextUnstarted == TypeOK /\ Unstarted /\ [Next]_vars => Unstarted'
<1> SUFFICES ASSUME TypeOK, Unstarted, [Next]_vars PROVE Unstarted'
  OBVIOUS
<1> USE DEF TypeOK, Unstarted
<1>0. CASE UNCHANGED vars
  BY <1>0 DEF vars, queue
<1>1. ASSUME NEW t \in Taps, Tap(t) PROVE Unstarted'
  <2>1. CASE Acquire(t) \/ FillFails(t)
    BY <2>1 DEF Acquire, Begin, TryLock, Creates, Inspect, Remove, Retake, Fill,
                FillFails, Go, queue
  <2>2. CASE Close(t) \/ TransportCloses(t) \/ Reconnect(t) \/ Release(t)
    BY <2>2 DEF Close, TransportCloses, AfterShadowClosed, Reconnect, Release, Drained,
                ReadOwnLock, Unlink, Go, queue
  <2>3. CASE Upsert(t) \/ WorkFails(t) \/ Crash(t)
    BY <2>3 DEF Upsert, WorkFails, Crash, Go
  <2>4. CASE Process(t)
    BY <2>4 DEF Process, Claim, BatchDone, Persist, Run, RunEnds
  <2> QED
    BY <1>1, <2>1, <2>2, <2>3, <2>4 DEF Tap
<1> QED
  BY <1>0, <1>1 DEF Next

LEMMA NextInv == IInv /\ [Next]_vars => IInv'
  BY NextType, NextLock, NextClaims, NextUnstarted DEF IInv

LEMMA InvImpliesOneTap == IInv => OneTap
<1> SUFFICES ASSUME IInv, ~raced, NEW t \in Taps, NEW u \in Taps, Holds(t), Holds(u)
             PROVE  t = u
  BY DEF OneTap
<1>1. lock.by = {t} /\ lock.by = {u}
  BY DEF IInv, Owned, Holds, Acquired
<1> QED
  BY <1>1

LEMMA InvImpliesNoLockLeft == IInv => NoLockLeft
  BY DEF IInv, LockShape, NoLockLeft

THEOREM Invariance == Spec => []IInv
<1>1. Init => IInv
  BY InitInv
<1>2. IInv /\ [Next]_vars => IInv'
  BY NextInv
<1> QED
  BY <1>1, <1>2, PTL DEF Spec

\* Every variable has its type.
THEOREM TypeCorrect == Spec => []TypeOK
<1>1. IInv => TypeOK
  BY DEF IInv
<1> QED
  BY <1>1, Invariance, PTL

\* At most one process has the WhatsApp session open, unless two takeovers of a
\* dead one's lock overlapped.
THEOREM OneTapAtATime == Spec => []OneTap
  BY InvImpliesOneTap, Invariance, PTL

\* A message is run at most once, unless it was claimed while another living tap
\* had read the file of claims, or its claim was dropped as too old or one too many.
THEOREM MessagesRunOnce == Spec => []RunOnce
<1>1. IInv => RunOnce
  BY DEF IInv
<1> QED
  BY <1>1, Invariance, PTL

\* Only a crash leaves a lock without its process.
THEOREM LocksAreReleased == Spec => []NoLockLeft
  BY InvImpliesNoLockLeft, Invariance, PTL

=============================================================================
