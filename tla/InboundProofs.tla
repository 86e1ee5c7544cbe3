----------------------------- MODULE InboundProofs -----------------------------
(***************************************************************************)
(* Theorems about InboundReplay and InboundDebouncer, the two that a message *)
(* passes on its way in, for any deliveries, messages, keys, lifetime, limits *)
(* and bounds.  The two share no variable.                                   *)
(***************************************************************************)
EXTENDS InboundReplay, InboundDebouncer, FiniteSetTheorems, WellFoundedInduction, TLAPS

Holds(c) == pc[c] \notin {"new", "lookup", "duplicate"}

\* Some delivery holds or held a claim on k that lives until u.
Witness(k, u) ==
    \E c \in Deliveries : message[c] = k /\ Holds(c) /\ u = at[c] + Ttl /\ at[c] <= clock

MemoryWitnessed == \A claim \in memory : Witness(claim.key, claim.until)
FileWitnessed == \A k \in MessageKeys : file[k] # 0 => Witness(k, file[k])
ContentWitnessed ==
    \A d \in Deliveries : \A k \in MessageKeys : content[d][k] # 0 => Witness(k, content[d][k])
BusyInTime == \A d \in Busy : at[d] = clock

IInv ==
    /\ GuardTypeOK
    /\ BusyInTime
    /\ MemoryWitnessed
    /\ FileWitnessed
    /\ ContentWitnessed
    /\ NoFalseDuplicate

----------------------------------------------------------------------------
(* The Map never holds more than it may, and only what it held or was told.  *)

LEMMA OldestLeast ==
    ASSUME NEW claims, claims # {}, \A c \in claims : c.rank \in Nat
    PROVE  Oldest(claims) \in claims /\ \A e \in claims : Oldest(claims).rank <= e.rank
<1> DEFINE R == {c.rank : c \in claims}
           less == {p \in Nat \X Nat : p[1] < p[2]}
<1>1. R # {} /\ R \subseteq Nat
  OBVIOUS
<1>2. \E n \in R : \A m \in R : n <= m
  <2>1. IsWellFoundedOn(less, Nat)
    BY NatLessThanWellFounded DEF OpToRel
  <2> HIDE DEF R
  <2>2. \E n \in R : \A m \in R : <<m, n>> \notin less
    BY <2>1, <1>1, WFMin
  <2>3. PICK n \in R : \A m \in R : <<m, n>> \notin less
    BY <2>2
  <2>4. \A m \in R : ~(m < n)
    BY <2>3, <1>1
  <2> QED
    BY <2>4, <1>1
<1>3. \E c \in claims : \A e \in claims : c.rank <= e.rank
  BY <1>2
<1> QED
  BY <1>3 DEF Oldest

LEMMA NewestBounded ==
    ASSUME NEW claims, IsFiniteSet(claims), Cardinality(claims) <= MaxEntries + 1,
           \A c \in claims : c.rank \in Nat
    PROVE  /\ Newest(claims) \subseteq claims
           /\ IsFiniteSet(Newest(claims))
           /\ Cardinality(Newest(claims)) <= MaxEntries
<1>1. CASE Cardinality(claims) <= MaxEntries
  BY <1>1, ReplayAssumption, FS_CardinalityType DEF Newest
<1>2. CASE Cardinality(claims) > MaxEntries
  <2>1. Newest(claims) = claims \ {Oldest(claims)}
    BY <1>2 DEF Newest
  <2>2. Oldest(claims) \in claims
    <3>1. claims # {}
      BY <1>2, FS_EmptySet, ReplayAssumption
    <3> QED
      BY <3>1, OldestLeast
  <2> QED
    <3> DEFINE old == Oldest(claims)
    <3> HIDE DEF old
    <3>1. /\ IsFiniteSet(claims \ {old})
          /\ Cardinality(claims \ {old}) = Cardinality(claims) - 1
      BY <2>2, FS_RemoveElement DEF old
    <3> QED
      BY <2>1, <3>1, FS_CardinalityType, ReplayAssumption DEF old
<1> QED
  BY <1>1, <1>2, FS_CardinalityType, ReplayAssumption

LEMMA RememberKeeps ==
    ASSUME GuardTypeOK, NEW d \in Deliveries, NEW until \in Nat, Remember(d, until)
    PROVE  /\ memory' \subseteq memory \cup
                  {[key |-> message[d], until |-> until, rank |-> inserted']}
           /\ memory' \subseteq [key : MessageKeys, until : Nat, rank : Nat]
           /\ IsFiniteSet(memory') /\ Cardinality(memory') <= MaxEntries
           /\ inserted' \in Nat
           /\ memoryLost' \subseteq Deliveries
<1> DEFINE other == {c \in memory : c.key # message[d]}
           new == [key |-> message[d], until |-> until, rank |-> inserted']
           claims == other \cup {new}
<1>1. inserted' \in Nat /\ message[d] \in MessageKeys
  BY DEF Remember, GuardTypeOK
<1>2. IsFiniteSet(other) /\ Cardinality(other) <= MaxEntries
  <2>1. other \in SUBSET memory
    OBVIOUS
  <2>2. IsFiniteSet(memory) /\ Cardinality(memory) <= MaxEntries
    BY DEF GuardTypeOK
  <2>3. IsFiniteSet(other) /\ Cardinality(other) <= Cardinality(memory)
    BY <2>1, <2>2, FS_Subset
  <2>4. Cardinality(other) \in Nat /\ Cardinality(memory) \in Nat
    BY <2>2, <2>3, FS_CardinalityType
  <2> QED
    BY <2>2, <2>3, <2>4, ReplayAssumption
<1>3. IsFiniteSet(claims) /\ Cardinality(claims) <= MaxEntries + 1
  <2> HIDE DEF other, new
  <2>1. Cardinality(other) \in Nat
    BY <1>2, FS_CardinalityType
  <2>2. /\ IsFiniteSet(other \cup {new})
        /\ Cardinality(other \cup {new}) \in {Cardinality(other), Cardinality(other) + 1}
    BY <1>2, FS_AddElement
  <2> QED
    BY <1>2, <2>1, <2>2, ReplayAssumption
<1>4. claims \subseteq [key : MessageKeys, until : Nat, rank : Nat]
  BY <1>1 DEF GuardTypeOK
<1>5. memory' = Newest(claims)
  BY DEF Remember
<1>6. \A c \in claims : c.rank \in Nat
  BY <1>4
<1> HIDE DEF claims
<1>7. /\ memory' \subseteq claims
      /\ IsFiniteSet(memory')
      /\ Cardinality(memory') <= MaxEntries
  BY <1>3, <1>5, <1>6, NewestBounded
<1>8. memoryLost' \subseteq Deliveries
  BY DEF Remember, GuardTypeOK, Holders
<1> QED
  BY <1>1, <1>4, <1>7, <1>8 DEF claims

----------------------------------------------------------------------------
(* A claim is for ever: what witnesses a record keeps witnessing it.        *)

LEMMA WitnessStays ==
    ASSUME GuardTypeOK, [GuardNext]_guardVars, NEW k, NEW u, Witness(k, u)
    PROVE  Witness(k, u)'
<1>1. PICK c \in Deliveries : message[c] = k /\ Holds(c) /\ u = at[c] + Ttl /\ at[c] <= clock
  BY DEF Witness
<1>2. message' = message /\ clock' \in Nat /\ clock <= clock'
  BY DEF GuardTypeOK, GuardNext, guardVars, history, Dropped, AskFile, ClaimInMemory, ClaimBegins, LookupFinds,
         LookupMisses, LookupFails, RegisterReads, Fill, Truncate, RegisterFails, Restart, Tick
<1>3. Holds(c)' /\ at'[c] = at[c]
  BY <1>1 DEF GuardTypeOK, Holds, GuardNext, guardVars, history, Dropped, AskFile, ClaimInMemory, ClaimBegins,
         LookupFinds, LookupMisses, LookupFails, RegisterReads, Fill, Truncate, RegisterFails,
         Restart, Tick, Go, AtFile, Registering
<1>4. at[c] <= clock'
  BY <1>1, <1>2 DEF GuardTypeOK
<1> QED
  BY <1>1, <1>2, <1>3, <1>4 DEF Witness

----------------------------------------------------------------------------
(* The steps, one lemma for those that change the Map and one for those that *)
(* change the file.                                                          *)

LEMMA MemoryStays ==
    ASSUME IInv, [GuardNext]_guardVars, UNCHANGED memory
    PROVE  MemoryWitnessed'
<1> SUFFICES ASSUME NEW claim \in memory PROVE Witness(claim.key, claim.until)'
  BY DEF MemoryWitnessed
<1>1. Witness(claim.key, claim.until)
  BY DEF IInv, MemoryWitnessed
<1> QED
  BY <1>1, WitnessStays DEF IInv

LEMMA FileStays ==
    ASSUME IInv, [GuardNext]_guardVars, UNCHANGED file
    PROVE  FileWitnessed'
<1> SUFFICES ASSUME NEW k \in MessageKeys, file[k] # 0 PROVE Witness(k, file[k])'
  BY DEF FileWitnessed
<1>1. Witness(k, file[k])
  BY DEF IInv, FileWitnessed
<1> QED
  BY <1>1, WitnessStays DEF IInv

LEMMA ContentStays ==
    ASSUME IInv, [GuardNext]_guardVars, UNCHANGED content
    PROVE  ContentWitnessed'
<1> SUFFICES ASSUME NEW d \in Deliveries, NEW k \in MessageKeys, content[d][k] # 0
             PROVE  Witness(k, content[d][k])'
  BY DEF ContentWitnessed
<1>1. Witness(k, content[d][k])
  BY DEF IInv, ContentWitnessed
<1> QED
  BY <1>1, WitnessStays DEF IInv

\* What a delivery remembers has a witness if its claim has one.
LEMMA MemoryGrows ==
    ASSUME IInv, [GuardNext]_guardVars, NEW d \in Deliveries, NEW until \in Nat, Remember(d, until),
           UNCHANGED message, Witness(message[d], until)'
    PROVE  MemoryWitnessed'
<1> SUFFICES ASSUME NEW claim \in memory' PROVE Witness(claim.key, claim.until)'
  BY DEF MemoryWitnessed
<1>1. CASE claim \in memory
  <2>1. Witness(claim.key, claim.until)
    BY <1>1 DEF IInv, MemoryWitnessed
  <2> QED
    BY <2>1, WitnessStays DEF IInv
<1>2. CASE claim = [key |-> message[d], until |-> until, rank |-> inserted']
  BY <1>2 DEF Witness
<1> QED
  BY <1>1, <1>2, RememberKeeps DEF IInv

\* Duplicates that have been answered stay right.
LEMMA DuplicatesStay ==
    ASSUME IInv, [GuardNext]_guardVars, NEW d \in Deliveries, pc[d] = "duplicate"
    PROVE  \E c \in Deliveries :
              /\ message'[c] = message'[d] /\ pc'[c] \notin {"new", "lookup", "duplicate"}
              /\ at'[c] <= at'[d] /\ at'[d] < at'[c] + Ttl
<1>1. PICK c \in Deliveries :
         /\ message[c] = message[d] /\ pc[c] \notin {"new", "lookup", "duplicate"}
         /\ at[c] <= at[d] /\ at[d] < at[c] + Ttl
  BY DEF IInv, NoFalseDuplicate
<1>2. /\ message' = message /\ at'[c] = at[c] /\ at'[d] = at[d]
      /\ pc'[c] \notin {"new", "lookup", "duplicate"}
  BY <1>1 DEF IInv, GuardTypeOK, GuardNext, guardVars, history, Dropped, AskFile, ClaimInMemory, ClaimBegins,
         LookupFinds, LookupMisses, LookupFails, RegisterReads, Fill, Truncate, RegisterFails,
         Restart, Tick, Go, AtFile, Registering
<1> QED
  BY <1>1, <1>2

----------------------------------------------------------------------------
(* The invariant is inductive.                                              *)

LEMMA InitHolds == GuardInit => IInv
<1> SUFFICES ASSUME GuardInit PROVE IInv
  OBVIOUS
<1>1. IsFiniteSet({}) /\ Cardinality({}) = 0
  BY FS_EmptySet
<1>2. GuardTypeOK
  <2>1. clock \in 1..MaxClock /\ setbacks \in 0..MaxSetbacks /\ inserted \in Nat
    BY ReplayAssumption DEF GuardInit
  <2>2. memory \subseteq [key : MessageKeys, until : Nat, rank : Nat]
    BY DEF GuardInit
  <2>3. IsFiniteSet(memory) /\ Cardinality(memory) <= MaxEntries
    BY <1>1, ReplayAssumption DEF GuardInit
  <2>4. /\ pc \in [Deliveries -> {"new", "claimed", "duplicate", "dead"} \cup AtFile]
        /\ message \in [Deliveries -> MessageKeys]
        /\ disabled \in BOOLEAN
    BY DEF GuardInit
  <2>5. at \in [Deliveries -> 0..MaxClock]
    BY ReplayAssumption DEF GuardInit
  <2>6. file \in [MessageKeys -> Nat] /\ content \in [Deliveries -> [MessageKeys -> Nat]]
    BY DEF GuardInit, Blank
  <2>7. /\ after \in [Deliveries -> SUBSET Deliveries]
        /\ memoryLost \subseteq Deliveries /\ fileLost \subseteq Deliveries
    BY DEF GuardInit
  <2> QED
    BY <2>1, <2>2, <2>3, <2>4, <2>5, <2>6, <2>7 DEF GuardTypeOK
<1>3. BusyInTime /\ MemoryWitnessed /\ FileWitnessed /\ ContentWitnessed /\ NoFalseDuplicate
  BY DEF GuardInit, BusyInTime, Busy, AtFile, MemoryWitnessed, FileWitnessed, ContentWitnessed,
         NoFalseDuplicate, Blank
<1> QED
  BY <1>2, <1>3 DEF IInv

LEMMA TypeStep == IInv /\ [GuardNext]_guardVars => GuardTypeOK'
<1> SUFFICES ASSUME IInv, [GuardNext]_guardVars PROVE GuardTypeOK'
  OBVIOUS
<1> USE DEF IInv
<1>1. ASSUME NEW d \in Deliveries, Dropped(d) \/ AskFile(d) PROVE GuardTypeOK'
  <2>1. clock \in 0..MaxClock /\ {c \in Deliveries : pc[c] = "claimed"} \subseteq Deliveries
    BY DEF GuardTypeOK
  <2>2. ClaimBegins(d) /\ UNCHANGED <<memory, inserted, disabled, memoryLost, fileLost>>
    BY <1>1 DEF Dropped, AskFile
  <2>3. /\ at' \in [Deliveries -> 0..MaxClock]
        /\ after' \in [Deliveries -> SUBSET Deliveries]
    BY <2>1, <2>2 DEF GuardTypeOK, ClaimBegins
  <2>4. pc' \in [Deliveries -> {"new", "claimed", "duplicate", "dead"} \cup AtFile]
    BY <1>1 DEF GuardTypeOK, Dropped, AskFile, Go, AtFile
  <2> QED
    BY <2>2, <2>3, <2>4 DEF GuardTypeOK, ClaimBegins
<1>2. ASSUME NEW d \in Deliveries, ClaimInMemory(d) PROVE GuardTypeOK'
  <2>1. clock + Ttl \in Nat /\ Remember(d, clock + Ttl)
    BY <1>2, ReplayAssumption DEF ClaimInMemory, GuardTypeOK
  <2> QED
    BY <1>2, <2>1, RememberKeeps DEF GuardTypeOK, ClaimInMemory, ClaimBegins, Go
<1>3. ASSUME NEW d \in Deliveries, LookupFinds(d) PROVE GuardTypeOK'
  <2>1. file[message[d]] \in Nat /\ Remember(d, file[message[d]])
    BY <1>3 DEF LookupFinds, OnRecord, GuardTypeOK
  <2> QED
    BY <1>3, <2>1, RememberKeeps DEF GuardTypeOK, LookupFinds, Go
<1>4. ASSUME NEW d \in Deliveries, LookupMisses(d) PROVE GuardTypeOK'
  <2>1. at[d] + Ttl \in Nat /\ Remember(d, at[d] + Ttl)
    BY <1>4, ReplayAssumption DEF LookupMisses, GuardTypeOK
  <2> QED
    BY <1>4, <2>1, RememberKeeps DEF GuardTypeOK, LookupMisses, Go, AtFile, Holders
<1>5. ASSUME NEW d \in Deliveries, LookupFails(d) PROVE GuardTypeOK'
  <2>1. at[d] + Ttl \in Nat /\ Remember(d, at[d] + Ttl)
    BY <1>5, ReplayAssumption DEF LookupFails, GuardTypeOK
  <2> QED
    BY <1>5, <2>1, RememberKeeps, ReplayAssumption DEF GuardTypeOK, LookupFails, Disable, Go, Holders
<1>6. ASSUME NEW d \in Deliveries, NEW S \in SUBSET MessageKeys, RegisterReads(d, S) PROVE GuardTypeOK'
  <2>1. Merged(d) \in [MessageKeys -> Nat]
    BY ReplayAssumption DEF Merged, GuardTypeOK
  <2>2. content' \in [Deliveries -> [MessageKeys -> Nat]]
    BY <1>6, <2>1 DEF RegisterReads, GuardTypeOK
  <2>3. fileLost' \subseteq Deliveries
    BY <1>6 DEF RegisterReads, GuardTypeOK, Holders
  <2> QED
    BY <1>6, <2>2, <2>3 DEF GuardTypeOK, RegisterReads, Go, AtFile
<1>7. ASSUME NEW d \in Deliveries, NEW S \in SUBSET MessageKeys, Fill(d, S) PROVE GuardTypeOK'
  BY <1>7 DEF GuardTypeOK, Fill, Go, Holders
<1>8. ASSUME NEW d \in Deliveries, Truncate(d) PROVE GuardTypeOK'
  BY <1>8 DEF GuardTypeOK, Truncate, Go, Holders, Blank, AtFile
<1>9. ASSUME NEW d \in Deliveries, RegisterFails(d) PROVE GuardTypeOK'
  BY <1>9, ReplayAssumption DEF GuardTypeOK, RegisterFails, Disable, Go, Holders
<1>10. CASE Restart
  <2>1. IsFiniteSet({}) /\ Cardinality({}) = 0
    BY FS_EmptySet
  <2> QED
    <3>1. memory' \subseteq [key : MessageKeys, until : Nat, rank : Nat]
      BY <1>10 DEF Restart
    <3>2. IsFiniteSet(memory') /\ Cardinality(memory') <= MaxEntries
      BY <1>10, <2>1, ReplayAssumption DEF Restart
    <3>3. /\ setbacks \in 0..MaxSetbacks /\ setbacks < MaxSetbacks
          /\ setbacks' = setbacks + 1
      BY <1>10 DEF GuardTypeOK, Restart
    <3>4. memoryLost' \subseteq Deliveries /\ fileLost' \subseteq Deliveries
      BY <1>10 DEF GuardTypeOK, Restart, Holders
    <3>5. pc' \in [Deliveries -> {"new", "claimed", "duplicate", "dead"} \cup AtFile]
      BY <1>10 DEF GuardTypeOK, Restart
    <3> QED
      <4>1. setbacks' \in 0..MaxSetbacks
        BY <3>3, ReplayAssumption
      <4>2. /\ inserted' \in Nat /\ disabled' \in BOOLEAN
            /\ clock' \in 1..MaxClock /\ message' \in [Deliveries -> MessageKeys]
            /\ at' \in [Deliveries -> 0..MaxClock] /\ file' \in [MessageKeys -> Nat]
            /\ content' \in [Deliveries -> [MessageKeys -> Nat]]
            /\ after' \in [Deliveries -> SUBSET Deliveries]
        BY <1>10 DEF GuardTypeOK, Restart
      <4> QED
        BY <3>1, <3>2, <3>4, <3>5, <4>1, <4>2 DEF GuardTypeOK
<1>11. CASE Tick
  BY <1>11, ReplayAssumption DEF GuardTypeOK, Tick, history
<1>12. CASE UNCHANGED guardVars
  BY <1>12 DEF GuardTypeOK, guardVars, history
<1> QED
  BY <1>1, <1>2, <1>3, <1>4, <1>5, <1>6, <1>7, <1>8, <1>9, <1>10, <1>11, <1>12 DEF GuardNext

\* Only Tick moves the clock, and it waits for the file.
LEMMA BusyStep == IInv /\ [GuardNext]_guardVars => BusyInTime'
<1> SUFFICES ASSUME IInv, [GuardNext]_guardVars, NEW d \in Busy' PROVE at'[d] = clock'
  BY DEF BusyInTime
<1>1. d \in Deliveries /\ pc'[d] \in AtFile
  BY DEF Busy
<1>2. CASE pc[d] = "new"
  BY <1>1, <1>2 DEF IInv, GuardTypeOK, GuardNext, guardVars, history, Dropped, AskFile, ClaimInMemory, ClaimBegins,
         LookupFinds, LookupMisses, LookupFails, RegisterReads, Fill, Truncate, RegisterFails,
         Restart, Tick, Go, AtFile, Registering
<1>3. CASE pc[d] # "new"
  <2>1. pc[d] \in AtFile
    BY <1>1, <1>3 DEF IInv, GuardTypeOK, GuardNext, guardVars, history, Dropped, AskFile, ClaimInMemory, ClaimBegins,
         LookupFinds, LookupMisses, LookupFails, RegisterReads, Fill, Truncate, RegisterFails,
         Restart, Tick, Go, AtFile, Registering
  <2>2. d \in Busy /\ at[d] = clock
    BY <1>1, <2>1 DEF Busy, IInv, BusyInTime
  <2>3. at'[d] = at[d] /\ clock' = clock
    BY <1>1, <1>3, <2>2 DEF IInv, GuardTypeOK, GuardNext, guardVars, history, Dropped, AskFile, ClaimInMemory,
         ClaimBegins, LookupFinds, LookupMisses, LookupFails, RegisterReads, Fill, Truncate,
         RegisterFails, Restart, Tick, Go
  <2> QED
    BY <2>2, <2>3
<1> QED
  BY <1>2, <1>3

\* Each step that puts a claim into the Map has a witness for it.
LEMMA MemoryStep == IInv /\ [GuardNext]_guardVars => MemoryWitnessed'
<1> SUFFICES ASSUME IInv, [GuardNext]_guardVars PROVE MemoryWitnessed'
  OBVIOUS
<1>1. ASSUME NEW d \in Deliveries, NEW u \in Nat, Remember(d, u), u = at'[d] + Ttl,
             Holds(d)', at'[d] = clock', UNCHANGED message
      PROVE  MemoryWitnessed'
  <2>1. at'[d] <= clock'
    BY <1>1, TypeStep DEF GuardTypeOK
  <2>2. Witness(message[d], u)'
    BY <1>1, <2>1 DEF Witness
  <2> QED
    BY <1>1, <2>2, MemoryGrows
<1>2. ASSUME NEW d \in Deliveries, ClaimInMemory(d) PROVE MemoryWitnessed'
  <2>1. clock + Ttl \in Nat
    BY ReplayAssumption DEF IInv, GuardTypeOK
  <2>2. PICK u \in Nat : u = clock + Ttl
    BY <2>1
  <2>3. Remember(d, u)
    BY <1>2, <2>2 DEF ClaimInMemory
  <2>4. /\ at'[d] = clock' /\ u = at'[d] + Ttl
        /\ Holds(d)' /\ UNCHANGED message
    BY <1>2, <2>2 DEF IInv, GuardTypeOK, ClaimInMemory, ClaimBegins, Go, Holds
  <2> QED
    BY <1>1, <2>3, <2>4
<1>3. ASSUME NEW d \in Deliveries, LookupMisses(d) \/ LookupFails(d) PROVE MemoryWitnessed'
  <2>1. at[d] = clock
    BY <1>3 DEF IInv, BusyInTime, Busy, AtFile, LookupMisses, LookupFails
  <2>2. at[d] + Ttl \in Nat
    BY ReplayAssumption DEF IInv, GuardTypeOK
  <2>3. PICK u \in Nat : u = at[d] + Ttl
    BY <2>2
  <2>4. Remember(d, u)
    BY <1>3, <2>3 DEF LookupMisses, LookupFails
  <2>5. /\ at'[d] = clock' /\ u = at'[d] + Ttl
        /\ Holds(d)' /\ UNCHANGED message
    BY <1>3, <2>1, <2>3 DEF IInv, GuardTypeOK, LookupMisses, LookupFails, Go, Holds
  <2> QED
    BY <1>1, <2>4, <2>5
<1>4. ASSUME NEW d \in Deliveries, LookupFinds(d) PROVE MemoryWitnessed'
  <2>1. file[message[d]] \in Nat /\ file[message[d]] # 0 /\ message[d] \in MessageKeys
    BY <1>4 DEF IInv, GuardTypeOK, LookupFinds, Live
  <2>2. PICK u \in Nat, k \in MessageKeys : u = file[k] /\ k = message[d]
    BY <2>1
  <2>3. Witness(k, u)
    BY <2>1, <2>2 DEF IInv, FileWitnessed
  <2>4. Witness(k, u)'
    BY <2>3, WitnessStays DEF IInv
  <2>5. Remember(d, u) /\ UNCHANGED message
    BY <1>4, <2>2 DEF LookupFinds, OnRecord
  <2>6. Witness(message[d], u)'
    BY <2>2, <2>4, <2>5 DEF Witness
  <2> QED
    BY <2>5, <2>6, MemoryGrows
<1>5. CASE Restart
  BY <1>5 DEF Restart, MemoryWitnessed
<1>6. ASSUME UNCHANGED memory PROVE MemoryWitnessed'
  BY <1>6, MemoryStays
<1> QED
  BY <1>2, <1>3, <1>4, <1>5, <1>6 DEF GuardNext, guardVars, Dropped, AskFile, RegisterReads, Fill, Truncate,
     RegisterFails, Tick

LEMMA FileStep == IInv /\ [GuardNext]_guardVars => FileWitnessed'
<1> SUFFICES ASSUME IInv, [GuardNext]_guardVars PROVE FileWitnessed'
  OBVIOUS
<1>1. ASSUME NEW d \in Deliveries, Truncate(d) PROVE FileWitnessed'
  BY <1>1 DEF Truncate, Blank, FileWitnessed
<1>2. ASSUME NEW d \in Deliveries, NEW Rest \in SUBSET MessageKeys, Fill(d, Rest) PROVE FileWitnessed'
  <2> SUFFICES ASSUME NEW k \in MessageKeys, file'[k] # 0 PROVE Witness(k, file[k])'
    BY DEF FileWitnessed
  <2>1. PICK u : u = file'[k]
    OBVIOUS
  <2>2. u # 0 /\ (u = file[k] \/ u = content[d][k])
    BY <1>2, <2>1 DEF Fill
  <2>3. Witness(k, u)
    BY <2>2 DEF IInv, FileWitnessed, ContentWitnessed
  <2>4. Witness(k, u)'
    BY <2>3, WitnessStays DEF IInv
  <2> QED
    BY <2>1, <2>4 DEF Witness
<1>3. ASSUME UNCHANGED file PROVE FileWitnessed'
  BY <1>3, FileStays
<1> QED
  BY <1>1, <1>2, <1>3 DEF GuardNext, guardVars, Dropped, AskFile, ClaimInMemory, ClaimBegins, LookupFinds,
     LookupMisses, LookupFails, RegisterReads, RegisterFails, Restart, Tick

LEMMA ContentStep == IInv /\ [GuardNext]_guardVars => ContentWitnessed'
<1> SUFFICES ASSUME IInv, [GuardNext]_guardVars PROVE ContentWitnessed'
  OBVIOUS
<1>1. ASSUME NEW d \in Deliveries, NEW S \in SUBSET MessageKeys, RegisterReads(d, S)
      PROVE  ContentWitnessed'
  <2> SUFFICES ASSUME NEW e \in Deliveries, NEW k \in MessageKeys, content'[e][k] # 0
               PROVE  Witness(k, content[e][k])'
    BY DEF ContentWitnessed
  <2>1. PICK u : u = content'[e][k]
    OBVIOUS
  <2>2. /\ at[d] = clock /\ at[d] \in Nat
        /\ Holds(d)
    BY <1>1 DEF IInv, GuardTypeOK, BusyInTime, Busy, AtFile, RegisterReads, Holds
  <2>3. Merged(d)[k] # 0 => Witness(k, Merged(d)[k])
    BY <2>2 DEF Merged, IInv, GuardTypeOK, FileWitnessed, Witness
  <2>4. Witness(k, u)
    <3>1. CASE e = d
      BY <1>1, <2>1, <2>3, <3>1 DEF RegisterReads, IInv, GuardTypeOK
    <3>2. CASE e # d
      BY <1>1, <2>1, <3>2 DEF RegisterReads, IInv, ContentWitnessed
    <3> QED
      BY <3>1, <3>2
  <2>5. Witness(k, u)'
    BY <2>4, WitnessStays DEF IInv
  <2> QED
    BY <2>1, <2>5 DEF Witness
<1>2. ASSUME UNCHANGED content PROVE ContentWitnessed'
  BY <1>2, ContentStays
<1> QED
  BY <1>1, <1>2 DEF GuardNext, guardVars, Dropped, AskFile, ClaimInMemory, ClaimBegins, LookupFinds,
     LookupMisses, LookupFails, Truncate, Fill, RegisterFails, Restart, Tick

\* A duplicate is answered on a record, and a record has a witness.
LEMMA DuplicateStep == IInv /\ [GuardNext]_guardVars => NoFalseDuplicate'
<1> SUFFICES ASSUME IInv, [GuardNext]_guardVars, NEW d \in Deliveries, pc'[d] = "duplicate"
             PROVE  \E c \in Deliveries :
                       /\ message'[c] = message'[d] /\ pc'[c] \notin {"new", "lookup", "duplicate"}
                       /\ at'[c] <= at'[d] /\ at'[d] < at'[c] + Ttl
  BY DEF NoFalseDuplicate
<1>1. CASE pc[d] = "duplicate"
  BY <1>1, DuplicatesStay
<1>2. CASE pc[d] # "duplicate"
  <2>1. Dropped(d) \/ LookupFinds(d)
    BY <1>2 DEF IInv, GuardTypeOK, GuardNext, guardVars, history, Dropped, AskFile, ClaimInMemory, ClaimBegins,
       LookupFinds, LookupMisses, LookupFails, RegisterReads, Fill, Truncate, RegisterFails,
       Restart, Tick, Go
  <2>2. UNCHANGED <<message, clock>> /\ at'[d] = clock
    BY <2>1 DEF IInv, GuardTypeOK, BusyInTime, Busy, AtFile, Dropped, ClaimBegins, LookupFinds
  <2>3. PICK u \in Nat : Witness(message[d], u) /\ u > clock
    <3>1. CASE Dropped(d)
      <4>1. PICK claim \in memory : claim.key = message[d] /\ claim.until > clock
        BY <3>1 DEF Dropped, InMemory, Live
      <4> QED
        BY <4>1 DEF IInv, GuardTypeOK, MemoryWitnessed
    <3>2. CASE LookupFinds(d)
      <4>1. /\ file[message[d]] > clock /\ file[message[d]] \in Nat /\ clock \in Nat
            /\ message[d] \in MessageKeys
        BY <3>2 DEF IInv, GuardTypeOK, BusyInTime, Busy, AtFile, LookupFinds, Live
      <4>2. file[message[d]] # 0
        BY <4>1
      <4> QED
        BY <4>1, <4>2 DEF IInv, FileWitnessed
    <3> QED
      BY <2>1, <3>1, <3>2
  <2>4. PICK k : k = message[d]
    OBVIOUS
  <2>5. Witness(k, u)'
    BY <2>3, <2>4, WitnessStays DEF IInv
  <2>6. PICK c \in Deliveries : message'[c] = k /\ Holds(c)' /\ u = at'[c] + Ttl /\ at'[c] <= clock'
    BY <2>5 DEF Witness
  <2> QED
    BY <2>2, <2>3, <2>4, <2>6 DEF Holds
<1> QED
  BY <1>1, <1>2

----------------------------------------------------------------------------
(* What is known of a claim that neither the Map nor the file has lost.     *)

\* The Map has all of c's claim.
InMap(c) == \E claim \in memory : claim.key = message[c] /\ claim.until >= at[c] + Ttl

TimesPast == \A c \in Deliveries : at[c] <= clock
RanksBelow == \A claim \in memory : claim.rank <= inserted
Remembered == \A c \in Holders \ memoryLost : InMap(c)

\* The file has the claims that were answered, unless a register has truncated it.
OnFile ==
    (\A e \in Deliveries : pc[e] # "fill") =>
        \A c \in Deliveries \ fileLost : pc[c] = "claimed" => file[message[c]] >= at[c] + Ttl

\* What is about to be written has them as well, with the writer's own.
InContent ==
    \A e \in Deliveries : pc[e] \in {"write", "fill"} =>
        \A c \in Deliveries \ fileLost :
            pc[c] = "claimed" \/ c = e => content[e][message[c]] >= at[c] + Ttl

FillAlone ==
    \A e \in Deliveries : pc[e] = "fill" /\ Registering # {e} => Holders \subseteq fileLost
DisabledLoses == disabled => Holders \subseteq fileLost
AfterClaimed == \A d \in Deliveries : \A c \in after[d] : pc[c] = "claimed"

\* The Map did not have what a delivery asks the file for.
StillMissing ==
    \A d \in Deliveries : \A c \in after[d] :
        pc[d] = "lookup" /\ message[c] = message[d] => at[d] >= at[c] + Ttl \/ c \in memoryLost

ClaimsHeld ==
    /\ TimesPast
    /\ RanksBelow
    /\ Remembered
    /\ OnFile
    /\ InContent
    /\ FillAlone
    /\ DisabledLoses
    /\ AfterClaimed
    /\ StillMissing
    /\ OnceAfterAnswer

LEMMA InitHeld == GuardInit => ClaimsHeld
BY DEF GuardInit, ClaimsHeld, TimesPast, RanksBelow, Remembered, OnFile, InContent, FillAlone, DisabledLoses,
       AfterClaimed, StillMissing, OnceAfterAnswer, Holders, Claimed, Registering, AtFile

\* What no step does: change a key, or the time of a delivery that has arrived,
\* take back a claim, or find again what was lost.
LEMMA Courses ==
    ASSUME IInv, [GuardNext]_guardVars
    PROVE  /\ message' = message
           /\ memoryLost \subseteq memoryLost' /\ fileLost \subseteq fileLost'
           /\ \A c \in Deliveries : pc[c] # "new" =>
                 at'[c] = at[c] /\ after'[c] = after[c] /\ pc'[c] # "new"
           /\ \A c \in Deliveries : pc[c] = "claimed" => pc'[c] = "claimed"
<1>1. message' = message
  BY DEF GuardNext, guardVars, Dropped, AskFile, ClaimInMemory, ClaimBegins, LookupFinds, LookupMisses,
         LookupFails, RegisterReads, Fill, Truncate, RegisterFails, Restart, Tick
<1>2. memoryLost \subseteq memoryLost'
  BY DEF GuardNext, guardVars, history, Dropped, AskFile, ClaimInMemory, LookupFinds, LookupMisses,
         LookupFails, RegisterReads, Fill, Truncate, RegisterFails, Restart, Tick, Remember
<1>3. fileLost \subseteq fileLost'
  BY DEF GuardNext, guardVars, history, Dropped, AskFile, ClaimInMemory, LookupFinds, LookupMisses,
         LookupFails, RegisterReads, Fill, Truncate, RegisterFails, Restart, Tick, Disable
<1>4. ASSUME NEW c \in Deliveries, pc[c] # "new"
      PROVE  at'[c] = at[c] /\ after'[c] = after[c] /\ pc'[c] # "new"
  BY <1>4 DEF IInv, GuardTypeOK, GuardNext, guardVars, history, Dropped, AskFile, ClaimInMemory, ClaimBegins,
         LookupFinds, LookupMisses, LookupFails, RegisterReads, Fill, Truncate, RegisterFails,
         Restart, Tick, Go, AtFile, Registering
<1>5. ASSUME NEW c \in Deliveries, pc[c] = "claimed" PROVE pc'[c] = "claimed"
  BY <1>5 DEF IInv, GuardTypeOK, GuardNext, guardVars, history, Dropped, AskFile, ClaimInMemory, ClaimBegins,
         LookupFinds, LookupMisses, LookupFails, RegisterReads, Fill, Truncate, RegisterFails,
         Restart, Tick, Go, AtFile, Registering
<1> QED
  BY <1>1, <1>2, <1>3, <1>4, <1>5

\* The step in which a delivery goes from one place to another is its own, or the
\* restart.
LEMMA Moves ==
    ASSUME IInv, [GuardNext]_guardVars, NEW d \in Deliveries, pc'[d] # pc[d]
    PROVE  \/ pc[d] = "new" /\ (Dropped(d) \/ AskFile(d) \/ ClaimInMemory(d))
           \/ pc[d] = "lookup" /\ (LookupFinds(d) \/ LookupMisses(d) \/ LookupFails(d))
           \/ pc[d] = "register" /\ \E S \in SUBSET MessageKeys : RegisterReads(d, S)
           \/ pc[d] = "write" /\ Truncate(d)
           \/ pc[d] = "fill" /\ \E Rest \in SUBSET MessageKeys : Fill(d, Rest)
           \/ RegisterFails(d)
           \/ Restart
<1>1. PICK e \in Deliveries :
         \/ Dropped(e) \/ AskFile(e) \/ ClaimInMemory(e)
         \/ LookupFinds(e) \/ LookupMisses(e) \/ LookupFails(e)
         \/ \E S \in SUBSET MessageKeys : RegisterReads(e, S) \/ Fill(e, S)
         \/ Truncate(e) \/ RegisterFails(e) \/ Restart
  BY DEF GuardNext, Tick, guardVars
<1>2. CASE e = d
  BY <1>1, <1>2 DEF Dropped, AskFile, ClaimInMemory, ClaimBegins, LookupFinds, LookupMisses,
     LookupFails, RegisterReads, Fill, Truncate
<1>3. CASE e # d
  BY <1>1, <1>3 DEF IInv, GuardTypeOK, Go, Dropped, AskFile, ClaimInMemory, LookupFinds, LookupMisses,
     LookupFails, RegisterReads, Fill, Truncate, RegisterFails
<1> QED
  BY <1>2, <1>3

\* A delivery gets a claim when neither the Map nor the file is seen to have it.
LEMMA NewHolder ==
    ASSUME IInv, [GuardNext]_guardVars, NEW d \in Deliveries, ~Claimed(d), Claimed(d)'
    PROVE  ClaimInMemory(d) \/ LookupMisses(d) \/ LookupFails(d)
<1>1. pc'[d] # pc[d] /\ pc[d] \notin {"register", "write", "fill", "claimed"}
  BY DEF Claimed, Registering, AtFile
<1>2. Dropped(d) \/ AskFile(d) \/ LookupFinds(d) \/ RegisterFails(d) \/ Restart => ~Claimed(d)'
  BY <1>1 DEF Dropped, AskFile, LookupFinds, RegisterFails, Restart, Go, Claimed, Registering,
     AtFile, IInv, GuardTypeOK
<1> QED
  BY <1>1, <1>2, Moves

\* What is remembered is in the Map, and of the rest what is dropped or cut short
\* counts as lost.
LEMMA RememberHolds ==
    ASSUME GuardTypeOK, RanksBelow, NEW d \in Deliveries, NEW until \in Nat, Remember(d, until)
    PROVE  /\ \E claim \in memory' : claim.key = message[d] /\ claim.until = until
           /\ \A c \in Holders \ memoryLost' : InMap(c) =>
                 \E claim \in memory' : claim.key = message[c] /\ claim.until >= at[c] + Ttl
           /\ \A claim \in memory' : claim.rank <= inserted'
<1> DEFINE new == [key |-> message[d], until |-> until, rank |-> inserted']
           other == {c \in memory : c.key # message[d]}
           claims == other \cup {new}
<1>1. /\ inserted' = inserted + 1 /\ inserted \in Nat
      /\ memory \subseteq [key : MessageKeys, until : Nat, rank : Nat]
      /\ memory' \subseteq [key : MessageKeys, until : Nat, rank : Nat]
      /\ memory' \subseteq memory \cup {new}
  BY RememberKeeps DEF Remember, GuardTypeOK
<1>2. \A c \in other : c.rank < new.rank /\ c.rank \in Nat
  BY <1>1 DEF RanksBelow
<1>3. new \in memory'
  <2>1. memory' = Newest(claims)
    BY DEF Remember
  <2>2. CASE Cardinality(claims) > MaxEntries
    <3> HIDE DEF other, new
    <3>1. other # {}
      <4> SUFFICES ASSUME other = {} PROVE FALSE
        OBVIOUS
      <4>1. claims = {new} /\ Cardinality({new}) = 1
        BY FS_Singleton
      <4> QED
        BY <2>2, <4>1, ReplayAssumption
    <3>2. PICK c \in other : TRUE
      BY <3>1
    <3>3. new.rank \in Nat
      BY <1>1 DEF new
    <3>4. \A e \in claims : e.rank \in Nat
      BY <1>2, <3>3
    <3>5. Oldest(claims).rank <= c.rank
      BY <3>2, <3>4, OldestLeast
    <3>6. Oldest(claims) # new
      BY <1>2, <3>2, <3>3, <3>5
    <3> QED
      BY <2>1, <2>2, <3>6 DEF Newest
  <2>3. CASE ~(Cardinality(claims) > MaxEntries)
    BY <2>1, <2>3 DEF Newest
  <2> QED
    BY <2>2, <2>3
<1>4. ASSUME NEW c \in Holders, c \notin memoryLost', InMap(c)
      PROVE  \E claim \in memory' : claim.key = message[c] /\ claim.until >= at[c] + Ttl
  <2>1. PICK claim \in memory : claim.key = message[c] /\ claim.until >= at[c] + Ttl
    BY <1>4 DEF InMap
  <2>2. PICK e \in memory' : e.key = message[c] /\ ~(e.until < claim.until)
    BY <1>4, <2>1 DEF Remember
  <2>3. at[c] + Ttl \in Nat /\ e.until \in Nat /\ claim.until \in Nat
    BY <1>1, <1>4, ReplayAssumption DEF GuardTypeOK, Holders
  <2> QED
    BY <2>1, <2>2, <2>3
<1>5. \A claim \in memory' : claim.rank <= inserted'
  BY <1>1 DEF RanksBelow
<1> QED
  BY <1>3, <1>4, <1>5

\* A step on the Map is one of a delivery that remembers, or drops nothing but by
\* a restart.
LEMMA MapSteps ==
    ASSUME IInv, [GuardNext]_guardVars
    PROVE  \/ \E d \in Deliveries : \E until \in Nat :
                 /\ Remember(d, until) /\ UNCHANGED message
                 /\ \A c \in Deliveries \ {d} : pc'[c] = pc[c] /\ at'[c] = at[c]
                 /\ pc'[d] = "duplicate" \/ until = at'[d] + Ttl
           \/ Restart
           \/ /\ UNCHANGED <<memory, inserted, memoryLost, message>>
              /\ Holders' \subseteq Holders
<1>1. ASSUME NEW d \in Deliveries, ClaimInMemory(d)
      PROVE  \E until \in Nat :
                 /\ Remember(d, until) /\ UNCHANGED message
                 /\ \A c \in Deliveries \ {d} : pc'[c] = pc[c] /\ at'[c] = at[c]
                 /\ pc'[d] = "duplicate" \/ until = at'[d] + Ttl
  <2>1. PICK until \in Nat : until = clock + Ttl
    BY ReplayAssumption DEF IInv, GuardTypeOK
  <2>2. /\ Remember(d, until) /\ UNCHANGED message /\ until = at'[d] + Ttl
        /\ \A c \in Deliveries \ {d} : pc'[c] = pc[c] /\ at'[c] = at[c]
    BY <1>1, <2>1 DEF IInv, GuardTypeOK, ClaimInMemory, ClaimBegins, Go
  <2> QED
    BY <2>2
<1>2. ASSUME NEW d \in Deliveries, LookupMisses(d) \/ LookupFails(d)
      PROVE  \E until \in Nat :
                 /\ Remember(d, until) /\ UNCHANGED message
                 /\ \A c \in Deliveries \ {d} : pc'[c] = pc[c] /\ at'[c] = at[c]
                 /\ pc'[d] = "duplicate" \/ until = at'[d] + Ttl
  <2>1. PICK until \in Nat : until = at[d] + Ttl
    BY ReplayAssumption DEF IInv, GuardTypeOK
  <2>2. /\ Remember(d, until) /\ UNCHANGED message /\ until = at'[d] + Ttl
        /\ \A c \in Deliveries \ {d} : pc'[c] = pc[c] /\ at'[c] = at[c]
    BY <1>2, <2>1 DEF IInv, GuardTypeOK, LookupMisses, LookupFails, Go
  <2> QED
    BY <2>2
<1>3. ASSUME NEW d \in Deliveries, LookupFinds(d)
      PROVE  \E until \in Nat :
                 /\ Remember(d, until) /\ UNCHANGED message
                 /\ \A c \in Deliveries \ {d} : pc'[c] = pc[c] /\ at'[c] = at[c]
                 /\ pc'[d] = "duplicate" \/ until = at'[d] + Ttl
  <2>1. PICK until \in Nat : until = file[message[d]]
    BY DEF IInv, GuardTypeOK
  <2>2. /\ Remember(d, until) /\ UNCHANGED message /\ pc'[d] = "duplicate"
        /\ \A c \in Deliveries \ {d} : pc'[c] = pc[c] /\ at'[c] = at[c]
    BY <1>3, <2>1 DEF IInv, GuardTypeOK, LookupFinds, OnRecord, Go
  <2> QED
    BY <2>2
<1>4. ASSUME NEW d \in Deliveries, NEW S \in SUBSET MessageKeys,
             Dropped(d) \/ AskFile(d) \/ RegisterReads(d, S) \/ Fill(d, S) \/ Truncate(d)
                \/ RegisterFails(d)
      PROVE  UNCHANGED <<memory, inserted, memoryLost, message>> /\ Holders' \subseteq Holders
  BY <1>4 DEF IInv, GuardTypeOK, Dropped, AskFile, ClaimBegins, RegisterReads, Fill, Truncate,
         RegisterFails, Go, Holders, Claimed, Registering, AtFile
<1>5. ASSUME Tick \/ UNCHANGED guardVars
      PROVE  UNCHANGED <<memory, inserted, memoryLost, message>> /\ Holders' \subseteq Holders
  BY <1>5 DEF Tick, guardVars, history, Holders, Claimed, Registering
<1> QED
  BY <1>1, <1>2, <1>3, <1>4, <1>5 DEF GuardNext

LEMMA RememberedStep == IInv /\ ClaimsHeld /\ [GuardNext]_guardVars => RanksBelow' /\ Remembered'
<1> SUFFICES ASSUME IInv, ClaimsHeld, [GuardNext]_guardVars PROVE RanksBelow' /\ Remembered'
  OBVIOUS
<1>1. GuardTypeOK /\ RanksBelow /\ Remembered
  BY DEF IInv, ClaimsHeld
<1>2. CASE Restart
  BY <1>2 DEF Restart, RanksBelow, Remembered, Holders, Claimed, Registering, AtFile
<1>3. CASE UNCHANGED <<memory, inserted, memoryLost, message>> /\ Holders' \subseteq Holders
  <2>1. \A c \in Holders : at'[c] = at[c]
    BY Courses DEF Holders, Claimed, Registering, AtFile
  <2> QED
    BY <1>1, <1>3, <2>1 DEF RanksBelow, Remembered, InMap
<1>4. ASSUME NEW d \in Deliveries, NEW until \in Nat, Remember(d, until), UNCHANGED message,
             \A c \in Deliveries \ {d} : pc'[c] = pc[c] /\ at'[c] = at[c],
             pc'[d] = "duplicate" \/ until = at'[d] + Ttl
      PROVE  RanksBelow' /\ Remembered'
  <2>1. /\ \E claim \in memory' : claim.key = message[d] /\ claim.until = until
        /\ \A c \in Holders \ memoryLost' : InMap(c) =>
              \E claim \in memory' : claim.key = message[c] /\ claim.until >= at[c] + Ttl
        /\ \A claim \in memory' : claim.rank <= inserted'
    BY <1>1, <1>4, RememberHolds
  <2>2. ASSUME NEW c \in Holders', c \notin memoryLost' PROVE InMap(c)'
    <3>1. CASE c = d
      <4>1. until = at'[d] + Ttl
        BY <1>4, <3>1 DEF Holders, Claimed, Registering, AtFile
      <4> QED
        BY <1>4, <2>1, <3>1, <4>1 DEF InMap
    <3>2. CASE c # d
      <4>1. c \in Holders /\ at'[c] = at[c]
        BY <1>4, <3>2 DEF Holders, Claimed, Registering
      <4>2. c \notin memoryLost
        BY <2>2, Courses
      <4>3. InMap(c)
        BY <1>1, <4>1, <4>2 DEF Remembered
      <4> QED
        BY <1>4, <2>1, <2>2, <4>1, <4>3 DEF InMap
    <3> QED
      BY <3>1, <3>2
  <2> QED
    BY <2>1, <2>2 DEF RanksBelow, Remembered
<1> QED
  BY <1>2, <1>3, <1>4, MapSteps

\* A register that another has overlapped has lost everything by then, and so has
\* one under way when persistence is switched off.
LEMMA AloneStep == IInv /\ ClaimsHeld /\ [GuardNext]_guardVars => FillAlone' /\ DisabledLoses' /\ AfterClaimed'
<1> SUFFICES ASSUME IInv, ClaimsHeld, [GuardNext]_guardVars PROVE FillAlone' /\ DisabledLoses' /\ AfterClaimed'
  OBVIOUS
<1> USE DEF IInv, ClaimsHeld, GuardTypeOK
<1>1. FillAlone'
  <2> SUFFICES ASSUME NEW e \in Deliveries, pc'[e] = "fill", Registering' # {e}, NEW c \in Holders'
               PROVE  c \in fileLost'
    BY DEF FillAlone
  <2>1. c \in Deliveries /\ e \in Registering' /\ e \in Registering
    BY DEF Holders, Registering, AtFile, GuardNext, guardVars, Dropped, AskFile, ClaimInMemory, ClaimBegins,
           LookupFinds, LookupMisses, LookupFails, RegisterReads, Fill, Truncate, RegisterFails,
           Restart, Tick, Go
  <2>2. fileLost \subseteq fileLost'
    BY Courses
  <2>3. CASE Registering # {e} /\ pc[e] = "fill"
    <3>1. Holders \subseteq fileLost
      BY <2>3 DEF FillAlone
    <3>2. CASE c \in Holders
      BY <2>2, <3>1, <3>2
    <3>3. CASE c \notin Holders
      BY <2>1, <2>3, <3>3 DEF Holders, Claimed, Registering, AtFile, GuardNext, guardVars, history, Dropped,
         AskFile, ClaimInMemory, ClaimBegins, LookupFinds, LookupMisses, LookupFails, RegisterReads,
         Fill, Truncate, RegisterFails, Restart, Tick, Go, Disable
    <3> QED
      BY <3>2, <3>3
  <2>4. CASE pc[e] # "fill"
    <3>1. Truncate(e)
      BY <2>1, <2>4 DEF GuardNext, guardVars, Dropped, AskFile, ClaimInMemory, ClaimBegins, LookupFinds,
         LookupMisses, LookupFails, RegisterReads, Fill, Truncate, RegisterFails, Restart, Tick,
         Go, AtFile
    <3>2. Registering' = Registering /\ Holders' = Holders
      BY <3>1 DEF Truncate, Go, Registering, Holders, Claimed, AtFile
    <3> QED
      BY <3>1, <3>2 DEF Truncate
  <2>5. CASE Registering = {e} /\ pc[e] = "fill"
    <3>1. PICK f \in Registering' : f # e
      BY <2>1
    <3>2. f \in Deliveries /\ f \notin Registering
      BY <2>5, <3>1 DEF Registering
    <3>3. LookupMisses(f)
      BY <3>1, <3>2 DEF Registering, AtFile, GuardNext, guardVars, Dropped, AskFile, ClaimInMemory, ClaimBegins,
         LookupFinds, LookupMisses, LookupFails, RegisterReads, Fill, Truncate, RegisterFails,
         Restart, Tick, Go
    <3>4. fileLost' = fileLost \cup Holders \cup {f} /\ (c = f \/ c \in Holders)
      BY <2>1, <2>5, <3>3 DEF LookupMisses, Go, Holders, Claimed, Registering, AtFile
    <3> QED
      BY <3>4
  <2> QED
    BY <2>3, <2>4, <2>5
<1>2. DisabledLoses'
  <2> SUFFICES ASSUME disabled', NEW c \in Holders' PROVE c \in fileLost'
    BY DEF DisabledLoses
  <2>1. c \in Deliveries
    BY DEF Holders
  <2>2. CASE c \in fileLost
    BY <2>2, Courses
  <2>3. CASE c \notin fileLost /\ c \in Holders
    <3>1. ~disabled
      BY <2>3 DEF DisabledLoses
    <3> QED
      BY <2>3, <3>1 DEF GuardNext, guardVars, Dropped, AskFile, ClaimInMemory, LookupFinds, LookupMisses,
         LookupFails, RegisterReads, Fill, Truncate, RegisterFails, Restart, Tick, Disable
  <2>4. CASE c \notin Holders
    <3>1. ClaimInMemory(c) \/ LookupMisses(c) \/ LookupFails(c)
      BY <2>1, <2>4, NewHolder DEF Holders
    <3> QED
      BY <3>1 DEF ClaimInMemory, LookupMisses, LookupFails, Disable
  <2> QED
    BY <2>2, <2>3, <2>4
<1>3. AfterClaimed'
  <2> SUFFICES ASSUME NEW d \in Deliveries, NEW c \in after'[d] PROVE pc'[c] = "claimed"
    BY DEF AfterClaimed
  <2>1. CASE after'[d] = after[d]
    <3>1. c \in Deliveries /\ pc[c] = "claimed"
      BY <2>1 DEF AfterClaimed
    <3> QED
      BY <3>1, Courses
  <2>2. CASE after'[d] # after[d]
    <3>1. ClaimBegins(d)
      BY <2>2 DEF GuardNext, guardVars, history, Dropped, AskFile, ClaimInMemory, ClaimBegins, LookupFinds,
         LookupMisses, LookupFails, RegisterReads, Fill, Truncate, RegisterFails, Restart, Tick
    <3>2. c \in Deliveries /\ pc[c] = "claimed"
      BY <3>1 DEF ClaimBegins
    <3> QED
      BY <3>2, Courses
  <2> QED
    BY <2>1, <2>2
<1> QED
  BY <1>1, <1>2, <1>3

\* Who has been answered without loss was answered by a register that ran alone.
LEMMA AnsweredByFill ==
    ASSUME IInv, ClaimsHeld, [GuardNext]_guardVars, NEW c \in Deliveries, pc[c] # "claimed", pc'[c] = "claimed",
           c \notin fileLost'
    PROVE  Registering = {c} /\ \E Rest \in SUBSET MessageKeys : Fill(c, Rest)
<1>1. ~ClaimInMemory(c) /\ ~LookupFails(c) /\ ~LookupMisses(c)
  BY DEF ClaimInMemory, LookupFails, LookupMisses, Disable, Go, IInv, GuardTypeOK
<1>2. ~RegisterFails(c)
  BY DEF RegisterFails, Disable
<1>3. ~Dropped(c) /\ ~AskFile(c) /\ ~LookupFinds(c) /\ ~Truncate(c) /\ ~Restart
  BY DEF Dropped, AskFile, LookupFinds, Truncate, Restart, Go, IInv, GuardTypeOK
<1>4. ASSUME NEW S \in SUBSET MessageKeys, RegisterReads(c, S) PROVE FALSE
  BY <1>4 DEF RegisterReads, Go, IInv, GuardTypeOK
<1>5. PICK Rest \in SUBSET MessageKeys : Fill(c, Rest)
  BY <1>1, <1>2, <1>3, <1>4, Moves
<1>6. c \in Registering /\ c \in Holders
  BY <1>5 DEF Fill, Registering, Holders, Claimed, AtFile
<1> QED
  BY <1>5, <1>6 DEF Fill

LEMMA InContentStep == IInv /\ ClaimsHeld /\ [GuardNext]_guardVars => InContent'
<1> SUFFICES ASSUME IInv, ClaimsHeld, [GuardNext]_guardVars,
                    NEW e \in Deliveries, pc'[e] \in {"write", "fill"},
                    NEW c \in Deliveries, c \notin fileLost', pc'[c] = "claimed" \/ c = e
             PROVE  content'[e][message'[c]] >= at'[c] + Ttl
  BY DEF InContent
<1>1. message' = message /\ c \notin fileLost /\ (pc[c] # "new" => at'[c] = at[c])
  BY Courses
<1>2. CASE pc[e] = "register"
  <2>1. PICK S \in SUBSET MessageKeys : RegisterReads(e, S)
    <3>1. ~RegisterFails(e) /\ ~Restart
      BY <1>2 DEF RegisterFails, Restart, Go, IInv, GuardTypeOK, AtFile
    <3> QED
      BY <1>2, <3>1, Moves
  <2>2. (pc[c] = "claimed" \/ c = e) /\ c \in Holders /\ pc[c] # "new"
    BY <1>2, <2>1 DEF RegisterReads, Go, IInv, GuardTypeOK, Holders, Claimed, Registering, AtFile
  <2>3. CASE \A f \in Deliveries : pc[f] # "fill"
    <3>1. message[c] \in MessageKeys /\ message[e] \in MessageKeys /\ at[c] \in Nat /\ at[e] \in Nat /\ clock \in Nat
      BY DEF IInv, GuardTypeOK
    <3>2. at[e] = clock
      BY <1>2 DEF IInv, BusyInTime, Busy, AtFile
    <3>3. at[c] <= clock
      BY DEF ClaimsHeld, TimesPast
    <3>4. Merged(e)[message[c]] >= at[c] + Ttl
      BY <1>1, <2>2, <2>3, <3>1, <3>2, <3>3, ReplayAssumption
         DEF Merged, ClaimsHeld, OnFile, IInv, GuardTypeOK
    <3>5. message[c] \in S
      BY <1>1, <2>1, <2>2, <3>1, <3>4, ReplayAssumption DEF RegisterReads
    <3>6. content'[e][message[c]] = Merged(e)[message[c]]
      BY <2>1, <3>1, <3>5 DEF RegisterReads, IInv, GuardTypeOK
    <3> QED
      BY <1>1, <2>2, <3>4, <3>6
  <2>4. CASE \E f \in Deliveries : pc[f] = "fill"
    <3>1. PICK f \in Deliveries : pc[f] = "fill"
      BY <2>4
    <3>2. Registering # {f}
      BY <1>2, <3>1 DEF Registering, AtFile
    <3>3. Holders \subseteq fileLost
      BY <3>1, <3>2 DEF ClaimsHeld, FillAlone
    <3> QED
      BY <1>1, <2>2, <3>3
  <2> QED
    BY <2>3, <2>4
<1>3. CASE pc[e] # "register"
  <2>1. pc[e] \in {"write", "fill"} /\ content'[e] = content[e]
    BY <1>3 DEF GuardNext, guardVars, Dropped, AskFile, ClaimInMemory, ClaimBegins, LookupFinds, LookupMisses,
       LookupFails, RegisterReads, Fill, Truncate, RegisterFails, Restart, Tick, Go, IInv, GuardTypeOK,
       AtFile
  <2>2. CASE pc[c] = "claimed" \/ c = e
    BY <1>1, <2>1, <2>2 DEF ClaimsHeld, InContent
  <2>3. CASE pc[c] # "claimed" /\ c # e
    <3>1. Registering = {c}
      BY <2>3, AnsweredByFill
    <3> QED
      BY <2>1, <2>3, <3>1 DEF Registering, AtFile
  <2> QED
    BY <2>2, <2>3
<1> QED
  BY <1>2, <1>3

LEMMA OnFileStep == IInv /\ ClaimsHeld /\ [GuardNext]_guardVars => OnFile'
<1> SUFFICES ASSUME IInv, ClaimsHeld, [GuardNext]_guardVars,
                    \A e \in Deliveries : pc'[e] # "fill",
                    NEW c \in Deliveries, c \notin fileLost', pc'[c] = "claimed"
             PROVE  file'[message'[c]] >= at'[c] + Ttl
  BY DEF OnFile
<1>1. message' = message /\ c \notin fileLost /\ (pc[c] # "new" => at'[c] = at[c])
  BY Courses
<1>2. CASE \E e \in Deliveries : pc[e] = "fill"
  <2>1. PICK e \in Deliveries : pc[e] = "fill"
    BY <1>2
  <2>2. e \in Registering
    BY <2>1 DEF Registering, AtFile
  <2>3. \/ \E Rest \in SUBSET MessageKeys : Fill(e, Rest)
        \/ RegisterFails(e) \/ Restart
    BY <2>1, Moves
  <2>4. c \in Holders /\ (pc[c] = "claimed" \/ c = e) /\ pc[c] # "new"
    BY <2>1, <2>2, <2>3 DEF Fill, RegisterFails, Restart, Go, IInv, GuardTypeOK, Holders, Claimed, AtFile
  <2>5. ~RegisterFails(e) /\ ~Restart
    BY <1>1, <2>1, <2>4 DEF RegisterFails, Disable, Restart
  <2>6. PICK Rest \in SUBSET MessageKeys : Fill(e, Rest)
    BY <2>3, <2>5
  <2>7. content[e][message[c]] >= at[c] + Ttl
    BY <1>1, <2>1, <2>4 DEF ClaimsHeld, InContent
  <2>8. message[c] \in MessageKeys /\ at[c] \in Nat
    BY DEF IInv, GuardTypeOK
  <2>9. content[e][message[c]] # 0
    BY <2>7, <2>8, ReplayAssumption
  <2>10. file'[message[c]] = content[e][message[c]]
    BY <2>6, <2>8, <2>9 DEF Fill
  <2> QED
    BY <1>1, <2>4, <2>7, <2>10
<1>3. CASE \A e \in Deliveries : pc[e] # "fill"
  <2>1. pc[c] = "claimed"
    BY <1>3, AnsweredByFill DEF Fill
  <2>2. file[message[c]] >= at[c] + Ttl
    BY <1>1, <1>3, <2>1 DEF ClaimsHeld, OnFile
  <2>3. file' = file
    BY <1>3 DEF GuardNext, guardVars, Dropped, AskFile, ClaimInMemory, ClaimBegins, LookupFinds, LookupMisses,
       LookupFails, RegisterReads, Fill, Truncate, RegisterFails, Restart, Tick, Go, IInv, GuardTypeOK,
       AtFile
  <2> QED
    BY <1>1, <2>1, <2>2, <2>3
<1> QED
  BY <1>2, <1>3

LEMMA MissingStep == IInv /\ ClaimsHeld /\ [GuardNext]_guardVars => StillMissing'
<1> SUFFICES ASSUME IInv, ClaimsHeld, [GuardNext]_guardVars, NEW d \in Deliveries, NEW c \in after'[d],
                    pc'[d] = "lookup", message'[c] = message'[d]
             PROVE  at'[d] >= at'[c] + Ttl \/ c \in memoryLost'
  BY DEF StillMissing
<1>1. message' = message /\ memoryLost \subseteq memoryLost'
  BY Courses
<1>2. CASE pc[d] = "lookup"
  <2>1. at'[d] = at[d] /\ after'[d] = after[d]
    BY <1>2, Courses
  <2>2. c \in Deliveries /\ pc[c] = "claimed"
    BY <2>1 DEF ClaimsHeld, AfterClaimed, IInv, GuardTypeOK
  <2>3. at'[c] = at[c]
    BY <2>2, Courses
  <2> QED
    BY <1>1, <1>2, <2>1, <2>3 DEF ClaimsHeld, StillMissing
<1>3. CASE pc[d] # "lookup"
  <2>1. AskFile(d)
    BY <1>3 DEF GuardNext, guardVars, Dropped, AskFile, ClaimInMemory, ClaimBegins, LookupFinds, LookupMisses,
       LookupFails, RegisterReads, Fill, Truncate, RegisterFails, Restart, Tick, Go, IInv, GuardTypeOK,
       AtFile
  <2>2. /\ at'[d] = clock /\ ~InMemory(message[d], clock)
        /\ c \in Deliveries /\ pc[c] = "claimed"
    BY <2>1 DEF AskFile, ClaimBegins, IInv, GuardTypeOK
  <2>3. at'[c] = at[c] /\ c \in Holders
    BY <2>2, Courses DEF Holders, Claimed
  <2>4. CASE c \notin memoryLost
    <3>1. PICK claim \in memory : claim.key = message[c] /\ claim.until >= at[c] + Ttl
      BY <2>3, <2>4 DEF ClaimsHeld, Remembered, InMap
    <3>2. ~(claim.until > clock)
      BY <1>1, <2>2, <3>1 DEF InMemory, Live
    <3>3. claim.until \in Nat /\ clock \in Nat /\ at[c] + Ttl \in Nat
      BY <2>2, ReplayAssumption DEF IInv, GuardTypeOK
    <3> QED
      BY <2>2, <2>3, <3>1, <3>2, <3>3
  <2> QED
    BY <1>1, <2>4
<1> QED
  BY <1>2, <1>3

LEMMA TimesStep == IInv /\ ClaimsHeld /\ [GuardNext]_guardVars => TimesPast'
<1> SUFFICES ASSUME IInv, ClaimsHeld, [GuardNext]_guardVars, NEW c \in Deliveries PROVE at'[c] <= clock'
  BY DEF TimesPast
<1>1. clock' = clock \/ clock' = clock + 1
  BY DEF GuardNext, guardVars, Dropped, AskFile, ClaimInMemory, ClaimBegins, LookupFinds, LookupMisses,
     LookupFails, RegisterReads, Fill, Truncate, RegisterFails, Restart, Tick
<1>2. at'[c] = at[c] \/ at'[c] = clock
  BY DEF GuardNext, guardVars, Dropped, AskFile, ClaimInMemory, ClaimBegins, LookupFinds, LookupMisses,
     LookupFails, RegisterReads, Fill, Truncate, RegisterFails, Restart, Tick, IInv, GuardTypeOK
<1> QED
  BY <1>1, <1>2 DEF ClaimsHeld, TimesPast, IInv, GuardTypeOK

\* A second claim is made after a look into the Map and one into the file; what
\* neither had is lost or over.
LEMMA OnceStep == IInv /\ ClaimsHeld /\ [GuardNext]_guardVars => OnceAfterAnswer'
<1> SUFFICES ASSUME IInv, ClaimsHeld, [GuardNext]_guardVars, NEW d \in Deliveries, NEW c \in after'[d],
                    Claimed(d)', message'[c] = message'[d]
             PROVE  at'[d] >= at'[c] + Ttl \/ c \in memoryLost' \cap fileLost'
  BY DEF OnceAfterAnswer
<1>1. message' = message /\ memoryLost \subseteq memoryLost' /\ fileLost \subseteq fileLost'
  BY Courses
<1>2. CASE Claimed(d)
  <2>1. at'[d] = at[d] /\ after'[d] = after[d]
    BY <1>2, Courses DEF Claimed, Registering, AtFile
  <2>2. c \in Deliveries /\ pc[c] = "claimed"
    BY <2>1 DEF ClaimsHeld, AfterClaimed, IInv, GuardTypeOK
  <2>3. at'[c] = at[c]
    BY <2>2, Courses
  <2> QED
    BY <1>1, <1>2, <2>1, <2>3 DEF ClaimsHeld, OnceAfterAnswer
<1>3. CASE ~Claimed(d)
  <2>1. ClaimInMemory(d) \/ LookupMisses(d) \/ LookupFails(d)
    BY <1>3 DEF Claimed, Registering, AtFile, GuardNext, guardVars, Dropped, AskFile, ClaimInMemory, ClaimBegins,
       LookupFinds, LookupMisses, LookupFails, RegisterReads, Fill, Truncate, RegisterFails,
       Restart, Tick, Go, IInv, GuardTypeOK
  <2>2. CASE ClaimInMemory(d)
    <3>1. /\ at'[d] = clock /\ ~InMemory(message[d], clock) /\ disabled
          /\ c \in Deliveries /\ pc[c] = "claimed"
      BY <2>2 DEF ClaimInMemory, ClaimBegins, IInv, GuardTypeOK
    <3>2. at'[c] = at[c] /\ c \in Holders
      BY <3>1, Courses DEF Holders, Claimed
    <3>3. c \in fileLost
      BY <3>1, <3>2 DEF ClaimsHeld, DisabledLoses
    <3>4. CASE c \notin memoryLost
      <4>1. PICK claim \in memory : claim.key = message[c] /\ claim.until >= at[c] + Ttl
        BY <3>2, <3>4 DEF ClaimsHeld, Remembered, InMap
      <4>2. ~(claim.until > clock)
        BY <1>1, <3>1, <4>1 DEF InMemory, Live
      <4>3. claim.until \in Nat /\ clock \in Nat /\ at[c] + Ttl \in Nat
        BY <3>1, ReplayAssumption DEF IInv, GuardTypeOK
      <4> QED
        BY <3>1, <3>2, <4>1, <4>2, <4>3
    <3> QED
      BY <1>1, <3>3, <3>4
  <2>3. CASE LookupMisses(d) \/ LookupFails(d)
    <3>1. pc[d] = "lookup"
      BY <2>3 DEF LookupMisses, LookupFails
    <3>2. at'[d] = at[d] /\ after'[d] = after[d]
      BY <3>1, Courses
    <3>3. c \in Deliveries /\ pc[c] = "claimed"
      BY <3>2 DEF ClaimsHeld, AfterClaimed, IInv, GuardTypeOK
    <3>4. at'[c] = at[c] /\ c \in Holders
      BY <3>3, Courses DEF Holders, Claimed
    <3>5. at[d] >= at[c] + Ttl \/ c \in memoryLost
      BY <1>1, <3>1, <3>2 DEF ClaimsHeld, StillMissing
    <3>6. at[d] >= at[c] + Ttl \/ c \in fileLost'
      <4>1. CASE LookupFails(d)
        BY <3>4, <4>1 DEF LookupFails, Disable
      <4>2. CASE LookupMisses(d) /\ \E e \in Deliveries : pc[e] = "fill"
        BY <3>4, <4>2 DEF LookupMisses
      <4>3. CASE LookupMisses(d) /\ (\A e \in Deliveries : pc[e] # "fill") /\ c \notin fileLost
        <5>1. file[message[c]] >= at[c] + Ttl
          BY <3>3, <4>3 DEF ClaimsHeld, OnFile
        <5>2. ~(file[message[c]] > at[d])
          BY <1>1, <4>3 DEF LookupMisses, Live
        <5>3. /\ file[message[c]] \in Nat /\ at[d] \in Nat /\ at[c] + Ttl \in Nat
          BY <3>3, ReplayAssumption DEF IInv, GuardTypeOK
        <5> QED
          BY <5>1, <5>2, <5>3
      <4> QED
        BY <1>1, <2>3, <4>1, <4>2, <4>3
    <3> QED
      BY <1>1, <3>2, <3>4, <3>5, <3>6
  <2> QED
    BY <2>1, <2>2, <2>3
<1> QED
  BY <1>2, <1>3

LEMMA Inductive == GuardSpec => [](IInv /\ ClaimsHeld)
<1>1. IInv /\ [GuardNext]_guardVars => IInv'
  BY TypeStep, BusyStep, MemoryStep, FileStep, ContentStep, DuplicateStep DEF IInv
<1>2. IInv /\ ClaimsHeld /\ [GuardNext]_guardVars => ClaimsHeld'
  BY TimesStep, RememberedStep, AloneStep, InContentStep, OnFileStep, MissingStep, OnceStep DEF ClaimsHeld
<1> QED
  BY InitHolds, InitHeld, <1>1, <1>2, PTL DEF GuardSpec

----------------------------------------------------------------------------

\* The Map stays within its limit, and every delivery within its course, through
\* every interleaving of lookups, registers, errors and restarts.
THEOREM TypeCorrect == GuardSpec => []GuardTypeOK
<1>1. IInv => GuardTypeOK
  BY DEF IInv
<1> QED
  BY Inductive, <1>1, PTL

\* No delivery is dropped as a duplicate without another delivery of its message
\* having held the claim less than a lifetime before, whatever is lost.
THEOREM NoneDroppedFalsely == GuardSpec => []NoFalseDuplicate
<1>1. IInv => NoFalseDuplicate
  BY DEF IInv
<1> QED
  BY Inductive, <1>1, PTL

\* A message that was claimed is not claimed again within the lifetime of the claim,
\* unless both the Map and the file had lost it, through any overlap of lookups and
\* registers, errors and restarts.
THEOREM ClaimedOnce == GuardSpec => []OnceAfterAnswer
<1>1. ClaimsHeld => OnceAfterAnswer
  BY DEF ClaimsHeld
<1> QED
  BY Inductive, <1>1, PTL

----------------------------------------------------------------------------
(* The debouncer.                                                           *)

Pending(place) == place \in {"chained", "running"}
Flushed(i) == batchOf[i] # 0

\* The debouncer's state, each part with its type.
BucketTypes ==
    /\ MaxMessages \in Nat /\ count \in 0 .. MaxMessages
    /\ key \in [Messages -> Keys] /\ text \in [Messages -> BOOLEAN]
    /\ bucket \in [Keys -> SUBSET Messages] /\ tail \in [Keys -> 0 .. MaxMessages]
    /\ batchOf \in [Messages -> 0 .. MaxMessages] /\ prev \in [Messages -> 0 .. MaxMessages]
    /\ stage \in [Messages -> {"none", "chained", "running", "resolved", "rejected"}]
    /\ forgotten \subseteq Messages /\ behind \in [Messages -> 0 .. MaxMessages]
    /\ gone \in [cancelled : SUBSET Messages, lost : SUBSET Messages]
    /\ tap \in {"open", "closing", "closed", "not closed"} /\ awaited \subseteq Messages

\* A batch is named for its first message, and a message that is not text is a
\* batch alone; a bucket holds text that was not flushed.
Standing ==
    /\ \A i \in Messages : Flushed(i) =>
          /\ batchOf[i] \in Messages /\ batchOf[batchOf[i]] = batchOf[i]
          /\ stage[batchOf[i]] # "none" /\ i <= count /\ batchOf[i] <= i
          /\ key[batchOf[i]] = key[i] /\ text[batchOf[i]] = text[i]
          /\ ~text[i] => batchOf[i] = i
    /\ \A b \in Messages : stage[b] # "none" => batchOf[b] = b
    /\ \A k \in Keys : \A i \in bucket[k] :
          i <= count /\ key[i] = k /\ text[i] /\ ~Flushed(i)
    /\ \A i \in Messages : behind[i] # 0 => i <= count /\ ~text[i]

\* Text that is not in its bucket was flushed or cancelled, and what is in a
\* bucket is later than all the text its author has had flushed.
Texts ==
    /\ \A i \in Messages : i <= count /\ text[i] =>
          i \in bucket[key[i]] \/ Flushed(i) \/ i \in gone.cancelled
    /\ \A k \in Keys : \A i \in bucket[k] : \A j \in Messages :
          text[j] /\ key[j] = k /\ Flushed(j) => j < i

Links ==
    /\ \A k \in Keys : tail[k] # 0 => stage[tail[k]] # "none" /\ key[tail[k]] = k
    /\ \A b \in Messages : prev[b] # 0 => stage[prev[b]] # "none" /\ key[prev[b]] = key[b]
    /\ \A b \in Messages : stage[b] \notin {"none", "chained"} => Ready(b)

\* The batches of a key that are not over wait in the order of their ranks: each
\* for the one before it, and the Map has the last.
Chained(rank, top) ==
    /\ \A b \in Messages : Pending(stage[b]) =>
          /\ rank[b] < top
          /\ tail[key[b]] # 0 /\ Pending(stage[tail[key[b]]]) /\ rank[b] <= rank[tail[key[b]]]
    /\ \A b, c \in Messages : Pending(stage[b]) /\ Pending(stage[c]) /\ key[b] = key[c] =>
          /\ rank[b] = rank[c] => b = c
          /\ rank[b] < rank[c] =>
                prev[c] # 0 /\ Pending(stage[prev[c]]) /\ rank[b] <= rank[prev[c]]
    /\ \A b \in Messages : Pending(stage[b]) /\ prev[b] # 0 /\ Pending(stage[prev[b]]) =>
          rank[prev[b]] < rank[b]
    /\ \A i, j \in Messages :
          /\ Before(i, j) /\ text[i] /\ text[j] /\ Flushed(i) /\ Flushed(j)
          /\ Pending(stage[batchOf[i]]) /\ batchOf[i] # batchOf[j]
          => Pending(stage[batchOf[j]]) /\ rank[batchOf[i]] < rank[batchOf[j]]

Chain == \E rank \in [Messages -> Nat], top \in Nat : Chained(rank, top)

Closing ==
    /\ tap = "open" => awaited = {}
    /\ \A j \in awaited : batchOf[j] = j /\ text[j]
    /\ tap = "closed" => \A j \in awaited : Settled(j)

BucketInv == BucketTypes /\ Standing /\ Texts /\ Links /\ Chain
DebounceInv == BucketInv /\ Closing

LEMMA FirstLeast ==
    ASSUME NEW S \in SUBSET Nat, S # {}
    PROVE  First(S) \in S /\ \A j \in S : First(S) <= j
<1> DEFINE less == {p \in Nat \X Nat : p[1] < p[2]}
<1>1. \E n \in S : \A m \in S : n <= m
  <2>1. IsWellFoundedOn(less, Nat)
    BY NatLessThanWellFounded DEF OpToRel
  <2>2. \E n \in S : \A m \in S : <<m, n>> \notin less
    BY <2>1, WFMin
  <2>3. PICK n \in S : \A m \in S : <<m, n>> \notin less
    BY <2>2
  <2>4. \A m \in S : ~(m < n)
    BY <2>3
  <2> QED
    BY <2>4
<1> QED
  BY <1>1 DEF First

\* What a flush of the messages in S does, H being the heads of its batches.
FlushEffect(S, H) ==
    /\ \A i \in S : batchOf'[i] \in H /\ key[batchOf'[i]] = key[i] /\ batchOf'[i] <= i
    /\ \A b \in H : /\ b \in S /\ batchOf'[b] = b /\ prev'[b] = tail[key[b]]
                   /\ tail'[key[b]] = b /\ stage'[b] = "chained"
    /\ \A b, c \in H : key[b] = key[c] => b = c
    /\ \A i \in Messages : i \notin S => batchOf'[i] = batchOf[i]
    /\ \A b \in Messages : b \notin H => prev'[b] = prev[b] /\ stage'[b] = stage[b]
    /\ \A k \in Keys : (\A b \in H : key[b] # k) => tail'[k] = tail[k]
    /\ batchOf' \in [Messages -> 0 .. MaxMessages]
    /\ prev' \in [Messages -> 0 .. MaxMessages]
    /\ tail' \in [Keys -> 0 .. MaxMessages]
    /\ stage' \in [Messages -> {"none", "chained", "running", "resolved", "rejected"}]

\* RunFlush has this effect.
LEMMA FlushFacts ==
    ASSUME BucketTypes, NEW S \in SUBSET Messages, RunFlush(S)
    PROVE  FlushEffect(S, Heads(S))
<1> DEFINE Mates(k) == {j \in S : key[j] = k}
<1>n. MaxMessages \in Nat
  BY DEF BucketTypes
<1>a. Messages \subseteq Nat \ {0} /\ Messages \subseteq 0 .. MaxMessages
  BY <1>n DEF Messages
<1>k. \A i \in Messages : key[i] \in Keys
  BY DEF BucketTypes
<1>t. /\ Messages \subseteq Nat \ {0} /\ Messages \subseteq 0 .. MaxMessages
      /\ \A i \in Messages : key[i] \in Keys
  BY <1>a, <1>k
<1>4. /\ batchOf' = [i \in Messages |-> IF i \in S THEN First(Mates(key[i])) ELSE batchOf[i]]
      /\ prev' = [b \in Messages |-> IF b \in Heads(S) THEN tail[key[b]] ELSE prev[b]]
      /\ tail' = [k \in Keys |-> IF \E b \in Heads(S) : key[b] = k THEN First(Mates(k)) ELSE tail[k]]
      /\ stage' = [b \in Messages |-> IF b \in Heads(S) THEN "chained" ELSE stage[b]]
  BY DEF RunFlush, ChainedTo
<1>1. ASSUME NEW i \in S
      PROVE  /\ First(Mates(key[i])) \in S /\ key[First(Mates(key[i]))] = key[i]
             /\ First(Mates(key[i])) <= i /\ First(Mates(key[i])) \in Heads(S)
  <2>1. Mates(key[i]) \in SUBSET Nat /\ i \in Mates(key[i])
    BY <1>t
  <2>h. PICK h : h = First(Mates(key[i]))
    OBVIOUS
  <2>2. h \in Mates(key[i]) /\ h <= i
    BY <2>1, <2>h, FirstLeast
  <2>3. h \in S /\ key[h] = key[i]
    BY <2>2
  <2>4. h = First({j \in S : key[j] = key[h]})
    BY <2>h, <2>3
  <2>5. h \in Heads(S)
    BY <2>3, <2>4 DEF Heads
  <2> QED
    BY <2>2, <2>3, <2>5, <2>h
<1>2. \A b \in Heads(S) : b \in S /\ b = First(Mates(key[b]))
  BY DEF Heads
<1>3. \A k \in Keys : (\E b \in Heads(S) : key[b] = k) => First(Mates(k)) \in Heads(S)
  BY <1>1, <1>2
<1> HIDE DEF Mates
<1>5. /\ batchOf' \in [Messages -> 0 .. MaxMessages]
      /\ prev' \in [Messages -> 0 .. MaxMessages]
      /\ stage' \in [Messages -> {"none", "chained", "running", "resolved", "rejected"}]
  BY <1>t, <1>1, <1>4 DEF BucketTypes
<1>6. tail' \in [Keys -> 0 .. MaxMessages]
  BY <1>t, <1>2, <1>3, <1>4 DEF BucketTypes
<1>7. \A i \in S : /\ batchOf'[i] \in Heads(S) /\ key[batchOf'[i]] = key[i]
                   /\ batchOf'[i] <= i
  BY <1>1, <1>4
<1>8. \A b \in Heads(S) : /\ b \in S /\ batchOf'[b] = b /\ prev'[b] = tail[key[b]]
                          /\ tail'[key[b]] = b /\ stage'[b] = "chained"
  BY <1>t, <1>2, <1>4
<1>9. \A b, c \in Heads(S) : key[b] = key[c] => b = c
  BY <1>2
<1>10. /\ \A i \in Messages : i \notin S => batchOf'[i] = batchOf[i]
       /\ \A b \in Messages : b \notin Heads(S) => prev'[b] = prev[b] /\ stage'[b] = stage[b]
       /\ \A k \in Keys : (\A b \in Heads(S) : key[b] # k) => tail'[k] = tail[k]
  BY <1>4
<1> QED
  BY <1>5, <1>6, <1>7, <1>8, <1>9, <1>10 DEF FlushEffect

\* A flush of what was not flushed: one message, or text and all of its buckets.
Flushes(S) ==
    /\ RunFlush(S)
    /\ count' \in 0 .. MaxMessages /\ count <= count'
    /\ bucket' \in [Keys -> SUBSET Messages] /\ behind' \in [Messages -> 0 .. MaxMessages]
    /\ tap' \in {"open", "closing", "closed", "not closed"} /\ awaited' \subseteq Messages
    /\ UNCHANGED <<key, text, forgotten, gone>>
    /\ \A i \in S : i <= count' /\ batchOf[i] = 0
    /\ (\A i \in S : text[i]) \/ \E i \in S : S = {i} /\ ~text[i]
    /\ \A i \in S : text[i] => i \in bucket[key[i]] /\ bucket'[key[i]] = {}
    /\ \A k \in Keys : bucket'[k] \subseteq bucket[k] \ S
    /\ \A k \in Keys : \A i \in bucket[k] : i \in S \/ i \in bucket'[k]
    /\ \A i \in Messages : text[i] /\ i <= count' => i <= count
    /\ \A i \in Messages : behind'[i] # 0 => behind[i] # 0 \/ (i <= count' /\ ~text[i])

\* ... keeps the invariant: the new batches come last in their chains.
LEMMA FlushStep ==
    ASSUME BucketInv, NEW S \in SUBSET Messages, Flushes(S)
    PROVE  BucketInv'
<1>c. key' = key /\ text' = text /\ forgotten' = forgotten /\ gone' = gone
  BY DEF Flushes
<1>h. PICK H \in SUBSET Messages : FlushEffect(S, H)
  <2>1. FlushEffect(S, Heads(S))
    BY FlushFacts DEF BucketInv, Flushes
  <2>2. Heads(S) \in SUBSET Messages
    BY <2>1 DEF FlushEffect
  <2> QED
    BY <2>1, <2>2
<1>1. BucketTypes'
  <2>1. /\ batchOf' \in [Messages -> 0 .. MaxMessages]
        /\ prev' \in [Messages -> 0 .. MaxMessages]
        /\ tail' \in [Keys -> 0 .. MaxMessages]
        /\ stage' \in [Messages -> {"none", "chained", "running", "resolved", "rejected"}]
    BY <1>h DEF FlushEffect
  <2> QED
    BY <2>1, <1>c DEF Flushes, BucketInv, BucketTypes, Messages
<1>n. /\ Messages \subseteq Nat \ {0} /\ Messages' = Messages /\ MaxMessages \in Nat
      /\ 0 .. MaxMessages = Messages \cup {0}
  <2>1. MaxMessages \in Nat
    BY DEF BucketInv, BucketTypes
  <2> QED
    BY <2>1 DEF Messages
<1>f. /\ key \in [Messages -> Keys]
      /\ bucket \in [Keys -> SUBSET Messages] /\ bucket' \in [Keys -> SUBSET Messages]
      /\ tail \in [Keys -> 0 .. MaxMessages] /\ tail' \in [Keys -> 0 .. MaxMessages]
      /\ prev \in [Messages -> 0 .. MaxMessages] /\ prev' \in [Messages -> 0 .. MaxMessages]
  BY <1>1, <1>n DEF BucketInv, BucketTypes
<1>m. /\ Messages \subseteq Nat \ {0} /\ Messages' = Messages /\ count \in Nat /\ count' \in Nat
      /\ count <= count' /\ MaxMessages \in Nat /\ 0 .. MaxMessages = Messages \cup {0}
      /\ \A i \in Messages : key[i] \in Keys
      /\ \A k \in Keys : bucket[k] \subseteq Messages /\ bucket'[k] \subseteq Messages
      /\ \A k \in Keys : tail[k] # 0 => tail[k] \in Messages
      /\ \A k \in Keys : tail'[k] # 0 => tail'[k] \in Messages
      /\ \A b \in Messages : prev[b] # 0 => prev[b] \in Messages
      /\ \A b \in Messages : prev'[b] # 0 => prev'[b] \in Messages
  <2>1. count \in Nat /\ count' \in Nat /\ count <= count'
    <3>1. count \in 0 .. MaxMessages
      BY DEF BucketInv, BucketTypes
    <3>2. count' \in 0 .. MaxMessages /\ count <= count'
      BY DEF Flushes
    <3> QED
      BY <1>n, <3>1, <3>2
  <2>2. /\ \A i \in Messages : key[i] \in Keys
        /\ \A k \in Keys : bucket[k] \subseteq Messages /\ bucket'[k] \subseteq Messages
    BY <1>f
  <2>3. /\ \A k \in Keys : tail[k] # 0 => tail[k] \in Messages
        /\ \A k \in Keys : tail'[k] # 0 => tail'[k] \in Messages
        /\ \A b \in Messages : prev[b] # 0 => prev[b] \in Messages
        /\ \A b \in Messages : prev'[b] # 0 => prev'[b] \in Messages
    <3> QED
      BY <1>f, <1>n
  <2> QED
    BY <1>n, <2>1, <2>2, <2>3
<1>b. \A i \in Messages : batchOf[i] # 0 =>
          /\ batchOf[i] \in Messages /\ stage[batchOf[i]] # "none" /\ i <= count
          /\ batchOf[i] <= i /\ key[batchOf[i]] = key[i] /\ text[batchOf[i]] = text[i]
          /\ ~text[i] => batchOf[i] = i
  BY DEF BucketInv, Standing, Flushed
<1>s. /\ \A i \in S : i <= count' /\ batchOf[i] = 0 /\ batchOf'[i] \in H
                    /\ key[batchOf'[i]] = key[i] /\ batchOf'[i] <= i
      /\ \A i \in Messages : i \notin S => batchOf'[i] = batchOf[i]
  BY <1>h DEF FlushEffect, Flushes
<1>e. /\ \A b \in H : /\ b \in S /\ b \in Messages /\ batchOf'[b] = b
                     /\ prev'[b] = tail[key[b]] /\ tail'[key[b]] = b /\ stage'[b] = "chained"
      /\ \A b, c \in H : key[b] = key[c] => b = c
      /\ \A b \in Messages : b \notin H => prev'[b] = prev[b] /\ stage'[b] = stage[b]
      /\ \A k \in Keys : (\A b \in H : key[b] # k) => tail'[k] = tail[k]
  BY <1>h DEF FlushEffect
\* A message that is flushed now was in no batch, so the new heads are new.
<1>o. \A b \in Messages : stage[b] # "none" => b \notin H /\ b \notin S /\ stage'[b] = stage[b]
                                            /\ batchOf'[b] = b /\ prev'[b] = prev[b]
  <2>1. \A b \in Messages : stage[b] # "none" => batchOf[b] = b
    BY DEF BucketInv, Standing
  <2>2. \A b \in Messages : stage[b] # "none" => b \notin S
    BY <1>m, <1>s, <2>1
  <2> QED
    BY <1>s, <1>e, <2>1, <2>2
<1>2. Standing'
  <2>1. ASSUME NEW i \in Messages, batchOf'[i] # 0
        PROVE  /\ batchOf'[i] \in Messages /\ batchOf'[batchOf'[i]] = batchOf'[i]
               /\ stage'[batchOf'[i]] # "none" /\ i <= count' /\ batchOf'[i] <= i
               /\ key[batchOf'[i]] = key[i] /\ text[batchOf'[i]] = text[i]
               /\ ~text[i] => batchOf'[i] = i
    <3>1. CASE i \in S
      <4>1. batchOf'[i] \in S
        BY <1>s, <1>e, <3>1
      <4>2. text[batchOf'[i]] = text[i] /\ (~text[i] => batchOf'[i] = i)
        <5>1. CASE \A j \in S : text[j]
          <6>1. text \in [Messages -> BOOLEAN]
            BY DEF BucketInv, BucketTypes
          <6> QED
            BY <3>1, <4>1, <5>1, <6>1
        <5>2. CASE \E j \in S : S = {j}
          BY <3>1, <4>1, <5>2
        <5> QED
          BY <5>1, <5>2 DEF Flushes
      <4> QED
        BY <1>s, <1>e, <3>1, <4>1, <4>2
    <3>2. CASE i \notin S
      <4>1. batchOf[i] # 0 /\ batchOf'[i] = batchOf[i]
        BY <1>s, <2>1, <3>2
      <4>2. /\ batchOf[i] \in Messages /\ stage[batchOf[i]] # "none" /\ i <= count
            /\ batchOf[i] <= i /\ key[batchOf[i]] = key[i] /\ text[batchOf[i]] = text[i]
            /\ ~text[i] => batchOf[i] = i
        BY <1>b, <4>1
      <4>3. batchOf'[batchOf[i]] = batchOf[i] /\ stage'[batchOf[i]] # "none"
        BY <1>o, <4>2
      <4>4. i <= count'
        BY <1>m, <4>2
      <4> QED
        BY <4>1, <4>2, <4>3, <4>4
    <3> QED
      BY <3>1, <3>2
  <2>2. \A b \in Messages : stage'[b] # "none" => batchOf'[b] = b
    BY <1>e, <1>o
  <2>3. ASSUME NEW k \in Keys, NEW i \in bucket'[k]
        PROVE  i <= count' /\ key[i] = k /\ text[i] /\ batchOf'[i] = 0
    <3>1. i \in bucket[k] /\ i \notin S /\ i \in Messages
      BY <1>m DEF Flushes
    <3>2. i <= count /\ key[i] = k /\ text[i] /\ batchOf[i] = 0
      BY <3>1 DEF BucketInv, Standing, Flushed
    <3> QED
      BY <1>s, <1>m, <3>1, <3>2
  <2>4. ASSUME NEW i \in Messages, behind'[i] # 0 PROVE i <= count' /\ ~text[i]
    <3>1. behind[i] # 0 => i <= count /\ ~text[i]
      BY DEF BucketInv, Standing
    <3>2. behind[i] # 0 \/ (i <= count' /\ ~text[i])
      BY <2>4 DEF Flushes
    <3>3. i \in Nat
      BY <1>n
    <3> QED
      BY <1>m, <3>1, <3>2, <3>3
  <2> QED
    BY <1>m, <1>c, <2>1, <2>2, <2>3, <2>4 DEF Standing, Flushed
<1>3. Texts'
  <2>1. ASSUME NEW i \in Messages, i <= count', text[i]
        PROVE  i \in bucket'[key[i]] \/ batchOf'[i] # 0 \/ i \in gone.cancelled
    <3>1. CASE i \in S
      BY <1>s, <1>m, <3>1
    <3>2. CASE i \notin S
      <4>1. i <= count
        BY <2>1 DEF Flushes
      <4>2. i \in bucket[key[i]] \/ batchOf[i] # 0 \/ i \in gone.cancelled
        BY <2>1, <4>1 DEF BucketInv, Texts, Flushed
      <4>3. i \in bucket[key[i]] => i \in bucket'[key[i]]
        BY <1>m, <3>2 DEF Flushes
      <4> QED
        BY <1>s, <3>2, <4>2, <4>3
    <3> QED
      BY <3>1, <3>2
  <2>2. ASSUME NEW k \in Keys, NEW i \in bucket'[k], NEW j \in Messages, text[j], key[j] = k,
               batchOf'[j] # 0
        PROVE  j < i
    <3>1. j \notin S /\ i \in bucket[k]
      BY <2>2 DEF Flushes
    <3>2. batchOf[j] # 0
      BY <1>s, <2>2, <3>1
    <3> QED
      BY <2>2, <3>1, <3>2 DEF BucketInv, Texts, Flushed
  <2> QED
    BY <1>m, <1>c, <2>1, <2>2 DEF Texts, Flushed
<1>4. Links'
  <2>l. /\ \A k \in Keys : tail[k] # 0 => stage[tail[k]] # "none" /\ key[tail[k]] = k
        /\ \A b \in Messages : prev[b] # 0 => stage[prev[b]] # "none" /\ key[prev[b]] = key[b]
        /\ \A b \in Messages : stage[b] \notin {"none", "chained"} => Ready(b)
    BY DEF BucketInv, Links
  <2>1. ASSUME NEW k \in Keys, tail'[k] # 0 PROVE stage'[tail'[k]] # "none" /\ key[tail'[k]] = k
    <3>1. CASE \E b \in H : key[b] = k
      BY <1>e, <3>1
    <3>2. CASE \A b \in H : key[b] # k
      <4>1. tail'[k] = tail[k] /\ tail[k] \in Messages
        BY <1>e, <1>m, <2>1, <3>2
      <4> QED
        BY <1>o, <2>1, <2>l, <4>1
    <3> QED
      BY <3>1, <3>2
  <2>2. ASSUME NEW b \in Messages, prev'[b] # 0
        PROVE  stage'[prev'[b]] # "none" /\ key[prev'[b]] = key[b]
    <3>1. prev'[b] \in Messages
      BY <1>m, <2>2
    <3>2. stage[prev'[b]] # "none" /\ key[prev'[b]] = key[b]
      BY <1>e, <1>m, <2>2, <2>l
    <3> QED
      BY <1>o, <3>1, <3>2
  <2>3. ASSUME NEW b \in Messages, stage'[b] \notin {"none", "chained"} PROVE Ready(b)'
    <3>1. b \notin H /\ stage'[b] = stage[b] /\ prev'[b] = prev[b]
      BY <1>e, <2>3
    <3>2. Ready(b)
      BY <2>3, <2>l, <3>1
    <3>3. prev[b] # 0 => stage'[prev[b]] = stage[prev[b]]
      BY <1>m, <1>o, <2>l
    <3> QED
      BY <3>1, <3>2, <3>3 DEF Ready, Settled
  <2> QED
    BY <1>m, <1>c, <2>1, <2>2, <2>3 DEF Links
<1>5. Chain'
  <2>p. PICK rank \in [Messages -> Nat], top \in Nat : Chained(rank, top)
    BY DEF BucketInv, Chain
  <2>c. /\ \A b \in Messages : Pending(stage[b]) =>
              /\ rank[b] < top /\ tail[key[b]] # 0
              /\ Pending(stage[tail[key[b]]]) /\ rank[b] <= rank[tail[key[b]]]
        /\ \A b, c \in Messages : Pending(stage[b]) /\ Pending(stage[c]) /\ key[b] = key[c] =>
              /\ rank[b] = rank[c] => b = c
              /\ rank[b] < rank[c] =>
                    prev[c] # 0 /\ Pending(stage[prev[c]]) /\ rank[b] <= rank[prev[c]]
    BY <2>p DEF Chained
  <2>r. PICK r \in [Messages -> Nat] :
            /\ \A b \in H : r[b] = top
            /\ \A b \in Messages : b \notin H => r[b] = rank[b]
    <3>1. [b \in Messages |-> IF b \in H THEN top ELSE rank[b]] \in [Messages -> Nat]
      BY <2>p
    <3> QED
      BY <1>e, <3>1
  <2>u. ASSUME NEW b \in Messages, Pending(stage'[b]), b \notin H
        PROVE  Pending(stage[b]) /\ rank[b] < top /\ r[b] = rank[b]
    BY <1>e, <2>c, <2>r, <2>u DEF Pending
  <2>w. ASSUME NEW b \in Messages, Pending(stage[b])
        PROVE  Pending(stage'[b]) /\ b \notin H /\ prev'[b] = prev[b] /\ r[b] = rank[b]
    BY <1>o, <2>r, <2>w DEF Pending
  <2>h. \A b \in H : b \in Messages /\ Pending(stage'[b]) /\ r[b] = top
    BY <1>e, <2>r DEF Pending
  <2>3. ASSUME NEW b \in Messages, Pending(stage'[b])
        PROVE  /\ r[b] < top + 1
               /\ tail'[key[b]] # 0 /\ Pending(stage'[tail'[key[b]]]) /\ r[b] <= r[tail'[key[b]]]
    <3>1. CASE \E c \in H : key[c] = key[b]
      <4>1. PICK c \in H : key[c] = key[b]
        BY <3>1
      <4>2. tail'[key[b]] = c /\ c # 0 /\ r[c] = top /\ Pending(stage'[c])
        BY <1>e, <1>m, <2>h, <4>1
      <4>3. r[b] <= top
        BY <2>3, <2>h, <2>u, <2>p, <2>r
      <4> QED
        BY <2>p, <2>r, <4>2, <4>3
    <3>2. CASE \A c \in H : key[c] # key[b]
      <4>1. b \notin H /\ tail'[key[b]] = tail[key[b]]
        BY <1>e, <1>m, <3>2
      <4>2. Pending(stage[b]) /\ rank[b] < top /\ r[b] = rank[b]
        BY <2>3, <2>u, <4>1
      <4>3. tail[key[b]] # 0 /\ Pending(stage[tail[key[b]]]) /\ rank[b] <= rank[tail[key[b]]]
        BY <2>c, <4>2
      <4>4. tail[key[b]] \in Messages
        BY <1>m, <4>3
      <4>5. Pending(stage'[tail[key[b]]]) /\ r[tail[key[b]]] = rank[tail[key[b]]]
        BY <2>w, <4>3, <4>4
      <4> QED
        BY <4>1, <4>2, <4>3, <4>5, <2>p
    <3> QED
      BY <3>1, <3>2
  <2>4. ASSUME NEW b \in Messages, NEW c \in Messages, Pending(stage'[b]), Pending(stage'[c]), key[b] = key[c]
        PROVE  /\ r[b] = r[c] => b = c
               /\ r[b] < r[c] => prev'[c] # 0 /\ Pending(stage'[prev'[c]]) /\ r[b] <= r[prev'[c]]
    <3>1. CASE b \in H
      <4>1. r[b] = top /\ (c \in H => b = c) /\ (c \notin H => r[c] < top)
        BY <1>e, <2>4, <2>h, <2>u, <3>1
      <4> QED
        BY <2>p, <2>r, <2>4, <4>1, <3>1, <2>h
    <3>2. CASE b \notin H /\ c \in H
      <4>1. Pending(stage[b]) /\ r[b] = rank[b] /\ rank[b] < top
        BY <2>4, <2>u, <3>2
      <4>2. prev'[c] = tail[key[b]] /\ r[c] = top
        BY <1>e, <2>4, <2>h, <3>2
      <4>3. tail[key[b]] # 0 /\ Pending(stage[tail[key[b]]]) /\ rank[b] <= rank[tail[key[b]]]
        BY <2>c, <4>1
      <4>4. tail[key[b]] \in Messages
        BY <1>m, <4>3
      <4>5. Pending(stage'[tail[key[b]]]) /\ r[tail[key[b]]] = rank[tail[key[b]]]
        BY <2>w, <4>3, <4>4
      <4> QED
        BY <2>p, <4>1, <4>2, <4>3, <4>5
    <3>3. CASE b \notin H /\ c \notin H
      <4>1. Pending(stage[b]) /\ Pending(stage[c]) /\ r[b] = rank[b] /\ r[c] = rank[c] /\ prev'[c] = prev[c]
        BY <1>e, <2>4, <2>u, <3>3
      <4>2. /\ rank[b] = rank[c] => b = c
            /\ rank[b] < rank[c] => prev[c] # 0 /\ Pending(stage[prev[c]]) /\ rank[b] <= rank[prev[c]]
        BY <2>c, <2>4, <4>1
      <4>3. prev[c] # 0 /\ Pending(stage[prev[c]])
            => Pending(stage'[prev[c]]) /\ r[prev[c]] = rank[prev[c]]
        BY <1>m, <2>w
      <4> QED
        BY <4>1, <4>2, <4>3
    <3> QED
      BY <3>1, <3>2, <3>3
  <2>5. ASSUME NEW i \in Messages, NEW j \in Messages, Before(i, j), text[i], text[j],
               batchOf'[i] # 0, batchOf'[j] # 0, Pending(stage'[batchOf'[i]]), batchOf'[i] # batchOf'[j]
        PROVE  Pending(stage'[batchOf'[j]]) /\ r[batchOf'[i]] < r[batchOf'[j]]
    <3>0. i < j /\ key[i] = key[j]
      BY <2>5 DEF Before
    <3>1. i \notin S
      <4> SUFFICES ASSUME i \in S PROVE FALSE
        OBVIOUS
      <4>1. j \notin S
        <5> SUFFICES ASSUME j \in S PROVE FALSE
          OBVIOUS
        <5>1. batchOf'[i] \in H /\ batchOf'[j] \in H /\ key[batchOf'[i]] = key[batchOf'[j]]
          BY <1>s, <3>0
        <5> QED
          BY <1>e, <2>5, <5>1
      <4>2. batchOf[j] # 0
        BY <1>s, <2>5, <4>1
      <4>3. i \in bucket[key[i]]
        BY <2>5 DEF Flushes
      <4>4. j < i
        BY <1>m, <2>5, <3>0, <4>2, <4>3 DEF BucketInv, Texts, Flushed
      <4> QED
        BY <1>m, <3>0, <4>4
    <3>2. batchOf'[i] = batchOf[i] /\ batchOf[i] # 0
      BY <1>s, <2>5, <3>1
    <3>3. batchOf[i] \in Messages /\ stage[batchOf[i]] # "none" /\ key[batchOf[i]] = key[i]
      BY <1>b, <3>2
    <3>4. batchOf[i] \notin H
      BY <1>o, <3>3
    <3>5. Pending(stage[batchOf[i]]) /\ r[batchOf[i]] = rank[batchOf[i]] /\ rank[batchOf[i]] < top
      BY <2>5, <2>u, <3>2, <3>3, <3>4
    <3>6. CASE j \in S
      <4>1. batchOf'[j] \in H
        BY <1>s, <3>6
      <4> QED
        BY <2>h, <3>2, <3>5, <4>1
    <3>7. CASE j \notin S
      <4>1. batchOf'[j] = batchOf[j] /\ batchOf[j] # 0
        BY <1>s, <2>5, <3>7
      <4>2. Pending(stage[batchOf[j]]) /\ rank[batchOf[i]] < rank[batchOf[j]]
        BY <2>p, <2>5, <3>2, <3>5, <4>1 DEF Chained, Flushed
      <4>3. batchOf[j] \in Messages
        BY <1>b, <4>1
      <4>4. Pending(stage'[batchOf[j]]) /\ r[batchOf[j]] = rank[batchOf[j]]
        BY <2>w, <4>2, <4>3
      <4> QED
        BY <3>2, <3>5, <4>1, <4>2, <4>4
    <3> QED
      BY <3>6, <3>7
  <2>6. ASSUME NEW b \in Messages, Pending(stage'[b]), prev'[b] # 0, Pending(stage'[prev'[b]])
        PROVE  r[prev'[b]] < r[b]
    <3>1. CASE b \in H
      <4>1. prev'[b] = tail[key[b]] /\ r[b] = top
        BY <1>e, <2>h, <3>1
      <4>2. tail[key[b]] \in Messages /\ stage[tail[key[b]]] # "none"
        BY <1>m, <2>6, <4>1 DEF BucketInv, Links
      <4>3. tail[key[b]] \notin H
        BY <1>o, <4>2
      <4> QED
        BY <2>6, <2>u, <4>1, <4>2, <4>3
    <3>2. CASE b \notin H
      <4>1. prev'[b] = prev[b] /\ Pending(stage[b]) /\ r[b] = rank[b]
        BY <1>e, <2>6, <2>u, <3>2
      <4>2. prev[b] \in Messages /\ stage[prev[b]] # "none"
        BY <1>m, <2>6, <4>1 DEF BucketInv, Links
      <4>3. prev[b] \notin H
        BY <1>o, <4>2
      <4>4. Pending(stage[prev[b]]) /\ r[prev[b]] = rank[prev[b]]
        BY <2>6, <2>u, <4>1, <4>2, <4>3
      <4> QED
        BY <2>6, <2>p, <4>1, <4>4 DEF Chained
    <3> QED
      BY <3>1, <3>2
  <2>7. Chained(r, top + 1)'
    BY <1>m, <1>c, <2>3, <2>4, <2>5, <2>6 DEF Chained, Before, Flushed
  <2> QED
    BY <1>m, <2>p, <2>r, <2>7 DEF Chain
<1> QED
  BY <1>1, <1>2, <1>3, <1>4, <1>5 DEF BucketInv


----------------------------------------------------------------------------
(* Every step keeps the buckets and the chains.                            *)

\* What the types say of messages and keys.
LEMMA Numbers ==
    ASSUME BucketTypes
    PROVE  /\ MaxMessages \in Nat /\ Messages \subseteq Nat \ {0} /\ Messages' = Messages
           /\ 0 .. MaxMessages = Messages \cup {0} /\ count \in Nat /\ count <= MaxMessages
           /\ \A i \in Messages : key[i] \in Keys /\ text[i] \in BOOLEAN
           /\ \A k \in Keys : bucket[k] \subseteq Messages
           /\ \A k \in Keys : tail[k] # 0 => tail[k] \in Messages
           /\ \A b \in Messages : prev[b] # 0 => prev[b] \in Messages
<1>1. MaxMessages \in Nat
  BY DEF BucketTypes
<1>2. /\ Messages \subseteq Nat \ {0} /\ Messages' = Messages
      /\ 0 .. MaxMessages = Messages \cup {0}
  BY <1>1 DEF Messages
<1>3. count \in Nat /\ count <= MaxMessages
  <2>1. count \in 0 .. MaxMessages
    BY DEF BucketTypes
  <2> QED
    BY <1>1, <2>1
<1>4. \A i \in Messages : key[i] \in Keys /\ text[i] \in BOOLEAN
  BY DEF BucketTypes
<1>5. \A k \in Keys : bucket[k] \subseteq Messages
  BY DEF BucketTypes
<1>6. /\ \A k \in Keys : tail[k] # 0 => tail[k] \in Messages
      /\ \A b \in Messages : prev[b] # 0 => prev[b] \in Messages
  <2>1. tail \in [Keys -> 0 .. MaxMessages] /\ prev \in [Messages -> 0 .. MaxMessages]
    BY DEF BucketTypes
  <2> QED
    BY <1>2, <2>1
<1> QED
  BY <1>1, <1>2, <1>3, <1>4, <1>5, <1>6

\* A flush of the buckets of K.
BucketFlush(K, S) ==
    /\ S = UNION {bucket[k] : k \in K} /\ RunFlush(S) /\ bucket' = Without(K)
    /\ UNCHANGED <<key, text, forgotten, gone>>
    /\ count' \in 0 .. MaxMessages /\ count <= count'
    /\ \A i \in Messages : text[i] /\ i <= count' => i <= count
    /\ behind' \in [Messages -> 0 .. MaxMessages]
    /\ \A i \in Messages : behind'[i] # 0 => behind[i] # 0 \/ (i <= count' /\ ~text[i])
    /\ tap' \in {"open", "closing", "closed", "not closed"} /\ awaited' \subseteq Messages

LEMMA FlushOfBucket ==
    ASSUME BucketInv, NEW K \in SUBSET Keys, NEW S, BucketFlush(K, S)
    PROVE  S \in SUBSET Messages /\ Flushes(S) /\ \A i \in S : text[i]
<1>t. BucketTypes
  BY DEF BucketInv
<1>k. \A k \in Keys : bucket[k] \subseteq Messages
  BY <1>t, Numbers
<1>u. S = UNION {bucket[k] : k \in K} /\ bucket' = Without(K)
  BY DEF BucketFlush
<1>1. S \in SUBSET Messages
  BY <1>k, <1>u
<1>2. \A k \in Keys : \A i \in bucket[k] : i <= count /\ key[i] = k /\ text[i] /\ batchOf[i] = 0
  BY DEF BucketInv, Standing, Flushed
<1>3. ASSUME NEW i \in S PROVE key[i] \in K /\ i \in bucket[key[i]]
  <2>1. PICK k \in K : i \in bucket[k]
    BY <1>u
  <2>2. k \in Keys /\ key[i] = k
    BY <1>2, <2>1
  <2> QED
    BY <2>1, <2>2
<1>4. \A i \in S : i <= count /\ text[i] /\ batchOf[i] = 0
  BY <1>2, <1>3
<1>5. \A k \in Keys : bucket'[k] = IF k \in K THEN {} ELSE bucket[k]
  BY <1>u DEF Without
<1>6. bucket' \in [Keys -> SUBSET Messages]
  BY <1>k, <1>u DEF Without
<1>7. \A i \in S : i <= count'
  <2>1. \A i \in S : i \in Nat /\ i <= count
    BY <1>1, <1>4, <1>t, Numbers
  <2>2. count \in Nat /\ MaxMessages \in Nat
    BY <1>t, Numbers
  <2>4. count' \in 0 .. MaxMessages /\ count <= count'
    BY DEF BucketFlush
  <2>3. count' \in Nat
    BY <2>2, <2>4
  <2> QED
    BY <2>1, <2>2, <2>3, <2>4
<1>8. \A i \in S : i \in bucket[key[i]] /\ bucket'[key[i]] = {}
  BY <1>3, <1>5
<1>9. \A k \in Keys : bucket'[k] \subseteq bucket[k] \ S
  <2>1. ASSUME NEW k \in Keys, NEW i \in bucket'[k] PROVE i \in bucket[k] /\ i \notin S
    <3>1. k \notin K /\ i \in bucket[k]
      BY <1>5, <2>1
    <3>2. key[i] = k
      BY <1>2, <3>1
    <3> QED
      BY <1>3, <3>1, <3>2
  <2> QED
    BY <2>1
<1>10. \A k \in Keys : \A i \in bucket[k] : i \in S \/ i \in bucket'[k]
  BY <1>5, <1>u
<1> QED
  BY <1>1, <1>4, <1>6, <1>7, <1>8, <1>9, <1>10 DEF Flushes, BucketFlush

\* ... and of one message that is run at once.
LEMMA FlushOfOne ==
    ASSUME BucketInv, NEW i \in Messages, ~text[i], batchOf[i] = 0,
           RunFlush({i}),
           UNCHANGED <<key, text, bucket, forgotten, behind, gone, tap, awaited>>,
           count' \in 0 .. MaxMessages, count <= count', i <= count',
           \A j \in Messages : text[j] /\ j <= count' => j <= count
    PROVE  Flushes({i})
<1>t. BucketTypes
  BY DEF BucketInv
<1>1. /\ bucket' \in [Keys -> SUBSET Messages] /\ behind' \in [Messages -> 0 .. MaxMessages]
      /\ tap' \in {"open", "closing", "closed", "not closed"} /\ awaited' \subseteq Messages
  BY <1>t DEF BucketTypes
<1>2. \A k \in Keys : i \notin bucket[k]
  BY DEF BucketInv, Standing
<1>3. \A k \in Keys : bucket'[k] \subseteq bucket[k] \ {i}
  BY <1>2
<1> QED
  BY <1>1, <1>3 DEF Flushes

\* Every action that flushes does it as Flushes says.
Flushing(S) ==
    \/ \E i \in Messages : (EnqueueNow(i) \/ GoOn(i)) /\ S = {i}
    \/ \E i \in Messages : EnqueueBehind(i) /\ S = bucket[key[i]]
    \/ \E k \in Keys : Fire(k) /\ S = bucket[k]
    \/ FlushAll /\ S = UNION {bucket[k] : k \in Keys}

LEMMA FlushingFlushes ==
    ASSUME BucketInv, NEW S, Flushing(S)
    PROVE  /\ S \in SUBSET Messages /\ Flushes(S)
           /\ FlushAll => \A i \in S : text[i]
<1>t. BucketTypes
  BY DEF BucketInv
<1>n. /\ MaxMessages \in Nat /\ Messages \subseteq Nat \ {0}
      /\ 0 .. MaxMessages = Messages \cup {0} /\ count \in Nat /\ count <= MaxMessages
      /\ \A i \in Messages : key[i] \in Keys
      /\ \A k \in Keys : bucket[k] \subseteq Messages
  BY <1>t, Numbers
<1>y. /\ count \in 0 .. MaxMessages /\ behind \in [Messages -> 0 .. MaxMessages]
      /\ tap \in {"open", "closing", "closed", "not closed"} /\ awaited \subseteq Messages
  BY <1>t DEF BucketTypes
<1>f. \A i \in Messages : batchOf[i] # 0 => i <= count
  BY DEF BucketInv, Standing, Flushed
<1>a. ASSUME NEW i \in Messages, Arrives(i)
      PROVE  /\ count' = i /\ count' \in 0 .. MaxMessages /\ count <= count' /\ batchOf[i] = 0
             /\ \A j \in Messages : j <= count' => j <= count \/ j = i
  <2>1. i = count + 1 /\ count' = i
    BY <1>a DEF Arrives
  <2> QED
    BY <1>n, <1>f, <2>1
<1>1. ASSUME NEW i \in Messages, EnqueueNow(i), S = {i}
      PROVE  S \in SUBSET Messages /\ Flushes(S) /\ ~FlushAll
  <2>1. /\ Arrives(i) /\ ~text[i] /\ RunFlush({i})
        /\ UNCHANGED <<key, text, bucket, forgotten, behind, gone, tap, awaited>>
    BY <1>1 DEF EnqueueNow
  <2>2. /\ count' = i /\ count' \in 0 .. MaxMessages /\ count <= count' /\ batchOf[i] = 0
        /\ \A j \in Messages : text[j] /\ j <= count' => j <= count
    BY <1>a, <2>1
  <2>3. i <= count'
    BY <1>n, <2>2
  <2>4. ~FlushAll
    BY <1>n, <2>1 DEF FlushAll, Arrives
  <2> QED
    BY <1>1, <2>1, <2>2, <2>3, <2>4, FlushOfOne
<1>2. ASSUME NEW i \in Messages, GoOn(i), S = {i}
      PROVE  S \in SUBSET Messages /\ Flushes(S) /\ ~FlushAll
  <2>1. /\ behind[i] # 0 /\ batchOf[i] = 0 /\ RunFlush({i}) /\ count' = count
        /\ UNCHANGED <<key, text, bucket, forgotten, behind, gone, tap, awaited>>
    BY <1>2 DEF GoOn, Held
  <2>2. i <= count /\ ~text[i]
    BY <2>1 DEF BucketInv, Standing
  <2>3. ~FlushAll
    BY <2>1 DEF FlushAll
  <2>c. count' = count
    BY <2>1
  <2>4. /\ count' \in 0 .. MaxMessages /\ count <= count' /\ i <= count'
        /\ \A j \in Messages : text[j] /\ j <= count' => j <= count
    <3>1. count \in 0 .. MaxMessages
      BY <1>y
    <3> QED
      BY <1>n, <2>c, <2>2, <3>1
  <2> QED
    BY <1>2, <2>1, <2>2, <2>3, <2>4, FlushOfOne
<1>3. ASSUME NEW i \in Messages, EnqueueBehind(i), S = bucket[key[i]]
      PROVE  S \in SUBSET Messages /\ Flushes(S) /\ ~FlushAll
  <2>1. /\ Arrives(i) /\ ~text[i] /\ S # {} /\ RunFlush(S)
        /\ behind' = [behind EXCEPT ![i] = First(S)] /\ bucket' = Without({key[i]})
        /\ UNCHANGED <<key, text, forgotten, gone, tap, awaited>>
    BY <1>3 DEF EnqueueBehind
  <2>2. /\ count' = i /\ count' \in 0 .. MaxMessages /\ count <= count'
        /\ \A j \in Messages : text[j] /\ j <= count' => j <= count
    BY <1>a, <2>1
  <2>3. {key[i]} \in SUBSET Keys /\ S = UNION {bucket[k] : k \in {key[i]}}
    BY <1>n, <1>3
  <2>4. First(S) \in 0 .. MaxMessages
    <3>1. S \in SUBSET Nat /\ S \subseteq Messages
      BY <1>n, <1>3
    <3>2. First(S) \in S
      BY <2>1, <3>1, FirstLeast
    <3> QED
      BY <1>n, <3>1, <3>2
  <2>5. behind' \in [Messages -> 0 .. MaxMessages]
    BY <1>y, <2>1, <2>4
  <2>6. ASSUME NEW j \in Messages, behind'[j] # 0
        PROVE  behind[j] # 0 \/ (j <= count' /\ ~text[j])
    <3>1. CASE j = i
      BY <1>n, <2>1, <2>2, <3>1
    <3>2. CASE j # i
      <4>1. behind'[j] = behind[j]
        BY <1>y, <2>1, <3>2
      <4> QED
        BY <2>6, <4>1
    <3> QED
      BY <3>1, <3>2
  <2>7. ~FlushAll
    BY <1>n, <2>1 DEF FlushAll, Arrives
  <2>8. tap' \in {"open", "closing", "closed", "not closed"} /\ awaited' \subseteq Messages
    BY <1>y, <2>1
  <2>9. S \in SUBSET Messages /\ Flushes(S)
    <3>1. BucketFlush({key[i]}, S)
      BY <2>1, <2>2, <2>3, <2>5, <2>6, <2>8 DEF BucketFlush
    <3> QED
      BY <2>3, <3>1, FlushOfBucket
  <2> QED
    BY <2>7, <2>9
<1>q. ASSUME NEW K \in SUBSET Keys, S = UNION {bucket[k] : k \in K}, RunFlush(S),
             bucket' = Without(K), UNCHANGED <<count, key, text, forgotten, behind, gone>>,
             tap' \in {"open", "closing", "closed", "not closed"}, awaited' \subseteq Messages
      PROVE  S \in SUBSET Messages /\ Flushes(S) /\ \A i \in S : text[i]
  <2>1. /\ count' \in 0 .. MaxMessages /\ count <= count'
        /\ behind' \in [Messages -> 0 .. MaxMessages]
        /\ \A j \in Messages : behind'[j] # 0 => behind[j] # 0 \/ (j <= count' /\ ~text[j])
        /\ \A j \in Messages : text[j] /\ j <= count' => j <= count
    <3>1. count' = count /\ behind' = behind
      BY <1>q
    <3>2. count \in 0 .. MaxMessages /\ behind \in [Messages -> 0 .. MaxMessages]
      BY <1>y
    <3>3. count <= count
      BY <1>n
    <3> QED
      BY <3>1, <3>2, <3>3
  <2>2. BucketFlush(K, S)
    BY <1>q, <2>1 DEF BucketFlush
  <2> QED
    BY <2>2, FlushOfBucket
<1>4. ASSUME NEW k \in Keys, Fire(k), S = bucket[k]
      PROVE  S \in SUBSET Messages /\ Flushes(S) /\ \A i \in S : text[i]
  <2>1. {k} \in SUBSET Keys /\ S = UNION {bucket[l] : l \in {k}}
    BY <1>4
  <2>2. /\ RunFlush(S) /\ bucket' = Without({k})
        /\ UNCHANGED <<count, key, text, forgotten, behind, gone, tap, awaited>>
    BY <1>4 DEF Fire
  <2> QED
    BY <1>y, <1>q, <2>1, <2>2
<1>5. ASSUME FlushAll, S = UNION {bucket[k] : k \in Keys}
      PROVE  S \in SUBSET Messages /\ Flushes(S) /\ \A i \in S : text[i]
  <2>1. /\ RunFlush(S) /\ bucket' = Without(Keys) /\ awaited' = Heads(S) /\ tap' = "closing"
        /\ UNCHANGED <<count, key, text, forgotten, behind, gone>>
    BY <1>5 DEF FlushAll
  <2>2. awaited' \subseteq Messages
    BY <1>n, <1>5, <2>1 DEF Heads
  <2> QED
    BY <1>q, <1>5, <2>1, <2>2
<1> QED
  BY <1>1, <1>2, <1>3, <1>4, <1>5 DEF Flushing

\* A step that only moves batches along keeps what is said of messages ...
LEMMA SameMessages ==
    ASSUME Standing, Texts, Messages' = Messages,
           UNCHANGED <<count, key, text, bucket, batchOf, behind>>, gone'.cancelled = gone.cancelled,
           \A b \in Messages : stage'[b] = "none" <=> stage[b] = "none"
    PROVE  Standing' /\ Texts'
<1>1. /\ count' = count /\ key' = key /\ text' = text /\ bucket' = bucket
      /\ batchOf' = batchOf /\ behind' = behind
  OBVIOUS
<1>2. Texts'
  BY <1>1 DEF Texts, Flushed
<1>3. Standing'
  <2>1. \A i \in Messages : batchOf'[i] # 0 =>
          /\ batchOf'[i] \in Messages /\ batchOf'[batchOf'[i]] = batchOf'[i]
          /\ stage'[batchOf'[i]] # "none" /\ i <= count' /\ batchOf'[i] <= i
          /\ key'[batchOf'[i]] = key'[i] /\ text'[batchOf'[i]] = text'[i]
          /\ ~text'[i] => batchOf'[i] = i
    BY <1>1 DEF Standing, Flushed
  <2>2. \A b \in Messages : stage'[b] # "none" => batchOf'[b] = b
    BY <1>1 DEF Standing
  <2>3. /\ \A k \in Keys : \A i \in bucket'[k] :
              i <= count' /\ key'[i] = k /\ text'[i] /\ batchOf'[i] = 0
        /\ \A i \in Messages : behind'[i] # 0 => i <= count' /\ ~text'[i]
    BY <1>1 DEF Standing, Flushed
  <2> QED
    BY <2>1, <2>2, <2>3 DEF Standing, Flushed
<1> QED
  BY <1>2, <1>3

\* ... and one that only moves messages keeps the chains.
LEMMA SameChains ==
    ASSUME Links, Chain, Messages' = Messages,
           UNCHANGED <<key, text, batchOf, prev, tail, stage>>
    PROVE  Links' /\ Chain'
<1>1. /\ key' = key /\ text' = text /\ batchOf' = batchOf
      /\ prev' = prev /\ tail' = tail /\ stage' = stage
  OBVIOUS
<1>2. Links'
  BY <1>1 DEF Links, Ready, Settled
<1>3. PICK rank \in [Messages -> Nat], top \in Nat : Chained(rank, top)
  BY DEF Chain
<1>4. Chained(rank, top)'
  BY <1>1, <1>3 DEF Chained, Flushed, Before
<1> QED
  BY <1>2, <1>3, <1>4 DEF Chain

LEMMA TextStep ==
    ASSUME BucketInv, NEW i \in Messages, EnqueueText(i)
    PROVE  BucketInv'
<1>t. BucketTypes
  BY DEF BucketInv
<1>n. /\ MaxMessages \in Nat /\ Messages \subseteq Nat \ {0} /\ Messages' = Messages
      /\ 0 .. MaxMessages = Messages \cup {0} /\ count \in Nat /\ count <= MaxMessages
      /\ \A j \in Messages : key[j] \in Keys
      /\ \A k \in Keys : bucket[k] \subseteq Messages
  BY <1>t, Numbers
<1>a. /\ i = count + 1 /\ count' = i /\ text[i] /\ bucket' = Joins(i)
      /\ key' = key /\ text' = text /\ batchOf' = batchOf /\ prev' = prev /\ tail' = tail
      /\ stage' = stage /\ forgotten' = forgotten /\ behind' = behind /\ gone' = gone
      /\ tap' = tap /\ awaited' = awaited
  BY DEF EnqueueText, Arrives
<1>b. bucket \in [Keys -> SUBSET Messages]
  BY <1>t DEF BucketTypes
<1>c. /\ bucket' \in [Keys -> SUBSET Messages]
      /\ \A k \in Keys : bucket'[k] = IF k = key[i] THEN bucket[k] \cup {i} ELSE bucket[k]
  BY <1>a, <1>b, <1>n DEF Joins
<1>d. count < i /\ count' \in 0 .. MaxMessages
  BY <1>a, <1>n
<1>s. Standing
  BY DEF BucketInv
<1>f. \A j \in Messages : batchOf[j] # 0 => j <= count
  BY <1>s DEF Standing, Flushed
<1>g. \A j \in Messages : j <= count' => j <= count \/ j = i
  BY <1>a, <1>n
<1>1. BucketTypes'
  BY <1>t, <1>a, <1>c, <1>d, <1>n DEF BucketTypes
<1>2. Standing'
  <2>1. \A j \in Messages : j <= count => j <= count'
    BY <1>a, <1>n
  <2>2. \A j \in Messages : batchOf'[j] # 0 =>
          /\ batchOf'[j] \in Messages /\ batchOf'[batchOf'[j]] = batchOf'[j]
          /\ stage'[batchOf'[j]] # "none" /\ j <= count' /\ batchOf'[j] <= j
          /\ key'[batchOf'[j]] = key'[j] /\ text'[batchOf'[j]] = text'[j]
          /\ ~text'[j] => batchOf'[j] = j
    <3>1. \A j \in Messages : batchOf[j] # 0 =>
            /\ batchOf[j] \in Messages /\ batchOf[batchOf[j]] = batchOf[j]
            /\ stage[batchOf[j]] # "none" /\ j <= count /\ batchOf[j] <= j
            /\ key[batchOf[j]] = key[j] /\ text[batchOf[j]] = text[j]
            /\ ~text[j] => batchOf[j] = j
      BY <1>s DEF Standing, Flushed
    <3> QED
      BY <1>a, <2>1, <3>1
  <2>3. \A b \in Messages : stage'[b] # "none" => batchOf'[b] = b
    BY <1>a, <1>s DEF Standing
  <2>4. ASSUME NEW k \in Keys, NEW j \in bucket'[k]
        PROVE  j <= count' /\ key[j] = k /\ text[j] /\ batchOf[j] = 0
    <3>1. CASE j = i
      <4>1. k = key[i]
        <5>1. i \notin bucket[k]
          <6>1. i \in bucket[k] => i <= count
            BY <1>s DEF Standing
          <6> QED
            BY <1>a, <1>n, <6>1
        <5> QED
          BY <1>c, <2>4, <3>1, <5>1
      <4> QED
        BY <1>a, <1>n, <1>f, <3>1, <4>1
    <3>2. CASE j # i
      <4>1. j \in bucket[k] /\ j \in Messages
        BY <1>c, <1>n, <2>4, <3>2
      <4> QED
        BY <1>s, <2>1, <4>1 DEF Standing, Flushed
    <3> QED
      BY <3>1, <3>2
  <2>5. \A j \in Messages : behind'[j] # 0 => j <= count' /\ ~text'[j]
    BY <1>a, <1>s, <2>1 DEF Standing
  <2> QED
    BY <1>a, <1>n, <2>2, <2>3, <2>4, <2>5 DEF Standing, Flushed
<1>3. Texts'
  <2>t. Texts
    BY DEF BucketInv
  <2>1. ASSUME NEW j \in Messages, j <= count', text[j]
        PROVE  j \in bucket'[key[j]] \/ batchOf[j] # 0 \/ j \in gone.cancelled
    <3>1. CASE j = i
      BY <1>c, <1>n, <3>1
    <3>2. CASE j # i
      <4>1. j <= count
        BY <1>g, <2>1, <3>2
      <4>2. j \in bucket[key[j]] \/ batchOf[j] # 0 \/ j \in gone.cancelled
        BY <2>1, <2>t, <4>1 DEF Texts, Flushed
      <4> QED
        BY <1>c, <1>n, <4>2
    <3> QED
      BY <3>1, <3>2
  <2>2. ASSUME NEW k \in Keys, NEW j \in bucket'[k], NEW l \in Messages, text[l], key[l] = k,
               batchOf[l] # 0
        PROVE  l < j
    <3>1. CASE j = i
      BY <1>a, <1>n, <1>f, <2>2, <3>1
    <3>2. CASE j # i
      <4>1. j \in bucket[k]
        BY <1>c, <2>2, <3>2
      <4> QED
        BY <2>2, <2>t, <4>1 DEF Texts, Flushed
    <3> QED
      BY <3>1, <3>2
  <2> QED
    BY <1>a, <1>n, <2>1, <2>2 DEF Texts, Flushed
<1>4. Links' /\ Chain'
  BY <1>a, <1>n, SameChains DEF BucketInv
<1> QED
  BY <1>1, <1>2, <1>3, <1>4 DEF BucketInv

LEMMA CancelStep ==
    ASSUME BucketInv, NEW k \in Keys, CancelKey(k)
    PROVE  BucketInv'
<1>t. BucketTypes
  BY DEF BucketInv
<1>n. /\ Messages' = Messages /\ \A j \in Messages : key[j] \in Keys
      /\ \A l \in Keys : bucket[l] \subseteq Messages
  BY <1>t, Numbers
<1>y. /\ bucket \in [Keys -> SUBSET Messages]
      /\ gone \in [cancelled : SUBSET Messages, lost : SUBSET Messages]
  BY <1>t DEF BucketTypes
<1>a. /\ gone' = [gone EXCEPT !.cancelled = @ \cup bucket[k]] /\ bucket' = [bucket EXCEPT ![k] = {}]
      /\ count' = count /\ key' = key /\ text' = text /\ batchOf' = batchOf /\ prev' = prev
      /\ tail' = tail /\ stage' = stage /\ forgotten' = forgotten /\ behind' = behind
      /\ tap' = tap /\ awaited' = awaited
  BY DEF CancelKey
<1>b. /\ bucket' \in [Keys -> SUBSET Messages] /\ bucket'[k] = {}
      /\ \A l \in Keys : l # k => bucket'[l] = bucket[l]
      /\ \A l \in Keys : bucket'[l] \subseteq bucket[l]
  BY <1>a, <1>y
<1>c. /\ gone' \in [cancelled : SUBSET Messages, lost : SUBSET Messages]
      /\ gone'.cancelled = gone.cancelled \cup bucket[k]
  BY <1>a, <1>n, <1>y
<1>1. BucketTypes'
  BY <1>t, <1>a, <1>b, <1>c, <1>n DEF BucketTypes
<1>2. Standing'
  <2>1. Standing
    BY DEF BucketInv
  <2>2. \A i \in Messages : batchOf'[i] # 0 =>
          /\ batchOf'[i] \in Messages /\ batchOf'[batchOf'[i]] = batchOf'[i]
          /\ stage'[batchOf'[i]] # "none" /\ i <= count' /\ batchOf'[i] <= i
          /\ key'[batchOf'[i]] = key'[i] /\ text'[batchOf'[i]] = text'[i]
          /\ ~text'[i] => batchOf'[i] = i
    BY <1>a, <2>1 DEF Standing, Flushed
  <2>3. \A b \in Messages : stage'[b] # "none" => batchOf'[b] = b
    BY <1>a, <2>1 DEF Standing
  <2>4. \A l \in Keys : \A i \in bucket'[l] :
              i <= count' /\ key'[i] = l /\ text'[i] /\ batchOf'[i] = 0
    BY <1>a, <1>b, <2>1 DEF Standing, Flushed
  <2>5. \A i \in Messages : behind'[i] # 0 => i <= count' /\ ~text'[i]
    BY <1>a, <2>1 DEF Standing
  <2> QED
    BY <1>n, <2>2, <2>3, <2>4, <2>5 DEF Standing, Flushed
<1>3. Texts'
  <2>1. Texts
    BY DEF BucketInv
  <2>2. ASSUME NEW i \in Messages, i <= count, text[i]
        PROVE  i \in bucket'[key[i]] \/ batchOf[i] # 0 \/ i \in gone'.cancelled
    <3>1. i \in bucket[key[i]] \/ batchOf[i] # 0 \/ i \in gone.cancelled
      BY <2>1, <2>2 DEF Texts, Flushed
    <3> QED
      BY <1>b, <1>c, <1>n, <3>1
  <2>3. ASSUME NEW l \in Keys, NEW i \in bucket'[l], NEW j \in Messages, text[j], key[j] = l,
               batchOf[j] # 0
        PROVE  j < i
    BY <1>b, <2>1, <2>3 DEF Texts, Flushed
  <2> QED
    BY <1>a, <1>n, <2>2, <2>3 DEF Texts, Flushed
<1>4. Links' /\ Chain'
  BY <1>a, <1>n, SameChains DEF BucketInv
<1> QED
  BY <1>1, <1>2, <1>3, <1>4 DEF BucketInv

LEMMA QuietStep ==
    ASSUME BucketInv,
           \/ \E i \in Messages : Lose(i)
           \/ CloseAdapter \/ CloseFails \/ UNCHANGED vars
    PROVE  BucketInv'
<1>t. BucketTypes
  BY DEF BucketInv
<1>n. Messages' = Messages
  BY <1>t, Numbers
<1>a. /\ count' = count /\ key' = key /\ text' = text /\ bucket' = bucket /\ batchOf' = batchOf
      /\ prev' = prev /\ tail' = tail /\ stage' = stage /\ forgotten' = forgotten
      /\ behind' = behind /\ awaited' = awaited
  <2>1. CASE \E i \in Messages : Lose(i)
    BY <2>1 DEF Lose
  <2>2. CASE CloseAdapter
    BY <2>2 DEF CloseAdapter
  <2>3. CASE CloseFails
    BY <2>3 DEF CloseFails
  <2>4. CASE UNCHANGED vars
    BY <2>4 DEF vars
  <2> QED
    BY <2>1, <2>2, <2>3, <2>4
<1>g. /\ gone' \in [cancelled : SUBSET Messages, lost : SUBSET Messages]
      /\ gone'.cancelled = gone.cancelled /\ tap' \in {"open", "closing", "closed", "not closed"}
  <2>1. /\ gone \in [cancelled : SUBSET Messages, lost : SUBSET Messages]
        /\ tap \in {"open", "closing", "closed", "not closed"}
    BY <1>t DEF BucketTypes
  <2>2. CASE \E i \in Messages : Lose(i)
    <3>1. PICK i \in Messages : Lose(i)
      BY <2>2
    <3>2. gone' = [gone EXCEPT !.lost = @ \cup {i}] /\ tap' = tap
      BY <3>1 DEF Lose
    <3> QED
      BY <2>1, <3>2
  <2>3. CASE CloseAdapter
    BY <2>1, <2>3 DEF CloseAdapter
  <2>4. CASE CloseFails
    BY <2>1, <2>4 DEF CloseFails
  <2>5. CASE UNCHANGED vars
    BY <2>1, <2>5 DEF vars
  <2> QED
    BY <2>2, <2>3, <2>4, <2>5
<1>1. BucketTypes'
  BY <1>t, <1>a, <1>g, <1>n DEF BucketTypes
<1>2. Standing' /\ Texts'
  BY <1>a, <1>g, <1>n, SameMessages DEF BucketInv
<1>3. Links' /\ Chain'
  BY <1>a, <1>n, SameChains DEF BucketInv
<1> QED
  BY <1>1, <1>2, <1>3 DEF BucketInv

LEMMA StartStep ==
    ASSUME BucketInv, NEW b \in Messages, Start(b)
    PROVE  BucketInv'
<1>t. BucketTypes
  BY DEF BucketInv
<1>n. /\ Messages' = Messages /\ \A k \in Keys : tail[k] # 0 => tail[k] \in Messages
      /\ \A c \in Messages : prev[c] # 0 => prev[c] \in Messages
      /\ \A c \in Messages : key[c] \in Keys
  BY <1>t, Numbers
<1>y. stage \in [Messages -> {"none", "chained", "running", "resolved", "rejected"}]
  BY <1>t DEF BucketTypes
<1>a. /\ stage[b] = "chained" /\ Ready(b) /\ stage' = [stage EXCEPT ![b] = "running"]
      /\ count' = count /\ key' = key /\ text' = text /\ bucket' = bucket /\ batchOf' = batchOf
      /\ prev' = prev /\ tail' = tail /\ forgotten' = forgotten /\ behind' = behind
      /\ gone' = gone /\ tap' = tap /\ awaited' = awaited
  BY DEF Start
<1>b. /\ stage' \in [Messages -> {"none", "chained", "running", "resolved", "rejected"}]
      /\ stage'[b] = "running" /\ \A c \in Messages : c # b => stage'[c] = stage[c]
  BY <1>a, <1>y
<1>c. \A c \in Messages :
         /\ stage'[c] = "none" <=> stage[c] = "none"
         /\ Pending(stage'[c]) <=> Pending(stage[c])
         /\ stage'[c] \in {"resolved", "rejected"} <=> Settled(c)
  BY <1>a, <1>b DEF Pending, Settled
<1>1. BucketTypes'
  BY <1>t, <1>a, <1>b, <1>n DEF BucketTypes
<1>2. Standing' /\ Texts'
  BY <1>a, <1>c, <1>n, SameMessages DEF BucketInv
<1>l. Links
  BY DEF BucketInv
<1>3. Links'
  <2>1. \A k \in Keys : tail[k] # 0 => stage'[tail[k]] # "none" /\ key[tail[k]] = k
    BY <1>c, <1>l, <1>n DEF Links
  <2>2. \A c \in Messages : prev[c] # 0 => stage'[prev[c]] # "none" /\ key[prev[c]] = key[c]
    BY <1>c, <1>l, <1>n DEF Links
  <2>3. ASSUME NEW c \in Messages, stage'[c] \notin {"none", "chained"}
        PROVE  prev[c] # 0 => stage'[prev[c]] \in {"resolved", "rejected"}
    <3>1. Ready(c)
      BY <1>a, <1>b, <1>l, <2>3 DEF Links
    <3> QED
      BY <1>c, <1>n, <3>1 DEF Ready
  <2>4. \A c \in Messages : stage'[c] \notin {"none", "chained"} => Ready(c)'
    BY <1>a, <2>3 DEF Ready, Settled
  <2> QED
    BY <1>a, <1>n, <2>1, <2>2, <2>4 DEF Links
<1>4. Chain'
  <2>1. PICK rank \in [Messages -> Nat], top \in Nat : Chained(rank, top)
    BY DEF BucketInv, Chain
  <2>f. \A i \in Messages : batchOf[i] # 0 => batchOf[i] \in Messages
    BY DEF BucketInv, Standing, Flushed
  <2>2. \A x \in Messages : Pending(stage'[x]) =>
            /\ rank[x] < top
            /\ tail[key[x]] # 0 /\ Pending(stage'[tail[key[x]]]) /\ rank[x] <= rank[tail[key[x]]]
    BY <1>c, <1>n, <2>1 DEF Chained
  <2>3. \A x, c \in Messages : Pending(stage'[x]) /\ Pending(stage'[c]) /\ key[x] = key[c] =>
            /\ rank[x] = rank[c] => x = c
            /\ rank[x] < rank[c] =>
                  prev[c] # 0 /\ Pending(stage'[prev[c]]) /\ rank[x] <= rank[prev[c]]
    BY <1>c, <1>n, <2>1 DEF Chained
  <2>4. \A i, j \in Messages :
            /\ Before(i, j) /\ text[i] /\ text[j] /\ batchOf[i] # 0 /\ batchOf[j] # 0
            /\ Pending(stage'[batchOf[i]]) /\ batchOf[i] # batchOf[j]
            => Pending(stage'[batchOf[j]]) /\ rank[batchOf[i]] < rank[batchOf[j]]
    BY <1>c, <2>1, <2>f DEF Chained, Flushed
  <2>5. \A x \in Messages :
            Pending(stage'[x]) /\ prev[x] # 0 /\ Pending(stage'[prev[x]]) => rank[prev[x]] < rank[x]
    BY <1>c, <1>n, <2>1 DEF Chained
  <2>6. Chained(rank, top)'
    BY <1>a, <1>n, <2>2, <2>3, <2>4, <2>5 DEF Chained, Flushed, Before
  <2> QED
    BY <1>n, <2>1, <2>6 DEF Chain
<1> QED
  BY <1>1, <1>2, <1>3, <1>4 DEF BucketInv

\* A batch that runs is the first of its key: the ranks of the others are above.
LEMMA FirstRuns ==
    ASSUME BucketInv, NEW b \in Messages, stage[b] = "running",
           NEW rank \in [Messages -> Nat], NEW top, Chained(rank, top),
           NEW c \in Messages, Pending(stage[c]), key[c] = key[b], c # b
    PROVE  rank[b] < rank[c]
<1>1. Pending(stage[b])
  BY DEF Pending
<1>2. rank[c] # rank[b]
  BY <1>1 DEF Chained
<1>3. ~(rank[c] < rank[b])
  <2> SUFFICES ASSUME rank[c] < rank[b] PROVE FALSE
    OBVIOUS
  <2>1. prev[b] # 0 /\ Pending(stage[prev[b]])
    BY <1>1 DEF Chained
  <2>2. Ready(b)
    BY DEF BucketInv, Links
  <2> QED
    BY <2>1, <2>2 DEF Ready, Settled, Pending
<1> QED
  BY <1>2, <1>3

LEMMA FinishStep ==
    ASSUME BucketInv, NEW b \in Messages, NEW how \in {"resolved", "rejected"}, Finish(b, how)
    PROVE  BucketInv'
<1>t. BucketTypes
  BY DEF BucketInv
<1>n. /\ Messages' = Messages /\ \A k \in Keys : tail[k] # 0 => tail[k] \in Messages
      /\ \A c \in Messages : prev[c] # 0 => prev[c] \in Messages
      /\ \A c \in Messages : key[c] \in Keys
  BY <1>t, Numbers
<1>y. stage \in [Messages -> {"none", "chained", "running", "resolved", "rejected"}]
  BY <1>t DEF BucketTypes
<1>a. /\ stage[b] = "running" /\ stage' = [stage EXCEPT ![b] = how]
      /\ count' = count /\ key' = key /\ text' = text /\ bucket' = bucket /\ batchOf' = batchOf
      /\ prev' = prev /\ tail' = tail /\ forgotten' = forgotten /\ behind' = behind
      /\ gone' = gone /\ tap' = tap /\ awaited' = awaited
  BY DEF Finish
<1>b. /\ stage' \in [Messages -> {"none", "chained", "running", "resolved", "rejected"}]
      /\ stage'[b] = how /\ \A c \in Messages : c # b => stage'[c] = stage[c]
  BY <1>a, <1>y
<1>c. \A c \in Messages :
         /\ stage'[c] = "none" <=> stage[c] = "none"
         /\ Pending(stage'[c]) <=> Pending(stage[c]) /\ c # b
         /\ Settled(c) => stage'[c] \in {"resolved", "rejected"}
  BY <1>a, <1>b DEF Pending, Settled
<1>1. BucketTypes'
  BY <1>t, <1>a, <1>b, <1>n DEF BucketTypes
<1>2. Standing' /\ Texts'
  BY <1>a, <1>c, <1>n, SameMessages DEF BucketInv
<1>l. Links
  BY DEF BucketInv
<1>3. Links'
  <2>1. \A k \in Keys : tail[k] # 0 => stage'[tail[k]] # "none" /\ key[tail[k]] = k
    BY <1>c, <1>l, <1>n DEF Links
  <2>2. \A c \in Messages : prev[c] # 0 => stage'[prev[c]] # "none" /\ key[prev[c]] = key[c]
    BY <1>c, <1>l, <1>n DEF Links
  <2>3. ASSUME NEW c \in Messages, stage'[c] \notin {"none", "chained"}
        PROVE  prev[c] # 0 => stage'[prev[c]] \in {"resolved", "rejected"}
    <3>1. stage[c] \notin {"none", "chained"}
      BY <1>a, <1>b, <2>3
    <3>2. Ready(c)
      BY <1>l, <3>1 DEF Links
    <3> QED
      BY <1>c, <1>n, <3>2 DEF Ready
  <2>4. \A c \in Messages : stage'[c] \notin {"none", "chained"} => Ready(c)'
    BY <1>a, <2>3 DEF Ready, Settled
  <2> QED
    BY <1>a, <1>n, <2>1, <2>2, <2>4 DEF Links
<1>4. Chain'
  <2>1. PICK rank \in [Messages -> Nat], top \in Nat : Chained(rank, top)
    BY DEF BucketInv, Chain
  <2>f. \A i \in Messages : batchOf[i] # 0 => batchOf[i] \in Messages /\ key[batchOf[i]] = key[i]
    BY DEF BucketInv, Standing, Flushed
  <2>l. \A c \in Messages : Pending(stage[c]) /\ key[c] = key[b] /\ c # b => rank[b] < rank[c]
    BY <1>a, <2>1, FirstRuns
  <2>p. Pending(stage[b])
    BY <1>a DEF Pending
  <2>2. ASSUME NEW x \in Messages, Pending(stage'[x])
        PROVE  /\ rank[x] < top
               /\ tail[key[x]] # 0 /\ Pending(stage'[tail[key[x]]])
               /\ rank[x] <= rank[tail[key[x]]]
    <3>1. Pending(stage[x]) /\ x # b
      BY <1>c, <2>2
    <3>2. /\ rank[x] < top
          /\ tail[key[x]] # 0 /\ Pending(stage[tail[key[x]]]) /\ rank[x] <= rank[tail[key[x]]]
      BY <2>1, <3>1 DEF Chained
    <3>3. tail[key[x]] # b
      <4> SUFFICES ASSUME tail[key[x]] = b PROVE FALSE
        OBVIOUS
      <4>1. key[b] = key[x]
        BY <1>l, <1>n, <3>2 DEF Links
      <4>2. rank[b] < rank[x] /\ rank[x] <= rank[b]
        BY <2>l, <3>1, <3>2, <4>1
      <4> QED
        BY <2>1, <4>2
    <3> QED
      BY <1>c, <1>n, <3>2, <3>3
  <2>3. ASSUME NEW x \in Messages, NEW c \in Messages, Pending(stage'[x]), Pending(stage'[c]),
               key[x] = key[c]
        PROVE  /\ rank[x] = rank[c] => x = c
               /\ rank[x] < rank[c] =>
                     prev[c] # 0 /\ Pending(stage'[prev[c]]) /\ rank[x] <= rank[prev[c]]
    <3>1. Pending(stage[x]) /\ x # b /\ Pending(stage[c]) /\ c # b
      BY <1>c, <2>3
    <3>2. /\ rank[x] = rank[c] => x = c
          /\ rank[x] < rank[c] =>
                prev[c] # 0 /\ Pending(stage[prev[c]]) /\ rank[x] <= rank[prev[c]]
      BY <2>1, <2>3, <3>1 DEF Chained
    <3>3. ASSUME rank[x] < rank[c] PROVE prev[c] # b
      <4> SUFFICES ASSUME prev[c] = b PROVE FALSE
        OBVIOUS
      <4>1. key[b] = key[x]
        BY <1>l, <2>3, <3>2, <3>3 DEF Links
      <4>2. rank[b] < rank[x] /\ rank[x] <= rank[b]
        BY <2>l, <3>1, <3>2, <3>3, <4>1
      <4> QED
        BY <2>1, <4>2
    <3> QED
      BY <1>c, <1>n, <3>2, <3>3
  <2>4. ASSUME NEW i \in Messages, NEW j \in Messages, Before(i, j), text[i], text[j],
               batchOf[i] # 0, batchOf[j] # 0, Pending(stage'[batchOf[i]]), batchOf[i] # batchOf[j]
        PROVE  Pending(stage'[batchOf[j]]) /\ rank[batchOf[i]] < rank[batchOf[j]]
    <3>1. Pending(stage[batchOf[i]]) /\ batchOf[i] # b
      BY <1>c, <2>f, <2>4
    <3>2. Pending(stage[batchOf[j]]) /\ rank[batchOf[i]] < rank[batchOf[j]]
      BY <2>1, <2>4, <3>1 DEF Chained, Flushed
    <3>3. batchOf[j] # b
      <4> SUFFICES ASSUME batchOf[j] = b PROVE FALSE
        OBVIOUS
      <4>1. key[batchOf[i]] = key[b]
        BY <2>f, <2>4 DEF Before
      <4>2. rank[b] < rank[batchOf[i]] /\ rank[batchOf[i]] < rank[b]
        BY <2>f, <2>l, <2>4, <3>1, <3>2, <4>1
      <4> QED
        BY <2>1, <2>f, <2>4, <4>2
    <3> QED
      BY <1>c, <2>f, <2>4, <3>2, <3>3
  <2>5. \A x \in Messages :
            Pending(stage'[x]) /\ prev[x] # 0 /\ Pending(stage'[prev[x]]) => rank[prev[x]] < rank[x]
    BY <1>c, <1>n, <2>1 DEF Chained
  <2>6. Chained(rank, top)'
    BY <1>a, <1>n, <2>2, <2>3, <2>4, <2>5 DEF Chained, Flushed, Before
  <2> QED
    BY <1>n, <2>1, <2>6 DEF Chain
<1> QED
  BY <1>1, <1>2, <1>3, <1>4 DEF BucketInv

LEMMA ForgetStep ==
    ASSUME BucketInv, NEW b \in Messages, Forget(b)
    PROVE  BucketInv'
<1>t. BucketTypes
  BY DEF BucketInv
<1>n. /\ Messages' = Messages /\ \A k \in Keys : tail[k] # 0 => tail[k] \in Messages
      /\ \A c \in Messages : key[c] \in Keys /\ 0 .. MaxMessages = Messages \cup {0}
  BY <1>t, Numbers
<1>y. tail \in [Keys -> 0 .. MaxMessages] /\ forgotten \subseteq Messages
  BY <1>t DEF BucketTypes
<1>a. /\ Settled(b) /\ forgotten' = forgotten \cup {b}
      /\ tail' = (IF tail[key[b]] = b THEN [tail EXCEPT ![key[b]] = 0] ELSE tail)
      /\ count' = count /\ key' = key /\ text' = text /\ bucket' = bucket /\ batchOf' = batchOf
      /\ prev' = prev /\ stage' = stage /\ behind' = behind /\ gone' = gone
      /\ tap' = tap /\ awaited' = awaited
  BY DEF Forget, IsTail
<1>b. /\ tail' \in [Keys -> 0 .. MaxMessages] /\ forgotten' \subseteq Messages
      /\ \A k \in Keys : tail'[k] = tail[k] \/ (tail'[k] = 0 /\ tail[k] = b)
  BY <1>a, <1>n, <1>y
<1>1. BucketTypes'
  BY <1>t, <1>a, <1>b, <1>n DEF BucketTypes
<1>2. Standing' /\ Texts'
  <2>1. gone'.cancelled = gone.cancelled
    BY <1>a
  <2> QED
    BY <1>a, <1>n, <2>1, SameMessages DEF BucketInv
<1>l. Links
  BY DEF BucketInv
<1>3. Links'
  <2>1. \A k \in Keys : tail'[k] # 0 => stage[tail'[k]] # "none" /\ key[tail'[k]] = k
    BY <1>b, <1>l DEF Links
  <2>2. \A c \in Messages : prev[c] # 0 => stage[prev[c]] # "none" /\ key[prev[c]] = key[c]
    BY <1>l DEF Links
  <2>3. \A c \in Messages : stage[c] \notin {"none", "chained"} => Ready(c)'
    BY <1>a, <1>l DEF Links, Ready, Settled
  <2> QED
    BY <1>a, <1>n, <2>1, <2>2, <2>3 DEF Links
<1>4. Chain'
  <2>1. PICK rank \in [Messages -> Nat], top \in Nat : Chained(rank, top)
    BY DEF BucketInv, Chain
  <2>2. \A x \in Messages : Pending(stage[x]) =>
            /\ rank[x] < top
            /\ tail[key[x]] # 0 /\ Pending(stage[tail[key[x]]]) /\ rank[x] <= rank[tail[key[x]]]
    BY <2>1 DEF Chained
  <2>3. ~Pending(stage[b])
    BY <1>a DEF Settled, Pending
  <2>4. \A x \in Messages : Pending(stage[x]) => tail'[key[x]] = tail[key[x]]
    BY <1>b, <1>n, <2>2, <2>3
  <2>5. \A x \in Messages : Pending(stage[x]) =>
            /\ rank[x] < top
            /\ tail'[key[x]] # 0 /\ Pending(stage[tail'[key[x]]])
            /\ rank[x] <= rank[tail'[key[x]]]
    BY <2>2, <2>4
  <2>6. Chained(rank, top)'
    BY <1>a, <1>n, <2>1, <2>5 DEF Chained, Flushed, Before
  <2> QED
    BY <1>n, <2>1, <2>6 DEF Chain
<1> QED
  BY <1>1, <1>2, <1>3, <1>4 DEF BucketInv

LEMMA BucketStep ==
    ASSUME BucketInv, [Next]_vars
    PROVE  BucketInv'
<1>f. ASSUME NEW S, Flushing(S) PROVE BucketInv'
  BY <1>f, FlushingFlushes, FlushStep
<1>1. ASSUME NEW i \in Messages, EnqueueNow(i) \/ GoOn(i) PROVE BucketInv'
  <2>1. Flushing({i})
    BY <1>1 DEF Flushing
  <2> QED
    BY <1>f, <2>1
<1>2. ASSUME NEW i \in Messages, EnqueueBehind(i) PROVE BucketInv'
  <2>1. Flushing(bucket[key[i]])
    BY <1>2 DEF Flushing
  <2> QED
    BY <2>1, FlushingFlushes, FlushStep
<1>3. ASSUME NEW k \in Keys, Fire(k) PROVE BucketInv'
  <2>1. Flushing(bucket[k])
    BY <1>3 DEF Flushing
  <2> QED
    BY <2>1, FlushingFlushes, FlushStep
<1>4. CASE FlushAll
  <2>1. Flushing(UNION {bucket[k] : k \in Keys})
    BY <1>4 DEF Flushing
  <2> QED
    BY <2>1, FlushingFlushes, FlushStep
<1> QED
  BY <1>1, <1>2, <1>3, <1>4, TextStep, CancelStep, QuietStep, StartStep, FinishStep, ForgetStep
     DEF Next

----------------------------------------------------------------------------
(* Closing waits for what it flushed.                                      *)

\* A flush leaves the batches there are as they were.
LEMMA FlushSpares ==
    ASSUME BucketInv, NEW S \in SUBSET Messages, Flushes(S), NEW b \in Messages, batchOf[b] = b
    PROVE  batchOf'[b] = b /\ stage'[b] = stage[b]
<1>1. FlushEffect(S, Heads(S))
  BY FlushFacts DEF BucketInv, Flushes
<1>2. \A i \in S : batchOf[i] = 0
  BY DEF Flushes
<1>3. b # 0
  BY Numbers DEF BucketInv
<1>4. b \notin S
  BY <1>2, <1>3
<1>5. b \notin Heads(S)
  BY <1>1, <1>4 DEF FlushEffect
<1> QED
  BY <1>1, <1>4, <1>5 DEF FlushEffect

LEMMA ClosingStep ==
    ASSUME BucketInv, Closing, [Next]_vars
    PROVE  Closing'
<1>t. BucketTypes
  BY DEF BucketInv
<1>a. awaited \subseteq Messages
  BY <1>t DEF BucketTypes
<1>c. /\ tap = "open" => awaited = {}
      /\ \A j \in awaited : batchOf[j] = j /\ text[j]
      /\ tap = "closed" => \A j \in awaited : Settled(j)
  BY DEF Closing
<1>1. ASSUME awaited' = awaited, text' = text, tap' = tap,
             \A j \in awaited : batchOf'[j] = j /\ (Settled(j) => stage'[j] \in {"resolved", "rejected"})
      PROVE  Closing'
  BY <1>1, <1>c DEF Closing, Settled
<1>f. ASSUME NEW S, Flushing(S), awaited' = awaited, tap' = tap PROVE Closing'
  <2>1. S \in SUBSET Messages /\ Flushes(S)
    BY <1>f, FlushingFlushes
  <2>2. \A j \in awaited : batchOf'[j] = j /\ stage'[j] = stage[j]
    BY <1>a, <1>c, <2>1, FlushSpares
  <2>3. text' = text
    BY <2>1 DEF Flushes
  <2> QED
    BY <1>1, <1>f, <2>2, <2>3 DEF Settled
<1>2. ASSUME NEW i \in Messages, EnqueueNow(i) \/ GoOn(i) PROVE Closing'
  <2>1. Flushing({i}) /\ awaited' = awaited /\ tap' = tap
    BY <1>2 DEF Flushing, EnqueueNow, GoOn
  <2> QED
    BY <1>f, <2>1
<1>3. ASSUME NEW i \in Messages, EnqueueBehind(i) PROVE Closing'
  <2>1. Flushing(bucket[key[i]]) /\ awaited' = awaited /\ tap' = tap
    BY <1>3 DEF Flushing, EnqueueBehind
  <2>2. PICK S : S = bucket[key[i]]
    OBVIOUS
  <2> QED
    BY <1>f, <2>1, <2>2
<1>4. ASSUME NEW k \in Keys, Fire(k) PROVE Closing'
  <2>1. Flushing(bucket[k]) /\ awaited' = awaited /\ tap' = tap
    BY <1>4 DEF Flushing, Fire
  <2>2. PICK S : S = bucket[k]
    OBVIOUS
  <2> QED
    BY <1>f, <2>1, <2>2
<1>5. CASE FlushAll
  <2>1. PICK S : S = UNION {bucket[k] : k \in Keys}
    OBVIOUS
  <2>2. RunFlush(S) /\ awaited' = Heads(S) /\ tap' = "closing" /\ tap = "open"
    BY <1>5, <2>1 DEF FlushAll
  <2>3. Flushing(S)
    BY <1>5, <2>1 DEF Flushing
  <2>4. S \in SUBSET Messages /\ Flushes(S) /\ \A i \in S : text[i]
    BY <1>5, <2>3, FlushingFlushes
  <2>5. FlushEffect(S, Heads(S))
    BY <1>t, <2>2, <2>4, FlushFacts
  <2>6. text' = text /\ \A j \in Heads(S) : batchOf'[j] = j /\ text[j]
    BY <2>4, <2>5 DEF FlushEffect, Flushes
  <2> QED
    BY <2>2, <2>6 DEF Closing
<1>6. ASSUME NEW i \in Messages, EnqueueText(i) \/ Lose(i) \/ Forget(i) PROVE Closing'
  <2>1. /\ awaited' = awaited /\ text' = text /\ tap' = tap /\ batchOf' = batchOf
        /\ stage' = stage
    BY <1>6 DEF EnqueueText, Lose, Forget
  <2> QED
    BY <1>1, <1>c, <2>1 DEF Settled
<1>7. ASSUME NEW k \in Keys, CancelKey(k) PROVE Closing'
  <2>1. /\ awaited' = awaited /\ text' = text /\ tap' = tap /\ batchOf' = batchOf
        /\ stage' = stage
    BY <1>7 DEF CancelKey
  <2> QED
    BY <1>1, <1>c, <2>1 DEF Settled
<1>8. ASSUME NEW b \in Messages, NEW how \in {"running", "resolved", "rejected"},
             stage' = [stage EXCEPT ![b] = how], ~Settled(b),
             awaited' = awaited, text' = text, tap' = tap, batchOf' = batchOf
      PROVE  Closing'
  <2>1. stage \in [Messages -> {"none", "chained", "running", "resolved", "rejected"}]
    BY <1>t DEF BucketTypes
  <2>2. \A j \in Messages : Settled(j) => stage'[j] \in {"resolved", "rejected"}
    BY <1>8, <2>1 DEF Settled
  <2> QED
    BY <1>1, <1>8, <1>a, <1>c, <2>2
<1>9. ASSUME NEW b \in Messages, Start(b) PROVE Closing'
  <2>1. /\ stage' = [stage EXCEPT ![b] = "running"] /\ ~Settled(b)
        /\ awaited' = awaited /\ text' = text /\ tap' = tap /\ batchOf' = batchOf
    BY <1>9 DEF Start, Settled
  <2> QED
    BY <1>8, <2>1
<1>10. ASSUME NEW b \in Messages, NEW how \in {"resolved", "rejected"}, Finish(b, how) PROVE Closing'
  <2>1. /\ stage' = [stage EXCEPT ![b] = how] /\ ~Settled(b)
        /\ awaited' = awaited /\ text' = text /\ tap' = tap /\ batchOf' = batchOf
    BY <1>10 DEF Finish, Settled
  <2> QED
    BY <1>8, <2>1
<1>11. CASE CloseAdapter
  <2>1. /\ \A j \in awaited : stage[j] = "resolved"
        /\ tap' = "closed" /\ awaited' = awaited /\ batchOf' = batchOf /\ text' = text
        /\ stage' = stage
    BY <1>11 DEF CloseAdapter
  <2> QED
    BY <1>c, <2>1 DEF Closing, Settled
<1>12. CASE CloseFails
  <2>1. tap' = "not closed" /\ awaited' = awaited /\ batchOf' = batchOf /\ text' = text
    BY <1>12 DEF CloseFails
  <2> QED
    BY <1>c, <2>1 DEF Closing
<1>13. CASE UNCHANGED vars
  <2>1. /\ awaited' = awaited /\ text' = text /\ tap' = tap /\ batchOf' = batchOf
        /\ stage' = stage
    BY <1>13 DEF vars
  <2> QED
    BY <1>1, <1>c, <2>1 DEF Settled
<1> QED
  BY <1>2, <1>3, <1>4, <1>5, <1>6, <1>7, <1>9, <1>10, <1>11, <1>12, <1>13 DEF Next

LEMMA DebounceInit ==
    ASSUME MaxMessages \in Nat, Init
    PROVE  DebounceInv
<1>n. Messages \subseteq Nat \ {0} /\ 0 \in 0 .. MaxMessages
  BY DEF Messages
<1>a. /\ count = 0 /\ key \in [Messages -> Keys] /\ text \in [Messages -> BOOLEAN]
      /\ bucket = [k \in Keys |-> {}] /\ batchOf = [i \in Messages |-> 0]
      /\ prev = [b \in Messages |-> 0] /\ tail = [k \in Keys |-> 0]
      /\ stage = [b \in Messages |-> "none"] /\ forgotten = {}
      /\ behind = [i \in Messages |-> 0] /\ gone = [cancelled |-> {}, lost |-> {}]
      /\ tap = "open" /\ awaited = {}
  BY DEF Init
<1>b. /\ \A k \in Keys : bucket[k] = {} /\ tail[k] = 0
      /\ \A i \in Messages : batchOf[i] = 0 /\ prev[i] = 0 /\ stage[i] = "none" /\ behind[i] = 0
      /\ \A i \in Messages : ~(i <= count)
  BY <1>a, <1>n
<1>1. BucketTypes
  BY <1>a, <1>n DEF BucketTypes
<1>2. Standing /\ Texts /\ Links
  BY <1>b DEF Standing, Texts, Links, Flushed
<1>3. Chain
  <2>1. [b \in Messages |-> 0] \in [Messages -> Nat]
    OBVIOUS
  <2>2. Chained([b \in Messages |-> 0], 0)
    BY <1>b DEF Chained, Pending, Flushed
  <2> QED
    BY <2>1, <2>2 DEF Chain
<1>4. Closing
  BY <1>a DEF Closing
<1> QED
  BY <1>1, <1>2, <1>3, <1>4 DEF DebounceInv, BucketInv

\* The debouncer keeps its books: buckets, batches and chains of
\* createNeonInboundDebouncer agree, and its invariant is inductive.
THEOREM DebounceInvariance == Spec => []DebounceInv
<1>1. Init => DebounceInv
  BY DebounceInit, MaxMessagesAssumption
<1>2. DebounceInv /\ [Next]_vars => DebounceInv'
  BY BucketStep, ClosingStep DEF DebounceInv
<1> QED
  BY <1>1, <1>2, PTL DEF Spec

\* Every variable of the debouncer has its type; the buckets and the chain of a
\* key hold messages of that key that have arrived.
THEOREM DebounceTypes == Spec => []TypeOK
<1>1. ASSUME DebounceInv PROVE TypeOK
  <2>t. BucketTypes /\ Standing /\ Links
    BY <1>1 DEF DebounceInv, BucketInv
  <2>n. /\ Messages \subseteq Nat \ {0} /\ count \in Nat
        /\ \A k \in Keys : bucket[k] \subseteq Messages
        /\ \A k \in Keys : tail[k] # 0 => tail[k] \in Messages
    BY <2>t, Numbers
  <2>1. ASSUME NEW k \in Keys PROVE bucket[k] \subseteq Of(k)
    BY <2>n, <2>t DEF Standing, Of
  <2>2. ASSUME NEW k \in Keys PROVE tail[k] \in Of(k) \cup {0}
    <3>1. CASE tail[k] # 0
      <4>1. tail[k] \in Messages /\ stage[tail[k]] # "none" /\ key[tail[k]] = k
        BY <2>n, <2>t, <3>1 DEF Links
      <4>2. batchOf[tail[k]] = tail[k]
        BY <2>t, <4>1 DEF Standing
      <4>3. tail[k] <= count
        BY <2>t, <3>1, <4>1, <4>2 DEF Standing, Flushed
      <4>4. tail[k] \in Nat \ {0}
        BY <2>n, <4>1
      <4>5. tail[k] \in 1 .. count
        BY <2>n, <4>3, <4>4
      <4> QED
        BY <4>1, <4>5 DEF Of
    <3> QED
      BY <3>1
  <2> QED
    BY <2>t, <2>1, <2>2 DEF TypeOK, BucketTypes
<1> QED
  BY <1>1, DebounceInvariance, PTL

\* Of two batches of a key that are not over, the one with the greater rank has
\* not begun.
LEMMA BegunAreReady ==
    ASSUME BucketInv, NEW rank, NEW top, Chained(rank, top),
           NEW b \in Messages, NEW c \in Messages, Pending(stage[b]), Pending(stage[c]),
           key[b] = key[c], rank[b] < rank[c]
    PROVE  stage[c] = "chained"
<1>1. prev[c] # 0 /\ Pending(stage[prev[c]])
  BY DEF Chained
<1>2. ~Ready(c)
  BY <1>1 DEF Ready, Settled, Pending
<1> QED
  BY <1>2 DEF BucketInv, Links, Pending

\* keyChains runs one batch of a key at a time, although the finally block takes
\* the entry of the key away when its last batch settles.
THEOREM OneBatchAtATime == Spec => []OneAtATime
<1>1. ASSUME BucketInv, NEW b \in Messages, NEW c \in Messages,
             stage[b] = "running", stage[c] = "running", key[b] = key[c]
      PROVE  b = c
  <2>1. PICK rank \in [Messages -> Nat], top \in Nat : Chained(rank, top)
    BY <1>1 DEF BucketInv, Chain
  <2>2. Pending(stage[b]) /\ Pending(stage[c])
    BY <1>1 DEF Pending
  <2>3. ~(rank[b] < rank[c]) /\ ~(rank[c] < rank[b])
    BY <1>1, <2>1, <2>2, BegunAreReady
  <2>4. rank[b] = rank[c]
    BY <2>1, <2>3
  <2> QED
    BY <1>1, <2>1, <2>2, <2>4 DEF Chained
<1>2. DebounceInv => OneAtATime
  BY <1>1 DEF DebounceInv, OneAtATime
<1> QED
  BY <1>2, DebounceInvariance, PTL

\* What still waits in a bucket has been in no batch: no message is run twice.
THEOREM WaitingIsNotFlushed == Spec => []FlushedOnce
<1>1. DebounceInv => FlushedOnce
  BY DEF DebounceInv, BucketInv, Standing, Flushed, FlushedOnce
<1> QED
  BY <1>1, DebounceInvariance, PTL

\* When a text is being run, the texts before it are in its batch or done with.
LEMMA EarlierTextIsOver ==
    ASSUME BucketInv, NEW i \in Messages, NEW j \in Messages, Before(i, j), text[i], text[j], Begun(j)
    PROVE  batchOf[i] = batchOf[j] \/ Over(i) \/ i \in gone.cancelled
<1>t. BucketTypes /\ Standing /\ Texts
  BY DEF BucketInv
<1>n. Messages \subseteq Nat \ {0} /\ count \in Nat /\ \A k \in Messages : key[k] \in Keys
  BY <1>t, Numbers
<1>j. /\ batchOf[j] # 0 /\ stage[batchOf[j]] \in {"running", "resolved", "rejected"}
      /\ batchOf[j] \in Messages /\ key[batchOf[j]] = key[j] /\ j <= count
  BY <1>t DEF Begun, Standing, Flushed
<1>b. i < j /\ key[i] = key[j] /\ i <= count
  BY <1>n, <1>j DEF Before
<1>1. i \in bucket[key[i]] \/ batchOf[i] # 0 \/ i \in gone.cancelled
  BY <1>b, <1>t DEF Texts, Flushed
<1>2. i \notin bucket[key[i]]
  <2> SUFFICES ASSUME i \in bucket[key[i]] PROVE FALSE
    OBVIOUS
  <2>1. j < i
    BY <1>b, <1>j, <1>n, <1>t DEF Texts, Flushed
  <2> QED
    BY <1>b, <1>n, <2>1
<1>3. ASSUME batchOf[i] # 0, batchOf[i] # batchOf[j] PROVE Over(i)
  <2>i. /\ batchOf[i] \in Messages /\ stage[batchOf[i]] # "none" /\ key[batchOf[i]] = key[i]
    BY <1>3, <1>t DEF Standing, Flushed
  <2>1. ~Pending(stage[batchOf[i]])
    <3> SUFFICES ASSUME Pending(stage[batchOf[i]]) PROVE FALSE
      OBVIOUS
    <3>1. PICK rank \in [Messages -> Nat], top \in Nat : Chained(rank, top)
      BY DEF BucketInv, Chain
    <3>2. Pending(stage[batchOf[j]]) /\ rank[batchOf[i]] < rank[batchOf[j]]
      BY <1>3, <1>j, <3>1 DEF Chained, Flushed
    <3>3. stage[batchOf[j]] = "chained"
      BY <1>b, <1>j, <2>i, <3>1, <3>2, BegunAreReady
    <3> QED
      BY <1>j, <3>3
  <2>2. stage[batchOf[i]] \in {"none", "chained", "running", "resolved", "rejected"}
    BY <1>t, <2>i DEF BucketTypes
  <2> QED
    BY <1>3, <2>i, <2>1, <2>2 DEF Over, Settled, Pending
<1> QED
  BY <1>1, <1>2, <1>3

\* Text is run in the order in which it was written, whatever commands overtake
\* it, whichever batches fail and however often timers and chains are taken away.
THEOREM TextsRunInOrder == Spec => []TextsInOrder
<1>1. ASSUME BucketInv, NEW i \in 1 .. count, NEW j \in 1 .. count
      PROVE  i \in Messages /\ j \in Messages
  <2>1. MaxMessages \in Nat /\ count \in Nat /\ count <= MaxMessages
    BY <1>1, Numbers DEF BucketInv
  <2> QED
    BY <2>1 DEF Messages
<1>2. DebounceInv => TextsInOrder
  BY <1>1, EarlierTextIsOver DEF DebounceInv, TextsInOrder
<1> QED
  BY <1>2, DebounceInvariance, PTL

\* When close has let the adapter go, the text it flushed is over, and so is all
\* the text written before.
THEOREM CloseWaits == Spec => []CloseFlushes
<1>1. ASSUME BucketInv, Closing, tap = "closed", NEW j \in awaited, NEW i \in 1 .. j,
             key[i] = key[j], text[i]
      PROVE  Over(i) \/ i \in gone.cancelled
  <2>t. BucketTypes
    BY <1>1 DEF BucketInv
  <2>n. Messages \subseteq Nat \ {0} /\ MaxMessages \in Nat
    BY <2>t, Numbers
  <2>1. j \in Messages /\ batchOf[j] = j /\ text[j] /\ Settled(j)
    BY <1>1, <2>t DEF BucketTypes, Closing
  <2>2. j \in 1 .. MaxMessages
    BY <2>1 DEF Messages
  <2>3. i \in Messages /\ (i = j \/ i < j)
    BY <2>2, <2>n DEF Messages
  <2>4. Begun(j) /\ Over(j)
    BY <2>1, <2>n DEF Begun, Over, Settled
  <2>5. CASE i < j
    <3>1. Before(i, j)
      BY <1>1, <2>5 DEF Before
    <3>2. batchOf[i] = batchOf[j] \/ Over(i) \/ i \in gone.cancelled
      BY <1>1, <2>1, <2>3, <2>4, <3>1, EarlierTextIsOver
    <3> QED
      BY <2>4, <3>2 DEF Over
  <2> QED
    BY <2>3, <2>4, <2>5
<1>2. DebounceInv => CloseFlushes
  BY <1>1 DEF DebounceInv, CloseFlushes
<1> QED
  BY <1>2, DebounceInvariance, PTL

-----------------------------------------------------------------------------

(* The chains of the authors are executors of one session each. *)

\* A step that leaves the batches of a key and their links alone.
LEMMA AuthorQuiet ==
    ASSUME BucketTypes, NEW k \in Keys, key' = key,
           \A b \in Messages : key[b] = k => stage'[b] = stage[b],
           \A b \in Unsettled(k) : prev'[b] = prev[b]
    PROVE  UNCHANGED Author(k)!vars
<1>n. Messages' = Messages
  BY Numbers
<1>1. PhaseIn(k)' = PhaseIn(k) /\ SessionIn(k)' = SessionIn(k)
  BY <1>n DEF PhaseIn, SessionIn
<1>2. Unsettled(k)' = Unsettled(k)
  BY <1>n DEF Unsettled
<1>3. \A S \in SUBSET Unsettled(k) : Linked(k, S)' <=> Linked(k, S)
  BY <1>2 DEF Linked
<1>4. AheadIn(k)' = AheadIn(k)
  BY <1>n, <1>2, <1>3 DEF AheadIn
<1> QED
  BY <1>1, <1>4 DEF Author!vars

\* The last batch of a key is linked to all that are not over.
LEMMA TailIsLast ==
    ASSUME BucketInv, NEW k \in Keys, NEW c \in Unsettled(k)
    PROVE  /\ tail[k] \in Unsettled(k)
           /\ \A S \in SUBSET Unsettled(k) : tail[k] \in S /\ Linked(k, S) => c \in S
<1>t. BucketTypes /\ Links
  BY DEF BucketInv
<1>n. /\ Messages \subseteq Nat \ {0}
      /\ \A b \in Messages : prev[b] # 0 => prev[b] \in Messages
      /\ tail[k] # 0 => tail[k] \in Messages
  BY <1>t, Numbers
<1>r. PICK rank \in [Messages -> Nat], top \in Nat : Chained(rank, top)
  BY DEF BucketInv, Chain
<1>u. \A b \in Unsettled(k) : b \in Messages /\ key[b] = k /\ Pending(stage[b])
  BY DEF Unsettled, Pending
<1>1. tail[k] # 0 /\ Pending(stage[tail[k]]) /\ rank[c] <= rank[tail[k]]
  BY <1>r, <1>u DEF Chained
<1>2. tail[k] \in Unsettled(k)
  BY <1>1, <1>n, <1>t DEF Unsettled, Pending, Links
<1>3. ASSUME NEW S \in SUBSET Unsettled(k), tail[k] \in S, Linked(k, S), c \notin S
      PROVE  FALSE
  <2> DEFINE Above == {d \in S : rank[c] < rank[d]}
             Ranks == {rank[d] : d \in Above}
  <2>1. \A d \in S : rank[d] # rank[c] /\ rank[d] \in Nat /\ rank[c] \in Nat
    BY <1>3, <1>r, <1>u DEF Chained
  <2>2. tail[k] \in Above
    BY <1>1, <1>3, <2>1
  <2>3. Ranks \in SUBSET Nat /\ Ranks # {}
    BY <2>1, <2>2
  <2>4. First(Ranks) \in Ranks /\ \A n \in Ranks : First(Ranks) <= n
    BY <2>3, FirstLeast
  <2>5. PICK d \in Above : \A e \in Above : rank[d] <= rank[e]
    BY <2>4
  <2>6. /\ prev[d] # 0 /\ Pending(stage[prev[d]])
        /\ rank[c] <= rank[prev[d]] /\ rank[prev[d]] < rank[d]
    BY <1>3, <1>r, <1>u DEF Chained
  <2>7. prev[d] \in Unsettled(k)
    BY <1>3, <1>n, <1>t, <1>u, <2>6 DEF Unsettled, Pending, Links
  <2>8. prev[d] \in S
    BY <1>3, <2>7 DEF Linked
  <2>9. prev[d] \in Above /\ rank[prev[d]] \in Nat /\ rank[d] \in Nat
    BY <2>1, <2>6, <2>8
  <2> QED
    BY <2>5, <2>6, <2>9
<1> QED
  BY <1>2, <1>3

\* A batch that may begin waits for none.
LEMMA NoneAhead ==
    ASSUME BucketInv, NEW b \in Messages, Ready(b), NEW k \in Keys
    PROVE  AheadIn(k)[b] = {}
<1>n. Messages \subseteq Nat \ {0}
  BY Numbers DEF BucketInv
<1>1. prev[b] \notin Unsettled(k)
  BY <1>n DEF Ready, Settled, Unsettled
<1>2. Linked(k, {b})
  BY <1>1 DEF Linked
<1>3. \A c \in AheadIn(k)[b] : c # b /\ c \in {b}
  BY <1>2 DEF AheadIn
<1> QED
  BY <1>3

\* A flush puts a batch at the end of the chain of its key, if it has any there.
LEMMA AuthorFlush ==
    ASSUME BucketInv, NEW S \in SUBSET Messages, Flushes(S), NEW k \in Keys
    PROVE  [Author(k)!Next]_(Author(k)!vars)
<1>t. BucketTypes /\ Links
  BY DEF BucketInv
<1>n. /\ Messages \subseteq Nat \ {0} /\ Messages' = Messages
      /\ \A b \in Messages : prev[b] # 0 => prev[b] \in Messages
  BY <1>t, Numbers
<1>c. key' = key
  BY DEF Flushes
<1>h. PICK H \in SUBSET Messages : FlushEffect(S, H)
  <2>1. FlushEffect(S, Heads(S))
    BY <1>t, FlushFacts DEF Flushes
  <2>2. Heads(S) \in SUBSET Messages
    BY <2>1 DEF FlushEffect
  <2> QED
    BY <2>1, <2>2
<1>e. /\ \A b \in H : b \in S /\ prev'[b] = tail[key[b]] /\ stage'[b] = "chained"
      /\ \A b, c \in H : key[b] = key[c] => b = c
      /\ \A b \in Messages : b \notin H => prev'[b] = prev[b] /\ stage'[b] = stage[b]
  BY <1>h DEF FlushEffect
<1>o. \A b \in H : stage[b] = "none"
  <2>1. \A b \in S : batchOf[b] = 0
    BY DEF Flushes
  <2>2. \A b \in Messages : stage[b] # "none" => batchOf[b] = b
    BY DEF BucketInv, Standing
  <2>3. \A b \in H : b \in Messages /\ b # 0 /\ batchOf[b] = 0
    BY <1>n, <1>e, <2>1
  <2> QED
    BY <2>2, <2>3
<1>1. CASE \A b \in H : key[b] # k
  <2>1. \A b \in Messages : key[b] = k => stage'[b] = stage[b] /\ prev'[b] = prev[b]
    BY <1>1, <1>e
  <2>2. \A b \in Unsettled(k) : prev'[b] = prev[b]
    BY <2>1 DEF Unsettled
  <2> QED
    BY <1>c, <1>t, <2>1, <2>2, AuthorQuiet
<1>2. ASSUME NEW n \in H, key[n] = k PROVE Author(k)!Submit(1, n)
  <2>1. /\ n \in Messages /\ stage[n] = "none" /\ stage'[n] = "chained" /\ prev'[n] = tail[k]
        /\ \A b \in Messages : key[b] = k /\ b # n => stage'[b] = stage[b] /\ prev'[b] = prev[b]
    BY <1>2, <1>e, <1>o
  <2>2. PhaseIn(k)[n] = "new" /\ PhaseIn(k)' = [PhaseIn(k) EXCEPT ![n] = "waiting"]
    BY <1>2, <1>c, <1>n, <2>1 DEF PhaseIn
  <2>3. SessionIn(k)' = [SessionIn(k) EXCEPT ![n] = 1]
    BY <1>2, <1>c, <1>n, <2>1 DEF SessionIn
  <2>4. /\ Unsettled(k)' = Unsettled(k) \cup {n} /\ n \notin Unsettled(k)
        /\ \A b \in Unsettled(k) : prev'[b] = prev[b] /\ prev[b] # n
    <3>1. Unsettled(k)' = Unsettled(k) \cup {n} /\ n \notin Unsettled(k)
      BY <1>2, <1>c, <1>n, <2>1 DEF Unsettled
    <3>2. \A b \in Unsettled(k) : b \in Messages /\ key[b] = k /\ b # n
      BY <3>1 DEF Unsettled
    <3>3. \A b \in Messages : prev[b] # n
      BY <1>n, <1>t, <2>1 DEF Links
    <3> QED
      BY <2>1, <3>1, <3>2, <3>3
  <2>5. AheadIn(k)'[n] = Unsettled(k)
    <3>1. Linked(k, {n} \cup Unsettled(k))'
      BY <1>2, <2>4 DEF Linked
    <3>2. ASSUME NEW c \in Unsettled(k), NEW W \in SUBSET Unsettled(k)', n \in W, Linked(k, W)'
          PROVE  c \in W
      <4>1. tail[k] \in Unsettled(k)
        BY TailIsLast
      <4>2. tail[k] \in W
        BY <2>1, <2>4, <3>2, <4>1 DEF Linked
      <4>3. /\ W \ {n} \in SUBSET Unsettled(k) /\ tail[k] \in W \ {n}
        BY <2>4, <4>1, <4>2
      <4>4. Linked(k, W \ {n})
        BY <2>4, <3>2, <4>3 DEF Linked
      <4> QED
        BY <4>3, <4>4, TailIsLast
    <3>3. n \in Unsettled(k)' /\ Unsettled(k)' \ {n} = Unsettled(k)
      BY <2>4
    <3> QED
      BY <1>n, <2>1, <3>2, <3>3 DEF AheadIn
  <2>6. ASSUME NEW d \in Messages, d # n PROVE AheadIn(k)'[d] = AheadIn(k)[d]
    <3>0. d \in Unsettled(k)' <=> d \in Unsettled(k)
      BY <2>4, <2>6
    <3>1. ASSUME NEW c \in AheadIn(k)[d], NEW W \in SUBSET Unsettled(k)', d \in W, Linked(k, W)'
          PROVE  c \in W
      <4>1. W \ {n} \in SUBSET Unsettled(k) /\ d \in W \ {n}
        BY <2>4, <2>6, <3>1
      <4>2. Linked(k, W \ {n})
        BY <2>4, <3>1, <4>1 DEF Linked
      <4> QED
        BY <2>6, <4>1, <4>2 DEF AheadIn
    <3>2. \A W \in SUBSET Unsettled(k) : Linked(k, W) => Linked(k, W)'
      BY <2>4 DEF Linked
    <3>3. AheadIn(k)[d] \subseteq AheadIn(k)'[d]
      <4>1. \A c \in AheadIn(k)[d] : c \in Unsettled(k) \ {d} /\ d \in Unsettled(k)
        BY <2>6 DEF AheadIn
      <4>2. \A c \in AheadIn(k)[d] : c \in Unsettled(k)' \ {d} /\ d \in Unsettled(k)'
        BY <2>4, <4>1
      <4> QED
        BY <1>n, <2>6, <3>1, <4>2 DEF AheadIn
    <3>4. ASSUME NEW c \in AheadIn(k)'[d] PROVE c \in AheadIn(k)[d]
      <4>1. /\ c \in Unsettled(k)' \ {d} /\ d \in Unsettled(k)'
            /\ \A W \in SUBSET Unsettled(k)' : d \in W /\ Linked(k, W)' => c \in W
        BY <1>n, <2>6, <3>4 DEF AheadIn
      <4>2. \A W \in SUBSET Unsettled(k) : d \in W /\ Linked(k, W) => c \in W
        BY <2>4, <3>2, <4>1
      <4>3. Linked(k, Unsettled(k))
        BY DEF Linked
      <4>4. c \in Unsettled(k) /\ d \in Unsettled(k)
        BY <3>0, <4>1, <4>2, <4>3
      <4> QED
        BY <2>6, <4>1, <4>2, <4>4 DEF AheadIn
    <3> QED
      BY <3>3, <3>4
  <2>7. AheadIn(k)' = [AheadIn(k) EXCEPT ![n] = Unsettled(k)]
    <3>1. AheadIn(k)' = [b \in Messages |-> AheadIn(k)'[b]]
      BY <1>n DEF AheadIn
    <3>2. [AheadIn(k) EXCEPT ![n] = Unsettled(k)]
              = [b \in Messages |-> IF b = n THEN Unsettled(k) ELSE AheadIn(k)[b]]
      BY DEF AheadIn
    <3> QED
      BY <2>5, <2>6, <3>1, <3>2
  <2>8. Author(k)!Unfinished(1) = Unsettled(k)
    BY DEF Author!Unfinished, PhaseIn, SessionIn, Unsettled
  <2> QED
    BY <2>2, <2>3, <2>7, <2>8 DEF Author!Submit
<1> QED
  BY <1>1, <1>2 DEF Author!Next

LEMMA AuthorStart ==
    ASSUME BucketInv, NEW b \in Messages, Start(b), NEW k \in Keys
    PROVE  [Author(k)!Next]_(Author(k)!vars)
<1>t. BucketTypes
  BY DEF BucketInv
<1>n. Messages' = Messages
  BY <1>t, Numbers
<1>a. /\ stage[b] = "chained" /\ Ready(b) /\ stage' = [stage EXCEPT ![b] = "running"]
      /\ key' = key /\ prev' = prev
  BY DEF Start
<1>b. stage'[b] = "running" /\ \A c \in Messages : c # b => stage'[c] = stage[c]
  BY <1>a, <1>t DEF BucketTypes
<1>1. CASE key[b] # k
  BY <1>1, <1>a, <1>b, <1>t, AuthorQuiet
<1>2. CASE key[b] = k
  <2>1. PhaseIn(k)[b] = "waiting" /\ PhaseIn(k)' = [PhaseIn(k) EXCEPT ![b] = "running"]
    BY <1>2, <1>a, <1>b, <1>n DEF PhaseIn
  <2>2. SessionIn(k)' = SessionIn(k)
    BY <1>a, <1>b, <1>n DEF SessionIn
  <2>3. Unsettled(k)' = Unsettled(k)
    BY <1>a, <1>b, <1>n DEF Unsettled
  <2>4. \A S \in SUBSET Unsettled(k) : Linked(k, S)' <=> Linked(k, S)
    BY <1>a, <2>3 DEF Linked
  <2>5. AheadIn(k)' = AheadIn(k)
    BY <1>n, <2>3, <2>4 DEF AheadIn
  <2>6. AheadIn(k)[b] = {}
    BY <1>a, NoneAhead
  <2> QED
    BY <2>1, <2>2, <2>5, <2>6 DEF Author!Next, Author!Begin
<1> QED
  BY <1>1, <1>2

LEMMA AuthorFinish ==
    ASSUME BucketInv, NEW b \in Messages, NEW how \in {"resolved", "rejected"}, Finish(b, how),
           NEW k \in Keys
    PROVE  [Author(k)!Next]_(Author(k)!vars)
<1>t. BucketTypes /\ Links
  BY DEF BucketInv
<1>n. Messages' = Messages /\ Messages \subseteq Nat \ {0}
  BY <1>t, Numbers
<1>a. /\ stage[b] = "running" /\ stage' = [stage EXCEPT ![b] = how]
      /\ key' = key /\ prev' = prev
  BY DEF Finish
<1>b. stage'[b] = how /\ \A c \in Messages : c # b => stage'[c] = stage[c]
  BY <1>a, <1>t DEF BucketTypes
<1>1. CASE key[b] # k
  BY <1>1, <1>a, <1>b, <1>t, AuthorQuiet
<1>2. CASE key[b] = k
  <2>1. PhaseIn(k)[b] = "running" /\ PhaseIn(k)' = [PhaseIn(k) EXCEPT ![b] = "finished"]
    BY <1>2, <1>a, <1>b, <1>n DEF PhaseIn
  <2>2. SessionIn(k)' = SessionIn(k)
    BY <1>a, <1>b, <1>n DEF SessionIn
  <2>3. Unsettled(k)' = Unsettled(k) \ {b}
    BY <1>2, <1>a, <1>b, <1>n DEF Unsettled
  <2>4. Ready(b)
    BY <1>a, <1>t DEF Links
  <2>5. prev[b] \notin Unsettled(k)
    BY <1>n, <2>4 DEF Ready, Settled, Unsettled
  <2>6. ASSUME NEW d \in Messages PROVE AheadIn(k)'[d] = AheadIn(k)[d] \ {b}
    <3>1. CASE d = b
      <4>1. AheadIn(k)[d] = {}
        BY <2>4, <3>1, NoneAhead
      <4>2. AheadIn(k)'[d] = {}
        BY <1>n, <2>3, <3>1 DEF AheadIn
      <4> QED
        BY <4>1, <4>2
    <3>2. CASE d # b
      <4>1. ASSUME NEW c \in AheadIn(k)[d] \ {b} PROVE c \in AheadIn(k)'[d]
        <5>1. /\ c \in Unsettled(k) \ {d} /\ d \in Unsettled(k)
              /\ \A S \in SUBSET Unsettled(k) : d \in S /\ Linked(k, S) => c \in S
          BY <4>1 DEF AheadIn
        <5>2. ASSUME NEW W \in SUBSET Unsettled(k)', d \in W, Linked(k, W)' PROVE c \in W
          <6>1. b \in Unsettled(k)
            BY <1>2, <1>a DEF Unsettled
          <6>2. W \cup {b} \in SUBSET Unsettled(k) /\ d \in W \cup {b}
            BY <2>3, <5>2, <6>1
          <6>3. Linked(k, W \cup {b})
            BY <1>a, <2>3, <2>5, <5>2 DEF Linked
          <6> QED
            BY <4>1, <5>1, <6>2, <6>3
        <5>3. c \in Unsettled(k)' \ {d} /\ d \in Unsettled(k)'
          BY <2>3, <3>2, <4>1, <5>1
        <5> QED
          BY <1>n, <5>2, <5>3 DEF AheadIn
      <4>2. ASSUME NEW c \in AheadIn(k)'[d] PROVE c \in AheadIn(k)[d] \ {b}
        <5>1. /\ c \in Unsettled(k)' \ {d} /\ d \in Unsettled(k)'
              /\ \A W \in SUBSET Unsettled(k)' : d \in W /\ Linked(k, W)' => c \in W
          BY <1>n, <4>2 DEF AheadIn
        <5>2. ASSUME NEW S \in SUBSET Unsettled(k), d \in S, Linked(k, S) PROVE c \in S
          <6>1. S \ {b} \in SUBSET Unsettled(k)' /\ d \in S \ {b}
            BY <2>3, <3>2, <5>2
          <6>2. Linked(k, S \ {b})'
            BY <1>a, <2>3, <5>2 DEF Linked
          <6> QED
            BY <5>1, <6>1, <6>2
        <5>3. c \in Unsettled(k) \ {d} /\ d \in Unsettled(k) /\ c # b
          BY <2>3, <5>1
        <5> QED
          BY <5>2, <5>3 DEF AheadIn
      <4> QED
        BY <4>1, <4>2
    <3> QED
      BY <3>1, <3>2
  <2>7. AheadIn(k)' = [c \in Messages |-> AheadIn(k)[c] \ {b}]
    <3>1. AheadIn(k)' = [c \in Messages |-> AheadIn(k)'[c]]
      BY <1>n DEF AheadIn
    <3> QED
      BY <2>6, <3>1
  <2> QED
    BY <2>1, <2>2, <2>7 DEF Author!Next, Author!Finish, Author!OutOfTheWay
<1> QED
  BY <1>1, <1>2

LEMMA AuthorStep ==
    ASSUME BucketInv, [Next]_vars, NEW k \in Keys
    PROVE  [Author(k)!Next]_(Author(k)!vars)
<1>t. BucketTypes
  BY DEF BucketInv
<1>f. ASSUME NEW S, Flushing(S) PROVE [Author(k)!Next]_(Author(k)!vars)
  BY <1>f, FlushingFlushes, AuthorFlush
<1>1. ASSUME NEW i \in Messages, EnqueueNow(i) \/ GoOn(i) \/ EnqueueBehind(i)
      PROVE  [Author(k)!Next]_(Author(k)!vars)
  <2>1. Flushing({i}) \/ Flushing(bucket[key[i]])
    BY <1>1 DEF Flushing
  <2> QED
    BY <1>f, <2>1
<1>2. ASSUME NEW j \in Keys, Fire(j) PROVE [Author(k)!Next]_(Author(k)!vars)
  <2>1. Flushing(bucket[j])
    BY <1>2 DEF Flushing
  <2> QED
    BY <1>f, <2>1
<1>3. CASE FlushAll
  <2>1. Flushing(UNION {bucket[j] : j \in Keys})
    BY <1>3 DEF Flushing
  <2> QED
    BY <1>f, <2>1
<1>4. CASE UNCHANGED <<key, prev, stage>>
  BY <1>4, <1>t, AuthorQuiet
<1>5. \/ \E i \in Messages :
            \/ EnqueueNow(i) \/ GoOn(i) \/ EnqueueBehind(i) \/ Start(i)
            \/ \E how \in {"resolved", "rejected"} : Finish(i, how)
      \/ \E j \in Keys : Fire(j)
      \/ FlushAll
      \/ UNCHANGED <<key, prev, stage>>
  BY DEF Next, vars, EnqueueText, Lose, Forget, CancelKey, CloseAdapter, CloseFails
<1> QED
  BY <1>1, <1>2, <1>3, <1>4, <1>5, AuthorStart, AuthorFinish

LEMMA AuthorInit == ASSUME Init, NEW k \in Keys PROVE Author(k)!Init
<1>1. \A b \in Messages : stage[b] = "none"
  BY DEF Init
<1>2. Unsettled(k) = {}
  BY <1>1 DEF Unsettled
<1> QED
  BY <1>1, <1>2 DEF Author!Init, PhaseIn, SessionIn, AheadIn

\* For every author, the debouncer is a SerialExecutor of that author's batches.
THEOREM AuthorIsSerial == ASSUME NEW k \in Keys PROVE Spec => Author(k)!Spec
<1>1. Init => Author(k)!Init
  BY AuthorInit
<1>2. DebounceInv /\ [Next]_vars => [Author(k)!Next]_(Author(k)!vars)
  BY AuthorStep DEF DebounceInv
<1> QED
  BY <1>1, <1>2, DebounceInvariance, PTL DEF Spec, Author!Spec

\* Each author's batches are an executor of their own: the debouncer's chains implement
\* the specification that SessionActorQueue implements for the sessions, for any
\* messages and authors, whatever other authors and the close of the tap flush with them.
THEOREM ImplementsPerAuthor == Spec => ChainsAreSerial
<1>1. Init => \A k \in Keys : Author(k)!Init
  BY AuthorInit
<1>2. DebounceInv /\ [Next]_vars => [\A k \in Keys : [Author(k)!Next]_(Author(k)!vars)]_vars
  BY AuthorStep DEF DebounceInv
<1> QED
  BY <1>1, <1>2, DebounceInvariance, PTL DEF Spec, ChainsAreSerial

=============================================================================
