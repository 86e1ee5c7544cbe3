----------------------------- MODULE InboundReplay -----------------------------
(***************************************************************************)
(* The guard of the Discord tap against messages that the gateway delivers   *)
(* again after a resume or a reconnect                                      *)
(* (src/gateway/discordInboundReplayGuard.ts): a Map of claims in memory and *)
(* a file that a restarted tap finds.  A delivery claims its message's key   *)
(* and is processed if it gets it (handleTapMessage in discordShadowTap.ts). *)
(*                                                                         *)
(* Each awaited file operation is an action.  The file is rewritten in       *)
(* place: it is truncated and filled in two steps, which is what readers of  *)
(* the same file, and a crash, may see.  The clock counts in parts of the    *)
(* lifetime of a claim, minutes in the code, and so stands still while an    *)
(* operation on the file is under way.                                      *)
(***************************************************************************)
EXTENDS Naturals, FiniteSets

CONSTANTS
    Deliveries,
    MessageKeys, \* account:channel:message
    Ttl,         \* lifetime of a claim
    MaxEntries,  \* claims the Map holds
    MaxRecords,  \* records the file holds
    MaxClock,    \* bound: the clock
    MaxSetbacks  \* bound: crashes and file errors

ASSUME ReplayAssumption ==
    /\ Ttl \in Nat \ {0} /\ MaxEntries \in Nat \ {0} /\ MaxRecords \in Nat \ {0}
    /\ MaxClock \in Nat \ {0} /\ MaxSetbacks \in Nat

VARIABLES
    clock,
    pc,        \* where each delivery stands in claimAsync
    message, at, \* the key of its message and the currentMs it has read
    memory,    \* the Map expiry: key, expiry and rank in insertion order
    inserted,  \* the rank given last
    disabled,  \* persistentDisabled
    file,      \* the expiry on record for each key, 0 for none
    content,   \* what each register is about to write
    setbacks,
    after,       \* history: the deliveries that had been claimed when it arrived
    memoryLost,  \* history: deliveries whose claim the Map has dropped or cut short
    fileLost     \* history: deliveries whose claim the file may have lost

history == <<after, memoryLost, fileLost>>
guardVars == <<clock, pc, message, at, memory, inserted, disabled, file, content, setbacks, history>>

Blank == [k \in MessageKeys |-> 0]
AtFile == {"lookup", "register", "write", "fill"}
Busy == {d \in Deliveries : pc[d] \in AtFile}
Registering == {d \in Deliveries : pc[d] \in AtFile \ {"lookup"}}
Claimed(d) == pc[d] = "claimed" \/ d \in Registering
Holders == {d \in Deliveries : Claimed(d)}

GuardInit ==
    /\ clock = 1
    /\ pc = [d \in Deliveries |-> "new"]
    /\ message \in [Deliveries -> MessageKeys]
    /\ at = [d \in Deliveries |-> 0]
    /\ memory = {}
    /\ inserted = 0
    /\ disabled = FALSE
    /\ file = Blank
    /\ content = [d \in Deliveries |-> Blank]
    /\ setbacks = 0
    /\ after = [d \in Deliveries |-> {}]
    /\ memoryLost = {}
    /\ fileLost = {}

Go(d, place) == pc' = [pc EXCEPT ![d] = place]

----------------------------------------------------------------------------
(* The Map.                                                                 *)

Live(until, now) == until > now

InMemory(k, now) == \E claim \in memory : claim.key = k /\ Live(claim.until, now)

Oldest(claims) == CHOOSE c \in claims : \A e \in claims : c.rank <= e.rank

Newest(claims) == IF Cardinality(claims) > MaxEntries THEN claims \ {Oldest(claims)} ELSE claims

\* A claim goes to the end of the Map, and the oldest leaves it.  What was there
\* for the key goes, even if it reached further.
Remember(d, until) ==
    /\ inserted' = inserted + 1
    /\ memory' = Newest({c \in memory : c.key # message[d]}
                            \cup {[key |-> message[d], until |-> until, rank |-> inserted']})
    /\ memoryLost' = memoryLost \cup
           {c \in Holders : \E claim \in memory :
                /\ claim.key = message[c]
                /\ \A e \in memory' : e.key = message[c] => e.until < claim.until}

----------------------------------------------------------------------------
(* claimAsync.                                                              *)

ClaimBegins(d) ==
    /\ pc[d] = "new"
    /\ at' = [at EXCEPT ![d] = clock]
    /\ after' = [after EXCEPT ![d] = {c \in Deliveries : pc[c] = "claimed"}]
    /\ UNCHANGED <<clock, message, file, content, setbacks>>

Dropped(d) ==
    /\ ClaimBegins(d)
    /\ InMemory(message[d], clock)
    /\ Go(d, "duplicate")
    /\ UNCHANGED <<memory, inserted, disabled, memoryLost, fileLost>>

AskFile(d) ==
    /\ ClaimBegins(d)
    /\ ~InMemory(message[d], clock)
    /\ ~disabled
    /\ Go(d, "lookup")
    /\ UNCHANGED <<memory, inserted, disabled, memoryLost, fileLost>>

\* Without persistence the claim is made of one piece.
ClaimInMemory(d) ==
    /\ ClaimBegins(d)
    /\ ~InMemory(message[d], clock)
    /\ disabled
    /\ Remember(d, clock + Ttl)
    /\ Go(d, "claimed")
    /\ fileLost' = fileLost \cup {d}
    /\ UNCHANGED disabled

OnRecord(d) == file[message[d]]

LookupFinds(d) ==
    /\ pc[d] = "lookup"
    /\ Live(file[message[d]], at[d])
    /\ Remember(d, OnRecord(d))
    /\ Go(d, "duplicate")
    /\ UNCHANGED <<clock, message, at, disabled, file, content, setbacks, after, fileLost>>

LookupMisses(d) ==
    /\ pc[d] = "lookup"
    /\ ~Live(file[message[d]], at[d])
    /\ Remember(d, at[d] + Ttl)
    /\ Go(d, IF disabled THEN "claimed" ELSE "register")
    /\ fileLost' = IF \E e \in Deliveries : pc[e] = "fill" THEN fileLost \cup Holders \cup {d}
                   ELSE IF disabled THEN fileLost \cup {d} ELSE fileLost
    /\ UNCHANGED <<clock, message, at, disabled, file, content, setbacks, after>>

\* An error switches persistence off for the life of the process; what is on
\* record is not asked any more.
Disable(d) ==
    /\ setbacks < MaxSetbacks
    /\ setbacks' = setbacks + 1
    /\ disabled' = TRUE
    /\ fileLost' = fileLost \cup Holders \cup {d}

LookupFails(d) ==
    /\ pc[d] = "lookup"
    /\ Disable(d)
    /\ Remember(d, at[d] + Ttl)
    /\ Go(d, "claimed")
    /\ UNCHANGED <<clock, message, at, file, content, after>>

----------------------------------------------------------------------------
(* register: read, and write everything again.                             *)

\* Mutant: the record takes the place of the file.
Alone(d) == [Blank EXCEPT ![message[d]] = at[d] + Ttl]

Merged(d) == [file EXCEPT ![message[d]] = at[d] + Ttl]

\* The file keeps the records that expire last.
Kept(records, S) ==
    LET there == {k \in MessageKeys : records[k] # 0}
    IN  /\ S \subseteq there
        /\ Cardinality(S) = IF Cardinality(there) > MaxRecords THEN MaxRecords
                            ELSE Cardinality(there)
        /\ \A k \in S : \A l \in there \ S : records[k] >= records[l]

RegisterReads(d, S) ==
    /\ pc[d] = "register"
    /\ Kept(Merged(d), S)
    /\ content' = [content EXCEPT ![d] =
           [k \in MessageKeys |-> IF k \in S THEN Merged(d)[k] ELSE 0]]
    /\ Go(d, "write")
    /\ fileLost' = fileLost \cup {c \in Holders : Merged(d)[message[c]] # 0 /\ message[c] \notin S}
    /\ UNCHANGED <<clock, message, at, memory, inserted, disabled, file, setbacks, after,
                   memoryLost>>

\* A register that is under way at the same time may have read more or less.
Truncate(d) ==
    /\ pc[d] = "write"
    /\ file' = Blank
    /\ Go(d, "fill")
    /\ fileLost' = IF Registering = {d} THEN fileLost ELSE fileLost \cup Holders
    /\ UNCHANGED <<clock, message, at, memory, inserted, disabled, content, setbacks, after,
                   memoryLost>>

\* What another register wrote meanwhile stays where it reaches further.
Fill(d, Rest) ==
    /\ pc[d] = "fill"
    /\ Rest \subseteq {k \in MessageKeys : file[k] # 0 /\ content[d][k] = 0}
    /\ file' = [k \in MessageKeys |-> IF k \in Rest THEN file[k] ELSE content[d][k]]
    /\ Go(d, "claimed")
    /\ fileLost' = IF Registering = {d} THEN fileLost ELSE fileLost \cup Holders
    /\ UNCHANGED <<clock, message, at, memory, inserted, disabled, content, setbacks, after,
                   memoryLost>>

RegisterFails(d) ==
    /\ d \in Registering
    /\ Disable(d)
    /\ Go(d, "claimed")
    /\ UNCHANGED <<clock, message, at, memory, inserted, file, content, after, memoryLost>>

----------------------------------------------------------------------------
(* The tap dies and is started again; time passes.                         *)

Restart ==
    /\ setbacks < MaxSetbacks
    /\ setbacks' = setbacks + 1
    /\ memory' = {}
    /\ inserted' = 0
    /\ disabled' = FALSE
    /\ pc' = [d \in Deliveries |-> IF pc[d] \in AtFile THEN "dead" ELSE pc[d]]
    /\ memoryLost' = memoryLost \cup Holders
    /\ fileLost' = IF \E d \in Deliveries : pc[d] = "fill" THEN fileLost \cup Holders ELSE fileLost
    /\ UNCHANGED <<clock, message, at, file, content, after>>

Tick ==
    /\ Busy = {}
    /\ clock < MaxClock
    /\ clock' = clock + 1
    /\ UNCHANGED <<pc, message, at, memory, inserted, disabled, file, content, setbacks, history>>

----------------------------------------------------------------------------

GuardNext ==
    \/ \E d \in Deliveries :
          \/ Dropped(d) \/ AskFile(d) \/ ClaimInMemory(d)
          \/ LookupFinds(d) \/ LookupMisses(d) \/ LookupFails(d)
          \/ \E S \in SUBSET MessageKeys : RegisterReads(d, S) \/ Fill(d, S)
          \/ Truncate(d) \/ RegisterFails(d)
    \/ Restart \/ Tick

GuardSpec == GuardInit /\ [][GuardNext]_guardVars

----------------------------------------------------------------------------
(* Properties.                                                              *)

GuardTypeOK ==
    /\ clock \in 1..MaxClock
    /\ pc \in [Deliveries -> {"new", "claimed", "duplicate", "dead"} \cup AtFile]
    /\ message \in [Deliveries -> MessageKeys]
    /\ at \in [Deliveries -> 0..MaxClock]
    /\ memory \subseteq [key : MessageKeys, until : Nat, rank : Nat]
    /\ IsFiniteSet(memory) /\ Cardinality(memory) <= MaxEntries
    /\ inserted \in Nat
    /\ disabled \in BOOLEAN
    /\ file \in [MessageKeys -> Nat]
    /\ content \in [Deliveries -> [MessageKeys -> Nat]]
    /\ setbacks \in 0..MaxSetbacks
    /\ after \in [Deliveries -> SUBSET Deliveries]
    /\ memoryLost \subseteq Deliveries /\ fileLost \subseteq Deliveries

\* A message that was claimed is not claimed again while the claim lives: the
\* Map or the file has it, unless the Map has evicted it, has overwritten it with
\* what an overlapping lookup found on record or was lost to a restart, and the
\* file has lost it as well, to its limit, to an error or to two operations at a
\* time.
OnceAfterAnswer ==
    \A d \in Deliveries : \A c \in after[d] :
        Claimed(d) /\ message[c] = message[d] =>
            at[d] >= at[c] + Ttl \/ c \in memoryLost \cap fileLost

\* Nothing is dropped as a duplicate of nothing: some other delivery of the
\* message had the claim less than a lifetime ago.
NoFalseDuplicate ==
    \A d \in Deliveries : pc[d] = "duplicate" =>
        \E c \in Deliveries :
            /\ message[c] = message[d] /\ pc[c] \notin {"new", "lookup", "duplicate"}
            /\ at[c] <= at[d] /\ at[d] < at[c] + Ttl
=============================================================================
