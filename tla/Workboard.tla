------------------------------- MODULE Workboard -------------------------------
(***************************************************************************)
(* A card of the workboard (src/workboard/workboardStore.ts) and those who   *)
(* work on it: autopilot pollers (workboardDispatcher.ts), runs of Discord   *)
(* messages (src/gateway/discordIngress.ts) and agents that call the RPC     *)
(* (workboardGateway.ts).                                                   *)
(*                                                                         *)
(* The board is a file of whole cards and the last record of a card counts.  *)
(* Every operation reads the file, awaits, and appends the card it has made  *)
(* of what it read: a draft.  Time is what is left of a claim, its lifetime, *)
(* the grace after it and one tick more, when a sweep finds it.             *)
(***************************************************************************)
EXTENDS Naturals

CONSTANTS
    Autopilots, Runs, Agents,
    Ttl,        \* lifetime of a claim
    Grace,      \* CLAIM_RECLAIM_GRACE_MS
    MaxClaims,  \* bound: claims
    MaxBeats,   \* bound: heartbeats
    MaxSetbacks \* bound: crashes and failed writes

Workers == Autopilots \cup Runs \cup Agents

ASSUME WorkboardAssumption ==
    /\ Ttl \in Nat \ {0} /\ Grace \in Nat
    /\ MaxClaims \in Nat /\ MaxBeats \in Nat /\ MaxSetbacks \in Nat
    /\ Autopilots \cap Runs = {} /\ Autopilots \cap Agents = {} /\ Runs \cap Agents = {}

Full == Ttl + Grace + 1
Unclaimed == 0

\* todo stands for backlog as well, review for triage.
Statuses == {"todo", "ready", "scheduled", "review", "running", "blocked", "done"}
Cards == [status : Statuses, token : Nat, left : 0..Full]
NoDraft == [status |-> "none", token |-> Unclaimed, left |-> 0]

VARIABLES
    board,     \* the last record of the card
    place,     \* where each worker stands
    draft,     \* the card it is about to append
    token,     \* the token of its latest claim
    lease,     \* what is left of that claim, as far as the worker knows
    issued, beats, setbacks,
    disturbed  \* history: operations overlapped, or one used another's claim

workVars == <<place, draft, token, lease>>
vars == <<board, place, draft, token, lease, issued, beats, setbacks, disturbed>>

Appending == {"sweeping", "claiming", "beating", "finishing", "blocking"}
Places == {"idle", "listing", "listed", "holding", "failed"} \cup Appending

\* A card may be created in any status, as running too, and without a claim.
Init ==
    /\ \E s \in Statuses : board = [status |-> s, token |-> Unclaimed, left |-> 0]
    /\ place = [w \in Workers |-> "idle"]
    /\ draft = [w \in Workers |-> NoDraft]
    /\ token = [w \in Workers |-> Unclaimed]
    /\ lease = [w \in Workers |-> 0]
    /\ issued = 0
    /\ beats = 0
    /\ setbacks = 0
    /\ disturbed = FALSE

Go(w, there) == place' = [place EXCEPT ![w] = there]

\* The first half of an operation: the card is read and its successor made.
Reads(w, card, there) ==
    /\ draft' = [draft EXCEPT ![w] = card]
    /\ Go(w, there)
    /\ disturbed' = (disturbed \/ \E v \in Workers : draft[v] # NoDraft)
    /\ UNCHANGED <<board, setbacks>>

\* The second half: the successor is the card now, whatever it was meanwhile.
Appends(w, there) ==
    /\ board' = draft[w]
    /\ draft' = [draft EXCEPT ![w] = NoDraft]
    /\ Go(w, there)
    /\ UNCHANGED <<token, issued, beats, setbacks, disturbed>>

----------------------------------------------------------------------------
(* Sweeping: dispatchNeonWorkboard.                                        *)

Claimed(card) == card.token # Unclaimed
Valid(card) == Claimed(card) /\ card.left > Grace + 1

\* Mutant: nothing expires.
NeverExpired(card) == FALSE

Expired(card) == Claimed(card) /\ card.left = 0

Freed(card, s) == [status |-> s, token |-> Unclaimed, left |-> 0]

\* Mutant: the claim of a running card is cleared like any other.
ClearedOnly(card) == IF Expired(card) THEN Freed(card, card.status) ELSE card

\* A running card is blocked, a claim on another is cleared; a ready card is
\* written again with a new dispatch count.
Swept(card) ==
    IF Expired(card) THEN Freed(card, IF card.status = "running" THEN "blocked" ELSE card.status)
    ELSE card

AfterSweep(w) == IF w \in Autopilots THEN "listing" ELSE "idle"

MaySweep(w) == place[w] = "idle" /\ w \in Autopilots \cup Agents

Sweep(w) ==
    /\ MaySweep(w)
    /\ Expired(board) \/ board.status = "ready"
    /\ Reads(w, Swept(board), "sweeping")
    /\ UNCHANGED <<token, lease, issued, beats>>

SweepsNothing(w) ==
    /\ MaySweep(w)
    /\ ~Expired(board) /\ board.status # "ready"
    /\ Go(w, AfterSweep(w))
    /\ UNCHANGED <<board, draft, token, lease, issued, beats, setbacks, disturbed>>

AppendSweep(w) ==
    /\ place[w] = "sweeping"
    /\ Appends(w, AfterSweep(w))
    /\ UNCHANGED lease

----------------------------------------------------------------------------
(* Claiming.  An autopilot lists the ready cards and a run looks its card up  *)
(* before they claim, an agent claims what it likes.                        *)

Wanted(w) == IF w \in Autopilots THEN {"ready"} ELSE {"ready", "todo"}

Looks(w) ==
    /\ \/ w \in Autopilots /\ place[w] = "listing"
       \/ w \in Runs /\ place[w] = "idle" /\ board.status \in Wanted(w)
    /\ Go(w, IF board.status \in Wanted(w) THEN "listed" ELSE "idle")
    /\ UNCHANGED <<board, draft, token, lease, issued, beats, setbacks, disturbed>>

MayClaim(w) == place[w] = IF w \in Agents THEN "idle" ELSE "listed"

\* Mutant: the claim of another is not looked at.
NoneHolds(card) == card.status # "scheduled"

Claimable(card) == ~Valid(card) /\ card.status # "scheduled"

Started(s) == IF s \in {"todo", "ready"} THEN "running" ELSE s

Claim(w) ==
    /\ MayClaim(w)
    /\ Claimable(board)
    /\ issued < MaxClaims
    /\ issued' = issued + 1
    /\ token' = [token EXCEPT ![w] = issued']
    /\ Reads(w, [status |-> Started(board.status), token |-> issued', left |-> Full], "claiming")
    /\ UNCHANGED <<lease, beats>>

\* Beyond the bound nothing is claimed.
ClaimDenied(w) ==
    /\ place[w] = "listed"
    /\ ~Claimable(board) \/ issued = MaxClaims
    /\ Go(w, "idle")
    /\ UNCHANGED <<board, draft, token, lease, issued, beats, setbacks, disturbed>>

AppendClaim(w) ==
    /\ place[w] = "claiming"
    /\ Appends(w, "holding")
    /\ lease' = [lease EXCEPT ![w] = draft[w].left]

----------------------------------------------------------------------------
(* Working under a claim.  The RPC lets a caller that names neither a token   *)
(* nor an owner use any claim.                                              *)

Access(w) == Claimed(board) /\ (board.token = token[w] \/ w \in Agents)

\* The claim is that of another.
Meddles(w, card) == card.token # token[w]

UsesClaim(w, card, there) ==
    /\ Access(w)
    /\ draft' = [draft EXCEPT ![w] = card]
    /\ Go(w, there)
    /\ disturbed' = (disturbed \/ Meddles(w, board) \/ \E v \in Workers : draft[v] # NoDraft)
    /\ UNCHANGED <<board, token, lease, issued, setbacks>>

\* An expired claim is renewed as well.
Beat(w) ==
    /\ w \in Agents /\ place[w] = "holding"
    /\ beats < MaxBeats
    /\ beats' = beats + 1
    /\ UsesClaim(w, [board EXCEPT !.left = Full], "beating")

AppendBeat(w) ==
    /\ place[w] = "beating"
    /\ Appends(w, "holding")
    /\ lease' = [lease EXCEPT ![w] = IF Meddles(w, draft[w]) THEN @ ELSE draft[w].left]

Finish(w, verdict) ==
    /\ place[w] = "holding"
    /\ UsesClaim(w, Freed(board, verdict), "finishing")
    /\ UNCHANGED beats

\* The autopilot blocks the card when anything has gone wrong.
BlockFailed(w) ==
    /\ place[w] = "failed"
    /\ UsesClaim(w, Freed(board, "blocked"), "blocking")
    /\ UNCHANGED beats

AppendFinish(w) ==
    /\ place[w] \in {"finishing", "blocking"}
    /\ Appends(w, "idle")
    /\ UNCHANGED lease

\* complete or block throws; a run ignores that.
FinishDenied(w) ==
    /\ place[w] \in {"holding", "failed"}
    /\ ~Access(w)
    /\ Go(w, IF w \in Autopilots /\ place[w] = "holding" THEN "failed" ELSE "idle")
    /\ UNCHANGED <<board, draft, token, lease, issued, beats, setbacks, disturbed>>

----------------------------------------------------------------------------
(* Setbacks, and time.                                                     *)

Setback(w) ==
    /\ setbacks < MaxSetbacks
    /\ setbacks' = setbacks + 1
    /\ draft' = [draft EXCEPT ![w] = NoDraft]
    /\ UNCHANGED <<board, token, lease, issued, beats, disturbed>>

AppendFails(w) ==
    /\ draft[w] # NoDraft
    /\ Setback(w)
    /\ Go(w, IF w \in Autopilots /\ place[w] = "finishing" THEN "failed" ELSE "idle")

Crash(w) ==
    /\ place[w] # "idle"
    /\ Setback(w)
    /\ Go(w, "idle")

Less(n) == IF n > 0 THEN n - 1 ELSE 0
Aged(card) == IF card = NoDraft THEN card ELSE [card EXCEPT !.left = Less(@)]

Tick ==
    /\ board' = Aged(board)
    /\ draft' = [w \in Workers |-> Aged(draft[w])]
    /\ lease' = [w \in Workers |-> Less(lease[w])]
    /\ <<board, draft, lease>>' # <<board, draft, lease>>
    /\ UNCHANGED <<place, token, issued, beats, setbacks, disturbed>>

----------------------------------------------------------------------------

\* What a worker does by itself once it has begun; an autopilot begins by itself.
Proceed(w) ==
    \/ Looks(w) \/ ClaimDenied(w) \/ FinishDenied(w) \/ BlockFailed(w)
    \/ AppendSweep(w) \/ AppendClaim(w) \/ AppendBeat(w) \/ AppendFinish(w)
    \/ \E verdict \in {"done", "blocked"} : Finish(w, verdict)

Begin(w) == Sweep(w) \/ SweepsNothing(w) \/ Claim(w) \/ Beat(w)

Next ==
    \/ \E w \in Workers : Proceed(w) \/ Begin(w) \/ AppendFails(w) \/ Crash(w)
    \/ Tick

Spec == Init /\ [][Next]_vars

Fairness ==
    /\ WF_vars(Tick)
    /\ \A w \in Autopilots : WF_vars(Proceed(w) \/ Begin(w))

FairSpec == Spec /\ Fairness

----------------------------------------------------------------------------
(* Properties.                                                              *)

TypeOK ==
    /\ board \in Cards
    /\ place \in [Workers -> Places]
    /\ draft \in [Workers -> Cards \cup {NoDraft}]
    /\ \A w \in Workers : draft[w] # NoDraft <=> place[w] \in Appending
    /\ token \in [Workers -> 0..MaxClaims]
    /\ lease \in [Workers -> 0..Full]
    /\ issued \in 0..MaxClaims
    /\ beats \in 0..MaxBeats
    /\ setbacks \in 0..MaxSetbacks
    /\ disturbed \in BOOLEAN

Stranded(card) == card.status = "running" /\ ~Claimed(card)

\* No operation strands a card, whatever is appended late or out of order: a card
\* that runs has a claim, by which the sweep finds it when its worker is dead.
\* A card created as running is stranded until somebody claims it.
NoneIsStranded == [][Stranded(board)' => Stranded(board)]_vars

Working(w) == place[w] \in {"holding", "beating", "finishing", "failed", "blocking"}
Leased(w) == Working(w) /\ lease[w] > Grace + 1

\* As long as operations do not overlap and nobody uses another's claim, a
\* worker whose claim has not run out has the card, through expiry, sweeps,
\* heartbeats and crashes.
LeaseHolds == ~disturbed => \A w \in Workers : Leased(w) => board.token = token[w]

\* A claimed card does not stay running: its worker ends, or a sweep blocks it.
\* One created as running and never claimed does: no sweep ever looks at it.
RunningEnds == board.status = "running" /\ Claimed(board) ~> board.status # "running"
=============================================================================
