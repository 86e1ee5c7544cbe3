---------------------------- MODULE WorkboardProofs ----------------------------
(***************************************************************************)
(* Theorems about Workboard, for any workers, lifetime, grace and bounds.    *)
(***************************************************************************)
EXTENDS Workboard, TLAPS

Pending(w) == draft[w] # NoDraft

\* What holds of every record that is about to be the card.
Sound(card) == ~Stranded(card)
DraftsSound == \A w \in Workers : Sound(draft[w])

\* A worker under a claim has a token, and no two have the same.
TokensDiffer ==
    /\ \A w \in Workers : token[w] <= issued
    /\ \A w \in Workers : Working(w) \/ place[w] = "claiming" => token[w] # Unclaimed
    /\ \A v, w \in Workers : token[v] = token[w] => v = w \/ token[v] = Unclaimed
    /\ \A w \in Workers : place[w] = "claiming" => draft[w].token = token[w]

\* What the board knows of a valid claim.
BoardKnows ==
    \A w \in Workers : Leased(w) => board.token = token[w] /\ board.left >= lease[w]

\* One operation at a time, and a draft that does not take a valid claim away.
OnePending == \A v, w \in Workers : Pending(v) /\ Pending(w) => v = w
DraftsRespect ==
    \A v, w \in Workers : Pending(v) /\ Leased(w) =>
        \/ v = w
        \/ place[v] = "sweeping" /\ draft[v].token = token[w] /\ draft[v].left >= lease[w]
BeatsOwn == \A w \in Workers : place[w] = "beating" => draft[w].token = token[w]

Undisturbed == OnePending /\ BoardKnows /\ DraftsRespect /\ BeatsOwn

IInv == TypeOK /\ DraftsSound /\ TokensDiffer /\ (~disturbed => Undisturbed)

----------------------------------------------------------------------------
(* Records.                                                                 *)

LEMMA Constants ==
    /\ Full \in Nat /\ Grace \in Nat /\ Ttl \in Nat \ {0}
    /\ Full > Grace + 1
    /\ MaxClaims \in Nat /\ MaxBeats \in Nat /\ MaxSetbacks \in Nat
BY WorkboardAssumption DEF Full

LEMMA CardsMade ==
    /\ \A card \in Cards, t \in Statuses :
          Freed(card, t) \in Cards /\ (t # "running" => Sound(Freed(card, t)))
    /\ \A card \in Cards :
          /\ Swept(card) \in Cards
          /\ Expired(card) \/ card.status = "ready" => Sound(Swept(card))
    /\ \A card \in Cards : [card EXCEPT !.left = Full] \in Cards
    /\ NoDraft \notin Cards
<1>1. \A card \in Cards, t \in Statuses : Freed(card, t) \in Cards
  BY Constants DEF Freed, Cards, Unclaimed
<1>2. \A card \in Cards, t \in Statuses : t # "running" => Sound(Freed(card, t))
  BY DEF Freed, Sound, Stranded
<1>3. ASSUME NEW card \in Cards
      PROVE  /\ Swept(card) \in Cards
             /\ Expired(card) \/ card.status = "ready" => Sound(Swept(card))
  <2>1. card.status \in Statuses /\ "blocked" \in Statuses
    BY DEF Cards, Statuses
  <2>2. CASE Expired(card)
    BY <1>1, <1>2, <2>1, <2>2 DEF Swept
  <2>3. CASE ~Expired(card)
    BY <2>3 DEF Swept, Sound, Stranded
  <2> QED
    BY <2>2, <2>3
<1>4. \A card \in Cards : [card EXCEPT !.left = Full] \in Cards
  BY Constants DEF Cards
<1>5. NoDraft \notin Cards
  BY DEF NoDraft, Cards, Statuses
<1> QED
  BY <1>1, <1>2, <1>3, <1>4, <1>5

LEMMA CardsAge ==
    ASSUME NEW card \in Cards
    PROVE  /\ Aged(card) \in Cards
           /\ Aged(card).status = card.status /\ Aged(card).token = card.token
           /\ Aged(card).left = Less(card.left)
<1>1. Less(card.left) \in 0..Full
  BY Constants DEF Less, Cards
<1>2. Aged(card) = [card EXCEPT !.left = Less(@)]
  BY CardsMade DEF Aged
<1> QED
  BY <1>1, <1>2 DEF Cards

----------------------------------------------------------------------------
(* Types.                                                                   *)

LEMMA InitHolds == Init => IInv
<1> SUFFICES ASSUME Init PROVE IInv
  OBVIOUS
<1>1. \A w \in Workers : place[w] = "idle" /\ draft[w] = NoDraft /\ token[w] = 0
  BY DEF Init, Unclaimed
<1>2. board \in Cards
  BY Constants DEF Init, Cards, Statuses, Unclaimed
<1>3. lease \in [Workers -> 0..Full] /\ issued = 0 /\ beats = 0 /\ setbacks = 0
  BY Constants DEF Init
<1>4. /\ place \in [Workers -> Places]
      /\ draft \in [Workers -> Cards \cup {NoDraft}]
  BY DEF Init, Places
<1>5. token \in [Workers -> 0..MaxClaims]
  BY Constants DEF Init, Unclaimed
<1>6. disturbed \in BOOLEAN
  BY DEF Init
<1>7. TypeOK
  BY <1>1, <1>2, <1>3, <1>4, <1>5, <1>6, Constants DEF TypeOK, Appending
<1>8. DraftsSound
  BY <1>1 DEF DraftsSound, Sound, Stranded, NoDraft
<1>9. TokensDiffer
  BY <1>1, <1>3 DEF TokensDiffer, Working, Unclaimed
<1>10. Undisturbed
  BY <1>1 DEF Undisturbed, OnePending, Pending, BoardKnows, DraftsRespect, BeatsOwn, Leased, Working
<1> QED
  BY <1>7, <1>8, <1>9, <1>10 DEF IInv

LEMMA TypeStep == TypeOK /\ [Next]_vars => TypeOK'
<1> SUFFICES ASSUME TypeOK, [Next]_vars PROVE TypeOK'
  OBVIOUS
<1> USE Constants, CardsMade
<1>1. ASSUME NEW w \in Workers, NEW card \in Cards, NEW there \in Appending,
             draft' = [draft EXCEPT ![w] = card], Go(w, there)
      PROVE  /\ draft' \in [Workers -> Cards \cup {NoDraft}]
             /\ place' \in [Workers -> Places]
             /\ \A v \in Workers : draft'[v] # NoDraft <=> place'[v] \in Appending
  BY <1>1 DEF TypeOK, Go, Places
<1>2. ASSUME NEW w \in Workers, NEW there \in Places \ Appending,
             draft' = [draft EXCEPT ![w] = NoDraft], Go(w, there)
      PROVE  /\ draft' \in [Workers -> Cards \cup {NoDraft}]
             /\ place' \in [Workers -> Places]
             /\ \A v \in Workers : draft'[v] # NoDraft <=> place'[v] \in Appending
  BY <1>2 DEF TypeOK, Go, Places
<1>3. ASSUME NEW w \in Workers, NEW there \in Places \ Appending,
             draft[w] = NoDraft, UNCHANGED draft, Go(w, there)
      PROVE  /\ place' \in [Workers -> Places]
             /\ \A v \in Workers : draft'[v] # NoDraft <=> place'[v] \in Appending
  BY <1>3 DEF TypeOK, Go, Places
<1>4. ASSUME NEW w \in Workers, draft[w] # NoDraft PROVE draft[w] \in Cards
  BY <1>4 DEF TypeOK
<1>5. ASSUME NEW w \in Workers, Sweep(w) PROVE TypeOK'
  <2>1. Swept(board) \in Cards
    BY DEF TypeOK
  <2>2. disturbed' \in BOOLEAN
    BY <1>5 DEF Sweep, Reads, TypeOK
  <2> QED
    BY <1>1, <1>5, <2>1, <2>2 DEF Sweep, Reads, Appending, TypeOK
<1>6. ASSUME NEW w \in Workers, SweepsNothing(w) \/ Looks(w) \/ ClaimDenied(w) \/ FinishDenied(w)
      PROVE  TypeOK'
  <2>1. draft[w] = NoDraft
    BY <1>6 DEF SweepsNothing, MaySweep, Looks, ClaimDenied, FinishDenied, TypeOK, Appending
  <2>2. PICK there \in Places \ Appending : Go(w, there)
    BY <1>6 DEF SweepsNothing, Looks, ClaimDenied, FinishDenied, AfterSweep, Places, Appending
  <2>3. UNCHANGED <<board, draft, token, lease, issued, beats, setbacks, disturbed>>
    BY <1>6 DEF SweepsNothing, Looks, ClaimDenied, FinishDenied
  <2> QED
    BY <1>3, <2>1, <2>2, <2>3 DEF TypeOK
<1>7. ASSUME NEW w \in Workers, AppendSweep(w) \/ AppendFinish(w) PROVE TypeOK'
  <2>1. draft[w] \in Cards
    BY <1>4, <1>7 DEF AppendSweep, AppendFinish, TypeOK, Appending
  <2>2. PICK there \in Places \ Appending : Appends(w, there)
    BY <1>7 DEF AppendSweep, AppendFinish, AfterSweep, Places, Appending
  <2>3. UNCHANGED lease
    BY <1>7 DEF AppendSweep, AppendFinish
  <2> QED
    BY <1>2, <2>1, <2>2, <2>3 DEF Appends, TypeOK
<1>8. ASSUME NEW w \in Workers, AppendClaim(w) \/ AppendBeat(w) PROVE TypeOK'
  <2>1. draft[w] \in Cards
    BY <1>4, <1>8 DEF AppendClaim, AppendBeat, TypeOK, Appending
  <2>2. Appends(w, "holding") /\ "holding" \in Places \ Appending
    BY <1>8 DEF AppendClaim, AppendBeat, Places, Appending
  <2>3. draft[w].left \in 0..Full
    BY <2>1 DEF Cards
  <2>4. lease' \in [Workers -> 0..Full]
    BY <1>8, <2>3 DEF AppendClaim, AppendBeat, TypeOK
  <2> QED
    BY <1>2, <2>1, <2>2, <2>4 DEF Appends, TypeOK
<1>9. ASSUME NEW w \in Workers, Claim(w) PROVE TypeOK'
  <2> DEFINE card == [status |-> Started(board.status), token |-> issued', left |-> Full]
  <2>1. issued' \in 0..MaxClaims
    BY <1>9 DEF Claim, TypeOK
  <2>2. board.status \in Statuses
    BY DEF TypeOK, Cards
  <2>3. Started(board.status) \in Statuses
    BY <2>2 DEF Started, Statuses
  <2>4. card \in Cards
    BY <2>1, <2>3 DEF Cards
  <2>5. draft' = [draft EXCEPT ![w] = card] /\ Go(w, "claiming") /\ UNCHANGED <<board, setbacks>>
    BY <1>9 DEF Claim, Reads
  <2>6. token' \in [Workers -> 0..MaxClaims]
    BY <1>9, <2>1 DEF Claim, TypeOK
  <2>7. disturbed' \in BOOLEAN /\ UNCHANGED <<lease, beats>>
    BY <1>9 DEF Claim, Reads, TypeOK
  <2> HIDE DEF card
  <2> QED
    BY <1>1, <2>1, <2>4, <2>5, <2>6, <2>7 DEF Appending, TypeOK
<1>10. ASSUME NEW w \in Workers, NEW card \in Cards, NEW there \in Appending,
              UsesClaim(w, card, there), beats' \in 0..MaxBeats
       PROVE  TypeOK'
  <2>1. disturbed' \in BOOLEAN
    BY <1>10 DEF UsesClaim, TypeOK
  <2> QED
    BY <1>1, <1>10, <2>1 DEF UsesClaim, TypeOK
<1>11. ASSUME NEW w \in Workers, Beat(w) PROVE TypeOK'
  <2>1. beats' \in 0..MaxBeats
    BY <1>11 DEF Beat, TypeOK
  <2>2. [board EXCEPT !.left = Full] \in Cards
    BY DEF TypeOK
  <2> QED
    BY <1>10, <1>11, <2>1, <2>2 DEF Beat, Appending
<1>12. ASSUME NEW w \in Workers, BlockFailed(w) \/ \E t \in {"done", "blocked"} : Finish(w, t)
       PROVE  TypeOK'
  <2>1. PICK t \in {"done", "blocked"}, there \in {"finishing", "blocking"} :
           UsesClaim(w, Freed(board, t), there) /\ UNCHANGED beats
    BY <1>12 DEF BlockFailed, Finish
  <2>2. Freed(board, t) \in Cards
    BY DEF TypeOK, Statuses
  <2>3. there \in Appending /\ beats' \in 0..MaxBeats
    BY <2>1 DEF Appending, TypeOK
  <2> QED
    BY <1>10, <2>1, <2>2, <2>3
<1>13. ASSUME NEW w \in Workers, AppendFails(w) \/ Crash(w) PROVE TypeOK'
  <2>1. PICK there \in Places \ Appending : Go(w, there)
    BY <1>13 DEF AppendFails, Crash, Places, Appending
  <2>2. Setback(w)
    BY <1>13 DEF AppendFails, Crash
  <2>3. setbacks' \in 0..MaxSetbacks
    BY <2>2 DEF Setback, TypeOK
  <2> QED
    BY <1>2, <2>1, <2>2, <2>3 DEF Setback, TypeOK
<1>14. CASE Tick
  <2>1. board' \in Cards
    BY <1>14, CardsAge DEF Tick, TypeOK
  <2>2. \A w \in Workers : IF draft[w] = NoDraft THEN draft'[w] = NoDraft ELSE draft'[w] \in Cards
    BY <1>4, <1>14, CardsAge DEF Tick, Aged
  <2>3. draft' \in [Workers -> Cards \cup {NoDraft}]
    BY <1>14, <2>2 DEF Tick
  <2>4. \A w \in Workers : lease[w] \in 0..Full
    BY DEF TypeOK
  <2>5. \A w \in Workers : Less(lease[w]) \in 0..Full
    BY <2>4 DEF Less
  <2>6. lease' \in [Workers -> 0..Full]
    BY <1>14, <2>5 DEF Tick
  <2>7. UNCHANGED <<place, token, issued, beats, setbacks, disturbed>>
    BY <1>14 DEF Tick
  <2> QED
    BY <2>1, <2>2, <2>3, <2>6, <2>7 DEF TypeOK
<1>15. CASE UNCHANGED vars
  BY <1>15 DEF TypeOK, vars
<1> QED
  BY <1>5, <1>6, <1>7, <1>8, <1>9, <1>11, <1>12, <1>13, <1>14, <1>15 DEF Next, Proceed, Begin

----------------------------------------------------------------------------
(* What is about to be the card has a claim when it is running.              *)

LEMMA SoundStep == TypeOK /\ DraftsSound /\ [Next]_vars => DraftsSound'
<1> SUFFICES ASSUME TypeOK, DraftsSound, [Next]_vars PROVE DraftsSound'
  OBVIOUS
<1>1. Sound(NoDraft)
  BY DEF Stranded, Sound, NoDraft
<1>2. ASSUME NEW w \in Workers, NEW card, Sound(card), draft' = [draft EXCEPT ![w] = card]
      PROVE  DraftsSound'
  BY <1>2 DEF DraftsSound, TypeOK, Sound, Stranded, Claimed
<1>3. ASSUME NEW w \in Workers, NEW there, Appends(w, there) PROVE DraftsSound'
  BY <1>1, <1>3 DEF Appends, DraftsSound, TypeOK, Sound, Stranded, Claimed
<1>4. ASSUME UNCHANGED draft PROVE DraftsSound'
  BY <1>4 DEF DraftsSound, Sound, Stranded, Claimed
<1>5. board \in Cards
  BY DEF TypeOK
<1>6. ASSUME NEW w \in Workers, Sweep(w) PROVE DraftsSound'
  BY <1>2, <1>5, <1>6, CardsMade DEF Sweep, Reads
<1>7. ASSUME NEW w \in Workers, Claim(w) PROVE DraftsSound'
  <2> DEFINE card == [status |-> Started(board.status), token |-> issued', left |-> Full]
  <2>1. issued' # Unclaimed
    BY <1>7 DEF Claim, TypeOK, Unclaimed
  <2>2. Sound(card)
    BY <2>1 DEF Sound, Stranded, Claimed
  <2>3. draft' = [draft EXCEPT ![w] = card]
    BY <1>7 DEF Claim, Reads
  <2> QED
    BY <1>2, <2>2, <2>3
<1>8. ASSUME NEW w \in Workers, Beat(w) PROVE DraftsSound'
  <2>1. Sound([board EXCEPT !.left = Full])
    BY <1>5, <1>8 DEF Beat, UsesClaim, Access, Sound, Stranded, Claimed, Cards
  <2> QED
    BY <1>2, <1>8, <2>1 DEF Beat, UsesClaim
<1>9. ASSUME NEW w \in Workers, BlockFailed(w) \/ \E t \in {"done", "blocked"} : Finish(w, t)
      PROVE  DraftsSound'
  <2>1. PICK t \in {"done", "blocked"}, there \in {"finishing", "blocking"} :
           UsesClaim(w, Freed(board, t), there)
    BY <1>9 DEF BlockFailed, Finish
  <2>2. Sound(Freed(board, t))
    BY DEF Stranded, Sound, Freed
  <2> QED
    BY <1>2, <2>1, <2>2 DEF UsesClaim
<1>10. ASSUME NEW w \in Workers, AppendFails(w) \/ Crash(w) PROVE DraftsSound'
  BY <1>1, <1>2, <1>10 DEF AppendFails, Crash, Setback
<1>11. CASE Tick
  <2>1. ASSUME NEW w \in Workers PROVE Sound(draft'[w])
    <3>1. draft'[w] = Aged(draft[w]) /\ Sound(draft[w])
      BY <1>11 DEF Tick, DraftsSound
    <3>2. CASE draft[w] = NoDraft
      BY <3>1, <3>2 DEF Aged
    <3>3. CASE draft[w] # NoDraft
      <4>1. draft[w] \in Cards
        BY <3>3 DEF TypeOK
      <4> QED
        BY <3>1, <4>1, CardsAge DEF Sound, Stranded, Claimed
    <3> QED
      BY <3>2, <3>3
  <2> QED
    BY <2>1 DEF DraftsSound, Sound, Stranded, Claimed
<1> QED
  BY <1>3, <1>4, <1>6, <1>7, <1>8, <1>9, <1>10, <1>11 DEF Next, Proceed, Begin, vars, SweepsNothing,
     Looks, ClaimDenied, FinishDenied, AppendSweep, AppendClaim, AppendBeat, AppendFinish

----------------------------------------------------------------------------
(* Tokens.                                                                  *)

LEMMA TokenStep == TypeOK /\ TokensDiffer /\ [Next]_vars => TokensDiffer'
<1> SUFFICES ASSUME TypeOK, TokensDiffer, [Next]_vars PROVE TokensDiffer'
  OBVIOUS
<1>1. ASSUME NEW w \in Workers, NEW there, there # "claiming", Go(w, there), UNCHANGED <<token, issued>>,
             \A v \in Workers : v # w => draft'[v] = draft[v],
             there \in {"holding", "beating", "finishing", "failed", "blocking"} =>
                Working(w) \/ place[w] = "claiming"
      PROVE  TokensDiffer'
  BY <1>1 DEF TokensDiffer, TypeOK, Go, Working
<1>2. ASSUME NEW w \in Workers, Sweep(w) \/ SweepsNothing(w) \/ Looks(w) \/ ClaimDenied(w)
      PROVE  TokensDiffer'
  <2>1. PICK there \in {"sweeping", "listing", "listed", "idle"} : Go(w, there)
    BY <1>2 DEF Sweep, Reads, SweepsNothing, Looks, ClaimDenied, AfterSweep
  <2>2. /\ UNCHANGED <<token, issued>>
        /\ \A v \in Workers : v # w => draft'[v] = draft[v]
    BY <1>2 DEF Sweep, Reads, SweepsNothing, Looks, ClaimDenied, TypeOK
  <2> QED
    BY <1>1, <2>1, <2>2
<1>3. ASSUME NEW w \in Workers,
             AppendSweep(w) \/ AppendClaim(w) \/ AppendBeat(w) \/ AppendFinish(w)
      PROVE  TokensDiffer'
  <2>1. PICK there \in {"listing", "idle", "holding"} :
           /\ Appends(w, there)
           /\ there = "holding" => place[w] \in {"claiming", "beating"}
    BY <1>3 DEF AppendSweep, AppendClaim, AppendBeat, AppendFinish, AfterSweep
  <2>2. /\ Go(w, there) /\ UNCHANGED <<token, issued>>
        /\ \A v \in Workers : v # w => draft'[v] = draft[v]
    BY <2>1 DEF Appends, TypeOK
  <2> QED
    BY <1>1, <2>1, <2>2 DEF Working
<1>4. ASSUME NEW w \in Workers, FinishDenied(w) \/ AppendFails(w) \/ Crash(w) PROVE TokensDiffer'
  <2>1. PICK there \in {"failed", "idle"} :
           /\ Go(w, there)
           /\ there = "failed" => place[w] \in {"holding", "finishing"}
    BY <1>4 DEF FinishDenied, AppendFails, Crash
  <2>2. /\ UNCHANGED <<token, issued>>
        /\ \A v \in Workers : v # w => draft'[v] = draft[v]
    BY <1>4 DEF FinishDenied, AppendFails, Crash, Setback, TypeOK
  <2> QED
    BY <1>1, <2>1, <2>2 DEF Working
<1>5. ASSUME NEW w \in Workers,
             Beat(w) \/ BlockFailed(w) \/ \E t \in {"done", "blocked"} : Finish(w, t)
      PROVE  TokensDiffer'
  <2>1. PICK there \in {"beating", "finishing", "blocking"} :
           /\ Go(w, there) /\ UNCHANGED <<token, issued>>
           /\ \A v \in Workers : v # w => draft'[v] = draft[v]
    BY <1>5 DEF Beat, BlockFailed, Finish, UsesClaim, TypeOK
  <2>2. Working(w)
    BY <1>5 DEF Beat, BlockFailed, Finish, Working
  <2> QED
    BY <1>1, <2>1, <2>2
<1>6. ASSUME NEW w \in Workers, Claim(w) PROVE TokensDiffer'
  <2>1. /\ issued \in Nat /\ issued' = issued + 1
        /\ token' = [token EXCEPT ![w] = issued']
        /\ \A v \in Workers : token[v] \in Nat
    BY <1>6, Constants DEF Claim, TypeOK
  <2>2. /\ token'[w] = issued'
        /\ \A v \in Workers : v # w => token'[v] = token[v]
    BY <2>1 DEF TypeOK
  <2>3. /\ place'[w] = "claiming"
        /\ \A v \in Workers : v # w => place'[v] = place[v] /\ draft'[v] = draft[v]
    BY <1>6 DEF Claim, Reads, Go, TypeOK
  <2>4. draft'[w].token = issued'
    BY <1>6 DEF Claim, Reads, TypeOK
  <2>5. \A v \in Workers : token[v] <= issued
    BY DEF TokensDiffer
  <2>6. \A v \in Workers : token'[v] <= issued'
    BY <2>1, <2>2, <2>5
  <2>7. \A v \in Workers : v # w => token'[v] # token'[w]
    BY <2>1, <2>2, <2>5
  <2>8. \A v \in Workers : Working(v)' \/ place'[v] = "claiming" => token'[v] # Unclaimed
    BY <2>1, <2>2, <2>3 DEF TokensDiffer, Working, Unclaimed
  <2>9. \A u, v \in Workers : token'[u] = token'[v] => u = v \/ token'[u] = Unclaimed
    BY <2>2, <2>7 DEF TokensDiffer
  <2>10. \A v \in Workers : place'[v] = "claiming" => draft'[v].token = token'[v]
    BY <2>2, <2>3, <2>4 DEF TokensDiffer
  <2> QED
    BY <2>6, <2>8, <2>9, <2>10 DEF TokensDiffer
<1>7. CASE Tick
  <2>1. UNCHANGED <<place, token, issued>>
    BY <1>7 DEF Tick
  <2>2. \A w \in Workers : draft'[w].token = draft[w].token
    <3> SUFFICES ASSUME NEW w \in Workers PROVE draft'[w].token = draft[w].token
      OBVIOUS
    <3>1. draft'[w] = Aged(draft[w])
      BY <1>7 DEF Tick
    <3>2. draft[w] = NoDraft \/ draft[w] \in Cards
      BY DEF TypeOK
    <3> QED
      BY <3>1, <3>2, CardsAge DEF Aged
  <2> QED
    BY <2>1, <2>2 DEF TokensDiffer, Working
<1>8. CASE UNCHANGED vars
  BY <1>8 DEF TokensDiffer, Working, vars
<1> QED
  BY <1>2, <1>3, <1>4, <1>5, <1>6, <1>7, <1>8 DEF Next, Proceed, Begin

----------------------------------------------------------------------------
(* As long as nothing has disturbed it, the board knows every valid claim.   *)

\* A worker moves without a draft, or loses the one it had.
LEMMA Moving ==
    ASSUME IInv, Undisturbed, NEW w \in Workers, NEW there \in Places \ Appending, Go(w, there),
           UNCHANGED <<board, token, lease>>,
           draft' = [draft EXCEPT ![w] = NoDraft],
           there \in {"holding", "failed"} => Working(w)
    PROVE  Undisturbed'
<1>1. /\ place'[w] = there
      /\ \A v \in Workers : v # w => place'[v] = place[v]
  BY DEF IInv, TypeOK, Go
<1>2. /\ draft'[w] = NoDraft
      /\ \A v \in Workers : v # w => draft'[v] = draft[v]
  BY DEF IInv, TypeOK
<1>3. \A v \in Workers : Leased(v)' => Leased(v)
  BY <1>1 DEF Leased, Working, Places, Appending
<1>4. OnePending'
  BY <1>2 DEF Undisturbed, OnePending, Pending
<1>5. BoardKnows'
  BY <1>3 DEF Undisturbed, BoardKnows
<1>6. DraftsRespect'
  BY <1>1, <1>2, <1>3 DEF Undisturbed, DraftsRespect, Pending
<1>7. BeatsOwn'
  BY <1>1, <1>2 DEF Undisturbed, BeatsOwn, Appending
<1> QED
  BY <1>4, <1>5, <1>6, <1>7 DEF Undisturbed

\* A worker reads while no other has a draft.
LEMMA Reading ==
    ASSUME IInv, Undisturbed, NEW w \in Workers, NEW there \in Appending, Go(w, there),
           NEW card, draft' = [draft EXCEPT ![w] = card],
           \A v \in Workers : draft[v] = NoDraft,
           UNCHANGED <<board, lease>>,
           \A v \in Workers : v # w => token'[v] = token[v],
           there # "claiming" => token'[w] = token[w],
           there \in {"beating", "finishing", "blocking"} => Working(w),
           there = "beating" => card.token = token[w],
           \A v \in Workers : v # w /\ Leased(v) =>
              there = "sweeping" /\ card.token = token[v] /\ card.left >= lease[v]
    PROVE  Undisturbed'
<1>1. /\ place'[w] = there /\ draft'[w] = card
      /\ \A v \in Workers : v # w => place'[v] = place[v] /\ draft'[v] = NoDraft
  BY DEF IInv, TypeOK, Go
<1>2. \A v \in Workers : Leased(v)' => Leased(v) /\ token'[v] = token[v]
  BY <1>1 DEF Leased, Working, Appending
<1>3. OnePending'
  BY <1>1 DEF OnePending, Pending
<1>4. BoardKnows'
  BY <1>2 DEF Undisturbed, BoardKnows
<1>5. DraftsRespect'
  BY <1>1, <1>2 DEF DraftsRespect, Pending
<1>6. BeatsOwn'
  <2>1. \A v \in Workers : v # w => place[v] # "beating"
    BY DEF IInv, TypeOK, Appending
  <2> QED
    BY <1>1, <2>1 DEF BeatsOwn
<1> QED
  BY <1>3, <1>4, <1>5, <1>6 DEF Undisturbed

\* A worker appends; then no other has a draft.
LEMMA Appended ==
    ASSUME IInv, Undisturbed, NEW w \in Workers, NEW there \in Places \ Appending,
           Appends(w, there), Pending(w),
           \A v \in Workers : Leased(v)' =>
              draft[w].token = token[v] /\ draft[w].left >= lease'[v]
    PROVE  Undisturbed'
<1>1. /\ place'[w] = there /\ draft'[w] = NoDraft
      /\ \A v \in Workers : v # w => place'[v] = place[v] /\ draft'[v] = NoDraft
  BY DEF IInv, TypeOK, Appends, Go, Undisturbed, OnePending, Pending
<1>2. OnePending' /\ DraftsRespect'
  BY <1>1 DEF OnePending, DraftsRespect, Pending
<1>3. BoardKnows'
  BY DEF Appends, BoardKnows
<1>4. BeatsOwn'
  <2>1. \A v \in Workers : place'[v] \notin Appending
    BY <1>1 DEF IInv, TypeOK, Undisturbed, OnePending, Pending
  <2> QED
    BY <2>1 DEF BeatsOwn, Appending
<1> QED
  BY <1>2, <1>3, <1>4 DEF Undisturbed

LEMMA UndisturbedStep == IInv /\ [Next]_vars /\ ~disturbed' => Undisturbed'
<1> SUFFICES ASSUME IInv, [Next]_vars, ~disturbed' PROVE Undisturbed'
  OBVIOUS
<1>1. ~disturbed /\ Undisturbed
  <2>1. ~disturbed
    BY DEF Next, Proceed, Begin, vars, Sweep, SweepsNothing, Looks, Claim, ClaimDenied, FinishDenied,
       AppendSweep, AppendClaim, AppendBeat, AppendFinish, Beat, Finish, BlockFailed, Reads,
       UsesClaim, Appends, AppendFails, Crash, Setback, Tick
  <2> QED
    BY <2>1 DEF IInv
<1>2. /\ board \in Cards /\ board.left \in Nat /\ board.token \in Nat
      /\ \A w \in Workers : lease[w] \in Nat /\ token[w] \in Nat
  BY Constants DEF IInv, TypeOK, Cards
<1>3. \A w \in Workers : Leased(w) =>
         /\ Valid(board) /\ board.token = token[w] /\ board.left >= lease[w]
         /\ token[w] # Unclaimed
  <2> SUFFICES ASSUME NEW w \in Workers, Leased(w)
               PROVE  /\ Valid(board) /\ board.token = token[w] /\ board.left >= lease[w]
                      /\ token[w] # Unclaimed
    OBVIOUS
  <2>1. token[w] # Unclaimed
    BY DEF IInv, TokensDiffer, Leased
  <2>2. board.token = token[w] /\ board.left >= lease[w] /\ lease[w] > Grace + 1
    BY <1>1 DEF Undisturbed, BoardKnows, Leased
  <2> QED
    BY <1>2, <2>1, <2>2, Constants DEF Valid, Claimed
<1>4. ASSUME NEW w \in Workers, Sweep(w) PROVE Undisturbed'
  <2>1. \A v \in Workers : draft[v] = NoDraft
    BY <1>4 DEF Sweep, Reads
  <2>2. ASSUME NEW v \in Workers, Leased(v)
        PROVE  Swept(board).token = token[v] /\ Swept(board).left >= lease[v]
    <3>1. ~Expired(board)
      BY <1>3, <2>2, Constants DEF Expired, Valid
    <3> QED
      BY <1>3, <2>2, <3>1 DEF Swept
  <2>3. /\ Go(w, "sweeping") /\ draft' = [draft EXCEPT ![w] = Swept(board)]
        /\ UNCHANGED <<board, token, lease>>
    BY <1>4 DEF Sweep, Reads
  <2> QED
    BY <1>1, <2>1, <2>2, <2>3, Reading DEF Appending
<1>5. ASSUME NEW w \in Workers, Claim(w) PROVE Undisturbed'
  <2> DEFINE card == [status |-> Started(board.status), token |-> issued', left |-> Full]
  <2>1. \A v \in Workers : draft[v] = NoDraft
    BY <1>5 DEF Claim, Reads
  <2>2. \A v \in Workers : ~Leased(v)
    BY <1>3, <1>5 DEF Claim, Claimable
  <2>3. /\ Go(w, "claiming") /\ draft' = [draft EXCEPT ![w] = card]
        /\ UNCHANGED <<board, lease>>
    BY <1>5 DEF Claim, Reads
  <2>4. \A v \in Workers : v # w => token'[v] = token[v]
    BY <1>5 DEF Claim, IInv, TypeOK
  <2> HIDE DEF card
  <2> QED
    BY <1>1, <2>1, <2>2, <2>3, <2>4, Reading DEF Appending
<1>6. ASSUME NEW w \in Workers, NEW card, NEW there \in {"beating", "finishing", "blocking"},
             UsesClaim(w, card, there), Working(w),
             there = "beating" => card.token = board.token
      PROVE  Undisturbed'
  <2>1. board.token = token[w] /\ \A v \in Workers : draft[v] = NoDraft
    BY <1>6 DEF UsesClaim, Meddles
  <2>2. \A v \in Workers : v # w => ~Leased(v)
    BY <1>3, <2>1 DEF IInv, TokensDiffer
  <2>3. /\ Go(w, there) /\ draft' = [draft EXCEPT ![w] = card]
        /\ UNCHANGED <<board, lease, token>>
    BY <1>6 DEF UsesClaim
  <2> QED
    BY <1>1, <1>6, <2>1, <2>2, <2>3, Reading DEF Appending
<1>7. ASSUME NEW w \in Workers, Beat(w) PROVE Undisturbed'
  <2>1. [board EXCEPT !.left = Full].token = board.token
    BY <1>2 DEF Cards
  <2> QED
    BY <1>6, <1>7, <2>1 DEF Beat, Working
<1>8. ASSUME NEW w \in Workers, BlockFailed(w) PROVE Undisturbed'
  BY <1>6, <1>8 DEF BlockFailed, Working
<1>9. ASSUME NEW w \in Workers, NEW t \in {"done", "blocked"}, Finish(w, t) PROVE Undisturbed'
  BY <1>6, <1>9 DEF Finish, Working
<1>10. ASSUME NEW w \in Workers, SweepsNothing(w) \/ Looks(w) \/ ClaimDenied(w) \/ FinishDenied(w)
       PROVE  Undisturbed'
  <2>1. draft[w] = NoDraft
    BY <1>10 DEF SweepsNothing, MaySweep, Looks, ClaimDenied, FinishDenied, IInv, TypeOK, Appending
  <2>2. PICK there \in Places \ Appending :
           /\ Go(w, there) /\ there # "holding"
           /\ there = "failed" => Working(w)
    BY <1>10 DEF SweepsNothing, Looks, ClaimDenied, FinishDenied, AfterSweep, Places, Appending,
       Working
  <2>3. UNCHANGED <<board, draft, token, lease>>
    BY <1>10 DEF SweepsNothing, Looks, ClaimDenied, FinishDenied
  <2>4. draft' = [draft EXCEPT ![w] = NoDraft]
    BY <2>1, <2>3 DEF IInv, TypeOK
  <2> QED
    BY <1>1, <2>2, <2>3, <2>4, Moving
<1>11. ASSUME NEW w \in Workers, AppendFails(w) \/ Crash(w) PROVE Undisturbed'
  <2>1. PICK there \in Places \ Appending :
           /\ Go(w, there) /\ there # "holding"
           /\ there = "failed" => Working(w)
    BY <1>11 DEF AppendFails, Crash, Places, Appending, Working
  <2>2. /\ draft' = [draft EXCEPT ![w] = NoDraft]
        /\ UNCHANGED <<board, token, lease>>
    BY <1>11 DEF AppendFails, Crash, Setback
  <2> QED
    BY <1>1, <2>1, <2>2, Moving
<1>12. ASSUME NEW w \in Workers, AppendSweep(w) PROVE Undisturbed'
  <2>1. /\ Pending(w) /\ place[w] = "sweeping"
        /\ Appends(w, AfterSweep(w)) /\ AfterSweep(w) \in {"listing", "idle"}
        /\ UNCHANGED <<lease, token>>
    BY <1>12 DEF AppendSweep, Appends, AfterSweep, IInv, TypeOK, Pending, Appending
  <2>2. \A v \in Workers : Leased(v)' => Leased(v) /\ v # w
    BY <2>1 DEF Leased, Working, Appends, Go, IInv, TypeOK
  <2>3. \A v \in Workers : Leased(v)' => draft[w].token = token[v] /\ draft[w].left >= lease[v]
    BY <1>1, <2>1, <2>2 DEF Undisturbed, DraftsRespect
  <2>4. AfterSweep(w) \in Places \ Appending
    BY <2>1 DEF Places, Appending
  <2> QED
    BY <1>1, <2>1, <2>3, <2>4, Appended
<1>13. ASSUME NEW w \in Workers, AppendFinish(w) PROVE Undisturbed'
  <2>1. /\ Pending(w) /\ place[w] \in {"finishing", "blocking"}
        /\ Appends(w, "idle") /\ UNCHANGED lease
    BY <1>13 DEF AppendFinish, IInv, TypeOK, Pending, Appending
  <2>2. \A v \in Workers : Leased(v)' => Leased(v) /\ v # w
    BY <2>1 DEF Leased, Working, Appends, Go, IInv, TypeOK
  <2>3. \A v \in Workers : ~Leased(v)'
    BY <1>1, <2>1, <2>2 DEF Undisturbed, DraftsRespect
  <2>4. "idle" \in Places \ Appending
    BY DEF Places, Appending
  <2> QED
    BY <1>1, <2>1, <2>3, <2>4, Appended
<1>14. ASSUME NEW w \in Workers, AppendClaim(w) \/ AppendBeat(w) PROVE Undisturbed'
  <2>1. /\ Pending(w) /\ place[w] \in {"claiming", "beating"} /\ Appends(w, "holding")
    BY <1>14 DEF AppendClaim, AppendBeat, IInv, TypeOK, Pending, Appending
  <2>2. draft[w].token = token[w]
    BY <1>1, <2>1 DEF Undisturbed, BeatsOwn, IInv, TokensDiffer
  <2>3. /\ lease'[w] = draft[w].left
        /\ \A v \in Workers : v # w => lease'[v] = lease[v]
    BY <1>14, <2>2 DEF AppendClaim, AppendBeat, Meddles, IInv, TypeOK
  <2>4. \A v \in Workers : v # w /\ Leased(v)' => Leased(v)
    BY <2>1, <2>3 DEF Leased, Working, Appends, Go, IInv, TypeOK
  <2>5. \A v \in Workers : Leased(v)' => v = w
    BY <1>1, <2>1, <2>4 DEF Undisturbed, DraftsRespect
  <2>6. draft[w].left \in Nat
    BY <2>1, Constants DEF IInv, TypeOK, Pending, Cards
  <2>7. "holding" \in Places \ Appending
    BY DEF Places, Appending
  <2>8. \A v \in Workers : Leased(v)' => draft[w].token = token[v] /\ draft[w].left >= lease'[v]
    BY <2>2, <2>3, <2>5, <2>6
  <2> QED
    BY <1>1, <2>1, <2>7, <2>8, Appended
<1>15. CASE Tick
  <2>1. /\ UNCHANGED <<place, token>> /\ board' = Aged(board)
        /\ \A w \in Workers : lease'[w] = Less(lease[w]) /\ draft'[w] = Aged(draft[w])
    BY <1>15 DEF Tick
  <2>2. ASSUME NEW w \in Workers
        PROVE  /\ Pending(w)' <=> Pending(w)
               /\ draft'[w].token = draft[w].token
               /\ Pending(w) => draft'[w].left = Less(draft[w].left) /\ draft[w].left \in Nat
    <3>1. CASE draft[w] = NoDraft
      BY <2>1, <3>1 DEF Aged, Pending
    <3>2. CASE draft[w] \in Cards
      BY <2>1, <3>2, CardsAge, CardsMade, Constants DEF Pending, Cards
    <3> QED
      BY <3>1, <3>2 DEF IInv, TypeOK
  <2>3. \A w \in Workers : Leased(w)' => Leased(w)
    BY <1>2, <2>1, Constants DEF Leased, Working, Less
  <2>4. \A m, n \in Nat : m >= n => Less(m) >= Less(n)
    BY DEF Less
  <2>5. board'.token = board.token /\ board'.left = Less(board.left)
    BY <1>2, <2>1, CardsAge
  <2>6. OnePending'
    BY <1>1, <2>2 DEF Undisturbed, OnePending
  <2>7. BoardKnows'
    BY <1>1, <1>2, <2>1, <2>3, <2>4, <2>5 DEF Undisturbed, BoardKnows
  <2>8. DraftsRespect'
    <3> SUFFICES ASSUME NEW v \in Workers, NEW w \in Workers, Pending(v)', Leased(w)', v # w
                 PROVE  /\ place'[v] = "sweeping" /\ draft'[v].token = token'[w]
                        /\ draft'[v].left >= lease'[w]
      BY DEF DraftsRespect
    <3>1. Pending(v) /\ Leased(w)
      BY <2>2, <2>3
    <3>2. place[v] = "sweeping" /\ draft[v].token = token[w] /\ draft[v].left >= lease[w]
      BY <1>1, <3>1 DEF Undisturbed, DraftsRespect
    <3> QED
      BY <1>2, <2>1, <2>2, <2>4, <3>1, <3>2
  <2>9. BeatsOwn'
    BY <1>1, <2>1, <2>2 DEF Undisturbed, BeatsOwn
  <2> QED
    BY <2>6, <2>7, <2>8, <2>9 DEF Undisturbed
<1>16. CASE UNCHANGED vars
  BY <1>1, <1>16 DEF vars, Undisturbed, OnePending, Pending, BoardKnows, DraftsRespect, BeatsOwn,
     Leased, Working
<1> QED
  BY <1>4, <1>5, <1>7, <1>8, <1>9, <1>10, <1>11, <1>12, <1>13, <1>14, <1>15, <1>16
     DEF Next, Proceed, Begin

LEMMA Inductive == Spec => []IInv
<1>1. IInv /\ [Next]_vars => IInv'
  BY TypeStep, SoundStep, TokenStep, UndisturbedStep DEF IInv
<1> QED
  BY InitHolds, <1>1, PTL DEF Spec

----------------------------------------------------------------------------

\* A card, and every draft of one, stays well-formed, and a worker has a draft
\* exactly between the two halves of an operation.
THEOREM TypeCorrect == Spec => []TypeOK
<1>1. IInv => TypeOK
  BY DEF IInv
<1> QED
  BY Inductive, <1>1, PTL

\* However operations overlap, fail or come late, none of any number of workers
\* strands a card: what runs from then on has a claim, so that the sweep finds it.
THEOREM NoneStrands == Spec => NoneIsStranded
<1>1. IInv /\ [Next]_vars => [Stranded(board)' => Stranded(board)]_vars
  <2> SUFFICES ASSUME IInv, [Next]_vars, Stranded(board)' PROVE Stranded(board)
    OBVIOUS
  <2>1. ASSUME NEW w \in Workers, NEW there, Appends(w, there) PROVE Stranded(board)
    BY <2>1 DEF Appends, IInv, DraftsSound, Sound
  <2>2. CASE Tick
    BY <2>2, CardsAge DEF Tick, IInv, TypeOK, Stranded, Claimed
  <2>3. CASE UNCHANGED board
    BY <2>3 DEF Stranded, Claimed
  <2> QED
    BY <2>1, <2>2, <2>3 DEF Next, Proceed, Begin, vars, Sweep, SweepsNothing, Looks, Claim,
       ClaimDenied, FinishDenied, AppendSweep, AppendClaim, AppendBeat, AppendFinish, Beat, Finish,
       BlockFailed, Reads, UsesClaim, AppendFails, Crash, Setback
<1> QED
  BY Inductive, <1>1, PTL DEF Spec, NoneIsStranded

\* One operation at a time, the claim of any number of workers is a lease: who
\* has one that has not run out has the card.
THEOREM LeasesHold == Spec => []LeaseHolds
<1>1. IInv => LeaseHolds
  BY DEF IInv, Undisturbed, BoardKnows, LeaseHolds
<1> QED
  BY Inductive, <1>1, PTL
=============================================================================
