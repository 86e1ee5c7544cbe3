----------------------- MODULE DecisionCardsProofs -----------------------
(***************************************************************************)
(* Theorems about DecisionCards, for any flows, clicks and bounds: what the *)
(* registry knows of the buttons that were pressed and of those on view.    *)
(***************************************************************************)
EXTENDS DecisionCards, TLAPS

Between == {"open", "refuse", "markRunning", "execute", "working", "record",
            "recordFailure"}
OfSessions == {"read", "open", "markRunning", "record", "recordFailure"}

\* What a caller and a handler hold while they are under way.
Holdings ==
    /\ start.at # "idle" => start.gen \in Gens /\ start.own \in Sessions
    /\ start.at = "settle" \/ (start.at = "post" /\ flow \in WithReceipt) =>
          receipt \in Receipts
    /\ \A c \in Clicks :
          /\ pc[c] \notin {"ready", "answered"} => pressed[c] \in Ids
          /\ pc[c] \in Between /\ flow \in WithSession => held[c] \in Sessions
          /\ pc[c] \in OfSessions => flow \in WithSession

----------------------------------------------------------------------------
(* The registry.                                                           *)

LEMMA ButtonsType ==
    ASSUME NEW f \in AllFlows
    PROVE  /\ Len(ButtonsOf[f]) \in Nat
           /\ DOMAIN ButtonsOf[f] = 1 .. Len(ButtonsOf[f])
           /\ \A i \in 1 .. Len(ButtonsOf[f]) : ButtonsOf[f][i] \in Buttons
<1>1. CASE f = "recovery"
  BY <1>1 DEF ButtonsOf, Buttons
<1>2. CASE f = "plan"
  BY <1>2 DEF ButtonsOf, Buttons
<1>3. CASE f = "review"
  BY <1>3 DEF ButtonsOf, Buttons
<1>4. CASE f = "capacity"
  BY <1>4 DEF ButtonsOf, Buttons
<1>5. CASE f = "replies"
  BY <1>5 DEF ButtonsOf, Buttons
<1> QED
  BY <1>1, <1>2, <1>3, <1>4, <1>5 DEF AllFlows

LEMMA BoundsFacts ==
    /\ Times \subseteq Nat
    /\ 0 \in Times /\ 0 .. MaxTime \subseteq Times
    /\ \A t \in 0 .. MaxTime : t \in Nat /\ t + Lifetime \in Times
    /\ Gens \subseteq Nat \ {0}
  BY BoundsAssumption DEF Times, Gens

LEMMA UnexpiredType ==
    ASSUME TypeOK, NEW r \in Registries
    PROVE  Unexpired(r) \in Registries
<1> DEFINE open == {i \in r.open : expiry[i[1]] > now}
<1>1. Unexpired(r) = [open |-> open, used |-> r.used \cap open,
                      spent |-> IF r.spent > now THEN r.spent ELSE 0]
  BY DEF Unexpired
<1>2. open \subseteq Ids /\ r.used \cap open \subseteq Ids
  BY DEF Registries
<1>3. (IF r.spent > now THEN r.spent ELSE 0) \in Times
  BY BoundsFacts DEF Registries
<1> QED
  BY <1>1, <1>2, <1>3 DEF Registries

LEMMA ConsumedType ==
    ASSUME TypeOK, NEW r \in Registries, NEW i \in Ids
    PROVE  /\ Consumed(r, i) \in Registries
           /\ Consumed(r, i).open = r.open /\ Consumed(r, i).used = r.used \cup {i}
           /\ Consumed(r, i).spent = IF Grouped(i[2]) THEN expiry[i[1]] ELSE r.spent
<1> DEFINE spent == IF Grouped(i[2]) THEN expiry[i[1]] ELSE r.spent
<1>1. i[1] \in Gens
  BY DEF Ids
<1>2. spent \in Times
  BY <1>1 DEF TypeOK, Registries
<1>3. Consumed(r, i) = [open |-> r.open, used |-> r.used \cup {i}, spent |-> spent]
  <2>1. Consumed(r, i) = [r EXCEPT !.used = r.used \cup {i}, !.spent = spent]
    BY DEF Consumed
  <2> HIDE DEF spent
  <2> QED
    BY <2>1 DEF Registries
<1> QED
  BY <1>2, <1>3 DEF Registries

LEMMA RegisteringType ==
    ASSUME TypeOK, Holdings, NEW n \in 0 .. AllButtons, Registering(n)
    PROVE  /\ start.at = "register" /\ start.gen \in Gens /\ start.own \in Sessions
           /\ mem' \in Registries /\ disk' = mem' /\ expiry' \in [Gens -> Times]
           /\ mem'.open = Unexpired(mem).open \cup FirstButtons(start.gen, n)
           /\ mem'.used = Unexpired(mem).used /\ mem'.spent = Unexpired(mem).spent
<1> DEFINE live == Unexpired(mem)
<1>1. live \in Registries
  BY UnexpiredType DEF TypeOK
<1>2. start.at = "register" /\ start.gen \in Gens /\ start.own \in Sessions
  BY DEF Registering, Holdings
<1>3. flow \in AllFlows
  BY FlowsAssumption DEF TypeOK
<1>4. FirstButtons(start.gen, n) \subseteq Ids
  <2>1. 1 .. n \subseteq 1 .. Len(ButtonsOf[flow])
    BY <1>3, ButtonsType DEF AllButtons
  <2>2. \A i \in 1 .. n : ButtonsOf[flow][i] \in Buttons
    BY <1>3, <2>1, ButtonsType
  <2> QED
    BY <1>2, <2>2 DEF FirstButtons, Ids
<1>5. mem' = [live EXCEPT !.open = live.open \cup FirstButtons(start.gen, n)]
  BY DEF Registering
<1>6. mem' = [open |-> live.open \cup FirstButtons(start.gen, n),
              used |-> live.used, spent |-> live.spent]
  BY <1>1, <1>5 DEF Registries
<1>7. mem' \in Registries
  BY <1>1, <1>4, <1>6 DEF Registries
<1>8. start.own.expires \in Times
  BY <1>2 DEF Sessions
<1>9. expiry' \in [Gens -> Times]
  BY <1>8 DEF Registering, TypeOK
<1>10. disk' = mem'
  BY DEF Registering, Persisted
<1> QED
  BY <1>2, <1>6, <1>7, <1>9, <1>10

----------------------------------------------------------------------------
(* Types.                                                                  *)

LEMMA InitType == Init => TypeOK /\ Holdings
<1> SUFFICES ASSUME Init PROVE TypeOK /\ Holdings
  OBVIOUS
<1>1. NoRegistry \in Registries /\ 0 \in 0 .. MaxTime /\ 0 \in 0 .. MaxSetbacks
      /\ 0 \in 0 .. MaxStarts
  BY BoundsAssumption, BoundsFacts DEF NoRegistry, Registries
<1>2. start \in [at : Places, gen : {0} \cup Gens, own : Sessions \cup {NoSession}]
  BY DEF Init, NotStarting, Places
<1>3. pc \in [Clicks -> ClickPlaces]
  BY DEF Init, ClickPlaces
<1>4. TypeOK
  BY <1>1, <1>2, <1>3, BoundsFacts DEF Init, TypeOK
<1>5. Holdings
  BY DEF Init, Holdings, NotStarting, Between, OfSessions
<1> QED
  BY <1>4, <1>5

StartType == [at : Places, gen : {0} \cup Gens, own : Sessions \cup {NoSession}]

\* A step that writes start.at only.
LEMMA AtType ==
    ASSUME TypeOK, NEW place \in Places, At(place)
    PROVE  start' \in StartType /\ start'.at = place /\ start'.gen = start.gen
                               /\ start'.own = start.own
  BY DEF At, TypeOK, StartType

\* A step of the caller that leaves the clicks alone.
LEMMA CallerType ==
    ASSUME TypeOK, Holdings, start' \in StartType,
           start'.at # "idle" => start'.gen \in Gens /\ start'.own \in Sessions,
           start'.at = "settle" \/ (start'.at = "post" /\ flow \in WithReceipt) =>
               receipt' \in Receipts,
           mem' \in Registries, disk' \in Registries, expiry' \in [Gens -> Times],
           session' \in Sessions \cup {NoSession}, starts' \in 0 .. MaxStarts,
           receipt' \in Receipts \cup {NoReceipt}, visible' \subseteq Gens,
           setbacks' \in 0 .. MaxSetbacks,
           UNCHANGED <<flow, now, modals, clicks, history>>
    PROVE  TypeOK' /\ Holdings'
<1>1. TypeOK'
  BY DEF TypeOK, StartType, clicks, history
<1>2. Holdings'
  BY DEF Holdings, clicks
<1> QED
  BY <1>1, <1>2

LEMMA SetbackType ==
    ASSUME TypeOK, Setback PROVE setbacks' \in 0 .. MaxSetbacks
  BY BoundsAssumption DEF TypeOK, Setback

LEMMA CallerKeepsType ==
    ASSUME TypeOK, Holdings, Caller PROVE TypeOK' /\ Holdings'
<1>t. /\ start \in StartType /\ mem \in Registries /\ disk \in Registries
      /\ expiry \in [Gens -> Times] /\ session \in Sessions \cup {NoSession}
      /\ starts \in 0 .. MaxStarts /\ receipt \in Receipts \cup {NoReceipt}
      /\ visible \subseteq Gens /\ setbacks \in 0 .. MaxSetbacks /\ now \in 0 .. MaxTime
  BY DEF TypeOK, StartType
<1> USE DEF registry, caller, platform
<1>1. CASE Start
  <2>1. starts' \in 0 .. MaxStarts /\ starts' \in Gens
    BY <1>1, <1>t, BoundsAssumption DEF Start, Gens
  <2>2. UNCHANGED <<flow, now, registry, session, platform, modals, clicks, history,
                    setbacks>>
    BY <1>1 DEF Start
  <2>3. ExpiresAt \in Times
    BY <1>t, BoundsFacts DEF ExpiresAt
  <2>4. CASE Prepares
    <3> DEFINE place == IF flow \in WithSession THEN "prepare" ELSE "register"
               status == IF flow = "plan" THEN "pending" ELSE "preparing"
               own == [status |-> status, gen |-> 0, expires |-> ExpiresAt]
    <3>1. start' = [at |-> place, gen |-> starts', own |-> own]
      BY <1>1, <2>4 DEF Start
    <3>2. own \in Sessions
      BY <2>3 DEF Sessions, Statuses
    <3>3. place \in {"prepare", "register"} /\ place \in Places
      BY DEF Places
    <3> HIDE DEF place, own
    <3>4. /\ start' \in StartType /\ start'.at \in {"prepare", "register"}
          /\ start'.gen \in Gens /\ start'.own \in Sessions
      BY <2>1, <3>1, <3>2, <3>3 DEF StartType
    <3> QED
      BY <1>t, <2>1, <2>2, <3>4, CallerType
  <2>5. CASE ~Prepares /\ Resumes
    <3>1. start' = [at |-> "deliver", gen |-> session.gen, own |-> session]
      BY <1>1, <2>5 DEF Start
    <3>2. session \in Sessions /\ session.gen \in Gens
      BY <1>t, <2>5 DEF Resumes, Fresh, Sessions
    <3>3. start' \in StartType /\ start'.at = "deliver" /\ start'.gen \in Gens
          /\ start'.own \in Sessions
      BY <3>1, <3>2 DEF StartType, Places
    <3> QED
      BY <1>t, <2>1, <2>2, <3>3, CallerType
  <2>6. CASE ~Prepares /\ ~Resumes
    <3>1. start' = start
      BY <1>1, <2>6 DEF Start
    <3> QED
      BY <1>t, <2>1, <2>2, <3>1, CallerType DEF Holdings
  <2> QED
    BY <2>4, <2>5, <2>6
<1>2. CASE WritePrepared
  <2>1. start' \in StartType /\ start'.at = "register" /\ start'.gen = start.gen
        /\ start'.own = start.own
    BY <1>2, AtType DEF WritePrepared, Places
  <2>2. start.gen \in Gens /\ start.own \in Sessions
    BY <1>2 DEF WritePrepared, Holdings
  <2> QED
    BY <1>2, <1>t, <2>1, <2>2, CallerType DEF WritePrepared
<1>3. CASE Register
  <2> DEFINE place == IF flow \in WithReceipt THEN "writeIds" ELSE "post"
  <2>1. AllButtons \in 0 .. AllButtons
    BY ButtonsType, FlowsAssumption DEF AllButtons, TypeOK
  <2>2. Registering(AllButtons) /\ At(place)
    BY <1>3 DEF Register
  <2>3. /\ start.gen \in Gens /\ start.own \in Sessions /\ mem' \in Registries
        /\ disk' = mem' /\ expiry' \in [Gens -> Times]
    BY <2>1, <2>2, RegisteringType
  <2>4. place \in Places
    BY DEF Places
  <2>5. start' \in StartType /\ start'.at = place /\ start'.gen = start.gen
        /\ start'.own = start.own
    BY <2>2, <2>4, AtType
  <2> QED
    BY <1>3, <1>t, <2>3, <2>5, CallerType DEF Register
<1>4. CASE RegisterHalf
  <2>1. PICK n \in 0 .. AllButtons - 1 : Registering(n)
    BY <1>4 DEF RegisterHalf
  <2>2. n \in 0 .. AllButtons
    BY ButtonsType, FlowsAssumption DEF AllButtons, TypeOK
  <2>3. mem' \in Registries /\ disk' = mem' /\ expiry' \in [Gens -> Times]
    BY <2>1, <2>2, RegisteringType
  <2>4. start' \in StartType /\ start'.at = "idle"
    BY <1>4, AtType DEF RegisterHalf, GivesUp, Places
  <2> QED
    BY <1>4, <1>t, <2>3, <2>4, SetbackType, CallerType DEF RegisterHalf
<1>5. CASE RegisterRefused
  <2>1. mem' \in Registries /\ disk' = mem'
    BY <1>5, <1>t, UnexpiredType DEF RegisterRefused, Persisted
  <2>2. start' \in StartType /\ start'.at = "idle"
    BY <1>5, AtType DEF RegisterRefused, GivesUp, Places
  <2> QED
    BY <1>5, <1>t, <2>1, <2>2, CallerType DEF RegisterRefused
<1>6. CASE WriteIds
  <2>1. start.gen \in Gens /\ start.own \in Sessions
    BY <1>6 DEF WriteIds, Holdings
  <2>2. session' = [start.own EXCEPT !.gen = start.gen]
        /\ start' = [start EXCEPT !.at = "deliver", !.own = session']
    BY <1>6 DEF WriteIds
  <2>3. session' \in Sessions
    BY <2>1, <2>2 DEF Sessions
  <2>4. start' \in StartType /\ start'.at = "deliver" /\ start'.gen = start.gen
        /\ start'.own = session'
    BY <1>t, <2>2, <2>3 DEF StartType, Places
  <2> QED
    BY <1>6, <1>t, <2>1, <2>3, <2>4, CallerType DEF WriteIds
<1>7. CASE Deliver
  <2>1. start.gen \in Gens /\ start.own \in Sessions
    BY <1>7 DEF Deliver, Holdings
  <2>2. PICK place \in {"idle", "confirm", "post"} :
           /\ At(place)
           /\ place = "post" => receipt' = [state |-> "attempting", gen |-> start.gen]
           /\ place # "post" => receipt' = receipt
    BY <1>7 DEF Deliver
  <2>3. place = "post" => receipt' \in Receipts
    BY <2>1, <2>2 DEF Receipts
  <2>4. start' \in StartType /\ start'.at = place /\ start'.gen = start.gen
        /\ start'.own = start.own
    BY <2>2, AtType DEF Places
  <2> QED
    BY <1>7, <1>t, <2>1, <2>2, <2>3, <2>4, CallerType DEF Deliver
<1>8. CASE Post
  <2> DEFINE place == IF flow \in WithReceipt THEN "settle" ELSE "idle"
  <2>1. start.gen \in Gens /\ start.own \in Sessions
        /\ (flow \in WithReceipt => receipt \in Receipts)
    BY <1>8 DEF Post, Holdings
  <2>2. start' \in StartType /\ start'.at = place /\ start'.gen = start.gen
        /\ start'.own = start.own
    BY <1>8, AtType DEF Post, Places
  <2> QED
    BY <1>8, <1>t, <2>1, <2>2, CallerType DEF Post
<1>9. CASE PostFails
  <2>1. start.gen \in Gens /\ (flow \in WithReceipt => receipt \in Receipts)
    BY <1>9 DEF PostFails, Holdings
  <2>2. receipt' \in Receipts \cup {NoReceipt}
    BY <1>9, <1>t, <2>1 DEF PostFails, Receipts
  <2>3. start' \in StartType /\ start'.at = "idle"
    BY <1>9, AtType DEF PostFails, Places
  <2> QED
    BY <1>9, <1>t, <2>1, <2>2, <2>3, SetbackType, CallerType DEF PostFails
<1>10. CASE Settle
  <2>1. start.gen \in Gens /\ start.own \in Sessions /\ receipt \in Receipts
    BY <1>10 DEF Settle, Holdings
  <2>2. receipt' \in Receipts
    BY <1>10, <2>1 DEF Settle, Receipts
  <2>3. start' \in StartType /\ start'.at = "confirm" /\ start'.gen = start.gen
        /\ start'.own = start.own
    BY <1>10, AtType DEF Settle, Places
  <2> QED
    BY <1>10, <1>t, <2>1, <2>2, <2>3, CallerType DEF Settle
<1>11. CASE WritePending
  <2>1. start.own \in Sessions
    BY <1>11 DEF WritePending, Holdings
  <2>2. session' \in Sessions
    BY <1>11, <2>1 DEF WritePending, Sessions, Statuses
  <2>3. start' \in StartType /\ start'.at = "idle"
    BY <1>11, AtType DEF WritePending, Places
  <2> QED
    BY <1>11, <1>t, <2>2, <2>3, CallerType DEF WritePending
<1>12. CASE StartFails
  <2>1. start' \in StartType /\ start'.at = "idle"
    BY <1>12, AtType DEF StartFails, Places
  <2> QED
    BY <1>12, <1>t, <2>1, SetbackType, CallerType DEF StartFails
<1> QED
  BY <1>1, <1>2, <1>3, <1>4, <1>5, <1>6, <1>7, <1>8, <1>9, <1>10, <1>11, <1>12 DEF Caller

\* A step of one click's handler.
LEMMA ClickType ==
    ASSUME TypeOK, Holdings, NEW c \in Clicks, NEW place \in ClickPlaces,
           pc' = [pc EXCEPT ![c] = place],
           place \notin {"ready", "answered"} => pressed'[c] \in Ids,
           place \in Between /\ flow \in WithSession => held'[c] \in Sessions,
           place \in OfSessions => flow \in WithSession,
           pressed' \in [Clicks -> Ids \cup {<<>>}],
           held' \in [Clicks -> Sessions \cup {NoSession}],
           \A d \in Clicks \ {c} : pressed'[d] = pressed[d] /\ held'[d] = held[d],
           mem' \in Registries, disk' \in Registries,
           session' \in Sessions \cup {NoSession}, modals' \subseteq Ids,
           decided' \subseteq Clicks, blind' \in BOOLEAN, lost' \in BOOLEAN,
           setbacks' \in 0 .. MaxSetbacks,
           UNCHANGED <<flow, now, expiry, caller, platform>>
    PROVE  TypeOK' /\ Holdings'
<1>1. pc' \in [Clicks -> ClickPlaces] /\ pc'[c] = place
      /\ \A d \in Clicks \ {c} : pc'[d] = pc[d]
  BY DEF TypeOK
<1>2. TypeOK'
  BY <1>1 DEF TypeOK, caller, platform
<1>3. ASSUME NEW d \in Clicks
      PROVE  /\ pc'[d] \notin {"ready", "answered"} => pressed'[d] \in Ids
             /\ pc'[d] \in Between /\ flow \in WithSession => held'[d] \in Sessions
             /\ pc'[d] \in OfSessions => flow \in WithSession
  <2>1. CASE d = c
    BY <1>1, <2>1
  <2>2. CASE d # c
    BY <1>1, <2>2 DEF Holdings
  <2> QED
    BY <2>1, <2>2
<1>4. Holdings'
  BY <1>3 DEF Holdings, caller, platform
<1> QED
  BY <1>2, <1>4

LEMMA ClickKeepsType ==
    ASSUME TypeOK, Holdings, NEW c \in Clicks, Click(c) PROVE TypeOK' /\ Holdings'
<1>t. /\ pressed \in [Clicks -> Ids \cup {<<>>}]
      /\ held \in [Clicks -> Sessions \cup {NoSession}]
      /\ mem \in Registries /\ disk \in Registries /\ session \in Sessions \cup {NoSession}
      /\ modals \subseteq Ids /\ decided \subseteq Clicks /\ blind \in BOOLEAN
      /\ lost \in BOOLEAN /\ setbacks \in 0 .. MaxSetbacks
  BY DEF TypeOK
<1>m. ASSUME NEW status \in Statuses, held[c] \in Sessions, Mark(c, status)
      PROVE  session' \in Sessions
  BY <1>m DEF Mark, Sessions
<1> USE DEF Go, registry, clicks, history
<1>1. ASSUME NEW i \in Ids, Dispatch(c, i) PROVE TypeOK' /\ Holdings'
  <2>1. mem' \in Registries /\ disk' \in Registries
    BY <1>1, <1>t, ConsumedType DEF Dispatch, SavesConsumption, Persisted
  <2>2. FirstPlace(i[2]) \in ClickPlaces
        /\ (FirstPlace(i[2]) \in OfSessions => flow \in WithSession)
        /\ (FirstPlace(i[2]) \in Between => flow \notin WithSession)
    BY DEF FirstPlace, ClickPlaces, OfSessions, Between
  <2>3. pressed' = [pressed EXCEPT ![c] = i] /\ pc' = [pc EXCEPT ![c] = FirstPlace(i[2])]
    BY <1>1 DEF Dispatch
  <2>4. pressed' \in [Clicks -> Ids \cup {<<>>}] /\ pressed'[c] \in Ids
        /\ \A d \in Clicks \ {c} : pressed'[d] = pressed[d]
    BY <1>t, <2>3
  <2>5. UNCHANGED <<flow, now, expiry, session, caller, platform, modals, held, history,
                    setbacks>>
    BY <1>1 DEF Dispatch
  <2> QED
    BY <1>t, <2>1, <2>2, <2>3, <2>4, <2>5, ClickType
<1>2. ASSUME NEW i \in Ids, DispatchFails(c, i) PROVE TypeOK' /\ Holdings'
  <2>1. setbacks' \in 0 .. MaxSetbacks
    BY <1>2, SetbackType DEF DispatchFails
  <2>2. "answered" \in ClickPlaces /\ "answered" \notin Between
        /\ "answered" \notin OfSessions
    BY DEF ClickPlaces, Between, OfSessions
  <2> QED
    BY <1>2, <1>t, <2>1, <2>2, ClickType DEF DispatchFails
<1>3. CASE ReadSession(c)
  <2> DEFINE place == IF IsOpen THEN NextPlace(Button(c)) ELSE "answered"
  <2>1. pc' = [pc EXCEPT ![c] = place] /\ held' = [held EXCEPT ![c] = session]
    BY <1>3 DEF ReadSession
  <2>2. pressed[c] \in Ids /\ flow \in WithSession
    BY <1>3 DEF ReadSession, Holdings, OfSessions
  <2>3. place \in ClickPlaces
    BY DEF NextPlace, ClickPlaces
  <2>4. place \in Between => session \in Sessions
    BY <1>t DEF IsOpen, Between
  <2>5. held' \in [Clicks -> Sessions \cup {NoSession}] /\ held'[c] = session
        /\ \A d \in Clicks \ {c} : held'[d] = held[d]
    BY <1>t, <2>1
  <2>6. UNCHANGED <<flow, now, registry, session, caller, platform, modals, pressed,
                    history, setbacks>>
    BY <1>3 DEF ReadSession
  <2> HIDE DEF place
  <2> QED
    BY <1>t, <2>1, <2>2, <2>3, <2>4, <2>5, <2>6, ClickType
<1>4. CASE OpenModal(c)
  <2> DEFINE g == pressed[c][1]
             live == Unexpired(mem)
             id == <<g, "submit">>
  <2>1. pressed[c] \in Ids /\ g \in Gens /\ id \in Ids
    <3>1. pressed[c] \in Ids
      BY <1>4 DEF OpenModal, Holdings
    <3> QED
      BY <3>1 DEF Ids, Buttons
  <2>2. live \in Registries
    BY <1>t, UnexpiredType
  <2>3. [live EXCEPT !.open = @ \cup {id}] \in Registries
    BY <2>1, <2>2 DEF Registries
  <2>4. /\ mem' \in {mem, live, [live EXCEPT !.open = @ \cup {id}]}
        /\ disk' \in {disk, mem'} /\ modals' \subseteq modals \cup {id}
    BY <1>4 DEF OpenModal, Persisted
  <2>5. mem' \in Registries /\ disk' \in Registries /\ modals' \subseteq Ids
    BY <1>t, <2>1, <2>2, <2>3, <2>4
  <2>6. "answered" \in ClickPlaces /\ "answered" \notin Between
        /\ "answered" \notin OfSessions
    BY DEF ClickPlaces, Between, OfSessions
  <2> HIDE DEF g, live, id
  <2>7. pc' = [pc EXCEPT ![c] = "answered"]
        /\ UNCHANGED <<flow, now, expiry, session, caller, platform, pressed, held,
                       history, setbacks>>
    BY <1>4 DEF OpenModal
  <2> QED
    BY <1>t, <2>5, <2>6, <2>7, ClickType
<1>5. CASE Refuse(c)
  <2>1. session' \in Sessions \cup {NoSession}
    <3>1. CASE flow \in WithSession
      <4>1. held[c] \in Sessions
        BY <1>5, <3>1 DEF Refuse, Holdings, Between
      <4>2. RefusedAs[flow] \in Statuses
        BY <3>1 DEF RefusedAs, WithSession, Statuses, Resolutions
      <4> QED
        BY <1>5, <1>m, <3>1, <4>1, <4>2 DEF Refuse
    <3>2. CASE flow \notin WithSession
      BY <1>5, <1>t, <3>2 DEF Refuse
    <3> QED
      BY <3>1, <3>2
  <2>2. "answered" \in ClickPlaces /\ "answered" \notin Between
        /\ "answered" \notin OfSessions
    BY DEF ClickPlaces, Between, OfSessions
  <2> QED
    BY <1>5, <1>t, <2>1, <2>2, ClickType DEF Refuse
<1>6. CASE MarkRunning(c)
  <2>1. flow \in WithSession /\ held[c] \in Sessions /\ pressed[c] \in Ids
    BY <1>6 DEF MarkRunning, Holdings, Between, OfSessions
  <2>2. session' \in Sessions
    BY <1>6, <1>m, <2>1 DEF MarkRunning, Statuses
  <2>3. "execute" \in ClickPlaces /\ "execute" \notin OfSessions
    BY DEF ClickPlaces, OfSessions
  <2> QED
    BY <1>6, <1>t, <2>1, <2>2, <2>3, ClickType DEF MarkRunning
<1>7. CASE Execute(c)
  <2>1. pressed[c] \in Ids /\ (flow \in WithSession => held[c] \in Sessions)
    BY <1>7 DEF Execute, Holdings, Between
  <2>2. "working" \in ClickPlaces /\ "working" \notin OfSessions
    BY DEF ClickPlaces, OfSessions
  <2> QED
    BY <1>7, <1>t, <2>1, <2>2, ClickType DEF Execute
<1>8. CASE WorkEnds(c)
  <2> DEFINE place == IF flow \in WithSession THEN "record" ELSE "answered"
  <2>1. pressed[c] \in Ids /\ (flow \in WithSession => held[c] \in Sessions)
    BY <1>8 DEF WorkEnds, Holdings, Between
  <2>2. place \in ClickPlaces /\ (place \in OfSessions => flow \in WithSession)
    BY DEF ClickPlaces, OfSessions
  <2>3. pc' = [pc EXCEPT ![c] = place]
        /\ UNCHANGED <<flow, now, registry, session, caller, platform, modals, pressed,
                       held, history, setbacks>>
    BY <1>8 DEF WorkEnds
  <2> HIDE DEF place
  <2> QED
    BY <1>t, <2>1, <2>2, <2>3, ClickType
<1>9. CASE Record(c)
  <2>1. flow \in WithSession /\ held[c] \in Sessions
    BY <1>9 DEF Record, Holdings, Between, OfSessions
  <2>2. DoneAs(Button(c)) \in Statuses
    BY DEF DoneAs, Statuses, Resolutions
  <2>3. session' \in Sessions
    BY <1>9, <1>m, <2>1, <2>2 DEF Record
  <2>4. "answered" \in ClickPlaces /\ "answered" \notin Between
        /\ "answered" \notin OfSessions
    BY DEF ClickPlaces, Between, OfSessions
  <2> QED
    BY <1>9, <1>t, <2>3, <2>4, ClickType DEF Record
<1>10. CASE RecordFailure(c)
  <2>1. flow \in WithSession /\ held[c] \in Sessions
    BY <1>10 DEF RecordFailure, Holdings, Between, OfSessions
  <2>2. session' \in Sessions
    BY <1>10, <1>m, <2>1 DEF RecordFailure, Statuses, Resolutions
  <2>3. "answered" \in ClickPlaces /\ "answered" \notin Between
        /\ "answered" \notin OfSessions
    BY DEF ClickPlaces, Between, OfSessions
  <2> QED
    BY <1>10, <1>t, <2>2, <2>3, ClickType DEF RecordFailure
\* The steps that fail lead to the answer or to the record of the failure.
<1>f. AfterFailedWork \in ClickPlaces /\ (AfterFailedWork # "answered" => flow \in WithSession)
      /\ AfterFailedWork # "ready" /\ "answered" \in ClickPlaces
      /\ "answered" \notin Between /\ "answered" \notin OfSessions
  BY DEF AfterFailedWork, ClickPlaces, WithSession, Between, OfSessions
<1>11. CASE ExecuteFails(c) \/ WorkFails(c)
  <2>1. pressed[c] \in Ids /\ (flow \in WithSession => held[c] \in Sessions)
    BY <1>11 DEF ExecuteFails, WorkFails, Holdings, Between
  <2>2. pc' = [pc EXCEPT ![c] = AfterFailedWork] /\ Setback
        /\ UNCHANGED <<flow, now, registry, session, caller, platform, modals, pressed,
                       held, history>>
    BY <1>11 DEF ExecuteFails, WorkFails
  <2> QED
    BY <1>f, <1>t, <2>1, <2>2, SetbackType, ClickType
<1>12. CASE HandlerWriteFails(c)
  <2> DEFINE place == IF pc[c] = "record" THEN AfterFailedWork ELSE "answered"
  <2>1. pressed[c] \in Ids /\ flow \in WithSession /\ held[c] \in Sessions
    BY <1>12 DEF HandlerWriteFails, Holdings, Between
  <2>2. pc' = [pc EXCEPT ![c] = place] /\ Setback /\ lost' \in BOOLEAN
        /\ UNCHANGED <<flow, now, registry, session, caller, platform, modals, pressed,
                       held, decided, blind>>
    BY <1>12 DEF HandlerWriteFails
  <2>3. place \in ClickPlaces
    BY <1>f
  <2> HIDE DEF place
  <2> QED
    BY <1>t, <2>1, <2>2, <2>3, SetbackType, ClickType
<1> QED
  BY <1>1, <1>2, <1>3, <1>4, <1>5, <1>6, <1>7, <1>8, <1>9, <1>10, <1>11, <1>12
     DEF Click, Handler

LEMMA NextType ==
    TypeOK /\ Holdings /\ [Next]_vars => TypeOK' /\ Holdings'
<1> SUFFICES ASSUME TypeOK, Holdings, [Next]_vars PROVE TypeOK' /\ Holdings'
  OBVIOUS
<1>1. CASE Caller
  BY <1>1, CallerKeepsType
<1>2. ASSUME NEW c \in Clicks, Click(c) PROVE TypeOK' /\ Holdings'
  BY <1>2, ClickKeepsType
<1>3. CASE Tick
  <2>1. now' \in 0 .. MaxTime
    BY <1>3, BoundsAssumption DEF Tick, TypeOK
  <2>2. TypeOK'
    BY <1>3, <2>1 DEF Tick, TypeOK, registry, caller, platform, clicks, history
  <2>3. Holdings'
    BY <1>3 DEF Tick, Holdings, caller, platform, clicks
  <2> QED
    BY <2>2, <2>3
<1>4. ASSUME NEW readable \in BOOLEAN, Restart(readable) PROVE TypeOK' /\ Holdings'
  <2>1. mem' \in Registries /\ disk' = mem'
    <3>1. NoRegistry \in Registries
      BY BoundsFacts DEF NoRegistry, Registries
    <3> QED
      BY <1>4, <3>1, UnexpiredType DEF Restart, Persisted, TypeOK
  <2>2. start' \in StartType /\ start'.at = "idle"
    BY <1>4 DEF Restart, NotStarting, StartType, Places
  <2>3. pc' \in [Clicks -> ClickPlaces] /\ \A c \in Clicks : pc'[c] \in {"ready", "answered"}
    BY <1>4 DEF Restart, ClickPlaces
  <2>4. setbacks' \in 0 .. MaxSetbacks
    BY <1>4, SetbackType DEF Restart
  <2>5. blind' \in BOOLEAN /\ lost' \in BOOLEAN
    BY <1>4 DEF Restart
  <2>6. TypeOK'
    BY <1>4, <2>1, <2>2, <2>3, <2>4, <2>5 DEF Restart, TypeOK, StartType, platform
  <2>7. Holdings'
    BY <2>2, <2>3 DEF Holdings, Between, OfSessions
  <2> QED
    BY <2>6, <2>7
<1>5. CASE UNCHANGED vars
  <2>1. TypeOK'
    BY <1>5 DEF vars, TypeOK, registry, caller, platform, clicks, history
  <2>2. Holdings'
    BY <1>5 DEF vars, Holdings, caller, platform, clicks
  <2> QED
    BY <2>1, <2>2
<1> QED
  BY <1>1, <1>2, <1>3, <1>4, <1>5 DEF Next

\* Every variable has its type in every reachable state, whatever the flows,
\* the clicks and the bounds: the files of the registry and of the session
\* stay well-formed through failed writes and restarts.
THEOREM TypeCorrect == Spec => []TypeOK
<1>1. TypeOK /\ Holdings /\ [Next]_vars => (TypeOK /\ Holdings)'
  BY NextType
<1> QED
  BY InitType, <1>1, PTL DEF Spec

----------------------------------------------------------------------------
(* The registry backs what users see and remembers what they pressed.      *)

Late == {"writeIds", "deliver", "post", "settle", "confirm"}
Early == {"prepare", "register"}

\* A generation of buttons that the card, or somebody who may post it, has.
Known(g) ==
    \/ g \in visible
    \/ start.at \in Late /\ start.gen = g
    \/ start.at # "idle" /\ start.own.gen = g
    \/ session # NoSession /\ session.gen = g
    \/ \E c \in Clicks : held[c] # NoSession /\ held[c].gen = g

Lives(g) == ~blind /\ expiry[g] > now

Full(g) == Lives(g) => FirstButtons(g, AllButtons) \subseteq mem.open

\* It is not the one the current call is about to register.
Past(g) == g <= starts /\ (start.at \in Early => g # starts)

Spent(c) ==
    /\ pressed[c] # <<>> =>
          /\ pressed[c][1] \in visible
          /\ pressed[c][2] \in Opening => flow \in {"plan", "review"}
          /\ Lives(pressed[c][1]) =>
                /\ pressed[c] \in mem.open /\ pressed[c] \in mem.used
                /\ Grouped(pressed[c][2]) => mem.spent = expiry[pressed[c][1]]
    /\ pc[c] = "open" => pressed[c][2] \in Opening

Backed(i) ==
    /\ i[1] \in visible /\ i[2] = "submit"
    /\ Lives(i[1]) => i \in mem.open

Registered ==
    /\ disk = mem
    /\ start.at \in Early => start.gen = starts
    /\ \A g \in Gens : Known(g) => Full(g) /\ Past(g)
    /\ \A c \in Clicks : Spent(c)
    /\ \A i \in modals : Backed(i)

IInv == TypeOK /\ Holdings /\ Registered

\* Nothing that is valid leaves the registry.
Kept ==
    /\ \A i \in mem.open : expiry[i[1]] > now =>
          i \in mem'.open /\ (i \in mem.used => i \in mem'.used)
    /\ mem.spent > now => mem'.spent = mem.spent

LEMMA UnexpiredKeeps ==
    ASSUME TypeOK, Unexpired(mem).open \subseteq mem'.open,
           mem'.used = Unexpired(mem).used, mem'.spent = Unexpired(mem).spent
    PROVE  Kept
<1>1. /\ Unexpired(mem).open = {i \in mem.open : expiry[i[1]] > now}
      /\ Unexpired(mem).used = mem.used \cap {i \in mem.open : expiry[i[1]] > now}
      /\ Unexpired(mem).spent = IF mem.spent > now THEN mem.spent ELSE 0
  BY DEF Unexpired
<1> QED
  BY <1>1 DEF Kept

\* A step after which each part is as before or sound of itself.
LEMMA Steady ==
    ASSUME IInv, TypeOK', now <= now', blind => blind', flow' = flow, Kept,
           disk' = mem', visible \subseteq visible', starts <= starts',
           \A g \in Gens : Known(g) => expiry'[g] = expiry[g],
           \A g \in Gens : Known(g)' => Known(g) \/ (Full(g)' /\ Past(g)'),
           start'.at \in Early =>
               start'.gen = starts' /\ (starts' > starts \/ start.at \in Early),
           \A c \in Clicks :
               \/ Spent(c)'
               \/ pressed'[c] = pressed[c] /\ (pc'[c] = "open" => pc[c] = "open"),
           \A i \in modals' : i \in modals \/ Backed(i)'
    PROVE  Registered'
<1>t. /\ now \in Nat /\ now' \in Nat /\ starts \in Nat /\ starts' \in Nat
      /\ expiry \in [Gens -> Nat] /\ expiry' \in [Gens -> Nat]
      /\ mem \in Registries /\ mem' \in Registries /\ modals \subseteq Ids
      /\ pressed \in [Clicks -> Ids \cup {<<>>}] /\ visible \subseteq Gens
      /\ \A i \in Ids : i[1] \in Gens
  <2>1. TypeOK /\ TypeOK'
    BY DEF IInv
  <2>2. now \in Nat /\ now' \in Nat /\ starts \in Nat /\ starts' \in Nat
    BY <2>1 DEF TypeOK
  <2>3. expiry \in [Gens -> Nat] /\ expiry' \in [Gens -> Nat]
    BY <2>1, BoundsFacts DEF TypeOK
  <2>4. /\ mem \in Registries /\ mem' \in Registries /\ modals \subseteq Ids
        /\ pressed \in [Clicks -> Ids \cup {<<>>}] /\ visible \subseteq Gens
    BY <2>1 DEF TypeOK
  <2>5. \A i \in Ids : i[1] \in Gens
    BY DEF Ids
  <2> QED
    BY <2>2, <2>3, <2>4, <2>5
<1>l. ASSUME NEW g \in Gens, Known(g), Lives(g)' PROVE Lives(g)
  BY <1>l, <1>t DEF Lives
<1>v. \A g \in visible : g \in Gens /\ Known(g)
  BY <1>t DEF Known
<1>1. ASSUME NEW g \in Gens, Known(g)' PROVE Full(g)' /\ Past(g)'
  <2>1. CASE Known(g)
    <3>1. Full(g) /\ Past(g)
      BY <2>1 DEF IInv, Registered
    <3>2. Full(g)'
      <4> SUFFICES ASSUME Lives(g)', NEW i \in FirstButtons(g, AllButtons)
                   PROVE  i \in mem'.open
        BY DEF Full, FirstButtons, AllButtons
      <4>1. i \in mem.open
        BY <1>l, <2>1, <3>1 DEF Full
      <4>2. i[1] = g
        BY DEF FirstButtons
      <4>3. expiry[i[1]] > now
        BY <1>l, <2>1, <4>2 DEF Lives
      <4> QED
        BY <4>1, <4>3 DEF Kept
    <3>3. Past(g)'
      BY <1>t, <3>1, BoundsFacts DEF Past
    <3> QED
      BY <3>2, <3>3
  <2> QED
    BY <1>1, <2>1
<1>2. ASSUME NEW c \in Clicks PROVE Spent(c)'
  <2>1. CASE pressed'[c] = pressed[c] /\ (pc'[c] = "open" => pc[c] = "open")
    <3>1. Spent(c)
      BY DEF IInv, Registered
    <3>2. CASE pressed[c] = <<>>
      BY <2>1, <3>1, <3>2 DEF Spent
    <3>3. ASSUME NEW i \in Ids, i = pressed[c], i # <<>> PROVE Spent(c)'
      <4>1. i[1] \in visible /\ i[1] \in Gens
        BY <1>t, <3>1, <3>3 DEF Spent
      <4>2. ASSUME Lives(i[1])'
            PROVE  /\ i \in mem'.open /\ i \in mem'.used
                   /\ Grouped(i[2])' => mem'.spent = expiry'[i[1]]
        <5>1. Lives(i[1]) /\ expiry'[i[1]] = expiry[i[1]]
          BY <1>l, <1>v, <4>1, <4>2
        <5>2. i \in mem.open /\ i \in mem.used /\ expiry[i[1]] > now
              /\ (Grouped(i[2]) => mem.spent = expiry[i[1]])
          BY <3>1, <3>3, <5>1 DEF Spent, Lives
        <5>3. Grouped(i[2])' = Grouped(i[2])
          BY DEF Grouped
        <5> QED
          BY <5>1, <5>2, <5>3 DEF Kept
      <4>3. pressed'[c] = i
        BY <2>1, <3>3
      <4> QED
        BY <2>1, <3>1, <3>3, <4>1, <4>2, <4>3 DEF Spent
    <3>4. pressed[c] \in Ids \cup {<<>>}
      BY <1>t
    <3> QED
      BY <3>2, <3>3, <3>4
  <2> QED
    BY <2>1
<1>3. ASSUME NEW i \in modals' PROVE Backed(i)'
  <2>1. CASE i \in modals
    <3>1. Backed(i) /\ i[1] \in Gens /\ i[1] \in visible
      BY <1>t, <2>1 DEF IInv, Registered, Backed
    <3>2. Lives(i[1])' => Lives(i[1]) /\ i \in mem'.open
      BY <1>l, <1>v, <3>1 DEF Backed, Lives, Kept
    <3> QED
      BY <3>1, <3>2 DEF Backed
  <2> QED
    BY <1>3, <2>1
<1> QED
  BY <1>1, <1>2, <1>3 DEF Registered

\* A step that leaves the registry, the clock, dialogs and pressed buttons alone.
LEMMA Quiet ==
    ASSUME IInv, TypeOK', UNCHANGED <<flow, now, registry, modals, pressed, blind>>,
           visible \subseteq visible', starts <= starts',
           \A g \in Gens : Known(g)' => Known(g),
           start'.at \in Early =>
               start'.gen = starts' /\ (starts' > starts \/ start.at \in Early),
           \A c \in Clicks : pc'[c] = "open" => pc[c] = "open" \/ pressed[c][2] \in Opening
    PROVE  Registered'
<1>1. mem' = mem /\ disk' = mem /\ expiry' = expiry /\ now' = now /\ modals' = modals
      /\ blind' = blind /\ flow' = flow /\ pressed' = pressed
  BY DEF IInv, Registered, registry
<1>2. now <= now' /\ Kept
  BY <1>1 DEF IInv, TypeOK, Kept
<1>3. ASSUME NEW c \in Clicks
      PROVE  \/ Spent(c)'
             \/ pressed'[c] = pressed[c] /\ (pc'[c] = "open" => pc[c] = "open")
  <2>1. CASE pc'[c] = "open" /\ pc[c] # "open"
    <3>1. pressed[c][2] \in Opening /\ Spent(c)
      BY <2>1 DEF IInv, Registered
    <3>2. Spent(c)'
      BY <1>1, <3>1 DEF Spent, Lives, Grouped
    <3> QED
      BY <3>2
  <2> QED
    BY <1>1, <2>1
<1> QED
  BY <1>1, <1>2, <1>3, Steady

\* A step that cleans the registry of what has expired and adds to it.
LEMMA Cleans ==
    ASSUME IInv, TypeOK', Unexpired(mem).open \subseteq mem'.open,
           mem'.used = Unexpired(mem).used, mem'.spent = Unexpired(mem).spent,
           disk' = mem', \A g \in Gens : Known(g) => expiry'[g] = expiry[g],
           \A g \in Gens : Known(g)' => Known(g) \/ (Full(g)' /\ Past(g)'),
           start'.at \notin Early, \A i \in modals' : i \in modals \/ Backed(i)',
           \A c \in Clicks : pc'[c] = "open" => pc[c] = "open",
           UNCHANGED <<flow, now, pressed, blind, visible, starts>>
    PROVE  Registered'
<1>1. now <= now' /\ starts <= starts'
  BY DEF IInv, TypeOK
<1>2. Kept
  BY UnexpiredKeeps DEF IInv
<1> QED
  BY <1>1, <1>2, Steady

LEMMA CallerKeepsRegistered ==
    ASSUME IInv, TypeOK', Caller PROVE Registered'
<1>t. /\ TypeOK /\ Holdings /\ Registered /\ starts \in Nat /\ start \in StartType
      /\ now \in Nat /\ flow \in AllFlows
  BY FlowsAssumption DEF IInv, TypeOK, StartType
<1> USE DEF registry, caller, platform, clicks, history
<1>k. ASSUME NEW place \in Places, At(place)
      PROVE  start'.at = place /\ start'.gen = start.gen /\ start'.own = start.own
  BY <1>k, <1>t, AtType
<1>1. CASE Start
  <2>1. starts' = starts + 1
        /\ UNCHANGED <<flow, now, registry, session, platform, modals, clicks, history,
                       setbacks>>
    BY <1>1 DEF Start
  <2>2. CASE Prepares
    <3> DEFINE place == IF flow \in WithSession THEN "prepare" ELSE "register"
               own == [status |-> IF flow = "plan" THEN "pending" ELSE "preparing",
                       gen |-> 0, expires |-> ExpiresAt]
    <3>1. start' = [at |-> place, gen |-> starts', own |-> own]
      BY <1>1, <2>2 DEF Start
    <3>2. start'.at \in Early /\ start'.at \notin Late /\ start'.gen = starts'
          /\ start'.own.gen = 0
      BY <3>1 DEF Early, Late
    <3>3. \A g \in Gens : Known(g)' => Known(g)
      BY <2>1, <3>2, BoundsFacts DEF Known
    <3> QED
      BY <1>t, <2>1, <3>2, <3>3, Quiet
  <2>3. CASE ~Prepares /\ Resumes
    <3>1. start' = [at |-> "deliver", gen |-> session.gen, own |-> session]
      BY <1>1, <2>3 DEF Start
    <3>2. session # NoSession
      BY <2>3 DEF Resumes, Fresh
    <3>3. start'.at \notin Early /\ start'.gen = session.gen /\ start'.own = session
      BY <3>1 DEF Early
    <3>4. \A g \in Gens : Known(g)' => Known(g)
      BY <2>1, <3>2, <3>3 DEF Known
    <3> QED
      BY <1>t, <2>1, <3>3, <3>4, Quiet
  <2>4. CASE ~Prepares /\ ~Resumes
    <3>1. start' = start /\ start.at = "idle"
      BY <1>1, <2>4 DEF Start
    <3>2. \A g \in Gens : Known(g)' => Known(g)
      BY <2>1, <3>1 DEF Known
    <3> QED
      BY <1>t, <2>1, <3>1, <3>2, Quiet DEF Early
  <2> QED
    BY <2>2, <2>3, <2>4
<1>2. CASE WritePrepared
  <2>1. start'.at = "register" /\ start'.gen = start.gen /\ start'.own = start.own
        /\ start.at = "prepare" /\ session' = start.own
    BY <1>2, <1>k DEF WritePrepared, Places
  <2>2. \A g \in Gens : Known(g)' => Known(g)
    BY <1>2, <2>1 DEF WritePrepared, Known, Late
  <2> QED
    BY <1>2, <1>t, <2>1, <2>2, Quiet DEF WritePrepared, Registered, Early
\* The generation that is being registered is nobody's yet.
<1>n. ASSUME start.at = "register", NEW g \in Gens, Known(g)
      PROVE  g # start.gen
  BY <1>n DEF IInv, Registered, Early, Past
<1>3. CASE Register
  <2> DEFINE place == IF flow \in WithReceipt THEN "writeIds" ELSE "post"
             g == start.gen
  <2>1. Registering(AllButtons) /\ At(place) /\ AllButtons \in 0 .. AllButtons
    BY <1>3, <1>t, ButtonsType DEF Register, AllButtons
  <2>2. /\ start.at = "register" /\ start.gen \in Gens /\ disk' = mem'
        /\ mem'.open = Unexpired(mem).open \cup FirstButtons(start.gen, AllButtons)
        /\ mem'.used = Unexpired(mem).used /\ mem'.spent = Unexpired(mem).spent
    BY <1>t, <2>1, RegisteringType
  <2>3. place \in Late /\ place \in Places /\ place \notin Early
    BY DEF Late, Places, Early
  <2>4. start'.at = place /\ start'.gen = start.gen /\ start'.own = start.own
    BY <1>k, <2>1, <2>3
  <2>5. UNCHANGED <<flow, now, session, starts, platform, modals, clicks, history,
                    setbacks>>
    BY <1>3 DEF Register
  <2> HIDE DEF place
  <2>6. \A h \in Gens : Known(h) => expiry'[h] = expiry[h]
    BY <1>n, <2>1, <2>2 DEF Registering, IInv, TypeOK
  <2>7. ASSUME NEW h \in Gens, Known(h)' PROVE Known(h) \/ (Full(h)' /\ Past(h)')
    <3>1. CASE h = start.gen
      <4>1. FirstButtons(h, AllButtons)' = FirstButtons(h, AllButtons)
        BY <2>5 DEF FirstButtons, AllButtons
      <4>2. Full(h)'
        BY <2>2, <3>1, <4>1 DEF Full
      <4>3. h = starts
        BY <1>t, <2>2, <3>1 DEF Registered, Early
      <4>4. Past(h)'
        BY <1>t, <2>3, <2>4, <2>5, <4>3 DEF Past
      <4> QED
        BY <4>2, <4>4
    <3>2. CASE h # start.gen
      BY <2>2, <2>4, <2>5, <2>7, <3>2 DEF Known
    <3> QED
      BY <3>1, <3>2
  <2> QED
    BY <2>2, <2>3, <2>4, <2>5, <2>6, <2>7, Cleans
<1>4. CASE RegisterHalf
  <2>1. PICK n \in 0 .. AllButtons - 1 : Registering(n)
    BY <1>4 DEF RegisterHalf
  <2>2. n \in 0 .. AllButtons
    BY <1>t, ButtonsType DEF AllButtons
  <2>3. /\ start.at = "register" /\ start.gen \in Gens /\ disk' = mem'
        /\ Unexpired(mem).open \subseteq mem'.open
        /\ mem'.used = Unexpired(mem).used /\ mem'.spent = Unexpired(mem).spent
    BY <1>t, <2>1, <2>2, RegisteringType
  <2>4. start'.at = "idle"
    BY <1>4, <1>k DEF RegisterHalf, GivesUp, Places
  <2>5. UNCHANGED <<flow, now, session, starts, platform, modals, clicks, history>>
    BY <1>4 DEF RegisterHalf
  <2>6. \A h \in Gens : Known(h) => expiry'[h] = expiry[h]
    BY <1>n, <2>1, <2>3 DEF Registering, IInv, TypeOK
  <2>7. \A h \in Gens : Known(h)' => Known(h)
    BY <2>4, <2>5 DEF Known, Late
  <2> QED
    BY <2>3, <2>4, <2>5, <2>6, <2>7, Cleans DEF Early
<1>5. CASE RegisterRefused
  <2>1. mem' = Unexpired(mem) /\ disk' = mem'
        /\ UNCHANGED <<flow, now, expiry, session, starts, platform, modals, clicks,
                       history, setbacks>>
    BY <1>5 DEF RegisterRefused, Persisted
  <2>2. start'.at = "idle"
    BY <1>5, <1>k DEF RegisterRefused, GivesUp, Places
  <2>3. \A h \in Gens : Known(h)' => Known(h)
    BY <2>1, <2>2 DEF Known, Late
  <2> QED
    BY <2>1, <2>2, <2>3, Cleans DEF Early
\* The other steps change neither the registry nor the number of calls.
<1>o. ASSUME UNCHANGED <<flow, now, registry, modals, clicks, history, starts>>,
             visible \subseteq visible', start'.at \notin Early,
             \A g \in Gens : Known(g)' => Known(g)
      PROVE  Registered'
  BY <1>o, <1>t, Quiet
<1>6. CASE WriteIds
  <2>1. start.at = "writeIds" /\ start.own \in Sessions /\ start.gen \in Gens
        /\ session' = [start.own EXCEPT !.gen = start.gen]
        /\ start' = [start EXCEPT !.at = "deliver", !.own = session']
    BY <1>6, <1>t DEF WriteIds, Holdings
  <2>2. start'.at = "deliver" /\ start'.gen = start.gen /\ start'.own = session'
        /\ session'.gen = start.gen
    BY <1>t, <2>1 DEF StartType, Sessions
  <2>3. \A g \in Gens : Known(g)' => Known(g)
    BY <1>6, <2>1, <2>2 DEF WriteIds, Known, Late
  <2> QED
    BY <1>6, <1>o, <2>2, <2>3 DEF WriteIds, Early
<1>7. CASE Deliver
  <2>1. PICK place \in {"idle", "confirm", "post"} : At(place)
    BY <1>7 DEF Deliver
  <2>2. start'.at = place /\ start'.gen = start.gen /\ start'.own = start.own
    BY <1>k, <2>1 DEF Places
  <2>3. \A g \in Gens : Known(g)' => Known(g)
    BY <1>7, <2>2 DEF Deliver, Known, Late
  <2> QED
    BY <1>7, <1>o, <2>2, <2>3 DEF Deliver, Early
<1>8. CASE Post
  <2>1. start'.at \in {"settle", "idle"} /\ start'.gen = start.gen
        /\ start'.own = start.own
    BY <1>8, <1>k DEF Post, Places
  <2>2. start.at = "post" /\ visible' = visible \cup {start.gen}
        /\ UNCHANGED <<session, held>>
    BY <1>8 DEF Post
  <2>3. \A g \in Gens : Known(g)' => Known(g)
    BY <2>1, <2>2 DEF Known, Late
  <2> QED
    BY <1>8, <1>o, <2>1, <2>2, <2>3 DEF Post, Early
<1>9. CASE PostFails
  <2>1. start'.at = "idle"
    BY <1>9, <1>k DEF PostFails, Places
  <2>2. start.at = "post" /\ visible' \in {visible, visible \cup {start.gen}}
        /\ UNCHANGED <<session, held>>
    BY <1>9 DEF PostFails
  <2>3. \A g \in Gens : Known(g)' => Known(g)
    BY <2>1, <2>2 DEF Known, Late
  <2> QED
    BY <1>9, <1>o, <2>1, <2>2, <2>3 DEF PostFails, Early
<1>10. CASE Settle
  <2>1. start'.at = "confirm" /\ start'.gen = start.gen /\ start'.own = start.own
    BY <1>10, <1>k DEF Settle, Places
  <2>2. \A g \in Gens : Known(g)' => Known(g)
    BY <1>10, <2>1 DEF Settle, Known, Late
  <2> QED
    BY <1>10, <1>o, <2>1, <2>2 DEF Settle, Early
<1>11. CASE WritePending
  <2>1. start'.at = "idle"
    BY <1>11, <1>k DEF WritePending, Places
  <2>2. start.at = "confirm" /\ start.own \in Sessions
        /\ session' = [start.own EXCEPT !.status = "pending"]
    BY <1>11, <1>t DEF WritePending, Holdings
  <2>3. session'.gen = start.own.gen
    BY <2>2 DEF Sessions
  <2>4. \A g \in Gens : Known(g)' => Known(g)
    BY <1>11, <2>1, <2>2, <2>3 DEF WritePending, Known, Late
  <2> QED
    BY <1>11, <1>o, <2>1, <2>4 DEF WritePending, Early
<1>12. CASE StartFails
  <2>1. start'.at = "idle"
    BY <1>12, <1>k DEF StartFails, Places
  <2>2. \A g \in Gens : Known(g)' => Known(g)
    BY <1>12, <2>1 DEF StartFails, Known, Late
  <2> QED
    BY <1>12, <1>o, <2>1, <2>2 DEF StartFails, Early
<1> QED
  BY <1>1, <1>2, <1>3, <1>4, <1>5, <1>6, <1>7, <1>8, <1>9, <1>10, <1>11, <1>12 DEF Caller

\* What can be pressed is in a dialog or on a visible card.
LEMMA PressableIsShown ==
    ASSUME NEW i \in Pressable
    PROVE  i \in modals \/ \E g \in visible : i \in Shown(g)
<1>1. CASE i \in modals
  BY <1>1
<1>2. CASE i \in UNION {Shown(g) : g \in visible}
  <2>1. PICK S \in {Shown(g) : g \in visible} : i \in S
    BY <1>2
  <2> QED
    BY <2>1
<1> QED
  BY <1>1, <1>2 DEF Pressable

LEMMA ClickKeepsRegistered ==
    ASSUME IInv, TypeOK', NEW c \in Clicks, Click(c) PROVE Registered'
<1>t. /\ TypeOK /\ Holdings /\ Registered /\ now \in Nat /\ mem \in Registries
      /\ pressed \in [Clicks -> Ids \cup {<<>>}] /\ pc \in [Clicks -> ClickPlaces]
      /\ held \in [Clicks -> Sessions \cup {NoSession}] /\ starts \in Nat
      /\ flow \in AllFlows
  BY FlowsAssumption DEF IInv, TypeOK
<1> USE DEF registry, caller, platform, clicks, history
\* A step of the handler that leaves the registry and what was pressed alone.
<1>o. ASSUME NEW place \in ClickPlaces, pc' = [pc EXCEPT ![c] = place],
             place = "open" => pressed[c][2] \in Opening,
             \A g \in Gens : Known(g)' => Known(g),
             UNCHANGED <<flow, now, registry, caller, platform, modals, pressed, blind>>
      PROVE  Registered'
  <2>1. \A d \in Clicks : pc'[d] = "open" => pc[d] = "open" \/ pressed[d][2] \in Opening
    BY <1>o, <1>t
  <2>2. start'.at \in Early => start'.gen = starts' /\ start.at \in Early
    BY <1>o, <1>t DEF Registered
  <2> QED
    BY <1>o, <1>t, <2>1, <2>2, Quiet
<1>u. ASSUME UNCHANGED <<session, caller, platform, held>>, NEW g \in Gens, Known(g)'
      PROVE  Known(g)
  BY <1>u DEF Known
<1>m. ASSUME UNCHANGED <<caller, platform, held>>, held[c] \in Sessions,
             NEW status, Mark(c, status), NEW g \in Gens, Known(g)'
      PROVE  Known(g)
  <2>1. session'.gen = held[c].gen /\ held[c] # NoSession
    BY <1>m DEF Mark, Sessions, NoSession
  <2> QED
    BY <1>m, <2>1 DEF Known
<1>1. ASSUME NEW i \in Ids, Dispatch(c, i) PROVE Registered'
  <2>1. /\ pc[c] = "ready" /\ i \in Pressable /\ Accepts(mem, i)
        /\ mem' = Consumed(mem, i) /\ disk' = mem' /\ pressed' = [pressed EXCEPT ![c] = i]
        /\ pc' = [pc EXCEPT ![c] = FirstPlace(i[2])]
        /\ UNCHANGED <<flow, now, expiry, session, caller, platform, modals, held,
                       history, setbacks>>
    BY <1>1 DEF Dispatch, SavesConsumption, Persisted, Go
  <2>2. /\ mem'.open = mem.open /\ mem'.used = mem.used \cup {i}
        /\ mem'.spent = IF Grouped(i[2]) THEN expiry[i[1]] ELSE mem.spent
    BY <1>t, <2>1, ConsumedType
  <2>3. i \in mem.open /\ (Grouped(i[2]) => mem.spent = 0)
    BY <2>1 DEF Accepts
  <2>4. Kept
    BY <1>t, <2>2, <2>3 DEF Kept
  <2>5. i[1] \in visible /\ (i[2] \in Opening => flow \in {"plan", "review"})
    <3>1. CASE i \in modals
      <4>1. i[1] \in visible
        BY <1>t, <3>1 DEF Registered, Backed
      <4>2. i[2] \in Opening => flow \in {"plan", "review"}
        BY <1>t, <3>1 DEF Registered, Backed, Opening
      <4> QED
        BY <4>1, <4>2
    <3>2. ASSUME NEW g \in visible, i \in Shown(g)
          PROVE  i[1] \in visible /\ (i[2] \in Opening => flow \in {"plan", "review"})
      <4>1. i[1] = g
        BY <3>2 DEF Shown
      <4>2. i[2] \in {ButtonsOf[flow][j] : j \in DOMAIN ButtonsOf[flow]}
        BY <3>2 DEF Shown
      <4>3. i[2] \in Opening => flow \in {"plan", "review"}
        BY <1>t, <4>2 DEF ButtonsOf, Opening, AllFlows
      <4> QED
        BY <4>1, <4>3
    <3>3. i \in modals \/ \E g \in visible : i \in Shown(g)
      BY <2>1, PressableIsShown
    <3> QED
      BY <3>1, <3>2, <3>3
  <2>6. FirstPlace(i[2]) # "open"
    BY DEF FirstPlace
  <2>7. ASSUME NEW d \in Clicks
        PROVE  \/ Spent(d)'
               \/ pressed'[d] = pressed[d] /\ (pc'[d] = "open" => pc[d] = "open")
    <3>1. CASE d = c
      <4>1. pressed'[d] = i /\ pc'[d] # "open"
        BY <1>t, <2>1, <2>6, <3>1
      <4>2. Spent(d)'
        BY <2>1, <2>2, <2>3, <2>5, <4>1 DEF Spent, Grouped
      <4> QED
        BY <4>2
    <3>2. CASE d # c
      BY <1>t, <2>1, <3>2
    <3> QED
      BY <3>1, <3>2
  <2>8. start'.at \in Early => start'.gen = starts' /\ start.at \in Early
    BY <1>t, <2>1 DEF Registered
  <2>9. now <= now' /\ starts <= starts'
    BY <1>t, <2>1
  <2> QED
    BY <1>u, <2>1, <2>4, <2>7, <2>8, <2>9, Steady
<1>2. ASSUME NEW i \in Ids, DispatchFails(c, i) PROVE Registered'
  BY <1>2, <1>o, <1>u DEF DispatchFails, Go, ClickPlaces
<1>3. CASE ReadSession(c)
  <2> DEFINE place == IF IsOpen THEN NextPlace(Button(c)) ELSE "answered"
  <2>1. pc' = [pc EXCEPT ![c] = place] /\ held' = [held EXCEPT ![c] = session]
        /\ UNCHANGED <<flow, now, registry, session, caller, platform, modals, pressed,
                       history, setbacks>>
    BY <1>3 DEF ReadSession, Go
  <2>2. place \in ClickPlaces /\ (place = "open" => pressed[c][2] \in Opening)
    BY DEF NextPlace, ClickPlaces, Button
  <2>3. \A g \in Gens : Known(g)' => Known(g)
    BY <1>t, <2>1 DEF Known
  <2> HIDE DEF place
  <2> QED
    BY <1>o, <2>1, <2>2, <2>3
<1>4. CASE OpenModal(c)
  <2>1. pc[c] = "open" /\ pressed[c] \in Ids /\ pressed[c] # <<>>
    BY <1>4, <1>t DEF OpenModal, Holdings, Ids
  <2>2. PICK g \in Gens : g = pressed[c][1]
    BY <2>1 DEF Ids
  <2>3. g \in visible /\ flow \in {"plan", "review"}
    BY <1>t, <2>1, <2>2 DEF Registered, Spent
  <2>4. pc' = [pc EXCEPT ![c] = "answered"]
        /\ UNCHANGED <<flow, now, expiry, session, caller, platform, pressed, held,
                       history, setbacks>>
    BY <1>4 DEF OpenModal, Go
  <2>5. \A d \in Clicks : pc'[d] = "open" => pc[d] = "open"
    BY <1>t, <2>4
  <2>6. start'.at \in Early => start'.gen = starts' /\ start.at \in Early
    BY <1>t, <2>4 DEF Registered
  <2>7. now <= now' /\ starts <= starts' /\ visible \subseteq visible'
    BY <1>t, <2>4
  <2>8. CASE flow = "plan"
    <3>1. /\ mem' = IF expiry[g] > now
                    THEN [Unexpired(mem) EXCEPT !.open = @ \cup {<<g, "submit">>}]
                    ELSE Unexpired(mem)
          /\ disk' = mem'
          /\ modals' = IF expiry[g] > now THEN modals \cup {<<g, "submit">>} ELSE modals
      BY <1>4, <2>2, <2>8 DEF OpenModal, Persisted
    <3>2. Unexpired(mem) \in Registries
      BY <1>t, UnexpiredType
    <3>3. /\ Unexpired(mem).open \subseteq mem'.open
          /\ mem'.used = Unexpired(mem).used /\ mem'.spent = Unexpired(mem).spent
          /\ expiry[g] > now => <<g, "submit">> \in mem'.open
      BY <3>1, <3>2 DEF Registries
    <3>4. ASSUME NEW i \in modals' PROVE i \in modals \/ Backed(i)'
      <4>1. CASE i \in modals
        BY <4>1
      <4>2. CASE i \notin modals
        <5>1. i = <<g, "submit">> /\ expiry[g] > now
          BY <3>1, <4>2
        <5> QED
          BY <2>3, <2>4, <3>3, <5>1 DEF Backed
      <4> QED
        BY <4>1, <4>2
    <3>5. Kept
      BY <1>t, <3>3, UnexpiredKeeps
    <3> QED
      BY <1>u, <2>4, <2>5, <2>6, <2>7, <3>1, <3>4, <3>5, Steady
  <2>9. CASE flow = "review"
    <3>1. mem' = mem /\ disk' = mem' /\ modals' = modals \cup {<<g, "submit">>}
      BY <1>4, <1>t, <2>2, <2>9 DEF OpenModal, Registered
    <3>2. Kept
      BY <1>t, <3>1 DEF Kept
    <3>3. Backed(<<g, "submit">>)'
      <4>1. Full(g)
        BY <1>t, <2>3 DEF Registered, Known
      <4>2. 1 \in 1 .. AllButtons /\ ButtonsOf[flow][1] = "submit"
        BY <2>9 DEF AllButtons, ButtonsOf
      <4>3. <<g, "submit">> \in FirstButtons(g, AllButtons)
        BY <4>2 DEF FirstButtons
      <4>4. Lives(g) => <<g, "submit">> \in mem.open
        BY <4>1, <4>3 DEF Full
      <4> QED
        BY <2>3, <2>4, <3>1, <4>4 DEF Backed, Lives
    <3> QED
      BY <1>u, <2>4, <2>5, <2>6, <2>7, <3>1, <3>2, <3>3, Steady
  <2> QED
    BY <2>3, <2>8, <2>9
<1>5. CASE Refuse(c)
  <2>1. \A g \in Gens : Known(g)' => Known(g)
    BY <1>5, <1>t, <1>u, <1>m DEF Refuse, Holdings, Between
  <2> QED
    BY <1>5, <1>o, <2>1 DEF Refuse, Go, ClickPlaces
<1>6. CASE MarkRunning(c) \/ Record(c) \/ RecordFailure(c)
  <2>1. flow \in WithSession /\ held[c] \in Sessions
    BY <1>6, <1>t DEF MarkRunning, Record, RecordFailure, Holdings, Between, OfSessions
  <2>2. \A g \in Gens : Known(g)' => Known(g)
    BY <1>6, <1>m, <2>1 DEF MarkRunning, Record, RecordFailure
  <2>3. PICK place \in {"execute", "answered"} : pc' = [pc EXCEPT ![c] = place]
    BY <1>6 DEF MarkRunning, Record, RecordFailure, Go
  <2>4. UNCHANGED <<flow, now, registry, caller, platform, modals, pressed, blind>>
    BY <1>6 DEF MarkRunning, Record, RecordFailure
  <2> QED
    BY <1>o, <2>2, <2>3, <2>4 DEF ClickPlaces
<1>7. CASE Execute(c) \/ WorkEnds(c) \/ ExecuteFails(c) \/ WorkFails(c) \/ HandlerWriteFails(c)
  <2>1. PICK place \in {"working", "record", "answered", "recordFailure"} :
           pc' = [pc EXCEPT ![c] = place]
    BY <1>7 DEF Execute, WorkEnds, ExecuteFails, WorkFails, HandlerWriteFails, Go,
                AfterFailedWork
  <2>2. UNCHANGED <<flow, now, registry, session, caller, platform, modals, pressed,
                    held, blind>>
    BY <1>7 DEF Execute, WorkEnds, ExecuteFails, WorkFails, HandlerWriteFails
  <2> QED
    BY <1>o, <1>u, <2>1, <2>2 DEF ClickPlaces
<1> QED
  BY <1>1, <1>2, <1>3, <1>4, <1>5, <1>6, <1>7 DEF Click, Handler

LEMMA NextRegistered ==
    ASSUME IInv, [Next]_vars PROVE IInv'
<1>1. TypeOK' /\ Holdings'
  BY NextType DEF IInv
<1>t. TypeOK /\ Registered /\ now \in Nat /\ starts \in Nat
  BY DEF IInv, TypeOK
<1>2. CASE Caller
  BY <1>1, <1>2, CallerKeepsRegistered DEF IInv
<1>3. ASSUME NEW c \in Clicks, Click(c) PROVE IInv'
  BY <1>1, <1>3, ClickKeepsRegistered DEF IInv
<1> USE DEF registry, caller, platform, clicks, history
<1>4. CASE Tick
  <2>1. /\ now <= now' /\ starts <= starts' /\ visible \subseteq visible'
        /\ disk' = mem'
        /\ UNCHANGED <<flow, registry, session, caller, platform, modals, clicks, history>>
    BY <1>4, <1>t DEF Tick, Registered
  <2>2. Kept
    BY <1>t, <2>1 DEF Kept
  <2>3. \A g \in Gens : Known(g)' => Known(g)
    BY <2>1 DEF Known
  <2>4. start'.at \in Early => start'.gen = starts' /\ start.at \in Early
    BY <1>t, <2>1 DEF Registered
  <2> QED
    BY <1>1, <2>1, <2>2, <2>3, <2>4, Steady DEF IInv
<1>5. CASE Restart(FALSE)
  <2>1. blind' /\ mem' = NoRegistry /\ disk' = mem' /\ start' = NotStarting
        /\ UNCHANGED <<flow, now, expiry, session, starts, platform, modals, pressed, held>>
        /\ pc' = [c \in Clicks |-> IF pc[c] = "ready" THEN "ready" ELSE "answered"]
    BY <1>5 DEF Restart, Persisted
  <2>2. start'.at = "idle"
    BY <2>1 DEF NotStarting
  <2>3. ASSUME NEW g \in Gens, Known(g)' PROVE Full(g)' /\ Past(g)'
    <3>1. Known(g)
      BY <2>1, <2>2, <2>3 DEF Known, Late
    <3> QED
      BY <1>t, <2>1, <2>2, <3>1 DEF Registered, Full, Past, Lives, Early
  <2>4. ASSUME NEW c \in Clicks PROVE Spent(c)'
    BY <1>t, <2>1 DEF Registered, Spent, Lives
  <2>5. ASSUME NEW i \in modals' PROVE Backed(i)'
    BY <1>t, <2>1 DEF Registered, Backed, Lives
  <2> QED
    BY <1>1, <2>1, <2>2, <2>3, <2>4, <2>5 DEF IInv, Registered, Early
<1>6. CASE Restart(TRUE)
  <2>1. mem' = Unexpired(mem) /\ disk' = mem' /\ start' = NotStarting
        /\ UNCHANGED <<flow, now, expiry, session, starts, platform, modals, pressed, held>>
        /\ pc' = [c \in Clicks |-> IF pc[c] = "ready" THEN "ready" ELSE "answered"]
        /\ blind' = blind
    BY <1>6, <1>t DEF Restart, Persisted, Registered, TypeOK
  <2>2. start'.at = "idle"
    BY <2>1 DEF NotStarting
  <2>3. \A g \in Gens : Known(g)' => Known(g)
    BY <2>1, <2>2 DEF Known, Late
  <2>4. \A c \in Clicks : pc'[c] = "open" => pc[c] = "open"
    BY <2>1
  <2> QED
    BY <1>1, <2>1, <2>2, <2>3, <2>4, Cleans DEF IInv, Early
<1>7. CASE UNCHANGED vars
  <2>1. /\ UNCHANGED <<flow, now, registry, modals, pressed, blind>>
        /\ UNCHANGED <<session, held, start, starts, visible, pc>>
    BY <1>7 DEF vars
  <2>2. \A g \in Gens : Known(g)' => Known(g)
    BY <2>1 DEF Known
  <2>3. start'.at \in Early => start'.gen = starts' /\ start.at \in Early
    BY <1>t, <2>1 DEF Registered
  <2> QED
    BY <1>1, <1>t, <2>1, <2>2, <2>3, Quiet DEF IInv
<1> QED
  BY <1>2, <1>3, <1>4, <1>5, <1>6, <1>7 DEF Next

\* IInv holds initially and every step preserves it.
THEOREM Invariance == Spec => []IInv
<1>1. Init => IInv
  <2> SUFFICES ASSUME Init PROVE IInv
    OBVIOUS
  <2>1. Registered
    BY DEF Init, Registered, Known, Spent, NotStarting, Early, NoSession
  <2> QED
    BY <2>1, InitType DEF IInv
<1>2. IInv /\ [Next]_vars => IInv'
  BY NextRegistered
<1> QED
  BY <1>1, <1>2, PTL DEF Spec

\* Whatever the flow, the clicks and the bounds: once the handler of a click
\* may run, the file of the registry knows its button and group as spent.
THEOREM ConsumptionIsDurable == Spec => []SpentOnDisk
<1>1. IInv => SpentOnDisk
  <2> SUFFICES ASSUME IInv, NEW c \in Clicks, pressed[c] # <<>>, ~blind,
                      expiry[pressed[c][1]] > now
               PROVE  /\ pressed[c] \in disk.used
                      /\ Grouped(pressed[c][2]) => disk.spent # 0
    BY DEF SpentOnDisk
  <2>1. disk = mem /\ Spent(c) /\ now \in Nat
    BY DEF IInv, Registered, TypeOK
  <2>2. expiry[pressed[c][1]] # 0
    BY <2>1
  <2> QED
    BY <2>1, <2>2 DEF Spent, Lives
<1> QED
  BY <1>1, Invariance, PTL

\* A button that the user can see and that has not expired is in the registry,
\* in memory and on disk, whatever registrations and writes failed before.
THEOREM VisibleIsRegistered == Spec => []VisibleButtonsRegistered
<1>1. IInv => VisibleButtonsRegistered
  <2> SUFFICES ASSUME IInv, NEW i \in Pressable, ~blind, expiry[i[1]] > now
               PROVE  i \in mem.open /\ i \in disk.open
    BY DEF VisibleButtonsRegistered
  <2>0. disk = mem
    BY DEF IInv, Registered
  <2>1. CASE i \in modals
    BY <2>0, <2>1 DEF IInv, Registered, Backed, Lives
  <2>2. ASSUME NEW g \in visible, i \in Shown(g) PROVE i \in mem.open
    <3>1. g \in Gens /\ Full(g)
      BY DEF IInv, Registered, Known, TypeOK
    <3>2. i[1] = g
      BY <2>2 DEF Shown
    <3>3. i \in FirstButtons(g, AllButtons)
      <4>1. PICK b \in Buttons : i = <<g, b>>
               /\ \E j \in DOMAIN ButtonsOf[flow] : ButtonsOf[flow][j] = b
        BY <2>2 DEF Shown
      <4>2. flow \in AllFlows
        BY FlowsAssumption DEF IInv, TypeOK
      <4> QED
        BY <4>1, <4>2, ButtonsType DEF FirstButtons, AllButtons
    <3> QED
      BY <3>1, <3>2, <3>3 DEF Full, Lives
  <2>3. i \in modals \/ \E g \in visible : i \in Shown(g)
    BY PressableIsShown
  <2> QED
    BY <2>0, <2>1, <2>2, <2>3
<1> QED
  BY <1>1, Invariance, PTL

----------------------------------------------------------------------------
(* One decision.  Whatever the user sees was posted for one generation of   *)
(* buttons; of these at most one of a group is ever dispatched, even when a *)
(* restart has forgotten them; so at most one handler decides, and it alone *)
(* writes the session.                                                      *)

Handling == {"refuse", "markRunning", "execute", "working", "record", "recordFailure"}

Dispatched(c) == pressed[c] # <<>>
Decides(c) == pc[c] \in Handling \/ c \in decided

\* The generation of the card: the one its receipt names, or the only one.
Card == IF flow \in WithReceipt THEN receipt.gen ELSE 1

OneGeneration ==
    /\ flow \notin WithReceipt =>
          starts <= 1 /\ (start.at # "idle" => start.gen = 1)
    /\ start.at \in {"writeIds", "deliver", "settle", "confirm"} => flow \in WithReceipt
    /\ start.at = "prepare" => flow \in WithSession
    /\ start.at = "post" /\ flow \in WithReceipt =>
          receipt # NoReceipt /\ receipt.gen = start.gen
    /\ \A g \in visible : g = Card /\ (flow \in WithReceipt => receipt # NoReceipt)

Presses == \A c \in Clicks : Dispatched(c) => pc[c] # "ready" /\ pressed[c] \in Pressable

\* Two clicks dispatch two buttons, and not two of a group.
Apart ==
    \A c, d \in Clicks : c # d /\ Dispatched(c) /\ Dispatched(d) =>
        /\ pressed[c] # pressed[d]
        /\ ~(Grouped(pressed[c][2]) /\ Grouped(pressed[d][2]))

\* The button that shows the dialog of a flow.
Opener == IF flow = "plan" THEN "edit" ELSE "change"

Dialogs ==
    \A i \in modals :
        /\ i[2] = "submit" /\ flow \in {"plan", "review"}
        /\ \E c \in Clicks : pressed[c] = <<i[1], Opener>> /\ pc[c] = "answered"

\* What was pressed cannot be pressed again: it is used, or forgotten with all
\* the buttons of its card, and then no handler is left to register more.
UsedUp ==
    \A c \in Clicks : Dispatched(c) =>
        /\ pressed[c] \in mem.open => pressed[c] \in mem.used
        /\ Grouped(pressed[c][2]) /\ expiry[pressed[c][1]] > now =>
              \/ mem.spent = expiry[pressed[c][1]]
              \/ pc[c] = "answered" /\ \A j \in mem.open : j[1] # pressed[c][1]

Decisions == \A c \in Clicks : Decides(c) => Dispatched(c) /\ pressed[c][2] \notin Opening

\* A caller under way holds a session that nobody decides; a handler that may
\* write finds the session pending or running.
SessionHeld ==
    /\ flow \notin WithSession => session = NoSession
    /\ flow \in WithReceipt /\ start.at # "idle" =>
          /\ start.own.status = "preparing"
          /\ \/ session.status \in {"absent", "preparing"}
             \/ flow = "review" /\ start.at = "prepare" /\ session.status \in Resolutions
    /\ flow = "plan" /\ start.at = "prepare" => session = NoSession
    /\ flow \in WithSession =>
          \A c \in Clicks : pc[c] \in Handling => session.status \in {"pending", "running"}

ClickInv == Presses /\ Apart /\ Dialogs /\ UsedUp /\ Decisions
CardInv == IInv /\ OneGeneration /\ ClickInv /\ SessionHeld

LEMMA NoSessionFacts ==
    /\ NoSession.status = "absent"
    /\ \A s \in Sessions : s.status \in Statuses
    /\ "absent" \notin Resolutions /\ "preparing" \notin Resolutions
    /\ "pending" \notin Resolutions /\ "running" \notin Resolutions
  BY DEF NoSession, Sessions, Resolutions

LEMMA VisibleArePast ==
    ASSUME IInv, NEW g \in visible
    PROVE  g \in Gens /\ g <= starts /\ (start.at \in Early => g # start.gen)
<1>1. g \in Gens /\ Known(g)
  BY DEF IInv, TypeOK, Known
<1> QED
  BY <1>1 DEF IInv, Registered, Past

\* The caller posts one generation only.
LEMMA GenerationStep ==
    ASSUME IInv, OneGeneration, [Next]_vars PROVE OneGeneration'
<1>t. /\ TypeOK /\ Holdings /\ start \in StartType /\ starts \in Nat
      /\ visible \subseteq Gens /\ Gens \subseteq Nat \ {0} /\ Registered
  BY BoundsFacts DEF IInv, TypeOK, StartType
<1> USE DEF registry, caller, platform, clicks, history
<1>k. ASSUME NEW place \in Places, At(place)
      PROVE  start'.at = place /\ start'.gen = start.gen /\ start'.own = start.own
  BY <1>k, <1>t, AtType
\* A step that shows nothing new and leaves the receipt alone.
<1>q. ASSUME flow' = flow, receipt' = receipt, visible' = visible, starts' = starts,
             start'.at \notin {"prepare", "post"},
             start'.at # "idle" => start.at # "idle" /\ start'.gen = start.gen,
             start'.at \in {"writeIds", "deliver", "settle", "confirm"} => flow \in WithReceipt
      PROVE  OneGeneration'
  BY <1>q DEF OneGeneration, Card
<1>1. CASE Start
  <2>1. /\ start.at = "idle" /\ starts' = starts + 1 /\ UNCHANGED <<flow, receipt, visible>>
        /\ flow \notin WithReceipt => starts < 1
    BY <1>1 DEF Start
  <2>2. CASE Prepares
    <3>1. start'.at = (IF flow \in WithSession THEN "prepare" ELSE "register")
          /\ start'.gen = starts'
      BY <1>1, <2>2 DEF Start
    <3> QED
      BY <1>t, <2>1, <3>1 DEF OneGeneration, Card
  <2>3. CASE ~Prepares /\ Resumes
    <3>1. start'.at = "deliver" /\ flow \in WithReceipt
      BY <1>1, <2>3 DEF Start, Resumes
    <3> QED
      BY <1>t, <2>1, <3>1 DEF OneGeneration, Card
  <2>4. CASE ~Prepares /\ ~Resumes
    <3>1. start' = start
      BY <1>1, <2>4 DEF Start
    <3> QED
      BY <1>t, <2>1, <3>1 DEF OneGeneration, Card
  <2> QED
    BY <2>2, <2>3, <2>4
<1>2. CASE WritePrepared
  BY <1>2, <1>k, <1>q DEF WritePrepared, Places
<1>3. CASE Register
  <2>1. /\ start.at = "register" /\ At(IF flow \in WithReceipt THEN "writeIds" ELSE "post")
        /\ UNCHANGED <<flow, session, starts, platform>>
    BY <1>3 DEF Register, Registering
  <2>2. start'.at = (IF flow \in WithReceipt THEN "writeIds" ELSE "post")
        /\ start'.gen = start.gen
    BY <1>k, <2>1 DEF Places
  <2> QED
    BY <2>1, <2>2 DEF OneGeneration, Card
<1>4. CASE RegisterHalf \/ RegisterRefused \/ StartFails
  <2>1. start'.at = "idle" /\ UNCHANGED <<flow, starts, receipt, visible>>
    BY <1>4, <1>k DEF RegisterHalf, RegisterRefused, StartFails, GivesUp, Places
  <2> QED
    BY <1>q, <2>1
<1>5. CASE WriteIds
  <2>1. start.at = "writeIds" /\ UNCHANGED <<flow, starts, receipt, visible>>
        /\ start'.at = "deliver" /\ start'.gen = start.gen
    BY <1>5, <1>t DEF WriteIds, StartType
  <2> QED
    BY <1>q, <2>1 DEF OneGeneration
<1>6. CASE Deliver
  <2>1. start.at = "deliver" /\ flow \in WithReceipt /\ UNCHANGED <<flow, starts, visible>>
    BY <1>6 DEF Deliver, OneGeneration
  <2>2. CASE receipt # NoReceipt /\ (~SamePayload \/ receipt.state = "delivered")
    <3>1. receipt' = receipt /\ (At("idle") \/ At("confirm"))
      BY <1>6, <2>2 DEF Deliver
    <3> QED
      BY <1>k, <1>q, <2>1, <3>1 DEF Places
  <2>3. CASE receipt = NoReceipt \/ (SamePayload /\ receipt.state # "delivered")
    <3>1. receipt' = [state |-> "attempting", gen |-> start.gen] /\ At("post")
      BY <1>6, <2>3 DEF Deliver
    <3>2. start'.at = "post" /\ start'.gen = start.gen
      BY <1>k, <3>1 DEF Places
    <3>3. receipt'.gen = start.gen /\ receipt' # NoReceipt
      <4>1. receipt'.state = "attempting" /\ NoReceipt.state = "absent"
        BY <3>1 DEF NoReceipt
      <4> QED
        BY <3>1, <4>1
    <3>4. \A g \in visible : g = start.gen
      BY <2>1, <2>3 DEF OneGeneration, Card, SamePayload
    <3> QED
      BY <2>1, <3>2, <3>3, <3>4 DEF OneGeneration, Card
  <2> QED
    BY <2>2, <2>3
<1>7. CASE Post \/ PostFails
  <2>1. /\ start.at = "post" /\ visible' \subseteq visible \cup {start.gen}
        /\ UNCHANGED <<flow, starts>>
    BY <1>7 DEF Post, PostFails
  <2>2. start'.at = "idle" \/ (start'.at = "settle" /\ flow \in WithReceipt
                                /\ start'.gen = start.gen)
    BY <1>7, <1>k DEF Post, PostFails, Places
  <2>3. start.gen = Card /\ (flow \in WithReceipt => receipt # NoReceipt)
    BY <2>1 DEF OneGeneration, Card
  <2>4. flow \in WithReceipt => receipt' # NoReceipt /\ receipt'.gen = receipt.gen
    <3> SUFFICES ASSUME flow \in WithReceipt
                 PROVE  receipt' # NoReceipt /\ receipt'.gen = receipt.gen
      OBVIOUS
    <3>1. receipt \in Receipts /\ receipt # NoReceipt
      BY <2>1, <2>3, <1>t DEF Holdings
    <3>2. CASE Post
      BY <3>1, <3>2 DEF Post
    <3>3. CASE PostFails
      <4>1. receipt' = [receipt EXCEPT !.state = "uncertain"]
        BY <3>3 DEF PostFails
      <4>2. receipt'.state = "uncertain" /\ receipt'.gen = receipt.gen
            /\ NoReceipt.state = "absent"
        BY <3>1, <4>1 DEF Receipts, NoReceipt
      <4> QED
        BY <4>2
    <3> QED
      BY <1>7, <3>2, <3>3
  <2>5. \A g \in visible' : g = Card' /\ (flow \in WithReceipt => receipt' # NoReceipt)
    BY <2>1, <2>3, <2>4 DEF OneGeneration, Card
  <2> QED
    BY <2>1, <2>2, <2>5 DEF OneGeneration
<1>8. CASE Settle
  <2>1. start.at = "settle" /\ receipt \in Receipts /\ flow \in WithReceipt
    BY <1>8, <1>t DEF Settle, Holdings, OneGeneration
  <2>2. receipt' = [receipt EXCEPT !.state = "delivered"] /\ UNCHANGED <<flow, starts, visible>>
    BY <1>8 DEF Settle
  <2>3. receipt'.gen = receipt.gen /\ receipt'.state = "delivered"
        /\ NoReceipt.state = "absent"
    BY <2>1, <2>2 DEF Receipts, NoReceipt
  <2>4. start'.at = "confirm"
    BY <1>8, <1>k DEF Settle, Places
  <2> QED
    BY <2>1, <2>2, <2>3, <2>4 DEF OneGeneration, Card
<1>9. CASE WritePending
  <2>1. start'.at = "idle" /\ UNCHANGED <<flow, starts, receipt, visible>>
    BY <1>9, <1>k DEF WritePending, Places
  <2> QED
    BY <1>q, <2>1
<1>10. ASSUME NEW c \in Clicks, Click(c) PROVE OneGeneration'
  <2>1. UNCHANGED <<flow, caller, platform>>
    BY <1>10 DEF Click, Handler, Dispatch, DispatchFails, ReadSession, OpenModal, Refuse,
                MarkRunning, Execute, WorkEnds, Record, RecordFailure, ExecuteFails,
                WorkFails, HandlerWriteFails
  <2> QED
    BY <2>1 DEF OneGeneration, Card
<1>11. ASSUME NEW readable \in BOOLEAN, Restart(readable) PROVE OneGeneration'
  <2>1. start'.at = "idle" /\ UNCHANGED <<flow, starts, receipt, visible>>
    BY <1>11 DEF Restart, NotStarting
  <2> QED
    BY <1>q, <2>1
<1>12. CASE Tick \/ UNCHANGED vars
  <2>1. UNCHANGED <<flow, caller, platform>>
    BY <1>12 DEF Tick, vars
  <2> QED
    BY <2>1 DEF OneGeneration, Card
<1> QED
  BY <1>1, <1>2, <1>3, <1>4, <1>5, <1>6, <1>7, <1>8, <1>9, <1>10, <1>11, <1>12
     DEF Next, Caller

\* What a click that was dispatched has pressed.
LEMMA PressFacts ==
    ASSUME IInv, OneGeneration, ClickInv, NEW c \in Clicks, Dispatched(c)
    PROVE  /\ pressed[c] \in Ids /\ pressed[c][1] \in Gens
           /\ pressed[c][1] \in visible /\ pressed[c][1] = Card
           /\ pressed[c][2] \in Opening =>
                 flow \in {"plan", "review"} /\ pressed[c] = <<Card, Opener>>
           /\ pressed[c][2] = "submit" => pressed[c] \in modals
<1>1. pressed[c] \in Ids /\ pressed[c][1] \in Gens /\ flow \in AllFlows
  BY FlowsAssumption DEF IInv, TypeOK, Dispatched, Ids
<1>2. pressed[c][1] \in visible /\ (pressed[c][2] \in Opening => flow \in {"plan", "review"})
  BY DEF IInv, Registered, Spent, Dispatched
<1>3. pressed[c][1] = Card
  BY <1>2 DEF OneGeneration
<1>4. pressed[c] \in modals \/ \E g \in visible : pressed[c] \in Shown(g)
  BY PressableIsShown DEF ClickInv, Presses
<1>5. ASSUME NEW g \in visible, pressed[c] \in Shown(g)
      PROVE  pressed[c][2] # "submit" /\ (pressed[c][2] \in Opening => pressed[c][2] = Opener)
  <2>1. pressed[c][2] # "submit"
        /\ pressed[c][2] \in {ButtonsOf[flow][j] : j \in DOMAIN ButtonsOf[flow]}
    BY <1>5 DEF Shown
  <2> QED
    BY <1>1, <1>2, <2>1 DEF ButtonsOf, Opening, Opener, AllFlows
<1>6. pressed[c] \in modals => pressed[c][2] = "submit"
  BY DEF ClickInv, Dialogs
<1>7. pressed[c][2] \in Opening => pressed[c][2] = Opener
  BY <1>4, <1>5, <1>6 DEF Opening
<1>8. pressed[c] = <<pressed[c][1], pressed[c][2]>>
  BY <1>1 DEF Ids
<1> QED
  BY <1>1, <1>2, <1>3, <1>4, <1>5, <1>7, <1>8

\* Two clicks that decide are two quick replies.
LEMMA OneDecider ==
    ASSUME IInv, OneGeneration, ClickInv, NEW c \in Clicks, NEW d \in Clicks,
           c # d, Decides(c), Decides(d)
    PROVE  flow = "replies" /\ pressed[c] # pressed[d]
<1>1. /\ Dispatched(c) /\ pressed[c][2] \notin Opening
      /\ Dispatched(d) /\ pressed[d][2] \notin Opening
  BY DEF ClickInv, Decisions
<1>2. pressed[c] # pressed[d] /\ ~(Grouped(pressed[c][2]) /\ Grouped(pressed[d][2]))
  BY <1>1 DEF ClickInv, Apart
<1>3. flow # "review" /\ flow # "recovery" /\ flow # "capacity"
  BY <1>1, <1>2 DEF Grouped, Opening
<1>4. ASSUME flow = "plan", NEW x \in Clicks, NEW y \in Clicks, x # y, Decides(x),
             Decides(y), pressed[x][2] = "submit", pressed[x] # pressed[y]
      PROVE  FALSE
  <2>1. Dispatched(x) /\ Dispatched(y) /\ pressed[y][2] \notin Opening
    BY <1>4 DEF ClickInv, Decisions
  <2>2. pressed[x] \in Ids /\ pressed[y] \in Ids /\ pressed[x][1] = pressed[y][1]
        /\ pressed[x] \in modals
    BY <1>4, <2>1, PressFacts
  <2>3. pressed[y][2] # "submit"
    BY <1>4, <2>2 DEF Ids
  <2>4. PICK e \in Clicks : pressed[e] = <<pressed[x][1], "edit">>
    BY <1>4, <2>2 DEF ClickInv, Dialogs, Opener
  <2>5. e # y /\ Dispatched(e) /\ pressed[e][2] = "edit"
    BY <2>1, <2>4 DEF Opening, Dispatched
  <2> QED
    BY <1>4, <2>1, <2>3, <2>5 DEF ClickInv, Apart, Grouped
<1>5. flow # "plan"
  <2> SUFFICES ASSUME flow = "plan" PROVE FALSE
    OBVIOUS
  <2>1. pressed[c][2] = "submit" \/ pressed[d][2] = "submit"
    BY <1>2 DEF Grouped
  <2> QED
    BY <1>2, <1>4, <2>1
<1>6. flow \in AllFlows
  BY FlowsAssumption DEF IInv, TypeOK
<1> QED
  BY <1>2, <1>3, <1>5, <1>6 DEF AllFlows

----------------------------------------------------------------------------
(* How a step moves the clicks.                                            *)

\* The registry only cleans itself, or gains buttons of a new generation.
Ages ==
    /\ now <= now'
    /\ mem.spent > now => mem'.spent = mem.spent
    /\ \A c \in Clicks : Dispatched(c) =>
          /\ expiry'[pressed[c][1]] = expiry[pressed[c][1]]
          /\ \A j \in mem'.open : j[1] = pressed[c][1] =>
                j \in mem.open /\ (j \in mem.used => j \in mem'.used)

\* The clicks that have been dispatched stay so, with the button they pressed.
Lasting ==
    /\ flow' = flow /\ visible \subseteq visible' /\ modals \subseteq modals'
    /\ pressed' = pressed
    /\ \A c \in Clicks : pc[c] = "answered" => pc'[c] = "answered"
    /\ \A c \in Clicks : pc[c] # "ready" => pc'[c] # "ready"

\* Who begins to decide, has read the session; who has decided, was about to.
Deciding ==
    /\ \A c \in Clicks : pc'[c] \in Handling => pc[c] \in Handling \/ ReadSession(c)
    /\ \A c \in decided' : c \in decided \/ pc[c] \in Handling

LEMMA ReadDecides ==
    ASSUME IInv, ClickInv, NEW c \in Clicks, ReadSession(c), pc'[c] \in Handling
    PROVE  Dispatched(c) /\ pressed[c][2] \notin Opening
<1>1. pc[c] = "read" /\ pressed[c] \in Ids /\ pc \in [Clicks -> ClickPlaces]
  BY DEF ReadSession, IInv, Holdings, TypeOK
<1>2. Dispatched(c)
  BY <1>1 DEF Dispatched, Ids
<1>3. pc'[c] = (IF IsOpen THEN NextPlace(pressed[c][2]) ELSE "answered")
  BY <1>1 DEF ReadSession, Go, Button
<1>4. NextPlace(pressed[c][2]) # "open"
  BY <1>3 DEF Handling
<1> QED
  BY <1>2, <1>4 DEF NextPlace, Opening, Refusals

LEMMA PressableGrows ==
    ASSUME flow' = flow, visible \subseteq visible', modals \subseteq modals'
    PROVE  Pressable \subseteq Pressable'
<1>1. \A g : Shown(g)' = Shown(g)
  BY DEF Shown, Ids
<1>2. ASSUME NEW i \in Pressable PROVE i \in Pressable'
  <2>1. CASE i \in modals
    BY <2>1 DEF Pressable
  <2>2. ASSUME NEW g \in visible, i \in Shown(g) PROVE i \in Pressable'
    BY <1>1, <2>2 DEF Pressable
  <2> QED
    BY <2>1, <2>2, PressableIsShown
<1> QED
  BY <1>2

\* Unless a button is dispatched, all but the registry is as before.
LEMMA LastingKeeps ==
    ASSUME IInv, ClickInv, Lasting, Deciding,
           \A i \in modals' : i \in modals \/ (i[2] = "submit" /\ flow \in {"plan", "review"}
               /\ \E c \in Clicks : pressed[c] = <<i[1], Opener>> /\ pc'[c] = "answered")
    PROVE  Presses' /\ Apart' /\ Dialogs' /\ Decisions'
<1>1. Presses'
  BY PressableGrows DEF ClickInv, Presses, Lasting, Dispatched
<1>2. Apart'
  BY DEF ClickInv, Apart, Lasting, Dispatched, Grouped
<1>3. Dialogs'
  <2>1. Opener' = Opener
    BY DEF Lasting, Opener
  <2>2. ASSUME NEW i \in modals'
        PROVE  /\ i[2] = "submit" /\ flow \in {"plan", "review"}
               /\ \E c \in Clicks : pressed[c] = <<i[1], Opener>> /\ pc'[c] = "answered"
    BY DEF ClickInv, Dialogs, Lasting
  <2> QED
    BY <2>1, <2>2 DEF Dialogs, Lasting
<1>4. ASSUME NEW c \in Clicks, Decides(c)' PROVE Dispatched(c)' /\ pressed'[c][2] \notin Opening
  <2>1. CASE Decides(c)
    BY <2>1 DEF ClickInv, Decisions, Lasting, Dispatched
  <2>2. CASE ReadSession(c) /\ pc'[c] \in Handling
    BY <2>2, ReadDecides DEF Lasting, Dispatched
  <2> QED
    BY <1>4, <2>1, <2>2 DEF Decides, Deciding
<1> QED
  BY <1>1, <1>2, <1>3, <1>4 DEF Decisions

LEMMA AgesKeeps ==
    ASSUME IInv, TypeOK', OneGeneration, ClickInv, Lasting, Ages PROVE UsedUp'
<1> SUFFICES ASSUME NEW c \in Clicks, Dispatched(c)
             PROVE  /\ pressed[c] \in mem'.open => pressed[c] \in mem'.used
                    /\ Grouped(pressed[c][2]) /\ expiry'[pressed[c][1]] > now' =>
                          \/ mem'.spent = expiry'[pressed[c][1]]
                          \/ pc'[c] = "answered"
                             /\ \A j \in mem'.open : j[1] # pressed[c][1]
  BY DEF UsedUp, Lasting, Dispatched, Grouped
<1>1. /\ expiry[pressed[c][1]] \in Nat /\ now \in Nat /\ now' \in Nat /\ now <= now'
      /\ expiry'[pressed[c][1]] = expiry[pressed[c][1]]
  BY PressFacts, BoundsFacts DEF IInv, TypeOK, Ages
<1>2. pressed[c] \in mem'.open => pressed[c] \in mem'.used
  BY DEF ClickInv, UsedUp, Ages
<1>3. ASSUME Grouped(pressed[c][2]), expiry'[pressed[c][1]] > now'
      PROVE  \/ mem'.spent = expiry'[pressed[c][1]]
             \/ pc'[c] = "answered" /\ \A j \in mem'.open : j[1] # pressed[c][1]
  <2>1. expiry[pressed[c][1]] > now
    BY <1>1, <1>3
  <2>2. CASE mem.spent = expiry[pressed[c][1]]
    BY <1>1, <2>1, <2>2 DEF Ages
  <2>3. CASE pc[c] = "answered" /\ \A j \in mem.open : j[1] # pressed[c][1]
    BY <2>3 DEF Ages, Lasting
  <2> QED
    BY <1>3, <2>1, <2>2, <2>3 DEF ClickInv, UsedUp
<1> QED
  BY <1>2, <1>3

\* What Unexpired leaves of the registry, and what a registration adds to it.
LEMMA CleanAges ==
    ASSUME IInv, OneGeneration, ClickInv, now' = now,
           mem'.used = Unexpired(mem).used, mem'.spent = Unexpired(mem).spent,
           \A j \in mem'.open : j \in Unexpired(mem).open
                             \/ (start.at = "register" /\ j[1] = start.gen),
           \A g \in Gens : expiry'[g] = expiry[g] \/ (start.at = "register" /\ g = start.gen)
    PROVE  Ages
<1>1. /\ Unexpired(mem).open = {i \in mem.open : expiry[i[1]] > now}
      /\ Unexpired(mem).used = mem.used \cap {i \in mem.open : expiry[i[1]] > now}
      /\ Unexpired(mem).spent = IF mem.spent > now THEN mem.spent ELSE 0
  BY DEF Unexpired
<1>2. ASSUME NEW c \in Clicks, Dispatched(c)
      PROVE  pressed[c][1] \in Gens /\ (start.at = "register" => pressed[c][1] # start.gen)
  BY <1>2, PressFacts, VisibleArePast DEF Early
<1>3. now <= now'
  BY DEF IInv, TypeOK
<1> QED
  BY <1>1, <1>2, <1>3 DEF Ages

LEMMA RegisteringAges ==
    ASSUME IInv, OneGeneration, ClickInv, NEW n \in 0 .. AllButtons, Registering(n), now' = now
    PROVE  Ages
<1>1. /\ start.at = "register" /\ start.gen \in Gens
      /\ mem'.open = Unexpired(mem).open \cup FirstButtons(start.gen, n)
      /\ mem'.used = Unexpired(mem).used /\ mem'.spent = Unexpired(mem).spent
      /\ TypeOK
  BY RegisteringType DEF IInv
<1>2. expiry' = [expiry EXCEPT ![start.gen] = start.own.expires]
  BY DEF Registering
<1>3. \A g \in Gens : expiry'[g] = expiry[g] \/ g = start.gen
  BY <1>1, <1>2 DEF TypeOK
<1>4. \A j \in FirstButtons(start.gen, n) : j[1] = start.gen
  BY DEF FirstButtons
<1> QED
  BY <1>1, <1>3, <1>4, CleanAges

LEMMA SameAges ==
    ASSUME IInv, UNCHANGED <<registry, now>> PROVE Ages
  BY DEF IInv, TypeOK, Ages, registry

LEMMA CallerClicks ==
    ASSUME IInv, IInv', OneGeneration, ClickInv, Caller PROVE ClickInv'
<1>1. /\ UNCHANGED <<flow, now, modals, clicks, history>> /\ visible \subseteq visible'
  BY DEF Caller, Start, WritePrepared, Register, RegisterHalf, RegisterRefused, WriteIds,
         Deliver, Post, PostFails, Settle, WritePending, StartFails, platform
<1>2. Lasting /\ Deciding
  BY <1>1 DEF Lasting, Deciding, clicks, history
<1>3. Ages
  <2>0. AllButtons \in Nat
    BY ButtonsType, FlowsAssumption DEF AllButtons, IInv, TypeOK
  <2>1. CASE Register
    BY <1>1, <2>0, <2>1, RegisteringAges DEF Register
  <2>2. CASE RegisterHalf
    <3>1. PICK n \in 0 .. AllButtons - 1 : Registering(n)
      BY <2>2 DEF RegisterHalf
    <3>2. n \in 0 .. AllButtons
      BY <2>0
    <3> QED
      BY <1>1, <3>1, <3>2, RegisteringAges
  <2>3. CASE RegisterRefused
    BY <1>1, <2>3, CleanAges DEF RegisterRefused
  <2>4. CASE ~(Register \/ RegisterHalf \/ RegisterRefused)
    <3>1. UNCHANGED registry
      BY <2>4 DEF Caller, Start, WritePrepared, WriteIds, Deliver, Post, PostFails, Settle,
                  WritePending, StartFails
    <3> QED
      BY <1>1, <3>1, SameAges
  <2> QED
    BY <2>1, <2>2, <2>3, <2>4
<1> QED
  BY <1>1, <1>2, <1>3, LastingKeeps, AgesKeeps DEF ClickInv, IInv

LEMMA DispatchClicks ==
    ASSUME IInv, IInv', OneGeneration, ClickInv, NEW c \in Clicks, NEW i \in Ids, Dispatch(c, i)
    PROVE  ClickInv'
<1>1. /\ pc[c] = "ready" /\ i \in Pressable /\ i \in mem.open /\ i \notin mem.used
      /\ expiry[i[1]] > now /\ ~(Grouped(i[2]) /\ mem.spent # 0)
      /\ pressed' = [pressed EXCEPT ![c] = i] /\ pc' = [pc EXCEPT ![c] = FirstPlace(i[2])]
      /\ UNCHANGED <<flow, now, expiry, visible, modals, decided>>
  BY DEF Dispatch, Accepts, Go, platform, history
<1>t. /\ pc \in [Clicks -> ClickPlaces] /\ pressed \in [Clicks -> Ids \cup {<<>>}]
      /\ mem \in Registries /\ i[1] \in Gens /\ flow \in AllFlows /\ i # <<>>
      /\ \A g \in Gens : expiry[g] \in Nat
  <2>1. flow \in AllFlows
    BY FlowsAssumption DEF IInv, TypeOK
  <2>2. i[1] \in Gens /\ i # <<>>
    BY DEF Ids
  <2> QED
    BY <2>1, <2>2, BoundsFacts DEF IInv, TypeOK
<1>2. /\ mem'.open = mem.open /\ mem'.used = mem.used \cup {i}
      /\ mem'.spent = IF Grouped(i[2]) THEN expiry[i[1]] ELSE mem.spent
  BY <1>t, ConsumedType DEF Dispatch, IInv
<1>3. ~Dispatched(c)
  BY <1>1 DEF ClickInv, Presses
<1>4. /\ pressed'[c] = i /\ pc'[c] = FirstPlace(i[2]) /\ Dispatched(c)'
      /\ \A d \in Clicks \ {c} : /\ pressed'[d] = pressed[d] /\ pc'[d] = pc[d]
                                /\ Dispatched(d)' = Dispatched(d)
  BY <1>1, <1>t DEF Dispatched
<1>5. FirstPlace(i[2]) \notin {"ready", "answered", "open"}
  BY DEF FirstPlace
<1>g. i[1] = Card /\ i[1] \in visible /\ (i[2] \in Opening => flow \in WithSession)
  <2>1. CASE i \in modals
    <3>1. i[2] = "submit" /\ i[1] \in visible
      BY <2>1 DEF IInv, Registered, Backed
    <3> QED
      BY <3>1 DEF OneGeneration, Opening
  <2>2. ASSUME NEW g \in visible, i \in Shown(g)
        PROVE  i[1] = g /\ (i[2] \in Opening => flow \in WithSession)
    <3>1. i[1] = g /\ i[2] \in {ButtonsOf[flow][j] : j \in DOMAIN ButtonsOf[flow]}
      BY <2>2 DEF Shown
    <3> QED
      BY <1>t, <3>1 DEF ButtonsOf, Opening, AllFlows, WithSession
  <2> QED
    BY <1>1, <2>1, <2>2, PressableIsShown DEF OneGeneration
\* No click that was dispatched before has spent this button or its group.
<1>6. ASSUME NEW d \in Clicks, Dispatched(d)
      PROVE  pressed[d] # i /\ ~(Grouped(pressed[d][2]) /\ Grouped(i[2]))
  <2>1. pressed[d] # i
    BY <1>1, <1>6 DEF ClickInv, UsedUp
  <2>2. pressed[d][1] = i[1]
    BY <1>6, <1>g, PressFacts
  <2>3. ASSUME Grouped(pressed[d][2]), Grouped(i[2]) PROVE FALSE
    <3>1. mem.spent = 0 /\ expiry[i[1]] # 0
      BY <1>1, <1>t, <2>3 DEF IInv, TypeOK
    <3>2. \E j \in mem.open : j[1] = pressed[d][1]
      BY <1>1, <2>2
    <3> QED
      BY <1>1, <1>6, <2>2, <2>3, <3>1, <3>2 DEF ClickInv, UsedUp
  <2> QED
    BY <2>1, <2>3
<1>7. Presses'
  <2>1. Pressable' = Pressable
    BY <1>1 DEF Pressable, Shown
  <2> QED
    BY <1>1, <1>4, <1>5, <2>1 DEF ClickInv, Presses
<1>8. Apart'
  <2>1. \A b : Grouped(b)' = Grouped(b)
    BY <1>1 DEF Grouped
  <2> SUFFICES ASSUME NEW x \in Clicks, NEW y \in Clicks, x # y, Dispatched(x)', Dispatched(y)'
               PROVE  /\ pressed'[x] # pressed'[y]
                      /\ ~(Grouped(pressed'[x][2]) /\ Grouped(pressed'[y][2]))
    BY <2>1 DEF Apart
  <2>2. CASE x = c
    BY <1>4, <1>6, <2>2
  <2>3. CASE y = c
    BY <1>4, <1>6, <2>3
  <2>4. CASE x # c /\ y # c
    BY <1>4, <2>4 DEF ClickInv, Apart
  <2> QED
    BY <2>2, <2>3, <2>4
<1>9. Dialogs'
  <2> SUFFICES ASSUME NEW m \in modals
               PROVE  /\ m[2] = "submit" /\ flow \in {"plan", "review"}
                      /\ \E d \in Clicks : pressed'[d] = <<m[1], Opener>> /\ pc'[d] = "answered"
    BY <1>1 DEF Dialogs, Opener
  <2>1. PICK d \in Clicks : pressed[d] = <<m[1], Opener>> /\ pc[d] = "answered"
    BY DEF ClickInv, Dialogs
  <2>2. d # c
    BY <1>1, <2>1
  <2> QED
    BY <1>4, <2>1, <2>2 DEF ClickInv, Dialogs
<1>10. UsedUp'
  <2>1. \A b : Grouped(b)' = Grouped(b)
    BY <1>1 DEF Grouped
  <2> SUFFICES ASSUME NEW d \in Clicks, Dispatched(d)'
               PROVE  /\ pressed'[d] \in mem'.open => pressed'[d] \in mem'.used
                      /\ Grouped(pressed'[d][2]) /\ expiry[pressed'[d][1]] > now =>
                            \/ mem'.spent = expiry[pressed'[d][1]]
                            \/ pc'[d] = "answered"
                               /\ \A j \in mem'.open : j[1] # pressed'[d][1]
    BY <1>1, <2>1 DEF UsedUp
  <2>2. CASE d = c
    BY <1>2, <1>4, <2>2
  <2>3. CASE d # c
    <3>1. Dispatched(d) /\ pressed'[d] = pressed[d] /\ pc'[d] = pc[d]
      BY <1>4, <2>3
    <3>2. Grouped(pressed[d][2]) => mem'.spent = mem.spent
      BY <1>2, <1>6, <3>1
    <3> QED
      BY <1>2, <3>1, <3>2 DEF ClickInv, UsedUp
  <2> QED
    BY <2>2, <2>3
<1>11. Decisions'
  <2> SUFFICES ASSUME NEW d \in Clicks, Decides(d)' PROVE Dispatched(d)' /\ pressed'[d][2] \notin Opening
    BY DEF Decisions
  <2>1. CASE d = c
    <3>1. c \notin decided
      BY <1>3 DEF ClickInv, Decisions, Decides
    <3>2. FirstPlace(i[2]) # "read"
      BY <1>1, <1>4, <2>1, <3>1 DEF Decides, Handling
    <3>3. flow \notin WithSession
      BY <3>2 DEF FirstPlace
    <3> QED
      BY <1>4, <1>g, <2>1, <3>3
  <2>2. CASE d # c
    BY <1>1, <1>4, <2>2 DEF ClickInv, Decisions, Decides
  <2> QED
    BY <2>1, <2>2
<1> QED
  BY <1>7, <1>8, <1>9, <1>10, <1>11 DEF ClickInv

\* A step of a handler, or a failed dispatch: only this click moves.
Goes(c) ==
    /\ pc[c] # "answered"
    /\ \E place \in ClickPlaces \ {"ready"} : pc' = [pc EXCEPT ![c] = place]
    /\ pc'[c] \in Handling => pc[c] \in Handling \/ ReadSession(c)
    /\ decided' = decided \/ (pc[c] \in Handling /\ decided' = decided \cup {c})
    /\ UNCHANGED <<flow, now, registry, caller, platform, modals, pressed>>

LEMMA HandlerGoes ==
    ASSUME IInv, IInv', NEW c \in Clicks, Click(c), ~(\E i \in Ids : Dispatch(c, i)), ~OpenModal(c)
    PROVE  Goes(c)
<1>t. pc \in [Clicks -> ClickPlaces] /\ pc' \in [Clicks -> ClickPlaces]
  BY DEF IInv, TypeOK
<1>p. ASSUME NEW place, pc' = [pc EXCEPT ![c] = place]
      PROVE  pc'[c] = place /\ place \in ClickPlaces
  BY <1>p, <1>t
<1> USE DEF Go, clicks, history, Handling
<1>1. ASSUME NEW i \in Ids, DispatchFails(c, i) PROVE Goes(c)
  BY <1>1, <1>p DEF DispatchFails, Goes
<1>2. CASE ReadSession(c)
  <2>1. pc' = [pc EXCEPT ![c] = IF IsOpen THEN NextPlace(Button(c)) ELSE "answered"]
        /\ pc[c] = "read"
        /\ UNCHANGED <<flow, now, registry, caller, platform, modals, pressed, decided>>
    BY <1>2 DEF ReadSession
  <2>2. (IF IsOpen THEN NextPlace(Button(c)) ELSE "answered") # "ready"
    BY DEF NextPlace
  <2> QED
    BY <1>2, <1>p, <2>1, <2>2 DEF Goes
<1>3. CASE Refuse(c)
  BY <1>3, <1>p DEF Refuse, Goes
<1>4. CASE MarkRunning(c)
  BY <1>4, <1>p DEF MarkRunning, Goes
<1>5. CASE Execute(c)
  BY <1>5, <1>p DEF Execute, Goes
<1>6. CASE WorkEnds(c)
  BY <1>6, <1>p DEF WorkEnds, Goes
<1>7. CASE Record(c) \/ RecordFailure(c)
  BY <1>7, <1>p DEF Record, RecordFailure, Goes
<1>8. CASE ExecuteFails(c) \/ WorkFails(c)
  BY <1>8, <1>p DEF ExecuteFails, WorkFails, AfterFailedWork, Goes
<1>9. CASE HandlerWriteFails(c)
  BY <1>9, <1>p DEF HandlerWriteFails, AfterFailedWork, Goes
<1> QED
  BY <1>1, <1>2, <1>3, <1>4, <1>5, <1>6, <1>7, <1>8, <1>9 DEF Click, Handler

LEMMA GoesClicks ==
    ASSUME IInv, IInv', OneGeneration, ClickInv, NEW c \in Clicks, Goes(c) PROVE ClickInv'
<1>1. PICK place \in ClickPlaces \ {"ready"} : pc' = [pc EXCEPT ![c] = place]
  BY DEF Goes
<1>2. pc'[c] = place /\ \A d \in Clicks \ {c} : pc'[d] = pc[d]
  BY <1>1 DEF IInv, TypeOK
<1>3. Lasting /\ Deciding
  BY <1>2 DEF Goes, Lasting, Deciding, platform
<1>4. Ages
  BY SameAges DEF Goes
<1>5. modals' = modals
  BY DEF Goes
<1> QED
  BY <1>3, <1>4, <1>5, LastingKeeps, AgesKeeps DEF ClickInv, IInv

\* A plan's dialog is registered by the one click that opened it.
LEMMA OpenModalClicks ==
    ASSUME IInv, IInv', OneGeneration, ClickInv, NEW c \in Clicks, OpenModal(c) PROVE ClickInv'
<1>1. /\ pc[c] = "open" /\ pc' = [pc EXCEPT ![c] = "answered"]
      /\ UNCHANGED <<flow, now, expiry, visible, pressed, decided>>
      /\ modals \subseteq modals' /\ modals' \subseteq modals \cup {<<pressed[c][1], "submit">>}
  BY DEF OpenModal, Go, platform, history
<1>2. pc'[c] = "answered" /\ \A d \in Clicks \ {c} : pc'[d] = pc[d]
  BY <1>1 DEF IInv, TypeOK
<1>3. Dispatched(c) /\ pressed[c][2] \in Opening
  <2>1. pressed[c] \in Ids /\ pressed[c][2] \in Opening
    BY <1>1 DEF IInv, Holdings, Registered, Spent
  <2> QED
    BY <2>1 DEF Ids, Dispatched
<1>4. flow \in {"plan", "review"} /\ pressed[c] = <<Card, Opener>> /\ pressed[c][1] \in Gens
  BY <1>3, PressFacts
<1>5. Lasting
  BY <1>1, <1>2 DEF Lasting
<1>6. Deciding
  BY <1>1, <1>2 DEF Deciding, Handling
<1>7. ASSUME NEW i \in modals', i \notin modals
      PROVE  i[2] = "submit" /\ pressed[c] = <<i[1], Opener>> /\ pc'[c] = "answered"
  BY <1>1, <1>2, <1>4, <1>7
<1>8. Presses' /\ Apart' /\ Dialogs' /\ Decisions'
  BY <1>4, <1>5, <1>6, <1>7, LastingKeeps
<1>9. CASE flow = "review"
  <2>1. UNCHANGED <<registry, now>>
    BY <1>1, <1>9 DEF OpenModal, registry
  <2> QED
    BY <1>5, <1>8, <2>1, SameAges, AgesKeeps DEF ClickInv, IInv
<1>10. CASE flow = "plan"
  <2> DEFINE id == <<pressed[c][1], "submit">>
  <2>1. Unexpired(mem) \in Registries
    BY UnexpiredType DEF IInv, TypeOK
  <2>2. /\ mem'.used = Unexpired(mem).used /\ mem'.spent = Unexpired(mem).spent
        /\ mem'.open \subseteq Unexpired(mem).open \cup {id}
    BY <1>10, <2>1 DEF OpenModal, Registries
  <2>3. /\ Unexpired(mem).open = {i \in mem.open : expiry[i[1]] > now}
        /\ Unexpired(mem).used = mem.used \cap {i \in mem.open : expiry[i[1]] > now}
        /\ Unexpired(mem).spent = IF mem.spent > now THEN mem.spent ELSE 0
    BY DEF Unexpired
  \* No other click has pressed a button of the group, and none the dialog's.
  <2>4. Grouped(pressed[c][2]) /\ pressed[c][2] = "edit"
    BY <1>4, <1>10 DEF Grouped, Opener
  <2>5. ASSUME NEW d \in Clicks, Dispatched(d) PROVE pressed[d] # id
    <3> SUFFICES ASSUME pressed[d] = id PROVE FALSE
      OBVIOUS
    <3>1. id \in modals
      BY <2>5, PressFacts
    <3>2. PICK e \in Clicks : pressed[e] = <<id[1], "edit">> /\ pc[e] = "answered"
      BY <1>10, <3>1 DEF ClickInv, Dialogs, Opener
    <3>3. e # c /\ Dispatched(e) /\ Grouped(pressed[e][2])
      BY <1>1, <1>10, <3>2 DEF Dispatched, Grouped
    <3> QED
      BY <1>3, <2>4, <3>3 DEF ClickInv, Apart
  <2> SUFFICES ASSUME NEW d \in Clicks, Dispatched(d)
               PROVE  /\ pressed[d] \in mem'.open => pressed[d] \in mem'.used
                      /\ Grouped(pressed[d][2]) /\ expiry[pressed[d][1]] > now =>
                            \/ mem'.spent = expiry[pressed[d][1]]
                            \/ pc'[d] = "answered"
                               /\ \A j \in mem'.open : j[1] # pressed[d][1]
    BY <1>1, <1>8 DEF ClickInv, UsedUp, Dispatched, Grouped
  <2>6. pressed[d] \in mem'.open => pressed[d] \in mem'.used
    BY <2>2, <2>3, <2>5 DEF ClickInv, UsedUp
  <2>7. ASSUME Grouped(pressed[d][2]), expiry[pressed[d][1]] > now
        PROVE  mem'.spent = expiry[pressed[d][1]]
    <3>1. d = c
      BY <1>3, <2>4, <2>7 DEF ClickInv, Apart
    <3>2. mem.spent = expiry[pressed[d][1]]
      BY <1>1, <2>7, <3>1 DEF ClickInv, UsedUp
    <3> QED
      BY <2>2, <2>3, <2>7, <3>2
  <2> QED
    BY <2>6, <2>7
<1> QED
  BY <1>4, <1>9, <1>10

LEMMA RestartClicks ==
    ASSUME IInv, IInv', OneGeneration, ClickInv, NEW readable \in BOOLEAN, Restart(readable)
    PROVE  ClickInv'
<1>1. /\ mem' = (IF readable THEN Unexpired(mem) ELSE NoRegistry)
      /\ pc' = [c \in Clicks |-> IF pc[c] = "ready" THEN "ready" ELSE "answered"]
      /\ UNCHANGED <<flow, now, expiry, visible, modals, pressed, decided>>
  BY DEF Restart, IInv, Registered, platform
<1>2. Lasting
  BY <1>1 DEF Lasting
<1>3. Deciding
  BY <1>1 DEF Deciding, Handling
<1>4. Presses' /\ Apart' /\ Dialogs' /\ Decisions'
  BY <1>1, <1>2, <1>3, LastingKeeps
<1>5. CASE readable
  <2>1. Ages
    BY <1>1, <1>5, CleanAges
  <2> QED
    BY <1>2, <1>4, <2>1, AgesKeeps DEF ClickInv, IInv
\* The buttons are forgotten, but so are the handlers that may register more.
<1>6. CASE ~readable
  <2>1. mem'.open = {}
    BY <1>1, <1>6 DEF NoRegistry
  <2>2. \A c \in Clicks : Dispatched(c)' => pc'[c] = "answered"
    BY <1>1 DEF ClickInv, Presses, Dispatched
  <2>3. UsedUp'
    BY <2>1, <2>2 DEF UsedUp
  <2> QED
    BY <1>4, <2>3 DEF ClickInv
<1> QED
  BY <1>5, <1>6

LEMMA ClicksStep ==
    ASSUME IInv, OneGeneration, ClickInv, [Next]_vars PROVE ClickInv'
<1>1. IInv'
  BY NextRegistered
<1>2. CASE Caller
  BY <1>1, <1>2, CallerClicks
<1>3. ASSUME NEW c \in Clicks, Click(c) PROVE ClickInv'
  BY <1>1, <1>3, HandlerGoes, GoesClicks, OpenModalClicks, DispatchClicks
<1>4. CASE Tick \/ UNCHANGED vars
  <2>1. UNCHANGED <<flow, registry, platform, modals, clicks, history>> /\ now <= now'
    BY <1>4 DEF Tick, vars, IInv, TypeOK
  <2>2. Lasting /\ Deciding
    BY <2>1 DEF Lasting, Deciding, platform, clicks, history
  <2>3. Ages
    BY <2>1 DEF Ages, registry
  <2>4. modals' = modals
    BY <2>1
  <2> QED
    BY <1>1, <2>2, <2>3, <2>4, LastingKeeps, AgesKeeps DEF ClickInv, IInv
<1>5. ASSUME NEW readable \in BOOLEAN, Restart(readable) PROVE ClickInv'
  BY <1>1, <1>5, RestartClicks
<1> QED
  BY <1>2, <1>3, <1>4, <1>5 DEF Next

----------------------------------------------------------------------------
(* Who writes the session.                                                 *)

\* While a handler may write the session, no caller is under way, and no
\* other handler.
LEMMA HandlerAlone ==
    ASSUME CardInv, NEW c \in Clicks, pc[c] \in Handling, flow \in WithSession
    PROVE  /\ session.status \in {"pending", "running"}
           /\ flow \in WithReceipt => start.at = "idle"
           /\ ~(flow = "plan" /\ start.at = "prepare")
           /\ \A d \in Clicks \ {c} : pc[d] \notin Handling
<1>1. session.status \in {"pending", "running"}
  BY DEF CardInv, SessionHeld
<1>2. flow \in WithReceipt => start.at = "idle"
  BY <1>1 DEF CardInv, SessionHeld, Resolutions
<1>3. ~(flow = "plan" /\ start.at = "prepare")
  BY <1>1, NoSessionFacts DEF CardInv, SessionHeld
<1>4. ASSUME NEW d \in Clicks \ {c}, pc[d] \in Handling PROVE FALSE
  BY <1>4, OneDecider DEF CardInv, Decides, WithSession
<1> QED
  BY <1>1, <1>2, <1>3, <1>4

\* A caller writes a session that was not resolved, but for a review's new call.
LEMMA CallerWrites ==
    ASSUME CardInv, Caller, session' # session
    PROVE  /\ session.status \in Resolutions => flow = "review" /\ WritePrepared
           /\ \A c \in Clicks : pc[c] \notin Handling
           /\ flow \in WithSession
<1>1. \/ WritePrepared /\ start.at = "prepare"
      \/ (WriteIds \/ WritePending) /\ start.at \in {"writeIds", "confirm"}
  BY DEF Caller, Start, WritePrepared, Register, RegisterHalf, RegisterRefused, WriteIds,
         Deliver, Post, PostFails, Settle, WritePending, StartFails
<1>2. /\ flow \in WithSession
      /\ start.at \in {"writeIds", "confirm"} => flow \in WithReceipt
      /\ flow \notin WithReceipt => flow = "plan"
  BY <1>1 DEF CardInv, OneGeneration, WithReceipt, WithSession
<1>3. \A c \in Clicks : pc[c] \notin Handling
  BY <1>1, <1>2, HandlerAlone
<1>4. CASE flow = "plan"
  <2>1. session = NoSession
    BY <1>1, <1>2, <1>4 DEF CardInv, SessionHeld, WithReceipt
  <2> QED
    BY <1>2, <1>3, <2>1, NoSessionFacts
<1>5. CASE flow \in WithReceipt
  BY <1>1, <1>2, <1>3, <1>5, NoSessionFacts DEF CardInv, SessionHeld
<1> QED
  BY <1>2, <1>4, <1>5

\* A click writes the session from its handler only.
LEMMA ClickWrites ==
    ASSUME CardInv, NEW c \in Clicks, Click(c), session' # session
    PROVE  /\ pc[c] \in Handling /\ flow \in WithSession
           /\ pc'[c] \notin Handling \/ session'.status = "running"
<1>t. pc \in [Clicks -> ClickPlaces] /\ Holdings
  BY DEF CardInv, IInv, TypeOK
<1>1. Refuse(c) \/ MarkRunning(c) \/ Record(c) \/ RecordFailure(c)
  BY DEF Click, Handler, Dispatch, DispatchFails, ReadSession, OpenModal, Execute, WorkEnds,
         ExecuteFails, WorkFails, HandlerWriteFails
<1>2. CASE Refuse(c)
  BY <1>t, <1>2 DEF Refuse, Go, Handling
<1>3. CASE MarkRunning(c)
  <2>1. flow \in WithSession /\ held[c] \in Sessions /\ pc[c] \in Handling
    BY <1>t, <1>3 DEF MarkRunning, Holdings, Between, OfSessions, Handling
  <2>2. session' = [held[c] EXCEPT !.status = "running"]
    BY <1>3 DEF MarkRunning, Mark
  <2> QED
    BY <2>1, <2>2 DEF Sessions
<1>4. CASE Record(c) \/ RecordFailure(c)
  BY <1>t, <1>4 DEF Record, RecordFailure, Holdings, OfSessions, Go, Handling
<1> QED
  BY <1>1, <1>2, <1>3, <1>4

LEMMA CallerSession ==
    ASSUME CardInv, IInv', Caller PROVE SessionHeld'
<1>t. /\ TypeOK /\ Holdings /\ start \in StartType /\ visible \subseteq Gens
      /\ session \in Sessions \cup {NoSession} /\ flow \in AllFlows /\ flow' = flow
      /\ pc' = pc
  <2>1. flow \in AllFlows
    BY FlowsAssumption DEF CardInv, IInv, TypeOK
  <2>2. flow' = flow /\ pc' = pc
    BY DEF Caller, Start, WritePrepared, Register, RegisterHalf, RegisterRefused, WriteIds,
           Deliver, Post, PostFails, Settle, WritePending, StartFails, clicks
  <2> QED
    BY <2>1, <2>2 DEF CardInv, IInv, TypeOK, StartType
<1>k. ASSUME NEW place \in Places, At(place)
      PROVE  start'.at = place /\ start'.gen = start.gen /\ start'.own = start.own
  BY <1>k, <1>t, AtType
\* A step that leaves the session alone and goes on with the same one in hand.
<1>q. ASSUME session' = session, start.at # "prepare", start'.at # "prepare",
             start'.at # "idle" => start.at # "idle" /\ start'.own = start.own
      PROVE  SessionHeld'
  BY <1>q, <1>t DEF CardInv, SessionHeld
<1>i. ASSUME session' = session, start'.at = "idle" PROVE SessionHeld'
  BY <1>i, <1>t DEF CardInv, SessionHeld
<1>1. CASE Start
  <2>1. start.at = "idle" /\ session' = session
    BY <1>1 DEF Start
  <2>2. CASE Prepares
    <3> DEFINE own == [status |-> IF flow = "plan" THEN "pending" ELSE "preparing",
                       gen |-> 0, expires |-> ExpiresAt]
    <3>1. start'.at = (IF flow \in WithSession THEN "prepare" ELSE "register")
          /\ start'.own = own
      BY <1>1, <2>2 DEF Start
    <3>2. flow # "plan" => start'.own.status = "preparing"
      BY <3>1
    <3>3. CASE flow = "recovery"
      <4>1. session = NoSession \/ session.status = "preparing"
        BY <2>2, <3>3 DEF Prepares, Fresh
      <4>2. session'.status \in {"absent", "preparing"}
        BY <2>1, <4>1, NoSessionFacts
      <4> QED
        BY <1>t, <2>1, <3>2, <3>3, <4>2 DEF CardInv, SessionHeld, WithSession
    <3>4. CASE flow = "review"
      <4>1. session = NoSession \/ session.status \in Resolutions
        BY <2>2, <3>4 DEF Prepares, Fresh
      <4>2. start'.at = "prepare"
        BY <3>1, <3>4 DEF WithSession
      <4>3. session'.status = "absent" \/ session'.status \in Resolutions
        BY <2>1, <4>1, NoSessionFacts
      <4> QED
        BY <1>t, <2>1, <3>2, <3>4, <4>2, <4>3 DEF CardInv, SessionHeld, WithSession
    <3>5. CASE flow \notin WithReceipt
      <4>1. session = NoSession
        BY <2>2, <3>5 DEF Prepares, Fresh, WithReceipt
      <4> QED
        BY <1>t, <2>1, <3>5, <4>1 DEF CardInv, SessionHeld
    <3> QED
      BY <3>3, <3>4, <3>5 DEF WithReceipt
  <2>3. CASE ~Prepares /\ Resumes
    <3>1. start' = [at |-> "deliver", gen |-> session.gen, own |-> session]
          /\ flow \in WithReceipt /\ session.status = "preparing"
      BY <1>1, <2>3 DEF Start, Resumes
    <3>2. start'.at = "deliver" /\ start'.own.status = "preparing"
      BY <3>1
    <3> QED
      BY <1>t, <2>1, <3>1, <3>2 DEF CardInv, SessionHeld
  <2>4. CASE ~Prepares /\ ~Resumes
    BY <1>1, <1>i, <2>1, <2>4 DEF Start
  <2> QED
    BY <2>2, <2>3, <2>4
<1>2. CASE WritePrepared
  <2>1. /\ start.at = "prepare" /\ session' = start.own
        /\ start'.at = "register" /\ start'.own = start.own
    BY <1>2, <1>k DEF WritePrepared, Places
  <2>2. flow \in WithSession /\ \A c \in Clicks : pc[c] \notin Handling
    <3>1. flow \in WithSession /\ (flow \notin WithReceipt => flow = "plan")
      BY <2>1 DEF CardInv, OneGeneration, WithSession, WithReceipt
    <3> QED
      BY <2>1, <3>1, HandlerAlone
  <2> QED
    BY <1>t, <2>1, <2>2 DEF CardInv, SessionHeld
<1>3. CASE Register
  <2>1. start.at = "register" /\ session' = session
        /\ At(IF flow \in WithReceipt THEN "writeIds" ELSE "post")
    BY <1>3 DEF Register, Registering
  <2> QED
    BY <1>k, <1>q, <2>1 DEF Places
<1>4. CASE RegisterHalf \/ RegisterRefused \/ StartFails \/ PostFails
  BY <1>4, <1>k, <1>i DEF RegisterHalf, RegisterRefused, StartFails, PostFails, GivesUp, Places
<1>5. CASE WriteIds
  <2>1. start.at = "writeIds" /\ start.own \in Sessions /\ flow \in WithReceipt
    BY <1>5, <1>t DEF WriteIds, Holdings, CardInv, OneGeneration
  <2>2. session' = [start.own EXCEPT !.gen = start.gen]
        /\ start' = [start EXCEPT !.at = "deliver", !.own = session']
    BY <1>5 DEF WriteIds
  <2>3. session'.status = start.own.status
    BY <2>1, <2>2 DEF Sessions
  <2>4. start'.at = "deliver" /\ start'.own = session'
    BY <1>t, <2>2 DEF StartType
  <2>5. start.own.status = "preparing" /\ \A c \in Clicks : pc[c] \notin Handling
    <3>1. flow \in WithSession
      BY <2>1 DEF WithReceipt, WithSession
    <3> QED
      BY <2>1, <3>1, HandlerAlone DEF CardInv, SessionHeld
  <2>6. flow \in WithSession
    BY <2>1 DEF WithReceipt, WithSession
  <2> QED
    BY <1>t, <2>1, <2>3, <2>4, <2>5, <2>6 DEF SessionHeld
<1>6. CASE Deliver \/ Post \/ Settle
  <2>1. start.at \in {"deliver", "post", "settle"} /\ session' = session
        /\ \E place \in {"idle", "confirm", "post", "settle"} : At(place)
    BY <1>6 DEF Deliver, Post, Settle
  <2> QED
    BY <1>k, <1>q, <2>1 DEF Places
<1>7. CASE WritePending
  <2>1. start.at = "confirm" /\ start.own \in Sessions /\ flow \in WithReceipt
    BY <1>7, <1>t DEF WritePending, Holdings, CardInv, OneGeneration
  <2>2. start'.at = "idle"
    BY <1>7, <1>k DEF WritePending, Places
  <2>3. flow \in WithSession
    BY <2>1 DEF WithReceipt, WithSession
  <2>4. \A c \in Clicks : pc[c] \notin Handling
    BY <2>1, <2>3, HandlerAlone
  <2> QED
    BY <1>t, <2>1, <2>2, <2>3, <2>4 DEF SessionHeld
<1> QED
  BY <1>1, <1>2, <1>3, <1>4, <1>5, <1>6, <1>7 DEF Caller

LEMMA ClickSession ==
    ASSUME CardInv, IInv', NEW c \in Clicks, Click(c) PROVE SessionHeld'
<1>1. flow' = flow /\ start' = start
  BY DEF Click, Handler, Dispatch, DispatchFails, ReadSession, OpenModal, Refuse, MarkRunning,
         Execute, WorkEnds, Record, RecordFailure, ExecuteFails, WorkFails, HandlerWriteFails,
         caller
<1>t. pc \in [Clicks -> ClickPlaces]
  BY DEF CardInv, IInv, TypeOK
<1>2. \E place : pc' = [pc EXCEPT ![c] = place]
  BY DEF Click, Handler, Dispatch, DispatchFails, ReadSession, OpenModal, Refuse, MarkRunning,
         Execute, WorkEnds, Record, RecordFailure, ExecuteFails, WorkFails, HandlerWriteFails,
         Go
<1>3. \A d \in Clicks \ {c} : pc'[d] = pc[d]
  BY <1>2, <1>t
<1>4. CASE session' # session
  <2>1. /\ pc[c] \in Handling /\ flow \in WithSession
        /\ pc'[c] \notin Handling \/ session'.status = "running"
    BY <1>4, ClickWrites
  <2>2. /\ flow \in WithReceipt => start.at = "idle"
        /\ ~(flow = "plan" /\ start.at = "prepare")
        /\ \A d \in Clicks \ {c} : pc[d] \notin Handling
    BY <2>1, HandlerAlone
  <2> QED
    BY <1>1, <1>3, <2>1, <2>2 DEF SessionHeld
<1>5. CASE session' = session
  <2>1. ASSUME pc'[c] \in Handling, pc[c] \notin Handling, flow \in WithSession
        PROVE  session.status = "pending"
    <3>1. ASSUME NEW i \in Ids, Dispatch(c, i) PROVE FALSE
      <4>1. pc' = [pc EXCEPT ![c] = "read"]
        BY <2>1, <3>1 DEF Dispatch, FirstPlace, Go
      <4> QED
        BY <1>t, <2>1, <4>1 DEF Handling
    <3>2. ~OpenModal(c)
      <4> SUFFICES ASSUME OpenModal(c) PROVE FALSE
        OBVIOUS
      <4>1. pc'[c] = "answered"
        BY <1>t DEF OpenModal, Go
      <4> QED
        BY <2>1, <4>1 DEF Handling
    <3>3. ReadSession(c)
      BY <2>1, <3>1, <3>2, HandlerGoes DEF Goes, CardInv
    <3>4. pc'[c] = (IF IsOpen THEN NextPlace(Button(c)) ELSE "answered")
      BY <1>t, <3>3 DEF ReadSession, Go
    <3> QED
      BY <2>1, <3>4 DEF IsOpen, Handling
  <2> QED
    BY <1>1, <1>3, <1>5, <2>1 DEF CardInv, SessionHeld
<1> QED
  BY <1>4, <1>5

LEMMA CardStep ==
    ASSUME CardInv, [Next]_vars PROVE CardInv'
<1>1. IInv' /\ OneGeneration' /\ ClickInv'
  BY NextRegistered, GenerationStep, ClicksStep DEF CardInv
<1>2. CASE Caller
  BY <1>1, <1>2, CallerSession DEF CardInv
<1>3. ASSUME NEW c \in Clicks, Click(c) PROVE CardInv'
  BY <1>1, <1>3, ClickSession DEF CardInv
<1>4. CASE Tick \/ UNCHANGED vars
  <2>1. UNCHANGED <<flow, session, start, pc>>
    BY <1>4 DEF Tick, vars, caller, clicks
  <2> QED
    BY <1>1, <2>1 DEF CardInv, SessionHeld
<1>5. ASSUME NEW readable \in BOOLEAN, Restart(readable) PROVE CardInv'
  <2>1. /\ UNCHANGED <<flow, session>> /\ start'.at = "idle"
        /\ \A c \in Clicks : pc'[c] \notin Handling
    BY <1>5 DEF Restart, NotStarting, Handling
  <2> QED
    BY <1>1, <2>1 DEF CardInv, SessionHeld
<1> QED
  BY <1>2, <1>3, <1>4, <1>5 DEF Next

\* CardInv holds initially and every step preserves it.
THEOREM CardInvariance == Spec => []CardInv
<1>1. Init => CardInv
  <2> SUFFICES ASSUME Init PROVE CardInv
    OBVIOUS
  <2>1. IInv
    <3>1. Registered
      BY DEF Init, Registered, Known, Spent, NotStarting, Early, NoSession
    <3> QED
      BY <3>1, InitType DEF IInv
  <2>2. OneGeneration
    BY DEF Init, OneGeneration, NotStarting
  <2>3. ClickInv
    BY DEF Init, ClickInv, Presses, Apart, Dialogs, UsedUp, Decisions, Dispatched, Decides,
           Handling
  <2>4. SessionHeld
    BY NoSessionFacts DEF Init, SessionHeld, NotStarting, Handling
  <2> QED
    BY <2>1, <2>2, <2>3, <2>4 DEF CardInv
<1>2. CardInv /\ [Next]_vars => CardInv'
  BY CardStep
<1> QED
  BY <1>1, <1>2, PTL DEF Spec

\* However many clicks race, whatever restarts forget and whichever writes
\* fail: at most one decision of a card is carried out, a quick reply once.
THEOREM DecidedOnce == Spec => []OneDecision
<1>1. CardInv => OneDecision
  <2> SUFFICES ASSUME CardInv, NEW c \in decided, NEW d \in decided, c # d
               PROVE  flow = "replies" /\ pressed[c] # pressed[d]
    BY DEF OneDecision
  <2>1. c \in Clicks /\ d \in Clicks /\ Decides(c) /\ Decides(d)
    BY DEF CardInv, IInv, TypeOK, Decides
  <2> QED
    BY <2>1, OneDecider DEF CardInv
<1> QED
  BY <1>1, CardInvariance, PTL

\* Neither a caller that is late nor a second handler writes over a session
\* that was decided; only a new review does.
THEOREM ResolutionStands == Spec => ResolvedStays
<1> DEFINE Stays == session.status \in Resolutions =>
                        \/ session'.status = session.status
                        \/ flow = "review" /\ WritePrepared
<1>1. CardInv /\ [Next]_vars => [Stays]_session
  <2> SUFFICES ASSUME CardInv, [Next]_vars, session' # session, session.status \in Resolutions
               PROVE  flow = "review" /\ WritePrepared
    OBVIOUS
  <2>1. CASE Caller
    BY <2>1, CallerWrites
  <2>2. ASSUME NEW c \in Clicks, Click(c) PROVE FALSE
    BY <2>2, ClickWrites, HandlerAlone, NoSessionFacts
  <2>3. CASE Tick \/ (\E readable \in BOOLEAN : Restart(readable)) \/ UNCHANGED vars
    BY <2>3 DEF Tick, Restart, vars
  <2> QED
    BY <2>1, <2>2, <2>3 DEF Next
<1> QED
  BY <1>1, CardInvariance, PTL DEF Spec, ResolvedStays

=============================================================================
