--------------------------- MODULE DecisionCards ---------------------------
(***************************************************************************)
(* ONE decision card on Discord, from its buttons' registration to the     *)
(* decision: the action registry of                                        *)
(* src/gateway/discordComponentActionRegistry.ts, which spends a button,    *)
(* and all its siblings, before it runs the handler, and the flows that    *)
(* post such cards: the recovery of a failed run, the approval of a plan,  *)
(* the review of a PDF, the choice of a capacity tier and the quick        *)
(* replies an agent offers.                                                *)
(*                                                                         *)
(* A card belongs to one flow.  A caller posts it (start, present,         *)
(* startReview, request); clicks, concurrent with the caller and with each  *)
(* other, dispatch its buttons.  Registry calls are synchronous; between    *)
(* two awaited operations anything may happen, a crash and restart too.     *)
(*                                                                         *)
(* Abstracted: owner, channel, scope and kind checks (a click that fails   *)
(* them, or any other rejected click, changes nothing), texts, artifacts   *)
(* and hashes other than the identity of the buttons on the card.  The     *)
(* delivery of the card is the single-caller case of DeliveryReceipts.      *)
(***************************************************************************)
EXTENDS Naturals, Sequences, FiniteSets

CONSTANTS
    Flows,        \* the kinds of card considered
    Clicks,       \* interactions a user may send
    MaxStarts,    \* calls that post the card of a recovery or a review
    Lifetime,     \* ttlMs: how long the buttons are valid
    MaxTime,      \* bound of the clock
    MaxSetbacks   \* bound: failed writes and sends, failed runs, crashes

AllFlows == {"recovery", "plan", "review", "capacity", "replies"}

ASSUME FlowsAssumption == Flows \subseteq AllFlows
ASSUME BoundsAssumption == /\ MaxStarts \in Nat \ {0}
                           /\ Lifetime \in Nat \ {0}
                           /\ MaxTime \in Nat
                           /\ MaxSetbacks \in Nat

VARIABLES
    flow,      \* the kind of this card
    now,       \* the clock
    mem,       \* the registry in memory: open and used actions, spent group
    disk,      \* its copy in discord-component-actions.json
    expiry,    \* when the actions registered by the n-th call expire
    session,   \* the session file of the flow, NoSession while absent
    start,     \* the caller: where it stands, its generation, its session
    starts,    \* how many calls there were
    receipt,   \* the delivery receipt of the card
    visible,   \* generations of buttons the user can see
    modals,    \* modal dialogs the user has been shown
    pc,        \* where each click stands
    pressed,   \* the action each click dispatched
    held,      \* the session as the handler of each click read it
    decided,   \* history: the clicks whose decision was carried out
    blind,     \* history: a restart could not read the registry's file
    lost,      \* history: a handler died, or its last write failed
    setbacks   \* how many of the MaxSetbacks have happened

registry == <<mem, disk, expiry>>
caller == <<start, starts>>
clicks == <<pc, pressed, held>>
platform == <<receipt, visible>>
history == <<decided, blind, lost>>
vars == <<flow, now, registry, session, caller, platform, modals, clicks,
          history, setbacks>>

----------------------------------------------------------------------------
(* The buttons of each flow, in the order in which they are registered.    *)

ButtonsOf ==
    [recovery |-> <<"retry", "continue", "close">>,
     plan |-> <<"approve", "edit", "discard">>,
     review |-> <<"submit", "finalize", "change", "cancel">>,
     capacity |-> <<"preferred", "fallback", "cancel">>,
     replies |-> <<"first", "second">>]

Buttons == {"retry", "continue", "close", "approve", "edit", "discard", "submit",
            "finalize", "change", "cancel", "preferred", "fallback", "first",
            "second"}
Refusals == {"close", "discard", "cancel"}
Opening == {"edit", "change"}     \* they show a dialog, whose button is "submit"

\* An action: the call that registered it and its button.
Gens == 1 .. MaxStarts
Ids == Gens \X Buttons

\* registration.consumptionKey: which buttons of a flow spend each other.
Grouped(b) ==
    CASE flow = "replies" -> FALSE
      [] flow = "review" -> b # "change"
      [] flow = "plan" -> b # "submit"
      [] OTHER -> TRUE

\* The card shows the buttons; a modal's button is pressed in its dialog.
Shown(g) == {g} \X {b \in Buttons : b # "submit"
                       /\ \E i \in DOMAIN ButtonsOf[flow] : ButtonsOf[flow][i] = b}

Times == 0 .. MaxTime + Lifetime

NoRegistry == [open |-> {}, used |-> {}, spent |-> 0]
Registries == [open : SUBSET Ids, used : SUBSET Ids, spent : Times]

Resolutions == {"recovered", "failed-again", "closed", "approved", "discarded",
                "revision-requested", "finalized", "cancelled"}
Statuses == {"preparing", "pending", "running"} \cup Resolutions
Sessions == [status : Statuses, gen : {0} \cup Gens, expires : Times]
NoSession == [status |-> "absent"]

NoReceipt == [state |-> "absent"]
Receipts == [state : {"attempting", "delivered", "uncertain"}, gen : Gens]

Places == {"idle", "prepare", "register", "writeIds", "deliver", "post", "settle",
           "confirm"}
ClickPlaces == {"ready", "read", "open", "refuse", "markRunning", "execute",
                "working", "record", "recordFailure", "answered"}

NotStarting == [at |-> "idle", gen |-> 0, own |-> NoSession]

WithSession == {"recovery", "plan", "review"}
WithReceipt == {"recovery", "review"}

Setback == setbacks < MaxSetbacks /\ setbacks' = setbacks + 1

Init ==
    /\ flow \in Flows
    /\ now = 0
    /\ mem = NoRegistry
    /\ disk = NoRegistry
    /\ expiry = [g \in Gens |-> 0]
    /\ session = NoSession
    /\ start = NotStarting
    /\ starts = 0
    /\ receipt = NoReceipt
    /\ visible = {}
    /\ modals = {}
    /\ pc = [c \in Clicks |-> "ready"]
    /\ pressed = [c \in Clicks |-> <<>>]
    /\ held = [c \in Clicks |-> NoSession]
    /\ decided = {}
    /\ blind = FALSE
    /\ lost = FALSE
    /\ setbacks = 0

----------------------------------------------------------------------------
(* The registry.                                                           *)

\* removeExpiredRecords, and what a restart keeps of the file.
Unexpired(r) ==
    LET open == {i \in r.open : expiry[i[1]] > now}
    IN  [open |-> open, used |-> r.used \cap open,
         spent |-> IF r.spent > now THEN r.spent ELSE 0]

\* One consumption group must share expiresAt.
GroupConflict(r, expires) ==
    \E i \in r.open : Grouped(i[2]) /\ expiry[i[1]] # expires

\* Mutant: the spent group is not looked at.
AcceptsSibling(r, i) == i \in r.open /\ expiry[i[1]] > now /\ i \notin r.used

Accepts(r, i) ==
    /\ i \in r.open
    /\ expiry[i[1]] > now
    /\ i \notin r.used
    /\ ~(Grouped(i[2]) /\ r.spent # 0)

Consumed(r, i) ==
    [r EXCEPT !.used = @ \cup {i},
              !.spent = IF Grouped(i[2]) THEN expiry[i[1]] ELSE @]

\* writeComponentActionState: a temporary file and a rename, all or nothing.
Persisted(r) == r

SavesConsumption(i) == Persisted(Consumed(mem, i))

----------------------------------------------------------------------------
(* The caller: start, present, startReview, request.                       *)

At(place) == start' = [start EXCEPT !.at = place]

Fresh == session = NoSession

\* Mutant: a resolved recovery is prepared like a new one.
PreparesAnyRecovery == session = NoSession \/ session.status # "pending"

\* Is a new set of buttons made, or is the session's own set used again?
Prepares ==
    CASE flow = "recovery" ->
            Fresh \/ (session.status = "preparing" /\ session.gen = 0
                      /\ session.expires > now)
      [] flow = "review" -> Fresh \/ session.status \in Resolutions
      [] OTHER -> Fresh

Resumes ==
    /\ flow \in WithReceipt
    /\ ~Fresh
    /\ session.status = "preparing"
    /\ session.gen # 0
    /\ (flow = "recovery" => session.expires > now)

ExpiresAt == now + Lifetime

\* A call that neither prepares nor resumes answers and changes nothing.
Start ==
    /\ start.at = "idle"
    /\ starts < IF flow \in WithReceipt THEN MaxStarts ELSE 1
    /\ starts' = starts + 1
    /\ \/ /\ Prepares
          /\ start' = [at |-> IF flow \in WithSession THEN "prepare" ELSE "register",
                       gen |-> starts',
                       own |-> [status |-> IF flow = "plan" THEN "pending"
                                           ELSE "preparing",
                                gen |-> 0, expires |-> ExpiresAt]]
       \/ /\ ~Prepares
          /\ Resumes
          /\ start' = [at |-> "deliver", gen |-> session.gen, own |-> session]
       \/ ~Prepares /\ ~Resumes /\ UNCHANGED start
    /\ UNCHANGED <<flow, now, registry, session, platform, modals, clicks,
                   history, setbacks>>

WritePrepared ==
    /\ start.at = "prepare"
    /\ session' = start.own
    /\ At("register")
    /\ UNCHANGED <<flow, now, registry, starts, platform, modals, clicks,
                   history, setbacks>>

FirstButtons(g, n) == {<<g, ButtonsOf[flow][i]>> : i \in 1 .. n}
AllButtons == Len(ButtonsOf[flow])

\* The first n buttons are registered, each persisted before the next.
Registering(n) ==
    LET live == Unexpired(mem)
    IN  /\ start.at = "register"
        /\ start.own.expires > now
        /\ ~GroupConflict(live, start.own.expires)
        /\ mem' = [live EXCEPT !.open = @ \cup FirstButtons(start.gen, n)]
        /\ disk' = Persisted(mem')
        /\ expiry' = [expiry EXCEPT ![start.gen] = start.own.expires]

Register ==
    /\ Registering(AllButtons)
    /\ At(IF flow \in WithReceipt THEN "writeIds" ELSE "post")
    /\ UNCHANGED <<flow, now, session, starts, platform, modals, clicks,
                   history, setbacks>>

\* Mutant: the card is posted although a button could not be registered.
AfterHalfRegistration == At("post")

GivesUp == At("idle")

\* A failed write or a full registry: the buttons registered so far remain.
RegisterHalf ==
    /\ Setback
    /\ \E n \in 0 .. AllButtons - 1 : Registering(n)
    /\ GivesUp
    /\ UNCHANGED <<flow, now, session, starts, platform, modals, clicks,
                   history>>

\* The first registration throws: late, or another expiry in the group.
RegisterRefused ==
    /\ start.at = "register"
    /\ \/ start.own.expires <= now
       \/ GroupConflict(Unexpired(mem), start.own.expires)
    /\ mem' = Unexpired(mem)
    /\ disk' = Persisted(mem')
    /\ GivesUp
    /\ UNCHANGED <<flow, now, expiry, session, starts, platform, modals,
                   clicks, history, setbacks>>

WriteIds ==
    /\ start.at = "writeIds"
    /\ session' = [start.own EXCEPT !.gen = start.gen]
    /\ start' = [start EXCEPT !.at = "deliver", !.own = session']
    /\ UNCHANGED <<flow, now, registry, starts, platform, modals, clicks,
                   history, setbacks>>

\* createNeonDeliveryPayloadHash covers the custom ids of the buttons.
SamePayload == receipt.gen = start.gen

\* executeNeonExactlyOnceDelivery up to the send.
Deliver ==
    /\ start.at = "deliver"
    /\ CASE receipt # NoReceipt /\ ~SamePayload ->
                At("idle") /\ UNCHANGED receipt
         [] receipt # NoReceipt /\ SamePayload /\ receipt.state = "delivered" ->
                At("confirm") /\ UNCHANGED receipt
         [] OTHER ->
                /\ receipt' = [state |-> "attempting", gen |-> start.gen]
                /\ At("post")
    /\ UNCHANGED <<flow, now, registry, session, starts, visible, modals,
                   clicks, history, setbacks>>

\* transport.postComponents: from here on the user can press the buttons.
Post ==
    /\ start.at = "post"
    /\ visible' = visible \cup {start.gen}
    /\ At(IF flow \in WithReceipt THEN "settle" ELSE "idle")
    /\ UNCHANGED <<flow, now, registry, session, starts, receipt, modals,
                   clicks, history, setbacks>>

\* The request or its answer is lost.
PostFails ==
    /\ start.at = "post"
    /\ Setback
    /\ visible' \in {visible, visible \cup {start.gen}}
    /\ receipt' = IF flow \in WithReceipt
                  THEN [receipt EXCEPT !.state = "uncertain"] ELSE receipt
    /\ At("idle")
    /\ UNCHANGED <<flow, now, registry, session, starts, modals, clicks,
                   history>>

Settle ==
    /\ start.at = "settle"
    /\ receipt' = [receipt EXCEPT !.state = "delivered"]
    /\ At("confirm")
    /\ UNCHANGED <<flow, now, registry, session, starts, visible, modals,
                   clicks, history, setbacks>>

\* The caller writes the copy of the session it holds, as pending.
WritePending ==
    /\ start.at = "confirm"
    /\ session' = [start.own EXCEPT !.status = "pending"]
    /\ At("idle")
    /\ UNCHANGED <<flow, now, registry, starts, platform, modals, clicks,
                   history, setbacks>>

\* A write of the session or of the receipt, or a preview before it, fails.
StartFails ==
    /\ start.at \in {"prepare", "writeIds", "deliver", "settle", "confirm"}
    /\ Setback
    /\ At("idle")
    /\ UNCHANGED <<flow, now, registry, session, starts, platform, modals,
                   clicks, history>>

Caller == \/ Start \/ WritePrepared \/ Register \/ RegisterHalf \/ RegisterRefused
          \/ WriteIds \/ Deliver \/ Post \/ PostFails \/ Settle \/ WritePending
          \/ StartFails

----------------------------------------------------------------------------
(* A click: dispatch and the flow's handleAction.                          *)

Button(c) == pressed[c][2]
Go(c, place) == pc' = [pc EXCEPT ![c] = place]

\* What the user can press.
Pressable == modals \cup (UNION {Shown(g) : g \in visible})

\* Where the handler of a flow without a session begins.
FirstPlace(b) ==
    IF flow \in WithSession THEN "read"
    ELSE IF b \in Refusals THEN "refuse" ELSE "execute"

\* dispatch up to the handler, synchronous: the consumption is saved first.
Dispatch(c, i) ==
    /\ pc[c] = "ready"
    /\ i \in Pressable
    /\ Accepts(mem, i)
    /\ mem' = Consumed(mem, i)
    /\ disk' = SavesConsumption(i)
    /\ pressed' = [pressed EXCEPT ![c] = i]
    /\ Go(c, FirstPlace(i[2]))
    /\ UNCHANGED <<flow, now, expiry, session, caller, platform, modals, held,
                   history, setbacks>>

\* The consumption cannot be saved: it is undone, the click is answered.
DispatchFails(c, i) ==
    /\ pc[c] = "ready"
    /\ i \in Pressable
    /\ Accepts(mem, i)
    /\ Setback
    /\ Go(c, "answered")
    /\ UNCHANGED <<flow, now, registry, session, caller, platform, modals,
                   pressed, held, history>>

\* The session is still pending and has not expired.
IsOpen == session # NoSession /\ session.status = "pending" /\ session.expires > now

NextPlace(b) ==
    CASE b \in Refusals -> "refuse"
      [] b \in Opening -> "open"
      [] b \in {"retry", "continue"} -> "markRunning"
      [] OTHER -> "execute"

\* The read of the session file and the checks on it.
ReadSession(c) ==
    /\ pc[c] = "read"
    /\ held' = [held EXCEPT ![c] = session]
    /\ Go(c, IF IsOpen THEN NextPlace(Button(c)) ELSE "answered")
    /\ UNCHANGED <<flow, now, registry, session, caller, platform, modals,
                   pressed, history, setbacks>>

\* The dialog: a plan's is registered now, a review's was with the card.
OpenModal(c) ==
    LET g == pressed[c][1]
        live == Unexpired(mem)
    IN  /\ pc[c] = "open"
        /\ IF flow = "plan"
           THEN /\ mem' = IF expiry[g] > now
                          THEN [live EXCEPT !.open = @ \cup {<<g, "submit">>}]
                          ELSE live
                /\ disk' = Persisted(mem')
                /\ modals' = IF expiry[g] > now THEN modals \cup {<<g, "submit">>}
                             ELSE modals
           ELSE /\ modals' = modals \cup {<<g, "submit">>}
                /\ UNCHANGED <<mem, disk>>
        /\ Go(c, "answered")
        /\ UNCHANGED <<flow, now, expiry, session, caller, platform, pressed,
                       held, history, setbacks>>

\* Each handler writes the session it read with another status.
Mark(c, status) == session' = [held[c] EXCEPT !.status = status]

RefusedAs == [recovery |-> "closed", plan |-> "discarded", review |-> "cancelled"]

Refuse(c) ==
    /\ pc[c] = "refuse"
    /\ decided' = decided \cup {c}
    /\ IF flow \in WithSession THEN Mark(c, RefusedAs[flow]) ELSE UNCHANGED session
    /\ Go(c, "answered")
    /\ UNCHANGED <<flow, now, registry, caller, platform, modals, pressed,
                   held, blind, lost, setbacks>>

\* The failed run is still there; the session says that it is being recovered.
MarkRunning(c) ==
    /\ pc[c] = "markRunning"
    /\ Mark(c, "running")
    /\ Go(c, "execute")
    /\ UNCHANGED <<flow, now, registry, caller, platform, modals, pressed,
                   held, history, setbacks>>

\* execute, approve, requestRevision, the final delivery: the work begins.
Execute(c) ==
    /\ pc[c] = "execute"
    /\ decided' = decided \cup {c}
    /\ Go(c, "working")
    /\ UNCHANGED <<flow, now, registry, session, caller, platform, modals,
                   pressed, held, blind, lost, setbacks>>

\* Mutant: a failed recovery is not recorded.
AnswersWithoutRecord == "answered"

\* The catch of a recovery records the failure, the other flows only throw.
AfterFailedWork == IF flow = "recovery" THEN "recordFailure" ELSE "answered"

\* It does not begin: no announcement, no source run, the artifacts changed.
ExecuteFails(c) ==
    /\ pc[c] = "execute"
    /\ Setback
    /\ Go(c, AfterFailedWork)
    /\ UNCHANGED <<flow, now, registry, session, caller, platform, modals,
                   pressed, held, history>>

WorkEnds(c) ==
    /\ pc[c] = "working"
    /\ Go(c, IF flow \in WithSession THEN "record" ELSE "answered")
    /\ UNCHANGED <<flow, now, registry, session, caller, platform, modals,
                   pressed, held, history, setbacks>>

\* The work throws, or a recovery's new run does not complete.
WorkFails(c) ==
    /\ pc[c] = "working"
    /\ Setback
    /\ Go(c, AfterFailedWork)
    /\ UNCHANGED <<flow, now, registry, session, caller, platform, modals,
                   pressed, held, history>>

DoneAs(b) ==
    CASE b \in {"retry", "continue"} -> "recovered"
      [] b = "approve" -> "approved"
      [] b = "submit" -> "revision-requested"
      [] OTHER -> "finalized"

Record(c) ==
    /\ pc[c] = "record"
    /\ Mark(c, DoneAs(Button(c)))
    /\ Go(c, "answered")
    /\ UNCHANGED <<flow, now, registry, caller, platform, modals, pressed,
                   held, history, setbacks>>

RecordFailure(c) ==
    /\ pc[c] = "recordFailure"
    /\ Mark(c, "failed-again")
    /\ Go(c, "answered")
    /\ UNCHANGED <<flow, now, registry, caller, platform, modals, pressed,
                   held, history, setbacks>>

\* A write fails; that of a recovery's result is inside the try block.  A plan's
\* dialog is not opened when its button cannot be registered.
HandlerWriteFails(c) ==
    /\ pc[c] \in {"refuse", "markRunning", "record", "recordFailure", "open"}
    /\ pc[c] = "open" => flow = "plan"
    /\ flow \in WithSession
    /\ Setback
    /\ Go(c, IF pc[c] = "record" THEN AfterFailedWork ELSE "answered")
    /\ lost' = (lost \/ pc[c] = "recordFailure")
    /\ UNCHANGED <<flow, now, registry, session, caller, platform, modals,
                   pressed, held, decided, blind>>

Handler(c) ==
    \/ ReadSession(c) \/ OpenModal(c) \/ Refuse(c) \/ MarkRunning(c) \/ Execute(c)
    \/ WorkEnds(c) \/ Record(c) \/ RecordFailure(c)

Click(c) ==
    \/ \E i \in Ids : Dispatch(c, i) \/ DispatchFails(c, i)
    \/ Handler(c)
    \/ ExecuteFails(c)
    \/ WorkFails(c)
    \/ HandlerWriteFails(c)

----------------------------------------------------------------------------
(* Time, and the process.                                                  *)

Tick ==
    /\ now < MaxTime
    /\ now' = now + 1
    /\ UNCHANGED <<flow, registry, session, caller, platform, modals, clicks,
                   history, setbacks>>

\* The process dies and comes back with the registry of the file, if readable.
Restart(readable) ==
    /\ Setback
    /\ mem' = IF readable THEN Unexpired(disk) ELSE NoRegistry
    /\ disk' = Persisted(mem')
    /\ start' = NotStarting
    /\ pc' = [c \in Clicks |-> IF pc[c] = "ready" THEN "ready" ELSE "answered"]
    /\ blind' = (blind \/ ~readable)
    /\ lost' = (lost \/ \E c \in Clicks : pc[c] \notin {"ready", "answered"})
    /\ UNCHANGED <<flow, now, expiry, session, starts, platform, modals,
                   pressed, held, decided>>

Next ==
    \/ Caller
    \/ \E c \in Clicks : Click(c)
    \/ Tick
    \/ \E readable \in BOOLEAN : Restart(readable)

\* A handler that has begun goes on: nothing but a crash stops it.
Spec == Init /\ [][Next]_vars /\ \A c \in Clicks : WF_vars(Handler(c))

----------------------------------------------------------------------------
(* What must hold.                                                         *)

\* Every variable has its type; the registry holds actions of these calls,
\* the session file is absent or well-formed (their parsers' checks).
TypeOK ==
    /\ flow \in Flows
    /\ now \in 0 .. MaxTime
    /\ mem \in Registries
    /\ disk \in Registries
    /\ expiry \in [Gens -> Times]
    /\ session \in Sessions \cup {NoSession}
    /\ start \in [at : Places, gen : {0} \cup Gens, own : Sessions \cup {NoSession}]
    /\ starts \in 0 .. MaxStarts
    /\ receipt \in Receipts \cup {NoReceipt}
    /\ visible \subseteq Gens
    /\ modals \subseteq Ids
    /\ pc \in [Clicks -> ClickPlaces]
    /\ pressed \in [Clicks -> Ids \cup {<<>>}]
    /\ held \in [Clicks -> Sessions \cup {NoSession}]
    /\ decided \subseteq Clicks
    /\ blind \in BOOLEAN
    /\ lost \in BOOLEAN
    /\ setbacks \in 0 .. MaxSetbacks

\* However clicks race with each other, with the caller and with restarts,
\* whatever write fails and however often the card is posted, at most one
\* decision of a card is carried out; a quick reply is, at most once each.
OneDecision ==
    \A c, d \in decided :
        c # d => flow = "replies" /\ pressed[c] # pressed[d]

\* Crash consistency of dispatch: once the handler of a click may run, the
\* file knows that its button, and its group, are spent until they expire, so
\* that no restart, unless it cannot read the file, makes them work again.
SpentOnDisk ==
    \A c \in Clicks :
        LET i == pressed[c]
        IN  i # <<>> /\ ~blind /\ expiry[i[1]] > now =>
            /\ i \in disk.used
            /\ Grouped(i[2]) => disk.spent # 0

\* A card the user can see is backed by all its buttons, in memory and in the
\* file, until they expire: no half registration, failed write or restart
\* (that can read the file) leaves a visible button that nobody knows.
VisibleButtonsRegistered ==
    \A i \in Pressable :
        ~blind /\ expiry[i[1]] > now => i \in mem.open /\ i \in disk.open

\* What was decided stays decided: neither a caller nor another handler that
\* read the session before writes over it.  A review is reopened by a new call.
ResolvedStays ==
    [][session.status \in Resolutions =>
          \/ session'.status = session.status
          \/ flow = "review" /\ WritePrepared]_session

\* A recovery never stays "running": its result or its failure is recorded,
\* unless the process dies or even the failure cannot be written.
RunningIsResolved ==
    session.status = "running" ~> (session.status \in Resolutions \/ lost)

=============================================================================
