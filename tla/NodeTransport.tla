--------------------------- MODULE NodeTransport ---------------------------
(***************************************************************************)
(* How an approved action reaches a paired node and how its result comes   *)
(* back (src/nodes): the requests, approvals and previews an operator      *)
(* records, the dispatches the gateway derives from them at every poll,    *)
(* the runner that polls, executes them and submits results, and the       *)
(* gateway's ingestion of a result.                                        *)
(*                                                                         *)
(* Requests, approvals, previews and results are append-only files that     *)
(* every handler reads anew; a dispatch is not stored, it is ready as long *)
(* as its approval has neither preview nor result and the session lives.   *)
(* The runner names what it has seen by a cursor, a hash of the ready and  *)
(* the answered dispatches, and keeps it in its health file.  One session, *)
(* one operator, whose calls do not overlap; the runner processes and the  *)
(* gateway run concurrently, die and come back.                            *)
(*                                                                         *)
(* Abstracted: what an action reads and answers (a blocked result is        *)
(* ingested like any other), the hash of the cursor, health totals, the     *)
(* order of the dispatches of one poll, the other sessions.                *)
(***************************************************************************)
EXTENDS Naturals, FiniteSets

CONSTANTS
    Requests,     \* actions an operator may ask for
    Runners,      \* processes that run the runner's loop
    Posts,        \* bound: submissions the gateway handles at a time
    MaxSetbacks   \* bound: failed polls and writes, crashes

ASSUME SetbacksAssumption == MaxSetbacks \in Nat

VARIABLES
    request,     \* the record of each request
    verdict,     \* the approval record of each request
    previewed,   \* requests whose approval has a result preview
    results,     \* how many results were ingested for each request
    session,     \* the device session of the node
    control,     \* desiredState in node-runner-control.json
    saved,       \* the cursor in node-runner-health.json
    runner,      \* each runner: where it stands, its cursor, what is left
    posts,       \* the submissions in the gateway
    refused,     \* history: dispatches whose submission was not accepted
    raced,       \* history: results appended while another one was about to be
    setbacks     \* how many of the MaxSetbacks have happened

operator == <<request, verdict, previewed, control>>
gateway == <<results, posts, raced>>
vars == <<operator, gateway, session, saved, runner, refused, setbacks>>

----------------------------------------------------------------------------

Places == {"off", "dead", "poll", "work", "wait", "save", "control"}

NoCursor == [ready |-> {}, done |-> {}, some |-> FALSE]
Cursors == [ready : SUBSET Requests, done : SUBSET Requests, some : BOOLEAN]

NoPost == [at |-> "free"]
PostPlaces == {"snapshot", "check", "append", "accepted", "refused"}

\* A runner that was stopped, and one that failed.
Off == [at |-> "off", cursor |-> NoCursor, next |-> NoCursor, todo |-> {}]
Dead == [Off EXCEPT !.at = "dead"]

Setback == setbacks < MaxSetbacks /\ setbacks' = setbacks + 1

\* Requests that the gateway makes dispatches of; of these the runner's parser
\* does not know the kind dir.fetch.
Carried == {"safe", "unparsed"}

\* createNeonNodeTransportSnapshot: what is ready to be dispatched.
Ready ==
    {r \in Requests :
        /\ session = "active"
        /\ verdict[r] = "approve"
        /\ request[r] \in Carried
        /\ r \notin previewed
        /\ results[r] = 0}

Answered == {r \in Requests : results[r] > 0}

\* createTransportPollCursor
Cursor == [ready |-> Ready, done |-> Answered, some |-> TRUE]

Init ==
    /\ request = [r \in Requests |-> "none"]
    /\ verdict = [r \in Requests |-> "none"]
    /\ previewed = {}
    /\ results = [r \in Requests |-> 0]
    /\ session = "active"
    /\ control = "stopped"
    /\ saved = NoCursor
    /\ runner = [n \in Runners |-> Off]
    /\ posts = [p \in Posts |-> NoPost]
    /\ refused = {}
    /\ raced = {}
    /\ setbacks = 0

----------------------------------------------------------------------------
(* The operator, and the session's lifetime.                               *)

\* A request is blocked by its kind or scope; one that waits for approval may
\* still be of a kind, or have a target, that transport does not carry.
Ask(r) ==
    /\ session = "active"
    /\ request[r] = "none"
    /\ \E state \in {"blocked", "unsafe"} \cup Carried :
          request' = [request EXCEPT ![r] = state]
    /\ UNCHANGED <<verdict, previewed, control, gateway, session, saved, runner,
                   refused, setbacks>>

Decide(r) ==
    /\ request[r] \in {"unsafe"} \cup Carried
    /\ verdict[r] = "none"
    /\ \E decision \in {"approve", "reject"} :
          verdict' = [verdict EXCEPT ![r] = decision]
    /\ UNCHANGED <<request, previewed, control, gateway, session, saved, runner,
                   refused, setbacks>>

\* The operator has the result materialised locally instead.
Preview(r) ==
    /\ verdict[r] # "none"
    /\ r \notin previewed
    /\ previewed' = previewed \cup {r}
    /\ UNCHANGED <<request, verdict, control, gateway, session, saved, runner,
                   refused, setbacks>>

SetControl(desired) ==
    /\ control' = desired
    /\ UNCHANGED <<request, verdict, previewed, gateway, session, saved, runner,
                   refused, setbacks>>

Expire ==
    /\ session = "active"
    /\ session' = "expired"
    /\ UNCHANGED <<operator, gateway, saved, runner, refused, setbacks>>

----------------------------------------------------------------------------
(* The runner's loop: runNeonNodeRunnerLoop and runNeonNodeRunnerOnce.     *)

At(n, place) == runner' = [runner EXCEPT ![n].at = place]

\* Stopped, it writes back what it read of the health file and ends well.
Begin(n) ==
    /\ runner[n].at \in {"off", "dead"}
    /\ runner' = [runner EXCEPT ![n] =
                     IF control = "running"
                     THEN [Off EXCEPT !.at = "poll", !.cursor = saved] ELSE Off]
    /\ UNCHANGED <<operator, gateway, session, saved, refused, setbacks>>

\* parseRunnerPollResponse: what it cannot parse is dropped without a word.
Parsed(dispatches) == {r \in dispatches : request[r] = "safe"}

\* recordNeonNodeTransportPoll: nothing is handed out for the cursor of now.
Poll(n) ==
    /\ runner[n].at = "poll"
    /\ session = "active"
    /\ LET handed == IF runner[n].cursor = Cursor THEN {} ELSE Ready
           todo == Parsed(handed)
       IN  runner' = [runner EXCEPT
               ![n].at = IF todo = {} THEN "save" ELSE "work",
               ![n].next = Cursor,
               ![n].todo = todo]
    /\ UNCHANGED <<operator, gateway, session, saved, refused, setbacks>>

\* The answer is not 200: the session is over, or the gateway failed.
PollBlocked(n) ==
    /\ runner[n].at = "poll"
    /\ \/ session = "expired" /\ UNCHANGED setbacks
       \/ session = "active" /\ Setback
    /\ runner' = [runner EXCEPT ![n].at = "save", ![n].next = runner[n].cursor]
    /\ UNCHANGED <<operator, gateway, session, saved, refused>>

\* executeNeonNodeRunnerDispatch, and the result is on its way.
Submit(n, r, p) ==
    /\ runner[n].at = "work"
    /\ r \in runner[n].todo
    /\ posts[p] = NoPost
    /\ posts' = [posts EXCEPT ![p] = [at |-> "snapshot", of |-> r, by |-> {n}]]
    /\ runner' = [runner EXCEPT ![n].at = "wait", ![n].todo = @ \ {r}]
    /\ UNCHANGED <<operator, results, raced, session, saved, refused, setbacks>>

\* The status of the answer is only reported; the next dispatch follows.
Hear(n, p) ==
    /\ runner[n].at = "wait"
    /\ posts[p].at \in {"accepted", "refused"}
    /\ n \in posts[p].by
    /\ refused' = IF posts[p].at = "refused" THEN refused \cup {posts[p].of}
                  ELSE refused
    /\ At(n, IF runner[n].todo = {} THEN "save" ELSE "work")
    /\ posts' = [posts EXCEPT ![p] = NoPost]
    /\ UNCHANGED <<operator, results, raced, session, saved, setbacks>>

\* The cursor is kept only after all dispatches of the poll were submitted.
Save(n) ==
    /\ runner[n].at = "save"
    /\ saved' = runner[n].next
    /\ runner' = [runner EXCEPT ![n].at = "control", ![n].cursor = runner[n].next]
    /\ UNCHANGED <<operator, gateway, session, refused, setbacks>>

ReadControl(n) ==
    /\ runner[n].at = "control"
    /\ runner' = [runner EXCEPT ![n] =
                     IF control = "running" THEN [@ EXCEPT !.at = "poll"] ELSE Off]
    /\ UNCHANGED <<operator, gateway, session, saved, refused, setbacks>>

\* The launch agent (KeepAlive, SuccessfulExit false) restarts a runner that
\* failed; one that was stopped is started again by the operator, or never.
Loop(n) ==
    \/ runner[n].at = "dead" /\ Begin(n)
    \/ Poll(n)
    \/ session = "expired" /\ PollBlocked(n)
    \/ \E r \in Requests, p \in Posts : Submit(n, r, p)
    \/ \E p \in Posts : Hear(n, p)
    \/ Save(n)
    \/ ReadControl(n)

\* Nobody waits for the submissions of runners that died.
Orphaned(dead) ==
    [p \in Posts |->
        IF posts[p] = NoPost THEN NoPost
        ELSE IF posts[p].at \in {"accepted", "refused"} /\ posts[p].by \subseteq dead
        THEN NoPost
        ELSE [posts[p] EXCEPT !.by = @ \ dead]]

\* Mutant: the loop saves its health in a finally block.
SavesWhenItDies(n) == IF runner[n].at \in {"work", "wait"} THEN runner[n].next ELSE saved

HealthAfterDeath(n) == saved

\* A fetch or a file operation throws, or the process is killed.
Die(n) ==
    /\ runner[n].at \notin {"off", "dead"}
    /\ Setback
    /\ saved' = HealthAfterDeath(n)
    /\ runner' = [runner EXCEPT ![n] = Dead]
    /\ posts' = Orphaned({n})
    /\ UNCHANGED <<operator, results, raced, session, refused>>

----------------------------------------------------------------------------
(* The gateway: handleNeonNodeTransportResultSubmit and                    *)
(* recordNeonNodeTransportResult.                                          *)

\* Mutant: the handler returns without an answer.
NeverAnswers(p, place) == posts' = [posts EXCEPT ![p] = NoPost]

\* An answer that nobody waits for is gone.
Answer(p, place) ==
    posts' = [posts EXCEPT ![p] = IF @.by = {} THEN NoPost ELSE [@ EXCEPT !.at = place]]

\* The session and the snapshot are read; a dispatch that is not ready will be
\* refused after the check for duplicates, which changes nothing either.
Snapshot(p) ==
    /\ posts[p].at = "snapshot"
    /\ IF posts[p].of \in Ready
       THEN posts' = [posts EXCEPT ![p].at = "check"]
       ELSE Answer(p, "refused")
    /\ UNCHANGED <<operator, results, raced, session, saved, runner, refused,
                   setbacks>>

\* Mutant: the snapshot is trusted, the results are not read again.
NeverDuplicate(r) == FALSE

IsDuplicate(r) == results[r] > 0

Check(p) ==
    /\ posts[p].at = "check"
    /\ IF IsDuplicate(posts[p].of)
       THEN Answer(p, "refused")
       ELSE posts' = [posts EXCEPT ![p].at = "append"]
    /\ UNCHANGED <<operator, results, raced, session, saved, runner, refused,
                   setbacks>>

Append(p) ==
    /\ posts[p].at = "append"
    /\ LET r == posts[p].of
       IN  /\ results' = [results EXCEPT ![r] = @ + 1]
           /\ raced' = IF \E q \in Posts \ {p} :
                             posts[q].at = "append" /\ posts[q].of = r
                       THEN raced \cup {r} ELSE raced
    /\ Answer(p, "accepted")
    /\ UNCHANGED <<operator, session, saved, runner, refused, setbacks>>

Handle(p) == Snapshot(p) \/ Check(p) \/ Append(p)

\* A read or the append throws: the answer is 400 or 500.
HandleFails(p) ==
    /\ posts[p].at \in {"snapshot", "check", "append"}
    /\ Setback
    /\ Answer(p, "refused")
    /\ UNCHANGED <<operator, results, raced, session, saved, runner, refused>>

\* The gateway dies: whoever waits for an answer dies of the failed fetch.
GatewayDies ==
    /\ Setback
    /\ posts' = [p \in Posts |-> NoPost]
    /\ runner' = [n \in Runners |-> IF runner[n].at = "wait" THEN Dead ELSE runner[n]]
    /\ UNCHANGED <<operator, results, raced, session, saved, refused>>

----------------------------------------------------------------------------

Next ==
    \/ \E r \in Requests : Ask(r) \/ Decide(r) \/ Preview(r)
    \/ \E desired \in {"running", "stopped"} : SetControl(desired)
    \/ Expire
    \/ \E n \in Runners : Begin(n) \/ Loop(n) \/ PollBlocked(n) \/ Die(n)
    \/ \E p \in Posts : Handle(p) \/ HandleFails(p)
    \/ GatewayDies

\* A runner goes on and is restarted after a failure; the gateway goes on
\* handling what was submitted.
Spec ==
    /\ Init
    /\ [][Next]_vars
    /\ \A n \in Runners : WF_vars(Loop(n))
    /\ \A p \in Posts : WF_vars(Handle(p))

----------------------------------------------------------------------------
(* What must hold.                                                         *)

\* Every variable has its type: the files hold the records their parsers
\* accept, and a post that is handled knows who, if anybody, waits for it.
TypeOK ==
    /\ request \in [Requests -> {"none", "blocked", "unsafe"} \cup Carried]
    /\ verdict \in [Requests -> {"none", "approve", "reject"}]
    /\ previewed \subseteq Requests
    /\ results \in [Requests -> Nat]
    /\ session \in {"active", "expired"}
    /\ control \in {"running", "stopped"}
    /\ saved \in Cursors
    /\ runner \in [Runners -> [at : Places, cursor : Cursors, next : Cursors,
                               todo : SUBSET Requests]]
    /\ posts \in [Posts -> {NoPost} \cup
                    [at : PostPlaces, of : Requests, by : SUBSET Runners]]
    /\ refused \subseteq Requests
    /\ raced \subseteq Requests
    /\ setbacks \in 0 .. MaxSetbacks

\* A poll answered "cursor-hit" hides nothing that the runner can parse and has not
\* worked on: when a runner's cursor, or the one a restarted runner will read, is
\* the cursor of now, every such dispatch was submitted once and the gateway
\* refused it, however runners and gateway die between poll, execution, submission
\* and the write of the cursor.  An approved dir.fetch is hidden all the same: the
\* runner drops it unseen and keeps the cursor that names it.
NoneSkipped ==
    /\ saved = Cursor => Parsed(Ready) \subseteq refused
    /\ \A n \in Runners :
          runner[n].at \in {"poll", "control"} /\ runner[n].cursor = Cursor =>
              Parsed(Ready) \subseteq refused

\* The result of an approved action is ingested at most once, restarted runners
\* and stale snapshots notwithstanding; nothing else is ever ingested.  The one
\* window left is between the check for a duplicate and the append.
AnsweredOnce ==
    \A r \in Answered :
        /\ verdict[r] = "approve" /\ request[r] \in Carried
        /\ results[r] > 1 => r \in raced

\* Once a runner runs, an approved action that it can parse is answered in the end,
\* through every crash of runner and gateway, if the runner is wanted, the session
\* lives and the gateway does not refuse the result: such a result is not submitted
\* again while the cursor stays the same.  An approved dir.fetch is never answered.
ApprovedIsAnswered ==
    \A r \in Requests :
        r \in Parsed(Ready) /\ (\E n \in Runners : runner[n].at # "off") ~>
            (r \notin Ready \/ r \in refused \/ control = "stopped")

=============================================================================
