----------------------- MODULE NodeTransportProofs -----------------------
(***************************************************************************)
(* Theorems about NodeTransport, for any requests, runners and bounds: no   *)
(* approved action that the runner can parse is skipped, none is answered   *)
(* twice.                                                                   *)
(***************************************************************************)
EXTENDS NodeTransport, TLAPS

Post == [at : PostPlaces, of : Requests, by : SUBSET Runners]
InHands == {"snapshot", "check", "append"}

\* What a runner that polled now would work on.
Due == Parsed(Ready)

\* Once ready, a dispatch was approved for good.
Approved(r) == verdict[r] = "approve" /\ request[r] \in Carried

\* r is on its way for n.
OnItsWay(n, r) ==
    /\ runner[n].at = "wait"
    /\ \E p \in Posts : posts[p] # NoPost /\ n \in posts[p].by /\ posts[p].of = r

\* What a cursor says is ready, and still is, has been worked on.
Worked(cursor) == \A r \in cursor.ready : Approved(r) /\ (r \in Due => r \in refused)

\* A runner waits for exactly one submission, and no other runner for that one.
OneSubmission ==
    \A p, q \in Posts, n \in Runners :
        posts[p] # NoPost /\ n \in posts[p].by =>
            /\ runner[n].at = "wait" /\ posts[p].by \subseteq {n}
            /\ posts[q] # NoPost /\ n \in posts[q].by => p = q

\* Each dispatch of a poll is done, on its way, or still to do.
Progress ==
    /\ Worked(saved)
    /\ \A n \in Runners :
          /\ Worked(runner[n].cursor)
          /\ runner[n].at = "save" => Worked(runner[n].next)
          /\ runner[n].at \in {"work", "wait"} =>
                \A r \in runner[n].next.ready :
                    /\ Approved(r)
                    /\ r \in Due =>
                          r \in refused \/ r \in runner[n].todo \/ OnItsWay(n, r)

\* What is answered was approved; an answer that is about to be appended is the
\* first one, or another one was appended meanwhile.
Ingested ==
    /\ \A p \in Posts :
          /\ posts[p].at \in {"check", "append"} => Approved(posts[p].of)
          /\ posts[p].at = "append" /\ results[posts[p].of] > 0 => posts[p].of \in raced
          /\ posts[p].at = "accepted" => results[posts[p].of] > 0
    /\ AnsweredOnce

IInv == TypeOK /\ OneSubmission /\ Progress /\ Ingested

----------------------------------------------------------------------------

LEMMA InitInv == Init => IInv
<1> SUFFICES ASSUME Init PROVE IInv
  OBVIOUS
<1>1. TypeOK
  <2>1. saved \in Cursors /\ NoCursor \in Cursors
    BY DEF Init, NoCursor, Cursors
  <2>2. runner \in [Runners -> [at : Places, cursor : Cursors, next : Cursors,
                                todo : SUBSET Requests]]
    BY <2>1 DEF Init, Off, Places
  <2>3. setbacks \in 0 .. MaxSetbacks
    BY SetbacksAssumption DEF Init
  <2> QED
    BY <2>1, <2>2, <2>3 DEF Init, TypeOK
<1>2. OneSubmission
  BY DEF Init, OneSubmission
<1>3. Progress
  BY DEF Init, Progress, Worked, NoCursor, Off
<1>4. Ingested
  BY DEF Init, Ingested, AnsweredOnce, Answered, NoPost
<1> QED
  BY <1>1, <1>2, <1>3, <1>4 DEF IInv

----------------------------------------------------------------------------
(* Submissions.                                                            *)

LEMMA AnswerFacts ==
    ASSUME TypeOK, NEW p \in Posts, posts[p].at \in InHands,
           NEW place \in {"accepted", "refused"}, Answer(p, place)
    PROVE  /\ posts' \in [Posts -> {NoPost} \cup Post]
           /\ \A q \in Posts \ {p} : posts'[q] = posts[q]
           /\ posts[p] \in Post
           /\ \/ posts[p].by = {} /\ posts'[p] = NoPost
              \/ /\ posts'[p] \in Post /\ posts'[p].at = place
                 /\ posts'[p].of = posts[p].of /\ posts'[p].by = posts[p].by
<1>1. posts \in [Posts -> {NoPost} \cup Post] /\ posts[p] # NoPost
  BY DEF TypeOK, Post, NoPost, InHands
<1>2. posts[p] \in Post
  BY <1>1
<1>3. CASE posts[p].by = {}
  <2>1. posts' = [posts EXCEPT ![p] = NoPost]
    BY <1>3 DEF Answer
  <2> QED
    BY <1>1, <1>2, <1>3, <2>1
<1>4. CASE posts[p].by # {}
  <2>1. posts' = [posts EXCEPT ![p] = [posts[p] EXCEPT !.at = place]]
    BY <1>1, <1>4 DEF Answer
  <2>2. [posts[p] EXCEPT !.at = place] =
           [at |-> place, of |-> posts[p].of, by |-> posts[p].by]
    BY <1>2 DEF Post
  <2>3. [at |-> place, of |-> posts[p].of, by |-> posts[p].by] \in Post
    BY <1>2 DEF Post, PostPlaces
  <2>4. posts'[p] = [at |-> place, of |-> posts[p].of, by |-> posts[p].by]
    BY <1>1, <2>1, <2>2
  <2>5. \A q \in Posts \ {p} : posts'[q] = posts[q]
    BY <1>1, <2>1
  <2>6. posts' \in [Posts -> {NoPost} \cup Post]
    BY <1>1, <2>1, <2>2, <2>3
  <2> QED
    BY <1>2, <2>3, <2>4, <2>5, <2>6
<1> QED
  BY <1>3, <1>4

\* A submission that moves on in the gateway.
LEMMA MoveFacts ==
    ASSUME TypeOK, NEW p \in Posts, posts[p].at \in InHands, NEW place \in PostPlaces,
           posts' = [posts EXCEPT ![p].at = place]
    PROVE  /\ posts' \in [Posts -> {NoPost} \cup Post]
           /\ \A q \in Posts \ {p} : posts'[q] = posts[q]
           /\ posts[p] \in Post
           /\ posts'[p] \in Post /\ posts'[p].at = place
           /\ posts'[p].of = posts[p].of /\ posts'[p].by = posts[p].by
<1>1. posts \in [Posts -> {NoPost} \cup Post] /\ posts[p] # NoPost
  BY DEF TypeOK, Post, NoPost, InHands
<1>2. posts[p] \in Post
  BY <1>1
<1>3. posts' = [posts EXCEPT ![p] = [posts[p] EXCEPT !.at = place]]
  BY <1>1
<1>4. [posts[p] EXCEPT !.at = place] =
         [at |-> place, of |-> posts[p].of, by |-> posts[p].by]
  BY <1>2 DEF Post
<1>5. [at |-> place, of |-> posts[p].of, by |-> posts[p].by] \in Post
  BY <1>2 DEF Post, PostPlaces
<1>6. posts'[p] = [at |-> place, of |-> posts[p].of, by |-> posts[p].by]
  BY <1>1, <1>3, <1>4
<1>7. \A q \in Posts \ {p} : posts'[q] = posts[q]
  BY <1>1, <1>3
<1>8. posts' \in [Posts -> {NoPost} \cup Post]
  BY <1>1, <1>3, <1>4, <1>5
<1> QED
  BY <1>2, <1>5, <1>6, <1>7, <1>8

\* The gateway's steps on a submission.
LEMMA HandleFacts ==
    ASSUME TypeOK, NEW p \in Posts, Handle(p) \/ HandleFails(p)
    PROVE  /\ posts' \in [Posts -> {NoPost} \cup Post]
           /\ \A q \in Posts \ {p} : posts'[q] = posts[q]
           /\ posts[p] \in Post
           /\ \/ posts[p].by = {} /\ posts'[p] = NoPost
              \/ posts'[p] \in Post /\ posts'[p].of = posts[p].of
                                    /\ posts'[p].by = posts[p].by
<1>1. posts[p].at \in InHands
  BY DEF Handle, Snapshot, Check, Append, HandleFails, InHands
<1>2. \/ \E place \in PostPlaces : posts' = [posts EXCEPT ![p].at = place]
      \/ \E place \in {"accepted", "refused"} : Answer(p, place)
  BY DEF Handle, Snapshot, Check, Append, HandleFails, PostPlaces
<1>3. CASE \E place \in PostPlaces : posts' = [posts EXCEPT ![p].at = place]
  <2>1. PICK place \in PostPlaces : posts' = [posts EXCEPT ![p].at = place]
    BY <1>3
  <2>2. /\ posts' \in [Posts -> {NoPost} \cup Post] /\ posts[p] \in Post
        /\ \A q \in Posts \ {p} : posts'[q] = posts[q]
        /\ posts'[p] \in Post
        /\ posts'[p].of = posts[p].of /\ posts'[p].by = posts[p].by
    BY <1>1, <2>1, MoveFacts
  <2> QED
    BY <2>2
<1>4. CASE \E place \in {"accepted", "refused"} : Answer(p, place)
  <2>1. PICK place \in {"accepted", "refused"} : Answer(p, place)
    BY <1>4
  <2>2. /\ posts' \in [Posts -> {NoPost} \cup Post] /\ posts[p] \in Post
        /\ \A q \in Posts \ {p} : posts'[q] = posts[q]
        /\ \/ posts[p].by = {} /\ posts'[p] = NoPost
           \/ posts'[p] \in Post /\ posts'[p].of = posts[p].of
                                 /\ posts'[p].by = posts[p].by
    BY <1>1, <2>1, AnswerFacts
  <2> QED
    BY <2>2
<1> QED
  BY <1>2, <1>3, <1>4

LEMMA OrphanedFacts ==
    ASSUME TypeOK, NEW dead \in SUBSET Runners, posts' = Orphaned(dead)
    PROVE  /\ posts' \in [Posts -> {NoPost} \cup Post]
           /\ \A p \in Posts : posts'[p] # NoPost =>
                  /\ posts[p] # NoPost /\ posts[p] \in Post
                  /\ posts'[p] \in Post /\ posts'[p].at = posts[p].at
                  /\ posts'[p].of = posts[p].of /\ posts'[p].by = posts[p].by \ dead
           /\ \A p \in Posts : posts[p] # NoPost /\ ~(posts[p].by \subseteq dead) =>
                  posts'[p] # NoPost
<1>1. posts \in [Posts -> {NoPost} \cup Post]
  BY DEF TypeOK, Post
<1>2. ASSUME NEW x \in Post
      PROVE  /\ [x EXCEPT !.by = @ \ dead] =
                   [at |-> x.at, of |-> x.of, by |-> x.by \ dead]
             /\ [at |-> x.at, of |-> x.of, by |-> x.by \ dead] \in Post
             /\ [at |-> x.at, of |-> x.of, by |-> x.by \ dead].at # "free"
  BY DEF Post, PostPlaces
<1>3. \A p \in Posts : posts'[p] =
        IF posts[p] = NoPost THEN NoPost
        ELSE IF posts[p].at \in {"accepted", "refused"} /\ posts[p].by \subseteq dead
        THEN NoPost
        ELSE [posts[p] EXCEPT !.by = @ \ dead]
  BY DEF Orphaned
<1>4. \A p \in Posts : posts[p] # NoPost => posts[p] \in Post
  BY <1>1
<1>5. ASSUME NEW p \in Posts, posts[p] # NoPost,
             ~(posts[p].at \in {"accepted", "refused"} /\ posts[p].by \subseteq dead)
      PROVE  /\ posts'[p] = [at |-> posts[p].at, of |-> posts[p].of, by |-> posts[p].by \ dead]
             /\ posts'[p] \in Post /\ posts'[p] # NoPost
  <2> DEFINE x == posts[p]
             y == [at |-> x.at, of |-> x.of, by |-> x.by \ dead]
  <2>1. x \in Post
    BY <1>4, <1>5
  <2>2. posts'[p] = [x EXCEPT !.by = @ \ dead]
    BY <1>3, <1>5
  <2>3. y \in Post /\ posts'[p] = y /\ y.at # "free"
    BY <1>2, <2>1, <2>2
  <2>4. y # NoPost
    BY <2>3 DEF NoPost
  <2> QED
    BY <2>3, <2>4
<1>6. \A p \in Posts : posts'[p] \in {NoPost} \cup Post
  BY <1>3, <1>5
<1>7. posts' \in [Posts -> {NoPost} \cup Post]
  BY <1>6 DEF Orphaned
<1> QED
  BY <1>3, <1>4, <1>5, <1>7 DEF Post

----------------------------------------------------------------------------
(* Types.                                                                  *)

LEMMA NextType == TypeOK /\ [Next]_vars => TypeOK'
<1> SUFFICES ASSUME TypeOK, [Next]_vars PROVE TypeOK'
  OBVIOUS
<1> DEFINE RunnerType == [at : Places, cursor : Cursors, next : Cursors,
                          todo : SUBSET Requests]
           Controls == {"running", "stopped"}
<1>t. /\ posts \in [Posts -> {NoPost} \cup Post] /\ runner \in [Runners -> RunnerType]
      /\ Off \in RunnerType /\ Dead \in RunnerType /\ Cursor \in Cursors
  BY DEF TypeOK, Post, Off, Dead, NoCursor, Cursors, Cursor, Places, Ready, Answered
<1>p. posts' \in [Posts -> {NoPost} \cup Post] =>
        posts' \in [Posts -> {NoPost} \cup
                        [at : PostPlaces, of : Requests, by : SUBSET Runners]]
  BY DEF Post
<1>0. CASE UNCHANGED vars
  BY <1>0 DEF TypeOK, vars, operator, gateway
<1>1. ASSUME NEW r \in Requests, Ask(r) PROVE TypeOK'
  BY <1>1 DEF TypeOK, Ask, gateway
<1>2. ASSUME NEW r \in Requests, Decide(r) PROVE TypeOK'
  BY <1>2 DEF TypeOK, Decide, gateway
<1>3. ASSUME NEW r \in Requests, Preview(r) PROVE TypeOK'
  BY <1>3 DEF TypeOK, Preview, gateway
<1>4. ASSUME NEW desired \in {"running", "stopped"}, SetControl(desired) PROVE TypeOK'
  BY <1>4 DEF TypeOK, SetControl, gateway
<1>5. CASE Expire
  BY <1>5 DEF TypeOK, Expire, operator, gateway
<1>6. ASSUME NEW n \in Runners, Begin(n) PROVE TypeOK'
  <2>1. NoCursor \in Cursors /\ saved \in Cursors
    BY DEF NoCursor, Cursors, TypeOK
  <2>2. [Off EXCEPT !.at = "poll", !.cursor = saved] \in RunnerType
    BY <2>1 DEF Off, Places
  <2>3. runner' \in [Runners -> RunnerType]
    <3> DEFINE begun == IF control = "running"
                        THEN [Off EXCEPT !.at = "poll", !.cursor = saved] ELSE Off
    <3>1. begun \in RunnerType
      BY <1>t, <2>2
    <3>2. runner' = [runner EXCEPT ![n] = begun]
      BY <1>6 DEF Begin
    <3> QED
      BY <1>t, <3>1, <3>2
  <2> QED
    BY <1>6, <2>3 DEF TypeOK, Begin, operator, gateway
<1>7. ASSUME NEW n \in Runners, Poll(n) PROVE TypeOK'
  <2>1. Ready \in SUBSET Requests
    BY DEF Ready
  <2>2. PICK todo \in SUBSET Requests, place \in Places :
           runner' = [runner EXCEPT ![n].at = place, ![n].next = Cursor, ![n].todo = todo]
    <3> DEFINE hidden == runner[n].cursor = Cursor
               todo == Parsed(IF hidden THEN {} ELSE Ready)
    <3>1. todo \in SUBSET Requests /\ (IF todo = {} THEN "save" ELSE "work") \in Places
      BY <2>1 DEF Places, Parsed
    <3> QED
      BY <1>7, <3>1 DEF Poll
  <2>3. runner' \in [Runners -> RunnerType]
    BY <1>t, <2>2
  <2> QED
    BY <1>7, <2>3 DEF TypeOK, Poll, operator, gateway
<1>8. ASSUME NEW n \in Runners, PollBlocked(n) PROVE TypeOK'
  <2>1. runner' \in [Runners -> RunnerType]
    BY <1>8, <1>t DEF PollBlocked, Places
  <2> QED
    BY <1>8, <2>1, SetbacksAssumption DEF TypeOK, PollBlocked, Setback, operator, gateway
<1>9. ASSUME NEW n \in Runners, NEW r \in Requests, NEW p \in Posts, Submit(n, r, p)
      PROVE  TypeOK'
  <2>1. runner' \in [Runners -> RunnerType]
    BY <1>9, <1>t DEF Submit, Places
  <2>2. [at |-> "snapshot", of |-> r, by |-> {n}] \in Post
    BY DEF Post, PostPlaces
  <2>3. posts' \in [Posts -> {NoPost} \cup Post]
    BY <1>9, <1>t, <2>2 DEF Submit
  <2> QED
    BY <1>9, <1>p, <2>1, <2>3 DEF TypeOK, Submit, operator
<1>10. ASSUME NEW n \in Runners, NEW p \in Posts, Hear(n, p) PROVE TypeOK'
  <2>1. runner' \in [Runners -> RunnerType]
    BY <1>10, <1>t DEF Hear, At, Places
  <2>2. posts' \in [Posts -> {NoPost} \cup Post]
    BY <1>10, <1>t DEF Hear
  <2>3. posts[p] \in Post
    BY <1>10, <1>t DEF Hear, NoPost
  <2>4. refused' \subseteq Requests
    BY <1>10, <2>3 DEF TypeOK, Hear, Post
  <2> QED
    BY <1>10, <1>p, <2>1, <2>2, <2>4 DEF TypeOK, Hear, operator
<1>11. ASSUME NEW n \in Runners, Save(n) PROVE TypeOK'
  <2>1. runner' \in [Runners -> RunnerType] /\ saved' \in Cursors
    BY <1>11, <1>t DEF Save, Places
  <2> QED
    BY <1>11, <2>1 DEF TypeOK, Save, operator, gateway
<1>12. ASSUME NEW n \in Runners, ReadControl(n) PROVE TypeOK'
  <2>1. [runner[n] EXCEPT !.at = "poll"] \in RunnerType
    BY <1>t DEF Places
  <2>2. runner' \in [Runners -> RunnerType]
    BY <1>12, <1>t, <2>1 DEF ReadControl
  <2> QED
    BY <1>12, <2>2 DEF TypeOK, ReadControl, operator, gateway
<1>13. ASSUME NEW n \in Runners, Die(n) PROVE TypeOK'
  <2>1. runner' \in [Runners -> RunnerType] /\ saved' \in Cursors
    BY <1>13, <1>t DEF Die, HealthAfterDeath, TypeOK
  <2>2. posts' \in [Posts -> {NoPost} \cup Post]
    BY <1>13, OrphanedFacts DEF Die
  <2> QED
    <3>1. setbacks' \in 0 .. MaxSetbacks
      BY <1>13, SetbacksAssumption DEF TypeOK, Die, Setback
    <3> QED
      BY <1>13, <1>p, <2>1, <2>2, <3>1 DEF TypeOK, Die, operator
<1>14. ASSUME NEW p \in Posts, Handle(p) \/ HandleFails(p) PROVE TypeOK'
  <2>1. posts' \in [Posts -> {NoPost} \cup Post] /\ posts[p] \in Post
    BY <1>14, HandleFacts
  <2>2. results' \in [Requests -> Nat] /\ raced' \subseteq Requests
    BY <1>14, <2>1
       DEF TypeOK, Post, Handle, Snapshot, Check, Append, HandleFails
  <2>3. setbacks' \in 0 .. MaxSetbacks
    BY <1>14, SetbacksAssumption
       DEF TypeOK, Handle, Snapshot, Check, Append, HandleFails, Setback
  <2> QED
    BY <1>14, <1>p, <2>1, <2>2, <2>3
       DEF TypeOK, Handle, Snapshot, Check, Append, HandleFails, operator
<1>15. CASE GatewayDies
  <2>1. runner' \in [Runners -> RunnerType]
    BY <1>15, <1>t DEF GatewayDies
  <2>2. posts' \in [Posts -> {NoPost} \cup Post]
    BY <1>15 DEF GatewayDies
  <2> QED
    BY <1>15, <1>p, <2>1, <2>2, SetbacksAssumption DEF TypeOK, GatewayDies, Setback, operator
<1> QED
  BY <1>0, <1>1, <1>2, <1>3, <1>4, <1>5, <1>6, <1>7, <1>8, <1>9, <1>10, <1>11, <1>12,
     <1>13, <1>14, <1>15 DEF Next, Loop

----------------------------------------------------------------------------
(* Who waits for what.                                                     *)

LEMMA NextOneSubmission ==
    TypeOK /\ OneSubmission /\ [Next]_vars => OneSubmission'
<1> SUFFICES ASSUME TypeOK, OneSubmission, [Next]_vars PROVE OneSubmission'
  OBVIOUS
<1>t. /\ posts \in [Posts -> {NoPost} \cup Post]
      /\ runner \in [Runners -> [at : Places, cursor : Cursors, next : Cursors,
                                 todo : SUBSET Requests]]
  BY DEF TypeOK, Post
<1>0. CASE UNCHANGED <<posts, runner>>
  BY <1>0 DEF OneSubmission
<1>1. ASSUME NEW n \in Runners,
             runner[n].at # "wait", posts' = posts,
             \A x \in Runners \ {n} : runner'[x] = runner[x]
      PROVE  OneSubmission'
  BY <1>1 DEF OneSubmission
<1>2. ASSUME NEW n \in Runners, NEW r \in Requests, NEW p \in Posts, Submit(n, r, p)
      PROVE  OneSubmission'
  <2>1. /\ posts'[p].by = {n} /\ \A q \in Posts \ {p} : posts'[q] = posts[q]
        /\ posts[p] = NoPost
    BY <1>2, <1>t DEF Submit
  <2>2. /\ runner'[n].at = "wait" /\ \A x \in Runners \ {n} : runner'[x] = runner[x]
        /\ runner[n].at # "wait"
    BY <1>2, <1>t DEF Submit
  <2> QED
    BY <2>1, <2>2 DEF OneSubmission
<1>3. ASSUME NEW n \in Runners, NEW p \in Posts, Hear(n, p) PROVE OneSubmission'
  <2>1. /\ posts'[p] = NoPost /\ \A q \in Posts \ {p} : posts'[q] = posts[q]
        /\ posts[p] # NoPost /\ n \in posts[p].by
    BY <1>3, <1>t DEF Hear, NoPost
  <2>2. \A x \in Runners \ {n} : runner'[x] = runner[x]
    BY <1>3, <1>t DEF Hear, At
  <2> QED
    BY <2>1, <2>2 DEF OneSubmission
<1>4. ASSUME NEW n \in Runners, Die(n) PROVE OneSubmission'
  <2>1. \A p \in Posts : posts'[p] # NoPost =>
            posts[p] # NoPost /\ posts'[p].by = posts[p].by \ {n}
    BY <1>4, OrphanedFacts DEF Die
  <2>2. \A x \in Runners \ {n} : runner'[x] = runner[x]
    BY <1>4, <1>t DEF Die
  <2> QED
    BY <2>1, <2>2 DEF OneSubmission
<1>5. ASSUME NEW p \in Posts, Handle(p) \/ HandleFails(p) PROVE OneSubmission'
  <2>1. \A q \in Posts : posts'[q] # NoPost =>
            posts[q] # NoPost /\ posts'[q].by = posts[q].by
    <3>1. posts[p] # NoPost
      BY <1>5 DEF Handle, Snapshot, Check, Append, HandleFails, NoPost
    <3> QED
      BY <1>5, <3>1, HandleFacts
  <2>2. runner' = runner
    BY <1>5 DEF Handle, Snapshot, Check, Append, HandleFails
  <2> QED
    BY <2>1, <2>2 DEF OneSubmission
<1>6. CASE GatewayDies
  BY <1>6 DEF GatewayDies, OneSubmission
<1>7. ASSUME NEW n \in Runners,
             Begin(n) \/ Poll(n) \/ PollBlocked(n) \/ Save(n) \/ ReadControl(n)
      PROVE  OneSubmission'
  <2>1. runner[n].at # "wait" /\ posts' = posts
    BY <1>7 DEF Begin, Poll, PollBlocked, Save, ReadControl, gateway
  <2>2. \A x \in Runners \ {n} : runner'[x] = runner[x]
    BY <1>7, <1>t DEF Begin, Poll, PollBlocked, Save, ReadControl
  <2> QED
    BY <1>1, <2>1, <2>2
<1>8. ASSUME NEW r \in Requests, Ask(r) \/ Decide(r) \/ Preview(r) PROVE OneSubmission'
  BY <1>0, <1>8 DEF Ask, Decide, Preview, gateway
<1>9. ASSUME NEW desired \in {"running", "stopped"}, SetControl(desired)
      PROVE  OneSubmission'
  BY <1>0, <1>9 DEF SetControl, gateway
<1>10. CASE Expire \/ UNCHANGED vars
  BY <1>0, <1>10 DEF Expire, vars, gateway
<1> QED
  BY <1>2, <1>3, <1>4, <1>5, <1>6, <1>7, <1>8, <1>9, <1>10 DEF Next, Loop

----------------------------------------------------------------------------
(* What is answered.                                                       *)

\* What is approved stays so, and does not become ready again; a refusal is
\* remembered.
LEMMA Lasting ==
    ASSUME TypeOK, [Next]_vars
    PROVE  /\ \A r \in Requests : Approved(r) =>
                 Approved(r)' /\ (r \in Due' => r \in Due)
           /\ refused \subseteq refused'
<1>1. ASSUME UNCHANGED <<request, verdict, previewed>>,
             session' = "active" => session = "active",
             \A r \in Requests : results'[r] = 0 => results[r] = 0
      PROVE  \A r \in Requests : Approved(r) =>
                 Approved(r)' /\ (r \in Due' => r \in Due)
  BY <1>1 DEF Approved, Ready, Due, Parsed
<1>2. ASSUME NEW n \in Runners, Begin(n) \/ Loop(n) \/ PollBlocked(n) \/ Die(n)
      PROVE  /\ UNCHANGED <<request, verdict, previewed, session, results>>
             /\ refused \subseteq refused'
  BY <1>2 DEF Loop, Begin, Poll, PollBlocked, Submit, Hear, Save, ReadControl, Die,
              operator, gateway
<1>3. ASSUME NEW p \in Posts, Handle(p) \/ HandleFails(p)
      PROVE  /\ UNCHANGED <<request, verdict, previewed, session, refused>>
             /\ \A r \in Requests : results'[r] = 0 => results[r] = 0
  <2>1. UNCHANGED <<request, verdict, previewed, session, refused>>
    BY <1>3 DEF Handle, Snapshot, Check, Append, HandleFails, operator
  <2>2. CASE Append(p)
    <3>1. results' = [results EXCEPT ![posts[p].of] = @ + 1] /\ results \in [Requests -> Nat]
      BY <2>2 DEF Append, TypeOK
    <3> QED
      BY <2>1, <3>1
  <2>3. CASE Snapshot(p) \/ Check(p) \/ HandleFails(p)
    <3>1. results' = results
      BY <2>3 DEF Snapshot, Check, HandleFails
    <3> QED
      BY <2>1, <3>1
  <2> QED
    BY <1>3, <2>1, <2>2, <2>3 DEF Handle
<1>4. CASE GatewayDies \/ Expire \/ UNCHANGED vars
  BY <1>1, <1>4 DEF GatewayDies, Expire, vars, operator, gateway
<1>5. ASSUME NEW desired \in {"running", "stopped"}, SetControl(desired)
      PROVE  UNCHANGED <<request, verdict, previewed, session, results, refused>>
  BY <1>5 DEF SetControl, gateway
<1>6. ASSUME NEW x \in Requests, Ask(x) \/ Decide(x) \/ Preview(x)
      PROVE  /\ \A r \in Requests : Approved(r) =>
                   Approved(r)' /\ (r \in Due' => r \in Due)
             /\ refused' = refused
  BY <1>6 DEF Ask, Decide, Preview, Approved, Ready, Due, Parsed, Carried, TypeOK, gateway
<1> QED
  BY <1>1, <1>2, <1>3, <1>4, <1>5, <1>6 DEF Next

LEMMA NextIngested == TypeOK /\ Ingested /\ [Next]_vars => Ingested'
<1> SUFFICES ASSUME TypeOK, Ingested, [Next]_vars PROVE Ingested'
  OBVIOUS
<1>t. posts \in [Posts -> {NoPost} \cup Post]
  BY DEF TypeOK, Post
<1> DEFINE StillApproved(r) == verdict'[r] = "approve" /\ request'[r] \in Carried
           Sound(q) ==
               /\ posts'[q].at \in {"check", "append"} => StillApproved(posts'[q].of)
               /\ posts'[q].at = "append" /\ results'[posts'[q].of] > 0 =>
                     posts'[q].of \in raced'
               /\ posts'[q].at = "accepted" => results'[posts'[q].of] > 0
<1>l. \A r \in Requests : Approved(r) => StillApproved(r)
  BY Lasting DEF Approved
<1>i. (\A q \in Posts : Sound(q)) /\ AnsweredOnce' => Ingested'
  BY DEF Ingested, Approved
<1>o. \A q \in Posts : posts[q] # NoPost => posts[q].of \in Requests
  BY <1>t DEF Post
<1>1. ASSUME results' = results, raced' = raced,
             \A p \in Posts : posts'[p] # NoPost =>
                 \/ posts[p] # NoPost /\ posts'[p].of = posts[p].of
                                     /\ posts'[p].at = posts[p].at
                 \/ posts'[p].at \notin {"check", "append", "accepted"}
      PROVE  Ingested'
  <2>1. \A p \in Posts : posts[p] # NoPost => posts[p].of \in Requests
    BY <1>t DEF Post
  <2>2. AnsweredOnce'
    BY <1>1, <1>l DEF Ingested, AnsweredOnce, Answered, Approved
  <2>3. ASSUME NEW p \in Posts PROVE Sound(p)
    <3>1. CASE posts'[p].at \notin {"check", "append", "accepted"}
      BY <3>1
    <3>2. CASE posts'[p].at \in {"check", "append", "accepted"}
      <4>1. /\ posts[p] # NoPost /\ posts'[p].of = posts[p].of
            /\ posts'[p].at = posts[p].at /\ posts[p].of \in Requests
        BY <1>1, <2>1, <3>2 DEF NoPost
      <4> QED
        BY <1>1, <1>l, <4>1 DEF Ingested
    <3> QED
      BY <3>1, <3>2
  <2> QED
    BY <2>2, <2>3, <1>i
<1>2. ASSUME NEW n \in Runners, Begin(n) \/ Loop(n) \/ PollBlocked(n) \/ Die(n) PROVE Ingested'
  <2>1. CASE \E r \in Requests, p \in Posts : Submit(n, r, p)
    BY <1>1, <1>t, <2>1 DEF Submit
  <2>2. CASE \E p \in Posts : Hear(n, p)
    BY <1>1, <1>t, <2>2 DEF Hear
  <2>3. CASE Die(n)
    <3>1. \A p \in Posts : posts'[p] # NoPost =>
             posts[p] # NoPost /\ posts'[p].of = posts[p].of /\ posts'[p].at = posts[p].at
      BY <2>3, OrphanedFacts DEF Die
    <3> QED
      BY <1>1, <2>3, <3>1 DEF Die
  <2>4. CASE Begin(n) \/ Poll(n) \/ PollBlocked(n) \/ Save(n) \/ ReadControl(n)
    BY <1>1, <2>4 DEF Begin, Poll, PollBlocked, Save, ReadControl, gateway
  <2> QED
    BY <1>2, <2>1, <2>2, <2>3, <2>4 DEF Loop
<1>3. ASSUME NEW p \in Posts, Snapshot(p) PROVE Ingested'
  <2>1. /\ results' = results /\ raced' = raced /\ posts[p].at \in InHands
        /\ posts[p] # NoPost
    BY <1>3 DEF Snapshot, InHands, NoPost
  <2>2. CASE posts[p].of \in Ready
    <3>1. posts' = [posts EXCEPT ![p].at = "check"] /\ "check" \in PostPlaces
      BY <1>3, <2>2 DEF Snapshot, PostPlaces
    <3>2. \A q \in Posts \ {p} : posts'[q] = posts[q]
      BY <2>1, <3>1, MoveFacts
    <3>3. posts'[p].at = "check" /\ posts'[p].of = posts[p].of
      BY <2>1, <3>1, MoveFacts
    <3>4. StillApproved(posts[p].of)
      BY <2>2, <1>l DEF Ready, Approved
    <3>5. AnsweredOnce'
      BY <2>1, <1>l DEF Ingested, AnsweredOnce, Answered, Approved
    <3>7. \A q \in Posts \ {p} : Sound(q)
      BY <2>1, <3>2, <1>o, <1>l DEF Ingested, NoPost
    <3>8. Sound(p)
      BY <3>3, <3>4
    <3> QED
      BY <3>5, <3>7, <3>8, <1>i
  <2>3. CASE posts[p].of \notin Ready
    <3>1. Answer(p, "refused")
      BY <1>3, <2>3 DEF Snapshot
    <3>2. \A q \in Posts : q # p => posts'[q] = posts[q]
      BY <2>1, <3>1, AnswerFacts
    <3>3. posts'[p] = NoPost \/ posts'[p].at = "refused"
      BY <2>1, <3>1, AnswerFacts
    <3> QED
      BY <1>1, <2>1, <3>2, <3>3
  <2> QED
    BY <2>2, <2>3
<1>4. ASSUME NEW p \in Posts, Check(p) PROVE Ingested'
  <2>1. /\ results' = results /\ raced' = raced /\ posts[p].at \in InHands
        /\ posts[p] # NoPost /\ posts[p].at = "check"
    BY <1>4 DEF Check, InHands, NoPost
  <2>2. CASE ~IsDuplicate(posts[p].of)
    <3>1. posts' = [posts EXCEPT ![p].at = "append"] /\ "append" \in PostPlaces
      BY <1>4, <2>2 DEF Check, PostPlaces
    <3>2. \A q \in Posts \ {p} : posts'[q] = posts[q]
      BY <2>1, <3>1, MoveFacts
    <3>3. posts'[p].at = "append" /\ posts'[p].of = posts[p].of
      BY <2>1, <3>1, MoveFacts
    <3>5. StillApproved(posts[p].of) /\ ~(results[posts[p].of] > 0)
      BY <2>1, <2>2, <1>o, <1>l DEF Ingested, IsDuplicate
    <3>6. AnsweredOnce'
      BY <2>1, <1>l DEF Ingested, AnsweredOnce, Answered, Approved
    <3>7. \A q \in Posts \ {p} : Sound(q)
      BY <2>1, <3>2, <1>o, <1>l DEF Ingested, NoPost
    <3>8. Sound(p)
      BY <2>1, <3>3, <3>5
    <3> QED
      BY <3>6, <3>7, <3>8, <1>i
  <2>3. CASE IsDuplicate(posts[p].of)
    <3>1. Answer(p, "refused")
      BY <1>4, <2>3 DEF Check
    <3>2. \A q \in Posts : q # p => posts'[q] = posts[q]
      BY <2>1, <3>1, AnswerFacts
    <3>3. posts'[p] = NoPost \/ posts'[p].at = "refused"
      BY <2>1, <3>1, AnswerFacts
    <3> QED
      BY <1>1, <2>1, <3>2, <3>3
  <2> QED
    BY <2>2, <2>3
<1>5. ASSUME NEW p \in Posts, HandleFails(p) PROVE Ingested'
  <2>1. /\ results' = results /\ raced' = raced /\ posts[p].at \in InHands
        /\ posts[p] # NoPost /\ Answer(p, "refused")
    BY <1>5 DEF HandleFails, InHands, NoPost
  <2>2. \A q \in Posts : q # p => posts'[q] = posts[q]
    BY <2>1, AnswerFacts
  <2>3. posts'[p] = NoPost \/ posts'[p].at = "refused"
    BY <2>1, AnswerFacts
  <2> QED
    BY <1>1, <2>1, <2>2, <2>3
<1>6. ASSUME NEW p \in Posts, Append(p) PROVE Ingested'
  <2> DEFINE r == posts[p].of
  <2>1. /\ posts[p].at \in InHands /\ posts[p] # NoPost /\ posts[p].at = "append"
        /\ Answer(p, "accepted")
    BY <1>6 DEF Append, InHands, NoPost
  <2>2. r \in Requests /\ \A q \in Posts : posts[q] # NoPost => posts[q].of \in Requests
    BY <2>1, <1>t DEF Post
  <2>3. /\ results' = [results EXCEPT ![r] = @ + 1] /\ results \in [Requests -> Nat]
        /\ raced \subseteq raced'
        /\ \A q \in Posts \ {p} : posts[q].at = "append" /\ posts[q].of = r => r \in raced'
    BY <1>6 DEF Append, TypeOK
  <2>4. StillApproved(r) /\ Approved(r) /\ (results[r] > 0 => r \in raced)
    BY <2>1, <2>2, <1>l DEF Ingested
  <2>5. \A q \in Posts : q # p => posts'[q] = posts[q]
    BY <2>1, AnswerFacts
  <2>6. posts'[p] = NoPost \/ (posts'[p].at = "accepted" /\ posts'[p].of = r)
    BY <2>1, AnswerFacts
  <2>7. results'[r] > 0 /\ \A x \in Requests : x # r => results'[x] = results[x]
    BY <2>2, <2>3
  <2>8. AnsweredOnce'
    <3>1. results'[r] = results[r] + 1 /\ results[r] \in Nat
      BY <2>2, <2>3
    <3>2. results'[r] > 1 => r \in raced'
      BY <2>3, <2>4, <3>1
    <3>3. \A x \in Requests \ {r} : results'[x] > 0 =>
             StillApproved(x) /\ (results'[x] > 1 => x \in raced')
      BY <2>3, <2>7, <1>l DEF Ingested, AnsweredOnce, Answered, Approved
    <3> QED
      BY <2>4, <3>2, <3>3 DEF AnsweredOnce, Answered, Approved
  <2>9. ASSUME NEW q \in Posts \ {p} PROVE Sound(q)
    <3> DEFINE s == posts[q].of
    <3>1. posts'[q] = posts[q]
      BY <2>5
    <3>2. CASE posts[q] = NoPost
      BY <3>1, <3>2 DEF NoPost
    <3>3. CASE posts[q] # NoPost /\ s = r
      BY <2>3, <2>4, <2>7, <3>1, <3>3
    <3>4. CASE posts[q] # NoPost /\ s # r
      <4>1. s \in Requests /\ results'[s] = results[s]
        BY <2>2, <2>7, <3>4
      <4>2. /\ posts[q].at \in {"check", "append"} => Approved(s)
            /\ posts[q].at = "append" /\ results[s] > 0 => s \in raced
            /\ posts[q].at = "accepted" => results[s] > 0
        BY DEF Ingested
      <4> QED
        BY <2>3, <3>1, <4>1, <4>2, <1>l
    <3> QED
      BY <3>2, <3>3, <3>4
  <2>10. Sound(p)
    BY <2>6, <2>7 DEF NoPost
  <2> QED
    BY <2>8, <2>9, <2>10, <1>i
<1>7. CASE GatewayDies
  BY <1>1, <1>7 DEF GatewayDies
<1>8. ASSUME NEW x \in Requests, Ask(x) \/ Decide(x) \/ Preview(x) PROVE Ingested'
  BY <1>1, <1>8 DEF Ask, Decide, Preview, gateway
<1>9. ASSUME NEW desired \in {"running", "stopped"}, SetControl(desired) PROVE Ingested'
  BY <1>1, <1>9 DEF SetControl, gateway
<1>10. CASE Expire \/ UNCHANGED vars
  BY <1>1, <1>10 DEF Expire, vars, gateway
<1> QED
  BY <1>2, <1>3, <1>4, <1>5, <1>6, <1>7, <1>8, <1>9, <1>10 DEF Next, Handle

----------------------------------------------------------------------------
(* What is skipped.                                                        *)

LEMMA NextProgress ==
    TypeOK /\ OneSubmission /\ Progress /\ Ingested /\ [Next]_vars => Progress'
<1> SUFFICES ASSUME TypeOK, OneSubmission, Progress, Ingested, [Next]_vars
             PROVE  Progress'
  OBVIOUS
<1> DEFINE StillApproved(r) == verdict'[r] = "approve" /\ request'[r] \in Carried
           Lasts(c) == \A r \in c.ready :
                           StillApproved(r) /\ (r \in Due' => r \in refused')
           Covers(n, r) == r \in refused' \/ r \in runner'[n].todo \/ OnItsWay(n, r)'
           Going(n) == runner'[n].at \in {"work", "wait"} =>
                           \A r \in runner'[n].next.ready :
                               StillApproved(r) /\ (r \in Due' => Covers(n, r))
           Fine(n) == /\ Lasts(runner'[n].cursor)
                      /\ runner'[n].at = "save" => Lasts(runner'[n].next)
                      /\ Going(n)
<1>t. /\ posts \in [Posts -> {NoPost} \cup Post]
      /\ runner \in [Runners -> [at : Places, cursor : Cursors, next : Cursors,
                                 todo : SUBSET Requests]]
      /\ saved \in Cursors
  BY DEF TypeOK, Post
<1>l. /\ \A r \in Requests : Approved(r) => StillApproved(r) /\ (r \in Due' => r \in Due)
      /\ refused \subseteq refused'
  BY Lasting DEF Approved
<1>c. ASSUME NEW c \in Cursors, Worked(c) PROVE Lasts(c)
  BY <1>c, <1>l DEF Worked, Cursors
<1>i. Lasts(saved') /\ (\A n \in Runners : Fine(n)) => Progress'
  BY DEF Progress, Worked, Approved
<1>s. Lasts(saved)
  BY <1>c, <1>t DEF Progress
<1>n. ASSUME NEW n \in Runners
      PROVE  /\ Lasts(runner[n].cursor)
             /\ runner[n].at = "save" => Lasts(runner[n].next)
             /\ runner[n].at \in {"work", "wait"} =>
                   \A r \in runner[n].next.ready :
                       StillApproved(r) /\ (r \in Due' =>
                           r \in refused' \/ r \in runner[n].todo \/ OnItsWay(n, r))
  <2>1. runner[n].cursor \in Cursors /\ runner[n].next \in Cursors
    BY <1>t
  <2>2. runner[n].next.ready \subseteq Requests
    BY <2>1 DEF Cursors
  <2> QED
    BY <1>c, <1>l, <2>1, <2>2 DEF Progress
\* A runner that a step leaves alone.
<1>u. ASSUME NEW n \in Runners, runner'[n] = runner[n],
             \A p \in Posts : posts[p] # NoPost /\ n \in posts[p].by =>
                 posts'[p] # NoPost /\ n \in posts'[p].by /\ posts'[p].of = posts[p].of
      PROVE  Fine(n)
  <2>1. \A r \in Requests : OnItsWay(n, r) => OnItsWay(n, r)'
    BY <1>u DEF OnItsWay
  <2>2. runner[n].next.ready \subseteq Requests
    BY <1>t DEF Cursors
  <2> QED
    BY <1>n, <1>u, <2>1, <2>2
<1>1. CASE UNCHANGED <<runner, saved, posts>>
  BY <1>1, <1>i, <1>s, <1>u
<1>2. ASSUME NEW n \in Runners, Begin(n) PROVE Progress'
  <2>1. [Off EXCEPT !.at = "poll", !.cursor = saved].at = "poll"
        /\ [Off EXCEPT !.at = "poll", !.cursor = saved].cursor = saved
        /\ Off.at = "off" /\ Off.cursor.ready = {}
    BY DEF Off, NoCursor
  <2>2. \/ runner'[n].at = "poll" /\ runner'[n].cursor = saved
        \/ runner'[n].at = "off" /\ runner'[n].cursor.ready = {}
    BY <1>2, <1>t, <2>1 DEF Begin
  <2>3. Fine(n)
    BY <1>s, <2>2
  <2>4. \A x \in Runners \ {n} : Fine(x)
    BY <1>2, <1>t, <1>u DEF Begin, gateway
  <2> QED
    BY <1>2, <1>i, <1>s, <2>3, <2>4 DEF Begin
<1>3. ASSUME NEW n \in Runners, Poll(n) PROVE Progress'
  <2> DEFINE hits == runner[n].cursor = Cursor
             todo == Parsed(IF hits THEN {} ELSE Ready)
             place == IF todo = {} THEN "save" ELSE "work"
  <2>1. runner' = [runner EXCEPT ![n].at = place, ![n].next = Cursor, ![n].todo = todo]
    BY <1>3 DEF Poll
  <2>2. /\ runner'[n].at = place /\ runner'[n].next = Cursor
        /\ runner'[n].todo = todo /\ runner'[n].cursor = runner[n].cursor
        /\ \A x \in Runners \ {n} : runner'[x] = runner[x]
    BY <1>t, <2>1
  <2>3. Cursor.ready = Ready /\ \A r \in Ready : r \in Requests /\ Approved(r)
    BY DEF Cursor, Ready, Approved
  <2>4. todo = {} => Lasts(Cursor)
    <3>1. CASE hits
      BY <1>n, <3>1
    <3>2. CASE ~hits
      BY <1>l, <2>3, <3>2 DEF Due
    <3> QED
      BY <3>1, <3>2
  <2>5. todo # {} => todo = Due /\ place = "work"
    BY DEF Due, Parsed
  <2>6. Fine(n)
    BY <1>l, <1>n, <2>2, <2>3, <2>4, <2>5
  <2>7. \A x \in Runners \ {n} : Fine(x)
    BY <1>3, <1>u, <2>2 DEF Poll, gateway
  <2> QED
    BY <1>3, <1>i, <1>s, <2>6, <2>7 DEF Poll
<1>4. ASSUME NEW n \in Runners, PollBlocked(n) PROVE Progress'
  <2>1. /\ runner'[n].at = "save" /\ runner'[n].next = runner[n].cursor
        /\ runner'[n].cursor = runner[n].cursor
        /\ \A x \in Runners \ {n} : runner'[x] = runner[x]
    BY <1>4, <1>t DEF PollBlocked
  <2>2. Fine(n)
    BY <1>n, <2>1
  <2>3. \A x \in Runners \ {n} : Fine(x)
    BY <1>4, <1>u, <2>1 DEF PollBlocked, gateway
  <2> QED
    BY <1>4, <1>i, <1>s, <2>2, <2>3 DEF PollBlocked
<1>5. ASSUME NEW n \in Runners, NEW r \in Requests, NEW p \in Posts, Submit(n, r, p)
      PROVE  Progress'
  <2>1. /\ runner'[n].at = "wait" /\ runner'[n].next = runner[n].next
        /\ runner'[n].cursor = runner[n].cursor /\ runner'[n].todo = runner[n].todo \ {r}
        /\ \A x \in Runners \ {n} : runner'[x] = runner[x]
        /\ runner[n].at = "work"
    BY <1>5, <1>t DEF Submit
  <2>2. /\ posts'[p] = [at |-> "snapshot", of |-> r, by |-> {n}]
        /\ posts[p] = NoPost /\ \A q \in Posts \ {p} : posts'[q] = posts[q]
    BY <1>5, <1>t DEF Submit
  <2>3. posts'[p] # NoPost /\ posts'[p].of = r /\ n \in posts'[p].by
    <3>1. posts'[p].at = "snapshot" /\ posts'[p].of = r /\ n \in posts'[p].by
      BY <2>2
    <3> QED
      BY <3>1 DEF NoPost
  <2>4. OnItsWay(n, r)'
    BY <2>1, <2>3 DEF OnItsWay
  <2>5. \A x \in Requests : ~OnItsWay(n, x)
    BY <2>1 DEF OnItsWay
  <2>6. runner[n].next.ready \subseteq Requests
    BY <1>t DEF Cursors
  <2>7. Going(n)
    BY <1>n, <2>1, <2>4, <2>5, <2>6
  <2>8. Fine(n)
    BY <1>n, <2>1, <2>7
  <2>9. \A x \in Runners \ {n} : Fine(x)
    BY <1>u, <2>1, <2>2
  <2> QED
    BY <1>5, <1>i, <1>s, <2>8, <2>9 DEF Submit
<1>6. ASSUME NEW n \in Runners, NEW p \in Posts, Hear(n, p) PROVE Progress'
  <2> DEFINE place == IF runner[n].todo = {} THEN "save" ELSE "work"
  <2>1. /\ runner'[n].at = place /\ runner'[n].next = runner[n].next
        /\ runner'[n].cursor = runner[n].cursor /\ runner'[n].todo = runner[n].todo
        /\ \A x \in Runners \ {n} : runner'[x] = runner[x]
        /\ runner[n].at = "wait"
    BY <1>6, <1>t DEF Hear, At
  <2>2. /\ posts[p] # NoPost /\ n \in posts[p].by /\ posts[p].at \in {"accepted", "refused"}
        /\ \A q \in Posts \ {p} : posts'[q] = posts[q]
    BY <1>6, <1>t DEF Hear, NoPost
  <2>3. \A x \in Requests : OnItsWay(n, x) => x = posts[p].of
    BY <2>2 DEF OnItsWay, OneSubmission
  <2>4. ASSUME posts[p].of \in Due' PROVE posts[p].of \in refused'
    <3>1. results' = results
      BY <1>6 DEF Hear
    <3>2. ~(results[posts[p].of] > 0)
      BY <2>4, <3>1 DEF Due, Parsed, Ready
    <3>3. posts[p].at = "refused"
      BY <2>2, <3>2 DEF Ingested
    <3> QED
      BY <1>6, <3>3 DEF Hear
  <2>5. runner[n].next.ready \subseteq Requests
    BY <1>t DEF Cursors
  <2>6. \A x \in runner[n].next.ready :
           StillApproved(x) /\ (x \in Due' => x \in refused' \/ x \in runner[n].todo)
    BY <1>n, <2>1, <2>3, <2>4, <2>5
  <2>7. Fine(n)
    BY <1>n, <2>1, <2>6
  <2>8. ASSUME NEW x \in Runners \ {n} PROVE Fine(x)
    <3>2. CASE x \notin posts[p].by
      BY <1>u, <2>1, <2>2, <3>2
    <3>3. x \notin posts[p].by
      BY <2>2 DEF OneSubmission
    <3> QED
      BY <3>2, <3>3
  <2> QED
    BY <1>6, <1>i, <1>s, <2>7, <2>8 DEF Hear
<1>7. ASSUME NEW n \in Runners, Save(n) PROVE Progress'
  <2>1. /\ runner'[n].at = "control" /\ runner'[n].cursor = runner[n].next
        /\ \A x \in Runners \ {n} : runner'[x] = runner[x]
        /\ runner[n].at = "save" /\ saved' = runner[n].next
    BY <1>7, <1>t DEF Save
  <2>2. Fine(n) /\ Lasts(saved')
    BY <1>n, <2>1
  <2>3. \A x \in Runners \ {n} : Fine(x)
    BY <1>7, <1>u, <2>1 DEF Save, gateway
  <2> QED
    BY <1>i, <2>2, <2>3
<1>8. ASSUME NEW n \in Runners, ReadControl(n) PROVE Progress'
  <2>1. \/ runner'[n] = [runner[n] EXCEPT !.at = "poll"]
        \/ runner'[n] = Off
    BY <1>8, <1>t DEF ReadControl
  <2>2. \A x \in Runners \ {n} : runner'[x] = runner[x]
    BY <1>8, <1>t DEF ReadControl
  <2>3. CASE runner'[n] = [runner[n] EXCEPT !.at = "poll"]
    <3>1. runner'[n].at = "poll" /\ runner'[n].cursor = runner[n].cursor
      BY <1>t, <2>3
    <3> QED
      BY <1>8, <1>i, <1>s, <1>n, <1>u, <2>2, <3>1 DEF ReadControl, gateway
  <2>4. CASE runner'[n] = Off
    <3>1. runner'[n].at = "off" /\ runner'[n].cursor.ready = {}
      BY <2>4 DEF Off, NoCursor
    <3> QED
      BY <1>8, <1>i, <1>s, <1>u, <2>2, <3>1 DEF ReadControl, gateway
  <2> QED
    BY <2>1, <2>3, <2>4
<1>9. ASSUME NEW n \in Runners, Die(n) PROVE Progress'
  <2>1. runner'[n] = Dead /\ \A x \in Runners \ {n} : runner'[x] = runner[x]
    BY <1>9, <1>t DEF Die
  <2>2. runner'[n].at = "dead" /\ runner'[n].cursor.ready = {}
    BY <2>1 DEF Dead, Off, NoCursor
  <2>3. Fine(n)
    BY <2>2
  <2>4. ASSUME NEW x \in Runners \ {n} PROVE Fine(x)
    <3>1. posts' = Orphaned({n}) /\ {n} \in SUBSET Runners
      BY <1>9 DEF Die
    <3>2. \A p \in Posts : posts[p] # NoPost /\ x \in posts[p].by =>
             posts'[p] # NoPost /\ x \in posts'[p].by /\ posts'[p].of = posts[p].of
      <4>1. \A p \in Posts : posts'[p] # NoPost =>
               posts'[p].of = posts[p].of /\ posts'[p].by = posts[p].by \ {n}
        BY <3>1, OrphanedFacts
      <4>2. \A p \in Posts : posts[p] # NoPost /\ ~(posts[p].by \subseteq {n}) =>
               posts'[p] # NoPost
        BY <3>1, OrphanedFacts
      <4> QED
        BY <4>1, <4>2
    <3> QED
      BY <1>u, <2>1, <3>2
  <2> QED
    BY <1>9, <1>i, <1>s, <2>3, <2>4 DEF Die, HealthAfterDeath
<1>10. ASSUME NEW p \in Posts, Handle(p) \/ HandleFails(p) PROVE Progress'
  <2>1. UNCHANGED <<runner, saved>>
    BY <1>10 DEF Handle, Snapshot, Check, Append, HandleFails
  <2>2. ASSUME NEW n \in Runners PROVE Fine(n)
    <3>1. \A q \in Posts : posts[q] # NoPost /\ n \in posts[q].by =>
             posts'[q] # NoPost /\ n \in posts'[q].by /\ posts'[q].of = posts[q].of
      <4>1. NoPost \notin Post
        BY DEF Post, PostPlaces, NoPost
      <4> QED
        BY <1>10, <4>1, HandleFacts
    <3> QED
      BY <1>u, <2>1, <3>1
  <2> QED
    BY <1>i, <1>s, <2>1, <2>2
<1>11. CASE GatewayDies
  <2>1. ASSUME NEW n \in Runners PROVE Fine(n)
    <3>1. runner'[n] = IF runner[n].at = "wait" THEN Dead ELSE runner[n]
      BY <1>11 DEF GatewayDies
    <3>2. CASE runner[n].at = "wait"
      <4>1. runner'[n].at = "dead" /\ runner'[n].cursor.ready = {}
        BY <3>1, <3>2 DEF Dead, Off, NoCursor
      <4> QED
        BY <4>1
    <3>3. CASE runner[n].at # "wait"
      BY <1>u, <3>1, <3>3 DEF OneSubmission
    <3> QED
      BY <3>2, <3>3
  <2> QED
    BY <1>11, <1>i, <1>s, <2>1 DEF GatewayDies
<1>12. ASSUME NEW x \in Requests, Ask(x) \/ Decide(x) \/ Preview(x) PROVE Progress'
  BY <1>1, <1>12 DEF Ask, Decide, Preview, gateway
<1>13. ASSUME NEW desired \in {"running", "stopped"}, SetControl(desired) PROVE Progress'
  BY <1>1, <1>13 DEF SetControl, gateway
<1>14. CASE Expire \/ UNCHANGED vars
  BY <1>1, <1>14 DEF Expire, vars, gateway
<1> QED
  BY <1>2, <1>3, <1>4, <1>5, <1>6, <1>7, <1>8, <1>9, <1>10, <1>11, <1>12, <1>13, <1>14
     DEF Next, Loop

LEMMA InvImpliesNoneSkipped == IInv => NoneSkipped
<1> SUFFICES ASSUME IInv PROVE NoneSkipped
  OBVIOUS
<1>1. Cursor.ready = Ready /\ Due \subseteq Ready
  BY DEF Cursor, Due, Parsed
<1> QED
  BY <1>1 DEF IInv, Progress, Worked, NoneSkipped, Due

THEOREM Invariance == Spec => []IInv
<1>1. Init => IInv
  BY InitInv
<1>2. IInv /\ [Next]_vars => IInv'
  BY NextType, NextOneSubmission, NextProgress, NextIngested DEF IInv
<1> QED
  BY <1>1, <1>2, PTL DEF Spec

\* Every variable has its type.
THEOREM TypeCorrect == Spec => []TypeOK
<1>1. IInv => TypeOK
  BY DEF IInv
<1> QED
  BY <1>1, Invariance, PTL

\* Nothing that is ready and that the runner can parse hides behind a poll's cursor:
\* it was submitted once.  What its parser drops, an approved dir.fetch, does hide.
THEOREM NothingIsSkipped == Spec => []NoneSkipped
  BY InvImpliesNoneSkipped, Invariance, PTL

\* The result of an approved action is ingested once, but for two appends that
\* were checked before either of them.
THEOREM ResultsAreIngestedOnce == Spec => []AnsweredOnce
<1>1. IInv => AnsweredOnce
  BY DEF IInv, Ingested
<1> QED
  BY <1>1, Invariance, PTL

=============================================================================
