# Verification of neonika

TLA+ models of the parts of neonika in which several things happen at once, TLC
runs that check them on small instances, and TLAPS proofs of the properties that
matter most for instances of any size. Paths below are paths of the repository.

## The system

neonika is an agent runtime (TypeScript, Node) that sits between chat channels
and coding agents. It is "silent by default": it first shadows a channel, and a
cutover ladder (shadow, mirror, canary, primary, retire) lets it answer. One
process has one event loop, so that code between two `await`s is atomic and
everything else interleaves; several processes (the tap, the daemons, the command
line) share files under `state/`.

| Component | State it keeps | Operations | Interaction | What is hard |
| --- | --- | --- | --- | --- |
| Discord tap, ingress (`src/gateway/discordShadowTap.ts`, `discordIngress.ts`) | statistics, probe file | a message, an interaction, close | calls the replay guard, the run control, the debouncer and the queue in turn | every handler awaits; many handlers are under way at once |
| Replay guard (`discordInboundReplayGuard.ts`) | Map of claims with expiry, JSONL file | claim | first step of every message | lookup is awaited; file rewritten in place; claim before processing |
| Inbound debouncer (`inboundDebouncer.ts`) | buckets, timers, one promise chain per key | enqueue, timer, flushAll, cancelKey | hands batches to the tap's processing | timers against messages; a chain that is forgotten and re-created |
| Session queue (`sessionActorQueue.ts`) | per session a promise chain, task states, two counters | enqueue, cancelPending, cleanupIdle | runs the body of a message | failing and cancelled tasks in a chain; objects re-created |
| Run control, run registry (`discordRunControl.ts`, `inFlightRunRegistry.ts`) | abort controllers, stop cutoffs, records of running turns | register a run, stop a session | aborts runs, interrupts turns, cancels the queue | a stop meets a message anywhere on its way |
| Codex harness and client (`src/harness/codexAppServerHarness.ts`, `jsonRpcClient.ts`, `sharedClient.ts`) | pending requests, subscribers, leases | one turn of a run | JSON-RPC with an app server process that several runs share | answers that are late, lost, or of another run |
| Delivery receipts (`deliveryReceiptStore.ts`) | a receipt and a lock file per intent | deliver once | under the reply loop and the dispatcher, over the transport | crash, lost answer, stale lock, several processes |
| Outbound transport (`discordOutboundTransport.ts`) | login | post, edit, ... | Discord | a body is several posts |
| Delivery dispatch, outbound gate (`deliveryDispatch.ts`, `outboundSender.ts`, `canaryReplyLoop.ts`) | dispatch log, platform send markers | dispatch a candidate | over the receipts | log read before, written after |
| Run store (`runStore.ts`, `runStoreRescue.ts`) | JSONL of runs; archive of failed runs, evidence | append, rewrite latest, rescue | every run | rewrite in place against append; a rescue in five steps |
| Workboard (`src/workboard`) | JSONL of cards with claims | claim, heartbeat, complete, block, dispatch | autopilot, ingress | check-then-append, expiry |
| Cron daemon (`src/automation/cron*.ts`) | cursor file, job log, live state | tick, start, stop; add, update, remove, enable, disable | run execution, run store | cursor written before execution; runs longer than the interval; several drivers of one cursor |
| Heartbeat daemon (`src/automation/heartbeat*.ts`) | cursor, cool-downs | tick, start, stop | run execution, commitments | commitments marked after their wake |
| Memory (`src/memory`) | SQLite, snapshots | write back, back up, rotate, roll back | operators, runs | writes between snapshot and rollback |
| Decision cards (`discordComponentActionRegistry.ts`, `discordRecoveryFlow.ts`, `discordPlanApproval.ts`, `pdfReviewFlow.ts`, `discordCapacityRouter.ts`, `discordAgentButtons.ts`) | actions with their use, in memory and in a file; a session file per card | register buttons, post the card, dispatch a click, decide | run store, receipts, Discord | clicks race with each other and with the caller; a button is spent before its handler runs |
| WhatsApp tap (`src/channels/whatsapp*.ts`) | lock file, replay file | connect, upsert, reconnect, stop | runs, receipts | lock takeover, claims read before the lock, claim before run |
| Node transport (`neonNodeActionRequests.ts`, `neonNodeTransport.ts`, `neonNodeRunner.ts`) | logs of requests, approvals, previews, results; the runner's cursor | request, approve, poll, execute, submit | the gateway's HTTP server, a runner on the device | a runner dies between poll and cursor; results submitted twice |
| Node runner service, pairing (rest of `src/nodes`) | logs of requests, approvals, executions | request, approve, execute a service action | operators, devices | checked before, recorded after |
| Live index (`src/indexer`) | one scan, a timer | start, stop, scan | memory | a stop during the first scan |
| Roundtable (`src/roundtable`) | one discussion | round, escalate, judge | agents | limits of exchanges |
| Command line, doctor, plugins, skills, mission control | mostly none | reads and one-shot commands | - | - |

What makes each component correct, in a sentence:

* receipts: a caller that is told "delivered" is right, nobody sees a message twice
  while that can be prevented, and an intent is not wedged by a dead caller;
* queue: one task of a session at a time, in order, and every promise settles;
* run control: after a stop, nothing the stop caught goes on, and what was written later is spared;
* debouncer: the messages of an author are run once, in order, one batch at a time;
* replay guard: a message is processed once, across restarts;
* decision cards: a card is decided once, every button the user sees works, and what was decided stays decided;
* WhatsApp tap: one process has the session, a message is run once, and a process that ends lets the lock go;
* node transport: an approved action is executed and its result ingested, once and whatever dies in between;
* run store: every run is on record once, with its last status, or archived, and no half of a rescue passes for a whole one;
* workboard: one owner executes a card at a time;
* cron: no occurrence is executed twice, and none is left out but at a crash or a change of the schedule;
* memory: a rollback restores what the snapshot held and says what it dropped.

`PROJECT.json` lists every component with its state, every hazard with its line
and the properties that cover it, and for every definition the lines it models.

## Modules

| Module | Models | Built on |
| --- | --- | --- |
| `DeliveryReceipts` | delivery of one intent: receipt, lock, chunked send, platform | - |
| `SerialExecutor` | what the queue, and a chain of the debouncer, promises (abstract) | - |
| `SessionActorQueue` | the queue's objects, chains and counters | refines `SerialExecutor` |
| `RunControl` | a message from its writing to the end of its run, and the stop | `SerialExecutor` as its queue |
| `SessionProofs` | theorems of both, the refinement and the use of the abstract queue included | `SessionActorQueue`, `RunControl`, TLAPS |
| `InboundDebouncer` | buckets, timers and promise chains of the tap | refines `SerialExecutor`, once per author |
| `InboundReplay` | the guard against messages delivered again: Map, file, errors, restarts | - |
| `InboundProofs` | theorems of both | `InboundReplay`, `InboundDebouncer`, TLAPS |
| `Workboard` | a card, its claims, and the workers that compete for it | - |
| `WorkboardProofs` | theorems | `Workboard`, TLAPS |
| `CronDaemon` | the ticks of the cron daemon, its cursor, the job store, the runs | - |
| `CronDaemonProofs` | theorems | `CronDaemon`, TLAPS |
| `DecisionCards` | a decision card: the action registry and the five flows that post cards | - |
| `DecisionCardsProofs` | theorems | `DecisionCards`, TLAPS |
| `NodeTransport` | an approved action on its way to a node and its result on the way back | - |
| `NodeTransportProofs` | theorems | `NodeTransport`, TLAPS |
| `WhatsAppTap` | the processes that open the WhatsApp session, their lock and their claims | - |
| `WhatsAppTapProofs` | theorems | `WhatsAppTap`, TLAPS |
| `RunStore` | the file of runs, its writers and the rescue of failed runs | - |
| `RecordProofs` | theorems of the two modules about what is kept in files | `DeliveryReceipts`, `RunStore`, TLAPS |

`RunControl` uses the queue's abstract specification in place of its code; that
this is sound is what `IsSerialExecutor` and the theorem `Implements` say, and the theorem
`RunsAreSerial` says that it uses it as specified.

`SessionProofs`, `InboundProofs` and `RecordProofs` extend two components each. The second of the two
therefore has a prefix in what every component has (`RunInit`, `RunSpec`, `RunTypeOK`; `GuardInit`, ...; `StoreInit`, ...),
and names of its own for what both have (`SessionKeys`, `MessageKeys`, `message`, `GatewayCrash`, `Rewrite`).

### DeliveryReceipts

One intent, because intents share nothing. A call of `executeNeonExactlyOnceDelivery`
is a proc that goes through the places of `pc`; each awaited file or network
operation is one action, and callers may be in one process or in several. The lock
file is `free`, `fresh` or `stale`; the action `LockAges` is the clock. `stat`,
`unlink` and the second `open` of `acquireIntentLock` are separate actions
(`StatLock`, `UnlinkStale`, `Reopen`) because anything may happen between them.
`writeNeonDeliveryReceiptFile` writes a temporary file and renames it, so a write
of a receipt is one step. A body is `Parts` chunks, posted one after the other
with a nonce each (`Post`); the platform shows a chunk unless it remembers the
nonce, and may forget (`PlatformForgets`). Of the receipt only state and payload
hash decide anything and only they are kept.

History variables: `usurped` (a lock was removed as stale under a caller at work),
`forgot` (the platform dropped a nonce), `repeated`. They are read by properties only.

Two properties hold only while `~usurped`: the code takes a lock over after
`lockStaleMs`, and no file lock keeps a caller that sleeps longer than that from
waking up inside. `NoRepeatWhileRemembered` is what holds even then.

### SessionActorQueue

A chain of promises is not stored: a task's turn has come when every task of its
object with a smaller id has settled, which is what `tail.catch().then()` amounts to.
The continuation that a settled task schedules is `Start` or `Reject`; enqueue,
cancelPending and cleanupIdle have no await in them and are one action each. A
session may go through several objects (`CleanupIdle`, then `EnqueueFirst`).
`cleanupIdle` has no caller in the repository outside its tests; it is modelled
because it is a public operation whose effect on a live chain is the hard case.

### RunControl

A message, the task that carries it, its run and its turn share one name, and
`place` says where it is: `written` (on its way, the debouncer included),
`arrived` (enqueued), `prepare` (dequeued, before the harness: voice, context,
memory, workboard), `opening` (has a controller; client leased, subscribed),
`requesting` (`turn/start` sent), `waiting`, `closing`, `left`. The variable
`setup` is the deployment and never changes: whether runs share a pooled client
(they do in the tap) and whether the lifecycle gate is on. `StopBegins` is the
part of `stopSession` before its await, `InterruptSent` and `InterruptFails` are
the outcomes of each interrupt, `StopAnswers` is the part after it.

Time is kept as far as the stop tells it apart: `older` holds the messages written
no later than the latest stop of their session. A stop that awaits no interrupt goes on in the same turn of the event
loop, so that nothing comes in between (`AtOnce`). A message may fail to become a run
(`Skip`). The app server starts a turn, ends it in any way, or does neither.

### InboundDebouncer

A message's number is its arrival at `enqueue`; a batch is named by its first
message. `RunFlush` is `runFlush` up to its await, `Start` and `Finish` are the
callbacks of the chain, `Forget` is the `finally` block. `EnqueueBehind` is the
first half of an enqueue that has to flush, `GoOn` and `Lose` are what follows
when the flush has resolved or rejected. `Resumed` states the event loop's rule
that microtasks run before the next message or timer. `CloseAdapter` and
`CloseFails` are the two outcomes of the tap's `close`.

`Author(k)` reads the chain of one key as a `SerialExecutor` of one session: its tasks are the
batches of the key, and a batch waits for all it is linked to, directly or through others
(`AheadIn`, the least set that the links lead to). There is one executor per key, not one
for all, because `FlushAll`, the first half of a close, flushes the buckets of several authors in one step.

### InboundReplay

A delivery goes through the places of `pc`: `new`, `lookup` (the file is being read),
`register` (claimed in memory, the file is being read again), `write`, `fill`, and then
`claimed` or `duplicate`. The Map is a set of records with a rank, the place in
insertion order; `Remember` is `remember` with its eviction. `writeFile` truncates the
file and fills it, which are two actions (`Truncate`, `Fill`), because a lookup, another
register or a crash may come in between. When two registers fill one file, what the
other wrote beyond the end of this one's text may stay (`Rest`). An error disables
persistence for the life of the process (`Disable`). The clock stands still while an
operation on the file is under way: a claim lives 5 minutes, a file operation takes milliseconds.

History variables say what excuses a second claim: `after` (who had been claimed when a
delivery arrived), `memoryLost` (whose claim the Map has dropped or cut short) and `fileLost` (whose claim may be gone from the file).
"Cut short" is a thing the code does: `remember` puts a new expiry in the place of the old one, even an earlier one. After a restart,
a lookup that began before another's claim was registered finds an older claim in the file and puts its expiry, which
is about to pass, over the one in the Map (`discordInboundReplayGuard.ts:92`, `discordInboundReplayGuard.ts:136`). That takes four
deliveries, one more than the run has: the first attempt to prove `OnceAfterAnswer` came upon it, and the property names it now.

### Workboard

One card, because cards share nothing but the file. Every operation of `workboardStore.ts`
reads the last record of the card, makes its successor and appends that, with awaits in
between: `Reads` or `UsesClaim` is the first half, which leaves a draft, `Appends` the second, which puts
the draft on the board whatever is there by then. Three kinds of workers use the store:
autopilots sweep, list, claim, work and finish, and block the card when that fails;
runs of Discord messages claim the card of their message and finish it; agents call the RPC in any
order. Two details of the code matter and are kept: a claim on a card that is neither todo nor
ready leaves its status alone, so that a done card can be claimed, and an RPC caller that names
no token and no owner uses any claim.

Time is what is left of a claim: above `Grace + 1` it is valid, at 0 a sweep finds it. `lease` is
the same as the worker knows it. `disturbed` is a history variable: operations overlapped, or one
used another's claim.

A card is created in any status, without a claim. One created as running is stranded (`Stranded`): no sweep looks at a
card without a claim, and it stays running until somebody claims or finishes it by RPC. `NoneIsStranded` says that no operation strands a card,
and `RunningEnds` is about cards with a claim. A run whose claim is denied goes on without it, which the
model does not follow.

### CronDaemon

An occurrence is a job and a window, the time at which it was due; times are numbered from 1, and 0
(`Never`) is the absence of one. A driver is whoever calls `tickOnce`: the service's timer, which never
starts a tick during its own, and `Loops` (the command `cron-daemon-run` with its number of ticks,
or another process), which do not look at the timer's. A tick is `Read` (the cursor), `Snapshot` (the
store; what is due, and the cursor that covers it), `Truncate` and `Fill` (`writeFile` in place), and
then a `Begin` for each occurrence, with `FailTransiently` and `Retry` for its further attempts and `End` for
its last, and `Done`. `runs` is the status of each occurrence in the run store, of which only
"on record" decides anything.

The store is the projection of its event log. `Resolve` reads and checks, `Append` appends, and
what it appends is merged (`Project`) with whatever the job has become by then. A schedule is an interval, a
cron expression or none (manual-only, empty, invalid). A cron expression is the set of multiples of a number: what
the properties need of `computeNextCronMatchMs` is that the next match is the first strictly after the last
window, and that an expression without a last window is never due.

An error anywhere in a tick is an unhandled rejection, because `void tickOnce().finally(...)` has no handler:
it ends the process, as `Crash` does.

History variables: `overlapped` (a tick read the cursor that another was about to write), `repeated`,
`since` (the first window of a series that nothing has broken), `silenced` (removed and given no schedule since).

### DecisionCards

One card of one flow (`flow`): recovery of a failed run, approval of a plan, review of a PDF, choice of a
capacity tier, quick replies. An action is the number of the call that registered it and its button
(`ButtonsOf`, in order of registration). `mem` is the registry in memory, `disk` its file: the open actions,
the used ones, and when the spent group expires. `register` and `dispatch` have no `await` before their end
respectively before the handler, and persist by temporary file and rename, so `Registering` and `Dispatch` are one
step each; a persist that fails is `RegisterHalf` (the buttons before it remain, and the caller gives up) and
`DispatchFails` (the consumption is undone).

The caller goes through `start.at`: it writes a preparing session, registers, writes the ids, delivers the card
under a receipt and writes the session as pending, from the copy it holds (`start.own`). A later call prepares
anew (`Prepares`), takes up a call that was interrupted (`Resumes`) or only answers. The program makes one call per
run, plan and artifact; later calls for the same one, which the code has branches for, are modelled one after
the other. A click goes through `pc`: dispatch, read of the session (`held`), and then refuse, open a dialog, or mark,
execute and record; each handler writes back the session it read with another status. A click between the post and
the write of the pending session finds a session that is not open yet: its button is spent and nothing is decided,
the card is dead until it expires. No document says otherwise, and the model has the behaviour.

`Restart` loses memory and keeps what of the file is not expired; a file that cannot be read is an empty registry
(`blind`). `decided`, `blind`, `lost` are history variables.

### NodeTransport

The logs are sets and functions of what decides: which requests are asked for, approved, previewed, answered.
A dispatch is not stored anywhere: `Ready` computes it, as `createNeonNodeTransportSnapshot` does at every poll.
A cursor is a hash of the ready and the answered dispatches; the model keeps the two sets. What a poll hands out
goes through the runner's parser (`Parsed`), which does not know `dir.fetch` (a request that is `unparsed`): the runner drops
such a dispatch unseen, and saves the cursor that covers it. A runner is at `poll`, at
`work` through its dispatches (`Submit`, `Hear`), at `save` (the health file, `saved`) and at `control` (is it still wanted).
A submission in the gateway is a `post` with the three awaited steps of its handler: session and snapshot, check
for a duplicate, append. Who waits for it is `by`: a runner that dies leaves it behind, and the gateway goes on.
A runner that fails is `dead`, and its launch agent restarts it (`KeepAlive`, `SuccessfulExit` false); one that was
stopped is `off` until somebody starts it. Operators' calls do not overlap; runners and gateway do.

`refused` (a submission was not accepted, and the cursor went on) and `raced` (two appends of one result were
under way at once) are history variables. That a refused result is not submitted again while the cursor is the
same is what the code does; `NoneSkipped` and `ApprovedIsAnswered` say so by naming it. Both are about the dispatches that the runner can parse.

### WhatsAppTap

A tap is one process of kind `shadow` (the login is one too, without messages) or `canary`. `at` is its main thread, `work` its
message queue, which goes on by itself. The lock file is absent, `empty` (between `open` with `wx` and the write), or
`held`; taking over a dead one's lock is three steps (`Inspect`, `Remove`, `Retake`), and `release` is two (`ReadOwnLock`,
`Unlink`). `known` is what the tap has read of the claims' file plus its own claims, without those that were dropped as too
old or too many (`Prune`, at a start and at every claim; when the 30 days or the 2000 entries are reached is left open), `file` is what `Persist` wrote
last. A canary tap whose transport closes reconnects or gives up, and then waits for its queue; a shadow tap releases the lock at
once (`AfterShadowClosed`), with its queue still going.

The history variables `shared` and `raced` name the two windows the code leaves open: claims are read before the lock is
taken (`whatsappCanaryTap.ts:120`), and a takeover may remove a lock that was taken a moment before. `forgotten` names the messages
whose claim was dropped. The properties say that nothing else goes wrong.

### RunStore

`file` is the sequence of lines of `runs.jsonl`, of which a run's id and status are kept. `writeNeonGatewayRunLatest`
changes a run's line in three steps: `Read` takes the lines without its own, `Truncate` is the
opening of the file and `Fill` the writing, with `Remainders` for what another wrote between the two and is written over.
`writeNeonGatewayRun` is `AppendRun`, the first line of a message's run in
taps that do not keep their runs live, or its only one. `Successors` is what a run's owner writes next: a message's
run from running to its end to delivered, a schedule's through failures and retries, or at once the end of one that is blocked or has no agent.
A completed line that is not written again is `closed`: delivered, completed with the reason why the reply was not sent, or blocked. `Abandon` is the harness
that throws: `executeNeonScheduledAgentRun` then writes the run as failed, `runNeonGatewayShadow` does not, and the line of
a message's run stays as running. The rescue is one action per file operation of `rescueNeonGatewayRunStore`, and may end
after each of them (`RescueCrash`); `RescueReplace` renames a new file over the old one, so that a writer that has the old one open
goes on into nothing (`FillUnlinked`). `Evidence` is what the doctor reads. `GatewayCrash` ends the gateway anywhere.
What a reader, a rewriting and the rescue keep of the lines is `LinesAt` the positions of these: `SelectSeq` says the same, but is
recursive, and nothing could be proved about it.

The history variable `overlapped` says that a write began between another's reading and its writing, which nothing in
the code prevents, and `erased` that the gateway ended with the file truncated. `KeptWhenAlone` has both
as provisos, and does not hold without either.

## Runs

All bounds are constants of the cfg files.

| Run | Instance | Shows |
| --- | --- | --- |
| `delivery_receipts` | 2 callers, 2 payloads, 2 chunks, 2 setbacks, live locks may age | exclusion, truth, no repetition, `RetriedIntentSettles` |
| `session_queue` | 3 tasks, 2 sessions, 3 objects | settling, refinement |
| `run_control` | 2 messages, 1 stop, 2 sessions, every `setup` | a stopped message starts no turn, later ones are spared, answers are honest, records go with tasks, every message leaves |
| `run_control_sessions` | the same | **violated**: a stop interrupts the turn of another session |
| `inbound_debouncer` | 3 messages, 2 keys | refinement per author, order, flush once, close, progress |
| `inbound_replay` | 3 deliveries, 2 messages, Map and file of 1 entry, 3 ticks, 2 setbacks | no second claim that the guard could know of |
| `workboard` | 1 autopilot, 1 run, 1 agent, 2 claims, 2 heartbeats, 2 setbacks | no operation strands a card, a claim is a lease, a claimed card does not stay running |
| `cron_daemon` | 1 job, intervals of 1 and multiples of 2, 2 operators with 2 changes, 3 times, 2 attempts, 1 crash | one run per window, no gap, what is due is handed on |
| `decision_cards` | 5 flows, 3 clicks, 2 calls, 1 tick, 2 setbacks | one decision, visible buttons work, resolved stays, running ends |
| `node_transport` | 2 requests, 1 runner, 2 submissions at a time, 2 setbacks | of what the runner parses nothing is skipped and all is answered; one result |
| `whatsapp_tap` | 3 taps of any kind, 1 message, 1 setback (a dropped claim is one) | one tap, one run while the claim is kept, a stop ends |
| `run_store` | a message's run, a schedule's with 1 retry, 2 rescues, 1 crash | every run found again unless writes overlap, evidence fails closed, running ends |

Why the bounds are enough to be of interest. Receipts: two callers suffice for every
takeover that involves a live caller (old owner and new owner), and for two takeovers of a lock that a call left when it crashed, because
its process may call again; two
chunks are the least with a half-sent message; two setbacks allow a crash after a lost answer
(a behaviour may call, crash and retry without end, only the number of mishaps is
bounded). Queue: three tasks are a running one, one to cancel and one behind it, and
with three objects a session can be forgotten twice. Run control: one stop and two
runs put every place of a run against every step of a stop, in the same and in
different sessions. Debouncer: three messages of free kind and key are the least for
a flush under way, a waiter and a third that could overtake or join. Replay: a Map and a
file of one entry each overflow with the second message, so that a third delivery can find either forgotten; three ticks
outlast a claim's two. Workboard: one worker of each kind; the second claim is the one that
meets the first, after it has expired or while it is being made. Cron: two operators make the append that comes after
another's remove; three times let a run last over two later windows; jobs share only the cursor file and the order of a
tick's runs, and the proofs have any number of them, of drivers, of times and of crashes. Cards: three clicks are a decision, its
sibling and a dialog's button; the second call of a card meets every state the first left; one tick outlasts the
buttons; two setbacks are a failed write and the crash after it. Node: two requests are what a cursor can confuse, two
submissions at a time are the one of a dead runner and the one of its successor; a second runner is left to the proofs. WhatsApp: three taps are a
dead owner and two that take over; more messages and more mishaps are left to the proofs. Run store: the two runs are the two
kinds of owner, of which one may append between the steps of the other; the second rescue meets the evidence that a crash left of the first.

The type invariants are theorems (`TypeCorrect`, `RunTypes`, `DebounceTypes`, `StoreCorrectTypes`). TLC checks the last three again: two of them say
more than types, namely what a bucket or a chain may hold, and how many records and replacements a rescue makes. `OnePayloadVisible`, `OneRunsPerSession`, `CountsAreExact`, `OneAtATime`, `CursorOnlyForward`, `RemovedStaysSilent`,
`DeliveredIsFinal`, `NoFalseDuplicate`, `SpentOnDisk` and `NoLockLeft` are
theorems too, and no run repeats them.

Deadlock is not checked: in each of these systems it is legal that nothing
happens any more (all calls answered, no messages left).

### The violation

* `StopsOnlyOneSession` (`test/discord-run-control.test.ts`: "stops only one session,
  interrupts its run, and cancels its queued work"). Two sessions' runs share the
  client. The run of the second listens when `turn/started` of the first arrives and
  records that turn as its own. A stop of the second session interrupts the first's turn.

Nine further behaviours of the models disagree with a document, a comment, a test or another part of the code and have no run of their own:

* Two callers can send one intent at the same time (`deliveryReceiptStore.ts:290`; `test/delivery-receipt-store.test.ts:25`:
  "serializes concurrent attempts and sends only once"). A caller dies and leaves its lock. Two callers stat it and find it stale.
  The first unlinks it, opens its own and sends (`UnlinkStale`, `Reopen`); the second unlinks that new lock, opens its own, and sends too
  (`usurped`). The recipient sees a chunk twice only when the platform forgets the nonce (`NoRepeatWhileRemembered`).
* A run can be lost (`runStore.ts:121`; `README.md:9`: "Runs are persisted, redacted, and replayable"). Two runs read the file (`Read`).
  The first writes its line, and its writer goes on; the second writes the file from what it had read, and the first is
  no longer on record (`overlapped`). A gateway that ends between the truncation and the writing loses all of them (`erased`).
* A medium can be overtaken by later text (`inboundDebouncer.ts:93`; the test at
  `test/discord-shadow-tap.test.ts:248` keeps media "immediate"). Text 1 is in its bucket when medium 2
  arrives: the bucket is flushed and runs, 2 waits for it (`EnqueueBehind`). Text 3 arrives, its timer fires,
  and its batch is chained at once. When text 1 is done, 3 is run before 2 is chained (`GoOn`).
* Two deliveries of one message can both be claimed (`discordInboundReplayGuard.ts:136`; the comment at
  `discordShadowTap.ts:551` says that a reconnect cannot process a message twice). They
  arrive while the file is being read for the first. Neither is in the Map yet, both lookups miss. `OnceAfterAnswer` is what holds:
  whoever arrives after the answer is a duplicate.
* A late cron daemon stays behind (`cronStoreSnapshot.ts:86`; the comment at `cronDaemonRuntime.ts:32` describes a bounded back-fill). A tick emits the
  window after the cursor's, while a later one is due already; `computeCatchupWindows` looks for windows between the last
  and the one emitted, and `NothingToCatchUp` proves that the store's snapshot never leaves any: the daemon runs everything it
  has missed, one window per tick (`NoGap`), and neither fills in nor drops.
* A stop can withdraw a message that was written after it (`discordRunControl.ts:142`; the test quoted above). The stop awaits an
  interrupt; a message comes in and is queued behind the run; the interrupt is answered and `cancelPending` withdraws all that
  waits (`StopAnswers`). `StopSparesLaterWork` excepts this window and no other.
* A run on the shared client is completed by any turn's completion (`codexAppServerHarness.ts:136`), its own or not: `Hears` and `Complete`
  have it, the counterpart of the violation above, and no property says otherwise.
* An approved `dir.fetch` is never answered (`neonNodeRunner.ts:1005`, against `neonNodeTransport.ts:281`, which dispatches it).
  The poll hands it out, the parser drops it, and the cursor is saved (`Poll`, `Parsed`).
* A card that is created as running is never swept (`workboardStore.ts:187`, `workboardStore.ts:355`; the RPC accepts the status): it
  runs for good unless somebody claims or finishes it.

### What history variables excuse

Where the code leaves a window open, a property does not hold in it, and names it by a variable that records that the window was
met: a lock usurped from a live caller (`usurped`), deliveries under way at once (`after`), ticks that overlap (`overlapped`),
operations on a card that overlap (`disturbed`), takeovers that overlap (`raced`), claims read too early (`shared`) or dropped
(`forgotten`), two submissions between check and append (`raced`), rewritings that overlap (`overlapped`). Such a property shows that the window is
the only way in which the thing can happen, not that it cannot happen. A hazard in `PROJECT.json` whose own window is excused lists
no property, or has a note that says what is excused.

### Fairness

* `DeliveryReceipts`: a caller that has started goes on (`Proceed`), and locks age.
  A call never has to be made: `RetriedIntentSettles` assumes the retries in its premise.
  No setback has to happen and none has to stop except by its bound.
* `SessionActorQueue`: microtasks run; a task ends, which `EveryMessageLeaves` gives for
  the tasks the queue has in the tap.
* `RunControl`: the run's own code goes on, because requests (30 s) and turns
  (`turnCompletionTimeoutMs`) have timeouts; a stop's interrupts fail at the latest by that timeout. Nothing is
  assumed of the app server.
* `InboundDebouncer`: timers fire and promises are resumed; that a batch ends is again
  `EveryMessageLeaves`.

* `Workboard`: time passes, and the autopilots go on: the tap polls every 15 s
  (`startWorkboardAutopilotPoller`), and an execution ends because a run does. Nothing is assumed
  of runs and agents: what they leave behind, the sweep finds.

* `CronDaemon`: the timer's ticks (`setInterval` fires again, and finds the last tick done) and the steps of a tick. A run
  ends because a harness has time-outs (`EveryMessageLeaves`) and attempts are few. `DueIsEmitted` excuses a
  daemon that is stopped or dies; nobody has to restart it.

* `DecisionCards`: a handler that has begun goes on; work ends because a run does. Users, callers and time do as they like.
* `NodeTransport`: a runner that runs goes on, and one that failed is restarted by its launch agent; a fetch has a time-out.
  The gateway handles what it was sent. A stopped runner need never start.
* `WhatsAppTap`: the queue and the release of a tap go on; a run ends, because its harness has a limit. No connection has to open, close or deliver.
* `RunStore`: a write that has begun ends, and a run ends as completed or failed, because its harness has a limit, unless its writer leaves it. Nobody has to retry, deliver or rescue.

`InboundReplay` has safety properties only.

## Proofs

Checked by tlapm for every value of the constants under the named assumptions of
the modules: at least one chunk, a finite set of tasks, "undefined" is neither a session nor an object,
intervals, patterns, attempts and times are at least 1.

**`RecordProofs`**, of `DeliveryReceipts` (`Invariance` is the inductive step). The invariant adds to the
properties what each place of a call knows: between `record` and `unlock` the receipt
is not delivered, and carries the caller's payload once the attempt is recorded;
a caller at chunk *n* has shown chunks 1 to *n*-1 of its payload; what is
visible belongs to the payload of the receipt; without usurpation at most one caller is
critical and the lock exists while one is. From it: `TypeCorrect`, `Exclusive`,
`Truthful`, `Unmixed`, `Final`. `Unrepeated` needs only that a chunk that
is visible is remembered unless something was forgotten, and so holds for callers that
share the lock.

Of `RunStore` (`StoreInvariance`). `KeptWhenAlone` looks at the file only, and says nothing of what writers and rescue have read of it
and are about to write. The invariant does. As long as no write began between another's reading and its writing (`Alone`), one writer
or one rescue is at the file at a time (`OneWriter`); the lines a rewriting holds have every run with its last status, its own with the new
one (`WhatIsKept`); a rescue has in hand exactly what the file still holds, and what it will leave out is in the archive before it is
(`WhatIsRescued`). From it: `RunsAreKept`. For the evidence, and whoever overlaps: unless a rescue died between its record and its last step,
which leaves a record that is not applied, there are as many records as replacements (`Records`); from it: `EvidenceFailsClosed`,
and with the counters of rescues and records `StoreCorrectTypes`. The lemmas
`LinesListed`, `KeptByLinesAt`, `NoneByLinesAt` say what a selection of lines holds: the chosen positions are numbered by how many come
before them, a numbering without gaps because an injection of a finite set into itself is onto.

**`SessionProofs`**, of `SessionActorQueue`. The invariant says that a task that has not settled belongs
to the live object of its session (that is why `cleanupIdle` may forget an object),
that ids on an object are distinct and below `nextId`, that every task before an active or settled
one has settled, and that the counters are the cardinalities of the task sets. From it:
`TypeCorrect`, `Serialised`, `Exact`, and `Implements`, the refinement, with one lemma per
action.

Of `RunControl` (`RunInvariance`). None of the properties is inductive: each of them depends on where a message stands. The invariant says which phase of
its task each place of a message has (`Staged`), that no turn is asked for before the place for it (`Unasked`), that a run which listens
to its signal has a controller that a stop finds, or is aborted already, and that one which a stop has found before its request is aborted (`InReach`), that what is aborted was written before a stop of its session (`AbortedIsOlder`), and so was what waits in the queue of a session whose stop awaits nothing (`QueuedIsOlder`), that records and aims are of turns the app server has begun
and that an interrupt that was answered left its turn no longer in progress (`KnownTurns`), that "stopped" and "idle" come only when all that was aimed at
was answered (`Answers`), and that of two unfinished tasks of a session one is ahead of the other (`InLine`).
From it: `RunTypes`, `StoppedIsNotAsked`, `LaterWorkIsSpared`, `RecordsGoWithTasks`, `VerdictsAreHonest`, `OneRunPerSession`;
and `RunsAreSerial`: every step of the runs and the stops is a step of `SerialExecutor` or leaves the queue alone. With `Implements` that
joins the two modules, for any messages, sessions and stops.

**`InboundProofs`**, of `InboundReplay`. The invariant says that every record in the Map, in the file and about to be
written to it has a witness, a delivery that holds or held the claim until that time, and that a delivery
that is waiting for the file has read the present clock. A claim is never undone, so a witness stays one (`WitnessStays`). From it:
`TypeCorrect`, with the limit of the Map, and `NoneDroppedFalsely`. The eviction is proved to remove one
record (`NewestBounded`) from the well-foundedness of the ranks. `ClaimedOnce` needs the other direction (`ClaimsHeld`): whoever holds a
claim is in the Map, for its whole lifetime, unless it was lost from there (`Remembered`), and in the file and in whatever a register is about
to write to it, unless it was lost from there (`OnFile`, `InContent`); a disabled guard has lost the file for all
(`DisabledLoses`); and when a delivery asks the file, a claim that was answered before it arrived has run out by then or is lost from the Map (`StillMissing`).

Of `InboundDebouncer` (`DebounceInvariance`). A batch waits for the one before it, and the Map holds the last one of a key; that no two run at once
does not follow from this, because `finally` takes the entry away when a batch settles, and the next message begins a chain anew. The invariant
(`Chain`) therefore ranks the batches: those of a key that are not over have different ranks, each waits for one that is not over and ranks at least as high
as any below it, the entry of the key is there and has the highest, and later text is in a batch of a higher rank. A new batch takes a rank above all.
`Standing`, `Texts` and `Links` say what buckets and batches hold: a batch is named by its first message, and what is in a bucket is later
than all the text that was flushed. From it: `DebounceTypes`, `OneBatchAtATime`, `WaitingIsNotFlushed`, `TextsRunInOrder`, and with `Closing` `CloseWaits`.
The ranks also give the refinement (`AuthorIsSerial`, and for all authors at once `ImplementsPerAuthor`): following the links down from the
entry of the key one meets every batch of the key that is not over (`TailIsLast`, by the least rank in a set that is closed under the links),
so a new batch waits for exactly the tasks that the abstract executor puts before it; a batch that is ready has nothing before it
(`NoneAhead`); and a batch that settles leaves the links of the others as they are, but for itself. One lemma per kind of step follows
(`AuthorFlush`, `AuthorStart`, `AuthorFinish`, `AuthorQuiet`).

**`WorkboardProofs`**. Without any assumption on overlap: no draft is of a card that runs without a claim (`DraftsSound`),
hence `NoneStrands`. While nothing has disturbed it, one draft
is pending at most, the board knows every valid lease, and a draft takes none away but its own worker's;
tokens differ. From it: `LeasesHold` and `TypeCorrect`.

**`CronDaemonProofs`** (`IInvStep` is the inductive step). Whether or not ticks overlap: only a tick in its runs has
something running, and a silenced job has no schedule (`SilencedBare`); hence `TypeCorrect` and `RemovedNeverRuns`. While no tick has read a
cursor that another was about to write (`Sequential`): one tick at most is between reading and writing; every window that is on record
or about to be run is covered by the cursor, or the cursor was lost and it is older than the process (`Covered`); the tick that writes
has read what is in the file (`FreshRead`), and what it plans is newer than any window known (`Planned`, from `DueIsLater`); and what waits for its run has
not been run (`Unstarted`). From it: `RunsOnce` and `CursorMovesForward`. The second driver of a cursor is covered by these proofs
alone: with two drivers and changes of the store the state space is beyond TLC. `NothingToCatchUp` is about the operators alone.
`NothingLeftOut` adds that a series begins at or before the cursor (`Series`) and that what a tick is about to take up follows the
cursor (`PlannedNext`): the next window of the schedule comes right after the one that is covered.

**`DecisionCardsProofs`**. Types need `Holdings`: what the caller and each click have in hand by where they stand. The
rest is `Registered`. The registry's file is what memory holds; every generation of buttons that is
visible, that somebody may still post or that a session names was registered completely and is not the one about to be registered;
the action a click has dispatched is used, and its group spent, as long as it
lives; a dialog's button is in the registry. From it: `ConsumptionIsDurable` and `VisibleIsRegistered`. Steps that leave the registry alone are
one lemma (`Quiet`), which each of them instantiates.

The decisions (`CardInvariance`) need to know that a card has one generation of buttons that can be pressed (`OneGeneration`), that two
clicks under way have dispatched two buttons, and not two of a group (`Apart`), that a dialog was opened by a click that has decided nothing
(`Dialogs`), and that what was pressed is used, or forgotten together with all the buttons of its card (`UsedUp`); a handler that may write finds the session
pending or running, and a caller under way holds one that nobody decides (`SessionHeld`). From it: `DecidedOnce` and `ResolutionStands`.

**`NodeTransportProofs`**. The invariant adds that a runner waits for exactly one submission, and nobody else for that one (`OneSubmission`);
that of the cursors a runner or the health file holds, everything ready that the runner can parse (`Due`) was refused, and of the poll in hand everything
such was refused, is still to do or is on its way (`Progress`); and that a result about to be
appended is of an approved action and the first one, or another was appended meanwhile (`Ingested`).
From it: `NothingIsSkipped` and `ResultsAreIngestedOnce`, for any number of runners and submissions.

**`WhatsAppTapProofs`**. The invariant says whose lock the file can be, by where that process stands (`LockShape`), that without overlapping takeovers
who acquired the lock has it and who is about to remove one removes a dead one's (`Owned`), and that a claim which no other living
tap could overlook is, until it is dropped, in the file and in the memory of every living tap (`Claims`).
From it: `OneTapAtATime`, `MessagesRunOnce` and `LocksAreReleased`, for any taps, messages and crashes.

Every safety property that a run checks is a theorem, but for `StopsOnlyOneSession`, which does not hold. Only model-checked is liveness
(`RetriedIntentSettles`, `EveryTaskSettles`, `EveryMessageLeaves`, `EveryMessageIsRun`, `RunningEnds`, `DueIsEmitted`,
`RunningIsResolved`, `ApprovedIsAnswered`, `StopEnds`, `EndsOnRecord`), because the prover reasons neither about fairness nor about ENABLED. Types that no run
checks (`TypeCorrect`) are proved.

## Not modelled, and why

Wording, redaction, previews, embeds, reactions, typing and progress cards decide nothing
of the above. Cutover gates are pure functions of the environment. The eviction of
controllers and cutoffs beyond 5000 entries and the difference between Discord's
clock and the tap's are left out of `RunControl`, which says so. Components listed as
`not_modelled` in `PROJECT.json` are either planned below or reads and one-shot commands.

Hazards of the parts that are not modelled, or that no property states yet:

* `shadowGateway.ts:74`: a harness that throws leaves its message's run as running on record, for good (`RunStore` has it as `Abandon`);
* `sharedClient.ts:32` counts a lease after it awaited the client, which `retireWhenIdle` may close in between;
* `neonNodeRunnerService.ts:611` looks whether an approval was executed before the execution and records it after;
* `deliveryDispatch.ts:97` reads prior dispatches before and writes after: only the receipts keep two dispatches apart;
* `discordRunControl.ts:83` keeps the controllers of ended runs, so that a stop of an idle session answers "stopped" (`RunControl` has it);
* `codexAppServerHarness.ts:413`: the turn of a run that gave up goes on beside the next one (`RunControl` has it);
* `discordShadowTap.ts:1028`: a batch carries the time of its last message, so that text from before a stop is run with text from after it;
* `discordShadowTap.ts:1060`: a message is claimed before it is processed, and lost with a crash in between (`InboundReplay` has it);
* `workboardDispatcher.ts:111` goes through a list it read once, and may execute a card that is done (`Workboard` has it);
* `discordProgressCard.ts:95` registers its stop button in one consumption group per session, with a new expiry for
  every card: a second card of the session while the first button is registered is refused by the registry
  (`discordComponentActionRegistry.ts:287`; `DecisionCards` has the rule, the progress card is not one of its flows);
* `cronStore.ts:207`: a late enable brings a removed job back (`RemovedNeverRuns` says what that cannot do).

## Plan

In order:

1. `HeartbeatDaemon` on the lines of `CronDaemon`, with commitments.
2. `ClientPool`: leases and retirement; request ids, time-outs and late answers.
3. `DeliveryDispatch` above `DeliveryReceipts`.
4. `NodeActions`: request, approval and execution of a runner service action; `Roundtable`.
5. `MemoryWriteback` (snapshot, rotation, rollback) with the live index.
6. A composition of `InboundDebouncer` and `RunControl`, for the hazard of a batch whose
   time is that of its last message; the dedupe of cards by message above `Workboard`.
7. Proofs: an abstract log of runs that `RunStore` implements while nobody overlaps, and an abstract lease that `Workboard` implements;
   the safety half of the liveness properties (what keeps a premise true until its end), for `DecisionCards` and `NodeTransport` first.
