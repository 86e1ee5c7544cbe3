------------------------------- MODULE RunStore -------------------------------
(***************************************************************************)
(* The file of runs (src/gateway/runStore.ts): one line per run, which every *)
(* channel, the schedules and the operator's commands write, and the         *)
(* operator's rescue (runStoreRescue.ts), which moves the failed runs into an *)
(* archive and leaves evidence of it for the doctor.                        *)
(*                                                                         *)
(* A run rewrites the whole file each time its status changes: it reads the  *)
(* lines, leaves out its own, and writes the rest and its new one over the    *)
(* file, which is truncated first.  The runs of a gateway are those of its   *)
(* sessions and its schedules, and nothing makes one wait for another.       *)
(* The first line of a message's run, or the only one, may instead be        *)
(* appended: that of a command, of a WhatsApp message and of a tap that does *)
(* not keep its runs live.                                                  *)
(***************************************************************************)
EXTENDS Naturals, FiniteSets, Sequences, SequencesExt

CONSTANTS
    Runs,
    Scheduled,      \* the runs that a schedule starts, and no message
    MaxRetries,     \* bound: a failed schedule's run starts again
    MaxRescues,     \* bound: rescues the operator starts
    MaxCrashes      \* bound: ends of the gateway's process, and of the rescue's

ASSUME RunStoreAssumption ==
    /\ Scheduled \subseteq Runs
    /\ MaxRetries \in Nat /\ MaxRescues \in Nat /\ MaxCrashes \in Nat

\* What a run's line says.  A closed run is a completed one whose line is not written
\* again: its reply is out, or the line says why it is not, or it is a schedule's that
\* was blocked and completed without having run.  A cancelled one is written, read and
\* kept as a completed one is.
Ended == {"completed", "failed", "closed"}
Statuses == {"running"} \cup Ended
Unwritten == "unwritten"
Line(r, status) == [run |-> r, status |-> status]

\* A line cut in two, that does not parse.
Debris == [run |-> "none", status |-> "debris"]

Steps == {"idle", "truncate", "fill", "unlinked"}
Idle == [step |-> "idle", status |-> Unwritten, lines |-> <<>>]
RescueSteps == {"check", "archive", "prepare", "replace", "apply"}
NoRescue == [step |-> "idle", kept |-> <<>>, failed |-> {}]

VARIABLES
    file,       \* the lines of runs.jsonl
    op,         \* the rewriting a run is in: what it writes
    told,       \* what the writer of a run was last told is on record
    retries,
    gone,       \* the runs whose writer has left them for good
    rescue,     \* the rescue under way: the lines it keeps, the runs it takes out
    rescues,
    archive,    \* the failed runs of the archive's files
    evidence,   \* the supersession records: "prepared" or "applied" by rescue
    crashes,
    overlapped, \* history: two have written the file, one on what it read before the other
    erased,     \* history: the gateway ended between the truncation and the writing
    replaced    \* history: the number of files that a rescue has put in place

gatewayVars == <<op, told, retries, gone>>
rescueVars == <<rescue, rescues, archive, evidence, replaced>>
faultVars == <<crashes, erased>>
storeVars == <<file, gatewayVars, rescueVars, faultVars, overlapped>>

StoreInit ==
    /\ file = <<>>
    /\ op = [r \in Runs |-> Idle]
    /\ told = [r \in Runs |-> Unwritten]
    /\ retries = 0 /\ gone = {}
    /\ rescue = NoRescue /\ rescues = 0
    /\ archive = {} /\ evidence = <<>> /\ replaced = 0
    /\ crashes = 0 /\ overlapped = FALSE /\ erased = FALSE

-----------------------------------------------------------------------------
(* Reading the file.                                                        *)

\* The lines at these positions, in their order.  SelectSeq is recursive; this says the
\* same in a form that the proofs about it can use.
LinesAt(lines, positions) ==
    [n \in 1..Cardinality(positions) |->
        lines[CHOOSE i \in positions : Cardinality({j \in positions : j <= i}) = n]]

\* Where the lines are that parse.  A rewriting keeps the others, too.
Parsed(lines) == {i \in DOMAIN lines : lines[i] # Debris}
Corrupt(lines) == Debris \in ToSet(lines)
WithoutRun(lines, r) == LinesAt(lines, {i \in DOMAIN lines : lines[i].run # r})

Rewriting == {r \in Runs : op[r].step \in {"truncate", "fill"}}
Rescuing == rescue.step \in RescueSteps \ {"apply"}

-----------------------------------------------------------------------------
(* A run.                                                                   *)

\* What a run's line may change to.  A schedule's run may be blocked or fail before it
\* runs, run again after a failure that is transient, and is written once more when its
\* reply was sent or was not; a command's answer is complete at once.
Successors(r) ==
    CASE told[r] = Unwritten   -> {"running"} \cup
                                  IF r \in Scheduled THEN {"closed", "failed"} ELSE {"completed"}
      [] told[r] = "running"   -> {"completed", "failed"}
      [] told[r] = "completed" -> {"closed"}
      [] told[r] = "failed"    -> IF r \in Scheduled /\ retries < MaxRetries THEN {"running"} ELSE {}
      [] told[r] = "closed"    -> {}

\* Mutant: a run's old line stays.
LinesOld(r, status) == Append(file, Line(r, status))

\* Mutant: a run that has ended is not written over the line it has.
LinesFirst(r, status) ==
    IF r \in {line.run : line \in ToSet(file)} THEN file ELSE Append(file, Line(r, status))

\* The lines a rewriting of the file will write.
Lines(r, status) == Append(WithoutRun(file, r), Line(r, status))

Read(r, status) ==
    /\ op[r].step = "idle" /\ r \notin gone
    /\ status \in Successors(r)
    /\ op' = [op EXCEPT ![r] = [step |-> "truncate", status |-> status, lines |-> Lines(r, status)]]
    /\ retries' = IF told[r] = "failed" THEN retries + 1 ELSE retries
    /\ overlapped' = (overlapped \/ Rewriting # {} \/ Rescuing)
    /\ UNCHANGED <<file, told, gone, rescueVars, faultVars>>

Truncate(r) ==
    /\ op[r].step = "truncate"
    /\ op' = [op EXCEPT ![r].step = "fill"]
    /\ file' = <<>>
    /\ UNCHANGED <<told, retries, gone, rescueVars, faultVars, overlapped>>

\* What another wrote meanwhile is written over from its beginning on: some of its end
\* is left, and the line before it may be cut in two.
Remainders(lines) ==
    {<<>>} \cup UNION {{SubSeq(lines, k, Len(lines)), <<Debris>> \o SubSeq(lines, k, Len(lines))} :
                       k \in 2..Len(lines) + 1}

Told(r) == told' = [told EXCEPT ![r] = op[r].status]

Fill(r) ==
    /\ op[r].step = "fill"
    /\ \E rest \in Remainders(file) : file' = op[r].lines \o rest
    /\ Told(r)
    /\ op' = [op EXCEPT ![r] = Idle]
    /\ UNCHANGED <<retries, gone, rescueVars, faultVars, overlapped>>

\* The file that was opened is no longer the one that has its name.
FillUnlinked(r) ==
    /\ op[r].step = "unlinked"
    /\ Told(r)
    /\ op' = [op EXCEPT ![r] = Idle]
    /\ UNCHANGED <<file, retries, gone, rescueVars, faultVars, overlapped>>

\* The harness throws, before its turn or after it: a schedule's run is then written as
\* failed, but the tap only reports the error of a message.
Abandon(r) ==
    /\ r \notin Scheduled
    /\ op[r].step = "idle" /\ told[r] = "running" /\ r \notin gone
    /\ gone' = gone \cup {r}
    /\ UNCHANGED <<file, op, told, retries, rescueVars, faultVars, overlapped>>

\* A first line that is appended comes at the end, wherever that is.
AppendRun(r, status) ==
    /\ r \notin Scheduled
    /\ op[r].step = "idle" /\ told[r] = Unwritten /\ r \notin gone
    /\ file' = Append(file, Line(r, status))
    /\ told' = [told EXCEPT ![r] = status]
    /\ overlapped' = (overlapped \/ Rewriting # {} \/ Rescuing)
    /\ UNCHANGED <<op, retries, gone, rescueVars, faultVars>>

-----------------------------------------------------------------------------
(* The rescue.                                                              *)

RescueGo(step) == rescue' = [rescue EXCEPT !.step = step]

RunsOf(lines, statuses) == {line.run : line \in {l \in ToSet(lines) : l.status \in statuses}}

\* A plan without a failed run ends here.
RescueRead ==
    /\ rescue.step = "idle" /\ rescues < MaxRescues
    /\ RunsOf(file, {"failed"}) # {}
    /\ rescues' = rescues + 1
    /\ rescue' = [step   |-> "check",
                  kept   |-> LinesAt(file, {i \in Parsed(file) : file[i].status # "failed"}),
                  failed |-> RunsOf(file, {"failed"})]
    /\ overlapped' = (overlapped \/ Rewriting # {})
    /\ UNCHANGED <<file, gatewayVars, archive, evidence, replaced, faultVars>>

\* The file is read again for its digest; lines that do not parse are for the operator.
RescueCheck ==
    /\ rescue.step = "check"
    /\ IF Corrupt(file) THEN rescue' = NoRescue ELSE RescueGo("archive")
    /\ UNCHANGED <<file, gatewayVars, rescues, archive, evidence, replaced, faultVars, overlapped>>

\* Mutant: no record is made before the file is replaced.
RescueArchiveUnprepared ==
    /\ rescue.step = "archive"
    /\ archive' = archive \cup rescue.failed
    /\ RescueGo("replace")
    /\ UNCHANGED <<file, gatewayVars, rescues, evidence, replaced, faultVars, overlapped>>

RescueArchive ==
    /\ rescue.step = "archive"
    /\ archive' = archive \cup rescue.failed
    /\ RescueGo("prepare")
    /\ UNCHANGED <<file, gatewayVars, rescues, evidence, replaced, faultVars, overlapped>>

RescuePrepare ==
    /\ rescue.step = "prepare"
    /\ evidence' = Append(evidence, "prepared")
    /\ RescueGo("replace")
    /\ UNCHANGED <<file, gatewayVars, rescues, archive, replaced, faultVars, overlapped>>

\* A new file gets the name, and who has the old one open writes into that.
RescueReplace ==
    /\ rescue.step = "replace"
    /\ file' = rescue.kept
    /\ replaced' = replaced + 1
    /\ op' = [r \in Runs |-> IF op[r].step = "fill" THEN [op[r] EXCEPT !.step = "unlinked"] ELSE op[r]]
    /\ RescueGo("apply")
    /\ UNCHANGED <<told, retries, gone, rescues, archive, evidence, faultVars, overlapped>>

\* Mutant: a second record is made, and the first one stays as it is.
RescueApplyAnew ==
    /\ rescue.step = "apply"
    /\ evidence' = Append(evidence, "applied")
    /\ rescue' = NoRescue
    /\ UNCHANGED <<file, gatewayVars, rescues, archive, replaced, faultVars, overlapped>>

RescueApply ==
    /\ rescue.step = "apply"
    /\ evidence' = [evidence EXCEPT ![Len(evidence)] = "applied"]
    /\ rescue' = NoRescue
    /\ UNCHANGED <<file, gatewayVars, rescues, archive, replaced, faultVars, overlapped>>

\* What the doctor and the cutover report make of the records.
Evidence ==
    IF "prepared" \in ToSet(evidence) THEN "invalid"
    ELSE IF evidence # <<>> THEN "ready" ELSE "empty"

-----------------------------------------------------------------------------
(* The ends of the processes.                                               *)

\* The gateway ends: what it was writing stays as it is, and the runs that were under
\* way are not taken up again, nor is their line ever corrected.
GatewayCrash ==
    /\ crashes < MaxCrashes
    /\ crashes' = crashes + 1
    /\ erased' = (erased \/ \E r \in Runs : op[r].step = "fill")
    /\ op' = [r \in Runs |-> Idle]
    /\ gone' = gone \cup {r \in Runs : told[r] # Unwritten \/ op[r].step # "idle"}
    /\ UNCHANGED <<file, told, retries, rescueVars, overlapped>>

\* The rescue's process ends, or one of its writes fails.
RescueCrash ==
    /\ crashes < MaxCrashes /\ rescue.step # "idle"
    /\ crashes' = crashes + 1
    /\ rescue' = NoRescue
    /\ UNCHANGED <<file, gatewayVars, rescues, archive, evidence, replaced, erased, overlapped>>

-----------------------------------------------------------------------------
Rewrite(r) == Truncate(r) \/ Fill(r) \/ FillUnlinked(r)

StoreNext ==
    \/ \E r \in Runs : Rewrite(r) \/ Abandon(r) \/ \E status \in Statuses : Read(r, status)
    \/ \E r \in Runs, status \in {"completed", "failed"} : AppendRun(r, status)
    \/ RescueRead \/ RescueCheck \/ RescueArchive \/ RescuePrepare \/ RescueReplace \/ RescueApply
    \/ GatewayCrash \/ RescueCrash

StoreSpec == StoreInit /\ [][StoreNext]_storeVars

\* Writes end, and so does a run: its harness has time-outs.
StoreFairSpec ==
    /\ StoreSpec
    /\ \A r \in Runs : WF_storeVars(Rewrite(r)) /\ WF_storeVars(\E s \in {"completed", "failed"} : Read(r, s))

-----------------------------------------------------------------------------
(* Properties.                                                              *)

StoreTypeOK ==
    /\ LET Written == [run : Runs, status : Statuses] \cup {Debris} IN
       /\ file \in Seq(Written)
       /\ op \in [Runs -> [step : Steps, status : Statuses \cup {Unwritten}, lines : Seq(Written)]]
       /\ rescue.kept \in Seq(Written)
    /\ told \in [Runs -> Statuses \cup {Unwritten}]
    /\ retries \in 0..MaxRetries /\ gone \subseteq Runs
    /\ rescue.step \in RescueSteps \cup {"idle"}
    /\ rescue.failed \subseteq Runs /\ archive \subseteq Runs
    /\ evidence \in Seq({"prepared", "applied"}) /\ Len(evidence) <= rescues
    /\ rescues \in 0..MaxRescues /\ replaced \in 0..rescues
    /\ crashes \in 0..MaxCrashes
    /\ {overlapped, erased} \subseteq BOOLEAN

\* Where the lines of a run are.
PlacesOf(lines, r) == {i \in DOMAIN lines : lines[i].run = r}

\* What the file holds, or will hold when the rewriting that has truncated it is done,
\* and the status that this gives a run.
Content ==
    IF \E r \in Runs : op[r].step = "fill"
    THEN op[CHOOSE r \in Runs : op[r].step = "fill"].lines ELSE file
Due(r) == IF op[r].step = "fill" THEN op[r].status ELSE told[r]

\* Whatever was written of a run is found again, once, with its last status: its line is
\* in the file, or it failed and a rescue has put it into the archive, wherever a rescue
\* stopped half way (writeNeonGatewayRunLatest, rescueNeonGatewayRunStore).  What this
\* takes is that no write began between another's reading and its writing, and that the
\* gateway did not end between the truncation and the writing of the lines.
KeptWhenAlone ==
    ~overlapped /\ ~erased =>
        \A r \in Runs : Due(r) # Unwritten =>
            \/ \E i \in PlacesOf(Content, r) :
                  PlacesOf(Content, r) = {i} /\ Content[i] = Line(r, Due(r))
            \/ Due(r) = "failed" /\ r \in archive /\ PlacesOf(Content, r) = {}

\* The doctor and the cutover report trust the evidence only if every file a rescue put in
\* place has its record, applied, whichever step a rescue failed at, and however the
\* gateway's writes came between (readNeonRunStoreSupersessionEvidence).
FailsClosed == Evidence # "invalid" => Len(evidence) = replaced

\* A run is not shown as running for ever: its line says in the end that it has ended,
\* even after a failure and another attempt, or a rescue that wrote the file meanwhile.
\* That takes that its writer does not leave it, as the end of the gateway and an error
\* of a message's run do; and two writers that overlap can put its old line back.
EndsOnRecord ==
    \A r \in Runs : <>[](overlapped \/ r \in gone \/ Line(r, "running") \notin ToSet(file))

=============================================================================
