------------------------------ MODULE BatchImport ------------------------------
(***************************************************************************)
(* One explicit Import of the kept Papers: the worker thread of            *)
(* application/batch_import.py and the guarded completion of               *)
(* application/export_attempts.py, over the CaptureCoordinator they share  *)
(* with the Connector's HTTP routes.                                       *)
(*                                                                         *)
(* A step of the worker is what it does between two points where another   *)
(* thread may run: a section under the service's mutex or the              *)
(* coordinator's lock, or one read or write of a Paper file.  The mutex is *)
(* held across two of them (Reserve, Begin), and Start and Stop wait.      *)
(***************************************************************************)
EXTENDS CaptureCoordinator, FiniteSets

CONSTANTS
    MaxRevision,      \* edits of one Paper file (a bound)
    Rivals            \* who else competes for the browser or the Workspace

Phase == {"IDLE", "RUNNING", "STOPPED", "PAUSED", "BLOCKED", "COMPLETED"}
Result == {"exported", "no_effect", "uncertain", "blocked", "skipped"}

ASSUME BatchAssumption ==
    /\ MaxRevision \in Nat
    /\ Rivals \subseteq ReadOnlyKind \cup {"reset"}
    /\ None \notin Paper \cup Result

Step == {"off", "planning", "choosing", "reserving", "starting", "waiting", "resolving",
         "matching", "comparing", "replacing", "finishing", "reporting", "ending", "publishing",
         "releasing"}

VARIABLES
    file,        \* a Paper file as the code compares it: its status and revision
    phase,       \* the published snapshot: BatchSnapshot.phase,
    current,     \*   current_paper_id
    results,     \*   and results, by Paper
    stopping,    \* the _stop event
    step,        \* where the worker is
    token,       \* its browser owner token
    planned,     \* the revision the plan froze of each Paper it will import
    remaining,   \* the Papers the loop has still to take
    reserved,    \* the revision in the current reservation
    ending,      \* the worker's local phase
    draft,       \* the result being established for the current Paper
    mine         \* history: the Paper of each request this batch generated

batchVars == <<file, phase, current, results, stopping, step, token, planned,
               remaining, reserved, ending, draft, mine>>
vars == <<captureVars, batchVars>>

\* The service's fields and the worker's locals hold what the code declares.
BatchTypeOK ==
    /\ file \in [Paper -> [status : {"kept", "exported", "other"}, revision : 0..MaxRevision]]
    /\ phase \in Phase /\ ending \in Phase
    /\ current \in Paper \cup {None}
    /\ results \in [Paper -> Result \cup {None}]
    /\ stopping \in BOOLEAN
    /\ step \in Step
    /\ token \in Owner \cup {None}
    /\ planned \in [Paper -> 0..MaxRevision]
    /\ remaining \subseteq Paper
    /\ reserved \in 0..MaxRevision
    /\ draft \in Result \cup {None}
    /\ mine \in [Request -> Paper \cup {None}]

NoRequests == [request \in Request |-> None]

BatchInit ==
    /\ Init
    /\ file \in [Paper -> [status : {"kept", "other"}, revision : {0}]]
    /\ phase = "IDLE" /\ ending = "IDLE"
    /\ current = None
    /\ results = [paper \in Paper |-> None]
    /\ stopping = FALSE
    /\ step = "off"
    /\ token = None
    /\ planned = [paper \in Paper |-> 0]
    /\ remaining = {}
    /\ reserved = 0
    /\ draft = None
    /\ mine = NoRequests

\* _matching_read and _read_target: the file is still the kept revision reserved.
Matches(paper, revision) == file[paper].status = "kept" /\ file[paper].revision = revision

-----------------------------------------------------------------------------
(***************************************************************************)
(* The user                                                                *)
(***************************************************************************)
\* Mutant: the worker checks for a stop, then starts the capture without the mutex.
MutexIgnored == TRUE
MutexFree == step # "starting"

\* A start while the worker is alive coalesces with it and changes nothing.
\* Request is a bound: a batch is started only while there are identities left.
Start(owner) ==
    /\ MutexFree
    /\ step = "off"
    /\ Cardinality(Request \ used) >= Cardinality(Paper)
    /\ ReserveBrowserTask("import", owner, NoDeadline)
    /\ stopping' = FALSE
    /\ phase' = "RUNNING" /\ current' = None
    /\ results' = [paper \in Paper |-> None]
    /\ step' = "planning"
    /\ token' = owner
    /\ remaining' = {}
    /\ ending' = "COMPLETED"
    /\ mine' = NoRequests
    /\ UNCHANGED <<file, planned, reserved, draft>>

StartBlocked ==
    /\ MutexFree
    /\ step = "off"
    /\ ~Reservable("import")
    /\ Snapshot
    /\ phase' = "BLOCKED" /\ current' = None
    /\ results' = [paper \in Paper |-> None]
    /\ UNCHANGED <<file, stopping, step, token, planned, remaining, reserved, ending, draft, mine>>

Stop ==
    /\ MutexFree
    /\ stopping' = TRUE
    /\ IF phase = "RUNNING" /\ current # None
       THEN StopUndispatched(current)
       ELSE UNCHANGED captureVars
    /\ UNCHANGED <<file, phase, current, results, step, token, planned, remaining,
                   reserved, ending, draft, mine>>

\* Obsidian, an Enrichment save or the user changes a Paper file at any time.
Edit(paper, status) ==
    /\ file[paper].revision < MaxRevision
    /\ file' = [file EXCEPT ![paper] = [status |-> status, revision |-> @.revision + 1]]
    /\ UNCHANGED <<captureVars, phase, current, results, stopping, step, token, planned,
                   remaining, reserved, ending, draft, mine>>

-----------------------------------------------------------------------------
(***************************************************************************)
(* The worker                                                              *)
(***************************************************************************)
Leave(why) == step' = "ending" /\ ending' = why

Report(result) == results' = [results EXCEPT ![current] = result]

\* The Workspace lock, the plan and the caller's authority check.
Plan ==
    /\ step = "planning"
    /\ remaining' = {paper \in Paper : file[paper].status = "kept"}
    /\ planned' = [paper \in Paper |-> file[paper].revision]
    /\ step' = "choosing"
    /\ UNCHANGED <<captureVars, file, phase, current, results, stopping, token, reserved,
                   ending, draft, mine>>

PlanFails ==
    /\ step = "planning"
    /\ Leave("BLOCKED")
    /\ UNCHANGED <<captureVars, file, phase, current, results, stopping, token, planned,
                   remaining, reserved, draft, mine>>

\* The head of the loop: the stop and readiness checks, then the next Paper.
Choose(paper) ==
    /\ step = "choosing"
    /\ paper \in remaining
    /\ ~stopping
    /\ Ready
    /\ Snapshot
    /\ current' = paper
    /\ remaining' = remaining \ {paper}
    /\ step' = "reserving"
    /\ UNCHANGED <<file, phase, results, stopping, token, planned, reserved, ending, draft, mine>>

ChooseNone ==
    /\ step = "choosing"
    /\ \/ /\ remaining = {}
          /\ UNCHANGED captureVars
          /\ Leave(IF stopping THEN "STOPPED" ELSE "COMPLETED")
       \/ /\ remaining # {} /\ stopping
          /\ UNCHANGED captureVars
          /\ Leave("STOPPED")
       \/ /\ remaining # {} /\ ~stopping /\ ~Ready
          /\ Snapshot
          /\ Leave("STOPPED")
    /\ UNCHANGED <<file, phase, current, results, stopping, token, planned, remaining,
                   reserved, draft, mine>>

\* The Workspace directory was moved or replaced: lock.verify raises.
WorkspaceLost ==
    /\ step = "choosing"
    /\ UNCHANGED captureVars
    /\ Leave("BLOCKED")
    /\ UNCHANGED <<file, phase, current, results, stopping, token, planned, remaining,
                   reserved, draft, mine>>

\* Under the mutex: the stop check, then the reservation of the planned revision.
Reserve ==
    /\ step = "reserving"
    /\ IF stopping
       THEN Leave("STOPPED") /\ UNCHANGED <<reserved, results>>
       ELSE IF Matches(current, planned[current])
            THEN /\ reserved' = planned[current]
                 /\ step' = "starting"
                 /\ UNCHANGED <<results, ending>>
            ELSE /\ Report("skipped")
                 /\ step' = "choosing"
                 /\ UNCHANGED <<reserved, ending>>
    /\ UNCHANGED <<captureVars, file, phase, current, stopping, token, planned, remaining, draft, mine>>

\* Still under the mutex: start_capture, which reads the Paper once more.
Begin(request) ==
    /\ step = "starting"
    /\ StartCapture(request, current, Matches(current, reserved))
    /\ mine' = [mine EXCEPT ![request] = current]
    /\ step' = "waiting"
    /\ UNCHANGED <<file, phase, current, results, stopping, token, planned, remaining,
                   reserved, ending, draft>>

BeginRefused ==
    /\ step = "starting"
    /\ LET valid == Matches(current, reserved) IN
       /\ StartCaptureRefused(valid)
       /\ IF StartOutcome(valid) = "CONNECTOR_UNAVAILABLE"
          THEN Leave("STOPPED") /\ UNCHANGED results
          ELSE Report("skipped") /\ step' = "choosing" /\ UNCHANGED ending
    /\ UNCHANGED <<file, phase, current, stopping, token, planned, remaining, reserved, draft, mine>>

Receive ==
    /\ step = "waiting"
    /\ WaitForCompletion
    /\ step' = "resolving"
    /\ UNCHANGED <<file, phase, current, results, stopping, token, planned, remaining,
                   reserved, ending, draft, mine>>

\* The result of a capture that Zotero did not confirm.
\* Mutants: the outcome itself reported, and a timeout reported as harmless.
OutcomeAsResult(outcome) == outcome
TimeoutAsNoEffect(outcome) == "no_effect"
ResultOf(outcome) == IF outcome = "FAILED" THEN "no_effect" ELSE "uncertain"

\* resolve_export_completion: the result is consumed before anything is written.
Resolve ==
    /\ step = "resolving"
    /\ ClaimCompletion
    /\ IF delivered.outcome = "CONFIRMED"
       THEN step' = "matching" /\ UNCHANGED draft
       ELSE step' = "finishing" /\ draft' = ResultOf(delivered.outcome)
    /\ UNCHANGED <<file, phase, current, results, stopping, token, planned, remaining,
                   reserved, ending, mine>>

\* Mutant: only the status is compared.
StillKept == file[current].status = "kept"
StillReserved == Matches(current, reserved)

\* commit_exported: the Paper is read again and compared with the reservation.
Match ==
    /\ step = "matching"
    /\ IF StillReserved
       THEN step' = "comparing" /\ UNCHANGED draft
       ELSE step' = "finishing" /\ draft' = "blocked"
    /\ UNCHANGED <<captureVars, file, phase, current, results, stopping, token, planned,
                   remaining, reserved, ending, mine>>

\* The comparisons of the write itself, of which only the last matters; creating the
\* new file beside the old one can fail as well.
Compare ==
    /\ step = "comparing"
    /\ \/ /\ StillReserved
          /\ step' = "replacing"
          /\ UNCHANGED draft
       \/ /\ step' = "finishing"
          /\ draft' = "blocked"
    /\ UNCHANGED <<captureVars, file, phase, current, results, stopping, token, planned,
                   remaining, reserved, ending, mine>>

\* The os.replace, which compares nothing: it is no transactional compare-and-set,
\* and an edit saved since the last comparison is overwritten.  A failure before it
\* leaves the file alone; a directory fsync that fails after it reports a failure
\* of a write that is there.
Replace ==
    /\ step = "replacing"
    /\ \/ /\ file' = [file EXCEPT ![current] = [status |-> "exported", revision |-> reserved]]
          /\ draft' \in {"exported", "blocked"}
       \/ /\ draft' = "blocked"
          /\ UNCHANGED file
    /\ step' = "finishing"
    /\ UNCHANGED <<captureVars, phase, current, results, stopping, token, planned,
                   remaining, reserved, ending, mine>>

\* The slot and its Workspace lock go back whatever the write came to.
\* Mutant: they do not, when the write fails.
ReleaseSlotIfWritten ==
    /\ step = "finishing"
    /\ IF draft = "blocked" THEN UNCHANGED captureVars ELSE FinishResolution
    /\ step' = "reporting"
    /\ UNCHANGED <<file, phase, current, results, stopping, token, planned, remaining,
                   reserved, ending, draft, mine>>
ReleaseSlot ==
    /\ step = "finishing"
    /\ FinishResolution
    /\ step' = "reporting"
    /\ UNCHANGED <<file, phase, current, results, stopping, token, planned, remaining,
                   reserved, ending, draft, mine>>

\* The batch goes on to another Paper only if no save it let out is unsettled.
\* Mutant: an accepted parent is taken for a settled save.
GoOnIfAccepted == draft = "exported" \/ SaveAuthorityEnded(CompletionOf(attempt, verdict[attempt.request]))
MayGoOn == SaveAuthorityEnded(CompletionOf(attempt, verdict[attempt.request]))

RecordResult ==
    /\ step = "reporting"
    /\ Report(draft)
    /\ draft' = None
    /\ IF MayGoOn THEN step' = "choosing" /\ UNCHANGED ending ELSE Leave("PAUSED")
    /\ UNCHANGED <<captureVars, file, phase, current, stopping, token, planned, remaining, reserved, mine>>

\* What the loop did not get to is reported skipped, and the Workspace lock goes
\* back; if the Workspace is gone by then the whole batch is reported blocked.
End ==
    /\ step = "ending"
    /\ ending' \in {ending, "BLOCKED"}
    /\ LET unfinished == {paper \in remaining \cup ({current} \ {None}) : results[paper] = None} IN
       results' = IF ending' = "COMPLETED" THEN results
                  ELSE [paper \in Paper |-> IF paper \in unfinished THEN "skipped" ELSE results[paper]]
    /\ remaining' = {}
    /\ step' = "publishing"
    /\ UNCHANGED <<captureVars, file, phase, current, stopping, token, planned, reserved, draft, mine>>

Publish ==
    /\ step = "publishing"
    /\ phase' = ending
    /\ current' = None
    /\ step' = "releasing"
    /\ UNCHANGED <<captureVars, file, results, stopping, token, planned, remaining, reserved,
                   ending, draft, mine>>

ReleaseBrowser ==
    /\ step = "releasing"
    /\ ReleaseBrowserTask("import", token)
    /\ step' = "off"
    /\ token' = None
    /\ UNCHANGED <<file, phase, current, results, stopping, planned, remaining, reserved,
                   ending, draft, mine>>

-----------------------------------------------------------------------------
\* The web process dies: only the Paper files stay.
RestartService ==
    /\ Restart
    /\ phase' = "IDLE" /\ ending' = "IDLE"
    /\ current' = None
    /\ results' = [paper \in Paper |-> None]
    /\ stopping' = FALSE
    /\ step' = "off"
    /\ token' = None
    /\ remaining' = {}
    /\ draft' = None
    /\ mine' = NoRequests
    /\ UNCHANGED <<file, planned, reserved>>

WorkerStep ==
    \/ Plan \/ PlanFails
    \/ \E paper \in Paper : Choose(paper)
    \/ ChooseNone \/ WorkspaceLost \/ Reserve
    \/ \E request \in Request : Begin(request)
    \/ BeginRefused
    \/ Receive \/ Resolve \/ Match \/ Compare \/ Replace \/ ReleaseSlot \/ RecordResult
    \/ End \/ Publish \/ ReleaseBrowser

UserStep ==
    \/ \E owner \in Owner : Start(owner)
    \/ StartBlocked \/ Stop
    \/ \E paper \in Paper, status \in {"kept", "other"} : Edit(paper, status)

\* What the coordinator does for everyone else.
SlotMatches == attempt # None /\ Matches(attempt.paper, reserved)
CoordinatorStep ==
    /\ \/ \E valid \in BOOLEAN : (valid => SlotMatches) /\ ConnectorCall(valid)
       \/ \E kind \in Rivals \ {"reset"}, owner \in Owner : BrowserTask(kind, owner)
       \/ /\ "reset" \in Rivals
          /\ \E workspace \in Workspace : ResetTakesGuard(workspace) \/ ResetDropsGuard(workspace)
       \/ Snapshot
    /\ UNCHANGED batchVars

Clock == Tick /\ UNCHANGED batchVars

BatchNext == WorkerStep \/ UserStep \/ CoordinatorStep \/ Clock \/ RestartService

\* The worker is a running thread and time passes; the Connector, the user and
\* the Reset owe nothing.
BatchFairness == WF_vars(WorkerStep) /\ WF_vars(Clock)

BatchSpec == BatchInit /\ [][BatchNext]_vars /\ BatchFairness

-----------------------------------------------------------------------------
(***************************************************************************)
(* Properties                                                              *)
(***************************************************************************)
\* Once a stop has been acknowledged no save permission leaves the process, for
\* the current Paper or any later one, however the Connector's claim, access
\* report and dispatch request fall around it.
StopRevokes == [][stopping /\ stopping' => escaped' = escaped]_vars

\* Within a batch a capture is begun only when every native save the batch let
\* out before has been settled by its own pipeline.
SerialSaves ==
    [][\A request \in used' \ used : \A grant \in grants : mine[grant.invocation.request] = None]_vars

\* The result shown for a Paper is true of what this batch did to it: "no effect"
\* and "skipped" mean that it was never offered to Zotero, "exported" that Zotero's
\* acceptance was received for it, "uncertain" that no answer settled it.
Asked(paper) == {request \in Request : mine[request] = paper}
Offered(paper) == \E invocation \in escaped : invocation.request \in Asked(paper)
ResultsAreTrue ==
    \A paper \in Paper :
        /\ results[paper] \in {"no_effect", "skipped"} => ~Offered(paper)
        /\ results[paper] = "exported" =>
              Offered(paper) /\ \A request \in Asked(paper) : verdict[request] = "CONFIRMED"
        /\ results[paper] = "uncertain" => \A request \in Asked(paper) : verdict[request] = "UNCONFIRMED"

\* An Import says of each Paper what it did to it, from fields of their declared kinds.
ImportIsSound == BatchTypeOK /\ ResultsAreTrue

\* However silent, slow or contradictory the Connector is, an Import comes to an
\* end and gives back the capture slot and the browser.
ImportEnds == step # "off" ~> step = "off" /\ ~operationLock /\ ~ImportOwned

\* The worker keeps the discipline that CaptureCoordinator assumes of its caller.
ImplementsCoordinator == Spec

\* What the whole promises for a Paper (see ParentExport).
ASSUME SlotAssumption ==
    None \notin [paper : Paper, stage : {"asked", "permitted", "accepted", "compared"},
                 intact : BOOLEAN]

Slot ==
    CASE Running(attempt) -> [paper |-> attempt.paper,
                              stage |-> IF attempt.invocation = None THEN "asked" ELSE "permitted",
                              intact |-> Matches(attempt.paper, reserved)]
      [] \E result \in {completion, delivered} \ {None} : result.outcome = "CONFIRMED" ->
            [paper |-> attempt.paper, stage |-> "accepted", intact |-> Matches(attempt.paper, reserved)]
      [] step \in {"matching", "comparing"} ->
            [paper |-> current, stage |-> "accepted", intact |-> Matches(current, reserved)]
      [] step = "replacing" ->
            [paper |-> current, stage |-> "compared", intact |-> Matches(current, reserved)]
      [] OTHER -> None

Promise == INSTANCE ParentExport WITH status <- [paper \in Paper |-> file[paper].status], slot <- Slot
ImplementsParentExport == Promise!Spec
===============================================================================
