--------------------------- MODULE BatchImportProofs ---------------------------
(***************************************************************************)
(* The safety properties of BatchImport for every value of its constants:  *)
(* any number of Papers, attempts, edits and rivals for the browser.  The  *)
(* first result is that the worker keeps the discipline CaptureCoordinator *)
(* assumes of its caller, so whatever is proved there holds here too.      *)
(***************************************************************************)
EXTENDS BatchImport, CaptureCoordinatorProofs

\* What holds of the coordinator under any caller that keeps its discipline.
CoordInv == TypeOK /\ DispatchInv /\ CaptureInv /\ BrowserIsAccountedFor /\ VerdictMatchesDispatch

-----------------------------------------------------------------------------
(***************************************************************************)
(* The worker and the capture in progress                                  *)
(***************************************************************************)
Writing == {"matching", "comparing", "replacing", "finishing"}
Capturing == Writing \cup {"waiting", "resolving", "reporting"}
OnPaper == Capturing \cup {"reserving", "starting"}

\* Where the worker is says who owns the browser, which Paper is current and
\* where the capture it started can be.
WorkerInv ==
    /\ step # "off" => token \in Owner /\ ImportOwned /\ browser.owner = token
    /\ step \notin {"off", "releasing"} => phase = "RUNNING"
    /\ step \in OnPaper => current \in Paper
    /\ step \in Capturing => attempt # None /\ attempt.paper = current
    /\ step = "waiting" => Running(attempt) \/ completion # None
    /\ step = "resolving" => delivered # None
    /\ step \in Writing => resolved # None
    /\ step \notin Writing \cup {"waiting", "resolving"} => NoCapture

\* After a stop nothing is about to be started, and what runs has its permission.
StopInv == stopping => step # "starting" /\ (Running(attempt) => attempt.invocation # None)

\* Every grant of this batch is that of its current attempt.
SerialInv ==
    /\ \A request \in Request : mine[request] # None => request \in used
    /\ \A grant \in grants : grant.invocation.request \in used
    /\ step \in Capturing => mine[attempt.request] = current
    /\ step \in Capturing =>
          \A grant \in grants : mine[grant.invocation.request] # None => grant.invocation = attempt.invocation
    /\ step \in {"planning", "choosing", "reserving", "starting"} =>
          \A grant \in grants : mine[grant.invocation.request] = None

\* The draft is what the capture's outcome allows.
DraftIsTrue ==
    /\ draft \in {"exported", "no_effect", "uncertain", "blocked"}
    /\ draft = "exported" => verdict[attempt.request] = "CONFIRMED"
    /\ draft = "no_effect" => verdict[attempt.request] = "FAILED"
    /\ draft = "uncertain" => verdict[attempt.request] = "UNCONFIRMED"

\* What a result claims of the requests made for its Paper.
Claim(paper) ==
    /\ results[paper] = "no_effect" => \A request \in Asked(paper) : verdict[request] = "FAILED"
    /\ results[paper] = "skipped" => Asked(paper) = {}
    /\ results[paper] = "exported" =>
          Asked(paper) # {} /\ \A request \in Asked(paper) : verdict[request] = "CONFIRMED"
    /\ results[paper] = "uncertain" => \A request \in Asked(paper) : verdict[request] = "UNCONFIRMED"

\* Which requests each Paper's result is about, before, while and after it is imported.
ResultsInv ==
    /\ \A paper \in Paper :
        /\ Claim(paper)
        /\ paper \in remaining => Asked(paper) = {} /\ results[paper] = None /\ paper # current
        /\ step = "planning" => Asked(paper) = {} /\ results[paper] = None
    /\ step = "planning" => current = None /\ remaining = {}
    /\ step \in {"reserving", "starting"} => Asked(current) = {}
    /\ step \in OnPaper => results[current] = None
    /\ step \in Capturing => Asked(current) = {attempt.request}
    /\ step \in {"choosing", "ending"} /\ current \in Paper /\ results[current] = None => Asked(current) = {}
    /\ step \in {"matching", "comparing", "replacing"} => verdict[attempt.request] = "CONFIRMED"
    /\ step \in {"finishing", "reporting"} => DraftIsTrue

\* A reservation is of a revision that the file has, or had.
RevisionInv == step \in Capturing \cup {"starting"} => reserved <= file[current].revision

-----------------------------------------------------------------------------
(***************************************************************************)
(* A call of the coordinator, as the worker meets it                       *)
(***************************************************************************)
\* A call that neither starts a capture, hands its result over nor gives the browser back.
Call ==
    \/ Snapshot \/ Tick
    \/ \E paper \in Paper : StopUndispatched(paper)
    \/ ImportOwned /\ Paper # {} /\ \E valid \in BOOLEAN : StartCaptureRefused(valid)
    \/ \E valid \in BOOLEAN : ConnectorCall(valid)
    \/ \E kind \in ReadOnlyKind, owner \in Owner : BrowserTask(kind, owner)
    \/ \E owner \in Owner : ReserveBrowserTask("import", owner, NoDeadline)
    \/ \E workspace \in Workspace : ResetTakesGuard(workspace) \/ ResetDropsGuard(workspace)
    \/ UNCHANGED captureVars

\* What may be new in the permissions: that of the running capture, its first.
NothingPermitted == grants' \subseteq grants /\ escaped' = escaped
FirstPermitted ==
    /\ Running(attempt) /\ Running(attempt)'
    /\ attempt.invocation = None
    /\ attempt'.invocation \in Invocation
    /\ attempt'.invocation.request = attempt.request
    /\ \A grant \in grants' : grant \in grants \/ grant.invocation = attempt'.invocation
    /\ escaped' = escaped \cup {attempt'.invocation}

\* Such a call leaves alone whatever is handed over, and of a running capture it
\* can only go on, let its permission out, or end with a completion.
CallEffect ==
    /\ UNCHANGED <<used, delivered, resolved>>
    /\ ImportOwned => browser' = browser
    /\ ~Running(attempt) => UNCHANGED <<attempt, completion>>
    /\ Running(attempt) =>
        /\ attempt' # None
        /\ attempt'.request = attempt.request /\ attempt'.paper = attempt.paper
        /\ attempt.invocation # None => attempt'.invocation = attempt.invocation
        /\ IF Running(attempt)' THEN completion' = completion
           ELSE completion' # None /\ completion'.invocation = attempt.invocation
    /\ NothingPermitted \/ FirstPermitted

\* Finishing the running capture is such an effect.
LEMMA FinishEffect ==
    ASSUME TypeOK, BrowserIsAccountedFor, Running(attempt), NEW outcome \in Outcome, Finish(outcome),
           browser' \in {browser, LiveBrowser},
           UNCHANGED <<used, delivered, resolved, grants, escaped>>
    PROVE  CallEffect
<1>1. attempt \in Attempt
  BY DEF Running, TypeOK
<1>2. attempt' \in Attempt /\ attempt'.stage = "FINISHED"
  BY <1>1 DEF Finish, Finished, Attempt, Stage
<1>3. /\ attempt'.request = attempt.request
      /\ attempt'.paper = attempt.paper
      /\ attempt'.invocation = attempt.invocation
  BY <1>1 DEF Finish, Finished, Attempt
<1>4. CompletionOf(attempt, outcome) \in Completion
  BY <1>1 DEF CompletionOf, Attempt, Completion
<1>5. completion' # None /\ completion'.invocation = attempt.invocation
  BY <1>4, NoneAssumption DEF Finish, CompletionOf
<1> QED BY <1>2, <1>3, <1>5, ImportNeverLapses, NoneAssumption DEF CallEffect, NothingPermitted, Running

\* So is applying what has expired.
LEMMA ExpiryEffect ==
    ASSUME TypeOK, BrowserIsAccountedFor, ExpireAttempt, ImportOwned => browser' = browser,
           UNCHANGED <<used, delivered, resolved, escaped>>, grants' \subseteq grants
    PROVE  CallEffect
<1>1. CASE Overdue
  <2>1. Running(attempt) /\ attempt \in Attempt /\ "UNCONFIRMED" \in Outcome
    BY <1>1 DEF Overdue, Running, Outcome, TypeOK
  <2>2. attempt' = Finished(attempt) /\ completion' = CompletionOf(attempt, "UNCONFIRMED")
    BY <1>1 DEF ExpireAttempt, LiveAttempt, LiveCompletion
  <2>3. attempt' \in Attempt /\ attempt'.stage = "FINISHED"
    BY <2>1, <2>2 DEF Finished, Attempt, Stage
  <2>4. /\ attempt'.request = attempt.request
        /\ attempt'.paper = attempt.paper
        /\ attempt'.invocation = attempt.invocation
    BY <2>1, <2>2 DEF Finished, Attempt
  <2>5. CompletionOf(attempt, "UNCONFIRMED") \in Completion
    BY <2>1 DEF CompletionOf, Attempt, Completion
  <2>6. completion' # None /\ completion'.invocation = attempt.invocation
    BY <2>2, <2>5, NoneAssumption DEF CompletionOf
  <2> QED BY <2>1, <2>3, <2>4, <2>6, NoneAssumption DEF CallEffect, NothingPermitted, Running
<1>2. CASE ~Overdue
  BY <1>2 DEF ExpireAttempt, LiveAttempt, LiveCompletion, CallEffect, NothingPermitted, Running
<1> QED BY <1>1, <1>2

\* And leaving the capture alone.
LEMMA StillEffect ==
    ASSUME ImportOwned => browser' = browser, grants' \subseteq grants,
           UNCHANGED <<attempt, completion, used, delivered, resolved, escaped>>
    PROVE  CallEffect
  BY DEF CallEffect, NothingPermitted, Running

\* Every such call has that effect.
LEMMA EffectOfCall == TypeOK /\ BrowserIsAccountedFor /\ Call => CallEffect
<1> SUFFICES ASSUME TypeOK, BrowserIsAccountedFor, Call PROVE CallEffect
  OBVIOUS
<1>1. ASSUME browser' \in {browser, LiveBrowser} PROVE ImportOwned => browser' = browser
  BY <1>1, ImportNeverLapses
<1>2. CASE Snapshot
  BY <1>1, <1>2, ExpiryEffect DEF Snapshot, Expire, ExpireBrowser
<1>3. CASE Tick
  <2>1. ImportOwned => browser' = browser
    BY <1>3, TimeoutAssumption DEF Tick, BrowserIsAccountedFor, NoDeadline
  <2>2. CASE Running(attempt) /\ ~Overdue
    <3>1. attempt \in Attempt /\ attempt' = [attempt EXCEPT !.age = @ + 1]
      BY <1>3, <2>2 DEF Tick, Running, TypeOK
    <3>2. attempt' \in Attempt
      BY <3>1 DEF Attempt
    <3>3. /\ attempt'.request = attempt.request /\ attempt'.paper = attempt.paper
          /\ attempt'.stage = attempt.stage /\ attempt'.invocation = attempt.invocation
      BY <3>1 DEF Attempt
    <3>4. UNCHANGED <<completion, used, delivered, resolved, grants, escaped>>
      BY <1>3 DEF Tick
    <3> QED BY <2>1, <2>2, <3>2, <3>3, <3>4, NoneAssumption DEF CallEffect, NothingPermitted, Running
  <2>3. CASE ~(Running(attempt) /\ ~Overdue)
    BY <1>3, <2>1, <2>3, StillEffect DEF Tick
  <2> QED BY <2>2, <2>3
<1>4. ASSUME NEW paper \in Paper, StopUndispatched(paper)
      PROVE  CallEffect
  <2>1. CASE Stoppable(paper)
    <3>1. Running(attempt)
      BY <2>1, StillRunning DEF Stoppable
    <3> QED BY <1>4, <2>1, <3>1, FinishEffect DEF StopUndispatched, ExpireBrowser, Outcome
  <2>2. CASE ~Stoppable(paper)
    BY <1>1, <1>4, <2>2, ExpiryEffect DEF StopUndispatched, ExpireBrowser
  <2> QED BY <2>1, <2>2
<1>5. ASSUME NEW valid \in BOOLEAN, StartCaptureRefused(valid)
      PROVE  CallEffect
  <2>1. CASE browser # None /\ browser.kind = "preparation"
    BY <1>5, <2>1, StillEffect DEF StartCaptureRefused
  <2>2. CASE ~(browser # None /\ browser.kind = "preparation")
    BY <1>1, <1>5, <2>2, ExpiryEffect DEF StartCaptureRefused, Expire, ExpireBrowser
  <2> QED BY <2>1, <2>2
<1>6. ASSUME NEW kind \in ReadOnlyKind, NEW owner \in Owner, BrowserTask(kind, owner)
      PROVE  CallEffect
  <2>1. CASE \E left \in LeaseTimes(kind) : ReserveBrowserTask(kind, owner, left)
    <3>1. LiveBrowser = None
      BY <2>1 DEF ReserveBrowserTask, Reservable
    <3>2. ~ImportOwned
      BY <3>1, ImportNeverLapses DEF ImportOwned
    <3> QED BY <2>1, <3>2, ExpiryEffect DEF ReserveBrowserTask
  <2>2. CASE ExtendBrowserTask(kind, owner, MaxLease)
    <3>1. ~ImportOwned
      BY <1>6, <2>2 DEF ExtendBrowserTask, Owns, LiveBrowser, ImportOwned, ReadOnlyKind
    <3> QED BY <2>2, <3>1, ExpiryEffect DEF ExtendBrowserTask
  <2>3. CASE ReleaseBrowserTask(kind, owner)
    <3>1. ImportOwned => browser' = browser
      BY <1>6, <2>3 DEF ReleaseBrowserTask, Owns, ImportOwned, ReadOnlyKind
    <3> QED BY <2>3, <3>1, StillEffect DEF ReleaseBrowserTask
  <2> QED BY <1>6, <2>1, <2>2, <2>3 DEF BrowserTask
<1>7. ASSUME NEW owner \in Owner, ReserveBrowserTask("import", owner, NoDeadline)
      PROVE  CallEffect
  <2>1. LiveBrowser = None
    BY <1>7 DEF ReserveBrowserTask, Reservable
  <2>2. ~ImportOwned
    BY <2>1, ImportNeverLapses DEF ImportOwned
  <2> QED BY <1>7, <2>2, ExpiryEffect DEF ReserveBrowserTask
<1>8. ASSUME NEW workspace \in Workspace, ResetTakesGuard(workspace) \/ ResetDropsGuard(workspace)
      PROVE  CallEffect
  BY <1>8, StillEffect DEF ResetTakesGuard, ResetDropsGuard, coordinatorVars
<1>9. CASE UNCHANGED captureVars
  BY <1>9, StillEffect DEF captureVars, coordinatorVars
<1>10. ASSUME NEW reachable \in BOOLEAN, Heartbeat(reachable)
       PROVE  CallEffect
  BY <1>1, <1>10, ExpiryEffect DEF Heartbeat, Expire, ExpireBrowser
<1>11. ASSUME NEW valid \in BOOLEAN, ClaimCommand(valid)
       PROVE  CallEffect
  <2>1. attempt \in Attempt /\ Running(attempt)
    BY <1>11, StillRunning DEF ClaimCommand
  <2>2. attempt' \in Attempt
    BY <1>11, <2>1 DEF ClaimCommand, Attempt, Stage
  <2>3. /\ attempt'.request = attempt.request /\ attempt'.paper = attempt.paper
        /\ attempt'.stage # "FINISHED" /\ attempt'.invocation = attempt.invocation
    BY <1>11, <2>1 DEF ClaimCommand, Attempt
  <2>4. UNCHANGED <<completion, used, delivered, resolved, grants, escaped>> /\ browser' = LiveBrowser
    BY <1>11 DEF ClaimCommand, ExpireBrowser
  <2> QED BY <1>1, <2>1, <2>2, <2>3, <2>4, NoneAssumption DEF CallEffect, NothingPermitted, Running
<1>12. ASSUME NEW request \in Request, NEW tab \in Tab, NEW reason \in AccessReason,
              RecordAccess(request, tab, reason)
       PROVE  CallEffect
  <2>1. attempt \in Attempt /\ Running(attempt)
    BY <1>12, StillRunning DEF RecordAccess, Unreported, ActiveFor
  <2>2. attempt' \in Attempt
    BY <1>12, <2>1 DEF RecordAccess, Attempt
  <2>3. /\ attempt'.request = attempt.request /\ attempt'.paper = attempt.paper
        /\ attempt'.stage = attempt.stage /\ attempt'.invocation = attempt.invocation
    BY <1>12, <2>1 DEF RecordAccess, Attempt
  <2>4. UNCHANGED <<completion, used, delivered, resolved, grants, escaped>> /\ browser' = LiveBrowser
    BY <1>12 DEF RecordAccess, ExpireBrowser
  <2> QED BY <1>1, <2>1, <2>2, <2>3, <2>4, NoneAssumption DEF CallEffect, NothingPermitted, Running
<1>13. ASSUME NEW invocation \in Invocation, NEW valid \in BOOLEAN,
              AuthorizeParentDispatch(invocation, valid)
       PROVE  CallEffect
  <2>1. attempt \in Attempt /\ Running(attempt) /\ attempt.request = invocation.request
    BY <1>13, StillRunning DEF AuthorizeParentDispatch, ActiveFor
  <2>2. attempt' = [attempt EXCEPT !.invocation = invocation] /\ attempt.invocation = None
    BY <1>13 DEF AuthorizeParentDispatch, Undispatched
  <2>3. attempt' \in Attempt
    BY <2>1, <2>2 DEF Attempt
  <2>4. /\ attempt'.request = attempt.request /\ attempt'.paper = attempt.paper
        /\ attempt'.stage = attempt.stage /\ attempt'.invocation = invocation
    BY <2>1, <2>2 DEF Attempt
  <2>5. /\ UNCHANGED <<completion, used, delivered, resolved>> /\ browser' = LiveBrowser
        /\ escaped' = escaped \cup {invocation}
        /\ \A grant \in grants' : grant \in grants \/ grant.invocation = invocation
    BY <1>13 DEF AuthorizeParentDispatch, ExpireBrowser
  <2>6. Running(attempt)'
    BY <2>1, <2>3, <2>4, NoneAssumption DEF Running
  <2> QED BY <1>1, <2>1, <2>2, <2>3, <2>4, <2>5, <2>6, NoneAssumption DEF CallEffect, FirstPermitted
<1>14. ASSUME NEW presented \in Invocation, NEW outcome \in Outcome,
              NEW stage \in FailureStage \cup {None},
              SubmitConnectorResult(presented, outcome, stage)
       PROVE  CallEffect
  <2>1. Running(attempt)
    BY <1>14, StillRunning DEF SubmitConnectorResult, Acceptable, ActiveFor
  <2> QED BY <1>14, <2>1, FinishEffect DEF SubmitConnectorResult, ExpireBrowser
<1>15. ASSUME NEW request \in Request, ReportImportBrowserIdle(request)
       PROVE  CallEffect
  BY <1>15, StillEffect DEF ReportImportBrowserIdle
<1>16. ASSUME NEW invocation \in Invocation, ReportNativeSaveSettled(invocation)
       PROVE  CallEffect
  BY <1>16, StillEffect DEF ReportNativeSaveSettled
<1> QED BY <1>2, <1>3, <1>4, <1>5, <1>6, <1>7, <1>8, <1>9, <1>10, <1>11, <1>12, <1>13, <1>14, <1>15, <1>16
        DEF Call, ConnectorCall

(***************************************************************************)
(* The batch as a caller                                                   *)
(***************************************************************************)
\* The steps of the batch in which the coordinator does more than answer a call.
Handing == Receive \/ Resolve \/ ReleaseSlot \/ ReleaseBrowser \/ RestartService
           \/ \E request \in Request : Begin(request)

\* What the others do, and time, is one call, or none.
LEMMA SurroundingCalls == CoordinatorStep \/ Clock \/ UNCHANGED vars => Call
<1>1. Rivals \ {"reset"} \subseteq ReadOnlyKind
  BY BatchAssumption
<1> QED BY <1>1 DEF CoordinatorStep, Clock, vars, Call

\* Every other step is one call, or none.
LEMMA BatchCalls == BatchTypeOK /\ WorkerInv /\ [BatchNext]_vars => Handing \/ Call
<1> SUFFICES ASSUME BatchTypeOK, WorkerInv, [BatchNext]_vars, ~Handing PROVE Call
  OBVIOUS
<1>1. CASE UserStep
  <2>1. ASSUME NEW owner \in Owner, Start(owner) PROVE Call
    BY <2>1 DEF Start, Call
  <2>2. CASE StartBlocked
    BY <2>2 DEF StartBlocked, Call
  <2>3. CASE Stop
    BY <2>3 DEF Stop, Call, BatchTypeOK
  <2>4. ASSUME NEW paper \in Paper, NEW status \in {"kept", "other"}, Edit(paper, status) PROVE Call
    BY <2>4 DEF Edit, Call
  <2> QED BY <1>1, <2>1, <2>2, <2>3, <2>4 DEF UserStep
<1>2. CASE WorkerStep
  <2>1. CASE BeginRefused
    <3>1. Matches(current, reserved) \in BOOLEAN
      BY DEF Matches
    <3>2. ImportOwned /\ current \in Paper
      BY <2>1 DEF BeginRefused, WorkerInv, OnPaper
    <3> QED BY <2>1, <3>1, <3>2 DEF BeginRefused, Call
  <2>2. ASSUME NEW paper \in Paper, Choose(paper) PROVE Call
    BY <2>2 DEF Choose, Call
  <2>3. CASE ChooseNone
    BY <2>3 DEF ChooseNone, Call
  <2>4. CASE \/ Plan \/ PlanFails \/ WorkspaceLost \/ Reserve \/ Match \/ Compare \/ Replace
             \/ RecordResult \/ End \/ Publish
    BY <2>4 DEF Plan, PlanFails, WorkspaceLost, Reserve, Match, Compare, Replace, RecordResult, End, Publish, Call
  <2> QED BY <1>2, <2>1, <2>2, <2>3, <2>4 DEF WorkerStep, Handing
<1> QED BY <1>1, <1>2, SurroundingCalls DEF BatchNext, Handing

\* A call is one that CaptureCoordinator allows of its surroundings.
LEMMA CallAllowed == Call => [Next]_captureVars
<1> SUFFICES ASSUME Call PROVE [Next]_captureVars
  OBVIOUS
<1>1. ASSUME NEW kind \in ReadOnlyKind, NEW owner \in Owner, BrowserTask(kind, owner) PROVE Next
  BY <1>1 DEF Next, BrowserNext, ReadOnlyKind
<1>2. ASSUME NEW owner \in Owner, ReserveBrowserTask("import", owner, NoDeadline) PROVE Next
  <2>1. NoDeadline \in LeaseTimes("import") /\ "import" \in Kind
    BY DEF LeaseTimes, Kind
  <2> QED BY <1>2, <2>1 DEF Next, BrowserNext, BrowserTask
<1>3. CASE \/ Snapshot \/ Tick
           \/ \E workspace \in Workspace : ResetTakesGuard(workspace) \/ ResetDropsGuard(workspace)
  BY <1>3 DEF Next, WorldNext
<1>4. CASE \/ \E paper \in Paper : StopUndispatched(paper)
           \/ ImportOwned /\ Paper # {} /\ \E valid \in BOOLEAN : StartCaptureRefused(valid)
  BY <1>4 DEF Next, WorkerNext
<1>5. CASE \E valid \in BOOLEAN : ConnectorCall(valid)
  BY <1>5 DEF Next, ConnectorNext
<1> QED BY <1>1, <1>2, <1>3, <1>4, <1>5 DEF Call

\* The worker calls the coordinator only as CaptureCoordinator assumes: it starts a
\* capture only under its own ownership and gives that back only without a capture.
LEMMA BatchSimulates == BatchTypeOK /\ WorkerInv /\ [BatchNext]_vars => [Next]_captureVars
<1> SUFFICES ASSUME BatchTypeOK, WorkerInv, [BatchNext]_vars PROVE [Next]_captureVars
  OBVIOUS
<1>1. Matches(current, reserved) \in BOOLEAN
  BY DEF Matches
<1>2. ASSUME NEW request \in Request, Begin(request) PROVE Next
  BY <1>1, <1>2 DEF Begin, WorkerInv, OnPaper, Next, WorkerNext
<1>3. CASE Receive \/ Resolve \/ ReleaseSlot
  BY <1>3 DEF Receive, Resolve, ReleaseSlot, Next, WorkerNext
<1>4. CASE ReleaseBrowser
  <2>1. token \in Owner /\ NoCapture
    BY <1>4 DEF ReleaseBrowser, WorkerInv, Writing
  <2> QED BY <1>4, <2>1 DEF ReleaseBrowser, Next, BrowserNext, BrowserTask, Kind
<1>5. CASE RestartService
  BY <1>5 DEF RestartService, Next, WorldNext
<1>6. CASE ~Handing
  BY <1>6, BatchCalls, CallAllowed
<1> QED BY <1>2, <1>3, <1>4, <1>5, <1>6 DEF Handing

(***************************************************************************)
(* The invariants, step by step                                            *)
(***************************************************************************)
\* What is proved of the coordinator by itself holds of it here.
LEMMA CoordKept == CoordInv /\ [Next]_captureVars => CoordInv'
  BY TypeNext, DispatchNext, CustodyNext, VerdictNext DEF CoordInv

\* Every field of the service and local of the worker keeps its declared kind.
LEMMA BatchTypeKept == TypeOK /\ BatchTypeOK /\ WorkerInv /\ [BatchNext]_vars => BatchTypeOK'
<1> SUFFICES ASSUME TypeOK, BatchTypeOK, WorkerInv, [BatchNext]_vars PROVE BatchTypeOK'
  OBVIOUS
<1> USE DEF BatchTypeOK
<1>1. ASSUME NEW owner \in Owner, Start(owner) PROVE BatchTypeOK'
  BY <1>1 DEF Start, Phase, Step, NoRequests
<1>2. CASE StartBlocked
  BY <1>2 DEF StartBlocked, Phase
<1>3. CASE Stop
  BY <1>3 DEF Stop
<1>4. ASSUME NEW paper \in Paper, NEW status \in {"kept", "other"}, Edit(paper, status) PROVE BatchTypeOK'
  <2>1. file[paper].revision + 1 \in 0..MaxRevision
    BY <1>4, BatchAssumption DEF Edit
  <2>2. file' \in [Paper -> [status : {"kept", "exported", "other"}, revision : 0..MaxRevision]]
    BY <1>4, <2>1 DEF Edit
  <2> QED BY <1>4, <2>2 DEF Edit
<1>5. CASE Plan \/ PlanFails
  BY <1>5 DEF Plan, PlanFails, Leave, Phase, Step
<1>6. ASSUME NEW paper \in Paper, Choose(paper) PROVE BatchTypeOK'
  BY <1>6 DEF Choose, Step
<1>7. CASE ChooseNone \/ WorkspaceLost
  BY <1>7 DEF ChooseNone, WorkspaceLost, Leave, Phase, Step
<1>8. CASE Reserve
  <2>1. current \in Paper
    BY <1>8 DEF Reserve, WorkerInv, OnPaper
  <2> QED BY <1>8, <2>1 DEF Reserve, Report, Leave, Phase, Step, Result
<1>9. ASSUME NEW request \in Request, Begin(request) PROVE BatchTypeOK'
  BY <1>9 DEF Begin, Step
<1>10. CASE BeginRefused
  BY <1>10 DEF BeginRefused, Report, Leave, Phase, Step, Result
<1>11. CASE Receive \/ Resolve \/ Match \/ Compare
  <2>1. delivered # None => ResultOf(delivered.outcome) \in Result
    BY DEF ResultOf, Result
  <2> QED BY <1>11, <2>1 DEF Receive, Resolve, ClaimCompletion, Match, Compare, Step, Result
<1>12. CASE Replace
  <2>1. current \in Paper
    BY <1>12 DEF Replace, WorkerInv, OnPaper, Capturing, Writing
  <2>2. file' \in [Paper -> [status : {"kept", "exported", "other"}, revision : 0..MaxRevision]]
    BY <1>12, <2>1 DEF Replace
  <2> QED BY <1>12, <2>2 DEF Replace, Step, Result
<1>13. CASE ReleaseSlot
  BY <1>13 DEF ReleaseSlot, Step
<1>14. CASE RecordResult
  BY <1>14 DEF RecordResult, Report, Leave, Phase, Step, Result
<1>15. CASE End
  <2>1. ending' \in Phase /\ results' \in [Paper -> Result \cup {None}]
    BY <1>15 DEF End, Phase, Result
  <2> QED BY <1>15, <2>1 DEF End, Step
<1>16. CASE Publish \/ ReleaseBrowser
  BY <1>16 DEF Publish, ReleaseBrowser, Step
<1>17. CASE RestartService
  BY <1>17 DEF RestartService, Phase, Step, NoRequests
<1>18. CASE CoordinatorStep \/ Clock \/ UNCHANGED vars
  BY <1>18 DEF CoordinatorStep, Clock, vars, batchVars
<1> QED BY <1>1, <1>2, <1>3, <1>4, <1>5, <1>6, <1>7, <1>8, <1>9, <1>10, <1>11, <1>12, <1>13,
           <1>14, <1>15, <1>16, <1>17, <1>18 DEF BatchNext, UserStep, WorkerStep

\* Through a call the capture stays the same one, and where it was handed over.
LEMMA CaptureFollowed ==
    ASSUME CoordInv, CoordInv', CallEffect
    PROVE  /\ NoCapture => NoCapture'
           /\ Running(attempt) \/ completion # None => Running(attempt)' \/ completion' # None
           /\ delivered' = delivered /\ resolved' = resolved
           /\ attempt # None =>
                attempt' # None /\ attempt'.paper = attempt.paper /\ attempt'.request = attempt.request
           /\ ImportOwned => browser' = browser
  BY DEF CoordInv, CallEffect, NoCapture, CaptureInv, LockMeaning, Running

\* No step takes the worker out of step with the capture it started.
LEMMA WorkerKept ==
    CoordInv /\ CoordInv' /\ BatchTypeOK /\ WorkerInv /\ [BatchNext]_vars => WorkerInv'
<1> SUFFICES ASSUME CoordInv, CoordInv', BatchTypeOK, WorkerInv, [BatchNext]_vars PROVE WorkerInv'
  OBVIOUS
<1>1. Call => CallEffect
  BY EffectOfCall DEF CoordInv
<1>2. ASSUME Call, UNCHANGED <<phase, current, step, token>> PROVE WorkerInv'
  BY <1>1, <1>2, CaptureFollowed DEF WorkerInv, ImportOwned, Writing, Capturing, OnPaper
<1>3. ASSUME NEW owner \in Owner, Start(owner) PROVE WorkerInv'
  <2>1. ReserveBrowserTask("import", owner, NoDeadline)
    BY <1>3 DEF Start
  <2>2. NoCapture
    BY <2>1, NothingPendingMeans DEF ReserveBrowserTask, Reservable, CoordInv
  <2>3. NoCapture'
    BY <1>1, <2>1, <2>2, CaptureFollowed DEF Call
  <2>4. ImportOwned' /\ browser'.owner = owner
    <3>1. browser' \in Task
      BY <2>1, TimeoutAssumption DEF ReserveBrowserTask, Task, Kind, NoDeadline
    <3> QED BY <2>1, <3>1, NoneAssumption DEF ReserveBrowserTask, ImportOwned
  <2> QED BY <1>3, <2>3, <2>4 DEF Start, WorkerInv, Writing, Capturing, OnPaper
<1>4. CASE StartBlocked
  <2>1. Call
    BY <1>4 DEF StartBlocked, Call
  <2> QED BY <1>1, <1>4, <2>1, CaptureFollowed DEF StartBlocked, WorkerInv, Writing, Capturing, OnPaper
<1>5. CASE Stop
  <2>1. Call
    BY <1>5 DEF Stop, Call, BatchTypeOK
  <2> QED BY <1>2, <1>5, <2>1 DEF Stop
<1>6. ASSUME NEW paper \in Paper, NEW status \in {"kept", "other"}, Edit(paper, status) PROVE WorkerInv'
  BY <1>2, <1>6 DEF Edit, Call
<1>7. CASE Plan \/ PlanFails \/ WorkspaceLost \/ Reserve
  <2>1. UNCHANGED captureVars
    BY <1>7 DEF Plan, PlanFails, WorkspaceLost, Reserve
  <2>2. NoCapture' /\ UNCHANGED <<browser, attempt>>
    BY <1>7, <2>1 DEF Plan, PlanFails, WorkspaceLost, Reserve, WorkerInv, Writing, NoCapture,
       captureVars, coordinatorVars, Running
  <2> QED BY <1>7, <2>2 DEF Plan, PlanFails, WorkspaceLost, Reserve, Leave, WorkerInv, ImportOwned,
         Writing, Capturing, OnPaper
<1>8. ASSUME NEW paper \in Paper, Choose(paper) PROVE WorkerInv'
  <2>1. Call
    BY <1>8 DEF Choose, Call
  <2> QED BY <1>1, <1>8, <2>1, CaptureFollowed DEF Choose, WorkerInv, ImportOwned, Writing, Capturing, OnPaper
<1>9. CASE ChooseNone
  <2>1. Call
    BY <1>9 DEF ChooseNone, Call
  <2> QED BY <1>1, <1>9, <2>1, CaptureFollowed
       DEF ChooseNone, Leave, WorkerInv, ImportOwned, Writing, Capturing, OnPaper
<1>10. ASSUME NEW request \in Request, Begin(request) PROVE WorkerInv'
  <2>1. /\ attempt' = [request |-> request, paper |-> current, stage |-> "WAITING_FOR_CONNECTOR",
                       age |-> 0, invocation |-> None, access |-> None, accessTab |-> None]
        /\ browser' = LiveBrowser
    BY <1>10 DEF Begin, StartCapture, ExpireBrowser
  <2>2. current \in Paper /\ ImportOwned
    BY <1>10 DEF Begin, WorkerInv, OnPaper
  <2>3. attempt' \in Attempt
    BY <2>1, <2>2 DEF Attempt, Stage
  <2>4. Running(attempt)'
    BY <2>1, <2>3, NoneAssumption DEF Running
  <2>5. browser' = browser
    BY <2>1, <2>2, ImportNeverLapses DEF CoordInv
  <2> QED BY <1>10, <2>1, <2>3, <2>4, <2>5, NoneAssumption
         DEF Begin, WorkerInv, ImportOwned, Writing, Capturing, OnPaper
<1>11. CASE BeginRefused
  <2>1. Matches(current, reserved) \in BOOLEAN /\ ImportOwned /\ current \in Paper
    BY <1>11 DEF Matches, BeginRefused, WorkerInv, OnPaper
  <2>2. Call
    BY <1>11, <2>1 DEF BeginRefused, Call
  <2> QED BY <1>1, <1>11, <2>1, <2>2, CaptureFollowed
       DEF BeginRefused, Leave, WorkerInv, ImportOwned, Writing, Capturing, OnPaper
<1>12. CASE Receive
  <2>1. browser' = browser
    BY <1>12, ImportNeverLapses DEF Receive, WaitForCompletion, ExpireBrowser, WorkerInv, CoordInv
  <2>2. attempt' # None /\ attempt'.paper = attempt.paper /\ attempt # None
    <3>1. attempt # None /\ attempt \in Attempt
      BY <1>12 DEF Receive, WorkerInv, Capturing, CoordInv, TypeOK
    <3>2. Finished(attempt) \in Attempt /\ Finished(attempt).paper = attempt.paper
      BY <3>1 DEF Finished, Attempt, Stage
    <3> QED BY <1>12, <3>1, <3>2, NoneAssumption DEF Receive, WaitForCompletion, LiveAttempt
  <2>3. delivered' # None
    BY <1>12 DEF Receive, WaitForCompletion
  <2> QED BY <1>12, <2>1, <2>2, <2>3 DEF Receive, WorkerInv, ImportOwned, Writing, Capturing, OnPaper
<1>13. CASE Resolve
  BY <1>13 DEF Resolve, ClaimCompletion, WorkerInv, ImportOwned, Writing, Capturing, OnPaper
<1>14. CASE Match \/ Compare \/ Replace
  BY <1>14 DEF Match, Compare, Replace, WorkerInv, ImportOwned, Writing, Capturing, OnPaper,
     captureVars, coordinatorVars
<1>15. CASE ReleaseSlot
  <2>1. NoCapture'
    <3>1. resolved # None
      BY <1>15 DEF ReleaseSlot, FinishResolution
    <3> QED BY <1>15, <3>1 DEF ReleaseSlot, FinishResolution, NoCapture, Running, CoordInv, CaptureInv, LockMeaning
  <2> QED BY <1>15, <2>1 DEF ReleaseSlot, FinishResolution, WorkerInv, ImportOwned, Writing, Capturing, OnPaper
<1>16. CASE RecordResult \/ End \/ Publish
  <2>1. UNCHANGED captureVars
    BY <1>16 DEF RecordResult, End, Publish
  <2>2. NoCapture' /\ UNCHANGED <<browser, attempt>>
    BY <1>16, <2>1 DEF RecordResult, End, Publish, WorkerInv, Writing, NoCapture,
       captureVars, coordinatorVars, Running
  <2> QED BY <1>16, <2>2 DEF RecordResult, End, Publish, Leave, WorkerInv, ImportOwned,
         Writing, Capturing, OnPaper
<1>17. CASE ReleaseBrowser
  <2>1. NoCapture'
    BY <1>17 DEF ReleaseBrowser, ReleaseBrowserTask, WorkerInv, Writing, NoCapture, Running
  <2> QED BY <1>17, <2>1 DEF ReleaseBrowser, WorkerInv, Writing, Capturing, OnPaper
<1>18. CASE RestartService
  BY <1>18 DEF RestartService, Restart, WorkerInv, Writing, Capturing, OnPaper, NoCapture, Running
<1>19. CASE CoordinatorStep \/ Clock \/ UNCHANGED vars
  <2>1. Call
    BY <1>19, SurroundingCalls
  <2> QED BY <1>2, <1>19, <2>1 DEF CoordinatorStep, Clock, vars, batchVars
<1> QED BY <1>3, <1>4, <1>5, <1>6, <1>7, <1>8, <1>9, <1>10, <1>11, <1>12, <1>13,
           <1>14, <1>15, <1>16, <1>17, <1>18, <1>19 DEF BatchNext, UserStep, WorkerStep

\* What the proofs below rest on, of the coordinator and of the worker.
ImportInv == CoordInv /\ BatchTypeOK /\ WorkerInv

\* It holds of a fresh process,
LEMMA ImportInit == BatchInit => ImportInv
<1> SUFFICES ASSUME BatchInit PROVE ImportInv
  OBVIOUS
<1>1. TypeOK
  BY TypeInit DEF BatchInit
<1>2. CoordInv
  BY <1>1, NoneAssumption DEF BatchInit, Init, CoordInv, DispatchInv, CaptureInv, LockMeaning, HandoffIsCurrent,
     EveryClaimCanRetire, BrowserIsAccountedFor, ImportOwned, Running, VerdictMatchesDispatch, Outcome
<1>3. BatchTypeOK
  <2>1. file \in [Paper -> [status : {"kept", "exported", "other"}, revision : 0..MaxRevision]]
    BY BatchAssumption DEF BatchInit
  <2>2. 0 \in 0..MaxRevision
    BY BatchAssumption
  <2> QED BY <2>1, <2>2 DEF BatchInit, BatchTypeOK, Phase, Step, NoRequests
<1>4. WorkerInv
  BY DEF BatchInit, Init, WorkerInv, Writing, Capturing, OnPaper, NoCapture, Running
<1> QED BY <1>2, <1>3, <1>4 DEF ImportInv

\* and every step keeps it.
LEMMA ImportKept == ImportInv /\ [BatchNext]_vars => ImportInv'
  BY BatchSimulates, CoordKept, BatchTypeKept, WorkerKept DEF ImportInv, CoordInv

LEMMA ImportInvariant == BatchSpec => []ImportInv
  BY ImportInit, ImportKept, PTL DEF BatchSpec

\* The batch worker, the user, the rivals and the Connector together do only what
\* CaptureCoordinator allows of its surroundings, so its theorems hold of every Import:
\* a capture is started only under the Import's own, unlapsed ownership of the browser,
\* and that is given back only when the capture's result has been written.
THEOREM BatchKeepsDiscipline == BatchSpec => ImplementsCoordinator
<1>1. BatchInit => Init
  BY DEF BatchInit
<1>2. ImportInv /\ [BatchNext]_vars => [Next]_captureVars
  BY BatchSimulates DEF ImportInv
<1> QED BY <1>1, <1>2, ImportInvariant, PTL DEF BatchSpec, Spec, ImplementsCoordinator

\* So, of every Import: the Reset exclusion lasts as long as its escaped saves, its
\* verdicts are earned, and browser, lock, hand-off and claimed pages agree.
THEOREM ImportIsInCustody == BatchSpec => [](GuardFollowsGrants /\ VerdictMatchesDispatch /\ CustodyIsSound)
  BY BatchKeepsDiscipline, GuardCustody, VerdictsAreEarned, CustodyHolds, PTL DEF ImplementsCoordinator

-----------------------------------------------------------------------------
(***************************************************************************)
(* A stop revokes                                                          *)
(***************************************************************************)
\* A capture runs only while the worker waits for it.
LEMMA RunsWhileWaiting == ImportInv /\ Running(attempt) => step = "waiting"
  BY DEF ImportInv, CoordInv, CaptureInv, LockMeaning, WorkerInv, NoCapture, Writing

\* The stop of a batch leaves no running capture without its permission.
LEMMA StopEffect ==
    ASSUME ImportInv, Stop, Running(attempt)'
    PROVE  attempt'.invocation # None
<1>1. Call
  BY DEF Stop, Call, ImportInv, BatchTypeOK
<1>2. Running(attempt)
  BY <1>1, EffectOfCall DEF ImportInv, CoordInv, CallEffect
<1>3. phase = "RUNNING" /\ current \in Paper /\ attempt.paper = current
  BY <1>2, RunsWhileWaiting DEF ImportInv, WorkerInv, OnPaper, Capturing
<1>4. StopUndispatched(current)
  BY <1>3, BatchAssumption DEF Stop
<1>5. attempt \in Attempt
  BY <1>2 DEF Running, ImportInv, CoordInv, TypeOK
<1>6. Finished(attempt).stage = "FINISHED"
  BY <1>5 DEF Finished, Attempt
<1>7. ~Stoppable(current)
  BY <1>4, <1>6 DEF StopUndispatched, Finish, Running
<1>8. ~Overdue /\ attempt' = attempt
  BY <1>4, <1>6, <1>7 DEF StopUndispatched, ExpireAttempt, LiveAttempt, Running
<1> QED BY <1>2, <1>3, <1>7, <1>8 DEF Stoppable, LiveAttempt

\* No step starts a capture, or lets one run unpermitted, after a stop.
LEMMA StopKept == ImportInv /\ StopInv /\ [BatchNext]_vars => StopInv'
<1> SUFFICES ASSUME ImportInv, StopInv, [BatchNext]_vars, stopping'
             PROVE  step' # "starting" /\ (Running(attempt)' => attempt'.invocation # None)
  BY DEF StopInv
<1>1. Call => (stopping /\ Running(attempt)' => attempt'.invocation # None)
  BY EffectOfCall DEF ImportInv, CoordInv, CallEffect, StopInv
<1>2. ImportInv'
  BY ImportKept
<1>3. CASE Stop
  BY <1>3, StopEffect DEF Stop, MutexFree
<1>4. CASE Handing
  <2>1. stopping /\ step # "starting"
    BY <1>4 DEF Handing, Receive, Resolve, ReleaseSlot, ReleaseBrowser, RestartService, Begin, StopInv
  <2>2. CASE Receive
    <3>1. delivered' # None /\ step' # "starting"
      BY <2>2 DEF Receive, WaitForCompletion
    <3> QED BY <1>2, <3>1 DEF ImportInv, CoordInv, CaptureInv, LockMeaning
  <2>3. CASE Resolve \/ ReleaseSlot \/ ReleaseBrowser
    BY <2>1, <2>3 DEF Resolve, ReleaseSlot, ReleaseBrowser, ClaimCompletion, FinishResolution, ReleaseBrowserTask,
       StopInv, Running
  <2> QED BY <1>4, <2>1, <2>2, <2>3 DEF Handing, RestartService, Begin
<1>5. CASE ~Handing /\ ~Stop
  <2>1. Call
    BY <1>5, BatchCalls DEF ImportInv
  <2>2. stopping /\ step' # "starting"
    BY <1>5 DEF BatchNext, UserStep, WorkerStep, CoordinatorStep, Clock, vars, batchVars, Handing, StopInv,
       Start, StartBlocked, Edit, Plan, PlanFails, Choose, ChooseNone, WorkspaceLost, Reserve, BeginRefused, Match,
       Compare, Replace, RecordResult, End, Publish, Leave
  <2> QED BY <1>1, <2>1, <2>2
<1> QED BY <1>3, <1>4, <1>5

\* Once stopped, a batch lets no save permission out, whichever of any number of
\* captures the stop falls in and whatever the Connector had already asked.
THEOREM StopIsFinal == BatchSpec => StopRevokes
<1>1. BatchInit => StopInv
  BY DEF BatchInit, StopInv
<1>2. BatchSpec => [](ImportInv /\ StopInv)
  BY <1>1, StopKept, ImportInvariant, PTL DEF BatchSpec
<1>3. ImportInv /\ StopInv /\ [BatchNext]_vars => [stopping /\ stopping' => escaped' = escaped]_vars
  <2> SUFFICES ASSUME ImportInv, StopInv, [BatchNext]_vars, stopping, stopping' PROVE escaped' = escaped
    OBVIOUS
  <2>1. CASE Handing
    BY <2>1 DEF Handing, Receive, Resolve, ReleaseSlot, ReleaseBrowser, RestartService, Begin, WaitForCompletion,
       ClaimCompletion, FinishResolution, ReleaseBrowserTask, Restart, StartCapture
  <2>2. CASE Call
    BY <2>2, EffectOfCall DEF ImportInv, CoordInv, CallEffect, NothingPermitted, FirstPermitted, StopInv
  <2> QED BY <2>1, <2>2, BatchCalls DEF ImportInv
<1> QED BY <1>2, <1>3, PTL DEF BatchSpec, StopRevokes

-----------------------------------------------------------------------------
(***************************************************************************)
(* Saves are serial                                                        *)
(***************************************************************************)
\* A call adds at most the grant of the capture the worker is waiting for.
LEMMA SerialByCall ==
    ASSUME ImportInv, SerialInv, Call, UNCHANGED <<step, mine>>, step \in Capturing => current' = current
    PROVE  SerialInv'
<1>1. CallEffect
  BY EffectOfCall DEF ImportInv, CoordInv
<1>2. step \in Capturing => attempt # None
  BY DEF ImportInv, WorkerInv
<1>3. step \in Capturing => attempt'.request = attempt.request
  BY <1>1, <1>2 DEF CallEffect
<1>4. \A grant \in grants : grant.invocation \in Invocation
  BY DEF ImportInv, CoordInv, TypeOK, Grant
<1>5. CASE NothingPermitted
  <2>1. ASSUME step \in Capturing, NEW grant \in grants', mine[grant.invocation.request] # None
        PROVE  grant.invocation = attempt'.invocation
    <3>1. grant \in grants /\ grant.invocation = attempt.invocation
      BY <1>5, <2>1 DEF NothingPermitted, SerialInv
    <3>2. attempt.invocation # None
      BY <1>4, <3>1, NoneAssumption
    <3> QED BY <1>1, <1>2, <3>1, <3>2, <2>1 DEF CallEffect
  <2> QED BY <1>1, <1>3, <1>5, <2>1 DEF SerialInv, NothingPermitted, CallEffect
<1>6. CASE FirstPermitted
  <2>1. step = "waiting" /\ step \in Capturing
    BY <1>6, RunsWhileWaiting DEF FirstPermitted, Capturing
  <2>2. attempt.request \in used /\ used' = used
    BY <1>1, <1>6 DEF FirstPermitted, Running, CallEffect, ImportInv, CoordInv, DispatchInv
  <2>3. \A grant \in grants : mine[grant.invocation.request] = None
    BY <1>4, <1>6, <2>1, NoneAssumption DEF SerialInv, FirstPermitted
  <2> QED BY <1>3, <1>6, <2>1, <2>2, <2>3 DEF SerialInv, FirstPermitted, Capturing
<1> QED BY <1>1, <1>5, <1>6 DEF CallEffect

\* The worker moves on without touching the permissions: within the capture, where
\* nothing has been started yet, or towards its end.
LEMMA SerialByMove ==
    ASSUME SerialInv, UNCHANGED <<grants, used, mine>>,
           \/ step' \in {"ending", "publishing", "releasing", "off"}
           \/ /\ step \in Capturing /\ step' \in Capturing
              /\ current' = current
              /\ attempt'.request = attempt.request /\ attempt'.invocation = attempt.invocation
           \/ /\ step \in {"planning", "choosing", "reserving", "starting"}
              /\ step' \in {"planning", "choosing", "reserving", "starting"}
    PROVE  SerialInv'
  BY DEF SerialInv, Capturing, Writing

\* No step adds a grant of an earlier capture of the batch.
LEMMA SerialKept == ImportInv /\ SerialInv /\ [BatchNext]_vars => SerialInv'
<1> SUFFICES ASSUME ImportInv, SerialInv, [BatchNext]_vars PROVE SerialInv'
  OBVIOUS
<1>1. /\ \A grant \in grants : grant.invocation \in Invocation /\ grant.invocation.request \in Request
      /\ mine \in [Request -> Paper \cup {None}]
  BY DEF ImportInv, CoordInv, TypeOK, BatchTypeOK, Grant, Invocation
<1>2. ASSUME NEW owner \in Owner, Start(owner) PROVE SerialInv'
  BY <1>1, <1>2 DEF Start, ReserveBrowserTask, NoRequests, SerialInv, Capturing, Writing
<1>3. CASE StartBlocked \/ Stop \/ CoordinatorStep \/ Clock \/ UNCHANGED vars
           \/ \E paper \in Paper, status \in {"kept", "other"} : Edit(paper, status)
  <2>1. Call
    BY <1>3, SurroundingCalls DEF StartBlocked, Stop, Edit, Call, ImportInv, BatchTypeOK
  <2>2. UNCHANGED <<step, mine>> /\ (step \in Capturing => current' = current)
    BY <1>3 DEF StartBlocked, Stop, Edit, CoordinatorStep, Clock, vars, batchVars, Capturing, Writing
  <2> QED BY <2>1, <2>2, SerialByCall
<1>4. CASE Plan \/ PlanFails \/ ChooseNone \/ WorkspaceLost \/ Reserve \/ BeginRefused
           \/ \E paper \in Paper : Choose(paper)
  BY <1>4, SerialByMove DEF Plan, PlanFails, ChooseNone, WorkspaceLost, Reserve, BeginRefused, Choose, Leave,
     Snapshot, StartCaptureRefused, captureVars, coordinatorVars
<1>5. ASSUME NEW request \in Request, Begin(request) PROVE SerialInv'
  <2>1. /\ request \notin used /\ used' = used \cup {request}
        /\ grants' = grants
        /\ attempt'.request = request
        /\ mine' = [mine EXCEPT ![request] = current]
        /\ step = "starting" /\ step' = "waiting" /\ current' = current
    BY <1>5 DEF Begin, StartCapture
  <2>2. \A grant \in grants : mine'[grant.invocation.request] = None
    BY <1>1, <2>1 DEF SerialInv
  <2> QED BY <1>1, <2>1, <2>2 DEF SerialInv
<1>6. CASE Receive
  <2>1. attempt # None /\ attempt \in Attempt
    BY <1>6 DEF Receive, ImportInv, CoordInv, TypeOK, WorkerInv, Capturing
  <2>2. attempt'.request = attempt.request /\ attempt'.invocation = attempt.invocation
    BY <1>6, <2>1 DEF Receive, WaitForCompletion, LiveAttempt, Finished, Attempt
  <2> QED BY <1>6, <2>2, SerialByMove DEF Receive, WaitForCompletion, Capturing
<1>7. CASE Resolve \/ Match \/ Compare \/ Replace \/ ReleaseSlot
  BY <1>7, SerialByMove DEF Resolve, ClaimCompletion, Match, Compare, Replace, ReleaseSlot, FinishResolution,
     Capturing, Writing, captureVars, coordinatorVars
<1>8. CASE RecordResult
  <2>1. UNCHANGED <<grants, used, mine, attempt>> /\ step \in Capturing
    BY <1>8 DEF RecordResult, Capturing, captureVars, coordinatorVars
  <2>2. CASE MayGoOn
    <3>1. \A grant \in grants : grant.invocation # attempt.invocation
      BY <1>1, <2>2, NoneAssumption DEF MayGoOn, SaveAuthorityEnded, CompletionOf
    <3>2. \A grant \in grants : mine[grant.invocation.request] = None
      BY <2>1, <3>1 DEF SerialInv
    <3> QED BY <1>8, <2>1, <2>2, <3>2 DEF RecordResult, SerialInv, Capturing, Writing
  <2>3. CASE ~MayGoOn
    BY <1>8, <2>1, <2>3, SerialByMove DEF RecordResult, Leave
  <2> QED BY <2>2, <2>3
<1>9. CASE End \/ Publish \/ ReleaseBrowser
  BY <1>9, SerialByMove DEF End, Publish, ReleaseBrowser, ReleaseBrowserTask, captureVars, coordinatorVars
<1>10. CASE RestartService
  BY <1>1, <1>10 DEF RestartService, Restart, NoRequests, SerialInv, Capturing, Writing
<1> QED BY <1>2, <1>3, <1>4, <1>5, <1>6, <1>7, <1>8, <1>9, <1>10 DEF BatchNext, UserStep, WorkerStep

\* A batch begins a capture only when no native save it let out before is unsettled,
\* for any number of Papers, timeouts and late answers.
THEOREM SavesAreSerial == BatchSpec => SerialSaves
<1>1. BatchInit => SerialInv
  BY DEF BatchInit, Init, SerialInv, NoRequests, Capturing, Writing
<1>2. BatchSpec => [](ImportInv /\ SerialInv)
  BY <1>1, SerialKept, ImportInvariant, PTL DEF BatchSpec
<1>3. ImportInv /\ SerialInv /\ [BatchNext]_vars =>
        [\A request \in used' \ used : \A grant \in grants : mine[grant.invocation.request] = None]_vars
  <2> SUFFICES ASSUME ImportInv, SerialInv, [BatchNext]_vars, NEW request \in used' \ used, NEW grant \in grants
               PROVE  mine[grant.invocation.request] = None
    OBVIOUS
  <2>1. CASE Call
    BY <2>1, EffectOfCall DEF ImportInv, CoordInv, CallEffect
  <2>2. CASE Handing
    BY <2>2 DEF Handing, Receive, Resolve, ReleaseSlot, ReleaseBrowser, RestartService, Begin, WaitForCompletion,
       ClaimCompletion, FinishResolution, ReleaseBrowserTask, Restart, SerialInv
  <2> QED BY <2>1, <2>2, BatchCalls DEF ImportInv
<1> QED BY <1>2, <1>3, PTL DEF BatchSpec, SerialSaves

-----------------------------------------------------------------------------
(***************************************************************************)
(* What a result says is true                                              *)
(***************************************************************************)
\* Once a request has an outcome it keeps it, whoever calls.
LEMMA OutcomeStands ==
    ASSUME ImportInv, [BatchNext]_vars, NEW request \in Request, NEW outcome \in Outcome,
           verdict[request] = outcome
    PROVE  verdict'[request] = outcome
  BY BatchSimulates, VerdictKept, NoneAssumption DEF ImportInv, CoordInv

\* The attempt that a Paper is waiting for is the same one after any step within it.
LEMMA AttemptStands ==
    ASSUME ImportInv, [BatchNext]_vars, step \in Capturing, step' \in Capturing
    PROVE  /\ attempt # None /\ attempt.request \in Request
           /\ attempt'.request = attempt.request
<1>1. attempt # None /\ attempt \in Attempt
  BY DEF ImportInv, CoordInv, WorkerInv, TypeOK
<1>2. CASE Call
  BY <1>1, <1>2, EffectOfCall DEF ImportInv, CoordInv, CallEffect, Attempt
<1>3. CASE Handing
  <2>1. CASE Receive
    BY <1>1, <2>1 DEF Receive, WaitForCompletion, LiveAttempt, Finished, Attempt
  <2>2. CASE ~Receive
    BY <1>1, <1>3, <2>2 DEF Handing, Resolve, ClaimCompletion, ReleaseSlot, FinishResolution, ReleaseBrowser,
       RestartService, Begin, Attempt, Capturing, Writing
  <2> QED BY <2>1, <2>2
<1> QED BY <1>1, <1>2, <1>3, BatchCalls DEF ImportInv

\* A claim stands while its Paper's result and requests do.
LEMMA ClaimStands ==
    ASSUME ImportInv, [BatchNext]_vars, NEW paper \in Paper, Claim(paper),
           results'[paper] = results[paper], Asked(paper)' = Asked(paper)
    PROVE  Claim(paper)'
<1>1. \A request \in Asked(paper) : request \in Request
  BY DEF Asked
<1> QED BY <1>1, OutcomeStands DEF Claim, Outcome

\* A draft stays true of the attempt it is about.
LEMMA DraftStands ==
    ASSUME ImportInv, [BatchNext]_vars, DraftIsTrue, step \in Capturing, step' \in Capturing, draft' = draft
    PROVE  DraftIsTrue'
  BY AttemptStands, OutcomeStands DEF DraftIsTrue, Outcome

\* A step of somebody else, or of the worker within one capture, leaves the claims and
\* what they rest on as they were.
LEMMA ResultsByOthers ==
    ASSUME ImportInv, ResultsInv, [BatchNext]_vars, UNCHANGED <<step, results, remaining, draft, mine>>,
           current' = current \/ (step = "off" /\ current' = None)
    PROVE  ResultsInv'
<1>1. \A paper : Asked(paper)' = Asked(paper)
  BY DEF Asked
<1>2. \A paper \in Paper : Claim(paper)'
  BY <1>1, ClaimStands DEF ResultsInv, Claim
<1>3. step \in Capturing => attempt'.request = attempt.request /\ attempt.request \in Request
  BY AttemptStands
<1>4. step \in {"matching", "comparing", "replacing"} => verdict'[attempt'.request] = "CONFIRMED"
  BY <1>3, OutcomeStands DEF ResultsInv, Capturing, Writing, Outcome
<1>5. step \in {"finishing", "reporting"} => DraftIsTrue'
  BY DraftStands DEF ResultsInv, Capturing, Writing
<1>6. \A paper \in Paper : paper # None
  BY BatchAssumption
<1> QED BY <1>1, <1>2, <1>3, <1>4, <1>5, <1>6 DEF ResultsInv, Claim, OnPaper, Capturing, Writing

\* No step makes a result, or what will become one, untrue.
LEMMA ResultsKept == ImportInv /\ SerialInv /\ ResultsInv /\ [BatchNext]_vars => ResultsInv'
<1> SUFFICES ASSUME ImportInv, SerialInv, ResultsInv, [BatchNext]_vars PROVE ResultsInv'
  OBVIOUS
<1>1. /\ mine \in [Request -> Paper \cup {None}] /\ results \in [Paper -> Result \cup {None}]
      /\ remaining \subseteq Paper /\ current \in Paper \cup {None}
      /\ None \notin Paper /\ None \notin Result
      /\ \A paper \in Paper : Claim(paper)
  BY BatchAssumption DEF ImportInv, BatchTypeOK, ResultsInv
<1>2. /\ step \in OnPaper => current \in Paper
      /\ step \in Capturing => attempt # None /\ attempt.request \in Request
  BY DEF ImportInv, WorkerInv, CoordInv, TypeOK, Attempt
<1>3. ASSUME mine' = mine
      PROVE  /\ \A paper : Asked(paper)' = Asked(paper)
             /\ \A paper \in Paper : results'[paper] = results[paper] => Claim(paper)'
  BY <1>1, <1>3, ClaimStands DEF Asked
<1>4. ASSUME mine' = NoRequests, results' = [paper \in Paper |-> None]
      PROVE  \A paper \in Paper : Asked(paper)' = {} /\ Claim(paper)'
  <2>1. \A paper \in Paper : Asked(paper)' = {}
    BY <1>1, <1>4 DEF Asked, NoRequests
  <2> QED BY <1>1, <1>4, <2>1 DEF Claim, Result
<1>5. ASSUME NEW owner \in Owner, Start(owner) PROVE ResultsInv'
  BY <1>4, <1>5 DEF Start, ResultsInv, OnPaper, Capturing, Writing
<1>6. CASE StartBlocked
  <2>1. \A paper \in Paper : Claim(paper)'
    BY <1>1, <1>6 DEF StartBlocked, Claim, Result
  <2> QED BY <1>1, <1>3, <1>6, <2>1 DEF StartBlocked, ResultsInv, OnPaper, Capturing, Writing
<1>7. CASE Stop \/ CoordinatorStep \/ Clock \/ UNCHANGED vars
           \/ \E paper \in Paper, status \in {"kept", "other"} : Edit(paper, status)
  BY <1>7, ResultsByOthers DEF Stop, CoordinatorStep, Clock, vars, batchVars, Edit
<1>8. CASE Plan \/ PlanFails \/ WorkspaceLost \/ ChooseNone \/ \E paper \in Paper : Choose(paper)
  BY <1>1, <1>3, <1>8 DEF Plan, PlanFails, WorkspaceLost, ChooseNone, Choose, Leave, ResultsInv,
     OnPaper, Capturing, Writing
<1>9. CASE Reserve \/ BeginRefused
  <2>1. /\ UNCHANGED <<mine, current, remaining>> /\ current \in Paper /\ Asked(current) = {}
        /\ \/ step' \in {"ending", "starting"} /\ results' = results
           \/ step' = "choosing" /\ results' = [results EXCEPT ![current] = "skipped"]
    <3>1. step \in {"reserving", "starting"} /\ UNCHANGED <<mine, current, remaining>>
      BY <1>9 DEF Reserve, BeginRefused
    <3>2. CASE Reserve
      BY <1>2, <3>1, <3>2 DEF Reserve, Leave, Report, ResultsInv, OnPaper
    <3>3. CASE BeginRefused
      BY <1>2, <3>1, <3>3 DEF BeginRefused, Leave, Report, ResultsInv, OnPaper
    <3> QED BY <1>9, <3>2, <3>3
  <2>2. \A paper \in Paper : Claim(paper)'
    BY <1>1, <1>3, <2>1 DEF Claim
  <2> QED BY <1>1, <1>3, <1>9, <2>1, <2>2 DEF Reserve, BeginRefused, ResultsInv, OnPaper, Capturing, Writing
<1>10. ASSUME NEW request \in Request, Begin(request) PROVE ResultsInv'
  <2>1. /\ step = "starting" /\ step' = "waiting"
        /\ UNCHANGED <<current, results, remaining>>
        /\ mine' = [mine EXCEPT ![request] = current]
        /\ request \notin used /\ attempt'.request = request
    BY <1>10 DEF Begin, StartCapture
  <2>2. mine[request] = None /\ current \in Paper /\ Asked(current) = {}
    BY <1>2, <2>1 DEF SerialInv, ResultsInv, OnPaper
  <2>3. Asked(current)' = {request} /\ \A paper \in Paper \ {current} : Asked(paper)' = Asked(paper)
    BY <1>1, <2>1, <2>2 DEF Asked
  <2>4. \A paper \in Paper : Claim(paper)'
    <3>1. results'[current] = None
      BY <2>1 DEF ResultsInv, OnPaper
    <3>2. Claim(current)'
      BY <1>1, <2>1, <3>1 DEF Claim, Result
    <3> QED BY <1>1, <2>1, <2>3, <3>2, ClaimStands
  <2> QED BY <2>1, <2>2, <2>3, <2>4 DEF ResultsInv, OnPaper, Capturing, Writing
<1>11. CASE Receive \/ ReleaseSlot
  <2>1. step \in Capturing /\ step' \in Capturing
    BY <1>11 DEF Receive, ReleaseSlot, Capturing, Writing
  <2>2. attempt'.request = attempt.request
    BY <2>1, AttemptStands
  <2>3. step = "finishing" => DraftIsTrue'
    BY <1>11, <2>1, DraftStands DEF Receive, ReleaseSlot, ResultsInv
  <2> QED BY <1>3, <1>11, <2>2, <2>3 DEF Receive, ReleaseSlot, ResultsInv, OnPaper, Capturing, Writing
<1>12. CASE Resolve
  <2>1. /\ UNCHANGED <<attempt, verdict>>
        /\ delivered # None /\ delivered \in Completion
        /\ delivered.outcome = verdict[attempt.request]
    BY <1>12 DEF Resolve, ClaimCompletion, ImportInv, CoordInv, TypeOK, CaptureInv, HandoffIsCurrent, CompletionOf
  <2>2. delivered.outcome \in Outcome
    BY <2>1 DEF Completion
  <2>3. step' = "finishing" => DraftIsTrue'
    BY <1>12, <2>1, <2>2 DEF Resolve, ResultOf, DraftIsTrue, Outcome
  <2> QED BY <1>3, <1>12, <2>1, <2>3 DEF Resolve, ResultsInv, OnPaper, Capturing, Writing
<1>13. CASE Match \/ Compare \/ Replace
  <2>1. UNCHANGED <<attempt, verdict>> /\ verdict[attempt.request] = "CONFIRMED"
    BY <1>13 DEF Match, Compare, Replace, captureVars, coordinatorVars, ResultsInv
  <2>2. step' = "finishing" => DraftIsTrue'
    BY <1>13, <2>1 DEF Match, Compare, Replace, DraftIsTrue
  <2> QED BY <1>3, <1>13, <2>1, <2>2 DEF Match, Compare, Replace, ResultsInv, OnPaper, Capturing, Writing
<1>14. CASE RecordResult
  <2>1. /\ step = "reporting" /\ DraftIsTrue /\ Asked(current) = {attempt.request} /\ current \in Paper
        /\ results' = [results EXCEPT ![current] = draft]
        /\ UNCHANGED <<mine, verdict, current, remaining>>
        /\ step' \in {"choosing", "ending"}
    BY <1>2, <1>14 DEF RecordResult, Report, Leave, ResultsInv, OnPaper, Capturing, captureVars
  <2>2. \A paper \in Paper : Claim(paper)'
    BY <1>1, <1>3, <2>1 DEF Claim, DraftIsTrue
  <2>3. results'[current] # None
    BY <1>1, <2>1 DEF DraftIsTrue, Result
  <2> QED BY <1>1, <1>3, <2>1, <2>2, <2>3 DEF ResultsInv, OnPaper, Capturing, Writing
<1>15. CASE End
  <2>1. UNCHANGED <<mine, current, verdict>> /\ remaining' = {} /\ step' = "publishing"
    BY <1>15 DEF End, captureVars
  <2>2. ASSUME NEW paper \in Paper PROVE Claim(paper)'
    <3>1. CASE results'[paper] = results[paper]
      BY <1>3, <2>1, <3>1
    <3>2. CASE results'[paper] # results[paper]
      <4>1. results[paper] = None /\ results'[paper] = "skipped" /\ paper \in remaining \cup {current}
        BY <1>15, <3>2 DEF End
      <4>2. Asked(paper) = {}
        BY <1>15, <4>1 DEF End, ResultsInv
      <4> QED BY <1>3, <2>1, <4>1, <4>2 DEF Claim
    <3> QED BY <3>1, <3>2
  <2> QED BY <2>1, <2>2 DEF ResultsInv, OnPaper, Capturing, Writing
<1>16. CASE Publish \/ ReleaseBrowser
  BY <1>1, <1>3, <1>16 DEF Publish, ReleaseBrowser, ResultsInv, OnPaper, Capturing, Writing
<1>17. CASE RestartService
  BY <1>4, <1>17 DEF RestartService, ResultsInv, OnPaper, Capturing, Writing
<1> QED BY <1>5, <1>6, <1>7, <1>8, <1>9, <1>10, <1>11, <1>12, <1>13, <1>14, <1>15, <1>16, <1>17
        DEF BatchNext, UserStep, WorkerStep

\* Whatever was stopped, refused, timed out, edited or answered late, the result shown
\* for a Paper is true of what the batch did to it: for any number of Papers, of
\* attempts and of edits.
THEOREM ImportTellsTheTruth == BatchSpec => []ImportIsSound
<1>1. BatchInit => SerialInv /\ ResultsInv
  <2> SUFFICES ASSUME BatchInit PROVE SerialInv /\ ResultsInv
    OBVIOUS
  <2>1. \A paper \in Paper : Asked(paper) = {} /\ results[paper] = None /\ paper # None
    BY BatchAssumption DEF BatchInit, Asked, NoRequests
  <2>2. \A paper \in Paper : Claim(paper)
    BY <2>1, BatchAssumption DEF Claim, Result
  <2> QED BY <2>1, <2>2 DEF BatchInit, Init, SerialInv, ResultsInv, NoRequests, OnPaper, Capturing, Writing
<1>2. BatchSpec => [](ImportInv /\ SerialInv /\ ResultsInv)
  BY <1>1, SerialKept, ResultsKept, ImportInvariant, PTL DEF BatchSpec
<1>3. ImportInv /\ ResultsInv => ImportIsSound
  <2> SUFFICES ASSUME ImportInv, ResultsInv, NEW paper \in Paper
               PROVE  /\ results[paper] \in {"no_effect", "skipped"} => ~Offered(paper)
                      /\ results[paper] = "exported" =>
                            Offered(paper) /\ \A request \in Asked(paper) : verdict[request] = "CONFIRMED"
                      /\ results[paper] = "uncertain" =>
                            \A request \in Asked(paper) : verdict[request] = "UNCONFIRMED"
    BY DEF ImportIsSound, ResultsAreTrue, ImportInv
  <2>1. Claim(paper)
    BY DEF ResultsInv
  <2>2. results[paper] \in {"no_effect", "skipped"} => ~Offered(paper)
    BY <2>1 DEF Claim, Offered, Asked, ImportInv, CoordInv, VerdictMatchesDispatch
  <2>3. results[paper] = "exported" => Offered(paper)
    BY <2>1 DEF Claim, Offered, Asked, ImportInv, CoordInv, VerdictMatchesDispatch
  <2> QED BY <2>1, <2>2, <2>3 DEF Claim
<1> QED BY <1>2, <1>3, PTL

-----------------------------------------------------------------------------
(***************************************************************************)
(* The whole Import implements ParentExport                                *)
(***************************************************************************)
\* The revision reserved for a Paper is never one that the file has yet to reach.
LEMMA RevisionKept == ImportInv /\ RevisionInv /\ [BatchNext]_vars => RevisionInv'
<1> SUFFICES ASSUME ImportInv, RevisionInv, [BatchNext]_vars PROVE RevisionInv'
  OBVIOUS
<1>1. /\ file \in [Paper -> [status : {"kept", "exported", "other"}, revision : 0..MaxRevision]]
      /\ step \in OnPaper => current \in Paper
      /\ reserved \in Nat /\ MaxRevision \in Nat
  BY BatchAssumption DEF ImportInv, BatchTypeOK, WorkerInv
<1>2. ASSUME NEW paper \in Paper, NEW status \in {"kept", "other"}, Edit(paper, status) PROVE RevisionInv'
  BY <1>1, <1>2 DEF Edit, RevisionInv, OnPaper
<1>3. CASE Reserve
  BY <1>1, <1>3 DEF Reserve, Matches, Leave, RevisionInv, OnPaper, Capturing, Writing
<1>4. CASE Replace
  BY <1>1, <1>4 DEF Replace, RevisionInv, OnPaper, Capturing, Writing
<1>5. CASE /\ BatchNext /\ ~Reserve /\ ~Replace
           /\ ~\E paper \in Paper, status \in {"kept", "other"} : Edit(paper, status)
  <2>1. UNCHANGED <<file, reserved>>
    BY <1>5 DEF BatchNext, UserStep, WorkerStep, CoordinatorStep, Clock, batchVars, Start, StartBlocked, Stop, Plan,
       PlanFails, Choose, ChooseNone, WorkspaceLost, Begin, BeginRefused, Receive, Resolve, Match, Compare, ReleaseSlot,
       RecordResult, End, Publish, ReleaseBrowser, RestartService
  <2>2. step' \in Capturing \cup {"starting"} => step \in Capturing \cup {"starting"} /\ current' = current
    BY <1>5 DEF BatchNext, UserStep, WorkerStep, CoordinatorStep, Clock, batchVars, Start, StartBlocked, Stop, Plan,
       PlanFails, Choose, ChooseNone, WorkspaceLost, Begin, BeginRefused, Receive, Resolve, Match, Compare, ReleaseSlot,
       RecordResult, End, Publish, ReleaseBrowser, RestartService, Leave, Capturing, Writing
  <2> QED BY <2>1, <2>2 DEF RevisionInv
<1>6. CASE UNCHANGED vars
  BY <1>6 DEF vars, batchVars, RevisionInv
<1> QED BY <1>2, <1>3, <1>4, <1>5, <1>6

\* Zotero's acceptance of the current Paper is known and not yet written.
Accepted ==
    \/ completion # None /\ completion.outcome = "CONFIRMED"
    \/ delivered # None /\ delivered.outcome = "CONFIRMED"
    \/ step \in {"matching", "comparing", "replacing"}

SlotStage ==
    IF Running(attempt) THEN IF attempt.invocation = None THEN "asked" ELSE "permitted"
    ELSE IF step = "replacing" THEN "compared" ELSE "accepted"

\* The slot of the promise, seen from the Paper the worker is on.
LEMMA SlotMeans ==
    ImportInv => Slot = IF Running(attempt) \/ Accepted
                        THEN [paper |-> current, stage |-> SlotStage, intact |-> Matches(current, reserved)]
                        ELSE None
<1> SUFFICES ASSUME ImportInv
             PROVE  Slot = IF Running(attempt) \/ Accepted
                           THEN [paper |-> current, stage |-> SlotStage, intact |-> Matches(current, reserved)]
                           ELSE None
  OBVIOUS
<1>1. (\E result \in {completion, delivered} \ {None} : result.outcome = "CONFIRMED") <=>
        \/ completion # None /\ completion.outcome = "CONFIRMED"
        \/ delivered # None /\ delivered.outcome = "CONFIRMED"
  OBVIOUS
<1>2. Running(attempt) \/ completion # None \/ delivered # None => attempt.paper = current
  BY DEF ImportInv, CoordInv, CaptureInv, LockMeaning, WorkerInv, NoCapture, Writing, Capturing
<1>3. CASE Running(attempt)
  <2>1. ~\E result \in {completion, delivered} \ {None} : result.outcome = "CONFIRMED"
    BY <1>1, <1>3 DEF ImportInv, CoordInv, CaptureInv, LockMeaning
  <2>2. step \notin {"matching", "comparing", "replacing"}
    BY <1>3, RunsWhileWaiting
  <2> QED BY <1>2, <1>3, <2>1, <2>2 DEF Slot, SlotStage
<1>4. CASE ~Running(attempt) /\ \E result \in {completion, delivered} \ {None} : result.outcome = "CONFIRMED"
  <2>1. completion # None \/ delivered # None
    BY <1>1, <1>4
  <2>2. step \notin {"matching", "comparing", "replacing"} /\ attempt.paper = current
    BY <1>2, <2>1 DEF ImportInv, CoordInv, CaptureInv, LockMeaning, WorkerInv, Writing
  <2> QED BY <1>1, <1>4, <2>2 DEF Slot, SlotStage, Accepted
<1>5. CASE ~Running(attempt) /\ ~\E result \in {completion, delivered} \ {None} : result.outcome = "CONFIRMED"
  BY <1>1, <1>5 DEF Slot, SlotStage, Accepted
<1> QED BY <1>3, <1>4, <1>5

\* Off a Paper, or with its result settled, there is no slot.
WithSlot == {"waiting", "resolving", "matching", "comparing", "replacing"}
LEMMA SlotIdle == ImportInv /\ step \notin WithSlot => ~Running(attempt) /\ ~Accepted
  BY DEF ImportInv, CoordInv, CaptureInv, LockMeaning, WorkerInv, NoCapture, Writing, Accepted, WithSlot

\* A permission leaves only while the Paper's file is the one that was reserved.
LEMMA PermittedIntact ==
    ASSUME ImportInv, [BatchNext]_vars, FirstPermitted
    PROVE  Matches(current, reserved) /\ UNCHANGED batchVars
<1>1. escaped' # escaped
  <2>1. attempt # None /\ attempt'.invocation # None
    BY NoneAssumption DEF FirstPermitted, Running
  <2>2. \A invocation \in escaped : invocation # attempt'.invocation
    BY <2>1, NoneAssumption DEF FirstPermitted, ImportInv, CoordInv, DispatchInv, TypeOK
  <2> QED BY <2>2 DEF FirstPermitted
<1>2. current = attempt.paper /\ attempt # None
  BY RunsWhileWaiting DEF FirstPermitted, ImportInv, WorkerInv, Capturing
<1>3. CASE CoordinatorStep
  <2>1. PICK valid \in BOOLEAN : (valid => SlotMatches) /\ ConnectorCall(valid)
    BY <1>1, <1>3 DEF CoordinatorStep, BrowserTask, ReserveBrowserTask, ExtendBrowserTask, ReleaseBrowserTask,
       ResetTakesGuard, ResetDropsGuard, Snapshot
  <2>2. valid
    BY <1>1, <2>1 DEF ConnectorCall, Heartbeat, ClaimCommand, RecordAccess, AuthorizeParentDispatch,
       SubmitConnectorResult, ReportImportBrowserIdle, ReportNativeSaveSettled
  <2> QED BY <1>2, <1>3, <2>1, <2>2 DEF SlotMatches, CoordinatorStep
<1>4. CASE UserStep \/ Clock \/ RestartService
  BY <1>1, <1>4 DEF UserStep, Clock, RestartService, Start, StartBlocked, Stop, Edit, ReserveBrowserTask, Snapshot,
     StopUndispatched, Tick, Restart, captureVars
<1>5. CASE WorkerStep \/ UNCHANGED vars
  BY <1>1, <1>5 DEF WorkerStep, Plan, PlanFails, Choose, ChooseNone, WorkspaceLost, Reserve, Begin, BeginRefused,
     Receive, Resolve, Match, Compare, Replace, ReleaseSlot, RecordResult, End, Publish, ReleaseBrowser, Snapshot,
     StartCapture, StartCaptureRefused, WaitForCompletion, ClaimCompletion, FinishResolution, ReleaseBrowserTask,
     captureVars, vars
<1> QED BY <1>3, <1>4, <1>5 DEF BatchNext

\* An outcome CONFIRMED handed over was permitted when the capture was still running.
LEMMA AcceptedWasPermitted ==
    ASSUME ImportInv, ImportInv', CallEffect, Running(attempt), ~Running(attempt)',
           completion'.outcome = "CONFIRMED"
    PROVE  attempt.invocation # None
<1>1. attempt # None /\ attempt \in Attempt /\ attempt'.request = attempt.request /\ completion' # None
  BY DEF Running, ImportInv, CoordInv, TypeOK, CallEffect
<1>2. verdict'[attempt.request] = "CONFIRMED"
  BY <1>1 DEF ImportInv, CoordInv, CaptureInv, HandoffIsCurrent, CompletionOf
<1>3. escaped' = escaped
  BY DEF CallEffect, NothingPermitted, FirstPermitted
<1>4. PICK invocation \in escaped : invocation.request = attempt.request
  BY <1>1, <1>2, <1>3 DEF ImportInv, CoordInv, VerdictMatchesDispatch, Attempt
<1>5. invocation # None
  BY NoneAssumption DEF ImportInv, CoordInv, TypeOK
<1> QED BY <1>1, <1>4, <1>5 DEF ImportInv, CoordInv, DispatchInv

\* A call moves the slot as the promise allows, or not at all.
LEMMA SlotByCall ==
    ASSUME ImportInv, ImportInv', [BatchNext]_vars, Call, UNCHANGED <<file, current, reserved, step>>
    PROVE  Slot' = Slot \/ Promise!Permit \/ Promise!Accept \/ Promise!Abandon
<1>1. CallEffect
  BY EffectOfCall DEF ImportInv, CoordInv
<1>2. /\ Matches(current, reserved)' = Matches(current, reserved)
      /\ [paper \in Paper |-> file[paper].status]' = [paper \in Paper |-> file[paper].status]
  BY DEF Matches
<1> DEFINE Seen(stage) == [paper |-> current, stage |-> stage, intact |-> Matches(current, reserved)]
<1>3. current \in Paper =>
        \A stage \in {"asked", "permitted", "accepted", "compared"} :
            /\ Seen(stage) # None /\ Seen(stage).stage = stage /\ Seen(stage).intact = Matches(current, reserved)
            /\ \A later \in {"asked", "permitted", "accepted", "compared"} :
                  [Seen(stage) EXCEPT !.stage = later] = Seen(later)
  <2>1. Matches(current, reserved) \in BOOLEAN
    BY DEF Matches
  <2>2. current \in Paper =>
          \A stage \in {"asked", "permitted", "accepted", "compared"} :
             Seen(stage) \in [paper : Paper, stage : {"asked", "permitted", "accepted", "compared"}, intact : BOOLEAN]
    BY <2>1
  <2> QED BY <2>2, SlotAssumption
<1>4. Running(attempt) \/ Accepted => current \in Paper
  BY SlotIdle DEF ImportInv, WorkerInv, OnPaper, Capturing, Writing, WithSlot
<1>5. /\ Running(attempt) => Slot = Seen(IF attempt.invocation = None THEN "asked" ELSE "permitted")
      /\ ~Running(attempt) /\ Accepted => Slot = Seen(IF step = "replacing" THEN "compared" ELSE "accepted")
      /\ ~Running(attempt) /\ ~Accepted => Slot = None
  BY SlotMeans DEF SlotStage
<1>6. /\ Running(attempt)' => Slot' = Seen(IF attempt'.invocation = None THEN "asked" ELSE "permitted")
      /\ ~Running(attempt)' /\ Accepted' => Slot' = Seen(IF step = "replacing" THEN "compared" ELSE "accepted")
      /\ ~Running(attempt)' /\ ~Accepted' => Slot' = None
  <2>1. (ImportInv => Slot = IF Running(attempt) \/ Accepted
                             THEN [paper |-> current, stage |-> SlotStage, intact |-> Matches(current, reserved)]
                             ELSE None)'
    BY SlotMeans, PTL
  <2> QED BY <1>2, <2>1 DEF SlotStage
<1> HIDE DEF Seen
<1>7. CASE ~Running(attempt)
  <2>1. ~Running(attempt)' /\ (Accepted' <=> Accepted)
    BY <1>1, <1>7 DEF CallEffect, Accepted, Running
  <2> QED BY <1>5, <1>6, <1>7, <2>1
<1>8. CASE Running(attempt) /\ Running(attempt)'
  <2>1. CASE attempt'.invocation = None \/ attempt.invocation # None
    BY <1>1, <1>5, <1>6, <1>8, <2>1 DEF CallEffect
  <2>2. CASE attempt'.invocation # None /\ attempt.invocation = None
    <3>1. FirstPermitted
      <4>1. attempt' # None /\ attempt # None /\ attempt'.request = attempt.request
        BY <1>1, <1>8 DEF CallEffect, Running
      <4>2. attempt'.invocation \in escaped' /\ attempt'.invocation.request = attempt.request
        BY <2>2, <4>1 DEF ImportInv, CoordInv, DispatchInv
      <4>3. attempt'.invocation \notin escaped
        BY <2>2, <4>1, <4>2 DEF ImportInv, CoordInv, DispatchInv
      <4> QED BY <1>1, <4>2, <4>3 DEF CallEffect, NothingPermitted
    <3>2. Matches(current, reserved)
      BY <3>1, PermittedIntact
    <3>3. Slot = Seen("asked") /\ Slot' = Seen("permitted")
      BY <1>5, <1>6, <1>8, <2>2
    <3> QED BY <1>2, <1>3, <1>4, <1>8, <3>2, <3>3 DEF Promise!Permit
  <2> QED BY <2>1, <2>2
<1>9. CASE Running(attempt) /\ ~Running(attempt)'
  <2>1. CASE Accepted'
    <3>1. completion' # None /\ delivered' = delivered /\ delivered = None
      BY <1>1, <1>9 DEF CallEffect, ImportInv, CoordInv, CaptureInv, LockMeaning
    <3>2. step \notin {"matching", "comparing", "replacing"}
      BY <1>9, RunsWhileWaiting
    <3>3. completion'.outcome = "CONFIRMED"
      BY <2>1, <3>1, <3>2 DEF Accepted
    <3>4. attempt.invocation # None
      BY <1>1, <1>9, <3>3, AcceptedWasPermitted
    <3>5. Slot = Seen("permitted") /\ Slot' = Seen("accepted")
      BY <1>5, <1>6, <1>9, <2>1, <3>2, <3>4
    <3> QED BY <1>2, <1>3, <1>4, <1>9, <3>5 DEF Promise!Accept
  <2>2. CASE ~Accepted'
    BY <1>2, <1>3, <1>4, <1>5, <1>6, <1>9, <2>2 DEF Promise!Abandon
  <2> QED BY <2>1, <2>2
<1> QED BY <1>7, <1>8, <1>9

\* Every step of the Import is one of the promise, or changes nothing it speaks of.
LEMMA PromiseStep ==
    ImportInv /\ RevisionInv /\ [BatchNext]_vars =>
        [Promise!Next]_<<[paper \in Paper |-> file[paper].status], Slot>>
<1> DEFINE Status == [paper \in Paper |-> file[paper].status]
           Seen(stage) == [paper |-> current, stage |-> stage, intact |-> Matches(current, reserved)]
           Idle == ~Running(attempt) /\ ~Accepted
           Stages == {"asked", "permitted", "accepted", "compared"}
<1> SUFFICES ASSUME ImportInv, RevisionInv, [BatchNext]_vars
             PROVE  Promise!Next \/ (Status' = Status /\ Slot' = Slot)
  OBVIOUS
<1>1. ImportInv'
  BY ImportKept
<1>2. /\ step \notin WithSlot => Idle /\ Slot = None
      /\ Idle => Slot = None
      /\ Running(attempt) => Slot = Seen(IF attempt.invocation = None THEN "asked" ELSE "permitted")
      /\ ~Running(attempt) /\ Accepted => Slot = Seen(IF step = "replacing" THEN "compared" ELSE "accepted")
  BY SlotIdle, SlotMeans DEF SlotStage
<1>3. /\ step' \notin WithSlot => Idle' /\ Slot' = None
      /\ Idle' => Slot' = None
      /\ Running(attempt)' => Slot' = Seen(IF attempt.invocation = None THEN "asked" ELSE "permitted")'
      /\ ~Running(attempt)' /\ Accepted' => Slot' = Seen(IF step = "replacing" THEN "compared" ELSE "accepted")'
  <2>1. (ImportInv => Slot = IF Running(attempt) \/ Accepted
                             THEN [paper |-> current, stage |-> SlotStage, intact |-> Matches(current, reserved)]
                             ELSE None)'
    BY SlotMeans, PTL
  <2>2. (ImportInv /\ step \notin WithSlot => ~Running(attempt) /\ ~Accepted)'
    BY SlotIdle, PTL
  <2> QED BY <1>1, <2>1, <2>2 DEF SlotStage
<1>4. /\ current \in Paper => \A stage \in Stages :
            /\ Seen(stage) # None /\ Seen(stage).stage = stage /\ Seen(stage).paper = current
            /\ Seen(stage).intact = Matches(current, reserved)
      /\ file \in [Paper -> [status : {"kept", "exported", "other"}, revision : 0..MaxRevision]]
      /\ reserved \in Nat
      /\ step \in WithSlot \cup {"starting"} => current \in Paper /\ reserved <= file[current].revision
  <2>1. Matches(current, reserved) \in BOOLEAN
    BY DEF Matches
  <2>2. current \in Paper =>
          \A stage \in Stages :
             Seen(stage) \in [paper : Paper, stage : {"asked", "permitted", "accepted", "compared"}, intact : BOOLEAN]
    BY <2>1
  <2>3. current \in Paper => \A stage \in Stages : Seen(stage) # None
    BY <2>2, SlotAssumption
  <2> QED BY <2>3, BatchAssumption DEF ImportInv, BatchTypeOK, WorkerInv, RevisionInv, WithSlot,
         OnPaper, Capturing, Writing
<1>5. Slot = None \/ (current \in Paper /\ \E stage \in Stages : Slot = Seen(stage))
  BY <1>2, <1>4
<1>6. Slot # None /\ Slot' = None /\ Status' = Status => Promise!Next
  BY DEF Promise!Next, Promise!Abandon
<1> HIDE DEF Seen
<1>7. CASE \/ \E owner \in Owner : Start(owner)
           \/ \E paper \in Paper : Choose(paper)
           \/ StartBlocked \/ Plan \/ PlanFails \/ ChooseNone \/ WorkspaceLost \/ Reserve \/ BeginRefused
           \/ ReleaseSlot \/ RecordResult \/ End \/ Publish \/ ReleaseBrowser
  <2>1. step \notin WithSlot /\ step' \notin WithSlot /\ file' = file
    BY <1>7 DEF Start, Choose, StartBlocked, Plan, PlanFails, ChooseNone, WorkspaceLost, Reserve, BeginRefused,
       ReleaseSlot, RecordResult, End, Publish, ReleaseBrowser, Leave, WithSlot
  <2> QED BY <1>2, <1>3, <2>1
<1>8. CASE Stop \/ CoordinatorStep \/ Clock \/ UNCHANGED vars
  <2>1. Call
    BY <1>8, SurroundingCalls DEF Stop, Call, ImportInv, BatchTypeOK
  <2>2. UNCHANGED <<file, current, reserved, step>>
    BY <1>8 DEF Stop, CoordinatorStep, Clock, vars, batchVars
  <2> QED BY <1>1, <2>1, <2>2, SlotByCall DEF Promise!Next
<1>9. ASSUME NEW paper \in Paper, NEW status \in {"kept", "other"}, Edit(paper, status)
      PROVE  Promise!Next
  <2>1. /\ file' = [file EXCEPT ![paper] = [status |-> status, revision |-> @.revision + 1]]
        /\ UNCHANGED <<current, reserved, step, attempt, completion, delivered>>
    BY <1>9 DEF Edit, captureVars, coordinatorVars
  <2>2. Status' = [Status EXCEPT ![paper] = status]
    BY <1>4, <2>1
  <2>3. CASE Slot = None
    <3>1. Idle
      BY <1>2, <1>4, <2>3, SlotIdle
    <3>2. Idle'
      BY <2>1, <3>1 DEF Accepted, Running
    <3>3. Slot' = None
      BY <1>3, <3>2
    <3> QED BY <1>9, <2>2, <2>3, <3>3 DEF Promise!Next, Promise!Change
  <2>4. CASE Slot # None
    <3>1. step \in WithSlot /\ current \in Paper /\ reserved <= file[current].revision
      BY <1>2, <1>4, <2>4
    <3>2. PICK stage \in Stages : Slot = Seen(stage) /\ Slot' = Seen(stage)'
      BY <1>2, <1>3, <2>1, <2>4 DEF Accepted, Running
    <3>3. /\ Seen(stage)' = [Seen(stage) EXCEPT !.intact = Matches(current, reserved)']
          /\ Seen(stage).paper = current
      BY <2>1 DEF Seen
    <3>4. CASE paper = current
      <4>1. Matches(current, reserved)' = FALSE
        BY <1>4, <2>1, <3>1, <3>4 DEF Matches
      <4> QED BY <1>9, <2>2, <2>4, <3>2, <3>3, <3>4, <4>1 DEF Promise!Next, Promise!Change
    <3>5. CASE paper # current
      <4>1. Matches(current, reserved)' = Matches(current, reserved)
        BY <1>4, <2>1, <3>1, <3>5 DEF Matches
      <4>2. Seen(stage)' = Seen(stage)
        BY <2>1, <4>1 DEF Seen
      <4> QED BY <1>9, <2>2, <2>4, <3>2, <3>3, <3>5, <4>2 DEF Promise!Next, Promise!Change
    <3> QED BY <3>4, <3>5
  <2> QED BY <2>3, <2>4
<1>10. ASSUME NEW request \in Request, Begin(request) PROVE Promise!Next
  <2>1. /\ Matches(current, reserved) /\ Slot = None
        /\ current \in Paper
        /\ UNCHANGED <<file, current, reserved>>
    <3>1. StartOutcome(Matches(current, reserved)) = "STARTED" /\ step = "starting"
      BY <1>10 DEF Begin, StartCapture
    <3> QED BY <1>2, <1>4, <1>10, <3>1 DEF Begin, StartOutcome, WithSlot
  <2>2. Running(attempt)' /\ attempt'.invocation = None
    <3>1. attempt' = [request |-> request, paper |-> current, stage |-> "WAITING_FOR_CONNECTOR",
                      age |-> 0, invocation |-> None, access |-> None, accessTab |-> None]
      BY <1>10 DEF Begin, StartCapture
    <3>2. attempt' \in Attempt
      BY <2>1, <3>1 DEF Attempt, Stage
    <3> QED BY <3>1, <3>2, NoneAssumption DEF Running
  <2>3. Slot' = [paper |-> current, stage |-> "asked", intact |-> TRUE]
    <3>1. Slot' = Seen("asked")' /\ Matches(current, reserved)' = TRUE
      BY <1>3, <2>1, <2>2 DEF Matches
    <3> QED BY <2>1, <3>1 DEF Seen
  <2>4. Status' = Status /\ Status[current] = "kept"
    BY <2>1 DEF Matches
  <2> QED BY <2>1, <2>3, <2>4 DEF Promise!Next, Promise!Ask
<1>11. CASE Receive
  <2>1. /\ UNCHANGED <<file, current, reserved>>
        /\ Status' = Status /\ Matches(current, reserved)' = Matches(current, reserved)
    BY <1>11 DEF Receive, Matches
  <2>2. /\ ~Running(attempt)' /\ step' \notin {"matching", "comparing", "replacing"}
        /\ completion' = None /\ delivered' = LiveCompletion
    BY <1>1, <1>11 DEF Receive, WaitForCompletion, ImportInv, CoordInv, CaptureInv, LockMeaning
  <2>3. CASE Overdue
    <3>1. Running(attempt) /\ delivered'.outcome = "UNCONFIRMED"
      BY <2>2, <2>3 DEF Overdue, LiveCompletion, CompletionOf
    <3>2. Slot' = None
      BY <1>3, <2>2, <3>1 DEF Accepted
    <3> QED BY <1>6, <2>1, <3>2
  <2>4. CASE ~Overdue
    <3>1. completion # None /\ delivered' = completion
      BY <1>11, <2>2, <2>4 DEF Receive, WaitForCompletion, LiveCompletion
    <3>2. ~Running(attempt) /\ delivered = None /\ step = "waiting"
      BY <1>11, <3>1 DEF Receive, ImportInv, CoordInv, CaptureInv, LockMeaning
    <3>3. Accepted' <=> Accepted
      BY <2>2, <3>1, <3>2 DEF Accepted
    <3> QED BY <1>2, <1>3, <2>1, <2>2, <3>2, <3>3 DEF Seen
  <2> QED BY <2>3, <2>4
<1>12. CASE Resolve
  <2>1. /\ UNCHANGED <<file, current, reserved, attempt, completion>>
        /\ Status' = Status /\ Matches(current, reserved)' = Matches(current, reserved)
        /\ delivered # None /\ delivered' = None /\ step = "resolving"
        /\ step' = IF delivered.outcome = "CONFIRMED" THEN "matching" ELSE "finishing"
    BY <1>12 DEF Resolve, ClaimCompletion, Matches
  <2>2. ~Running(attempt) /\ completion = None /\ ~Running(attempt)'
    BY <2>1 DEF ImportInv, CoordInv, CaptureInv, LockMeaning, Running
  <2>3. Accepted' <=> Accepted
    BY <2>1, <2>2 DEF Accepted
  <2> QED BY <1>2, <1>3, <2>1, <2>2, <2>3 DEF Seen
<1>13. CASE Match
  <2>1. /\ UNCHANGED <<file, current, reserved, attempt>>
        /\ step = "matching" /\ step' \in {"comparing", "finishing"}
        /\ Status' = Status /\ Matches(current, reserved)' = Matches(current, reserved)
    BY <1>13 DEF Match, Matches, captureVars, coordinatorVars
  <2>2. ~Running(attempt) /\ ~Running(attempt)' /\ Accepted
    BY <2>1, RunsWhileWaiting DEF Accepted, Running
  <2>3. Slot # None
    BY <1>2, <1>4, <2>1, <2>2 DEF WithSlot
  <2>4. CASE step' = "comparing"
    <3>1. Accepted'
      BY <2>4 DEF Accepted
    <3> QED BY <1>2, <1>3, <2>1, <2>2, <3>1 DEF Seen
  <2>5. CASE step' = "finishing"
    BY <1>3, <1>6, <2>1, <2>3, <2>5 DEF WithSlot
  <2> QED BY <2>1, <2>4, <2>5
<1>14. CASE Compare
  <2>1. /\ UNCHANGED <<file, current, reserved, attempt>>
        /\ step = "comparing" /\ step' \in {"replacing", "finishing"}
        /\ step' = "replacing" => Matches(current, reserved)
        /\ Status' = Status /\ Matches(current, reserved)' = Matches(current, reserved)
    BY <1>14 DEF Compare, StillReserved, Matches, captureVars, coordinatorVars
  <2>2. ~Running(attempt) /\ ~Running(attempt)' /\ Accepted
    BY <2>1, RunsWhileWaiting DEF Accepted, Running
  <2>3. Slot = Seen("accepted") /\ Slot # None /\ Slot.intact = Matches(current, reserved)
    BY <1>2, <1>4, <2>1, <2>2 DEF WithSlot
  <2>4. CASE step' = "replacing"
    <3>1. Slot' = Seen("compared")'
      BY <1>3, <2>2, <2>4 DEF Accepted
    <3>2. Slot' = [Slot EXCEPT !.stage = "compared"] /\ Slot.stage = "accepted"
      BY <2>1, <2>3, <3>1 DEF Seen
    <3> QED BY <2>1, <2>3, <2>4, <3>2 DEF Promise!Next, Promise!Compare
  <2>5. CASE step' = "finishing"
    BY <1>3, <1>6, <2>1, <2>3, <2>5 DEF WithSlot
  <2> QED BY <2>1, <2>4, <2>5
<1>15. CASE Replace
  <2>1. step = "replacing" /\ step' = "finishing" /\ current \in Paper
    BY <1>4, <1>15 DEF Replace, WithSlot
  <2>2. Slot = Seen("compared") /\ Slot # None /\ Slot' = None
    BY <1>2, <1>3, <1>4, <2>1, RunsWhileWaiting DEF Accepted, WithSlot
  <2>3. CASE file' = file
    BY <1>6, <2>2, <2>3
  <2>4. CASE file' = [file EXCEPT ![current] = [status |-> "exported", revision |-> reserved]]
    <3>1. Status' = [Status EXCEPT ![current] = "exported"]
      BY <1>4, <2>1, <2>4
    <3>2. Slot.paper = current /\ Slot.stage = "compared"
      BY <1>4, <2>1, <2>2
    <3> QED BY <2>2, <3>1, <3>2 DEF Promise!Next, Promise!Export
  <2> QED BY <1>15, <2>3, <2>4 DEF Replace
<1>16. CASE RestartService
  <2>1. step' \notin WithSlot /\ file' = file
    BY <1>16 DEF RestartService, WithSlot
  <2> QED BY <1>3, <1>6, <2>1
<1> QED BY <1>7, <1>8, <1>9, <1>10, <1>11, <1>12, <1>13, <1>14, <1>15, <1>16 DEF BatchNext, UserStep, WorkerStep

\* Under any interleaving with the Connector, the user, the rivals and restarts, a Paper
\* file is marked exported only after it was asked for, permitted and accepted, one Paper
\* at a time, and only after a last look found the revision that was reserved for it: an
\* edit saved before that look is never overwritten (one saved after it is, in the window
\* that safe_write.py leaves between its last comparison and os.replace).
THEOREM ImportKeepsPromise == BatchSpec => ImplementsParentExport
<1>1. BatchInit => Promise!Init
  <2> SUFFICES ASSUME BatchInit PROVE Promise!Init
    OBVIOUS
  <2>1. ImportInv /\ step = "off"
    BY ImportInit DEF BatchInit
  <2>2. Slot = None
    BY <2>1, SlotIdle, SlotMeans DEF WithSlot
  <2> QED BY <2>2 DEF BatchInit, Promise!Init
<1>2. BatchInit => RevisionInv
  BY DEF BatchInit, RevisionInv, Capturing, Writing
<1>3. BatchSpec => [](ImportInv /\ RevisionInv)
  BY <1>2, RevisionKept, ImportInvariant, PTL DEF BatchSpec
<1> QED BY <1>1, <1>3, PromiseStep, PTL DEF BatchSpec, ImplementsParentExport, Promise!Spec
===============================================================================
