----------------------- MODULE CaptureCoordinatorProofs -----------------------
(***************************************************************************)
(* The safety properties of CaptureCoordinator for every value of its      *)
(* constants: any number of attempts, Papers, Workspaces and tabs, any     *)
(* timeouts and any receipt limit.                                         *)
(***************************************************************************)
EXTENDS CaptureCoordinator, TLAPS

(***************************************************************************)
(* Lemmas about the helpers                                                *)
(***************************************************************************)
\* A receipt list stays a list of the same kind of receipts.
LEMMA RememberType ==
    ASSUME NEW S, NEW receipts \in Seq(S), NEW receipt \in S
    PROVE  Remember(receipts, receipt) \in Seq(S)
<1>1. CASE Len(receipts) < ReceiptLimit
  BY <1>1 DEF Remember
<1>2. CASE ~(Len(receipts) < ReceiptLimit)
  <2>1. receipts # <<>>
    BY <1>2, TimeoutAssumption
  <2>2. Tail(receipts) \in Seq(S)
    BY <2>1
  <2> QED BY <1>2, <2>2 DEF Remember
<1> QED BY <1>1, <1>2

\* Applying what has expired keeps every field within its type.
LEMMA ExpiryType ==
    ASSUME TypeOK
    PROVE  /\ LiveBrowser \in Task \cup {None}
           /\ LiveAttempt \in Attempt \cup {None}
           /\ LiveCompletion \in Completion \cup {None}
           /\ LiveTerminal \in SUBSET Request
           /\ LiveVerdict \in [Request -> Outcome \cup {None}]
<1>1. LiveBrowser \in Task \cup {None}
  BY DEF TypeOK, LiveBrowser
<1>2. CASE Overdue
  <2>1. attempt \in Attempt
    BY <1>2 DEF Overdue, Running, TypeOK
  <2> QED BY <1>1, <1>2, <2>1 DEF TypeOK, LiveAttempt, LiveCompletion, LiveTerminal, LiveVerdict,
         Finished, CompletionOf, TerminalAfter, Attempt, Completion, Stage, Outcome
<1>3. CASE ~Overdue
  BY <1>1, <1>3 DEF TypeOK, LiveAttempt, LiveCompletion, LiveTerminal, LiveVerdict
<1> QED BY <1>2, <1>3

\* So does finishing a running attempt.
LEMMA FinishType ==
    ASSUME TypeOK, Running(attempt), NEW outcome \in Outcome, Finish(outcome)
    PROVE  /\ attempt' \in Attempt \cup {None}
           /\ completion' \in Completion \cup {None}
           /\ terminal' \in SUBSET Request
           /\ verdict' \in [Request -> Outcome \cup {None}]
<1>1. attempt \in Attempt
  BY DEF Running, TypeOK
<1> QED BY <1>1 DEF TypeOK, Finish, Finished, CompletionOf, TerminalAfter, Attempt, Completion, Stage

\* A capture found running once expiries are applied was not overdue.
LEMMA StillRunning ==
    ASSUME TypeOK, Running(LiveAttempt)
    PROVE  ~Overdue /\ LiveAttempt = attempt /\ Running(attempt) /\ attempt \in Attempt
<1>1. ~Overdue
  <2> SUFFICES ASSUME Overdue PROVE FALSE
    OBVIOUS
  <2>1. attempt \in Attempt
    BY DEF Overdue, Running, TypeOK
  <2> QED BY <2>1 DEF LiveAttempt, Running, Finished, Attempt
<1> QED BY <1>1 DEF LiveAttempt, Running, TypeOK

(***************************************************************************)
(* Type correctness                                                        *)
(***************************************************************************)
\* The empty receipt lists and the stale heartbeat of a fresh process have their types.
LEMMA NoReceipts == <<>> \in Seq(Request) /\ <<>> \in Seq(Invocation) /\ HeartbeatStale + 1 \in Nat
  BY TimeoutAssumption

\* A fresh process has every field within its declared type.
LEMMA TypeInit == Init => TypeOK
<1> SUFFICES ASSUME Init PROVE TypeOK
  OBVIOUS
<1>1. verdict \in [Request -> Outcome \cup {None}]
  BY DEF Init
<1> QED BY <1>1, NoReceipts DEF Init, TypeOK

\* No call, tick, Reset or restart takes a field out of its declared type.
LEMMA TypeNext == TypeOK /\ [Next]_captureVars => TypeOK'
<1> SUFFICES ASSUME TypeOK, [Next]_captureVars PROVE TypeOK'
  OBVIOUS
<1> USE DEF TypeOK
<1>1. ASSUME NEW kind \in Kind, NEW owner \in Owner, NEW left \in LeaseTimes(kind),
             ReserveBrowserTask(kind, owner, left)
      PROVE  TypeOK'
  <2>1. left \in 0..NoDeadline
    BY TimeoutAssumption DEF LeaseTimes, NoDeadline, Kind
  <2> QED BY <1>1, <2>1, ExpiryType DEF ReserveBrowserTask, ExpireAttempt, Task
<1>2. ASSUME NEW kind \in Kind, NEW owner \in Owner, ExtendBrowserTask(kind, owner, MaxLease)
      PROVE  TypeOK'
  <2>1. MaxLease \in 0..NoDeadline
    BY TimeoutAssumption DEF NoDeadline
  <2>2. browser \in Task
    BY <1>2 DEF ExtendBrowserTask, Owns, LiveBrowser
  <2> QED BY <1>2, <2>1, <2>2, ExpiryType DEF ExtendBrowserTask, ExpireAttempt, Task
<1>3. ASSUME NEW kind \in Kind, NEW owner \in Owner, ReleaseBrowserTask(kind, owner)
      PROVE  TypeOK'
  BY <1>3 DEF ReleaseBrowserTask
<1>4. ASSUME NEW request \in Request, NEW paper \in Paper, NEW valid \in BOOLEAN,
             StartCapture(request, paper, valid)
      PROVE  TypeOK'
  BY <1>4, ExpiryType DEF StartCapture, ExpireBrowser, Attempt, Stage
<1>5. ASSUME NEW valid \in BOOLEAN, StartCaptureRefused(valid)
      PROVE  TypeOK'
  BY <1>5, ExpiryType DEF StartCaptureRefused, Expire, ExpireBrowser, ExpireAttempt
<1>6. ASSUME NEW paper \in Paper, StopUndispatched(paper)
      PROVE  TypeOK'
  <2>1. CASE Stoppable(paper)
    <3>1. Running(attempt)
      BY <2>1, StillRunning DEF Stoppable
    <3>2. Finish("FAILED") /\ "FAILED" \in Outcome
      BY <1>6, <2>1 DEF StopUndispatched, Outcome
    <3> QED BY <1>6, <3>1, <3>2, FinishType, ExpiryType DEF StopUndispatched, ExpireBrowser
  <2>2. CASE ~Stoppable(paper)
    BY <1>6, <2>2, ExpiryType DEF StopUndispatched, ExpireBrowser, ExpireAttempt
  <2> QED BY <2>1, <2>2
<1>7. CASE WaitForCompletion
  BY <1>7, ExpiryType DEF WaitForCompletion, ExpireBrowser
<1>8. CASE ClaimCompletion
  BY <1>8 DEF ClaimCompletion
<1>9. CASE FinishResolution
  BY <1>9 DEF FinishResolution
<1>10. ASSUME NEW reachable \in BOOLEAN, Heartbeat(reachable)
       PROVE  TypeOK'
  BY <1>10, ExpiryType DEF Heartbeat, Expire, ExpireBrowser, ExpireAttempt
<1>11. ASSUME NEW valid \in BOOLEAN, ClaimCommand(valid)
       PROVE  TypeOK'
  <2>1. attempt \in Attempt
    BY <1>11, StillRunning DEF ClaimCommand
  <2> QED BY <1>11, <2>1, ExpiryType DEF ClaimCommand, ExpireBrowser, Attempt, Stage
<1>12. ASSUME NEW request \in Request, NEW tab \in Tab, NEW reason \in AccessReason,
              RecordAccess(request, tab, reason)
       PROVE  TypeOK'
  <2>1. attempt \in Attempt
    BY <1>12, StillRunning DEF RecordAccess, Unreported, ActiveFor
  <2> QED BY <1>12, <2>1, ExpiryType DEF RecordAccess, ExpireBrowser, Attempt
<1>13. ASSUME NEW invocation \in Invocation, NEW valid \in BOOLEAN,
              AuthorizeParentDispatch(invocation, valid)
       PROVE  TypeOK'
  <2>1. attempt \in Attempt
    BY <1>13, StillRunning DEF AuthorizeParentDispatch, ActiveFor
  <2>2. WorkspaceOf[attempt.paper] \in Workspace
    BY <2>1, WorkspaceAssumption DEF Attempt
  <2>3. attempt' \in Attempt
    BY <1>13, <2>1 DEF AuthorizeParentDispatch, Attempt
  <2>4. grants' \in SUBSET Grant
    BY <1>13, <2>2 DEF AuthorizeParentDispatch, Grant
  <2> QED BY <1>13, <2>2, <2>3, <2>4, ExpiryType DEF AuthorizeParentDispatch, ExpireBrowser
<1>14. ASSUME NEW presented \in Invocation, NEW outcome \in Outcome,
              NEW stage \in FailureStage \cup {None},
              SubmitConnectorResult(presented, outcome, stage)
       PROVE  TypeOK'
  <2>1. Running(attempt)
    BY <1>14, StillRunning DEF SubmitConnectorResult, Acceptable, ActiveFor
  <2>2. Finish(outcome)
    BY <1>14 DEF SubmitConnectorResult
  <2> QED BY <1>14, <2>1, <2>2, FinishType, ExpiryType DEF SubmitConnectorResult, ExpireBrowser
<1>15. ASSUME NEW request \in Request, ReportImportBrowserIdle(request)
       PROVE  TypeOK'
  BY <1>15, RememberType DEF ReportImportBrowserIdle
<1>16. ASSUME NEW invocation \in Invocation, ReportNativeSaveSettled(invocation)
       PROVE  TypeOK'
  <2>1. Remember(saveReceipts, invocation) \in Seq(Invocation)
    BY RememberType
  <2> QED BY <1>16, <2>1 DEF ReportNativeSaveSettled, GuardedWithout
<1>17. CASE Tick
  <2>1. attempt' \in Attempt \cup {None}
    <3>1. CASE Running(attempt) /\ ~Overdue
      <4>1. attempt \in Attempt /\ attempt.age + 1 \in Nat
        BY <3>1 DEF Running, Attempt
      <4>2. attempt' = [attempt EXCEPT !.age = @ + 1]
        BY <1>17, <3>1 DEF Tick
      <4> QED BY <4>1, <4>2 DEF Attempt
    <3>2. CASE ~(Running(attempt) /\ ~Overdue)
      BY <1>17, <3>2 DEF Tick
    <3> QED BY <3>1, <3>2
  <2>2. browser' \in Task \cup {None}
    <3>1. CASE browser # None /\ browser.left \in 1..MaxLease
      <4>1. browser \in Task /\ browser.left - 1 \in 0..NoDeadline
        BY <3>1, TimeoutAssumption DEF NoDeadline
      <4> QED BY <1>17, <3>1, <4>1 DEF Tick, Task
    <3>2. CASE ~(browser # None /\ browser.left \in 1..MaxLease)
      BY <1>17, <3>2 DEF Tick
    <3> QED BY <3>1, <3>2
  <2>3. heartbeatAge' \in Nat
    BY <1>17 DEF Tick
  <2> QED BY <1>17, <2>1, <2>2, <2>3 DEF Tick
<1>18. CASE Snapshot
  BY <1>18, ExpiryType DEF Snapshot, Expire, ExpireBrowser, ExpireAttempt
<1>19. ASSUME NEW workspace \in Workspace, ResetTakesGuard(workspace) \/ ResetDropsGuard(workspace)
       PROVE  TypeOK'
  BY <1>19 DEF ResetTakesGuard, ResetDropsGuard, coordinatorVars
<1>20. CASE Restart
  BY <1>20, NoReceipts DEF Restart
<1>21. CASE UNCHANGED captureVars
  BY <1>21 DEF captureVars, coordinatorVars
<1> QED BY <1>1, <1>2, <1>3, <1>4, <1>5, <1>6, <1>7, <1>8, <1>9, <1>10, <1>11, <1>12, <1>13,
           <1>14, <1>15, <1>16, <1>17, <1>18, <1>19, <1>20, <1>21
        DEF Next, BrowserNext, BrowserTask, WorkerNext, ConnectorNext, ConnectorCall, WorldNext

\* Every field of the coordinator keeps its declared type for ever.
THEOREM TypeCorrect == Spec => []TypeOK
  BY TypeInit, TypeNext, PTL DEF Spec

(***************************************************************************)
(* The reset guard                                                         *)
(***************************************************************************)
\* No step lets the flock and the unsettled saves disagree, given the types.
LEMMA GuardNext == TypeOK /\ GuardFollowsGrants /\ [Next]_captureVars => GuardFollowsGrants'
<1> SUFFICES ASSUME TypeOK, GuardFollowsGrants, [Next]_captureVars PROVE GuardFollowsGrants'
  OBVIOUS
<1> USE DEF GuardFollowsGrants
<1>1. ASSUME NEW invocation \in Invocation, NEW valid \in BOOLEAN,
             AuthorizeParentDispatch(invocation, valid)
      PROVE  GuardFollowsGrants'
  <2> DEFINE workspace == WorkspaceOf[attempt.paper]
             grant == [invocation |-> invocation, workspace |-> workspace]
  <2>1. /\ guarded' = guarded \cup {workspace}
        /\ grants' = grants \cup {grant}
        /\ exclusive' = exclusive
        /\ workspace \in guarded \/ workspace \notin exclusive
    BY <1>1 DEF AuthorizeParentDispatch, GuardAvailable
  <2>2. grant.workspace = workspace
    OBVIOUS
  <2> HIDE DEF workspace, grant
  <2> QED BY <2>1, <2>2
<1>2. ASSUME NEW invocation \in Invocation, ReportNativeSaveSettled(invocation)
      PROVE  GuardFollowsGrants'
  BY <1>2 DEF ReportNativeSaveSettled, GuardedWithout
<1>3. ASSUME NEW workspace \in Workspace, ResetTakesGuard(workspace) \/ ResetDropsGuard(workspace)
      PROVE  GuardFollowsGrants'
  BY <1>3 DEF ResetTakesGuard, ResetDropsGuard, coordinatorVars
<1>4. CASE Restart
  BY <1>4 DEF Restart
<1>5. CASE UNCHANGED <<grants, guarded, exclusive>>
  BY <1>5
<1>6. CASE BrowserNext \/ WorkerNext \/ UNCHANGED captureVars
  BY <1>5, <1>6 DEF BrowserNext, BrowserTask, WorkerNext, captureVars, coordinatorVars, ReserveBrowserTask,
     ExtendBrowserTask, ReleaseBrowserTask, StartCapture, StartCaptureRefused, StopUndispatched,
     WaitForCompletion, ClaimCompletion, FinishResolution
<1> QED BY <1>1, <1>2, <1>3, <1>4, <1>5, <1>6
        DEF Next, ConnectorNext, ConnectorCall, WorldNext, Heartbeat, ClaimCommand, RecordAccess,
            SubmitConnectorResult, ReportImportBrowserIdle, Tick, Snapshot

\* The Reset exclusion lasts exactly as long as an escaped native save does, for
\* any number of Workspaces, of attempts and of saves in flight.
THEOREM GuardCustody == Spec => []GuardFollowsGrants
<1>1. Init => GuardFollowsGrants
  BY DEF Init, GuardFollowsGrants
<1> QED BY <1>1, TypeCorrect, GuardNext, PTL DEF Spec

(***************************************************************************)
(* Permissions and verdicts                                                *)
(***************************************************************************)
\* What makes the properties of permissions and verdicts inductive: identities
\* are fresh, the current attempt knows the one permission it let out, and has
\* no verdict while it runs.
DispatchInv ==
    /\ \A invocation \in escaped : invocation.request \in used
    /\ \A request \in Request : verdict[request] # None => request \in used
    /\ attempt # None =>
        /\ attempt.request \in used
        /\ \A invocation \in escaped :
              invocation.request = attempt.request => invocation = attempt.invocation
        /\ attempt.invocation # None =>
              attempt.invocation \in escaped /\ attempt.invocation.request = attempt.request
    /\ Running(attempt) => verdict[attempt.request] = None

\* Every step, seen from the permissions: what it can do to the attempt, its
\* identity, its permission and the verdicts.
Quiet == /\ UNCHANGED <<used, escaped, verdict>>
         /\ \/ UNCHANGED attempt
            \/ attempt' = None
            \/ /\ Running(attempt) /\ Running(attempt')
               /\ attempt'.request = attempt.request
               /\ attempt'.invocation = attempt.invocation
Concludes(outcome) == /\ UNCHANGED <<used, escaped>>
                      /\ Running(attempt)
                      /\ outcome = "CONFIRMED" => attempt.invocation # None
                      /\ outcome = "FAILED" => attempt.invocation = None
                      /\ attempt' = Finished(attempt)
                      /\ verdict' = [verdict EXCEPT ![attempt.request] = outcome]
Starts == /\ UNCHANGED <<escaped, verdict>>
          /\ \E request \in Request \ used :
                /\ used' = used \cup {request}
                /\ attempt'.request = request
                /\ attempt'.invocation = None
Permits == /\ UNCHANGED <<used, verdict>>
           /\ Running(attempt)
           /\ attempt.invocation = None
           /\ \E invocation \in Invocation :
                 /\ invocation.request = attempt.request
                 /\ escaped' = escaped \cup {invocation}
                 /\ attempt' = [attempt EXCEPT !.invocation = invocation]

Observed == Quiet \/ Starts \/ Permits \/ \E outcome \in Outcome : Concludes(outcome)

\* Applying expiries is quiet, or concludes an attempt as unconfirmed.
LEMMA ExpiryObserved ==
    ASSUME TypeOK, attempt' = LiveAttempt, verdict' = LiveVerdict, UNCHANGED <<used, escaped>>
    PROVE  Observed
<1>1. CASE Overdue
  BY <1>1 DEF Overdue, LiveAttempt, LiveVerdict, Concludes, Observed, Outcome
<1>2. CASE ~Overdue
  BY <1>2 DEF LiveAttempt, LiveVerdict, Quiet, Observed
<1> QED BY <1>1, <1>2

\* What a permission and a verdict see of any step is one of the four observations.
LEMMA StepObserved == TypeOK /\ [Next]_captureVars => Observed
<1> SUFFICES ASSUME TypeOK, [Next]_captureVars PROVE Observed
  OBVIOUS
<1>1. ASSUME NEW kind \in Kind, NEW owner \in Owner, NEW left \in LeaseTimes(kind),
             ReserveBrowserTask(kind, owner, left)
      PROVE  Observed
  BY <1>1, ExpiryObserved DEF ReserveBrowserTask, ExpireAttempt
<1>2. ASSUME NEW kind \in Kind, NEW owner \in Owner, ExtendBrowserTask(kind, owner, MaxLease)
      PROVE  Observed
  BY <1>2, ExpiryObserved DEF ExtendBrowserTask, ExpireAttempt
<1>3. ASSUME NEW kind \in Kind, NEW owner \in Owner, ReleaseBrowserTask(kind, owner)
      PROVE  Observed
  BY <1>3 DEF ReleaseBrowserTask, Observed, Quiet
<1>4. ASSUME NEW request \in Request, NEW paper \in Paper, NEW valid \in BOOLEAN,
             StartCapture(request, paper, valid)
      PROVE  Observed
  BY <1>4 DEF StartCapture, Observed, Starts
<1>5. ASSUME NEW valid \in BOOLEAN, StartCaptureRefused(valid)
      PROVE  Observed
  BY <1>5, ExpiryObserved DEF StartCaptureRefused, Expire, ExpireAttempt, Observed, Quiet
<1>6. ASSUME NEW paper \in Paper, StopUndispatched(paper)
      PROVE  Observed
  <2>1. CASE Stoppable(paper)
    <3>1. Running(attempt) /\ attempt.invocation = None
      BY <2>1, StillRunning DEF Stoppable
    <3>2. Concludes("FAILED")
      BY <1>6, <2>1, <3>1 DEF StopUndispatched, Finish, Concludes
    <3> QED BY <3>2 DEF Observed, Outcome
  <2>2. CASE ~Stoppable(paper)
    BY <1>6, <2>2, ExpiryObserved DEF StopUndispatched, ExpireAttempt
  <2> QED BY <2>1, <2>2
<1>7. CASE WaitForCompletion
  BY <1>7, ExpiryObserved DEF WaitForCompletion
<1>8. CASE ClaimCompletion \/ FinishResolution
  BY <1>8 DEF ClaimCompletion, FinishResolution, Observed, Quiet
<1>9. ASSUME NEW reachable \in BOOLEAN, Heartbeat(reachable)
      PROVE  Observed
  BY <1>9, ExpiryObserved DEF Heartbeat, Expire, ExpireAttempt
<1>10. ASSUME NEW valid \in BOOLEAN, ClaimCommand(valid)
       PROVE  Observed
  <2>1. attempt \in Attempt /\ Running(attempt)
    BY <1>10, StillRunning DEF ClaimCommand
  <2>2. attempt' \in Attempt
    BY <1>10, <2>1 DEF ClaimCommand, Attempt, Stage
  <2>3. attempt' # None
    BY <2>2, NoneAssumption
  <2> QED BY <1>10, <2>1, <2>3 DEF ClaimCommand, Attempt, Running, Observed, Quiet
<1>11. ASSUME NEW request \in Request, NEW tab \in Tab, NEW reason \in AccessReason,
              RecordAccess(request, tab, reason)
       PROVE  Observed
  <2>1. attempt \in Attempt /\ Running(attempt)
    BY <1>11, StillRunning DEF RecordAccess, Unreported, ActiveFor
  <2>2. attempt' \in Attempt
    BY <1>11, <2>1 DEF RecordAccess, Attempt
  <2>3. attempt' # None
    BY <2>2, NoneAssumption
  <2> QED BY <1>11, <2>1, <2>3 DEF RecordAccess, Unreported, Attempt, Running, Observed, Quiet
<1>12. ASSUME NEW invocation \in Invocation, NEW valid \in BOOLEAN,
              AuthorizeParentDispatch(invocation, valid)
       PROVE  Observed
  <2>1. Running(attempt) /\ attempt.request = invocation.request
    BY <1>12, StillRunning DEF AuthorizeParentDispatch, ActiveFor
  <2> QED BY <1>12, <2>1 DEF AuthorizeParentDispatch, Undispatched, Observed, Permits
<1>13. ASSUME NEW presented \in Invocation, NEW outcome \in Outcome,
              NEW stage \in FailureStage \cup {None},
              SubmitConnectorResult(presented, outcome, stage)
       PROVE  Observed
  <2>1. Running(attempt)
    BY <1>13, StillRunning DEF SubmitConnectorResult, Acceptable, ActiveFor
  <2> QED BY <1>13, <2>1 DEF SubmitConnectorResult, Acceptable, Finish, Concludes, Observed
<1>14. ASSUME NEW request \in Request, ReportImportBrowserIdle(request)
       PROVE  Observed
  BY <1>14 DEF ReportImportBrowserIdle, Observed, Quiet
<1>15. ASSUME NEW invocation \in Invocation, ReportNativeSaveSettled(invocation)
       PROVE  Observed
  BY <1>15 DEF ReportNativeSaveSettled, Observed, Quiet
<1>16. CASE Tick
  <2>1. CASE Running(attempt) /\ ~Overdue
    <3>1. attempt \in Attempt
      BY <2>1 DEF TypeOK, Running
    <3>2. attempt' \in Attempt /\ Running(attempt')
      BY <1>16, <2>1, <3>1, NoneAssumption DEF Tick, Attempt, Running
    <3> QED BY <1>16, <2>1, <3>1, <3>2 DEF Tick, Attempt, Observed, Quiet
  <2>2. CASE ~(Running(attempt) /\ ~Overdue)
    BY <1>16, <2>2 DEF Tick, Observed, Quiet
  <2> QED BY <2>1, <2>2
<1>17. CASE Snapshot
  BY <1>17, ExpiryObserved DEF Snapshot, Expire, ExpireAttempt
<1>18. ASSUME NEW workspace \in Workspace, ResetTakesGuard(workspace) \/ ResetDropsGuard(workspace)
       PROVE  Observed
  BY <1>18 DEF ResetTakesGuard, ResetDropsGuard, coordinatorVars, Observed, Quiet
<1>19. CASE Restart
  BY <1>19 DEF Restart, Observed, Quiet
<1>20. CASE UNCHANGED captureVars
  BY <1>20 DEF captureVars, coordinatorVars, Observed, Quiet
<1> QED BY <1>1, <1>2, <1>3, <1>4, <1>5, <1>6, <1>7, <1>8, <1>9, <1>10, <1>11, <1>12, <1>13,
           <1>14, <1>15, <1>16, <1>17, <1>18, <1>19, <1>20
        DEF Next, BrowserNext, BrowserTask, WorkerNext, ConnectorNext, ConnectorCall, WorldNext

\* No step breaks the tie between attempts, permissions and verdicts.
LEMMA DispatchNext == TypeOK /\ DispatchInv /\ [Next]_captureVars => DispatchInv'
<1> SUFFICES ASSUME TypeOK, DispatchInv, Observed PROVE DispatchInv'
  BY StepObserved
<1>1. CASE Quiet
  BY <1>1 DEF Quiet, DispatchInv, Running
<1>2. CASE Starts
  <2>1. PICK request \in Request \ used : /\ used' = used \cup {request}
                                         /\ attempt'.request = request
                                         /\ attempt'.invocation = None
    BY <1>2 DEF Starts
  <2>2. verdict[request] = None
    BY <2>1 DEF DispatchInv
  <2> QED BY <1>2, <2>1, <2>2 DEF Starts, DispatchInv
<1>3. CASE Permits
  <2>1. PICK invocation \in Invocation :
            /\ invocation.request = attempt.request
            /\ escaped' = escaped \cup {invocation}
            /\ attempt' = [attempt EXCEPT !.invocation = invocation]
    BY <1>3 DEF Permits
  <2>2. attempt \in Attempt /\ attempt # None
    BY <1>3 DEF Permits, Running, TypeOK
  <2>3. /\ attempt'.request = attempt.request
        /\ attempt'.stage = attempt.stage
        /\ attempt'.invocation = invocation
    BY <2>1, <2>2 DEF Attempt
  <2>4. \A other \in escaped : other.request # attempt.request
    BY <1>3, <2>2, NoneAssumption DEF Permits, DispatchInv, TypeOK
  <2> QED BY <1>3, <2>1, <2>2, <2>3, <2>4 DEF Permits, DispatchInv, Running
<1>4. ASSUME NEW outcome \in Outcome, Concludes(outcome) PROVE DispatchInv'
  <2>1. attempt \in Attempt /\ attempt # None
    BY <1>4 DEF Concludes, Running, TypeOK
  <2>2. /\ attempt'.request = attempt.request
        /\ attempt'.stage = "FINISHED"
        /\ attempt'.invocation = attempt.invocation
    BY <1>4, <2>1 DEF Concludes, Finished, Attempt
  <2>3. \A request \in Request : verdict'[request] # None => request \in used'
    BY <1>4, <2>1 DEF Concludes, DispatchInv, TypeOK
  <2> QED BY <1>4, <2>1, <2>2, <2>3 DEF Concludes, DispatchInv, Running
<1> QED BY <1>1, <1>2, <1>3, <1>4 DEF Observed

\* That tie, and the types, hold for ever.
LEMMA DispatchInvariant == Spec => [](TypeOK /\ DispatchInv)
<1>1. Init => DispatchInv
  BY DEF Init, DispatchInv, Running
<1> QED BY <1>1, TypeCorrect, DispatchNext, PTL DEF Spec

\* No step revises a verdict.
LEMMA VerdictKept ==
    ASSUME TypeOK, DispatchInv, [Next]_captureVars, NEW request \in Request, verdict[request] # None
    PROVE  verdict'[request] = verdict[request]
<1>1. CASE Quiet \/ Starts \/ Permits
  BY <1>1 DEF Quiet, Starts, Permits
<1>2. ASSUME NEW outcome \in Outcome, Concludes(outcome)
      PROVE  verdict'[request] = verdict[request]
  <2>1. request # attempt.request
    BY <1>2 DEF Concludes, DispatchInv
  <2> QED BY <1>2, <2>1 DEF Concludes, TypeOK
<1> QED BY <1>1, <1>2, StepObserved DEF Observed

\* A verdict, once given, stands: whatever a Connector repeats or answers late.
THEOREM VerdictsStand == Spec => VerdictIsFinal
<1>1. TypeOK /\ DispatchInv /\ [Next]_captureVars =>
        [\A request \in Request : verdict[request] # None => verdict'[request] = verdict[request]]_captureVars
  BY VerdictKept
<1> QED BY <1>1, DispatchInvariant, PTL DEF Spec, VerdictIsFinal

\* No step makes a verdict untrue of the permissions.
LEMMA VerdictNext ==
    TypeOK /\ DispatchInv /\ VerdictMatchesDispatch /\ [Next]_captureVars => VerdictMatchesDispatch'
<1> SUFFICES ASSUME TypeOK, DispatchInv, VerdictMatchesDispatch, Observed
             PROVE  VerdictMatchesDispatch'
  BY StepObserved
<1>1. CASE Quiet \/ Starts
  BY <1>1 DEF Quiet, Starts, VerdictMatchesDispatch
<1>2. CASE Permits
  BY <1>2, NoneAssumption DEF Permits, DispatchInv, VerdictMatchesDispatch, Outcome
<1>3. ASSUME NEW outcome \in Outcome, Concludes(outcome) PROVE VerdictMatchesDispatch'
  <2>1. attempt \in Attempt /\ attempt # None /\ attempt.request \in Request
    BY <1>3 DEF Concludes, Running, TypeOK, Attempt
  <2>2. attempt.invocation # None => attempt.invocation \in escaped /\ attempt.invocation.request = attempt.request
    BY <2>1 DEF DispatchInv
  <2>3. attempt.invocation = None => \A invocation \in escaped : invocation.request # attempt.request
    BY <2>1, NoneAssumption DEF DispatchInv, TypeOK
  <2> QED BY <1>3, <2>1, <2>2, <2>3 DEF Concludes, VerdictMatchesDispatch, TypeOK
<1> QED BY <1>1, <1>2, <1>3 DEF Observed

\* A report that nothing was saved is never wrong about the permission, and a
\* report that something was saved rests on one.
THEOREM VerdictsAreEarned == Spec => []VerdictMatchesDispatch
<1>1. Init => VerdictMatchesDispatch
  BY NoneAssumption DEF Init, VerdictMatchesDispatch, Outcome
<1> QED BY <1>1, VerdictNext, DispatchInvariant, PTL DEF Spec

\* Only authorize_parent_dispatch adds a grant.
LEMMA GrantsAdded ==
    ASSUME [Next]_captureVars,
           \A invocation \in Invocation, valid \in BOOLEAN : ~AuthorizeParentDispatch(invocation, valid)
    PROVE  grants' \subseteq grants
<1>1. CASE BrowserNext
  BY <1>1 DEF BrowserNext, BrowserTask, ReserveBrowserTask, ExtendBrowserTask, ReleaseBrowserTask
<1>2. CASE WorkerNext
  BY <1>2 DEF WorkerNext, StartCapture, StartCaptureRefused, StopUndispatched,
     WaitForCompletion, ClaimCompletion, FinishResolution
<1>3. CASE ConnectorNext
  BY <1>3 DEF ConnectorNext, ConnectorCall, Heartbeat, ClaimCommand, RecordAccess, SubmitConnectorResult,
     ReportImportBrowserIdle, ReportNativeSaveSettled
<1>4. CASE WorldNext \/ UNCHANGED captureVars
  BY <1>4 DEF WorldNext, Tick, Snapshot, ResetTakesGuard, ResetDropsGuard, Restart,
     captureVars, coordinatorVars
<1> QED BY <1>1, <1>2, <1>3, <1>4 DEF Next

\* One attempt, one permission, for ever: lost replies, forgotten receipts and
\* other tabs included.
THEOREM OnePermission == Spec => DispatchOnce
<1>1. TypeOK /\ DispatchInv /\ [Next]_captureVars =>
        [\A grant \in grants' \ grants : \A invocation \in escaped :
            invocation.request # grant.invocation.request]_captureVars
  <2> SUFFICES ASSUME TypeOK, DispatchInv, [Next]_captureVars,
                      NEW grant \in grants' \ grants, NEW other \in escaped
               PROVE  other.request # grant.invocation.request
    OBVIOUS
  <2>1. PICK invocation \in Invocation, valid \in BOOLEAN : AuthorizeParentDispatch(invocation, valid)
    BY GrantsAdded
  <2>2. grant.invocation = invocation
    BY <2>1 DEF AuthorizeParentDispatch
  <2>3. Running(attempt) /\ attempt.request = invocation.request /\ attempt.invocation = None
    BY <2>1, StillRunning DEF AuthorizeParentDispatch, ActiveFor, Undispatched
  <2>4. other # None
    BY NoneAssumption DEF TypeOK
  <2> QED BY <2>2, <2>3, <2>4 DEF DispatchInv, Running
<1> QED BY <1>1, DispatchInvariant, PTL DEF Spec, DispatchOnce

(***************************************************************************)
(* Custody of the browser, the operation lock and the result               *)
(***************************************************************************)
\* The operation lock of LockFollowsCapture, place by place.
LockMeaning ==
    /\ operationLock = (Running(attempt) \/ completion # None \/ delivered # None \/ resolved # None)
    /\ Running(attempt) => completion = None /\ delivered = None /\ resolved = None
    /\ completion # None => delivered = None /\ resolved = None
    /\ delivered # None => resolved = None

\* The list of places and its four members say the same.
LEMMA LockByPlace == TypeOK => (LockFollowsCapture <=> LockMeaning)
<1> SUFFICES ASSUME TypeOK PROVE LockFollowsCapture <=> LockMeaning
  OBVIOUS
<1> DEFINE R == Running(attempt)  C == completion # None  D == delivered # None  E == resolved # None
<1>1. R \in BOOLEAN /\ C \in BOOLEAN /\ D \in BOOLEAN /\ E \in BOOLEAN /\ operationLock \in BOOLEAN
  BY DEF TypeOK, Running
<1>2. Occupied = <<R, C, D, E>>
  BY DEF Occupied
<1> HIDE DEF R, C, D, E
<1>3. /\ DOMAIN Occupied = {1, 2, 3, 4}
      /\ Occupied[1] = R /\ Occupied[2] = C /\ Occupied[3] = D /\ Occupied[4] = E
  BY <1>2
<1>4. LockFollowsCapture <=>
        /\ operationLock = (R \/ C \/ D \/ E)
        /\ R => ~C /\ ~D /\ ~E
        /\ C => ~D /\ ~E
        /\ D => ~E
  <2>1. (\E i \in DOMAIN Occupied : Occupied[i]) <=> (R \/ C \/ D \/ E)
    BY <1>3, Zenon
  <2>2. (\A i, j \in DOMAIN Occupied : Occupied[i] /\ Occupied[j] => i = j) <=>
          /\ R => ~C /\ ~D /\ ~E
          /\ C => ~D /\ ~E
          /\ D => ~E
    BY <1>3
  <2> QED BY <1>1, <2>1, <2>2, Zenon DEF LockFollowsCapture
<1> QED BY <1>4 DEF LockMeaning, R, C, D, E

\* What the capture in progress and its result owe each other.
CaptureInv == LockMeaning /\ HandoffIsCurrent /\ EveryClaimCanRetire

\* Finishing the running attempt, with whatever outcome, hands its own result over.
LEMMA FinishKeeps ==
    ASSUME TypeOK, CaptureInv, Running(attempt), NEW outcome \in Outcome, Finish(outcome),
           UNCHANGED <<delivered, resolved, operationLock, unsettled>>
    PROVE  CaptureInv'
<1>1. attempt \in Attempt /\ attempt # None /\ attempt.request \in Request
  BY DEF Running, TypeOK, Attempt
<1>2. /\ attempt' # None
      /\ attempt'.stage = "FINISHED"
      /\ attempt'.request = attempt.request
      /\ attempt'.paper = attempt.paper
      /\ attempt'.invocation = attempt.invocation
  <2>1. attempt' \in Attempt
    BY <1>1 DEF Finish, Finished, Attempt, Stage
  <2> QED BY <1>1, <2>1, NoneAssumption DEF Finish, Finished, Attempt
<1>3. completion' = CompletionOf(attempt, outcome) /\ completion' # None
  <2>1. CompletionOf(attempt, outcome) \in Completion
    BY <1>1 DEF CompletionOf, Attempt, Completion
  <2> QED BY <2>1, NoneAssumption DEF Finish
<1>4. verdict'[attempt.request] = outcome
  BY <1>1 DEF Finish, TypeOK
<1>5. LockMeaning'
  BY <1>2, <1>3 DEF CaptureInv, LockMeaning, Running
<1>6. HandoffIsCurrent'
  <2>1. completion' = CompletionOf(attempt', verdict'[attempt'.request])
    BY <1>2, <1>3, <1>4 DEF CompletionOf
  <2>2. delivered' = None /\ resolved' = None
    BY DEF CaptureInv, LockMeaning
  <2> QED BY <1>2, <2>1, <2>2 DEF HandoffIsCurrent
<1>7. EveryClaimCanRetire'
  <2>1. terminal' = terminal \cup ({attempt.request} \cap unsettled)
    BY DEF Finish, TerminalAfter
  <2> QED BY <2>1 DEF CaptureInv, EveryClaimCanRetire
<1> QED BY <1>5, <1>6, <1>7 DEF CaptureInv

\* So does applying what has expired.
LEMMA ExpiryKeeps ==
    ASSUME TypeOK, CaptureInv, ExpireAttempt, UNCHANGED <<delivered, resolved, operationLock, unsettled>>
    PROVE  CaptureInv'
<1>1. CASE Overdue
  <2>1. Running(attempt) /\ "UNCONFIRMED" \in Outcome
    BY <1>1 DEF Overdue, Outcome
  <2>2. Finish("UNCONFIRMED")
    BY <1>1 DEF Finish, ExpireAttempt, LiveAttempt, LiveCompletion, LiveTerminal, LiveVerdict
  <2> QED BY <2>1, <2>2, FinishKeeps
<1>2. CASE ~Overdue
  <2>1. UNCHANGED <<attempt, completion, terminal, verdict>>
    BY <1>2 DEF ExpireAttempt, LiveAttempt, LiveCompletion, LiveTerminal, LiveVerdict
  <2> QED BY <2>1 DEF CaptureInv, LockMeaning, HandoffIsCurrent, EveryClaimCanRetire, Running
<1> QED BY <1>1, <1>2

\* And any step in which the running attempt goes on running.
LEMMA RunningKeeps ==
    ASSUME TypeOK, CaptureInv, Running(attempt), Running(attempt)', attempt'.request = attempt.request,
           unsettled' \in {unsettled, unsettled \cup {attempt.request}},
           UNCHANGED <<completion, delivered, resolved, operationLock, terminal, verdict>>
    PROVE  CaptureInv'
<1>1. LockMeaning'
  BY DEF CaptureInv, LockMeaning
<1>2. HandoffIsCurrent'
  BY DEF CaptureInv, LockMeaning, HandoffIsCurrent
<1>3. EveryClaimCanRetire'
  BY DEF CaptureInv, EveryClaimCanRetire
<1> QED BY <1>1, <1>2, <1>3 DEF CaptureInv

\* A step that touches none of it, whatever it does to the browser or the grants.
LEMMA NothingMoved ==
    ASSUME CaptureInv, UNCHANGED <<attempt, completion, delivered, resolved, operationLock,
                                   unsettled, terminal, verdict>>
    PROVE  CaptureInv'
  BY DEF CaptureInv, LockMeaning, HandoffIsCurrent, EveryClaimCanRetire, Running

\* When nothing is left to be written, no attempt is overdue and no field is occupied.
LEMMA NothingPendingMeans ==
    ASSUME TypeOK, NothingPending, ~Running(LiveAttempt)
    PROVE  ~Overdue /\ NoCapture
<1>1. ~Overdue
  <2> SUFFICES ASSUME Overdue PROVE FALSE
    OBVIOUS
  <2>1. attempt \in Attempt
    BY DEF Overdue, Running, TypeOK
  <2>2. CompletionOf(attempt, "UNCONFIRMED") \in Completion
    BY <2>1 DEF CompletionOf, Attempt, Completion, Outcome
  <2> QED BY <2>2, NoneAssumption DEF NothingPending, LiveCompletion
<1> QED BY <1>1 DEF NothingPending, LiveCompletion, LiveAttempt, NoCapture

\* An Import's lease is the one that never runs out.
LEMMA ImportNeverLapses ==
    ASSUME BrowserIsAccountedFor, ImportOwned
    PROVE  ~Lapsed /\ LiveBrowser = browser
  BY TimeoutAssumption DEF BrowserIsAccountedFor, Lapsed, LiveBrowser, NoDeadline

\* A step that only lets an expired lease go, or leaves the browser alone, and adds
\* neither lock, grant nor claim keeps the browser's owner right.
LEMMA BrowserKeeps ==
    ASSUME BrowserIsAccountedFor, browser' \in {browser, LiveBrowser}, operationLock' => operationLock,
           grants' \subseteq grants, unsettled' \subseteq unsettled, held' = held
    PROVE  BrowserIsAccountedFor'
<1>1. ImportOwned => browser' = browser
  BY ImportNeverLapses
<1>2. browser' \in {browser, None}
  BY DEF LiveBrowser
<1> QED BY <1>1, <1>2 DEF BrowserIsAccountedFor, ImportOwned

\* While an Import owns the browser, captures may come and go.
LEMMA ImportKeeps ==
    ASSUME BrowserIsAccountedFor, ImportOwned, browser' \in {browser, LiveBrowser}, held' = held
    PROVE  BrowserIsAccountedFor'
<1>1. browser' = browser
  BY ImportNeverLapses
<1> QED BY <1>1 DEF BrowserIsAccountedFor, ImportOwned, ReadOnlyKind

\* No call, tick, Reset or restart breaks the custody of a capture or of the browser.
LEMMA CustodyNext ==
    TypeOK /\ CaptureInv /\ BrowserIsAccountedFor /\ [Next]_captureVars
        => CaptureInv' /\ BrowserIsAccountedFor'
<1> SUFFICES ASSUME TypeOK, CaptureInv, BrowserIsAccountedFor, [Next]_captureVars
             PROVE  CaptureInv' /\ BrowserIsAccountedFor'
  OBVIOUS
<1>1. ASSUME NEW kind \in Kind, NEW owner \in Owner, NEW left \in LeaseTimes(kind),
             ReserveBrowserTask(kind, owner, left)
      PROVE  CaptureInv' /\ BrowserIsAccountedFor'
  <2>1. CaptureInv'
    BY <1>1, ExpiryKeeps DEF ReserveBrowserTask
  <2>2. /\ browser' = [kind |-> kind, owner |-> owner, left |-> left]
        /\ held' = held \cup {<<kind, owner>>}
        /\ kind \in ReadOnlyKind => grants = {} /\ unsettled = {}
        /\ UNCHANGED <<operationLock, grants, unsettled>>
        /\ ~operationLock
    BY <1>1 DEF ReserveBrowserTask, Reservable
  <2>3. kind = "import" => left = NoDeadline
    BY DEF LeaseTimes
  <2> QED BY <2>1, <2>2, <2>3 DEF BrowserIsAccountedFor, ImportOwned
<1>2. ASSUME NEW kind \in {"enrichment", "covers"}, NEW owner \in Owner,
             ExtendBrowserTask(kind, owner, MaxLease)
      PROVE  CaptureInv' /\ BrowserIsAccountedFor'
  <2>1. CaptureInv'
    BY <1>2, ExpiryKeeps DEF ExtendBrowserTask
  <2>2. browser # None /\ browser \in Task /\ browser.kind = kind
    BY <1>2 DEF ExtendBrowserTask, Owns, LiveBrowser, TypeOK
  <2>3. browser'.kind = kind /\ browser'.owner = browser.owner
    BY <1>2, <2>2 DEF ExtendBrowserTask, Task
  <2>4. UNCHANGED <<operationLock, grants, unsettled, held>>
    BY <1>2 DEF ExtendBrowserTask
  <2> QED BY <2>1, <2>2, <2>3, <2>4 DEF BrowserIsAccountedFor, ImportOwned
<1>3. ASSUME NEW kind \in Kind, NEW owner \in Owner, kind = "import" => NoCapture,
             ReleaseBrowserTask(kind, owner)
      PROVE  CaptureInv' /\ BrowserIsAccountedFor'
  <2>1. CaptureInv'
    BY <1>3, NothingMoved DEF ReleaseBrowserTask
  <2>2. /\ browser' = IF Owns(browser, kind, owner) THEN None ELSE browser
        /\ held' = held \ {<<kind, owner>>}
        /\ UNCHANGED <<operationLock, grants, unsettled>>
    BY <1>3 DEF ReleaseBrowserTask
  <2>3. CASE Owns(browser, kind, owner)
    <3>1. kind = "import" => ~operationLock
      BY <1>3 DEF CaptureInv, LockMeaning, NoCapture
    <3> QED BY <2>1, <2>2, <2>3, <3>1 DEF BrowserIsAccountedFor, ImportOwned, Owns
  <2>4. CASE ~Owns(browser, kind, owner)
    BY <2>1, <2>2, <2>4 DEF BrowserIsAccountedFor, ImportOwned, Owns
  <2> QED BY <2>3, <2>4
<1>4. ASSUME NEW request \in Request, NEW paper \in Paper, NEW valid \in BOOLEAN, ImportOwned,
             StartCapture(request, paper, valid)
      PROVE  CaptureInv' /\ BrowserIsAccountedFor'
  <2>1. ~Running(LiveAttempt) /\ NothingPending
    BY <1>4 DEF StartCapture, StartOutcome
  <2>2. NoCapture
    BY <2>1, NothingPendingMeans
  <2>3. attempt' = [request |-> request, paper |-> paper, stage |-> "WAITING_FOR_CONNECTOR",
                    age |-> 0, invocation |-> None, access |-> None, accessTab |-> None]
    BY <1>4 DEF StartCapture
  <2>4. Running(attempt)'
    <3>1. attempt' \in Attempt
      BY <2>3 DEF Attempt, Stage
    <3> QED BY <2>3, <3>1, NoneAssumption DEF Running
  <2>5. UNCHANGED <<completion, delivered, resolved, unsettled, terminal, held>> /\ operationLock' = TRUE
    BY <1>4 DEF StartCapture
  <2>6. CaptureInv'
    BY <2>2, <2>4, <2>5 DEF CaptureInv, LockMeaning, HandoffIsCurrent, EveryClaimCanRetire, NoCapture
  <2>7. BrowserIsAccountedFor'
    BY <1>4, <2>5, ImportKeeps DEF StartCapture, ExpireBrowser
  <2> QED BY <2>6, <2>7
<1>5. ASSUME NEW valid \in BOOLEAN, StartCaptureRefused(valid)
      PROVE  CaptureInv' /\ BrowserIsAccountedFor'
  <2>1. UNCHANGED <<delivered, resolved, grants, unsettled, held>> /\ browser' \in {browser, LiveBrowser}
    BY <1>5 DEF StartCaptureRefused, Expire, ExpireBrowser
  <2>2. operationLock' = operationLock
    <3>1. CASE StartOutcome(valid) \in {"INVALID_DOI", "CONNECTOR_UNAVAILABLE"}
      <4>1. ~Running(LiveAttempt) /\ NothingPending
        BY <3>1 DEF StartOutcome
      <4>2. ~operationLock
        BY <4>1, NothingPendingMeans DEF CaptureInv, LockMeaning, NoCapture
      <4> QED BY <1>5, <3>1, <4>2 DEF StartCaptureRefused, TypeOK
    <3>2. CASE StartOutcome(valid) \notin {"INVALID_DOI", "CONNECTOR_UNAVAILABLE"}
      BY <1>5, <3>2 DEF StartCaptureRefused
    <3> QED BY <3>1, <3>2
  <2>3. CaptureInv'
    BY <1>5, <2>1, <2>2, ExpiryKeeps, NothingMoved DEF StartCaptureRefused, Expire
  <2> QED BY <2>1, <2>2, <2>3, BrowserKeeps
<1>6. ASSUME NEW paper \in Paper, StopUndispatched(paper)
      PROVE  CaptureInv' /\ BrowserIsAccountedFor'
  <2>1. CaptureInv'
    <3>1. CASE Stoppable(paper)
      <4>1. Running(attempt)
        BY <3>1, StillRunning DEF Stoppable
      <4>2. "FAILED" \in Outcome
        BY DEF Outcome
      <4> QED BY <1>6, <3>1, <4>1, <4>2, FinishKeeps DEF StopUndispatched
    <3>2. CASE ~Stoppable(paper)
      BY <1>6, <3>2, ExpiryKeeps DEF StopUndispatched
    <3> QED BY <3>1, <3>2
  <2> QED BY <1>6, <2>1, BrowserKeeps DEF StopUndispatched, ExpireBrowser
<1>7. CASE WaitForCompletion
  <2>1. CaptureInv'
    <3>1. CASE Overdue
      <4>1. attempt \in Attempt /\ attempt # None /\ attempt.request \in Request
        BY <3>1 DEF Overdue, Running, TypeOK, Attempt
      <4>2. /\ attempt' = Finished(attempt)
            /\ completion' = None
            /\ delivered' = CompletionOf(attempt, "UNCONFIRMED")
            /\ terminal' = TerminalAfter(attempt)
            /\ verdict' = [verdict EXCEPT ![attempt.request] = "UNCONFIRMED"]
            /\ UNCHANGED <<resolved, operationLock, unsettled>>
        BY <1>7, <3>1 DEF WaitForCompletion, LiveAttempt, LiveCompletion, LiveTerminal, LiveVerdict
      <4>3. attempt' \in Attempt
        BY <4>1, <4>2 DEF Finished, Attempt, Stage
      <4>4. /\ attempt' # None
            /\ attempt'.stage = "FINISHED"
            /\ attempt'.request = attempt.request
            /\ attempt'.paper = attempt.paper
            /\ attempt'.invocation = attempt.invocation
        BY <4>1, <4>2, <4>3, NoneAssumption DEF Finished, Attempt
      <4>5. CompletionOf(attempt, "UNCONFIRMED") \in Completion
        BY <4>1 DEF CompletionOf, Attempt, Completion, Outcome
      <4>6. delivered' # None
        BY <4>2, <4>5, NoneAssumption
      <4>7. verdict'[attempt.request] = "UNCONFIRMED"
        BY <4>1, <4>2 DEF TypeOK
      <4>8. operationLock /\ resolved = None
        BY <3>1 DEF Overdue, CaptureInv, LockMeaning
      <4>9. LockMeaning'
        BY <4>2, <4>4, <4>6, <4>8 DEF LockMeaning, Running
      <4>10. HandoffIsCurrent'
        <5>1. delivered' = CompletionOf(attempt', verdict'[attempt'.request])
          BY <4>2, <4>4, <4>7 DEF CompletionOf
        <5> QED BY <4>2, <4>4, <4>8, <5>1 DEF HandoffIsCurrent
      <4>11. EveryClaimCanRetire'
        BY <4>2 DEF TerminalAfter, CaptureInv, EveryClaimCanRetire
      <4> QED BY <4>9, <4>10, <4>11 DEF CaptureInv
    <3>2. CASE ~Overdue
      <4>1. /\ completion # None /\ completion' = None /\ delivered' = completion
            /\ UNCHANGED <<attempt, terminal, verdict, resolved, operationLock, unsettled>>
        BY <1>7, <3>2 DEF WaitForCompletion, LiveAttempt, LiveCompletion, LiveTerminal, LiveVerdict
      <4> QED BY <4>1 DEF CaptureInv, LockMeaning, HandoffIsCurrent, EveryClaimCanRetire, Running
    <3> QED BY <3>1, <3>2
  <2> QED BY <1>7, <2>1, BrowserKeeps DEF WaitForCompletion, ExpireBrowser
<1>8. CASE ClaimCompletion
  <2>1. CaptureInv'
    BY <1>8 DEF ClaimCompletion, CaptureInv, LockMeaning, HandoffIsCurrent, EveryClaimCanRetire, Running
  <2> QED BY <1>8, <2>1, BrowserKeeps DEF ClaimCompletion
<1>9. CASE FinishResolution
  <2>1. resolved.request = attempt.request /\ ~Running(attempt)
    BY <1>9 DEF FinishResolution, CaptureInv, HandoffIsCurrent, CompletionOf, Running
  <2>2. CaptureInv'
    BY <1>9, <2>1 DEF FinishResolution, CaptureInv, LockMeaning, HandoffIsCurrent, EveryClaimCanRetire, Running
  <2> QED BY <1>9, <2>2, BrowserKeeps DEF FinishResolution
<1>10. ASSUME NEW reachable \in BOOLEAN, Heartbeat(reachable)
       PROVE  CaptureInv' /\ BrowserIsAccountedFor'
  BY <1>10, ExpiryKeeps, BrowserKeeps DEF Heartbeat, Expire, ExpireBrowser
<1>11. ASSUME NEW valid \in BOOLEAN, ClaimCommand(valid)
       PROVE  CaptureInv' /\ BrowserIsAccountedFor'
  <2>1. attempt \in Attempt /\ Running(attempt)
    BY <1>11, StillRunning DEF ClaimCommand
  <2>2. Running(attempt)' /\ attempt'.request = attempt.request
    <3>1. attempt' \in Attempt
      BY <1>11, <2>1 DEF ClaimCommand, Attempt, Stage
    <3> QED BY <1>11, <2>1, <3>1, NoneAssumption DEF ClaimCommand, Attempt, Running
  <2>3. CaptureInv'
    BY <1>11, <2>1, <2>2, RunningKeeps DEF ClaimCommand
  <2>4. ImportOwned
    BY <2>1 DEF CaptureInv, LockMeaning, BrowserIsAccountedFor
  <2> QED BY <1>11, <2>3, <2>4, ImportKeeps DEF ClaimCommand, ExpireBrowser
<1>12. ASSUME NEW request \in Request, NEW tab \in Tab, NEW reason \in AccessReason,
              RecordAccess(request, tab, reason)
       PROVE  CaptureInv' /\ BrowserIsAccountedFor'
  <2>1. attempt \in Attempt /\ Running(attempt)
    BY <1>12, StillRunning DEF RecordAccess, Unreported, ActiveFor
  <2>2. Running(attempt)' /\ attempt'.request = attempt.request
    <3>1. attempt' \in Attempt
      BY <1>12, <2>1 DEF RecordAccess, Attempt
    <3> QED BY <1>12, <2>1, <3>1, NoneAssumption DEF RecordAccess, Attempt, Running
  <2>3. CaptureInv'
    BY <1>12, <2>1, <2>2, RunningKeeps DEF RecordAccess
  <2> QED BY <1>12, <2>3, BrowserKeeps DEF RecordAccess, ExpireBrowser
<1>13. ASSUME NEW invocation \in Invocation, NEW valid \in BOOLEAN,
              AuthorizeParentDispatch(invocation, valid)
       PROVE  CaptureInv' /\ BrowserIsAccountedFor'
  <2>1. attempt \in Attempt /\ Running(attempt)
    BY <1>13, StillRunning DEF AuthorizeParentDispatch, ActiveFor
  <2>2. attempt' = [attempt EXCEPT !.invocation = invocation]
    BY <1>13 DEF AuthorizeParentDispatch
  <2>3. Running(attempt)' /\ attempt'.request = attempt.request
    <3>1. attempt' \in Attempt
      BY <2>1, <2>2 DEF Attempt
    <3> QED BY <2>1, <2>2, <3>1, NoneAssumption DEF Attempt, Running
  <2>4. CaptureInv'
    BY <1>13, <2>1, <2>3, RunningKeeps DEF AuthorizeParentDispatch
  <2>5. ImportOwned
    BY <2>1 DEF CaptureInv, LockMeaning, BrowserIsAccountedFor
  <2> QED BY <1>13, <2>4, <2>5, ImportKeeps DEF AuthorizeParentDispatch, ExpireBrowser
<1>14. ASSUME NEW presented \in Invocation, NEW outcome \in Outcome,
              NEW stage \in FailureStage \cup {None},
              SubmitConnectorResult(presented, outcome, stage)
       PROVE  CaptureInv' /\ BrowserIsAccountedFor'
  <2>1. Running(attempt)
    BY <1>14, StillRunning DEF SubmitConnectorResult, Acceptable, ActiveFor
  <2>2. CaptureInv'
    BY <1>14, <2>1, FinishKeeps DEF SubmitConnectorResult
  <2> QED BY <1>14, <2>2, BrowserKeeps DEF SubmitConnectorResult, ExpireBrowser
<1>15. ASSUME NEW request \in Request, ReportImportBrowserIdle(request)
       PROVE  CaptureInv' /\ BrowserIsAccountedFor'
  <2>1. /\ unsettled' = unsettled \ {request} /\ terminal' = terminal \ {request}
        /\ UNCHANGED <<browser, attempt, completion, delivered, resolved, operationLock,
                       grants, held, verdict>>
    BY <1>15 DEF ReportImportBrowserIdle
  <2>2. CaptureInv'
    BY <2>1 DEF CaptureInv, LockMeaning, HandoffIsCurrent, EveryClaimCanRetire, Running
  <2> QED BY <2>1, <2>2, BrowserKeeps
<1>16. ASSUME NEW invocation \in Invocation, ReportNativeSaveSettled(invocation)
       PROVE  CaptureInv' /\ BrowserIsAccountedFor'
  BY <1>16, NothingMoved, BrowserKeeps DEF ReportNativeSaveSettled
<1>17. CASE Tick
  <2>1. CaptureInv'
    <3>1. CASE Running(attempt) /\ ~Overdue
      <4>1. attempt \in Attempt /\ attempt' = [attempt EXCEPT !.age = @ + 1]
        BY <1>17, <3>1 DEF Tick, TypeOK, Running
      <4>2. Running(attempt)' /\ attempt'.request = attempt.request
        <5>1. attempt' \in Attempt
          BY <4>1 DEF Attempt
        <5> QED BY <3>1, <4>1, <5>1, NoneAssumption DEF Attempt, Running
      <4> QED BY <1>17, <3>1, <4>2, RunningKeeps DEF Tick
    <3>2. CASE ~(Running(attempt) /\ ~Overdue)
      BY <1>17, <3>2, NothingMoved DEF Tick
    <3> QED BY <3>1, <3>2
  <2>2. BrowserIsAccountedFor'
    <3>1. CASE browser # None /\ browser.left \in 1..MaxLease
      <4>1. browser \in Task /\ ~ImportOwned
        BY <3>1, TimeoutAssumption DEF TypeOK, BrowserIsAccountedFor, NoDeadline
      <4>2. /\ browser'.kind = browser.kind /\ browser'.owner = browser.owner
            /\ UNCHANGED <<operationLock, grants, unsettled, held>>
        BY <1>17, <3>1, <4>1 DEF Tick, Task
      <4> QED BY <3>1, <4>1, <4>2 DEF BrowserIsAccountedFor, ImportOwned
    <3>2. CASE ~(browser # None /\ browser.left \in 1..MaxLease)
      BY <1>17, <3>2, BrowserKeeps DEF Tick
    <3> QED BY <3>1, <3>2
  <2> QED BY <2>1, <2>2
<1>18. CASE Snapshot
  BY <1>18, ExpiryKeeps, BrowserKeeps DEF Snapshot, Expire, ExpireBrowser
<1>19. ASSUME NEW workspace \in Workspace, ResetTakesGuard(workspace) \/ ResetDropsGuard(workspace)
       PROVE  CaptureInv' /\ BrowserIsAccountedFor'
  BY <1>19, NothingMoved, BrowserKeeps DEF ResetTakesGuard, ResetDropsGuard, coordinatorVars
<1>20. CASE Restart
  BY <1>20 DEF Restart, CaptureInv, LockMeaning, HandoffIsCurrent, EveryClaimCanRetire, Running,
     BrowserIsAccountedFor, ImportOwned
<1>21. CASE UNCHANGED captureVars
  BY <1>21, NothingMoved, BrowserKeeps DEF captureVars, coordinatorVars
<1> QED BY <1>1, <1>2, <1>3, <1>4, <1>5, <1>6, <1>7, <1>8, <1>9, <1>10, <1>11, <1>12, <1>13,
           <1>14, <1>15, <1>16, <1>17, <1>18, <1>19, <1>20, <1>21
        DEF Next, BrowserNext, BrowserTask, WorkerNext, ConnectorNext, ConnectorCall, WorldNext

\* The inductive invariant of custody holds for ever.
LEMMA CustodyInvariant == Spec => [](TypeOK /\ CaptureInv /\ BrowserIsAccountedFor)
<1>1. Init => CaptureInv /\ BrowserIsAccountedFor
  BY DEF Init, CaptureInv, LockMeaning, HandoffIsCurrent, EveryClaimCanRetire, Running,
     BrowserIsAccountedFor, ImportOwned
<1> QED BY <1>1, TypeCorrect, CustodyNext, PTL DEF Spec

\* Browser, operation lock, hand-off and claimed pages agree in every reachable state, with
\* any number of Owners, attempts and receipts: no refusal, stop, timeout, late or repeated
\* answer or restart leaves one of them behind.
THEOREM CustodyHolds == Spec => []CustodyIsSound
<1>1. TypeOK /\ CaptureInv /\ BrowserIsAccountedFor => CustodyIsSound
  <2> SUFFICES ASSUME TypeOK, CaptureInv, BrowserIsAccountedFor PROVE CustodyIsSound
    OBVIOUS
  <2>1. LockFollowsCapture
    BY LockByPlace DEF CaptureInv
  <2>2. ReadOnlyTaskRunsAlone
    <3> SUFFICES ASSUME LiveBrowser # None, LiveBrowser.kind \in ReadOnlyKind
                 PROVE  NoCapture /\ ~operationLock /\ grants = {} /\ unsettled = {}
      BY DEF ReadOnlyTaskRunsAlone
    <3>1. browser # None /\ browser.kind \in ReadOnlyKind
      BY DEF LiveBrowser
    <3>2. ~operationLock
      BY <3>1 DEF BrowserIsAccountedFor, ImportOwned, ReadOnlyKind
    <3> QED BY <3>1, <3>2 DEF BrowserIsAccountedFor, CaptureInv, LockMeaning, NoCapture
  <2> QED BY <2>1, <2>2 DEF CustodyIsSound, CaptureInv
<1> QED BY <1>1, CustodyInvariant, PTL

\* Only its own lease or its own token takes the browser from a task, whichever of
\* any number of owners come back late.
THEOREM HolderReleases == Spec => OnlyHolderReleases
<1>1. TypeOK /\ BrowserIsAccountedFor /\ [Next]_captureVars =>
        [LiveBrowser # None /\ (browser' = None \/ browser'.owner # browser.owner)
            => <<browser.kind, browser.owner>> \in held \ held']_captureVars
  <2> SUFFICES ASSUME TypeOK, BrowserIsAccountedFor, [Next]_captureVars, LiveBrowser # None,
                      browser' = None \/ browser'.owner # browser.owner
               PROVE  <<browser.kind, browser.owner>> \in held \ held'
    OBVIOUS
  <2>1. /\ browser # None /\ browser \in Task /\ LiveBrowser = browser
        /\ browser' # browser
        /\ <<browser.kind, browser.owner>> \in held
    BY DEF LiveBrowser, TypeOK, BrowserIsAccountedFor
  <2>2. CASE BrowserNext
    <3>1. PICK kind \in Kind, owner \in Owner :
              ExtendBrowserTask(kind, owner, MaxLease) \/ ReleaseBrowserTask(kind, owner)
      BY <2>1, <2>2 DEF BrowserNext, BrowserTask, ReserveBrowserTask, Reservable
    <3>2. CASE ExtendBrowserTask(kind, owner, MaxLease)
      <4>1. browser' # None /\ browser'.owner = browser.owner
        <5>1. browser' \in Task
          BY <2>1, <3>2, TimeoutAssumption DEF ExtendBrowserTask, Task, NoDeadline
        <5> QED BY <2>1, <3>2, <5>1, NoneAssumption DEF ExtendBrowserTask, Task
      <4> QED BY <4>1
    <3>3. CASE ReleaseBrowserTask(kind, owner)
      BY <2>1, <3>3 DEF ReleaseBrowserTask, Owns
    <3> QED BY <3>1, <3>2, <3>3
  <2>3. CASE Tick
    <3>1. browser' = [browser EXCEPT !.left = @ - 1] /\ browser.left \in 1..MaxLease
      BY <2>1, <2>3 DEF Tick
    <3>2. browser' \in Task /\ browser'.owner = browser.owner
      BY <2>1, <3>1, TimeoutAssumption DEF Task, NoDeadline
    <3> QED BY <3>2, NoneAssumption
  <2>4. CASE Restart
    BY <2>1, <2>4 DEF Restart
  <2>5. CASE UNCHANGED captureVars \/ (~BrowserNext /\ ~Tick /\ ~Restart)
    <3>1. browser' \in {browser, LiveBrowser}
      BY <2>5 DEF Next, WorkerNext, ConnectorNext, ConnectorCall, WorldNext, captureVars, coordinatorVars,
         StartCapture, StartCaptureRefused, StopUndispatched, WaitForCompletion, ClaimCompletion,
         FinishResolution, Heartbeat, ClaimCommand, RecordAccess, AuthorizeParentDispatch,
         SubmitConnectorResult, ReportImportBrowserIdle, ReportNativeSaveSettled, Snapshot,
         ResetTakesGuard, ResetDropsGuard, Expire, ExpireBrowser
    <3> QED BY <2>1, <3>1
  <2> QED BY <2>2, <2>3, <2>4, <2>5
<1> QED BY <1>1, CustodyInvariant, PTL DEF Spec, OnlyHolderReleases
===============================================================================
