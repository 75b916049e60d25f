-------------------------- MODULE CaptureCoordinator --------------------------
(***************************************************************************)
(* The in-process authority for every browser task and every native Zotero *)
(* save: web/capture_coordinator.py.  Each public method of the class runs *)
(* under one lock, so each is one action.  Most methods begin by applying  *)
(* the expiries that have fallen due (_expire_locked); those actions act   *)
(* on the "live" values of the state (LiveBrowser, LiveAttempt, ...) and   *)
(* write them back, due or not.                                            *)
(*                                                                         *)
(* The request id, the invocation id and the DOI target of one attempt are *)
(* generated together and compared together: one member of Request stands  *)
(* for all three.  Tokens are unguessable, so a fresh one is a fresh       *)
(* member.  Time is kept as ages and remaining leases, not as a clock.     *)
(***************************************************************************)
EXTENDS Naturals, Sequences, SequencesExt

CONSTANTS
    Request,           \* capture attempts one history may start (a bound)
    Owner,             \* browser-ownership tokens that may be out at once
    Paper, Workspace,
    WorkspaceOf,       \* the Workspace a Paper's reservation names
    Tab, Session,      \* what a Connector may present with an invocation
    HeartbeatStale,    \* HEARTBEAT_STALE_SECONDS
    WaitingTimeout,    \* WAITING_TIMEOUT_SECONDS
    ActiveTimeout,     \* ACTIVE_TIMEOUT_SECONDS
    MaxLease,          \* the longest lease of a read-only browser task
    ReceiptLimit,      \* PROCESSED_RECEIPT_LIMIT
    None

ASSUME TimeoutAssumption ==
    /\ HeartbeatStale \in Nat
    /\ WaitingTimeout \in Nat \ {0}
    /\ ActiveTimeout \in Nat \ {0}
    /\ MaxLease \in Nat \ {0}
    /\ ReceiptLimit \in Nat \ {0}

ASSUME WorkspaceAssumption == WorkspaceOf \in [Paper -> Workspace]

Kind == {"import", "preparation", "enrichment", "covers"}
ReadOnlyKind == Kind \ {"import"}

\* What a lease's remaining time is when the task was reserved without one.
NoDeadline == MaxLease + 1

Invocation == [request : Request, tab : Tab, session : Session]   \* SaveInvocation
Grant == [invocation : Invocation, workspace : Workspace]
Outcome == {"CONFIRMED", "FAILED", "UNCONFIRMED"}
Stage == {"WAITING_FOR_CONNECTOR", "CONNECTOR_ACTIVE", "FINISHED"}
FailureStage == {"pre_dispatch", "translator", "native_save", "missing_confirmation"}

\* Observed access either lets a capture go on ("unknown_service",
\* "no_verified_route", "prepared") or is any of the eight obstacles.
Passable == {"passable"}
AccessReason == Passable \cup {"obstacle"}

Attempt == [request : Request, paper : Paper, stage : Stage, age : Nat,
            invocation : Invocation \cup {None},
            access : AccessReason \cup {None}, accessTab : Tab \cup {None}]

Completion == [request : Request, paper : Paper, outcome : Outcome,
               invocation : Invocation \cup {None}]

Task == [kind : Kind, owner : Owner, left : 0..NoDeadline]

ASSUME NoneAssumption ==
    /\ None \notin Request /\ None \notin Tab
    /\ None \notin Task /\ None \notin Invocation
    /\ None \notin Attempt /\ None \notin Completion
    /\ None \notin Outcome /\ None \notin AccessReason /\ None \notin FailureStage

VARIABLES
    browser,        \* _browser_owner, _browser_kind and _browser_deadline
    attempt,        \* _attempt
    completion,     \* _completion: finished, not yet given to the worker
    delivered,      \* _delivered_completion
    resolved,       \* _resolved_completion: claimed, being written
    operationLock,  \* whether _operation_lock is set
    grants,         \* _native_save_grants
    guarded,        \* Workspaces in _reset_guard_contexts (shared flock held)
    unsettled,      \* _import_browser_unsettled
    terminal,       \* _import_browser_terminal
    idleReceipts,   \* _processed_browser_idle, oldest first
    saveReceipts,   \* _processed_native_settled, oldest first
    heartbeatAge,   \* time since the last heartbeat, saturating when stale
    zoteroReachable,
    \* The rest of the world as the coordinator meets it:
    held,           \* <<kind, owner>> tokens some caller has not given back
    exclusive,      \* Workspaces whose guard a Workspace Reset holds exclusively
    \* History, never read by the code:
    used,           \* requests ever generated
    escaped,        \* permissions ever returned to a Connector
    verdict         \* the outcome each request finished with

coordinatorVars == <<browser, attempt, completion, delivered, resolved,
                     operationLock, grants, guarded, unsettled, terminal,
                     idleReceipts, saveReceipts, heartbeatAge, zoteroReachable>>
captureVars == <<coordinatorVars, held, exclusive, used, escaped, verdict>>

-----------------------------------------------------------------------------
(***************************************************************************)
(* Lazy expiry                                                             *)
(***************************************************************************)
Running(a) == a # None /\ a.stage # "FINISHED"

TimeoutOf(stage) == IF stage = "WAITING_FOR_CONNECTOR" THEN WaitingTimeout ELSE ActiveTimeout

Overdue == Running(attempt) /\ attempt.age >= TimeoutOf(attempt.stage)
Lapsed == browser # None /\ browser.left = 0

\* Mutant: the outcome stored where the stage belongs.
FinishedAsOutcome(a) == [a EXCEPT !.stage = "UNCONFIRMED"]
Finished(a) == [a EXCEPT !.stage = "FINISHED"]

CompletionOf(a, outcome) ==
    [request |-> a.request, paper |-> a.paper, outcome |-> outcome, invocation |-> a.invocation]

\* The claimed pages whose attempt is over once a is.
\* Mutant: the claim of a timed-out or finished attempt is not marked.
TerminalUnmarked(a) == terminal
TerminalAfter(a) == terminal \cup ({a.request} \cap unsettled)

\* The state once _expire_locked has run.
LiveBrowser == IF Lapsed THEN None ELSE browser
LiveAttempt == IF Overdue THEN Finished(attempt) ELSE attempt
LiveCompletion == IF Overdue THEN CompletionOf(attempt, "UNCONFIRMED") ELSE completion
LiveTerminal == IF Overdue THEN TerminalAfter(attempt) ELSE terminal
LiveVerdict == IF Overdue THEN [verdict EXCEPT ![attempt.request] = "UNCONFIRMED"] ELSE verdict

ExpireBrowser == browser' = LiveBrowser
ExpireAttempt == /\ attempt' = LiveAttempt
                 /\ completion' = LiveCompletion
                 /\ terminal' = LiveTerminal
                 /\ verdict' = LiveVerdict
Expire == ExpireBrowser /\ ExpireAttempt

\* _finish_locked on the running attempt.
Finish(outcome) == /\ attempt' = Finished(attempt)
                   /\ completion' = CompletionOf(attempt, outcome)
                   /\ terminal' = TerminalAfter(attempt)
                   /\ verdict' = [verdict EXCEPT ![attempt.request] = outcome]

Ready == heartbeatAge <= HeartbeatStale /\ zoteroReachable   \* _readiness_locked

\* No finished attempt is still waiting to be written to its Paper.
NothingPending == LiveCompletion = None /\ delivered = None /\ resolved = None

\* Remember a processed receipt; the oldest goes when there are too many.
Remember(receipts, receipt) ==
    IF Len(receipts) < ReceiptLimit THEN Append(receipts, receipt)
    ELSE Append(Tail(receipts), receipt)

-----------------------------------------------------------------------------
Init ==
    /\ browser = None
    /\ attempt = None
    /\ completion = None /\ delivered = None /\ resolved = None
    /\ operationLock = FALSE
    /\ grants = {} /\ guarded = {}
    /\ unsettled = {} /\ terminal = {}
    /\ idleReceipts = <<>> /\ saveReceipts = <<>>
    /\ heartbeatAge = HeartbeatStale + 1
    /\ zoteroReachable = FALSE
    /\ held = {} /\ exclusive = {}
    /\ used = {} /\ escaped = {}
    /\ verdict = [request \in Request |-> None]

(***************************************************************************)
(* Browser ownership                                                       *)
(***************************************************************************)
Reservable(kind) ==
    /\ LiveBrowser = None
    /\ kind \in ReadOnlyKind => grants = {} /\ unsettled = {}
    /\ ~operationLock
    /\ NothingPending
    /\ ~Running(LiveAttempt)

ReserveBrowserTask(kind, owner, left) ==
    /\ \A token \in held : token[2] # owner
    /\ Reservable(kind)
    /\ browser' = [kind |-> kind, owner |-> owner, left |-> left]
    /\ ExpireAttempt
    /\ held' = held \cup {<<kind, owner>>}
    /\ UNCHANGED <<delivered, resolved, operationLock, grants, guarded, unsettled,
                   idleReceipts, saveReceipts, heartbeatAge, zoteroReachable,
                   exclusive, used, escaped>>

\* Mutant: the kind of task is taken for its owner.
OwnsKind(b, kind, owner) == b # None /\ b.kind = kind
Owns(b, kind, owner) == b # None /\ b.kind = kind /\ b.owner = owner

ExtendBrowserTask(kind, owner, left) ==
    /\ <<kind, owner>> \in held
    /\ Owns(LiveBrowser, kind, owner)
    /\ browser' = [browser EXCEPT !.left = left]
    /\ ExpireAttempt
    /\ UNCHANGED <<delivered, resolved, operationLock, grants, guarded, unsettled,
                   idleReceipts, saveReceipts, heartbeatAge, zoteroReachable,
                   held, exclusive, used, escaped>>

\* A token whose lease has lapsed, and been given to another task, releases nothing.
ReleaseBrowserTask(kind, owner) ==
    /\ <<kind, owner>> \in held
    /\ browser' = IF Owns(browser, kind, owner) THEN None ELSE browser
    /\ held' = held \ {<<kind, owner>>}
    /\ UNCHANGED <<attempt, completion, terminal, delivered, resolved, operationLock,
                   grants, guarded, unsettled, idleReceipts, saveReceipts,
                   heartbeatAge, zoteroReachable, exclusive, used, escaped, verdict>>

(***************************************************************************)
(* The batch worker's calls                                                *)
(***************************************************************************)
\* What start_capture answers when the Paper's slot does (valid) or does not
\* still match its reservation.
StartOutcome(valid) ==
    IF browser # None /\ browser.kind = "preparation" THEN "ALREADY_ACTIVE"
    ELSE IF LiveBrowser # None /\ LiveBrowser.kind = "covers" THEN "ALREADY_ACTIVE"
    ELSE IF Running(LiveAttempt) THEN "ALREADY_ACTIVE"
    ELSE IF ~NothingPending THEN "COMPLETION_PENDING"
    ELSE IF ~valid THEN "INVALID_DOI"
    ELSE IF ~Ready THEN "CONNECTOR_UNAVAILABLE"
    ELSE "STARTED"

StartCapture(request, paper, valid) ==
    /\ request \notin used
    /\ StartOutcome(valid) = "STARTED"
    /\ ExpireBrowser
    /\ attempt' = [request |-> request, paper |-> paper, stage |-> "WAITING_FOR_CONNECTOR",
                   age |-> 0, invocation |-> None, access |-> None, accessTab |-> None]
    /\ operationLock' = TRUE
    /\ used' = used \cup {request}
    /\ UNCHANGED <<completion, terminal, delivered, resolved, grants, guarded, unsettled,
                   idleReceipts, saveReceipts, heartbeatAge, zoteroReachable,
                   held, exclusive, escaped, verdict>>

\* A refusal leaves the lock field empty only on the paths that had set it.
StartCaptureRefused(valid) ==
    /\ StartOutcome(valid) # "STARTED"
    /\ IF browser # None /\ browser.kind = "preparation"
       THEN UNCHANGED <<browser, attempt, completion, terminal, verdict>>
       ELSE Expire
    /\ operationLock' = IF StartOutcome(valid) \in {"INVALID_DOI", "CONNECTOR_UNAVAILABLE"}
                        THEN FALSE ELSE operationLock
    /\ UNCHANGED <<delivered, resolved, grants, guarded, unsettled, idleReceipts,
                   saveReceipts, heartbeatAge, zoteroReachable,
                   held, exclusive, used, escaped>>

\* Mutant: a stop that does not ask whether a permission has escaped.
StoppableAnyway(paper) == Running(LiveAttempt) /\ LiveAttempt.paper = paper
Stoppable(paper) == /\ Running(LiveAttempt)
                    /\ LiveAttempt.paper = paper
                    /\ LiveAttempt.invocation = None

StopUndispatched(paper) ==
    /\ ExpireBrowser
    /\ IF Stoppable(paper) THEN Finish("FAILED") ELSE ExpireAttempt
    /\ UNCHANGED <<delivered, resolved, operationLock, grants, guarded, unsettled,
                   idleReceipts, saveReceipts, heartbeatAge, zoteroReachable,
                   held, exclusive, used, escaped>>

\* Mutant: the wait leaves the timeout to whoever else calls.
WaitWithoutExpiry ==
    /\ completion # None
    /\ completion' = None
    /\ delivered' = completion
    /\ UNCHANGED <<browser, attempt, terminal, verdict, resolved, operationLock, grants, guarded,
                   unsettled, idleReceipts, saveReceipts, heartbeatAge, zoteroReachable,
                   held, exclusive, used, escaped>>
WaitForCompletion ==
    /\ LiveCompletion # None
    /\ ExpireBrowser
    /\ attempt' = LiveAttempt
    /\ terminal' = LiveTerminal
    /\ verdict' = LiveVerdict
    /\ completion' = None
    /\ delivered' = LiveCompletion
    /\ UNCHANGED <<resolved, operationLock, grants, guarded, unsettled, idleReceipts,
                   saveReceipts, heartbeatAge, zoteroReachable,
                   held, exclusive, used, escaped>>

ClaimCompletion ==
    /\ delivered # None
    /\ attempt # None
    /\ attempt.stage = "FINISHED"
    /\ delivered = CompletionOf(attempt, delivered.outcome)
    /\ delivered' = None
    /\ resolved' = delivered
    /\ UNCHANGED <<browser, attempt, completion, operationLock, grants, guarded, unsettled,
                   terminal, idleReceipts, saveReceipts, heartbeatAge, zoteroReachable,
                   held, exclusive, used, escaped, verdict>>

FinishResolution ==
    /\ resolved # None
    /\ attempt # None
    /\ resolved' = None
    /\ operationLock' = (operationLock /\ resolved.request # attempt.request)
    /\ UNCHANGED <<browser, attempt, completion, delivered, grants, guarded, unsettled,
                   terminal, idleReceipts, saveReceipts, heartbeatAge, zoteroReachable,
                   held, exclusive, used, escaped, verdict>>

SaveAuthorityEnded(result) ==
    \/ result.invocation = None
    \/ \A grant \in grants : grant.invocation # result.invocation

(***************************************************************************)
(* The Connector's calls.  Nothing is assumed of it but that a capability  *)
(* it presents was generated: a call may be late, repeated or never come.  *)
(***************************************************************************)
Heartbeat(reachable) ==
    /\ Expire
    /\ heartbeatAge' = 0
    /\ zoteroReachable' = reachable
    /\ UNCHANGED <<delivered, resolved, operationLock, grants, guarded, unsettled,
                   idleReceipts, saveReceipts, held, exclusive, used, escaped>>

ClaimCommand(valid) ==
    /\ Running(LiveAttempt)
    /\ LiveAttempt.stage = "WAITING_FOR_CONNECTOR"
    /\ Ready
    /\ valid
    /\ ExpireBrowser
    /\ attempt' = [attempt EXCEPT !.stage = "CONNECTOR_ACTIVE", !.age = 0]
    /\ unsettled' = unsettled \cup {attempt.request}
    /\ UNCHANGED <<completion, terminal, delivered, resolved, operationLock, grants, guarded,
                   idleReceipts, saveReceipts, heartbeatAge, zoteroReachable,
                   held, exclusive, used, escaped, verdict>>

\* The running command the presented identity names, if there is one.
\* Mutant: the identity is compared, the stage is not.
NamesAttempt(request) == LiveAttempt # None /\ LiveAttempt.request = request
ActiveFor(request) == /\ Running(LiveAttempt)
                      /\ LiveAttempt.stage = "CONNECTOR_ACTIVE"
                      /\ LiveAttempt.request = request

\* Access is reported once, before any permission.
Unreported(request) == /\ ActiveFor(request)
                       /\ attempt.invocation = None
                       /\ attempt.access = None

RecordAccess(request, tab, reason) ==
    /\ Unreported(request)
    /\ ExpireBrowser
    /\ attempt' = [attempt EXCEPT !.access = reason, !.accessTab = tab]
    /\ UNCHANGED <<completion, terminal, delivered, resolved, operationLock, grants, guarded,
                   unsettled, idleReceipts, saveReceipts, heartbeatAge, zoteroReachable,
                   held, exclusive, used, escaped, verdict>>

\* An outstanding grant on a Workspace already holds the guard; the first takes it.
GuardAvailable(workspace) == workspace \in guarded \/ workspace \notin exclusive

\* Mutant: a permission is refused only while its own grant is outstanding.
NotOutstanding(invocation) == \A grant \in grants : grant.invocation # invocation
Undispatched(invocation) == attempt.invocation = None

AuthorizeParentDispatch(invocation, valid) ==
    LET workspace == WorkspaceOf[attempt.paper] IN
    /\ ActiveFor(invocation.request)
    /\ Undispatched(invocation)
    /\ attempt.accessTab # None => attempt.accessTab = invocation.tab
    /\ attempt.access # None => attempt.access \in Passable
    /\ valid
    /\ GuardAvailable(workspace)
    /\ ExpireBrowser
    /\ guarded' = guarded \cup {workspace}
    /\ grants' = grants \cup {[invocation |-> invocation, workspace |-> workspace]}
    /\ attempt' = [attempt EXCEPT !.invocation = invocation]
    /\ escaped' = escaped \cup {invocation}
    /\ UNCHANGED <<completion, terminal, delivered, resolved, operationLock, unsettled,
                   idleReceipts, saveReceipts, heartbeatAge, zoteroReachable,
                   held, exclusive, used, verdict>>

\* The outcomes each failure stage may accompany.
Consistent(outcome, stage, dispatched) ==
    /\ outcome = "CONFIRMED" => stage = None
    /\ outcome = "FAILED" => stage \in {None, "pre_dispatch", "translator"}
    /\ outcome = "UNCONFIRMED" => stage \in {None, "missing_confirmation", "native_save"}
    /\ stage = "native_save" => dispatched

\* A result is taken from the command's own Connector, if it fits what was permitted.
Acceptable(presented, outcome, stage) ==
    /\ ActiveFor(presented.request)
    /\ attempt.invocation # None => presented = attempt.invocation
    /\ outcome = "CONFIRMED" => attempt.invocation # None
    /\ outcome = "FAILED" => attempt.invocation = None
    /\ Consistent(outcome, stage, attempt.invocation # None)

SubmitConnectorResult(presented, outcome, stage) ==
    /\ Acceptable(presented, outcome, stage)
    /\ ExpireBrowser
    /\ Finish(outcome)
    /\ UNCHANGED <<delivered, resolved, operationLock, grants, guarded, unsettled,
                   idleReceipts, saveReceipts, heartbeatAge, zoteroReachable,
                   held, exclusive, used, escaped>>

ReportImportBrowserIdle(request) ==
    /\ request \notin ToSet(idleReceipts)
    /\ request \in unsettled \cap terminal
    /\ unsettled' = unsettled \ {request}
    /\ terminal' = terminal \ {request}
    /\ idleReceipts' = Remember(idleReceipts, request)
    /\ UNCHANGED <<browser, attempt, completion, delivered, resolved, operationLock, grants,
                   guarded, saveReceipts, heartbeatAge, zoteroReachable,
                   held, exclusive, used, escaped, verdict>>

\* The last grant of a Workspace to be settled gives its guard back.
\* Mutant: any settled grant does.
GuardedWithoutAny(grant) == guarded \ {grant.workspace}
GuardedWithout(grant) ==
    IF \E other \in grants \ {grant} : other.workspace = grant.workspace
    THEN guarded ELSE guarded \ {grant.workspace}

ReportNativeSaveSettled(invocation) ==
    /\ invocation \notin ToSet(saveReceipts)
    /\ \E grant \in grants :
          /\ grant.invocation = invocation
          /\ guarded' = GuardedWithout(grant)
          /\ grants' = grants \ {grant}
    /\ saveReceipts' = Remember(saveReceipts, invocation)
    /\ UNCHANGED <<browser, attempt, completion, terminal, delivered, resolved, operationLock,
                   unsettled, idleReceipts, heartbeatAge, zoteroReachable,
                   held, exclusive, used, escaped, verdict>>

\* A snapshot or a blocker query, and every refused call that expires first.
Snapshot ==
    /\ Expire
    /\ UNCHANGED <<delivered, resolved, operationLock, grants, guarded, unsettled,
                   idleReceipts, saveReceipts, heartbeatAge, zoteroReachable,
                   held, exclusive, used, escaped>>

-----------------------------------------------------------------------------
(***************************************************************************)
(* The surroundings                                                        *)
(***************************************************************************)
\* Time passes: ages grow until they no longer matter, leases shrink to 0.
Tick ==
    /\ heartbeatAge' = IF heartbeatAge > HeartbeatStale THEN heartbeatAge ELSE heartbeatAge + 1
    /\ attempt' = IF Running(attempt) /\ ~Overdue THEN [attempt EXCEPT !.age = @ + 1] ELSE attempt
    /\ browser' = IF browser # None /\ browser.left \in 1..MaxLease
                  THEN [browser EXCEPT !.left = @ - 1] ELSE browser
    /\ UNCHANGED <<completion, terminal, delivered, resolved, operationLock, grants, guarded,
                   unsettled, idleReceipts, saveReceipts, zoteroReachable,
                   held, exclusive, used, escaped, verdict>>

\* A Workspace Reset, in this process or another, takes the guard file's
\* exclusive flock and later drops it (application/workspace_reset.py).
ResetTakesGuard(workspace) ==
    /\ workspace \notin guarded \cup exclusive
    /\ exclusive' = exclusive \cup {workspace}
    /\ UNCHANGED <<coordinatorVars, held, used, escaped, verdict>>

ResetDropsGuard(workspace) ==
    /\ workspace \in exclusive
    /\ exclusive' = exclusive \ {workspace}
    /\ UNCHANGED <<coordinatorVars, held, used, escaped, verdict>>

\* The web process dies and is started again.  Nothing of the coordinator is
\* persisted, and the operating system drops the process's locks.
Restart ==
    /\ browser' = None /\ attempt' = None
    /\ completion' = None /\ delivered' = None /\ resolved' = None
    /\ operationLock' = FALSE
    /\ grants' = {} /\ guarded' = {}
    /\ unsettled' = {} /\ terminal' = {}
    /\ idleReceipts' = <<>> /\ saveReceipts' = <<>>
    /\ heartbeatAge' = HeartbeatStale + 1 /\ zoteroReachable' = FALSE
    /\ held' = {}
    /\ exclusive' \in SUBSET exclusive
    /\ UNCHANGED <<used, escaped, verdict>>

(***************************************************************************)
(* BatchImportService is the only importer: it starts a capture only while *)
(* it owns the browser as "import" (batch_import.py 122, 191), and gives   *)
(* the browser back only when the capture it started has been resolved     *)
(* (204-236).  Module BatchImport models it and needs neither guard.       *)
(***************************************************************************)
ImportOwned == browser # None /\ browser.kind = "import"
NoCapture == ~Running(attempt) /\ completion = None /\ delivered = None /\ resolved = None

LeaseTimes(kind) == CASE kind = "enrichment" -> {MaxLease}
                      [] kind = "covers" -> {MaxLease, NoDeadline}
                      [] OTHER -> {NoDeadline}

BrowserTask(kind, owner) ==
    \/ \E left \in LeaseTimes(kind) : ReserveBrowserTask(kind, owner, left)
    \/ kind \in {"enrichment", "covers"} /\ ExtendBrowserTask(kind, owner, MaxLease)
    \/ (kind = "import" => NoCapture) /\ ReleaseBrowserTask(kind, owner)

BrowserNext == \E kind \in Kind, owner \in Owner : BrowserTask(kind, owner)

WorkerNext ==
    \/ /\ ImportOwned
       /\ \E paper \in Paper, valid \in BOOLEAN :
             \/ \E request \in Request : StartCapture(request, paper, valid)
             \/ StartCaptureRefused(valid)
    \/ \E paper \in Paper : StopUndispatched(paper)
    \/ WaitForCompletion
    \/ ClaimCompletion
    \/ FinishResolution

ConnectorCall(valid) ==
    \/ \E reachable \in BOOLEAN : Heartbeat(reachable)
    \/ ClaimCommand(valid)
    \/ \E request \in Request, tab \in Tab, reason \in AccessReason : RecordAccess(request, tab, reason)
    \/ \E invocation \in Invocation : AuthorizeParentDispatch(invocation, valid)
    \/ \E presented \in Invocation, outcome \in Outcome, stage \in FailureStage \cup {None} :
          SubmitConnectorResult(presented, outcome, stage)
    \/ \E request \in Request : ReportImportBrowserIdle(request)
    \/ \E invocation \in Invocation : ReportNativeSaveSettled(invocation)

\* valid: the Paper the running attempt names still matches its reservation.
ConnectorNext == \E valid \in BOOLEAN : ConnectorCall(valid)

WorldNext ==
    \/ Tick
    \/ Snapshot
    \/ \E workspace \in Workspace : ResetTakesGuard(workspace) \/ ResetDropsGuard(workspace)
    \/ Restart

Next == BrowserNext \/ WorkerNext \/ ConnectorNext \/ WorldNext

Spec == Init /\ [][Next]_captureVars

-----------------------------------------------------------------------------
(***************************************************************************)
(* Properties                                                              *)
(***************************************************************************)
\* The fields hold what the class declares.
TypeOK ==
    /\ browser \in Task \cup {None}
    /\ attempt \in Attempt \cup {None}
    /\ completion \in Completion \cup {None}
    /\ delivered \in Completion \cup {None}
    /\ resolved \in Completion \cup {None}
    /\ operationLock \in BOOLEAN
    /\ grants \in SUBSET Grant
    /\ guarded \in SUBSET Workspace
    /\ unsettled \in SUBSET Request
    /\ terminal \in SUBSET Request
    /\ idleReceipts \in Seq(Request)
    /\ saveReceipts \in Seq(Invocation)
    /\ heartbeatAge \in Nat
    /\ zoteroReachable \in BOOLEAN
    /\ held \in SUBSET (Kind \X Owner)
    /\ exclusive \in SUBSET Workspace
    /\ used \in SUBSET Request
    /\ escaped \in SUBSET Invocation
    /\ verdict \in [Request -> Outcome \cup {None}]

\* A read-only browser task (Preparation, Enrichment, a cover search) that still
\* has its lease never runs beside a capture, its unwritten result, an escaped
\* native save or an Import page the Connector has not finished with -- whatever
\* was timed out, stopped or answered late before it was reserved.
ReadOnlyTaskRunsAlone ==
    LiveBrowser # None /\ LiveBrowser.kind \in ReadOnlyKind =>
        /\ NoCapture
        /\ ~operationLock
        /\ grants = {}
        /\ unsettled = {}

\* The shared flock on a Workspace's reset guard is held exactly while an escaped
\* native save of that Workspace is unsettled, however many there are and in
\* whatever order they settle; so a Reset never overlaps one.
GuardFollowsGrants ==
    /\ guarded = {grant.workspace : grant \in grants}
    /\ guarded \cap exclusive = {}

\* An attempt reported as having had no effect never let a permission out, before
\* or after; one reported confirmed let one out.  (Batch results and the retry
\* advice shown to the user rest on this.)
VerdictMatchesDispatch ==
    \A request \in Request :
        /\ verdict[request] = "FAILED" => \A invocation \in escaped : invocation.request # request
        /\ verdict[request] = "CONFIRMED" => \E invocation \in escaped : invocation.request = request

\* Where a capture can be: running, finished, handed to the worker, being written.
Occupied == <<Running(attempt), completion # None, delivered # None, resolved # None>>

\* The Workspace operation lock field is set exactly while one capture is running
\* or its one result is on its way to the Paper: never leaked by a refusal, a stop
\* or a timeout, never dropped before the result is written.
LockFollowsCapture ==
    /\ operationLock = (\E i \in DOMAIN Occupied : Occupied[i])
    /\ \A i, j \in DOMAIN Occupied : Occupied[i] /\ Occupied[j] => i = j

\* The result on its way is the current attempt's own: the worker can always
\* claim it and finish it, so the handoff cannot wedge.
HandoffIsCurrent ==
    \A slot \in {completion, delivered, resolved} \ {None} :
        /\ attempt # None
        /\ attempt.stage = "FINISHED"
        /\ slot = CompletionOf(attempt, verdict[attempt.request])

\* Every claimed page the coordinator waits for can still be retired: its attempt
\* is over, or is the one now running.  Otherwise Preparation, Enrichment and
\* cover searches would be refused until a restart.
EveryClaimCanRetire ==
    /\ terminal \subseteq unsettled
    /\ \A request \in unsettled \ terminal : Running(attempt) /\ attempt.request = request

\* What a browser owner may count on: its token is out, an Import's ownership never
\* lapses, the operation lock is only ever set under an Import, and a read-only task
\* has found nothing escaped, even after its lease has lapsed unnoticed.
BrowserIsAccountedFor ==
    /\ browser # None => <<browser.kind, browser.owner>> \in held
    /\ ImportOwned => browser.left = NoDeadline
    /\ operationLock => ImportOwned
    /\ browser # None /\ browser.kind \in ReadOnlyKind => grants = {} /\ unsettled = {}

\* The browser, the operation lock, the hand-off of a completion and the claimed pages agree: a
\* read-only task has the browser alone, the lock follows the capture, only the current completion
\* is handed over, and every claimed page can still be retired.
CustodyIsSound ==
    /\ ReadOnlyTaskRunsAlone /\ LockFollowsCapture /\ HandoffIsCurrent /\ EveryClaimCanRetire
    /\ BrowserIsAccountedFor

\* A browser task loses its browser only when its own lease lapses or its own
\* token is given back: a task whose lease lapsed earlier, and whose caller comes
\* back late, does not free the browser under the next one.
OnlyHolderReleases ==
    [][LiveBrowser # None /\ (browser' = None \/ browser'.owner # browser.owner)
          => <<browser.kind, browser.owner>> \in held \ held']_captureVars

\* One attempt lets at most one permission out: not after a lost reply, not after
\* the first one was settled and its receipt forgotten, not for another tab.
DispatchOnce ==
    [][\A grant \in grants' \ grants : \A invocation \in escaped :
          invocation.request # grant.invocation.request]_captureVars

\* What a request finished with is never revised: a Connector's late or repeated
\* answer cannot turn a timeout or a stop into a success, nor a success back.
VerdictIsFinal ==
    [][\A request \in Request : verdict[request] # None => verdict'[request] = verdict[request]]_captureVars

===============================================================================
