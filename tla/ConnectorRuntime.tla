-------------------------- MODULE ConnectorRuntime --------------------------
(***************************************************************************)
(* The Connector's import task (connector/overlay/                         *)
(* literature-monitor-runtime.js), the page that translates and saves for  *)
(* it (connector/patches/0002), and the calls that carry what they know to *)
(* the coordinator: CaptureCoordinator with a real Connector in place of   *)
(* one that may say anything.                                              *)
(*                                                                         *)
(* JavaScript runs to the next await, so an action is the code between two *)
(* awaits.  A call is handled by the web process at any moment while it is *)
(* out, also after the Connector has given it up; its answer is heard only *)
(* if the Connector still waits.  A page sends its next message after the  *)
(* answer to the one before, so the page's state also says which message   *)
(* is on its way.                                                          *)
(***************************************************************************)
EXTENDS CaptureCoordinator, FiniteSets

CONSTANTS MaxReceipts,   \* MAX_PENDING_RELEASE_RECEIPTS
          MaxLosses,     \* calls one history may lose (a bound)
          Faults         \* what may happen: "late" (time passes, deadlines run out),
                         \* "tab" (closed or navigated), "cleanup" (fails), "worker"
                         \* and "server" (are restarted)

VARIABLES
    active,      \* _activeTask: the request it is for
    task,        \* the task object of each request, kept by its callbacks
    receipts,    \* _pendingReleaseReceipts, in the order of the Map
    calls,       \* HTTP calls the web process may still handle or has answered
    losses,      \* calls given up so far
    page,        \* how far the page of each request is
    native       \* Zotero's side of each request's saveItems call

connectorVars == <<active, task, receipts, calls, losses, page, native>>
runtimeVars == <<captureVars, connectorVars>>

Receipts == {"idle", "settled"}
Call == [op : {"claim", "access", "dispatch", "result"} \cup Receipts,
         request : Request \cup {None}, waited : BOOLEAN, answer : {"none", "yes", "no"}]

\* The delivery of a result: the access report that may come first, two attempts.
Delivery == {"none", "access", "first", "second", "over"}

CaptureTask ==
    [reported : BOOLEAN,      \* accessReported
     triggered : BOOLEAN,     \* saveTriggered
     expired : BOOLEAN,       \* Date.now() >= expiresAt
     asked : BOOLEAN,         \* dispatchRequested
     accepted : BOOLEAN,      \* dispatchAccepted
     parent : BOOLEAN,        \* parentConfirmed
     complete : BOOLEAN,      \* pipelineComplete
     ended : BOOLEAN,         \* pipelineEnded
     settling : {"no", "early", "late"},   \* which handler awaits the settled receipt
     outcome : Outcome \cup {None},        \* terminalOutcome
     failure : FailureStage \cup {None},
     delivery : Delivery,
     resultAccepted : {"undefined", "null", "true", "false"},
     cleanups : Seq(BOOLEAN), \* the unfinished part of cleanupChain; close the tab?
     chained : BOOLEAN,       \* cleanupChain exists
     cleanupFailed : BOOLEAN,
     released : BOOLEAN]      \* browserIdleReporting

ASSUME RuntimeAssumption ==
    /\ Tab # {} /\ Session # {}
    /\ MaxReceipts \in Nat /\ MaxLosses \in Nat
    /\ None \notin CaptureTask

\* The task literal has no resultAccepted field, so the field reads undefined.
NewTask ==
    [reported |-> FALSE, triggered |-> FALSE, expired |-> FALSE, asked |-> FALSE,
     accepted |-> FALSE, parent |-> FALSE, complete |-> FALSE, ended |-> FALSE,
     settling |-> "no", outcome |-> None, failure |-> None, delivery |-> "none",
     resultAccepted |-> "undefined", cleanups |-> <<>>, chained |-> FALSE,
     cleanupFailed |-> FALSE, released |-> FALSE]

\* "asking", "told", "done" and "failed" have a message on its way to the runtime;
\* "checking" and "dispatching" wait for the answer to "asking".
Page == {"off", "translating", "asking", "checking", "dispatching", "permitted",
         "saving", "told", "attaching", "done", "failed", "over"}

Receipt == [kind : Receipts, request : Request,
            left : 0..2,      \* attempts the sender under way has left
            beat : BOOLEAN]   \* that sender is a heartbeat

ConnectorInit ==
    /\ Init
    /\ active = None
    /\ task = [request \in Request |-> None]
    /\ receipts = <<>>
    /\ calls = {} /\ losses = 0
    /\ page = [request \in Request |-> "off"]
    /\ native = [request \in Request |-> "none"]

-----------------------------------------------------------------------------
(***************************************************************************)
(* Calls                                                                   *)
(***************************************************************************)
Sent(op, request) == [op |-> op, request |-> request, waited |-> TRUE, answer |-> "none"]
Waiting(op, request) == \E call \in calls : call.op = op /\ call.request = request /\ call.waited

\* What a task presents: one tab and one session belong to its request.
Presented(request) == [request |-> request, tab |-> CHOOSE tab \in Tab : TRUE,
                       session |-> CHOOSE session \in Session : TRUE]

\* A claim is answered with the command's request.
ServeClaim(call) ==
    \/ /\ ClaimCommand(TRUE)
       /\ calls' = (calls \ {call}) \cup
                   IF call.waited THEN {[call EXCEPT !.request = attempt.request, !.answer = "yes"]} ELSE {}
    \/ /\ Snapshot
       /\ calls' = (calls \ {call}) \cup IF call.waited THEN {[call EXCEPT !.answer = "no"]} ELSE {}

Answered(call, answer) ==
    calls' = (calls \ {call}) \cup IF call.waited THEN {[call EXCEPT !.answer = answer]} ELSE {}

\* An access report that says the capture may go on; any other is only made of a
\* capture that has failed, and decides nothing.
ServeAccess(call) ==
    \/ \E tab \in Tab, reason \in Passable : RecordAccess(call.request, tab, reason) /\ Answered(call, "yes")
    \/ /\ ~Unreported(call.request)
       /\ Snapshot
       /\ Answered(call, "no")

\* Any permission may be refused: the Paper may no longer match its reservation.
ServeDispatch(call) ==
    \/ AuthorizeParentDispatch(Presented(call.request), TRUE) /\ Answered(call, "yes")
    \/ Snapshot /\ Answered(call, "no")

ServeResult(call) ==
    LET t == task[call.request] IN
    \/ SubmitConnectorResult(Presented(call.request), t.outcome, t.failure) /\ Answered(call, "yes")
    \/ ~Acceptable(Presented(call.request), t.outcome, t.failure) /\ Snapshot /\ Answered(call, "no")

ServeIdle(call) ==
    \/ ReportImportBrowserIdle(call.request) /\ Answered(call, "yes")
    \/ /\ call.request \in ToSet(idleReceipts)
       /\ Answered(call, "yes")
       /\ UNCHANGED captureVars
    \/ /\ call.request \notin ToSet(idleReceipts) \cup (unsettled \cap terminal)
       /\ Answered(call, "no")
       /\ UNCHANGED captureVars

ServeSettled(call) ==
    LET invocation == Presented(call.request) IN
    \/ ReportNativeSaveSettled(invocation) /\ Answered(call, "yes")
    \/ /\ invocation \in ToSet(saveReceipts)
       /\ Answered(call, "yes")
       /\ UNCHANGED captureVars
    \/ /\ invocation \notin ToSet(saveReceipts) \cup {grant.invocation : grant \in grants}
       /\ Answered(call, "no")
       /\ UNCHANGED captureVars

Serve(call) ==
    /\ call \in calls
    /\ call.answer = "none"
    /\ CASE call.op = "claim" -> ServeClaim(call)
         [] call.op = "access" -> ServeAccess(call)
         [] call.op = "dispatch" -> ServeDispatch(call)
         [] call.op = "result" -> ServeResult(call)
         [] call.op = "idle" -> ServeIdle(call)
         [] call.op = "settled" -> ServeSettled(call)
    /\ UNCHANGED <<active, task, receipts, losses, page, native>>

\* A waiting call ends with its answer, or is given up with none: the web process
\* may have handled it already, or may yet.
Heard(call, answer) ==
    /\ call \in calls
    /\ call.waited
    /\ \/ /\ call.answer # "none"
          /\ answer = call.answer
          /\ calls' = calls \ {call}
          /\ UNCHANGED losses
       \/ /\ answer = "lost"
          /\ losses < MaxLosses
          /\ losses' = losses + 1
          /\ calls' = (calls \ {call}) \cup
                      IF call.answer = "none" THEN {[call EXCEPT !.waited = FALSE]} ELSE {}

-----------------------------------------------------------------------------
(***************************************************************************)
(* The task                                                                *)
(***************************************************************************)
Live(request) == active = request /\ task[request].outcome = None

\* _finishTask; the delivery it starts is SendAccess, SendResult and HearResult.
Concluded(t, outcome, failure) ==
    IF t.outcome # None THEN t
    ELSE [t EXCEPT !.outcome = outcome, !.failure = failure,
                   !.delivery = IF t.reported THEN "first" ELSE "access"]

\* What the end of the observation proves.
\* Mutant: the permission is taken for the save.
PermittedSoFar(t) == IF t.accepted THEN "CONFIRMED" ELSE "UNCONFIRMED"
ProvenSoFar(t) == IF t.parent THEN "CONFIRMED" ELSE "UNCONFIRMED"

\* Mutant: an open save does not keep the browser.
DoneWithTab(t) ==
    /\ t.outcome # None /\ t.resultAccepted # "null"
    /\ t.chained /\ t.cleanups = <<>> /\ ~t.cleanupFailed
    /\ t.settling = "no" /\ ~t.released
\* _maybeReleaseBrowserTask's condition.
Releasable(t) ==
    /\ t.outcome # None /\ t.resultAccepted # "null"
    /\ t.chained /\ t.cleanups = <<>> /\ ~t.cleanupFailed
    /\ t.settling = "no" /\ ~t.released
    /\ t.accepted => t.ended \/ t.failure = "native_save"

\* _retainReleaseReceipt and the first two attempts to send it.
Retained(queue, kind, request) ==
    Append(queue, [kind |-> kind, request |-> request, left |-> 2, beat |-> FALSE])

Update(request, t) == task' = [task EXCEPT ![request] = t] /\ UNCHANGED active

\* No callback holds the task any more, and no result made of it is on its way.
Forgotten(request, t) ==
    /\ t.delivery = "over"
    /\ ~Waiting("access", request) /\ ~Waiting("dispatch", request)
    /\ \A call \in calls : call.op = "result" => call.request # request
    /\ page[request] # "checking"

\* Store the task, and let the browser go if nothing keeps it.
UpdateAndMaybeRelease(request, t, queue) ==
    IF active = request /\ Releasable(t)
    THEN /\ task' = [task EXCEPT ![request] =
                        IF Forgotten(request, t) THEN None ELSE [t EXCEPT !.released = TRUE]]
         /\ active' = None
         /\ receipts' = Retained(queue, "idle", request)
    ELSE Update(request, t) /\ receipts' = queue

\* _queueTaskCleanup
Queued(request, t, close) ==
    IF active # request \/ t.cleanupFailed THEN t
    ELSE [t EXCEPT !.cleanups = Append(@, close), !.chained = TRUE]

RoomForProofs == Len(receipts) <= MaxReceipts - 2

ClaimTick ==
    /\ active = None
    /\ RoomForProofs
    /\ ~\E call \in calls : call.op = "claim" /\ call.waited
    /\ calls' = calls \cup {Sent("claim", None)}
    /\ UNCHANGED <<captureVars, active, task, receipts, losses, page, native>>

HearClaim(call) ==
    /\ call.op = "claim"
    /\ \E answer \in {"yes", "no", "lost"} :
          /\ Heard(call, answer)
          /\ IF answer = "yes"
             THEN /\ active' = call.request
                  /\ task' = [task EXCEPT ![call.request] = NewTask]
             ELSE UNCHANGED <<active, task>>
    /\ UNCHANGED <<captureVars, receipts, page, native>>

\* The access report of a page that is ready, or of a task that has failed.
SendAccess(request) ==
    LET t == task[request] IN
    /\ t # None /\ ~t.reported
    /\ Live(request) \/ t.delivery = "access"
    /\ Update(request, [t EXCEPT !.reported = TRUE])
    /\ calls' = calls \cup {Sent("access", request)}
    /\ UNCHANGED <<captureVars, receipts, losses, page, native>>

\* A task that fails before it has a tab has nothing to report.
SkipAccess(request) ==
    LET t == task[request] IN
    /\ t # None /\ t.delivery = "access" /\ ~t.reported /\ ~t.triggered
    /\ Update(request, [t EXCEPT !.delivery = "first"])
    /\ UNCHANGED <<captureVars, receipts, calls, losses, page, native>>

HearAccess(call) ==
    LET request == call.request t == task[request] IN
    /\ call.op = "access"
    /\ \E answer \in {"yes", "no", "lost"} : Heard(call, answer)
    /\ Update(request, IF t.delivery = "access" THEN [t EXCEPT !.delivery = "first"] ELSE t)
    /\ UNCHANGED <<captureVars, receipts, page, native>>

\* Preparing the page fails: no window, no route, no translator, too late.
PrepareFails(request) ==
    /\ active = request
    /\ Live(request) /\ ~task[request].triggered
    /\ Update(request, Concluded(task[request], "FAILED", None))
    /\ UNCHANGED <<captureVars, receipts, calls, losses, page, native>>

Trigger(request) ==
    /\ active = request
    /\ Live(request) /\ task[request].reported /\ ~task[request].triggered
    /\ ~Waiting("access", request)
    /\ Update(request, [task[request] EXCEPT !.triggered = TRUE])
    /\ page' = [page EXCEPT ![request] = "translating"]
    /\ UNCHANGED <<captureVars, receipts, calls, losses, native>>

Expires(request) ==
    /\ active = request
    /\ task[request].triggered /\ ~task[request].expired
    /\ Update(request, [task[request] EXCEPT !.expired = TRUE])
    /\ UNCHANGED <<captureVars, receipts, calls, losses, page, native>>

\* The observation timer, or the rejection of saveWithTranslator's promise.
ObservationEnds(request) ==
    /\ active = request
    /\ Live(request) /\ task[request].triggered
    /\ Update(request, Concluded(task[request], ProvenSoFar(task[request]), None))
    /\ UNCHANGED <<captureVars, receipts, calls, losses, page, native>>

\* A navigation of the tab; the saving document may or may not survive it.
Navigates(request) ==
    /\ active = request
    /\ Live(request) /\ task[request].triggered
    /\ Update(request, Concluded(task[request], "UNCONFIRMED", None))
    /\ \E now \in {page[request], "over"} : page' = [page EXCEPT ![request] = now]
    /\ UNCHANGED <<captureVars, receipts, calls, losses, native>>

TabRemoved(request) ==
    LET t == task[request] IN
    /\ active = request
    /\ page[request] # "over"
    /\ page' = [page EXCEPT ![request] = "over"]
    /\ Update(request, Concluded(t, IF t.triggered THEN ProvenSoFar(t) ELSE "FAILED", None))
    /\ UNCHANGED <<captureVars, receipts, calls, losses, native>>

-----------------------------------------------------------------------------
(***************************************************************************)
(* Results, cleanup and receipts                                           *)
(***************************************************************************)
SendResult(request) ==
    /\ task[request] # None
    /\ task[request].delivery \in {"first", "second"}
    /\ ~Waiting("result", request)
    /\ calls' = calls \cup {Sent("result", request)}
    /\ UNCHANGED <<captureVars, active, task, receipts, losses, page, native>>

\* A lost answer is tried once more; a refusal or the second loss ends the delivery.
HearResult(call) ==
    LET request == call.request t == task[request] IN
    /\ call.op = "result"
    /\ \E answer \in {"yes", "no", "lost"} :
          /\ Heard(call, answer)
          /\ IF answer = "lost" /\ t.delivery = "first"
             THEN Update(request, [t EXCEPT !.delivery = "second"])
             ELSE Update(request,
                    Queued(request,
                           [t EXCEPT !.delivery = "over",
                                     !.resultAccepted = IF answer = "yes" THEN "true" ELSE "false"],
                           answer = "yes" /\ t.outcome = "CONFIRMED" /\ t.complete))
    /\ UNCHANGED <<captureVars, receipts, page, native>>

\* _returnToApp, next in the cleanup chain.
CleanupDone(request) ==
    LET t == task[request] IN
    /\ t # None /\ t.cleanups # <<>>
    /\ page' = IF Head(t.cleanups) THEN [page EXCEPT ![request] = "over"] ELSE page
    /\ UpdateAndMaybeRelease(request, [t EXCEPT !.cleanups = Tail(@)], receipts)
    /\ UNCHANGED <<captureVars, calls, losses, native>>

\* The browser refuses; whatever is chained behind fails with it.
CleanupFails(request) ==
    LET t == task[request] IN
    /\ t # None /\ t.cleanups # <<>> /\ Head(t.cleanups)
    /\ Update(request, [t EXCEPT !.cleanups = <<>>, !.cleanupFailed = TRUE])
    /\ UNCHANGED <<captureVars, receipts, calls, losses, page, native>>

SendReceipt(i) ==
    /\ receipts[i].left > 0
    /\ ~Waiting(receipts[i].kind, receipts[i].request)
    /\ calls' = calls \cup {Sent(receipts[i].kind, receipts[i].request)}
    /\ UNCHANGED <<captureVars, active, task, receipts, losses, page, native>>

\* The pipeline-complete handler goes on once its settled receipt was sent, or was
\* not: what is left of it, in time or after the task's outcome.
Settled(request, t) ==
    LET after == [t EXCEPT !.settling = "no"] IN
    CASE t.settling = "late" -> Queued(request, after, t.resultAccepted = "true" /\ t.complete)
      [] t.settling = "early" /\ t.parent -> Concluded(after, "CONFIRMED", None)
      [] OTHER -> after

\* The queue when a receipt has no attempt left: it waits for a heartbeat, and one
\* that a heartbeat has just tried goes to the back.
\* Mutant: a refused receipt is dropped.
Dropped(i) == RemoveAt(receipts, i)
\* Mutant: it goes to the back and stays in front.
KeptTwice(i) == IF receipts[i].beat
                THEN Append([receipts EXCEPT ![i].left = 0, ![i].beat = FALSE],
                            [receipts[i] EXCEPT !.left = 0, !.beat = FALSE])
                ELSE [receipts EXCEPT ![i].left = 0]
Kept(i) == IF receipts[i].beat
           THEN Append(RemoveAt(receipts, i), [receipts[i] EXCEPT !.left = 0, !.beat = FALSE])
           ELSE [receipts EXCEPT ![i].left = 0]

HearReceipt(call) ==
    /\ call.op \in Receipts
    /\ \E i \in DOMAIN receipts, answer \in {"yes", "no", "lost"} :
          LET request == call.request
              awaited == ~receipts[i].beat /\ task[request] # None /\ call.op = "settled"
              handled == IF awaited THEN Settled(request, task[request]) ELSE task[request]
              queue == IF answer = "yes" THEN RemoveAt(receipts, i) ELSE Kept(i)
          IN /\ receipts[i].kind = call.op /\ receipts[i].request = request
             /\ Heard(call, answer)
             /\ IF answer # "yes" /\ receipts[i].left > 1
                THEN /\ receipts' = [receipts EXCEPT ![i].left = @ - 1]
                     /\ UNCHANGED <<active, task>>
                ELSE IF awaited
                THEN UpdateAndMaybeRelease(request, handled, queue)
                ELSE receipts' = queue /\ UNCHANGED <<active, task>>
    /\ UNCHANGED <<captureVars, page, native>>

ToBack(queue, i) == Append(RemoveAt(queue, i), queue[i])
BusyAt(i) == i \in DOMAIN receipts /\ receipts[i].left > 0

\* A heartbeat that got through tries the two oldest receipts, and one of them that is
\* being sent goes to the back untried.  (A heartbeat that finds Zotero out of reach
\* leaves the coordinator as unready as none does.)
HeartbeatTick ==
    LET tried == [i \in DOMAIN receipts |->
                    IF i <= 2 /\ receipts[i].left = 0
                    THEN [receipts[i] EXCEPT !.left = 1, !.beat = TRUE] ELSE receipts[i]]
        first == IF BusyAt(1) THEN ToBack(tried, 1) ELSE tried
    IN  /\ \A i \in DOMAIN receipts : ~receipts[i].beat
        /\ Heartbeat(TRUE)
        /\ receipts' = IF BusyAt(2) THEN ToBack(first, IF BusyAt(1) THEN 1 ELSE 2) ELSE first
        /\ UNCHANGED <<active, task, calls, losses, page, native>>

-----------------------------------------------------------------------------
(***************************************************************************)
(* The page's messages, as the runtime hears them                          *)
(***************************************************************************)
\* The message is from the document the active task saves.
Heeded(request) == active = request /\ task[request].triggered

\* An expired task hears nothing but the end of the pipeline it let out.
Overtime(t, message) == t.expired /\ ~(t.accepted /\ message = "done")

Arrives(request, message, next) ==
    /\ page[request] = message
    /\ page' = [page EXCEPT ![request] = next]

\* The two ways out of every handler: a stranger's message, and one past the deadline.
Ignored(request) == UNCHANGED <<active, task, receipts, calls>>
Overtaken(request) ==
    /\ Update(request, Concluded(task[request], ProvenSoFar(task[request]), None))
    /\ UNCHANGED <<receipts, calls>>

HandleBeforeSave(request) ==
    LET t == task[request] IN
    /\ IF ~Heeded(request) \/ ~Live(request) \/ t.asked
       THEN Arrives(request, "asking", "failed") /\ Ignored(request)
       ELSE IF Overtime(t, "asking")
       THEN Arrives(request, "asking", "failed") /\ Overtaken(request)
       ELSE /\ Arrives(request, "asking", "checking")
            /\ Update(request, [t EXCEPT !.asked = TRUE])
            /\ UNCHANGED <<receipts, calls>>
    /\ UNCHANGED <<captureVars, losses, native>>

\* _saveDocumentCurrent may always say no: the page may have changed.
AskCoordinator(request) ==
    /\ page[request] = "checking"
    /\ \/ /\ Live(request) /\ ~task[request].expired
          /\ page' = [page EXCEPT ![request] = "dispatching"]
          /\ calls' = calls \cup {Sent("dispatch", request)}
       \/ /\ page' = [page EXCEPT ![request] = "failed"]
          /\ UNCHANGED calls
    /\ UNCHANGED <<captureVars, active, task, receipts, losses, native>>

HearDispatch(call) ==
    LET request == call.request t == task[request] IN
    /\ call.op = "dispatch"
    /\ \E answer \in {"yes", "no", "lost"} :
          /\ Heard(call, answer)
          /\ Update(request, [t EXCEPT !.accepted = (answer = "yes")])
          /\ \E current \in BOOLEAN :
                page' = IF page[request] # "dispatching" THEN page
                        ELSE IF answer = "yes" /\ current /\ Live(request) /\ ~t.expired
                        THEN [page EXCEPT ![request] = "permitted"]
                        ELSE [page EXCEPT ![request] = "failed"]
    /\ UNCHANGED <<captureVars, receipts, native>>

HandleParentSaved(request) ==
    LET t == task[request] IN
    /\ Arrives(request, "told", "attaching")
    /\ IF ~Heeded(request) \/ ~Live(request) THEN Ignored(request)
       ELSE IF Overtime(t, "told") THEN Overtaken(request)
       ELSE \/ /\ t.accepted
               /\ LET told == [t EXCEPT !.parent = TRUE] IN
                  Update(request, IF t.complete THEN Concluded(told, "CONFIRMED", None) ELSE told)
               /\ UNCHANGED <<receipts, calls>>
            \/ Ignored(request)
    /\ UNCHANGED <<captureVars, losses, native>>

\* A finished task still proves the end of the pipeline it let out.
Awaits(t) == t.accepted /\ ~t.ended

HandlePipelineComplete(request) ==
    LET t == task[request]
        proven(when) == [t EXCEPT !.complete = TRUE, !.ended = TRUE, !.settling = when] IN
    /\ Arrives(request, "done", "over")
    /\ IF ~Heeded(request) \/ ~Awaits(t)
       THEN IF Heeded(request) /\ Live(request) /\ Overtime(t, "done")
            THEN Overtaken(request) ELSE Ignored(request)
       ELSE /\ Update(request, proven(IF Live(request) THEN "early" ELSE "late"))
            /\ receipts' = Retained(receipts, "settled", request)
            /\ UNCHANGED calls
    /\ UNCHANGED <<captureVars, losses, native>>

\* After the outcome, an error ends the pipeline and proves nothing else.
LateError(request, t) ==
    UpdateAndMaybeRelease(request,
        Queued(request, [t EXCEPT !.ended = TRUE], FALSE), receipts)

HandleSaveFailed(request) ==
    LET t == task[request]
        outcome == IF t.parent THEN "CONFIRMED" ELSE IF t.asked THEN "UNCONFIRMED" ELSE "FAILED"
        failure == IF t.parent THEN None ELSE IF t.accepted THEN "native_save"
                   ELSE IF t.asked THEN "missing_confirmation" ELSE "translator" IN
    /\ Arrives(request, "failed", "over")
    /\ IF ~Heeded(request) THEN Ignored(request)
       ELSE IF ~Live(request)
       THEN IF Awaits(t) THEN LateError(request, t) /\ UNCHANGED calls ELSE Ignored(request)
       ELSE IF Overtime(t, "failed") THEN Overtaken(request)
       ELSE /\ Update(request, Concluded([t EXCEPT !.ended = TRUE], outcome, failure))
            /\ UNCHANGED <<receipts, calls>>
    /\ UNCHANGED <<captureVars, losses, native>>

-----------------------------------------------------------------------------
(***************************************************************************)
(* The page, and Zotero behind it                                          *)
(***************************************************************************)
\* What the page does by itself: the translation may fail, save nothing, or ask;
\* a permitted save is sent unless its deadline has passed; an answer that does
\* not verify, or an attachment that fails, is a failure.
PageMoves(request) ==
    /\ \E move \in {<<"translating", "asking">>, <<"translating", "done">>, <<"translating", "failed">>,
                    <<"permitted", "failed">>, <<"saving", "failed">>,
                    <<"attaching", "done">>, <<"attaching", "failed">>} :
          Arrives(request, move[1], move[2])
    /\ UNCHANGED <<captureVars, active, task, receipts, calls, losses, native>>

PageSaves(request) ==
    /\ Arrives(request, "permitted", "saving")
    /\ native' = [native EXCEPT ![request] = "sent"]
    /\ UNCHANGED <<captureVars, active, task, receipts, calls, losses>>

ZoteroAnswers(request) ==
    /\ native[request] = "sent"
    /\ \E now \in {"saved", "refused"} : native' = [native EXCEPT ![request] = now]
    /\ UNCHANGED <<captureVars, active, task, receipts, calls, losses, page>>

PageLearns(request) ==
    /\ native[request] = "saved"
    /\ Arrives(request, "saving", "told")
    /\ UNCHANGED <<captureVars, active, task, receipts, calls, losses, native>>

\* The browser stops the extension's service worker and starts it again: its task,
\* proofs and callbacks are gone, and a page that waits for it fails.
RuntimeRestarts ==
    /\ active' = None
    /\ task' = [request \in Request |->
                  IF task[request] = None THEN None
                  ELSE [task[request] EXCEPT !.delivery = "over", !.cleanups = <<>>, !.settling = "no"]]
    /\ receipts' = <<>>
    /\ calls' = {[call EXCEPT !.waited = FALSE] : call \in {c \in calls : c.answer = "none"}}
    /\ page' = [request \in Request |->
                  IF page[request] \in {"asking", "checking", "dispatching"} THEN "failed" ELSE page[request]]
    /\ UNCHANGED <<captureVars, losses, native>>

-----------------------------------------------------------------------------
Reply(call) == HearClaim(call) \/ HearAccess(call) \/ HearDispatch(call)
                  \/ HearResult(call) \/ HearReceipt(call)

\* What the runtime does unless something stops it.
TaskStep(request) ==
    \/ SendAccess(request) \/ SkipAccess(request) \/ SendResult(request)
    \/ CleanupDone(request) \/ AskCoordinator(request)
    \/ HandleBeforeSave(request) \/ HandleParentSaved(request)
    \/ HandlePipelineComplete(request) \/ HandleSaveFailed(request)

TaskMayEnd(request) == PrepareFails(request) \/ Trigger(request) \/ ObservationEnds(request)

PageStep(request) ==
    \/ PageMoves(request) \/ PageSaves(request) \/ PageLearns(request) \/ ZoteroAnswers(request)

Faulty(request) ==
    \/ "late" \in Faults /\ Expires(request)
    \/ "tab" \in Faults /\ (TabRemoved(request) \/ Navigates(request))
    \/ "cleanup" \in Faults /\ CleanupFails(request)

\* The importer's side as in CaptureCoordinator.  A Reset only refuses permissions,
\* and ServeDispatch may refuse any.
ImportSide ==
    \/ \E owner \in Owner : BrowserTask("import", owner)
    \/ /\ ImportOwned
       /\ \E request \in Request, paper \in Paper : StartCapture(request, paper, TRUE)
    \/ \E paper \in Paper : StopUndispatched(paper)
    \/ WaitForCompletion
    \/ ClaimCompletion
    \/ FinishResolution

ConnectorRuntimeNext ==
    \/ ClaimTick \/ HeartbeatTick
    \/ \E call \in calls : Serve(call) \/ Reply(call)
    \/ \E i \in DOMAIN receipts : SendReceipt(i)
    \/ \E request \in Request :
          TaskStep(request) \/ TaskMayEnd(request) \/ PageStep(request) \/ Faulty(request)
    \/ "worker" \in Faults /\ RuntimeRestarts
    \/ ImportSide /\ UNCHANGED connectorVars
    \/ "late" \in Faults /\ Tick /\ UNCHANGED connectorVars
    \/ "server" \in Faults /\ Restart /\ UNCHANGED connectorVars

RuntimeSpec == ConnectorInit /\ [][ConnectorRuntimeNext]_runtimeVars

\* What runs by itself: the web process answers, timers fire, callbacks run, a
\* page's code runs to its end, the heartbeat and the clock go on.
RuntimeFairness ==
    /\ WF_runtimeVars(\E call \in calls : call.waited /\ Serve(call))
    /\ WF_runtimeVars(\E call \in calls : Reply(call))
    /\ WF_runtimeVars(\E i \in DOMAIN receipts : SendReceipt(i))
    /\ WF_runtimeVars(HeartbeatTick)
    /\ WF_runtimeVars(Tick /\ UNCHANGED connectorVars)
    /\ \A request \in Request :
          /\ WF_runtimeVars(TaskStep(request))
          /\ WF_runtimeVars(PageStep(request))

FairRuntimeSpec == RuntimeSpec /\ RuntimeFairness

-----------------------------------------------------------------------------
(***************************************************************************)
(* Properties                                                              *)
(***************************************************************************)
\* The Connector's fields hold what the code puts in them.
ConnectorTypeOK ==
    /\ TypeOK
    /\ active \in Request \cup {None}
    /\ \A request \in Request :
          task[request] # None =>
            /\ task[request].delivery \in Delivery
            /\ task[request].outcome \in Outcome \cup {None}
            /\ DOMAIN task[request] = DOMAIN NewTask
    /\ receipts \in Seq(Receipt)
    /\ calls \subseteq Call
    /\ page \in [Request -> Page]
    /\ native \in [Request -> {"none", "sent", "saved", "refused"}]

\* A Paper is reported imported only if Zotero has the parent item, and reported
\* untouched only if no save of it was ever sent: through late permissions, lost
\* answers, stops, timeouts, closed tabs and restarts of the Connector.
ReportsTellTheTruth ==
    \A request \in Request :
        /\ verdict[request] = "CONFIRMED" => native[request] = "saved"
        /\ verdict[request] = "FAILED" => native[request] = "none"

\* While a page may still write to Zotero, or Zotero is still handling what it sent,
\* the web process holds the flock that keeps a Workspace Reset out.  (It does not
\* survive a restart of the web process.)
SaveKeepsResetOut ==
    \A request \in Request :
        page[request] \in {"permitted", "saving", "told", "attaching"} \/ native[request] = "sent"
            => \E grant \in grants : grant.invocation = Presented(request)

\* Once the web process takes the browser for returned, no page of that capture
\* can save any more, and the permission it may still be waiting for cannot come.
ReturnedPageIsQuiet ==
    \A request \in Request :
        request \in ToSet(idleReceipts)
            => page[request] \notin {"permitted", "saving", "told", "attaching"}

\* The proofs the Connector owes always fit its bounded queue: a claim is made only
\* with room for both of its own, whatever still waits to be acknowledged.
ProofsFit == Len(receipts) <= MaxReceipts

\* A restart of the web process makes no report false, and the proofs it will never take again
\* fit the Connector's queue.
TruthSurvivesRestarts == ReportsTellTheTruth /\ ProofsFit

\* While a page may still save, a Reset is kept out, and a page that was given back saves no more.
SavesAreGuarded == ConnectorTypeOK /\ SaveKeepsResetOut /\ ReturnedPageIsQuiet

\* A task whose save is over gives the browser back for good, although any call of
\* it may be lost and its idle proof may come before the web process can take it.
FinishedTaskLetsGo ==
    \A request \in Request :
        /\ task[request] # None
        /\ task[request].outcome # None
        /\ task[request].accepted => task[request].ended
      ~> request \notin unsettled

\* "Unobserved result/cleanup failure retains browser ownership."
AnswerBeforeRelease ==
    \A request \in Request :
        task[request] # None /\ task[request].released => task[request].delivery = "over"

\* "An upstream error ends browser task ownership."
ErrorEndsOwnership ==
    \A request \in Request :
        page[request] = "failed" /\ active = request ~> active # request

=============================================================================
