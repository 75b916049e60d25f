---------------------------- MODULE KeptWorkflow ----------------------------
(***************************************************************************)
(* web/kept_workflow.py: one click on the Kept page prepares access and    *)
(* then imports.  It drives the Preparation it EXTENDS and an Import of    *)
(* which only what the workflow sees is modelled here (BatchImport has the *)
(* rest).  Every method, and the routes around it, runs under the one      *)
(* submission lock, so each is one action; calls of the Connector come in  *)
(* between any two.                                                        *)
(*                                                                         *)
(* The signed token of a page is good for one click and for the target it  *)
(* was shown for; a click without it is refused and a target that changes  *)
(* later makes begin_import raise, which StartImport may always do.  The   *)
(* shutdown of the process is Restart: what it cancels is lost with the    *)
(* process.  The advance() of start_workflow never runs, because its route *)
(* asks first that no workflow is active.                                  *)
(***************************************************************************)
EXTENDS Preparation

CONSTANTS
    MaxClicks,   \* workflows of one history (a bound)
    Delay        \* transition_delay_seconds

ASSUME FlowAssumption == MaxClicks \in Nat /\ Delay \in Nat

FlowPhase == {"idle", "preparing", "waiting_for_user", "transition", "importing",
              "stopping", "completed", "interrupted"}
ActivePhase == {"preparing", "waiting_for_user", "transition", "importing", "stopping"}
BatchPhase == {"idle", "running", "completed", "stopped", "blocked"}

Flow == [id : 0..MaxClicks, phase : FlowPhase, auto : BOOLEAN,
         prep : BOOLEAN \X Nat,      \* the Preparation task this workflow waits for
         login : BOOLEAN,            \* waiting_for_login
         started : BOOLEAN,          \* import_started
         due : 0..Delay \cup {None}]

VARIABLES
    flow,            \* _snapshot and _due
    authorization,   \* whether _authorization is set
    worker,          \* whether the thread of this workflow still runs
    batch,           \* phase of the Import, and whether its thread is alive
    \* History, never read by the code:
    consented,       \* clicks the user told to import, at once or by Continue
    prepared         \* clicks whose Preparation allowed the Import by itself

flowVars == <<flow, authorization, worker, batch, consented, prepared>>
keptVars == <<prepVars, flowVars>>

Active(f) == f.phase \in ActivePhase
CanContinue(f) == f.phase = "waiting_for_user" /\ ~f.login
CanCancel(f) == Active(f) /\ f.phase # "stopping"

Interrupted(f) == [f EXCEPT !.phase = "interrupted", !.due = None, !.login = FALSE]

\* _finish_import of an Import that is in phase p.
\* Mutant: a stop is taken for an end.
FinishedByStop(f, p) ==
    IF f.phase = "stopping" \/ p \in {"stopped", "blocked", "idle"} THEN Interrupted(f)
    ELSE IF p = "completed" THEN [f EXCEPT !.phase = "completed"] ELSE f
Finished(f, p) ==
    CASE p = "running" -> f
      [] p = "completed" -> [f EXCEPT !.phase = "completed"]
      [] OTHER -> Interrupted(f)

\* What Preparation's snapshot says when t is its task and l its last result.
PrepPhase(t, l) == IF t = None THEN l.phase ELSE t.phase
PrepIdentity(t) == IF t = None THEN <<FALSE, generation>> ELSE <<TRUE, t.generation>>
Safe(t, l) ==
    IF t = None THEN ~l.manual
    ELSE ~t.manual /\ \A i \in DOMAIN t.results : t.results[i].outcome = "Opened"

\* advance while a Preparation is awaited.
\* Mutant: a Preparation that was blocked is waited for.
FollowedWhileBlocked(f, t, l, identity) ==
    IF identity = f.prep /\ PrepPhase(t, l) = "completed" /\ f.phase = "preparing"
    THEN [f EXCEPT !.phase = "waiting_for_user"] ELSE f
Followed(f, t, l, identity) ==
    IF identity # f.prep \/ PrepPhase(t, l) \in {"blocked", "stopped"} THEN Interrupted(f)
    ELSE IF PrepPhase(t, l) = "running"
      THEN [f EXCEPT !.phase = IF t.waiting THEN "waiting_for_user" ELSE "preparing",
                     !.login = t.waiting]
    ELSE IF ~(PrepPhase(t, l) = "completed" /\ (f.phase = "preparing" \/ f.login)) THEN f
    ELSE IF f.auto /\ Safe(t, l)
      THEN [f EXCEPT !.phase = "transition", !.login = FALSE, !.due = Delay]
    ELSE [f EXCEPT !.phase = "waiting_for_user", !.login = FALSE]

PreparedBy(f) == IF f.phase = "transition" THEN prepared \cup {f.id} ELSE prepared

\* _start_import on workflow f, holding the grant or not.  begin_import reads
\* the target and the kept Papers again and may raise.
StartImport(f, grant) ==
    IF f.started \/ ~grant
    THEN flow' = f /\ authorization' = grant /\ UNCHANGED <<batch, browser>>
    ELSE /\ authorization' = FALSE
         /\ LET g == [f EXCEPT !.started = TRUE, !.phase = "importing", !.due = None, !.login = FALSE]
            IN \/ flow' = Interrupted(g) /\ UNCHANGED <<batch, browser>>
               \/ /\ batch.alive /\ flow' = Finished(g, batch.phase)
                  /\ UNCHANGED <<batch, browser>>
               \/ /\ ~batch.alive /\ browser # None
                  /\ batch' = [phase |-> "blocked", alive |-> FALSE]
                  /\ flow' = Interrupted(g) /\ UNCHANGED browser
               \/ /\ ~batch.alive /\ browser = None /\ browser' = Other
                  /\ \E p \in {"running", "completed", "blocked"} :
                       batch' = [phase |-> p, alive |-> TRUE] /\ flow' = Finished(g, p)

-----------------------------------------------------------------------------
FlowInit ==
    /\ PrepInit
    /\ flow = [id |-> 0, phase |-> "idle", auto |-> FALSE, prep |-> <<FALSE, 0>>,
               login |-> FALSE, started |-> FALSE, due |-> None]
    /\ authorization = FALSE /\ worker = FALSE
    /\ batch = [phase |-> "idle", alive |-> FALSE]
    /\ consented = {} /\ prepared = {}

\* start_workflow and start.
Clicked(auto) ==
    [id |-> flow.id + 1, phase |-> "preparing", auto |-> auto,
     prep |-> <<FALSE, 0>>, login |-> FALSE, started |-> FALSE, due |-> None]

Clickable == ~Active(flow) /\ ~batch.alive /\ flow.id < MaxClicks

ClickImportOnly ==
    /\ Clickable
    /\ \E auto \in BOOLEAN : StartImport(Clicked(auto), TRUE)
    /\ worker' = Active(flow')
    /\ consented' = consented \cup {flow.id + 1}
    /\ UNCHANGED <<task, last, instance, beat, capable, generation, issued, visits,
                   prepared>>

\* No kept Paper, or something could not be read, before Preparation was asked.
ClickInVain ==
    /\ Clickable
    /\ \E auto \in BOOLEAN : flow' = Interrupted(Clicked(auto))
    /\ authorization' = FALSE /\ worker' = FALSE
    /\ UNCHANGED <<prepVars, batch, consented, prepared>>

\* Preparation.start, whose snapshot decides; advance follows at once.
PreparationStarts ==
    \E queue \in Queue, manual \in BOOLEAN :
        \/ Start(queue, manual)
        \/ \E phase \in {"completed", "blocked"} : StartWithout(queue, manual, phase)
        \/ Busy(Live) /\ Snapshot

ClickPrepare ==
    /\ Clickable
    /\ PreparationStarts
    /\ \E auto \in BOOLEAN :
         LET identity == IF task' = None THEN <<FALSE, generation'>> ELSE <<TRUE, task'.generation>>
             asked == [Clicked(auto) EXCEPT !.prep = identity]
         IN flow' = IF Busy(Live) THEN Interrupted(asked)
                    ELSE Followed(asked, task', last', identity)
    /\ authorization' = (flow'.phase # "interrupted")
    /\ worker' = Active(flow')
    /\ prepared' = PreparedBy(flow')
    /\ UNCHANGED <<batch, consented>>

\* One round of _run: advance, as long as this workflow is active.
FollowImport ==
    /\ flow.phase \in {"importing", "stopping"}
    /\ flow' = Finished(flow, batch.phase)
    /\ authorization' = (authorization /\ flow'.phase # "interrupted")
    /\ UNCHANGED <<prepVars, worker, batch, consented, prepared>>

Transition ==
    /\ flow.phase = "transition" /\ flow.due = 0
    /\ StartImport(flow, authorization)
    /\ UNCHANGED <<task, last, instance, beat, capable, generation, issued, visits,
                   worker, consented, prepared>>

FollowPreparation ==
    /\ flow.phase \in {"preparing", "waiting_for_user"}
    /\ Snapshot
    /\ flow' = Followed(flow, Live, last, PrepIdentity(Live))
    /\ authorization' = (authorization /\ flow'.phase # "interrupted")
    /\ prepared' = PreparedBy(flow')
    /\ UNCHANGED <<worker, batch, consented>>

WorkerReturns ==
    /\ ~Active(flow) /\ worker' = FALSE
    /\ UNCHANGED <<prepVars, flow, authorization, batch, consented, prepared>>

WorkerTick == worker /\ (FollowImport \/ Transition \/ FollowPreparation \/ WorkerReturns)

\* continue_import, from a page that shows workflow id.
Continuable == CanContinue(flow)

ContinueImport(id) ==
    /\ id = flow.id /\ Continuable
    /\ StartImport(flow, authorization)
    /\ consented' = consented \cup {id}
    /\ UNCHANGED <<task, last, instance, beat, capable, generation, issued, visits,
                   worker, prepared>>

\* What cancel of the Preparation this workflow waits for makes of t.
\* Mutant: the workflow ends and its Preparation goes on.
CanceledAlone(t) == t
CanceledWith(t) ==
    IF flow.prep[1] /\ Running(t) /\ t.generation = flow.prep[2] THEN Canceled(t) ELSE t

CancelPreparing(id) ==
    /\ id = flow.id /\ CanCancel(flow) /\ ~flow.started
    /\ Becomes(IF flow.prep[1] THEN CanceledWith(Live) ELSE task)
    /\ flow' = Interrupted(flow) /\ authorization' = FALSE /\ worker' = FALSE
    /\ UNCHANGED <<last, instance, beat, capable, generation, issued, visits,
                   batch, consented, prepared>>

\* The Import decides when a stop takes effect (BatchImport's Stop).
CancelImporting(id) ==
    /\ id = flow.id /\ CanCancel(flow) /\ flow.started
    /\ flow' = [flow EXCEPT !.phase = "stopping", !.due = None]
    /\ UNCHANGED <<prepVars, authorization, worker, batch, consented, prepared>>

-----------------------------------------------------------------------------
(***************************************************************************)
(* The Import, the rest of the process and the user's files                *)
(***************************************************************************)
\* The final snapshot is published before the thread gives the browser back.
BatchEnds ==
    /\ batch.alive /\ batch.phase = "running"
    /\ \E p \in {"completed", "blocked"} \cup (IF flow.phase = "stopping" THEN {"stopped"} ELSE {}) :
         batch' = [batch EXCEPT !.phase = p]
    /\ UNCHANGED <<prepVars, flow, authorization, worker, consented, prepared>>

BatchExits ==
    /\ batch.alive /\ batch.phase # "running"
    /\ batch' = [batch EXCEPT !.alive = FALSE] /\ browser' = None
    /\ UNCHANGED <<task, last, instance, beat, capable, generation, issued, visits, flow,
                   authorization, worker, consented, prepared>>

FlowTime ==
    /\ Tick
    /\ flow' = IF flow.due \in 1..Delay THEN [flow EXCEPT !.due = @ - 1] ELSE flow
    /\ UNCHANGED <<authorization, worker, batch, consented,
                   prepared>>

FlowRestart ==
    /\ Restart
    /\ flow' = [flow EXCEPT !.phase = "idle", !.prep = <<FALSE, 0>>, !.login = FALSE,
                            !.started = FALSE, !.due = None]
    /\ authorization' = FALSE /\ worker' = FALSE
    /\ batch' = [phase |-> "idle", alive |-> FALSE]
    /\ UNCHANGED <<consented, prepared>>

\* Snapshot by the page's polling, the Connector's calls, and other browser tasks.
OthersAct ==
    /\ \/ Snapshot \/ ConnectorNext \/ OtherTakesBrowser
       \/ ~batch.alive /\ OtherFreesBrowser
    /\ UNCHANGED flowVars

UserActs ==
    \/ ClickImportOnly \/ ClickInVain \/ ClickPrepare
    \/ \E id \in 0..MaxClicks : ContinueImport(id) \/ CancelPreparing(id) \/ CancelImporting(id)

KeptNext ==
    \/ UserActs \/ WorkerTick \/ OthersAct
    \/ BatchEnds \/ BatchExits \/ FlowTime \/ FlowRestart

KeptSpec == FlowInit /\ [][KeptNext]_keptVars

\* The worker thread and the Import's run, time passes, and a Connector that
\* keeps its lease up goes through its claim loop (setInterval) between any
\* two lapses of it.  Nothing is assumed of the user or of heartbeats.
FairKeptSpec ==
    /\ KeptSpec
    /\ WF_keptVars(WorkerTick) /\ WF_keptVars(FlowTime)
    /\ WF_keptVars(BatchEnds) /\ WF_keptVars(BatchExits)
    /\ SF_keptVars((\E i \in Instance : Claim(i)) /\ UNCHANGED flowVars)

-----------------------------------------------------------------------------
(***************************************************************************)
(* Properties                                                              *)
(***************************************************************************)
\* Every field is of the kind the code stores in it.
FlowTypeOK ==
    /\ flow \in Flow
    /\ authorization \in BOOLEAN /\ worker \in BOOLEAN
    /\ batch \in [phase : BatchPhase, alive : BOOLEAN]

\* Preparation and Import never have the browser together, whatever is
\* canceled, continued or restarted between them.
PreparationBesideNoImport ==
    batch.alive => browser = Other /\ ~Running(task) /\ (task # None => ~task.claimed)

\* A workflow that has no Import yet and is over leaves no Preparation
\* running behind it.
NoOrphanPreparation ==
    Running(task) => Active(flow) /\ flow.prep = <<TRUE, task.generation>>

\* An Import the user was not asked about follows a Preparation that left
\* nothing for the user to look at: every Service opened, none manual.
UnreviewedImportIsSafe ==
    Active(flow) /\ (flow.started \/ flow.phase = "transition") /\ flow.id \notin consented =>
        IF task = None THEN ~last.manual
        ELSE /\ ~task.manual /\ Len(task.results) = Len(task.services)
             /\ \A i \in DOMAIN task.results : task.results[i].outcome = "Opened"

\* An Import the user was not asked about follows a Preparation that left nothing to look at, none
\* is beside a Preparation, and no Preparation outlives its workflow; a Preparation holds the
\* browser as long as it drives a page, and each Service of its queue gets one result, "Opened"
\* only for a visit.
PreparationComesFirst ==
    /\ FlowTypeOK /\ UnreviewedImportIsSafe /\ PreparationBesideNoImport /\ NoOrphanPreparation
    /\ PrepTypeOK /\ BrowserFollowsTask /\ OneResultEach /\ OpenedWasVisited

\* Nothing late changes a Preparation: a command that lost its authority never gets it back, a
\* recorded result stands, and a task that is over records none.
NothingComesBack == RevokedStaysRevoked /\ ResultsStand

Stage(i) ==
    IF i > flow.id THEN "none"
    ELSE IF i < flow.id \/ ~Active(flow) THEN "over"
    ELSE IF flow.started THEN "importing" ELSE "asked"

\* The workflow keeps what a click promises.
Promise == INSTANCE KeptPromise WITH
    stage <- [i \in 1..MaxClicks |-> Stage(i)], permitted <- consented \cup prepared,
    working <- batch.phase = "running"
ImplementsPromise == Promise!Spec

\* A workflow ends, or it is the user's turn to review and continue.
WorkflowEnds == Active(flow) ~> (~Active(flow) \/ CanContinue(flow))
==============================================================================
