----------------------------- MODULE Preparation -----------------------------
(***************************************************************************)
(* web/preparation_coordinator.py: one frozen queue of CARSI Services is   *)
(* visited by the Connector, one at a time, in the browser the other tasks *)
(* use too.  Every method runs under the coordinator's lock and is one     *)
(* action.  Most methods apply the expiries that are due before anything   *)
(* else (_expire_locked) and so act on Live, the task after them; a call   *)
(* that is refused, or repeated and answered from its receipt, does        *)
(* nothing more and is Snapshot.  heartbeat applies none.                  *)
(*                                                                         *)
(* A task id is as fresh as its generation, and a claim's request id as    *)
(* the item it is for: a command is its generation, item and instance, and *)
(* the nonce of a visit is its generation and item.  Time is kept as ages  *)
(* and what is left of the grace, which stop at the bound they are         *)
(* compared with.                                                          *)
(***************************************************************************)
EXTENDS Naturals, Sequences

CONSTANTS
    Queue,           \* the sequences of distinct Services a start may freeze
    Service, Instance, Tab,
    MaxTasks,        \* generations of one history (a bound)
    MaxReports,      \* times a task's wait for the user is reported (a bound)
    StaleAfter,      \* CONNECTOR_STALE_SECONDS
    ServiceWait,     \* SERVICE_WAIT_SECONDS
    LoginWait,       \* LOGIN_WAIT_SECONDS
    Grace,           \* RELEASE_GRACE_SECONDS
    Other,           \* whoever else owns the browser: Import, Enrichment, covers
    None

ASSUME QueueAssumption ==
    \A queue \in Queue :
        /\ queue \in Seq(Service)
        /\ \A i, j \in DOMAIN queue : queue[i] = queue[j] => i = j

ASSUME TimeAssumption ==
    /\ MaxTasks \in Nat /\ MaxReports \in Nat
    /\ StaleAfter \in Nat \ {0} /\ ServiceWait \in Nat
    /\ LoginWait \in Nat /\ Grace \in Nat \ {0}

Generation == 1..MaxTasks
Phase == {"running", "completed", "stopped", "blocked"}
Outcome == {"Opened", "Needs attention", "Failed"}
Cause == {"connector", "timeout", "disconnected", "canceled"}
Result == [service : Service, outcome : Outcome, cause : Cause]

\* WaitTime is one past the longer of the two deadlines of an item.
WaitTime == 0..(IF LoginWait > ServiceWait THEN LoginWait ELSE ServiceWait) + 1

Task == [generation : Generation, services : Queue, instance : Instance,
         manual : BOOLEAN, phase : Phase, index : Nat, results : Seq(Result),
         claimed : BOOLEAN,          \* claimed_at is set
         command : BOOLEAN,          \* command is set
         age : WaitTime,             \* time since started_item_at
         waiting : BOOLEAN, revoke : BOOLEAN,
         grace : 0..Grace \cup {None},     \* what is left until release_after
         visit : Tab \cup {None},    \* visit_nonce is out, for this source tab
         holds : BOOLEAN,            \* the browser owner was not yet given back
         reports : 0..MaxReports]

Identity == [generation : Generation, index : Nat, instance : Instance]

ASSUME NoneAssumption ==
    /\ None \notin Task /\ None \notin Instance /\ None \notin Tab
    /\ None \notin Nat /\ Other # None /\ Other \notin Nat

VARIABLES
    task,        \* _task
    last,        \* _last: what a start without a task left
    instance,    \* _connector_instance
    beat,        \* time since _last_heartbeat
    capable,     \* _capability_valid
    generation,  \* _generation
    browser,     \* who owns the browser: a generation, Other or None
    \* History, never read by the code:
    issued,      \* the commands ever handed out
    visits       \* <<generation, item>> of the nonces ever handed out

prepVars == <<task, last, instance, beat, capable, generation, browser, issued, visits>>

-----------------------------------------------------------------------------
Running(t) == t # None /\ t.phase = "running"
More(t) == t.index < Len(t.services)
Current(t) == t.services[t.index + 1]
Ready == capable /\ instance # None /\ beat < StaleAfter

Judged(t, outcome, cause) ==
    Append(t.results, [service |-> Current(t), outcome |-> outcome, cause |-> cause])

\* _stop_locked on a running task.
Stopped(t) ==
    [t EXCEPT !.revoke = TRUE, !.phase = "blocked",
              !.results = IF More(t) THEN Judged(t, "Needs attention", "disconnected") ELSE @,
              !.index = IF More(t) THEN @ + 1 ELSE @,
              !.grace = IF t.claimed THEN Grace ELSE None,
              !.holds = t.claimed]

\* What _advance_locked does whatever comes next.
NextItem(t, outcome, cause) ==
    [t EXCEPT !.results = Judged(t, outcome, cause), !.index = @ + 1,
              !.command = FALSE, !.claimed = FALSE, !.visit = None,
              !.waiting = FALSE, !.age = 0]

\* _advance_locked without revocation.
Advanced(t, outcome, cause) ==
    LET next == NextItem(t, outcome, cause)
    IN IF More(next) THEN next
       ELSE [next EXCEPT !.phase = "completed", !.holds = FALSE]

\* _advance_locked with revocation, which finds the item claimed.
Revoked(t) ==
    [NextItem(t, "Needs attention", "timeout") EXCEPT
        !.revoke = TRUE, !.phase = "blocked", !.claimed = TRUE, !.grace = Grace]

Overdue(t) == t.claimed /\ t.age > (IF t.waiting THEN LoginWait ELSE ServiceWait)

\* _expire_locked
Live ==
    IF task = None THEN None
    ELSE IF task.grace = 0
      THEN [task EXCEPT !.holds = FALSE, !.claimed = FALSE, !.command = FALSE, !.grace = None]
    ELSE IF task.phase # "running" THEN task
    ELSE IF ~Ready \/ task.instance # instance THEN Stopped(task)
    ELSE IF ~Overdue(task) THEN task
    ELSE IF task.waiting THEN Revoked(task)
    ELSE Advanced(task, "Needs attention", "timeout")

\* Who has the browser once t is the task: release_browser_task for a task
\* that gave its owner token back.
BrowserUnder(t) ==
    IF t # None /\ ~t.holds /\ browser = t.generation THEN None ELSE browser

Becomes(t) == task' = t /\ browser' = BrowserUnder(t)

\* _matches_locked, in a task that may still act.
MayAct(t, c) ==
    /\ Running(t) /\ ~t.revoke /\ t.command /\ t.claimed
    /\ c = [generation |-> t.generation, index |-> t.index, instance |-> t.instance]

-----------------------------------------------------------------------------
PrepInit ==
    /\ task = None /\ last = [phase |-> "idle", manual |-> FALSE]
    /\ instance = None /\ beat = StaleAfter /\ capable = FALSE
    /\ generation = 0 /\ browser = None
    /\ issued = {} /\ visits = {}

\* snapshot, authorize, and every call that is refused.
Snapshot ==
    /\ Becomes(Live)
    /\ UNCHANGED <<last, instance, beat, capable, generation, issued, visits>>

Heartbeat(i, compatible) ==
    /\ LET changed == instance # None /\ instance # i
       IN Becomes(IF Running(task) /\ (changed \/ ~compatible) THEN Stopped(task) ELSE task)
    /\ instance' = i /\ beat' = 0 /\ capable' = compatible
    /\ UNCHANGED <<last, generation, issued, visits>>

\* start, once the saved configuration was read and frozen.
Busy(t) == Running(t) \/ (t # None /\ t.claimed)

\* A start that leaves no task: nothing to visit, or nobody to do it.
StartWithout(queue, manual, phase) ==
    /\ ~Busy(Live)
    /\ phase = IF queue = <<>> THEN "completed" ELSE "blocked"
    /\ queue # <<>> => ~Ready \/ BrowserUnder(Live) # None
    /\ task' = None /\ browser' = BrowserUnder(Live)
    /\ last' = [phase |-> phase, manual |-> manual]
    /\ UNCHANGED <<instance, beat, capable, generation, issued, visits>>

\* Mutant: a new task takes the generation of the one before.
NotFresh == IF generation = 0 THEN 1 ELSE generation
Fresh == generation + 1

Start(queue, manual) ==
    /\ ~Busy(Live)
    /\ queue # <<>> /\ Ready /\ BrowserUnder(Live) = None
    /\ generation < MaxTasks
    /\ generation' = Fresh
    /\ task' = [generation |-> Fresh, services |-> queue, instance |-> instance,
                manual |-> manual, phase |-> "running", index |-> 0, results |-> <<>>,
                claimed |-> FALSE, command |-> FALSE, age |-> 0, waiting |-> FALSE,
                revoke |-> FALSE, grace |-> None, visit |-> None, holds |-> TRUE, reports |-> 0]
    /\ browser' = Fresh
    /\ UNCHANGED <<last, instance, beat, capable, issued, visits>>

Claim(i) ==
    /\ Running(Live) /\ Live.instance = i /\ ~Live.revoke /\ ~Live.claimed /\ More(Live)
    /\ Becomes([Live EXCEPT !.command = TRUE, !.claimed = TRUE, !.age = 0])
    /\ issued' = issued \cup {[generation |-> Live.generation, index |-> Live.index,
                               instance |-> i]}
    /\ UNCHANGED <<last, instance, beat, capable, generation, visits>>

ReportWaiting(c, waiting) ==
    /\ MayAct(Live, c)
    /\ Live.reports < MaxReports
    /\ Becomes([Live EXCEPT !.waiting = waiting,
                            !.age = IF Live.waiting = waiting THEN @ ELSE 0,
                            !.reports = @ + 1])
    /\ UNCHANGED <<last, instance, beat, capable, generation, issued, visits>>

AuthorizeVisit(c, tab) ==
    /\ MayAct(Live, c) /\ Live.visit = None
    /\ Becomes([Live EXCEPT !.visit = tab])
    /\ visits' = visits \cup {<<c.generation, c.index>>}
    /\ UNCHANGED <<last, instance, beat, capable, generation, issued>>

\* Whether the nonce and the source tab a result comes with are those of the item.
Evident(c, outcome, evidence) ==
    IF outcome = "Opened"
    THEN Live.visit # None /\ evidence = <<c.generation, c.index, Live.visit>>
    ELSE evidence = None

ResultArrives(c, outcome, evidence) ==
    /\ MayAct(Live, c)
    /\ Evident(c, outcome, evidence)
    /\ Becomes(Advanced(Live, outcome, "connector"))
    /\ UNCHANGED <<last, instance, beat, capable, generation, issued, visits>>

Canceled(t) ==
    LET judged == t.claimed /\ More(t)
    IN [t EXCEPT !.revoke = TRUE, !.phase = "stopped",
                 !.results = IF judged THEN Judged(t, "Needs attention", "canceled") ELSE @,
                 !.index = IF judged THEN @ + 1 ELSE @,
                 !.grace = IF t.claimed THEN Grace ELSE @,
                 !.holds = t.claimed]

Cancel(g) ==
    /\ Running(Live) /\ Live.generation = g
    /\ Becomes(Canceled(Live))
    /\ UNCHANGED <<last, instance, beat, capable, generation, issued, visits>>

-----------------------------------------------------------------------------
(***************************************************************************)
(* The rest of the process                                                 *)
(***************************************************************************)
OtherTakesBrowser ==
    /\ browser = None /\ browser' = Other
    /\ UNCHANGED <<task, last, instance, beat, capable, generation, issued, visits>>

OtherFreesBrowser ==
    /\ browser = Other /\ browser' = None
    /\ UNCHANGED <<task, last, instance, beat, capable, generation, issued, visits>>

\* One unit of time, as far as the ages can still tell it.
Older(t) ==
    [t EXCEPT !.age = IF @ + 1 \in WaitTime THEN @ + 1 ELSE @,
              !.grace = IF @ = None \/ @ = 0 THEN @ ELSE @ - 1]

Tick ==
    /\ beat' = IF beat < StaleAfter THEN beat + 1 ELSE beat
    /\ task' = IF task = None THEN None ELSE Older(task)
    /\ UNCHANGED <<last, instance, capable, generation, browser, issued, visits>>

\* The web process dies and comes back: only the Connector remembers.
Restart ==
    /\ task' = None /\ last' = [phase |-> "idle", manual |-> FALSE]
    /\ instance' = None /\ beat' = StaleAfter /\ capable' = FALSE
    /\ browser' = None
    /\ UNCHANGED <<generation, issued, visits>>

\* A Connector presents any command it was ever given, at any time.
ConnectorNext ==
    \/ \E i \in Instance, compatible \in BOOLEAN : Heartbeat(i, compatible)
    \/ \E i \in Instance : Claim(i)
    \/ \E c \in issued :
         \/ \E waiting \in BOOLEAN : ReportWaiting(c, waiting)
         \/ \E tab \in Tab : AuthorizeVisit(c, tab)
         \/ \E outcome \in Outcome,
               evidence \in {None} \cup {visit \o <<tab>> : visit \in visits, tab \in Tab} :
              ResultArrives(c, outcome, evidence)

UserNext ==
    \/ \E queue \in Queue, manual \in BOOLEAN :
         \/ Start(queue, manual)
         \/ \E phase \in {"completed", "blocked"} : StartWithout(queue, manual, phase)
    \/ \E g \in Generation : Cancel(g)

PrepNext ==
    \/ Snapshot \/ ConnectorNext \/ UserNext
    \/ OtherTakesBrowser \/ OtherFreesBrowser \/ Tick \/ Restart

PrepSpec == PrepInit /\ [][PrepNext]_prepVars

-----------------------------------------------------------------------------
(***************************************************************************)
(* Properties                                                              *)
(***************************************************************************)
\* Every field is of the kind the code stores in it.
PrepTypeOK ==
    /\ task \in Task \cup {None}
    /\ last \in [phase : {"idle", "completed", "blocked"}, manual : BOOLEAN]
    /\ instance \in Instance \cup {None}
    /\ beat \in 0..StaleAfter /\ capable \in BOOLEAN
    /\ generation \in 0..MaxTasks
    /\ browser \in Generation \cup {Other, None}
    /\ issued \subseteq Identity
    /\ visits \subseteq Generation \X Nat

\* The browser is a task's exactly as long as the task runs or a page it
\* drove is in its grace: never let go under a driven page, never kept by a
\* task that is over.
BrowserFollowsTask ==
    \A g \in Generation :
        browser = g <=> /\ task # None /\ task.generation = g
                        /\ Running(task) \/ task.claimed

\* Each Service of the queue has one result, in the order of the queue,
\* whichever of the Connector, a timeout, a disconnection or a cancel comes
\* first; and a queue is called completed only when none is left out.
OneResultEach ==
    task # None =>
        /\ Len(task.results) = task.index /\ task.index <= Len(task.services)
        /\ \A i \in 1..task.index : task.results[i].service = task.services[i]
        /\ Running(task) => More(task)
        /\ task.phase = "completed" => ~More(task)

\* "Opened" is said of an item only with the nonce handed out for it.
OpenedWasVisited ==
    task # None =>
        \A i \in DOMAIN task.results :
            task.results[i].outcome = "Opened" =>
                <<task.generation, i - 1>> \in visits

\* A command that lost its authority, by its result, a timeout, a cancel, a
\* reconnect or a restart, never gets it back, whatever comes late.
RevokedStaysRevoked ==
    [][\A c \in issued : ~MayAct(task, c) => ~MayAct(task', c)]_prepVars

\* No late answer changes a result that was recorded, and a task that is over
\* records none.
ResultsStand ==
    [][\A t \in {task}, u \in {task'} :
          t # None /\ u # None /\ t.generation = u.generation =>
              /\ Len(t.results) <= Len(u.results)
              /\ \A i \in DOMAIN t.results : u.results[i] = t.results[i]
              /\ t.phase # "running" => u.results = t.results /\ u.phase = t.phase]_prepVars
==============================================================================
