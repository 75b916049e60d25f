# Verification of literature-monitor

literature-monitor is a local web application that collects papers from Crossref
and OpenAlex into an Obsidian Workspace of Markdown files, lets the user keep or
reject them, and imports the kept ones into Zotero through a Chrome extension
(the *Connector*, an overlay over the Zotero Connector).  The web process, the
Connector, Zotero, Obsidian and a possible second web process run concurrently
and share only HTTP calls, files and `flock`s.  What is hard about it is
authority and truth: who may use the one browser, which native save into Zotero
may be let out and when it is over, which file revision a late answer may change,
and whether what the program reports is what happened.  The TLA+ modules here are
about that.

Paths below are relative to the repository; `web/` and `application/` are under
`src/literature_monitor/`.

## Inventory

| Part | State | Operations | Module |
|---|---|---|---|
| Capture coordinator `web/capture_coordinator.py` | browser owner and lease, the one capture attempt, its completion, native-save grants, reset guard flocks, receipts, Connector presence; in memory under one lock | reserve / extend / release browser; start, stop, wait, claim and finish a capture; heartbeat, claim, access, permission, result, receipts | CaptureCoordinator |
| Batch import `application/batch_import.py`, export attempts `application/export_attempts.py` | published snapshot, stop event, worker thread, frozen plan; the reservation in the worker's hands | start, stop, the worker's loop; reserve, validate, commit, resolve | BatchImport, ParentExport |
| Connector runtime `connector/overlay/literature-monitor-runtime.js`, native-save hooks | current task, receipt queue, pending results; the page | heartbeat and claim loops, dispatch, delivery, cleanup | ConnectorRuntime (the import task) |
| Preparation `web/preparation_coordinator.py` | queue of visits, current item, Connector lease, phase | start, heartbeat, claim, authorize, report waiting, result, cancel, expiry | Preparation |
| Kept workflow `web/kept_workflow.py` | phase, Preparation and batch of the click, worker thread | start, advance, continue, cancel, acknowledge, shutdown | KeptWorkflow, KeptPromise |
| Paper enrichment `web/` and `application/paper_enrichment.py` | the task, its claim, deadlines, orphaned authors | start, claim, authorize, result, cancel; guarded save of a Paper and its Authors | Enrichment |
| Journal covers `web/` and `application/journal_covers.py` | search queue, results, lease; manifest and images | start, resume, retry, claim, result, upload, reset, cancel | JournalCovers |
| Safe write `safe_write.py`, decisions `application/decisions.py`, reset `application/workspace_reset.py` | flocks, file and directory identities, the confirmation, the private name | create, compare-and-replace; keep, reject; preview, confirm, delete | WorkspaceFiles |
| Settings `application/settings.py`, `full_markdown_import.py`, `access_service_migration.py` | two files and their revisions, drafts, signed plans | open, save, import, upgrade | Settings |
| Run `web/run_coordinator.py`, `application/{monitor,run_state,provider_state}.py` | one Run, the provider database, the last-run snapshot | start, run, publish, finish | MonitorRun |
| Retrieval `openalex.py`, `crossref.py`, `application/{monitor,crossref_retrieval,candidate_eligibility}.py` | queries still to make, cursors, trails, records by DOI | resolve, discover, plan, traverse, hydrate, supplement, match | OpenAlexDiscovery, CrossrefManifest, CandidatePipeline |
| Materialization `materialize.py`, `markdown_state.py` | scans, links, new notes | scan, match, create, recheck | Materialization |
| Canonicalization, keywords, dates; configuration; workspace reading; web routes; UI | none, or presentation | | see *Not modelled* |

Hard behaviours: three kinds of threads under three locks (submission lock,
batch mutex or a read-only coordinator's lock, capture lock); expiry applied
lazily by whichever call comes next; Connector calls that are late, repeated or
lost; receipts that must be idempotent but are remembered only up to a limit;
native saves that outlive the attempt, the batch and sometimes the process;
files that an editor changes at any moment, between a comparison and the
replacement too; a Workspace whose name is given to another directory; two files
that must change together; an index that goes on growing while it is paged
through; crashes after which only files remain.  PROJECT.json lists forty of
these hazards, each at its line.

How they interact: the Connector calls the routes, which call the coordinators;
Batch import, Preparation, Enrichment and covers ask the capture coordinator for
the browser; the kept workflow drives Preparation and Batch import; everything
that writes a Workspace goes through safe write; Reset excludes native saves
by a `flock`.  What is composed in the models: BatchImport and ConnectorRuntime
EXTEND CaptureCoordinator (real importer, real Connector), KeptWorkflow EXTENDS
Preparation, WorkspaceFiles puts decisions, reset and editors over one disk.

## The modules

### CaptureCoordinator

`web/capture_coordinator.py`, one action per method.  The class takes its lock
in every method, so a method is one step.  Most methods first run
`_expire_locked`; the actions therefore read `LiveBrowser`, `LiveAttempt`,
`LiveCompletion`: the values after the expiries that are due.  `Snapshot` is
also every refused call that does nothing but expire.

A request id, invocation id and DOI target are generated and compared together;
a member of `Request` stands for the three, and `tab` and `session` are what the
Connector adds to them.  Time is kept as ages (`heartbeatAge`, `attempt.age`) and
remaining leases (`browser.left`), which stop growing when they no longer matter.
Observed access is abstracted to reasons that let a capture go on and reasons
that do not.  `BrowserNext` are the callers of the browser lease; `WorkerNext`
the batch worker's calls, under the two guards `ImportOwned` and `NoCapture`
that state how the only importer behaves (BatchImport shows that it does);
`ConnectorNext` any call with any generated identity, in any order and number;
`WorldNext` the clock, the `flock` a Reset takes, and a restart that loses
everything in memory.  `valid` stands for whether the Paper still matches its
reservation at that moment.  `used`, `escaped` and `verdict` are history.

Properties, all about sequences of calls that the unit tests do not combine:

* `ReadOnlyTaskRunsAlone` - a read-only task never runs beside a capture, an
  unwritten result, an unsettled save or a page not yet returned.
* `GuardFollowsGrants` - the shared flock is held exactly while a save of the
  Workspace is unsettled, so a Reset never overlaps one.
* `VerdictMatchesDispatch`, `VerdictIsFinal` - FAILED means no permission ever
  escaped, CONFIRMED that one did, and no late answer revises either.
* `DispatchOnce` - one attempt, one permission.
* `LockFollowsCapture`, `HandoffIsCurrent` - the lock field and the three
  hand-off slots always belong to the current attempt, so the early returns of
  `claim_completion` and `finish_resolution` cannot wedge the slot.
* `EveryClaimCanRetire` - a claimed page can always be retired by its receipt.
* `OnlyHolderReleases` - a lapsed token releases nothing of a later task.

### BatchImport

`application/batch_import.py` with `application/export_attempts.py`, extending
CaptureCoordinator.  A step of the worker is one section under a lock or one
read or write of a Paper file.  The batch mutex is held over `Reserve` and
`Begin` (`MutexFree`), so `Stop` and `Start` cannot come between them, while an
edit of the file can.  A Paper file is its status and a revision that any
writer may change at any time (`Edit`); `Matches` is the comparison of
`_matching_read`; the write makes it twice more, after the answer (`Match`) and right
before `os.replace` (`Compare`).  `Replace` compares nothing and may fail before or
after the file was replaced: an edit saved between the two is overwritten, as the
docstring of `replace_regular_text_at_identity` admits ("not an OS-level transactional
CAS").  `RestartService` leaves only the files.

* `ResultsAreTrue` - "no effect" and "skipped" are only said of Papers never
  offered to Zotero, "exported" only with Zotero's acceptance, "uncertain" only
  where no answer came.
* `StopRevokes` - after a stop is acknowledged no permission leaves.
* `SerialSaves` - a capture of the batch starts only when every save the batch
  let out is settled.
* `ImportEnds` (liveness) - an Import ends and gives slot and browser back.
* `ImplementsCoordinator` - the batch satisfies CaptureCoordinator's `Spec`
  including the two guards it assumes of its caller.
* `ImplementsParentExport` - it implements ParentExport.

### ParentExport

The promise for a Paper without the mechanism: asked for while kept, permitted
once and only if unchanged, accepted, then compared, and marked exported only if that
comparison found the file as it was reserved.  A change after the comparison
(`intact` falls in stage "compared") does not keep it from being marked.  `Slot` in
BatchImport is the refinement mapping.

### ConnectorRuntime

The import task of `connector/overlay/literature-monitor-runtime.js`, the page
that saves for it (`connector/patches/0002-...-automatic-capture-hooks.patch`)
and the calls between the task and the coordinator's routes in `web/app.py`.  It
extends CaptureCoordinator and replaces `ConnectorCall`, a Connector that may say
anything, by the real one over calls that may be late or lost.

JavaScript runs to the next `await`, so an action is what lies between two.
`calls` are the requests the web process may still handle: `Serve` is the route
together with the coordinator's method, `Heard` the end of the wait for it, with
the answer or given up with none (the call may then still be handled).  `task` has
the fields of the task object; the delivery of its result, its cleanup chain and
the handler that awaits a receipt are fields too, because they outlive the task.
`receipts` is the Map of proofs not yet acknowledged.  A page sends its next
message after the answer to the one before, so `page` also says which message is
on its way; `native` is Zotero's side of the one `saveItems` call.

How a page becomes ready (redirects, challenges, translators) is one choice
between `Trigger` and `PrepareFails`; comparisons of tab, document, session, DOI
and item identity are choices between going on and failing; the tasks other than
Import in the same file wait for their own modules.

* `ReportsTellTheTruth` - CONFIRMED only if Zotero has the item, FAILED only if
  no save was ever sent, through every loss, stop, timeout and restart.
* `SaveKeepsResetOut` - a page that may still write, or a `saveItems` call Zotero
  is still handling, is covered by a grant (hence by the flock,
  `GuardFollowsGrants`).  It holds while the web process lives.
* `ReturnedPageIsQuiet` - a browser taken for returned has no page that can save.
* `ProofsFit` - the bounded queue always has room for a task's two proofs.
* `FinishedTaskLetsGo` (liveness) - a task whose save is over gives the browser
  back, whichever call is lost and though its proof may come too early.
* `AnswerBeforeRelease`, `ErrorEndsOwnership` - what two comments say and the
  code does not do (see Findings).

### Preparation, KeptWorkflow and KeptPromise

`web/preparation_coordinator.py`, one action per method, on `Live`, the task
after the expiries that are due; `heartbeat` is the one method that applies none.
`issued` (commands ever handed out) and `visits` are history.

* `BrowserFollowsTask` - the browser is a task's exactly while the task runs or a
  page it drove is in its grace.
* `OneResultEach`, `OpenedWasVisited` - one result for each Service in the order
  of the queue, whichever of Connector, timeout, disconnection or cancel is first,
  and "Opened" only for the item's own nonce.
* `RevokedStaysRevoked`, `ResultsStand` - a command that lost its authority never
  gets it back, and no late answer changes a recorded result.

`KeptWorkflow` (`web/kept_workflow.py` with its routes) EXTENDS Preparation and
has of the Import what the workflow sees: a phase and whether it has the browser.
Its methods run under the submission lock, one action each.  `BatchPhase`,
`BatchEnds`, `BatchExits` stand for BatchImport.

* `UnreviewedImportIsSafe`, `PreparationBesideNoImport`, `NoOrphanPreparation`.
* `ImplementsPromise` - it implements `KeptPromise`: at most one Import for a
  click, never without permission, never beside another, none once the click was
  ended.
* `WorkflowEnds` (liveness) - a workflow ends, or it is the user's turn.

### Enrichment

`web/paper_enrichment.py` and the save of `application/paper_enrichment.py`, whose
reads and writes of files are steps, with editors and (while the Workspace lock
is let go) a decision between them.  The Paper is read again (`Reread`, under the lock
once more if there are Authors), each Author note is created if it is not there
(`CreateAuthor`) and then read (`ReadAuthor`), the Authors are compared
(`VerifyAuthors`), then the Paper (`ComparePaper`), and `Replace` writes the text made
of what was read at the start, without looking again.

* `BrowserFollowsTask`, `CompletedIsTrue`, `OrphansAreReported`, `EnrichedOnce`.
* `OnlyGapsAreFilled` - a save fills gaps of the Paper as its last comparison read it,
  and changes nothing else of it.  An edit up to that comparison stands; one saved
  between it and `os.replace` is lost, the window the code admits.
* `BrowserIsLetGo` (liveness) - whatever the Connector reports.

### JournalCovers

`web/journal_covers.py` and `application/journal_covers.py` with their two locks.
`result()` lets the task lock go while an image is decoded and holds the asset
lock throughout; a second process shares only the manifest's file lock.

* `BrowserFollowsSearch`, `CompletedIsComplete`, `FoundIsDone`.
* `RecordsHaveImages` - at whatever step a save stops, a record names an image
  that is there.
* `MissingReplacesNothing` - a search for what is missing replaces no cover; only an
  upload does.
* `LateImageIsDropped` - an image that arrives or is decoded after its search was
  stopped, cancelled or replaced is not saved.

### WorkspaceFiles

`safe_write.py` under the two parts that change what is there: `decisions.py`
and `workspace_reset.py`.  A directory is its identity (device and inode); its
name may be given a new one at any time.  Processes decide, one resets; editors
heed no lock.

* `OneOwner` - deciding and resetting exclude each other although the name moves.
* `OnlyTheWindowLoses` - a decision undoes no edit except one saved after its last
  check, the window that the docstring of `replace_regular_text_at_identity` admits.
* `OutcomesAreTrue`, `LeftoversAreNamed`.
* `DeletionIsGuarded` - what is deleted was confirmed before, and no native save is
  unsettled meanwhile.

### Materialization

`materialize.py` with `markdown_state.parse_paper_identity`: the scans, the
matching of identities, the creation of Author and Paper notes, beside an editor
and over Runs that stop anywhere.

* `CreateOnly` - a Run edits and removes no note that is there.
* `NoDoubleCapture`, `CreatedAreMade`, `OneNotePerAuthor`, `LinksResolve`.

### CrossrefManifest, OpenAlexDiscovery, CandidatePipeline

The three retrievals of a Run, each against a service that caps its pages, fails
and goes on indexing.  The recursion of `plan()` and `_fetch_thin_sources` is a
stack of queries; what a broken query did deliver travels with its parts.

* `CompleteMissesNothing` (both) - a unit or Source reported complete misses
  nothing the service had when it was first asked.
* `DeliveredIsKept` (both), `ConflictIsReported`, `RetrievalEnds` (liveness, also
  when the service serves the same page under ever new cursors).
* `StateIsCurrent` - a row of the provider state is reused only at the revision it
  was seen at, and only full records of this Run are persisted.
* `NothingVanishes` - what the search found ends in the evidence, or there is a reason
  (`FindsAreKept`): a DOI found in its OpenAlex text ends there under its final DOI
  unless it is saved, a journal issue, rejected or reported as failed; one found in its
  full Crossref record, hydrated or supplemented early for an OpenAlex text too thin
  (through an alias or not), unless it is saved or a journal issue.  And no paper is in
  it under two DOIs (`OneIdentity`).

### MonitorRun

The route, the worker, `run_monitor`, the provider database's publication and the
snapshot; beside it the configuration is saved, Papers are edited, the Workspace is
moved, another process takes the lock and this one stops.

`Snapshot` has three outcomes: written, not written, and, where there was none before,
linked although the write reports a failure (`LinkStays`: `atomic_create_text` makes the
link first and may fail to remove the temporary file after it).  A process that stops in
the transaction of `update_provider_state` may leave a hot journal (`HotJournal`): the
read-only connection of the next Runs cannot open such a database, and `busy` stands for
that; its records are all there, and the Run leaves it alone.

* `RunOwnsWorkspace`, `CountsAreTrue`, `InvalidWritesNothing`.
* `CompletedIsRecorded` - a Run that answers COMPLETED is recorded as that, and a
  snapshot of a Run tells its outcome but in one case: a first snapshot that was linked
  and whose write failed after it says COMPLETED of a Run that ends, for that failure,
  with a warning.
* `StateSurvives` - a publication that fails costs nothing that was there.

### Settings

Save, Import and Upgrade of `list.md` and `monitor.yaml`, each read, comparison
and replacement a step, with edits, failing writes and a stop between them.  The last
comparison of a file and its replacement are the one exception, one step here; the
locks are verified before each of a Save's two replacements and may fail there.

* `OnlyWhatWasSeen` - a route replaces a file only while it holds what the page was
  opened on, and never one it could not parse.
* `OutcomeIsTrue` - SAVED, PARTIAL_SAVE and a refusal say what was written.
* `LossWasShown` - a Publisher with a saved URL disappears only by a request whose
  page was shown exactly this loss.

## The runs

`tlc -config X.cfg M` in this directory; each takes less than three minutes.
Components that do not interact in the code share a run: in a module with a
variable `part` one of them moves in each behaviour, so such a run checks
each of them and claims nothing about them together.  A property that names
several is a conjunction, written in the component's module where a theorem states it
too and in the MC module otherwise:

| Property | Conjunction |
|---|---|
| `CustodyIsSound` | ReadOnlyTaskRunsAlone, LockFollowsCapture, HandoffIsCurrent, EveryClaimCanRetire |
| `ImportIsSound` | BatchTypeOK, ResultsAreTrue (BatchImport) |
| `PreparationComesFirst` | FlowTypeOK, UnreviewedImportIsSafe, PreparationBesideNoImport, NoOrphanPreparation, PrepTypeOK, BrowserFollowsTask, OneResultEach, OpenedWasVisited |
| `NothingComesBack` | RevokedStaysRevoked, ResultsStand |
| `SavesAreGuarded` | ConnectorTypeOK, SaveKeepsResetOut, ReturnedPageIsQuiet |
| `TruthSurvivesRestarts` | ReportsTellTheTruth, ProofsFit |
| `EnrichmentIsTrue` | TypeOK, BrowserFollowsTask, CompletedIsTrue, OrphansAreReported, EnrichedOnce (Enrichment) |
| `CoversAreTrue` | CoverTypes, BrowserFollowsSearch, CompletedIsComplete, FoundIsDone, RecordsHaveImages (JournalCovers) |
| `CoversStand` | MissingReplacesNothing, LateImageIsDropped |
| `ManifestIsTrue` | CompleteMissesNothing, DeliveredIsKept of CrossrefManifest |
| `WritesAreTrue` | TypeOK, OneOwner, OnlyTheWindowLoses, OutcomesAreTrue, LeftoversAreNamed |
| `NotesAreOnce` | the invariants of Materialization |
| `DiscoveryIsTrue` | CompleteMissesNothing, ConflictIsReported, DeliveredIsKept of OpenAlexDiscovery |
| `RunIsTrue` | RunTypeOK, RunOwnsWorkspace, CountsAreTrue, CompletedIsRecorded, InvalidWritesNothing |
| `NothingVanishes` | FindsAreKept, OneIdentity |

| Run | Instance | Shows |
|---|---|---|
| `CaptureCoordinator.cfg`, MCCaptureCoordinator | 2 requests, owners, Papers, tabs; 1 Workspace; symmetric; any caller, or 1 batch of both Papers | the properties of CaptureCoordinator against any Connector; results are true, a stop revokes, saves do not overlap |
| `KeptWorkflow.cfg`, MCKeptWorkflow | 2 clicks, 1 Service or none | an Import follows a Preparation that needs no look, and a click is worth what it promises |
| `ImportEnds.cfg`, MCBatchImport | 1 Paper, edits, restarts, failing writes, every other browser task, a Reset, fair worker and clock | an Import ends (each with the one request identity there is); the batch implements ParentExport and CaptureCoordinator's `Spec` |
| `ConnectorFaults.cfg`, MCConnectorRuntime | 1 request, one lost call, every Connector fault | truth, Reset kept out, quiet return |
| `ConnectorRestarts.cfg` | 2 requests, queue of 2, web process restarting | truth; proofs fit |
| `ConnectorLive.cfg` | 1 request, one lost call, deadlines, fair runtime | a finished task lets go |
| `TasksEnd.cfg`, MCTasksEnd | 1 click; 1 Paper with three kinds of gaps; 2 ISSNs, 2 works, 2 days, pages of one | a click, an enrichment's hold and a manifest end; a complete manifest misses nothing, and what was delivered is kept |
| `BrowserReads.cfg`, MCBrowserReads | 1 Paper with one edit, or two tasks; 2 Journals of which one may leave the list, 1 image, 2 requests | enrichments and covers report what happened and fill only gaps of what was last compared |
| `Files.cfg`, MCFiles | 2 processes, 2 directories, 1 edit, 1 configuration change; 2 Runs of 2 Papers; 3 works of 2 Sources, pages of two | decisions, Reset, notes and OpenAlex |
| `Run.cfg`, MCRun | 2 Runs, 1 DOI, 1 change; 2 DOIs one of which is the other's alias; 3 Journals of 2 Publishers, 1 page, 1 edit, 1 request | Run, pipeline, Settings |
| `ConnectorEarlyRelease.cfg` | 1 request, no fault | violated: finding 1 |
| `ConnectorErrorLate.cfg` | 1 request, deadlines only | violated: finding 2 |

**Bounds, and why they are enough.**  Timeouts are one or two ticks: only their
order against other events matters, and a step may come before or after each.
Two requests let every leftover of a capture (late answer, unsettled save,
unreturned page, receipt, result not yet written) meet the next one; a leftover
meets a third capture as it meets the second, because the coordinator keeps one
attempt.  The same holds of two clicks, two enrichment tasks, two cover requests
and two Runs.  Two tabs let the same command be presented by two callers.
`ReceiptLimit = 1` forgets a receipt as soon as a second comes, and the
Connector's queue of 2 is full after one task, the way 256 and 128 entries would
be after very many.  `MaxLosses = 1` loses any one call; the second attempt then
succeeds or is refused.  Two directories let another take the Workspace's name
before or after each step of a decision and of a Reset.  Two ISSNs and two days
make a query cut by ISSN, by date and into cursors; pages of one or two works are
full pages with something behind them.  Two DOIs, one the alias of the other, is
the smallest case in which a paper can have two identities.  `MaxReports` bounds
how often a waiting item is reported, which the code does not bound:
`WorkflowEnds` therefore says nothing of a Connector that toggles for ever.  The
numbers of requests, edits, tokens, failures and losses are bounds on one history
and bound the state space; the theorems hold for every value of them.

Deadlock is not checked: the system is meant to be idle for ever when nobody asks
anything of it, and bounded supplies run out.

**Fairness.**  `ImportEnds` assumes weak fairness of the batch worker's own steps
(a thread the operating system runs) and of the clock.  Nothing is assumed of
the Connector, the user, Obsidian or a Reset: the coordinator's timeouts alone
must end an Import.  `FinishedTaskLetsGo` assumes that the web process answers a
call that is waited for, that the callbacks of answered calls, timers and page
code run, and that heartbeats and the clock go on.  Losses are finite; unlimited
losses are a Connector that is not connected.  `WorkflowEnds` assumes the workflow's
worker thread, the clock and the Import's end (which `ImportEnds` shows), and that a
Connector that keeps its lease up also goes through its claim loop (strong
fairness: the lease may lapse between).  `BrowserIsLetGo` assumes the clock and the
thread that saves; `RetrievalEnds` the one thread that asks, whose requests have
timeouts.

**Data assumptions.**  An editor never restores an earlier text, so equal texts are
equal revisions.  A work is neither withdrawn nor given another date or Source while
it is asked for.  In Settings the last comparison and the replacement are one step;
everywhere else that replaces a file (WorkspaceFiles, BatchImport, Enrichment) the
window between them is modelled, and the properties except what is lost in it.  In OpenAlexDiscovery there is
one admitted exception to `CompleteMissesNothing` and `DeliveredIsKept`: a shared
traversal in which another Source's work was served twice can hide a work that was
skipped.

Every property has a mutant: an operator beside the definition it would replace,
marked `Mutant` with the mistake it makes, under which the run finds the property
violated.

## Findings

1. `literature-monitor-runtime.js:1052`.  The task object is created without
   `resultAccepted`, so the comparisons with `null` at 1052 and 1195 are true of
   an unanswered result.  A pipeline that ends while the result is still being
   delivered releases the browser at once, in parallel with the delivery, and the
   cleanup due after the answer (closing the tab of a confirmed save) never runs.
   The comments at 1050 and 1175 say the opposite and the unit tests start with
   `resultAccepted:null`.  `ReturnedPageIsQuiet` and `ReportsTellTheTruth` hold
   all the same: what is lost is the order and the cleanup, not authority.
2. `literature-monitor-runtime.js:1060`.  A save error that is heard past
   `expiresAt` but before the observation timer has run is used up by the expiry
   branch.  `pipelineEnded` stays false and the page says nothing more, so a task
   with an accepted dispatch owns the browser until the service worker restarts.
   The page gives up at the same `expiresAt`, which makes the race likelier than
   its width suggests.  Without the clock (`"late"` not in `Faults`) the property
   holds.

## Proofs

`tlapm CaptureCoordinatorProofs.tla` checks seven theorems about CaptureCoordinator
for every number of requests, owners, Papers, Workspaces, tabs and sessions, and
every timeout and receipt limit.  The assumptions are the three of the module:
`TimeoutAssumption` (timeouts and limits are positive), `WorkspaceAssumption` (a
Paper is of a Workspace) and `NoneAssumption` (`None` is none of the values it
stands for).

* `TypeCorrect`: `TypeOK` is inductive.  The case of each action rests on
  `ExpiryType` (applying what has expired keeps the types) and `FinishType`.
* `GuardCustody`: `GuardFollowsGrants` is inductive given `TypeOK`.  Only
  `AuthorizeParentDispatch`, `ReportNativeSaveSettled`, the Reset's two steps and
  `Restart` touch what it reads.
* `VerdictsStand`, `VerdictsAreEarned`: neither property is inductive, because
  neither says why a running attempt has no verdict yet or where a permission
  came from.  `DispatchInv` adds it: every request of an attempt, a verdict or an
  escaped permission was used; a running attempt has no verdict; a permission that
  escaped for the current attempt is the one it records.  The lemma
  `StepObserved` first reduces every step to one of four observations (quiet, a
  start, a permission, a conclusion), and the invariant and both theorems are
  proved over those four.
* `OnePermission`: a step property from `DispatchInv` and `GrantsAdded` (only
  `AuthorizeParentDispatch` adds a grant).
* `CustodyHolds`: `CustodyIsSound` is not inductive.  `ReadOnlyTaskRunsAlone` fails to
  say why nothing can be left behind while a read-only task has the browser:
  `BrowserIsAccountedFor` adds that the browser is the Import's own, without a lease
  that could lapse, for as long as the operation lock is set, and that no grant and no
  page not yet returned is beside a read-only owner.  With `CaptureInv` (lock, hand-off and claimed page follow the attempt) it is inductive.
* `HolderReleases`: a step property from the same invariant; each step that takes the
  browser away is the expiry of its lease, a release under its token, or a restart.

`tlapm BatchImportProofs.tla` checks six theorems about BatchImport, which EXTENDS
CaptureCoordinator, for any number of Papers, edits, captures and rivals for the
browser.  It adds the assumptions `BatchAssumption` (the edits are a number, the
rivals are kinds of browser tasks, `None` is no Paper and no result) and
`SlotAssumption` (nor the state of one).

* `BatchKeepsDiscipline`: `ImplementsCoordinator`.  CaptureCoordinator assumes of its
  caller that it starts a capture only under its own, unlapsed lease (`ImportOwned`,
  `NoCapture`).  `WorkerInv` says where the worker is and what it holds there, and
  under it every step of the batch is one of CaptureCoordinator's (`BatchSimulates`).
* `ImportIsInCustody`: so the theorems about CaptureCoordinator hold here.
* `StopIsFinal`, `SavesAreSerial`: `StopInv` adds that a stop leaves no start about to
  happen, and no capture running that does not have its permission already;
  `SerialInv` that every grant of this batch is of its current attempt.
* `ImportTellsTheTruth`: `ResultsInv` relates each Paper, before, while and after it is
  imported, to the requests that were made for it and their verdicts.
* `ImportKeepsPromise`: `ImplementsParentExport`, step by step (`PromiseStep`), from the
  invariants above and `RevisionInv` (what was reserved is a revision the file has had).
  `Compare` maps to the promise's `Compare`; a `Replace` needs no more than that it
  was made, so the theorem says nothing of an edit in the window after it.

`tlapm ConnectorRuntimeProofs.tla` checks six theorems about ConnectorRuntime, which
EXTENDS CaptureCoordinator, for any number of captures, lost calls and places in the
queue of proofs, and whichever faults happen.  `RuntimeAssumption` adds that there is a
tab and a session, that the bounds are numbers and that `None` is no task.

* `RuntimeInvariant`: none of the properties is inductive; the invariant has nine parts.
  `CallInv`: the Connector waits for at most one claim and, of each task, one
  permission, and a task stays while anything about it is on its way.  `TaskInv`,
  `PageInv`: what a task says of the item, and how far its page is, agree with
  `native`.  `ClaimInv`: a capture not yet claimed has left no trace anywhere, so its
  task starts from nothing.  `TruthInv`: what was written had a permission, which may be
  known only to an answer nobody heard.  `FitInv`: a claim that is out has room for two
  proofs, an active task for those it still owes.  `QuietInv`: a page given back is past
  its writing.  The proof first reduces every action to one of thirteen moves (`StepMoves`),
  each also a step of the coordinator; then each part is kept by each move.
* `ReportsAreTrue`, `TruthOutlivesRestarts`, `ReturnIsQuiet`: from that invariant, with
  restarts of the worker and of the web process.
* `SavesGuarded`: `SavesAreGuarded`, if the web process is not restarted (its flocks are
  gone then).  `GuardInv` adds that a settled proof exists only when the page is over,
  Zotero has answered and no permission is awaited, so no grant goes too early.
* `ConnectorKeepsDiscipline`: every step is one CaptureCoordinator allows, so what is
  proved of the coordinator holds while the real Connector drives it.

The proof showed a flaw of an earlier model: a task was forgotten while a result of it,
given up by the Connector, could still be handled, which takes two losses; `Forgotten`
now waits for that call.

`tlapm KeptWorkflowProofs.tla` checks five theorems about KeptWorkflow and
Preparation, for any Services, queues, clicks, Connectors and deadlines.  The
assumptions are `QueueAssumption` (a queue names each Service once), `TimeAssumption`
and `FlowAssumption` (bounds and deadlines are numbers) and `NoneAssumption`.

* `PreparationIsSound`: `PrepInv` is inductive of Preparation alone: the result of each
  item before the current one is recorded and of none after it, the browser is the
  task's while it drives a page, a command is of no item to come (`CommandInv`), and the
  visit at hand is one that was authorized (`VisitInv`).
* `WorkflowPrepares`: the workflow leaves Preparation to its own methods
  (`KeptSpec => PrepSpec`), which carries that over.
* `PreparationPrecedes`: `FlowInv` adds what phase the workflow has while a Preparation
  runs and that it knows it by its identity (`StageInv`), and that no other Import works
  before the workflow's own (`BatchInv`).
* `LateChangesNothing`: a step property from `PrepInv`; `JudgedOnce` and `RevokedEffect`
  are the lemmas about results and commands.
* `ClickIsKept`: `ImplementsPromise`.  What KeptPromise calls a click's stage is read off
  phase and Import; each step moves it as KeptPromise allows or not at all (`PromiseMoves`,
  `PromiseStays`, `PromiseLaunch`).

`tlapm FilesProofs.tla` checks the theorems of what writes a Workspace and of what it
writes from, which share a module because they share `MCFiles`.  Four are about
WorkspaceFiles, for any set of processes and any number of directories, edits and
configurations.  The
assumptions are `FilesAssumption` (the bounds are numbers, and there is a directory)
and `NoneAssumption` (`None` is no directory, text or plan).

* `FilesInvariant`: `FilesInv` is inductive.  Neither `OnlyConfirmedIsDeleted` nor
  `OneOwner` is: it has to be added that a Reset at work has a plan whose directory
  was confirmed, that what it trusts is the plan's directory and what it captured a
  directory (`ResetKnows`), that no native save has the guard meanwhile
  (`ResetGuarded`), and that a decision has a directory, and from its second read on
  a text (`WritersKnow`).  `DecisionStep`, `ResetTakesStep` and `OutsideStep` are the
  three kinds of steps; the decisions that leave the disk alone share `QuietStep`.
* `DeletionWasConfirmed`: `OnlyConfirmedIsDeleted`, a conjunct of the invariant.
* `DeletionWaitsForSaves`: `DeletionIsGuarded`.  Only `Delete` adds to `deleted`, and
  under `FilesInv` `native` is false then and the plan's directory confirmed.
* `WritesStayTrue`: `WritesAreTrue` is not inductive either.  `WindowInv` adds that
  between a decision's last check and its replacement the paper still holds the
  decision's text, or an editor saved (`fresh`); `NamedInv` that from the moment a
  tree may have the private name, the Reset knows to name it.  `WindowStep`,
  `OutcomeStep` and `NamedStep` keep the three parts.

Two theorems of `FilesProofs.tla` are about Materialization, for any Papers, authors,
keys, texts a user may leave, and any number of Runs, stops and edits.
`NotesAssumption`: what a Run brings are sequences within the bounds, `Absent` is no
path and no note, and a user's Paper note is what the scan may read of a file.

* `EveryNoteIsMadeOnce`: `NotesAreOnce`, from `NotesInv`.  The Run writes long after it
  scanned, so the invariant carries what the scan said up to the write: until an editor
  acts, the notes are those that were scanned and those this Run made (`ScanStands`);
  what is queued or made was matched as new, and each of its authors is resolved, to a
  note that is there and of that author (`OnlyReadyIsMade`, `LinksStand`); the index,
  read once and extended by hand, finds each Author note by each of its keys, the one at
  hand excepted (`AuthorsApart`), which is why no author gets a second note.
  `LoopsInPlace` says where the two loops are.  One lemma for each action
  (`BeginKeeps` to `EditKeeps`).
* `RunsOnlyCreate`: `CreateOnly`.  A path free at the scan
  may be taken at the write; `Kept`, the exclusive creation, is what it rests on.

One theorem of `FilesProofs.tla` is about OpenAlexDiscovery, for any ISSNs, Sources,
works, page sizes and failures.  `DiscoveryAssumption`: there are finitely many works.

* `DiscoveryMissesNothing`: `DiscoveryIsTrue`, which speaks of the merged result.
  `DiscoveryInv` says of the traversal at hand what it has read (`ReadRight`), and of each
  observation in a trail what it is worth (`TrailIsTrue`): complete, it has every work of
  its Source, unless another's was served twice; failed, it has none.  `ObservationFx` is
  the argument from counts: as many works as the index has, none of them served twice,
  are all of them.  `_fetch_thin_sources` merges recursively, and the
  library's induction cannot be instantiated here; `LeastOf` (a set of numbers has a
  least one, from the well-foundedness of strict subsets) replaces it, so `Outwards`
  carries a fact from the innermost traversal to the outermost, for trails of any
  length, and `ResultUnfolds` shows that the recursive function exists at all.

The proof showed that an earlier `DeliveredIsKept` was true only for few works: where a
traversal with another Source's work served twice comes out complete, it is believed in
place of what earlier ones delivered, so it may lose a record too, and be empty.  The
exception now covers both conjuncts, and only where the innermost traversal is such a one.

`tlapm RunProofs.tla` checks the theorems of a Run and of its Settings, which share a
module because they share `MCRun`.  Four are about Settings, for any pages,
Journals, Publishers, uploads, edits and requests.  The assumption is
`SettingsAssumption`: `MaxEdits` is a number, an uploaded file is a list.md that no
edit wrote, and `NoPage` is no draft and no signed loss.

* `SettingsAlways`: `SettingsInv` is inductive.  The last steps of a Save compare
  nothing but revisions, yet what they write must match what its first steps read,
  so the invariant carries it along: no text is newer than the last edit (`FilesOk`),
  so a file edited since the page was opened never compares equal to its draft
  (`Loading`); from then on the files as loaded are those of the draft, none is
  damaged, and the cascade is approved (`SavingOk`); what a request has written is
  what it will answer, as long as no hand touched the file (`WrittenOk`).
  `RefuseStep`, `AnswerStep` and `GotoStep` are the three ways a step ends.
* `AnswersAreTrue`: `OutcomeIsTrue`, a conjunct of the invariant.
* `EditsWereSeen`: only `WriteList` and `Replace` write list.md (`ListWriters`), only
  `WriteMonitor` writes monitor.yaml (`MonitorWriter`), and each has just found in it
  what the page was opened on.
* `LossesWereShown`: at `writeL` the Publishers that disappear are exactly the
  cascade, and `SavingOk` says it is the one approved.

`tlapm BrowserReadsProofs.tla` checks the theorems of the two tasks that only read in
the browser, which share a module because they share `MCBrowserReads`.  Three are about
Enrichment, for any Papers, Authors, tasks, edits and deadlines.  `EnrichmentAssumption` says that the bounds are
numbers, that a Paper starts as one of the contents there are, and that `None` and
`Other` are no task.

* `EnrichmentInvariant`: `Inv` is inductive.  None of the properties is: it has to be
  added that there is a save exactly while the task is Saving, that its item still
  fits what was read at the start, and how far its reads have come (`SaveInv`); that
  the live task's number is new and its Paper not enriched yet (`NumberInv`); and that
  what a task made so far is in its save (`MadeInv`), without which an Author note
  made before the save failed could go unreported.  Each conjunct has its own step
  lemma over effects of the actions (the `...Fx` lemmas).
* `EnrichmentTellsTheTruth`: `EnrichmentIsTrue`, from `Inv`.
* `GapsAreAllThatIsFilled`: `OnlyGapsAreFilled`.  Only `Replace` and editors write a
  Paper; at `Replace` what the comparison read of the Paper (`seen`) is what was read at
  the start, and `Fits` says the item was made for that.

Two theorems of `BrowserReadsProofs.tla` are about JournalCovers, for any list of
Journals, images, and number of searches and leases.  `CoverAssumption`: `list.md` is a
sequence that names each Journal, the bounds are numbers, and `Unset` is none of the
values it stands beside.

* `CoversTellTheTruth`: `CoversAreTrue`, from `CoverInv`.  What a search reports at its
  end depends on which Journals it was given and where it was interrupted, so `Sound`
  says of a search at any time that it names each Journal once and that none of those
  failed or not judged yet has been found since the start; a retry, which selects by
  the results, keeps that (`OrderFx`, `MatchFx`, `JudgedFx`).  `result()` gives its lock
  up between its halves, so `HandInv` says what is in hand meanwhile: a download is of
  the Journal that is due, nothing is decoded and saved at once, and an upload is
  under way exactly while its save is.  `ImagedInv` carries the image from its write to
  that of its record: nothing removes it in between.  There is one `...Keeps` lemma for
  each kind of step.
* `LateCoversAreDropped`: `CoversStand`.  What was decoded is judged or saved only by
  `Decided` and `BeginSave`, which look for the request again (`Matching`).  While a save
  for missing covers has not written its image the manifest belongs to another process's
  uploads, and from then on no record is there (`ImagedInv`).  The proof is for any
  images, and `MissingReplacesNothing` is stated accordingly: a record may still change
  during such a save, from one upload to another, which one image would not show.

Three theorems of `RunProofs.tla` are about MonitorRun, for any DOIs and any number
of Runs and of changes beside them.  `RunAssumption` says that `None` is no
identity, configuration, result or snapshot.

* `RunInvariant`: `RunInv` is inductive.  For each step of the worker it says which
  directory's lock it has (`OwnInv`), what it has counted of which scan and that nothing
  is written yet where a Run may still be refused (`CountInv`), which of database,
  temporary file and backup is whole (`StateInv`), and what the snapshot and the answer
  will rest on (`RecordInv`, `ToldInv`), a snapshot that was linked by a write that
  failed included.
* `RunTellsTheTruth`: `RunIsTrue`, from `RunInv` (`Owns`, `Counts`, `Records`).
* `StateIsNeverLost`: `StateSurvives`.  Only the publication writes the database;
  `StateInv` says at `Publish` that the backup is what was there and the temporary
  file whole, and at `SyncDirectory` what a rollback brings back (`PublicationIsSafe`).

Two theorems of `RunProofs.tla` are about CandidatePipeline, for any DOIs, finds and
revisions.  `PipelineAssumption` says that the alias and its prime are two DOIs and
that a record has at least one revision.

* `RetrievalIsCurrent`: `StateIsCurrent`, from `BooksInv`.  To know at the end that a
  reused row is current one has to know on the way that every revision seen is one the
  record had (`RevisionsAreSeen`), that a DOI not resolved yet was seen only at the
  revision the manifest or a probe gave it, that the revisions kept are those of the
  resolved records (`Booked`) and that a batch asks for no DOI of the manifest
  (`AskedOnce`).
* `FindsReachTheEvidence`: `NothingVanishes`.  It speaks of the finished run only, so it
  is derived at the last step (`FindsAtEnd`) from `FindsInv`, which follows a find
  through the stages: a DOI is final unless it is the alias (`AliasesAreTrue`), no DOI is
  asked for in both batches (`AskedInOrder`), what was skipped was skipped for a reason
  that still holds (`ExclusionStands`), a hit is matched under its final DOI
  (`FoundStands`), and a record the early batch brought is the final DOI of one it was asked
  for (`RecordsAreAnchored`).  The case that made it hard: the late batch may exclude a prime that
  the early batch retained under an alias; `Witness` is that alias.

`tlapm CrossrefManifestProofs.tla` checks one theorem about CrossrefManifest, for any
ISSNs, works, days, page sizes and failures.  `ManifestAssumption`: there are finitely
many works, each published on a day, and the bounds are numbers.

* `ManifestMissesNothing`: `ManifestIsTrue`, which speaks of the end only, from
  `ManifestInv`: a work of the start is in each of its units, or a query on the stack
  covers it, or the unit is not reported complete (`StartIsCovered`); what was delivered is
  in a unit, or carried by a query that covers it still, or in the traversal at hand, with
  its last revision or none (`DeliveredIsHeld`, `CursorIsOfQuery`).  The second is what lets
  `Finish` drop what a complete query carried: a complete page delivers all of it again.
  `FinishKeeps` and `SplitKeeps` are the two ways a query ends; `CountFx` is the argument
  from counts (as many members as works, one for each, are all of them), `MergeFx` what
  `_merge_manifest_members` keeps.

Only model-checked: liveness under fairness and ENABLED, which are beyond the prover:
`ImportEnds`, `FinishedTaskLetsGo`, `WorkflowEnds`, `BrowserIsLetGo` and
`RetrievalEnds`.  Every invariant and action property of a passing run is stated by a
theorem.

## Not modelled

* Connector access handlers and patches: what a page looks like is input
  (`Trigger`, `PrepareFails`).  The preparation, enrichment and cover tasks of
  `literature-monitor-runtime.js`: the coordinators they talk to are checked against
  a Connector that may say anything in any order.
* Canonicalization, keywords, dates: pure functions without state; what a text, a
  date or two records say of each other is input.  Parsing of provider payloads and of
  packs, the layout of notes, the checks of form fields.
* Settings: Access Services count only through the Publishers that carry them (a
  Publisher is kept if it carries a URL or a Service), and the migration of legacy
  Journals is left out.
* OpenAlexDiscovery: the batch that resolves Sources holds at most 100 ISSNs and is one
  request here.  Progress events and coverage lists of a Run are reporting.
* Web routes are the callers of the components (the submission lock is in KeptWorkflow's
  actions); UI, configuration schemas, workspace reading and the import plan's exclusions
  hold no authority and change no state.
* In the modelled parts: PDF outcome (always "unverified"), versions and capability flags
  of the heartbeat, `consume_completion` (no caller), the wording of refusals, and the
  route bodies' validation, which rejects a call before it reaches a component.

## Plan

| | Modules | State | Next |
|---|---|---|---|
| 1 | CaptureCoordinator, its proofs | checked; seven theorems | |
| 2 | BatchImport, ParentExport, their proofs | checked; six theorems, both refinements among them | |
| 3 | ConnectorRuntime, its proofs | checked for Import; six theorems | the other tasks of the runtime, over Preparation, Enrichment and covers |
| 4 | Preparation, KeptWorkflow, KeptPromise, their proofs | checked; five theorems, the refinement among them | |
| 5 | Enrichment, JournalCovers, their proofs | checked; five theorems | the Connector's side of both |
| 6 | WorkspaceFiles, Materialization, OpenAlexDiscovery, their proofs | checked; seven theorems | the windows of the Reset's renames, one comparison at a time |
| 7 | Run: MonitorRun, CandidatePipeline, CrossrefManifest, their proofs | checked; six theorems | |
| 8 | Settings, its proofs | checked; four theorems | Access Services as entries of their own |
