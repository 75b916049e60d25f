------------------------------ MODULE MonitorRun ------------------------------
(***************************************************************************)
(* A Run from the route to its result: web/run_coordinator.py starts a     *)
(* worker, application/monitor.py runs it under the Workspace's operation  *)
(* lock, application/provider_state.py and run_state.py keep what it       *)
(* learned.  Beside it the configuration is saved, Papers are edited, the  *)
(* Workspace is moved, another process takes the lock, and this process    *)
(* may stop between any two steps.                                         *)
(*                                                                         *)
(* What discovery finds is any set of DOIs: the providers are in           *)
(* CrossrefManifest, OpenAlexDiscovery and CandidatePipeline, the writing  *)
(* of notes is in Materialization.                                         *)
(***************************************************************************)
EXTENDS Naturals, FiniteSets

CONSTANTS
    DOI,
    MaxStarts,   \* Runs that are started (a bound)
    MaxChanges,  \* what happens beside them (a bound)
    None

Dir == {1, 2}                       \* the output directories a configuration names
\* A Provider database, and the DOIs it has records of: missing, whole, not one ("bad"),
\* or not to be read now ("busy": a lock, a permission, the journal of a dead transaction)
Db(kind) == [kind |-> kind, rows |-> {}]
Whole(rows) == [kind |-> "whole", rows |-> rows]
Configs == [valid : BOOLEAN, dir : Dir]

VARIABLES
    config,      \* what load_config would return now
    lock,        \* the operation lock of each directory: "free", "run", or "other"
    moved,       \* whether the owned directory no longer is the one its path names
    saved,       \* saved[d]: the Paper note that has DOI d (path and UUID), or None
    unreadable,  \* whether some Paper note cannot be enumerated
    db, temp, backup,  \* the Provider database: see Db
    lastRun,     \* last-run.json: None, or the outcome and the Run it records
    status, error, told,       \* RunCoordinator; told is its result
    worker,      \* the worker thread
    starts, changes,
    \* History, never read by the code:
    wrote        \* what this Run put on the disk

disk == <<saved, unreadable, db, temp, backup, lastRun>>
history == <<starts, changes, wrote>>
runVars == <<config, lock, moved, disk, status, error, told, worker, history>>

Outcomes == {"COMPLETED", "COMPLETED_WITH_WARNINGS", "COMPLETED_WITH_ERRORS", "INVALID_CONFIGURATION"}
Results == [outcome : Outcomes, created : SUBSET DOI, existing : SUBSET DOI, confirmed : SUBSET DOI]
Snapshots == [outcome : Outcomes, run : Nat]

\* None is none of the values it stands in for.
ASSUME RunAssumption == None \notin {1, 2} \cup Configs \cup Results \cup Snapshots

Index == [saved : [DOI -> {None, 1, 2}], complete : BOOLEAN]
NoIndex == [saved |-> [d \in DOI |-> None], complete |-> FALSE]
Quiet == [step |-> "none", cfg |-> None, owned |-> FALSE, dir |-> 1, state |-> "none", first |-> NoIndex,
          papers |-> {}, seen |-> {}, pending |-> {}, confirmed |-> {}, created |-> {}, existing |-> {},
          warned |-> FALSE, erred |-> FALSE, invalid |-> FALSE, raised |-> FALSE]

RunInit ==
    /\ config \in Configs /\ lock = [d \in Dir |-> "free"] /\ moved = FALSE
    /\ saved \in [DOI -> {None, 1}] /\ unreadable = FALSE
    /\ db \in {Db("none"), Db("bad"), Db("busy"), Whole({})} /\ temp = Db("none") /\ backup = Db("none")
    /\ lastRun = None
    /\ status = "IDLE" /\ error = FALSE /\ told = None /\ worker = Quiet
    /\ starts = 0 /\ changes = 0 /\ wrote = {}

AtStep(step) == worker.step = step
Goes(step) == worker' = [worker EXCEPT !.step = step]

-----------------------------------------------------------------------------
(***************************************************************************)
(* RunCoordinator.start, under its own lock: a second start waits or finds *)
(* RUNNING.  load_config, the operation lock, load_config again.           *)
(***************************************************************************)
StartRun ==
    /\ status # "RUNNING" /\ AtStep("none") /\ starts < MaxStarts
    /\ status' = "RUNNING" /\ error' = FALSE /\ told' = None /\ starts' = starts + 1 /\ wrote' = {}
    /\ worker' = [Quiet EXCEPT !.step = IF config.valid THEN "reserve" ELSE "enter",
                               !.cfg = IF config.valid THEN config ELSE None]
    /\ moved' = FALSE
    /\ UNCHANGED <<config, lock, disk, changes>>

StartFailed(locks) ==
    /\ lock' = locks /\ status' = "FINISHED" /\ error' = TRUE /\ worker' = Quiet

Reserve ==
    /\ AtStep("reserve")
    /\ LET d == worker.cfg.dir
       IN  IF lock[d] # "free" THEN StartFailed(lock)
           ELSE /\ lock' = [lock EXCEPT ![d] = "run"]
                /\ worker' = [worker EXCEPT !.step = "confirm", !.dir = d, !.owned = TRUE]
                /\ UNCHANGED <<status, error>>
    /\ UNCHANGED <<config, moved, disk, told, history>>

ConfirmConfig ==
    /\ AtStep("confirm")
    /\ \/ config.valid /\ config.dir = worker.dir /\ Goes("enter") /\ UNCHANGED <<lock, status, error>>
       \/ StartFailed([lock EXCEPT ![worker.dir] = "free"])    \* it changed, or the thread did not start
    /\ UNCHANGED <<config, moved, disk, told, history>>

-----------------------------------------------------------------------------
(***************************************************************************)
(* run_monitor on the worker                                               *)
(***************************************************************************)
Rest == UNCHANGED <<config, lock, moved, disk, status, error, told, history>>
Raises == worker' = [worker EXCEPT !.step = "release", !.raised = TRUE]
Invalid == worker' = [worker EXCEPT !.step = "release", !.invalid = TRUE]

\* With no snapshot of the configuration run_monitor loads it, and takes the lock itself.
EnterRun ==
    /\ AtStep("enter")
    /\ IF worker.cfg # None
       THEN (IF moved THEN Raises ELSE Goes("prepare")) /\ UNCHANGED lock
       ELSE IF ~config.valid THEN Invalid /\ UNCHANGED lock
       ELSE IF lock[config.dir] # "free" THEN Raises /\ UNCHANGED lock
       ELSE /\ lock' = [lock EXCEPT ![config.dir] = "run"]
            /\ worker' = [worker EXCEPT !.step = "prepare", !.cfg = config, !.dir = config.dir, !.owned = TRUE]
    /\ UNCHANGED <<config, moved, disk, status, error, told, history>>

\* The date and the keyword are checked before anything is read.
Prepare ==
    /\ AtStep("prepare")
    /\ Invalid \/ (IF moved THEN Raises ELSE Goes("state"))
    /\ Rest

ReadState ==
    /\ AtStep("state")
    /\ worker' = [worker EXCEPT !.step = "identities", !.state = db.kind, !.warned = db.kind \in {"bad", "busy"}]
    /\ Rest

\* read_workspace_identities; a note that cannot be enumerated leaves nothing saved.
ReadIndex == [saved |-> IF unreadable THEN [d \in DOI |-> None] ELSE saved, complete |-> ~unreadable]
SavedIn(index) == {d \in DOI : index.saved[d] # None}

ReadIdentities ==
    /\ AtStep("identities")
    /\ IF moved THEN Raises
       ELSE worker' = [worker EXCEPT !.step = "core", !.first = ReadIndex, !.erred = unreadable]
    /\ Rest

\* needs_metadata: excluded, saved, or to be created
Core ==
    /\ AtStep("core")
    /\ \/ worker' = [worker EXCEPT !.step = "again", !.invalid = TRUE]    \* the search backend failed
       \/ \E found \in SUBSET DOI, pending \in SUBSET DOI, warned, erred \in BOOLEAN :
              LET index == worker.first
                  new == IF index.complete THEN found \ SavedIn(index) ELSE {}
              IN  \E papers \in SUBSET new :
                      worker' = [worker EXCEPT !.step = "again", !.seen = found \cap SavedIn(index),
                                 !.papers = papers, !.pending = pending,
                                 !.warned = @ \/ warned, !.erred = @ \/ erred]
    /\ Rest

\* A DOI counts as saved only if it still is the same note.
StillSaved(index) ==
    {d \in worker.seen : index.complete /\ index.saved[d] = worker.first.saved[d] /\ index.saved[d] # None}

ReadAgain ==
    /\ AtStep("again")
    /\ IF moved THEN Raises
       ELSE IF worker.invalid THEN Goes("release")
       ELSE worker' = [worker EXCEPT !.step = "materialize", !.confirmed = StillSaved(ReadIndex),
                                     !.erred = @ \/ StillSaved(ReadIndex) # worker.seen]
    /\ Rest

\* materialize_papers, in Materialization: it scans again, and creates only.
Materialize ==
    /\ AtStep("materialize")
    /\ LET free == IF unreadable \/ moved THEN {} ELSE {d \in worker.papers : saved[d] = None}
           there == IF unreadable \/ moved THEN {} ELSE worker.papers \ free
       IN  \E made \in SUBSET free :
               /\ saved' = [d \in DOI |-> IF d \in made THEN 2 ELSE saved[d]]
               /\ wrote' = (IF made # {} THEN wrote \cup {"papers"} ELSE wrote)
               /\ worker' = [worker EXCEPT !.step = "persist", !.created = made, !.existing = there,
                                           !.erred = @ \/ made # free \/ unreadable \/ moved]
    /\ UNCHANGED <<config, lock, moved, unreadable, db, temp, backup, lastRun, status, error, told, starts, changes>>

-----------------------------------------------------------------------------
(***************************************************************************)
(* Provider state                                                          *)
(***************************************************************************)
Files == UNCHANGED <<config, lock, moved, saved, unreadable, lastRun, status, error, told, starts, changes>>
Persisted == Goes("snapshot")
Warns == worker' = [worker EXCEPT !.step = "snapshot", !.warned = TRUE]
Wrote(what) == wrote' = wrote \cup {what}

\* update_provider_state is one transaction; a missing or replaceable database is published anew.
Persist ==
    /\ AtStep("persist")
    /\ IF moved THEN Raises /\ UNCHANGED <<db, wrote>>
       ELSE IF worker.state \in {"bad", "busy"}
       THEN (IF worker.state = "bad" THEN Goes("build") ELSE Warns) /\ UNCHANGED <<db, wrote>>
       ELSE IF worker.pending = {} THEN Persisted /\ UNCHANGED <<db, wrote>>
       ELSE IF db.kind = "none" THEN Goes("build") /\ UNCHANGED <<db, wrote>>
       ELSE \/ db' = Whole(db.rows \cup worker.pending) /\ Wrote("state") /\ Persisted
            \/ Warns /\ UNCHANGED <<db, wrote>>    \* the transaction is rolled back
    /\ UNCHANGED <<temp, backup>> /\ Files

\* _publish_fresh: a database of its own, then read back and forced to the disk
BuildFresh ==
    /\ AtStep("build")
    /\ \/ temp' = Db("partial") /\ Goes("fill")
       \/ Warns /\ UNCHANGED temp
    /\ UNCHANGED <<db, backup, wrote>> /\ Files

FillFresh ==
    /\ AtStep("fill")
    /\ \/ temp' = Whole(worker.pending) /\ Goes("keep")
       \/ temp' = Db("none") /\ Warns
    /\ UNCHANGED <<db, backup, wrote>> /\ Files

\* the file it replaces keeps a second name
KeepPrevious ==
    /\ AtStep("keep")
    /\ backup' = db
    /\ Goes("publish")
    /\ UNCHANGED <<db, temp, wrote>> /\ Files

Publish ==
    /\ AtStep("publish")
    /\ \/ db' = temp /\ temp' = Db("none") /\ Wrote("state") /\ Goes("sync") /\ UNCHANGED backup
       \/ temp' = Db("none") /\ backup' = Db("none") /\ Warns /\ UNCHANGED <<db, wrote>>
    /\ Files

\* When the directory cannot be forced to the disk, the preceding file comes back;
\* if that fails too its second name stays.
\* Mutant: what cannot be forced to the disk is removed.
SyncUnlinks ==
    /\ AtStep("sync")
    /\ \/ backup' = Db("none") /\ Persisted /\ UNCHANGED db
       \/ db' = Db("none") /\ backup' = Db("none") /\ Warns
    /\ UNCHANGED <<temp, wrote>> /\ Files
SyncDirectory ==
    /\ AtStep("sync")
    /\ \/ backup' = Db("none") /\ Persisted /\ UNCHANGED db
       \/ db' = backup /\ backup' = Db("none") /\ Warns
       \/ Warns /\ UNCHANGED <<db, backup>>
    /\ UNCHANGED <<temp, wrote>> /\ Files

-----------------------------------------------------------------------------
(***************************************************************************)
(* The end of a Run                                                        *)
(***************************************************************************)
\* Mutant: a warning is no outcome of its own.
OutcomeUnwarned == IF worker.erred THEN "COMPLETED_WITH_ERRORS" ELSE "COMPLETED"
Outcome == IF worker.erred THEN "COMPLETED_WITH_ERRORS"
           ELSE IF worker.warned THEN "COMPLETED_WITH_WARNINGS" ELSE "COMPLETED"

\* write_last_run_snapshot replaces the file as a whole, or makes the first one whole.
ThisRun == [outcome |-> Outcome, run |-> starts]
WriteFails == worker' = [worker EXCEPT !.step = "release", !.warned = TRUE]

\* The first one is a link to a temporary file.  When that cannot be removed after
\* it, the write fails, and the snapshot is there all the same.
LinkStays == lastRun = None /\ lastRun' = ThisRun /\ Wrote("link") /\ WriteFails

Snapshot ==
    /\ AtStep("snapshot")
    /\ IF moved THEN Raises /\ UNCHANGED <<lastRun, wrote>>
       ELSE \/ lastRun' = ThisRun /\ Wrote("snapshot") /\ Goes("release")
            \/ LinkStays
            \/ WriteFails /\ UNCHANGED <<lastRun, wrote>>
    /\ UNCHANGED <<config, lock, moved, saved, unreadable, db, temp, backup, status, error, told, starts, changes>>

\* First the lock goes, then FINISHED is told.
Release ==
    /\ AtStep("release")
    /\ lock' = (IF worker.owned THEN [lock EXCEPT ![worker.dir] = "free"] ELSE lock)
    /\ worker' = [worker EXCEPT !.step = "report", !.owned = FALSE]
    /\ UNCHANGED <<config, moved, disk, status, error, told, history>>

Report ==
    /\ AtStep("report")
    /\ status' = "FINISHED"
    /\ error' = worker.raised
    /\ told' = IF worker.raised THEN None
                 ELSE IF worker.invalid
                 THEN [outcome |-> "INVALID_CONFIGURATION", created |-> {}, existing |-> {}, confirmed |-> {}]
                 ELSE [outcome |-> Outcome, created |-> worker.created, existing |-> worker.existing,
                       confirmed |-> worker.confirmed]
    /\ worker' = [worker EXCEPT !.step = "none"]
    /\ UNCHANGED <<config, lock, moved, disk, history>>

RunStep ==
    \/ StartRun \/ Reserve \/ ConfirmConfig \/ EnterRun \/ Prepare \/ ReadState \/ ReadIdentities \/ Core
    \/ ReadAgain \/ Materialize \/ Persist \/ BuildFresh \/ FillFresh \/ KeepPrevious \/ Publish
    \/ SyncDirectory \/ Snapshot \/ Release \/ Report

-----------------------------------------------------------------------------
(***************************************************************************)
(* What happens beside a Run                                               *)
(***************************************************************************)
Beside == changes < MaxChanges /\ changes' = changes + 1

SaveConfig ==
    /\ Beside /\ config' \in Configs \ {config}
    /\ UNCHANGED <<lock, moved, disk, status, error, told, worker, starts, wrote>>

EditPapers ==
    /\ Beside
    /\ \/ \E d \in DOI, note \in {None, 1} : saved' = [saved EXCEPT ![d] = note] /\ UNCHANGED unreadable
       \/ unreadable' = ~unreadable /\ UNCHANGED saved
    /\ UNCHANGED <<config, lock, moved, db, temp, backup, lastRun, status, error, told, worker, starts, wrote>>

MoveWorkspace ==
    /\ Beside /\ worker.owned /\ moved' = TRUE
    /\ UNCHANGED <<config, lock, disk, status, error, told, worker, starts, wrote>>

\* Reset, Settings or a Run of another process
OtherLocks ==
    /\ \E d \in Dir : \/ lock[d] = "free" /\ Beside /\ lock' = [lock EXCEPT ![d] = "other"]
                      \/ lock[d] = "other" /\ lock' = [lock EXCEPT ![d] = "free"] /\ UNCHANGED changes
    /\ UNCHANGED <<config, moved, disk, status, error, told, worker, starts, wrote>>

\* In the middle of the transaction of update_provider_state a process that stops
\* leaves a journal, and no read-only connection can open the database it is for.
HotJournal ==
    /\ AtStep("persist") /\ ~moved /\ db.kind = "whole" /\ worker.pending # {}
    /\ db' = [db EXCEPT !.kind = "busy"]

\* The process stops: flock goes with it, files stay.
ProcessStops ==
    /\ ~AtStep("none")
    /\ status' = "IDLE" /\ error' = FALSE /\ told' = None /\ worker' = Quiet /\ moved' = FALSE
    /\ lock' = [d \in Dir |-> IF lock[d] = "run" THEN "free" ELSE lock[d]]
    /\ temp' = Db("none") /\ backup' = Db("none")    \* left under names no one reads again
    /\ HotJournal \/ UNCHANGED db
    /\ UNCHANGED <<config, saved, unreadable, lastRun, history>>

RunNext == RunStep \/ SaveConfig \/ EditPapers \/ MoveWorkspace \/ OtherLocks \/ ProcessStops

RunSpec == RunInit /\ [][RunNext]_runVars

-----------------------------------------------------------------------------
(***************************************************************************)
(* Properties                                                              *)
(***************************************************************************)
RunTypeOK ==
    /\ config \in Configs /\ lock \in [Dir -> {"free", "run", "other"}]
    /\ saved \in [DOI -> {None, 1, 2}]
    /\ {db, temp, backup} \subseteq [kind : {"none", "bad", "busy", "partial", "whole"}, rows : SUBSET DOI]
    /\ status \in {"IDLE", "RUNNING", "FINISHED"}
    /\ (status = "RUNNING") = ~AtStep("none")

\* Whatever a Run reads or writes of the Workspace, from discovery to the
\* snapshot, it owns the operation lock of the directory it writes: Reset
\* never sees it free.  And FINISHED is told only when the lock is free.
Working == worker.step \in {"prepare", "state", "identities", "core", "again", "materialize", "persist",
                            "build", "fill", "keep", "publish", "sync", "snapshot"}
RunOwnsWorkspace ==
    /\ Working => lock[worker.dir] = "run" /\ worker.cfg.dir = worker.dir
    /\ ~worker.owned => \A d \in Dir : lock[d] # "run"

\* No Paper is counted twice, and what counts as Already Saved was there,
\* the same note, before and after the network was asked: if nothing
\* happened since, it is there now.
CountsAreTrue ==
    told # None =>
        /\ told.confirmed \cap (told.created \cup told.existing) = {}
        /\ changes = 0 => \A d \in told.confirmed \cup told.created \cup told.existing : saved[d] # None
        /\ told.outcome \in {"COMPLETED", "COMPLETED_WITH_WARNINGS"} => told.confirmed = worker.seen

\* COMPLETED means that all was kept: the records, and a snapshot that says
\* so.  A snapshot of this Run tells the outcome of the result, but for one
\* case: a first snapshot that was linked and whose write failed after it
\* says COMPLETED of a Run that ends, for that failure, with a warning.
CompletedIsRecorded ==
    told # None =>
        /\ told.outcome = "COMPLETED" =>
               /\ lastRun = [outcome |-> "COMPLETED", run |-> starts]
               /\ worker.pending = {} \/ worker.pending \subseteq db.rows
        /\ (lastRun # None /\ lastRun.run = starts) =>
               \/ lastRun.outcome = told.outcome
               \/ /\ "link" \in wrote
                  /\ lastRun.outcome = "COMPLETED" /\ told.outcome = "COMPLETED_WITH_WARNINGS"

\* A Run that ends as INVALID_CONFIGURATION has written nothing.
InvalidWritesNothing ==
    (told # None /\ told.outcome = "INVALID_CONFIGURATION") => wrote = {}

\* A Run owns the Workspace it works on, its counts are true, COMPLETED is
\* recorded, and an invalid configuration writes nothing.
RunIsTrue == RunTypeOK /\ RunOwnsWorkspace /\ CountsAreTrue /\ CompletedIsRecorded /\ InvalidWritesNothing

\* Failures of publication never cost what was there: a database that was
\* valid only grows, its path never shows one half made, one that is no
\* database stays until a whole one takes its place, and one that could
\* only not be read is left alone.  A valid one becomes unreadable in one
\* way, with all its records: the process stops in its transaction.
StateSurvives == [][
    /\ (db.kind = "whole" /\ ~AtStep("sync")) =>
           /\ db.rows \subseteq db'.rows
           /\ db'.kind = "whole" \/ (db'.kind = "busy" /\ AtStep("persist") /\ status' = "IDLE")
    /\ db.kind = "bad" => db' \in {db, Whole(worker.pending)}
    /\ db.kind = "busy" => db' = db
    /\ AtStep("sync") => db'.kind \in {"whole", worker.state}
    /\ db'.kind # "partial"]_runVars
================================================================================
