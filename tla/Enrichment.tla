----------------------------- MODULE Enrichment -----------------------------
(***************************************************************************)
(* web/paper_enrichment.py and application/paper_enrichment.py: the        *)
(* Connector looks up one Paper's missing Abstract, date and Authors, and  *)
(* what it finds is saved at once.  The service's methods hold its lock,   *)
(* result() for the whole save; the save reads and writes files in steps   *)
(* between which editors (and, while the Workspace lock is let go, a       *)
(* Decision) change them and time passes.                                  *)
(*                                                                         *)
(* A Paper is the fields the save may fill and a count of what users did   *)
(* to the rest of it; the splicing into its text is Filled.  A request is  *)
(* as fresh as its task's number.  What left counts is also the deadline   *)
(* the CaptureCoordinator lets the browser go at.                          *)
(***************************************************************************)
EXTENDS Naturals, Sequences

CONSTANTS
    Paper,
    Fresh,       \* the contents a Paper may have at first
    MaxAuthors,  \* Authors a translator finds (a bound)
    MaxTasks,    \* tasks of one history (a bound)
    MaxEdits,    \* edits of one Paper by users (a bound)
    Deadline,    \* the 75 seconds of a task
    Patience,    \* the 600 seconds of a task that waits for the user
    Other,       \* whoever else owns the browser
    None

Field == {"none", "user", "found"}
Contents == [candidate : BOOLEAN, abstract : Field, authors : Field,
             date : {"none", "month", "day"}, edits : 0..MaxEdits]
Target == [paper : Paper, was : Contents]
Item == [abstract : BOOLEAN, authors : 0..MaxAuthors, date : {"none", "month", "day"}]
Task == [number : 1..MaxTasks, target : Target, phase : {"Retrieving", "Saving", "Completed", "Failed"},
         claimed : BOOLEAN, manual : BOOLEAN, left : Nat,
         retained : SUBSET (1..MaxAuthors)]      \* Authors the failure message names
Note == {"absent", "fresh", "edited", "other"}   \* other: not safe to reuse
Save == [step : {"reread", "recheck", "author", "verify", "compare", "replace"}, item : Item,
         seen : Contents,   \* what was read of the Paper last
         reads : Seq(Note), made : SUBSET (1..MaxAuthors)]

\* None and Other are none of the values they stand beside.
ASSUME EnrichmentAssumption ==
    /\ MaxAuthors \in Nat /\ MaxTasks \in Nat /\ MaxEdits \in Nat /\ Deadline \in Nat /\ Patience \in Nat
    /\ Fresh \subseteq Contents
    /\ None \notin Target \cup Task \cup Save \cup 1..MaxTasks
    /\ Other \notin 1..MaxTasks \cup {None}

VARIABLES
    papers, notes,   \* the files: Papers, and the Authors a save would name
    task,            \* _task
    starting,        \* the target a start read before it takes the lock
    save,            \* the save inside result(), which holds the lock
    completed,       \* _completed_papers
    browser,         \* who owns the browser: a task's number, Other or None
    online,          \* connector_online and enrichment_capable
    number,          \* requests made so far
    \* History, never read by the code:
    savers,          \* since the last restart, tasks that saved each Paper
    makers           \* the task that created each Author note

files == <<papers, notes>>
service == <<task, starting, save, completed>>
vars == <<files, service, browser, online, number, savers, makers>>

-----------------------------------------------------------------------------
MissingAbstract(c) == c.abstract = "none"
MissingDate(c) == c.date # "day"
MissingAuthors(c) == c.authors = "none"
Enrichable(c) == c.candidate /\ (MissingAbstract(c) \/ MissingDate(c) \/ MissingAuthors(c))

\* What of an item result() makes a candidate.
Candidate(c, item) ==
    [abstract |-> item.abstract /\ MissingAbstract(c),
     authors |-> IF MissingAuthors(c) THEN item.authors ELSE 0,
     date |-> IF c.date = "none" \/ (c.date = "month" /\ item.date = "day") THEN item.date ELSE "none"]
Nothing == [abstract |-> FALSE, authors |-> 0, date |-> "none"]

\* fill_abstract, fill_publication_date and fill_authors.
Filled(c, item) ==
    [c EXCEPT !.abstract = IF item.abstract THEN "found" ELSE @,
              !.authors = IF item.authors > 0 THEN "found" ELSE @,
              !.date = IF item.date = "none" THEN @ ELSE item.date]

Retrieving(t) == t # None /\ t.phase = "Retrieving"
Owns(t) == t # None /\ t.phase \in {"Retrieving", "Saving"}

\* _expire
Live ==
    IF Retrieving(task) /\ (task.left = 0 \/ ~online) THEN [task EXCEPT !.phase = "Failed"] ELSE task

\* A task that is over has released the browser.
BrowserUnder(t) == IF browser \in 1..MaxTasks /\ ~Owns(t) THEN None ELSE browser
Becomes(t) == task' = t /\ browser' = BrowserUnder(t)

\* _matching: the task a command may act for.
Matches(t, n) == Retrieving(t) /\ t.claimed /\ t.number = n

Init ==
    /\ papers \in [Paper -> Fresh]
    /\ notes \in [Paper \X (1..MaxAuthors) -> {"absent", "edited", "other"}]
    /\ task = None /\ starting = None /\ save = None /\ completed = {}
    /\ browser = None /\ online = FALSE /\ number = 0
    /\ savers = [p \in Paper |-> {}] /\ makers = [n \in DOMAIN notes |-> 0]

-----------------------------------------------------------------------------
\* start: read_enrichment_target, then the part under the lock.
ReadTarget(p) ==
    /\ starting = None /\ Enrichable(papers[p])
    /\ starting' = [paper |-> p, was |-> papers[p]]
    /\ UNCHANGED <<files, task, save, completed, browser, online, number, savers, makers>>

Startable(p) == p \notin completed /\ online

Start ==
    /\ starting # None /\ save = None /\ starting' = None
    /\ IF Startable(starting.paper) /\ BrowserUnder(Live) = None /\ number < MaxTasks
       THEN /\ number' = number + 1 /\ browser' = number + 1
            /\ task' = [number |-> number + 1, target |-> starting, phase |-> "Retrieving",
                        claimed |-> FALSE, manual |-> FALSE, left |-> Deadline, retained |-> {}]
       ELSE Becomes(Live) /\ UNCHANGED number
    /\ UNCHANGED <<files, save, completed, online, savers, makers>>

\* state, and every call that is refused.
State ==
    /\ save = None /\ Becomes(Live)
    /\ UNCHANGED <<files, starting, save, completed, online, number, savers, makers>>

Claim ==
    /\ save = None /\ Retrieving(Live) /\ ~task.claimed
    /\ task' = [task EXCEPT !.claimed = TRUE]
    /\ UNCHANGED <<files, starting, save, completed, browser, online, number, savers, makers>>

\* authorize with waiting_for_user.
\* Mutant: every report of waiting starts the long wait anew.
PatientAgain(t) == [t EXCEPT !.manual = TRUE, !.left = Patience]
Patient(t) == IF t.manual THEN t ELSE [t EXCEPT !.manual = TRUE, !.left = Patience]

AuthorizeWaiting(n) ==
    /\ save = None /\ Matches(Live, n)
    /\ task' = Patient(task)
    /\ UNCHANGED <<files, starting, save, completed, browser, online, number, savers, makers>>

FreedBrowser == BrowserUnder(None)

Cancel(n) ==
    /\ save = None /\ Retrieving(task) /\ task.number = n
    /\ task' = None /\ browser' = FreedBrowser
    /\ UNCHANGED <<files, starting, save, completed, online, number, savers, makers>>

\* result, up to the save.  An error, a changed Workspace or an item that is
\* not this Paper fails the task.
ResultFails(n) ==
    /\ save = None /\ Matches(Live, n)
    /\ Becomes([task EXCEPT !.phase = "Failed"])
    /\ UNCHANGED <<files, starting, save, completed, online, number, savers, makers>>

ResultArrives(n, item) ==
    /\ save = None /\ Matches(Live, n)
    /\ Candidate(task.target.was, item) # Nothing
    /\ task' = [task EXCEPT !.phase = "Saving"]
    /\ save' = [step |-> "reread", item |-> Candidate(task.target.was, item), seen |-> task.target.was,
                 reads |-> <<>>, made |-> {}]
    /\ UNCHANGED <<files, starting, completed, browser, online, number, savers, makers>>

-----------------------------------------------------------------------------
(***************************************************************************)
(* save_enrichment.  Any step may fail; what it made so far is reported.   *)
(***************************************************************************)
Seen == papers[task.target.paper]
Unchanged == Seen = task.target.was
AuthorNote(k) == <<task.target.paper, k>>
NextAuthor == Len(save.reads) + 1

FailSave(made) ==
    /\ Becomes([task EXCEPT !.phase = "Failed", !.retained = made]) /\ save' = None
    /\ UNCHANGED <<papers, starting, completed, online, number, savers>>

GoesOn == UNCHANGED <<papers, task, starting, completed, browser, online, number, savers>>

SaveFails == save # None /\ FailSave(save.made) /\ UNCHANGED <<notes, makers>>

\* The Paper is read again, and once more under the lock before any Author.
Reread ==
    /\ save # None /\ save.step \in {"reread", "recheck"} /\ Unchanged
    /\ save' = [save EXCEPT !.seen = Seen,
                             !.step = IF save.item.authors = 0 THEN "verify"
                                      ELSE IF save.step = "reread" THEN "recheck" ELSE "author"]
    /\ GoesOn /\ UNCHANGED <<notes, makers>>

Reading == save # None /\ save.step = "author"

\* One more Author was read, whether it was there or has just been created.
ReadAs(note) ==
    [save EXCEPT !.reads = Append(@, note),
                 !.step = IF NextAuthor = save.item.authors THEN "verify" ELSE @]

ReadAuthor ==
    /\ Reading /\ notes[AuthorNote(NextAuthor)] \in {"fresh", "edited"}
    /\ save' = ReadAs(notes[AuthorNote(NextAuthor)])
    /\ GoesOn /\ UNCHANGED <<notes, makers>>

CreatesAuthor ==
    /\ Reading /\ NextAuthor \notin save.made /\ notes[AuthorNote(NextAuthor)] = "absent"
    /\ notes' = [notes EXCEPT ![AuthorNote(NextAuthor)] = "fresh"]
    /\ makers' = [makers EXCEPT ![AuthorNote(NextAuthor)] = task.number]

CreateAuthor ==
    /\ CreatesAuthor
    /\ save' = [save EXCEPT !.made = @ \cup {NextAuthor}]
    /\ GoesOn

\* The note is on disk, but the sync of it failed.
AuthorUnsynced == CreatesAuthor /\ FailSave(save.made \cup {NextAuthor})

\* replace_regular_text_at_identity: the Authors are compared (verify_authors),
\* then the Paper (the last check_location), and os.replace puts the new text in
\* place without looking again: an edit saved in between is lost, as its
\* docstring admits.  Its earlier comparisons can only fail the save sooner.
VerifyAuthors ==
    /\ save # None /\ save.step = "verify"
    /\ \A k \in 1..save.item.authors : notes[AuthorNote(k)] = save.reads[k]
    /\ save' = [save EXCEPT !.step = "compare"]
    /\ GoesOn /\ UNCHANGED <<notes, makers>>

\* Mutant: the Paper is read, and not compared.
SameAnyway == save # None /\ save.step = "compare"
Same == save # None /\ save.step = "compare" /\ Unchanged

ComparePaper ==
    /\ Same
    /\ save' = [save EXCEPT !.seen = Seen, !.step = "replace"]
    /\ GoesOn /\ UNCHANGED <<notes, makers>>

\* Mutant: a failed sync is reported as a failure.
SavedMaybe == {"Completed", "Failed"}
SavedAs == {"Completed"}

\* A failed sync completes the task too.
Replace ==
    /\ save # None /\ save.step = "replace"
    /\ papers' = [papers EXCEPT ![task.target.paper] = Filled(task.target.was, save.item)]
    /\ \E phase \in SavedAs : Becomes([task EXCEPT !.phase = phase])
    /\ save' = None /\ completed' = completed \cup {task.target.paper}
    /\ savers' = [savers EXCEPT ![task.target.paper] = @ \cup {task.number}]
    /\ UNCHANGED <<notes, starting, online, number, makers>>

SaveNext ==
    \/ SaveFails \/ Reread \/ ReadAuthor \/ CreateAuthor \/ AuthorUnsynced
    \/ VerifyAuthors \/ ComparePaper \/ Replace

-----------------------------------------------------------------------------
(***************************************************************************)
(* Users, the Connector's lease, the other browser tasks, time and crashes *)
(***************************************************************************)
EditPaper(p) ==
    /\ papers[p].edits < MaxEdits
    /\ \E c \in Contents :
         /\ c.edits = papers[p].edits + 1
         /\ c.abstract \in {papers[p].abstract, "user"} /\ c.authors \in {papers[p].authors, "user"}
         /\ papers' = [papers EXCEPT ![p] = c]
    /\ UNCHANGED <<notes, service, browser, online, number, savers, makers>>

EditNote(n) ==
    /\ \E note \in Note \ {"fresh", notes[n]} : notes' = [notes EXCEPT ![n] = note]
    /\ UNCHANGED <<papers, service, browser, online, number, savers, makers>>

ConnectorChanges ==
    /\ online' = ~online
    /\ UNCHANGED <<files, service, browser, number, savers, makers>>

OtherTakesBrowser ==
    /\ browser = None \/ (browser \in 1..MaxTasks /\ task.left = 0)
    /\ browser' = Other
    /\ UNCHANGED <<files, service, online, number, savers, makers>>

OtherFreesBrowser ==
    /\ browser = Other /\ browser' = None
    /\ UNCHANGED <<files, service, online, number, savers, makers>>

Tick ==
    /\ Owns(task) /\ task.left > 0
    /\ task' = [task EXCEPT !.left = @ - 1]
    /\ UNCHANGED <<files, starting, save, completed, browser, online, number, savers, makers>>

Restart ==
    /\ task' = None /\ starting' = None /\ save' = None /\ completed' = {}
    /\ browser' = None /\ online' = FALSE /\ savers' = [p \in Paper |-> {}]
    /\ UNCHANGED <<files, number, makers>>

Commands ==
    \/ Claim
    \/ \E n \in 1..MaxTasks :
         \/ AuthorizeWaiting(n) \/ ResultFails(n)
         \/ \E item \in Item : ResultArrives(n, item)

Next ==
    \/ (\E p \in Paper : ReadTarget(p) \/ EditPaper(p)) \/ Start \/ State
    \/ (\E n \in 1..MaxTasks : Cancel(n))
    \/ Commands \/ SaveNext \/ (\E n \in DOMAIN notes : EditNote(n))
    \/ ConnectorChanges \/ OtherTakesBrowser \/ OtherFreesBrowser \/ Tick \/ Restart

Spec == Init /\ [][Next]_vars

\* Time passes, and a save in progress goes on or fails.
FairSpec == Spec /\ WF_vars(Tick) /\ WF_vars(SaveNext)

-----------------------------------------------------------------------------
(***************************************************************************)
(* Properties                                                              *)
(***************************************************************************)
\* Every field is of the kind the code stores in it.
TypeOK ==
    /\ papers \in [Paper -> Contents] /\ notes \in [Paper \X (1..MaxAuthors) -> Note]
    /\ task \in Task \cup {None} /\ starting \in Target \cup {None}
    /\ save \in Save \cup {None} /\ completed \subseteq Paper
    /\ browser \in 1..MaxTasks \cup {Other, None} /\ online \in BOOLEAN /\ number \in 0..MaxTasks

\* The browser is the task's as long as it retrieves or saves and its deadline
\* has not passed, and no task that is over or gone keeps it.
BrowserFollowsTask ==
    /\ browser \in 1..MaxTasks => Owns(task) /\ task.number = browser
    /\ Owns(task) /\ task.left > 0 => browser = task.number

\* "Enrichment saved" is said exactly of the tasks that wrote their Paper, a
\* failed sync included.
CompletedIsTrue ==
    task # None => (task.phase = "Completed" <=> task.number \in savers[task.target.paper])

\* A save that fails half-way leaves no Author note behind it does not name.
OrphansAreReported ==
    task # None /\ task.phase = "Failed" =>
        \A k \in 1..MaxAuthors : makers[AuthorNote(k)] = task.number => k \in task.retained

\* A Paper is enriched once in the life of the process, whatever starts read
\* it before.
EnrichedOnce == \A p \in Paper : \A m, n \in savers[p] : m = n

\* The browser is let go exactly when the task that has it is over, "saved" is
\* said exactly of what was written, no orphan goes unnamed and nothing is
\* enriched twice.
EnrichmentIsTrue == TypeOK /\ BrowserFollowsTask /\ CompletedIsTrue /\ OrphansAreReported /\ EnrichedOnce

\* An Abstract, Authors, a full date and all a user wrote stand, and a month
\* becomes a day.
FillsGaps(old, new) ==
    /\ new.edits = old.edits /\ new.candidate = old.candidate
    /\ old.abstract # "none" => new.abstract = old.abstract
    /\ old.authors # "none" => new.authors = old.authors
    /\ old.date = "day" => new.date = "day"
    /\ old.date = "month" => new.date \in {"month", "day"}

\* A user changes the Paper, and what a save that replaces it read of it last.
Edited(p) == papers'[p].edits > papers[p].edits
Compared(p) == IF save # None /\ task.target.paper = p THEN save.seen ELSE papers[p]

\* What a save writes fills the gaps of the Paper as the last comparison read
\* it, and nothing else: it undoes no edit saved up to that comparison.  One
\* saved between that and os.replace is lost ("not an OS-level transactional
\* CAS", safe_write.py), and nothing but a save changes what a user left.
OnlyGapsAreFilled ==
    [][\A p \in Paper : papers'[p] = papers[p] \/ Edited(p) \/ FillsGaps(Compared(p), papers'[p])]_vars

\* Whatever the Connector reports, a task's hold of the browser ends.
BrowserIsLetGo == browser \in 1..MaxTasks ~> (browser \notin 1..MaxTasks \/ task.left = 0)
==============================================================================
