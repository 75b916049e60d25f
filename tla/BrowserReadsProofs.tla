-------------------------- MODULE BrowserReadsProofs --------------------------
(***************************************************************************)
(* What the two read-only users of the browser promise, proved for any     *)
(* Papers, Authors, Journals, images and requests: the browser, the        *)
(* reports and the files agree, a save of an enrichment only fills gaps,   *)
(* and a cover that comes late is dropped.                                 *)
(***************************************************************************)
EXTENDS Enrichment, JournalCovers, FiniteSetTheorems, TLAPS

Authors == 1..MaxAuthors
Numbers == 1..MaxTasks

-----------------------------------------------------------------------------
(***************************************************************************)
(* The inductive invariant                                                 *)
(***************************************************************************)
TypeInv ==
    /\ papers \in [Paper -> Contents] /\ notes \in [Paper \X Authors -> Note]
    /\ task \in Task \cup {None} /\ starting \in Target \cup {None} /\ save \in Save \cup {None}
    /\ completed \subseteq Paper /\ browser \in Numbers \cup {Other, None}
    /\ online \in BOOLEAN /\ number \in 0..MaxTasks
    /\ savers \in [Paper -> SUBSET Numbers] /\ makers \in [Paper \X Authors -> 0..MaxTasks]

\* What is saved is a candidate for the Paper that was read, and its Authors are read in order.
Fits(was, item) ==
    /\ item.abstract => MissingAbstract(was)
    /\ item.authors > 0 => MissingAuthors(was)
    /\ item.date # "none" => was.date = "none" \/ (was.date = "month" /\ item.date = "day")
SaveInv ==
    /\ (save # None) = (task # None /\ task.phase = "Saving")
    /\ save # None =>
           /\ Fits(task.target.was, save.item)
           /\ save.step \in {"reread", "recheck"} => Len(save.reads) = 0
           /\ save.step = "author" => Len(save.reads) < save.item.authors
           /\ save.step \in {"verify", "compare", "replace"} => Len(save.reads) = save.item.authors
           /\ save.step = "replace" => save.seen = task.target.was

\* No task has a number still to be given, and the live one's Paper is not enriched yet.
NumberInv ==
    /\ task # None => task.number <= number
    /\ \A p \in Paper : \A n \in savers[p] : n <= number
    /\ \A n \in Paper \X Authors : makers[n] <= number
    /\ \A p \in Paper : (p \in completed) = (savers[p] # {})
    /\ Owns(task) => task.target.paper \notin completed

\* Author notes a task that is not over made are in its save.
MadeInv ==
    task # None =>
        \A k \in Authors : makers[AuthorNote(k)] = task.number =>
            /\ task.phase # "Retrieving"
            /\ task.phase = "Saving" => k \in save.made

Inv == TypeInv /\ BrowserFollowsTask /\ SaveInv /\ NumberInv /\ CompletedIsTrue /\ MadeInv /\ OrphansAreReported
       /\ EnrichedOnce

-----------------------------------------------------------------------------
(***************************************************************************)
(* What a step does to the task and to the save, field by field            *)
(***************************************************************************)
\* A step of the save that only reads
Checks == Reread \/ VerifyAuthors \/ ComparePaper

\* The same task with the same Authors to report, in a phase
Kept(phase) ==
    /\ task # None /\ task' \in Task /\ task'.number = task.number /\ task'.target = task.target
    /\ task'.phase = phase
Goes(phase) == Kept(phase) /\ task'.retained = task.retained
Frees == browser' = IF browser \in Numbers /\ ~Owns(task') THEN None ELSE browser
\* _expire: what the task becomes of itself
Settles == (task' = task \/ (Goes("Failed") /\ task.phase = "Retrieving")) /\ Frees

LEMMA LiveIs ==
    ASSUME TypeInv
    PROVE  \/ Live = task
           \/ /\ task \in Task /\ task.phase = "Retrieving" /\ Live \in Task /\ Live.phase = "Failed"
              /\ Live.number = task.number /\ Live.target = task.target /\ Live.retained = task.retained
<1>1. CASE Retrieving(task) /\ (task.left = 0 \/ ~online)
  <2>1. task \in Task /\ task.phase = "Retrieving" /\ Live = [task EXCEPT !.phase = "Failed"]
    BY <1>1 DEF Live, Retrieving, TypeInv
  <2>2. Live \in Task
    BY <2>1 DEF Task
  <2> QED
    BY <2>1, <2>2 DEF Task
<1>2. CASE ~(Retrieving(task) /\ (task.left = 0 \/ ~online))
  BY <1>2 DEF Live
<1> QED
  BY <1>1, <1>2

LEMMA SettlesFx == ASSUME TypeInv, Becomes(Live) PROVE Settles
<1>1. task \in Task => task # None
  BY EnrichmentAssumption
<1>2. task' = Live /\ browser' = BrowserUnder(task')
  BY DEF Becomes
<1> QED
  BY <1>1, <1>2, LiveIs DEF Settles, Goes, Kept, Frees, BrowserUnder, Numbers

\* A command that is matched finds its task retrieving, alive and claimed.
LEMMA MatchIs ==
    ASSUME TypeInv, NEW n, Matches(Live, n)
    PROVE  task \in Task /\ task # None /\ task.phase = "Retrieving" /\ task.left # 0 /\ task.number = n /\ task.claimed
<1>1. Live # None /\ Live.phase = "Retrieving" /\ Live.claimed /\ Live.number = n
  BY DEF Matches, Retrieving
<1>2. Live = task
  BY <1>1, LiveIs
<1>3. task.left # 0
  <2>1. CASE task.left = 0
    <3>1. Live = [task EXCEPT !.phase = "Failed"] /\ task \in Task
      BY <1>1, <1>2, <2>1 DEF Live, Retrieving, TypeInv
    <3> QED
      BY <1>1, <3>1 DEF Task
  <2> QED
    BY <2>1
<1> QED
  BY <1>1, <1>2, <1>3 DEF TypeInv

LEMMA StartFx ==
    ASSUME TypeInv, Start
    PROVE  \/ Settles /\ UNCHANGED number
           \/ /\ number < MaxTasks /\ number' = number + 1 /\ browser' = number + 1
              /\ task' \in Task /\ task' # None /\ task'.number = number + 1 /\ task'.target = starting
              /\ task'.phase = "Retrieving" /\ task'.left = Deadline
              /\ starting \in Target /\ starting.paper \notin completed
<1>1. starting \in Target
  BY DEF TypeInv, Start
<1>2. CASE Startable(starting.paper) /\ BrowserUnder(Live) = None /\ number < MaxTasks
  <2>1. /\ number' = number + 1 /\ browser' = number + 1
        /\ task' = [number |-> number + 1, target |-> starting, phase |-> "Retrieving",
                    claimed |-> FALSE, manual |-> FALSE, left |-> Deadline, retained |-> {}]
    BY <1>2 DEF Start
  <2>2. number + 1 \in 1..MaxTasks
    BY <1>2, EnrichmentAssumption DEF TypeInv
  <2>3. task' \in Task
    BY <1>1, <2>1, <2>2, EnrichmentAssumption DEF Task
  <2>4. task' # None
    BY <2>3, EnrichmentAssumption
  <2> QED
    BY <1>1, <1>2, <2>1, <2>3, <2>4 DEF Startable
<1>3. CASE ~(Startable(starting.paper) /\ BrowserUnder(Live) = None /\ number < MaxTasks)
  BY <1>3, SettlesFx DEF Start
<1> QED
  BY <1>2, <1>3

LEMMA ClaimFx == ASSUME TypeInv, Claim PROVE Goes("Retrieving") /\ task.phase = "Retrieving" /\ task'.left = task.left
<1>1. Live # None /\ Live.phase = "Retrieving"
  BY DEF Claim, Retrieving
<1>2. task \in Task /\ task # None /\ task.phase = "Retrieving"
  BY <1>1, LiveIs DEF TypeInv
<1>3. task' = [task EXCEPT !.claimed = TRUE]
  BY DEF Claim
<1>4. task' \in Task
  BY <1>2, <1>3 DEF Task
<1> QED
  BY <1>2, <1>3, <1>4 DEF Goes, Kept, Task

LEMMA AuthorizeFx ==
    ASSUME TypeInv, NEW n, AuthorizeWaiting(n)
    PROVE  Goes("Retrieving") /\ task.phase = "Retrieving" /\ task.left > 0
<1>1. task \in Task /\ task # None /\ task.phase = "Retrieving" /\ task.left # 0
  BY MatchIs DEF AuthorizeWaiting
<1>2. task' = task \/ task' = [task EXCEPT !.manual = TRUE, !.left = Patience]
  BY DEF AuthorizeWaiting, Patient
<1>3. task' \in Task
  BY <1>1, <1>2, EnrichmentAssumption DEF Task
<1>4. task.left > 0
  BY <1>1 DEF Task
<1> QED
  BY <1>1, <1>2, <1>3, <1>4 DEF Goes, Kept, Task

LEMMA ResultFailsFx ==
    ASSUME TypeInv, NEW n, ResultFails(n)
    PROVE  Goes("Failed") /\ task.phase = "Retrieving" /\ Frees
<1>1. task \in Task /\ task # None /\ task.phase = "Retrieving"
  BY MatchIs DEF ResultFails
<1>2. task' = [task EXCEPT !.phase = "Failed"] /\ browser' = BrowserUnder(task')
  BY DEF ResultFails, Becomes
<1>3. task' \in Task
  BY <1>1, <1>2 DEF Task
<1> QED
  BY <1>1, <1>2, <1>3 DEF Goes, Kept, Frees, BrowserUnder, Numbers, Task

LEMMA CandidateFits ==
    ASSUME NEW was \in Contents, NEW item \in Item
    PROVE  Candidate(was, item) \in Item /\ Fits(was, Candidate(was, item))
<1> DEFINE c == Candidate(was, item)
           date == IF was.date = "none" \/ (was.date = "month" /\ item.date = "day") THEN item.date ELSE "none"
           count == IF MissingAuthors(was) THEN item.authors ELSE 0
           flag == item.abstract /\ MissingAbstract(was)
<1>1. c = [abstract |-> flag, authors |-> count, date |-> date]
  BY DEF Candidate
<1>2. flag \in BOOLEAN /\ count \in 0..MaxAuthors /\ date \in {"none", "month", "day"}
  BY EnrichmentAssumption DEF Item
<1>3. /\ flag => MissingAbstract(was)
      /\ count > 0 => MissingAuthors(was)
      /\ date # "none" => was.date = "none" \/ (was.date = "month" /\ date = "day")
  OBVIOUS
<1> HIDE DEF flag, count, date, c
<1>4. c \in Item /\ c.abstract = flag /\ c.authors = count /\ c.date = date
  BY <1>1, <1>2 DEF Item
<1>5. Fits(was, c)
  BY <1>3, <1>4 DEF Fits
<1> QED
  BY <1>4, <1>5 DEF c

LEMMA ResultArrivesFx ==
    ASSUME TypeInv, NEW n, NEW item \in Item, ResultArrives(n, item)
    PROVE  /\ Goes("Saving") /\ task.phase = "Retrieving" /\ task'.left = task.left
           /\ save' \in Save /\ save' # None /\ save'.step = "reread" /\ Len(save'.reads) = 0
           /\ Fits(task.target.was, save'.item)
<1>1. task \in Task /\ task # None /\ task.phase = "Retrieving"
  BY MatchIs DEF ResultArrives
<1>2. task' = [task EXCEPT !.phase = "Saving"]
  BY DEF ResultArrives
<1>3. task' \in Task
  BY <1>1, <1>2 DEF Task
<1> DEFINE c == Candidate(task.target.was, item)
<1>4. c \in Item /\ Fits(task.target.was, c)
  BY <1>1, CandidateFits DEF Task, Target
<1>5. save' = [step |-> "reread", item |-> c, seen |-> task.target.was, reads |-> <<>>, made |-> {}]
  BY DEF ResultArrives
<1> HIDE DEF c
<1>6. save' \in Save /\ save'.step = "reread" /\ save'.item = c /\ save'.reads = <<>>
  BY <1>1, <1>4, <1>5 DEF Save, Task, Target
<1> QED
  BY <1>1, <1>2, <1>3, <1>4, <1>6, EnrichmentAssumption DEF Goes, Kept, Task

LEMMA TickFx ==
    ASSUME TypeInv, Tick
    PROVE  Goes(task.phase) /\ task.left > 0 /\ task.phase \in {"Retrieving", "Saving"}
<1>1. task \in Task /\ task # None /\ task.left > 0 /\ task.phase \in {"Retrieving", "Saving"}
  BY DEF Tick, Owns, TypeInv
<1>2. task' = [task EXCEPT !.left = @ - 1]
  BY DEF Tick
<1>3. task.left - 1 \in Nat
  BY <1>1 DEF Task
<1>4. task' \in Task
  BY <1>1, <1>2, <1>3 DEF Task
<1> QED
  BY <1>1, <1>2, <1>4 DEF Goes, Kept, Task

\* The save that goes on, for its task
LEMMA SaveIs ==
    ASSUME TypeInv, SaveInv, save # None
    PROVE  /\ task \in Task /\ task # None /\ task.phase = "Saving" /\ save \in Save
           /\ task.target \in Target /\ save.item \in Item /\ save.made \subseteq Authors
           /\ save.reads \in Seq(Note) /\ Len(save.reads) \in Nat
  BY DEF TypeInv, SaveInv, Task, Save, Authors

LEMMA FailSaveFx ==
    ASSUME TypeInv, SaveInv, save # None, NEW made \in SUBSET Authors, FailSave(made)
    PROVE  Kept("Failed") /\ task'.retained = made /\ Frees
<1>1. task \in Task /\ task # None
  BY SaveIs
<1>2. task' = [task EXCEPT !.phase = "Failed", !.retained = made] /\ browser' = BrowserUnder(task')
  BY DEF FailSave, Becomes
<1>3. task' \in Task
  BY <1>1, <1>2 DEF Task, Authors
<1> QED
  BY <1>1, <1>2, <1>3 DEF Kept, Frees, BrowserUnder, Numbers, Task

LEMMA ChecksFx ==
    ASSUME TypeInv, SaveInv, Checks
    PROVE  /\ save' \in Save /\ save' # None /\ save'.item = save.item /\ save'.reads = save.reads
           /\ save'.made = save.made
           /\ save'.step \in {"reread", "recheck"} => Len(save'.reads) = 0
           /\ save'.step = "author" => Len(save'.reads) < save'.item.authors
           /\ save'.step \in {"verify", "compare", "replace"} => Len(save'.reads) = save'.item.authors
           /\ save'.step = "replace" => save'.seen = task.target.was
<1>1. /\ save \in Save /\ save # None /\ save.item.authors \in Nat /\ Seen \in Contents
  BY SaveIs, EnrichmentAssumption DEF Checks, Reread, VerifyAuthors, ComparePaper, Same, Item, TypeInv,
     Seen, Target
<1>2. CASE Reread
  <2> DEFINE next == IF save.item.authors = 0 THEN "verify" ELSE IF save.step = "reread" THEN "recheck" ELSE "author"
  <2>1. save' = [save EXCEPT !.seen = Seen, !.step = next] /\ Len(save.reads) = 0
    BY <1>1, <1>2 DEF Reread, SaveInv
  <2>2. next \in {"recheck", "author", "verify"} /\ (next = "verify") = (save.item.authors = 0)
    OBVIOUS
  <2> HIDE DEF next
  <2>3. save' \in Save /\ save'.step = next /\ save'.item = save.item /\ save'.reads = save.reads
        /\ save'.made = save.made
    BY <1>1, <2>1, <2>2 DEF Save
  <2> QED
    BY <1>1, <2>1, <2>2, <2>3, EnrichmentAssumption
<1>3. CASE VerifyAuthors
  <2>1. save' = [save EXCEPT !.step = "compare"] /\ Len(save.reads) = save.item.authors
    BY <1>3 DEF VerifyAuthors, SaveInv
  <2>2. save' \in Save /\ save'.step = "compare" /\ save'.item = save.item /\ save'.reads = save.reads
        /\ save'.made = save.made
    BY <1>1, <2>1 DEF Save
  <2> QED
    BY <2>1, <2>2, EnrichmentAssumption
<1>4. CASE ComparePaper
  <2>1. save' = [save EXCEPT !.seen = Seen, !.step = "replace"] /\ Len(save.reads) = save.item.authors
        /\ Seen = task.target.was
    BY <1>4 DEF ComparePaper, Same, Unchanged, SaveInv
  <2>2. save' \in Save /\ save'.step = "replace" /\ save'.item = save.item /\ save'.reads = save.reads
        /\ save'.made = save.made /\ save'.seen = Seen
    BY <1>1, <2>1 DEF Save
  <2> QED
    BY <2>1, <2>2, EnrichmentAssumption
<1> QED
  BY <1>2, <1>3, <1>4 DEF Checks

\* One more Author is read, and it still may be one of those there are.
LEMMA ReadAsFx ==
    ASSUME TypeInv, SaveInv, Reading, NEW note \in Note
    PROVE  /\ NextAuthor \in Authors
           /\ ReadAs(note) \in Save /\ ReadAs(note).item = save.item /\ ReadAs(note).made = save.made
           /\ ReadAs(note).step \in {"author", "verify"}
           /\ ReadAs(note).step = "author" => Len(ReadAs(note).reads) < save.item.authors
           /\ ReadAs(note).step = "verify" => Len(ReadAs(note).reads) = save.item.authors
<1>1. save \in Save /\ save.step = "author" /\ save.reads \in Seq(Note) /\ Len(save.reads) \in Nat
  BY SaveIs DEF Reading
<1>2. save.item.authors \in 0..MaxAuthors /\ Len(save.reads) < save.item.authors
  BY <1>1, SaveIs DEF Reading, SaveInv, Item
<1>3. NextAuthor \in Authors /\ NextAuthor <= save.item.authors
  BY <1>1, <1>2, EnrichmentAssumption DEF NextAuthor, Authors
<1> DEFINE next == IF NextAuthor = save.item.authors THEN "verify" ELSE "author"
           reads == Append(save.reads, note)
<1>4. ReadAs(note) = [save EXCEPT !.reads = reads, !.step = next]
  BY <1>1 DEF ReadAs
<1>5. reads \in Seq(Note) /\ Len(reads) = NextAuthor
  BY <1>1 DEF NextAuthor
<1>6. next \in {"author", "verify"} /\ (next = "verify") = (NextAuthor = save.item.authors)
  OBVIOUS
<1> HIDE DEF next, reads
<1>7. /\ ReadAs(note) \in Save /\ ReadAs(note).step = next /\ ReadAs(note).reads = reads
      /\ ReadAs(note).item = save.item /\ ReadAs(note).made = save.made
  BY <1>1, <1>4, <1>5, <1>6 DEF Save
<1>8. NextAuthor \in Nat /\ save.item.authors \in Nat
  BY <1>1, <1>2, EnrichmentAssumption DEF NextAuthor
<1>9. next = "author" => NextAuthor < save.item.authors
  BY <1>3, <1>6, <1>8
<1> QED
  BY <1>3, <1>5, <1>6, <1>7, <1>9

LEMMA ReadFx ==
    ASSUME TypeInv, SaveInv, ReadAuthor
    PROVE  /\ save' \in Save /\ save' # None /\ save'.item = save.item /\ save'.made = save.made
           /\ save'.step \in {"author", "verify"}
           /\ save'.step = "author" => Len(save'.reads) < save'.item.authors
           /\ save'.step = "verify" => Len(save'.reads) = save'.item.authors
<1> DEFINE note == notes[AuthorNote(NextAuthor)]
<1>1. note \in Note /\ Reading /\ save' = ReadAs(note)
  BY DEF ReadAuthor, Note
<1> HIDE DEF note
<1> QED
  BY <1>1, ReadAsFx, EnrichmentAssumption

LEMMA CreatesFx ==
    ASSUME TypeInv, SaveInv, CreatesAuthor
    PROVE  /\ NextAuthor \in Authors /\ AuthorNote(NextAuthor) \in Paper \X Authors
           /\ notes' = [notes EXCEPT ![AuthorNote(NextAuthor)] = "fresh"] /\ notes' \in [Paper \X Authors -> Note]
           /\ makers' = [makers EXCEPT ![AuthorNote(NextAuthor)] = task.number]
           /\ makers' \in [Paper \X Authors -> 0..MaxTasks]
           /\ task.number \in Numbers
<1>1. NextAuthor \in Authors
  BY ReadAsFx DEF CreatesAuthor, Note
<1>2. AuthorNote(NextAuthor) \in Paper \X Authors /\ task.number \in Numbers
  BY <1>1, SaveIs DEF CreatesAuthor, Reading, AuthorNote, Target, Task, Numbers
<1>3. /\ notes' = [notes EXCEPT ![AuthorNote(NextAuthor)] = "fresh"]
      /\ makers' = [makers EXCEPT ![AuthorNote(NextAuthor)] = task.number]
  BY DEF CreatesAuthor
<1>4. task.number \in 0..MaxTasks /\ "fresh" \in Note
  BY <1>2, EnrichmentAssumption DEF Numbers, Note
<1> QED
  BY <1>1, <1>2, <1>3, <1>4 DEF TypeInv

LEMMA CreateFx ==
    ASSUME TypeInv, SaveInv, CreateAuthor
    PROVE  /\ save' \in Save /\ save' # None /\ save'.item = save.item /\ save'.made = save.made \cup {NextAuthor}
           /\ save'.step = "author" /\ Len(save'.reads) < save'.item.authors
<1>1. save' = [save EXCEPT !.made = @ \cup {NextAuthor}] /\ save # None /\ save.step = "author"
  BY DEF CreateAuthor, CreatesAuthor, Reading
<1>2. save \in Save /\ Len(save.reads) < save.item.authors /\ save.made \cup {NextAuthor} \in SUBSET (1..MaxAuthors)
  BY <1>1, SaveIs, CreatesFx DEF CreateAuthor, SaveInv, Authors
<1>3. save' \in Save /\ save'.step = "author" /\ save'.item = save.item /\ save'.reads = save.reads
      /\ save'.made = save.made \cup {NextAuthor}
  BY <1>1, <1>2 DEF Save
<1> QED
  BY <1>2, <1>3, EnrichmentAssumption

LEMMA UnsyncedFx ==
    ASSUME TypeInv, SaveInv, AuthorUnsynced
    PROVE  Kept("Failed") /\ task'.retained = save.made \cup {NextAuthor} /\ Frees
<1>1. save # None /\ CreatesAuthor /\ FailSave(save.made \cup {NextAuthor})
  BY DEF AuthorUnsynced, CreatesAuthor, Reading
<1>2. save.made \cup {NextAuthor} \in SUBSET Authors
  BY <1>1, SaveIs, CreatesFx
<1> QED
  BY <1>1, <1>2, FailSaveFx

LEMMA ReplaceFx ==
    ASSUME TypeInv, SaveInv, Replace
    PROVE  /\ task.phase = "Saving" /\ Goes("Completed") /\ Frees
           /\ task.target.paper \in Paper /\ save # None /\ save.seen = task.target.was
           /\ Fits(task.target.was, save.item) /\ save.item \in Item /\ task.target.was \in Contents
           /\ papers' = [papers EXCEPT ![task.target.paper] = Filled(task.target.was, save.item)]
           /\ savers' = [savers EXCEPT ![task.target.paper] = @ \cup {task.number}]
           /\ completed' = completed \cup {task.target.paper} /\ task.number \in Numbers
<1>1. save # None /\ save.seen = task.target.was
  BY DEF Replace, SaveInv
<1>2. /\ task \in Task /\ task # None /\ task.phase = "Saving" /\ task.target \in Target /\ save.item \in Item
      /\ Fits(task.target.was, save.item)
  BY <1>1, SaveIs DEF SaveInv
<1>3. task' = [task EXCEPT !.phase = "Completed"] /\ browser' = BrowserUnder(task')
  BY DEF Replace, SavedAs, Becomes
<1>4. task' \in Task
  BY <1>2, <1>3 DEF Task
<1>5. Goes("Completed") /\ Frees
  BY <1>2, <1>3, <1>4 DEF Goes, Kept, Frees, BrowserUnder, Numbers, Task
<1> QED
  BY <1>1, <1>2, <1>5 DEF Replace, Target, Task, Numbers

LEMMA FilledIs ==
    ASSUME NEW was \in Contents, NEW item \in Item, Fits(was, item)
    PROVE  LET new == Filled(was, item)
           IN  new \in Contents /\ FillsGaps(was, new)
<1> DEFINE new == Filled(was, item)
           abstract == IF item.abstract THEN "found" ELSE was.abstract
           authors == IF item.authors > 0 THEN "found" ELSE was.authors
           date == IF item.date = "none" THEN was.date ELSE item.date
<1>1. new = [was EXCEPT !.abstract = abstract, !.authors = authors, !.date = date]
  BY DEF Filled
<1>2. abstract \in Field /\ authors \in Field /\ date \in {"none", "month", "day"}
  BY DEF Contents, Item, Field
<1>3. /\ was.abstract # "none" => abstract = was.abstract
      /\ was.authors # "none" => authors = was.authors
      /\ was.date = "day" => date = "day"
      /\ was.date = "month" => date \in {"month", "day"}
  BY DEF Fits, MissingAbstract, MissingAuthors, Contents, Item
<1> HIDE DEF abstract, authors, date, new
<1>4. /\ new \in Contents /\ new.edits = was.edits /\ new.candidate = was.candidate
      /\ new.abstract = abstract /\ new.authors = authors /\ new.date = date
  BY <1>1, <1>2 DEF Contents
<1> QED
  BY <1>3, <1>4 DEF new, FillsGaps

LEMMA TypeStep == TypeInv /\ SaveInv /\ [Next]_vars => TypeInv'
<1> SUFFICES ASSUME TypeInv, SaveInv, [Next]_vars PROVE TypeInv'
    OBVIOUS
<1>1. papers' \in [Paper -> Contents]
  <2>1. CASE \E p \in Paper : EditPaper(p)
    BY <2>1 DEF EditPaper, TypeInv
  <2>2. CASE Replace
    <3>1. Filled(task.target.was, save.item) \in Contents
      BY <2>2, ReplaceFx, FilledIs
    <3> QED
      BY <2>2, <3>1, ReplaceFx DEF TypeInv
  <2>3. CASE (\E p \in Paper : ReadTarget(p))
            \/ Start
            \/ State
            \/ (\E n \in 1..MaxTasks : Cancel(n))
            \/ Claim
            \/ (\E n \in 1..MaxTasks : AuthorizeWaiting(n))
            \/ (\E n \in 1..MaxTasks : ResultFails(n))
            \/ (\E n \in 1..MaxTasks, item \in Item : ResultArrives(n, item))
            \/ SaveFails
            \/ Checks
            \/ ReadAuthor
            \/ CreateAuthor
            \/ AuthorUnsynced
            \/ (\E n \in DOMAIN notes : EditNote(n))
            \/ ConnectorChanges
            \/ OtherTakesBrowser
            \/ OtherFreesBrowser
            \/ Tick
            \/ Restart
    BY <2>3 DEF TypeInv, GoesOn, files, service, FailSave, CreatesAuthor, Reading, ReadTarget, Start,
       State, Cancel, Claim, AuthorizeWaiting, ResultFails, ResultArrives, SaveFails, Checks, Reread,
       VerifyAuthors, ComparePaper, ReadAuthor,
       CreateAuthor, AuthorUnsynced, EditNote, ConnectorChanges, OtherTakesBrowser, OtherFreesBrowser,
       Tick, Restart
  <2>4. CASE UNCHANGED vars
    BY <2>4 DEF vars, files, service, TypeInv
  <2> QED
    BY <2>1, <2>2, <2>3, <2>4 DEF Next, Commands, SaveNext, Checks
<1>2. notes' \in [Paper \X Authors -> Note] /\ makers' \in [Paper \X Authors -> 0..MaxTasks]
  <2>1. CASE CreateAuthor
    BY <2>1, CreatesFx DEF CreateAuthor
  <2>2. CASE AuthorUnsynced
    BY <2>2, CreatesFx DEF AuthorUnsynced
  <2>3. CASE \E n \in DOMAIN notes : EditNote(n)
    BY <2>3 DEF EditNote, TypeInv, Note
  <2>4. CASE (\E p \in Paper : ReadTarget(p))
            \/ (\E p \in Paper : EditPaper(p))
            \/ Start
            \/ State
            \/ (\E n \in 1..MaxTasks : Cancel(n))
            \/ Claim
            \/ (\E n \in 1..MaxTasks : AuthorizeWaiting(n))
            \/ (\E n \in 1..MaxTasks : ResultFails(n))
            \/ (\E n \in 1..MaxTasks, item \in Item : ResultArrives(n, item))
            \/ SaveFails
            \/ Checks
            \/ ReadAuthor
            \/ Replace
            \/ ConnectorChanges
            \/ OtherTakesBrowser
            \/ OtherFreesBrowser
            \/ Tick
            \/ Restart
    BY <2>4 DEF TypeInv, GoesOn, files, service, FailSave, Reading, ReadTarget, EditPaper, Start, State,
       Cancel, Claim, AuthorizeWaiting, ResultFails, ResultArrives, SaveFails, Checks, Reread,
       VerifyAuthors, ComparePaper, ReadAuthor,
       Replace, ConnectorChanges, OtherTakesBrowser, OtherFreesBrowser, Tick, Restart
  <2>5. CASE UNCHANGED vars
    BY <2>5 DEF vars, files, service, TypeInv
  <2> QED
    BY <2>1, <2>2, <2>3, <2>4, <2>5 DEF Next, Commands, SaveNext, Checks
<1>3. task' \in Task \cup {None}
  <2>1. CASE Start
    BY <2>1, StartFx DEF Settles, Goes, Kept, TypeInv
  <2>2. CASE State
    BY <2>2, SettlesFx DEF State, Settles, Goes, Kept, TypeInv
  <2>3. CASE \E n \in 1..MaxTasks : Cancel(n)
    BY <2>3 DEF Cancel
  <2>4. CASE Claim
    BY <2>4, ClaimFx DEF Goes, Kept
  <2>5. CASE \E n \in 1..MaxTasks : AuthorizeWaiting(n)
    BY <2>5, AuthorizeFx DEF Goes, Kept
  <2>6. CASE \E n \in 1..MaxTasks : ResultFails(n)
    BY <2>6, ResultFailsFx DEF Goes, Kept
  <2>7. CASE \E n \in 1..MaxTasks, item \in Item : ResultArrives(n, item)
    BY <2>7, ResultArrivesFx DEF Goes, Kept
  <2>8. CASE SaveFails
    BY <2>8, SaveIs, FailSaveFx DEF SaveFails, Kept
  <2>9. CASE AuthorUnsynced
    BY <2>9, UnsyncedFx DEF Kept
  <2>10. CASE Replace
    BY <2>10, ReplaceFx DEF Goes, Kept
  <2>11. CASE Tick
    BY <2>11, TickFx DEF Goes, Kept
  <2>12. CASE Restart
    BY <2>12 DEF Restart
  <2>13. CASE (\E p \in Paper : ReadTarget(p))
            \/ (\E p \in Paper : EditPaper(p))
            \/ Checks
            \/ ReadAuthor
            \/ CreateAuthor
            \/ (\E n \in DOMAIN notes : EditNote(n))
            \/ ConnectorChanges
            \/ OtherTakesBrowser
            \/ OtherFreesBrowser
    BY <2>13 DEF TypeInv, GoesOn, files, service, CreatesAuthor, Reading, ReadTarget, EditPaper, Checks,
       Reread, VerifyAuthors, ComparePaper,
       ReadAuthor, CreateAuthor, EditNote, ConnectorChanges, OtherTakesBrowser, OtherFreesBrowser
  <2>14. CASE UNCHANGED vars
    BY <2>14 DEF vars, files, service, TypeInv
  <2> QED
    BY <2>1, <2>2, <2>3, <2>4, <2>5, <2>6, <2>7, <2>8, <2>9, <2>10, <2>11, <2>12, <2>13, <2>14 DEF Next,
       Commands, SaveNext, Checks
<1>4. save' \in Save \cup {None}
  <2>1. CASE \E n \in 1..MaxTasks, item \in Item : ResultArrives(n, item)
    BY <2>1, ResultArrivesFx DEF TypeInv
  <2>2. CASE SaveFails
    BY <2>2 DEF SaveFails, FailSave
  <2>3. CASE Checks
    BY <2>3, ChecksFx DEF TypeInv
  <2>4. CASE ReadAuthor
    BY <2>4, ReadFx DEF TypeInv
  <2>5. CASE CreateAuthor
    BY <2>5, CreateFx DEF TypeInv
  <2>6. CASE AuthorUnsynced
    BY <2>6 DEF AuthorUnsynced, FailSave
  <2>7. CASE Replace
    BY <2>7 DEF Replace
  <2>8. CASE Restart
    BY <2>8 DEF Restart
  <2>9. CASE (\E p \in Paper : ReadTarget(p))
            \/ (\E p \in Paper : EditPaper(p))
            \/ Start
            \/ State
            \/ (\E n \in 1..MaxTasks : Cancel(n))
            \/ Claim
            \/ (\E n \in 1..MaxTasks : AuthorizeWaiting(n))
            \/ (\E n \in 1..MaxTasks : ResultFails(n))
            \/ (\E n \in DOMAIN notes : EditNote(n))
            \/ ConnectorChanges
            \/ OtherTakesBrowser
            \/ OtherFreesBrowser
            \/ Tick
    BY <2>9 DEF TypeInv, files, service, ReadTarget, EditPaper, Start, State, Cancel, Claim,
       AuthorizeWaiting, ResultFails, EditNote, ConnectorChanges, OtherTakesBrowser, OtherFreesBrowser,
       Tick
  <2>10. CASE UNCHANGED vars
    BY <2>10 DEF vars, files, service, TypeInv
  <2> QED
    BY <2>1, <2>2, <2>3, <2>4, <2>5, <2>6, <2>7, <2>8, <2>9, <2>10 DEF Next, Commands, SaveNext, Checks
<1>5. completed' \subseteq Paper /\ savers' \in [Paper -> SUBSET Numbers]
  <2>1. CASE Replace
    BY <2>1, ReplaceFx DEF TypeInv
  <2>2. CASE Restart
    BY <2>2 DEF Restart
  <2>3. CASE (\E p \in Paper : ReadTarget(p))
            \/ (\E p \in Paper : EditPaper(p))
            \/ Start
            \/ State
            \/ (\E n \in 1..MaxTasks : Cancel(n))
            \/ Claim
            \/ (\E n \in 1..MaxTasks : AuthorizeWaiting(n))
            \/ (\E n \in 1..MaxTasks : ResultFails(n))
            \/ (\E n \in 1..MaxTasks, item \in Item : ResultArrives(n, item))
            \/ SaveFails
            \/ Checks
            \/ ReadAuthor
            \/ CreateAuthor
            \/ AuthorUnsynced
            \/ (\E n \in DOMAIN notes : EditNote(n))
            \/ ConnectorChanges
            \/ OtherTakesBrowser
            \/ OtherFreesBrowser
            \/ Tick
    BY <2>3 DEF TypeInv, GoesOn, files, service, FailSave, CreatesAuthor, Reading, ReadTarget, EditPaper,
       Start, State, Cancel, Claim, AuthorizeWaiting, ResultFails, ResultArrives, SaveFails, Checks,
       Reread, VerifyAuthors, ComparePaper,
       ReadAuthor, CreateAuthor, AuthorUnsynced, EditNote, ConnectorChanges, OtherTakesBrowser,
       OtherFreesBrowser, Tick
  <2>4. CASE UNCHANGED vars
    BY <2>4 DEF vars, files, service, TypeInv
  <2> QED
    BY <2>1, <2>2, <2>3, <2>4 DEF Next, Commands, SaveNext, Checks
<1>6. browser' \in Numbers \cup {Other, None}
  <2>1. CASE Start
    BY <2>1, StartFx, EnrichmentAssumption DEF Settles, Frees, TypeInv, Numbers
  <2>2. CASE State
    BY <2>2, SettlesFx DEF State, Settles, Frees, TypeInv
  <2>3. CASE \E n \in 1..MaxTasks : Cancel(n)
    BY <2>3 DEF Cancel, FreedBrowser, BrowserUnder, TypeInv
  <2>4. CASE \E n \in 1..MaxTasks : ResultFails(n)
    BY <2>4, ResultFailsFx DEF Frees, TypeInv
  <2>5. CASE SaveFails
    BY <2>5, SaveIs, FailSaveFx DEF SaveFails, Frees, TypeInv
  <2>6. CASE AuthorUnsynced
    BY <2>6, UnsyncedFx DEF Frees, TypeInv
  <2>7. CASE Replace
    BY <2>7, ReplaceFx DEF Frees, TypeInv
  <2>8. CASE OtherTakesBrowser
    BY <2>8 DEF OtherTakesBrowser
  <2>9. CASE OtherFreesBrowser
    BY <2>9 DEF OtherFreesBrowser
  <2>10. CASE Restart
    BY <2>10 DEF Restart
  <2>11. CASE (\E p \in Paper : ReadTarget(p))
            \/ (\E p \in Paper : EditPaper(p))
            \/ Claim
            \/ (\E n \in 1..MaxTasks : AuthorizeWaiting(n))
            \/ (\E n \in 1..MaxTasks, item \in Item : ResultArrives(n, item))
            \/ Checks
            \/ ReadAuthor
            \/ CreateAuthor
            \/ (\E n \in DOMAIN notes : EditNote(n))
            \/ ConnectorChanges
            \/ Tick
    BY <2>11 DEF TypeInv, GoesOn, files, service, CreatesAuthor, Reading, ReadTarget, EditPaper, Claim,
       AuthorizeWaiting, ResultArrives, Checks, Reread, VerifyAuthors, ComparePaper, ReadAuthor,
       CreateAuthor, EditNote, ConnectorChanges,
       Tick
  <2>12. CASE UNCHANGED vars
    BY <2>12 DEF vars, files, service, TypeInv
  <2> QED
    BY <2>1, <2>2, <2>3, <2>4, <2>5, <2>6, <2>7, <2>8, <2>9, <2>10, <2>11, <2>12 DEF Next, Commands,
       SaveNext, Checks
<1>7. starting' \in Target \cup {None} /\ online' \in BOOLEAN /\ number' \in 0..MaxTasks
  <2>1. CASE \E p \in Paper : ReadTarget(p)
    BY <2>1 DEF ReadTarget, Target, TypeInv
  <2>2. CASE Start
    BY <2>2, StartFx, EnrichmentAssumption DEF Start, TypeInv
  <2>3. CASE ConnectorChanges
    BY <2>3 DEF ConnectorChanges, service, TypeInv
  <2>4. CASE Restart
    BY <2>4 DEF Restart, TypeInv
  <2>5. CASE (\E p \in Paper : EditPaper(p))
            \/ State
            \/ (\E n \in 1..MaxTasks : Cancel(n))
            \/ Claim
            \/ (\E n \in 1..MaxTasks : AuthorizeWaiting(n))
            \/ (\E n \in 1..MaxTasks : ResultFails(n))
            \/ (\E n \in 1..MaxTasks, item \in Item : ResultArrives(n, item))
            \/ SaveFails
            \/ Checks
            \/ ReadAuthor
            \/ CreateAuthor
            \/ AuthorUnsynced
            \/ Replace
            \/ (\E n \in DOMAIN notes : EditNote(n))
            \/ OtherTakesBrowser
            \/ OtherFreesBrowser
            \/ Tick
    BY <2>5 DEF TypeInv, GoesOn, files, service, FailSave, CreatesAuthor, Reading, EditPaper, State,
       Cancel, Claim, AuthorizeWaiting, ResultFails, ResultArrives, SaveFails, Checks, Reread,
       VerifyAuthors, ComparePaper, ReadAuthor,
       CreateAuthor, AuthorUnsynced, Replace, EditNote, OtherTakesBrowser, OtherFreesBrowser, Tick
  <2>6. CASE UNCHANGED vars
    BY <2>6 DEF vars, files, service, TypeInv
  <2> QED
    BY <2>1, <2>2, <2>3, <2>4, <2>5, <2>6 DEF Next, Commands, SaveNext, Checks
<1> QED
  BY <1>1, <1>2, <1>3, <1>4, <1>5, <1>6, <1>7 DEF TypeInv

LEMMA BrowserStep == TypeInv /\ SaveInv /\ NumberInv /\ BrowserFollowsTask /\ [Next]_vars => BrowserFollowsTask'
<1> SUFFICES ASSUME TypeInv /\ SaveInv /\ NumberInv /\ BrowserFollowsTask, [Next]_vars PROVE BrowserFollowsTask'
    OBVIOUS
<1>1. CASE \E p \in Paper : ReadTarget(p)
    BY <1>1, EnrichmentAssumption DEF ReadTarget, TypeInv, SaveInv, BrowserFollowsTask, Owns, Numbers,
       Task, files
<1>2. CASE \E p \in Paper : EditPaper(p)
    BY <1>2, EnrichmentAssumption DEF EditPaper, TypeInv, SaveInv, BrowserFollowsTask, Owns, Numbers,
       Task, service
<1>3. CASE Start
    BY <1>3, StartFx, EnrichmentAssumption DEF Start, TypeInv, SaveInv, BrowserFollowsTask, Owns, Numbers,
       Task, BrowserUnder, Settles, Goes, Kept, Frees, files
<1>4. CASE State
    BY <1>4, SettlesFx, EnrichmentAssumption DEF State, TypeInv, SaveInv, BrowserFollowsTask, Owns,
       Numbers, Task, Settles, Goes, Kept, Frees, files
<1>5. CASE \E n \in 1..MaxTasks : Cancel(n)
    BY <1>5, EnrichmentAssumption DEF Cancel, TypeInv, SaveInv, BrowserFollowsTask, Owns, Numbers, Task,
       FreedBrowser, BrowserUnder, files
<1>6. CASE Claim
    BY <1>6, ClaimFx, EnrichmentAssumption DEF Claim, TypeInv, SaveInv, BrowserFollowsTask, Owns, Numbers,
       Task, Goes, Kept, files
<1>7. CASE \E n \in 1..MaxTasks : AuthorizeWaiting(n)
    BY <1>7, AuthorizeFx, EnrichmentAssumption DEF AuthorizeWaiting, TypeInv, SaveInv, BrowserFollowsTask,
       Owns, Numbers, Task, Goes, Kept, files
<1>8. CASE \E n \in 1..MaxTasks : ResultFails(n)
    BY <1>8, ResultFailsFx, EnrichmentAssumption DEF ResultFails, TypeInv, SaveInv, BrowserFollowsTask,
       Owns, Numbers, Task, Goes, Kept, Frees, files
<1>9. CASE \E n \in 1..MaxTasks, item \in Item : ResultArrives(n, item)
    BY <1>9, ResultArrivesFx, EnrichmentAssumption DEF ResultArrives, TypeInv, SaveInv,
       BrowserFollowsTask, Owns, Numbers, Task, Goes, Kept, files
<1>10. CASE SaveFails
    BY <1>10, SaveIs, FailSaveFx, EnrichmentAssumption DEF SaveFails, FailSave, TypeInv, SaveInv,
       BrowserFollowsTask, Owns, Numbers, Task, Kept, Frees
<1>11. CASE Checks
    BY <1>11, ChecksFx, EnrichmentAssumption DEF Checks, Reread, VerifyAuthors, ComparePaper, TypeInv,
       SaveInv, BrowserFollowsTask, Owns,
       Numbers, Task, GoesOn
<1>12. CASE ReadAuthor
    BY <1>12, ReadFx, EnrichmentAssumption DEF ReadAuthor, Reading, TypeInv, SaveInv,
       BrowserFollowsTask, Owns, Numbers, Task, GoesOn
<1>13. CASE CreateAuthor
    BY <1>13, CreateFx, CreatesFx, EnrichmentAssumption DEF CreateAuthor, CreatesAuthor, Reading, TypeInv,
       SaveInv, BrowserFollowsTask, Owns, Numbers, Task, GoesOn
<1>14. CASE AuthorUnsynced
    BY <1>14, UnsyncedFx, CreatesFx, EnrichmentAssumption DEF AuthorUnsynced, FailSave, CreatesAuthor,
       Reading, TypeInv, SaveInv, BrowserFollowsTask, Owns, Numbers, Task, Kept, Frees
<1>15. CASE Replace
    BY <1>15, ReplaceFx, EnrichmentAssumption DEF Replace, TypeInv, SaveInv,
       BrowserFollowsTask, Owns, Numbers, Task, Goes, Kept, Frees
<1>16. CASE \E n \in DOMAIN notes : EditNote(n)
    BY <1>16, EnrichmentAssumption DEF EditNote, TypeInv, SaveInv, BrowserFollowsTask, Owns, Numbers,
       Task, service
<1>17. CASE ConnectorChanges
    BY <1>17, EnrichmentAssumption DEF ConnectorChanges, TypeInv, SaveInv, BrowserFollowsTask, Owns,
       Numbers, Task, files, service
<1>18. CASE OtherTakesBrowser
    BY <1>18, EnrichmentAssumption DEF OtherTakesBrowser, TypeInv, SaveInv, BrowserFollowsTask, Owns,
       Numbers, Task, files, service
<1>19. CASE OtherFreesBrowser
    BY <1>19, EnrichmentAssumption DEF OtherFreesBrowser, TypeInv, SaveInv, BrowserFollowsTask, Owns,
       Numbers, Task, files, service
<1>20. CASE Tick
    BY <1>20, TickFx, EnrichmentAssumption DEF Tick, TypeInv, SaveInv, BrowserFollowsTask, Owns, Numbers,
       Task, Goes, Kept, files
<1>21. CASE Restart
    BY <1>21, EnrichmentAssumption DEF Restart, TypeInv, SaveInv, BrowserFollowsTask, Owns, Numbers, Task,
       files
<1>22. CASE UNCHANGED vars
    BY <1>22 DEF vars, TypeInv, SaveInv, BrowserFollowsTask, Owns, Numbers, Task, files, service
<1> QED
    BY <1>1, <1>2, <1>3, <1>4, <1>5, <1>6, <1>7, <1>8, <1>9, <1>10, <1>11, <1>12, <1>13, <1>14, <1>15,
       <1>16, <1>17, <1>18, <1>19, <1>20, <1>21, <1>22 DEF Next, Commands, SaveNext, Checks

LEMMA SaveStep == TypeInv /\ SaveInv /\ [Next]_vars => SaveInv'
<1> SUFFICES ASSUME TypeInv /\ SaveInv, [Next]_vars PROVE SaveInv'
    OBVIOUS
<1>1. CASE \E p \in Paper : ReadTarget(p)
    BY <1>1, EnrichmentAssumption DEF ReadTarget, TypeInv, SaveInv, Task, files
<1>2. CASE \E p \in Paper : EditPaper(p)
    BY <1>2, EnrichmentAssumption DEF EditPaper, TypeInv, SaveInv, Task, service
<1>3. CASE Start
    BY <1>3, StartFx, EnrichmentAssumption DEF Start, TypeInv, SaveInv, Task, Settles, Goes, Kept, Frees,
       files
<1>4. CASE State
    BY <1>4, SettlesFx, EnrichmentAssumption DEF State, TypeInv, SaveInv, Task, Settles, Goes, Kept,
       Frees, files
<1>5. CASE \E n \in 1..MaxTasks : Cancel(n)
    BY <1>5, EnrichmentAssumption DEF Cancel, TypeInv, SaveInv, Task, files
<1>6. CASE Claim
    BY <1>6, ClaimFx, EnrichmentAssumption DEF Claim, TypeInv, SaveInv, Task, Goes, Kept, files
<1>7. CASE \E n \in 1..MaxTasks : AuthorizeWaiting(n)
    BY <1>7, AuthorizeFx, EnrichmentAssumption DEF AuthorizeWaiting, TypeInv, SaveInv, Task, Goes, Kept,
       files
<1>8. CASE \E n \in 1..MaxTasks : ResultFails(n)
    BY <1>8, ResultFailsFx, EnrichmentAssumption DEF ResultFails, TypeInv, SaveInv, Task, Goes, Kept,
       Frees, files
<1>9. CASE \E n \in 1..MaxTasks, item \in Item : ResultArrives(n, item)
    BY <1>9, ResultArrivesFx, EnrichmentAssumption DEF ResultArrives, TypeInv, SaveInv, Task, Goes, Kept,
       files
<1>10. CASE SaveFails
    BY <1>10, SaveIs, FailSaveFx, EnrichmentAssumption DEF SaveFails, FailSave, TypeInv, SaveInv, Task,
       Kept, Frees
<1>11. CASE Checks
    <2>1. task' = task /\ save # None
      BY <1>11 DEF Checks, Reread, VerifyAuthors, ComparePaper, Same, GoesOn
    <2>2. Fits(task.target.was, save'.item)
      BY <1>11, <2>1, ChecksFx DEF SaveInv
    <2> QED
      BY <1>11, <2>1, <2>2, ChecksFx DEF SaveInv
<1>12. CASE ReadAuthor
    BY <1>12, ReadFx, EnrichmentAssumption DEF ReadAuthor, Reading, TypeInv, SaveInv, Task, GoesOn
<1>13. CASE CreateAuthor
    BY <1>13, CreateFx, CreatesFx, EnrichmentAssumption DEF CreateAuthor, CreatesAuthor, Reading, TypeInv,
       SaveInv, Task, GoesOn
<1>14. CASE AuthorUnsynced
    BY <1>14, UnsyncedFx, CreatesFx, EnrichmentAssumption DEF AuthorUnsynced, FailSave, CreatesAuthor,
       Reading, TypeInv, SaveInv, Task, Kept, Frees
<1>15. CASE Replace
    BY <1>15, ReplaceFx, EnrichmentAssumption DEF Replace, TypeInv, SaveInv, Task, Goes,
       Kept, Frees
<1>16. CASE \E n \in DOMAIN notes : EditNote(n)
    BY <1>16, EnrichmentAssumption DEF EditNote, TypeInv, SaveInv, Task, service
<1>17. CASE ConnectorChanges
    BY <1>17, EnrichmentAssumption DEF ConnectorChanges, TypeInv, SaveInv, Task, files, service
<1>18. CASE OtherTakesBrowser
    BY <1>18, EnrichmentAssumption DEF OtherTakesBrowser, TypeInv, SaveInv, Task, files, service
<1>19. CASE OtherFreesBrowser
    BY <1>19, EnrichmentAssumption DEF OtherFreesBrowser, TypeInv, SaveInv, Task, files, service
<1>20. CASE Tick
    BY <1>20, TickFx, EnrichmentAssumption DEF Tick, TypeInv, SaveInv, Task, Goes, Kept, files
<1>21. CASE Restart
    BY <1>21, EnrichmentAssumption DEF Restart, TypeInv, SaveInv, Task, files
<1>22. CASE UNCHANGED vars
    BY <1>22 DEF vars, TypeInv, SaveInv, Task, files, service
<1> QED
    BY <1>1, <1>2, <1>3, <1>4, <1>5, <1>6, <1>7, <1>8, <1>9, <1>10, <1>11, <1>12, <1>13, <1>14, <1>15,
       <1>16, <1>17, <1>18, <1>19, <1>20, <1>21, <1>22 DEF Next, Commands, SaveNext, Checks

LEMMA NumberStep == TypeInv /\ SaveInv /\ NumberInv /\ [Next]_vars => NumberInv'
<1> SUFFICES ASSUME TypeInv /\ SaveInv /\ NumberInv, [Next]_vars PROVE NumberInv'
    OBVIOUS
<1>1. CASE \E p \in Paper : ReadTarget(p)
    BY <1>1, EnrichmentAssumption DEF ReadTarget, TypeInv, NumberInv, Owns, Task, Numbers, Target, files
<1>2. CASE \E p \in Paper : EditPaper(p)
    BY <1>2, EnrichmentAssumption DEF EditPaper, TypeInv, NumberInv, Owns, Task, Numbers, Target, service
<1>3. CASE Start
    BY <1>3, StartFx, EnrichmentAssumption DEF Start, TypeInv, NumberInv, Owns, Task, Numbers, Target,
       Settles, Goes, Kept, Frees, files
<1>4. CASE State
    BY <1>4, SettlesFx, EnrichmentAssumption DEF State, TypeInv, NumberInv, Owns, Task, Numbers, Target,
       Settles, Goes, Kept, Frees, files
<1>5. CASE \E n \in 1..MaxTasks : Cancel(n)
    BY <1>5, EnrichmentAssumption DEF Cancel, TypeInv, NumberInv, Owns, Task, Numbers, Target, files
<1>6. CASE Claim
    BY <1>6, ClaimFx, EnrichmentAssumption DEF Claim, TypeInv, NumberInv, Owns, Task, Numbers, Target,
       Goes, Kept, files
<1>7. CASE \E n \in 1..MaxTasks : AuthorizeWaiting(n)
    BY <1>7, AuthorizeFx, EnrichmentAssumption DEF AuthorizeWaiting, TypeInv, NumberInv, Owns, Task,
       Numbers, Target, Goes, Kept, files
<1>8. CASE \E n \in 1..MaxTasks : ResultFails(n)
    BY <1>8, ResultFailsFx, EnrichmentAssumption DEF ResultFails, TypeInv, NumberInv, Owns, Task, Numbers,
       Target, Goes, Kept, Frees, files
<1>9. CASE \E n \in 1..MaxTasks, item \in Item : ResultArrives(n, item)
    <2>1. PICK n \in 1..MaxTasks, item \in Item : ResultArrives(n, item)
      BY <1>9
    <2>2. Goes("Saving") /\ task.phase = "Retrieving" /\ task # None
      BY <2>1, ResultArrivesFx DEF Goes, Kept
    <2>3. UNCHANGED <<completed, number, savers, makers>>
      BY <2>1 DEF ResultArrives
    <2> QED
      BY <2>2, <2>3 DEF NumberInv, Goes, Kept, Owns
<1>10. CASE SaveFails
    BY <1>10, SaveIs, FailSaveFx, EnrichmentAssumption DEF SaveFails, FailSave, TypeInv, NumberInv, Owns,
       Task, Numbers, Target, Kept, Frees
<1>11. CASE Checks
    <2>1. UNCHANGED <<task, completed, number, savers, makers>>
      BY <1>11 DEF Checks, Reread, Same, VerifyAuthors, ComparePaper, GoesOn
    <2> QED
      BY <2>1 DEF NumberInv, Owns
<1>12. CASE ReadAuthor
    BY <1>12, ReadFx, EnrichmentAssumption DEF ReadAuthor, Reading, TypeInv, NumberInv, Owns, Task,
       Numbers, Target, GoesOn
<1>13. CASE CreateAuthor
    <2>1. task \in Task /\ task # None /\ UNCHANGED <<task, completed, number, savers>>
      BY <1>13, SaveIs DEF CreateAuthor, CreatesAuthor, Reading, GoesOn
    <2>2. \A n \in Paper \X Authors : makers'[n] = makers[n] \/ makers'[n] = task.number
      BY <1>13, CreatesFx DEF CreateAuthor, TypeInv
    <2> QED
      BY <2>1, <2>2 DEF NumberInv
<1>14. CASE AuthorUnsynced
    BY <1>14, UnsyncedFx, CreatesFx, EnrichmentAssumption DEF AuthorUnsynced, FailSave, CreatesAuthor,
       Reading, TypeInv, NumberInv, Owns, Task, Numbers, Target, Kept, Frees
<1>15. CASE Replace
    <2> DEFINE p == task.target.paper
    <2>1. /\ task # None /\ task'.number = task.number /\ task'.target = task.target /\ task'.phase = "Completed"
          /\ savers' = [savers EXCEPT ![p] = savers[p] \cup {task.number}] /\ completed' = completed \cup {p}
          /\ p \in Paper
      BY <1>15, ReplaceFx DEF Goes, Kept
    <2>2. UNCHANGED <<number, makers>>
      BY <1>15 DEF Replace
    <2> HIDE DEF p
    <2>3. \A q \in Paper : savers'[q] = IF q = p THEN savers[p] \cup {task.number} ELSE savers[q]
      BY <2>1 DEF TypeInv
    <2>4. \A q \in Paper : (q \in completed') = (savers'[q] # {})
      BY <2>1, <2>3 DEF NumberInv
    <2>5. \A q \in Paper : \A n \in savers'[q] : n <= number
      BY <2>1, <2>3 DEF NumberInv
    <2> QED
      BY <2>1, <2>2, <2>4, <2>5 DEF NumberInv, Owns
<1>16. CASE \E n \in DOMAIN notes : EditNote(n)
    BY <1>16, EnrichmentAssumption DEF EditNote, TypeInv, NumberInv, Owns, Task, Numbers, Target, service
<1>17. CASE ConnectorChanges
    BY <1>17, EnrichmentAssumption DEF ConnectorChanges, TypeInv, NumberInv, Owns, Task, Numbers, Target,
       files, service
<1>18. CASE OtherTakesBrowser
    BY <1>18, EnrichmentAssumption DEF OtherTakesBrowser, TypeInv, NumberInv, Owns, Task, Numbers, Target,
       files, service
<1>19. CASE OtherFreesBrowser
    BY <1>19, EnrichmentAssumption DEF OtherFreesBrowser, TypeInv, NumberInv, Owns, Task, Numbers, Target,
       files, service
<1>20. CASE Tick
    BY <1>20, TickFx, EnrichmentAssumption DEF Tick, TypeInv, NumberInv, Owns, Task, Numbers, Target,
       Goes, Kept, files
<1>21. CASE Restart
    BY <1>21, EnrichmentAssumption DEF Restart, TypeInv, NumberInv, Owns, Task, Numbers, Target, files
<1>22. CASE UNCHANGED vars
    BY <1>22 DEF vars, TypeInv, NumberInv, Owns, Task, Numbers, Target, files, service
<1> QED
    BY <1>1, <1>2, <1>3, <1>4, <1>5, <1>6, <1>7, <1>8, <1>9, <1>10, <1>11, <1>12, <1>13, <1>14, <1>15,
       <1>16, <1>17, <1>18, <1>19, <1>20, <1>21, <1>22 DEF Next, Commands, SaveNext, Checks

LEMMA CompletedStep == TypeInv /\ SaveInv /\ NumberInv /\ CompletedIsTrue /\ [Next]_vars => CompletedIsTrue'
<1> SUFFICES ASSUME TypeInv /\ SaveInv /\ NumberInv /\ CompletedIsTrue, [Next]_vars PROVE CompletedIsTrue'
    OBVIOUS
<1>1. CASE \E p \in Paper : ReadTarget(p)
    BY <1>1, EnrichmentAssumption DEF ReadTarget, TypeInv, NumberInv, CompletedIsTrue, Owns, Task, Target,
       Numbers, files
<1>2. CASE \E p \in Paper : EditPaper(p)
    BY <1>2, EnrichmentAssumption DEF EditPaper, TypeInv, NumberInv, CompletedIsTrue, Owns, Task, Target,
       Numbers, service
<1>3. CASE Start
    BY <1>3, StartFx, EnrichmentAssumption DEF Start, TypeInv, NumberInv, CompletedIsTrue, Owns, Task,
       Target, Numbers, Settles, Goes, Kept, Frees, files
<1>4. CASE State
    BY <1>4, SettlesFx, EnrichmentAssumption DEF State, TypeInv, NumberInv, CompletedIsTrue, Owns, Task,
       Target, Numbers, Settles, Goes, Kept, Frees, files
<1>5. CASE \E n \in 1..MaxTasks : Cancel(n)
    BY <1>5, EnrichmentAssumption DEF Cancel, TypeInv, NumberInv, CompletedIsTrue, Owns, Task, Target,
       Numbers, files
<1>6. CASE Claim
    BY <1>6, ClaimFx, EnrichmentAssumption DEF Claim, TypeInv, NumberInv, CompletedIsTrue, Owns, Task,
       Target, Numbers, Goes, Kept, files
<1>7. CASE \E n \in 1..MaxTasks : AuthorizeWaiting(n)
    BY <1>7, AuthorizeFx, EnrichmentAssumption DEF AuthorizeWaiting, TypeInv, NumberInv, CompletedIsTrue,
       Owns, Task, Target, Numbers, Goes, Kept, files
<1>8. CASE \E n \in 1..MaxTasks : ResultFails(n)
    BY <1>8, ResultFailsFx, EnrichmentAssumption DEF ResultFails, TypeInv, NumberInv, CompletedIsTrue,
       Owns, Task, Target, Numbers, Goes, Kept, Frees, files
<1>9. CASE \E n \in 1..MaxTasks, item \in Item : ResultArrives(n, item)
    BY <1>9, ResultArrivesFx, EnrichmentAssumption DEF ResultArrives, TypeInv, NumberInv, CompletedIsTrue,
       Owns, Task, Target, Numbers, Goes, Kept, files
<1>10. CASE SaveFails
    BY <1>10, SaveIs, FailSaveFx, EnrichmentAssumption DEF SaveFails, FailSave, TypeInv, NumberInv,
       CompletedIsTrue, Owns, Task, Target, Numbers, Kept, Frees
<1>11. CASE Checks
    BY <1>11, ChecksFx, EnrichmentAssumption DEF Checks, Reread, VerifyAuthors, ComparePaper, TypeInv,
       NumberInv, CompletedIsTrue, Owns, Task,
       Target, Numbers, GoesOn
<1>12. CASE ReadAuthor
    BY <1>12, ReadFx, EnrichmentAssumption DEF ReadAuthor, Reading, TypeInv, NumberInv, CompletedIsTrue,
       Owns, Task, Target, Numbers, GoesOn
<1>13. CASE CreateAuthor
    BY <1>13, CreateFx, CreatesFx, EnrichmentAssumption DEF CreateAuthor, CreatesAuthor, Reading, TypeInv,
       NumberInv, CompletedIsTrue, Owns, Task, Target, Numbers, GoesOn
<1>14. CASE AuthorUnsynced
    <2>1. /\ task # None /\ task.phase = "Saving" /\ task'.phase = "Failed"
          /\ task'.number = task.number /\ task'.target = task.target
      BY <1>14, UnsyncedFx, SaveIs DEF Kept, AuthorUnsynced, CreatesAuthor, Reading
    <2>2. UNCHANGED savers
      BY <1>14 DEF AuthorUnsynced, FailSave
    <2> QED
      BY <2>1, <2>2 DEF CompletedIsTrue
<1>15. CASE Replace
    BY <1>15, ReplaceFx, EnrichmentAssumption DEF Replace, TypeInv, NumberInv,
       CompletedIsTrue, Owns, Task, Target, Numbers, Goes, Kept, Frees
<1>16. CASE \E n \in DOMAIN notes : EditNote(n)
    BY <1>16, EnrichmentAssumption DEF EditNote, TypeInv, NumberInv, CompletedIsTrue, Owns, Task, Target,
       Numbers, service
<1>17. CASE ConnectorChanges
    BY <1>17, EnrichmentAssumption DEF ConnectorChanges, TypeInv, NumberInv, CompletedIsTrue, Owns, Task,
       Target, Numbers, files, service
<1>18. CASE OtherTakesBrowser
    BY <1>18, EnrichmentAssumption DEF OtherTakesBrowser, TypeInv, NumberInv, CompletedIsTrue, Owns, Task,
       Target, Numbers, files, service
<1>19. CASE OtherFreesBrowser
    BY <1>19, EnrichmentAssumption DEF OtherFreesBrowser, TypeInv, NumberInv, CompletedIsTrue, Owns, Task,
       Target, Numbers, files, service
<1>20. CASE Tick
    BY <1>20, TickFx, EnrichmentAssumption DEF Tick, TypeInv, NumberInv, CompletedIsTrue, Owns, Task,
       Target, Numbers, Goes, Kept, files
<1>21. CASE Restart
    BY <1>21, EnrichmentAssumption DEF Restart, TypeInv, NumberInv, CompletedIsTrue, Owns, Task, Target,
       Numbers, files
<1>22. CASE UNCHANGED vars
    BY <1>22 DEF vars, TypeInv, NumberInv, CompletedIsTrue, Owns, Task, Target, Numbers, files, service
<1> QED
    BY <1>1, <1>2, <1>3, <1>4, <1>5, <1>6, <1>7, <1>8, <1>9, <1>10, <1>11, <1>12, <1>13, <1>14, <1>15,
       <1>16, <1>17, <1>18, <1>19, <1>20, <1>21, <1>22 DEF Next, Commands, SaveNext, Checks

LEMMA MadeStep == TypeInv /\ SaveInv /\ NumberInv /\ MadeInv /\ [Next]_vars => MadeInv'
<1> SUFFICES ASSUME TypeInv /\ SaveInv /\ NumberInv /\ MadeInv, [Next]_vars PROVE MadeInv'
    OBVIOUS
<1>1. CASE \E p \in Paper : ReadTarget(p)
    BY <1>1, EnrichmentAssumption DEF ReadTarget, TypeInv, SaveInv, NumberInv, MadeInv, Task, Target,
       AuthorNote, Authors, Numbers, files
<1>2. CASE \E p \in Paper : EditPaper(p)
    BY <1>2, EnrichmentAssumption DEF EditPaper, TypeInv, SaveInv, NumberInv, MadeInv, Task, Target,
       AuthorNote, Authors, Numbers, service
<1>3. CASE Start
    BY <1>3, StartFx, EnrichmentAssumption DEF Start, TypeInv, SaveInv, NumberInv, MadeInv, Task, Target,
       AuthorNote, Authors, Numbers, Settles, Goes, Kept, Frees, files
<1>4. CASE State
    BY <1>4, SettlesFx, EnrichmentAssumption DEF State, TypeInv, SaveInv, NumberInv, MadeInv, Task,
       Target, AuthorNote, Authors, Numbers, Settles, Goes, Kept, Frees, files
<1>5. CASE \E n \in 1..MaxTasks : Cancel(n)
    BY <1>5, EnrichmentAssumption DEF Cancel, TypeInv, SaveInv, NumberInv, MadeInv, Task, Target,
       AuthorNote, Authors, Numbers, files
<1>6. CASE Claim
    BY <1>6, ClaimFx, EnrichmentAssumption DEF Claim, TypeInv, SaveInv, NumberInv, MadeInv, Task, Target,
       AuthorNote, Authors, Numbers, Goes, Kept, files
<1>7. CASE \E n \in 1..MaxTasks : AuthorizeWaiting(n)
    BY <1>7, AuthorizeFx, EnrichmentAssumption DEF AuthorizeWaiting, TypeInv, SaveInv, NumberInv, MadeInv,
       Task, Target, AuthorNote, Authors, Numbers, Goes, Kept, files
<1>8. CASE \E n \in 1..MaxTasks : ResultFails(n)
    BY <1>8, ResultFailsFx, EnrichmentAssumption DEF ResultFails, TypeInv, SaveInv, NumberInv, MadeInv,
       Task, Target, AuthorNote, Authors, Numbers, Goes, Kept, Frees, files
<1>9. CASE \E n \in 1..MaxTasks, item \in Item : ResultArrives(n, item)
    BY <1>9, ResultArrivesFx, EnrichmentAssumption DEF ResultArrives, TypeInv, SaveInv, NumberInv,
       MadeInv, Task, Target, AuthorNote, Authors, Numbers, Goes, Kept, files
<1>10. CASE SaveFails
    BY <1>10, SaveIs, FailSaveFx, EnrichmentAssumption DEF SaveFails, FailSave, TypeInv, SaveInv,
       NumberInv, MadeInv, Task, Target, AuthorNote, Authors, Numbers, Kept, Frees
<1>11. CASE Checks
    BY <1>11, ChecksFx, EnrichmentAssumption DEF Checks, Reread, VerifyAuthors, ComparePaper, TypeInv,
       SaveInv, NumberInv, MadeInv, Task,
       Target, AuthorNote, Authors, Numbers, GoesOn
<1>12. CASE ReadAuthor
    BY <1>12, ReadFx, EnrichmentAssumption DEF ReadAuthor, Reading, TypeInv, SaveInv, NumberInv,
       MadeInv, Task, Target, AuthorNote, Authors, Numbers, GoesOn
<1>13. CASE CreateAuthor
    BY <1>13, CreateFx, CreatesFx, EnrichmentAssumption DEF CreateAuthor, CreatesAuthor, Reading, TypeInv,
       SaveInv, NumberInv, MadeInv, Task, Target, AuthorNote, Authors, Numbers, GoesOn
<1>14. CASE AuthorUnsynced
    BY <1>14, UnsyncedFx, CreatesFx, EnrichmentAssumption DEF AuthorUnsynced, FailSave, CreatesAuthor,
       Reading, TypeInv, SaveInv, NumberInv, MadeInv, Task, Target, AuthorNote, Authors, Numbers, Kept,
       Frees
<1>15. CASE Replace
    BY <1>15, ReplaceFx, EnrichmentAssumption DEF Replace, TypeInv, SaveInv, NumberInv,
       MadeInv, Task, Target, AuthorNote, Authors, Numbers, Goes, Kept, Frees
<1>16. CASE \E n \in DOMAIN notes : EditNote(n)
    BY <1>16, EnrichmentAssumption DEF EditNote, TypeInv, SaveInv, NumberInv, MadeInv, Task, Target,
       AuthorNote, Authors, Numbers, service
<1>17. CASE ConnectorChanges
    BY <1>17, EnrichmentAssumption DEF ConnectorChanges, TypeInv, SaveInv, NumberInv, MadeInv, Task,
       Target, AuthorNote, Authors, Numbers, files, service
<1>18. CASE OtherTakesBrowser
    BY <1>18, EnrichmentAssumption DEF OtherTakesBrowser, TypeInv, SaveInv, NumberInv, MadeInv, Task,
       Target, AuthorNote, Authors, Numbers, files, service
<1>19. CASE OtherFreesBrowser
    BY <1>19, EnrichmentAssumption DEF OtherFreesBrowser, TypeInv, SaveInv, NumberInv, MadeInv, Task,
       Target, AuthorNote, Authors, Numbers, files, service
<1>20. CASE Tick
    BY <1>20, TickFx, EnrichmentAssumption DEF Tick, TypeInv, SaveInv, NumberInv, MadeInv, Task, Target,
       AuthorNote, Authors, Numbers, Goes, Kept, files
<1>21. CASE Restart
    BY <1>21, EnrichmentAssumption DEF Restart, TypeInv, SaveInv, NumberInv, MadeInv, Task, Target,
       AuthorNote, Authors, Numbers, files
<1>22. CASE UNCHANGED vars
    BY <1>22 DEF vars, TypeInv, SaveInv, NumberInv, MadeInv, Task, Target, AuthorNote, Authors, Numbers,
       files, service
<1> QED
    BY <1>1, <1>2, <1>3, <1>4, <1>5, <1>6, <1>7, <1>8, <1>9, <1>10, <1>11, <1>12, <1>13, <1>14, <1>15,
       <1>16, <1>17, <1>18, <1>19, <1>20, <1>21, <1>22 DEF Next, Commands, SaveNext, Checks

LEMMA OrphanStep == TypeInv /\ SaveInv /\ NumberInv /\ MadeInv /\ OrphansAreReported /\ [Next]_vars => OrphansAreReported'
<1> SUFFICES ASSUME TypeInv /\ SaveInv /\ NumberInv /\ MadeInv /\ OrphansAreReported, [Next]_vars PROVE OrphansAreReported'
    OBVIOUS
<1>1. CASE \E p \in Paper : ReadTarget(p)
    BY <1>1, EnrichmentAssumption DEF ReadTarget, TypeInv, SaveInv, NumberInv, MadeInv,
       OrphansAreReported, Task, Target, AuthorNote, Authors, Numbers, files
<1>2. CASE \E p \in Paper : EditPaper(p)
    BY <1>2, EnrichmentAssumption DEF EditPaper, TypeInv, SaveInv, NumberInv, MadeInv, OrphansAreReported,
       Task, Target, AuthorNote, Authors, Numbers, service
<1>3. CASE Start
    BY <1>3, StartFx, EnrichmentAssumption DEF Start, TypeInv, SaveInv, NumberInv, MadeInv,
       OrphansAreReported, Task, Target, AuthorNote, Authors, Numbers, Settles, Goes, Kept, Frees, files
<1>4. CASE State
    BY <1>4, SettlesFx, EnrichmentAssumption DEF State, TypeInv, SaveInv, NumberInv, MadeInv,
       OrphansAreReported, Task, Target, AuthorNote, Authors, Numbers, Settles, Goes, Kept, Frees, files
<1>5. CASE \E n \in 1..MaxTasks : Cancel(n)
    BY <1>5, EnrichmentAssumption DEF Cancel, TypeInv, SaveInv, NumberInv, MadeInv, OrphansAreReported,
       Task, Target, AuthorNote, Authors, Numbers, files
<1>6. CASE Claim
    BY <1>6, ClaimFx, EnrichmentAssumption DEF Claim, TypeInv, SaveInv, NumberInv, MadeInv,
       OrphansAreReported, Task, Target, AuthorNote, Authors, Numbers, Goes, Kept, files
<1>7. CASE \E n \in 1..MaxTasks : AuthorizeWaiting(n)
    BY <1>7, AuthorizeFx, EnrichmentAssumption DEF AuthorizeWaiting, TypeInv, SaveInv, NumberInv, MadeInv,
       OrphansAreReported, Task, Target, AuthorNote, Authors, Numbers, Goes, Kept, files
<1>8. CASE \E n \in 1..MaxTasks : ResultFails(n)
    BY <1>8, ResultFailsFx, EnrichmentAssumption DEF ResultFails, TypeInv, SaveInv, NumberInv, MadeInv,
       OrphansAreReported, Task, Target, AuthorNote, Authors, Numbers, Goes, Kept, Frees, files
<1>9. CASE \E n \in 1..MaxTasks, item \in Item : ResultArrives(n, item)
    BY <1>9, ResultArrivesFx, EnrichmentAssumption DEF ResultArrives, TypeInv, SaveInv, NumberInv,
       MadeInv, OrphansAreReported, Task, Target, AuthorNote, Authors, Numbers, Goes, Kept, files
<1>10. CASE SaveFails
    BY <1>10, SaveIs, FailSaveFx, EnrichmentAssumption DEF SaveFails, FailSave, TypeInv, SaveInv,
       NumberInv, MadeInv, OrphansAreReported, Task, Target, AuthorNote, Authors, Numbers, Kept, Frees
<1>11. CASE Checks
    BY <1>11, ChecksFx, EnrichmentAssumption DEF Checks, Reread, VerifyAuthors, ComparePaper, TypeInv,
       SaveInv, NumberInv, MadeInv,
       OrphansAreReported, Task, Target, AuthorNote, Authors, Numbers, GoesOn
<1>12. CASE ReadAuthor
    BY <1>12, ReadFx, EnrichmentAssumption DEF ReadAuthor, Reading, TypeInv, SaveInv, NumberInv,
       MadeInv, OrphansAreReported, Task, Target, AuthorNote, Authors, Numbers, GoesOn
<1>13. CASE CreateAuthor
    BY <1>13, CreateFx, CreatesFx, EnrichmentAssumption DEF CreateAuthor, CreatesAuthor, Reading, TypeInv,
       SaveInv, NumberInv, MadeInv, OrphansAreReported, Task, Target, AuthorNote, Authors, Numbers, GoesOn
<1>14. CASE AuthorUnsynced
    <2>1. /\ task # None /\ task.phase = "Saving" /\ task'.retained = save.made \cup {NextAuthor}
          /\ task'.number = task.number /\ task'.target = task.target
      BY <1>14, UnsyncedFx, SaveIs DEF Kept, AuthorUnsynced, CreatesAuthor, Reading
    <2>2. ASSUME NEW k \in Authors, makers'[AuthorNote(k)] = task.number PROVE k \in task'.retained
      <3>1. CASE k = NextAuthor
        BY <2>1, <3>1
      <3>2. CASE k # NextAuthor
        <4>1. task.target.paper \in Paper /\ AuthorNote(k) \in Paper \X Authors /\ AuthorNote(k) # AuthorNote(NextAuthor)
          BY <2>1, <3>2 DEF TypeInv, Task, Target, AuthorNote
        <4>2. makers'[AuthorNote(k)] = makers[AuthorNote(k)]
          BY <1>14, <4>1, CreatesFx DEF AuthorUnsynced, TypeInv
        <4> QED
          BY <2>1, <2>2, <4>2 DEF MadeInv
      <3> QED
        BY <3>1, <3>2
    <2> QED
      BY <2>1, <2>2 DEF OrphansAreReported, AuthorNote, Authors
<1>15. CASE Replace
    BY <1>15, ReplaceFx, EnrichmentAssumption DEF Replace, TypeInv, SaveInv, NumberInv,
       MadeInv, OrphansAreReported, Task, Target, AuthorNote, Authors, Numbers, Goes, Kept, Frees
<1>16. CASE \E n \in DOMAIN notes : EditNote(n)
    BY <1>16, EnrichmentAssumption DEF EditNote, TypeInv, SaveInv, NumberInv, MadeInv, OrphansAreReported,
       Task, Target, AuthorNote, Authors, Numbers, service
<1>17. CASE ConnectorChanges
    BY <1>17, EnrichmentAssumption DEF ConnectorChanges, TypeInv, SaveInv, NumberInv, MadeInv,
       OrphansAreReported, Task, Target, AuthorNote, Authors, Numbers, files, service
<1>18. CASE OtherTakesBrowser
    BY <1>18, EnrichmentAssumption DEF OtherTakesBrowser, TypeInv, SaveInv, NumberInv, MadeInv,
       OrphansAreReported, Task, Target, AuthorNote, Authors, Numbers, files, service
<1>19. CASE OtherFreesBrowser
    BY <1>19, EnrichmentAssumption DEF OtherFreesBrowser, TypeInv, SaveInv, NumberInv, MadeInv,
       OrphansAreReported, Task, Target, AuthorNote, Authors, Numbers, files, service
<1>20. CASE Tick
    BY <1>20, TickFx, EnrichmentAssumption DEF Tick, TypeInv, SaveInv, NumberInv, MadeInv,
       OrphansAreReported, Task, Target, AuthorNote, Authors, Numbers, Goes, Kept, files
<1>21. CASE Restart
    BY <1>21, EnrichmentAssumption DEF Restart, TypeInv, SaveInv, NumberInv, MadeInv, OrphansAreReported,
       Task, Target, AuthorNote, Authors, Numbers, files
<1>22. CASE UNCHANGED vars
    BY <1>22 DEF vars, TypeInv, SaveInv, NumberInv, MadeInv, OrphansAreReported, Task, Target, AuthorNote,
       Authors, Numbers, files, service
<1> QED
    BY <1>1, <1>2, <1>3, <1>4, <1>5, <1>6, <1>7, <1>8, <1>9, <1>10, <1>11, <1>12, <1>13, <1>14, <1>15,
       <1>16, <1>17, <1>18, <1>19, <1>20, <1>21, <1>22 DEF Next, Commands, SaveNext, Checks

LEMMA OnceStep == TypeInv /\ SaveInv /\ NumberInv /\ EnrichedOnce /\ [Next]_vars => EnrichedOnce'
<1> SUFFICES ASSUME TypeInv /\ SaveInv /\ NumberInv /\ EnrichedOnce, [Next]_vars PROVE EnrichedOnce'
    OBVIOUS
<1>1. CASE \E p \in Paper : ReadTarget(p)
    BY <1>1, EnrichmentAssumption DEF ReadTarget, TypeInv, NumberInv, EnrichedOnce, Owns, Task, Target,
       Numbers, files
<1>2. CASE \E p \in Paper : EditPaper(p)
    BY <1>2, EnrichmentAssumption DEF EditPaper, TypeInv, NumberInv, EnrichedOnce, Owns, Task, Target,
       Numbers, service
<1>3. CASE Start
    BY <1>3, StartFx, EnrichmentAssumption DEF Start, TypeInv, NumberInv, EnrichedOnce, Owns, Task,
       Target, Numbers, Settles, Goes, Kept, Frees, files
<1>4. CASE State
    BY <1>4, SettlesFx, EnrichmentAssumption DEF State, TypeInv, NumberInv, EnrichedOnce, Owns, Task,
       Target, Numbers, Settles, Goes, Kept, Frees, files
<1>5. CASE \E n \in 1..MaxTasks : Cancel(n)
    BY <1>5, EnrichmentAssumption DEF Cancel, TypeInv, NumberInv, EnrichedOnce, Owns, Task, Target,
       Numbers, files
<1>6. CASE Claim
    BY <1>6, ClaimFx, EnrichmentAssumption DEF Claim, TypeInv, NumberInv, EnrichedOnce, Owns, Task,
       Target, Numbers, Goes, Kept, files
<1>7. CASE \E n \in 1..MaxTasks : AuthorizeWaiting(n)
    BY <1>7, AuthorizeFx, EnrichmentAssumption DEF AuthorizeWaiting, TypeInv, NumberInv, EnrichedOnce,
       Owns, Task, Target, Numbers, Goes, Kept, files
<1>8. CASE \E n \in 1..MaxTasks : ResultFails(n)
    BY <1>8, ResultFailsFx, EnrichmentAssumption DEF ResultFails, TypeInv, NumberInv, EnrichedOnce, Owns,
       Task, Target, Numbers, Goes, Kept, Frees, files
<1>9. CASE \E n \in 1..MaxTasks, item \in Item : ResultArrives(n, item)
    BY <1>9, ResultArrivesFx, EnrichmentAssumption DEF ResultArrives, TypeInv, NumberInv, EnrichedOnce,
       Owns, Task, Target, Numbers, Goes, Kept, files
<1>10. CASE SaveFails
    BY <1>10 DEF SaveFails, FailSave, EnrichedOnce
<1>11. CASE Checks
    BY <1>11, ChecksFx, EnrichmentAssumption DEF Checks, Reread, VerifyAuthors, ComparePaper, TypeInv,
       NumberInv, EnrichedOnce, Owns, Task,
       Target, Numbers, GoesOn
<1>12. CASE ReadAuthor
    BY <1>12, ReadFx, EnrichmentAssumption DEF ReadAuthor, Reading, TypeInv, NumberInv, EnrichedOnce,
       Owns, Task, Target, Numbers, GoesOn
<1>13. CASE CreateAuthor
    BY <1>13, CreateFx, CreatesFx, EnrichmentAssumption DEF CreateAuthor, CreatesAuthor, Reading, TypeInv,
       NumberInv, EnrichedOnce, Owns, Task, Target, Numbers, GoesOn
<1>14. CASE AuthorUnsynced
    BY <1>14, UnsyncedFx, CreatesFx, EnrichmentAssumption DEF AuthorUnsynced, FailSave, CreatesAuthor,
       Reading, TypeInv, NumberInv, EnrichedOnce, Owns, Task, Target, Numbers, Kept, Frees
<1>15. CASE Replace
    BY <1>15, ReplaceFx, EnrichmentAssumption DEF Replace, TypeInv, NumberInv, EnrichedOnce,
       Owns, Task, Target, Numbers, Goes, Kept, Frees
<1>16. CASE \E n \in DOMAIN notes : EditNote(n)
    BY <1>16, EnrichmentAssumption DEF EditNote, TypeInv, NumberInv, EnrichedOnce, Owns, Task, Target,
       Numbers, service
<1>17. CASE ConnectorChanges
    BY <1>17, EnrichmentAssumption DEF ConnectorChanges, TypeInv, NumberInv, EnrichedOnce, Owns, Task,
       Target, Numbers, files, service
<1>18. CASE OtherTakesBrowser
    BY <1>18, EnrichmentAssumption DEF OtherTakesBrowser, TypeInv, NumberInv, EnrichedOnce, Owns, Task,
       Target, Numbers, files, service
<1>19. CASE OtherFreesBrowser
    BY <1>19, EnrichmentAssumption DEF OtherFreesBrowser, TypeInv, NumberInv, EnrichedOnce, Owns, Task,
       Target, Numbers, files, service
<1>20. CASE Tick
    BY <1>20, TickFx, EnrichmentAssumption DEF Tick, TypeInv, NumberInv, EnrichedOnce, Owns, Task, Target,
       Numbers, Goes, Kept, files
<1>21. CASE Restart
    BY <1>21, EnrichmentAssumption DEF Restart, TypeInv, NumberInv, EnrichedOnce, Owns, Task, Target,
       Numbers, files
<1>22. CASE UNCHANGED vars
    BY <1>22 DEF vars, TypeInv, NumberInv, EnrichedOnce, Owns, Task, Target, Numbers, files, service
<1> QED
    BY <1>1, <1>2, <1>3, <1>4, <1>5, <1>6, <1>7, <1>8, <1>9, <1>10, <1>11, <1>12, <1>13, <1>14, <1>15,
       <1>16, <1>17, <1>18, <1>19, <1>20, <1>21, <1>22 DEF Next, Commands, SaveNext, Checks

-----------------------------------------------------------------------------
(***************************************************************************)
(* The theorems                                                            *)
(***************************************************************************)
LEMMA InitInv == Init => Inv
<1> SUFFICES ASSUME Init PROVE Inv
  OBVIOUS
<1>1. /\ papers \in [Paper -> Contents] /\ notes \in [Paper \X Authors -> Note] /\ DOMAIN notes = Paper \X Authors
      /\ task = None /\ starting = None /\ save = None /\ completed = {}
      /\ browser = None /\ online = FALSE /\ number = 0
  BY EnrichmentAssumption DEF Init, Authors, Note
<1>2. savers = [p \in Paper |-> {}] /\ makers = [n \in Paper \X Authors |-> 0]
  BY <1>1 DEF Init
<1>3. 0 \in 0..MaxTasks /\ {} \in SUBSET Numbers
  BY EnrichmentAssumption
<1>4. TypeInv
  BY <1>1, <1>2, <1>3 DEF TypeInv
<1>5. BrowserFollowsTask
  BY <1>1, EnrichmentAssumption DEF BrowserFollowsTask, Owns
<1>6. NumberInv
  BY <1>1, <1>2 DEF NumberInv, Owns
<1>7. SaveInv /\ CompletedIsTrue /\ MadeInv /\ OrphansAreReported
  BY <1>1 DEF SaveInv, CompletedIsTrue, MadeInv, OrphansAreReported
<1>8. EnrichedOnce
  BY <1>2 DEF EnrichedOnce
<1> QED
  BY <1>4, <1>5, <1>6, <1>7, <1>8 DEF Inv

LEMMA NextInv == Inv /\ [Next]_vars => Inv'
  BY TypeStep, BrowserStep, SaveStep, NumberStep, CompletedStep, MadeStep, OrphanStep, OnceStep DEF Inv

\* The inductive invariant holds: the task, its save, the files and the browser belong together at
\* every step, whatever users and the Connector do.
THEOREM EnrichmentInvariant == Spec => []Inv
  BY InitInv, NextInv, PTL DEF Spec

\* The browser is let go exactly when the task that has it is over; "saved" is said exactly of the
\* tasks that wrote their Paper; a save that fails names every Author note it leaves; no Paper is
\* enriched twice in the life of the process.
THEOREM EnrichmentTellsTheTruth == Spec => []EnrichmentIsTrue
<1>1. Inv => TypeOK
  BY DEF Inv, TypeInv, TypeOK, Authors, Numbers
<1>2. Inv => EnrichmentIsTrue
  BY <1>1 DEF Inv, EnrichmentIsTrue
<1> QED
  BY <1>2, EnrichmentInvariant, PTL

LEMMA GapsOnly ==
    ASSUME Inv, Next, NEW p \in Paper
    PROVE  papers'[p] = papers[p] \/ Edited(p) \/ FillsGaps(Compared(p), papers'[p])
<1>1. TypeInv /\ SaveInv /\ papers \in [Paper -> Contents]
  BY DEF Inv, TypeInv
<1>2. CASE \E q \in Paper : EditPaper(q)
  <2>1. PICK q \in Paper : EditPaper(q)
    BY <1>2
  <2>2. PICK c \in Contents : c.edits = papers[q].edits + 1 /\ papers' = [papers EXCEPT ![q] = c]
    BY <2>1 DEF EditPaper
  <2>3. papers[q].edits \in Nat /\ papers'[p] = IF p = q THEN c ELSE papers[p]
    BY <1>1, <2>2, EnrichmentAssumption DEF Contents
  <2> QED
    BY <2>2, <2>3 DEF Edited
<1>3. CASE Replace
  <2>1. /\ save # None /\ save.seen = task.target.was /\ task.target.was \in Contents /\ save.item \in Item
        /\ Fits(task.target.was, save.item)
        /\ papers' = [papers EXCEPT ![task.target.paper] = Filled(task.target.was, save.item)]
    BY <1>1, <1>3, ReplaceFx
  <2>2. CASE p = task.target.paper
    <3>1. papers'[p] = Filled(task.target.was, save.item) /\ Compared(p) = task.target.was
      BY <1>1, <2>1, <2>2 DEF Compared
    <3> QED
      BY <2>1, <3>1, FilledIs
  <2>3. CASE p # task.target.paper
    BY <1>1, <2>1, <2>3
  <2> QED
    BY <2>2, <2>3
<1>4. CASE ~(Replace \/ \E q \in Paper : EditPaper(q))
  <2>1. UNCHANGED papers
    BY <1>4 DEF Next, Commands, SaveNext, ReadTarget, Start, State, Cancel, Claim, AuthorizeWaiting,
       ResultFails,
                ResultArrives, SaveFails, FailSave, Reread, VerifyAuthors, ComparePaper, ReadAuthor,
                CreateAuthor,
                AuthorUnsynced, GoesOn, EditNote, ConnectorChanges, OtherTakesBrowser, OtherFreesBrowser, Tick,
                Restart, files
  <2> QED
    BY <2>1
<1> QED
  BY <1>2, <1>3, <1>4

\* Whatever the Connector finds and however the save is interleaved with edits, a save fills gaps of
\* the Paper its last comparison read and changes nothing else: only an edit saved between that
\* comparison and os.replace is lost (replace_regular_text_at_identity in safe_write.py).
THEOREM GapsAreAllThatIsFilled == Spec => OnlyGapsAreFilled
<1>1. Inv /\ [Next]_vars =>
          [\A p \in Paper : papers'[p] = papers[p] \/ Edited(p) \/ FillsGaps(Compared(p), papers'[p])]_vars
  BY GapsOnly
<1> QED
  BY <1>1, EnrichmentInvariant, PTL DEF Spec, OnlyGapsAreFilled

-----------------------------------------------------------------------------
(***************************************************************************)
(* JournalCovers: the inductive invariant                                  *)
(***************************************************************************)
\* What of list.md, the files, the locks and the browser there may be
PlacesInv ==
    /\ listed \subseteq Journal /\ manifest \in [Journal -> Record \cup {Unset}]
    /\ images \subseteq Journal \X Digest
    /\ uploading \in BOOLEAN /\ decoding \in Decoding \cup {Unset} /\ saving \in CoverSave \cup {Unset}
    /\ holder \in {"search", "upload", "other", Unset} /\ connected \in BOOLEAN /\ torn \in BOOLEAN
    /\ requests \in 0..MaxRequests

\* A search names each Journal once; of those it judged Failed, and of those it has not judged, none
\* was found since the start.
Sound(t, found) ==
    t # Unset =>
        /\ t \in SearchTask /\ Len(t.results) <= Len(t.journals)
        /\ t.phase = "Completed" => Len(t.results) = Len(t.journals)
        /\ \A m, n \in 1..Len(t.journals) : t.journals[m] = t.journals[n] => m = n
        /\ \A i \in 1..Len(t.journals) :
               i > Len(t.results) \/ t.results[i] = "Failed" => t.journals[i] \notin found

\* A request is made once.
RequestInv ==
    /\ search # Unset => search.request <= requests
    /\ decoding # Unset => decoding.request <= requests

\* What result() or upload() has in hand: a download is of the Journal that is due in its search.
HandInv ==
    /\ decoding = Unset \/ saving = Unset
    /\ uploading <=> saving # Unset /\ saving.by = "uploaded"
    /\ decoding # Unset /\ search # Unset /\ search.request = decoding.request =>
           Remaining(search) > 0 /\ Next1(search) = decoding.journal
    /\ saving # Unset /\ saving.by = "downloaded" =>
           search # Unset /\ Remaining(search) > 0 /\ Next1(search) = saving.journal

\* An image that was written is there until its record is, and what it must not replace is not there.
ImagedInv ==
    saving # Unset /\ saving.imaged =>
        /\ ~torn => <<saving.journal, saving.digest>> \in images
        /\ saving.missing => manifest[saving.journal] = Unset

CoverInv ==
    /\ PlacesInv /\ Sound(search, done) /\ BrowserFollowsSearch /\ RequestInv /\ HandInv
    /\ RecordsHaveImages /\ ImagedInv

-----------------------------------------------------------------------------
(***************************************************************************)
(* Helpers of the model                                                    *)
(***************************************************************************)
\* list.md has finitely many Journals.
LEMMA JournalsAreFinite == IsFiniteSet(Journal)
<1>1. Len(List) \in Nat /\ DOMAIN List = 1..Len(List)
    BY CoverAssumption
<1>2. IsFiniteSet(1..Len(List))
    BY <1>1, FS_Interval
<1>3. List \in Surjection(1..Len(List), Journal)
    BY <1>1, CoverAssumption DEF Journal, Range, Surjection
<1> QED
    BY <1>2, <1>3, FS_Surjection

\* A selection is a sequence of Journals, each of the set and none twice.
LEMMA OrderFx ==
    ASSUME NEW S \in SUBSET Journal, NEW seq, NEW s \in InOrder(S, seq)
    PROVE  /\ s \in Seq(Journal)
           /\ \A m \in 1..Len(s) : s[m] \in S
           /\ \A m, n \in 1..Len(s) : s[m] = s[n] => m = n
<1>1. Cardinality(S) \in Nat
    BY JournalsAreFinite, FS_Subset, FS_CardinalityType
<1> DEFINE c == Cardinality(S)
<1>2. s \in [1..c -> S] /\ \A i, j \in 1..c : i # j => s[i] # s[j]
    BY DEF InOrder, SetToSeqs
<1> HIDE DEF c
<1>3. c \in Nat
    BY <1>1 DEF c
<1>4. s \in Seq(S) /\ Len(s) = c
    BY <1>2, <1>3
<1> QED
    BY <1>2, <1>4

\* What is known of a search after the expiry that may be due
LEMMA LiveFx ==
    ASSUME Sound(search, done)
    PROVE  /\ Sound(LiveSearch, done)
           /\ (LiveSearch = Unset) <=> (search = Unset)
           /\ search # Unset =>
                 /\ LiveSearch.request = search.request /\ LiveSearch.journals = search.journals
                 /\ LiveSearch.results = search.results /\ LiveSearch.left = search.left
                 /\ LiveSearch.phase = "Running" => LiveSearch = search
                 /\ LiveSearch.owner => LiveSearch = search
                 /\ LiveSearch.owner => search.owner
<1>1. CASE search = Unset
    BY <1>1 DEF LiveSearch, Sound
<1>2. CASE search # Unset /\ ~(search.owner /\ (search.left = 0 \/ ~connected))
    BY <1>2 DEF LiveSearch, Sound
<1>3. CASE search # Unset /\ search.owner /\ (search.left = 0 \/ ~connected)
  <2> DEFINE t == [search EXCEPT !.owner = FALSE, !.phase = IF @ = "Running" THEN "Failed" ELSE @]
  <2>1. LiveSearch = t
      BY <1>3 DEF LiveSearch
  <2>2. t \in SearchTask /\ t.request = search.request /\ t.journals = search.journals /\ t.results = search.results
        /\ t.left = search.left /\ t.owner = FALSE /\ t.phase # "Running"
        /\ (t.phase = "Completed" => search.phase = "Completed")
      BY <1>3 DEF Sound, SearchTask
  <2>3. t # Unset
      BY <2>2, CoverAssumption
  <2> HIDE DEF t
  <2>4. Sound(t, done)
      BY <2>2, <2>3, <1>3 DEF Sound
  <2> QED
      BY <2>1, <2>2, <2>3, <2>4, <1>3
<1> QED
    BY <1>1, <1>2, <1>3

\* A call that matches finds its search as it is stored.
LEMMA MatchFx ==
    ASSUME Sound(search, done), NEW request, Matching(request)
    PROVE  LiveSearch = search /\ search # Unset /\ search.phase = "Running" /\ search.request = request
    BY LiveFx DEF Matching

\* A Journal judged: it is found, or not.
LEMMA JudgedFx ==
    ASSUME Sound(search, done), search # Unset, Remaining(search) > 0, NEW outcome \in Outcome
    PROVE  LET t == Judged(outcome) IN
           /\ t # Unset /\ Sound(t, Done(Next1(search), outcome))
           /\ t.request = search.request /\ t.owner = search.owner /\ t.left = search.left
           /\ Remaining(t) = Remaining(search) - 1
<1> DEFINE t == Judged(outcome)
           r == search.results
           j == search.journals
<1>1. r \in Seq(Outcome) /\ j \in Seq(Journal) /\ Len(r) \in Nat /\ Len(j) \in Nat /\ Len(r) < Len(j)
      /\ search.phase # "Completed" /\ search \in SearchTask
    BY DEF Sound, SearchTask, Remaining
<1>2. Append(r, outcome) \in Seq(Outcome) /\ Len(Append(r, outcome)) = Len(r) + 1
      /\ (\A i \in 1..Len(r) : Append(r, outcome)[i] = r[i]) /\ Append(r, outcome)[Len(r) + 1] = outcome
    BY <1>1
<1>3. t \in SearchTask /\ t.results = Append(r, outcome) /\ t.journals = j /\ t.phase = search.phase
      /\ t.request = search.request /\ t.owner = search.owner /\ t.left = search.left
    BY <1>1, <1>2 DEF Judged, SearchTask
<1>4. t # Unset
    BY <1>3, CoverAssumption
<1>5. \A i \in 1..Len(j) : i > Len(r) + 1 \/ t.results[i] = "Failed" => j[i] \notin Done(Next1(search), outcome)
  <2> SUFFICES ASSUME NEW i \in 1..Len(j), i > Len(r) + 1 \/ t.results[i] = "Failed"
               PROVE  j[i] \notin Done(Next1(search), outcome)
      OBVIOUS
  <2>1. CASE i = Len(r) + 1
    <3>1. outcome = "Failed"
        BY <1>2, <1>3, <2>1
    <3> QED
        BY <3>1, <2>1, <1>1 DEF Done, Sound
  <2>2. CASE i # Len(r) + 1
    <3>1. j[i] \notin done
        BY <1>1, <1>2, <1>3, <2>2 DEF Sound
    <3>2. j[i] # Next1(search)
        BY <1>1, <2>2 DEF Sound, Next1
    <3> QED
        BY <3>1, <3>2 DEF Done
  <2> QED
      BY <2>1, <2>2
<1>6. Sound(t, Done(Next1(search), outcome))
  <2> HIDE DEF t
  <2>1. t \in SearchTask /\ t.phase # "Completed" /\ Len(t.results) = Len(r) + 1 /\ Len(t.results) <= Len(t.journals)
      BY <1>1, <1>2, <1>3
  <2>2. \A m, n \in 1..Len(t.journals) : t.journals[m] = t.journals[n] => m = n
      BY <1>3 DEF Sound
  <2>3. \A i \in 1..Len(t.journals) :
            i > Len(t.results) \/ t.results[i] = "Failed" => t.journals[i] \notin Done(Next1(search), outcome)
      BY <1>3, <1>5, <2>1
  <2> QED
      BY <2>1, <2>2, <2>3 DEF Sound
<1>7. Remaining(t) = Remaining(search) - 1
  <2> HIDE DEF t
  <2>1. Len(t.journals) = Len(j) /\ Len(t.results) = Len(r) + 1
      BY <1>2, <1>3
  <2> QED
      BY <2>1, <1>1 DEF Remaining
<1> HIDE DEF t
<1> QED
    BY <1>3, <1>4, <1>6, <1>7 DEF t

\* A search set off on a task t
LEMMA ActivateFx ==
    ASSUME PlacesInv, NEW t, t # Unset, NEW found, Sound(t, found), Activate(t)
    PROVE  /\ search' # Unset /\ Sound(search', found)
           /\ search'.request = requests + 1 /\ requests' = requests + 1 /\ requests' \in 0..MaxRequests
           /\ search'.owner <=> Remaining(t) > 0
           /\ ~Busy /\ HolderUnder(LiveSearch) \in {holder, Unset}
           /\ search'.owner => holder' = "search" /\ HolderUnder(LiveSearch) = Unset
           /\ ~search'.owner => holder' = HolderUnder(LiveSearch)
<1> DEFINE more == Remaining(t) > 0
           u == [t EXCEPT !.request = requests + 1, !.owner = more, !.left = Lease, !.claimed = FALSE,
                          !.phase = IF more THEN "Running" ELSE "Completed"]
<1>1. t \in SearchTask /\ Len(t.results) \in Nat /\ Len(t.journals) \in Nat /\ Len(t.results) <= Len(t.journals)
    BY DEF Sound, SearchTask
<1>2. requests + 1 \in 1..MaxRequests /\ Lease \in 0..Lease
    BY CoverAssumption DEF Activate, PlacesInv
<1>3. more \in BOOLEAN /\ (~more => Len(t.results) = Len(t.journals))
  <2>1. Remaining(t) \in Int /\ (~(Remaining(t) > 0) => Len(t.results) = Len(t.journals))
    <3>1. \A a, b \in Nat : b <= a => a - b \in Int /\ (~(a - b > 0) => b = a)
        OBVIOUS
    <3> QED
        BY <1>1, <3>1 DEF Remaining
  <2>2. (Remaining(t) > 0) \in BOOLEAN
      BY <2>1
  <2> QED
      BY <2>1, <2>2
<1>4. search' = u
    BY DEF Activate
<1> HIDE DEF more
<1>5. u \in SearchTask /\ u.results = t.results /\ u.journals = t.journals /\ u.request = requests + 1
      /\ u.owner = more /\ u.phase = IF more THEN "Running" ELSE "Completed"
    BY <1>1, <1>2, <1>3 DEF SearchTask
<1> HIDE DEF u
<1>6. u # Unset
    BY <1>5, CoverAssumption
<1>7. Sound(u, found)
    BY <1>1, <1>3, <1>5 DEF Sound
<1>8. requests' = requests + 1 /\ ~Busy /\ (more => holder' = "search" /\ HolderUnder(LiveSearch) = Unset)
      /\ (~more => holder' = HolderUnder(LiveSearch))
    BY DEF Activate, more
<1>9. HolderUnder(LiveSearch) \in {holder, Unset}
    BY DEF HolderUnder
<1>10. search'.owner <=> Remaining(t) > 0
    BY <1>4, <1>5 DEF more
<1> QED
    BY <1>2, <1>4, <1>5, <1>6, <1>7, <1>8, <1>9, <1>10

-----------------------------------------------------------------------------
(***************************************************************************)
(* The invariant is kept                                                   *)
(***************************************************************************)
\* Any call that starts, continues or repeats a search
LEMMA ActivateKeeps ==
    ASSUME CoverInv, TaskLockFree, NEW t, t # Unset, Sound(t, done'), Activate(t)
    PROVE  CoverInv'
<1>1. /\ search' # Unset /\ Sound(search', done')
      /\ search'.request = requests + 1 /\ requests' = requests + 1 /\ requests' \in 0..MaxRequests
      /\ ~Busy /\ HolderUnder(LiveSearch) \in {holder, Unset}
      /\ search'.owner => holder' = "search" /\ HolderUnder(LiveSearch) = Unset
      /\ ~search'.owner => holder' = HolderUnder(LiveSearch)
    BY ActivateFx DEF CoverInv
<1>2. UNCHANGED <<listed, manifest, images, uploading, decoding, saving, connected, torn>>
    BY DEF Activate, assets
<1>3. PlacesInv'
    BY <1>1, <1>2 DEF CoverInv, PlacesInv
<1>4. ~uploading /\ holder # "upload" /\ HolderUnder(LiveSearch) # "search"
    BY <1>1, CoverAssumption DEF CoverInv, BrowserFollowsSearch, Busy, HolderUnder
<1>5. BrowserFollowsSearch'
    BY <1>1, <1>2, <1>4, CoverAssumption DEF BrowserFollowsSearch
<1>6. RequestInv'
    BY <1>1, <1>2 DEF CoverInv, PlacesInv, RequestInv, Decoding
<1>7. HandInv'
    BY <1>1, <1>2 DEF CoverInv, PlacesInv, RequestInv, HandInv, TaskLockFree, Decoding
<1>8. RecordsHaveImages' /\ ImagedInv'
    BY <1>2 DEF CoverInv, RecordsHaveImages, ImagedInv
<1> QED
    BY <1>1, <1>3, <1>5, <1>6, <1>7, <1>8 DEF CoverInv

\* A new search names each Journal of its selection once.
LEMMA NewSearchFx ==
    ASSUME requests \in 0..MaxRequests, requests < MaxRequests, NEW journals \in Seq(Journal), NEW missing \in BOOLEAN,
           NEW found, \A m \in 1..Len(journals) : journals[m] \notin found,
           \A m, n \in 1..Len(journals) : journals[m] = journals[n] => m = n
    PROVE  NewSearch(journals, missing) # Unset /\ Sound(NewSearch(journals, missing), found)
<1>1. 1 \in 1..MaxRequests /\ 0 \in 0..Lease
    BY CoverAssumption
<1>2. <<>> \in Seq(Outcome) /\ Len(<<>>) = 0 /\ Len(journals) \in Nat
    OBVIOUS
<1> DEFINE t == NewSearch(journals, missing)
<1>3. t \in SearchTask /\ t.results = <<>> /\ t.journals = journals /\ t.phase = "Running"
    BY <1>1, <1>2 DEF NewSearch, SearchTask
<1> HIDE DEF t
<1>4. t # Unset
    BY <1>3, CoverAssumption
<1>5. Sound(t, found)
    BY <1>2, <1>3 DEF Sound
<1> QED
    BY <1>4, <1>5 DEF t

LEMMA StartKeeps ==
    ASSUME CoverInv, StartMissing \/ (\E j \in Journal : StartOne(j)) \/ Continue \/ Retry
    PROVE  CoverInv'
<1>1. requests \in 0..MaxRequests /\ Sound(search, done)
    BY DEF CoverInv, PlacesInv
<1>2. CASE StartMissing
  <2> DEFINE S == {j \in listed : manifest[j] = Unset}
  <2>1. S \in SUBSET Journal
      BY DEF CoverInv, PlacesInv
  <2>2. PICK journals \in InOrder(S, List) : Activate(NewSearch(journals, TRUE))
      BY <1>2 DEF StartMissing
  <2>3. requests < MaxRequests /\ done' = {} /\ TaskLockFree
      BY <1>2, <2>2 DEF StartMissing, Activate
  <2> HIDE DEF S
  <2>4. journals \in Seq(Journal) /\ \A m, n \in 1..Len(journals) : journals[m] = journals[n] => m = n
      BY <2>1, <2>2, OrderFx
  <2>5. NewSearch(journals, TRUE) # Unset /\ Sound(NewSearch(journals, TRUE), done')
    <3>1. \A m \in 1..Len(journals) : journals[m] \notin done'
        BY <2>3
    <3> QED
        BY <1>1, <2>3, <2>4, <3>1, NewSearchFx
  <2> QED
      BY <2>2, <2>3, <2>5, ActivateKeeps
<1>3. ASSUME NEW j \in Journal, StartOne(j) PROVE CoverInv'
  <2>1. Activate(NewSearch(<<j>>, FALSE)) /\ done' = {} /\ TaskLockFree /\ requests < MaxRequests
      BY <1>3 DEF StartOne, Activate
  <2>2. <<j>> \in Seq(Journal) /\ Len(<<j>>) = 1
      OBVIOUS
  <2>3. \A m, n \in 1..Len(<<j>>) : <<j>>[m] = <<j>>[n] => m = n
      BY <2>2
  <2>4. \A m \in 1..Len(<<j>>) : <<j>>[m] \notin done'
      BY <2>1
  <2>5. NewSearch(<<j>>, FALSE) # Unset /\ Sound(NewSearch(<<j>>, FALSE), done')
      BY <1>1, <2>1, <2>2, <2>3, <2>4, NewSearchFx
  <2> QED
      BY <2>1, <2>5, ActivateKeeps
<1>4. CASE Continue
    BY <1>1, <1>4, LiveFx, ActivateKeeps DEF Continue, Resumable
<1>5. CASE Retry
  <2>1. LiveSearch # Unset /\ Sound(LiveSearch, done) /\ done' = done /\ TaskLockFree
      BY <1>1, <1>5, LiveFx DEF Retry, Resumable
  <2>2. LiveSearch.missing \in BOOLEAN /\ LiveSearch.journals \in Seq(Journal) /\ LiveSearch.results \in Seq(Outcome)
        /\ Len(LiveSearch.results) <= Len(LiveSearch.journals)
      BY <2>1 DEF Sound, SearchTask
  <2>3. Failures(LiveSearch) \in SUBSET Journal /\ \A j \in Failures(LiveSearch) : j \notin done
      BY <2>1, <2>2 DEF Failures, Sound
  <2>4. PICK journals \in InOrder(Failures(LiveSearch), LiveSearch.journals) :
            Activate(NewSearch(journals, LiveSearch.missing))
      BY <1>5 DEF Retry
  <2> DEFINE S == Failures(LiveSearch)
             seq == LiveSearch.journals
  <2> HIDE DEF S, seq
  <2>5. journals \in Seq(Journal) /\ (\A m, n \in 1..Len(journals) : journals[m] = journals[n] => m = n)
        /\ \A m \in 1..Len(journals) : journals[m] \in S
    <3>1. S \in SUBSET Journal /\ journals \in InOrder(S, seq)
        BY <2>3, <2>4 DEF S, seq
    <3> QED
        BY <3>1, OrderFx
  <2>6. requests < MaxRequests
      BY <2>4 DEF Activate
  <2>7. NewSearch(journals, LiveSearch.missing) # Unset /\ Sound(NewSearch(journals, LiveSearch.missing), done')
    <3>1. \A m \in 1..Len(journals) : journals[m] \notin done'
        BY <2>1, <2>3, <2>5 DEF S
    <3> QED
        BY <1>1, <2>2, <2>5, <2>6, <3>1, NewSearchFx
  <2> QED
      BY <2>1, <2>4, <2>7, ActivateKeeps
<1> QED
    BY <1>2, <1>3, <1>4, <1>5

\* A step after which the search stored is the one there was, at most ended or without its browser
SearchStays ==
    /\ holder' = HolderUnder(search') /\ Sound(search', done) /\ (search' = Unset <=> search = Unset)
    /\ search # Unset => /\ search'.request = search.request /\ search'.journals = search.journals
                         /\ search'.results = search.results /\ search'.left <= search.left
                         /\ search'.left \in Nat /\ search.left \in Nat
                         /\ search'.owner => search.owner

LEMMA SameSearch ==
    ASSUME CoverInv, UNCHANGED <<uploading, saving, requests, done>>, decoding' \in {decoding, Unset},
           SearchStays
    PROVE  Sound(search, done)' /\ BrowserFollowsSearch' /\ RequestInv' /\ HandInv' /\ holder' \in {holder, Unset}
<1>1. holder' \in {holder, Unset}
    BY DEF SearchStays, HolderUnder
<1>2. BrowserFollowsSearch'
    BY <1>1, CoverAssumption DEF CoverInv, BrowserFollowsSearch, SearchStays, HolderUnder
<1>3. RequestInv'
    BY DEF CoverInv, SearchStays, RequestInv
<1>4. HandInv'
    BY DEF CoverInv, SearchStays, HandInv, Remaining, Next1
<1> QED
    BY <1>1, <1>2, <1>3, <1>4 DEF SearchStays

LEMMA SameBooks ==
    ASSUME CoverInv, UNCHANGED <<search, uploading, decoding, saving, requests, done>>
    PROVE  Sound(search, done)' /\ RequestInv' /\ HandInv'
<1>1. Sound(search, done)' /\ RequestInv'
    BY DEF CoverInv, Sound, RequestInv
<1>2. HandInv'
    BY DEF CoverInv, HandInv, Remaining, Next1
<1> QED
    BY <1>1, <1>2

LEMMA SameFiles ==
    ASSUME CoverInv, UNCHANGED <<manifest, images, saving, torn>>
    PROVE  RecordsHaveImages' /\ ImagedInv'
    BY DEF CoverInv, RecordsHaveImages, ImagedInv

\* What the calls leave of the stored search
LEMMA CallFx ==
    ASSUME CoverInv,
           \/ SearchState \/ ClaimSearch \/ Dropped \/ LeaseTick \/ ResetFails
           \/ \E request \in 1..MaxRequests : CancelSearch(request) \/ Finish(request)
    PROVE  SearchStays
<1>1. Sound(search, done) /\ BrowserFollowsSearch
    BY DEF CoverInv
<1>2. search # Unset => search \in SearchTask /\ search.left \in Nat /\ search.left <= search.left
    BY <1>1, CoverAssumption DEF Sound, SearchTask
<1>3. CASE SearchState \/ Dropped \/ ResetFails
  <2>1. search' = LiveSearch /\ holder' = HolderUnder(LiveSearch)
      BY <1>3 DEF SearchState, Dropped, ResetFails, SearchBecomes
  <2> QED
      BY <2>1, <1>1, <1>2, LiveFx DEF SearchStays
<1>4. CASE ClaimSearch
  <2> DEFINE t == [LiveSearch EXCEPT !.claimed = TRUE]
  <2>1. LiveSearch = search /\ search # Unset
      BY <1>1, <1>4, LiveFx DEF ClaimSearch
  <2>2. search' = t /\ holder' = HolderUnder(t)
      BY <1>4 DEF ClaimSearch, SearchBecomes
  <2>3. t \in SearchTask /\ t.request = search.request /\ t.journals = search.journals /\ t.results = search.results
        /\ t.left = search.left /\ t.owner = search.owner /\ t.phase = search.phase
      BY <1>2, <2>1 DEF SearchTask
  <2>4. t # Unset
      BY <2>3, CoverAssumption
  <2> HIDE DEF t
  <2>5. Sound(t, done)
      BY <1>1, <2>1, <2>3 DEF Sound
  <2> QED
      BY <1>2, <2>1, <2>2, <2>3, <2>4, <2>5 DEF SearchStays
<1>5. CASE LeaseTick
  <2> DEFINE t == [search EXCEPT !.left = @ - 1]
  <2>1. search' = t /\ search # Unset /\ holder' = holder /\ search.owner /\ search.left > 0
      BY <1>5 DEF LeaseTick
  <2>2. search.left - 1 \in 0..Lease /\ search.left - 1 <= search.left /\ search.left - 1 \in Nat
      BY <1>2, <2>1, CoverAssumption DEF SearchTask
  <2>3. t \in SearchTask /\ t.request = search.request /\ t.journals = search.journals /\ t.results = search.results
        /\ t.left = search.left - 1 /\ t.owner = search.owner /\ t.phase = search.phase
      BY <1>2, <2>1, <2>2 DEF SearchTask
  <2>4. t # Unset
      BY <2>3, CoverAssumption
  <2> HIDE DEF t
  <2>5. Sound(t, done)
      BY <1>1, <2>1, <2>3 DEF Sound
  <2>6. HolderUnder(t) = holder
      BY <2>1, <2>3, <2>4 DEF HolderUnder
  <2> QED
      BY <1>2, <2>1, <2>2, <2>3, <2>4, <2>5, <2>6 DEF SearchStays
<1>6. ASSUME NEW request \in 1..MaxRequests, CancelSearch(request)
      PROVE  /\ holder' = HolderUnder(search') /\ Sound(search', done) /\ search' # Unset /\ search # Unset
             /\ search'.request = search.request /\ search'.journals = search.journals
             /\ search'.results = search.results /\ search'.left = search.left /\ search'.owner = search.owner
  <2> DEFINE t == [search EXCEPT !.phase = "Cancelled"]
  <2>1. search' = t /\ search # Unset /\ holder' = holder
      BY <1>6 DEF CancelSearch
  <2>2. t \in SearchTask /\ t.request = search.request /\ t.journals = search.journals /\ t.results = search.results
        /\ t.left = search.left /\ t.owner = search.owner /\ t.phase = "Cancelled"
      BY <1>2, <2>1 DEF SearchTask
  <2>3. t # Unset
      BY <2>2, CoverAssumption
  <2> HIDE DEF t
  <2>4. Sound(t, done)
      BY <1>1, <2>1, <2>2 DEF Sound
  <2>5. HolderUnder(t) = holder
      BY <1>1, <2>2, <2>3 DEF HolderUnder, BrowserFollowsSearch
  <2> QED
      BY <2>1, <2>2, <2>3, <2>4, <2>5
<1>7. ASSUME NEW request \in 1..MaxRequests, Finish(request)
      PROVE  /\ holder' = HolderUnder(search') /\ Sound(search', done) /\ search' # Unset /\ search # Unset
             /\ search'.request = search.request /\ search'.journals = search.journals
             /\ search'.results = search.results /\ search'.left = search.left /\ search'.owner = FALSE
  <2> DEFINE t == [search EXCEPT !.owner = FALSE, !.phase = IF @ = "Running" THEN EndPhase(search) ELSE @]
  <2>1. search' = t /\ search # Unset /\ holder' = HolderUnder(t)
      BY <1>7 DEF Finish, SearchBecomes
  <2>2. EndPhase(search) \in {"Completed", "Failed"} /\ Len(search.results) \in Nat /\ Len(search.journals) \in Nat
        /\ (EndPhase(search) = "Completed" => Len(search.results) = Len(search.journals))
      BY <1>2, <2>1 DEF EndPhase, Remaining, SearchTask
  <2>3. t \in SearchTask /\ t.request = search.request /\ t.journals = search.journals /\ t.results = search.results
        /\ t.left = search.left /\ t.owner = FALSE /\ t.phase \in {search.phase, EndPhase(search)}
      BY <1>2, <2>1, <2>2 DEF SearchTask
  <2>4. t # Unset
      BY <2>3, CoverAssumption
  <2> HIDE DEF t
  <2>5. Sound(t, done)
      BY <1>1, <2>1, <2>2, <2>3 DEF Sound
  <2> QED
      BY <2>1, <2>3, <2>4, <2>5
<1> QED
    BY <1>2, <1>3, <1>4, <1>5, <1>6, <1>7 DEF SearchStays

LEMMA CallKeeps ==
    ASSUME CoverInv,
           \/ SearchState \/ ClaimSearch \/ Dropped \/ LeaseTick
           \/ \E request \in 1..MaxRequests : CancelSearch(request) \/ Finish(request)
    PROVE  CoverInv'
<1>1. UNCHANGED <<listed, manifest, images, uploading, saving, connected, requests, done, torn>>
      /\ decoding' \in {decoding, Unset}
    BY DEF SearchState, ClaimSearch, Dropped, LeaseTick, CancelSearch, Finish, assets
<1>2. Sound(search, done)' /\ BrowserFollowsSearch' /\ RequestInv' /\ HandInv' /\ holder' \in {holder, Unset}
    BY <1>1, CallFx, SameSearch
<1>3. PlacesInv'
    BY <1>1, <1>2 DEF CoverInv, PlacesInv
<1>4. RecordsHaveImages' /\ ImagedInv'
    BY <1>1, SameFiles
<1> QED
    BY <1>2, <1>3, <1>4 DEF CoverInv

LEMMA ResetKeeps ==
    ASSUME CoverInv, Reset \/ ResetFails
    PROVE  CoverInv'
<1>1. saving = Unset /\ decoding = Unset /\ ~uploading /\ HolderUnder(LiveSearch) = Unset
      /\ ~(LiveSearch # Unset /\ LiveSearch.owner)
    BY DEF Reset, ResetFails, Resettable, AssetLockFree, Busy
<1>2. CASE Reset
  <2>1. UNCHANGED <<listed, uploading, decoding, saving, connected, requests, done, torn>>
        /\ manifest' = [j \in Journal |-> Unset] /\ images' = {} /\ search' = Unset /\ holder' = Unset
      BY <1>1, <1>2 DEF Reset
  <2>2. PlacesInv'
      BY <2>1 DEF CoverInv, PlacesInv
  <2>3. Sound(search, done)' /\ RequestInv' /\ HandInv' /\ RecordsHaveImages' /\ ImagedInv'
      BY <1>1, <2>1 DEF CoverInv, Sound, RequestInv, HandInv, RecordsHaveImages, ImagedInv
  <2>4. BrowserFollowsSearch'
      BY <1>1, <2>1, CoverAssumption DEF BrowserFollowsSearch
  <2> QED
      BY <2>2, <2>3, <2>4 DEF CoverInv
<1>3. CASE ResetFails
  <2>1. UNCHANGED <<listed, uploading, decoding, saving, connected, requests, done>> /\ torn' = TRUE
        /\ images' \subseteq images /\ manifest' \in {manifest, [j \in Journal |-> Unset]}
      BY <1>3 DEF ResetFails
  <2>2. Sound(search, done)' /\ BrowserFollowsSearch' /\ RequestInv' /\ HandInv' /\ holder' \in {holder, Unset}
      BY <1>3, <2>1, CallFx, SameSearch
  <2>3. PlacesInv'
      BY <2>1, <2>2 DEF CoverInv, PlacesInv
  <2>4. RecordsHaveImages' /\ ImagedInv'
      BY <1>1, <2>1 DEF RecordsHaveImages, ImagedInv
  <2> QED
      BY <2>2, <2>3, <2>4 DEF CoverInv
<1> QED
    BY <1>2, <1>3

\* Other processes, other tasks, editors and a crash
LEMMA OutsideKeeps ==
    ASSUME CoverInv,
           \/ ConnectionChanges \/ OtherTakes \/ OtherFrees \/ RestartCovers
           \/ \E j \in Journal : ListChanges(j) \/ \E digest \in Digest : OtherProcessUploads(j, digest)
    PROVE  CoverInv'
<1>1. CASE ConnectionChanges
  <2>1. connected' = ~connected
        /\ UNCHANGED <<listed, manifest, images, search, uploading, decoding, saving, holder, requests, done, torn>>
      BY <1>1 DEF ConnectionChanges, assets
  <2>2. PlacesInv' /\ BrowserFollowsSearch'
      BY <2>1 DEF CoverInv, PlacesInv, BrowserFollowsSearch
  <2> QED
      BY <2>1, <2>2, SameBooks, SameFiles DEF CoverInv
<1>2. CASE OtherTakes \/ OtherFrees
  <2>1. UNCHANGED <<listed, manifest, images, search, uploading, decoding, saving, connected, requests, done, torn>>
      BY <1>2 DEF OtherTakes, OtherFrees, assets
  <2>2. Sound(search, done)' /\ RequestInv' /\ HandInv'
      BY <2>1, SameBooks
  <2>3. PlacesInv'
      BY <1>2, <2>1 DEF CoverInv, PlacesInv, OtherTakes, OtherFrees
  <2>4. BrowserFollowsSearch'
      BY <1>2, <2>1, CoverAssumption DEF CoverInv, BrowserFollowsSearch, OtherTakes, OtherFrees
  <2> QED
      BY <2>1, <2>2, <2>3, <2>4, SameFiles DEF CoverInv
<1>3. CASE RestartCovers
    BY <1>3, CoverAssumption DEF RestartCovers, assets, CoverInv, PlacesInv, Sound, BrowserFollowsSearch, RequestInv,
                HandInv, RecordsHaveImages, ImagedInv
<1>4. ASSUME NEW j \in Journal, ListChanges(j) PROVE CoverInv'
  <2>1. UNCHANGED <<manifest, images, search, uploading, decoding, saving, holder, connected, requests, done, torn>>
        /\ (listed \subseteq Journal => listed' \subseteq Journal)
      BY <1>4 DEF ListChanges
  <2>2. BrowserFollowsSearch' /\ PlacesInv'
      BY <2>1 DEF CoverInv, PlacesInv, BrowserFollowsSearch
  <2> QED
      BY <2>1, <2>2, SameBooks, SameFiles DEF CoverInv
<1>5. ASSUME NEW j \in Journal, NEW digest \in Digest, OtherProcessUploads(j, digest) PROVE CoverInv'
  <2>1. UNCHANGED <<listed, search, uploading, decoding, saving, holder, connected, requests, done, torn>>
        /\ images' = images \cup {<<j, digest>>} /\ (saving # Unset => ~saving.imaged)
        /\ manifest' = [manifest EXCEPT ![j] = [digest |-> digest, source |-> "uploaded"]]
      BY <1>5 DEF OtherProcessUploads
  <2>2. Sound(search, done)' /\ RequestInv' /\ HandInv' /\ BrowserFollowsSearch'
      BY <2>1, SameBooks DEF CoverInv, BrowserFollowsSearch
  <2>3. [digest |-> digest, source |-> "uploaded"] \in Record
      BY DEF Record, Source
  <2>4. PlacesInv'
      BY <2>1, <2>3 DEF CoverInv, PlacesInv
  <2>5. RecordsHaveImages' /\ ImagedInv'
      BY <2>1 DEF CoverInv, PlacesInv, RecordsHaveImages, ImagedInv
  <2> QED
      BY <2>2, <2>4, <2>5 DEF CoverInv
<1> QED
    BY <1>1, <1>2, <1>3, <1>4, <1>5

-----------------------------------------------------------------------------
\* The lease of a search is renewed, or an image comes in.
LEMMA AuthorizeKeeps == ASSUME CoverInv, NEW request, Authorize(request) PROVE CoverInv'
<1>1. Sound(search, done) /\ LiveSearch = search /\ search # Unset
    BY MatchFx DEF CoverInv, Authorize
<1> DEFINE t == [search EXCEPT !.left = Lease]
<1>2. search \in SearchTask /\ Lease \in 0..Lease
    BY <1>1, CoverAssumption DEF Sound
<1>3. t \in SearchTask /\ t.request = search.request /\ t.journals = search.journals /\ t.results = search.results
      /\ t.owner = search.owner /\ t.phase = search.phase
    BY <1>2 DEF SearchTask
<1>4. t # Unset
    BY <1>3, CoverAssumption
<1>5. search' = t /\ holder = "search"
      /\ UNCHANGED <<listed, manifest, images, uploading, decoding, saving, holder, connected, requests, done, torn>>
    BY DEF Authorize, assets
<1> HIDE DEF t
<1>6. Sound(search, done)'
    BY <1>1, <1>3, <1>5 DEF Sound
<1>7. BrowserFollowsSearch' /\ RequestInv' /\ HandInv' /\ PlacesInv'
    BY <1>1, <1>3, <1>4, <1>5 DEF CoverInv, BrowserFollowsSearch, RequestInv, HandInv, Remaining, Next1, PlacesInv
<1> QED
    BY <1>5, <1>6, <1>7, SameFiles DEF CoverInv

LEMMA DecodeKeeps == ASSUME CoverInv, NEW request \in 1..MaxRequests, NEW j \in Journal, Decode(request, j) PROVE CoverInv'
<1>1. LiveSearch = search /\ search # Unset /\ search.request = request /\ Remaining(search) > 0 /\ Next1(search) = j
    BY MatchFx DEF CoverInv, Decode
<1>2. decoding' = [request |-> request, journal |-> j] /\ decoding = Unset /\ saving = Unset
      /\ UNCHANGED <<listed, manifest, images, search, uploading, saving, holder, connected, requests, done, torn>>
    BY DEF Decode, AssetLockFree, assets
<1>3. decoding' \in Decoding /\ decoding'.request = request /\ decoding'.journal = j
    BY <1>2 DEF Decoding
<1>4. Sound(search, done)' /\ BrowserFollowsSearch'
    BY <1>2 DEF CoverInv, Sound, BrowserFollowsSearch
<1>5. PlacesInv' /\ RequestInv' /\ HandInv'
    BY <1>1, <1>2, <1>3 DEF CoverInv, PlacesInv, RequestInv, HandInv, Remaining, Next1
<1> QED
    BY <1>2, <1>4, <1>5, SameFiles DEF CoverInv

\* A Journal judged by result(): the step leaves nothing in hand.
LEMMA JudgeKeeps ==
    ASSUME CoverInv, search # Unset, Remaining(search) > 0, NEW outcome \in Outcome,
           search' = Judged(outcome), done' = Done(Next1(search), outcome),
           decoding' = Unset, saving' = Unset, ~uploading,
           UNCHANGED <<listed, images, uploading, holder, connected, requests, torn>>,
           manifest' \in [Journal -> Record \cup {Unset}], RecordsHaveImages'
    PROVE  CoverInv'
<1>1. /\ search' # Unset /\ Sound(search', done')
      /\ search'.request = search.request /\ search'.owner = search.owner /\ search'.left = search.left
    BY JudgedFx DEF CoverInv
<1>2. PlacesInv' /\ BrowserFollowsSearch' /\ RequestInv' /\ HandInv' /\ ImagedInv'
    BY <1>1 DEF CoverInv, PlacesInv, BrowserFollowsSearch, RequestInv, HandInv, ImagedInv
<1> QED
    BY <1>1, <1>2 DEF CoverInv

LEMMA DecidedKeeps == ASSUME CoverInv, Decided \/ BeginSave PROVE CoverInv'
<1>1. decoding # Unset /\ LiveSearch = search /\ search # Unset /\ search.request = decoding.request
      /\ Remaining(search) > 0 /\ Next1(search) = decoding.journal /\ saving = Unset /\ ~uploading
  <2>1. decoding # Unset /\ Matching(decoding.request)
      BY DEF Decided, BeginSave
  <2>2. LiveSearch = search /\ search # Unset /\ search.request = decoding.request
      BY <2>1, MatchFx DEF CoverInv
  <2> QED
      BY <2>1, <2>2 DEF CoverInv, HandInv
<1>2. CASE Decided
  <2>1. PICK outcome \in Outcome : search' = Judged(outcome) /\ done' = Done(decoding.journal, outcome)
      BY <1>2 DEF Decided, Outcome
  <2>2. decoding' = Unset /\ UNCHANGED <<listed, manifest, images, uploading, saving, holder, connected, requests, torn>>
      BY <1>2 DEF Decided, assets
  <2>3. RecordsHaveImages' /\ manifest' \in [Journal -> Record \cup {Unset}]
      BY <2>2 DEF CoverInv, RecordsHaveImages, PlacesInv
  <2> QED
      BY <1>1, <2>1, <2>2, <2>3, JudgeKeeps
<1>3. CASE BeginSave
  <2>1. PICK digest \in Digest :
            saving' = [by |-> "downloaded", journal |-> decoding.journal, digest |-> digest, missing |-> search.missing,
                       imaged |-> FALSE]
      BY <1>3 DEF BeginSave
  <2>2. decoding' = Unset
        /\ UNCHANGED <<listed, manifest, images, search, uploading, holder, connected, requests, done, torn>>
      BY <1>3 DEF BeginSave, assets
  <2>3. saving' \in CoverSave /\ saving'.by = "downloaded" /\ saving'.journal = decoding.journal /\ ~saving'.imaged
      BY <1>1, <2>1 DEF CoverInv, PlacesInv, Decoding, CoverSave, Source, Sound, SearchTask
  <2>4. saving' # Unset
      BY <2>3, CoverAssumption
  <2>5. Sound(search, done)' /\ BrowserFollowsSearch' /\ RecordsHaveImages' /\ RequestInv'
      BY <2>2 DEF CoverInv, Sound, BrowserFollowsSearch, RecordsHaveImages, RequestInv
  <2>6. PlacesInv' /\ HandInv' /\ ImagedInv'
      BY <1>1, <2>2, <2>3, <2>4 DEF CoverInv, PlacesInv, HandInv, ImagedInv, Remaining, Next1
  <2> QED
      BY <2>5, <2>6 DEF CoverInv
<1> QED
    BY <1>2, <1>3

LEMMA UploadKeeps == ASSUME CoverInv, NEW j \in Journal, NEW digest \in Digest, Upload(j, digest) PROVE CoverInv'
<1>1. search' = LiveSearch /\ holder' = "upload" /\ uploading' = TRUE /\ decoding = Unset /\ saving = Unset
      /\ ~(LiveSearch # Unset /\ LiveSearch.owner)
      /\ saving' = [by |-> "uploaded", journal |-> j, digest |-> digest, missing |-> FALSE, imaged |-> FALSE]
      /\ UNCHANGED <<listed, manifest, images, decoding, connected, requests, done, torn>>
    BY DEF Upload, AssetLockFree, Busy, assets
<1>2. saving' \in CoverSave /\ saving'.by = "uploaded" /\ ~saving'.imaged
    BY <1>1 DEF CoverSave, Source
<1>3. saving' # Unset
    BY <1>2, CoverAssumption
<1>4. Sound(search', done) /\ (search' # Unset => search # Unset /\ search'.request = search.request)
    BY <1>1, LiveFx DEF CoverInv
<1>5. Sound(search, done)' /\ BrowserFollowsSearch' /\ RecordsHaveImages' /\ RequestInv'
    BY <1>1, <1>4 DEF CoverInv, BrowserFollowsSearch, RecordsHaveImages, RequestInv
<1>6. PlacesInv' /\ HandInv' /\ ImagedInv'
    BY <1>1, <1>2, <1>3 DEF CoverInv, PlacesInv, HandInv, ImagedInv
<1> QED
    BY <1>5, <1>6 DEF CoverInv

\* A save: the image, and then the record that names it
LEMMA WriteImageKeeps == ASSUME CoverInv, WriteImage PROVE CoverInv'
<1>1. saving \in CoverSave /\ saving # Unset /\ Wanted(saving)
    BY DEF CoverInv, PlacesInv, WriteImage
<1> DEFINE s == [saving EXCEPT !.imaged = TRUE]
<1>2. s \in CoverSave /\ s.by = saving.by /\ s.journal = saving.journal /\ s.digest = saving.digest
      /\ s.missing = saving.missing /\ s.imaged
    BY <1>1 DEF CoverSave
<1>3. s # Unset
    BY <1>2, CoverAssumption
<1>4. saving' = s /\ images' = images \cup {<<saving.journal, saving.digest>>}
      /\ UNCHANGED <<listed, manifest, search, uploading, decoding, holder, connected, requests, done, torn>>
    BY DEF WriteImage
<1>5. <<saving.journal, saving.digest>> \in Journal \X Digest
    BY <1>1 DEF CoverSave
<1> HIDE DEF s
<1>6. Sound(search, done)' /\ BrowserFollowsSearch' /\ RequestInv' /\ RecordsHaveImages'
    BY <1>4 DEF CoverInv, Sound, BrowserFollowsSearch, RequestInv, RecordsHaveImages
<1>7. PlacesInv' /\ HandInv'
    BY <1>1, <1>2, <1>3, <1>4, <1>5 DEF CoverInv, PlacesInv, HandInv, Remaining, Next1
<1>8. ImagedInv'
    BY <1>1, <1>2, <1>4 DEF ImagedInv, Wanted
<1> QED
    BY <1>6, <1>7, <1>8 DEF CoverInv

LEMMA ReturnKeeps == ASSUME CoverInv, WriteManifest \/ SaveSkips \/ CoverSaveFails PROVE CoverInv'
<1>1. saving # Unset /\ saving \in CoverSave /\ decoding = Unset
    BY DEF CoverInv, PlacesInv, HandInv, WriteManifest, SaveSkips, CoverSaveFails
<1>2. PICK outcome \in Outcome : SaveReturns(outcome)
    BY DEF WriteManifest, SaveSkips, CoverSaveFails, Outcome
<1>3. saving' = Unset /\ UNCHANGED <<listed, images, decoding, connected, requests, torn>>
    BY <1>2 DEF SaveReturns
<1>4. manifest' \in [Journal -> Record \cup {Unset}] /\ RecordsHaveImages'
  <2>1. CASE SaveSkips \/ CoverSaveFails
      BY <1>3, <2>1 DEF SaveSkips, CoverSaveFails, CoverInv, PlacesInv, RecordsHaveImages
  <2>2. CASE WriteManifest
    <3> DEFINE r == [digest |-> saving.digest, source |-> saving.by]
    <3>1. r \in Record /\ r.digest = saving.digest
        BY <1>1 DEF CoverSave, Record
    <3>2. manifest' = [manifest EXCEPT ![saving.journal] = r] /\ saving.imaged /\ saving.journal \in Journal
        BY <1>1, <2>2 DEF WriteManifest, Imaged, CoverSave
    <3> HIDE DEF r
    <3>3. ~torn => <<saving.journal, saving.digest>> \in images
        BY <1>1, <3>2 DEF CoverInv, ImagedInv
    <3> QED
        BY <1>3, <3>1, <3>2, <3>3 DEF CoverInv, PlacesInv, RecordsHaveImages
  <2> QED
      BY <2>1, <2>2
<1>5. CASE saving.by = "uploaded"
  <2>1. uploading /\ uploading' = FALSE /\ holder' = Unset /\ UNCHANGED <<search, done>>
      BY <1>1, <1>2, <1>5 DEF SaveReturns, CoverInv, HandInv
  <2>2. Sound(search, done)' /\ RequestInv' /\ HandInv' /\ ImagedInv'
      BY <1>1, <1>3, <2>1 DEF CoverInv, Sound, RequestInv, HandInv, ImagedInv
  <2>3. PlacesInv' /\ BrowserFollowsSearch'
      BY <1>3, <1>4, <2>1, CoverAssumption DEF CoverInv, PlacesInv, BrowserFollowsSearch
  <2> QED
      BY <1>4, <2>2, <2>3 DEF CoverInv
<1>6. CASE saving.by # "uploaded"
  <2>1. saving.by = "downloaded"
      BY <1>1, <1>6 DEF CoverSave, Source
  <2>2. search # Unset /\ Remaining(search) > 0 /\ Next1(search) = saving.journal /\ ~uploading
      BY <1>1, <2>1 DEF CoverInv, HandInv
  <2>3. search' = Judged(outcome) /\ done' = Done(Next1(search), outcome) /\ UNCHANGED <<uploading, holder>>
      BY <1>2, <1>6, <2>2 DEF SaveReturns
  <2> QED
      BY <1>1, <1>3, <1>4, <2>2, <2>3, JudgeKeeps
<1> QED
    BY <1>5, <1>6

LEMMA CoverInitInv == CoverInit => CoverInv
<1> SUFFICES ASSUME CoverInit PROVE CoverInv
    OBVIOUS
<1>1. 0 \in 0..MaxRequests
    BY CoverAssumption
<1> QED
    BY <1>1, CoverAssumption DEF CoverInit, CoverInv, PlacesInv, Sound, BrowserFollowsSearch, RequestInv, HandInv,
                                 RecordsHaveImages, ImagedInv

LEMMA CoverStep == ASSUME CoverInv, [CoverNext]_coverVars PROVE CoverInv'
<1>1. CASE UNCHANGED coverVars
  <2>. /\ UNCHANGED <<listed, manifest, images>> /\ UNCHANGED <<search, uploading, decoding, saving>>
       /\ UNCHANGED <<holder, connected, requests, done, torn>>
      BY <1>1 DEF coverVars, assets
  <2>1. PlacesInv' /\ Sound(search, done)' /\ BrowserFollowsSearch' /\ RequestInv'
      BY DEF CoverInv, PlacesInv, Sound, BrowserFollowsSearch, RequestInv
  <2>2. HandInv' /\ RecordsHaveImages' /\ ImagedInv'
      BY DEF CoverInv, HandInv, RecordsHaveImages, ImagedInv, Remaining, Next1
  <2> QED
      BY <2>1, <2>2 DEF CoverInv
<1> QED
    BY <1>1, StartKeeps, CallKeeps, AuthorizeKeeps, DecodeKeeps, DecidedKeeps, UploadKeeps, WriteImageKeeps,
       ReturnKeeps, ResetKeeps, OutsideKeeps DEF CoverNext

LEMMA CoversEnd == CoverInv => CoversAreTrue
<1> SUFFICES ASSUME CoverInv PROVE CoversAreTrue
    OBVIOUS
<1>1. CoverTypes
    BY DEF CoverInv, PlacesInv, Sound, CoverTypes
<1>2. CompletedIsComplete
  <2>1. \A n \in Nat : n - n = 0
      OBVIOUS
  <2> QED
      BY <2>1 DEF CoverInv, Sound, SearchTask, CompletedIsComplete, Remaining
<1>3. FoundIsDone
  <2> SUFFICES ASSUME search # Unset, NEW i \in Len(search.results) + 1..Len(search.journals)
               PROVE  search.journals[i] \notin done
      BY DEF FoundIsDone
  <2>1. Len(search.results) \in Nat /\ Len(search.journals) \in Nat
      BY DEF CoverInv, Sound, SearchTask
  <2>2. i \in 1..Len(search.journals) /\ i > Len(search.results)
      BY <2>1
  <2> QED
      BY <2>2 DEF CoverInv, Sound
<1> QED
    BY <1>1, <1>2, <1>3 DEF CoverInv, CoversAreTrue

-----------------------------------------------------------------------------
(***************************************************************************)
(* JournalCovers: the theorems                                             *)
(***************************************************************************)
\* A cover search has the browser from start to finish or expiry; Completed is said when every Journal
\* was judged; Continue and Retry search nothing again that was found; and every record in the manifest
\* names an image that is there: for any list of Journals and images and any number of requests.
THEOREM CoversTellTheTruth == CoverSpec => []CoversAreTrue
<1> QED
    BY CoverInitInv, CoverStep, CoversEnd, PTL DEF CoverSpec

\* A search for missing covers replaces none, also not one that was uploaded after it looked, and an
\* image still being decoded when its request was canceled, expired or resumed is not recorded.
THEOREM LateCoversAreDropped == CoverSpec => CoversStand
<1>1. ASSUME CoverInv, [CoverNext]_coverVars
      PROVE  [\A j \in Journal :
                 saving # Unset /\ saving.by = "downloaded" /\ saving.missing /\ saving.journal = j
                   /\ manifest[j] # Unset /\ manifest'[j] # manifest[j] => manifest'[j].source = "uploaded"]_coverVars
  <2> SUFFICES ASSUME NEW j \in Journal, saving # Unset, saving.by = "downloaded", saving.missing, saving.journal = j,
                      manifest[j] # Unset, manifest'[j] # manifest[j]
               PROVE  manifest'[j].source = "uploaded"
      OBVIOUS
  <2>1. ~saving.imaged /\ decoding = Unset
      BY <1>1 DEF CoverInv, ImagedInv, HandInv
  <2>2. CASE UNCHANGED manifest
      BY <2>2
  <2>3. ASSUME NEW k \in Journal, NEW digest \in Digest, OtherProcessUploads(k, digest)
        PROVE  manifest'[j].source = "uploaded"
      BY <1>1, <2>3 DEF OtherProcessUploads, CoverInv, PlacesInv
  <2>4. ~WriteManifest /\ ~Reset /\ ~ResetFails
      BY <2>1 DEF WriteManifest, Imaged, Reset, ResetFails, Resettable, AssetLockFree
  <2>5. UNCHANGED manifest \/ \E k \in Journal, digest \in Digest : OtherProcessUploads(k, digest)
      BY <1>1, <2>4 DEF CoverNext, coverVars, assets, StartMissing, StartOne, Continue, Retry, Activate, SearchState, ClaimSearch,
                  Authorize, CancelSearch, Finish, Decode, Dropped, Decided, BeginSave, WriteImage, SaveSkips,
                  CoverSaveFails, Upload, ListChanges, ConnectionChanges, OtherTakes, OtherFrees, LeaseTick, RestartCovers
  <2> QED
      BY <2>2, <2>3, <2>5
<1>2. ASSUME CoverInv, [CoverNext]_coverVars
      PROVE  [decoding # Unset /\ decoding' = Unset /\ search' # Unset /\ search # Unset
                /\ (saving' # Unset \/ Len(search'.results) > Len(search.results))
                => search.request = decoding.request /\ search.phase = "Running"]_coverVars
  <2> SUFFICES ASSUME decoding # Unset, decoding' = Unset, search' # Unset, search # Unset,
                      saving' # Unset \/ Len(search'.results) > Len(search.results)
               PROVE  search.request = decoding.request /\ search.phase = "Running"
      OBVIOUS
  <2>1. Sound(search, done) /\ saving = Unset
      BY <1>2 DEF CoverInv, HandInv
  <2>2. CASE Decided \/ BeginSave
    <3>1. Matching(decoding.request)
        BY <2>2 DEF Decided, BeginSave
    <3> QED
        BY <2>1, <3>1, MatchFx
  <2>3. ~Dropped
    <3> SUFFICES ASSUME Dropped PROVE FALSE
        OBVIOUS
    <3>1. search' = LiveSearch /\ saving' = saving
        BY DEF Dropped, SearchBecomes
    <3>2. search'.results = search.results /\ Len(search.results) \in Nat
        BY <2>1, <3>1, LiveFx DEF Sound, SearchTask
    <3> QED
        BY <2>1, <3>1, <3>2
  <2>4. Decided \/ BeginSave \/ Dropped
      BY <1>2 DEF CoverNext, coverVars, assets, StartMissing, StartOne, Continue, Retry, Activate, SearchState, ClaimSearch,
             Authorize, CancelSearch, Finish, Decode, WriteImage, WriteManifest, SaveReturns, SaveSkips, AssetLockFree,
             CoverSaveFails, Upload, ListChanges, ConnectionChanges, OtherTakes, OtherFrees, LeaseTick, RestartCovers,
             Reset, ResetFails, Resettable, OtherProcessUploads
  <2> QED
      BY <2>2, <2>3, <2>4
<1> QED
    BY <1>1, <1>2, CoverInitInv, CoverStep, PTL DEF CoverSpec, CoversStand, MissingReplacesNothing, LateImageIsDropped
===============================================================================
