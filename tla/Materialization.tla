---------------------------- MODULE Materialization ----------------------------
(***************************************************************************)
(* materialize.py with markdown_state.parse_paper_identity: a Run creates  *)
(* the Paper and Author notes it has no identity for and rewrites none.    *)
(* The Run owns the operation lock; the user's editor does not ask for it  *)
(* and acts between any two steps, and the process may stop anywhere.      *)
(*                                                                         *)
(* A note is what the scans read of it.  A path of Papers/ is the UUID of  *)
(* the Paper a Run would name it after, or one of the user's own names; a  *)
(* path of Authors/ is the stable key it is named after, a Paper's         *)
(* ordinal, or a user's name.                                              *)
(***************************************************************************)
EXTENDS Naturals, Sequences, FiniteSets

CONSTANTS
    Batch,        \* what a Run may bring: sequences of Papers [doi, authors]
    OwnName,      \* file names users give
    PaperText,    \* what users write in a Paper note
    AuthorText,   \* what users write in an Author note
    MaxRuns,      \* Runs (a bound)
    MaxNoteEdits, \* what users do (a bound)
    MaxPapers, MaxAuthors,   \* the longest of these, and of their lists of authors
    Bad,          \* a value that is no DOI
    Absent

VARIABLES
    notes, authors,   \* the notes: path -> text or Absent
    inbox,             \* Inbox.base: Absent, "default" or the user's "own"
    step,              \* where materialize_papers is
    run,               \* Runs begun
    incoming,          \* the canonical Papers of this Run
    at,                \* [paper, author]: the positions the two loops have reached
    matches,           \* _match_papers: "new", "existing" or "blocked", for each Paper
    index,             \* openalex_index and orcid_index: key -> paths
    target,            \* the Author note in hand
    links,             \* links[i]: the Author notes Paper i will name
    pending,           \* pending_paper_writes
    created,           \* created_papers
    edits,             \* how often users acted
    \* History, never read by the code:
    scanned,           \* what Papers/ held when this Run scanned it
    made,              \* the Paper notes this Run really made
    touched            \* whether users acted since the scan

notesDisk == <<notes, authors, inbox>>
work == <<step, run, incoming, at, matches, index, target, links, pending, created>>
matVars == <<notesDisk, work, edits, scanned, made, touched>>

-----------------------------------------------------------------------------
(***************************************************************************)
(* Identity                                                                *)
(***************************************************************************)
PaperId == (1..MaxRuns) \X (1..MaxPapers)   \* CanonicalPaper.id is fresh in each Run
PaperPath == PaperId \cup OwnName

Author == UNION {UNION {{b[i].authors[k] : k \in DOMAIN b[i].authors} : i \in DOMAIN b} : b \in Batch}
Keys(author) == ({<<"openalex", author.openalex>>} \cup {<<"orcid", author.orcid>>})
                    \ {<<"openalex", Absent>>, <<"orcid", Absent>>}
Key == UNION {Keys(a) : a \in Author \cup {t \in AuthorText : t.type = "author"}}
\* The notes a Run makes
AuthorNote(author) == [type |-> "author", name |-> author.name, openalex |-> author.openalex, orcid |-> author.orcid]
PaperOf(p, paper) == [type |-> "paper", id |-> p, doi |-> paper.doi, external |-> paper.doi, legacy |-> FALSE]

AuthorPath == Key \cup ({"unidentified"} \X PaperId \X (1..MaxAuthors)) \cup OwnName

\* What a Run brings are sequences within the bounds; no path and no note is the absent one; users'
\* Paper notes are what the scan may read of a file.
ASSUME NotesAssumption ==
    /\ {MaxRuns, MaxNoteEdits, MaxPapers, MaxAuthors} \subseteq Nat
    /\ \A b \in Batch : /\ b \in Seq({b[i] : i \in DOMAIN b}) /\ Len(b) <= MaxPapers
                        /\ \A i \in DOMAIN b : b[i].authors \in Seq(Author) /\ Len(b[i].authors) <= MaxAuthors
    /\ Absent \notin AuthorPath
    /\ \A i \in PaperId, b \in Batch : \A j \in DOMAIN b : PaperOf(i, b[j]) # Absent
    /\ \A a \in Author : AuthorNote(a) # Absent
    /\ \A text \in PaperText : text.type \in {"paper", "other", "broken"}

\* parse_paper_identity; a file that is no regular file enumerates nothing either.
Dois(note) == IF note.type = "paper" THEN {note.doi, note.external} \ {Absent, Bad} ELSE {}
Enumerable(note) == note.type = "paper" => (Dois(note) # {} /\ Bad \notin {note.doi, note.external})
Readable(note) == note.type \in {"paper", "other"}
Problems(note) == ~Enumerable(note) \/ note.id = Absent \/ Cardinality(Dois(note)) > 1 \/ note.legacy

\* _scan_papers
Notes(text) == {p \in PaperPath : text[p] # Absent}

Complete(text) == \A p \in Notes(text) : Readable(text[p]) /\ Enumerable(text[p])
WithDoi(text, doi) == {p \in Notes(text) : doi \in Dois(text[p])}
SameId(text, p) == {q \in Notes(text) : text[q].type = "paper" /\ text[q].id = text[p].id /\ text[q].id # Absent}

\* _identity_indexes: two notes with one DOI or one UUID
Conflicted(text, p) == \/ \E d \in Dois(text[p]) : WithDoi(text, d) # {p}
                       \/ Cardinality(SameId(text, p)) > 1

\* Mutant: the incoming Papers are not compared with each other
MatchOneByOne(text, batch, i) ==
    IF WithDoi(text, batch[i].doi) = {} THEN "new" ELSE "existing"

\* _match_papers.  No note has the UUID of a Paper of this Run: it is new.
Match(text, batch, i) ==
    LET doi == batch[i].doi
        found == WithDoi(text, doi)
        p == CHOOSE q \in found : TRUE
    IN  IF \/ doi \in {Absent, Bad}
           \/ \E j \in DOMAIN batch : j # i /\ batch[j].doi = doi
           \/ Cardinality(found) > 1
        THEN "blocked"
        ELSE IF found = {} THEN "new"
        ELSE IF Dois(text[p]) # {doi} \/ Problems(text[p]) \/ Conflicted(text, p) THEN "blocked"
        ELSE "existing"

\* _author_stem
Stem(author, i, k) ==
    IF author.openalex # Absent THEN <<"openalex", author.openalex>>
    ELSE IF author.orcid # Absent THEN <<"orcid", author.orcid>>
    ELSE <<"unidentified", <<run, i>>, k>>

\* _stable_author_compatible
Compatible(note, author) ==
    LET shared == {ns \in {"openalex", "orcid"} : \E x \in Keys(note), y \in Keys(author) : x[1] = ns /\ y[1] = ns}
    IN  CASE Keys(author) # {} /\ Keys(note) # {} ->
               shared # {} /\ \A ns \in shared : \A x \in Keys(note), y \in Keys(author) :
                                                    (x[1] = ns /\ y[1] = ns) => x = y
          [] Keys(note) # {} /\ Keys(author) = {} -> FALSE
          [] OTHER -> note.name = author.name

\* _scan_authors
ScanAuthors == [k \in Key |-> {p \in AuthorPath : authors[p] # Absent /\ authors[p].type = "author" /\ k \in Keys(authors[p])}]

-----------------------------------------------------------------------------
(***************************************************************************)
(* The Run                                                                 *)
(***************************************************************************)
MatInit ==
    /\ notes = [p \in PaperPath |-> Absent] /\ authors = [p \in AuthorPath |-> Absent] /\ inbox = Absent
    /\ step = "idle" /\ run = 0 /\ incoming = <<>> /\ at = [paper |-> 1, author |-> 1] /\ target = Absent
    /\ matches = <<>> /\ index = [k \in Key |-> {}]
    /\ links = [i \in 1..MaxPapers |-> <<>>] /\ pending = <<>> /\ created = {} /\ made = {}
    /\ edits = 0 /\ scanned = notes /\ touched = FALSE

\* What a call of materialize_papers starts with, and a stopped process has lost
Fresh ==
    /\ at' = [paper |-> 1, author |-> 1] /\ target' = Absent
    /\ links' = [i \in 1..MaxPapers |-> <<>>] /\ pending' = <<>> /\ created' = {} /\ made' = {}

Begin ==
    /\ step \in {"idle", "done"} /\ run < MaxRuns
    /\ run' = run + 1 /\ Fresh
    /\ incoming' \in Batch /\ step' = (IF incoming' = <<>> THEN "write" ELSE "prepare")
    /\ \/ matches' = [i \in DOMAIN incoming' |-> IF Complete(notes) THEN Match(notes, incoming', i) ELSE "blocked"]
       \/ matches' = [i \in DOMAIN incoming' |-> "blocked"]    \* a directory could not be opened
    /\ index' = ScanAuthors
    /\ scanned' = notes /\ touched' = FALSE
    /\ UNCHANGED <<notesDisk, edits>>

TheAuthor == incoming[at.paper].authors[at.author]
InHand == at.paper <= Len(incoming) /\ at.author <= Len(incoming[at.paper].authors)

\* on to the next Paper, or to the writes
MorePapers == at.paper < Len(incoming)
Onward ==
    /\ at' = [paper |-> at.paper + 1, author |-> 1] /\ target' = Absent
    /\ step' = IF MorePapers THEN "prepare" ELSE "write"

\* A Paper that is blocked or saved already
SkipPaper ==
    /\ step = "prepare" /\ matches[at.paper] # "new"
    /\ Onward
    /\ UNCHANGED <<notesDisk, run, incoming, matches, index, links, pending, created, edits, scanned, made, touched>>

\* _resolve_author_links, up to target.exists()
ChooseAuthor ==
    /\ step = "prepare" /\ matches[at.paper] = "new" /\ InHand
    /\ LET candidates == UNION {index[k] : k \in Keys(TheAuthor)}
           p == IF candidates = {} THEN Stem(TheAuthor, at.paper, at.author) ELSE CHOOSE q \in candidates : TRUE
       IN  IF Cardinality(candidates) > 1 \/ (authors[p] # Absent /\ authors[p].type = "irregular")
           THEN Onward
           ELSE target' = p /\ step' = (IF authors[p] = Absent THEN "create" ELSE "recheck") /\ UNCHANGED at
    /\ UNCHANGED <<notesDisk, run, incoming, matches, index, links, pending, created, edits, scanned, made, touched>>

\* _create_file: directory.create never replaces; a path taken meanwhile is "existing".
\* Mutant: the note is written over what is there.
KeptOverwrites(text, p, note) == [text EXCEPT ![p] = note]

Kept(text, p, note) == IF text[p] = Absent THEN [text EXCEPT ![p] = note] ELSE text

CreateAuthor ==
    /\ step = "create"
    /\ \/ authors' = Kept(authors, target, AuthorNote(TheAuthor)) /\ step' = "recheck" /\ UNCHANGED <<at, target>>
       \/ UNCHANGED authors /\ Onward    \* the write failed
    /\ UNCHANGED <<notes, inbox, run, incoming, matches, index, links, pending, created, edits, scanned, made, touched>>

\* The occupied note is read again, whoever made it.
RecheckAuthor ==
    LET note == authors[target]
        deterministic == target = Stem(TheAuthor, at.paper, at.author)
        usable == note # Absent /\ (CASE note.type = "author" -> Compatible(note, TheAuthor)
                                    [] note.type = "opaque" -> deterministic
                                    [] OTHER -> FALSE)
    IN  /\ step = "recheck"
        /\ IF usable
           THEN /\ links' = [links EXCEPT ![at.paper] = Append(@, target)]
                /\ index' = [k \in Key |-> IF note.type = "author" /\ k \in Keys(note)
                                           THEN index[k] \cup {target} ELSE index[k]]
                /\ at' = [at EXCEPT !.author = @ + 1] /\ step' = "prepare" /\ target' = Absent
           ELSE Onward /\ UNCHANGED <<links, index>>
        /\ UNCHANGED <<notesDisk, run, incoming, matches, pending, created, edits, scanned, made, touched>>

\* Its authors resolved, a Paper whose path is free is queued.
QueuePaper ==
    /\ step = "prepare" /\ matches[at.paper] = "new" /\ ~InHand
    /\ pending' = IF notes[<<run, at.paper>>] = Absent THEN Append(pending, at.paper) ELSE pending
    /\ Onward
    /\ UNCHANGED <<notesDisk, run, incoming, matches, index, links, created, edits, scanned, made, touched>>

PaperNote(i) == PaperOf(<<run, i>>, incoming[i])

\* The second loop: TextWriteCommittedError is a file made with an issue, so both count.
WritePaper ==
    /\ step = "write" /\ pending # <<>>
    /\ LET i == Head(pending)
           p == <<run, i>>
       IN  \/ /\ notes' = Kept(notes, p, PaperNote(i))
              /\ created' = (IF notes[p] = Absent THEN created \cup {p} ELSE created)
              /\ made' = (IF notes' # notes THEN made \cup {p} ELSE made)
           \/ UNCHANGED <<notes, created, made>>    \* the write failed
    /\ pending' = Tail(pending)
    /\ UNCHANGED <<authors, inbox, step, run, incoming, at, matches, index, target, links, edits, scanned, touched>>

Finish ==
    /\ step = "write" /\ pending = <<>>
    /\ step' = "done"
    /\ inbox' \in {inbox, IF inbox = Absent THEN "default" ELSE inbox}    \* made when there is none; that may fail
    /\ UNCHANGED <<notes, authors, run, incoming, at, matches, index, target, links, pending, created, edits, scanned, made, touched>>

RunStep == Begin \/ SkipPaper \/ ChooseAuthor \/ CreateAuthor \/ RecheckAuthor \/ QueuePaper \/ WritePaper \/ Finish

\* The process stops: files stay, all else is lost.
RunStops ==
    /\ step \notin {"idle", "done"}
    /\ step' = "idle" /\ Fresh /\ matches' = <<>> /\ index' = [k \in Key |-> {}]
    /\ UNCHANGED <<notesDisk, run, incoming, edits, scanned, touched>>

\* An editor writes or removes one note.  No one names a file after a UUID not yet drawn.
Drawn == (1..run) \X (1..MaxPapers)

EditNotes ==
    /\ edits < MaxNoteEdits /\ edits' = edits + 1 /\ touched' = TRUE
    /\ \/ /\ \E p \in Drawn \cup OwnName, text \in PaperText \cup {Absent} : notes' = [notes EXCEPT ![p] = text]
          /\ UNCHANGED <<authors, inbox>>
       \/ /\ \E p \in Key \cup ({"unidentified"} \X Drawn \X (1..MaxAuthors)) \cup OwnName, text \in AuthorText \cup {Absent} : authors' = [authors EXCEPT ![p] = text]
          /\ UNCHANGED <<notes, inbox>>
       \/ inbox' \in {Absent, "own"} /\ UNCHANGED <<notes, authors>>
    /\ UNCHANGED <<work, scanned, made>>

MatNext == RunStep \/ RunStops \/ EditNotes

MatSpec == MatInit /\ [][MatNext]_matVars

-----------------------------------------------------------------------------
(***************************************************************************)
(* Properties                                                              *)
(***************************************************************************)
MatTypeOK ==
    /\ step \in {"idle", "prepare", "create", "recheck", "write", "done"}
    /\ \A p \in PaperPath : notes[p] # Absent => notes[p].type \in {"paper", "other", "broken"}
    /\ created \subseteq PaperId /\ made \subseteq PaperId
    /\ \A i \in 1..MaxPapers : \A k \in DOMAIN links[i] : links[i][k] \in AuthorPath
    /\ (step \in {"create", "recheck"}) = (target # Absent)

\* A Run never edits nor removes a note that is there, whoever wrote it and
\* whenever: it appeared after the scan, after target.exists(), or in
\* another Run that stopped.
CreateOnly == [][RunStep => /\ \A p \in PaperPath : notes[p] # Absent => notes'[p] = notes[p]
                            /\ \A p \in AuthorPath : authors[p] # Absent => authors'[p] = authors[p]
                            /\ inbox # Absent => inbox' = inbox]_matVars

\* Already Saved holds: a Run never makes a second Paper of a DOI, neither
\* one it read, nor one it could not read and so might be anything, nor one
\* another incoming Paper has.
NoDoubleCapture ==
    \A p \in created :
        LET doi == incoming[p[2]].doi
        IN  /\ Complete(scanned) /\ WithDoi(scanned, doi) = {}
            /\ touched \/ WithDoi(notes, doi) = {p}

\* New Papers is the number of files made, whatever failed or raced.
CreatedAreMade == created = made

\* No author gets two notes: as long as no editor acted, two Author notes
\* never share a stable key, over all Runs and their crashes.
OneNotePerAuthor ==
    edits = 0 => \A p, q \in AuthorPath :
        (p # q /\ authors[p] # Absent /\ authors[q] # Absent) => Keys(authors[p]) \cap Keys(authors[q]) = {}

\* A Paper is only written when each of its authors has a note, and unless
\* an editor acted, the note is compatible with the author it stands for.
LinksResolve ==
    \A p \in created :
        LET i == p[2]
        IN  /\ Len(links[i]) = Len(incoming[i].authors)
            /\ ~touched => \A k \in DOMAIN links[i] :
                   /\ authors[links[i][k]] # Absent
                   /\ authors[links[i][k]].type = "author" => Compatible(authors[links[i][k]], incoming[i].authors[k])

\* A Run makes no second Paper of a DOI, counts what it made, and gives no author two notes.
NotesAreOnce == MatTypeOK /\ NoDoubleCapture /\ CreatedAreMade /\ OneNotePerAuthor /\ LinksResolve

================================================================================
