------------------------------ MODULE Settings ------------------------------
(***************************************************************************)
(* Settings: two files, monitor.yaml and list.md, written by three routes  *)
(* of the web process (Save, Import Confirm, Access Upgrade Confirm)       *)
(* (application/settings.py, full_markdown_import.py,                      *)
(* access_service_migration.py, web/app.py).  The routes are coroutines    *)
(* that never await inside a save, so one request runs at a time; what     *)
(* interleaves with it is an editor of the files, a failing disk and the   *)
(* end of the process.                                                     *)
(*                                                                         *)
(* A file is the record of what the code reads in it, and a revision, a    *)
(* SHA-256 of the text, is the text itself.  "shape" is "current",         *)
(* "legacy" or "damaged" ("missing" for monitor.yaml), "kept" the saved    *)
(* Publishers that carry a URL or an Access Service, "text" everything the *)
(* code copies unread.  An editor never brings back an earlier text.  The  *)
(* comparison and the os.replace of one file are one step here: the window *)
(* between them is the subject of WorkspaceFiles.                          *)
(***************************************************************************)
EXTENDS Naturals, FiniteSets

CONSTANTS Pages,          \* the browser's Settings pages
          Journals,       \* ISSN-Ls
          PublisherOf,    \* what OpenAlex says: Journal -> Publisher
          Seeded,         \* the Journals of the list.md it starts from
          Uploads,        \* the complete list.md files a page may import
          NoPage,         \* no draft, no plan, no request
          MaxEdits,       \* edits of the files by hand
          MaxRequests     \* requests that reach a write path

VARIABLES list, monitor,  \* the two files
          draft,          \* Page -> the draft and the two revisions it is based on
          proof,          \* Page -> the last plan the server signed for the page
          req,            \* the request being served
          result,         \* what the last request told its page
          edits, requests

vars == <<list, monitor, draft, proof, req, result, edits, requests>>

ActivePublishers(js) == {PublisherOf[j] : j \in js}

ListFiles == {f \in [shape : {"current", "legacy", "damaged"}, journals : SUBSET Journals,
                     kept : SUBSET ActivePublishers(Journals), text : 0 .. MaxEdits] :
                 f.kept \subseteq ActivePublishers(f.journals)}
MonitorFiles == [shape : {"current", "damaged", "missing"}, text : 0 .. MaxEdits, value : 0 .. 1]

\* A draft with the two files it is based on; and what a page was shown and signed: the loss a Save
\* brings, or the list.md an Import or an Upgrade puts in the place of another.
Drafts == [journals : SUBSET Journals, value : 0 .. 1, baseL : ListFiles, baseM : MonitorFiles]
Losses == [baseL : ListFiles, baseM : MonitorFiles, plan : SUBSET ActivePublishers(Journals)]

ASSUME SettingsAssumption ==
    /\ MaxEdits \in Nat
    /\ Uploads \subseteq {f \in ListFiles : f.text = 0}
    /\ NoPage \notin Drafts \cup Losses

\* plan_settings_deletions: a Journal the draft adds has no Publisher yet, so only the saved ones count
Plan(saved, d) == saved.kept \ ActivePublishers(d.journals \cap saved.journals)

\* the cascade _resolve_settings_targets finds once OpenAlex has answered for the new Journals
Cascade(saved, d) == saved.kept \ ActivePublishers(d.journals)

\* the files the draft asks for: render_settings_list_text and _render_monitor_yaml
ListTarget(saved, d) == [saved EXCEPT !.journals = d.journals,
                                      !.kept = @ \cap ActivePublishers(d.journals)]
MonitorTarget(saved, d) == [saved EXCEPT !.shape = "current", !.value = d.value]

\* load_settings: the draft of what the files hold, and their revisions
Loaded == [journals |-> list.journals,
           value    |-> monitor.value,
           baseL    |-> list,
           baseM    |-> monitor]

Idle == req.pc = "idle"

IdleReq == [pc |-> "idle", page |-> NoPage, draft |-> NoPage, approval |-> NoPage, storedL |-> NoPage, storedM |-> NoPage,
            wroteL |-> FALSE, wroteM |-> FALSE, meddled |-> FALSE]

NoResult == [outcome |-> "none", list |-> FALSE, monitor |-> FALSE,
             wroteL |-> FALSE, wroteM |-> FALSE, meddled |-> FALSE]

Init == /\ list \in {f \in ListFiles : /\ f.text = 0 /\ f.journals \in Seeded
                                       /\ f.kept = ActivePublishers(f.journals)}
        /\ monitor \in {f \in MonitorFiles : f.text = 0 /\ f.value = 0}
        /\ draft = [p \in Pages |-> NoPage]
        /\ proof = [p \in Pages |-> NoPage]
        /\ req = IdleReq
        /\ result = NoResult
        /\ edits = 0 /\ requests = 0

-----------------------------------------------------------------------------
(* Somebody else edits a file, at any time.                                *)

Meddled == req' = IF Idle THEN req ELSE [req EXCEPT !.meddled = TRUE]

EditList ==
    /\ edits < MaxEdits
    /\ edits' = edits + 1
    /\ \E shape \in {"current", "damaged"} : list' = [list EXCEPT !.shape = shape, !.text = edits']
    /\ Meddled
    /\ UNCHANGED <<monitor, draft, proof, result, requests>>

EditMonitor ==
    /\ edits < MaxEdits
    /\ edits' = edits + 1
    /\ \E shape \in {"current", "damaged"} : monitor' = [monitor EXCEPT !.shape = shape, !.text = edits']
    /\ Meddled
    /\ UNCHANGED <<list, draft, proof, result, requests>>

-----------------------------------------------------------------------------
(* The browser.                                                            *)

\* GET /settings and the confirmed Reload: both files are read again
Open(p) ==
    /\ Idle
    /\ draft' = [draft EXCEPT ![p] = Loaded]
    /\ proof' = [proof EXCEPT ![p] = NoPage]
    /\ result' = NoResult
    /\ UNCHANGED <<list, monitor, req, edits, requests>>

\* the form, edited: Journals added or removed, another monitor value
Change(p) ==
    /\ Idle /\ draft[p] # NoPage
    /\ \/ \E j \in Journals : draft' = [draft EXCEPT ![p].journals = IF j \in @ THEN @ \ {j} ELSE @ \cup {j}]
       \/ draft' = [draft EXCEPT ![p].value = 1 - @]
    /\ result' = NoResult
    /\ UNCHANGED <<list, monitor, proof, req, edits, requests>>

-----------------------------------------------------------------------------
(* Save.                                                                   *)

Refuse(outcome) ==
    /\ result' = [NoResult EXCEPT !.outcome = outcome, !.meddled = req.meddled,
                                  !.wroteL = req.wroteL, !.wroteM = req.wroteM]
    /\ req' = IdleReq

At(pc) == req.pc = pc /\ UNCHANGED <<edits, requests>>

D == req.draft
Goto(pc) == req' = [req EXCEPT !.pc = pc] /\ UNCHANGED result

NoIssues == list.shape # "damaged" /\ monitor.shape # "damaged"

\* save_settings_route: a plan that deletes is first shown and signed over the draft and the plan
AskFirst(p) ==
    LET d == draft[p]
        plan == Plan(list, d)
    IN  /\ Idle /\ d # NoPage /\ NoIssues
        /\ plan # {} /\ d.baseL = list /\ d.baseM = monitor
        /\ proof' = [proof EXCEPT ![p] = [kind |-> "save", draft |-> d, plan |-> plan]]
        /\ result' = [NoResult EXCEPT !.outcome = "preview"]
        /\ UNCHANGED <<list, monitor, draft, req, edits, requests>>

Submit(p) ==
    LET d == draft[p]
        plan == Plan(list, d)
        approved == plan # {} /\ proof[p] = [kind |-> "save", draft |-> d, plan |-> plan]
    IN  /\ Idle /\ d # NoPage /\ requests < MaxRequests
        /\ \/ approved
           \/ plan = {}
           \/ ~NoIssues \/ d.baseL # list \/ d.baseM # monitor
        /\ req' = [IdleReq EXCEPT !.pc = "load", !.page = p, !.draft = d,
                      !.approval = IF approved THEN [baseL |-> d.baseL, baseM |-> d.baseM, plan |-> plan]
                                               ELSE NoPage]
        /\ requests' = requests + 1
        /\ result' = NoResult
        /\ UNCHANGED <<list, monitor, draft, proof, edits>>

\* save_settings locks the old and the new Workspace; a holder or a bad path ends it
SaveRefused ==
    /\ At("load")
    /\ \E outcome \in {"WRITE_FAILED", "INVALID_DRAFT"} : Refuse(outcome)
    /\ UNCHANGED <<list, monitor, draft, proof>>

\* validate_settings: a draft the runtime's rules reject, whatever the files hold
DraftInvalid ==
    /\ At("load")
    /\ Refuse("INVALID_DRAFT")
    /\ UNCHANGED <<list, monitor, draft, proof>>

SaveLoads ==
    /\ At("load")
    /\ req' = [req EXCEPT !.pc = "snapshotM", !.storedL = list, !.storedM = monitor]
    /\ UNCHANGED <<list, monitor, draft, proof, result>>

\* Every comparison of a revision with the draft's: the monitor is read first, then the list
MonitorIsTheDrafts(pc, next) ==
    /\ At(pc)
    /\ IF monitor = D.baseM THEN Goto(next) ELSE Refuse("REVISION_CONFLICT")
    /\ UNCHANGED <<list, monitor, draft, proof>>

SnapshotMonitor == MonitorIsTheDrafts("snapshotM", "snapshotL")
RecheckMonitor == MonitorIsTheDrafts("recheckM", "recheckL")

ListChanged == D.journals # req.storedL.journals
MonitorChanged == \/ req.storedM.shape = "missing"
                  \/ D.value # req.storedM.value

\* what _save_settings refuses before it resolves anything
Storable ==
    LET plan == Plan(req.storedL, D)
    IN  /\ req.storedL.shape = "current"
        /\ req.storedM.shape # "damaged"
        /\ plan # {} => req.approval = [baseL |-> D.baseL, baseM |-> D.baseM, plan |-> plan]

SnapshotList ==
    /\ At("snapshotL")
    /\ IF list # D.baseL THEN Refuse("REVISION_CONFLICT")
       ELSE IF Storable THEN Goto("resolve") ELSE Refuse("INVALID_DRAFT")
    /\ UNCHANGED <<list, monitor, draft, proof>>

\* Mutant: what OpenAlex answers cannot widen the loss.
CascadeUnchecked == TRUE
\* _resolve_settings_targets: OpenAlex, then the cascade against the approval once more
CascadeApproved ==
    LET cascade == Cascade(req.storedL, D)
    IN  cascade # {} => req.approval = [baseL |-> D.baseL, baseM |-> D.baseM, plan |-> cascade]

Resolve ==
    /\ At("resolve")
    /\ \/ /\ ListChanged => CascadeApproved
          /\ Goto("recheckM")
       \/ /\ ListChanged
          /\ Refuse("INVALID_DRAFT")
    /\ UNCHANGED <<list, monitor, draft, proof>>

RecheckList ==
    /\ At("recheckL")
    /\ IF list = D.baseL THEN Goto("guardM") ELSE Refuse("REVISION_CONFLICT")
    /\ UNCHANGED <<list, monitor, draft, proof>>

\* the locks are verified before each replacement (a Workspace may have been moved), then the
\* revision of the file that is not written: before list.md is replaced the monitor's
GuardMonitor ==
    /\ At("guardM")
    /\ \/ (ListChanged => monitor = D.baseM) /\ Goto("writeL")
       \/ \E outcome \in {"REVISION_CONFLICT", "WRITE_FAILED"} : Refuse(outcome)
    /\ UNCHANGED <<list, monitor, draft, proof>>

WriteList ==
    /\ At("writeL")
    /\ IF ~ListChanged THEN Goto("guardL") /\ UNCHANGED list
       ELSE IF list # D.baseL THEN Refuse("REVISION_CONFLICT") /\ UNCHANGED list
       ELSE \/ /\ list' = ListTarget(list, D)                     \* replaced; "late": the fsync after it failed
               /\ \E pc \in {"guardL", "lateL"} :
                     req' = [req EXCEPT !.pc = pc, !.wroteL = TRUE, !.meddled = FALSE]
               /\ UNCHANGED result
            \/ Refuse("WRITE_FAILED") /\ UNCHANGED list           \* failed before it was replaced
    /\ UNCHANGED <<monitor, draft, proof>>

Answer(outcome, inList, inMonitor) ==
    /\ result' = [NoResult EXCEPT !.outcome = outcome, !.list = inList, !.monitor = inMonitor,
                     !.wroteL = req.wroteL, !.wroteM = req.wroteM, !.meddled = req.meddled]
    /\ req' = IdleReq

\* the write raised: what the disk holds now decides what is reported
LateList ==
    /\ At("lateL")
    /\ LET committed == list = ListTarget(D.baseL, D)
       IN  Answer(IF committed THEN "PARTIAL_SAVE" ELSE "WRITE_FAILED", committed, FALSE)
    /\ UNCHANGED <<list, monitor, draft, proof>>

GuardList ==
    /\ At("guardL")
    /\ \/ (ListChanged \/ list = D.baseL) /\ Goto("writeM")
       \/ ListChanged /\ Answer("PARTIAL_SAVE", TRUE, FALSE)
       \/ ~ListChanged /\ \E outcome \in {"REVISION_CONFLICT", "WRITE_FAILED"} : Refuse(outcome)
    /\ UNCHANGED <<list, monitor, draft, proof>>

Saved ==
    /\ Answer("SAVED", ListChanged, MonitorChanged)
    /\ draft' = [draft EXCEPT ![req.page] = Loaded]

WriteMonitor ==
    /\ At("writeM")
    /\ \/ /\ ~MonitorChanged
          /\ Goto("done")
          /\ UNCHANGED monitor
       \/ /\ MonitorChanged /\ monitor # D.baseM
          /\ Answer(IF ListChanged THEN "PARTIAL_SAVE" ELSE "REVISION_CONFLICT", ListChanged, FALSE)
          /\ UNCHANGED monitor
       \/ /\ MonitorChanged /\ monitor = D.baseM
          /\ monitor' = MonitorTarget(monitor, D)
          /\ \E pc \in {"done", "lateM"} : req' = [req EXCEPT !.pc = pc, !.wroteM = TRUE, !.meddled = FALSE]
          /\ UNCHANGED result
       \/ /\ MonitorChanged /\ monitor = D.baseM
          /\ Answer(IF ListChanged THEN "PARTIAL_SAVE" ELSE "WRITE_FAILED", ListChanged, FALSE)
          /\ UNCHANGED monitor
    /\ UNCHANGED <<list, draft, proof>>

\* Mutant: a write that raised is taken for none.
LateMonitorForNone ==
    /\ At("lateM") /\ Answer("WRITE_FAILED", FALSE, FALSE)
    /\ UNCHANGED <<list, monitor, draft, proof>>
LateMonitor ==
    /\ At("lateM")
    /\ LET committed == monitor = MonitorTarget(D.baseM, D)
       IN  Answer(IF ListChanged \/ committed THEN "PARTIAL_SAVE" ELSE "WRITE_FAILED", ListChanged, committed)
    /\ UNCHANGED <<list, monitor, draft, proof>>

SaveEnds ==
    /\ At("done")
    /\ Saved
    /\ UNCHANGED <<list, monitor, proof>>

-----------------------------------------------------------------------------
(* Import Preview and Confirm: list.md is replaced as a whole.             *)

PreviewImport(p) ==
    /\ Idle /\ draft[p] # NoPage /\ list.shape = "current"
    /\ \E new \in Uploads :
          proof' = [proof EXCEPT ![p] = [kind |-> "import", draft |-> draft[p], original |-> list,
                                         proposed |-> new]]
    /\ UNCHANGED <<list, monitor, draft, req, result, edits, requests>>

\* preview_access_schema_upgrade: only a legacy list, and its one rendering in the new schema
PreviewUpgrade(p) ==
    /\ Idle /\ draft[p] # NoPage /\ list.shape = "legacy"
    /\ proof' = [proof EXCEPT ![p] = [kind |-> "upgrade", draft |-> draft[p], original |-> list,
                                      proposed |-> [list EXCEPT !.shape = "current"]]]
    /\ UNCHANGED <<list, monitor, draft, req, result, edits, requests>>

\* the signed plan, the draft and both revisions must be what they were
Confirm(p) ==
    /\ Idle /\ requests < MaxRequests
    /\ proof[p] # NoPage /\ proof[p].kind # "save"
    /\ requests' = requests + 1
    /\ LET same == /\ proof[p].original = list /\ proof[p].draft = draft[p]
                   /\ draft[p].baseL = list /\ draft[p].baseM = monitor
       IN  IF same THEN /\ req' = [IdleReq EXCEPT !.pc = "verify", !.page = p, !.draft = draft[p],
                                                   !.approval = proof[p]]
                        /\ result' = NoResult
                   ELSE Refuse("NOT_WRITTEN")
    /\ UNCHANGED <<list, monitor, draft, proof, edits>>

\* OpenAlex confirms the new identities, or does not; then the file is previewed once more
Verify ==
    /\ At("verify")
    /\ \/ list = req.approval.original /\ Goto("replace")
       \/ Refuse("NOT_WRITTEN")
    /\ UNCHANGED <<list, monitor, draft, proof>>

\* replace_regular_text_at_identity; before_write is Import's check of the monitor, Upgrade has none
\* Mutant: any list that can be read is replaced.
UntouchedShape == list.shape # "damaged"
Untouched == /\ list = req.approval.original
             /\ req.approval.kind = "import" => monitor = D.baseM
Replace ==
    /\ At("replace")
    /\ IF Untouched
       THEN /\ list' = req.approval.proposed
            /\ req' = [req EXCEPT !.pc = "confirm", !.wroteL = TRUE, !.meddled = FALSE]
            /\ UNCHANGED result
       ELSE Refuse("NOT_WRITTEN") /\ UNCHANGED list
    /\ UNCHANGED <<monitor, draft, proof>>

\* the file is read back, with or without the directory's fsync
Confirmed ==
    /\ At("confirm")
    /\ IF list = req.approval.proposed
       THEN \E outcome \in {"IMPORTED", "IMPORTED_UNSYNCED"} :
               /\ Answer(outcome, TRUE, FALSE)
               /\ draft' = [draft EXCEPT ![req.page] = Loaded]
       ELSE Refuse("NOT_CONFIRMED") /\ UNCHANGED draft
    /\ UNCHANGED <<list, monitor, proof>>

-----------------------------------------------------------------------------
\* The process ends: the signing key and the CSRF token go with it, so every open page is refused
Crash ==
    /\ req' = IdleReq
    /\ result' = NoResult
    /\ draft' = [p \in Pages |-> NoPage]
    /\ proof' = [p \in Pages |-> NoPage]
    /\ UNCHANGED <<list, monitor, edits, requests>>

Browser(p) == Open(p) \/ Change(p) \/ AskFirst(p) \/ Submit(p) \/ PreviewImport(p) \/ PreviewUpgrade(p) \/ Confirm(p)

Saving == \/ SaveRefused \/ DraftInvalid \/ SaveLoads \/ SnapshotMonitor \/ SnapshotList \/ Resolve
          \/ RecheckMonitor \/ RecheckList \/ GuardMonitor \/ WriteList \/ LateList
          \/ GuardList \/ WriteMonitor \/ LateMonitor \/ SaveEnds

Importing == Verify \/ Replace \/ Confirmed

Next == EditList \/ EditMonitor \/ (\E p \in Pages : Browser(p)) \/ Saving \/ Importing \/ Crash

Spec == Init /\ [][Next]_vars
-----------------------------------------------------------------------------
ByHand == edits' # edits

\* Nobody's edit is overwritten unread: a route replaces a file only while it still holds what
\* the page was opened on, whatever was edited while OpenAlex was asked, and it never writes
\* over a file it could not parse (the revisions of _save_settings, before_write of Import).
OnlyWhatWasSeen ==
    [][ /\ (list' # list /\ ~ByHand) => /\ list = req.draft.baseL /\ list.shape # "damaged"
        /\ (monitor' # monitor /\ ~ByHand) =>
              /\ monitor = req.draft.baseM /\ monitor.shape # "damaged"
              /\ req.wroteL \/ req.draft.journals = req.draft.baseL.journals ]_vars

\* What a request told its page is what it did to the two files: SAVED means both files hold what
\* was asked, a refusal means neither was touched, a partial save names the one that was.  Only a
\* hand that edits the file right after it was replaced can hide a replacement from the answer.
OutcomeIsTrue ==
    LET r == result
    IN  /\ r.outcome \in {"REVISION_CONFLICT", "INVALID_DRAFT", "NOT_WRITTEN"} => ~r.wroteL /\ ~r.wroteM
        /\ r.outcome = "SAVED" => r.wroteL = r.list /\ r.wroteM = r.monitor
        /\ r.outcome \in {"WRITE_FAILED", "PARTIAL_SAVE"} /\ ~r.meddled =>
              r.wroteL = r.list /\ r.wroteM = r.monitor
        /\ r.outcome = "PARTIAL_SAVE" => r.wroteL \/ r.wroteM
        /\ r.outcome \in {"IMPORTED", "IMPORTED_UNSYNCED"} => r.wroteL

Lost == list.kept \ list'.kept

\* A Publisher with a saved URL or Access Service disappears from list.md only by a request whose
\* page was shown exactly this loss, signed over its draft and both revisions
\* (plan_settings_deletions, the proof of save_settings_route and of Import's plan).
LossWasShown ==
    [][ (list' # list /\ ~ByHand /\ Lost # {}) =>
          /\ req.approval # NoPage
          /\ \/ req.pc = "writeL" /\ req.approval.plan = Lost
             \/ req.pc = "replace" /\ req.approval.original = list /\ req.approval.proposed = list' ]_vars
=============================================================================
