------------------------------ MODULE RunProofs ------------------------------
(***************************************************************************)
(* What a Run and its Settings promise: the retrieval and the evidence of  *)
(* CandidatePipeline, the commits and the outcome of MonitorRun, and the   *)
(* edits, losses and answers of Settings.                                  *)
(***************************************************************************)
EXTENDS Settings, MonitorRun, CandidatePipeline, TLAPS

-----------------------------------------------------------------------------
(***************************************************************************)
(* I.  Settings, for any number of pages, Journals, edits and requests.    *)
(***************************************************************************)

(***************************************************************************)
(* The inductive invariant                                                 *)
(***************************************************************************)
Pc == {"idle", "load", "snapshotM", "snapshotL", "resolve", "recheckM", "recheckL", "guardM", "writeL", "lateL",
       "guardL", "writeM", "lateM", "done", "verify", "replace", "confirm"}

\* A text made by hand carries the number of its edit, so no text is newer than the last edit.
OldList == {f \in ListFiles : f.text <= edits}
OldMonitor == {f \in MonitorFiles : f.text <= edits}
OldDraft == {d \in Drafts : d.baseL.text <= edits /\ d.baseM.text <= edits}

FilesOk == edits \in 0 .. MaxEdits /\ list \in OldList /\ monitor \in OldMonitor

\* What pages hold: their drafts, and plans that replace a list that could be read.
PagesOk ==
    /\ draft \in [Pages -> OldDraft \cup {NoPage}]
    /\ DOMAIN proof = Pages
    /\ \A p \in Pages : proof[p] # NoPage /\ proof[p].kind # "save" =>
          /\ proof[p].draft \in Drafts /\ proof[p].original.shape # "damaged"
          /\ proof[p].proposed \in OldList

Fields == {"pc", "page", "draft", "approval", "storedL", "storedM", "wroteL", "wroteM", "meddled"}

ReqOk ==
    /\ req = [f \in Fields |-> req[f]]
    /\ req.pc \in Pc /\ req.wroteL \in BOOLEAN /\ req.wroteM \in BOOLEAN
    /\ ~Idle => D \in OldDraft

\* The files as they were loaded are those of the draft, once both were compared: a file that was
\* edited since is newer than the draft and does not compare equal.
Loading ==
    /\ req.pc \in {"snapshotM", "snapshotL"} =>
          req.storedL \in ListFiles /\ (list = req.storedL \/ list.text > D.baseL.text)
    /\ req.pc = "snapshotM" => monitor = req.storedM \/ monitor.text > D.baseM.text
    /\ req.pc = "snapshotL" => req.storedM = D.baseM

Compared == {"resolve", "recheckM", "recheckL", "guardM", "writeL", "lateL", "guardL", "writeM", "lateM", "done"}

SavingOk ==
    /\ req.pc \in Compared => /\ req.storedL = D.baseL /\ req.storedM = D.baseM
                              /\ D.baseL.shape = "current" /\ D.baseM.shape # "damaged"
    /\ req.pc \in {"recheckM", "recheckL", "guardM", "writeL"} => (ListChanged => CascadeApproved)

\* What was written so far, and that an undisturbed file still holds it.
WrittenOk ==
    /\ req.pc \in {"idle", "load", "snapshotM", "snapshotL", "resolve", "recheckM", "recheckL", "guardM", "writeL",
                   "verify", "replace"} => ~req.wroteL
    /\ req.pc \notin {"lateM", "done"} => ~req.wroteM
    /\ req.pc \in {"guardL", "writeM", "lateM", "done"} => req.wroteL = ListChanged
    /\ req.pc = "done" => req.wroteM = MonitorChanged
    /\ req.pc = "lateL" => req.wroteL /\ (~req.meddled => list = ListTarget(D.baseL, D))
    /\ req.pc = "lateM" => req.wroteM /\ (~req.meddled => monitor = MonitorTarget(D.baseM, D))
    /\ req.pc = "confirm" => req.wroteL

ImportingOk ==
    req.pc \in {"verify", "replace"} =>
        /\ req.approval # NoPage /\ req.approval.original = D.baseL
        /\ req.approval.original.shape # "damaged" /\ req.approval.proposed \in OldList

SettingsInv ==
    FilesOk /\ PagesOk /\ ReqOk /\ Loading /\ SavingOk /\ WrittenOk /\ ImportingOk /\ OutcomeIsTrue

LEMMA SettingsInit == Init => SettingsInv
<1> SUFFICES ASSUME Init PROVE SettingsInv
  OBVIOUS
<1>1. FilesOk
  BY SettingsAssumption DEF Init, FilesOk, OldList, OldMonitor, ListFiles, MonitorFiles
<1>2. PagesOk
  BY DEF Init, PagesOk
<1>3. ReqOk /\ Loading /\ SavingOk /\ WrittenOk /\ ImportingOk
  BY DEF Init, IdleReq, ReqOk, Fields, Pc, Idle, Loading, SavingOk, Compared, WrittenOk, ImportingOk
<1>4. OutcomeIsTrue
  BY DEF Init, NoResult, OutcomeIsTrue
<1> QED BY <1>1, <1>2, <1>3, <1>4 DEF SettingsInv

(***************************************************************************)
(* Edits                                                                   *)
(***************************************************************************)
LEMMA EditStep == SettingsInv /\ (EditList \/ EditMonitor) => SettingsInv'
<1> SUFFICES ASSUME SettingsInv, EditList \/ EditMonitor PROVE SettingsInv'
  OBVIOUS
<1> USE DEF SettingsInv
<1>1. edits \in Nat /\ edits' = edits + 1 /\ edits' \in 0 .. MaxEdits
  BY SettingsAssumption DEF EditList, EditMonitor, FilesOk
<1>2. OldList \subseteq OldList' /\ OldMonitor \subseteq OldMonitor' /\ OldDraft \subseteq OldDraft'
  BY <1>1 DEF OldList, OldMonitor, OldDraft, Drafts, ListFiles, MonitorFiles
<1>3. list' \in OldList' /\ (list' = list \/ list'.text = edits')
  <2>1. list \in ListFiles
    BY DEF FilesOk, OldList
  <2>2. ASSUME NEW shape \in {"current", "damaged"}, list' = [list EXCEPT !.shape = shape, !.text = edits']
        PROVE  list' \in ListFiles /\ list'.text = edits'
    BY <1>1, <2>1, <2>2 DEF ListFiles
  <2>3. CASE EditList
    <3>1. list' \in ListFiles /\ list'.text = edits'
      BY <2>2, <2>3 DEF EditList
    <3> QED BY <1>1, <3>1 DEF OldList
  <2>4. CASE EditMonitor
    BY <1>2, <2>4 DEF EditMonitor, FilesOk
  <2> QED BY <2>3, <2>4
<1>4. monitor' \in OldMonitor' /\ (monitor' = monitor \/ monitor'.text = edits')
  <2>1. monitor \in MonitorFiles
    BY DEF FilesOk, OldMonitor
  <2>2. ASSUME NEW shape \in {"current", "damaged"}, monitor' = [monitor EXCEPT !.shape = shape, !.text = edits']
        PROVE  monitor' \in MonitorFiles /\ monitor'.text = edits'
    BY <1>1, <2>1, <2>2 DEF MonitorFiles
  <2>3. CASE EditMonitor
    <3>1. monitor' \in MonitorFiles /\ monitor'.text = edits'
      BY <2>2, <2>3 DEF EditMonitor
    <3> QED BY <1>1, <3>1 DEF OldMonitor
  <2>4. CASE EditList
    BY <1>2, <2>4 DEF EditList, FilesOk
  <2> QED BY <2>3, <2>4
<1>5. FilesOk'
  BY <1>1, <1>3, <1>4 DEF FilesOk
<1>6. PagesOk'
  BY <1>2 DEF PagesOk, EditList, EditMonitor
<1>7. result' = result
  BY DEF EditList, EditMonitor
<1>8. OutcomeIsTrue'
  BY <1>7 DEF OutcomeIsTrue
<1>9. CASE Idle
  <2>1. req' = req
    BY <1>9 DEF EditList, EditMonitor, Meddled
  <2> QED BY <1>5, <1>6, <1>8, <1>9, <2>1
       DEF ReqOk, Idle, Loading, SavingOk, Compared, WrittenOk, ImportingOk
<1>10. CASE ~Idle
  <2>1. req' = [req EXCEPT !.meddled = TRUE]
    BY <1>10 DEF EditList, EditMonitor, Meddled
  <2>2. /\ req'.pc = req.pc /\ req'.draft = req.draft /\ req'.approval = req.approval
        /\ req'.storedL = req.storedL /\ req'.storedM = req.storedM
        /\ req'.wroteL = req.wroteL /\ req'.wroteM = req.wroteM /\ req'.meddled
        /\ req' = [f \in Fields |-> req'[f]]
    BY <2>1 DEF ReqOk, Fields
  <2>3. ReqOk'
    BY <1>2, <1>10, <2>2 DEF ReqOk, Idle, D
  <2>4. D \in OldDraft /\ D' = D
    BY <1>10, <2>2 DEF ReqOk, D
  <2>5. Loading'
    <3>1. D.baseL.text \in Nat /\ D.baseM.text \in Nat /\ D.baseL.text <= edits /\ D.baseM.text <= edits
      BY <2>4 DEF OldDraft, Drafts, ListFiles, MonitorFiles
    <3>2. list' = list \/ list'.text > D.baseL.text
      BY <1>1, <1>3, <3>1
    <3>3. monitor' = monitor \/ monitor'.text > D.baseM.text
      BY <1>1, <1>4, <3>1
    <3> QED BY <2>2, <2>4, <3>2, <3>3 DEF Loading
  <2>6. SavingOk'
    BY <2>2, <2>4 DEF SavingOk, ListChanged, CascadeApproved, D
  <2>7. WrittenOk'
    BY <2>2, <2>4 DEF WrittenOk, ListChanged, MonitorChanged
  <2>8. ImportingOk'
    BY <1>2, <2>2, <2>4 DEF ImportingOk
  <2> QED BY <1>5, <1>6, <1>8, <2>3, <2>5, <2>6, <2>7, <2>8
<1> QED BY <1>9, <1>10

(***************************************************************************)
(* What every answer, and every step that only moves on, has in common     *)
(***************************************************************************)
Still == UNCHANGED <<list, monitor, edits>>

LEMMA EndStep ==
    ASSUME SettingsInv, Still, req' = IdleReq, PagesOk', OutcomeIsTrue'
    PROVE  SettingsInv'
<1>1. FilesOk'
  BY DEF Still, SettingsInv, FilesOk, OldList, OldMonitor
<1>2. ReqOk' /\ Loading' /\ SavingOk' /\ WrittenOk' /\ ImportingOk'
  BY DEF IdleReq, ReqOk, Fields, Pc, Idle, Loading, SavingOk, Compared, WrittenOk, ImportingOk
<1> QED BY <1>1, <1>2 DEF SettingsInv

LEMMA LoadedIsOld == SettingsInv => Loaded \in OldDraft
<1> SUFFICES ASSUME SettingsInv PROVE Loaded \in OldDraft
  OBVIOUS
<1>1. list \in ListFiles /\ monitor \in MonitorFiles /\ list.text <= edits /\ monitor.text <= edits
  BY DEF SettingsInv, FilesOk, OldList, OldMonitor
<1>2. list.journals \subseteq Journals /\ monitor.value \in 0 .. 1
  BY <1>1 DEF ListFiles, MonitorFiles
<1> QED BY <1>1, <1>2 DEF Loaded, OldDraft, Drafts

LEMMA SamePages == SettingsInv /\ Still /\ UNCHANGED <<draft, proof>> => PagesOk'
BY DEF SettingsInv, Still, PagesOk, OldDraft, OldList

LEMMA ReloadedPages ==
    ASSUME SettingsInv, Still, NEW p, draft' = [draft EXCEPT ![p] = Loaded], proof' = proof
    PROVE  PagesOk'
BY LoadedIsOld DEF SettingsInv, Still, PagesOk, OldDraft, OldList

\* A refusal before anything was written, or one that does not claim it.
LEMMA RefuseStep ==
    ASSUME SettingsInv, Still, UNCHANGED <<draft, proof>>, NEW outcome, Refuse(outcome),
           outcome # "NOT_CONFIRMED" =>
              ~req.wroteL /\ ~req.wroteM
                /\ outcome \in {"REVISION_CONFLICT", "INVALID_DRAFT", "NOT_WRITTEN", "WRITE_FAILED"}
    PROVE  SettingsInv'
<1>1. /\ result'.outcome = outcome /\ result'.list = FALSE /\ result'.monitor = FALSE
      /\ result'.wroteL = req.wroteL /\ result'.wroteM = req.wroteM
  BY DEF Refuse, NoResult
<1>2. outcome # "NOT_CONFIRMED" => req.wroteL = FALSE /\ req.wroteM = FALSE
  BY DEF SettingsInv, ReqOk
<1>3. OutcomeIsTrue'
  BY <1>1, <1>2 DEF OutcomeIsTrue
<1> QED BY <1>3, EndStep, SamePages DEF Refuse

LEMMA AnswerStep ==
    ASSUME SettingsInv, Still, PagesOk', NEW outcome, NEW inList, NEW inMonitor, Answer(outcome, inList, inMonitor),
           outcome = "REVISION_CONFLICT" => ~req.wroteL /\ ~req.wroteM,
           outcome = "SAVED" => req.wroteL = inList /\ req.wroteM = inMonitor,
           outcome \in {"WRITE_FAILED", "PARTIAL_SAVE"} /\ ~req.meddled => req.wroteL = inList /\ req.wroteM = inMonitor,
           outcome = "PARTIAL_SAVE" => req.wroteL \/ req.wroteM,
           outcome \in {"IMPORTED", "IMPORTED_UNSYNCED"} => req.wroteL,
           outcome \notin {"INVALID_DRAFT", "NOT_WRITTEN"}
    PROVE  SettingsInv'
<1>1. /\ result'.outcome = outcome /\ result'.list = inList /\ result'.monitor = inMonitor
      /\ result'.wroteL = req.wroteL /\ result'.wroteM = req.wroteM /\ result'.meddled = req.meddled
  BY DEF Answer, NoResult
<1>2. OutcomeIsTrue'
  BY <1>1 DEF OutcomeIsTrue
<1> QED BY <1>2, EndStep DEF Answer

\* The request goes on; what its next step relies on is shown where it does.
LEMMA GotoStep ==
    ASSUME SettingsInv, Still, UNCHANGED <<draft, proof>>, ~Idle, NEW pc \in Pc \ {"idle"}, Goto(pc)
    PROVE  /\ FilesOk' /\ PagesOk' /\ ReqOk' /\ OutcomeIsTrue'
           /\ req'.pc = pc /\ req'.draft = req.draft /\ req'.approval = req.approval
           /\ req'.storedL = req.storedL /\ req'.storedM = req.storedM /\ req'.meddled = req.meddled
           /\ req'.wroteL = req.wroteL /\ req'.wroteM = req.wroteM
<1>1. FilesOk' /\ PagesOk' /\ OutcomeIsTrue'
  BY SamePages DEF Goto, Still, SettingsInv, FilesOk, OldList, OldMonitor, OutcomeIsTrue
<1>2. /\ req'.pc = pc /\ req'.draft = req.draft /\ req'.approval = req.approval
      /\ req'.storedL = req.storedL /\ req'.storedM = req.storedM /\ req'.meddled = req.meddled
      /\ req'.wroteL = req.wroteL /\ req'.wroteM = req.wroteM
      /\ req' = [f \in Fields |-> req'[f]]
  BY DEF Goto, SettingsInv, ReqOk, Fields
<1>3. ReqOk'
  BY <1>2 DEF SettingsInv, ReqOk, Idle, D, Still, OldDraft
<1> QED BY <1>1, <1>2, <1>3

(***************************************************************************)
(* The browser                                                             *)
(***************************************************************************)
LEMMA BrowserStep ==
    ASSUME SettingsInv, NEW p \in Pages, Browser(p)
    PROVE  SettingsInv'
<1> USE DEF SettingsInv
\* A step between two requests changes what pages hold and what they were told.
<1>1. ASSUME Still, req' = req, Idle, PagesOk', result'.outcome \in {"none", "preview"} \/ result' = result
      PROVE  SettingsInv'
  <2>1. FilesOk'
    BY <1>1 DEF Still, FilesOk, OldList, OldMonitor
  <2>2. ReqOk' /\ Loading' /\ SavingOk' /\ WrittenOk' /\ ImportingOk'
    BY <1>1 DEF ReqOk, Idle, Loading, SavingOk, Compared, WrittenOk, ImportingOk
  <2>3. OutcomeIsTrue'
    BY <1>1 DEF OutcomeIsTrue
  <2> QED BY <1>1, <2>1, <2>2, <2>3
<1>2. ASSUME Still, draft' = draft, NEW signed, proof' = [proof EXCEPT ![p] = signed],
             \/ signed = NoPage \/ signed.kind = "save"
             \/ /\ signed.draft \in Drafts /\ signed.original.shape # "damaged" /\ signed.proposed \in OldList
      PROVE  PagesOk'
  BY <1>2 DEF PagesOk, Still, OldDraft, OldList
<1>3. CASE Open(p)
  <2>1. PagesOk'
    BY <1>3, LoadedIsOld DEF Open, PagesOk, OldDraft, OldList
  <2> QED BY <1>1, <1>3, <2>1 DEF Open, Still, NoResult
<1>4. CASE Change(p)
  <2>1. draft[p] \in Drafts /\ draft[p] \in OldDraft
    BY <1>4 DEF Change, PagesOk, OldDraft
  <2>2. ASSUME NEW d, d \in Drafts, d.baseL = draft[p].baseL, d.baseM = draft[p].baseM, draft' = [draft EXCEPT ![p] = d]
        PROVE  PagesOk'
    BY <1>4, <2>1, <2>2 DEF Change, PagesOk, OldDraft, OldList
  <2>3. ASSUME \E j \in Journals :
                  draft' = [draft EXCEPT ![p].journals = IF j \in @ THEN @ \ {j} ELSE @ \cup {j}]
        PROVE  PagesOk'
    <3>1. PICK j \in Journals : draft' = [draft EXCEPT ![p].journals = IF j \in @ THEN @ \ {j} ELSE @ \cup {j}]
      BY <2>3
    <3> DEFINE js == IF j \in draft[p].journals THEN draft[p].journals \ {j} ELSE draft[p].journals \cup {j}
               d == [draft[p] EXCEPT !.journals = js]
    <3>2. js \subseteq Journals
      BY <2>1 DEF Drafts
    <3>3. d \in Drafts /\ d.baseL = draft[p].baseL /\ d.baseM = draft[p].baseM
      BY <2>1, <3>2 DEF Drafts
    <3>4. draft' = [draft EXCEPT ![p] = d]
      BY <3>1
    <3> QED BY <2>2, <3>3, <3>4
  <2>4. ASSUME draft' = [draft EXCEPT ![p].value = 1 - @] PROVE PagesOk'
    <3> DEFINE d == [draft[p] EXCEPT !.value = 1 - @]
    <3>1. draft[p].value \in 0 .. 1 /\ 1 - draft[p].value \in 0 .. 1
      BY <2>1 DEF Drafts
    <3>2. d \in Drafts /\ d.baseL = draft[p].baseL /\ d.baseM = draft[p].baseM
      BY <2>1, <3>1 DEF Drafts
    <3> QED BY <2>2, <2>4, <3>2
  <2>5. PagesOk'
    BY <1>4, <2>3, <2>4 DEF Change
  <2> QED BY <1>1, <1>4, <2>5 DEF Change, Still, NoResult
<1>5. CASE AskFirst(p)
  <2>1. PagesOk'
    BY <1>2, <1>5 DEF AskFirst, Still
  <2> QED BY <1>1, <1>5, <2>1 DEF AskFirst, Still, NoResult
<1>6. CASE PreviewImport(p)
  <2>1. PICK new \in Uploads : proof' = [proof EXCEPT ![p] = [kind |-> "import", draft |-> draft[p], original |-> list,
                                                              proposed |-> new]]
    BY <1>6 DEF PreviewImport
  <2>2. new \in OldList /\ draft[p] \in Drafts
    BY <1>6, SettingsAssumption DEF PreviewImport, OldList, FilesOk, PagesOk, OldDraft
  <2>3. PagesOk'
    BY <1>2, <1>6, <2>1, <2>2 DEF PreviewImport, Still
  <2> QED BY <1>1, <1>6, <2>3 DEF PreviewImport, Still
<1>7. CASE PreviewUpgrade(p)
  <2>1. [list EXCEPT !.shape = "current"] \in OldList /\ draft[p] \in Drafts
    BY <1>7 DEF PreviewUpgrade, OldList, ListFiles, FilesOk, PagesOk, OldDraft
  <2>2. PagesOk'
    BY <1>2, <1>7, <2>1 DEF PreviewUpgrade, Still
  <2> QED BY <1>1, <1>7, <2>2 DEF PreviewUpgrade, Still
\* A request begins with a draft that is as old as its page.
<1>8. ASSUME Still, UNCHANGED <<draft, proof>>, draft[p] \in OldDraft, result' = NoResult, NEW approval,
             \/ req' = [IdleReq EXCEPT !.pc = "load", !.page = p, !.draft = draft[p], !.approval = approval]
             \/ /\ req' = [IdleReq EXCEPT !.pc = "verify", !.page = p, !.draft = draft[p], !.approval = approval]
                /\ approval # NoPage /\ approval.original = draft[p].baseL
                /\ approval.original.shape # "damaged" /\ approval.proposed \in OldList
      PROVE  SettingsInv'
  <2>1. FilesOk' /\ PagesOk' /\ OutcomeIsTrue'
    BY <1>8, SamePages DEF Still, FilesOk, OldList, OldMonitor, OutcomeIsTrue, NoResult
  <2>2. /\ req'.pc \in {"load", "verify"} /\ req'.draft = draft[p] /\ ~req'.wroteL /\ ~req'.wroteM
        /\ req'.pc = "verify" => req'.approval = approval
        /\ req' = [f \in Fields |-> req'[f]]
    BY <1>8 DEF IdleReq, Fields
  <2>3. req'.wroteL = FALSE /\ req'.wroteM = FALSE
    BY <1>8 DEF IdleReq
  <2>4. ReqOk'
    BY <1>8, <2>2, <2>3 DEF ReqOk, Pc, Idle, D, Still, OldDraft
  <2>5. Loading' /\ SavingOk' /\ WrittenOk'
    BY <2>2 DEF Loading, SavingOk, Compared, WrittenOk
  <2>6. ImportingOk'
    <3>1. CASE req'.pc = "load"
      BY <3>1 DEF ImportingOk
    <3>2. CASE req'.pc = "verify"
      <4>1. req'.approval = approval /\ approval # NoPage /\ approval.original = draft[p].baseL
            /\ approval.original.shape # "damaged" /\ approval.proposed \in OldList
        BY <1>8, <2>2, <3>2 DEF IdleReq
      <4> QED BY <1>8, <2>2, <4>1 DEF ImportingOk, D, Still, OldList
    <3> QED BY <2>2, <3>1, <3>2
  <2> QED BY <2>1, <2>4, <2>5, <2>6
<1>9. CASE Submit(p)
  <2>1. draft[p] \in OldDraft
    BY <1>9 DEF Submit, PagesOk
  <2> QED BY <1>8, <1>9, <2>1 DEF Submit, Still
<1>10. CASE Confirm(p)
  <2>1. proof[p].draft \in Drafts /\ proof[p].original.shape # "damaged" /\ proof[p].proposed \in OldList
    BY <1>10 DEF Confirm, PagesOk
  <2>2. CASE Refuse("NOT_WRITTEN")
    BY <1>10, <2>2, RefuseStep DEF Confirm, Still, Idle, WrittenOk
  <2>3. CASE ~Refuse("NOT_WRITTEN")
    <3>1. /\ proof[p].original = list /\ proof[p].draft = draft[p] /\ draft[p].baseL = list
          /\ req' = [IdleReq EXCEPT !.pc = "verify", !.page = p, !.draft = draft[p], !.approval = proof[p]]
          /\ result' = NoResult
      BY <1>10, <2>3 DEF Confirm
    <3>2. draft[p] \in OldDraft
      BY <2>1, <3>1, SettingsAssumption DEF PagesOk
    <3> QED BY <1>8, <1>10, <2>1, <3>1, <3>2 DEF Confirm, Still
  <2> QED BY <2>2, <2>3
<1> QED BY <1>3, <1>4, <1>5, <1>6, <1>7, <1>9, <1>10 DEF Browser

(***************************************************************************)
(* Save                                                                    *)
(***************************************************************************)
\* From the first read to the last comparison nothing is written.
LEMMA ComparingStep ==
    ASSUME SettingsInv,
           SaveRefused \/ DraftInvalid \/ SaveLoads \/ SnapshotMonitor \/ SnapshotList \/ Resolve
             \/ RecheckMonitor \/ RecheckList \/ GuardMonitor \/ GuardList
    PROVE  SettingsInv'
<1> USE DEF SettingsInv
<1>1. CASE SaveRefused \/ DraftInvalid
  BY <1>1, RefuseStep DEF SaveRefused, DraftInvalid, At, Still, WrittenOk
<1>2. CASE SaveLoads
  <2>1. /\ req'.pc = "snapshotM" /\ req'.draft = req.draft /\ req'.approval = req.approval
        /\ req'.storedL = list /\ req'.storedM = monitor
        /\ req'.wroteL = req.wroteL /\ req'.wroteM = req.wroteM
        /\ req' = [f \in Fields |-> req'[f]]
    BY <1>2 DEF SaveLoads, ReqOk, Fields
  <2>2. Still /\ UNCHANGED <<draft, proof, result>> /\ req.pc = "load"
    BY <1>2 DEF SaveLoads, At, Still
  <2>3. FilesOk' /\ PagesOk' /\ OutcomeIsTrue'
    BY <2>2, SamePages DEF Still, FilesOk, OldList, OldMonitor, OutcomeIsTrue
  <2>4. ReqOk'
    BY <2>1, <2>2 DEF ReqOk, Pc, Idle, D, Still, OldDraft
  <2>5. Loading' /\ SavingOk' /\ WrittenOk' /\ ImportingOk'
    BY <2>1, <2>2 DEF Still, FilesOk, OldList, Loading, SavingOk, Compared, WrittenOk, ImportingOk
  <2> QED BY <2>3, <2>4, <2>5
<1>3. CASE SnapshotMonitor
  <2>1. req.pc = "snapshotM" /\ Still /\ UNCHANGED <<draft, proof>>
    BY <1>3 DEF SnapshotMonitor, MonitorIsTheDrafts, At, Still
  <2>2. CASE Refuse("REVISION_CONFLICT")
    BY <2>1, <2>2, RefuseStep DEF WrittenOk
  <2>3. CASE monitor = D.baseM /\ Goto("snapshotL")
    <3>1. D.baseM.text \in Nat
      BY <2>1 DEF ReqOk, Idle, OldDraft, Drafts, MonitorFiles
    <3>2. req.storedM = D.baseM
      BY <2>1, <2>3, <3>1 DEF Loading
    <3>3. /\ FilesOk' /\ PagesOk' /\ ReqOk' /\ OutcomeIsTrue'
          /\ req'.pc = "snapshotL" /\ req'.draft = req.draft
          /\ req'.storedL = req.storedL /\ req'.storedM = req.storedM
          /\ req'.wroteL = req.wroteL /\ req'.wroteM = req.wroteM
      BY <2>1, <2>3, GotoStep DEF Idle, Pc
    <3>4. Loading' /\ SavingOk' /\ WrittenOk' /\ ImportingOk'
      BY <2>1, <3>2, <3>3 DEF D, Still, Loading, SavingOk, Compared, WrittenOk, ImportingOk
    <3> QED BY <3>3, <3>4
  <2> QED BY <1>3, <2>2, <2>3 DEF SnapshotMonitor, MonitorIsTheDrafts
<1>4. CASE SnapshotList
  <2>1. req.pc = "snapshotL" /\ Still /\ UNCHANGED <<draft, proof>>
    BY <1>4 DEF SnapshotList, At, Still
  <2>2. CASE Refuse("REVISION_CONFLICT") \/ Refuse("INVALID_DRAFT")
    BY <2>1, <2>2, RefuseStep DEF WrittenOk
  <2>3. CASE list = D.baseL /\ Storable /\ Goto("resolve")
    <3>1. D.baseL.text \in Nat
      BY <2>1 DEF ReqOk, Idle, OldDraft, Drafts, ListFiles
    <3>2. req.storedL = D.baseL /\ req.storedM = D.baseM
      BY <2>1, <2>3, <3>1 DEF Loading
    <3>3. D.baseL.shape = "current" /\ D.baseM.shape # "damaged"
      BY <2>3, <3>2 DEF Storable
    <3>4. /\ FilesOk' /\ PagesOk' /\ ReqOk' /\ OutcomeIsTrue'
          /\ req'.pc = "resolve" /\ req'.draft = req.draft
          /\ req'.storedL = req.storedL /\ req'.storedM = req.storedM
          /\ req'.wroteL = req.wroteL /\ req'.wroteM = req.wroteM
      BY <2>1, <2>3, GotoStep DEF Idle, Pc
    <3>5. Loading' /\ SavingOk' /\ WrittenOk' /\ ImportingOk'
      BY <2>1, <3>2, <3>3, <3>4 DEF D, Still, Loading, SavingOk, Compared, WrittenOk, ImportingOk
    <3> QED BY <3>4, <3>5
  <2> QED BY <1>4, <2>2, <2>3 DEF SnapshotList
\* Past the comparisons of the snapshot a step that only goes on keeps what they established.
<1>5. ASSUME Still, UNCHANGED <<draft, proof>>, req.pc \in {"resolve", "recheckM", "recheckL", "guardM", "guardL"},
             NEW pc \in {"recheckM", "recheckL", "guardM", "writeL", "writeM"}, Goto(pc),
             pc = "writeM" <=> req.pc = "guardL",
             req.pc = "resolve" => (ListChanged => CascadeApproved)
      PROVE  SettingsInv'
  <2>1. /\ FilesOk' /\ PagesOk' /\ ReqOk' /\ OutcomeIsTrue'
        /\ req'.pc = pc /\ req'.draft = req.draft /\ req'.approval = req.approval
        /\ req'.storedL = req.storedL /\ req'.storedM = req.storedM /\ req'.meddled = req.meddled
        /\ req'.wroteL = req.wroteL /\ req'.wroteM = req.wroteM
    BY <1>5, GotoStep DEF Idle, Pc, Compared
  <2>2. D' = D /\ ListChanged' = ListChanged /\ CascadeApproved' = CascadeApproved
    BY <2>1 DEF D, ListChanged, CascadeApproved
  <2>3. SavingOk'
    BY <1>5, <2>1, <2>2 DEF SavingOk, Compared
  <2>4. Loading' /\ ImportingOk'
    BY <1>5, <2>1 DEF Loading, ImportingOk
  <2>5. WrittenOk'
    BY <1>5, <2>1, <2>2 DEF WrittenOk, Compared
  <2> QED BY <2>1, <2>3, <2>4, <2>5
<1>6. CASE Resolve
  BY <1>5, <1>6, RefuseStep DEF Resolve, At, Still, Compared, WrittenOk
<1>7. CASE RecheckMonitor
  BY <1>5, <1>7, RefuseStep DEF RecheckMonitor, MonitorIsTheDrafts, At, Still, Compared, WrittenOk
<1>8. CASE RecheckList
  BY <1>5, <1>8, RefuseStep DEF RecheckList, At, Still, Compared, WrittenOk
<1>9. CASE GuardMonitor
  BY <1>5, <1>9, RefuseStep DEF GuardMonitor, At, Still, Compared, WrittenOk
<1>10. CASE GuardList
  <2>1. Still /\ UNCHANGED <<draft, proof>> /\ PagesOk'
    BY <1>10, SamePages DEF GuardList, At, Still
  <2>2. req.wroteL = ListChanged /\ req.wroteM = FALSE
    BY <1>10 DEF GuardList, At, WrittenOk, ReqOk
  <2>3. ASSUME ListChanged, Answer("PARTIAL_SAVE", TRUE, FALSE) PROVE SettingsInv'
    BY <2>1, <2>2, <2>3, AnswerStep
  <2>4. ASSUME ~ListChanged, NEW outcome \in {"REVISION_CONFLICT", "WRITE_FAILED"}, Refuse(outcome) PROVE SettingsInv'
    BY <2>1, <2>2, <2>4, RefuseStep
  <2> QED BY <1>5, <1>10, <2>3, <2>4 DEF GuardList, At, Still
<1> QED BY <1>1, <1>2, <1>3, <1>4, <1>6, <1>7, <1>8, <1>9, <1>10

LEMMA TargetsAreOld ==
    ASSUME SettingsInv, NEW d \in OldDraft
    PROVE  /\ \A f \in OldList : ListTarget(f, d) \in OldList
           /\ \A f \in OldMonitor : MonitorTarget(f, d) \in OldMonitor
<1>1. d.journals \subseteq Journals /\ d.value \in 0 .. 1
  BY DEF OldDraft, Drafts
<1>2. ASSUME NEW f \in OldList PROVE ListTarget(f, d) \in OldList
  <2> DEFINE kept == f.kept \cap ActivePublishers(d.journals)
  <2>1. f \in ListFiles /\ f.text <= edits
    BY <1>2 DEF OldList
  <2>2. kept \subseteq ActivePublishers(d.journals) /\ kept \subseteq ActivePublishers(Journals)
    BY <2>1 DEF ListFiles
  <2>3. ListTarget(f, d) = [f EXCEPT !.journals = d.journals, !.kept = kept]
    BY DEF ListTarget
  <2> HIDE DEF kept
  <2>4. ListTarget(f, d) \in ListFiles /\ ListTarget(f, d).text = f.text
    BY <1>1, <2>1, <2>2, <2>3 DEF ListFiles
  <2> QED BY <2>1, <2>4 DEF OldList
<1>3. ASSUME NEW f \in OldMonitor PROVE MonitorTarget(f, d) \in OldMonitor
  <2>1. f \in MonitorFiles /\ f.text <= edits
    BY <1>3 DEF OldMonitor
  <2>2. MonitorTarget(f, d) \in MonitorFiles /\ MonitorTarget(f, d).text = f.text
    BY <1>1, <2>1 DEF MonitorFiles, MonitorTarget
  <2> QED BY <2>1, <2>2 DEF OldMonitor
<1> QED BY <1>2, <1>3

\* The two replacements: the file is the one the draft is based on, and becomes what it asks for.
LEMMA WriteListStep == SettingsInv /\ WriteList => SettingsInv'
<1> SUFFICES ASSUME SettingsInv, WriteList PROVE SettingsInv'
  OBVIOUS
<1> USE DEF SettingsInv
<1>1. /\ req.pc = "writeL" /\ UNCHANGED <<monitor, edits, draft, proof>>
      /\ req.wroteL = FALSE /\ req.wroteM = FALSE
  BY DEF WriteList, At, WrittenOk, ReqOk
<1>2. CASE ~ListChanged /\ Goto("guardL") /\ UNCHANGED list
  <2>1. /\ FilesOk' /\ PagesOk' /\ ReqOk' /\ OutcomeIsTrue'
        /\ req'.pc = "guardL" /\ req'.draft = req.draft
        /\ req'.storedL = req.storedL /\ req'.storedM = req.storedM
        /\ req'.wroteL = req.wroteL /\ req'.wroteM = req.wroteM
    BY <1>1, <1>2, GotoStep DEF Still, Idle, Pc
  <2>2. D' = D /\ ListChanged' = FALSE
    BY <1>2, <2>1 DEF D, ListChanged
  <2> QED BY <1>1, <2>1, <2>2 DEF Loading, SavingOk, Compared, WrittenOk, ImportingOk
<1>3. CASE UNCHANGED list /\ (Refuse("REVISION_CONFLICT") \/ Refuse("WRITE_FAILED"))
  BY <1>1, <1>3, RefuseStep DEF Still
<1>4. ASSUME ListChanged, list = D.baseL, list' = ListTarget(list, D), NEW pc \in {"guardL", "lateL"},
             req' = [req EXCEPT !.pc = pc, !.wroteL = TRUE, !.meddled = FALSE], UNCHANGED result
      PROVE  SettingsInv'
  <2>1. /\ req'.pc = pc /\ req'.draft = req.draft
        /\ req'.storedL = req.storedL /\ req'.storedM = req.storedM
        /\ req'.wroteL = TRUE /\ req'.wroteM = req.wroteM /\ req' = [f \in Fields |-> req'[f]]
    BY <1>4 DEF ReqOk, Fields
  <2>2. D \in OldDraft /\ D' = D /\ ListChanged' = TRUE
    BY <1>1, <1>4, <2>1 DEF ReqOk, Idle, D, ListChanged
  <2>3. FilesOk' /\ OutcomeIsTrue'
    BY <1>1, <1>4, <2>2, TargetsAreOld DEF FilesOk, OldList, OldMonitor, OutcomeIsTrue
  <2>4. PagesOk' /\ ReqOk'
    BY <1>1, <2>1, <2>2 DEF PagesOk, ReqOk, Pc, Idle, D, OldDraft, OldList
  <2>5. SavingOk'
    BY <1>1, <2>1, <2>2 DEF SavingOk, Compared
  <2>6. Loading' /\ WrittenOk' /\ ImportingOk'
    BY <1>1, <1>4, <2>1, <2>2 DEF Loading, WrittenOk, ImportingOk
  <2> QED BY <2>3, <2>4, <2>5, <2>6
<1> QED BY <1>2, <1>3, <1>4 DEF WriteList

LEMMA WriteMonitorStep == SettingsInv /\ WriteMonitor => SettingsInv'
<1> SUFFICES ASSUME SettingsInv, WriteMonitor PROVE SettingsInv'
  OBVIOUS
<1> USE DEF SettingsInv
<1>1. /\ req.pc = "writeM" /\ UNCHANGED <<list, edits, draft, proof>>
      /\ req.wroteL = ListChanged /\ req.wroteM = FALSE
  BY DEF WriteMonitor, At, WrittenOk, ReqOk
<1>2. CASE ~MonitorChanged /\ Goto("done") /\ UNCHANGED monitor
  <2>1. /\ FilesOk' /\ PagesOk' /\ ReqOk' /\ OutcomeIsTrue'
        /\ req'.pc = "done" /\ req'.draft = req.draft
        /\ req'.storedL = req.storedL /\ req'.storedM = req.storedM
        /\ req'.wroteL = req.wroteL /\ req'.wroteM = req.wroteM
    BY <1>1, <1>2, GotoStep DEF Still, Idle, Pc
  <2>2. D' = D /\ ListChanged' = ListChanged /\ MonitorChanged' = FALSE
    BY <1>2, <2>1 DEF D, ListChanged, MonitorChanged
  <2> QED BY <1>1, <2>1, <2>2 DEF Loading, SavingOk, Compared, WrittenOk, ImportingOk
<1>4. ASSUME MonitorChanged, monitor = D.baseM, monitor' = MonitorTarget(monitor, D), NEW pc \in {"done", "lateM"},
             req' = [req EXCEPT !.pc = pc, !.wroteM = TRUE, !.meddled = FALSE], UNCHANGED result
      PROVE  SettingsInv'
  <2>1. /\ req'.pc = pc /\ req'.draft = req.draft
        /\ req'.storedL = req.storedL /\ req'.storedM = req.storedM
        /\ req'.wroteL = req.wroteL /\ req'.wroteM = TRUE /\ req' = [f \in Fields |-> req'[f]]
    BY <1>4 DEF ReqOk, Fields
  <2>2. D \in OldDraft /\ D' = D /\ ListChanged' = ListChanged /\ MonitorChanged' = TRUE
    BY <1>1, <1>4, <2>1 DEF ReqOk, Idle, D, ListChanged, MonitorChanged
  <2>3. FilesOk' /\ OutcomeIsTrue'
    BY <1>1, <1>4, <2>2, TargetsAreOld DEF FilesOk, OldList, OldMonitor, OutcomeIsTrue
  <2>4. PagesOk' /\ ReqOk'
    BY <1>1, <2>1, <2>2 DEF PagesOk, ReqOk, Pc, Idle, D, OldDraft, OldList
  <2>5. SavingOk'
    BY <1>1, <2>1, <2>2 DEF SavingOk, Compared
  <2>6. Loading' /\ WrittenOk' /\ ImportingOk'
    BY <1>1, <1>4, <2>1, <2>2 DEF Loading, WrittenOk, ImportingOk
  <2> QED BY <2>3, <2>4, <2>5, <2>6
<1>3. CASE /\ MonitorChanged /\ UNCHANGED monitor
           /\ \/ Answer(IF ListChanged THEN "PARTIAL_SAVE" ELSE "REVISION_CONFLICT", ListChanged, FALSE)
              \/ Answer(IF ListChanged THEN "PARTIAL_SAVE" ELSE "WRITE_FAILED", ListChanged, FALSE)
  <2>1. Still /\ PagesOk'
    BY <1>1, <1>3, SamePages DEF Still
  <2>2. CASE ListChanged
    <3>1. Answer("PARTIAL_SAVE", ListChanged, FALSE)
      BY <1>3, <2>2 DEF Answer
    <3> QED BY <1>1, <2>1, <2>2, <3>1, AnswerStep
  <2>3. CASE ~ListChanged
    <3>1. PICK outcome \in {"REVISION_CONFLICT", "WRITE_FAILED"} : Answer(outcome, ListChanged, FALSE)
      BY <1>3, <2>3
    <3> QED BY <1>1, <2>1, <2>3, <3>1, AnswerStep
  <2> QED BY <2>2, <2>3
<1>5. CASE /\ MonitorChanged /\ monitor = D.baseM /\ monitor' = MonitorTarget(monitor, D) /\ UNCHANGED result
           /\ \E pc \in {"done", "lateM"} : req' = [req EXCEPT !.pc = pc, !.wroteM = TRUE, !.meddled = FALSE]
  BY <1>4, <1>5
<1> QED BY <1>2, <1>3, <1>5 DEF WriteMonitor

\* What is told once a write raised, or both files are written.
LEMMA LateStep == SettingsInv /\ (LateList \/ LateMonitor \/ SaveEnds) => SettingsInv'
<1> SUFFICES ASSUME SettingsInv, LateList \/ LateMonitor \/ SaveEnds PROVE SettingsInv'
  OBVIOUS
<1> USE DEF SettingsInv
<1>1. Still
  BY DEF LateList, LateMonitor, SaveEnds, At, Still
<1>2. CASE LateList
  <2> DEFINE committed == list = ListTarget(D.baseL, D)
  <2>1. /\ req.wroteL = TRUE /\ req.wroteM = FALSE /\ (~req.meddled => committed)
    BY <1>2 DEF LateList, At, WrittenOk, ReqOk
  <2>2. Answer(IF committed THEN "PARTIAL_SAVE" ELSE "WRITE_FAILED", committed, FALSE) /\ PagesOk'
    BY <1>1, <1>2, SamePages DEF LateList
  <2> HIDE DEF committed
  <2> QED BY <1>1, <2>1, <2>2, AnswerStep
<1>3. CASE LateMonitor
  <2> DEFINE committed == monitor = MonitorTarget(D.baseM, D)
  <2>1. /\ req.wroteL = ListChanged /\ req.wroteM = TRUE /\ (~req.meddled => committed)
    BY <1>3 DEF LateMonitor, At, WrittenOk, ReqOk
  <2>2. /\ Answer(IF ListChanged \/ committed THEN "PARTIAL_SAVE" ELSE "WRITE_FAILED", ListChanged, committed)
        /\ PagesOk'
    BY <1>1, <1>3, SamePages DEF LateMonitor
  <2> HIDE DEF committed
  <2> QED BY <1>1, <2>1, <2>2, AnswerStep
<1>4. CASE SaveEnds
  <2>1. req.wroteL = ListChanged /\ req.wroteM = MonitorChanged
    BY <1>4 DEF SaveEnds, At, WrittenOk
  <2>2. Answer("SAVED", ListChanged, MonitorChanged) /\ PagesOk'
    BY <1>1, <1>4, ReloadedPages DEF SaveEnds, Saved
  <2> QED BY <1>1, <2>1, <2>2, AnswerStep
<1> QED BY <1>2, <1>3, <1>4

(***************************************************************************)
(* Import and Upgrade, and the end of the process                          *)
(***************************************************************************)
LEMMA ImportingStep == SettingsInv /\ Importing => SettingsInv'
<1> SUFFICES ASSUME SettingsInv, Importing PROVE SettingsInv'
  OBVIOUS
<1> USE DEF SettingsInv
<1>1. CASE Verify
  <2>1. req.pc = "verify" /\ Still /\ UNCHANGED <<draft, proof>>
    BY <1>1 DEF Verify, At, Still
  <2>2. CASE Refuse("NOT_WRITTEN")
    BY <2>1, <2>2, RefuseStep DEF WrittenOk
  <2>3. CASE Goto("replace")
    <3>1. /\ FilesOk' /\ PagesOk' /\ ReqOk' /\ OutcomeIsTrue'
          /\ req'.pc = "replace" /\ req'.draft = req.draft /\ req'.approval = req.approval
          /\ req'.wroteL = req.wroteL /\ req'.wroteM = req.wroteM
      BY <2>1, <2>3, GotoStep DEF Idle, Pc
    <3> QED BY <2>1, <3>1 DEF D, Still, OldList, Loading, SavingOk, Compared, WrittenOk, ImportingOk
  <2> QED BY <1>1, <2>2, <2>3 DEF Verify
<1>2. CASE Replace
  <2>1. req.pc = "replace" /\ UNCHANGED <<monitor, edits, draft, proof>>
    BY <1>2 DEF Replace, At
  <2>2. CASE Refuse("NOT_WRITTEN") /\ UNCHANGED list
    BY <2>1, <2>2, RefuseStep DEF Still, WrittenOk
  <2>3. CASE /\ list' = req.approval.proposed /\ UNCHANGED result
             /\ req' = [req EXCEPT !.pc = "confirm", !.wroteL = TRUE, !.meddled = FALSE]
    <3>1. /\ req'.pc = "confirm" /\ req'.draft = req.draft
          /\ req'.wroteL = TRUE /\ req'.wroteM = req.wroteM /\ req' = [f \in Fields |-> req'[f]]
      BY <2>3 DEF ReqOk, Fields
    <3>2. D \in OldDraft /\ D' = D /\ req.wroteM = FALSE
      BY <2>1, <3>1 DEF ReqOk, Idle, D, WrittenOk
    <3>3. FilesOk' /\ OutcomeIsTrue'
      BY <2>1, <2>3 DEF FilesOk, OldList, OldMonitor, ImportingOk, OutcomeIsTrue
    <3>4. PagesOk' /\ ReqOk'
      BY <2>1, <3>1, <3>2 DEF PagesOk, ReqOk, Pc, Idle, D, OldDraft, OldList
    <3>5. Loading' /\ SavingOk' /\ WrittenOk' /\ ImportingOk'
      BY <3>1, <3>2 DEF Loading, SavingOk, Compared, WrittenOk, ImportingOk
    <3> QED BY <3>3, <3>4, <3>5
  <2> QED BY <1>2, <2>2, <2>3 DEF Replace
<1>3. CASE Confirmed
  <2>1. req.pc = "confirm" /\ Still
    BY <1>3 DEF Confirmed, At, Still
  <2>2. CASE Refuse("NOT_CONFIRMED") /\ UNCHANGED draft
    BY <1>3, <2>1, <2>2, RefuseStep DEF Confirmed
  <2>3. ASSUME NEW outcome \in {"IMPORTED", "IMPORTED_UNSYNCED"}, Answer(outcome, TRUE, FALSE),
               draft' = [draft EXCEPT ![req.page] = Loaded]
        PROVE  SettingsInv'
    <3>1. PagesOk'
      BY <1>3, <2>1, <2>3, ReloadedPages DEF Confirmed
    <3>2. req.wroteL
      BY <2>1 DEF WrittenOk
    <3> QED BY <2>1, <2>3, <3>1, <3>2, AnswerStep
  <2> QED BY <1>3, <2>2, <2>3 DEF Confirmed
<1> QED BY <1>1, <1>2, <1>3 DEF Importing

LEMMA CrashStep == SettingsInv /\ Crash => SettingsInv'
<1> SUFFICES ASSUME SettingsInv, Crash PROVE SettingsInv'
  OBVIOUS
<1>1. Still
  BY DEF Crash, Still
<1>2. PagesOk'
  BY DEF Crash, PagesOk
<1>3. OutcomeIsTrue'
  BY DEF Crash, NoResult, OutcomeIsTrue
<1> QED BY <1>1, <1>2, <1>3, EndStep DEF Crash

LEMMA SettingsNext == SettingsInv /\ [Next]_vars => SettingsInv'
<1> SUFFICES ASSUME SettingsInv, [Next]_vars PROVE SettingsInv'
  OBVIOUS
<1>1. CASE EditList \/ EditMonitor
  BY <1>1, EditStep
<1>2. CASE \E p \in Pages : Browser(p)
  BY <1>2, BrowserStep
<1>3. CASE Saving
  BY <1>3, ComparingStep, WriteListStep, WriteMonitorStep, LateStep DEF Saving
<1>4. CASE Importing
  BY <1>4, ImportingStep
<1>5. CASE Crash
  BY <1>5, CrashStep
<1>6. CASE UNCHANGED vars
  <2>1. FilesOk' /\ PagesOk' /\ OutcomeIsTrue'
    BY <1>6 DEF vars, SettingsInv, FilesOk, OldList, OldMonitor, PagesOk, OldDraft, OutcomeIsTrue
  <2>2. D' = D /\ Idle' = Idle /\ OldDraft' = OldDraft /\ OldList' = OldList
    BY <1>6 DEF vars, D, Idle, OldDraft, OldList
  <2>3. ReqOk' /\ Loading' /\ ImportingOk'
    BY <1>6, <2>2 DEF vars, SettingsInv, ReqOk, Loading, ImportingOk
  <2>4. ListChanged' = ListChanged /\ MonitorChanged' = MonitorChanged /\ CascadeApproved' = CascadeApproved
    BY <1>6, <2>2 DEF vars, ListChanged, MonitorChanged, CascadeApproved
  <2>5. SavingOk' /\ WrittenOk'
    BY <1>6, <2>2, <2>4 DEF vars, SettingsInv, SavingOk, Compared, WrittenOk
  <2> QED BY <2>1, <2>3, <2>5 DEF SettingsInv
<1> QED BY <1>1, <1>2, <1>3, <1>4, <1>5, <1>6 DEF Next

\* The files are no newer than their edits, every later step of a Save works on what its first steps
\* compared, and what it will answer is what it has written.
THEOREM SettingsAlways == Spec => []SettingsInv
BY SettingsInit, SettingsNext, PTL DEF Spec

(***************************************************************************)
(* What Settings promise                                                   *)
(***************************************************************************)
\* What a request told its page is what it did to the two files.
THEOREM AnswersAreTrue == Spec => []OutcomeIsTrue
<1>1. SettingsInv => OutcomeIsTrue
  BY DEF SettingsInv
<1> QED BY <1>1, SettingsAlways, PTL

\* Only two steps write list.md, and each has just found in it what the page was opened on.
LEMMA ListWriters ==
    ASSUME SettingsInv, Next, list' # list, ~ByHand
    PROVE  /\ list = D.baseL /\ list.shape # "damaged"
           /\ \/ req.pc = "writeL" /\ ListChanged /\ list' = ListTarget(list, D)
              \/ /\ req.pc = "replace" /\ req.approval # NoPage
                 /\ req.approval.original = list /\ req.approval.proposed = list'
<1>1. edits' = edits
  BY DEF ByHand
<1>2. WriteList \/ Replace
  <2>1. ~(EditList \/ EditMonitor)
    BY <1>1 DEF EditList, EditMonitor, SettingsInv, FilesOk
  <2>2. ASSUME NEW p \in Pages, Browser(p) PROVE list' = list
    BY <2>2 DEF Browser, Open, Change, AskFirst, Submit, PreviewImport, PreviewUpgrade, Confirm
  <2>3. ~Crash
    BY DEF Crash
  <2>4. Saving => WriteList
    BY DEF Saving, SaveRefused, DraftInvalid, SaveLoads, SnapshotMonitor, SnapshotList, Resolve, RecheckMonitor,
           RecheckList, MonitorIsTheDrafts, GuardMonitor, LateList, GuardList, WriteMonitor, LateMonitor, SaveEnds
  <2>5. Importing => Replace
    BY DEF Importing, Verify, Confirmed
  <2> QED BY <2>1, <2>2, <2>3, <2>4, <2>5 DEF Next
<1>3. CASE WriteList
  <2>1. req.pc = "writeL" /\ ListChanged /\ list = D.baseL /\ list' = ListTarget(list, D)
    BY <1>3 DEF WriteList, At
  <2> QED BY <2>1 DEF SettingsInv, SavingOk, Compared
<1>4. CASE Replace
  <2>1. req.pc = "replace" /\ list = req.approval.original /\ list' = req.approval.proposed
    BY <1>4 DEF Replace, Untouched, At
  <2> QED BY <2>1 DEF SettingsInv, ImportingOk
<1> QED BY <1>2, <1>3, <1>4

LEMMA MonitorWriter ==
    ASSUME SettingsInv, Next, monitor' # monitor, ~ByHand
    PROVE  /\ monitor = D.baseM /\ monitor.shape # "damaged"
           /\ req.wroteL \/ D.journals = D.baseL.journals
<1>1. edits' = edits
  BY DEF ByHand
<1>2. WriteMonitor
  <2>1. ~(EditList \/ EditMonitor)
    BY <1>1 DEF EditList, EditMonitor, SettingsInv, FilesOk
  <2>2. ASSUME NEW p \in Pages, Browser(p) PROVE monitor' = monitor
    BY <2>2 DEF Browser, Open, Change, AskFirst, Submit, PreviewImport, PreviewUpgrade, Confirm
  <2>3. ~Crash /\ ~Importing
    BY DEF Crash, Importing, Verify, Replace, Confirmed
  <2>4. Saving => WriteMonitor
    BY DEF Saving, SaveRefused, DraftInvalid, SaveLoads, SnapshotMonitor, SnapshotList, Resolve, RecheckMonitor,
           RecheckList, MonitorIsTheDrafts, GuardMonitor, WriteList, LateList, GuardList, LateMonitor, SaveEnds
  <2> QED BY <2>1, <2>2, <2>3, <2>4 DEF Next
<1>3. req.pc = "writeM" /\ monitor = D.baseM
  BY <1>2 DEF WriteMonitor, At
<1> QED BY <1>3 DEF SettingsInv, SavingOk, Compared, WrittenOk, ListChanged

\* Nobody's edit is overwritten unread: what a route replaces is what its page was opened on.
THEOREM EditsWereSeen == Spec => OnlyWhatWasSeen
<1>1. SettingsInv /\ [Next]_vars =>
        [ /\ (list' # list /\ ~ByHand) => /\ list = req.draft.baseL /\ list.shape # "damaged"
          /\ (monitor' # monitor /\ ~ByHand) =>
                /\ monitor = req.draft.baseM /\ monitor.shape # "damaged"
                /\ req.wroteL \/ req.draft.journals = req.draft.baseL.journals ]_vars
  BY ListWriters, MonitorWriter DEF D
<1> QED BY <1>1, SettingsAlways, PTL DEF Spec, OnlyWhatWasSeen

\* A saved Publisher disappears only by a request whose page was shown exactly this loss: what
\* OpenAlex answers while the Save runs cannot widen it.
THEOREM LossesWereShown == Spec => LossWasShown
<1>1. SettingsInv /\ [Next]_vars =>
        [ (list' # list /\ ~ByHand /\ Lost # {}) =>
            /\ req.approval # NoPage
            /\ \/ req.pc = "writeL" /\ req.approval.plan = Lost
               \/ req.pc = "replace" /\ req.approval.original = list /\ req.approval.proposed = list' ]_vars
  <2> SUFFICES ASSUME SettingsInv, Next, list' # list, ~ByHand, Lost # {}
               PROVE  /\ req.approval # NoPage
                      /\ \/ req.pc = "writeL" /\ req.approval.plan = Lost
                         \/ /\ req.pc = "replace" /\ req.approval.original = list
                            /\ req.approval.proposed = list'
    OBVIOUS
  <2>1. CASE req.pc = "writeL" /\ ListChanged /\ list' = ListTarget(list, D) /\ list = D.baseL
    <3>1. D \in Drafts
      BY <2>1 DEF SettingsInv, ReqOk, Idle, OldDraft
    <3>2. D.baseL \in ListFiles /\ D.baseM \in MonitorFiles
      BY <3>1 DEF Drafts
    <3>3. list'.kept = list.kept \cap ActivePublishers(D.journals)
      BY <2>1, <3>2 DEF ListTarget, ListFiles
    <3>4. Lost = Cascade(req.storedL, D)
      BY <2>1, <3>3 DEF Lost, Cascade, SettingsInv, SavingOk, Compared
    <3>5. req.approval = [baseL |-> D.baseL, baseM |-> D.baseM, plan |-> Lost]
      BY <2>1, <3>4 DEF SettingsInv, SavingOk, CascadeApproved
    <3>6. Lost \subseteq ActivePublishers(Journals)
      BY <2>1, <3>2 DEF Lost, ListFiles
    <3>7. req.approval \in Losses
      BY <3>2, <3>5, <3>6 DEF Losses
    <3> QED BY <2>1, <3>5, <3>7, SettingsAssumption
  <2> QED BY <2>1, ListWriters
<1> QED BY <1>1, SettingsAlways, PTL DEF Spec, LossWasShown

-----------------------------------------------------------------------------
(***************************************************************************)
(* II.  MonitorRun, for every set of DOIs, every number of Runs and of     *)
(* changes beside them.  The inductive invariant says, for the step the    *)
(* worker is at, what it owns, what it has counted, what of the provider   *)
(* state is on the disk, and what its result will be.                      *)
(***************************************************************************)
Kinds == {"none", "bad", "busy", "partial", "whole"}
Dbs == [kind : Kinds, rows : SUBSET DOI]
Steps == {"none", "reserve", "confirm", "enter", "prepare", "state", "identities", "core", "again", "materialize",
          "persist", "build", "fill", "keep", "publish", "sync", "snapshot", "release", "report"}
Workers == [step : Steps, cfg : Configs \cup {None}, owned : BOOLEAN, dir : Dir, state : Kinds, first : Index,
            papers : SUBSET DOI, seen : SUBSET DOI, pending : SUBSET DOI, confirmed : SUBSET DOI,
            created : SUBSET DOI, existing : SUBSET DOI,
            warned : BOOLEAN, erred : BOOLEAN, invalid : BOOLEAN, raised : BOOLEAN]
Locks == [Dir -> {"free", "run", "other"}]

-----------------------------------------------------------------------------
(***************************************************************************)
(* The inductive invariant                                                 *)
(***************************************************************************)
TypeInv ==
    /\ config \in Configs /\ lock \in Locks /\ moved \in BOOLEAN
    /\ saved \in [DOI -> {None, 1, 2}] /\ unreadable \in BOOLEAN
    /\ db \in Dbs /\ temp \in Dbs /\ backup \in Dbs
    /\ lastRun \in {None} \cup Snapshots
    /\ status \in {"IDLE", "RUNNING", "FINISHED"} /\ error \in BOOLEAN /\ told \in {None} \cup Results
    /\ worker \in Workers
    /\ starts \in Nat /\ changes \in Nat /\ wrote \in SUBSET {"papers", "state", "snapshot", "link"}
    /\ (status = "RUNNING") = (worker.step # "none")

\* The lock is held under the worker's own name, and by no other.
OwnInv ==
    /\ worker.owned => lock[worker.dir] = "run" /\ \A d \in Dir : lock[d] = "run" => d = worker.dir
    /\ ~worker.owned => \A d \in Dir : lock[d] # "run"
    /\ (Working \/ AtStep("confirm")) => worker.owned /\ worker.cfg \in Configs /\ worker.cfg.dir = worker.dir
    /\ AtStep("enter") => /\ worker.owned = (worker.cfg # None)
                          /\ worker.cfg # None => worker.cfg.dir = worker.dir
    /\ AtStep("reserve") => worker.cfg \in Configs
    /\ worker.step \in {"none", "reserve", "report"} => ~worker.owned

\* Before the candidates are known, nothing is counted and nothing is written.
Unready == worker.step \in {"reserve", "confirm", "enter", "prepare", "state", "identities", "core"}
Ending == worker.step \in {"none", "release", "report"}
Counting == worker.step \in {"materialize", "persist", "build", "fill", "keep", "publish", "sync", "snapshot"}
CountInv ==
    /\ Unready => /\ worker.confirmed = {} /\ worker.created = {} /\ worker.existing = {} /\ wrote = {}
                  /\ ~worker.raised /\ ~worker.invalid
    /\ worker.papers \cap worker.seen = {}
    /\ worker.confirmed \subseteq worker.seen
    /\ worker.created \cup worker.existing \subseteq worker.papers
    /\ changes = 0 => /\ ~unreadable
                      /\ \A d \in worker.confirmed \cup worker.created \cup worker.existing : saved[d] # None
    /\ Counting \/ (Ending /\ ~worker.raised /\ ~worker.invalid)
           => (~worker.erred => worker.confirmed = worker.seen)
    /\ worker.raised => Ending
    /\ worker.invalid => Ending \/ AtStep("again")
    /\ worker.invalid => wrote = {}

\* What the Run learned is either still to be published, or published, or warned of.
StateInv ==
    /\ worker.step \in {"identities", "core", "again", "materialize", "persist", "build", "fill", "keep", "publish"}
           => worker.state = db.kind
    /\ worker.step \in {"build", "fill", "keep", "publish"} => db.kind \in {"none", "bad"}
    /\ worker.step \in {"keep", "publish"} => temp = Whole(worker.pending)
    /\ AtStep("publish") => backup = db
    /\ AtStep("sync") => db = Whole(worker.pending) /\ backup.kind = worker.state /\ backup.kind # "partial"
    /\ db.kind # "partial"

\* A Run that came to its end, and what it kept
Through == ~worker.raised /\ ~worker.invalid /\ (worker.step \in {"release", "report"} \/ told # None)
Stored == worker.pending \subseteq db.rows
RecordInv ==
    /\ lastRun # None => lastRun.run <= starts
    /\ lastRun # None /\ (Unready \/ Counting \/ AtStep("again") \/ worker.invalid) => lastRun.run < starts
    /\ (AtStep("snapshot") \/ Through) => (~worker.warned => Stored)
    /\ Through => /\ lastRun # None /\ lastRun.run = starts =>
                         \/ lastRun.outcome = Outcome
                         \/ /\ "link" \in wrote
                            /\ lastRun.outcome = "COMPLETED" /\ Outcome = "COMPLETED_WITH_WARNINGS"
                  /\ Outcome = "COMPLETED" => lastRun = [outcome |-> "COMPLETED", run |-> starts]

\* The result is what the worker says at its end.
Telling == IF worker.invalid
           THEN [outcome |-> "INVALID_CONFIGURATION", created |-> {}, existing |-> {}, confirmed |-> {}]
           ELSE [outcome |-> Outcome, created |-> worker.created, existing |-> worker.existing,
                 confirmed |-> worker.confirmed]
ToldInv == told # None => worker.step = "none" /\ ~worker.raised /\ told = Telling

RunInv == TypeInv /\ OwnInv /\ CountInv /\ StateInv /\ RecordInv /\ ToldInv

-----------------------------------------------------------------------------
(***************************************************************************)
(* What a step does to the worker, field by field                          *)
(***************************************************************************)
Held == worker'.cfg = worker.cfg /\ worker'.owned = worker.owned /\ worker'.dir = worker.dir
Learned == worker'.state = worker.state /\ worker'.pending = worker.pending
Chose == worker'.first = worker.first /\ worker'.papers = worker.papers /\ worker'.seen = worker.seen
Made == worker'.created = worker.created /\ worker'.existing = worker.existing
Counted == Chose /\ Made /\ worker'.confirmed = worker.confirmed
Sound == worker'.invalid = worker.invalid /\ worker'.raised = worker.raised
Judged == Sound /\ worker'.warned = worker.warned /\ worker'.erred = worker.erred

Went(s) == worker' \in Workers /\ worker'.step = s /\ Held /\ Learned /\ Counted /\ Judged
Raised == /\ worker' \in Workers /\ worker'.step = "release" /\ Held /\ Learned /\ Counted
          /\ worker'.raised = TRUE /\ worker'.invalid = worker.invalid
          /\ worker'.warned = worker.warned /\ worker'.erred = worker.erred
RejectedAt(s) == /\ worker' \in Workers /\ worker'.step = s /\ Held /\ Learned /\ Counted
                 /\ worker'.invalid = TRUE /\ worker'.raised = worker.raised
                 /\ worker'.warned = worker.warned /\ worker'.erred = worker.erred
Rejected == RejectedAt("release")
Warned == /\ worker' \in Workers /\ worker'.step = "snapshot" /\ Held /\ Learned /\ Counted
          /\ worker'.warned = TRUE /\ worker'.erred = worker.erred /\ Sound

LEMMA GoesFx == ASSUME worker \in Workers, NEW s \in Steps, Goes(s) PROVE Went(s)
<1> /\ worker' \in Workers
    /\ worker' = [worker EXCEPT !.step = s]
  BY DEF Goes, Workers
<1> QED
  BY DEF Went, Held, Learned, Chose, Made, Counted, Sound, Judged, Workers

LEMMA RaisesFx == ASSUME worker \in Workers, Raises PROVE Raised
<1> /\ worker' \in Workers
    /\ worker' = [worker EXCEPT !.step = "release", !.raised = TRUE]
  BY DEF Raises, Workers, Steps
<1> QED
  BY DEF Raised, Held, Learned, Chose, Made, Counted, Workers

LEMMA InvalidFx == ASSUME worker \in Workers, Invalid PROVE Rejected
<1> /\ worker' \in Workers
    /\ worker' = [worker EXCEPT !.step = "release", !.invalid = TRUE]
  BY DEF Invalid, Workers, Steps
<1> QED
  BY DEF Rejected, RejectedAt, Held, Learned, Chose, Made, Counted, Workers

LEMMA WarnsFx == ASSUME worker \in Workers, Warns PROVE Warned
<1> /\ worker' \in Workers
    /\ worker' = [worker EXCEPT !.step = "snapshot", !.warned = TRUE]
  BY DEF Warns, Workers, Steps
<1> QED
  BY DEF Warned, Held, Learned, Chose, Made, Counted, Sound, Workers

\* The worker that has nothing to do
Blank(w) ==
    /\ w.owned = FALSE /\ w.confirmed = {} /\ w.created = {} /\ w.existing = {} /\ w.papers = {} /\ w.seen = {}
    /\ w.pending = {} /\ w.warned = FALSE /\ w.erred = FALSE /\ w.invalid = FALSE /\ w.raised = FALSE

LEMMA QuietIs == Quiet \in Workers /\ Quiet.step = "none" /\ Blank(Quiet)
<1>1. NoIndex \in Index
  BY DEF NoIndex, Index
<1> QED
  BY <1>1 DEF Quiet, Workers, Steps, Kinds, Dir, Blank

LEMMA StartRunFx ==
    ASSUME TypeInv, StartRun
    PROVE  /\ worker' \in Workers /\ Blank(worker')
           /\ \/ worker'.step = "reserve" /\ worker'.cfg \in Configs
              \/ worker'.step = "enter" /\ worker'.cfg = None
<1>1. Quiet \in Workers /\ Blank(Quiet)
  BY QuietIs
<1>2. CASE config.valid
  <2>1. worker' = [Quiet EXCEPT !.step = "reserve", !.cfg = config] /\ config \in Configs
    BY <1>2 DEF StartRun, TypeInv
  <2>2. worker' \in Workers /\ worker'.step = "reserve" /\ worker'.cfg = config
    BY <1>1, <2>1 DEF Workers, Steps
  <2>3. Blank(worker')
    BY <1>1, <2>1 DEF Blank, Workers
  <2> QED
    BY <2>1, <2>2, <2>3
<1>3. CASE ~config.valid
  <2>1. worker' = [Quiet EXCEPT !.step = "enter", !.cfg = None]
    BY <1>3 DEF StartRun
  <2>2. worker' \in Workers /\ worker'.step = "enter" /\ worker'.cfg = None
    BY <1>1, <2>1 DEF Workers, Steps
  <2>3. Blank(worker')
    BY <1>1, <2>1 DEF Blank, Workers
  <2> QED
    BY <2>2, <2>3
<1> QED
  BY <1>2, <1>3

LEMMA ReserveFx ==
    ASSUME TypeInv, OwnInv, Reserve
    PROVE  /\ worker' \in Workers
           /\ \/ worker' = Quiet /\ lock' = lock /\ status' = "FINISHED" /\ error' = TRUE
              \/ /\ worker'.step = "confirm" /\ worker'.cfg = worker.cfg /\ worker'.dir = worker.cfg.dir /\ worker'.owned = TRUE
                 /\ Learned /\ Counted /\ Judged
                 /\ lock' = [lock EXCEPT ![worker.cfg.dir] = "run"] /\ UNCHANGED <<status, error>>
<1> DEFINE d == worker.cfg.dir
<1>1. CASE lock[d] # "free"
  BY <1>1, QuietIs DEF Reserve, StartFailed
<1>2. CASE lock[d] = "free"
  <2>1. /\ worker' = [worker EXCEPT !.step = "confirm", !.dir = d, !.owned = TRUE]
        /\ lock' = [lock EXCEPT ![d] = "run"] /\ UNCHANGED <<status, error>>
    BY <1>2 DEF Reserve
  <2>2. d \in Dir
    BY DEF OwnInv, Reserve, AtStep, Configs
  <2> HIDE DEF d
  <2>3. worker' \in Workers
    BY <2>1, <2>2 DEF TypeInv, Workers, Steps
  <2>4. /\ worker'.step = "confirm" /\ worker'.cfg = worker.cfg /\ worker'.dir = d /\ worker'.owned = TRUE
        /\ Learned /\ Counted /\ Judged
    BY <2>1, <2>3 DEF TypeInv, Learned, Counted, Judged, Chose, Made, Sound, Workers
  <2> QED
    BY <2>1, <2>3, <2>4 DEF d
<1> QED
  BY <1>1, <1>2

LEMMA ConfirmFx ==
    ASSUME TypeInv, ConfirmConfig
    PROVE  \/ Went("enter") /\ UNCHANGED <<lock, status, error>>
           \/ /\ worker' = Quiet /\ lock' = [lock EXCEPT ![worker.dir] = "free"]
              /\ status' = "FINISHED" /\ error' = TRUE
  BY GoesFx DEF ConfirmConfig, StartFailed, TypeInv, Steps

LEMMA EnterFx ==
    ASSUME TypeInv, EnterRun
    PROVE  \/ (Raised \/ Went("prepare")) /\ worker.cfg # None /\ UNCHANGED lock
           \/ (Rejected \/ Raised) /\ worker.cfg = None /\ UNCHANGED lock
           \/ /\ worker.cfg = None /\ worker' \in Workers /\ worker'.step = "prepare" /\ worker'.cfg = config
              /\ worker'.dir = config.dir /\ worker'.owned = TRUE /\ Learned /\ Counted /\ Judged
              /\ lock[config.dir] = "free" /\ lock' = [lock EXCEPT ![config.dir] = "run"]
<1> worker \in Workers /\ "prepare" \in Steps
  BY DEF TypeInv, Steps
<1>1. CASE worker.cfg # None
  <2>1. (Raises \/ Goes("prepare")) /\ UNCHANGED lock
    BY <1>1 DEF EnterRun
  <2> QED
    BY <1>1, <2>1, GoesFx, RaisesFx
<1>2. CASE worker.cfg = None /\ (~config.valid \/ lock[config.dir] # "free")
  <2>1. (Invalid \/ Raises) /\ UNCHANGED lock
    BY <1>2 DEF EnterRun
  <2> QED
    BY <1>2, <2>1, InvalidFx, RaisesFx
<1>3. CASE worker.cfg = None /\ config.valid /\ lock[config.dir] = "free"
  <2>1. /\ worker' = [worker EXCEPT !.step = "prepare", !.cfg = config, !.dir = config.dir, !.owned = TRUE]
        /\ lock' = [lock EXCEPT ![config.dir] = "run"]
    BY <1>3 DEF EnterRun
  <2>2. config \in Configs /\ config.dir \in Dir
    BY DEF TypeInv, Configs
  <2>3. worker' \in Workers
    BY <2>1, <2>2 DEF Workers, Steps
  <2>4. /\ worker'.step = "prepare" /\ worker'.cfg = config /\ worker'.dir = config.dir /\ worker'.owned = TRUE
        /\ Learned /\ Counted /\ Judged
    BY <2>1, <2>3 DEF Learned, Counted, Judged, Chose, Made, Sound, Workers
  <2> QED
    BY <1>3, <2>1, <2>3, <2>4
<1> QED
  BY <1>1, <1>2, <1>3

LEMMA PrepareFx == ASSUME TypeInv, Prepare PROVE Rejected \/ Raised \/ Went("state")
<1>1. Invalid \/ Raises \/ Goes("state")
  BY DEF Prepare
<1> QED
  BY <1>1, InvalidFx, RaisesFx, GoesFx DEF TypeInv, Steps

LEMMA ReadStateFx ==
    ASSUME TypeInv, ReadState
    PROVE  /\ worker' \in Workers /\ worker'.step = "identities" /\ worker'.state = db.kind
           /\ worker'.warned = (db.kind \in {"bad", "busy"}) /\ worker'.erred = worker.erred /\ Sound
           /\ Held /\ Counted /\ worker'.pending = worker.pending
<1>1. worker' = [worker EXCEPT !.step = "identities", !.state = db.kind, !.warned = db.kind \in {"bad", "busy"}]
  BY DEF ReadState
<1> DEFINE amiss == db.kind \in {"bad", "busy"}
<1>2. db.kind \in Kinds /\ amiss \in BOOLEAN
  BY DEF TypeInv, Dbs
<1> HIDE DEF amiss
<1>3. worker' = [worker EXCEPT !.step = "identities", !.state = db.kind, !.warned = amiss]
  BY <1>1 DEF amiss
<1>4. worker' \in Workers
  BY <1>2, <1>3 DEF TypeInv, Workers, Steps
<1>5. /\ worker'.step = "identities" /\ worker'.state = db.kind
      /\ worker'.warned = amiss /\ worker'.erred = worker.erred /\ Sound
      /\ Held /\ Counted /\ worker'.pending = worker.pending
  BY <1>3, <1>4 DEF TypeInv, Held, Counted, Chose, Made, Sound, Workers
<1> QED
  BY <1>4, <1>5 DEF amiss

LEMMA IndexRead == ASSUME TypeInv PROVE ReadIndex \in Index
  BY DEF TypeInv, ReadIndex, Index

LEMMA ReadIdentitiesFx ==
    ASSUME TypeInv, ReadIdentities
    PROVE  \/ Raised
           \/ /\ worker' \in Workers /\ worker'.step = "core" /\ Held /\ Learned /\ Made
              /\ worker'.papers = worker.papers /\ worker'.seen = worker.seen /\ worker'.confirmed = worker.confirmed
              /\ Sound /\ worker'.warned = worker.warned
<1>1. CASE moved
  BY <1>1, RaisesFx DEF ReadIdentities, TypeInv
<1>2. CASE ~moved
  <2>1. worker' = [worker EXCEPT !.step = "core", !.first = ReadIndex, !.erred = unreadable]
    BY <1>2 DEF ReadIdentities
  <2>2. worker' \in Workers
    BY <2>1, IndexRead DEF TypeInv, Workers, Steps
  <2> QED
    BY <2>1, <2>2 DEF TypeInv, Held, Learned, Made, Sound, Workers
<1> QED
  BY <1>1, <1>2

LEMMA CoreFx ==
    ASSUME TypeInv, Core
    PROVE  \/ RejectedAt("again")
           \/ /\ worker' \in Workers /\ worker'.step = "again" /\ Held /\ Made
              /\ worker'.state = worker.state /\ worker'.confirmed = worker.confirmed /\ Sound
              /\ worker'.papers \cap worker'.seen = {}
              /\ worker'.seen \subseteq SavedIn(worker'.first)
<1> DEFINE Refused == [worker EXCEPT !.step = "again", !.invalid = TRUE]
<1>1. CASE worker' = Refused
  <2> worker \in Workers /\ worker' \in Workers
    BY <1>1 DEF TypeInv, Workers, Steps
  <2> QED
    BY <1>1 DEF RejectedAt, Held, Learned, Chose, Made, Counted, Workers
<1>2. CASE worker' # Refused
  <2> DEFINE index == worker.first
             new(found) == IF index.complete THEN found \ SavedIn(index) ELSE {}
  <2>0. PICK found \in SUBSET DOI, pending \in SUBSET DOI, warned \in BOOLEAN, erred \in BOOLEAN :
             \E papers \in SUBSET new(found) :
                 worker' = [worker EXCEPT !.step = "again", !.seen = found \cap SavedIn(index),
                              !.papers = papers, !.pending = pending,
                              !.warned = @ \/ warned, !.erred = @ \/ erred]
    BY <1>2 DEF Core
  <2>1. PICK papers \in SUBSET new(found) :
                 worker' = [worker EXCEPT !.step = "again", !.seen = found \cap SavedIn(index),
                              !.papers = papers, !.pending = pending,
                              !.warned = @ \/ warned, !.erred = @ \/ erred]
    BY <2>0
  <2>2. papers \subseteq found \ SavedIn(index) /\ papers \in SUBSET DOI
    OBVIOUS
  <2> DEFINE seen == found \cap SavedIn(index)
             warns == worker.warned \/ warned
             errs == worker.erred \/ erred
  <2>3. seen \in SUBSET DOI /\ seen \subseteq SavedIn(index) /\ papers \cap seen = {}
    BY <2>2
  <2>4. warns \in BOOLEAN /\ errs \in BOOLEAN
    OBVIOUS
  <2>5. worker' = [worker EXCEPT !.step = "again", !.seen = seen, !.papers = papers, !.pending = pending,
                                 !.warned = warns, !.erred = errs]
    BY <2>1
  <2> HIDE DEF seen, warns, errs, index, new
  <2>6. worker' \in Workers
    BY <2>2, <2>3, <2>4, <2>5 DEF TypeInv, Workers, Steps
  <2>7. /\ worker'.step = "again" /\ Held /\ Made
        /\ worker'.state = worker.state /\ worker'.confirmed = worker.confirmed /\ Sound
        /\ worker'.papers = papers /\ worker'.seen = seen /\ worker'.first = worker.first
    BY <2>5, <2>6 DEF TypeInv, Held, Made, Sound, Workers
  <2> QED
    BY <2>3, <2>6, <2>7 DEF index
<1> QED
  BY <1>1, <1>2

LEMMA ReadAgainFx ==
    ASSUME TypeInv, ReadAgain
    PROVE  \/ Raised
           \/ worker.invalid /\ Went("release")
           \/ /\ ~worker.invalid
              /\ worker' \in Workers /\ worker'.step = "materialize" /\ Held /\ Learned /\ Chose /\ Made /\ Sound
              /\ worker'.confirmed \subseteq worker.seen /\ \A d \in worker'.confirmed : saved[d] # None
              /\ ~worker'.erred => worker'.confirmed = worker'.seen
              /\ worker'.warned = worker.warned
<1>1. CASE moved
  BY <1>1, RaisesFx DEF ReadAgain, TypeInv
<1>2. CASE ~moved /\ worker.invalid
  BY <1>2, GoesFx DEF ReadAgain, TypeInv, Steps
<1>3. CASE ~moved /\ ~worker.invalid
  <2> DEFINE still == StillSaved(ReadIndex)
             errs == worker.erred \/ still # worker.seen
  <2>1. still \subseteq worker.seen /\ \A d \in still : saved[d] # None
    BY DEF StillSaved, ReadIndex, TypeInv
  <2>2. worker.seen \in SUBSET DOI /\ errs \in BOOLEAN
    BY DEF TypeInv, Workers
  <2>3. worker' = [worker EXCEPT !.step = "materialize", !.confirmed = still, !.erred = errs]
    BY <1>3 DEF ReadAgain
  <2>4. ~errs => still = worker.seen
    OBVIOUS
  <2> HIDE DEF still, errs
  <2>5. worker' \in Workers
    BY <2>1, <2>2, <2>3 DEF TypeInv, Workers, Steps
  <2>6. /\ worker'.step = "materialize" /\ Held /\ Learned /\ Chose /\ Made /\ Sound
        /\ worker'.confirmed = still /\ worker'.erred = errs /\ worker'.warned = worker.warned
    BY <2>3, <2>5 DEF TypeInv, Held, Learned, Chose, Made, Sound, Workers
  <2> QED
    BY <1>3, <2>1, <2>4, <2>5, <2>6 DEF Chose
<1> QED
  BY <1>1, <1>2, <1>3

LEMMA MaterializeFx ==
    ASSUME TypeInv, Materialize
    PROVE  /\ saved' \in [DOI -> {None, 1, 2}] /\ \A d \in DOI : saved[d] # None => saved'[d] # None
           /\ worker' \in Workers /\ worker'.step = "persist" /\ Held /\ Learned /\ Chose /\ Sound
           /\ worker'.confirmed = worker.confirmed /\ worker'.warned = worker.warned
           /\ worker'.created \cup worker'.existing \subseteq worker.papers
           /\ \A d \in worker'.created \cup worker'.existing : saved'[d] # None
           /\ ~worker'.erred => ~worker.erred
           /\ wrote' \in SUBSET {"papers", "state", "snapshot", "link"}
<1> DEFINE free == IF unreadable \/ moved THEN {} ELSE {d \in worker.papers : saved[d] = None}
           there == IF unreadable \/ moved THEN {} ELSE worker.papers \ free
<1>1. PICK made \in SUBSET free :
          /\ saved' = [d \in DOI |-> IF d \in made THEN 2 ELSE saved[d]]
          /\ wrote' = (IF made # {} THEN wrote \cup {"papers"} ELSE wrote)
          /\ worker' = [worker EXCEPT !.step = "persist", !.created = made, !.existing = there,
                                      !.erred = @ \/ made # free \/ unreadable \/ moved]
  BY DEF Materialize
<1> DEFINE errs == worker.erred \/ made # free \/ unreadable \/ moved
<1>2. made \in SUBSET worker.papers /\ there \in SUBSET worker.papers /\ \A d \in there : saved[d] # None
  OBVIOUS
<1>3. worker.papers \in SUBSET DOI /\ errs \in BOOLEAN
  BY DEF TypeInv, Workers
<1>4. worker' = [worker EXCEPT !.step = "persist", !.created = made, !.existing = there, !.erred = errs]
  BY <1>1
<1>5. None # 2 /\ saved \in [DOI -> {None, 1, 2}]
  BY RunAssumption DEF TypeInv
<1>6. ~errs => ~worker.erred
  OBVIOUS
<1>7. wrote' \in SUBSET {"papers", "state", "snapshot", "link"}
  BY <1>1 DEF TypeInv
<1> HIDE DEF free, there, errs
<1>8. worker' \in Workers
  BY <1>2, <1>3, <1>4 DEF TypeInv, Workers, Steps
<1>9. /\ worker'.step = "persist" /\ Held /\ Learned /\ Chose /\ Sound
      /\ worker'.confirmed = worker.confirmed /\ worker'.warned = worker.warned
      /\ worker'.created = made /\ worker'.existing = there /\ worker'.erred = errs
  BY <1>4, <1>8 DEF TypeInv, Held, Learned, Chose, Sound, Workers
<1>10. saved' \in [DOI -> {None, 1, 2}] /\ \A d \in DOI : saved[d] # None => saved'[d] # None
  BY <1>1, <1>5
<1>11. \A d \in made \cup there : saved'[d] # None
  BY <1>1, <1>2, <1>3, <1>5
<1> QED
  BY <1>2, <1>6, <1>7, <1>8, <1>9, <1>10, <1>11

LEMMA SnapshotFx ==
    ASSUME TypeInv, Snapshot
    PROVE  \/ Raised /\ UNCHANGED <<lastRun, wrote>>
           \/ Went("release") /\ lastRun' = ThisRun /\ wrote' = wrote \cup {"snapshot"}
           \/ /\ worker' \in Workers /\ worker'.step = "release" /\ Held /\ Learned /\ Counted
              /\ worker'.warned = TRUE /\ worker'.erred = worker.erred /\ Sound
              /\ \/ UNCHANGED <<lastRun, wrote>>
                 \/ lastRun' = ThisRun /\ wrote' = wrote \cup {"link"}
<1> worker \in Workers /\ "release" \in Steps
  BY DEF TypeInv, Steps
<1>1. CASE moved
  BY <1>1, RaisesFx DEF Snapshot
<1>2. CASE ~moved /\ Goes("release") /\ lastRun' = ThisRun /\ Wrote("snapshot")
  BY <1>2, GoesFx DEF Wrote
<1>3. CASE (LinkStays \/ UNCHANGED <<lastRun, wrote>>) /\ worker' = [worker EXCEPT !.step = "release", !.warned = TRUE]
  <2>1. worker' \in Workers
    BY <1>3 DEF Workers
  <2>2. /\ worker'.step = "release" /\ Held /\ Learned /\ Counted
        /\ worker'.warned = TRUE /\ worker'.erred = worker.erred /\ Sound
    BY <1>3, <2>1 DEF Held, Learned, Counted, Chose, Made, Sound, Workers
  <2> QED
    BY <1>3, <2>1, <2>2 DEF LinkStays, Wrote
<1> QED
  BY <1>1, <1>2, <1>3 DEF Snapshot, LinkStays, WriteFails

LEMMA ReleaseFx ==
    ASSUME TypeInv, Release
    PROVE  /\ worker' \in Workers /\ worker'.step = "report" /\ worker'.owned = FALSE /\ worker'.dir = worker.dir
           /\ worker'.cfg = worker.cfg /\ Learned /\ Counted /\ Judged
<1>1. worker' = [worker EXCEPT !.step = "report", !.owned = FALSE]
  BY DEF Release
<1>2. worker' \in Workers
  BY <1>1 DEF TypeInv, Workers, Steps
<1> QED
  BY <1>1, <1>2 DEF TypeInv, Learned, Counted, Chose, Made, Judged, Sound, Workers

LEMMA ReportFx == ASSUME TypeInv, Report PROVE Went("none")
<1>1. Goes("none")
  BY DEF Report, Goes
<1> QED
  BY <1>1, GoesFx DEF TypeInv, Steps

\* The steps that publish the provider state
LEMMA PersistFx ==
    ASSUME TypeInv, Persist
    PROVE  \/ Raised /\ UNCHANGED <<db, wrote>>
           \/ Warned /\ UNCHANGED <<db, wrote>>
           \/ Went("build") /\ (worker.state = "bad" \/ db.kind = "none") /\ UNCHANGED <<db, wrote>>
           \/ Went("snapshot") /\ worker.pending = {} /\ UNCHANGED <<db, wrote>>
           \/ Went("snapshot") /\ db' = Whole(db.rows \cup worker.pending) /\ wrote' = wrote \cup {"state"}
<1> worker \in Workers /\ {"build", "snapshot"} \subseteq Steps
  BY DEF TypeInv, Steps
<1>1. CASE moved
  BY <1>1, RaisesFx DEF Persist
<1>2. CASE ~moved /\ worker.state \in {"bad", "busy"}
  BY <1>2, GoesFx, WarnsFx DEF Persist
<1>3. CASE ~moved /\ worker.state \notin {"bad", "busy"} /\ worker.pending = {}
  BY <1>3, GoesFx DEF Persist, Persisted
<1>4. CASE ~moved /\ worker.state \notin {"bad", "busy"} /\ worker.pending # {}
  BY <1>4, GoesFx, WarnsFx DEF Persist, Persisted, Wrote
<1> QED
  BY <1>1, <1>2, <1>3, <1>4

LEMMA BuildFx ==
    ASSUME TypeInv, BuildFresh
    PROVE  \/ Went("fill") /\ temp' = Db("partial")
           \/ Warned /\ UNCHANGED temp
  BY GoesFx, WarnsFx DEF BuildFresh, TypeInv, Steps

LEMMA FillFx ==
    ASSUME TypeInv, FillFresh
    PROVE  \/ Went("keep") /\ temp' = Whole(worker.pending)
           \/ Warned /\ temp' = Db("none")
  BY GoesFx, WarnsFx DEF FillFresh, TypeInv, Steps

LEMMA KeepFx == ASSUME TypeInv, KeepPrevious PROVE Went("publish") /\ backup' = db
  BY GoesFx DEF KeepPrevious, TypeInv, Steps

LEMMA PublishFx ==
    ASSUME TypeInv, Publish
    PROVE  \/ Went("sync") /\ db' = temp /\ temp' = Db("none") /\ wrote' = wrote \cup {"state"} /\ UNCHANGED backup
           \/ Warned /\ temp' = Db("none") /\ backup' = Db("none") /\ UNCHANGED <<db, wrote>>
  BY GoesFx, WarnsFx DEF Publish, Wrote, TypeInv, Steps

LEMMA SyncFx ==
    ASSUME TypeInv, SyncDirectory
    PROVE  \/ Went("snapshot") /\ backup' = Db("none") /\ UNCHANGED db
           \/ Warned /\ db' = backup /\ backup' = Db("none")
           \/ Warned /\ UNCHANGED <<db, backup>>
  BY GoesFx, WarnsFx DEF SyncDirectory, Persisted, TypeInv, Steps

LEMMA DbTypes == /\ \A k \in Kinds : Db(k) \in Dbs
                 /\ \A rows \in SUBSET DOI : Whole(rows) \in Dbs /\ Whole(rows).kind = "whole" /\ Whole(rows).rows = rows
  BY DEF Db, Whole, Dbs, Kinds

LEMMA OutcomeIs == Outcome \in Outcomes
  BY DEF Outcome, Outcomes

LEMMA TypeStep == TypeInv /\ OwnInv /\ [RunNext]_runVars => TypeInv'
<1> SUFFICES ASSUME TypeInv, OwnInv, [RunNext]_runVars PROVE TypeInv'
    OBVIOUS
<1>1. worker' \in Workers /\ status' \in {"IDLE", "RUNNING", "FINISHED"} /\ (status' = "RUNNING") = (worker'.step # "none")
  <2>1. CASE StartRun
    BY <2>1, StartRunFx DEF StartRun, TypeInv, AtStep
  <2>2. CASE Reserve
    BY <2>2, ReserveFx, QuietIs DEF Reserve, TypeInv, AtStep
  <2>3. CASE ConfirmConfig
    BY <2>3, ConfirmFx, QuietIs DEF ConfirmConfig, Went, TypeInv, AtStep
  <2>4. CASE EnterRun
    BY <2>4, EnterFx DEF EnterRun, Went, Raised, Rejected, RejectedAt, TypeInv, AtStep
  <2>5. CASE Prepare
    BY <2>5, PrepareFx DEF Prepare, Went, Raised, Rejected, RejectedAt, TypeInv, AtStep, Rest
  <2>6. CASE ReadState
    BY <2>6, ReadStateFx DEF ReadState, TypeInv, AtStep, Rest
  <2>7. CASE ReadIdentities
    BY <2>7, ReadIdentitiesFx DEF ReadIdentities, Raised, TypeInv, AtStep, Rest
  <2>8. CASE Core
    BY <2>8, CoreFx DEF Core, Rejected, RejectedAt, TypeInv, AtStep, Rest
  <2>9. CASE ReadAgain
    BY <2>9, ReadAgainFx DEF ReadAgain, Raised, Went, TypeInv, AtStep, Rest
  <2>10. CASE Materialize
    BY <2>10, MaterializeFx DEF Materialize, TypeInv, AtStep
  <2>11. CASE Persist
    BY <2>11, PersistFx DEF Persist, Went, Raised, Warned, TypeInv, AtStep, Files
  <2>12. CASE BuildFresh
    BY <2>12, BuildFx DEF BuildFresh, Went, Warned, TypeInv, AtStep, Files
  <2>13. CASE FillFresh
    BY <2>13, FillFx DEF FillFresh, Went, Warned, TypeInv, AtStep, Files
  <2>14. CASE KeepPrevious
    BY <2>14, KeepFx DEF KeepPrevious, Went, TypeInv, AtStep, Files
  <2>15. CASE Publish
    BY <2>15, PublishFx DEF Publish, Went, Warned, TypeInv, AtStep, Files
  <2>16. CASE SyncDirectory
    BY <2>16, SyncFx DEF SyncDirectory, Went, Warned, TypeInv, AtStep, Files
  <2>17. CASE Snapshot
    BY <2>17, SnapshotFx DEF Snapshot, Went, Raised, TypeInv, AtStep
  <2>18. CASE Release
    BY <2>18, ReleaseFx DEF Release, TypeInv, AtStep
  <2>19. CASE Report
    BY <2>19, ReportFx DEF Report, Went, TypeInv, AtStep
  <2>20. CASE SaveConfig
    BY <2>20 DEF SaveConfig, TypeInv, Beside
  <2>21. CASE EditPapers
    BY <2>21 DEF EditPapers, TypeInv, Beside
  <2>22. CASE MoveWorkspace
    BY <2>22 DEF MoveWorkspace, TypeInv, Beside
  <2>23. CASE OtherLocks
    BY <2>23 DEF OtherLocks, TypeInv, Beside
  <2>24. CASE ProcessStops
    BY <2>24, QuietIs DEF ProcessStops, TypeInv, AtStep
  <2>25. CASE UNCHANGED runVars
    BY <2>25 DEF runVars, TypeInv
  <2> QED
    BY <2>1, <2>2, <2>3, <2>4, <2>5, <2>6, <2>7, <2>8, <2>9, <2>10, <2>11, <2>12, <2>13, <2>14, <2>15,
       <2>16, <2>17, <2>18, <2>19, <2>20, <2>21, <2>22, <2>23, <2>24, <2>25 DEF RunNext, RunStep
<1>2. /\ saved' \in [DOI -> {None, 1, 2}] /\ unreadable' \in BOOLEAN
      /\ db' \in Dbs /\ temp' \in Dbs /\ backup' \in Dbs /\ lastRun' \in {None} \cup Snapshots
  <2> USE DbTypes
  <2> worker.pending \in SUBSET DOI /\ {"none", "partial"} \subseteq Kinds
    BY DEF TypeInv, Workers, Kinds
  <2>1. CASE Materialize
    BY <2>1, MaterializeFx DEF Materialize, TypeInv
  <2>2. CASE Persist
    <3>1. db.rows \cup worker.pending \in SUBSET DOI
      BY DEF TypeInv, Dbs
    <3> QED
      BY <2>2, <3>1, PersistFx DEF Persist, Files, TypeInv
  <2>3. CASE BuildFresh
    BY <2>3, BuildFx DEF BuildFresh, Files, TypeInv
  <2>4. CASE FillFresh
    BY <2>4, FillFx DEF FillFresh, Files, TypeInv
  <2>5. CASE KeepPrevious
    BY <2>5, KeepFx DEF KeepPrevious, Files, TypeInv
  <2>6. CASE Publish
    BY <2>6, PublishFx DEF Publish, Files, TypeInv
  <2>7. CASE SyncDirectory
    BY <2>7, SyncFx DEF SyncDirectory, Files, TypeInv
  <2>8. CASE Snapshot
    <3>1. ThisRun \in Snapshots
      BY OutcomeIs DEF TypeInv, Snapshots, ThisRun
    <3> QED
      BY <2>8, <3>1, SnapshotFx DEF Snapshot, TypeInv
  <2>9. CASE EditPapers
    <3>1. saved' = saved \/ \E d \in DOI, note \in {None, 1} : saved' = [saved EXCEPT ![d] = note]
      BY <2>9 DEF EditPapers
    <3>2. saved' \in [DOI -> {None, 1, 2}]
      BY <3>1 DEF TypeInv
    <3> QED
      BY <2>9, <3>2 DEF EditPapers, TypeInv
  <2>10. CASE ProcessStops
    <3>1. HotJournal => db' \in Dbs
      BY DEF HotJournal, TypeInv, Dbs, Kinds
    <3> QED
      BY <2>10, <3>1 DEF ProcessStops, TypeInv
  <2>11. CASE UNCHANGED disk
    BY <2>11 DEF disk, TypeInv
  <2>12. CASE StartRun \/ Reserve \/ ConfirmConfig \/ EnterRun \/ Prepare \/ ReadState \/ ReadIdentities \/ Core
                \/ ReadAgain \/ Release \/ Report \/ SaveConfig \/ MoveWorkspace \/ OtherLocks
    <3>1. UNCHANGED disk
      BY <2>12 DEF StartRun, Reserve, ConfirmConfig, EnterRun, Prepare, ReadState, ReadIdentities, Core,
         ReadAgain, Release, Report, SaveConfig, MoveWorkspace, OtherLocks, Rest
    <3> QED
      BY <3>1, <2>11
  <2> QED
    BY <2>1, <2>2, <2>3, <2>4, <2>5, <2>6, <2>7, <2>8, <2>9, <2>10, <2>11, <2>12 DEF RunNext, RunStep,
       runVars
<1>3. config' \in Configs /\ lock' \in Locks /\ moved' \in BOOLEAN
  <2>1. CASE Reserve
    <3>1. lock' = lock \/ \E d \in Dir, by \in {"free", "run"} : lock' = [lock EXCEPT ![d] = by]
      BY <2>1, ReserveFx DEF OwnInv, AtStep, Reserve, TypeInv, Configs, Workers
    <3> QED
      BY <2>1, <3>1 DEF Reserve, TypeInv, Locks
  <2>2. CASE ConfirmConfig
    <3>1. lock' = lock \/ \E d \in Dir, by \in {"free", "run"} : lock' = [lock EXCEPT ![d] = by]
      BY <2>2, ConfirmFx DEF OwnInv, AtStep, TypeInv, Configs, Workers
    <3> QED
      BY <2>2, <3>1 DEF ConfirmConfig, TypeInv, Locks
  <2>3. CASE EnterRun
    <3>1. lock' = lock \/ \E d \in Dir, by \in {"free", "run"} : lock' = [lock EXCEPT ![d] = by]
      BY <2>3, EnterFx DEF OwnInv, AtStep, TypeInv, Configs, Workers
    <3> QED
      BY <2>3, <3>1 DEF EnterRun, TypeInv, Locks
  <2>4. CASE Release
    BY <2>4 DEF Release, TypeInv, Locks, Workers, Dir
  <2>5. CASE OtherLocks
    BY <2>5 DEF OtherLocks, TypeInv, Locks, Workers, Dir, Beside
  <2>6. CASE ProcessStops
    BY <2>6 DEF ProcessStops, TypeInv, Locks, Workers, Dir
  <2>7. CASE SaveConfig
    BY <2>7 DEF SaveConfig, TypeInv
  <2>8. CASE StartRun \/ Prepare \/ ReadState \/ ReadIdentities \/ Core \/ ReadAgain \/ Materialize \/ Persist
               \/ BuildFresh \/ FillFresh \/ KeepPrevious \/ Publish \/ SyncDirectory \/ Snapshot \/ Report \/ EditPapers \/ MoveWorkspace
    BY <2>8 DEF StartRun, Prepare, ReadState, ReadIdentities, Core, ReadAgain, Materialize, Persist,
       BuildFresh, FillFresh, KeepPrevious, Publish, SyncDirectory, Snapshot, Report, EditPapers,
       MoveWorkspace, Rest, Files, TypeInv
  <2>9. CASE UNCHANGED runVars
    BY <2>9 DEF runVars, TypeInv
  <2> QED
    BY <2>1, <2>2, <2>3, <2>4, <2>5, <2>6, <2>7, <2>8, <2>9 DEF RunNext, RunStep
<1>4. error' \in BOOLEAN /\ told' \in {None} \cup Results
  <2>1. CASE Report
    <3>1. [outcome |-> Outcome, created |-> worker.created, existing |-> worker.existing,
           confirmed |-> worker.confirmed] \in Results
      BY OutcomeIs DEF TypeInv, Workers, Results
    <3>2. [outcome |-> "INVALID_CONFIGURATION", created |-> {}, existing |-> {}, confirmed |-> {}] \in Results
      BY DEF Results, Outcomes
    <3>3. worker.raised \in BOOLEAN
      BY DEF TypeInv, Workers
    <3> QED
      BY <2>1, <3>1, <3>2, <3>3 DEF Report
  <2>2. CASE StartRun \/ Reserve \/ ConfirmConfig \/ ProcessStops
    BY <2>2 DEF StartRun, Reserve, ConfirmConfig, ProcessStops, StartFailed, TypeInv
  <2>3. CASE EnterRun \/ Prepare \/ ReadState \/ ReadIdentities \/ Core \/ ReadAgain \/ Materialize \/ Persist
               \/ BuildFresh \/ FillFresh \/ KeepPrevious \/ Publish \/ SyncDirectory \/ Snapshot \/ Release \/ SaveConfig \/ EditPapers \/ MoveWorkspace \/ OtherLocks
    BY <2>3 DEF EnterRun, Prepare, ReadState, ReadIdentities, Core, ReadAgain, Materialize, Persist,
       BuildFresh, FillFresh, KeepPrevious, Publish, SyncDirectory, Snapshot, Release, SaveConfig,
       EditPapers, MoveWorkspace, OtherLocks, Rest, Files, TypeInv
  <2>4. CASE UNCHANGED runVars
    BY <2>4 DEF runVars, TypeInv
  <2> QED
    BY <2>1, <2>2, <2>3, <2>4 DEF RunNext, RunStep
<1>5. starts' \in Nat /\ changes' \in Nat /\ wrote' \in SUBSET {"papers", "state", "snapshot", "link"}
  <2>1. CASE StartRun \/ SaveConfig \/ EditPapers \/ MoveWorkspace \/ OtherLocks
    BY <2>1 DEF StartRun, SaveConfig, EditPapers, MoveWorkspace, OtherLocks, Beside, TypeInv
  <2>2. CASE Materialize
    BY <2>2, MaterializeFx DEF Materialize, TypeInv
  <2>3. CASE Persist
    BY <2>3, PersistFx DEF Persist, Files, TypeInv
  <2>4. CASE Publish
    BY <2>4, PublishFx DEF Publish, Files, TypeInv
  <2>5. CASE Snapshot
    BY <2>5, SnapshotFx DEF Snapshot, TypeInv
  <2>6. CASE Reserve \/ ConfirmConfig \/ EnterRun \/ Prepare \/ ReadState \/ ReadIdentities \/ Core \/ ReadAgain
               \/ BuildFresh \/ FillFresh \/ KeepPrevious \/ SyncDirectory \/ Release \/ Report \/ ProcessStops
    BY <2>6 DEF Reserve, ConfirmConfig, EnterRun, Prepare, ReadState, ReadIdentities, Core, ReadAgain,
       BuildFresh, FillFresh, KeepPrevious, SyncDirectory, Release, Report, ProcessStops, Rest, Files,
       history, TypeInv
  <2>7. CASE UNCHANGED runVars
    BY <2>7 DEF runVars, history, TypeInv
  <2> QED
    BY <2>1, <2>2, <2>3, <2>4, <2>5, <2>6, <2>7 DEF RunNext, RunStep
<1> QED
  BY <1>1, <1>2, <1>3, <1>4, <1>5 DEF TypeInv

LEMMA OwnStep == TypeInv /\ OwnInv /\ [RunNext]_runVars => OwnInv'
<1> SUFFICES ASSUME TypeInv /\ OwnInv, [RunNext]_runVars PROVE OwnInv'
    OBVIOUS
<1>1. CASE StartRun
    BY <1>1, StartRunFx DEF StartRun, TypeInv, OwnInv, Working, Workers, Locks, Blank, Configs, Dir,
       AtStep, disk
<1>2. CASE Reserve
    <2>1. CASE worker' = Quiet /\ lock' = lock
      BY <1>2, <2>1, QuietIs DEF Reserve, TypeInv, OwnInv, Working, Blank, AtStep
    <2>2. CASE /\ worker'.step = "confirm" /\ worker'.cfg = worker.cfg /\ worker'.dir = worker.cfg.dir
               /\ worker'.owned = TRUE /\ lock' = [lock EXCEPT ![worker.cfg.dir] = "run"]
      <3>1. worker.cfg \in Configs /\ worker.cfg.dir \in Dir /\ ~worker.owned /\ lock \in Locks
        BY <1>2 DEF Reserve, TypeInv, OwnInv, Configs, AtStep
      <3>2. lock'[worker.cfg.dir] = "run" /\ \A d \in Dir : lock'[d] = "run" => d = worker.cfg.dir
        BY <2>2, <3>1 DEF OwnInv, Locks
      <3> QED
        BY <2>2, <3>1, <3>2 DEF OwnInv, Working, AtStep
    <2> QED
      BY <1>2, <2>1, <2>2, ReserveFx
<1>3. CASE ConfirmConfig
    <2>1. CASE Went("enter") /\ UNCHANGED lock
      BY <1>3, <2>1, RunAssumption DEF ConfirmConfig, TypeInv, Configs, OwnInv, Working, AtStep, Went,
         Held
    <2>2. CASE worker' = Quiet /\ lock' = [lock EXCEPT ![worker.dir] = "free"]
      <3>1. worker.owned /\ lock \in Locks /\ worker.dir \in Dir
        BY <1>3 DEF ConfirmConfig, TypeInv, OwnInv, AtStep, Workers
      <3>2. \A d \in Dir : lock'[d] # "run"
        BY <2>2, <3>1 DEF OwnInv, Locks
      <3> QED
        BY <2>2, <3>2, QuietIs DEF OwnInv, Working, AtStep, Blank
    <2> QED
      BY <1>3, <2>1, <2>2, ConfirmFx
<1>4. CASE EnterRun
    <2>1. worker.step = "enter" /\ worker.owned = (worker.cfg # None)
      BY <1>4 DEF EnterRun, OwnInv, AtStep
    <2>2. CASE (Raised \/ Rejected \/ Went("prepare")) /\ UNCHANGED lock /\ (Went("prepare") => worker.cfg # None)
      <3>1. Went("prepare") => worker'.owned /\ worker'.cfg \in Configs /\ worker'.cfg.dir = worker'.dir
        BY <2>1, <2>2 DEF TypeInv, OwnInv, AtStep, Workers, Went, Held
      <3>2. worker'.owned = worker.owned /\ worker'.dir = worker.dir /\ worker'.step \in {"release", "prepare"}
        BY <2>2 DEF Raised, Rejected, RejectedAt, Went, Held
      <3>3. worker'.step = "prepare" => Went("prepare")
        BY <2>2 DEF Raised, Rejected, RejectedAt
      <3> QED
        BY <2>2, <3>1, <3>2, <3>3 DEF OwnInv, Working, AtStep
    <2>3. CASE /\ worker.cfg = None /\ worker'.step = "prepare" /\ worker'.cfg = config /\ worker'.dir = config.dir
               /\ worker'.owned = TRUE /\ lock' = [lock EXCEPT ![config.dir] = "run"]
      <3>1. config \in Configs /\ config.dir \in Dir /\ ~worker.owned /\ lock \in Locks
        BY <2>1, <2>3 DEF TypeInv, Configs
      <3>2. lock'[config.dir] = "run" /\ \A d \in Dir : lock'[d] = "run" => d = config.dir
        BY <2>3, <3>1 DEF OwnInv, Locks
      <3> QED
        BY <2>3, <3>1, <3>2 DEF OwnInv, Working, AtStep
    <2>4. Raised \/ Rejected => ~Went("prepare")
      BY DEF Raised, Rejected, RejectedAt, Went
    <2> QED
      BY <1>4, <2>2, <2>3, <2>4, EnterFx
<1>5. CASE Prepare
    BY <1>5, PrepareFx, ZenonT(40) DEF Prepare, TypeInv, OwnInv, Working, Workers, Locks, Configs, Dir, Went, Raised,
       Rejected, RejectedAt, Held, Learned, Chose, Made, Counted, Sound, Judged, AtStep, Rest, disk, history
<1>6. CASE ReadState
    BY <1>6, ReadStateFx DEF ReadState, TypeInv, OwnInv, Working, Workers, Locks, Configs, Dir, Held,
       Chose, Made, Counted, Sound, AtStep, Rest, disk, history
<1>7. CASE ReadIdentities
    BY <1>7, ReadIdentitiesFx, ZenonT(40) DEF ReadIdentities, TypeInv, OwnInv, Working, Workers, Locks, Configs, Dir,
       Raised, Held, Learned, Chose, Made, Counted, Sound, AtStep, Rest, disk, history
<1>8. CASE Core
    BY <1>8, CoreFx, ZenonT(40) DEF Core, TypeInv, OwnInv, Working, Workers, Locks, Configs, Dir, Rejected, RejectedAt, Held,
       Learned, Chose, Made, Counted, Sound, AtStep, Rest, disk, history
<1>9. CASE ReadAgain
    BY <1>9, ReadAgainFx, ZenonT(40) DEF ReadAgain, TypeInv, OwnInv, Working, Workers, Locks, Configs, Dir, Went, Raised,
       Held, Learned, Chose, Made, Counted, Sound, AtStep, Rest, disk, history
<1>10. CASE Materialize
    BY <1>10, MaterializeFx, ZenonT(40) DEF Materialize, TypeInv, OwnInv, Working, Workers, Locks, Configs, Dir, Held,
       Learned, Chose, Sound, AtStep
<1>11. CASE Persist
    BY <1>11, PersistFx, ZenonT(40) DEF Persist, TypeInv, OwnInv, Working, Workers, Locks, Configs, Dir, Went, Raised,
       Warned, Held, Learned, Chose, Made, Counted, Sound, Judged, AtStep, Files
<1>12. CASE BuildFresh
    BY <1>12, BuildFx, ZenonT(40) DEF BuildFresh, TypeInv, OwnInv, Working, Workers, Locks, Configs, Dir, Went,
       Warned, Held, Learned, Chose, Made, Counted, Sound, Judged, AtStep, Files
<1>13. CASE FillFresh
    BY <1>13, FillFx, ZenonT(40) DEF FillFresh, TypeInv, OwnInv, Working, Workers, Locks, Configs, Dir, Went, Warned,
       Held, Learned, Chose, Made, Counted, Sound, Judged, AtStep, Files
<1>14. CASE KeepPrevious
    BY <1>14, KeepFx DEF KeepPrevious, TypeInv, OwnInv, Working, Workers, Locks, Configs, Dir, Went, Held,
       Learned, Chose, Made, Counted, Sound, Judged, AtStep, Files
<1>15. CASE Publish
    BY <1>15, PublishFx, ZenonT(40) DEF Publish, TypeInv, OwnInv, Working, Workers, Locks, Configs, Dir, Went, Warned,
       Held, Learned, Chose, Made, Counted, Sound, Judged, AtStep, Files
<1>16. CASE SyncDirectory
    BY <1>16, SyncFx, ZenonT(40) DEF SyncDirectory, TypeInv, OwnInv, Working, Workers, Locks, Configs, Dir, Went,
       Warned, Held, Learned, Chose, Made, Counted, Sound, Judged, AtStep, Files
<1>17. CASE Snapshot
    BY <1>17, SnapshotFx, ZenonT(40) DEF Snapshot, TypeInv, OwnInv, Working, Workers, Locks, Configs, Dir, Went,
       Raised, Held, Learned, Chose, Made, Counted, Sound, Judged, AtStep
<1>18. CASE Release
    BY <1>18, ReleaseFx DEF Release, TypeInv, OwnInv, Working, Workers, Locks, Configs, Dir, Learned,
       Chose, Made, Counted, Sound, Judged, AtStep, disk, history
<1>19. CASE Report
    BY <1>19, ReportFx DEF Report, TypeInv, OwnInv, Working, Workers, Locks, Configs, Dir, Went, Held,
       Learned, Chose, Made, Counted, Sound, Judged, AtStep, disk, history
<1>20. CASE SaveConfig
    BY <1>20 DEF SaveConfig, TypeInv, OwnInv, Working, Workers, Locks, Configs, Dir, AtStep, Beside, disk
<1>21. CASE EditPapers
    BY <1>21 DEF EditPapers, TypeInv, OwnInv, Working, Workers, Locks, Configs, Dir, AtStep, Beside
<1>22. CASE MoveWorkspace
    BY <1>22 DEF MoveWorkspace, TypeInv, OwnInv, Working, Workers, Locks, Configs, Dir, AtStep, Beside,
       disk
<1>23. CASE OtherLocks
    BY <1>23 DEF OtherLocks, TypeInv, OwnInv, Working, Workers, Locks, Configs, Dir, AtStep, Beside, disk
<1>24. CASE ProcessStops
    BY <1>24, QuietIs DEF ProcessStops, TypeInv, OwnInv, Working, Workers, Locks, Blank, Configs, Dir,
       AtStep, history
<1>25. CASE UNCHANGED runVars
    BY <1>25 DEF runVars, TypeInv, OwnInv, Working, Workers, Locks, Configs, Dir, AtStep, disk, history
<1> QED
    BY <1>1, <1>2, <1>3, <1>4, <1>5, <1>6, <1>7, <1>8, <1>9, <1>10, <1>11, <1>12, <1>13, <1>14, <1>15,
       <1>16, <1>17, <1>18, <1>19, <1>20, <1>21, <1>22, <1>23, <1>24, <1>25 DEF RunNext, RunStep

LEMMA CountStep == TypeInv /\ OwnInv /\ CountInv /\ [RunNext]_runVars => CountInv'
<1> SUFFICES ASSUME TypeInv /\ OwnInv /\ CountInv, [RunNext]_runVars PROVE CountInv'
    OBVIOUS
<1>1. CASE StartRun
    BY <1>1, StartRunFx DEF StartRun, TypeInv, CountInv, Unready, Ending, Counting, Workers, Blank,
       AtStep, disk
<1>2. CASE Reserve
    BY <1>2, ReserveFx, QuietIs, ZenonT(40) DEF Reserve, TypeInv, CountInv, Unready, Ending, Counting, Workers, Blank,
       Learned, Chose, Made, Counted, Sound, Judged, AtStep, disk, history
<1>3. CASE ConfirmConfig
    BY <1>3, ConfirmFx, QuietIs, ZenonT(40) DEF ConfirmConfig, TypeInv, CountInv, Unready, Ending, Counting, Workers,
       Blank, Went, Held, Learned, Chose, Made, Counted, Sound, Judged, AtStep, disk, history
<1>4. CASE EnterRun
    BY <1>4, EnterFx DEF EnterRun, TypeInv, CountInv, Unready, Ending, Counting, Workers, Went, Raised,
       Rejected, RejectedAt, Held, Learned, Chose, Made, Counted, Sound, Judged, AtStep, disk, history
<1>5. CASE Prepare
    BY <1>5, PrepareFx DEF Prepare, TypeInv, CountInv, Unready, Ending, Counting, Workers, Went, Raised,
       Rejected, RejectedAt, Held, Learned, Chose, Made, Counted, Sound, Judged, AtStep, Rest, disk, history
<1>6. CASE ReadState
    BY <1>6, ReadStateFx DEF ReadState, TypeInv, CountInv, Unready, Ending, Counting, Workers, Held,
       Chose, Made, Counted, Sound, AtStep, Rest, disk, history
<1>7. CASE ReadIdentities
    BY <1>7, ReadIdentitiesFx DEF ReadIdentities, TypeInv, CountInv, Unready, Ending, Counting, Workers,
       Raised, Held, Learned, Chose, Made, Counted, Sound, AtStep, Rest, disk, history
<1>8. CASE Core
    BY <1>8, CoreFx DEF Core, TypeInv, CountInv, Unready, Ending, Counting, Workers, Rejected, RejectedAt, Held,
       Learned, Chose, Made, Counted, Sound, AtStep, Rest, disk, history
<1>9. CASE ReadAgain
    BY <1>9, ReadAgainFx DEF ReadAgain, TypeInv, CountInv, Unready, Ending, Counting, Workers, Went, Judged, Raised,
       Held, Learned, Chose, Made, Counted, Sound, AtStep, Rest, disk, history
<1>10. CASE Materialize
    BY <1>10, MaterializeFx DEF Materialize, TypeInv, CountInv, Unready, Ending, Counting, Workers, Held,
       Learned, Chose, Sound, AtStep
<1>11. CASE Persist
    BY <1>11, PersistFx DEF Persist, TypeInv, CountInv, Unready, Ending, Counting, Workers, Went, Raised,
       Warned, Held, Learned, Chose, Made, Counted, Sound, Judged, AtStep, Files
<1>12. CASE BuildFresh
    BY <1>12, BuildFx DEF BuildFresh, TypeInv, CountInv, Unready, Ending, Counting, Workers, Went, Warned,
       Held, Learned, Chose, Made, Counted, Sound, Judged, AtStep, Files
<1>13. CASE FillFresh
    BY <1>13, FillFx DEF FillFresh, TypeInv, CountInv, Unready, Ending, Counting, Workers, Went, Warned,
       Held, Learned, Chose, Made, Counted, Sound, Judged, AtStep, Files
<1>14. CASE KeepPrevious
    BY <1>14, KeepFx DEF KeepPrevious, TypeInv, CountInv, Unready, Ending, Counting, Workers, Went, Held,
       Learned, Chose, Made, Counted, Sound, Judged, AtStep, Files
<1>15. CASE Publish
    BY <1>15, PublishFx DEF Publish, TypeInv, CountInv, Unready, Ending, Counting, Workers, Went, Warned,
       Held, Learned, Chose, Made, Counted, Sound, Judged, AtStep, Files
<1>16. CASE SyncDirectory
    BY <1>16, SyncFx DEF SyncDirectory, TypeInv, CountInv, Unready, Ending, Counting, Workers, Went,
       Warned, Held, Learned, Chose, Made, Counted, Sound, Judged, AtStep, Files
<1>17. CASE Snapshot
    BY <1>17, SnapshotFx DEF Snapshot, TypeInv, CountInv, Unready, Ending, Counting, Workers, Went,
       Raised, Held, Learned, Chose, Made, Counted, Sound, Judged, AtStep
<1>18. CASE Release
    BY <1>18, ReleaseFx DEF Release, TypeInv, CountInv, Unready, Ending, Counting, Workers, Learned,
       Chose, Made, Counted, Sound, Judged, AtStep, disk, history
<1>19. CASE Report
    BY <1>19, ReportFx DEF Report, TypeInv, CountInv, Unready, Ending, Counting, Workers, Went, Held,
       Learned, Chose, Made, Counted, Sound, Judged, AtStep, disk, history
<1>20. CASE SaveConfig
    BY <1>20 DEF SaveConfig, TypeInv, CountInv, Unready, Ending, Counting, Workers, AtStep, Beside, disk
<1>21. CASE EditPapers
    BY <1>21 DEF EditPapers, TypeInv, CountInv, Unready, Ending, Counting, Workers, AtStep, Beside
<1>22. CASE MoveWorkspace
    BY <1>22 DEF MoveWorkspace, TypeInv, CountInv, Unready, Ending, Counting, Workers, AtStep, Beside, disk
<1>23. CASE OtherLocks
    BY <1>23 DEF OtherLocks, TypeInv, CountInv, Unready, Ending, Counting, Workers, AtStep, Beside, disk
<1>24. CASE ProcessStops
    BY <1>24, QuietIs DEF ProcessStops, TypeInv, CountInv, Unready, Ending, Counting, Workers, Blank,
       AtStep, history
<1>25. CASE UNCHANGED runVars
    BY <1>25 DEF runVars, TypeInv, CountInv, Unready, Ending, Counting, Workers, AtStep, disk, history
<1> QED
    BY <1>1, <1>2, <1>3, <1>4, <1>5, <1>6, <1>7, <1>8, <1>9, <1>10, <1>11, <1>12, <1>13, <1>14, <1>15,
       <1>16, <1>17, <1>18, <1>19, <1>20, <1>21, <1>22, <1>23, <1>24, <1>25 DEF RunNext, RunStep

LEMMA StateStep == TypeInv /\ OwnInv /\ StateInv /\ [RunNext]_runVars => StateInv'
<1> SUFFICES ASSUME TypeInv /\ OwnInv /\ StateInv, [RunNext]_runVars PROVE StateInv'
    OBVIOUS
<1>1. CASE StartRun
    BY <1>1, StartRunFx, DbTypes DEF StartRun, TypeInv, StateInv, Workers, Dbs, Blank, AtStep, disk
<1>2. CASE Reserve
    BY <1>2, ReserveFx, QuietIs, DbTypes DEF Reserve, TypeInv, StateInv, Workers, Dbs, Blank, Learned,
       Chose, Made, Counted, Sound, Judged, AtStep, disk, history
<1>3. CASE ConfirmConfig
    BY <1>3, ConfirmFx, QuietIs, DbTypes DEF ConfirmConfig, TypeInv, StateInv, Workers, Dbs, Blank, Went,
       Held, Learned, Chose, Made, Counted, Sound, Judged, AtStep, disk, history
<1>4. CASE EnterRun
    BY <1>4, EnterFx, DbTypes DEF EnterRun, TypeInv, StateInv, Workers, Dbs, Went, Raised, Rejected, RejectedAt, Held,
       Learned, Chose, Made, Counted, Sound, Judged, AtStep, disk, history
<1>5. CASE Prepare
    BY <1>5, PrepareFx, DbTypes DEF Prepare, TypeInv, StateInv, Workers, Dbs, Went, Raised, Rejected, RejectedAt,
       Held, Learned, Chose, Made, Counted, Sound, Judged, AtStep, Rest, disk, history
<1>6. CASE ReadState
    BY <1>6, ReadStateFx, DbTypes DEF ReadState, TypeInv, StateInv, Workers, Dbs, Held, Chose, Made,
       Counted, Sound, AtStep, Rest, disk, history
<1>7. CASE ReadIdentities
    BY <1>7, ReadIdentitiesFx, DbTypes DEF ReadIdentities, TypeInv, StateInv, Workers, Dbs, Raised, Held,
       Learned, Chose, Made, Counted, Sound, AtStep, Rest, disk, history
<1>8. CASE Core
    BY <1>8, CoreFx, DbTypes DEF Core, TypeInv, StateInv, Workers, Dbs, Rejected, RejectedAt, Held, Learned, Chose,
       Made, Counted, Sound, AtStep, Rest, disk, history
<1>9. CASE ReadAgain
    BY <1>9, ReadAgainFx, DbTypes DEF ReadAgain, TypeInv, StateInv, Workers, Dbs, Went, Raised, Held, Learned,
       Chose, Made, Counted, Sound, AtStep, Rest, disk, history
<1>10. CASE Materialize
    BY <1>10, MaterializeFx, DbTypes DEF Materialize, TypeInv, StateInv, Workers, Dbs, Held, Learned,
       Chose, Sound, AtStep
<1>11. CASE Persist
    <2>1. worker.step = "persist" /\ temp' = temp /\ backup' = backup
      BY <1>11 DEF Persist, AtStep
    <2>2. db.rows \cup worker.pending \in SUBSET DOI /\ worker.state = db.kind
      BY <2>1 DEF TypeInv, Dbs, Workers, StateInv
    <2>3. db'.kind # "partial"
      BY <1>11, <2>2, PersistFx, DbTypes DEF StateInv
    <2>4. CASE Went("build")
      BY <1>11, <2>1, <2>2, <2>3, <2>4, PersistFx DEF StateInv, AtStep, Raised, Warned, Went, Learned
    <2>5. CASE ~Went("build")
      BY <1>11, <2>1, <2>3, <2>5, PersistFx DEF StateInv, AtStep, Raised, Warned, Went
    <2> QED
      BY <2>4, <2>5
<1>12. CASE BuildFresh
    BY <1>12, BuildFx, DbTypes DEF BuildFresh, TypeInv, StateInv, Workers, Dbs, Went, Warned, Held,
       Learned, Chose, Made, Counted, Sound, Judged, AtStep, Files
<1>13. CASE FillFresh
    BY <1>13, FillFx, DbTypes DEF FillFresh, TypeInv, StateInv, Workers, Dbs, Went, Warned, Held, Learned,
       Chose, Made, Counted, Sound, Judged, AtStep, Files
<1>14. CASE KeepPrevious
    BY <1>14, KeepFx, DbTypes DEF KeepPrevious, TypeInv, StateInv, Workers, Dbs, Went, Held, Learned,
       Chose, Made, Counted, Sound, Judged, AtStep, Files
<1>15. CASE Publish
    <2>1. /\ worker.step = "publish" /\ temp = Whole(worker.pending) /\ backup = db /\ worker.state = db.kind
          /\ db.kind # "partial" /\ worker.pending \in SUBSET DOI
      BY <1>15 DEF Publish, AtStep, StateInv, TypeInv, Workers
    <2>2. CASE Went("sync") /\ db' = temp /\ UNCHANGED backup
      BY <2>1, <2>2, DbTypes DEF StateInv, AtStep, Went, Learned
    <2>3. CASE Warned /\ UNCHANGED db
      BY <2>1, <2>3 DEF StateInv, AtStep, Warned
    <2> QED
      BY <1>15, <2>2, <2>3, PublishFx
<1>16. CASE SyncDirectory
    BY <1>16, SyncFx, DbTypes DEF SyncDirectory, TypeInv, StateInv, Workers, Dbs, Went, Warned, Held,
       Learned, Chose, Made, Counted, Sound, Judged, AtStep, Files
<1>17. CASE Snapshot
    BY <1>17, SnapshotFx, DbTypes DEF Snapshot, TypeInv, StateInv, Workers, Dbs, Went, Raised, Held,
       Learned, Chose, Made, Counted, Sound, Judged, AtStep
<1>18. CASE Release
    BY <1>18, ReleaseFx, DbTypes DEF Release, TypeInv, StateInv, Workers, Dbs, Learned, Chose, Made,
       Counted, Sound, Judged, AtStep, disk, history
<1>19. CASE Report
    BY <1>19, ReportFx, DbTypes DEF Report, TypeInv, StateInv, Workers, Dbs, Went, Held, Learned, Chose,
       Made, Counted, Sound, Judged, AtStep, disk, history
<1>20. CASE SaveConfig
    BY <1>20, DbTypes DEF SaveConfig, TypeInv, StateInv, Workers, Dbs, AtStep, Beside, disk
<1>21. CASE EditPapers
    BY <1>21, DbTypes DEF EditPapers, TypeInv, StateInv, Workers, Dbs, AtStep, Beside
<1>22. CASE MoveWorkspace
    BY <1>22, DbTypes DEF MoveWorkspace, TypeInv, StateInv, Workers, Dbs, AtStep, Beside, disk
<1>23. CASE OtherLocks
    BY <1>23, DbTypes DEF OtherLocks, TypeInv, StateInv, Workers, Dbs, AtStep, Beside, disk
<1>24. CASE ProcessStops
    <2>1. worker'.step = "none" /\ db'.kind # "partial"
      BY <1>24, QuietIs, DbTypes DEF ProcessStops, HotJournal, TypeInv, StateInv, Dbs
    <2> QED
      BY <2>1 DEF StateInv, AtStep
<1>25. CASE UNCHANGED runVars
    BY <1>25 DEF runVars, TypeInv, StateInv, Workers, Dbs, AtStep, disk, history
<1> QED
    BY <1>1, <1>2, <1>3, <1>4, <1>5, <1>6, <1>7, <1>8, <1>9, <1>10, <1>11, <1>12, <1>13, <1>14, <1>15,
       <1>16, <1>17, <1>18, <1>19, <1>20, <1>21, <1>22, <1>23, <1>24, <1>25 DEF RunNext, RunStep

LEMMA RecordStep == TypeInv /\ OwnInv /\ CountInv /\ StateInv /\ ToldInv /\ RecordInv /\ [RunNext]_runVars => RecordInv'
<1> SUFFICES ASSUME TypeInv /\ OwnInv /\ CountInv /\ StateInv /\ ToldInv /\ RecordInv, [RunNext]_runVars PROVE RecordInv'
    OBVIOUS
<1>1. CASE StartRun
    <2>1. told' = None /\ worker'.step \in {"reserve", "enter"} /\ worker'.invalid = FALSE
      BY <1>1, StartRunFx DEF StartRun, Blank
    <2>2. lastRun' = lastRun /\ starts' = starts + 1 /\ starts \in Nat
      BY <1>1 DEF StartRun, disk, TypeInv
    <2>3. lastRun # None => lastRun.run \in Nat /\ lastRun.run <= starts
      BY DEF TypeInv, RecordInv, Snapshots
    <2>4. ~Through'
      BY <2>1 DEF Through
    <2>5. lastRun' # None => lastRun'.run < starts'
      BY <2>2, <2>3
    <2>6. lastRun' # None => lastRun'.run <= starts'
      BY <2>2, <2>3
    <2> QED
      BY <2>1, <2>4, <2>5, <2>6 DEF RecordInv, AtStep
<1>2. CASE Reserve
    BY <1>2, ReserveFx, QuietIs, DbTypes DEF Reserve, TypeInv, CountInv, StateInv, ToldInv, RecordInv,
       Through, Stored, Unready, Ending, Counting, Outcome, Workers, Dbs, Blank, Learned, Chose, Made,
       Counted, Sound, Judged, AtStep, disk, history
<1>3. CASE ConfirmConfig
    BY <1>3, ConfirmFx, QuietIs, DbTypes DEF ConfirmConfig, TypeInv, CountInv, StateInv, ToldInv,
       RecordInv, Through, Stored, Unready, Ending, Counting, Outcome, Workers, Dbs, Blank, Went, Held,
       Learned, Chose, Made, Counted, Sound, Judged, AtStep, disk, history
<1>4. CASE EnterRun
    BY <1>4, EnterFx, DbTypes DEF EnterRun, TypeInv, CountInv, StateInv, ToldInv, RecordInv, Through,
       Stored, Unready, Ending, Counting, Outcome, Workers, Dbs, Went, Raised, Rejected, RejectedAt, Held, Learned,
       Chose, Made, Counted, Sound, Judged, AtStep, disk, history
<1>5. CASE Prepare
    BY <1>5, PrepareFx, DbTypes DEF Prepare, TypeInv, CountInv, StateInv, ToldInv, RecordInv, Through,
       Stored, Unready, Ending, Counting, Outcome, Workers, Dbs, Went, Raised, Rejected, RejectedAt, Held, Learned,
       Chose, Made, Counted, Sound, Judged, AtStep, Rest, disk, history
<1>6. CASE ReadState
    BY <1>6, ReadStateFx, DbTypes DEF ReadState, TypeInv, CountInv, StateInv, ToldInv, RecordInv, Through,
       Stored, Unready, Ending, Counting, Outcome, Workers, Dbs, Held, Chose, Made, Counted, Sound,
       AtStep, Rest, disk, history
<1>7. CASE ReadIdentities
    BY <1>7, ReadIdentitiesFx, DbTypes DEF ReadIdentities, TypeInv, CountInv, StateInv, ToldInv,
       RecordInv, Through, Stored, Unready, Ending, Counting, Outcome, Workers, Dbs, Raised, Held,
       Learned, Chose, Made, Counted, Sound, AtStep, Rest, disk, history
<1>8. CASE Core
    BY <1>8, CoreFx, DbTypes DEF Core, TypeInv, CountInv, StateInv, ToldInv, RecordInv, Through, Stored,
       Unready, Ending, Counting, Outcome, Workers, Dbs, Rejected, RejectedAt, Held, Learned, Chose, Made, Counted,
       Sound, AtStep, Rest, disk, history
<1>9. CASE ReadAgain
    <2>1. /\ worker.step = "again" /\ told = None
          /\ told' = told /\ lastRun' = lastRun /\ starts' = starts
      BY <1>9 DEF ReadAgain, AtStep, Rest, disk, history, ToldInv
    <2>2. lastRun # None => lastRun.run < starts /\ lastRun.run <= starts
      BY <2>1 DEF RecordInv, AtStep
    <2>3. worker'.step \in {"release", "materialize"}
      BY <1>9, ReadAgainFx DEF Raised, Went
    <2>4. ~Through'
      BY <1>9, <2>1, ReadAgainFx DEF Through, Raised, Went, Judged, Sound
    <2> QED
      BY <2>1, <2>2, <2>3, <2>4 DEF RecordInv, AtStep
<1>10. CASE Materialize
    BY <1>10, MaterializeFx, DbTypes DEF Materialize, TypeInv, CountInv, StateInv, ToldInv, RecordInv,
       Through, Stored, Unready, Ending, Counting, Outcome, Workers, Dbs, Held, Learned, Chose, Sound,
       AtStep
<1>11. CASE Persist
    <2>1. /\ worker.step = "persist" /\ ~worker.raised /\ ~worker.invalid /\ told = None
          /\ told' = told /\ lastRun' = lastRun /\ starts' = starts
      BY <1>11 DEF Persist, AtStep, Files, CountInv, Ending, ToldInv
    <2>2. db.rows \in SUBSET DOI /\ worker.pending \in SUBSET DOI
      BY DEF TypeInv, Dbs, Workers
    <2>3. lastRun # None => lastRun.run < starts /\ lastRun.run <= starts
      BY <2>1 DEF RecordInv, Counting
    <2>4. worker'.step = "snapshot" /\ ~worker'.warned => Stored'
      BY <1>11, <2>2, PersistFx, DbTypes, ZenonT(40) DEF Stored, Warned, Raised, Went, Learned
    <2>5. ~Through'
      BY <1>11, <2>1, PersistFx DEF Through, Warned, Raised, Went, Judged, Sound
    <2> QED
      BY <2>1, <2>3, <2>4, <2>5 DEF RecordInv, AtStep
<1>12. CASE BuildFresh
    BY <1>12, BuildFx, DbTypes DEF BuildFresh, TypeInv, CountInv, StateInv, ToldInv, RecordInv, Through,
       Stored, Unready, Ending, Counting, Outcome, Workers, Dbs, Went, Warned, Held, Learned, Chose, Made,
       Counted, Sound, Judged, AtStep, Files
<1>13. CASE FillFresh
    BY <1>13, FillFx, DbTypes DEF FillFresh, TypeInv, CountInv, StateInv, ToldInv, RecordInv, Through,
       Stored, Unready, Ending, Counting, Outcome, Workers, Dbs, Went, Warned, Held, Learned, Chose, Made,
       Counted, Sound, Judged, AtStep, Files
<1>14. CASE KeepPrevious
    BY <1>14, KeepFx, DbTypes DEF KeepPrevious, TypeInv, CountInv, StateInv, ToldInv, RecordInv, Through,
       Stored, Unready, Ending, Counting, Outcome, Workers, Dbs, Went, Held, Learned, Chose, Made,
       Counted, Sound, Judged, AtStep, Files
<1>15. CASE Publish
    BY <1>15, PublishFx, DbTypes DEF Publish, TypeInv, CountInv, StateInv, ToldInv, RecordInv, Through,
       Stored, Unready, Ending, Counting, Outcome, Workers, Dbs, Went, Warned, Held, Learned, Chose, Made,
       Counted, Sound, Judged, AtStep, Files
<1>16. CASE SyncDirectory
    <2>1. /\ worker.step = "sync" /\ ~worker.raised /\ ~worker.invalid /\ told = None
          /\ told' = told /\ lastRun' = lastRun /\ starts' = starts
      BY <1>16 DEF SyncDirectory, AtStep, Files, CountInv, Ending, ToldInv
    <2>2. db = Whole(worker.pending) /\ worker.pending \in SUBSET DOI
      BY <2>1 DEF TypeInv, Workers, StateInv, AtStep
    <2>3. lastRun # None => lastRun.run < starts /\ lastRun.run <= starts
      BY <2>1 DEF RecordInv, Counting
    <2>4. ~worker'.warned => Stored'
      BY <1>16, <2>2, SyncFx, DbTypes DEF Stored, Warned, Went, Learned
    <2>5. ~Through'
      BY <1>16, <2>1, SyncFx DEF Through, Warned, Went
    <2> QED
      BY <2>1, <2>3, <2>4, <2>5 DEF RecordInv
<1>17. CASE Snapshot
    <2>1. /\ worker.step = "snapshot" /\ ~worker.raised /\ ~worker.invalid /\ told = None
          /\ told' = told /\ starts' = starts /\ db' = db /\ starts \in Nat
      BY <1>17 DEF Snapshot, AtStep, CountInv, Ending, ToldInv, TypeInv
    <2>2. ~worker.warned => Stored
      BY <2>1 DEF RecordInv, AtStep
    <2>3. lastRun # None => lastRun.run \in Nat /\ lastRun.run < starts
      BY <2>1 DEF RecordInv, Counting, TypeInv, Snapshots
    <2>4. CASE Raised /\ UNCHANGED <<lastRun, wrote>>
      <3>1. ~Through' /\ worker'.step = "release" /\ worker'.invalid = worker.invalid
        BY <2>1, <2>4 DEF Through, Raised
      <3> QED
        BY <2>1, <2>3, <2>4, <3>1 DEF RecordInv, AtStep, Unready, Counting
    <2>5. CASE Went("release") /\ lastRun' = ThisRun
      <3>1. worker'.step = "release" /\ worker'.invalid = worker.invalid /\ Outcome' = Outcome
        BY <2>5 DEF Went, Judged, Sound, Outcome
      <3>2. ~worker'.warned => Stored'
        BY <2>1, <2>2, <2>5 DEF Went, Judged, Learned, Stored
      <3>3. lastRun'.run = starts /\ lastRun'.outcome = Outcome
        BY <2>5 DEF ThisRun
      <3>4. Outcome' = "COMPLETED" => lastRun' = [outcome |-> "COMPLETED", run |-> starts']
        BY <2>1, <2>5, <3>1 DEF ThisRun
      <3> QED
        BY <2>1, <3>1, <3>2, <3>3, <3>4 DEF RecordInv, AtStep, Unready, Counting
    <2>6. CASE /\ worker'.step = "release" /\ Sound /\ worker'.warned = TRUE /\ UNCHANGED <<lastRun, wrote>>
      <3>1. Outcome' # "COMPLETED"
        BY <2>6 DEF Outcome
      <3> QED
        BY <2>1, <2>3, <2>6, <3>1 DEF RecordInv, AtStep, Unready, Counting, Sound
    <2>7. CASE /\ worker'.step = "release" /\ Sound /\ worker'.warned = TRUE /\ worker'.erred = worker.erred
               /\ lastRun' = ThisRun /\ wrote' = wrote \cup {"link"}
      <3>1. /\ Outcome' = IF worker.erred THEN "COMPLETED_WITH_ERRORS" ELSE "COMPLETED_WITH_WARNINGS"
            /\ Outcome \in {Outcome', "COMPLETED"} /\ (Outcome = "COMPLETED" => ~worker.erred)
        BY <2>7 DEF Outcome
      <3>2. lastRun'.run = starts /\ lastRun'.outcome = Outcome /\ "link" \in wrote'
        BY <2>7 DEF ThisRun
      <3> QED
        BY <2>1, <2>7, <3>1, <3>2 DEF RecordInv, AtStep, Unready, Counting, Sound
    <2> QED
      BY <1>17, <2>4, <2>5, <2>6, <2>7, SnapshotFx
<1>18. CASE Release
    BY <1>18, ReleaseFx, DbTypes DEF Release, TypeInv, CountInv, StateInv, ToldInv, RecordInv, Through,
       Stored, Unready, Ending, Counting, Outcome, Workers, Dbs, Learned, Chose, Made, Counted, Sound,
       Judged, AtStep, disk, history
<1>19. CASE Report
    BY <1>19, ReportFx, DbTypes DEF Report, TypeInv, CountInv, StateInv, ToldInv, RecordInv, Through,
       Stored, Unready, Ending, Counting, Outcome, Workers, Dbs, Went, Held, Learned, Chose, Made,
       Counted, Sound, Judged, AtStep, disk, history
<1>20. CASE SaveConfig
    BY <1>20, DbTypes DEF SaveConfig, TypeInv, CountInv, StateInv, ToldInv, RecordInv, Through, Stored,
       Unready, Ending, Counting, Outcome, Workers, Dbs, AtStep, Beside, disk
<1>21. CASE EditPapers
    BY <1>21, DbTypes DEF EditPapers, TypeInv, CountInv, StateInv, ToldInv, RecordInv, Through, Stored,
       Unready, Ending, Counting, Outcome, Workers, Dbs, AtStep, Beside
<1>22. CASE MoveWorkspace
    BY <1>22, DbTypes DEF MoveWorkspace, TypeInv, CountInv, StateInv, ToldInv, RecordInv, Through, Stored,
       Unready, Ending, Counting, Outcome, Workers, Dbs, AtStep, Beside, disk
<1>23. CASE OtherLocks
    BY <1>23, DbTypes DEF OtherLocks, TypeInv, CountInv, StateInv, ToldInv, RecordInv, Through, Stored,
       Unready, Ending, Counting, Outcome, Workers, Dbs, AtStep, Beside, disk
<1>24. CASE ProcessStops
    BY <1>24, QuietIs, DbTypes DEF ProcessStops, TypeInv, CountInv, StateInv, ToldInv, RecordInv, Through,
       Stored, Unready, Ending, Counting, Outcome, Workers, Dbs, Blank, AtStep, history
<1>25. CASE UNCHANGED runVars
    BY <1>25 DEF runVars, TypeInv, CountInv, StateInv, ToldInv, RecordInv, Through, Stored, Unready,
       Ending, Counting, Outcome, Workers, Dbs, AtStep, disk, history
<1> QED
    BY <1>1, <1>2, <1>3, <1>4, <1>5, <1>6, <1>7, <1>8, <1>9, <1>10, <1>11, <1>12, <1>13, <1>14, <1>15,
       <1>16, <1>17, <1>18, <1>19, <1>20, <1>21, <1>22, <1>23, <1>24, <1>25 DEF RunNext, RunStep

LEMMA ToldStep == TypeInv /\ OwnInv /\ ToldInv /\ [RunNext]_runVars => ToldInv'
<1> SUFFICES ASSUME TypeInv /\ OwnInv /\ ToldInv, [RunNext]_runVars PROVE ToldInv'
    OBVIOUS
<1>1. CASE StartRun
    BY <1>1, StartRunFx DEF StartRun, TypeInv, OwnInv, ToldInv, Telling, Outcome, Workers, AtStep, disk
<1>2. CASE Reserve
    BY <1>2, ReserveFx, QuietIs DEF Reserve, TypeInv, OwnInv, ToldInv, Telling, Outcome, Workers, Learned,
       Chose, Made, Counted, Sound, Judged, AtStep, disk, history
<1>3. CASE ConfirmConfig
    BY <1>3, ConfirmFx, QuietIs DEF ConfirmConfig, TypeInv, OwnInv, ToldInv, Telling, Outcome, Workers,
       Went, Held, Learned, Chose, Made, Counted, Sound, Judged, AtStep, disk, history
<1>4. CASE EnterRun
    BY <1>4, EnterFx DEF EnterRun, TypeInv, OwnInv, ToldInv, Telling, Outcome, Workers, Went, Raised,
       Rejected, RejectedAt, Held, Learned, Chose, Made, Counted, Sound, Judged, AtStep, disk, history
<1>5. CASE Prepare
    BY <1>5, PrepareFx DEF Prepare, TypeInv, OwnInv, ToldInv, Telling, Outcome, Workers, Went, Raised,
       Rejected, RejectedAt, Held, Learned, Chose, Made, Counted, Sound, Judged, AtStep, Rest, disk, history
<1>6. CASE ReadState
    BY <1>6, ReadStateFx DEF ReadState, TypeInv, OwnInv, ToldInv, Telling, Outcome, Workers, Held, Chose,
       Made, Counted, Sound, AtStep, Rest, disk, history
<1>7. CASE ReadIdentities
    BY <1>7, ReadIdentitiesFx DEF ReadIdentities, TypeInv, OwnInv, ToldInv, Telling, Outcome, Workers,
       Raised, Held, Learned, Chose, Made, Counted, Sound, AtStep, Rest, disk, history
<1>8. CASE Core
    BY <1>8, CoreFx DEF Core, TypeInv, OwnInv, ToldInv, Telling, Outcome, Workers, Rejected, RejectedAt, Held,
       Learned, Chose, Made, Counted, Sound, AtStep, Rest, disk, history
<1>9. CASE ReadAgain
    BY <1>9, ReadAgainFx DEF ReadAgain, TypeInv, OwnInv, ToldInv, Telling, Outcome, Workers, Raised, Held,
       Learned, Chose, Made, Counted, Sound, AtStep, Rest, disk, history
<1>10. CASE Materialize
    BY <1>10, MaterializeFx DEF Materialize, TypeInv, OwnInv, ToldInv, Telling, Outcome, Workers, Held,
       Learned, Chose, Sound, AtStep
<1>11. CASE Persist
    BY <1>11, PersistFx DEF Persist, TypeInv, OwnInv, ToldInv, Telling, Outcome, Workers, Went, Raised,
       Warned, Held, Learned, Chose, Made, Counted, Sound, Judged, AtStep, Files
<1>12. CASE BuildFresh
    BY <1>12, BuildFx DEF BuildFresh, TypeInv, OwnInv, ToldInv, Telling, Outcome, Workers, Went, Warned,
       Held, Learned, Chose, Made, Counted, Sound, Judged, AtStep, Files
<1>13. CASE FillFresh
    BY <1>13, FillFx DEF FillFresh, TypeInv, OwnInv, ToldInv, Telling, Outcome, Workers, Went, Warned,
       Held, Learned, Chose, Made, Counted, Sound, Judged, AtStep, Files
<1>14. CASE KeepPrevious
    BY <1>14, KeepFx DEF KeepPrevious, TypeInv, OwnInv, ToldInv, Telling, Outcome, Workers, Went, Held,
       Learned, Chose, Made, Counted, Sound, Judged, AtStep, Files
<1>15. CASE Publish
    BY <1>15, PublishFx DEF Publish, TypeInv, OwnInv, ToldInv, Telling, Outcome, Workers, Went, Warned,
       Held, Learned, Chose, Made, Counted, Sound, Judged, AtStep, Files
<1>16. CASE SyncDirectory
    BY <1>16, SyncFx DEF SyncDirectory, TypeInv, OwnInv, ToldInv, Telling, Outcome, Workers, Went, Warned,
       Held, Learned, Chose, Made, Counted, Sound, Judged, AtStep, Files
<1>17. CASE Snapshot
    BY <1>17, SnapshotFx DEF Snapshot, TypeInv, OwnInv, ToldInv, Telling, Outcome, Workers, Went, Raised,
       Held, Learned, Chose, Made, Counted, Sound, Judged, AtStep
<1>18. CASE Release
    BY <1>18, ReleaseFx DEF Release, TypeInv, OwnInv, ToldInv, Telling, Outcome, Workers, Learned, Chose,
       Made, Counted, Sound, Judged, AtStep, disk, history
<1>19. CASE Report
    BY <1>19, ReportFx DEF Report, TypeInv, OwnInv, ToldInv, Telling, Outcome, Workers, Went, Held,
       Learned, Chose, Made, Counted, Sound, Judged, AtStep, disk, history
<1>20. CASE SaveConfig
    BY <1>20 DEF SaveConfig, TypeInv, OwnInv, ToldInv, Telling, Outcome, Workers, AtStep, Beside, disk
<1>21. CASE EditPapers
    BY <1>21 DEF EditPapers, TypeInv, OwnInv, ToldInv, Telling, Outcome, Workers, AtStep, Beside
<1>22. CASE MoveWorkspace
    BY <1>22 DEF MoveWorkspace, TypeInv, OwnInv, ToldInv, Telling, Outcome, Workers, AtStep, Beside, disk
<1>23. CASE OtherLocks
    BY <1>23 DEF OtherLocks, TypeInv, OwnInv, ToldInv, Telling, Outcome, Workers, AtStep, Beside, disk
<1>24. CASE ProcessStops
    BY <1>24, QuietIs DEF ProcessStops, TypeInv, OwnInv, ToldInv, Telling, Outcome, Workers, AtStep,
       history
<1>25. CASE UNCHANGED runVars
    BY <1>25 DEF runVars, TypeInv, OwnInv, ToldInv, Telling, Outcome, Workers, AtStep, disk, history
<1> QED
    BY <1>1, <1>2, <1>3, <1>4, <1>5, <1>6, <1>7, <1>8, <1>9, <1>10, <1>11, <1>12, <1>13, <1>14, <1>15,
       <1>16, <1>17, <1>18, <1>19, <1>20, <1>21, <1>22, <1>23, <1>24, <1>25 DEF RunNext, RunStep

-----------------------------------------------------------------------------
(***************************************************************************)
(* The theorems                                                            *)
(***************************************************************************)
LEMMA InitInv == RunInit => RunInv
<1> SUFFICES ASSUME RunInit PROVE RunInv
  OBVIOUS
<1>1. worker \in Workers /\ worker.step = "none" /\ Blank(worker)
  BY QuietIs DEF RunInit
<1>2. \A kind \in Kinds : Db(kind) \in Dbs /\ Db(kind).kind = kind
  BY DEF Db, Dbs
<1>3. Whole({}) \in Dbs /\ Whole({}).kind = "whole" /\ {"none", "bad", "busy"} \subseteq Kinds
  BY DbTypes DEF Kinds
<1>4. db \in Dbs /\ db.kind # "partial" /\ temp \in Dbs /\ backup \in Dbs
  BY <1>2, <1>3 DEF RunInit
<1>5. lock \in Locks /\ saved \in [DOI -> {None, 1, 2}]
  BY DEF RunInit, Locks
<1>6. TypeInv
  BY <1>1, <1>4, <1>5 DEF RunInit, TypeInv
<1>7. OwnInv
  BY <1>1 DEF RunInit, OwnInv, Working, AtStep, Blank
<1>8. CountInv
  BY <1>1 DEF RunInit, CountInv, Unready, Counting, Blank
<1>9. StateInv
  BY <1>1, <1>4 DEF StateInv, AtStep
<1>10. RecordInv /\ ToldInv
  BY <1>1 DEF RunInit, RecordInv, ToldInv, Through, AtStep, Unready, Counting, Blank
<1> QED
  BY <1>6, <1>7, <1>8, <1>9, <1>10 DEF RunInv

LEMMA NextInv == RunInv /\ [RunNext]_runVars => RunInv'
  BY TypeStep, OwnStep, CountStep, StateStep, RecordStep, ToldStep DEF RunInv

\* The inductive invariant holds: a Run's lock, its counts, its provider state and its record belong
\* together at every step.
THEOREM RunInvariant == RunSpec => []RunInv
  BY InitInv, NextInv, PTL DEF RunSpec

LEMMA Owns == RunInv => RunTypeOK /\ RunOwnsWorkspace
<1> SUFFICES ASSUME RunInv PROVE RunTypeOK /\ RunOwnsWorkspace
  OBVIOUS
<1>1. RunTypeOK
  BY DEF RunInv, TypeInv, RunTypeOK, Locks, Dbs, Kinds, AtStep
<1>2. RunOwnsWorkspace
  BY DEF RunInv, OwnInv, RunOwnsWorkspace
<1> QED
  BY <1>1, <1>2

LEMMA Counts == RunInv => CountsAreTrue
<1> SUFFICES ASSUME RunInv, told # None PROVE CountsAreTrue
  BY DEF CountsAreTrue
<1>1. worker.step = "none" /\ ~worker.raised /\ told = Telling
  BY DEF RunInv, ToldInv
<1>2. CASE worker.invalid
  <2>1. /\ told.outcome = "INVALID_CONFIGURATION"
        /\ told.created = {} /\ told.existing = {} /\ told.confirmed = {}
    BY <1>1, <1>2 DEF Telling
  <2> QED
    BY <2>1 DEF CountsAreTrue
<1>3. CASE ~worker.invalid
  <2>1. /\ told.outcome = Outcome /\ told.created = worker.created /\ told.existing = worker.existing
        /\ told.confirmed = worker.confirmed
    BY <1>1, <1>3 DEF Telling
  <2>2. Outcome \in {"COMPLETED", "COMPLETED_WITH_WARNINGS"} => ~worker.erred
    BY DEF Outcome
  <2>3. /\ worker.confirmed \cap (worker.created \cup worker.existing) = {}
        /\ changes = 0 => \A d \in worker.confirmed \cup worker.created \cup worker.existing : saved[d] # None
    BY DEF RunInv, CountInv
  <2>4. ~worker.erred => worker.confirmed = worker.seen
    BY <1>1, <1>3 DEF RunInv, CountInv, Ending
  <2> QED
    BY <2>1, <2>2, <2>3, <2>4 DEF CountsAreTrue
<1> QED
  BY <1>2, <1>3

LEMMA SavedRecords == RunInv => CompletedIsRecorded /\ InvalidWritesNothing
<1> SUFFICES ASSUME RunInv, told # None PROVE CompletedIsRecorded /\ InvalidWritesNothing
  BY DEF CompletedIsRecorded, InvalidWritesNothing
<1>1. worker.step = "none" /\ ~worker.raised /\ told = Telling
  BY DEF RunInv, ToldInv
<1>2. CASE worker.invalid
  <2>1. told.outcome = "INVALID_CONFIGURATION" /\ wrote = {}
    BY <1>1, <1>2 DEF Telling, RunInv, CountInv
  <2>2. lastRun # None => lastRun.run # starts
    BY <1>2 DEF RunInv, RecordInv, TypeInv, Snapshots
  <2> QED
    BY <2>1, <2>2 DEF CompletedIsRecorded, InvalidWritesNothing
<1>3. CASE ~worker.invalid
  <2>1. told.outcome = Outcome
    BY <1>1, <1>3 DEF Telling
  <2>2. Outcome # "INVALID_CONFIGURATION" /\ (Outcome = "COMPLETED" => ~worker.warned)
    BY DEF Outcome, TypeInv, Workers, RunInv
  <2>3. Through
    BY <1>1, <1>3 DEF Through
  <2> QED
    BY <2>1, <2>2, <2>3 DEF RunInv, RecordInv, Stored, CompletedIsRecorded, InvalidWritesNothing
<1> QED
  BY <1>2, <1>3

\* From discovery to the snapshot a Run has the operation lock of the directory it writes, and no lock
\* outlives it; what it counts as saved, created and existing is so, and is counted once; COMPLETED is
\* told only when the records and the snapshot are on the disk, and a snapshot of the Run tells the
\* outcome told, unless it was the first one and its write failed after it was linked;
\* INVALID_CONFIGURATION has written nothing.
THEOREM RunTellsTheTruth == RunSpec => []RunIsTrue
<1>1. RunInv => RunIsTrue
  BY Owns, Counts, SavedRecords DEF RunIsTrue
<1> QED
  BY <1>1, RunInvariant, PTL

LEMMA PublicationIsSafe ==
    ASSUME RunInv, RunNext
    PROVE  /\ (db.kind = "whole" /\ ~AtStep("sync")) =>
                  /\ db.rows \subseteq db'.rows
                  /\ db'.kind = "whole" \/ (db'.kind = "busy" /\ AtStep("persist") /\ status' = "IDLE")
           /\ db.kind = "bad" => db' \in {db, Whole(worker.pending)}
           /\ db.kind = "busy" => db' = db
           /\ AtStep("sync") => db'.kind \in {"whole", worker.state}
           /\ db'.kind # "partial"
<1> DEFINE Survives ==
               /\ (db.kind = "whole" /\ ~AtStep("sync")) =>
                      /\ db.rows \subseteq db'.rows
                      /\ db'.kind = "whole" \/ (db'.kind = "busy" /\ AtStep("persist") /\ status' = "IDLE")
               /\ db.kind = "bad" => db' \in {db, Whole(worker.pending)}
               /\ db.kind = "busy" => db' = db
               /\ AtStep("sync") => db'.kind \in {"whole", worker.state}
               /\ db'.kind # "partial"
<1>1. /\ TypeInv /\ StateInv /\ worker.pending \in SUBSET DOI /\ db.rows \in SUBSET DOI
  BY DEF RunInv, TypeInv, Workers, Dbs
<1>2. AtStep("sync") => db.kind = "whole"
  BY <1>1, DbTypes DEF StateInv
<1>3. UNCHANGED db => Survives
  BY <1>1, <1>2 DEF StateInv
<1>4. CASE Persist
  <2>1. ~AtStep("sync") /\ worker.state = db.kind
    BY <1>1, <1>4 DEF Persist, AtStep, StateInv
  <2>2. CASE Went("snapshot") /\ db' = Whole(db.rows \cup worker.pending)
    <3>1. worker.state \notin {"bad", "busy"}
      <4>1. worker \in Workers /\ "build" \in Steps /\ worker'.step = "snapshot"
        BY <1>1, <2>2 DEF TypeInv, Steps, Went
      <4>2. worker.state = "bad" => Raises \/ Goes("build")
        BY <1>4 DEF Persist
      <4>3. worker.state = "busy" => UNCHANGED db
        BY <1>4 DEF Persist
      <4>4. worker.state = "busy" => db'.kind = "whole" /\ db.kind = "busy"
        BY <2>1, <2>2, DbTypes DEF Whole
      <4> QED
        BY <4>1, <4>2, <4>3, <4>4, RaisesFx, GoesFx DEF Raised, Went
    <3> QED
      BY <1>1, <2>1, <2>2, <3>1, DbTypes
  <2> QED
    BY <1>1, <1>3, <1>4, <2>2, PersistFx
<1>5. CASE Publish
  <2>1. temp = Whole(worker.pending) /\ db.kind \in {"none", "bad"} /\ ~AtStep("sync")
    BY <1>1, <1>5 DEF Publish, AtStep, StateInv
  <2>2. CASE db' = temp
    BY <1>1, <2>1, <2>2, DbTypes
  <2> QED
    BY <1>1, <1>3, <1>5, <2>2, PublishFx
<1>6. CASE SyncDirectory
  <2>1. AtStep("sync") /\ db.kind = "whole" /\ backup.kind = worker.state /\ backup.kind # "partial"
    BY <1>1, <1>2, <1>6 DEF SyncDirectory, StateInv
  <2>2. CASE db' = backup
    BY <2>1, <2>2
  <2> QED
    BY <1>1, <1>3, <1>6, <2>2, SyncFx
<1>7. CASE ProcessStops
  <2>1. CASE HotJournal
    <3>1. db.kind = "whole" /\ db'.kind = "busy" /\ db'.rows = db.rows /\ AtStep("persist") /\ status' = "IDLE"
      BY <1>1, <1>7, <2>1 DEF HotJournal, ProcessStops, TypeInv, Dbs
    <3> QED
      BY <3>1 DEF AtStep
  <2> QED
    BY <1>3, <1>7, <2>1 DEF ProcessStops
<1>8. CASE ~(Persist \/ Publish \/ SyncDirectory \/ ProcessStops)
  <2>1. UNCHANGED db
    BY <1>8 DEF RunNext, RunStep, StartRun, Reserve, ConfirmConfig, EnterRun, Prepare, ReadState, ReadIdentities,
                Core, ReadAgain, Materialize, BuildFresh, FillFresh, KeepPrevious, Snapshot, Release, Report,
                SaveConfig, EditPapers, MoveWorkspace, OtherLocks, Rest, disk
  <2> QED
    BY <1>3, <2>1
<1> QED
  BY <1>4, <1>5, <1>6, <1>7, <1>8

\* No failed publication costs what was there: a database that was valid only grows, what is none
\* stays until a whole one takes its place, what could only not be read is left alone, a rollback
\* brings back what it found, and the path never shows one half made.  A process that stops in its
\* transaction may leave the database unreadable, with all its records.
THEOREM StateIsNeverLost == RunSpec => StateSurvives
<1>1. RunInv /\ [RunNext]_runVars =>
          [/\ (db.kind = "whole" /\ ~AtStep("sync")) =>
                  /\ db.rows \subseteq db'.rows
                  /\ db'.kind = "whole" \/ (db'.kind = "busy" /\ AtStep("persist") /\ status' = "IDLE")
           /\ db.kind = "bad" => db' \in {db, Whole(worker.pending)}
           /\ db.kind = "busy" => db' = db
           /\ AtStep("sync") => db'.kind \in {"whole", worker.state}
           /\ db'.kind # "partial"]_runVars
  BY PublicationIsSafe
<1> QED
  BY <1>1, RunInvariant, PTL DEF RunSpec, StateSurvives

-----------------------------------------------------------------------------
(***************************************************************************)
(* III.  CandidatePipeline, for every set of DOIs, every number of         *)
(* revisions, and whatever the providers answer.                           *)
(*                                                                         *)
(* What every variable holds; Maps(S) are the dictionaries keyed by DOI.   *)
(***************************************************************************)
Maps(S) == UNION {[K -> S] : K \in SUBSET DOIs}
TypeKinds == {"none"} \cup Types
Classes == {"reused", "refreshed", "new"}
Stages == {"manifest", "select", "hydrate", "early", "singletons", "primes", "resolve", "match", "late",
           "evidence", "done"}
Retrievals == [resolved : Maps(Records), revs : Maps(Nat), class : Maps(Classes),
               pending : Maps(Records), types : [DOIs -> [kind : TypeKinds, conflict : BOOLEAN]],
               discovered : SUBSET DOIs, used : SUBSET DOIs]
Supplements == [batch : {"none", "early", "late"}, anchors : SUBSET DOIs, probes : Maps(Nat),
                targets : Maps(DOIs), supplied : Maps(Records), unavailable : SUBSET DOIs,
                aliases : Maps({Prime}), skipped : SUBSET DOIs]
DoiSets == [oa : SUBSET DOIs, selected : SUBSET DOIs, metadata : SUBSET DOIs, matched : SUBSET DOIs,
            rejected : SUBSET DOIs, hydrated : SUBSET DOIs, evidence : SUBSET DOIs]
Replies == [aliases : Maps({Prime}), skipped : SUBSET DOIs, unresolved : SUBSET DOIs, failed : SUBSET DOIs,
             records : SUBSET DOIs]

EvidenceTypes ==
    /\ live \in [DOIs -> Records] /\ state \in [DOIs -> Records] /\ aliased \in BOOLEAN
    /\ crossref \in SUBSET DOIs
    /\ ex \in Retrievals /\ manifest \in Maps(Nat) /\ stage \in Stages /\ sup \in Supplements
    /\ sets \in DoiSets /\ results \in [early : Replies, late : Replies]
    /\ observed \in [DOIs -> SUBSET Nat]

LEMMA MapFx ==
    ASSUME NEW S, NEW f \in Maps(S)
    PROVE  DOMAIN f \subseteq DOIs /\ \A d \in DOMAIN f : f[d] \in S
BY DEF Maps

LEMMA IsMap ==
    ASSUME NEW S, NEW K \in SUBSET DOIs, NEW f \in [K -> S]
    PROVE  f \in Maps(S) /\ DOMAIN f = K
BY DEF Maps

LEMMA NoMap == ASSUME NEW S PROVE <<>> \in Maps(S) /\ DOMAIN <<>> = {}
BY DEF Maps

LEMMA OverFx ==
    ASSUME NEW S, NEW f \in Maps(S), NEW g \in Maps(S)
    PROVE  Over(f, g) \in Maps(S)
<1>1. DOMAIN f \cup DOMAIN g \in SUBSET DOIs /\ \A d \in DOMAIN f \cup DOMAIN g : (IF d \in DOMAIN g THEN g[d] ELSE f[d]) \in S
    BY MapFx
<1> QED
    BY <1>1, IsMap DEF Over

LEMMA OverAt ==
    ASSUME NEW f, NEW g
    PROVE  /\ DOMAIN Over(f, g) = DOMAIN f \cup DOMAIN g
           /\ \A d \in DOMAIN g : Over(f, g)[d] = g[d]
           /\ \A d \in DOMAIN f \ DOMAIN g : Over(f, g)[d] = f[d]
BY DEF Over

LEMMA WithoutFx ==
    ASSUME NEW S, NEW f \in Maps(S), NEW K
    PROVE  Without(f, K) \in Maps(S)
<1>1. DOMAIN f \ K \in SUBSET DOIs /\ \A d \in DOMAIN f \ K : f[d] \in S
    BY MapFx
<1> QED
    BY <1>1, IsMap DEF Without

LEMMA WithoutAt ==
    ASSUME NEW f, NEW K
    PROVE  /\ DOMAIN Without(f, K) = DOMAIN f \ K
           /\ \A d \in DOMAIN f \ K : Without(f, K)[d] = f[d]
BY DEF Without

\* _observe_types: a DOI that is not named keeps what is known of its type.
LEMMA ObserveFx ==
    ASSUME NEW types \in [DOIs -> [kind : TypeKinds, conflict : BOOLEAN]], NEW kinds \in Maps(TypeKinds)
    PROVE  /\ Observe(types, kinds) \in [DOIs -> [kind : TypeKinds, conflict : BOOLEAN]]
           /\ \A d \in DOIs \ DOMAIN kinds : Observe(types, kinds)[d] = types[d]
<1> DEFINE all(d) == {types[d].kind, kinds[d]} \ {"none"}
           conflict(d) == types[d].conflict \/ Cardinality(all(d)) > 1
           seen(d) == [conflict |-> conflict(d),
                       kind |-> IF conflict(d) \/ all(d) = {} THEN "none" ELSE CHOOSE k \in all(d) : TRUE]
<1>1. \A d \in DOMAIN kinds : all(d) \subseteq TypeKinds
    BY MapFx
<1>2. \A d \in DOMAIN kinds : seen(d) \in [kind : TypeKinds, conflict : BOOLEAN]
  <2> TAKE d \in DOMAIN kinds
  <2>1. conflict(d) \in BOOLEAN
    BY MapFx
  <2>2. all(d) # {} => (CHOOSE k \in all(d) : TRUE) \in TypeKinds
    BY <1>1
  <2> HIDE DEF all, conflict
  <2> QED
    BY <2>1, <2>2 DEF TypeKinds
<1>3. Observe(types, kinds) = [d \in DOIs |-> IF d \notin DOMAIN kinds THEN types[d] ELSE seen(d)]
    BY DEF Observe
<1> HIDE DEF seen
<1> QED
    BY <1>2, <1>3

-----------------------------------------------------------------------------
(***************************************************************************)
(* _resolve.  The books of a retrieval: what it resolved has a revision,   *)
(* what it will persist is what it resolved, and only what it resolved     *)
(* has a class.                                                            *)
(***************************************************************************)
Booked(x) ==
    /\ DOMAIN x.revs = DOMAIN x.resolved
    /\ DOMAIN x.pending \subseteq DOMAIN x.resolved /\ DOMAIN x.class \subseteq DOMAIN x.resolved
    /\ \A d \in DOMAIN x.pending : x.pending[d].rev > 0 /\ x.pending[d] = x.resolved[d]

IsReused(x, d) == d \in DOMAIN x.class /\ x.class[d] = "reused"

LEMMA ResolveFx ==
    ASSUME NEW x \in Retrievals, NEW members \in Maps(Nat), NEW supplied \in Maps(Records),
           NEW lost, lost \subseteq Requested(x, members, supplied),
           live \in [DOIs -> Records], state \in [DOIs -> Records]
    PROVE  LET y == ResolveMembers(x, members, supplied, lost) IN
           /\ y \in Retrievals /\ y.types = x.types /\ y.discovered = x.discovered /\ y.used = x.used
           /\ DOMAIN y.resolved = DOMAIN x.resolved \cup DOMAIN members
           /\ Booked(x) => Booked(y)
           /\ \A d : IsReused(y, d) => IsReused(x, d) \/ d \in Reusable(x, members)
<1> DEFINE known == Known(x, members)
           superseded == {d \in known \cap DOMAIN supplied : x.resolved[d].rev = 0 \/ x.revs[d] # members[d]}
           ambiguous == {d \in known \ superseded : x.revs[d] # members[d]}
           reused == Reusable(x, members)
           new == DOMAIN members \ known
           record(d) == IF d \in superseded \cup ((new \ reused) \cap DOMAIN supplied) THEN supplied[d]
                        ELSE IF d \in ambiguous \cup lost THEN NoRecord
                        ELSE IF d \in reused THEN state[d]
                        ELSE IF d \in new THEN live[d]
                        ELSE x.resolved[d]
           resolved == [d \in DOMAIN x.resolved \cup new |-> record(d)]
           again == [d \in reused |-> "reused"]
           stale == superseded \cup ambiguous
           left == Without(x.class, stale)
           class == Over(left, again)
           full == {d \in DOMAIN members : resolved[d].rev > 0 /\ d \notin DOMAIN class}
           newRevs == [d \in new |-> members[d]]
           fullRevs == [d \in full |-> resolved[d].rev]
           newClass == [d \in full |-> IF state[d].rev > 0 THEN "refreshed" ELSE "new"]
           fetched == [d \in full |-> resolved[d]]
           kept == Without(x.pending, stale)
           y == ResolveMembers(x, members, supplied, lost)
<1>1. /\ x.resolved \in Maps(Records) /\ x.revs \in Maps(Nat) /\ x.pending \in Maps(Records)
      /\ x.class \in Maps(Classes)
    BY DEF Retrievals
<1>2. /\ DOMAIN members \subseteq DOIs /\ DOMAIN x.resolved \subseteq DOIs /\ DOMAIN supplied \subseteq DOIs
      /\ known = DOMAIN members \cap DOMAIN x.resolved
      /\ superseded \subseteq known /\ ambiguous \subseteq known
      /\ reused \subseteq new /\ lost \subseteq new /\ lost \cap reused = {} /\ lost \cap DOMAIN supplied = {}
    BY <1>1, MapFx DEF Known, Reusable, Requested
<1>3. \A d \in DOMAIN x.resolved \cup new : record(d) \in Records
    BY <1>1, <1>2, MapFx DEF Records
<1>4. resolved \in Maps(Records) /\ DOMAIN resolved = DOMAIN x.resolved \cup new
    BY <1>2, <1>3, IsMap
<1>5. \A d \in DOMAIN x.resolved \cup new : resolved[d] = record(d) /\ resolved[d].rev \in Nat
    BY <1>3, <1>4, PipelineAssumption DEF Records, NoRecord
<1>6. again \in Maps(Classes) /\ DOMAIN again = reused
  <2>1. reused \in SUBSET DOIs /\ "reused" \in Classes
    BY <1>2 DEF Classes
  <2> QED
    BY <2>1, IsMap
<1>7. /\ class \in Maps(Classes)
      /\ DOMAIN class = (DOMAIN x.class \ stale) \cup reused
      /\ \A d \in DOMAIN class : class[d] = IF d \in reused THEN "reused" ELSE x.class[d]
  <2> HIDE DEF stale
  <2>1. left \in Maps(Classes)
    BY <1>1, WithoutFx
  <2>2. DOMAIN left = DOMAIN x.class \ stale /\ \A d \in DOMAIN x.class \ stale : left[d] = x.class[d]
    BY WithoutAt
  <2>3. \A d \in reused : again[d] = "reused"
    OBVIOUS
  <2> HIDE DEF left, again
  <2>4. class \in Maps(Classes)
    BY <1>6, <2>1, OverFx
  <2>5. /\ DOMAIN class = DOMAIN left \cup DOMAIN again
        /\ \A d \in DOMAIN again : class[d] = again[d]
        /\ \A d \in DOMAIN left \ DOMAIN again : class[d] = left[d]
    BY OverAt
  <2> QED
    BY <1>6, <2>2, <2>3, <2>4, <2>5
<1>8. full \subseteq DOMAIN members /\ full \cap DOMAIN class = {} /\ \A d \in full : resolved[d].rev > 0
    OBVIOUS
<1> HIDE DEF full, class
<1>9. newRevs \in Maps(Nat) /\ DOMAIN newRevs = new
  <2>1. new \in SUBSET DOIs /\ \A d \in new : members[d] \in Nat
    BY <1>2, MapFx
  <2> HIDE DEF new
  <2> QED
    BY <2>1, IsMap
<1>10. fullRevs \in Maps(Nat) /\ DOMAIN fullRevs = full
  <2>1. full \in SUBSET DOIs /\ \A d \in full : resolved[d].rev \in Nat
    BY <1>2, <1>5, <1>8
  <2> HIDE DEF resolved
  <2> QED
    BY <2>1, IsMap
<1>11. newClass \in Maps(Classes) /\ DOMAIN newClass = full
  <2>1. full \in SUBSET DOIs /\ \A d \in full : (IF state[d].rev > 0 THEN "refreshed" ELSE "new") \in Classes
    BY <1>2, <1>8 DEF Classes
  <2> QED
    BY <2>1, IsMap
<1>12. fetched \in Maps(Records) /\ DOMAIN fetched = full
  <2>1. full \in SUBSET DOIs /\ \A d \in full : resolved[d] \in Records
    BY <1>2, <1>3, <1>5, <1>8
  <2> HIDE DEF resolved
  <2> QED
    BY <2>1, IsMap
<1>13. /\ kept \in Maps(Records) /\ DOMAIN kept = DOMAIN x.pending \ stale
       /\ \A d \in DOMAIN x.pending \ stale : kept[d] = x.pending[d]
  <2> HIDE DEF stale
  <2>1. kept \in Maps(Records)
    BY <1>1, WithoutFx
  <2> QED
    BY <2>1, WithoutAt
<1> DEFINE revs == Over(Over(x.revs, newRevs), fullRevs)
           pending == Over(kept, fetched)
           classes == Over(class, newClass)
<1>14. y = [x EXCEPT !.resolved = resolved, !.revs = revs, !.class = classes, !.pending = pending]
    BY DEF ResolveMembers, full, class
<1>15. revs \in Maps(Nat) /\ DOMAIN revs = DOMAIN x.revs \cup new \cup full
  <2> HIDE DEF newRevs, fullRevs, new
  <2> DEFINE some == Over(x.revs, newRevs)
  <2>1. some \in Maps(Nat)
    BY <1>1, <1>9, OverFx
  <2>2. DOMAIN some = DOMAIN x.revs \cup new
    BY <1>9, OverAt
  <2> HIDE DEF some
  <2>3. Over(some, fullRevs) \in Maps(Nat)
    BY <1>10, <2>1, OverFx
  <2>4. DOMAIN Over(some, fullRevs) = DOMAIN some \cup full
    BY <1>10, OverAt
  <2> QED
    BY <2>2, <2>3, <2>4 DEF some
<1>16. /\ pending \in Maps(Records) /\ DOMAIN pending = DOMAIN kept \cup full
       /\ \A d \in DOMAIN pending : pending[d] = IF d \in full THEN resolved[d] ELSE x.pending[d]
  <2>1. \A d \in full : fetched[d] = resolved[d]
    OBVIOUS
  <2> HIDE DEF kept, fetched, resolved
  <2>2. pending \in Maps(Records)
    BY <1>12, <1>13, OverFx
  <2>3. /\ DOMAIN pending = DOMAIN kept \cup DOMAIN fetched
        /\ \A d \in DOMAIN fetched : pending[d] = fetched[d]
        /\ \A d \in DOMAIN kept \ DOMAIN fetched : pending[d] = kept[d]
    BY OverAt
  <2> QED
    BY <1>12, <1>13, <2>1, <2>2, <2>3
<1>17. /\ classes \in Maps(Classes) /\ DOMAIN classes = DOMAIN class \cup full
       /\ \A d \in DOMAIN classes : classes[d] = IF d \in full THEN newClass[d] ELSE class[d]
  <2> HIDE DEF newClass
  <2>1. classes \in Maps(Classes)
    BY <1>7, <1>11, OverFx
  <2>2. /\ DOMAIN classes = DOMAIN class \cup DOMAIN newClass
        /\ \A d \in DOMAIN newClass : classes[d] = newClass[d]
        /\ \A d \in DOMAIN class \ DOMAIN newClass : classes[d] = class[d]
    BY OverAt
  <2> QED
    BY <1>11, <2>1, <2>2
<1> HIDE DEF revs, pending, classes, resolved, y
<1>18. /\ y.resolved = resolved /\ y.revs = revs /\ y.class = classes /\ y.pending = pending
       /\ y.types = x.types /\ y.discovered = x.discovered /\ y.used = x.used /\ y \in Retrievals
    BY <1>4, <1>14, <1>15, <1>16, <1>17 DEF Retrievals
<1>19. DOMAIN y.resolved = DOMAIN x.resolved \cup DOMAIN members
    BY <1>2, <1>4, <1>18
<1>20. ASSUME Booked(x) PROVE Booked(y)
  <2>1. DOMAIN y.revs = DOMAIN y.resolved
    BY <1>2, <1>8, <1>15, <1>18, <1>19, <1>20 DEF Booked
  <2>2. DOMAIN y.pending \subseteq DOMAIN y.resolved /\ DOMAIN y.class \subseteq DOMAIN y.resolved
    BY <1>2, <1>7, <1>8, <1>13, <1>16, <1>17, <1>18, <1>19, <1>20 DEF Booked
  <2>3. ASSUME NEW d \in DOMAIN y.pending PROVE y.pending[d].rev > 0 /\ y.pending[d] = y.resolved[d]
    <3>1. CASE d \in full
      BY <1>8, <1>16, <1>18, <2>3, <3>1
    <3>2. CASE d \notin full
      <4>1. d \in DOMAIN x.pending \ stale /\ pending[d] = x.pending[d]
        BY <1>13, <1>16, <1>18, <2>3, <3>2
      <4>2. d \in DOMAIN x.resolved /\ x.pending[d].rev > 0 /\ x.pending[d] = x.resolved[d]
        BY <1>20, <4>1 DEF Booked
      <4>3. resolved[d] = x.resolved[d]
        BY <1>2, <1>5, <4>1, <4>2
      <4> QED
        BY <1>18, <4>1, <4>2, <4>3
    <3> QED
      BY <3>1, <3>2
  <2> QED
    BY <2>1, <2>2, <2>3 DEF Booked
<1>21. ASSUME NEW d, IsReused(y, d) PROVE IsReused(x, d) \/ d \in reused
  <2>1. d \in DOMAIN classes /\ classes[d] = "reused"
    BY <1>18, <1>21 DEF IsReused
  <2>2. d \notin full
    <3>1. \A e \in full : newClass[e] # "reused"
      OBVIOUS
    <3> HIDE DEF newClass
    <3> QED
      BY <1>17, <2>1, <3>1
  <2> QED
    BY <1>7, <1>17, <2>1, <2>2 DEF IsReused
<1> QED
    BY <1>18, <1>19, <1>20, <1>21 DEF y

-----------------------------------------------------------------------------
(***************************************************************************)
(* The inductive invariant behind StateIsCurrent: every revision seen of a *)
(* DOI is one it had, the provider state holds first revisions, and a DOI  *)
(* that is not resolved yet was seen at most at the revision the manifest  *)
(* or a probe gave it, or at an older one.                                 *)
(***************************************************************************)
Asking == stage \in {"singletons", "primes", "resolve"}
Begun == stage \notin {"manifest", "select", "hydrate"}

RevisionsAreSeen ==
    /\ \A d \in DOIs : state[d].rev <= 1
    /\ \A d \in DOIs : \A r \in observed[d] : 1 <= r /\ r <= live[d].rev
    /\ \A d \in DOIs : IsReused(ex, d) => observed[d] = {state[d].rev}
    /\ \A d \in DOMAIN manifest \ DOMAIN ex.resolved : observed[d] = {manifest[d]} \ {0}
    /\ stage = "manifest" => DOMAIN manifest = {} /\ \A d \in DOIs : observed[d] = {}
    /\ \A d \in DOMAIN sup.probes \ DOMAIN ex.resolved :
          (\A r \in observed[d] : r <= sup.probes[d]) /\ sup.probes[d] \in observed[d] \cup {0}

AskedOnce ==
    /\ ~Begun => DOMAIN ex.resolved = {}
    /\ Begun => ex.discovered = DOMAIN manifest
    /\ Asking => sup.batch \in {"early", "late"}
    /\ ~Asking => sup = NoSup
    /\ sup.anchors \cap DOMAIN manifest = {}
    /\ sets.selected \subseteq DOMAIN manifest
    /\ stage = "singletons" => sup.anchors \cap DOMAIN ex.resolved \subseteq DOMAIN sup.probes

BooksInv == EvidenceTypes /\ Booked(ex) /\ RevisionsAreSeen /\ AskedOnce

LEMMA RecordFx ==
    ASSUME NEW r \in Records
    PROVE  r.rev \in Nat /\ r.type \in TypeKinds
BY PipelineAssumption DEF Records, NoRecord, TypeKinds

LEMMA SeesFx ==
    ASSUME NEW f \in Maps(Nat), observed \in [DOIs -> SUBSET Nat], Sees(f)
    PROVE  /\ observed' \in [DOIs -> SUBSET Nat]
           /\ \A d \in DOIs : observed'[d] = IF d \in DOMAIN f /\ f[d] > 0 THEN observed[d] \cup {f[d]} ELSE observed[d]
<1>1. \A d \in DOMAIN f : f[d] \in Nat
    BY MapFx
<1> QED
    BY <1>1 DEF Sees

LEMMA InitBooks == PipelineInit => BooksInv
<1> SUFFICES ASSUME PipelineInit PROVE BooksInv
    OBVIOUS
<1>1. live \in [DOIs -> Records] /\ state \in [DOIs -> Records] /\ \A d \in DOIs : state[d].rev <= 1
  <2>1. {NoRecord} \cup {[rev |-> 1, type |-> t] : t \in Types} \subseteq Records
    BY PipelineAssumption DEF Records
  <2>2. {NoRecord, [rev |-> 1, type |-> "article"]} \subseteq Records /\ \A r \in {NoRecord, [rev |-> 1, type |-> "article"]} : r.rev <= 1
    BY PipelineAssumption DEF Records, NoRecord, Types
  <2> QED
    BY <2>1, <2>2 DEF PipelineInit
<1>2. /\ ex \in Retrievals /\ Booked(ex) /\ DOMAIN ex.resolved = {} /\ \A d \in DOIs : ~IsReused(ex, d)
  <2>1. DOMAIN <<>> = {} /\ <<>> \in Maps(Records) /\ <<>> \in Maps(Nat) /\ <<>> \in Maps(Classes)
    BY NoMap
  <2>2. [d \in DOIs |-> [kind |-> "none", conflict |-> FALSE]] \in [DOIs -> [kind : TypeKinds, conflict : BOOLEAN]]
    BY DEF TypeKinds
  <2> QED
    BY <2>1, <2>2 DEF PipelineInit, Retrievals, Booked, IsReused
<1>3. sup \in Supplements /\ DOMAIN sup.probes = {} /\ sup.anchors = {} /\ manifest \in Maps(Nat) /\ DOMAIN manifest = {}
    BY NoMap DEF PipelineInit, NoSup, Supplements
<1>4. results \in [early : Replies, late : Replies] /\ sets \in DoiSets
    BY NoMap DEF PipelineInit, NothingBack, Replies, DoiSets
<1>5. stage \in Stages /\ aliased \in BOOLEAN /\ crossref \in SUBSET DOIs /\ observed \in [DOIs -> SUBSET Nat]
    BY DEF PipelineInit, Stages
<1>6. stage = "manifest" /\ \A d \in DOIs : observed[d] = {}
    BY DEF PipelineInit
<1>7. EvidenceTypes
    BY <1>1, <1>2, <1>3, <1>4, <1>5 DEF EvidenceTypes
<1>8. RevisionsAreSeen
    BY <1>1, <1>2, <1>3, <1>6 DEF RevisionsAreSeen
<1>9. AskedOnce
    BY <1>2, <1>3, <1>6 DEF AskedOnce, Begun, Asking, PipelineInit
<1> QED
    BY <1>2, <1>7, <1>8, <1>9 DEF BooksInv

LEMMA ReindexBooks == ASSUME BooksInv, NEW d \in DOIs, Reindex(d) PROVE BooksInv'
<1>1. PICK t \in Types : live' = [live EXCEPT ![d] = [rev |-> live[d].rev + 1, type |-> t]]
    BY DEF Reindex
<1>2. live' \in [DOIs -> Records] /\ \A e \in DOIs : live[e].rev \in Nat /\ live'[e].rev >= live[e].rev
  <2>1. live[d].rev \in Nat /\ live[d].rev < MaxRevision /\ live[d].rev > 0
    BY RecordFx DEF BooksInv, EvidenceTypes, Reindex, Exists
  <2>2. [rev |-> live[d].rev + 1, type |-> t] \in Records
    BY <2>1, PipelineAssumption DEF Records
  <2> QED
    BY <1>1, <2>1, <2>2, RecordFx DEF BooksInv, EvidenceTypes
<1>3. UNCHANGED <<aliased, openalex, crossref, held, state, ex, manifest, stage, sup, sets, results, observed>>
    BY DEF Reindex
<1>4. EvidenceTypes'
    BY <1>2, <1>3 DEF BooksInv, EvidenceTypes
<1>5. RevisionsAreSeen'
  <2>1. \A e \in DOIs : \A r \in observed[e] : r \in Nat /\ 1 <= r /\ r <= live'[e].rev
    BY <1>2, RecordFx DEF BooksInv, EvidenceTypes, RevisionsAreSeen
  <2> QED
    BY <1>3, <2>1 DEF BooksInv, RevisionsAreSeen, IsReused
<1>6. AskedOnce' /\ Booked(ex)'
    BY <1>3 DEF BooksInv, AskedOnce, Begun, Asking, Booked
<1> QED
    BY <1>4, <1>5, <1>6 DEF BooksInv

LEMMA DiscoverBooks == ASSUME BooksInv, Discover PROVE BooksInv'
<1>1. PICK members \in SUBSET {d \in DOIs : Exists(d)} : \E torn \in SUBSET members :
          /\ manifest' = [d \in members |-> IF d \in torn THEN 0 ELSE live[d].rev]
          /\ ex' = [ex EXCEPT !.types = Observe(@, [d \in members |-> live[d].type])]
          /\ Sees(manifest')
    BY DEF Discover
<1>0. PICK torn \in SUBSET members :
          /\ manifest' = [d \in members |-> IF d \in torn THEN 0 ELSE live[d].rev]
          /\ ex' = [ex EXCEPT !.types = Observe(@, [d \in members |-> live[d].type])]
          /\ Sees(manifest')
    BY <1>1
<1>2. /\ stage = "manifest" /\ stage' = "select"
      /\ UNCHANGED <<live, aliased, openalex, crossref, held, state, sup, sets, results>>
    BY DEF Discover, world
<1>3. \A d \in members : live[d].rev \in Nat /\ live[d].rev > 0 /\ live[d].type \in TypeKinds
    BY RecordFx DEF BooksInv, EvidenceTypes, Exists
<1>4. manifest' \in Maps(Nat) /\ DOMAIN manifest' = members
    BY <1>0, <1>3, IsMap
<1>5. \A d \in members : manifest'[d] \in {0, live[d].rev}
    BY <1>0
<1>6. Observe(ex.types, [d \in members |-> live[d].type]) \in [DOIs -> [kind : TypeKinds, conflict : BOOLEAN]]
  <2>1. [d \in members |-> live[d].type] \in Maps(TypeKinds)
    BY <1>3, IsMap
  <2> QED
    BY <2>1, ObserveFx DEF BooksInv, EvidenceTypes, Retrievals
<1>7. /\ ex' \in Retrievals /\ ex'.resolved = ex.resolved /\ ex'.revs = ex.revs /\ ex'.class = ex.class
      /\ ex'.pending = ex.pending /\ ex'.discovered = ex.discovered
    BY <1>0, <1>6 DEF BooksInv, EvidenceTypes, Retrievals
<1>8. /\ observed' \in [DOIs -> SUBSET Nat]
      /\ \A d \in DOIs : observed'[d] = IF d \in members /\ manifest'[d] > 0 THEN {manifest'[d]} ELSE {}
    BY <1>0, <1>2, <1>4, SeesFx DEF BooksInv, EvidenceTypes, RevisionsAreSeen
<1>9. EvidenceTypes'
    BY <1>2, <1>4, <1>7, <1>8 DEF BooksInv, EvidenceTypes, Stages
<1>10. Booked(ex)'
    BY <1>7 DEF BooksInv, Booked
<1>11. DOMAIN ex.resolved = {} /\ \A d \in DOIs : ~IsReused(ex', d)
    BY <1>2, <1>7 DEF BooksInv, AskedOnce, Begun, Booked, IsReused
<1>12. sup = NoSup /\ DOMAIN sup.probes = {} /\ sup.anchors = {} /\ sets.selected = {}
    BY <1>2, NoMap DEF BooksInv, AskedOnce, Asking, NoSup, RevisionsAreSeen
<1>13. RevisionsAreSeen'
    BY <1>2, <1>3, <1>4, <1>5, <1>7, <1>8, <1>11, <1>12 DEF BooksInv, RevisionsAreSeen
<1>14. AskedOnce'
    BY <1>2, <1>7, <1>11, <1>12 DEF BooksInv, AskedOnce, Begun, Asking
<1> QED
    BY <1>9, <1>10, <1>13, <1>14 DEF BooksInv

LEMMA FinalFx ==
    ASSUME NEW aliases \in Maps({Prime})
    PROVE  /\ \A d \in DOIs : FinalDoi(aliases, d) \in DOIs
           /\ \A S \in SUBSET DOIs : Finals(aliases, S) \in SUBSET DOIs
           /\ \A S \in SUBSET DOIs : \A d \in S : FinalDoi(aliases, d) \in Finals(aliases, S)
<1>1. \A d \in DOIs : FinalDoi(aliases, d) \in DOIs
    BY MapFx, PipelineAssumption DEF FinalDoi
<1> QED
    BY <1>1 DEF Finals

\* Select, Match and Evidence only compute sets.
LEMMA ComputeBooks ==
    ASSUME BooksInv, sets' \in DoiSets, sets'.selected \subseteq DOMAIN manifest, stage' \in Stages, stage # "manifest", stage' # "manifest",
           ~Asking, ~Asking', Begun' <=> Begun,
           UNCHANGED <<live, aliased, openalex, crossref, held, state, ex, manifest, sup, results, observed>>
    PROVE  BooksInv'
<1>1. EvidenceTypes'
    BY DEF BooksInv, EvidenceTypes
<1>2. Booked(ex)' /\ RevisionsAreSeen'
    BY DEF BooksInv, Booked, RevisionsAreSeen, IsReused
<1>3. AskedOnce'
    BY DEF BooksInv, AskedOnce, Asking
<1> QED
    BY <1>1, <1>2, <1>3 DEF BooksInv

LEMMA SelectBooks == ASSUME BooksInv, Select PROVE BooksInv'
<1>1. /\ stage = "select" /\ stage' = "hydrate"
      /\ UNCHANGED <<live, aliased, openalex, crossref, held, state, ex, manifest, sup, results, observed>>
    BY DEF Select, world
<1>2. sets' \in DoiSets /\ sets'.selected \subseteq DOMAIN manifest
  <2>1. DOMAIN manifest \subseteq DOIs
    BY MapFx DEF BooksInv, EvidenceTypes
  <2> QED
    BY <2>1 DEF Select, BooksInv, EvidenceTypes, DoiSets
<1> QED
    BY <1>1, <1>2, ComputeBooks DEF Asking, Begun, Stages

LEMMA MatchBooks == ASSUME BooksInv, Match PROVE BooksInv'
<1>1. /\ stage = "match" /\ stage' = "late"
      /\ UNCHANGED <<live, aliased, openalex, crossref, held, state, ex, manifest, sup, results, observed>>
    BY DEF Match, world
<1>2. sets' \in DoiSets /\ sets'.selected \subseteq DOMAIN manifest
  <2>1. sets \in DoiSets /\ results.early.aliases \in Maps({Prime})
    BY DEF BooksInv, EvidenceTypes, Replies
  <2>2. /\ Finals(results.early.aliases, sets.matched) \in SUBSET DOIs
        /\ Finals(results.early.aliases, sets.metadata) \in SUBSET DOIs
        /\ Finals(results.early.aliases, sets.selected \cup sets.oa) \in SUBSET DOIs
    BY <2>1, FinalFx DEF DoiSets
  <2> QED
    BY <2>1, <2>2 DEF Match, DoiSets, BooksInv, AskedOnce
<1> QED
    BY <1>1, <1>2, ComputeBooks DEF Asking, Begun, Stages

LEMMA BothFx ==
    ASSUME results \in [early : Replies, late : Replies]
    PROVE  /\ Both.aliases \in Maps({Prime}) /\ DOMAIN Both.aliases = DOMAIN results.early.aliases \cup DOMAIN results.late.aliases
           /\ Both.skipped = results.early.skipped \cup results.late.skipped
           /\ Both.unresolved = results.early.unresolved \cup results.late.unresolved
           /\ Both.failed = results.early.failed \cup results.late.failed
<1>1. results.early.aliases \in Maps({Prime}) /\ results.late.aliases \in Maps({Prime})
    BY DEF Replies
<1>2. Over(results.early.aliases, results.late.aliases) \in Maps({Prime})
    BY <1>1, OverFx
<1>3. DOMAIN Over(results.early.aliases, results.late.aliases) = DOMAIN results.early.aliases \cup DOMAIN results.late.aliases
    BY OverAt
<1> QED
    BY <1>2, <1>3 DEF Both

LEMMA EvidenceBooks == ASSUME BooksInv, Evidence PROVE BooksInv'
<1>1. /\ stage = "evidence" /\ stage' = "done"
      /\ UNCHANGED <<live, aliased, openalex, crossref, held, state, ex, manifest, sup, results, observed>>
    BY DEF Evidence, world
<1>2. sets' \in DoiSets /\ sets'.selected \subseteq DOMAIN manifest
  <2>1. sets \in DoiSets /\ Both.aliases \in Maps({Prime})
    BY BothFx DEF BooksInv, EvidenceTypes
  <2>2. Finals(Both.aliases, sets.matched) \in SUBSET DOIs
    BY <2>1, FinalFx DEF DoiSets
  <2> QED
    BY <2>1, <2>2 DEF Evidence, DoiSets, BooksInv, AskedOnce
<1> QED
    BY <1>1, <1>2, ComputeBooks DEF Asking, Begun, Stages

\* What a retrieval resolves keeps the books: a DOI is fetched once, and what is reused was seen.
LEMMA ResolveBooks ==
    ASSUME BooksInv, NEW members \in Maps(Nat), NEW supplied \in Maps(Records),
           NEW lost \in SUBSET Requested(ex, members, supplied),
           \A d \in DOMAIN members \ DOMAIN ex.resolved :
              (\A r \in observed[d] : r <= members[d]) /\ members[d] \in observed[d] \cup {0},
           NEW y, y = ResolveMembers(ex, members, supplied, lost),
           ex'.resolved = y.resolved, ex'.revs = y.revs, ex'.class = y.class, ex'.pending = y.pending,
           Sees(HydratedFrom(Requested(ex, members, supplied), lost)),
           UNCHANGED <<live, state, manifest>>, stage # "manifest", stage' # "manifest", DOMAIN sup'.probes = {}
    PROVE  /\ observed' \in [DOIs -> SUBSET Nat] /\ Booked(ex)' /\ RevisionsAreSeen'
           /\ DOMAIN ex'.resolved = DOMAIN ex.resolved \cup DOMAIN members
<1> DEFINE requested == Requested(ex, members, supplied)
           fetched == HydratedFrom(requested, lost)
<1>1. /\ ex \in Retrievals /\ live \in [DOIs -> Records] /\ state \in [DOIs -> Records]
      /\ observed \in [DOIs -> SUBSET Nat] /\ Booked(ex) /\ RevisionsAreSeen
    BY DEF BooksInv, EvidenceTypes
<1>2. /\ DOMAIN y.resolved = DOMAIN ex.resolved \cup DOMAIN members /\ Booked(y)
      /\ \A d : IsReused(y, d) => IsReused(ex, d) \/ d \in Reusable(ex, members)
    BY <1>1, ResolveFx
<1>3. Booked(ex)' /\ DOMAIN ex'.resolved = DOMAIN ex.resolved \cup DOMAIN members
    BY <1>2 DEF Booked
<1>4. DOMAIN members \subseteq DOIs /\ \A d \in DOMAIN members : members[d] \in Nat
    BY MapFx
<1>5. /\ requested \subseteq DOMAIN members /\ requested \cap DOMAIN ex.resolved = {}
      /\ requested \cap Reusable(ex, members) = {}
    BY DEF Requested
<1>6. fetched \in Maps(Nat) /\ DOMAIN fetched = requested \ lost /\ \A d \in requested \ lost : fetched[d] = live[d].rev
  <2>1. requested \ lost \in SUBSET DOIs /\ \A d \in requested \ lost : live[d].rev \in Nat
    BY <1>1, <1>4, <1>5, RecordFx
  <2> HIDE DEF requested
  <2> QED
    BY <2>1, IsMap DEF HydratedFrom
<1>7. /\ observed' \in [DOIs -> SUBSET Nat]
      /\ \A d \in DOIs : observed'[d] = IF d \in DOMAIN fetched /\ fetched[d] > 0 THEN observed[d] \cup {fetched[d]} ELSE observed[d]
  <2> HIDE DEF fetched
  <2> QED
    BY <1>1, <1>6, SeesFx DEF fetched
<1> HIDE DEF fetched, requested
<1>8. \A d \in DOIs : \A r \in observed'[d] : 1 <= r /\ r <= live[d].rev
  <2> TAKE d \in DOIs
  <2>1. live[d].rev \in Nat
    BY <1>1, RecordFx
  <2>2. \A r \in observed[d] : 1 <= r /\ r <= live[d].rev
    BY <1>1 DEF RevisionsAreSeen
  <2>3. CASE d \in DOMAIN fetched /\ fetched[d] > 0
    BY <1>6, <1>7, <2>1, <2>2, <2>3
  <2>4. CASE ~(d \in DOMAIN fetched /\ fetched[d] > 0)
    BY <1>7, <2>2, <2>4
  <2> QED
    BY <2>3, <2>4
<1>9. ASSUME NEW d \in DOIs, IsReused(ex', d) PROVE observed'[d] = {state[d].rev}
  <2>1. IsReused(ex, d) \/ d \in Reusable(ex, members)
    BY <1>2, <1>9 DEF IsReused
  <2>2. d \notin requested
    BY <1>1, <1>5, <2>1 DEF IsReused, Booked
  <2>3. observed'[d] = observed[d]
    BY <1>6, <1>7, <2>2
  <2>4. CASE IsReused(ex, d)
    BY <1>1, <2>3, <2>4 DEF RevisionsAreSeen
  <2>5. CASE d \in Reusable(ex, members)
    <3>1. d \in DOMAIN members \ DOMAIN ex.resolved /\ state[d].rev > 0 /\ members[d] = state[d].rev
      BY <2>5 DEF Reusable
    <3>2. state[d].rev = 1
      BY <1>1, <3>1, RecordFx DEF RevisionsAreSeen
    <3>3. observed[d] \subseteq Nat /\ \A r \in observed[d] : 1 <= r /\ r <= 1
      BY <1>1, <3>1, <3>2 DEF RevisionsAreSeen
    <3>4. 1 \in observed[d]
      BY <3>1, <3>2
    <3>5. \A r \in Nat : 1 <= r /\ r <= 1 => r = 1
      OBVIOUS
    <3> QED
      BY <2>3, <3>2, <3>3, <3>4, <3>5
  <2> QED
    BY <2>1, <2>4, <2>5
<1>10. \A d \in DOMAIN manifest \ DOMAIN ex'.resolved : observed'[d] = {manifest[d]} \ {0}
  <2> TAKE d \in DOMAIN manifest \ DOMAIN ex'.resolved
  <2>1. d \in DOIs
    BY MapFx DEF BooksInv, EvidenceTypes
  <2>2. observed'[d] = observed[d]
    BY <1>3, <1>5, <1>6, <1>7, <2>1
  <2> QED
    BY <1>1, <1>3, <2>2 DEF RevisionsAreSeen
<1>11. RevisionsAreSeen'
    BY <1>1, <1>8, <1>9, <1>10 DEF RevisionsAreSeen
<1> QED
    BY <1>3, <1>7, <1>11

LEMMA HydrateBooks == ASSUME BooksInv, Hydrate PROVE BooksInv'
<1> DEFINE dois == (sets.selected \cap sets.metadata) \ Excluded(ex)
           members == [d \in dois |-> manifest[d]]
           requested == Requested(ex, members, <<>>)
<1>1. PICK lost \in SUBSET requested :
         LET x == ResolveMembers(ex, members, <<>>, lost)
             full == {d \in dois : x.resolved[d].rev > 0}
         IN  /\ ex' = [x EXCEPT !.discovered = DOMAIN manifest,
                                !.types = Observe(@, [d \in dois |-> x.resolved[d].type]),
                                !.used = full]
             /\ sets' = [sets EXCEPT !.hydrated = full]
             /\ Sees(HydratedFrom(requested, lost))
    BY DEF Hydrate
<1>2. /\ stage = "hydrate" /\ stage' = "early"
      /\ UNCHANGED <<live, aliased, openalex, crossref, held, state, manifest, sup, results>>
    BY DEF Hydrate, world
<1>3. /\ dois \subseteq DOMAIN manifest /\ dois \subseteq DOIs /\ sup = NoSup
      /\ DOMAIN manifest \subseteq DOIs /\ \A d \in DOMAIN manifest : manifest[d] \in Nat
    BY <1>2, MapFx DEF BooksInv, EvidenceTypes, AskedOnce, Asking, DoiSets
<1> HIDE DEF dois
<1>4. members \in Maps(Nat) /\ DOMAIN members = dois /\ \A d \in dois : members[d] = manifest[d]
    BY <1>3, IsMap
<1> HIDE DEF members, requested
<1> DEFINE y == ResolveMembers(ex, members, <<>>, lost)
           full == {d \in dois : y.resolved[d].rev > 0}
           kinds == [d \in dois |-> y.resolved[d].type]
<1>5. y \in Retrievals /\ DOMAIN y.resolved = DOMAIN ex.resolved \cup dois
    BY <1>4, NoMap, ResolveFx DEF requested, BooksInv, EvidenceTypes
<1>6. /\ ex' = [y EXCEPT !.discovered = DOMAIN manifest, !.types = Observe(@, kinds), !.used = full]
      /\ sets' = [sets EXCEPT !.hydrated = full] /\ Sees(HydratedFrom(requested, lost))
    BY <1>1
<1> HIDE DEF y
<1>7. Observe(y.types, kinds) \in [DOIs -> [kind : TypeKinds, conflict : BOOLEAN]]
  <2>1. \A d \in dois : y.resolved[d].type \in TypeKinds
    BY <1>5, MapFx, RecordFx DEF Retrievals
  <2>2. kinds \in Maps(TypeKinds)
    BY <1>3, <2>1, IsMap
  <2> HIDE DEF kinds
  <2> QED
    BY <1>5, <2>2, ObserveFx DEF Retrievals
<1>8. full \subseteq dois
    OBVIOUS
<1> HIDE DEF full, kinds
<1>9. /\ ex' \in Retrievals /\ ex'.resolved = y.resolved /\ ex'.revs = y.revs /\ ex'.class = y.class
      /\ ex'.pending = y.pending /\ ex'.discovered = DOMAIN manifest
    BY <1>3, <1>5, <1>6, <1>7, <1>8 DEF Retrievals
<1>10. sets' \in DoiSets /\ sets'.selected = sets.selected
    BY <1>3, <1>6, <1>8 DEF BooksInv, EvidenceTypes, DoiSets
<1>11. \A d \in DOMAIN members \ DOMAIN ex.resolved :
          (\A r \in observed[d] : r <= members[d]) /\ members[d] \in observed[d] \cup {0}
    BY <1>3, <1>4 DEF BooksInv, RevisionsAreSeen
<1>12. sup' = NoSup /\ DOMAIN sup'.probes = {}
    BY <1>2, <1>3, NoMap DEF NoSup
<1>13. /\ observed' \in [DOIs -> SUBSET Nat] /\ Booked(ex)' /\ RevisionsAreSeen'
    BY <1>2, <1>4, <1>6, <1>9, <1>11, <1>12, NoMap, ResolveBooks DEF y, requested
<1>14. EvidenceTypes'
    BY <1>2, <1>9, <1>10, <1>13 DEF BooksInv, EvidenceTypes, Stages
<1>15. AskedOnce'
    BY <1>2, <1>9, <1>10, <1>12 DEF BooksInv, AskedOnce, Begun, Asking, NoSup
<1> QED
    BY <1>13, <1>14, <1>15 DEF BooksInv

\* A supplement starts with what a batched probe answers.
LEMMA StartBooks ==
    ASSUME BooksInv, NEW records \in SUBSET DOIs, NEW batch \in {"early", "late"}, Start(batch, records),
           Begun, ~Asking, stage # "manifest", stage' = "singletons",
           UNCHANGED <<live, aliased, openalex, crossref, held, state, manifest, sets, results>>
    PROVE  BooksInv'
<1> DEFINE anchors == records \ ex.discovered
<1>1. PICK answered \in SUBSET Answerable(anchors) :
           /\ sup' = [NoSup EXCEPT !.batch = batch, !.anchors = anchors,
                        !.probes = [d \in Probed(anchors) \cup answered |->
                                      IF d \in answered THEN live[d].rev ELSE ex.revs[d]]]
           /\ ex' = [ex EXCEPT !.types = Observe(@, [d \in answered |-> live[d].type])]
           /\ Sees([d \in answered |-> live[d].rev])
    BY DEF Start
<1>2. /\ anchors \subseteq DOIs /\ anchors \cap DOMAIN manifest = {} /\ answered \subseteq anchors
      /\ Probed(anchors) = anchors \cap DOMAIN ex.resolved /\ answered \cap DOMAIN ex.resolved = {}
      /\ \A d \in answered : live[d].rev > 0
    BY DEF BooksInv, AskedOnce, Answerable, Probed, Exists
<1> HIDE DEF anchors
<1>3. \A d \in DOIs : live[d].rev \in Nat /\ live[d].type \in TypeKinds
    BY RecordFx DEF BooksInv, EvidenceTypes
<1> DEFINE probes == [d \in Probed(anchors) \cup answered |-> IF d \in answered THEN live[d].rev ELSE ex.revs[d]]
           asked == [d \in answered |-> live[d].rev]
           kinds == [d \in answered |-> live[d].type]
<1>4. /\ probes \in Maps(Nat) /\ DOMAIN probes = (anchors \cap DOMAIN ex.resolved) \cup answered
      /\ \A d \in answered : probes[d] = live[d].rev
  <2>1. Probed(anchors) \cup answered \in SUBSET DOIs
    BY <1>2
  <2>2. \A d \in DOMAIN ex.resolved : ex.revs[d] \in Nat
    BY MapFx DEF BooksInv, Booked, EvidenceTypes, Retrievals
  <2>3. \A d \in Probed(anchors) \cup answered : (IF d \in answered THEN live[d].rev ELSE ex.revs[d]) \in Nat
    BY <1>2, <1>3, <2>2
  <2> QED
    BY <1>2, <2>1, <2>3, IsMap
<1>5. asked \in Maps(Nat) /\ DOMAIN asked = answered /\ \A d \in answered : asked[d] = live[d].rev
    BY <1>2, <1>3, IsMap
<1>6. Observe(ex.types, kinds) \in [DOIs -> [kind : TypeKinds, conflict : BOOLEAN]]
  <2>1. kinds \in Maps(TypeKinds)
    BY <1>2, <1>3, IsMap
  <2> HIDE DEF kinds
  <2> QED
    BY <2>1, ObserveFx DEF BooksInv, EvidenceTypes, Retrievals
<1> HIDE DEF probes, asked, kinds
<1>7. /\ ex' \in Retrievals /\ ex'.resolved = ex.resolved /\ ex'.revs = ex.revs /\ ex'.class = ex.class
      /\ ex'.pending = ex.pending /\ ex'.discovered = ex.discovered
    BY <1>1, <1>6 DEF kinds, BooksInv, EvidenceTypes, Retrievals
<1>8. sup' \in Supplements /\ sup'.batch = batch /\ sup'.anchors = anchors /\ sup'.probes = probes
  <2>1. sup' = [NoSup EXCEPT !.batch = batch, !.anchors = anchors, !.probes = probes]
    BY <1>1 DEF probes
  <2> QED
    BY <1>2, <1>4, <2>1, NoMap DEF NoSup, Supplements
<1>9. /\ observed' \in [DOIs -> SUBSET Nat]
      /\ \A d \in DOIs : observed'[d] = IF d \in answered THEN observed[d] \cup {live[d].rev} ELSE observed[d]
  <2>1. Sees(asked)
    BY <1>1 DEF asked
  <2>2. /\ observed' \in [DOIs -> SUBSET Nat]
        /\ \A d \in DOIs : observed'[d] = IF d \in DOMAIN asked /\ asked[d] > 0 THEN observed[d] \cup {asked[d]} ELSE observed[d]
    BY <1>5, <2>1, SeesFx DEF BooksInv, EvidenceTypes
  <2> QED
    BY <1>2, <1>5, <2>2
<1>10. EvidenceTypes'
    BY <1>7, <1>8, <1>9 DEF BooksInv, EvidenceTypes, Stages
<1>11. Booked(ex)'
    BY <1>7 DEF BooksInv, Booked
<1>12. RevisionsAreSeen'
  <2>1. \A d \in DOIs : \A r \in observed'[d] : 1 <= r /\ r <= live[d].rev
    BY <1>2, <1>3, <1>9 DEF BooksInv, RevisionsAreSeen
  <2>2. \A d \in DOIs : IsReused(ex', d) => observed'[d] = {state[d].rev}
    BY <1>2, <1>7, <1>9 DEF BooksInv, RevisionsAreSeen, IsReused, Booked
  <2>3. \A d \in DOMAIN manifest \ DOMAIN ex.resolved : observed'[d] = {manifest[d]} \ {0}
    BY <1>2, <1>9, MapFx DEF BooksInv, RevisionsAreSeen, EvidenceTypes
  <2>4. \A d \in DOMAIN probes \ DOMAIN ex.resolved :
           d \in answered /\ (\A r \in observed'[d] : r <= probes[d]) /\ probes[d] \in observed'[d]
    BY <1>2, <1>4, <1>9, <2>1
  <2> QED
    BY <1>7, <1>8, <2>1, <2>2, <2>3, <2>4 DEF BooksInv, RevisionsAreSeen
<1>13. AskedOnce'
    BY <1>2, <1>4, <1>7, <1>8 DEF BooksInv, AskedOnce, Begun, Asking
<1> QED
    BY <1>10, <1>11, <1>12, <1>13 DEF BooksInv

LEMMA EarlyBooks == ASSUME BooksInv, Early PROVE BooksInv'
<1>1. EarlyRequested \in SUBSET DOIs
    BY DEF EarlyRequested, BooksInv, EvidenceTypes, DoiSets
<1> QED
    BY <1>1, StartBooks DEF Early, Begun, Asking, world

LEMMA LateBooks == ASSUME BooksInv, Late PROVE BooksInv'
<1>1. LateRequested \in SUBSET DOIs
    BY DEF LateRequested, BooksInv, EvidenceTypes, DoiSets
<1> QED
    BY <1>1, StartBooks DEF Late, Begun, Asking, world

\* The singletons of what the probe did not answer.
LEMMA SingletonsBooks == ASSUME BooksInv, Singletons PROVE BooksInv'
<1> DEFINE asked == sup.anchors \ DOMAIN sup.probes
<1>1. PICK answered \in SUBSET asked :
              LET prime == {d \in answered : IsAlias(d)}
                  gone == {d \in answered : ~Exists(d) /\ ~IsAlias(d)}
                  found == {d \in answered : Exists(d) /\ ~IsAlias(d)}
              IN  /\ sup' = [sup EXCEPT !.unavailable = gone,
                               !.aliases = [d \in prime |-> Prime],
                               !.supplied = [d \in found |-> live[d]],
                               !.probes = Over(@, [d \in found |-> live[d].rev]),
                               !.targets = [d \in DOMAIN sup.probes \cup found \cup prime |->
                                              IF d \in prime THEN Prime ELSE d],
                               !.skipped = {d \in DOMAIN sup.probes \cup found \cup prime :
                                              ~ShouldProcess(ex, IF d \in prime THEN Prime ELSE d)}]
                  /\ Sees([d \in found |-> live[d].rev])
    BY DEF Singletons
<1> DEFINE prime == {d \in answered : IsAlias(d)}
           gone == {d \in answered : ~Exists(d) /\ ~IsAlias(d)}
           found == {d \in answered : Exists(d) /\ ~IsAlias(d)}
           revs == [d \in found |-> live[d].rev]
           supplied == [d \in found |-> live[d]]
           aliases == [d \in prime |-> Prime]
           targets == [d \in DOMAIN sup.probes \cup found \cup prime |-> IF d \in prime THEN Prime ELSE d]
           skipped == {d \in DOMAIN sup.probes \cup found \cup prime : ~ShouldProcess(ex, IF d \in prime THEN Prime ELSE d)}
<1>2. /\ stage = "singletons" /\ stage' = "primes"
      /\ UNCHANGED <<live, aliased, openalex, crossref, held, state, ex, manifest, sets, results>>
    BY DEF Singletons, world
<1>3. /\ sup' = [sup EXCEPT !.unavailable = gone, !.aliases = aliases, !.supplied = supplied,
                            !.probes = Over(@, revs), !.targets = targets, !.skipped = skipped]
      /\ Sees(revs)
    BY <1>1
<1>4. /\ sup \in Supplements /\ DOMAIN sup.probes \subseteq DOIs /\ sup.anchors \subseteq DOIs
      /\ sup.anchors \cap DOMAIN manifest = {} /\ sup.anchors \cap DOMAIN ex.resolved \subseteq DOMAIN sup.probes
    BY <1>2, MapFx DEF BooksInv, EvidenceTypes, Supplements, AskedOnce
<1>5. /\ prime \subseteq DOIs /\ gone \subseteq DOIs /\ found \subseteq DOIs /\ skipped \subseteq DOIs
      /\ found \cap DOMAIN ex.resolved = {} /\ found \cap DOMAIN manifest = {} /\ found \cap DOMAIN sup.probes = {}
      /\ \A d \in found : live[d].rev > 0
    BY <1>4 DEF Exists
<1>6. \A d \in DOIs : live[d] \in Records /\ live[d].rev \in Nat
    BY RecordFx DEF BooksInv, EvidenceTypes
<1> HIDE DEF prime, gone, found, skipped
<1>7. revs \in Maps(Nat) /\ DOMAIN revs = found /\ \A d \in found : revs[d] = live[d].rev
    BY <1>5, <1>6, IsMap
<1>8. supplied \in Maps(Records) /\ aliases \in Maps({Prime}) /\ targets \in Maps(DOIs)
  <2>1. supplied \in Maps(Records)
    BY <1>5, <1>6, IsMap
  <2>2. aliases \in Maps({Prime})
    BY <1>5, IsMap
  <2>3. targets \in Maps(DOIs)
    <3>1. /\ DOMAIN sup.probes \cup found \cup prime \in SUBSET DOIs
          /\ \A d \in DOMAIN sup.probes \cup found \cup prime : (IF d \in prime THEN Prime ELSE d) \in DOIs
      BY <1>4, <1>5, PipelineAssumption
    <3> QED
      BY <3>1, IsMap
  <2> QED
    BY <2>1, <2>2, <2>3
<1> HIDE DEF revs, supplied, aliases, targets
<1>9. Over(sup.probes, revs) \in Maps(Nat)
    BY <1>4, <1>7, OverFx DEF Supplements
<1>10. /\ DOMAIN Over(sup.probes, revs) = DOMAIN sup.probes \cup found
       /\ \A d \in found : Over(sup.probes, revs)[d] = live[d].rev
       /\ \A d \in DOMAIN sup.probes : Over(sup.probes, revs)[d] = sup.probes[d]
  <2>1. /\ DOMAIN Over(sup.probes, revs) = DOMAIN sup.probes \cup DOMAIN revs
        /\ \A d \in DOMAIN revs : Over(sup.probes, revs)[d] = revs[d]
        /\ \A d \in DOMAIN sup.probes \ DOMAIN revs : Over(sup.probes, revs)[d] = sup.probes[d]
    BY OverAt
  <2> QED
    BY <1>5, <1>7, <2>1
<1>11. /\ sup' \in Supplements /\ sup'.batch = sup.batch /\ sup'.anchors = sup.anchors
       /\ sup'.probes = Over(sup.probes, revs)
    BY <1>3, <1>4, <1>5, <1>8, <1>9 DEF Supplements
<1>12. /\ observed' \in [DOIs -> SUBSET Nat]
       /\ \A d \in DOIs : observed'[d] = IF d \in found THEN observed[d] \cup {live[d].rev} ELSE observed[d]
  <2>1. /\ observed' \in [DOIs -> SUBSET Nat]
        /\ \A d \in DOIs : observed'[d] = IF d \in DOMAIN revs /\ revs[d] > 0 THEN observed[d] \cup {revs[d]} ELSE observed[d]
    BY <1>3, <1>7, SeesFx DEF BooksInv, EvidenceTypes
  <2> QED
    BY <1>5, <1>7, <2>1
<1>13. EvidenceTypes'
    BY <1>2, <1>11, <1>12 DEF BooksInv, EvidenceTypes, Stages
<1>14. RevisionsAreSeen'
  <2>1. \A d \in DOIs : \A r \in observed'[d] : 1 <= r /\ r <= live[d].rev
    BY <1>5, <1>6, <1>12 DEF BooksInv, RevisionsAreSeen
  <2>2. \A d \in DOIs : IsReused(ex, d) => observed'[d] = {state[d].rev}
    BY <1>5, <1>12 DEF BooksInv, RevisionsAreSeen, IsReused, Booked
  <2>3. \A d \in DOMAIN manifest \ DOMAIN ex.resolved : observed'[d] = {manifest[d]} \ {0}
    BY <1>5, <1>12, MapFx DEF BooksInv, RevisionsAreSeen, EvidenceTypes
  <2>4. \A d \in DOMAIN sup'.probes \ DOMAIN ex.resolved :
           (\A r \in observed'[d] : r <= sup'.probes[d]) /\ sup'.probes[d] \in observed'[d] \cup {0}
    <3> TAKE d \in DOMAIN sup'.probes \ DOMAIN ex.resolved
    <3>1. CASE d \in found
      BY <1>5, <1>10, <1>11, <1>12, <2>1, <3>1
    <3>2. CASE d \notin found
      BY <1>4, <1>10, <1>11, <1>12, <3>2 DEF BooksInv, RevisionsAreSeen
    <3> QED
      BY <3>1, <3>2
  <2> QED
    BY <1>2, <2>1, <2>2, <2>3, <2>4 DEF BooksInv, RevisionsAreSeen
<1>15. AskedOnce'
    BY <1>2, <1>4, <1>11 DEF BooksInv, AskedOnce, Begun, Asking
<1> QED
    BY <1>2, <1>13, <1>14, <1>15 DEF BooksInv, Booked

\* The primes of the aliases: what is known of them, or asked for.
LEMMA PrimesBooks == ASSUME BooksInv, Primes PROVE BooksInv'
<1> DEFINE primes == {sup.aliases[d] : d \in DOMAIN sup.aliases}
           knownSet == {p \in primes : p \in DOMAIN ex.resolved \cup (ex.discovered \cap DOMAIN manifest)}
           known == [d \in knownSet |-> IF d \in DOMAIN ex.resolved THEN ex.revs[d] ELSE manifest[d]]
           asked == {p \in primes \ (DOMAIN sup.probes \cup DOMAIN known) : ShouldProcess(ex, p)}
<1>1. PICK probed \in SUBSET {p \in asked : Exists(p)} :
          \E single \in SUBSET {p \in asked \ probed : Exists(p)} :
              LET got == [d \in probed \cup single |-> live[d].rev]
              IN  /\ sup' = [sup EXCEPT !.probes = Over(Over(@, known), got),
                                        !.supplied = Over(@, [d \in single |-> live[d]])]
                  /\ ex' = [ex EXCEPT !.types = Observe(@, Over(Typed(sup.supplied),
                                                                [d \in DOMAIN got |-> live[d].type]))]
                  /\ Sees(got)
    BY DEF Primes
<1>2. PICK single \in SUBSET {p \in asked \ probed : Exists(p)} :
              LET got == [d \in probed \cup single |-> live[d].rev]
              IN  /\ sup' = [sup EXCEPT !.probes = Over(Over(@, known), got),
                                        !.supplied = Over(@, [d \in single |-> live[d]])]
                  /\ ex' = [ex EXCEPT !.types = Observe(@, Over(Typed(sup.supplied),
                                                                [d \in DOMAIN got |-> live[d].type]))]
                  /\ Sees(got)
    BY <1>1
<1>3. /\ stage = "primes" /\ stage' = "resolve"
      /\ UNCHANGED <<live, aliased, openalex, crossref, held, state, manifest, sets, results>>
    BY DEF Primes, world
<1> DEFINE new == probed \cup single
           got == [d \in new |-> live[d].rev]
           more == [d \in single |-> live[d]]
           kinds == [d \in new |-> live[d].type]
<1>4. /\ sup \in Supplements /\ DOMAIN sup.probes \subseteq DOIs /\ ex.discovered = DOMAIN manifest
      /\ primes \subseteq DOIs /\ DOMAIN manifest \subseteq DOIs /\ \A d \in DOMAIN manifest : manifest[d] \in Nat
  <2>1. sup \in Supplements /\ manifest \in Maps(Nat) /\ sup.aliases \in Maps({Prime})
    BY DEF BooksInv, EvidenceTypes, Supplements
  <2>2. \A d \in DOMAIN sup.aliases : sup.aliases[d] = Prime
    BY <2>1, MapFx
  <2> QED
    BY <1>3, <2>1, <2>2, MapFx, PipelineAssumption DEF Supplements, BooksInv, AskedOnce, Begun
<1> HIDE DEF primes
<1>5. \A d \in DOIs : live[d] \in Records /\ live[d].rev \in Nat /\ live[d].type \in TypeKinds
    BY RecordFx DEF BooksInv, EvidenceTypes
<1>6. \A d \in DOMAIN ex.resolved : ex.revs[d] \in Nat
    BY MapFx DEF BooksInv, Booked, EvidenceTypes, Retrievals
<1>7. known \in Maps(Nat) /\ DOMAIN known = knownSet
  <2>1. knownSet \in SUBSET DOIs /\ \A d \in knownSet : (IF d \in DOMAIN ex.resolved THEN ex.revs[d] ELSE manifest[d]) \in Nat
    BY <1>4, <1>6
  <2> HIDE DEF knownSet
  <2> QED
    BY <2>1, IsMap
<1>8. \A d \in knownSet \ DOMAIN ex.resolved : d \in DOMAIN manifest /\ known[d] = manifest[d]
    OBVIOUS
<1>9. /\ new \subseteq DOIs /\ single \subseteq DOIs /\ new \cap DOMAIN ex.resolved = {} /\ new \cap DOMAIN manifest = {}
      /\ new \cap DOMAIN sup.probes = {} /\ new \cap knownSet = {} /\ \A d \in new : live[d].rev > 0
    BY <1>4, <1>7 DEF Exists
<1> HIDE DEF new, known, knownSet
<1>10. got \in Maps(Nat) /\ DOMAIN got = new /\ \A d \in new : got[d] = live[d].rev
    BY <1>5, <1>9, IsMap
<1>11. /\ sup' = [sup EXCEPT !.probes = Over(Over(@, known), got), !.supplied = Over(@, more)]
       /\ ex' = [ex EXCEPT !.types = Observe(@, Over(Typed(sup.supplied), kinds))]
       /\ Sees(got)
    BY <1>2, <1>10 DEF new
<1>12. Over(sup.supplied, more) \in Maps(Records)
  <2>1. more \in Maps(Records)
    BY <1>5, <1>9, IsMap
  <2> HIDE DEF more
  <2> QED
    BY <1>4, <2>1, OverFx DEF Supplements
<1>13. Observe(ex.types, Over(Typed(sup.supplied), kinds)) \in [DOIs -> [kind : TypeKinds, conflict : BOOLEAN]]
  <2>1. kinds \in Maps(TypeKinds)
    BY <1>5, <1>9, IsMap
  <2>2. Typed(sup.supplied) \in Maps(TypeKinds)
    <3>1. DOMAIN sup.supplied \in SUBSET DOIs /\ \A d \in DOMAIN sup.supplied : sup.supplied[d].type \in TypeKinds
      BY <1>4, MapFx, RecordFx DEF Supplements
    <3> QED
      BY <3>1, IsMap DEF Typed
  <2> HIDE DEF kinds
  <2>3. Over(Typed(sup.supplied), kinds) \in Maps(TypeKinds)
    BY <2>1, <2>2, OverFx
  <2> QED
    BY <2>3, ObserveFx DEF BooksInv, EvidenceTypes, Retrievals
<1> HIDE DEF got, more, kinds
<1> DEFINE some == Over(sup.probes, known)
<1>14. some \in Maps(Nat) /\ Over(some, got) \in Maps(Nat)
  <2>1. some \in Maps(Nat)
    BY <1>4, <1>7, OverFx DEF Supplements
  <2> HIDE DEF some
  <2> QED
    BY <1>10, <2>1, OverFx
<1>15. /\ DOMAIN Over(some, got) = DOMAIN sup.probes \cup knownSet \cup new
       /\ \A d \in new : Over(some, got)[d] = live[d].rev
       /\ \A d \in knownSet : Over(some, got)[d] = known[d]
       /\ \A d \in DOMAIN sup.probes \ knownSet : Over(some, got)[d] = sup.probes[d]
  <2>1. /\ DOMAIN some = DOMAIN sup.probes \cup DOMAIN known
        /\ \A d \in DOMAIN known : some[d] = known[d]
        /\ \A d \in DOMAIN sup.probes \ DOMAIN known : some[d] = sup.probes[d]
    BY OverAt
  <2> HIDE DEF some
  <2>2. /\ DOMAIN Over(some, got) = DOMAIN some \cup DOMAIN got
        /\ \A d \in DOMAIN got : Over(some, got)[d] = got[d]
        /\ \A d \in DOMAIN some \ DOMAIN got : Over(some, got)[d] = some[d]
    BY OverAt
  <2> QED
    BY <1>7, <1>9, <1>10, <2>1, <2>2
<1>16. /\ sup' \in Supplements /\ sup'.batch = sup.batch /\ sup'.anchors = sup.anchors /\ sup'.probes = Over(some, got)
    BY <1>4, <1>11, <1>12, <1>14 DEF Supplements
<1> HIDE DEF some
<1>17. /\ ex' \in Retrievals /\ ex'.resolved = ex.resolved /\ ex'.revs = ex.revs /\ ex'.class = ex.class
       /\ ex'.pending = ex.pending /\ ex'.discovered = ex.discovered
    BY <1>11, <1>13 DEF BooksInv, EvidenceTypes, Retrievals
<1>18. /\ observed' \in [DOIs -> SUBSET Nat]
       /\ \A d \in DOIs : observed'[d] = IF d \in new THEN observed[d] \cup {live[d].rev} ELSE observed[d]
  <2>1. /\ observed' \in [DOIs -> SUBSET Nat]
        /\ \A d \in DOIs : observed'[d] = IF d \in DOMAIN got /\ got[d] > 0 THEN observed[d] \cup {got[d]} ELSE observed[d]
    BY <1>10, <1>11, SeesFx DEF BooksInv, EvidenceTypes
  <2> QED
    BY <1>9, <1>10, <2>1
<1>19. EvidenceTypes'
    BY <1>3, <1>16, <1>17, <1>18 DEF BooksInv, EvidenceTypes, Stages
<1>20. RevisionsAreSeen'
  <2>1. \A d \in DOIs : \A r \in observed'[d] : 1 <= r /\ r <= live[d].rev
    BY <1>5, <1>9, <1>18 DEF BooksInv, RevisionsAreSeen
  <2>2. \A d \in DOIs : IsReused(ex', d) => observed'[d] = {state[d].rev}
    BY <1>9, <1>17, <1>18 DEF BooksInv, RevisionsAreSeen, IsReused, Booked
  <2>3. \A d \in DOMAIN manifest \ DOMAIN ex.resolved : observed'[d] = {manifest[d]} \ {0}
    BY <1>4, <1>9, <1>18 DEF BooksInv, RevisionsAreSeen
  <2>4. \A d \in DOMAIN sup'.probes \ DOMAIN ex.resolved :
           (\A r \in observed'[d] : r <= sup'.probes[d]) /\ sup'.probes[d] \in observed'[d] \cup {0}
    <3> TAKE d \in DOMAIN sup'.probes \ DOMAIN ex.resolved
    <3>1. CASE d \in new
      BY <1>9, <1>15, <1>16, <1>18, <2>1, <3>1
    <3>2. CASE d \in knownSet
      <4>1. d \in DOMAIN manifest \ DOMAIN ex.resolved /\ sup'.probes[d] = manifest[d]
        BY <1>8, <1>15, <1>16, <3>2
      <4> QED
        BY <1>4, <2>3, <4>1
    <3>3. CASE d \in DOMAIN sup.probes \ knownSet
      BY <1>4, <1>9, <1>15, <1>16, <1>18, <3>3 DEF BooksInv, RevisionsAreSeen
    <3> QED
      BY <1>15, <1>16, <3>1, <3>2, <3>3
  <2> QED
    BY <1>3, <1>17, <2>1, <2>2, <2>3, <2>4 DEF BooksInv, RevisionsAreSeen
<1>21. AskedOnce'
    BY <1>3, <1>16, <1>17 DEF BooksInv, AskedOnce, Begun, Asking
<1> QED
    BY <1>17, <1>19, <1>20, <1>21 DEF BooksInv, Booked

LEMMA SettleBooks == ASSUME BooksInv, Settle PROVE BooksInv'
<1> DEFINE wanted == {t \in {sup.targets[d] : d \in DOMAIN sup.targets} :
                        /\ t \in DOMAIN sup.probes /\ ShouldProcess(ex, t)
                        /\ sup.batch = "early" \/ t \in DOMAIN sup.supplied \/ t \in DOMAIN ex.resolved}
           members == [t \in wanted |-> sup.probes[t]]
           supplied == [d \in DOMAIN sup.supplied \cap wanted |-> sup.supplied[d]]
           requested == Requested(ex, members, supplied)
           left == {d \in sup.anchors \ sup.skipped : Target(d) \notin Excluded(ex)}
           HasRecord(x, d) == /\ Target(d) \in DOMAIN sup.probes /\ Target(d) \in DOMAIN x.resolved
                              /\ x.resolved[Target(d)].rev > 0
           Thin(d) == sup.batch = "late" /\ Target(d) \in DOMAIN sup.probes
           failed(x) == {d \in left : ~HasRecord(x, d) /\ ~Thin(d) /\ d \notin sup.unavailable}
           records(x) == {Target(d) : d \in {e \in left : HasRecord(x, e)}}
           answer(x) == [aliases |-> sup.aliases, skipped |-> sup.skipped, records |-> records(x), failed |-> failed(x),
                         unresolved |-> {d \in failed(x) : Target(d) \notin DOMAIN sup.probes}]
<1>1. PICK lost \in SUBSET requested :
         LET x == ResolveMembers(ex, members, supplied, lost)
         IN  /\ ex' = [x EXCEPT !.types = Observe(@, [d \in records(x) |-> x.resolved[d].type]),
                                !.used = @ \cup records(x)]
             /\ results' = [results EXCEPT ![sup.batch] = answer(x)]
             /\ Sees(HydratedFrom(requested, lost))
    BY DEF Settle
<1>2. /\ stage = "resolve" /\ stage' = IF sup.batch = "early" THEN "match" ELSE "evidence"
      /\ sup' = NoSup
      /\ UNCHANGED <<live, aliased, openalex, crossref, held, state, manifest, sets>>
    BY DEF Settle, world
<1>3. /\ sup \in Supplements /\ sup.batch \in {"early", "late"}
      /\ DOMAIN sup.probes \subseteq DOIs /\ \A d \in DOMAIN sup.probes : sup.probes[d] \in Nat
      /\ \A d \in DOMAIN sup.targets : sup.targets[d] \in DOIs
      /\ \A d \in DOMAIN sup.supplied : sup.supplied[d] \in Records
    BY <1>2, MapFx DEF BooksInv, EvidenceTypes, Supplements, AskedOnce, Asking
<1>4. wanted \subseteq DOIs /\ wanted \subseteq DOMAIN sup.probes
    BY <1>3
<1>5. left \subseteq DOIs /\ \A d \in left : Target(d) \in DOIs
    BY <1>3 DEF Target, Supplements
<1> HIDE DEF wanted, left
<1>6. members \in Maps(Nat) /\ DOMAIN members = wanted /\ \A d \in wanted : members[d] = sup.probes[d]
    BY <1>3, <1>4, IsMap
<1>7. supplied \in Maps(Records)
  <2>1. /\ DOMAIN sup.supplied \cap wanted \in SUBSET DOIs
        /\ \A d \in DOMAIN sup.supplied \cap wanted : sup.supplied[d] \in Records
    BY <1>3, <1>4
  <2> QED
    BY <2>1, IsMap
<1> HIDE DEF members, supplied, requested
<1> DEFINE y == ResolveMembers(ex, members, supplied, lost)
           kinds == [d \in records(y) |-> y.resolved[d].type]
<1>8. y \in Retrievals /\ y.discovered = ex.discovered
    BY <1>6, <1>7, ResolveFx DEF requested, BooksInv, EvidenceTypes
<1>9. /\ ex' = [y EXCEPT !.types = Observe(@, kinds), !.used = @ \cup records(y)]
      /\ results' = [results EXCEPT ![sup.batch] = answer(y)]
      /\ Sees(HydratedFrom(requested, lost))
    BY <1>1
<1> HIDE DEF y
<1>10. /\ records(y) \subseteq DOIs /\ records(y) \subseteq DOMAIN y.resolved /\ failed(y) \subseteq DOIs
    BY <1>5
<1> HIDE DEF HasRecord, Thin, failed, records
<1>11. Observe(y.types, kinds) \in [DOIs -> [kind : TypeKinds, conflict : BOOLEAN]]
  <2>1. \A d \in records(y) : y.resolved[d].type \in TypeKinds
    BY <1>8, <1>10, MapFx, RecordFx DEF Retrievals
  <2>2. kinds \in Maps(TypeKinds)
    BY <1>10, <2>1, IsMap
  <2> HIDE DEF kinds
  <2> QED
    BY <1>8, <2>2, ObserveFx DEF Retrievals
<1> HIDE DEF kinds
<1>12. /\ ex' \in Retrievals /\ ex'.resolved = y.resolved /\ ex'.revs = y.revs /\ ex'.class = y.class
       /\ ex'.pending = y.pending /\ ex'.discovered = ex.discovered
    BY <1>8, <1>9, <1>10, <1>11 DEF Retrievals
<1>13. results' \in [early : Replies, late : Replies]
  <2>1. answer(y) \in Replies
    BY <1>3, <1>10 DEF Replies, Supplements
  <2> HIDE DEF answer
  <2>2. results \in [early : Replies, late : Replies]
    BY DEF BooksInv, EvidenceTypes
  <2>3. CASE sup.batch = "early"
    BY <1>9, <2>1, <2>2, <2>3
  <2>4. CASE sup.batch = "late"
    BY <1>9, <2>1, <2>2, <2>4
  <2> QED
    BY <1>3, <2>3, <2>4
<1>14. \A d \in DOMAIN members \ DOMAIN ex.resolved :
          (\A r \in observed[d] : r <= members[d]) /\ members[d] \in observed[d] \cup {0}
    BY <1>4, <1>6 DEF BooksInv, RevisionsAreSeen
<1>15. DOMAIN sup'.probes = {} /\ sup'.anchors = {} /\ sup' \in Supplements
    BY <1>2, NoMap DEF NoSup, Supplements
<1>16. /\ observed' \in [DOIs -> SUBSET Nat] /\ Booked(ex)' /\ RevisionsAreSeen'
    BY <1>2, <1>6, <1>7, <1>9, <1>12, <1>14, <1>15, ResolveBooks DEF y, requested
<1>17. EvidenceTypes'
    BY <1>2, <1>12, <1>13, <1>15, <1>16 DEF BooksInv, EvidenceTypes, Stages
<1>18. AskedOnce'
    BY <1>2, <1>12, <1>15 DEF BooksInv, AskedOnce, Begun, Asking
<1> QED
    BY <1>16, <1>17, <1>18 DEF BooksInv

LEMMA BooksStep == ASSUME BooksInv, [PipelineNext]_pipelineVars PROVE BooksInv'
<1>1. CASE UNCHANGED pipelineVars
    BY <1>1 DEF pipelineVars, BooksInv, EvidenceTypes, Booked, RevisionsAreSeen, AskedOnce, IsReused, Begun, Asking
<1>2. ASSUME NEW d \in DOIs, Reindex(d) PROVE BooksInv'
    BY <1>2, ReindexBooks
<1>3. CASE Discover \/ Select \/ Hydrate \/ Early \/ Late \/ Singletons \/ Primes \/ Settle \/ Match \/ Evidence
    BY <1>3, DiscoverBooks, SelectBooks, HydrateBooks, EarlyBooks, LateBooks, SingletonsBooks, PrimesBooks, SettleBooks,
       MatchBooks, EvidenceBooks
<1> QED
    BY <1>1, <1>2, <1>3 DEF PipelineNext

\* A run never persists a row that is not the record it fetched, and never reuses a row Crossref
\* did not confirm at exactly that revision (_resolve in application/crossref_retrieval.py).
THEOREM RetrievalIsCurrent == PipelineSpec => []StateIsCurrent
<1>1. BooksInv => StateIsCurrent
  <2> SUFFICES ASSUME BooksInv PROVE StateIsCurrent
    OBVIOUS
  <2>1. DOMAIN ex.class \subseteq DOIs
    BY MapFx DEF BooksInv, EvidenceTypes, Retrievals
  <2> QED
    BY <2>1 DEF BooksInv, Booked, RevisionsAreSeen, IsReused, StateIsCurrent
<1>2. BooksInv /\ [PipelineNext]_pipelineVars => BooksInv'
    BY BooksStep
<1> QED
    BY <1>1, <1>2, InitBooks, PTL DEF PipelineSpec

-----------------------------------------------------------------------------
(***************************************************************************)
(* The inductive invariant behind NothingVanishes.  An exclusion (a DOI    *)
(* Crossref calls a journal issue) must stand once it was the reason to    *)
(* skip a DOI; it is taken back only by a dispute, and then the DOI is     *)
(* the prime of an alias (Witness) that keeps the paper in its place.      *)
(***************************************************************************)
InLate == Asking /\ sup.batch = "late"
Matched == stage \in {"late", "evidence", "done"} \/ InLate
EarlyBack == stage = "match" \/ Matched
LateBack == stage \in {"evidence", "done"}

\* The DOIs whose type is settled once the early batch has been asked for.
First == DOMAIN manifest \cup EarlyRequested
TrueDoi(d) == IF IsAlias(d) THEN Prime ELSE d

\* The alias whose redirect the early batch followed: it is retained under the prime.
Witness == /\ Alias \in DOMAIN results.early.aliases
           /\ Alias \notin results.early.skipped \cup results.early.unresolved

\* A DOI that redirects has no record of its own, and its prime stands for it.
AliasesAreTrue ==
    /\ aliased => /\ live[Alias].rev = 0
                  /\ Alias \notin DOMAIN manifest \cup DOMAIN ex.resolved \cup DOMAIN sup.probes
    /\ \A d \in DOMAIN sup.aliases \cup DOMAIN results.early.aliases \cup DOMAIN results.late.aliases : IsAlias(d)
    /\ \A d \in DOMAIN sup.targets : sup.targets[d] = TrueDoi(d) /\ (IsAlias(d) => d \in DOMAIN sup.aliases)
    /\ \A d \in results.early.skipped : IsAlias(d) => d \in DOMAIN results.early.aliases
    /\ \A d \in results.late.skipped : IsAlias(d) => d \in DOMAIN results.late.aliases

\* No DOI is asked for in both batches, and the results are about what was asked for.
AskedInOrder ==
    /\ sup.anchors \subseteq sets.oa
    /\ Asking /\ ~InLate => sup.anchors \subseteq EarlyRequested
    /\ InLate => sup.anchors \cap EarlyRequested = {} /\ sup.anchors \subseteq sets.matched
    /\ DOMAIN sup.aliases \subseteq DOMAIN sup.targets /\ DOMAIN sup.targets \subseteq sup.anchors
    /\ sup.skipped \subseteq DOMAIN sup.targets
    /\ stage = "singletons" => DOMAIN sup.probes \subseteq sup.anchors
    /\ DOMAIN results.early.aliases \cup results.early.skipped \cup results.early.failed \subseteq EarlyRequested
    /\ (DOMAIN results.late.aliases \cup results.late.skipped \cup results.late.failed) \cap EarlyRequested = {}
    /\ results.early.unresolved \subseteq results.early.failed
    /\ results.late.unresolved \subseteq results.late.failed
    /\ ~EarlyBack => results.early = NothingBack
    /\ ~LateBack => results.late = NothingBack

ExclusionStands ==
    /\ stage \in {"manifest", "select", "hydrate", "early"} => Excluded(ex) \subseteq DOMAIN manifest
    /\ stage \in {"match", "late"} => \A d \in Excluded(ex) \ First : d = Prime /\ Witness
    /\ stage = "singletons" =>
          \A d \in Excluded(ex) : \/ d \in DOMAIN manifest \cup DOMAIN sup.probes
                                  \/ InLate /\ (d \in EarlyRequested \/ (d = Prime /\ Witness))
    /\ stage = "primes" =>
          /\ \A d \in DOMAIN sup.targets : d \in sup.skipped <=> ~ShouldProcess(ex, sup.targets[d])
          /\ \A d \in DOMAIN sup.supplied \cap Excluded(ex) : InLate /\ d = Prime /\ Witness
          /\ DOMAIN sup.supplied \subseteq sup.anchors
          /\ ~InLate => Excluded(ex) \subseteq First
    /\ stage = "resolve" =>
          /\ InLate => \A d \in sup.skipped : \/ ~ShouldProcess(ex, sup.targets[d])
                                              \/ sup.targets[d] = Prime /\ Witness
          /\ ~InLate => /\ \A d \in Excluded(ex) \ First : /\ d = Prime /\ Prime \in DOMAIN sup.probes
                                                           /\ Alias \in DOMAIN sup.aliases \ sup.skipped
                        /\ \A d \in sup.skipped : sup.targets[d] \in held \cup (Excluded(ex) \cap First)
    /\ \A d \in results.early.skipped : TrueDoi(d) \in held \cup (Excluded(ex) \cap First)
    /\ \A d \in results.late.skipped : \/ TrueDoi(d) \in held \cup Excluded(ex) \cup sets.rejected
                                       \/ TrueDoi(d) = Prime /\ Witness

IsHit(d) == openalex[d] \in {"hit", "hit_thin"}

\* A record the early batch brought is the final DOI of a DOI it was asked for, and that one stays.
RecordsAreAnchored ==
    \A d \in results.early.records :
        /\ ~IsAlias(d)
        /\ \E e \in EarlyRequested \ (results.early.skipped \cup results.early.unresolved) :
              FinalDoi(results.early.aliases, e) = d

FoundStands ==
    /\ sets.hydrated \subseteq DOMAIN manifest \cap sets.metadata
    /\ stage \in {"manifest", "select"} => sets.oa = {} /\ sets.hydrated = {}
    /\ RecordsAreAnchored
    /\ ~Matched => \A d \in sets.oa : IsHit(d) => d \in sets.matched
    /\ Matched =>
          /\ \A d \in sets.oa : IsHit(d) => FinalDoi(results.early.aliases, d) \in sets.matched
          /\ sets.matched \cap sets.rejected = {}
          /\ (sets.hydrated \cup results.early.records) \cap crossref \subseteq sets.matched \cup Excluded(ex)

FindsInv == BooksInv /\ AliasesAreTrue /\ AskedInOrder /\ ExclusionStands /\ FoundStands

LEMMA ObserveAt ==
    ASSUME NEW types, NEW kinds
    PROVE  \A d \in DOIs \ DOMAIN kinds : Observe(types, kinds)[d] = types[d]
BY DEF Observe

\* An alias has one final DOI, its prime, and any other DOI is final.
LEMMA FinalAt ==
    ASSUME NEW aliases \in Maps({Prime}), \A d \in DOMAIN aliases : IsAlias(d)
    PROVE  /\ \A d \in DOMAIN aliases : d = Alias /\ FinalDoi(aliases, d) = Prime
           /\ \A d : d \notin DOMAIN aliases => FinalDoi(aliases, d) = d
           /\ \A d : ~IsAlias(d) => FinalDoi(aliases, d) = d
           /\ FinalDoi(aliases, Prime) = Prime /\ Prime \notin DOMAIN aliases
<1>1. \A d \in DOMAIN aliases : aliases[d] = Prime
    BY MapFx
<1>2. Prime \notin DOMAIN aliases
    BY PipelineAssumption DEF IsAlias
<1> QED
    BY <1>1, <1>2 DEF FinalDoi, IsAlias

LEMMA FindsTypes ==
    ASSUME FindsInv
    PROVE  /\ results.early \in Replies /\ results.late \in Replies /\ Both.aliases \in Maps({Prime})
           /\ results.early.aliases \in Maps({Prime}) /\ results.late.aliases \in Maps({Prime}) /\ sets \in DoiSets
           /\ DOMAIN Both.aliases = DOMAIN results.early.aliases \cup DOMAIN results.late.aliases
           /\ \A d \in DOMAIN Both.aliases : IsAlias(d)
           /\ Both.skipped = results.early.skipped \cup results.late.skipped
           /\ Both.unresolved = results.early.unresolved \cup results.late.unresolved
           /\ Both.failed = results.early.failed \cup results.late.failed
<1>1. results \in [early : Replies, late : Replies] /\ sets \in DoiSets
    BY DEF FindsInv, BooksInv, EvidenceTypes
<1>2. results.early \in Replies /\ results.late \in Replies
    BY <1>1
<1> QED
    BY <1>1, <1>2, BothFx DEF FindsInv, AliasesAreTrue, Replies

\* What the last stage computes keeps every find.
LEMMA FindsAtEnd == ASSUME FindsInv, Evidence PROVE FindsAreKept' /\ OneIdentity'
<1> DEFINE A == Both.aliases
           E == results.early
           L == results.late
           retained == {d \in sets.oa : FinalDoi(E.aliases, d) \in sets.matched}
           records == sets.hydrated \cup E.records \cup L.records
           kept == Kept(retained, records, A, Both)
           evidence == {d \in kept \cap (Finals(A, sets.matched) \ sets.rejected) : NeedsMetadata(ex, d)}
<1>1. /\ stage = "evidence" /\ sets' = [sets EXCEPT !.evidence = evidence]
      /\ UNCHANGED <<openalex, crossref, held, ex, results>>
    BY DEF Evidence, world
<1>2. /\ sets'.evidence = evidence /\ sets'.oa = sets.oa /\ sets'.rejected = sets.rejected
      /\ sets'.hydrated = sets.hydrated /\ sets'.metadata = sets.metadata
    BY <1>1, FindsTypes DEF DoiSets
<1>3. Both' = Both /\ Excluded(ex)' = Excluded(ex)
    BY <1>1 DEF Both, Excluded
<1>4. /\ AliasesAreTrue /\ AskedInOrder /\ ExclusionStands /\ FoundStands /\ Matched
    BY <1>1 DEF FindsInv, Matched
<1>5. /\ \A d \in DOMAIN A : d = Alias /\ FinalDoi(A, d) = Prime
      /\ \A d : d \notin DOMAIN A => FinalDoi(A, d) = d
      /\ \A d : ~IsAlias(d) => FinalDoi(A, d) = d
      /\ FinalDoi(A, Prime) = Prime /\ Prime \notin DOMAIN A
    BY FindsTypes, FinalAt
<1>6. /\ \A d \in DOMAIN E.aliases : d = Alias /\ FinalDoi(E.aliases, d) = Prime
      /\ \A d : d \notin DOMAIN E.aliases => FinalDoi(E.aliases, d) = d
      /\ FinalDoi(E.aliases, Prime) = Prime
    BY <1>4, FindsTypes, FinalAt DEF AliasesAreTrue
<1>7. DOMAIN A = DOMAIN E.aliases \cup DOMAIN L.aliases /\ \A d \in DOMAIN A : IsAlias(d)
    BY FindsTypes
<1>8. /\ Both.skipped = E.skipped \cup L.skipped /\ Both.unresolved = E.unresolved \cup L.unresolved
      /\ Both.failed = E.failed \cup L.failed
    BY FindsTypes
<1>9. sets.matched \subseteq DOIs /\ sets.oa \subseteq DOIs
    BY FindsTypes DEF DoiSets
<1> HIDE DEF A, E, L
<1>10. \A d \in retained : d \notin Both.skipped \cup Both.unresolved /\ FinalDoi(A, d) \notin Excluded(ex) => FinalDoi(A, d) \in kept
    BY DEF Kept, Finals
<1>11. \A d \in records \cap DOMAIN manifest : d \notin Excluded(ex) => d \in kept
    BY DEF Kept
<1>12. \A d \in sets.matched : FinalDoi(A, d) \in Finals(A, sets.matched)
    BY DEF Finals
<1> HIDE DEF kept, records
<1>14. \A d \in sets.matched : /\ FinalDoi(A, d) \in kept
                               /\ FinalDoi(A, d) \notin sets.rejected \cup held \cup Excluded(ex)
                               => FinalDoi(A, d) \in evidence
    BY <1>12 DEF NeedsMetadata
<1>15. \A d \in evidence : d \notin Excluded(ex) \cup held /\ d \in Finals(A, sets.matched)
    BY DEF NeedsMetadata
<1> HIDE DEF evidence
<1>16. ASSUME NEW e \in sets.oa, IsHit(e),
              FinalDoi(A, e) \notin held \cup Excluded(ex) \cup sets.rejected, e \notin Both.failed
       PROVE  FinalDoi(A, e) \in evidence
  <2>1. FinalDoi(E.aliases, e) \in sets.matched /\ e \in retained
    BY <1>4, <1>16 DEF FoundStands, E
  <2>2. FinalDoi(A, FinalDoi(E.aliases, e)) = FinalDoi(A, e)
    BY <1>5, <1>6, <1>7
  <2>3. e \notin Both.unresolved
    BY <1>4, <1>8, <1>16 DEF AskedInOrder, E, L
  <2>4. ASSUME e \in Both.skipped PROVE FinalDoi(A, e) = TrueDoi(e)
    BY <1>4, <1>5, <1>7, <1>8, <2>4 DEF AliasesAreTrue, TrueDoi, E, L
  <2>5. e \notin E.skipped
    BY <1>4, <1>8, <1>16, <2>4 DEF ExclusionStands, E
  <2>6. CASE e \notin L.skipped
    <3>1. FinalDoi(A, e) \in kept
      BY <1>8, <1>10, <1>16, <2>1, <2>3, <2>5, <2>6
    <3> QED
      BY <1>14, <1>16, <2>1, <2>2, <3>1
  <2>7. CASE e \in L.skipped
    <3>1. TrueDoi(e) = FinalDoi(A, e) /\ FinalDoi(A, e) = Prime /\ Witness
      BY <1>4, <1>8, <1>16, <2>4, <2>7 DEF ExclusionStands, L
    <3>2. Alias \in EarlyRequested /\ Alias \in sets.oa /\ Alias \in DOMAIN E.aliases
      BY <1>4, <3>1 DEF Witness, AskedInOrder, EarlyRequested, E
    <3>3. e = Prime
      BY <1>4, <2>7, <3>1, <3>2 DEF TrueDoi, IsAlias, AskedInOrder, L
    <3>4. Prime \in sets.matched
      BY <1>6, <2>1, <3>3
    <3>5. Alias \notin Both.skipped \cup Both.unresolved
      BY <1>4, <1>8, <3>1, <3>2 DEF Witness, AskedInOrder, E, L
    <3>6. Alias \in retained /\ FinalDoi(A, Alias) = Prime
      BY <1>5, <1>6, <1>7, <3>2, <3>4
    <3>7. Prime \in kept
      BY <1>10, <1>16, <3>1, <3>5, <3>6
    <3> QED
      BY <1>5, <1>14, <1>16, <3>1, <3>4, <3>7
  <2> QED
    BY <2>6, <2>7
<1>17. ASSUME NEW d \in (sets.hydrated \cup E.records) \cap crossref, d \notin held \cup Excluded(ex)
       PROVE  d \in evidence
  <2>1. d \in sets.matched /\ d \notin sets.rejected
    BY <1>4, <1>17 DEF FoundStands, E
  <2>2. CASE d \in sets.hydrated
    <3>1. d \in DOMAIN manifest
      BY <1>4, <2>2 DEF FoundStands
    <3>2. ~IsAlias(d)
      BY <1>4, <3>1 DEF AliasesAreTrue, IsAlias
    <3>3. d \in kept
      BY <1>11, <1>17, <2>2, <3>1 DEF records
    <3> QED
      BY <1>5, <1>14, <1>17, <2>1, <3>2, <3>3
  <2>3. CASE d \in E.records
    <3>1. PICK e \in EarlyRequested \ (E.skipped \cup E.unresolved) : FinalDoi(E.aliases, e) = d
      BY <1>4, <2>3 DEF FoundStands, RecordsAreAnchored, E
    <3>2. ~IsAlias(d)
      BY <1>4, <2>3 DEF FoundStands, RecordsAreAnchored, E
    <3>3. e \in retained
      BY <2>1, <3>1 DEF EarlyRequested
    <3>4. e \notin Both.skipped \cup Both.unresolved
      BY <1>4, <1>8, <3>1 DEF AskedInOrder, L
    <3>5. FinalDoi(A, e) = d
      BY <1>4, <1>5, <1>6, <1>7, <3>1 DEF AskedInOrder, L
    <3>6. d \in kept
      BY <1>10, <1>17, <3>3, <3>4, <3>5
    <3> QED
      BY <1>5, <1>14, <1>17, <2>1, <3>2, <3>6
  <2> QED
    BY <1>17, <2>2, <2>3
<1>18. FindsAreKept'
  <2>1. \A e \in {d \in sets.oa : IsHit(d)} :
           \/ FinalDoi(A, e) \in evidence \cup held \cup Excluded(ex) \cup sets.rejected
           \/ e \in Both.failed
    BY <1>16
  <2>2. (sets.hydrated \cup E.records) \cap crossref \subseteq evidence \cup held \cup Excluded(ex)
    BY <1>17
  <2> QED
    BY <1>1, <1>2, <1>3, <2>1, <2>2 DEF FindsAreKept, IsHit, A, E
<1>19. OneIdentity'
  <2>1. \A d \in evidence : d \notin DOMAIN A
    BY <1>5, <1>15 DEF Finals
  <2> QED
    BY <1>1, <1>2, <1>3, <1>15, <2>1 DEF OneIdentity, A
<1> QED
    BY <1>18, <1>19

LEMMA InitFinds == PipelineInit => FindsInv
<1> SUFFICES ASSUME PipelineInit PROVE FindsInv
    OBVIOUS
<1>1. /\ stage = "manifest" /\ sup = NoSup /\ results.early = NothingBack /\ results.late = NothingBack
      /\ sets.oa = {} /\ sets.hydrated = {} /\ manifest = <<>> /\ ex.resolved = <<>> /\ DOMAIN <<>> = {}
    BY NoMap DEF PipelineInit
<1>2. Excluded(ex) = {}
    BY DEF PipelineInit, Excluded
<1>3. aliased => live[Alias].rev = 0
    BY DEF PipelineInit, NoRecord
<1>4. AliasesAreTrue
    BY <1>1, <1>3 DEF AliasesAreTrue, NoSup, NothingBack
<1>5. AskedInOrder
    BY <1>1 DEF AskedInOrder, NoSup, NothingBack, Asking, InLate, EarlyBack, LateBack, Matched
<1>6. ExclusionStands
    BY <1>1, <1>2 DEF ExclusionStands, NothingBack
<1>7. FoundStands
    BY <1>1 DEF FoundStands, RecordsAreAnchored, NothingBack, Matched, InLate, Asking
<1> QED
    BY <1>4, <1>5, <1>6, <1>7, InitBooks DEF FindsInv

\* What is excluded changes only with what Crossref is asked.
LEMMA ExcludedFx ==
    ASSUME NEW types, NEW kinds, ex'.types = Observe(types, kinds), types = ex.types
    PROVE  \A d \in DOIs \ DOMAIN kinds : d \in Excluded(ex)' <=> d \in Excluded(ex)
BY ObserveAt DEF Excluded

LEMMA ReindexFinds == ASSUME FindsInv, NEW d \in DOIs, Reindex(d) PROVE FindsInv'
<1>1. UNCHANGED <<aliased, openalex, crossref, held, state, ex, manifest, stage, sup, sets, results, observed>>
    BY DEF Reindex
<1>2. aliased => live'[Alias].rev = 0
  <2> SUFFICES ASSUME aliased PROVE live'[Alias].rev = 0
    OBVIOUS
  <2>1. live[Alias].rev = 0 /\ live[d].rev > 0
    BY DEF FindsInv, AliasesAreTrue, Reindex, Exists
  <2>2. d # Alias
    BY <2>1
  <2> QED
    BY <2>1, <2>2, PipelineAssumption DEF Reindex, FindsInv, BooksInv, EvidenceTypes
<1>3. Excluded(ex)' = Excluded(ex)
    BY <1>1 DEF Excluded
<1>4. AliasesAreTrue'
    BY <1>1, <1>2 DEF FindsInv, AliasesAreTrue, TrueDoi, IsAlias
<1>5. AskedInOrder'
    BY <1>1 DEF FindsInv, AskedInOrder, EarlyRequested, Asking, InLate, EarlyBack, LateBack, Matched
<1>6. ExclusionStands'
    BY <1>1, <1>3 DEF FindsInv, ExclusionStands, First, EarlyRequested, Witness, TrueDoi, IsAlias, InLate, Asking,
       ShouldProcess, NeedsMetadata
<1>7. FoundStands'
    BY <1>1, <1>3 DEF FindsInv, FoundStands, RecordsAreAnchored, IsAlias, Matched, InLate, Asking, IsHit, EarlyRequested
<1> QED
    BY <1>4, <1>5, <1>6, <1>7, ReindexBooks DEF FindsInv

LEMMA DiscoverFinds == ASSUME FindsInv, Discover PROVE FindsInv'
<1>1. PICK members \in SUBSET {d \in DOIs : Exists(d)} : \E torn \in SUBSET members :
          /\ manifest' = [d \in members |-> IF d \in torn THEN 0 ELSE live[d].rev]
          /\ ex' = [ex EXCEPT !.types = Observe(@, [d \in members |-> live[d].type])]
          /\ Sees(manifest')
    BY DEF Discover
<1>2. /\ stage = "manifest" /\ stage' = "select"
      /\ UNCHANGED <<live, aliased, openalex, crossref, held, state, sup, sets, results>>
    BY DEF Discover, world
<1>3. /\ DOMAIN manifest' = members /\ DOMAIN manifest = {} /\ sup = NoSup /\ sets.oa = {} /\ sets.hydrated = {}
      /\ results.early = NothingBack /\ results.late = NothingBack /\ DOMAIN ex.resolved = {} /\ DOMAIN <<>> = {}
      /\ Excluded(ex) = {}
    BY <1>1, <1>2, NoMap DEF FindsInv, BooksInv, RevisionsAreSeen, AskedOnce, Asking, Begun, FoundStands, AskedInOrder,
       EarlyBack, LateBack, Matched, InLate, ExclusionStands
<1>4. ex'.resolved = ex.resolved /\ ex'.types = Observe(ex.types, [d \in members |-> live[d].type])
    BY <1>1 DEF FindsInv, BooksInv, EvidenceTypes, Retrievals
<1>5. Excluded(ex)' \subseteq members
    BY <1>3, <1>4, ExcludedFx DEF Excluded
<1>6. AliasesAreTrue'
    BY <1>2, <1>3, <1>4 DEF FindsInv, AliasesAreTrue, NoSup, NothingBack, Exists, IsAlias
<1>7. AskedInOrder'
    BY <1>2, <1>3 DEF AskedInOrder, NoSup, NothingBack, Asking, InLate, EarlyBack, LateBack, Matched
<1>8. ExclusionStands'
    BY <1>2, <1>3, <1>5 DEF ExclusionStands, NothingBack
<1>9. FoundStands'
    BY <1>2, <1>3 DEF FoundStands, RecordsAreAnchored, NothingBack, Matched, InLate, Asking
<1> QED
    BY <1>6, <1>7, <1>8, <1>9, DiscoverBooks DEF FindsInv

LEMMA SelectFinds == ASSUME FindsInv, Select PROVE FindsInv'
<1>1. /\ stage = "select" /\ stage' = "hydrate"
      /\ UNCHANGED <<live, aliased, openalex, crossref, held, state, ex, manifest, sup, results, observed>>
    BY DEF Select, world
<1>2. /\ sup = NoSup /\ results.early = NothingBack /\ results.late = NothingBack /\ DOMAIN <<>> = {}
      /\ Excluded(ex)' \subseteq DOMAIN manifest
    BY <1>1, NoMap DEF FindsInv, BooksInv, AskedOnce, Asking, AskedInOrder, EarlyBack, LateBack, Matched, InLate,
       ExclusionStands, Excluded
<1>3. sets'.hydrated = {} /\ \A d \in sets'.oa : IsHit(d) => d \in sets'.matched
  <2>1. sets.hydrated = {}
    BY <1>1 DEF FindsInv, FoundStands
  <2> QED
    BY <2>1, FindsTypes DEF Select, DoiSets, IsHit
<1>4. AliasesAreTrue'
    BY <1>1, <1>2 DEF FindsInv, AliasesAreTrue, NoSup, NothingBack, IsAlias
<1>5. AskedInOrder'
    BY <1>1, <1>2 DEF AskedInOrder, NoSup, NothingBack, Asking, InLate, EarlyBack, LateBack, Matched
<1>6. ExclusionStands'
    BY <1>1, <1>2 DEF ExclusionStands, NothingBack
<1>7. FoundStands'
    BY <1>1, <1>2, <1>3 DEF FoundStands, RecordsAreAnchored, NothingBack, Matched, InLate, Asking, IsHit
<1> QED
    BY <1>4, <1>5, <1>6, <1>7, SelectBooks DEF FindsInv

LEMMA HydrateFinds == ASSUME FindsInv, Hydrate PROVE FindsInv'
<1> DEFINE dois == (sets.selected \cap sets.metadata) \ Excluded(ex)
           members == [d \in dois |-> manifest[d]]
           requested == Requested(ex, members, <<>>)
           y(lost) == ResolveMembers(ex, members, <<>>, lost)
<1>1. PICK lost \in SUBSET requested :
         /\ ex' = [y(lost) EXCEPT !.discovered = DOMAIN manifest,
                                  !.types = Observe(@, [d \in dois |-> y(lost).resolved[d].type]),
                                  !.used = {d \in dois : y(lost).resolved[d].rev > 0}]
         /\ sets' = [sets EXCEPT !.hydrated = {d \in dois : y(lost).resolved[d].rev > 0}]
    BY DEF Hydrate
<1>2. /\ stage = "hydrate" /\ stage' = "early"
      /\ UNCHANGED <<live, aliased, openalex, crossref, held, state, manifest, sup, results>>
    BY DEF Hydrate, world
<1>3. dois \subseteq DOMAIN manifest /\ dois \subseteq DOIs /\ \A d \in dois : manifest[d] \in Nat
    BY <1>2, MapFx DEF FindsInv, BooksInv, EvidenceTypes, AskedOnce, DoiSets
<1>4. /\ sup = NoSup /\ results.early = NothingBack /\ results.late = NothingBack /\ DOMAIN <<>> = {}
      /\ Excluded(ex) \subseteq DOMAIN manifest
    BY <1>2, NoMap DEF FindsInv, BooksInv, AskedOnce, Asking, AskedInOrder, EarlyBack, LateBack, Matched, InLate,
       ExclusionStands
<1>5. /\ y(lost) \in Retrievals /\ y(lost).types = ex.types
      /\ DOMAIN y(lost).resolved = DOMAIN ex.resolved \cup dois
  <2>1. members \in Maps(Nat) /\ DOMAIN members = dois
    <3> HIDE DEF dois
    <3> QED
      BY <1>3, IsMap
  <2> HIDE DEF members
  <2> QED
    BY <2>1, NoMap, ResolveFx DEF FindsInv, BooksInv, EvidenceTypes
<1> HIDE DEF y, dois
<1>6. /\ ex'.types = Observe(ex.types, [d \in dois |-> y(lost).resolved[d].type])
      /\ DOMAIN ex'.resolved = DOMAIN ex.resolved \cup dois
    BY <1>1, <1>5 DEF Retrievals
<1>7. Excluded(ex)' \subseteq DOMAIN manifest
    BY <1>3, <1>4, <1>6, ExcludedFx DEF Excluded
<1>8. /\ sets'.hydrated \subseteq dois /\ dois \subseteq sets.metadata /\ sets'.oa = sets.oa /\ sets'.matched = sets.matched
      /\ sets'.metadata = sets.metadata /\ sets'.selected = sets.selected
    BY <1>1, FindsTypes DEF DoiSets, dois
<1>9. AliasesAreTrue'
    BY <1>2, <1>3, <1>4, <1>6 DEF FindsInv, AliasesAreTrue, NoSup, NothingBack, IsAlias
<1>10. AskedInOrder'
    BY <1>2, <1>4 DEF AskedInOrder, NoSup, NothingBack, Asking, InLate, EarlyBack, LateBack, Matched
<1>11. ExclusionStands'
    BY <1>2, <1>4, <1>7 DEF ExclusionStands, NothingBack
<1>12. FoundStands'
    BY <1>2, <1>3, <1>4, <1>8 DEF FindsInv, FoundStands, RecordsAreAnchored, NothingBack, Matched, InLate, Asking, IsHit
<1> QED
    BY <1>9, <1>10, <1>11, <1>12, HydrateBooks DEF FindsInv

LEMMA MatchFinds == ASSUME FindsInv, Match PROVE FindsInv'
<1> DEFINE E == results.early
           evidence == Kept(sets.oa, sets.hydrated \cup E.records, E.aliases, E)
           hits == Finals(E.aliases, sets.matched)
           matched == hits \cup {d \in Finals(E.aliases, sets.metadata) \ hits : Found(d, evidence)}
<1>1. /\ stage = "match" /\ stage' = "late"
      /\ UNCHANGED <<live, aliased, openalex, crossref, held, state, ex, manifest, sup, results, observed>>
    BY DEF Match, world
<1>2. sets' = [sets EXCEPT !.matched = matched, !.rejected = Finals(E.aliases, sets.selected \cup sets.oa) \ matched]
    BY DEF Match
<1>3. /\ sets'.matched = matched /\ sets'.matched \cap sets'.rejected = {} /\ sets'.oa = sets.oa
      /\ sets'.metadata = sets.metadata /\ sets'.selected = sets.selected /\ sets'.hydrated = sets.hydrated
    BY <1>2, FindsTypes DEF DoiSets
<1>4. /\ sup = NoSup /\ results.late = NothingBack /\ DOMAIN <<>> = {} /\ Excluded(ex)' = Excluded(ex)
      /\ First' = First /\ EarlyRequested' = EarlyRequested
    BY <1>1, <1>3, NoMap DEF FindsInv, BooksInv, AskedOnce, Asking, AskedInOrder, LateBack, Excluded, First, EarlyRequested
<1>5. /\ AliasesAreTrue /\ AskedInOrder /\ ExclusionStands /\ FoundStands /\ ~Matched
    BY <1>1 DEF FindsInv, Matched, InLate, Asking
<1>6. \A d \in sets.oa : IsHit(d) => FinalDoi(E.aliases, d) \in matched
    BY <1>5 DEF FoundStands, Finals
<1>7. (sets.hydrated \cup E.records) \cap crossref \subseteq matched \cup Excluded(ex)
  <2> SUFFICES ASSUME NEW d \in (sets.hydrated \cup E.records) \cap crossref, d \notin Excluded(ex)
               PROVE  d \in matched
    OBVIOUS
  <2>1. d \in Finals(E.aliases, sets.metadata) /\ d \in evidence
    <3>1. CASE d \in sets.hydrated
      <4>1. d \in DOMAIN manifest /\ d \in sets.metadata /\ ~IsAlias(d)
        BY <1>5, <3>1 DEF FoundStands, AliasesAreTrue, IsAlias
      <4>2. FinalDoi(E.aliases, d) = d
        BY <1>5, <4>1 DEF AliasesAreTrue, FinalDoi
      <4> QED
        BY <3>1, <4>1, <4>2 DEF Finals, Kept
    <3>2. CASE d \in E.records
      <4>1. PICK e \in EarlyRequested \ (E.skipped \cup E.unresolved) : FinalDoi(E.aliases, e) = d
        BY <1>5, <3>2 DEF FoundStands, RecordsAreAnchored
      <4>2. e \in sets.oa /\ e \in sets.metadata
        BY <4>1 DEF EarlyRequested
      <4> QED
        BY <4>1, <4>2 DEF Finals, Kept
    <3> QED
      BY <3>1, <3>2
  <2>2. Found(d, evidence)
    BY <2>1 DEF Found
  <2> QED
    BY <2>1, <2>2
<1> HIDE DEF matched
<1>8. AliasesAreTrue'
    BY <1>1, <1>5 DEF AliasesAreTrue, IsAlias, TrueDoi
<1>9. AskedInOrder'
    BY <1>1, <1>3, <1>4, <1>5 DEF AskedInOrder, NoSup, NothingBack, Asking, InLate, EarlyBack, LateBack, Matched
<1>10. ExclusionStands'
    BY <1>1, <1>4, <1>5 DEF ExclusionStands, NothingBack, Witness, TrueDoi, IsAlias
<1>11. FoundStands'
    BY <1>1, <1>3, <1>4, <1>5, <1>6, <1>7 DEF FoundStands, RecordsAreAnchored, IsAlias, Matched, InLate, Asking, IsHit, FinalDoi
<1> QED
    BY <1>8, <1>9, <1>10, <1>11, MatchBooks DEF FindsInv

LEMMA EvidenceFinds == ASSUME FindsInv, Evidence PROVE FindsInv'
<1>1. /\ stage = "evidence" /\ stage' = "done"
      /\ UNCHANGED <<live, aliased, openalex, crossref, held, state, ex, manifest, sup, results, observed>>
    BY DEF Evidence, world
<1>2. /\ sets'.matched = sets.matched /\ sets'.rejected = sets.rejected /\ sets'.oa = sets.oa
      /\ sets'.metadata = sets.metadata /\ sets'.selected = sets.selected /\ sets'.hydrated = sets.hydrated
    BY FindsTypes DEF Evidence, DoiSets
<1>3. Excluded(ex)' = Excluded(ex) /\ First' = First /\ EarlyRequested' = EarlyRequested
    BY <1>1, <1>2 DEF Excluded, First, EarlyRequested
<1>4. /\ AliasesAreTrue /\ AskedInOrder /\ ExclusionStands /\ FoundStands
    BY DEF FindsInv
<1>5. AliasesAreTrue'
    BY <1>1, <1>4 DEF AliasesAreTrue, IsAlias, TrueDoi
<1>6. AskedInOrder'
    BY <1>1, <1>2, <1>3, <1>4 DEF AskedInOrder, Asking, InLate, EarlyBack, LateBack, Matched
<1>7. ExclusionStands'
    BY <1>1, <1>2, <1>3, <1>4 DEF ExclusionStands, Witness, TrueDoi, IsAlias
<1>8. FoundStands'
    BY <1>1, <1>2, <1>3, <1>4 DEF FoundStands, RecordsAreAnchored, IsAlias, Matched, InLate, Asking, IsHit, FinalDoi
<1> QED
    BY <1>5, <1>6, <1>7, <1>8, EvidenceBooks DEF FindsInv

LEMMA StartFinds ==
    ASSUME FindsInv, NEW records \in SUBSET sets.oa, NEW batch \in {"early", "late"}, Start(batch, records),
           \/ batch = "early" /\ stage = "early" /\ records = EarlyRequested
           \/ batch = "late" /\ stage = "late" /\ records \cap EarlyRequested = {} /\ records \subseteq sets.matched,
           stage' = "singletons", UNCHANGED <<live, aliased, openalex, crossref, held, state, manifest, sets, results>>,
           BooksInv'
    PROVE  FindsInv'
<1> DEFINE anchors == records \ ex.discovered
<1>1. PICK answered \in SUBSET Answerable(anchors) :
           /\ sup' = [NoSup EXCEPT !.batch = batch, !.anchors = anchors,
                        !.probes = [d \in Probed(anchors) \cup answered |->
                                      IF d \in answered THEN live[d].rev ELSE ex.revs[d]]]
           /\ ex' = [ex EXCEPT !.types = Observe(@, [d \in answered |-> live[d].type])]
    BY DEF Start
<1>2. /\ anchors \subseteq records /\ anchors \cap DOMAIN manifest = {} /\ answered \subseteq anchors
      /\ Probed(anchors) = anchors \cap DOMAIN ex.resolved /\ \A d \in answered : ~IsAlias(d)
    BY DEF FindsInv, BooksInv, AskedOnce, Begun, Answerable, Probed
<1> HIDE DEF anchors
<1>3. /\ sup'.batch = batch /\ sup'.anchors = anchors /\ sup'.aliases = <<>> /\ sup'.targets = <<>>
      /\ sup'.skipped = {} /\ sup'.supplied = <<>> /\ DOMAIN <<>> = {}
      /\ DOMAIN sup'.probes = (anchors \cap DOMAIN ex.resolved) \cup answered
    BY <1>1, <1>2, NoMap DEF NoSup
<1>4. ex'.resolved = ex.resolved /\ ex'.types = Observe(ex.types, [d \in answered |-> live[d].type])
    BY <1>1 DEF FindsInv, BooksInv, EvidenceTypes, Retrievals
<1>5. \A d \in DOIs \ answered : d \in Excluded(ex)' <=> d \in Excluded(ex)
    BY <1>4, ExcludedFx
<1>6. /\ AliasesAreTrue /\ AskedInOrder /\ ExclusionStands /\ FoundStands
      /\ Asking' /\ ~Asking /\ First' = First /\ EarlyRequested' = EarlyRequested /\ (InLate' <=> batch = "late")
    BY <1>3 DEF FindsInv, Asking, InLate, First, EarlyRequested
<1>7. /\ results.late = NothingBack /\ (batch = "early" => results.early = NothingBack)
    BY <1>6 DEF AskedInOrder, EarlyBack, LateBack, Matched, InLate, Asking
<1>8. /\ Excluded(ex) \subseteq DOIs /\ Excluded(ex)' \subseteq DOIs
    BY DEF Excluded
<1>9. AliasesAreTrue'
    BY <1>2, <1>3, <1>4, <1>6 DEF AliasesAreTrue, IsAlias, TrueDoi
<1>10. AskedInOrder'
    BY <1>2, <1>3, <1>6, <1>7 DEF AskedInOrder, EarlyBack, LateBack, Matched
<1>11. batch = "late" => answered \cap First = {}
    BY <1>2 DEF First
<1>12. Excluded(ex) \cap First \subseteq Excluded(ex)' \/ results.early = NothingBack
    BY <1>5, <1>7, <1>8, <1>11
<1>13. \A d \in Excluded(ex)' : \/ d \in DOMAIN manifest \cup DOMAIN sup'.probes
                                \/ batch = "late" /\ (d \in EarlyRequested \/ (d = Prime /\ Witness))
    BY <1>3, <1>5, <1>6, <1>8 DEF ExclusionStands, First
<1>14. Witness' <=> Witness
    BY DEF Witness
<1>15. ExclusionStands'
  <2>1. \A d \in results.early.skipped : TrueDoi(d)' \in held \cup (Excluded(ex)' \cap First)
    BY <1>6, <1>12 DEF ExclusionStands, TrueDoi, IsAlias, NothingBack
  <2> QED
    BY <1>6, <1>7, <1>13, <1>14, <2>1 DEF ExclusionStands, NothingBack
<1>16. FoundStands'
  <2>1. Matched' <=> Matched
    BY <1>6 DEF Matched, InLate, Asking
  <2>2. Matched => batch = "late"
    BY <1>6 DEF Matched, InLate
  <2>3. batch = "late" => Excluded(ex) \subseteq Excluded(ex)' \cup sets.matched
    BY <1>2, <1>5, <1>8
  <2>4. RecordsAreAnchored'
    BY <1>6 DEF FoundStands, RecordsAreAnchored, IsAlias
  <2> QED
    BY <1>6, <2>1, <2>2, <2>3, <2>4 DEF FoundStands, IsHit
<1> QED
    BY <1>9, <1>10, <1>15, <1>16 DEF FindsInv

LEMMA EarlyFinds == ASSUME FindsInv, Early PROVE FindsInv'
<1>1. EarlyRequested \in SUBSET sets.oa
    BY DEF EarlyRequested
<1>2. BooksInv'
    BY EarlyBooks DEF FindsInv
<1> QED
    BY <1>1, <1>2, StartFinds DEF Early, world

LEMMA LateFinds == ASSUME FindsInv, Late PROVE FindsInv'
<1>1. LateRequested \in SUBSET sets.oa /\ LateRequested \cap EarlyRequested = {} /\ LateRequested \subseteq sets.matched
    BY DEF LateRequested
<1>2. BooksInv'
    BY LateBooks DEF FindsInv
<1> QED
    BY <1>1, <1>2, StartFinds DEF Late, world

LEMMA SingletonsFinds == ASSUME FindsInv, Singletons PROVE FindsInv'
<1> DEFINE asked == sup.anchors \ DOMAIN sup.probes
<1>1. PICK answered \in SUBSET asked :
              LET prime == {d \in answered : IsAlias(d)}
                  gone == {d \in answered : ~Exists(d) /\ ~IsAlias(d)}
                  found == {d \in answered : Exists(d) /\ ~IsAlias(d)}
              IN  sup' = [sup EXCEPT !.unavailable = gone,
                               !.aliases = [d \in prime |-> Prime],
                               !.supplied = [d \in found |-> live[d]],
                               !.probes = Over(@, [d \in found |-> live[d].rev]),
                               !.targets = [d \in DOMAIN sup.probes \cup found \cup prime |->
                                              IF d \in prime THEN Prime ELSE d],
                               !.skipped = {d \in DOMAIN sup.probes \cup found \cup prime :
                                              ~ShouldProcess(ex, IF d \in prime THEN Prime ELSE d)}]
    BY DEF Singletons
<1> DEFINE prime == {d \in answered : IsAlias(d)}
           found == {d \in answered : Exists(d) /\ ~IsAlias(d)}
           all == DOMAIN sup.probes \cup found \cup prime
           revs == [d \in found |-> live[d].rev]
           targets == [d \in all |-> IF d \in prime THEN Prime ELSE d]
<1>2. /\ stage = "singletons" /\ stage' = "primes"
      /\ UNCHANGED <<live, aliased, openalex, crossref, held, state, ex, manifest, sets, results>>
    BY DEF Singletons, world
<1>3. /\ AliasesAreTrue /\ AskedInOrder /\ ExclusionStands /\ FoundStands /\ sup \in Supplements
      /\ sup.anchors \cap DOMAIN manifest = {} /\ DOMAIN sup.probes \subseteq sup.anchors
    BY <1>2 DEF FindsInv, BooksInv, EvidenceTypes, AskedOnce, AskedInOrder
<1>4. /\ sup'.batch = sup.batch /\ sup'.anchors = sup.anchors /\ DOMAIN sup'.aliases = prime
      /\ DOMAIN sup'.supplied = found /\ sup'.probes = Over(sup.probes, revs)
      /\ sup'.targets = targets /\ sup'.skipped = {d \in all : ~ShouldProcess(ex, targets[d])}
  <2>1. \A d \in all : targets[d] = IF d \in prime THEN Prime ELSE d
    OBVIOUS
  <2> HIDE DEF prime, found
  <2>2. sup'.skipped = {d \in all : ~ShouldProcess(ex, IF d \in prime THEN Prime ELSE d)}
    BY <1>1, <1>3 DEF Supplements, prime, found
  <2> HIDE DEF all, targets
  <2>3. sup'.skipped = {d \in all : ~ShouldProcess(ex, targets[d])}
    BY <2>1, <2>2
  <2> QED
    BY <1>1, <1>3, <2>3 DEF Supplements, prime, found, all, targets
<1>5. DOMAIN sup'.probes = DOMAIN sup.probes \cup found
  <2>1. DOMAIN Over(sup.probes, revs) = DOMAIN sup.probes \cup DOMAIN revs
    BY OverAt
  <2> QED
    BY <1>4, <2>1
<1>6. /\ prime \subseteq sup.anchors /\ found \subseteq sup.anchors \ DOMAIN sup.probes /\ all \subseteq sup.anchors
      /\ \A d \in prime : IsAlias(d) /\ d = Alias
      /\ \A d \in found : ~IsAlias(d)
    BY <1>3 DEF IsAlias
<1>7. /\ DOMAIN targets = all /\ prime \subseteq all
      /\ \A d \in all : targets[d] = TrueDoi(d) /\ (IsAlias(d) => d \in prime)
    BY <1>3, <1>6 DEF TrueDoi, AliasesAreTrue, IsAlias
<1> HIDE DEF prime, found, all, revs, targets
<1>8. /\ Asking /\ Asking' /\ First' = First /\ EarlyRequested' = EarlyRequested /\ (InLate' <=> InLate)
      /\ Excluded(ex)' = Excluded(ex) /\ (Witness' <=> Witness)
    BY <1>2, <1>4 DEF Asking, InLate, First, EarlyRequested, Excluded, Witness
<1>9. AliasesAreTrue'
    BY <1>2, <1>3, <1>4, <1>5, <1>6, <1>7 DEF AliasesAreTrue, IsAlias, TrueDoi
<1>10. AskedInOrder'
    BY <1>2, <1>3, <1>4, <1>5, <1>6, <1>7, <1>8 DEF AskedInOrder, EarlyBack, LateBack, Matched
<1>11. ExclusionStands'
  <2>1. \A d \in DOMAIN sup'.targets : d \in sup'.skipped <=> ~ShouldProcess(ex, sup'.targets[d])
    BY <1>4, <1>7
  <2>2. (\A d \in DOMAIN sup.targets : d \in sup.skipped <=> ~ShouldProcess(ex, sup.targets[d]))'
    BY <1>2, <1>4, <1>8, <2>1 DEF ShouldProcess, NeedsMetadata
  <2>3. \A d \in DOMAIN sup'.supplied \cap Excluded(ex) : InLate /\ d = Prime /\ Witness
    BY <1>2, <1>3, <1>4, <1>6 DEF ExclusionStands, AskedInOrder
  <2>4. ~InLate => Excluded(ex) \subseteq First
    BY <1>2, <1>3, <1>8 DEF ExclusionStands, AskedInOrder, First
  <2>5. DOMAIN sup'.supplied \subseteq sup'.anchors
    BY <1>4, <1>6
  <2>6. /\ \A d \in results.early.skipped : TrueDoi(d)' \in held \cup (Excluded(ex) \cap First)
        /\ \A d \in results.late.skipped : \/ TrueDoi(d)' \in held \cup Excluded(ex) \cup sets.rejected
                                           \/ TrueDoi(d)' = Prime /\ Witness
    BY <1>2, <1>3 DEF ExclusionStands, TrueDoi, IsAlias
  <2> QED
    BY <1>2, <1>8, <2>2, <2>3, <2>4, <2>5, <2>6 DEF ExclusionStands
<1>12. FoundStands'
    BY <1>2, <1>3, <1>8 DEF FoundStands, RecordsAreAnchored, IsAlias, Matched, IsHit, FinalDoi
<1> QED
    BY <1>9, <1>10, <1>11, <1>12, SingletonsBooks DEF FindsInv

LEMMA PrimesFinds == ASSUME FindsInv, Primes PROVE FindsInv'
<1> DEFINE primes == {sup.aliases[d] : d \in DOMAIN sup.aliases}
           known == [d \in {p \in primes : p \in DOMAIN ex.resolved \cup (ex.discovered \cap DOMAIN manifest)} |->
                       IF d \in DOMAIN ex.resolved THEN ex.revs[d] ELSE manifest[d]]
           asked == {p \in primes \ (DOMAIN sup.probes \cup DOMAIN known) : ShouldProcess(ex, p)}
<1>1. PICK probed \in SUBSET {p \in asked : Exists(p)} :
          \E single \in SUBSET {p \in asked \ probed : Exists(p)} :
              LET got == [d \in probed \cup single |-> live[d].rev]
              IN  /\ sup' = [sup EXCEPT !.probes = Over(Over(@, known), got),
                                        !.supplied = Over(@, [d \in single |-> live[d]])]
                  /\ ex' = [ex EXCEPT !.types = Observe(@, Over(Typed(sup.supplied),
                                                                [d \in DOMAIN got |-> live[d].type]))]
    BY DEF Primes
<1>2. PICK single \in SUBSET {p \in asked \ probed : Exists(p)} :
              LET got == [d \in probed \cup single |-> live[d].rev]
              IN  /\ sup' = [sup EXCEPT !.probes = Over(Over(@, known), got),
                                        !.supplied = Over(@, [d \in single |-> live[d]])]
                  /\ ex' = [ex EXCEPT !.types = Observe(@, Over(Typed(sup.supplied),
                                                                [d \in DOMAIN got |-> live[d].type]))]
    BY <1>1
<1>3. /\ stage = "primes" /\ stage' = "resolve"
      /\ UNCHANGED <<live, aliased, openalex, crossref, held, state, manifest, sets, results>>
    BY DEF Primes, world
<1> DEFINE new == probed \cup single
           got == [d \in new |-> live[d].rev]
           more == [d \in single |-> live[d]]
           kinds == Over(Typed(sup.supplied), [d \in DOMAIN got |-> live[d].type])
<1>4. /\ AliasesAreTrue /\ AskedInOrder /\ ExclusionStands /\ FoundStands /\ sup \in Supplements
      /\ sup.anchors \cap DOMAIN manifest = {} /\ ex \in Retrievals
    BY <1>3 DEF FindsInv, BooksInv, EvidenceTypes, AskedOnce
<1>5. primes \subseteq {Prime} /\ (primes # {} => Alias \in DOMAIN sup.aliases)
  <2>1. \A d \in DOMAIN sup.aliases : sup.aliases[d] = Prime /\ d = Alias
    BY <1>4, MapFx DEF Supplements, AliasesAreTrue, IsAlias
  <2> QED
    BY <2>1
<1>6. /\ new \subseteq primes /\ DOMAIN known \subseteq primes
      /\ \A d \in new : ShouldProcess(ex, d)
    OBVIOUS
<1> HIDE DEF primes, known, new
<1>7. /\ sup' = [sup EXCEPT !.probes = Over(Over(@, known), got), !.supplied = Over(@, more)]
      /\ ex' = [ex EXCEPT !.types = Observe(@, kinds)]
    BY <1>2 DEF new
<1>8. /\ sup'.batch = sup.batch /\ sup'.anchors = sup.anchors /\ sup'.aliases = sup.aliases
      /\ sup'.targets = sup.targets /\ sup'.skipped = sup.skipped
      /\ sup'.probes = Over(Over(sup.probes, known), got)
      /\ ex'.resolved = ex.resolved /\ ex'.types = Observe(ex.types, kinds)
    BY <1>4, <1>7 DEF Supplements, Retrievals
<1>9. DOMAIN sup'.probes = DOMAIN sup.probes \cup DOMAIN known \cup new
  <2>1. DOMAIN Over(sup.probes, known) = DOMAIN sup.probes \cup DOMAIN known
    BY OverAt
  <2>2. DOMAIN Over(Over(sup.probes, known), got) = DOMAIN Over(sup.probes, known) \cup DOMAIN got
    BY OverAt
  <2> QED
    BY <1>8, <2>1, <2>2
<1>10. DOMAIN kinds = DOMAIN sup.supplied \cup new
  <2>1. DOMAIN Typed(sup.supplied) = DOMAIN sup.supplied
    BY DEF Typed
  <2>2. DOMAIN Over(Typed(sup.supplied), [d \in new |-> live[d].type]) = DOMAIN Typed(sup.supplied) \cup new
    BY OverAt
  <2> QED
    BY <2>1, <2>2
<1> HIDE DEF got, more, kinds
<1>11. /\ \A d \in DOIs \ (DOMAIN sup.supplied \cup new) : d \in Excluded(ex)' <=> d \in Excluded(ex)
       /\ Excluded(ex) \subseteq DOIs /\ Excluded(ex)' \subseteq DOIs
    BY <1>8, <1>10, ExcludedFx DEF Excluded
<1>12. /\ Asking /\ Asking' /\ First' = First /\ EarlyRequested' = EarlyRequested /\ (InLate' <=> InLate)
       /\ (Witness' <=> Witness) /\ ~LateBack
    BY <1>3, <1>8 DEF Asking, InLate, First, EarlyRequested, Witness, LateBack
<1>13. new \cap Excluded(ex) = {}
    BY <1>6 DEF ShouldProcess, NeedsMetadata
<1>14. /\ DOMAIN sup.supplied \subseteq sup.anchors
       /\ \A d \in DOMAIN sup.supplied \cap Excluded(ex) : InLate /\ d = Prime /\ Witness
       /\ \A d \in DOMAIN sup.targets : d \in sup.skipped <=> ~ShouldProcess(ex, sup.targets[d])
       /\ ~InLate => Excluded(ex) \subseteq First
    BY <1>3, <1>4 DEF ExclusionStands
<1>15. ASSUME InLate PROVE Excluded(ex) \cap First \subseteq Excluded(ex)'
  <2>1. sup.anchors \cap First = {}
    BY <1>4, <1>15 DEF AskedInOrder, First
  <2> QED
    BY <1>11, <1>13, <1>14, <2>1
<1>16. ~InLate => results.early = NothingBack
    BY <1>3, <1>4 DEF AskedInOrder, EarlyBack, Matched
<1>17. AliasesAreTrue'
    BY <1>3, <1>4, <1>5, <1>6, <1>8, <1>9, PipelineAssumption DEF AliasesAreTrue, IsAlias, TrueDoi
<1>18. AskedInOrder'
    BY <1>3, <1>4, <1>8, <1>12 DEF AskedInOrder, EarlyBack, LateBack, Matched
<1>19. ASSUME NEW d \in sup.skipped, InLate PROVE ~ShouldProcess(ex, sup.targets[d])' \/ (sup.targets[d] = Prime /\ Witness)
  <2>1. ~ShouldProcess(ex, sup.targets[d])
    BY <1>4, <1>14, <1>19 DEF AskedInOrder
  <2>2. CASE sup.targets[d] \in Excluded(ex)
    <3>1. sup.targets[d] \in Excluded(ex)' \/ (sup.targets[d] = Prime /\ Witness)
      BY <1>11, <1>13, <1>14, <2>2
    <3> QED
      BY <1>8, <3>1 DEF ShouldProcess, NeedsMetadata
  <2>3. CASE sup.targets[d] \notin Excluded(ex)
    BY <1>3, <1>8, <2>1, <2>3 DEF ShouldProcess, NeedsMetadata
  <2> QED
    BY <2>2, <2>3
<1>20. ASSUME ~InLate
       PROVE  /\ \A d \in Excluded(ex)' \ First : /\ d = Prime /\ Prime \in DOMAIN sup'.probes
                                                  /\ Alias \in DOMAIN sup.aliases \ sup.skipped
              /\ \A d \in sup.skipped : sup.targets[d] \in held \cup (Excluded(ex)' \cap First)
  <2>1. sup.batch # "late" /\ sup.anchors \subseteq First
    BY <1>4, <1>12, <1>20 DEF AskedInOrder, First, InLate
  <2>2. ASSUME NEW d \in Excluded(ex)' \ First
        PROVE  d = Prime /\ Prime \in DOMAIN sup'.probes /\ Alias \in DOMAIN sup.aliases \ sup.skipped
    <3>1. d \in new
      BY <1>11, <1>14, <1>20, <2>1, <2>2
    <3>2. d = Prime /\ Prime \in DOMAIN sup'.probes /\ Alias \in DOMAIN sup.aliases
      BY <1>5, <1>6, <1>9, <3>1
    <3>3. Alias \in DOMAIN sup.targets /\ sup.targets[Alias] = Prime
      BY <1>4, <3>2 DEF AskedInOrder, AliasesAreTrue, TrueDoi
    <3>4. Alias \notin sup.skipped
      BY <1>6, <1>14, <3>1, <3>2, <3>3
    <3> QED
      BY <3>2, <3>4
  <2>3. ASSUME NEW d \in sup.skipped PROVE sup.targets[d] \in held \cup (Excluded(ex)' \cap First)
    <3>1. ~ShouldProcess(ex, sup.targets[d])
      BY <1>4, <1>14, <2>3 DEF AskedInOrder
    <3>2. sup.targets[d] \in held \cup Excluded(ex)
      BY <2>1, <3>1 DEF ShouldProcess, NeedsMetadata
    <3> QED
      BY <1>11, <1>13, <1>14, <1>20, <3>2
  <2> QED
    BY <2>2, <2>3
<1>21. ExclusionStands'
  <2>1. \A d \in results.early.skipped : TrueDoi(d)' \in held \cup (Excluded(ex)' \cap First)
    BY <1>3, <1>4, <1>15, <1>16 DEF ExclusionStands, TrueDoi, IsAlias, NothingBack
  <2>2. results.late.skipped = {}
    BY <1>4, <1>12 DEF AskedInOrder, NothingBack
  <2> QED
    BY <1>3, <1>8, <1>12, <1>19, <1>20, <2>1, <2>2 DEF ExclusionStands
<1>22. FoundStands'
  <2>1. InLate => Excluded(ex) \subseteq Excluded(ex)' \cup sets.matched
    BY <1>4, <1>11, <1>13, <1>14 DEF AskedInOrder
  <2>2. RecordsAreAnchored'
    BY <1>3, <1>4, <1>12 DEF FoundStands, RecordsAreAnchored, IsAlias
  <2> QED
    BY <1>3, <1>4, <1>12, <2>1, <2>2 DEF FoundStands, Matched, IsHit, FinalDoi
<1> QED
    BY <1>17, <1>18, <1>21, <1>22, PrimesBooks DEF FindsInv

LEMMA SettleFinds == ASSUME FindsInv, Settle PROVE FindsInv'
<1> DEFINE wanted == {t \in {sup.targets[d] : d \in DOMAIN sup.targets} :
                        /\ t \in DOMAIN sup.probes /\ ShouldProcess(ex, t)
                        /\ sup.batch = "early" \/ t \in DOMAIN sup.supplied \/ t \in DOMAIN ex.resolved}
           members == [t \in wanted |-> sup.probes[t]]
           supplied == [d \in DOMAIN sup.supplied \cap wanted |-> sup.supplied[d]]
           requested == Requested(ex, members, supplied)
           left == {d \in sup.anchors \ sup.skipped : Target(d) \notin Excluded(ex)}
           HasRecord(x, d) == /\ Target(d) \in DOMAIN sup.probes /\ Target(d) \in DOMAIN x.resolved
                              /\ x.resolved[Target(d)].rev > 0
           Thin(d) == sup.batch = "late" /\ Target(d) \in DOMAIN sup.probes
           failed(x) == {d \in left : ~HasRecord(x, d) /\ ~Thin(d) /\ d \notin sup.unavailable}
           records(x) == {Target(d) : d \in {e \in left : HasRecord(x, e)}}
           unresolved(x) == {d \in failed(x) : Target(d) \notin DOMAIN sup.probes}
           answer(x) == [aliases |-> sup.aliases, skipped |-> sup.skipped, records |-> records(x), failed |-> failed(x),
                         unresolved |-> unresolved(x)]
<1>1. PICK lost \in SUBSET requested :
         LET x == ResolveMembers(ex, members, supplied, lost)
         IN  /\ ex' = [x EXCEPT !.types = Observe(@, [d \in records(x) |-> x.resolved[d].type]),
                                !.used = @ \cup records(x)]
             /\ results' = [results EXCEPT ![sup.batch] = answer(x)]
    BY DEF Settle
<1>2. /\ stage = "resolve" /\ stage' = IF sup.batch = "early" THEN "match" ELSE "evidence"
      /\ sup' = NoSup
      /\ UNCHANGED <<live, aliased, openalex, crossref, held, state, manifest, sets>>
    BY DEF Settle, world
<1>3. /\ sup \in Supplements /\ sup.batch \in {"early", "late"}
      /\ DOMAIN sup.probes \subseteq DOIs /\ \A d \in DOMAIN sup.probes : sup.probes[d] \in Nat
      /\ \A d \in DOMAIN sup.supplied : sup.supplied[d] \in Records
    BY <1>2, MapFx DEF FindsInv, BooksInv, EvidenceTypes, Supplements, AskedOnce, Asking
<1>4. wanted \subseteq DOIs /\ wanted \subseteq DOMAIN sup.probes
    BY <1>3
<1> HIDE DEF wanted
<1> DEFINE y == ResolveMembers(ex, members, supplied, lost)
           kinds == [d \in records(y) |-> y.resolved[d].type]
<1>5. y \in Retrievals /\ y.types = ex.types /\ DOMAIN y.resolved = DOMAIN ex.resolved \cup wanted
  <2>1. members \in Maps(Nat) /\ DOMAIN members = wanted
    BY <1>3, <1>4, IsMap
  <2>2. supplied \in Maps(Records)
    <3>1. /\ DOMAIN sup.supplied \cap wanted \in SUBSET DOIs
          /\ \A d \in DOMAIN sup.supplied \cap wanted : sup.supplied[d] \in Records
      BY <1>3, <1>4
    <3> QED
      BY <3>1, IsMap
  <2> HIDE DEF members, supplied
  <2> QED
    BY <2>1, <2>2, ResolveFx DEF FindsInv, BooksInv, EvidenceTypes
<1>6. /\ ex' = [y EXCEPT !.types = Observe(@, kinds), !.used = @ \cup records(y)]
      /\ results' = [results EXCEPT ![sup.batch] = answer(y)]
    BY <1>1
<1> HIDE DEF y
<1>7. DOMAIN ex'.resolved = DOMAIN ex.resolved \cup wanted /\ ex'.types = Observe(ex.types, kinds)
    BY <1>5, <1>6 DEF Retrievals
<1>8. /\ failed(y) \subseteq sup.anchors \ sup.skipped /\ unresolved(y) \subseteq failed(y)
      /\ \A d \in unresolved(y) : Target(d) \notin DOMAIN sup.probes
    OBVIOUS
<1>9. \A t \in records(y) : t \notin Excluded(ex) /\ t \in DOMAIN sup.probes /\ \E d \in sup.anchors \ sup.skipped : t = Target(d)
    OBVIOUS
<1> HIDE DEF failed, records, unresolved
<1>10. /\ sup.batch = "early" => results'.early = answer(y) /\ results'.late = results.late
       /\ sup.batch = "late" => results'.late = answer(y) /\ results'.early = results.early
  <2> HIDE DEF answer
  <2>1. results \in [early : Replies, late : Replies]
    BY DEF FindsInv, BooksInv, EvidenceTypes
  <2>2. CASE sup.batch = "early"
    BY <1>6, <2>1, <2>2
  <2>3. CASE sup.batch = "late"
    BY <1>6, <2>1, <2>3
  <2> QED
    BY <1>3, <2>2, <2>3
<1> HIDE DEF y
<1>11. /\ \A d \in DOIs \ records(y) : d \in Excluded(ex)' <=> d \in Excluded(ex)
       /\ Excluded(ex) \subseteq DOIs /\ Excluded(ex)' \subseteq DOIs
    BY <1>7, ExcludedFx DEF Excluded
<1>12. Excluded(ex) \subseteq Excluded(ex)'
    BY <1>9, <1>11
<1>13. /\ AliasesAreTrue /\ AskedInOrder /\ ExclusionStands /\ FoundStands
       /\ First' = First /\ EarlyRequested' = EarlyRequested /\ Asking /\ ~Asking' /\ (InLate <=> sup.batch = "late")
    BY <1>2 DEF FindsInv, First, EarlyRequested, Asking, InLate
<1>14. sup' = NoSup /\ DOMAIN <<>> = {}
    BY <1>2, NoMap
<1>15. AliasesAreTrue'
  <2>1. aliased => Alias \notin DOMAIN ex'.resolved
    BY <1>4, <1>7, <1>13 DEF AliasesAreTrue
  <2>2. \A d \in sup.skipped : IsAlias(d) => d \in DOMAIN sup.aliases
    BY <1>13 DEF AliasesAreTrue, AskedInOrder
  <2> QED
    BY <1>2, <1>3, <1>10, <1>13, <1>14, <2>1, <2>2 DEF AliasesAreTrue, IsAlias, NoSup
<1>16. AskedInOrder'
    BY <1>2, <1>3, <1>8, <1>10, <1>13, <1>14 DEF AskedInOrder, NoSup, InLate, EarlyBack, LateBack, Matched
<1>17. CASE sup.batch = "early"
  <2>1. stage' = "match" /\ ~Matched' /\ ~Matched /\ ~InLate /\ results.late = NothingBack /\ results'.late = NothingBack
    BY <1>2, <1>10, <1>13, <1>17 DEF Matched, InLate, AskedInOrder, LateBack
  <2>2. ASSUME NEW d \in Excluded(ex)' \ First PROVE d = Prime /\ Witness'
    <3>1. d = Prime /\ Prime \in DOMAIN sup.probes /\ Alias \in DOMAIN sup.aliases \ sup.skipped
      <4>1. CASE d \in Excluded(ex)
        BY <1>2, <1>13, <2>1, <2>2, <4>1 DEF ExclusionStands
      <4>2. CASE d \notin Excluded(ex)
        <5>1. PICK e \in sup.anchors \ sup.skipped : d = Target(e) /\ d \in DOMAIN sup.probes
          BY <1>9, <1>11, <2>2, <4>2
        <5>2. e \in DOMAIN sup.targets /\ d = sup.targets[e]
          BY <1>13, <2>1, <2>2, <5>1 DEF Target, AskedInOrder, First
        <5>3. d = TrueDoi(e) /\ d # e /\ IsAlias(e)
          BY <1>13, <2>1, <2>2, <5>1, <5>2 DEF AliasesAreTrue, TrueDoi, AskedInOrder, First
        <5> QED
          BY <1>13, <5>1, <5>2, <5>3 DEF AliasesAreTrue, TrueDoi, IsAlias
      <4> QED
        BY <4>1, <4>2
    <3>2. Target(Alias) = Prime
      BY <1>13, <3>1 DEF Target, AskedInOrder, AliasesAreTrue, TrueDoi
    <3>3. Alias \notin unresolved(y)
      BY <1>8, <3>1, <3>2
    <3> QED
      BY <1>10, <1>17, <3>1, <3>3 DEF Witness
  <2>3. \A d \in sup.skipped : TrueDoi(d)' \in held \cup (Excluded(ex)' \cap First)
    BY <1>2, <1>12, <1>13, <2>1 DEF ExclusionStands, AliasesAreTrue, AskedInOrder, TrueDoi, IsAlias
  <2>4. ExclusionStands'
    BY <1>2, <1>10, <1>13, <1>17, <2>1, <2>2, <2>3 DEF ExclusionStands, NothingBack
  <2>5. ASSUME NEW d \in records(y)
        PROVE  /\ ~IsAlias(d)
               /\ \E e \in EarlyRequested \ (sup.skipped \cup unresolved(y)) : FinalDoi(sup.aliases, e) = d
    <3>1. PICK e \in sup.anchors \ sup.skipped : d = Target(e) /\ d \in DOMAIN sup.probes
      BY <1>9, <2>5
    <3>2. ~IsAlias(d)
      BY <1>13, <3>1 DEF AliasesAreTrue, IsAlias
    <3>3. e \in EarlyRequested /\ e \notin unresolved(y)
      BY <1>8, <1>13, <2>1, <3>1 DEF AskedInOrder
    <3>4. FinalDoi(sup.aliases, e) = d
      <4>1. \A a \in DOMAIN sup.aliases : a \in DOMAIN sup.targets /\ sup.aliases[a] = Prime /\ IsAlias(a)
        BY <1>3, <1>13, MapFx DEF Supplements, AliasesAreTrue, AskedInOrder
      <4>2. CASE e \in DOMAIN sup.aliases
        BY <1>13, <3>1, <4>1, <4>2 DEF FinalDoi, Target, AliasesAreTrue, TrueDoi
      <4>3. CASE e \notin DOMAIN sup.aliases
        BY <1>13, <3>1, <3>2, <4>3 DEF FinalDoi, Target, AliasesAreTrue, TrueDoi
      <4> QED
        BY <4>2, <4>3
    <3> QED
      BY <3>1, <3>2, <3>3, <3>4
  <2>6. RecordsAreAnchored'
    BY <1>2, <1>10, <1>13, <1>17, <2>5 DEF RecordsAreAnchored, IsAlias, FinalDoi
  <2>7. FoundStands'
    BY <1>2, <1>13, <2>1, <2>6 DEF FoundStands, IsHit
  <2> QED
    BY <1>15, <1>16, <2>4, <2>7, SettleBooks DEF FindsInv
<1>18. CASE sup.batch = "late"
  <2>1. stage' = "evidence" /\ Matched' /\ Matched /\ InLate /\ results'.early = results.early /\ (Witness' <=> Witness)
    BY <1>2, <1>10, <1>13, <1>18 DEF Matched, Witness
  <2>2. \A d \in sup.skipped : \/ TrueDoi(d)' \in held \cup Excluded(ex)' \cup sets.rejected
                               \/ TrueDoi(d)' = Prime /\ Witness
    BY <1>2, <1>12, <1>13, <2>1 DEF ExclusionStands, AliasesAreTrue, AskedInOrder, TrueDoi, IsAlias, ShouldProcess, NeedsMetadata
  <2>3. \A d \in results.early.skipped : TrueDoi(d)' \in held \cup (Excluded(ex)' \cap First)
    BY <1>2, <1>12, <1>13 DEF ExclusionStands, TrueDoi, IsAlias
  <2>4. ExclusionStands'
    BY <1>2, <1>10, <1>13, <1>18, <2>1, <2>2, <2>3 DEF ExclusionStands
  <2>5. FoundStands'
    BY <1>2, <1>12, <1>13, <2>1 DEF FoundStands, RecordsAreAnchored, IsAlias, IsHit, FinalDoi
  <2> QED
    BY <1>15, <1>16, <2>4, <2>5, SettleBooks DEF FindsInv
<1> QED
    BY <1>3, <1>17, <1>18

LEMMA FindsStep == ASSUME FindsInv, [PipelineNext]_pipelineVars PROVE FindsInv'
<1>1. CASE UNCHANGED pipelineVars
  <2>1. BooksInv'
    BY BooksStep DEF FindsInv
  <2>2. Excluded(ex)' = Excluded(ex) /\ First' = First /\ EarlyRequested' = EarlyRequested
    BY <1>1 DEF pipelineVars, Excluded, First, EarlyRequested
  <2>3. AliasesAreTrue' /\ AskedInOrder'
    BY <1>1, <2>2 DEF pipelineVars, FindsInv, AliasesAreTrue, AskedInOrder, IsAlias, TrueDoi, Asking, InLate, EarlyBack, LateBack, Matched
  <2>4. ExclusionStands'
    BY <1>1, <2>2 DEF pipelineVars, FindsInv, ExclusionStands, Witness, TrueDoi, IsAlias, InLate, Asking, ShouldProcess, NeedsMetadata
  <2>5. FoundStands'
    BY <1>1, <2>2 DEF pipelineVars, FindsInv, FoundStands, RecordsAreAnchored, IsAlias, Matched, InLate, Asking, IsHit, FinalDoi
  <2> QED
    BY <2>1, <2>3, <2>4, <2>5 DEF FindsInv
<1>2. ASSUME NEW d \in DOIs, Reindex(d) PROVE FindsInv'
    BY <1>2, ReindexFinds
<1>3. CASE Discover \/ Select \/ Hydrate \/ Early \/ Late \/ Singletons \/ Primes \/ Settle \/ Match \/ Evidence
    BY <1>3, DiscoverFinds, SelectFinds, HydrateFinds, EarlyFinds, LateFinds, SingletonsFinds, PrimesFinds, SettleFinds,
       MatchFinds, EvidenceFinds
<1> QED
    BY <1>1, <1>2, <1>3 DEF PipelineNext

\* Only the last stage ends a run, and nothing moves after it.
LEMMA FindsLast == ASSUME FindsInv, NothingVanishes, [PipelineNext]_pipelineVars PROVE NothingVanishes'
<1>1. CASE Evidence
    BY <1>1, FindsAtEnd DEF NothingVanishes
<1>2. CASE UNCHANGED pipelineVars
    BY <1>2 DEF pipelineVars, NothingVanishes, FindsAreKept, OneIdentity, Dones, FinalDoi, Both, Excluded
<1>3. CASE ~Evidence /\ ~UNCHANGED pipelineVars
  <2>1. stage' # "done"
    BY <1>3 DEF PipelineNext, Reindex, Discover, Select, Hydrate, Early, Late, Singletons, Primes, Settle, Match
  <2> QED
    BY <2>1 DEF NothingVanishes, FindsAreKept, OneIdentity, Dones
<1> QED
    BY <1>1, <1>2, <1>3

\* What a run found in an OpenAlex text or in a full Crossref record, hydrated or supplemented, is
\* lost only for a reason NothingVanishes names, and no paper is kept under two DOIs, however Crossref
\* answers, fails and changes its mind between the requests (_execute_canonical_core).
THEOREM FindsReachTheEvidence == PipelineSpec => []NothingVanishes
<1>1. PipelineInit => NothingVanishes
    BY DEF PipelineInit, NothingVanishes, FindsAreKept, OneIdentity, Dones
<1>2. FindsInv /\ NothingVanishes /\ [PipelineNext]_pipelineVars => FindsInv' /\ NothingVanishes'
    BY FindsStep, FindsLast
<1> QED
    BY <1>1, <1>2, InitFinds, PTL DEF PipelineSpec
==============================================================================
