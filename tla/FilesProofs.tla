------------------------------ MODULE FilesProofs ------------------------------
(***************************************************************************)
(* The safety of decisions and of the reset (WorkspaceFiles) for any       *)
(* number of processes, directories, edits and configurations, of the      *)
(* notes a Run makes (Materialization) for any Papers, notes and Runs, and *)
(* of the works OpenAlex has (OpenAlexDiscovery) for any Sources and works.*)
(***************************************************************************)
EXTENDS WorkspaceFiles, Materialization, OpenAlexDiscovery, FiniteSetTheorems, WellFoundedInduction, TLAPS

(***************************************************************************)
(* WorkspaceFiles: the inductive invariant                                 *)
(***************************************************************************)
\* A decision knows its directory, and the text it compares with from its second read on.
WritersKnow ==
    \A w \in Process :
        /\ writers[w].step # "idle" => writers[w].dir \in Dir
        /\ writers[w].step \in {"read", "prepared", "checked", "replaced"} => writers[w].text \in Text

\* A reset works on a plan the user confirmed, holds what it captured, and trusts only what the plan
\* names.
ResetKnows ==
    /\ Resetting => reset.plan \in Plan /\ (reset.plan.dir # None => reset.plan.dir \in confirmed)
    /\ reset.step \in {"captured", "trusted"} => reset.custody \in Dir
    /\ reset.step = "trusted" => reset.custody = reset.plan.dir

\* While it works no native save has the guard.
ResetGuarded == Resetting => ~native

FilesInv == TypeOK /\ WritersKnow /\ ResetKnows /\ ResetGuarded /\ OneOwner /\ OnlyConfirmedIsDeleted

LEMMA FilesInit == Init => FilesInv
<1> SUFFICES ASSUME Init PROVE FilesInv
  OBVIOUS
<1>1. TypeOK
  <2>1. 1 \in Dir /\ 0 \in 0..MaxConfigs /\ 0 \in 0..MaxEdits
    BY FilesAssumption DEF Dir
  <2>2. config \in 0..MaxConfigs /\ root \in Dir \cup {None} /\ dirs \in Dir /\ deleted \subseteq Dir
    BY <2>1 DEF Init
  <2>3. papers \in [Dir -> Text \cup {None}]
    <3>1. [status |-> "candidate", edits |-> 0] \in Text
      BY <2>1 DEF Text, Status
    <3> QED BY <3>1 DEF Init
  <2>4. writers \in [Process -> Writer]
    <3>1. Idle \in Writer
      BY DEF Idle, Writer, Status
    <3> QED BY <3>1 DEF Init
  <2>5. answer \in Answer
    BY DEF Init, Answer, Outcome
  <2>6. reset \in Reset
    BY DEF Init, Reset
  <2>7. confirmation \in Plan \cup {None} /\ native \in BOOLEAN
    BY DEF Init
  <2> QED BY <2>2, <2>3, <2>4, <2>5, <2>6, <2>7 DEF TypeOK
<1>2. WritersKnow
  BY DEF Init, WritersKnow, Idle
<1>3. ResetKnows /\ ResetGuarded /\ OneOwner /\ OnlyConfirmedIsDeleted
  BY DEF Init, ResetKnows, ResetGuarded, Resetting, OneOwner, Active, Idle, OnlyConfirmedIsDeleted
<1> QED BY <1>1, <1>2, <1>3 DEF FilesInv

(***************************************************************************)
(* The decisions                                                           *)
(***************************************************************************)
\* A step of a decision that leaves the disk, and the reset, alone.
LEMMA QuietStep ==
    ASSUME FilesInv, NEW w \in Process, NEW now \in Writer, NEW said \in Answer,
           WriterOnly, writers' = [writers EXCEPT ![w] = now], answer' = said,
           now.step # "idle" => now.dir \in Dir /\ (Active(w) \/ (root # None /\ PathLockFree)),
           now.step \in {"read", "prepared", "checked", "replaced"} => now.text \in Text
    PROVE  FilesInv'
<1> USE DEF FilesInv
<1>1. TypeOK'
  BY DEF TypeOK, WriterOnly, disk
<1>2. WritersKnow'
  BY DEF WritersKnow, TypeOK
<1>3. ResetKnows' /\ ResetGuarded' /\ OnlyConfirmedIsDeleted'
  BY DEF WriterOnly, disk, ResetKnows, ResetGuarded, Resetting, OnlyConfirmedIsDeleted
<1>4. OneOwner'
  BY DEF OneOwner, Active, PathLockFree, Resetting, WriterOnly, TypeOK
<1> QED BY <1>1, <1>2, <1>3, <1>4

LEMMA DecisionStep ==
    ASSUME FilesInv, NEW w \in Process,
           \/ \E decision \in Decisions : LockWorkspace(w, decision)
           \/ ReadPaper(w) \/ Prepare(w) \/ Check(w) \/ Replace(w) \/ Sync(w) \/ WriteFails(w) \/ Crash(w)
    PROVE  FilesInv'
<1>0. writers[w] \in Writer /\ Idle \in Writer
  BY DEF FilesInv, TypeOK, Writer, Idle, Status
<1>1. ASSUME NEW told \in Outcome, Returns(w, told), WriterOnly PROVE FilesInv'
  <2>1. [outcome |-> told, wrote |-> writers[w].step = "replaced"] \in Answer
    BY DEF Answer
  <2>2. Idle.step = "idle"
    BY DEF Idle
  <2> QED BY <1>0, <1>1, <2>1, <2>2, QuietStep DEF Returns
<1>2. ASSUME NEW where \in {"prepared", "checked"}, Goes(w, where), WriterOnly,
             writers[w].step \in {"read", "prepared"}
      PROVE  FilesInv'
  <2> DEFINE now == [writers[w] EXCEPT !.step = where]
  <2>1. now \in Writer /\ now.dir = writers[w].dir /\ now.text = writers[w].text
    BY <1>0, <1>2 DEF Writer
  <2>2. writers' = [writers EXCEPT ![w] = now]
    BY <1>2 DEF Goes, FilesInv, TypeOK
  <2>3. writers[w].dir \in Dir /\ writers[w].text \in Text /\ Active(w)
    BY <1>2 DEF FilesInv, WritersKnow, Active
  <2>4. answer \in Answer /\ answer' = answer
    BY <1>2 DEF Goes, FilesInv, TypeOK
  <2> HIDE DEF now
  <2> QED BY <1>2, <2>1, <2>2, <2>3, <2>4, QuietStep
<1>3. ASSUME NEW decision \in Decisions, LockWorkspace(w, decision) PROVE FilesInv'
  <2> DEFINE now == [step |-> "locked", dir |-> root, text |-> None, target |-> decision]
  <2>1. root \in Dir /\ now \in Writer
    BY <1>3 DEF LockWorkspace, FilesInv, TypeOK, Writer, Decisions, Status
  <2>2. answer \in Answer /\ answer' = answer
    BY <1>3 DEF LockWorkspace, FilesInv, TypeOK
  <2> QED BY <1>3, <2>1, <2>2, QuietStep DEF LockWorkspace
<1>4. CASE ReadPaper(w)
  <2> DEFINE text == papers[writers[w].dir]
             now == [writers[w] EXCEPT !.step = "read", !.text = text]
  <2>1. CASE text = None \/ text.status # "candidate"
    BY <1>1, <1>4, <2>1 DEF ReadPaper, Outcome
  <2>2. CASE text # None /\ text.status = "candidate"
    <3>1. writers[w].dir \in Dir /\ Active(w)
      BY <1>4 DEF ReadPaper, FilesInv, WritersKnow, Active
    <3>2. text \in Text
      BY <2>2, <3>1 DEF FilesInv, TypeOK
    <3>3. now \in Writer /\ now.dir = writers[w].dir /\ now.text = text
      BY <1>0, <3>2 DEF Writer
    <3>4. writers' = [writers EXCEPT ![w] = now] /\ answer' = answer /\ answer \in Answer
      BY <1>4, <2>2 DEF ReadPaper, FilesInv, TypeOK
    <3> HIDE DEF now, text
    <3> QED BY <1>4, <3>1, <3>2, <3>3, <3>4, QuietStep DEF ReadPaper
  <2> QED BY <2>1, <2>2
<1>5. CASE Prepare(w) \/ Check(w)
  BY <1>1, <1>2, <1>5 DEF Prepare, Check, Outcome
<1>6. CASE Sync(w)
  BY <1>1, <1>6 DEF Sync, SyncedAs, Outcome
<1>7. CASE WriteFails(w)
  BY <1>1, <1>7 DEF WriteFails, Outcome
<1>8. CASE Crash(w)
  BY <1>1, <1>8 DEF Crash, Outcome, WriterOnly, disk
<1>9. CASE Replace(w)
  <2>1. writers[w].dir \in Dir /\ writers[w].text \in Text
    BY <1>9 DEF Replace, FilesInv, WritersKnow
  <2>2. [writers[w].text EXCEPT !.status = writers[w].target] \in Text
    BY <1>0, <2>1 DEF Text, Writer
  <2>3. TypeOK'
    BY <1>0, <1>9, <2>1, <2>2 DEF Replace, Goes, FilesInv, TypeOK, Writer
  <2>4. WritersKnow'
    BY <1>9, <2>1 DEF Replace, Goes, FilesInv, WritersKnow, TypeOK, Writer
  <2>5. ResetKnows' /\ ResetGuarded' /\ OnlyConfirmedIsDeleted'
    BY <1>9 DEF Replace, FilesInv, ResetKnows, ResetGuarded, Resetting, OnlyConfirmedIsDeleted
  <2>6. OneOwner'
    BY <1>9 DEF Replace, Goes, FilesInv, OneOwner, Active, Resetting, TypeOK
  <2> QED BY <2>3, <2>4, <2>5, <2>6 DEF FilesInv
<1> QED BY <1>3, <1>4, <1>5, <1>6, <1>7, <1>8, <1>9

(***************************************************************************)
(* The reset                                                               *)
(***************************************************************************)
LEMMA ResetTakesStep ==
    ASSUME FilesInv,
           Preview \/ PreviewFails \/ Confirm \/ Recheck \/ Capture \/ Trust \/ Delete \/ Conclude \/ ResetFails
    PROVE  FilesInv'
<1> USE DEF FilesInv
<1>0. Here \in Plan
  BY DEF Here, Plan, TypeOK
<1>1. CASE Preview \/ PreviewFails
  <2>1. TypeOK'
    BY <1>0, <1>1 DEF TypeOK, Preview, PreviewFails, ResetOnly, disk
  <2>2. WritersKnow' /\ ResetKnows' /\ ResetGuarded' /\ OneOwner' /\ OnlyConfirmedIsDeleted'
    BY <1>1 DEF Preview, PreviewFails, ResetOnly, disk, WritersKnow, ResetKnows, ResetGuarded,
         Resetting, OneOwner, Active, OnlyConfirmedIsDeleted
  <2> QED BY <2>1, <2>2
<1>2. CASE Confirm
  <2>1. confirmation \in Plan
    BY <1>2 DEF Confirm, TypeOK
  <2>2. TypeOK'
    BY <1>2, <2>1 DEF Confirm, TypeOK, ResetOnly, disk, Reset
  <2>3. WritersKnow' /\ OnlyConfirmedIsDeleted'
    BY <1>2 DEF Confirm, ResetOnly, disk, WritersKnow, OnlyConfirmedIsDeleted
  <2>4. ResetKnows'
    BY <1>2, <2>1 DEF Confirm, ResetKnows, Resetting, TypeOK, Reset
  <2>5. ResetGuarded' /\ OneOwner'
    BY <1>2 DEF Confirm, ResetOnly, ResetGuarded, GuardFree, PathLockFree, OneOwner, Active, Resetting, TypeOK, Reset
  <2> QED BY <2>2, <2>3, <2>4, <2>5
<1>3. CASE Recheck \/ Capture \/ Trust \/ Delete \/ Conclude \/ ResetFails
  <2> USE DEF Recheck, Capture, Trust, Delete, Conclude, ResetFails, ResetStep, ResetOnly, Ends, LeftBehind,
        Resetting
  <2>1. Resetting /\ reset.plan \in Plan /\ reset \in Reset
    BY <1>3 DEF ResetKnows, TypeOK
  <2>2. reset' \in Reset
    <3>1. CASE Recheck
      BY <2>1, <3>1 DEF Reset
    <3>2. CASE Capture
      BY <2>1, <3>2 DEF Reset, TypeOK
    <3>3. CASE Trust \/ Conclude \/ ResetFails
      BY <2>1, <3>3 DEF Reset
    <3>4. CASE Delete
      BY <2>1, <3>4 DEF Reset
    <3> QED BY <1>3, <3>1, <3>2, <3>3, <3>4
  <2>3. deleted' \subseteq Dir /\ root' \in Dir \cup {None} /\ papers' \in [Dir -> Text \cup {None}]
    BY <1>3 DEF TypeOK, ResetKnows
  <2>4. TypeOK'
    BY <1>3, <2>2, <2>3 DEF TypeOK
  <2>5. WritersKnow'
    BY <1>3 DEF WritersKnow
  <2>6. ResetKnows'
    <3>1. CASE Recheck
      BY <2>1, <3>1 DEF ResetKnows, Reset, TypeOK
    <3>2. CASE Capture
      BY <2>1, <3>2 DEF ResetKnows, Reset, TypeOK
    <3>3. CASE Trust
      BY <2>1, <3>3 DEF ResetKnows, CapturedIsConfirmed, Reset, TypeOK
    <3>4. CASE Delete
      BY <2>1, <3>4 DEF ResetKnows, Reset, TypeOK
    <3>5. CASE Conclude
      BY <2>1, <3>5 DEF ResetKnows, Reset, TypeOK
    <3>6. CASE ResetFails
      BY <2>1, <3>6 DEF ResetKnows, Reset, TypeOK
    <3> QED BY <1>3, <3>1, <3>2, <3>3, <3>4, <3>5, <3>6
  <2>7. OnlyConfirmedIsDeleted'
    BY <1>3, NoneAssumption DEF OnlyConfirmedIsDeleted, ResetKnows
  <2>8. ResetGuarded'
    BY <1>3, <2>1 DEF ResetGuarded
  <2>9. OneOwner'
    BY <1>3, <2>1 DEF OneOwner, Active
  <2> QED BY <2>4, <2>5, <2>6, <2>7, <2>8, <2>9
<1> QED BY <1>1, <1>2, <1>3

(***************************************************************************)
(* What happens beside them                                                *)
(***************************************************************************)
LEMMA OutsideStep ==
    ASSUME FilesInv, (\E d \in Dir : Edit(d)) \/ NewDirectory \/ ConfigChanges \/ NativeSave
    PROVE  FilesInv'
<1> USE DEF FilesInv
<1>1. WritersKnow' /\ ResetKnows' /\ OneOwner' /\ OnlyConfirmedIsDeleted' /\ ResetGuarded'
  BY DEF Edit, NewDirectory, ConfigChanges, NativeSave, Outside, disk, WritersKnow, ResetKnows, ResetGuarded,
       Resetting, OneOwner, Active, OnlyConfirmedIsDeleted
<1>2. ASSUME NEW d \in Dir, Edit(d) PROVE TypeOK'
  <2>1. papers[d] \in Text /\ papers[d].edits + 1 \in 0..MaxEdits
    BY <1>2, FilesAssumption DEF Edit, TypeOK, Text
  <2>2. [papers[d] EXCEPT !.edits = @ + 1] \in Text
    BY <2>1 DEF Text
  <2>3. papers' \in [Dir -> Text \cup {None}]
    BY <1>2, <2>2 DEF Edit, TypeOK
  <2> QED BY <1>2, <2>3 DEF Edit, Outside, TypeOK
<1>3. CASE NewDirectory
  <2>1. dirs \in Nat /\ dirs + 1 \in Dir
    BY <1>3, FilesAssumption DEF NewDirectory, TypeOK, Dir
  <2> QED BY <1>1, <1>3, <2>1 DEF NewDirectory, Outside, TypeOK
<1>4. CASE ConfigChanges
  <2>1. config + 1 \in 0..MaxConfigs
    BY <1>4, FilesAssumption DEF ConfigChanges, TypeOK
  <2> QED BY <1>1, <1>4, <2>1 DEF ConfigChanges, Outside, TypeOK
<1>5. CASE NativeSave
  BY <1>1, <1>5 DEF NativeSave, Outside, disk, TypeOK
<1> QED BY <1>1, <1>2, <1>3, <1>4, <1>5

LEMMA FilesNext == FilesInv /\ [Next]_vars => FilesInv'
<1> SUFFICES ASSUME FilesInv, [Next]_vars PROVE FilesInv'
  OBVIOUS
<1>1. CASE UNCHANGED vars
  BY <1>1 DEF vars, disk, history, FilesInv, TypeOK, WritersKnow, ResetKnows, ResetGuarded, Resetting, OneOwner,
       Active, OnlyConfirmedIsDeleted
<1>2. CASE Next
  BY <1>2, DecisionStep, ResetTakesStep, OutsideStep DEF Next
<1> QED BY <1>1, <1>2

\* Nothing is ever taken out of its type, decisions and the reset exclude each other although the
\* name of the Workspace moves, and a decision works on a text it has read.
THEOREM FilesInvariant == Spec => []FilesInv
  BY FilesInit, FilesNext, PTL DEF Spec

\* Only what the user typed RESET for is deleted: whatever takes the name of the Workspace between
\* the preview, the confirmation, the second preview and the rename.
THEOREM DeletionWasConfirmed == Spec => []OnlyConfirmedIsDeleted
<1>1. FilesInv => OnlyConfirmedIsDeleted
  BY DEF FilesInv
<1> QED BY <1>1, FilesInvariant, PTL

(***************************************************************************)
(* What is said of the writes                                              *)
(***************************************************************************)
\* Between its last check and its replacement a decision's text is the disk's, or an editor saved.
WindowInv ==
    /\ ~overwritten
    /\ \A w \in Process : writers[w].step = "checked" => papers[writers[w].dir] = writers[w].text \/ w \in fresh

\* From the moment a tree may have the private name, the Reset knows to name it.
NamedInv ==
    /\ reset.step \in {"located", "captured", "trusted"} => reset.named
    /\ reset.step \in {"guarded", "located", "emptied"} => reset.custody = None
    /\ Resetting => reset.result = "none"
    /\ ~Resetting /\ reset.custody # None => reset.named /\ reset.result = "failed"

SaidInv == FilesInv /\ WindowInv /\ OutcomesAreTrue /\ NamedInv

LEMMA WindowStep == SaidInv /\ Next => WindowInv'
<1> SUFFICES ASSUME SaidInv, Next PROVE WindowInv'
  OBVIOUS
<1> USE DEF SaidInv, FilesInv, WindowInv
<1>0. ASSUME NEW w \in Process PROVE writers[w] \in Writer
  BY DEF TypeOK
<1>1. ASSUME NEW w \in Process, NEW now, writers' = [writers EXCEPT ![w] = now], papers' = papers,
             now.step = "checked" => papers[now.dir] = now.text,
             overwritten' = overwritten, fresh \ {w} \subseteq fresh'
      PROVE  WindowInv'
  BY <1>1 DEF TypeOK
<1>2. ASSUME NEW w \in Process, NEW decision \in Decisions, LockWorkspace(w, decision) PROVE WindowInv'
  <2> DEFINE now == [step |-> "locked", dir |-> root, text |-> None, target |-> decision]
  <2>1. writers' = [writers EXCEPT ![w] = now] /\ now.step # "checked"
    BY <1>2 DEF LockWorkspace
  <2> HIDE DEF now
  <2> QED BY <1>1, <1>2, <2>1 DEF LockWorkspace, WriterOnly, disk, history
<1>3. ASSUME NEW w \in Process, NEW told, Returns(w, told), papers' = papers, overwritten' = overwritten,
             fresh \ {w} \subseteq fresh'
      PROVE  WindowInv'
  <2>1. Idle.step # "checked"
    BY DEF Idle
  <2> QED BY <1>1, <1>3, <2>1 DEF Returns
<1>4. ASSUME NEW w \in Process, ReadPaper(w) PROVE WindowInv'
  <2> DEFINE now == [writers[w] EXCEPT !.step = "read", !.text = papers[writers[w].dir]]
  <2>1. papers' = papers /\ overwritten' = overwritten /\ fresh' = fresh
    BY <1>4 DEF ReadPaper, WriterOnly, disk, history
  <2>2. CASE writers' = [writers EXCEPT ![w] = now]
    <3>1. now.step # "checked"
      BY <1>0 DEF Writer
    <3> HIDE DEF now
    <3> QED BY <1>1, <2>1, <2>2, <3>1
  <2>3. CASE \E told \in Outcome : Returns(w, told)
    BY <1>3, <2>1, <2>3
  <2>4. writers' = [writers EXCEPT ![w] = now] \/ \E told \in Outcome : Returns(w, told)
    BY <1>0, <1>4 DEF ReadPaper, Outcome, Writer, TypeOK
  <2> QED BY <2>2, <2>3, <2>4
<1>5. ASSUME NEW w \in Process, Prepare(w) \/ Check(w) PROVE WindowInv'
  <2>1. papers' = papers /\ overwritten' = overwritten /\ fresh' = fresh
    BY <1>5 DEF Prepare, Check, WriterOnly, disk, history
  <2>2. ASSUME NEW where, Goes(w, where), where = "checked" => papers[writers[w].dir] = writers[w].text
        PROVE  WindowInv'
    <3> DEFINE now == [writers[w] EXCEPT !.step = where]
    <3>1. now.step = where /\ now.dir = writers[w].dir /\ now.text = writers[w].text
      BY <1>0 DEF Writer
    <3>2. writers' = [writers EXCEPT ![w] = now]
      BY <2>2 DEF Goes, TypeOK
    <3> HIDE DEF now
    <3> QED BY <1>1, <2>1, <2>2, <3>1, <3>2
  <2> QED BY <1>3, <1>5, <2>1, <2>2 DEF Prepare, Check, InPlace
<1>6. ASSUME NEW w \in Process, Replace(w) PROVE WindowInv'
  <2>1. \A v \in Process : Active(v) => v = w
    BY <1>6 DEF OneOwner, Active, Replace
  <2>2. \A v \in Process : writers'[v].step # "checked"
    BY <1>0, <1>6, <2>1 DEF Replace, Goes, Active, TypeOK, Writer
  <2> QED BY <1>6, <2>2 DEF Replace
<1>7. ASSUME NEW w \in Process, Sync(w) \/ WriteFails(w) \/ Crash(w) PROVE WindowInv'
  BY <1>3, <1>7 DEF Sync, WriteFails, Crash, WriterOnly, disk, history
<1>8. CASE Preview \/ PreviewFails \/ Confirm \/ Recheck \/ Capture \/ Trust \/ Conclude \/ ResetFails
  BY <1>8 DEF Preview, PreviewFails, Confirm, Recheck, Capture, Trust, Conclude, ResetFails, ResetStep, ResetOnly,
       disk, history
<1>9. CASE Delete
  BY <1>9 DEF Delete, ResetStep, ResetOnly, history, OneOwner, Active, Resetting
<1>10. ASSUME NEW d \in Dir, Edit(d) PROVE WindowInv'
  BY <1>10 DEF Edit, Outside, TypeOK
<1>11. CASE NewDirectory \/ ConfigChanges \/ NativeSave
  BY <1>11 DEF NewDirectory, ConfigChanges, NativeSave, Outside, disk
<1> QED BY <1>2, <1>4, <1>5, <1>6, <1>7, <1>8, <1>9, <1>10, <1>11 DEF Next

LEMMA OutcomeStep == SaidInv /\ Next => OutcomesAreTrue'
<1> SUFFICES ASSUME SaidInv, Next PROVE OutcomesAreTrue'
  OBVIOUS
<1>1. CASE answer' = answer
  BY <1>1 DEF SaidInv, OutcomesAreTrue
<1>2. ASSUME NEW w \in Process, NEW told, Returns(w, told),
             told = "UPDATED" => writers[w].step = "replaced",
             told \in {"NOT_FOUND", "STATE_CONFLICT", "INVALID_TRANSITION"} => writers[w].step # "replaced"
      PROVE  OutcomesAreTrue'
  BY <1>2 DEF Returns, OutcomesAreTrue
<1>3. ASSUME NEW w \in Process,
             \/ \E decision \in Decisions : LockWorkspace(w, decision)
             \/ ReadPaper(w) \/ Prepare(w) \/ Check(w) \/ Replace(w) \/ Sync(w) \/ WriteFails(w) \/ Crash(w)
      PROVE  OutcomesAreTrue'
  BY <1>1, <1>2, <1>3 DEF LockWorkspace, ReadPaper, Prepare, Check, Replace, Sync, SyncedAs, WriteFails, Crash, Goes
<1>4. ASSUME ~\E w \in Process :
                 \/ \E decision \in Decisions : LockWorkspace(w, decision)
                 \/ ReadPaper(w) \/ Prepare(w) \/ Check(w) \/ Replace(w) \/ Sync(w) \/ WriteFails(w) \/ Crash(w)
      PROVE  answer' = answer
  BY <1>4 DEF Next, Preview, PreviewFails, Confirm, Recheck, Capture, Trust, Delete, Conclude, ResetFails,
       ResetStep, ResetOnly, Edit, NewDirectory, ConfigChanges, NativeSave, Outside
<1> QED BY <1>1, <1>3, <1>4

LEMMA NamedStep == SaidInv /\ Next => NamedInv'
<1> SUFFICES ASSUME SaidInv, Next PROVE NamedInv'
  OBVIOUS
<1> USE DEF SaidInv, NamedInv, Resetting
<1>0. reset \in Reset
  BY DEF FilesInv, TypeOK
<1>1. CASE reset' = reset
  BY <1>1
<1>2. CASE Confirm
  BY <1>0, <1>2 DEF Confirm, Reset
<1>3. CASE Recheck
  <2>1. reset.step = "guarded" /\ reset' \in {[reset EXCEPT !.step = "idle", !.result = "failed", !.plan = None],
                                              [reset EXCEPT !.step = "idle", !.result = "success", !.plan = None],
                                              [reset EXCEPT !.step = "located", !.named = TRUE]}
    BY <1>3 DEF Recheck, Ends
  <2> QED BY <1>0, <2>1 DEF Reset
<1>4. CASE Capture \/ Trust
  <2>1. CASE reset' = [reset EXCEPT !.step = "captured", !.custody = root] /\ reset.step = "located"
    BY <1>0, <2>1 DEF Reset
  <2>2. CASE reset' = [reset EXCEPT !.step = "trusted"] /\ reset.step = "captured"
    BY <1>0, <2>2 DEF Reset
  <2>3. CASE Ends("failed") /\ reset.step \in {"located", "captured"}
    BY <1>0, <2>3 DEF Ends, Reset
  <2> QED BY <1>4, <2>1, <2>2, <2>3 DEF Capture, Trust
<1>5. CASE Delete
  <2>1. CASE reset' = LeftBehind
    BY <1>0, <1>5, <2>1 DEF Delete, LeftBehind, Reset
  <2>2. CASE reset' = [reset EXCEPT !.step = "emptied", !.custody = None, !.named = FALSE]
    BY <1>0, <1>5, <2>2 DEF Delete, Reset
  <2> QED BY <1>5, <2>1, <2>2 DEF Delete
<1>6. CASE Conclude \/ ResetFails
  BY <1>0, <1>6 DEF Conclude, ResetFails, Ends, Reset
<1>7. ASSUME ~(Confirm \/ Recheck \/ Capture \/ Trust \/ Delete \/ Conclude \/ ResetFails) PROVE reset' = reset
  BY <1>7 DEF Next, LockWorkspace, ReadPaper, Prepare, Check, Replace, Sync, WriteFails, Crash, WriterOnly,
       Preview, PreviewFails, Edit, NewDirectory, ConfigChanges, NativeSave, Outside
<1> QED BY <1>1, <1>2, <1>3, <1>4, <1>5, <1>6, <1>7

LEMMA SaidNext == SaidInv /\ [Next]_vars => SaidInv'
<1> SUFFICES ASSUME SaidInv, [Next]_vars PROVE SaidInv'
  OBVIOUS
<1>1. FilesInv'
  BY FilesNext DEF SaidInv
<1>2. CASE UNCHANGED vars
  <2>1. WindowInv' /\ OutcomesAreTrue' /\ NamedInv'
    BY <1>2 DEF vars, disk, history, SaidInv, WindowInv, OutcomesAreTrue, NamedInv, Resetting
  <2> QED BY <1>1, <2>1 DEF SaidInv
<1>3. CASE Next
  BY <1>1, <1>3, WindowStep, OutcomeStep, NamedStep DEF SaidInv
<1> QED BY <1>2, <1>3

\* Whatever processes, directories and edits there are: an edit is lost only in the window that is
\* admitted, a decision says truly whether it wrote, and a Reset names the tree it left behind.
THEOREM WritesStayTrue == Spec => []WritesAreTrue
<1>1. Init => SaidInv
  BY FilesInit DEF SaidInv, Init, WindowInv, Idle, OutcomesAreTrue, NamedInv, Resetting
<1>2. SaidInv => WritesAreTrue
  BY DEF SaidInv, FilesInv, WindowInv, NamedInv, Resetting, WritesAreTrue, OnlyTheWindowLoses, LeftoversAreNamed
<1> QED BY <1>1, <1>2, SaidNext, PTL DEF Spec

\* No directory is emptied that the user did not confirm, nor while a native save of any process
\* holds the guard.
THEOREM DeletionWaitsForSaves == Spec => DeletionIsGuarded
<1>1. FilesInv /\ [Next]_vars => [deleted' # deleted => ~native /\ deleted' \subseteq confirmed]_vars
  <2> SUFFICES ASSUME FilesInv, Next, deleted' # deleted PROVE ~native /\ deleted' \subseteq confirmed
    OBVIOUS
  <2>1. Delete
    BY DEF Next, LockWorkspace, ReadPaper, Prepare, Check, Replace, Sync, WriteFails, Crash, WriterOnly, disk,
         Preview, PreviewFails, Confirm, Recheck, Capture, Trust, Conclude, ResetFails, Edit, NewDirectory,
         ConfigChanges, NativeSave
  <2>2. ~native
    BY <2>1 DEF Delete, Resetting, FilesInv, ResetGuarded
  <2>3. deleted' \subseteq confirmed' /\ confirmed' = confirmed
    BY <2>1, FilesNext DEF Delete, ResetStep, FilesInv, OnlyConfirmedIsDeleted
  <2> QED BY <2>2, <2>3
<1> QED BY <1>1, FilesInvariant, PTL DEF Spec, DeletionIsGuarded

-----------------------------------------------------------------------------
(***************************************************************************)
(* Materialization: a Run makes each note once                             *)
(***************************************************************************)
MatSteps == {"idle", "prepare", "create", "recheck", "write", "done"}
Brought == UNION {{b[j] : j \in DOMAIN b} : b \in Batch}
MadePapers == {PaperOf(p, paper) : p \in PaperId, paper \in Brought}
MadeAuthors == {AuthorNote(a) : a \in Author}
PaperTexts == PaperText \cup MadePapers \cup {Absent}
AuthorTexts == AuthorText \cup MadeAuthors \cup {Absent}

NotesTypes ==
    /\ notes \in [PaperPath -> PaperTexts] /\ authors \in [AuthorPath -> AuthorTexts]
    /\ step \in MatSteps /\ run \in 0 .. MaxRuns /\ incoming \in Batch \cup {<<>>}
    /\ at \in [paper : Nat \ {0}, author : Nat \ {0}]
    /\ index \in [Key -> SUBSET AuthorPath] /\ target \in AuthorPath \cup {Absent}
    /\ links \in [1 .. MaxPapers -> Seq(AuthorPath)] /\ pending \in Seq(Nat) /\ created \in SUBSET PaperId
    /\ edits \in Nat /\ scanned \in [PaperPath -> PaperTexts] /\ touched \in BOOLEAN

Working == step \in {"prepare", "create", "recheck"}
Queued == {pending[n] : n \in 1 .. Len(pending)}

\* Where the loops are, and what is resolved of the Paper at hand
LoopsInPlace ==
    /\ step # "idle" => run > 0
    /\ (step \in {"create", "recheck"}) = (target # Absent)
    /\ step \in {"create", "recheck"} => InHand /\ matches[at.paper] = "new"
    /\ Working => /\ at.paper \in DOMAIN incoming
                  /\ Len(links[at.paper]) = at.author - 1 /\ at.author <= Len(incoming[at.paper].authors) + 1
                  /\ \A i \in 1 .. MaxPapers : i > at.paper => links[i] = <<>>

\* A Paper that is queued or made is new, and each of its authors is resolved.
Ready(i) == /\ i \in DOMAIN incoming /\ matches[i] = "new" /\ Len(links[i]) = Len(incoming[i].authors)
            /\ Working => i < at.paper

OnlyReadyIsMade ==
    /\ \A i \in Queued : Ready(i)
    /\ \A p \in created : p = <<run, p[2]>> /\ Ready(p[2])
    /\ created = made
    /\ step = "idle" => pending = <<>> /\ created = {}

\* What the matching says is of what was scanned, and unless an editor acted since, the notes are
\* those that were scanned and those this Run made.
ScanStands ==
    /\ step # "idle" => \A i \in DOMAIN incoming :
                            matches[i] = "new" => Complete(scanned) /\ Match(scanned, incoming, i) = "new"
    /\ step # "idle" /\ ~touched =>
          notes = [p \in PaperPath |-> IF p \in created THEN PaperNote(p[2]) ELSE scanned[p]]

LinkFits(i, k) ==
    /\ authors[links[i][k]] # Absent
    /\ authors[links[i][k]].type = "author" => Compatible(authors[links[i][k]], incoming[i].authors[k])
LinksStand ==
    step # "idle" /\ ~touched => \A i \in DOMAIN incoming : \A k \in DOMAIN links[i] : LinkFits(i, k)

\* As long as no editor acted: the index finds every Author note by each of its keys, the one at hand
\* excepted, which is made for its author or found already.
Indexed(p) == \A k \in Keys(authors[p]) : p \in index[k]
AuthorsApart ==
    edits = 0 =>
        /\ \A p \in AuthorPath : authors[p] \in MadeAuthors \cup {Absent}
        /\ \A p, q \in AuthorPath :
              p # q /\ authors[p] # Absent /\ authors[q] # Absent => Keys(authors[p]) \cap Keys(authors[q]) = {}
        /\ Working =>
              /\ \A k \in Key : \A p \in index[k] : authors[p] # Absent
              /\ \A p \in AuthorPath : authors[p] # Absent /\ ~(step = "recheck" /\ p = target) => Indexed(p)
        /\ step = "create" =>
              /\ authors[target] = Absent
              /\ \A p \in AuthorPath : authors[p] # Absent => Keys(authors[p]) \cap Keys(TheAuthor) = {}
        /\ step = "recheck" => authors[target] # Absent /\ (authors[target] = AuthorNote(TheAuthor) \/ Indexed(target))

NotesInv == NotesTypes /\ LoopsInPlace /\ OnlyReadyIsMade /\ ScanStands /\ LinksStand /\ AuthorsApart

-----------------------------------------------------------------------------
(* What the code is given and what it makes *)
LEMMA IncomingFx ==
    ASSUME NotesTypes
    PROVE  /\ Len(incoming) \in Nat /\ DOMAIN incoming = 1 .. Len(incoming) /\ Len(incoming) <= MaxPapers
           /\ \A i \in DOMAIN incoming : /\ i \in 1 .. MaxPapers /\ incoming \in Batch
                                         /\ incoming[i].authors \in Seq(Author)
                                         /\ Len(incoming[i].authors) <= MaxAuthors
<1>1. CASE incoming = <<>>
    BY <1>1, NotesAssumption
<1>2. CASE incoming \in Batch
  <2>1. incoming \in Seq({incoming[i] : i \in DOMAIN incoming}) /\ Len(incoming) <= MaxPapers
      BY <1>2, NotesAssumption
  <2>2. Len(incoming) \in Nat /\ DOMAIN incoming = 1 .. Len(incoming)
      BY <2>1
  <2> QED
      BY <1>2, <2>1, <2>2, NotesAssumption
<1> QED
    BY <1>1, <1>2 DEF NotesTypes

LEMMA AuthorFx ==
    ASSUME NotesTypes, NEW i \in DOMAIN incoming, NEW k \in 1 .. Len(incoming[i].authors)
    PROVE  incoming[i].authors[k] \in Author /\ k \in 1 .. MaxAuthors
<1>1. incoming[i].authors \in Seq(Author) /\ Len(incoming[i].authors) <= MaxAuthors
    BY IncomingFx
<1>2. Len(incoming[i].authors) \in Nat
    BY <1>1
<1> QED
    BY <1>1, <1>2, NotesAssumption

LEMMA AuthorNoteFx ==
    ASSUME NEW a \in Author
    PROVE  /\ AuthorNote(a) \in MadeAuthors /\ AuthorNote(a) # Absent /\ AuthorNote(a).type = "author"
           /\ Keys(AuthorNote(a)) = Keys(a) /\ Keys(a) \subseteq Key /\ AuthorNote(a).name = a.name
           /\ Compatible(AuthorNote(a), a)
<1>1. /\ AuthorNote(a) \in MadeAuthors /\ AuthorNote(a) # Absent /\ AuthorNote(a).type = "author"
      /\ Keys(AuthorNote(a)) = Keys(a) /\ AuthorNote(a).name = a.name
    BY NotesAssumption DEF MadeAuthors, AuthorNote, Keys
<1>2. Keys(a) \subseteq Key
    BY DEF Key
<1>3. \A x, y \in Keys(a) : x[1] = y[1] => x = y
    BY DEF Keys
<1>4. \A x \in Keys(a) : x[1] \in {"openalex", "orcid"}
    BY DEF Keys
<1>5. Compatible(AuthorNote(a), a)
  <2> DEFINE note == AuthorNote(a)
             shared == {ns \in {"openalex", "orcid"} : \E x \in Keys(note), y \in Keys(a) : x[1] = ns /\ y[1] = ns}
  <2>1. Compatible(note, a) = CASE Keys(a) # {} /\ Keys(note) # {} ->
                     shared # {} /\ \A ns \in shared : \A x \in Keys(note), y \in Keys(a) :
                                                    (x[1] = ns /\ y[1] = ns) => x = y
          [] Keys(note) # {} /\ Keys(a) = {} -> FALSE
          [] OTHER -> note.name = a.name
      BY DEF Compatible
  <2>2. Keys(note) = Keys(a) /\ note.name = a.name
      BY <1>1
  <2>3. Keys(a) # {} => shared # {}
      BY <1>4, <2>2
  <2>4. \A ns \in shared : \A x \in Keys(note), y \in Keys(a) : (x[1] = ns /\ y[1] = ns) => x = y
      BY <1>3, <2>2
  <2> HIDE DEF note, shared
  <2>5. Compatible(note, a)
      BY <2>1, <2>2, <2>3, <2>4
  <2> QED
      BY <2>5 DEF note
<1> QED
    BY <1>1, <1>2, <1>5

LEMMA MadeFx ==
    ASSUME NEW note \in MadeAuthors
    PROVE  note.type = "author" /\ note # Absent /\ Keys(note) \subseteq Key
<1>1. PICK a \in Author : note = AuthorNote(a)
    BY DEF MadeAuthors
<1> QED
    BY <1>1, AuthorNoteFx

LEMMA PaperNoteFx ==
    ASSUME NotesTypes, NEW i \in DOMAIN incoming, run > 0
    PROVE  /\ <<run, i>> \in PaperId /\ <<run, i>> \in PaperPath /\ PaperNote(i) \in PaperTexts
           /\ PaperNote(i) # Absent /\ Dois(PaperNote(i)) = {incoming[i].doi} \ {Absent, Bad}
<1>1. run \in 1 .. MaxRuns /\ i \in 1 .. MaxPapers /\ incoming \in Batch
    BY IncomingFx, NotesAssumption DEF NotesTypes
<1>2. <<run, i>> \in PaperId
    BY <1>1 DEF PaperId
<1>3. PaperNote(i) \in MadePapers /\ PaperNote(i) # Absent
  <2>1. incoming[i] \in Brought
      BY <1>1 DEF Brought
  <2>2. PaperNote(i) \in MadePapers
      BY <1>2, <2>1 DEF MadePapers, PaperNote
  <2>3. PaperNote(i) # Absent
      BY <1>1, <1>2, NotesAssumption DEF PaperNote
  <2> QED
      BY <2>2, <2>3
<1>4. Dois(PaperNote(i)) = {incoming[i].doi} \ {Absent, Bad}
    BY DEF Dois, PaperNote, PaperOf
<1> QED
    BY <1>2, <1>3, <1>4 DEF PaperPath, PaperTexts

LEMMA MatchFx ==
    ASSUME NEW text, NEW batch, NEW i \in DOMAIN batch, Match(text, batch, i) = "new"
    PROVE  /\ batch[i].doi \notin {Absent, Bad} /\ WithDoi(text, batch[i].doi) = {}
           /\ \A j \in DOMAIN batch : batch[j].doi = batch[i].doi => j = i
BY DEF Match

LEMMA StemFx ==
    ASSUME NotesTypes, run > 0, NEW i \in DOMAIN incoming, NEW k \in 1 .. Len(incoming[i].authors)
    PROVE  Stem(incoming[i].authors[k], i, k) \in AuthorPath
<1> DEFINE a == incoming[i].authors[k]
<1>1. a \in Author /\ k \in 1 .. MaxAuthors /\ <<run, i>> \in PaperId
    BY AuthorFx, PaperNoteFx
<1> HIDE DEF a
<1>2. Keys(a) \subseteq Key
    BY <1>1, AuthorNoteFx
<1>3. a.openalex # Absent => <<"openalex", a.openalex>> \in Keys(a)
    BY DEF Keys
<1>4. a.orcid # Absent => <<"orcid", a.orcid>> \in Keys(a)
    BY DEF Keys
<1>5. <<"unidentified", <<run, i>>, k>> \in {"unidentified"} \X PaperId \X (1 .. MaxAuthors)
    BY <1>1
<1>6. Stem(a, i, k) \in AuthorPath
    BY <1>2, <1>3, <1>4, <1>5 DEF Stem, AuthorPath
<1> QED
    BY <1>6 DEF a

-----------------------------------------------------------------------------
(* The two loops *)
LEMMA InHandFx ==
    ASSUME NotesInv, Working
    PROVE  /\ run > 0 /\ at.paper \in DOMAIN incoming /\ at.paper \in Nat /\ at.author \in Nat \ {0}
           /\ Len(incoming[at.paper].authors) \in Nat
           /\ links[at.paper] \in Seq(AuthorPath) /\ Len(links[at.paper]) = at.author - 1
           /\ InHand => /\ TheAuthor \in Author /\ at.author \in 1 .. Len(incoming[at.paper].authors)
                        /\ Stem(TheAuthor, at.paper, at.author) \in AuthorPath
           /\ ~InHand => Len(links[at.paper]) = Len(incoming[at.paper].authors)
<1>1. /\ run > 0 /\ at.paper \in DOMAIN incoming /\ at.paper \in Nat /\ at.author \in Nat \ {0}
      /\ Len(links[at.paper]) = at.author - 1 /\ at.author <= Len(incoming[at.paper].authors) + 1
    BY DEF NotesInv, LoopsInPlace, NotesTypes, Working
<1>2. /\ Len(incoming) \in Nat /\ at.paper <= Len(incoming) /\ at.paper \in 1 .. MaxPapers
      /\ incoming[at.paper].authors \in Seq(Author)
    BY <1>1, IncomingFx DEF NotesInv
<1>3. Len(incoming[at.paper].authors) \in Nat
    BY <1>2
<1>4. links[at.paper] \in Seq(AuthorPath)
    BY <1>2 DEF NotesInv, NotesTypes
<1>5. InHand <=> (at.author <= Len(incoming[at.paper].authors))
    BY <1>2 DEF InHand
<1>6. ASSUME InHand
      PROVE  /\ TheAuthor \in Author /\ at.author \in 1 .. Len(incoming[at.paper].authors)
             /\ Stem(TheAuthor, at.paper, at.author) \in AuthorPath
  <2>1. at.author \in 1 .. Len(incoming[at.paper].authors)
      BY <1>1, <1>3, <1>5, <1>6
  <2> QED
      BY <1>1, <2>1, AuthorFx, StemFx DEF NotesInv, TheAuthor
<1>7. ~InHand => Len(links[at.paper]) = Len(incoming[at.paper].authors)
    BY <1>1, <1>3, <1>5
<1> QED
    BY <1>1, <1>3, <1>4, <1>6, <1>7

\* On to the next Paper: the links there are not begun.
LEMMA OnwardFx ==
    ASSUME NotesInv, Working, Onward, UNCHANGED <<run, incoming, matches, links>>
    PROVE  /\ at' \in [paper : Nat \ {0}, author : Nat \ {0}] /\ at'.paper = at.paper + 1 /\ target' = Absent
           /\ step' \in {"prepare", "write"} /\ LoopsInPlace'
<1>1. /\ run > 0 /\ at.paper \in DOMAIN incoming /\ at.paper \in Nat
    BY InHandFx
<1>2. at' = [paper |-> at.paper + 1, author |-> 1] /\ target' = Absent /\ step' = IF MorePapers THEN "prepare" ELSE "write"
    BY DEF Onward
<1>3. at'.paper = at.paper + 1 /\ at'.author = 1 /\ at' \in [paper : Nat \ {0}, author : Nat \ {0}]
    BY <1>1, <1>2
<1>4. \A i \in 1 .. MaxPapers : i > at.paper => links'[i] = <<>>
    BY DEF NotesInv, LoopsInPlace
<1>5. ASSUME step' = "prepare"
      PROVE  /\ at'.paper \in DOMAIN incoming'
             /\ Len(links'[at'.paper]) = at'.author - 1 /\ at'.author <= Len(incoming'[at'.paper].authors) + 1
             /\ \A i \in 1 .. MaxPapers : i > at'.paper => links'[i] = <<>>
  <2>1. at.paper < Len(incoming)
      BY <1>2, <1>5 DEF MorePapers
  <2>2. at'.paper \in DOMAIN incoming
      BY <1>1, <1>3, <2>1, IncomingFx DEF NotesInv
  <2>3. at'.paper \in 1 .. MaxPapers /\ incoming[at'.paper].authors \in Seq(Author)
      BY <2>2, IncomingFx DEF NotesInv
  <2>4. links'[at'.paper] = <<>> /\ \A i \in 1 .. MaxPapers : i > at'.paper => links'[i] = <<>>
      BY <1>1, <1>3, <1>4, <2>3, NotesAssumption
  <2>5. Len(incoming[at'.paper].authors) \in Nat
      BY <2>3
  <2> QED
      BY <1>3, <2>2, <2>4, <2>5
<1>6. step' \in {"prepare", "write"}
    BY <1>2
<1>7. LoopsInPlace'
    BY <1>1, <1>2, <1>5, <1>6 DEF LoopsInPlace, Working
<1> QED
    BY <1>2, <1>3, <1>6, <1>7

\* A Paper that is ready stays ready while the loops go on.
LEMMA ReadyStays ==
    ASSUME NotesInv, UNCHANGED <<run, incoming, matches>>, NEW i, Ready(i),
           Working' => Working /\ at'.paper >= at.paper /\ at'.paper \in Nat,
           Working => \A j \in DOMAIN incoming : j # at.paper => links'[j] = links[j],
           ~Working => links' = links,
           \/ links' = links
           \/ Working /\ Working'
    PROVE  Ready(i)'
<1>1. i \in DOMAIN incoming /\ matches[i] = "new" /\ Len(links[i]) = Len(incoming[i].authors)
    BY DEF Ready
<1>2. i \in Nat
    BY <1>1, IncomingFx DEF NotesInv
<1>3. Working => i < at.paper /\ at.paper \in Nat
    BY InHandFx DEF Ready
<1>4. links'[i] = links[i]
    BY <1>1, <1>2, <1>3
<1>5. Working' => i < at'.paper
    BY <1>2, <1>3
<1> QED
    BY <1>1, <1>4, <1>5 DEF Ready

LEMMA MovesOn ==
    ASSUME NotesInv, Working, Onward,
           UNCHANGED <<notesDisk, run, incoming, matches, index, links, created, edits, scanned, made, touched>>,
           pending' \in Seq(Nat),
           \A i \in Queued' : i \in Queued \/ (i = at.paper /\ matches[i] = "new" /\ ~InHand),
           step = "recheck" /\ edits = 0 => Indexed(target)
    PROVE  NotesInv'
<1>1. /\ at' \in [paper : Nat \ {0}, author : Nat \ {0}] /\ at'.paper = at.paper + 1 /\ target' = Absent
      /\ step' \in {"prepare", "write"} /\ LoopsInPlace'
    BY OnwardFx
<1>2. /\ at.paper \in DOMAIN incoming /\ at.paper \in Nat
      /\ ~InHand => Len(links[at.paper]) = Len(incoming[at.paper].authors)
    BY InHandFx
<1>3. NotesTypes'
    BY <1>1 DEF NotesInv, NotesTypes, MatSteps, notesDisk
<1>4. \A i : Ready(i) => Ready(i)'
    BY <1>1, <1>2, ReadyStays
<1>5. OnlyReadyIsMade'
  <2>1. \A i \in Queued' : Ready(i)'
    <3> SUFFICES ASSUME NEW i \in Queued' PROVE Ready(i)'
        OBVIOUS
    <3>1. CASE i \in Queued
        BY <1>4, <3>1 DEF NotesInv, OnlyReadyIsMade
    <3>2. CASE i = at.paper /\ matches[i] = "new" /\ ~InHand
        BY <1>1, <1>2, <3>2 DEF Ready
    <3> QED
        BY <3>1, <3>2
  <2>2. \A p \in created' : p = <<run', p[2]>> /\ Ready(p[2])'
      BY <1>4 DEF NotesInv, OnlyReadyIsMade
  <2> QED
      BY <1>1, <2>1, <2>2 DEF NotesInv, OnlyReadyIsMade
<1>6. ScanStands'
    BY DEF NotesInv, ScanStands, PaperNote, notesDisk, Working
<1>7. LinksStand'
    BY DEF NotesInv, LinksStand, LinkFits, notesDisk, Working
<1>8. AuthorsApart'
  <2>1. authors' = authors /\ index' = index /\ edits' = edits /\ step' # "create" /\ step' # "recheck"
      BY <1>1 DEF notesDisk
  <2> SUFFICES ASSUME edits = 0 PROVE AuthorsApart'
      BY <2>1 DEF AuthorsApart
  <2>2. \A p \in AuthorPath : authors[p] # Absent => Indexed(p)
      BY DEF NotesInv, AuthorsApart, Working
  <2>3. \A p \in AuthorPath : authors'[p] # Absent => Indexed(p)'
      BY <2>1, <2>2 DEF Indexed
  <2> QED
      BY <2>1, <2>3 DEF NotesInv, AuthorsApart
<1> QED
    BY <1>1, <1>3, <1>5, <1>6, <1>7, <1>8 DEF NotesInv

-----------------------------------------------------------------------------
(* The Run *)
LEMMA BeginKeeps == ASSUME NotesInv, Begin PROVE NotesInv'
<1>1. /\ run \in Nat /\ run < MaxRuns /\ run' = run + 1 /\ incoming' \in Batch /\ authors' = authors
      /\ notes' = notes /\ scanned' = notes /\ touched' = FALSE /\ index' = ScanAuthors /\ edits' = edits
      /\ step' = IF incoming' = <<>> THEN "write" ELSE "prepare"
      /\ at' = [paper |-> 1, author |-> 1] /\ target' = Absent
      /\ links' = [i \in 1 .. MaxPapers |-> <<>>] /\ pending' = <<>> /\ created' = {} /\ made' = {}
    BY NotesAssumption DEF Begin, Fresh, notesDisk, NotesInv, NotesTypes
<1>2. step' \in {"prepare", "write"}
    BY <1>1
<1>3. index' \in [Key -> SUBSET AuthorPath]
    BY <1>1 DEF ScanAuthors
<1>4. NotesTypes'
  <2>1. links' \in [1 .. MaxPapers -> Seq(AuthorPath)]
      BY <1>1
  <2>2. run' \in 0 .. MaxRuns /\ pending' \in Seq(Nat)
      BY <1>1, NotesAssumption
  <2>3. at' \in [paper : Nat \ {0}, author : Nat \ {0}] /\ target' \in AuthorPath \cup {Absent}
      BY <1>1
  <2>4. step' \in MatSteps /\ incoming' \in Batch \cup {<<>>} /\ created' \in SUBSET PaperId
      BY <1>1, <1>2 DEF MatSteps
  <2> QED
      BY <1>1, <1>3, <2>1, <2>2, <2>3, <2>4 DEF NotesInv, NotesTypes
<1>5. LoopsInPlace'
  <2>1. \A i \in 1 .. MaxPapers : links'[i] = <<>>
      BY <1>1
  <2>2. ASSUME step' = "prepare"
        PROVE  /\ at'.paper \in DOMAIN incoming' /\ Len(links'[at'.paper]) = at'.author - 1
               /\ at'.author <= Len(incoming'[at'.paper].authors) + 1
    <3>1. incoming' \in Seq({incoming'[i] : i \in DOMAIN incoming'}) /\ Len(incoming') <= MaxPapers
        BY <1>1, NotesAssumption
    <3>2. incoming' # <<>>
        BY <1>1, <2>2
    <3>3. 1 \in DOMAIN incoming' /\ 1 \in 1 .. MaxPapers
        BY <3>1, <3>2, NotesAssumption
    <3>4. Len(incoming'[1].authors) \in Nat
        BY <1>1, <3>3, NotesAssumption
    <3> QED
        BY <1>1, <2>1, <3>3, <3>4
  <2> QED
      BY <1>1, <1>2, <2>1, <2>2 DEF LoopsInPlace, Working
<1>6. OnlyReadyIsMade'
    BY <1>1, <1>2 DEF OnlyReadyIsMade, Queued
<1>7. ScanStands'
  <2>1. \A i \in DOMAIN incoming' : matches'[i] = "new" => Complete(notes) /\ Match(notes, incoming', i) = "new"
      BY DEF Begin
  <2>2. notes' = [p \in PaperPath |-> IF p \in created' THEN PaperNote(p[2])' ELSE scanned'[p]]
      BY <1>1 DEF NotesInv, NotesTypes
  <2> QED
      BY <1>1, <2>1, <2>2 DEF ScanStands
<1>8. LinksStand'
  <2>1. \A i \in DOMAIN incoming' : i \in 1 .. MaxPapers
    <3>1. incoming' \in Seq({incoming'[i] : i \in DOMAIN incoming'}) /\ Len(incoming') <= MaxPapers
        BY <1>1, NotesAssumption
    <3> QED
        BY <3>1, NotesAssumption
  <2>2. \A i \in DOMAIN incoming' : DOMAIN links'[i] = {}
      BY <1>1, <2>1
  <2> QED
      BY <2>2 DEF LinksStand
<1>9. AuthorsApart'
  <2> SUFFICES ASSUME edits = 0 PROVE AuthorsApart'
      BY <1>1 DEF AuthorsApart
  <2>1. \A p \in AuthorPath : authors[p] \in MadeAuthors \cup {Absent}
      BY DEF NotesInv, AuthorsApart
  <2>2. \A k \in Key : index'[k] = {p \in AuthorPath : authors[p] # Absent /\ authors[p].type = "author" /\ k \in Keys(authors[p])}
      BY <1>1 DEF ScanAuthors
  <2>3. \A p \in AuthorPath : authors[p] # Absent => authors[p].type = "author" /\ Keys(authors[p]) \subseteq Key
      BY <2>1, MadeFx
  <2>4. \A p \in AuthorPath : authors'[p] # Absent => Indexed(p)'
      BY <1>1, <2>2, <2>3 DEF Indexed
  <2>5. \A k \in Key : \A p \in index'[k] : authors'[p] # Absent
      BY <1>1, <2>2
  <2> QED
      BY <1>1, <1>2, <2>4, <2>5 DEF NotesInv, AuthorsApart
<1> QED
    BY <1>4, <1>5, <1>6, <1>7, <1>8, <1>9 DEF NotesInv

LEMMA SkipKeeps == ASSUME NotesInv, SkipPaper PROVE NotesInv'
BY MovesOn DEF SkipPaper, Working, Queued, NotesInv, NotesTypes

LEMMA QueueKeeps == ASSUME NotesInv, QueuePaper PROVE NotesInv'
<1>1. step = "prepare" /\ matches[at.paper] = "new" /\ ~InHand /\ Working
    BY DEF QueuePaper, Working
<1>2. at.paper \in Nat /\ pending \in Seq(Nat)
    BY <1>1, InHandFx DEF NotesInv, NotesTypes
<1>3. pending' \in Seq(Nat) /\ \A i \in Queued' : i \in Queued \/ i = at.paper
  <2>1. CASE pending' = pending
      BY <1>2, <2>1 DEF Queued
  <2>2. CASE pending' = Append(pending, at.paper)
    <3>1. pending' \in Seq(Nat) /\ Len(pending') = Len(pending) + 1
        BY <1>2, <2>2
    <3>2. \A n \in 1 .. Len(pending') : \/ n \in 1 .. Len(pending) /\ pending'[n] = pending[n]
                                        \/ pending'[n] = at.paper
        BY <1>2, <2>2
    <3> QED
        BY <3>1, <3>2 DEF Queued
  <2> QED
      BY <2>1, <2>2 DEF QueuePaper
<1> QED
    BY <1>1, <1>3, MovesOn DEF QueuePaper

LEMMA ChooseKeeps == ASSUME NotesInv, ChooseAuthor PROVE NotesInv'
<1>1. /\ step = "prepare" /\ matches[at.paper] = "new" /\ InHand /\ Working
      /\ UNCHANGED <<notesDisk, run, incoming, matches, index, links, pending, created, edits, scanned, made, touched>>
    BY DEF ChooseAuthor, Working
<1>2. /\ TheAuthor \in Author /\ Stem(TheAuthor, at.paper, at.author) \in AuthorPath /\ Keys(TheAuthor) \subseteq Key
      /\ run > 0
    BY <1>1, InHandFx, AuthorNoteFx
<1>3. CASE Onward
    BY <1>1, <1>3, MovesOn DEF Queued, NotesInv, NotesTypes
<1>4. CASE ~Onward
  <2> DEFINE candidates == UNION {index[k] : k \in Keys(TheAuthor)}
             p == IF candidates = {} THEN Stem(TheAuthor, at.paper, at.author) ELSE CHOOSE q \in candidates : TRUE
  <2>1. target' = p /\ step' = (IF authors[p] = Absent THEN "create" ELSE "recheck") /\ at' = at
      BY <1>4 DEF ChooseAuthor
  <2>2. candidates \subseteq AuthorPath /\ \A k \in Keys(TheAuthor) : index[k] \subseteq candidates
      BY <1>2 DEF NotesInv, NotesTypes
  <2>3. p \in AuthorPath /\ (candidates # {} => p \in candidates)
      BY <1>2, <2>2
  <2>4. \A q \in candidates : \E k \in Key : q \in index[k]
      BY <1>2
  <2> HIDE DEF candidates, p
  <2>5. step' \in {"create", "recheck"} /\ target' # Absent /\ target' \in AuthorPath
      BY <2>1, <2>3, NotesAssumption
  <2>6. NotesTypes'
      BY <1>1, <2>1, <2>5 DEF NotesInv, NotesTypes, MatSteps, notesDisk
  <2>7. LoopsInPlace'
      BY <1>1, <1>2, <2>1, <2>5 DEF NotesInv, LoopsInPlace, Working, InHand
  <2>8. OnlyReadyIsMade'
      BY <1>1, <2>1, <2>5 DEF NotesInv, OnlyReadyIsMade, Ready, Queued, Working
  <2>9. ScanStands' /\ LinksStand'
      BY <1>1, <2>5 DEF NotesInv, ScanStands, PaperNote, notesDisk, LinksStand, LinkFits
  <2>10. AuthorsApart'
    <3> SUFFICES ASSUME edits = 0 PROVE AuthorsApart'
        BY <1>1 DEF AuthorsApart
    <3>1. \A q \in AuthorPath : authors[q] # Absent => Indexed(q)
        BY <1>1 DEF NotesInv, AuthorsApart, Working
    <3>2. \A k \in Key : \A q \in index[k] : authors[q] # Absent
        BY <1>1 DEF NotesInv, AuthorsApart, Working
    <3>3. ASSUME step' = "create"
          PROVE  /\ authors[p] = Absent
                 /\ \A q \in AuthorPath : authors[q] # Absent => Keys(authors[q]) \cap Keys(TheAuthor) = {}
      <4>1. authors[p] = Absent
          BY <2>1, <3>3
      <4>2. candidates = {}
          BY <2>3, <2>4, <3>2, <4>1
      <4>3. \A k \in Keys(TheAuthor) : index[k] = {}
          BY <2>2, <4>2
      <4> QED
          BY <3>1, <4>1, <4>3 DEF Indexed
    <3>4. step' = "recheck" => authors[p] # Absent /\ Indexed(p)
        BY <2>1, <2>3, <3>1
    <3>5. authors' = authors /\ index' = index /\ edits' = edits /\ TheAuthor' = TheAuthor
        BY <1>1, <2>1 DEF notesDisk, TheAuthor
    <3>6. \A q \in AuthorPath : authors'[q] # Absent => Indexed(q)'
        BY <3>1, <3>5 DEF Indexed
    <3>7. step' = "recheck" => Indexed(target)'
        BY <2>1, <3>4, <3>5 DEF Indexed
    <3>8. /\ \A q \in AuthorPath : authors[q] \in MadeAuthors \cup {Absent}
          /\ \A q, r \in AuthorPath :
                q # r /\ authors[q] # Absent /\ authors[r] # Absent => Keys(authors[q]) \cap Keys(authors[r]) = {}
        BY DEF NotesInv, AuthorsApart
    <3> QED
        BY <2>1, <3>2, <3>3, <3>4, <3>5, <3>6, <3>7, <3>8 DEF AuthorsApart
  <2> QED
      BY <2>6, <2>7, <2>8, <2>9, <2>10 DEF NotesInv
<1> QED
    BY <1>3, <1>4

LEMMA CreateKeeps == ASSUME NotesInv, CreateAuthor PROVE NotesInv'
<1>1. /\ step = "create" /\ Working
      /\ UNCHANGED <<notes, inbox, run, incoming, matches, index, links, pending, created, edits, scanned, made, touched>>
    BY DEF CreateAuthor, Working
<1>2. InHand /\ matches[at.paper] = "new" /\ target \in AuthorPath /\ target # Absent
    BY <1>1 DEF NotesInv, LoopsInPlace, NotesTypes
<1>3. TheAuthor \in Author /\ run > 0
    BY <1>1, <1>2, InHandFx
<1>4. CASE UNCHANGED authors /\ Onward
    BY <1>1, <1>4, MovesOn DEF Queued, NotesInv, NotesTypes, notesDisk
<1>5. CASE ~(UNCHANGED authors /\ Onward)
  <2>1. authors' = Kept(authors, target, AuthorNote(TheAuthor)) /\ step' = "recheck" /\ at' = at /\ target' = target
      BY <1>5 DEF CreateAuthor
  <2>2. AuthorNote(TheAuthor) \in AuthorTexts
      BY <1>3, AuthorNoteFx DEF AuthorTexts
  <2>3. authors \in [AuthorPath -> AuthorTexts]
      BY DEF NotesInv, NotesTypes
  <2>4. /\ authors' \in [AuthorPath -> AuthorTexts]
        /\ \A q \in AuthorPath : authors[q] # Absent => authors'[q] = authors[q]
        /\ \A q \in AuthorPath : q # target => authors'[q] = authors[q]
        /\ authors[target] = Absent => authors'[target] = AuthorNote(TheAuthor)
      BY <1>2, <2>1, <2>2, <2>3 DEF Kept
  <2>5. NotesTypes'
      BY <1>1, <2>1, <2>4 DEF NotesInv, NotesTypes, MatSteps
  <2>6. LoopsInPlace'
      BY <1>1, <1>2, <1>3, <2>1 DEF NotesInv, LoopsInPlace, Working, InHand
  <2>7. OnlyReadyIsMade'
      BY <1>1, <2>1 DEF NotesInv, OnlyReadyIsMade, Ready, Queued, Working
  <2>8. ScanStands'
      BY <1>1, <2>1 DEF NotesInv, ScanStands, PaperNote
  <2>9. LinksStand'
    <3> SUFFICES ASSUME ~touched, NEW i \in DOMAIN incoming, NEW k \in DOMAIN links[i] PROVE LinkFits(i, k)'
        BY <1>1, <2>1 DEF LinksStand
    <3>1. LinkFits(i, k)
        BY <1>1 DEF NotesInv, LinksStand
    <3>2. links[i][k] \in AuthorPath
        BY IncomingFx DEF NotesInv, NotesTypes
    <3> QED
        BY <1>1, <2>4, <3>1, <3>2 DEF LinkFits
  <2>10. AuthorsApart'
    <3> SUFFICES ASSUME edits = 0 PROVE AuthorsApart'
        BY <1>1 DEF AuthorsApart
    <3>1. /\ authors[target] = Absent
          /\ \A q \in AuthorPath : authors[q] # Absent => Keys(authors[q]) \cap Keys(TheAuthor) = {}
        BY <1>1 DEF NotesInv, AuthorsApart
    <3>2. /\ authors'[target] = AuthorNote(TheAuthor) /\ AuthorNote(TheAuthor) # Absent
          /\ AuthorNote(TheAuthor) \in MadeAuthors /\ Keys(AuthorNote(TheAuthor)) = Keys(TheAuthor)
        BY <1>3, <2>4, <3>1, AuthorNoteFx
    <3>3. \A q \in AuthorPath : authors'[q] \in MadeAuthors \cup {Absent}
        BY <2>4, <3>2 DEF NotesInv, AuthorsApart
    <3>4. \A q, r \in AuthorPath :
              q # r /\ authors'[q] # Absent /\ authors'[r] # Absent => Keys(authors'[q]) \cap Keys(authors'[r]) = {}
        BY <2>4, <3>1, <3>2 DEF NotesInv, AuthorsApart
    <3>5. \A k \in Key : \A q \in index[k] : q \in AuthorPath /\ authors[q] # Absent
        BY <1>1 DEF NotesInv, NotesTypes, AuthorsApart
    <3>6. \A q \in AuthorPath : authors[q] # Absent => Indexed(q)
        BY <1>1 DEF NotesInv, AuthorsApart
    <3>7. \A q \in AuthorPath : authors'[q] # Absent /\ q # target => Indexed(q)'
        BY <1>1, <2>4, <3>6 DEF Indexed
    <3>8. TheAuthor' = TheAuthor
        BY <1>1, <2>1 DEF TheAuthor
    <3> QED
        BY <1>1, <2>1, <2>4, <3>2, <3>3, <3>4, <3>5, <3>7, <3>8 DEF AuthorsApart
  <2> QED
      BY <2>5, <2>6, <2>7, <2>8, <2>9, <2>10 DEF NotesInv
<1> QED
    BY <1>4, <1>5

LEMMA RecheckKeeps == ASSUME NotesInv, RecheckAuthor PROVE NotesInv'
<1> DEFINE note == authors[target]
           deterministic == target = Stem(TheAuthor, at.paper, at.author)
           usable == note # Absent /\ (CASE note.type = "author" -> Compatible(note, TheAuthor)
                                         [] note.type = "opaque" -> deterministic
                                         [] OTHER -> FALSE)
<1>1. /\ step = "recheck" /\ Working
      /\ UNCHANGED <<notesDisk, run, incoming, matches, pending, created, edits, scanned, made, touched>>
    BY DEF RecheckAuthor, Working
<1>2. InHand /\ matches[at.paper] = "new" /\ target \in AuthorPath /\ target # Absent
    BY <1>1 DEF NotesInv, LoopsInPlace, NotesTypes
<1>3. /\ TheAuthor \in Author /\ run > 0 /\ at.paper \in DOMAIN incoming /\ at.paper \in Nat /\ at.author \in Nat \ {0}
      /\ Len(incoming[at.paper].authors) \in Nat /\ at.author \in 1 .. Len(incoming[at.paper].authors)
      /\ links[at.paper] \in Seq(AuthorPath) /\ Len(links[at.paper]) = at.author - 1
    BY <1>1, <1>2, InHandFx
<1>4. IF usable
      THEN /\ links' = [links EXCEPT ![at.paper] = Append(@, target)]
           /\ index' = [k \in Key |-> IF note.type = "author" /\ k \in Keys(note)
                                      THEN index[k] \cup {target} ELSE index[k]]
           /\ at' = [at EXCEPT !.author = @ + 1] /\ step' = "prepare" /\ target' = Absent
      ELSE Onward /\ UNCHANGED <<links, index>>
    BY DEF RecheckAuthor
<1>5. edits = 0 => /\ note \in MadeAuthors /\ note.type = "author" /\ note # Absent
                   /\ note = AuthorNote(TheAuthor) \/ Indexed(target)
    BY <1>1, <1>2, MadeFx DEF NotesInv, AuthorsApart
<1>6. CASE ~usable
  <2>1. edits = 0 => Indexed(target)
    <3> SUFFICES ASSUME edits = 0, note = AuthorNote(TheAuthor) PROVE FALSE
        BY <1>5
    <3>1. note # Absent /\ note.type = "author" /\ Compatible(note, TheAuthor)
        BY <1>3, AuthorNoteFx
    <3> QED
        BY <1>6, <3>1
  <2> QED
      BY <1>1, <1>4, <1>6, <2>1, MovesOn DEF Queued, NotesInv, NotesTypes
<1>7. CASE usable
  <2>1. note # Absent /\ (note.type = "author" => Compatible(note, TheAuthor))
      BY <1>7
  <2>2. /\ links' = [links EXCEPT ![at.paper] = Append(@, target)]
        /\ index' = [k \in Key |-> IF note.type = "author" /\ k \in Keys(note)
                                   THEN index[k] \cup {target} ELSE index[k]]
        /\ at' = [at EXCEPT !.author = @ + 1] /\ step' = "prepare" /\ target' = Absent
      BY <1>4, <1>7
  <2> HIDE DEF note, deterministic, usable
  <2>3. authors' = authors /\ notes' = notes
      BY <1>1 DEF notesDisk
  <2>4. at.paper \in 1 .. MaxPapers /\ \A i \in DOMAIN incoming : i \in 1 .. MaxPapers /\ i \in Nat
      BY <1>3, IncomingFx DEF NotesInv
  <2>5. /\ links' \in [1 .. MaxPapers -> Seq(AuthorPath)]
        /\ \A i \in 1 .. MaxPapers : i # at.paper => links'[i] = links[i]
        /\ links'[at.paper] = Append(links[at.paper], target)
      BY <1>2, <2>2, <2>4 DEF NotesInv, NotesTypes
  <2>6. /\ Len(links'[at.paper]) = at.author
        /\ \A k \in DOMAIN links'[at.paper] : \/ k \in DOMAIN links[at.paper] /\ links'[at.paper][k] = links[at.paper][k]
                                              \/ k = at.author /\ links'[at.paper][k] = target
      BY <1>2, <1>3, <2>5
  <2>7. at' \in [paper : Nat \ {0}, author : Nat \ {0}] /\ at'.paper = at.paper /\ at'.author = at.author + 1
      BY <1>3, <2>2 DEF NotesInv, NotesTypes
  <2>8. /\ index' \in [Key -> SUBSET AuthorPath]
        /\ \A k \in Key : index[k] \subseteq index'[k] /\ index'[k] \subseteq index[k] \cup {target}
        /\ \A k \in Key : note.type = "author" /\ k \in Keys(note) => target \in index'[k]
      BY <1>2, <2>2 DEF NotesInv, NotesTypes
  <2>9. NotesTypes'
      BY <1>1, <2>2, <2>5, <2>7, <2>8 DEF NotesInv, NotesTypes, MatSteps, notesDisk
  <2>10. LoopsInPlace'
    <3>1. \A i \in 1 .. MaxPapers : i > at.paper => links'[i] = <<>>
        BY <1>1, <1>3, <2>4, <2>5 DEF NotesInv, LoopsInPlace
    <3>2. at'.author <= Len(incoming[at.paper].authors) + 1 /\ Len(links'[at.paper]) = at'.author - 1
        BY <1>3, <2>6, <2>7
    <3> QED
        BY <1>1, <1>3, <2>2, <2>7, <3>1, <3>2 DEF LoopsInPlace, Working
  <2>11. OnlyReadyIsMade'
    <3>1. \A i : Ready(i) => Ready(i)'
        BY <1>1, <1>3, <2>2, <2>4, <2>5, <2>7, ReadyStays DEF Working
    <3> QED
        BY <1>1, <2>2, <3>1 DEF NotesInv, OnlyReadyIsMade, Queued
  <2>12. ScanStands'
      BY <1>1, <2>2 DEF NotesInv, ScanStands, PaperNote, notesDisk
  <2>13. LinksStand'
    <3> SUFFICES ASSUME ~touched, NEW i \in DOMAIN incoming, NEW k \in DOMAIN links'[i] PROVE LinkFits(i, k)'
        BY <1>1 DEF LinksStand
    <3>1. CASE k \in DOMAIN links[i] /\ links'[i][k] = links[i][k]
        BY <1>1, <2>3, <3>1 DEF NotesInv, LinksStand, LinkFits
    <3>2. CASE i = at.paper /\ k = at.author /\ links'[i][k] = target
        BY <1>1, <2>1, <2>3, <3>2 DEF LinkFits, note, TheAuthor
    <3> QED
        BY <2>4, <2>5, <2>6, <3>1, <3>2
  <2>14. AuthorsApart'
    <3> SUFFICES ASSUME edits = 0 PROVE AuthorsApart'
        BY <1>1 DEF AuthorsApart
    <3>1. /\ \A k \in Key : \A p \in index[k] : authors[p] # Absent
          /\ \A p \in AuthorPath : authors[p] # Absent /\ p # target => Indexed(p)
          /\ \A p \in AuthorPath : authors[p] \in MadeAuthors \cup {Absent}
        BY <1>1 DEF NotesInv, AuthorsApart
    <3>2. \A k \in Key : \A p \in index'[k] : authors'[p] # Absent
        BY <2>1, <2>3, <2>8, <3>1 DEF note
    <3>3. \A p \in AuthorPath : authors[p] # Absent => Keys(authors[p]) \subseteq Key
        BY <3>1, MadeFx
    <3>4. \A p \in AuthorPath : authors'[p] # Absent /\ p # target => Indexed(p)'
        BY <2>3, <2>8, <3>1, <3>3 DEF Indexed
    <3>5. \A k \in Keys(authors[target]) : target \in index'[k]
        BY <1>2, <1>5, <2>1, <2>8, <3>3 DEF note
    <3>6. \A p \in AuthorPath : authors'[p] # Absent => Indexed(p)'
        BY <2>3, <3>4, <3>5 DEF Indexed
    <3> QED
        BY <1>1, <2>2, <2>3, <3>2, <3>6 DEF NotesInv, AuthorsApart
  <2> QED
      BY <2>9, <2>10, <2>11, <2>12, <2>13, <2>14 DEF NotesInv
<1> QED
    BY <1>6, <1>7

LEMMA WriteKeeps == ASSUME NotesInv, WritePaper PROVE NotesInv'
<1>1. /\ step = "write" /\ ~Working /\ ~Working' /\ pending # <<>>
      /\ UNCHANGED <<authors, inbox, step, run, incoming, at, matches, index, target, links, edits, scanned, touched>>
    BY DEF WritePaper, Working
<1> DEFINE i == Head(pending)
           p == <<run, i>>
<1>2. /\ pending' = Tail(pending)
      /\ \/ /\ notes' = Kept(notes, p, PaperNote(i))
            /\ created' = (IF notes[p] = Absent THEN created \cup {p} ELSE created)
            /\ made' = (IF notes' # notes THEN made \cup {p} ELSE made)
         \/ UNCHANGED <<notes, created, made>>
    BY DEF WritePaper
<1>3. i \in Queued /\ pending' \in Seq(Nat) /\ Queued' \subseteq Queued
  <2>1. pending \in Seq(Nat)
      BY DEF NotesInv, NotesTypes
  <2>2. i = pending[1] /\ 1 \in 1 .. Len(pending)
      BY <1>1, <2>1
  <2>3. pending' \in Seq(Nat) /\ Len(pending') = Len(pending) - 1
      BY <1>1, <1>2, <2>1
  <2>4. \A n \in 1 .. Len(pending') : pending'[n] = pending[n + 1] /\ n + 1 \in 1 .. Len(pending)
      BY <1>1, <1>2, <2>1, <2>3
  <2> QED
      BY <2>2, <2>3, <2>4 DEF Queued
<1>4. Ready(i) /\ run > 0 /\ i \in DOMAIN incoming
    BY <1>1, <1>3 DEF NotesInv, OnlyReadyIsMade, LoopsInPlace, Ready
<1>5. p \in PaperId /\ p \in PaperPath /\ PaperNote(i) \in PaperTexts /\ PaperNote(i) # Absent
    BY <1>4, PaperNoteFx DEF NotesInv
<1>6. p = <<run, p[2]>> /\ p[2] = i
    OBVIOUS
<1>7. notes \in [PaperPath -> PaperTexts] /\ created = made
    BY DEF NotesInv, NotesTypes, OnlyReadyIsMade
<1> HIDE DEF i, p
<1>8. \/ notes[p] = Absent /\ notes' = [notes EXCEPT ![p] = PaperNote(i)] /\ created' = created \cup {p} /\ made' = created'
      \/ notes' = notes /\ created' = created /\ made' = created'
  <2>1. CASE UNCHANGED <<notes, created, made>>
      BY <1>7, <2>1
  <2>2. CASE /\ notes' = Kept(notes, p, PaperNote(i))
             /\ created' = (IF notes[p] = Absent THEN created \cup {p} ELSE created)
             /\ made' = (IF notes' # notes THEN made \cup {p} ELSE made)
    <3>1. CASE notes[p] # Absent
        BY <1>7, <2>2, <3>1 DEF Kept
    <3>2. CASE notes[p] = Absent
      <4>1. notes' = [notes EXCEPT ![p] = PaperNote(i)]
          BY <2>2, <3>2 DEF Kept
      <4>2. notes'[p] # notes[p]
          BY <1>5, <1>7, <3>2, <4>1
      <4> QED
          BY <1>7, <2>2, <3>2, <4>1, <4>2
    <3> QED
        BY <3>1, <3>2
  <2> QED
      BY <1>2, <2>1, <2>2
<1>9. notes' \in [PaperPath -> PaperTexts] /\ created' \in SUBSET PaperId
  <2>1. notes' \in [PaperPath -> PaperTexts]
      BY <1>5, <1>7, <1>8
  <2>2. created \in SUBSET PaperId
      BY DEF NotesInv, NotesTypes
  <2> QED
      BY <1>5, <1>8, <2>1, <2>2
<1>10. NotesTypes'
    BY <1>1, <1>3, <1>9 DEF NotesInv, NotesTypes
<1>11. LoopsInPlace'
    BY <1>1 DEF NotesInv, LoopsInPlace, InHand
<1>12. OnlyReadyIsMade'
  <2>1. \A j : Ready(j) => Ready(j)'
      BY <1>1 DEF Ready
  <2>2. created' \subseteq created \cup {p}
      BY <1>8
  <2>3. \A q \in created' : q = <<run, q[2]>> /\ Ready(q[2])
      BY <1>4, <1>6, <2>2 DEF NotesInv, OnlyReadyIsMade
  <2>4. \A j \in Queued' : Ready(j)
      BY <1>3 DEF NotesInv, OnlyReadyIsMade
  <2> QED
      BY <1>1, <1>8, <2>1, <2>3, <2>4 DEF OnlyReadyIsMade
<1>13. ScanStands'
  <2>1. ASSUME ~touched
        PROVE notes' = [q \in PaperPath |-> IF q \in created' THEN PaperNote(q[2]) ELSE scanned[q]]
    <3>1. notes = [q \in PaperPath |-> IF q \in created THEN PaperNote(q[2]) ELSE scanned[q]]
        BY <1>1, <2>1 DEF NotesInv, ScanStands
    <3> QED
        BY <1>5, <1>6, <1>8, <3>1
  <2> QED
      BY <1>1, <2>1 DEF NotesInv, ScanStands, PaperNote
<1>14. LinksStand'
    BY <1>1 DEF NotesInv, LinksStand, LinkFits
<1>15. AuthorsApart'
    BY <1>1 DEF NotesInv, AuthorsApart
<1> QED
    BY <1>10, <1>11, <1>12, <1>13, <1>14, <1>15 DEF NotesInv

LEMMA FinishKeeps == ASSUME NotesInv, Finish PROVE NotesInv'
<1>1. /\ step = "write" /\ step' = "done" /\ ~Working /\ ~Working'
      /\ UNCHANGED <<notes, authors, run, incoming, at, matches, index, target, links, pending, created, edits, scanned, made, touched>>
    BY DEF Finish, Working
<1>2. NotesTypes' /\ LoopsInPlace'
    BY <1>1 DEF NotesInv, NotesTypes, MatSteps, LoopsInPlace
<1>3. OnlyReadyIsMade'
    BY <1>1 DEF NotesInv, OnlyReadyIsMade, Ready, Queued
<1>4. ScanStands' /\ LinksStand'
    BY <1>1 DEF NotesInv, ScanStands, PaperNote, LinksStand, LinkFits
<1>5. AuthorsApart'
    BY <1>1 DEF NotesInv, AuthorsApart
<1> QED
    BY <1>2, <1>3, <1>4, <1>5 DEF NotesInv

LEMMA StopKeeps == ASSUME NotesInv, RunStops PROVE NotesInv'
<1>1. /\ step' = "idle" /\ ~Working' /\ at' = [paper |-> 1, author |-> 1] /\ target' = Absent
      /\ links' = [i \in 1 .. MaxPapers |-> <<>>] /\ pending' = <<>> /\ created' = {} /\ made' = {}
      /\ index' = [k \in Key |-> {}] /\ UNCHANGED <<notes, authors, run, incoming, edits, scanned, touched>>
    BY DEF RunStops, Fresh, Working, notesDisk
<1>2. links' \in [1 .. MaxPapers -> Seq(AuthorPath)] /\ pending' \in Seq(Nat) /\ index' \in [Key -> SUBSET AuthorPath]
    BY <1>1
<1>3. at' \in [paper : Nat \ {0}, author : Nat \ {0}] /\ target' \in AuthorPath \cup {Absent} /\ step' \in MatSteps
    BY <1>1 DEF MatSteps
<1>4. NotesTypes'
    BY <1>1, <1>2, <1>3 DEF NotesInv, NotesTypes
<1>5. LoopsInPlace' /\ ScanStands' /\ LinksStand'
    BY <1>1 DEF LoopsInPlace, ScanStands, LinksStand
<1>6. OnlyReadyIsMade'
    BY <1>1 DEF OnlyReadyIsMade, Queued
<1>7. AuthorsApart'
    BY <1>1 DEF NotesInv, AuthorsApart
<1> QED
    BY <1>4, <1>5, <1>6, <1>7 DEF NotesInv

LEMMA EditKeeps == ASSUME NotesInv, EditNotes PROVE NotesInv'
<1>1. edits' = edits + 1 /\ touched' = TRUE /\ UNCHANGED <<work, scanned, made>> /\ edits' # 0
    BY DEF EditNotes, NotesInv, NotesTypes
<1>2. \/ notes' = notes
      \/ \E p \in PaperPath, text \in PaperText \cup {Absent} : notes' = [notes EXCEPT ![p] = text]
  <2>1. \A p \in Drawn \cup OwnName : p \in PaperPath
      BY NotesAssumption DEF Drawn, PaperPath, PaperId, NotesInv, NotesTypes
  <2> QED
      BY <2>1 DEF EditNotes
<1>3. \/ authors' = authors
      \/ \E p \in AuthorPath, text \in AuthorText \cup {Absent} : authors' = [authors EXCEPT ![p] = text]
  <2>1. Drawn \subseteq PaperId
      BY NotesAssumption DEF Drawn, PaperId, NotesInv, NotesTypes
  <2>2. Key \cup ({"unidentified"} \X Drawn \X (1 .. MaxAuthors)) \cup OwnName \subseteq AuthorPath
      BY <2>1 DEF AuthorPath
  <2> QED
      BY <2>2 DEF EditNotes
<1>4. notes' \in [PaperPath -> PaperTexts]
    BY <1>2 DEF NotesInv, NotesTypes, PaperTexts
<1>5. authors' \in [AuthorPath -> AuthorTexts]
    BY <1>3 DEF NotesInv, NotesTypes, AuthorTexts
<1>6. edits' \in Nat
    BY <1>1 DEF NotesInv, NotesTypes
<1>7. NotesTypes'
    BY <1>1, <1>4, <1>5, <1>6 DEF NotesInv, NotesTypes, work
<1>8. LoopsInPlace'
    BY <1>1 DEF NotesInv, LoopsInPlace, InHand, Working, work
<1>9. OnlyReadyIsMade'
    BY <1>1 DEF NotesInv, OnlyReadyIsMade, Ready, Queued, Working, work
<1>10. ScanStands' /\ LinksStand' /\ AuthorsApart'
    BY <1>1 DEF NotesInv, ScanStands, LinksStand, AuthorsApart, work
<1> QED
    BY <1>7, <1>8, <1>9, <1>10 DEF NotesInv

LEMMA InitNotes == MatInit => NotesInv
<1> SUFFICES ASSUME MatInit PROVE NotesInv
    OBVIOUS
<1>1. /\ notes = [p \in PaperPath |-> Absent] /\ authors = [p \in AuthorPath |-> Absent]
      /\ step = "idle" /\ run = 0 /\ incoming = <<>> /\ at = [paper |-> 1, author |-> 1] /\ target = Absent
      /\ index = [k \in Key |-> {}] /\ links = [i \in 1 .. MaxPapers |-> <<>>] /\ pending = <<>>
      /\ created = {} /\ made = {} /\ edits = 0 /\ scanned = notes /\ touched = FALSE
    BY DEF MatInit
<1>2. notes \in [PaperPath -> PaperTexts] /\ authors \in [AuthorPath -> AuthorTexts]
    BY <1>1 DEF PaperTexts, AuthorTexts
<1>3. links \in [1 .. MaxPapers -> Seq(AuthorPath)] /\ pending \in Seq(Nat) /\ index \in [Key -> SUBSET AuthorPath]
    BY <1>1
<1>4. at \in [paper : Nat \ {0}, author : Nat \ {0}] /\ step \in MatSteps /\ run \in 0 .. MaxRuns
    BY <1>1, NotesAssumption DEF MatSteps
<1>5. NotesTypes
    BY <1>1, <1>2, <1>3, <1>4 DEF NotesTypes
<1>6. LoopsInPlace /\ ScanStands /\ LinksStand /\ ~Working
    BY <1>1 DEF LoopsInPlace, ScanStands, LinksStand, Working
<1>7. OnlyReadyIsMade
    BY <1>1 DEF OnlyReadyIsMade, Queued
<1>8. AuthorsApart
    BY <1>1, <1>6 DEF AuthorsApart
<1> QED
    BY <1>5, <1>6, <1>7, <1>8 DEF NotesInv

LEMMA NotesStep == ASSUME NotesInv, [MatNext]_matVars PROVE NotesInv'
<1>1. CASE UNCHANGED matVars
  <2>. /\ UNCHANGED <<notes, authors, inbox>> /\ UNCHANGED <<step, run, incoming, at, matches>>
       /\ UNCHANGED <<index, target, links, pending, created>> /\ UNCHANGED <<edits, scanned, made, touched>>
      BY <1>1 DEF matVars, notesDisk, work
  <2>1. NotesTypes'
      BY DEF NotesInv, NotesTypes
  <2>2. LoopsInPlace'
      BY DEF NotesInv, LoopsInPlace, Working, InHand
  <2>3. OnlyReadyIsMade'
      BY DEF NotesInv, OnlyReadyIsMade, Queued, Ready, Working
  <2>4. ScanStands'
      BY DEF NotesInv, ScanStands, PaperNote
  <2>5. LinksStand'
      BY DEF NotesInv, LinksStand, LinkFits
  <2>6. AuthorsApart'
      BY DEF NotesInv, AuthorsApart, Working, TheAuthor, Indexed
  <2> QED
      BY <2>1, <2>2, <2>3, <2>4, <2>5, <2>6 DEF NotesInv
<1> QED
    BY <1>1, BeginKeeps, SkipKeeps, ChooseKeeps, CreateKeeps, RecheckKeeps, QueueKeeps, WriteKeeps, FinishKeeps,
       StopKeeps, EditKeeps DEF MatNext, RunStep

-----------------------------------------------------------------------------
(* What the invariant gives *)
LEMMA NotesEnd == NotesInv => NotesAreOnce
<1> SUFFICES ASSUME NotesInv PROVE NotesAreOnce
    OBVIOUS
<1>1. \A p \in created : /\ step # "idle" /\ run > 0 /\ p = <<run, p[2]>> /\ p[2] \in DOMAIN incoming
                         /\ p[2] \in 1 .. MaxPapers /\ matches[p[2]] = "new"
                         /\ Len(links[p[2]]) = Len(incoming[p[2]].authors)
    BY IncomingFx DEF NotesInv, OnlyReadyIsMade, LoopsInPlace, Ready
<1>2. MatTypeOK
  <2>1. \A p \in PaperPath : notes[p] # Absent => notes[p].type \in {"paper", "other", "broken"}
    <3> SUFFICES ASSUME NEW p \in PaperPath, notes[p] # Absent PROVE notes[p].type \in {"paper", "other", "broken"}
        OBVIOUS
    <3>1. notes[p] \in PaperText \cup MadePapers
        BY DEF NotesInv, NotesTypes, PaperTexts
    <3>2. \A note \in MadePapers : note.type = "paper"
        BY DEF MadePapers, PaperOf
    <3> QED
        BY <3>1, <3>2, NotesAssumption
  <2>2. \A i \in 1 .. MaxPapers : links[i] \in Seq(AuthorPath)
      BY DEF NotesInv, NotesTypes
  <2>3. \A i \in 1 .. MaxPapers : \A k \in DOMAIN links[i] : links[i][k] \in AuthorPath
      BY <2>2
  <2> QED
      BY <2>1, <2>3 DEF MatTypeOK, NotesInv, NotesTypes, MatSteps, LoopsInPlace, OnlyReadyIsMade
<1>3. NoDoubleCapture
  <2> SUFFICES ASSUME NEW p \in created
               PROVE  /\ Complete(scanned) /\ WithDoi(scanned, incoming[p[2]].doi) = {}
                      /\ touched \/ WithDoi(notes, incoming[p[2]].doi) = {p}
      BY DEF NoDoubleCapture
  <2> DEFINE doi == incoming[p[2]].doi
  <2>1. Complete(scanned) /\ Match(scanned, incoming, p[2]) = "new"
      BY <1>1 DEF NotesInv, ScanStands
  <2>2. /\ doi \notin {Absent, Bad} /\ WithDoi(scanned, doi) = {}
        /\ \A j \in DOMAIN incoming : incoming[j].doi = doi => j = p[2]
      BY <1>1, <2>1, MatchFx
  <2>3. ASSUME ~touched PROVE WithDoi(notes, doi) = {p}
    <3>1. notes = [q \in PaperPath |-> IF q \in created THEN PaperNote(q[2]) ELSE scanned[q]]
        BY <1>1, <2>3 DEF NotesInv, ScanStands
    <3>2. \A q \in created : /\ q = <<run, q[2]>> /\ q \in PaperPath /\ PaperNote(q[2]) # Absent
                             /\ Dois(PaperNote(q[2])) = {incoming[q[2]].doi} \ {Absent, Bad}
        BY <1>1, PaperNoteFx DEF NotesInv
    <3>3. p \in WithDoi(notes, doi)
        BY <2>2, <3>1, <3>2 DEF WithDoi, Notes
    <3>4. ASSUME NEW q \in WithDoi(notes, doi) PROVE q = p
      <4>1. q \in PaperPath /\ notes[q] # Absent /\ doi \in Dois(notes[q])
          BY DEF WithDoi, Notes
      <4>2. CASE q \in created
        <5>1. doi \in {incoming[q[2]].doi}
            BY <3>1, <3>2, <4>1, <4>2
        <5>2. q[2] = p[2]
            BY <1>1, <2>2, <4>2, <5>1
        <5> QED
            BY <3>2, <4>2, <5>2
      <4>3. CASE q \notin created
        <5>1. q \in WithDoi(scanned, doi)
            BY <3>1, <4>1, <4>3 DEF WithDoi, Notes
        <5> QED
            BY <2>2, <5>1
      <4> QED
          BY <4>2, <4>3
    <3> QED
        BY <3>3, <3>4
  <2> QED
      BY <2>1, <2>2, <2>3
<1>4. CreatedAreMade
    BY DEF CreatedAreMade, NotesInv, OnlyReadyIsMade
<1>5. OneNotePerAuthor
    BY DEF OneNotePerAuthor, NotesInv, AuthorsApart
<1>6. LinksResolve
  <2> SUFFICES ASSUME NEW p \in created
               PROVE  /\ Len(links[p[2]]) = Len(incoming[p[2]].authors)
                      /\ ~touched => \A k \in DOMAIN links[p[2]] : LinkFits(p[2], k)
      BY DEF LinksResolve, LinkFits
  <2> QED
      BY <1>1 DEF NotesInv, LinksStand
<1> QED
    BY <1>2, <1>3, <1>4, <1>5, <1>6 DEF NotesAreOnce

LEMMA RunCreates ==
    ASSUME NotesInv, RunStep
    PROVE  /\ \A p \in PaperPath : notes[p] # Absent => notes'[p] = notes[p]
           /\ \A p \in AuthorPath : authors[p] # Absent => authors'[p] = authors[p]
           /\ inbox # Absent => inbox' = inbox
<1>1. notes \in [PaperPath -> PaperTexts] /\ authors \in [AuthorPath -> AuthorTexts]
    BY DEF NotesInv, NotesTypes
<1>2. CASE UNCHANGED notesDisk
    BY <1>2 DEF notesDisk
<1>3. CASE CreateAuthor
    BY <1>1, <1>3 DEF CreateAuthor, Kept
<1>4. CASE WritePaper
    BY <1>1, <1>4 DEF WritePaper, Kept
<1>5. CASE Finish
    BY <1>5 DEF Finish
<1> QED
    BY <1>2, <1>3, <1>4, <1>5 DEF RunStep, Begin, SkipPaper, ChooseAuthor, RecheckAuthor, QueuePaper

\* Whatever the user's editor does meanwhile and wherever a Run stops: a Run makes no second Paper of
\* a DOI, counts exactly the files it made, and gives no author two notes (materialize_papers).
THEOREM EveryNoteIsMadeOnce == MatSpec => []NotesAreOnce
<1> QED
    BY InitNotes, NotesStep, NotesEnd, PTL DEF MatSpec

\* No step of a Run edits or removes a note that is there, whoever wrote it and whenever
\* (_create_file: the writes only create).
THEOREM RunsOnlyCreate == MatSpec => CreateOnly
<1>1. NotesInv /\ [MatNext]_matVars =>
          [RunStep => /\ \A p \in PaperPath : notes[p] # Absent => notes'[p] = notes[p]
                      /\ \A p \in AuthorPath : authors[p] # Absent => authors'[p] = authors[p]
                      /\ inbox # Absent => inbox' = inbox]_matVars
    BY RunCreates
<1> QED
    BY <1>1, InitNotes, NotesStep, PTL DEF MatSpec, CreateOnly

-----------------------------------------------------------------------------
(***************************************************************************)
(* OpenAlexDiscovery: what is called complete misses nothing               *)
(***************************************************************************)
\* What a trail is made of
Observations == [records : SUBSET Works, conflict : BOOLEAN, again : SUBSET Works,
                 status : {"complete", "partial", "failed"}]

PageFields(p) == p = [obtained |-> p.obtained, expected |-> p.expected, first |-> p.first, records |-> p.records,
                      seen |-> p.seen, affected |-> p.affected, conflicts |-> p.conflicts, repeats |-> p.repeats,
                      again |-> p.again]

DiscoveryTypes ==
    /\ exists \in SUBSET Works /\ start \subseteq exists
    /\ trail \in [SetOf(Sources) -> Seq(Observations)]
    /\ PageFields(page) /\ (stage # "works" => page = NoPage)

\* What a traversal has read: of a Source not affected every work seen, none counted twice unless a
\* work was served twice, which is of an affected Source
ReadRight(p) ==
    /\ p.obtained \in Nat /\ p.seen \subseteq Matches /\ p.records \subseteq Matches \ BelowFloor
    /\ p.again \subseteq Matches /\ p.conflicts \subseteq p.affected \cap SetOf(Group)
    /\ \A w \in p.again : SourceOf[w] \in p.affected
    /\ \A w \in p.seen \ BelowFloor : SourceOf[w] \in p.affected \/ w \in p.records
    /\ p.again = {} /\ ~(SetOf(Group) \subseteq p.affected) => Cardinality(p.seen) = p.obtained

\* What a finished traversal says of a Source: if it is complete, and no other Source's work was
\* served twice, it has every work there was, hence every record found before
Counted(o) == o.status = "complete" /\ o.again = {}
ObservedRight(s, o) ==
    /\ o.records \subseteq WorksOf(s) \cap exists
    /\ o.conflict => o.status # "complete"
    /\ o.status = "failed" => o.records = {}
    /\ Counted(o) => WorksOf(s) \cap start \subseteq o.records

TrailIsTrue ==
    \A s \in SetOf(Sources) : \A n \in 1 .. Len(trail[s]) :
        /\ ObservedRight(s, trail[s][n])
        /\ Counted(trail[s][n]) => \A m \in 1 .. n : trail[s][m].records \subseteq trail[s][n].records

DiscoveryInv == DiscoveryTypes /\ ReadRight(page) /\ TrailIsTrue

-----------------------------------------------------------------------------
LEMMA NothingRead == PageFields(NoPage) /\ ReadRight(NoPage)
BY FS_EmptySet DEF PageFields, ReadRight, NoPage

LEMMA MatchesFinite == ASSUME exists \in SUBSET Works
                       PROVE  Matches \subseteq Works /\ IsFiniteSet(Matches) /\ Cardinality(Matches) \in Nat
<1>1. Matches \subseteq Works
    BY DEF Matches, InGroup
<1> QED
    BY <1>1, DiscoveryAssumption, FS_Subset, FS_CardinalityType

\* A page folded in
LEMMA ReadKeeps ==
    ASSUME DiscoveryInv, NEW items \in SUBSET Matches, NEW damage \in Damage, NEW hurt \in items \cup {"none"}, NEW count,
           (damage = "none") <=> (hurt = "none")
    PROVE  /\ PageFields(Read(items, hurt, damage, count)) /\ ReadRight(Read(items, hurt, damage, count))
           /\ Read(items, hurt, damage, count).expected = count
<1> DEFINE twice == items \cap page.seen
           astray == \/ damage = "foreign"
                     \/ damage = "no_source" /\ Len(Group) > 1
           usable == items \ (IF astray \/ damage = "unusable" THEN {hurt} ELSE {})
           met == IF astray THEN items \ {hurt} ELSE items
           p == Read(items, hurt, damage, count)
           affected == page.affected \cup {SourceOf[w] : w \in twice \cap met}
                           \cup (IF astray THEN SetOf(Group)
                                 ELSE IF damage = "unusable" THEN {SourceOf[hurt]} ELSE {})
           conflicts == page.conflicts \cup (IF damage = "foreign" THEN SetOf(Group) ELSE {})
<1>1. /\ p.obtained = page.obtained + Cardinality(items) /\ p.expected = count
      /\ p.seen = page.seen \cup met /\ p.again = page.again \cup twice
      /\ p.records = page.records \cup (usable \ BelowFloor)
      /\ p.affected = affected /\ p.conflicts = conflicts /\ PageFields(p)
    BY DEF Read, PageFields
<1>2. /\ page.obtained \in Nat /\ page.seen \subseteq Matches /\ page.records \subseteq Matches \ BelowFloor
      /\ page.again \subseteq Matches /\ page.conflicts \subseteq page.affected \cap SetOf(Group)
      /\ \A w \in page.again : SourceOf[w] \in page.affected
      /\ \A w \in page.seen \ BelowFloor : SourceOf[w] \in page.affected \/ w \in page.records
      /\ page.again = {} /\ ~(SetOf(Group) \subseteq page.affected) => Cardinality(page.seen) = page.obtained
    BY DEF DiscoveryInv, ReadRight
<1>3. /\ usable \subseteq items /\ met \subseteq items
      /\ astray => met = items \ {hurt}
      /\ ~astray => met = items
      /\ ~astray /\ damage # "unusable" => usable = items
      /\ ~astray /\ damage = "unusable" => usable = items \ {hurt}
    OBVIOUS
<1>4. \A w \in items : w \in Works /\ SourceOf[w] \in SetOf(Group)
    BY DEF Matches, InGroup
<1>5. damage = "foreign" => astray
    OBVIOUS
<1>6. IsFiniteSet(items) /\ IsFiniteSet(page.seen) /\ Cardinality(items) \in Nat
    BY <1>2, MatchesFinite, FS_Subset, FS_CardinalityType DEF DiscoveryInv, DiscoveryTypes
<1> HIDE DEF astray, usable, met, p
<1>7. page.affected \subseteq p.affected /\ (astray => SetOf(Group) \subseteq p.affected)
      /\ (~astray /\ damage = "unusable" => SourceOf[hurt] \in p.affected)
      /\ \A w \in twice \cap met : SourceOf[w] \in p.affected
    BY <1>1
<1>8. p.obtained \in Nat /\ p.seen \subseteq Matches /\ p.records \subseteq Matches \ BelowFloor
    BY <1>1, <1>2, <1>3, <1>6
<1>9. p.again \subseteq Matches /\ p.conflicts \subseteq p.affected \cap SetOf(Group)
    BY <1>1, <1>2, <1>4, <1>5, <1>7
<1>10. \A w \in p.again : SourceOf[w] \in p.affected
    BY <1>1, <1>2, <1>3, <1>4, <1>7
<1>11. \A w \in p.seen \ BelowFloor : SourceOf[w] \in p.affected \/ w \in p.records
  <2> SUFFICES ASSUME NEW w \in met \ BelowFloor PROVE SourceOf[w] \in p.affected \/ w \in p.records
      BY <1>1, <1>2, <1>7
  <2> QED
      BY <1>1, <1>3, <1>4, <1>7
<1>12. p.again = {} /\ ~(SetOf(Group) \subseteq p.affected) => Cardinality(p.seen) = p.obtained
  <2> SUFFICES ASSUME p.again = {}, ~(SetOf(Group) \subseteq p.affected) PROVE Cardinality(p.seen) = p.obtained
      OBVIOUS
  <2>1. ~astray /\ ~(SetOf(Group) \subseteq page.affected) /\ page.again = {} /\ items \cap page.seen = {}
      BY <1>1, <1>7
  <2>2. p.seen = page.seen \cup items /\ Cardinality(page.seen) = page.obtained
      BY <1>1, <1>2, <1>3, <2>1
  <2>3. page.seen \cap items = {}
      BY <2>1
  <2>4. Cardinality(page.seen \cup items) = Cardinality(page.seen) + Cardinality(items) - Cardinality(page.seen \cap items)
      BY <1>6, FS_Union
  <2>5. Cardinality(page.seen \cap items) = 0
      BY <2>3, FS_EmptySet
  <2>6. Cardinality(p.seen) = page.obtained + Cardinality(items)
      BY <1>2, <1>6, <2>2, <2>4, <2>5
  <2> QED
      BY <1>1, <2>6
<1>13. ReadRight(p)
    BY <1>8, <1>9, <1>10, <1>11, <1>12 DEF ReadRight
<1> QED
    BY <1>1, <1>13 DEF p

\* What a traversal observed of one of its Sources
LEMMA ObservationFx ==
    ASSUME DiscoveryInv, NEW p, PageFields(p), ReadRight(p), NEW s \in SetOf(Group), NEW failed \in BOOLEAN,
           failed => SetOf(Group) \subseteq p.affected,
           ~failed => p.expected = p.obtained /\ p.expected \in {Cardinality(Matches), Cardinality(Matches) + 1}
    PROVE  LET o == Observation(s, p, failed)
           IN  /\ o \in Observations /\ ObservedRight(s, o)
               /\ Counted(o) => WorksOf(s) \cap exists \subseteq o.records
<1> DEFINE mine == {w \in p.records : SourceOf[w] = s}
           o == Observation(s, p, failed)
<1>1. /\ o.records = mine /\ o.conflict = (s \in p.conflicts)
      /\ o.again = p.again \ {w \in Works : SourceOf[w] = s}
      /\ o.status = IF s \notin p.affected THEN "complete"
                    ELSE IF mine # {} \/ ~failed THEN "partial" ELSE "failed"
      /\ o = [records |-> o.records, conflict |-> o.conflict, again |-> o.again, status |-> o.status]
    BY DEF Observation
<1>2. exists \in SUBSET Works /\ start \subseteq exists /\ Matches \subseteq exists /\ Matches \subseteq Works
    BY DEF DiscoveryInv, DiscoveryTypes, Matches
<1>3. /\ p.obtained \in Nat /\ p.seen \subseteq Matches /\ p.records \subseteq Matches \ BelowFloor
      /\ p.again \subseteq Matches /\ p.conflicts \subseteq p.affected \cap SetOf(Group)
      /\ \A w \in p.again : SourceOf[w] \in p.affected
      /\ \A w \in p.seen \ BelowFloor : SourceOf[w] \in p.affected \/ w \in p.records
      /\ p.again = {} /\ ~(SetOf(Group) \subseteq p.affected) => Cardinality(p.seen) = p.obtained
    BY DEF ReadRight
<1>4. mine \subseteq WorksOf(s) \cap exists
    BY <1>2, <1>3 DEF WorksOf
<1>5. o \in Observations
  <2>1. o.records \subseteq Works /\ o.conflict \in BOOLEAN /\ o.again \subseteq Works
        /\ o.status \in {"complete", "partial", "failed"}
      BY <1>1, <1>2, <1>3, <1>4
  <2> QED
      BY <1>1, <2>1 DEF Observations
<1>6. Counted(o) => WorksOf(s) \cap exists \subseteq o.records
  <2> SUFFICES ASSUME Counted(o), NEW w \in WorksOf(s) \cap exists PROVE w \in mine
      BY <1>1
  <2>1. s \notin p.affected /\ ~failed /\ p.again \subseteq {v \in Works : SourceOf[v] = s}
      BY <1>1 DEF Counted
  <2>2. p.again = {}
      BY <1>3, <2>1
  <2>3. Cardinality(p.seen) = p.obtained
      BY <1>3, <2>1, <2>2
  <2>4. IsFiniteSet(Matches) /\ Cardinality(Matches) \in Nat
      BY <1>2, MatchesFinite
  <2>5. Cardinality(p.seen) = Cardinality(Matches)
    <3>1. Cardinality(p.seen) <= Cardinality(Matches) /\ Cardinality(p.seen) \in Nat
        BY <1>3, <2>4, FS_Subset, FS_CardinalityType
    <3> QED
        BY <2>1, <2>3, <2>4, <3>1
  <2>6. p.seen = Matches
      BY <1>3, <2>4, <2>5, FS_Subset
  <2>7. w \in Matches \ BelowFloor /\ SourceOf[w] = s
      BY <1>2 DEF WorksOf, Matches, InGroup
  <2> QED
      BY <1>3, <2>1, <2>6, <2>7
<1>7. ObservedRight(s, o)
  <2>1. o.conflict => o.status # "complete"
      BY <1>1, <1>3
  <2>2. o.status = "failed" => o.records = {}
      BY <1>1
  <2>3. Counted(o) => WorksOf(s) \cap start \subseteq o.records
      BY <1>2, <1>6
  <2> QED
      BY <1>1, <1>4, <2>1, <2>2, <2>3 DEF ObservedRight
<1> QED
    BY <1>5, <1>6, <1>7 DEF o

LEMMA EndsKeeps ==
    ASSUME DiscoveryInv, NEW p, PageFields(p), ReadRight(p), NEW failed \in BOOLEAN, NEW terminal,
           TraversalEnds(p, failed, terminal), UNCHANGED <<exists, stage, start>>,
           ~failed => p.expected = p.obtained /\ p.expected \in {Cardinality(Matches), Cardinality(Matches) + 1}
    PROVE  DiscoveryInv'
<1> DEFINE q == IF failed THEN [p EXCEPT !.affected = SetOf(Group)] ELSE p
           o(s) == Observation(s, q, failed)
<1>1. /\ trail' = [s \in DOMAIN trail |-> IF s \in SetOf(Group) THEN Append(trail[s], o(s)) ELSE trail[s]]
      /\ page' = NoPage
    BY DEF TraversalEnds
<1>2. PageFields(q) /\ ReadRight(q) /\ (failed => SetOf(Group) \subseteq q.affected)
      /\ (~failed => q.expected = q.obtained /\ q.expected \in {Cardinality(Matches), Cardinality(Matches) + 1})
  <2>1. CASE ~failed
      BY <2>1
  <2>2. CASE failed
    <3>1. /\ q.obtained = p.obtained /\ q.records = p.records /\ q.seen = p.seen /\ q.affected = SetOf(Group)
          /\ q.conflicts = p.conflicts /\ q.again = p.again /\ q.expected = p.expected
          /\ PageFields(q)
        BY <2>2 DEF PageFields
    <3> HIDE DEF q
    <3>2. \A w \in Matches : SourceOf[w] \in SetOf(Group)
        BY DEF Matches, InGroup
    <3> QED
        BY <2>2, <3>1, <3>2 DEF ReadRight
  <2> QED
      BY <2>1, <2>2
<1> HIDE DEF q
<1>3. \A s \in SetOf(Group) : /\ o(s) \in Observations /\ ObservedRight(s, o(s))
                              /\ Counted(o(s)) => WorksOf(s) \cap exists \subseteq o(s).records
    BY <1>2, ObservationFx
<1> HIDE DEF o
<1>4. trail \in [SetOf(Sources) -> Seq(Observations)]
    BY DEF DiscoveryInv, DiscoveryTypes
<1>5. trail' \in [SetOf(Sources) -> Seq(Observations)]
  <2>1. \A s \in SetOf(Sources) : trail[s] \in Seq(Observations)
      BY <1>4
  <2>2. \A s \in SetOf(Sources) : s \in SetOf(Group) => Append(trail[s], o(s)) \in Seq(Observations)
      BY <1>3, <2>1
  <2> QED
      BY <1>1, <1>4, <2>1, <2>2
<1>6. DiscoveryTypes'
    BY <1>1, <1>5, NothingRead DEF DiscoveryInv, DiscoveryTypes, PageFields
<1>7. ReadRight(page)'
    BY <1>1, FS_EmptySet DEF ReadRight, NoPage
<1>8. TrailIsTrue'
  <2> SUFFICES ASSUME NEW s \in SetOf(Sources), NEW n \in 1 .. Len(trail'[s])
               PROVE  /\ ObservedRight(s, trail'[s][n])
                      /\ Counted(trail'[s][n]) => \A m \in 1 .. n : trail'[s][m].records \subseteq trail'[s][n].records
      BY DEF TrailIsTrue, ObservedRight, Counted, WorksOf
  <2>1. trail[s] \in Seq(Observations) /\ Len(trail[s]) \in Nat
      BY <1>4
  <2>2. \A k \in 1 .. Len(trail[s]) :
            /\ ObservedRight(s, trail[s][k])
            /\ Counted(trail[s][k]) => \A m \in 1 .. k : trail[s][m].records \subseteq trail[s][k].records
      BY DEF DiscoveryInv, TrailIsTrue
  <2>3. CASE s \notin SetOf(Group)
      BY <1>1, <1>4, <2>2, <2>3
  <2>4. CASE s \in SetOf(Group)
    <3>1. trail'[s] = Append(trail[s], o(s))
        BY <1>1, <1>4, <2>4
    <3>2. /\ Len(trail'[s]) = Len(trail[s]) + 1 /\ trail'[s][Len(trail[s]) + 1] = o(s)
          /\ \A k \in 1 .. Len(trail[s]) : trail'[s][k] = trail[s][k]
        BY <2>1, <3>1
    <3>3. CASE n \in 1 .. Len(trail[s])
      <4>1. \A m \in 1 .. n : m \in 1 .. Len(trail[s])
          BY <2>1, <3>3
      <4> QED
          BY <2>2, <3>2, <3>3, <4>1
    <3>4. CASE n = Len(trail[s]) + 1
      <4>1. \A m \in 1 .. n : m \in 1 .. Len(trail[s]) \/ m = n
          BY <2>1, <3>4
      <4>2. \A m \in 1 .. Len(trail[s]) : trail[s][m].records \subseteq WorksOf(s) \cap exists
          BY <2>2 DEF ObservedRight
      <4>3. trail'[s][n] = o(s)
          BY <3>2, <3>4
      <4> QED
          BY <1>3, <2>4, <3>2, <4>1, <4>2, <4>3
    <3> QED
        BY <2>1, <3>2, <3>3, <3>4
  <2> QED
      BY <2>3, <2>4
<1> QED
    BY <1>6, <1>7, <1>8 DEF DiscoveryInv

\* What the traversals found so far stands while nothing is read.
LEMMA NoTraversal ==
    ASSUME DiscoveryInv, UNCHANGED <<trail, start>>, exists \subseteq exists', exists' \subseteq Works,
           PageFields(page)', ReadRight(page)', stage' # "works" => page' = NoPage
    PROVE  DiscoveryInv'
<1>1. DiscoveryTypes'
    BY DEF DiscoveryInv, DiscoveryTypes
<1>2. TrailIsTrue'
    BY DEF DiscoveryInv, TrailIsTrue, ObservedRight, Counted, WorksOf
<1> QED
    BY <1>1, <1>2 DEF DiscoveryInv

LEMMA IndexFound == ASSUME DiscoveryInv, NEW w \in Works, Index(w) PROVE DiscoveryInv'
<1>1. /\ exists' = exists \cup {w} /\ stage' = stage /\ stack' = stack /\ page' = page /\ UNCHANGED <<trail, start>>
    BY DEF Index
<1>2. Matches \subseteq Matches' /\ Group' = Group
    BY <1>1 DEF Matches, InGroup, Group
<1>3. ReadRight(page)'
    BY <1>1, <1>2 DEF DiscoveryInv, ReadRight
<1>4. PageFields(page)' /\ (stage' # "works" => page' = NoPage) /\ exists \subseteq exists' /\ exists' \subseteq Works
    BY <1>1 DEF DiscoveryInv, DiscoveryTypes, PageFields
<1> QED
    BY <1>1, <1>3, <1>4, NoTraversal

\* The resolution of the Sources reads no works.
LEMMA ResolutionKeeps ==
    ASSUME DiscoveryInv, stage # "works", UNCHANGED <<exists, page, trail, start>>
    PROVE  DiscoveryInv'
<1>1. page' = NoPage /\ exists' = exists /\ exists \subseteq Works
    BY DEF DiscoveryInv, DiscoveryTypes
<1>2. ReadRight(page)'
    BY <1>1, FS_EmptySet DEF ReadRight, NoPage
<1>3. PageFields(page)'
    BY <1>1, NothingRead DEF PageFields
<1> QED
    BY <1>1, <1>2, <1>3, NoTraversal

LEMMA RetryKeeps == ASSUME DiscoveryInv, Retry \/ UNCHANGED discoveryVars PROVE DiscoveryInv'
<1>1. UNCHANGED <<exists, stage, stack, page, trail, start>>
    BY DEF Retry, discoveryVars
<1>2. Matches' = Matches /\ Group' = Group
    BY <1>1 DEF Matches, InGroup, Group
<1>3. ReadRight(page)'
    BY <1>1, <1>2 DEF DiscoveryInv, ReadRight
<1>4. PageFields(page)' /\ (stage' # "works" => page' = NoPage) /\ exists \subseteq exists' /\ exists' \subseteq Works
    BY <1>1 DEF DiscoveryInv, DiscoveryTypes, PageFields
<1> QED
    BY <1>1, <1>3, <1>4, NoTraversal

LEMMA ReadPageKeeps == ASSUME DiscoveryInv, ReadPage PROVE DiscoveryInv'
<1> DEFINE total == Cardinality(Matches)
           left == IF page.obtained < total THEN total - page.obtained ELSE 0
           size == Smaller(PageSize, left)
           ends == page.obtained + size >= total
           Folded(items, count, next, damage, hurt) ==
               LET p == Read(items, hurt, damage, count)
                   oddity == (IF items \cap page.seen # {} THEN 1 ELSE 0) + (IF damage # "none" THEN 1 ELSE 0)
                             + (IF count # total THEN 1 ELSE 0) + (IF next # "due" THEN 1 ELSE 0)
               IN  /\ (damage = "none") <=> (hurt = "none")
                   /\ next # "due" => ~ends
                   /\ odd + oddity <= MaxOdd
                   /\ odd' = odd + oddity
                   /\ IF ~page.first /\ page.expected # count THEN TraversalEnds(p, TRUE, FALSE)
                      ELSE IF ends \/ next = "missing" THEN TraversalEnds(p, ~Settled(p), FALSE)
                      ELSE /\ page' = [p EXCEPT !.repeats = next = "repeated"]
                           /\ UNCHANGED <<stack, trail>>
<1>1. stage = "works" /\ UNCHANGED <<exists, stage, start>>
    BY DEF ReadPage
<1>2. \E items \in Served(size), count \in {total, total + 1}, next \in {"due", "repeated", "missing"} :
           \E damage \in Damage, hurt \in items \cup {"none"} : Folded(items, count, next, damage, hurt)
    BY Zenon DEF ReadPage
<1>3. PICK items \in Served(size), count \in {total, total + 1}, next \in {"due", "repeated", "missing"} :
           \E damage \in Damage, hurt \in items \cup {"none"} : Folded(items, count, next, damage, hurt)
  <2> HIDE DEF Folded
  <2> QED
      BY <1>2
<1>4. PICK damage \in Damage, hurt \in items \cup {"none"} : Folded(items, count, next, damage, hurt)
  <2> HIDE DEF Folded
  <2> QED
      BY <1>3
<1> DEFINE p == Read(items, hurt, damage, count)
<1>5. items \in SUBSET Matches
    BY DEF Served
<1> HIDE DEF total, left, size, ends
<1>6. PageFields(p) /\ ReadRight(p) /\ p.expected = count
    BY <1>4, <1>5, ReadKeeps
<1>7. \/ TraversalEnds(p, TRUE, FALSE)
      \/ TraversalEnds(p, ~Settled(p), FALSE)
      \/ page' = [p EXCEPT !.repeats = next = "repeated"] /\ UNCHANGED <<stack, trail>>
    BY <1>4
<1>8. count \in {Cardinality(Matches), Cardinality(Matches) + 1}
    BY DEF total
<1> HIDE DEF p
<1>9. CASE TraversalEnds(p, TRUE, FALSE)
    BY <1>1, <1>6, <1>9, EndsKeeps
<1>10. CASE TraversalEnds(p, ~Settled(p), FALSE)
  <2>1. CASE Settled(p)
    <3>1. (~Settled(p)) = FALSE /\ p.expected = p.obtained
        BY <2>1 DEF Settled
    <3>2. TraversalEnds(p, FALSE, FALSE)
        BY <1>10, <3>1
    <3> QED
        BY <1>1, <1>6, <1>8, <3>1, <3>2, EndsKeeps
  <2>2. CASE ~Settled(p)
    <3>1. (~Settled(p)) = TRUE
        BY <2>2 DEF Settled
    <3>2. TraversalEnds(p, TRUE, FALSE)
        BY <1>10, <3>1
    <3> QED
        BY <1>1, <1>6, <3>2, EndsKeeps
  <2> QED
      BY <2>1, <2>2
<1>11. CASE page' = [p EXCEPT !.repeats = next = "repeated"] /\ UNCHANGED <<stack, trail>>
  <2>1. /\ page'.obtained = p.obtained /\ page'.records = p.records /\ page'.seen = p.seen /\ page'.affected = p.affected
        /\ page'.conflicts = p.conflicts /\ page'.again = p.again /\ PageFields(page)'
      BY <1>6, <1>11 DEF PageFields
  <2>2. Matches' = Matches /\ Group' = Group
      BY <1>1, <1>11 DEF Matches, InGroup, Group
  <2>3. ReadRight(page)'
      BY <1>6, <2>1, <2>2 DEF ReadRight
  <2>4. exists \subseteq exists' /\ exists' \subseteq Works
      BY <1>1 DEF DiscoveryInv, DiscoveryTypes
  <2> QED
      BY <1>1, <1>11, <2>1, <2>3, <2>4, NoTraversal
<1> QED
    BY <1>7, <1>9, <1>10, <1>11

LEMMA DiscoveryStep == ASSUME DiscoveryInv, [DiscoveryNext]_discoveryVars PROVE DiscoveryInv'
<1>1. CASE \E w \in Works : Index(w)
    BY <1>1, IndexFound
<1>2. CASE Retry \/ UNCHANGED discoveryVars
    BY <1>2, RetryKeeps
<1>3. CASE ResolveBatch \/ ResolveSingle \/ \E terminal \in BOOLEAN : BatchFails(terminal) \/ SingleFails(terminal)
    BY <1>3, ResolutionKeeps DEF ResolveBatch, ResolveSingle, BatchFails, SingleFails
<1>4. CASE ReadPage
    BY <1>4, ReadPageKeeps
<1>5. PageFields(page) /\ ReadRight(page)
    BY DEF DiscoveryInv, DiscoveryTypes
<1>6. CASE CursorRepeats
  <2>1. TraversalEnds(page, TRUE, FALSE) /\ UNCHANGED <<exists, stage, start>>
      BY <1>6 DEF CursorRepeats
  <2> QED
      BY <1>5, <2>1, EndsKeeps
<1>7. CASE \E terminal \in BOOLEAN : WorksFail(terminal)
  <2>1. PICK terminal \in BOOLEAN : TraversalEnds(page, TRUE, terminal) /\ UNCHANGED <<exists, stage, start>>
      BY <1>7 DEF WorksFail
  <2> QED
      BY <1>5, <2>1, EndsKeeps
<1> QED
    BY <1>1, <1>2, <1>3, <1>4, <1>6, <1>7 DEF DiscoveryNext, Discover

LEMMA InitDiscovery == DiscoveryInit => DiscoveryInv
<1> SUFFICES ASSUME DiscoveryInit PROVE DiscoveryInv
    OBVIOUS
<1>1. /\ exists \in SUBSET Works /\ start = exists /\ page = NoPage
      /\ trail = [s \in SetOf(Sources) |-> <<>>]
    BY DEF DiscoveryInit
<1>2. trail \in [SetOf(Sources) -> Seq(Observations)] /\ \A s \in SetOf(Sources) : Len(trail[s]) = 0
    BY <1>1
<1>3. DiscoveryTypes /\ ReadRight(page)
    BY <1>1, <1>2, NothingRead DEF DiscoveryTypes
<1>4. TrailIsTrue
    BY <1>2 DEF TrailIsTrue
<1> QED
    BY <1>3, <1>4 DEF DiscoveryInv

-----------------------------------------------------------------------------
(* The merge of the results.  Induction is a least counterexample, which the *)
(* inclusion of intervals has.                                               *)
LEMMA LeastOf == ASSUME NEW S \in SUBSET Nat, S # {} PROVE \E x \in S : \A y \in S : x <= y
<1>1. PICK N \in Nat : N \in S
    OBVIOUS
<1> DEFINE I(n) == 1 .. n
           U == I(N)
           T == {I(n) : n \in S \cap (0 .. N)}
           R == StrictSubsetOrdering(U)
           F == FiniteSubsetsOf(U)
<1>2. IsWellFoundedOn(R, F)
    BY FS_StrictSubsetOrderingWellFounded
<1>3. T \subseteq F
  <2>1. \A n \in 0 .. N : I(n) \subseteq U /\ IsFiniteSet(I(n))
      BY <1>1, FS_Interval
  <2> QED
      BY <2>1 DEF FiniteSubsetsOf
<1>4. T # {}
    BY <1>1
<1>5. \E x \in T : \A y \in T : ~(<<y, x>> \in R)
  <2> HIDE DEF T, R, F
  <2> QED
      BY <1>2, <1>3, <1>4, WFMin
<1>6. PICK m \in S \cap (0 .. N) : \A y \in T : <<y, I(m)>> \notin R
    BY <1>5
<1>7. \A n \in S : m <= n
  <2> SUFFICES ASSUME NEW n \in S, n < m PROVE FALSE
      OBVIOUS
  <2>1. n \in S \cap (0 .. N) /\ I(n) \in T
      BY <1>6
  <2>2. I(n) \subseteq U /\ I(m) \subseteq U /\ I(n) \subseteq I(m) /\ I(n) # I(m)
    <3>1. m \in I(m) /\ m \notin I(n)
        BY <1>6
    <3> QED
        BY <3>1, <1>1, <1>6
  <2>3. <<I(n), I(m)>> \in R
      BY <2>2 DEF StrictSubsetOrdering
  <2> QED
      BY <2>1, <2>3, <1>6
<1> QED
    BY <1>6, <1>7

LEMMA Outwards ==
    ASSUME NEW L \in Nat \ {0}, NEW G, L \in G, \A n \in 1 .. L - 1 : n + 1 \in G => n \in G
    PROVE  1 .. L \subseteq G
<1> DEFINE Missed == {k \in 0 .. L - 1 : L - k \notin G}
<1>1. Missed = {}
  <2> SUFFICES ASSUME Missed # {} PROVE FALSE
      OBVIOUS
  <2>1. Missed \in SUBSET Nat
      OBVIOUS
  <2>2. \E x \in Missed : \A y \in Missed : x <= y
    <3> HIDE DEF Missed
    <3> QED
        BY <2>1, LeastOf
  <2>3. PICK k \in Missed : \A j \in Missed : k <= j
      BY <2>2
  <2>4. k \in 1 .. L - 1 /\ L - k \in 1 .. L - 1 /\ (L - k) + 1 = L - (k - 1) /\ L - k \notin G
      BY <2>3
  <2>5. k - 1 \in 0 .. L - 1 /\ k - 1 \notin Missed
      BY <2>3, <2>4
  <2> QED
      BY <2>4, <2>5
<1> SUFFICES ASSUME NEW n \in 1 .. L PROVE n \in G
    OBVIOUS
<1> DEFINE k == L - n
<1>2. k \in 0 .. L - 1 /\ L - k = n
    OBVIOUS
<1> HIDE DEF k
<1> QED
    BY <1>1, <1>2

\* The recursion of the merge is a function.
LEMMA ResultUnfolds ==
    ASSUME NEW s, Len(trail[s]) \in Nat \ {0}
    PROVE  \E g : /\ Result(s) = g[1]
                  /\ \A n \in 1 .. Len(trail[s]) :
                        g[n] = IF n = Len(trail[s]) THEN trail[s][n] ELSE MergeResults(trail[s][n], g[n + 1])
<1> DEFINE L == Len(trail[s])
           Rule(g, n) == IF n = L THEN trail[s][n] ELSE MergeResults(trail[s][n], g[n + 1])
           To(k, g) == [n \in k .. L |-> Rule(g, n)]
           Reached == {k \in 1 .. L : \E g : g = To(k, g)}
<1>1. L \in Reached
  <2> DEFINE g == [n \in L .. L |-> trail[s][n]]
  <2>1. g = To(L, g) /\ L \in 1 .. L
      OBVIOUS
  <2> HIDE DEF g, To
  <2> QED
      BY <2>1
<1>2. ASSUME NEW k \in 1 .. L - 1, k + 1 \in Reached PROVE k \in Reached
  <2>1. PICK f : f = To(k + 1, f)
      BY <1>2
  <2> DEFINE g == [n \in k .. L |-> IF n = k THEN MergeResults(trail[s][k], f[k + 1]) ELSE f[n]]
  <2>2. \A n \in (k + 1) .. L : f[n] = Rule(f, n)
      BY <2>1
  <2>3. \A n \in (k + 1) .. L : n \in k .. L /\ n # k /\ g[n] = f[n]
      OBVIOUS
  <2>4. \A n \in k .. L : g[n] = Rule(g, n)
    <3>1. \A n \in (k + 1) .. L : n # L => n + 1 \in (k + 1) .. L
        OBVIOUS
    <3>2. \A n \in (k + 1) .. L : g[n] = Rule(g, n)
      <4> HIDE DEF g
      <4> QED
          BY <2>2, <2>3, <3>1
    <3>3. k + 1 \in (k + 1) .. L /\ k \in k .. L /\ k # L
        OBVIOUS
    <3>4. g[k] = Rule(g, k)
        BY <2>3, <3>3
    <3>5. \A n \in k .. L : n = k \/ n \in (k + 1) .. L
        OBVIOUS
    <3> HIDE DEF g, Rule
    <3> QED
        BY <3>2, <3>4, <3>5
  <2>5. g = [n \in k .. L |-> g[n]]
      OBVIOUS
  <2>6. g = To(k, g)
    <3> HIDE DEF g, Rule
    <3> QED
        BY <2>4, <2>5
  <2>7. k \in 1 .. L
      OBVIOUS
  <2> HIDE DEF g, To
  <2> QED
      BY <2>6, <2>7
<1>3. 1 .. L \subseteq Reached
  <2> HIDE DEF Reached
  <2> QED
      BY <1>1, <1>2, Outwards
<1>4. PICK f : f = To(1, f)
    BY <1>3
<1> DEFINE h == CHOOSE g : g = To(1, g)
<1>5. h = To(1, h)
  <2> HIDE DEF To
  <2> QED
      BY <1>4
<1>6. Result(s) = h[1]
    BY DEF Result
<1> HIDE DEF h
<1>7. \A n \in 1 .. L : h[n] = Rule(h, n)
    BY <1>5
<1> QED
    BY <1>6, <1>7

\* What the merge keeps: what is called complete is the innermost observation, and unless its count
\* came right by accident, no record is lost on the way out.
LEMMA MergeKeeps ==
    ASSUME DiscoveryInv, NEW s \in SetOf(Sources), trail[s] # <<>>
    PROVE  LET t == trail[s]
               r == Result(s)
           IN  /\ r.status = "complete" => r = t[Len(t)] /\ \A m \in 1 .. Len(t) : ~t[m].conflict
               /\ \/ t[Len(t)].status = "complete" /\ t[Len(t)].again # {}
                  \/ /\ \A m \in 1 .. Len(t) : t[m].records \subseteq r.records
                     /\ r.status = "failed" => r.records = {}
<1> DEFINE t == trail[s]
           L == Len(t)
           Accident == t[L].status = "complete" /\ t[L].again # {}
<1>1. t \in Seq(Observations) /\ L \in Nat \ {0} /\ \A n \in 1 .. L : t[n] \in Observations
  <2>1. t \in Seq(Observations)
      BY DEF DiscoveryInv, DiscoveryTypes
  <2> QED
      BY <2>1
<1>2. \A n \in 1 .. L : /\ t[n].conflict => t[n].status # "complete"
                        /\ t[n].status = "failed" => t[n].records = {}
                        /\ Counted(t[n]) => \A m \in 1 .. n : t[m].records \subseteq t[n].records
    BY DEF DiscoveryInv, TrailIsTrue, ObservedRight
<1>3. PICK g : /\ Result(s) = g[1]
               /\ \A n \in 1 .. L : g[n] = IF n = L THEN t[n] ELSE MergeResults(t[n], g[n + 1])
    BY <1>1, ResultUnfolds
<1> HIDE DEF t, L
<1> DEFINE Keeps(n) == /\ g[n].status = "complete" => g[n] = t[L] /\ \A m \in n .. L : ~t[m].conflict
                       /\ Accident \/ \A m \in n .. L : t[m].records \subseteq g[n].records
                       /\ Accident \/ (g[n].status = "failed" => g[n].records = {})
           Held == {n \in 1 .. L : Keeps(n)}
<1>4. L \in Held
  <2>1. g[L] = t[L] /\ L \in 1 .. L /\ \A m \in L .. L : m = L
      BY <1>1, <1>3
  <2> QED
      BY <1>2, <2>1
<1>5. ASSUME NEW n \in 1 .. L - 1, n + 1 \in Held PROVE n \in Held
  <2>1. /\ n \in 1 .. L /\ n # L /\ n + 1 \in 1 .. L /\ n \in Nat /\ L \in 1 .. L /\ n <= L
        /\ \A m \in n .. L : m \in 1 .. L /\ (m = n \/ m \in (n + 1) .. L)
      BY <1>1
  <2>2. g[n] = MergeResults(t[n], g[n + 1])
      BY <1>3, <2>1
  <2>3. Keeps(n + 1)
      BY <1>5
  <2>4. CASE Recovered(t[n], g[n + 1])
    <3>1. g[n] = g[n + 1] /\ g[n].status = "complete" /\ ~t[n].conflict /\ g[n] = t[L]
        BY <2>2, <2>3, <2>4 DEF MergeResults, Recovered
    <3>2. ~Accident => Counted(t[L])
        BY <3>1 DEF Counted
    <3>3. ~Accident => t[n].records \subseteq t[L].records
        BY <1>2, <2>1, <3>2
    <3>4. Keeps(n)
        BY <2>1, <2>3, <3>1, <3>3
    <3> QED
        BY <2>1, <3>4
  <2>5. CASE ~Recovered(t[n], g[n + 1])
    <3> DEFINE all == t[n].records \cup g[n + 1].records
    <3>1. g[n] = [t[n] EXCEPT !.records = all,
                              !.status = IF all # {} \/ "partial" \in {t[n].status, g[n + 1].status} THEN "partial" ELSE "failed"]
        BY <2>2, <2>5 DEF MergeResults
    <3>2. /\ g[n].records = all /\ g[n].status \in {"partial", "failed"}
          /\ g[n].status = "failed" => all = {}
        BY <1>1, <2>1, <3>1 DEF Observations
    <3>3. Keeps(n)
        BY <2>1, <2>3, <3>2
    <3> QED
        BY <2>1, <3>3
  <2> QED
      BY <2>4, <2>5
<1>6. 1 .. L \subseteq Held
  <2> HIDE DEF Held
  <2> QED
      BY <1>1, <1>4, <1>5, Outwards
<1>7. Keeps(1)
    BY <1>1, <1>6
<1> QED
    BY <1>3, <1>7 DEF t, L

LEMMA DiscoveryEnd == DiscoveryInv => DiscoveryIsTrue
<1> SUFFICES ASSUME DiscoveryInv PROVE DiscoveryIsTrue
    OBVIOUS
<1>1. \A s \in Fetched : /\ s \in SetOf(Sources) /\ trail[s] # <<>> /\ Len(trail[s]) \in Nat \ {0}
                         /\ Len(trail[s]) \in 1 .. Len(trail[s])
  <2>1. \A s \in Fetched : s \in SetOf(Sources) /\ trail[s] # <<>> /\ trail[s] \in Seq(Observations)
      BY DEF Fetched, DiscoveryInv, DiscoveryTypes
  <2> QED
      BY <2>1
<1>2. CompleteMissesNothing
  <2> SUFFICES ASSUME NEW s \in Fetched, Result(s).status = "complete", Result(s).again = {}
               PROVE  WorksOf(s) \cap start \subseteq Result(s).records
      BY DEF CompleteMissesNothing
  <2>1. Result(s) = trail[s][Len(trail[s])]
      BY <1>1, MergeKeeps
  <2> QED
      BY <1>1, <2>1 DEF DiscoveryInv, TrailIsTrue, ObservedRight, Counted
<1>3. ConflictIsReported
    BY <1>1, MergeKeeps DEF ConflictIsReported
<1>4. DeliveredIsKept
  <2> SUFFICES ASSUME NEW s \in Fetched,
                      ~(trail[s][Len(trail[s])].status = "complete" /\ trail[s][Len(trail[s])].again # {})
               PROVE  LET delivered == UNION {trail[s][n].records : n \in 1 .. Len(trail[s])}
                      IN  delivered \subseteq Result(s).records /\ (Result(s).status = "failed" => delivered = {})
      BY DEF DeliveredIsKept
  <2>1. /\ \A m \in 1 .. Len(trail[s]) : trail[s][m].records \subseteq Result(s).records
        /\ Result(s).status = "failed" => Result(s).records = {}
      BY <1>1, MergeKeeps
  <2> QED
      BY <2>1
<1> QED
    BY <1>2, <1>3, <1>4 DEF DiscoveryIsTrue

\* Whatever fails, is damaged or comes out of order, whatever OpenAlex indexes meanwhile and however
\* the groups are halved: a Source called complete misses nothing there was at first, a scope conflict
\* is never recovered from, and what a traversal delivered is in the result (discover_resolved_sources).
THEOREM DiscoveryMissesNothing == DiscoverySpec => []DiscoveryIsTrue
<1> QED
    BY InitDiscovery, DiscoveryStep, DiscoveryEnd, PTL DEF DiscoverySpec
=============================================================================
