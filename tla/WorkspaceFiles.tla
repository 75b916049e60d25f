---------------------------- MODULE WorkspaceFiles ----------------------------
(***************************************************************************)
(* safe_write.py under its two users that change what is there:            *)
(* application/decisions.py (Keep and Reject rewrite one Paper) and        *)
(* application/workspace_reset.py with its route (the whole tree goes).    *)
(* Several processes decide and one resets; editors and shells heed no     *)
(* lock and act between any two steps.                                     *)
(*                                                                         *)
(* A directory is its identity (device and inode), of which a name may be  *)
(* given a new one; a Paper's text is its status and a count of what users *)
(* saved, so that a file that was replaced never compares equal.           *)
(***************************************************************************)
EXTENDS Naturals

CONSTANTS
    Process,     \* the processes that decide
    MaxDirs,     \* directories that ever had the Workspace's name (a bound)
    MaxEdits,    \* what users save in one Paper (a bound)
    MaxConfigs,  \* contents of the configuration (a bound)
    None

ASSUME FilesAssumption == MaxDirs \in Nat \ {0} /\ {MaxEdits, MaxConfigs} \subseteq Nat

Dir == 1..MaxDirs
Status == {"candidate", "kept", "rejected"}
Text == [status : Status, edits : 0..MaxEdits]
Outcome == {"none", "UPDATED", "NOT_FOUND", "STATE_CONFLICT", "INVALID_TRANSITION", "IO_FAILURE"}
Writer == [step : {"idle", "locked", "read", "prepared", "checked", "replaced"},
           dir : Dir \cup {None}, text : Text \cup {None}, target : Status]
Answer == [outcome : Outcome, wrote : BOOLEAN]
Plan == [config : 0..MaxConfigs, dir : Dir \cup {None}]

ASSUME NoneAssumption == None \notin Dir /\ None \notin Text /\ None \notin Plan

Reset == [step : {"idle", "guarded", "located", "captured", "trusted", "emptied"},
          plan : Plan \cup {None}, custody : Dir \cup {None},    \* the tree under the private name
          named : BOOLEAN,                                       \* custody is set in execute_reset
          result : {"none", "success", "failed"}]

VARIABLES
    config,      \* the bytes of the configuration file
    root,        \* the directory that has the Workspace's name
    papers,      \* the one Paper of each directory
    dirs,        \* directories made so far
    deleted,     \* directories rmtree began to empty
    writers,     \* the decision of each process
    answer,      \* the last DecisionResult, and (history) whether its Paper was replaced
    reset,       \* execute_reset
    confirmation,\* app.state.reset_confirmation
    native,      \* whether a native save, of any process, holds the Reset guard
    \* History, never read by the code:
    confirmed,   \* directories the user typed RESET for
    overwritten, \* whether a replace ever undid an edit made before its last check
    fresh        \* processes whose Paper an editor saved after the last check

disk == <<config, root, papers, dirs, deleted>>
history == <<overwritten, fresh>>
vars == <<disk, writers, answer, reset, confirmation, native, confirmed, history>>

-----------------------------------------------------------------------------
Active(w) == writers[w].step # "idle"
Resetting == reset.step # "idle"

\* workspace_path_lock: one lock for the path, outside the tree.
PathLockFree == (\A w \in Process : ~Active(w)) /\ ~Resetting

Idle == [step |-> "idle", dir |-> None, text |-> None, target |-> "kept"]

Init ==
    /\ config = 0 /\ dirs = 1 /\ root = 1 /\ deleted = {}
    /\ papers = [d \in Dir |-> [status |-> "candidate", edits |-> 0]]
    /\ writers = [w \in Process |-> Idle] /\ answer = [outcome |-> "none", wrote |-> FALSE]
    /\ reset = [step |-> "idle", plan |-> None, custody |-> None, named |-> FALSE, result |-> "none"]
    /\ confirmation = None /\ native = FALSE /\ confirmed = {}
    /\ overwritten = FALSE /\ fresh = {}

-----------------------------------------------------------------------------
(***************************************************************************)
(* _apply_decision                                                         *)
(***************************************************************************)
Goes(w, step) == writers' = [writers EXCEPT ![w].step = step] /\ UNCHANGED answer

\* Every return lets the lock go and removes the temporary file.
Returns(w, outcome) ==
    /\ writers' = [writers EXCEPT ![w] = Idle]
    /\ answer' = [outcome |-> outcome, wrote |-> writers[w].step = "replaced"]

WriterOnly == UNCHANGED <<disk, reset, confirmation, native, confirmed>>

\* keep_paper and reject_paper
Decisions == {"kept", "rejected"}

LockWorkspace(w, target) ==
    /\ ~Active(w)
    /\ root # None /\ PathLockFree
    /\ writers' = [writers EXCEPT ![w] = [step |-> "locked", dir |-> root, text |-> None,
                                          target |-> target]]
    /\ UNCHANGED <<answer, history>> /\ WriterOnly

\* _locate_paper and the second read, through the opened directory.
ReadPaper(w) ==
    /\ writers[w].step = "locked" /\ WriterOnly /\ UNCHANGED history
    /\ LET text == papers[writers[w].dir]
       IN IF text = None THEN Returns(w, "NOT_FOUND")
          ELSE IF text.status # "candidate"
            THEN \E outcome \in {"STATE_CONFLICT", "INVALID_TRANSITION"} : Returns(w, outcome)
          ELSE writers' = [writers EXCEPT ![w].step = "read", ![w].text = text] /\ UNCHANGED answer

\* check_location and the comparison before it: the names still lead to the
\* opened objects and the bytes are those that were read.
InPlace(w) == root = writers[w].dir /\ papers[writers[w].dir] = writers[w].text

\* The first comparison, then the temporary file.
Prepare(w) ==
    /\ writers[w].step = "read" /\ WriterOnly /\ UNCHANGED history
    /\ IF InPlace(w) THEN Goes(w, "prepared") ELSE Returns(w, "STATE_CONFLICT")

\* Mutant: the location and the bytes are not checked again.
CheckNothing(w) == writers[w].step = "prepared" /\ Goes(w, "checked") /\ UNCHANGED history /\ WriterOnly
Check(w) ==
    /\ writers[w].step = "prepared" /\ WriterOnly /\ UNCHANGED history
    /\ IF InPlace(w) THEN Goes(w, "checked") ELSE Returns(w, "STATE_CONFLICT")

\* os.replace in the opened directory, which may be empty or gone by now.
Replace(w) ==
    /\ writers[w].step = "checked" /\ writers[w].dir \notin deleted
    /\ papers' = [papers EXCEPT ![writers[w].dir] = [writers[w].text EXCEPT !.status = writers[w].target]]
    /\ overwritten' = (overwritten \/ (papers[writers[w].dir] # writers[w].text /\ w \notin fresh))
    /\ fresh' = fresh \ {w} /\ Goes(w, "replaced")
    /\ UNCHANGED <<config, root, dirs, deleted, reset, confirmation, native, confirmed>>

\* A failed sync is TextWriteCommittedError, an OSError.
SyncedAs == {"UPDATED", "IO_FAILURE"}

Sync(w) ==
    /\ writers[w].step = "replaced" /\ WriterOnly /\ UNCHANGED history
    /\ \E outcome \in SyncedAs : Returns(w, outcome)

WriteFails(w) ==
    /\ writers[w].step \in {"locked", "read", "prepared", "checked"}
    /\ Returns(w, "IO_FAILURE") /\ WriterOnly
    /\ fresh' = fresh \ {w} /\ UNCHANGED overwritten

-----------------------------------------------------------------------------
(***************************************************************************)
(* Reset: the preview of every Settings page, the route, execute_reset.    *)
(***************************************************************************)
Here == [config |-> config, dir |-> root]
ResetOnly == UNCHANGED <<writers, answer, native, history>>

Preview ==
    /\ ~Resetting /\ confirmation' = Here
    /\ UNCHANGED <<disk, reset, confirmed>> /\ ResetOnly

\* The location is dangerous, or something could not be read.
PreviewFails ==
    /\ ~Resetting /\ confirmation # None /\ confirmation' = None
    /\ UNCHANGED <<disk, reset, confirmed>> /\ ResetOnly

\* RESET is typed: the confirmation is spent, and the guards are taken.
GuardFree == ~native

Confirm ==
    /\ ~Resetting /\ confirmation # None /\ confirmation' = None
    /\ confirmed' = confirmed \cup ({confirmation.dir} \ {None})
    /\ reset' = IF GuardFree /\ PathLockFree
                THEN [step |-> "guarded", plan |-> confirmation, custody |-> None,
                      named |-> FALSE, result |-> "none"]
                ELSE [reset EXCEPT !.result = "failed", !.custody = None, !.named = FALSE]
    /\ UNCHANGED disk /\ ResetOnly

\* Every refusal is reported with what may be left where.
Ends(result) == reset' = [reset EXCEPT !.step = "idle", !.result = result, !.plan = None]
ResetStep == UNCHANGED <<config, dirs, confirmation, confirmed>> /\ ResetOnly

\* preview_reset again.
Recheck ==
    /\ reset.step = "guarded"
    /\ IF Here # reset.plan THEN Ends("failed")
       ELSE IF root = None THEN Ends("success")
       ELSE reset' = [reset EXCEPT !.step = "located", !.named = TRUE]
    /\ UNCHANGED <<root, papers, deleted>> /\ ResetStep

\* The name is taken away from whatever has it now.
Capture ==
    /\ reset.step = "located"
    /\ IF root = None THEN Ends("failed") /\ UNCHANGED root
       ELSE reset' = [reset EXCEPT !.step = "captured", !.custody = root] /\ root' = None
    /\ UNCHANGED <<papers, deleted>> /\ ResetStep

\* Mutant: what was captured is taken for what was confirmed.
AnyCaptured == TRUE
CapturedIsConfirmed == reset.custody = reset.plan.dir

Trust ==
    /\ reset.step = "captured"
    /\ IF CapturedIsConfirmed THEN reset' = [reset EXCEPT !.step = "trusted"] ELSE Ends("failed")
    /\ UNCHANGED <<root, papers, deleted>> /\ ResetStep

\* rmtree, which may fail half-way; then the private name goes too.
LeftBehind == [reset EXCEPT !.step = "idle", !.plan = None, !.result = "failed"]

Delete ==
    /\ reset.step = "trusted"
    /\ deleted' = deleted \cup {reset.custody}
    /\ papers' \in {papers, [papers EXCEPT ![reset.custody] = None]}
    /\ reset' \in {LeftBehind} \cup
         (IF papers'[reset.custody] = None
          THEN {[reset EXCEPT !.step = "emptied", !.custody = None, !.named = FALSE]} ELSE {})
    /\ UNCHANGED root /\ ResetStep

\* Success only if nothing took the name and the configuration stands.
Conclude ==
    /\ reset.step = "emptied"
    /\ Ends(IF root = None /\ config = reset.plan.config THEN "success" ELSE "failed")
    /\ UNCHANGED <<root, papers, deleted>> /\ ResetStep

ResetFails ==
    /\ Resetting /\ Ends("failed")
    /\ UNCHANGED <<root, papers, deleted>> /\ ResetStep

-----------------------------------------------------------------------------
(***************************************************************************)
(* Users, native saves and crashes                                         *)
(***************************************************************************)
Outside == UNCHANGED <<writers, answer, reset, confirmation, confirmed, overwritten>>

Edit(d) ==
    /\ d <= dirs /\ papers[d] # None /\ papers[d].edits < MaxEdits
    /\ papers' = [papers EXCEPT ![d].edits = @ + 1]
    /\ fresh' = fresh \cup {w \in Process : writers[w].step = "checked" /\ writers[w].dir = d}
    /\ UNCHANGED <<config, root, dirs, deleted, native>> /\ Outside

\* A Run or a user makes a directory where there is none or renames one away.
NewDirectory ==
    /\ dirs < MaxDirs /\ dirs' = dirs + 1 /\ root' = dirs + 1
    /\ UNCHANGED <<config, papers, deleted, native, fresh>> /\ Outside

ConfigChanges ==
    /\ config < MaxConfigs /\ config' = config + 1
    /\ UNCHANGED <<root, papers, dirs, deleted, native, fresh>> /\ Outside

\* The guard is shared by saves and exclusive to a Reset.
NativeSave ==
    /\ IF native THEN native' = FALSE ELSE ~Resetting /\ native' = TRUE
    /\ UNCHANGED <<disk, fresh>> /\ Outside

Crash(w) ==
    /\ Active(w) /\ Returns(w, "none") /\ fresh' = fresh \ {w}
    /\ UNCHANGED <<disk, reset, confirmation, native, confirmed, overwritten>>

Next ==
    \/ \E w \in Process :
         \/ \E target \in Decisions : LockWorkspace(w, target)
         \/ ReadPaper(w) \/ Prepare(w) \/ Check(w) \/ Replace(w) \/ Sync(w) \/ WriteFails(w) \/ Crash(w)
    \/ Preview \/ PreviewFails \/ Confirm \/ Recheck \/ Capture \/ Trust \/ Delete \/ Conclude \/ ResetFails
    \/ (\E d \in Dir : Edit(d)) \/ NewDirectory \/ ConfigChanges \/ NativeSave

Spec == Init /\ [][Next]_vars

-----------------------------------------------------------------------------
(***************************************************************************)
(* Properties                                                              *)
(***************************************************************************)
\* Every field is of the kind the code stores in it.
TypeOK ==
    /\ config \in 0..MaxConfigs /\ root \in Dir \cup {None} /\ dirs \in Dir
    /\ papers \in [Dir -> Text \cup {None}] /\ deleted \subseteq Dir
    /\ writers \in [Process -> Writer] /\ answer \in Answer /\ reset \in Reset
    /\ confirmation \in Plan \cup {None} /\ native \in BOOLEAN

\* One process at a time decides or resets, also while the Workspace's name
\* goes from one directory to another.
OneOwner ==
    \A v, w \in Process : Active(v) /\ (Active(w) \/ Resetting) => v = w /\ ~Resetting

\* A decision undoes no edit, except one saved after its last check, which
\* the docstring of replace_regular_text_at_identity admits.
OnlyTheWindowLoses == ~overwritten

\* A decision that is refused did not write; one that is UPDATED did.
OutcomesAreTrue ==
    /\ answer.outcome = "UPDATED" => answer.wrote
    /\ answer.outcome \in {"NOT_FOUND", "STATE_CONFLICT", "INVALID_TRANSITION"} => ~answer.wrote

\* Only a directory the user confirmed is ever deleted, whatever has its name
\* by then.
OnlyConfirmedIsDeleted == deleted \subseteq confirmed

\* A tree that was taken away and not deleted, or not wholly, is named in the
\* message, and success leaves none.
LeftoversAreNamed ==
    /\ reset.result = "failed" /\ reset.custody # None => reset.named
    /\ reset.result = "success" => reset.custody = None

\* One process at a time decides or resets, an edit is lost only in the window that is admitted,
\* a decision says what it wrote, and a Reset names what it left.
WritesAreTrue == TypeOK /\ OneOwner /\ OnlyTheWindowLoses /\ OutcomesAreTrue /\ LeftoversAreNamed

\* A directory is emptied only if the user confirmed it, by then, and while no native save of any
\* process is unsettled.
DeletionIsGuarded == [][deleted' # deleted => ~native /\ deleted' \subseteq confirmed]_vars
==============================================================================
