----------------------------- MODULE ParentExport -----------------------------
(***************************************************************************)
(* What an Import promises for the kept Papers, without saying how: one    *)
(* Paper at a time is asked for, permitted once and accepted by Zotero     *)
(* before it is marked exported.  It is marked only after its file was     *)
(* found to be still the one that was reserved when it was asked for.      *)
(* That comparison and the replacing are two steps, as in safe_write.py,   *)
(* which is no transactional compare-and-set: an edit saved between them   *)
(* is overwritten, and no earlier one is.                                  *)
(***************************************************************************)
CONSTANTS Paper, None

VARIABLES
    status,   \* the status in each Paper file
    slot      \* the Paper being imported: how far it got, and whether its file is unchanged

Stages == {"asked", "permitted", "accepted", "compared"}

Init == status \in [Paper -> {"kept", "other"}] /\ slot = None

Ask(paper) ==
    /\ slot = None
    /\ status[paper] = "kept"
    /\ slot' = [paper |-> paper, stage |-> "asked", intact |-> TRUE]
    /\ UNCHANGED status

Permit ==
    /\ slot # None /\ slot.stage = "asked" /\ slot.intact
    /\ slot' = [slot EXCEPT !.stage = "permitted"]
    /\ UNCHANGED status

Accept ==
    /\ slot # None /\ slot.stage = "permitted"
    /\ slot' = [slot EXCEPT !.stage = "accepted"]
    /\ UNCHANGED status

\* The last look at the file before it is replaced.
Compare ==
    /\ slot # None /\ slot.stage = "accepted" /\ slot.intact
    /\ slot' = [slot EXCEPT !.stage = "compared"]
    /\ UNCHANGED status

Export ==
    /\ slot # None /\ slot.stage = "compared"
    /\ status' = [status EXCEPT ![slot.paper] = "exported"]
    /\ slot' = None

\* Stopped, timed out, refused, or the local write failed.
Abandon == slot # None /\ slot' = None /\ UNCHANGED status

\* Someone else edits a Paper; the one being imported is then no longer intact.
Change(paper, value) ==
    /\ status' = [status EXCEPT ![paper] = value]
    /\ slot' = IF slot # None /\ slot.paper = paper THEN [slot EXCEPT !.intact = FALSE] ELSE slot

Next ==
    \/ \E paper \in Paper : Ask(paper) \/ \E value \in {"kept", "other"} : Change(paper, value)
    \/ Permit \/ Accept \/ Compare \/ Export \/ Abandon

Spec == Init /\ [][Next]_<<status, slot>>
===============================================================================
