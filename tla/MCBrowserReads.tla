---------------------------- MODULE MCBrowserReads ----------------------------
(***************************************************************************)
(* Enrichment and JournalCovers side by side: in each behaviour one of     *)
(* them moves, Enrichment as one task beside one edit or as two tasks.     *)
(***************************************************************************)
EXTENDS Enrichment, JournalCovers

CONSTANTS p1, j1, j2, d1

VARIABLE part

Text(abstract, authors, date) ==
    [candidate |-> TRUE, abstract |-> abstract, authors |-> authors, date |-> date, edits |-> 0]
Bare == Text("none", "none", "none")
MCPaper == {p1}
MCFresh == {Bare, Text("none", "user", "day"), Text("user", "none", "month")}
MCList == <<j1, j2>>
MCDigest == {d1}

MCInit == /\ Init /\ CoverInit
          /\ \/ part = "edit" /\ papers[p1] # Bare
             \/ part = "tasks" /\ papers[p1] = Bare
             \/ part = "covers" /\ papers[p1] = Bare /\ notes[<<p1, 1>>] = "absent"

Enriches == /\ part # "covers" /\ Next /\ UNCHANGED <<part, coverVars>>
            /\ part = "edit" => number' <= 1
            /\ part = "tasks" => papers'[p1].edits = 0
Searches == part = "covers" /\ CoverNext /\ listed' # {} /\ UNCHANGED <<part, vars>>

MCSpec == MCInit /\ [][Enriches \/ Searches]_<<part, vars, coverVars>>
===============================================================================
