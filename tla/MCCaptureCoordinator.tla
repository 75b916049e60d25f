------------------------- MODULE MCCaptureCoordinator -------------------------
(***************************************************************************)
(* CaptureCoordinator on small instances for TLC: under any caller that    *)
(* keeps the discipline it assumes, and under the batch of BatchImport.    *)
(* In each behaviour one of the two moves.                                 *)
(***************************************************************************)
EXTENDS BatchImport, TLC

CONSTANTS r1, r2, o1, o2, p1, p2, w1, t1, t2, s1

VARIABLE part

\* Both Papers in one Workspace: two grants may share its guard.
SharedWorkspace == [paper \in Paper |-> w1]

Interchangeable ==
    Permutations(Request) \cup Permutations(Paper) \cup Permutations(Owner) \cup Permutations(Tab)

\* Without a batch the Paper files stay as they are.
CaptureInit == /\ part \in {"any", "batch"}
               /\ part = "any" => file = [paper \in Paper |-> [status |-> "kept", revision |-> 0]]
               /\ BatchInit

Captures == part = "any" /\ Next /\ UNCHANGED <<part, batchVars>>
Imports == part = "batch" /\ BatchNext /\ UNCHANGED part

CaptureSpec == CaptureInit /\ [][Captures \/ Imports]_<<part, vars>>
===============================================================================
