----------------------------- MODULE MCBatchImport -----------------------------
(***************************************************************************)
(* BatchImport on small instances for TLC.                                 *)
(***************************************************************************)
EXTENDS BatchImport, TLC

CONSTANTS r1, r2, o1, o2, p1, p2, w1, t1, s1

Interchangeable == Permutations(Request) \cup Permutations(Paper) \cup Permutations(Owner)

SharedWorkspace == [paper \in Paper |-> w1]
===============================================================================
