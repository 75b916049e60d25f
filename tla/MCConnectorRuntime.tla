------------------------- MODULE MCConnectorRuntime -------------------------
(***************************************************************************)
(* ConnectorRuntime on small instances for TLC.                            *)
(***************************************************************************)
EXTENDS ConnectorRuntime

CONSTANT w1

\* Every Paper is in the one Workspace.
OneWorkspace == [paper \in Paper |-> w1]

Symmetries == Permutations(Request)
=============================================================================
