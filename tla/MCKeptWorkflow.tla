---------------------------- MODULE MCKeptWorkflow ----------------------------
(***************************************************************************)
(* KeptWorkflow and its Preparation on small instances for TLC.            *)
(***************************************************************************)
EXTENDS KeptWorkflow, TLC

CONSTANTS t1, a, i1

Queues == {<<>>, <<a>>}
===============================================================================
