----------------------------- MODULE MCNodeTasks -----------------------------
(* A fleet of two nodes.                                                   *)
EXTENDS NodeTasks

CONSTANTS n1, n2

=============================================================================
