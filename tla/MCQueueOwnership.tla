--------------------------- MODULE MCQueueOwnership ---------------------------
(***************************************************************************)
(* QueueOwnership for TLC: the nodes of a cluster, which are alike.        *)
(***************************************************************************)
EXTENDS QueueOwnership, TLC

CONSTANTS n1, n2

NodesAlike == Permutations(Node)
=============================================================================
