-------------------------- MODULE MCGraphOperations --------------------------
(***************************************************************************)
(* GraphOperations for TLC: no operation looks at the name of a node.      *)
(***************************************************************************)
EXTENDS GraphOperations

NodeSymmetry == Permutations(NodeId)

=============================================================================
