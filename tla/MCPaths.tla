------------------------------ MODULE MCPaths ------------------------------
(***************************************************************************)
(* Paths for TLC: the indices of the views are interchangeable.            *)
(***************************************************************************)
EXTENDS Paths, TLC

ViewSymmetry == Permutations(Views)
=============================================================================
