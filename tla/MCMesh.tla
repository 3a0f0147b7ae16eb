------------------------------- MODULE MCMesh ------------------------------
(***************************************************************************)
(* Instances of Mesh for TLC.  The nodes are interchangeable.              *)
(***************************************************************************)
EXTENDS Mesh, TLC

Symmetry == Permutations(Node)
=============================================================================
