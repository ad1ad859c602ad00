------------------------ MODULE MCNativePublication ------------------------
(***************************************************************************)
(* Two machines with one function each compete for three blocks; the       *)
(* counterexample of the stage needs one machine and one block.            *)
(***************************************************************************)
EXTENDS NativePublication, TLC

Symmetry == Permutations(Vms) \cup Permutations(Blocks)
=============================================================================
