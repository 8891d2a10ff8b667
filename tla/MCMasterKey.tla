------------------------------ MODULE MCMasterKey ------------------------------
(* MasterKey for TLC: processes and keys are interchangeable.              *)
EXTENDS MasterKey, TLC

Symmetry == Permutations(Procs) \cup Permutations(Keys)
================================================================================
