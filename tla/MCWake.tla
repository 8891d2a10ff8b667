---------------------------------- MODULE MCWake ----------------------------------
(* Wake for TLC: request slots are interchangeable.                        *)
EXTENDS Wake, TLC

Symmetry == Permutations(Requests)
================================================================================
