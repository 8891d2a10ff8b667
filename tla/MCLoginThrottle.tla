--------------------------- MODULE MCLoginThrottle ---------------------------
(* LoginThrottle for TLC: clients are interchangeable.                     *)
EXTENDS LoginThrottle, TLC

Symmetry == Permutations(Clients)
================================================================================
