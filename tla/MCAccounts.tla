------------------------------- MODULE MCAccounts -------------------------------
(* Accounts for TLC: slots, names and passwords are interchangeable.       *)
EXTENDS Accounts, TLC

Symmetry ==
    Permutations(Requests) \cup Permutations(Names) \cup Permutations(Passwords)
================================================================================
