----------------------------- MODULE MCSiteTrust -----------------------------
(* SiteTrust for TLC: the symmetries that the safety runs use.             *)
EXTENDS SiteTrust, TLC

Symmetry ==
    Permutations(Requests) \cup Permutations(Conns) \cup Permutations(Keys)
================================================================================
