------------------------------- MODULE ProviderJob -------------------------------
(***************************************************************************)
(* What a wake handler can tell of the provider call it has started in     *)
(* spawn_blocking: a command line goes out, once at most and only for a    *)
(* site with a trusted key, and the call returns, successful only after    *)
(* the command line.  The session with the router (RouterSession) keeps    *)
(* it, and the jobs of Wake allow exactly this.                            *)
(***************************************************************************)
VARIABLES
    trusted,    \* whether the site row had a fingerprint when it was read
    commanded,  \* whether the command line was sent
    result      \* "none", "ok" or "failed"

vars == <<trusted, commanded, result>>

Init == trusted \in BOOLEAN /\ commanded = FALSE /\ result = "none"

Command ==
    /\ result = "none" /\ trusted /\ ~commanded
    /\ commanded' = TRUE
    /\ UNCHANGED <<trusted, result>>

Return ==
    /\ result = "none"
    /\ \/ result' = "failed"
       \/ commanded /\ result' = "ok"
    /\ UNCHANGED <<trusted, commanded>>

Next == Command \/ Return

Spec == Init /\ [][Next]_vars
================================================================================
