-------------------------------- MODULE WakeCall --------------------------------
(***************************************************************************)
(* What one call of the provider promises to the handlers of WakeBridge,   *)
(* without sockets, prompts or timers: the password goes to a host whose   *)
(* key is acceptable, the command line goes out at most once and only      *)
(* after that, "ok" is returned only after the command line went out, and  *)
(* nothing happens after the call has returned.  That the command was      *)
(* processed is not promised.                                              *)
(***************************************************************************)

CONSTANTS
    Keys,       \* SSH host-key fingerprints
    None        \* the site has no trusted key

VARIABLES
    expected,   \* the trusted key of the site row, or None
    require,    \* require_trusted_key: TRUE for wake, FALSE for test_connection
    presented,  \* the key of the host that answers
    password,   \* whether the password was sent
    commanded,  \* whether the command line was sent
    result      \* "none", "ok" or "failed"

vars == <<expected, require, presented, password, commanded, result>>

Acceptable == IF expected = None THEN ~require ELSE presented = expected

Init ==
    /\ expected \in Keys \cup {None}
    /\ require \in BOOLEAN
    /\ presented \in Keys
    /\ password = FALSE /\ commanded = FALSE
    /\ result = "none"

Authenticate ==
    /\ result = "none" /\ Acceptable
    /\ password' = TRUE
    /\ UNCHANGED <<expected, require, presented, commanded, result>>

Command ==
    /\ result = "none" /\ password /\ ~commanded
    /\ commanded' = TRUE
    /\ UNCHANGED <<expected, require, presented, password, result>>

Return ==
    /\ result = "none"
    /\ \/ result' = "failed"
       \/ commanded /\ result' = "ok"
    /\ UNCHANGED <<expected, require, presented, password, commanded>>

Next == Authenticate \/ Command \/ Return

Spec == Init /\ [][Next]_vars
================================================================================
