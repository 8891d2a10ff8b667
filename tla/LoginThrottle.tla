----------------------------- MODULE LoginThrottle -----------------------------
(***************************************************************************)
(* The limit on failed logins: login_allowed, record_login_failure and     *)
(* clear_login_failures of src/src/auth.rs, called by login_submit of      *)
(* src/src/web.rs.  Every client shares the entry "local-proxy", and the   *)
(* lock is free between the check and the record, while the password is    *)
(* verified: other attempts run there, time passes, a request is dropped.  *)
(***************************************************************************)
EXTENDS Integers, FiniteSets

CONSTANTS
    Clients,            \* attempts served at the same time
    MaxLoginFailures,   \* MAX_LOGIN_FAILURES
    RateLimitWindow,    \* RATE_LIMIT_WINDOW, in ticks
    MaxClock,           \* bound: ticks
    None                \* no entry

ASSUME LoginThrottleAssumption ==
    /\ IsFiniteSet(Clients) /\ Clients # {}
    /\ MaxLoginFailures \in Nat \ {0}
    /\ RateLimitWindow \in Nat \ {0}
    /\ MaxClock \in Nat
    /\ None \notin Int /\ None \notin [window_started : Nat, failures : Nat]

VARIABLES
    clock,      \* Instant::now(), in ticks
    attempt,    \* login_attempts["local-proxy"], or None
    pc,         \* what each attempt does next
    recorded    \* auxiliary: the failures since the last success

vars == <<clock, attempt, pc, recorded>>

Times == 0 .. MaxClock

LoginAttempt == [window_started : Times, failures : Nat]

\* The no-th failure: when it was recorded, and the window that counted it.
Failure == [no : Nat, at : Times, window : Times]

Labels == {"idle", "verify", "record", "create", "clear"}

\* The types, and the window of the entry started in the past.
TypeOK ==
    /\ clock \in Times
    /\ attempt \in LoginAttempt \cup {None}
    /\ attempt # None => attempt.window_started <= clock
    /\ pc \in [Clients -> Labels]
    /\ recorded \subseteq Failure /\ IsFiniteSet(recorded)

Init ==
    /\ clock = 0
    /\ attempt = None
    /\ pc = [c \in Clients |-> "idle"]
    /\ recorded = {}

-------------------------------------------------------------------------------

FreshUntil == [window_started |-> clock + RateLimitWindow, failures |-> 0]
Fresh == [window_started |-> clock, failures |-> 0]

\* The entry as login_allowed and record_login_failure find it: inserted when
\* missing, started anew when its window is over.
CurrentEarly ==
    IF attempt = None \/ clock + 1 - attempt.window_started >= RateLimitWindow
    THEN Fresh ELSE attempt

Current ==
    IF attempt = None \/ clock - attempt.window_started >= RateLimitWindow
    THEN Fresh ELSE attempt

AdmitsOneMore == Current.failures <= MaxLoginFailures
Admits == Current.failures < MaxLoginFailures

LoginAllowed(c) ==
    /\ pc[c] = "idle"
    /\ attempt' = Current
    /\ pc' = [pc EXCEPT ![c] = IF Admits THEN "verify" ELSE "idle"]
    /\ UNCHANGED <<clock, recorded>>

Goes(c, next) ==
    /\ pc' = [pc EXCEPT ![c] = next]
    /\ UNCHANGED <<clock, attempt, recorded>>

\* find_user and verify_password: an unknown or disabled user, a wrong password
\* or a failing statement makes the attempt a failure.
Verify(c) ==
    /\ pc[c] = "verify"
    /\ Goes(c, "record") \/ Goes(c, "create")

RecordLoginFailure(c) ==
    /\ pc[c] = "record"
    /\ attempt' = [Current EXCEPT !.failures = @ + 1]
    /\ pc' = [pc EXCEPT ![c] = "idle"]
    /\ recorded' = recorded \cup {[no |-> Cardinality(recorded) + 1, at |-> clock,
                                   window |-> Current.window_started]}
    /\ UNCHANGED clock

\* The second find_user and create_session; either may fail.
CreateSession(c) ==
    /\ pc[c] = "create"
    /\ Goes(c, "clear") \/ Goes(c, "idle")

ClearLoginFailures(c) ==
    /\ pc[c] = "clear"
    /\ attempt' = None
    /\ recorded' = {}
    /\ pc' = [pc EXCEPT ![c] = "idle"]
    /\ UNCHANGED clock

\* The TimeoutLayer or a closed connection drops login_submit.
Drop(c) == pc[c] # "idle" /\ Goes(c, "idle")

\* AuthState lives in memory.
Restart ==
    /\ attempt' = None
    /\ pc' = [c \in Clients |-> "idle"]
    /\ recorded' = {}
    /\ UNCHANGED clock

Tick ==
    /\ clock < MaxClock
    /\ clock' = clock + 1
    /\ UNCHANGED <<attempt, pc, recorded>>

-------------------------------------------------------------------------------

Next ==
    \/ \E c \in Clients :
          \/ LoginAllowed(c) \/ Verify(c) \/ RecordLoginFailure(c)
          \/ CreateSession(c) \/ ClearLoginFailures(c) \/ Drop(c)
    \/ Restart
    \/ Tick

Spec == Init /\ [][Next]_vars

-------------------------------------------------------------------------------
(* Properties.                                                             *)

\* Attempts that were admitted and may still be recorded as failures.
InFlight == {c \in Clients : pc[c] \in {"verify", "record"}}

Failures == IF attempt = None THEN 0 ELSE attempt.failures

\* What the limit is worth: the check and the record are two locks, so a
\* window counts up to MAX_LOGIN_FAILURES - 1 failures plus one per attempt
\* admitted at the same time; those in flight are already accounted for.
FailuresBounded ==
    Failures + Cardinality(InFlight) <= MaxLoginFailures - 1 + Cardinality(Clients)

\* The failures of the RATE_LIMIT_WINDOW that starts at t.
Within(t) == {f \in recorded : t <= f.at /\ f.at < t + RateLimitWindow}

\* Windows are fixed, not sliding: any RATE_LIMIT_WINDOW of time without a
\* successful login sees the failures of at most two of them.
TwoWindowsAtMost ==
    \A t \in Times :
        Cardinality(Within(t)) <= 2 * (MaxLoginFailures - 1 + Cardinality(Clients))

\* Failures are forgotten only when their window is over, when somebody logs
\* in, or when the process restarts: never by a rejected or failing attempt.
FailuresAreKept ==
    [][Failures' < Failures =>
         \/ clock - attempt.window_started >= RateLimitWindow
         \/ \E c \in Clients : pc[c] = "clear" /\ pc'[c] = "idle"
         \/ Restart]_vars
================================================================================
