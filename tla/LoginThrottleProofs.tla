-------------------------- MODULE LoginThrottleProofs --------------------------
(***************************************************************************)
(* The bound on failed logins, for every number of clients, every limit    *)
(* and every window.  FailuresBounded is inductive together with TypeOK:   *)
(* it counts an attempt from the moment it is admitted, so that recording  *)
(* a failure moves one unit from the attempts in flight to the entry.      *)
(* TwoWindowsAtMost follows from WindowsInv: fixed windows do not overlap, *)
(* none counted more than that bound, and any stretch of time as long as a *)
(* window meets at most two.                                               *)
(***************************************************************************)
EXTENDS LoginThrottle, FiniteSetTheorems, TLAPS

USE LoginThrottleAssumption

\* The entry that login_allowed and record_login_failure work on has a window
\* that started in the past, and never more failures than the stored one.
LEMMA CurrentShape ==
    ASSUME TypeOK
    PROVE  /\ Current \in LoginAttempt
           /\ Current.window_started <= clock
           /\ Current.failures <= Failures
           /\ Failures \in Nat
BY DEF TypeOK, Current, Fresh, LoginAttempt, Failures, Times

\* A failure is recorded under a number that no other has.
LEMMA NewFailure ==
    ASSUME TypeOK
    PROVE  LET f == [no |-> Cardinality(recorded) + 1, at |-> clock,
                     window |-> Current.window_started]
           IN  f \in Failure /\ IsFiniteSet(recorded \cup {f})
<1>1. Current.window_started \in Times /\ clock \in Times
  BY CurrentShape DEF LoginAttempt, TypeOK
<1>2. IsFiniteSet(recorded) /\ Cardinality(recorded) \in Nat
  BY FS_CardinalityType DEF TypeOK
<1>3. [no |-> Cardinality(recorded) + 1, at |-> clock,
       window |-> Current.window_started] \in Failure
  BY <1>1, <1>2 DEF Failure
<1>4. \A f : IsFiniteSet(recorded \cup {f})
  BY <1>2, FS_AddElement
<1> QED BY <1>3, <1>4

\* The types hold in every reachable state, for every number of clients, every
\* limit and every window.
THEOREM TypeCorrect == Spec => []TypeOK
<1>1. Init => TypeOK
  BY FS_EmptySet DEF Init, TypeOK, Times, Labels
<1>2. TypeOK /\ [Next]_vars => TypeOK'
  <2> SUFFICES ASSUME TypeOK, [Next]_vars PROVE TypeOK'
    OBVIOUS
  <2>1. ASSUME NEW c \in Clients, LoginAllowed(c) PROVE TypeOK'
    <3>1. attempt' \in LoginAttempt /\ attempt'.window_started <= clock
      BY <2>1, CurrentShape DEF LoginAllowed
    <3>2. pc' \in [Clients -> Labels]
      BY <2>1 DEF LoginAllowed, TypeOK, Labels
    <3> QED BY <2>1, <3>1, <3>2 DEF LoginAllowed, TypeOK
  <2>2. ASSUME NEW c \in Clients, Verify(c) \/ CreateSession(c) \/ Drop(c)
        PROVE  TypeOK'
    <3>1. PICK next \in Labels : Goes(c, next)
      BY <2>2 DEF Verify, CreateSession, Drop, Labels
    <3> QED BY <3>1 DEF Goes, TypeOK
  <2>3. ASSUME NEW c \in Clients, RecordLoginFailure(c) PROVE TypeOK'
    <3>1. attempt' \in LoginAttempt /\ attempt'.window_started <= clock
      BY <2>3, CurrentShape DEF RecordLoginFailure, LoginAttempt
    <3>2. recorded' \subseteq Failure /\ IsFiniteSet(recorded')
      BY <2>3, NewFailure DEF RecordLoginFailure, TypeOK
    <3>3. pc' \in [Clients -> Labels]
      BY <2>3 DEF RecordLoginFailure, TypeOK, Labels
    <3> QED BY <2>3, <3>1, <3>2, <3>3 DEF RecordLoginFailure, TypeOK
  <2>4. ASSUME NEW c \in Clients, ClearLoginFailures(c) PROVE TypeOK'
    BY <2>4, FS_EmptySet DEF ClearLoginFailures, TypeOK, Labels
  <2>5. CASE Restart
    BY <2>5, FS_EmptySet DEF Restart, TypeOK, Labels
  <2>6. CASE Tick
    BY <2>6 DEF Tick, TypeOK, Times, LoginAttempt
  <2>7. CASE UNCHANGED vars
    BY <2>7 DEF vars, TypeOK
  <2> QED BY <2>1, <2>2, <2>3, <2>4, <2>5, <2>6, <2>7 DEF Next
<1> QED BY <1>1, <1>2, PTL DEF Spec

\* The attempts in flight are finitely many, at most one per client.
LEMMA InFlightFinite ==
    /\ IsFiniteSet(InFlight)
    /\ Cardinality(InFlight) \in Nat
    /\ Cardinality(Clients) \in Nat
    /\ Cardinality(InFlight) <= Cardinality(Clients)
<1>1. InFlight \subseteq Clients
  BY DEF InFlight
<1> QED BY <1>1, FS_Subset, FS_CardinalityType

\* A step after which fewer attempts are in flight and no more failures are
\* counted keeps the bound.
LEMMA Shrinking ==
    ASSUME TypeOK, TypeOK', FailuresBounded,
           InFlight' \subseteq InFlight, Failures' <= Failures
    PROVE  FailuresBounded'
<1>1. IsFiniteSet(InFlight') /\ Cardinality(InFlight') <= Cardinality(InFlight)
  BY InFlightFinite, FS_Subset
<1>2. Cardinality(InFlight') \in Nat
  BY <1>1, FS_CardinalityType
<1>3. Failures \in Nat /\ Failures' \in Nat
  BY DEF TypeOK, Failures, LoginAttempt
<1> QED BY <1>1, <1>2, <1>3, InFlightFinite DEF FailuresBounded

\* In every reachable state the failures counted in the window, plus the
\* attempts admitted and not yet judged, stay below the limit plus the number
\* of attempts served at the same time (the race between login_allowed and
\* record_login_failure costs exactly the concurrency, never more).
THEOREM FailuresStayBounded == Spec => []FailuresBounded
<1>1. Init => FailuresBounded
  <2> SUFFICES ASSUME Init PROVE FailuresBounded
    OBVIOUS
  <2>1. InFlight = {} /\ Failures = 0
    BY DEF Init, InFlight, Failures
  <2> QED BY <2>1, FS_EmptySet, InFlightFinite DEF FailuresBounded
<1>2. TypeOK /\ TypeOK' /\ FailuresBounded /\ [Next]_vars => FailuresBounded'
  <2> SUFFICES ASSUME TypeOK, TypeOK', FailuresBounded, [Next]_vars
               PROVE  FailuresBounded'
    OBVIOUS
  <2>1. ASSUME NEW c \in Clients, LoginAllowed(c) PROVE FailuresBounded'
    <3>1. CASE Admits
      <4>1. Failures' <= MaxLoginFailures - 1 /\ Failures' \in Nat
        BY <2>1, <3>1, CurrentShape DEF LoginAllowed, Admits, Failures, LoginAttempt
      <4>2. InFlight' \subseteq Clients
        BY DEF InFlight
      <4>3. /\ Cardinality(InFlight') <= Cardinality(Clients)
            /\ Cardinality(InFlight') \in Nat
        BY <4>2, FS_Subset, FS_CardinalityType
      <4> QED BY <4>1, <4>3, InFlightFinite DEF FailuresBounded
    <3>2. CASE ~Admits
      <4>1. InFlight' = InFlight
        BY <2>1, <3>2 DEF LoginAllowed, InFlight
      <4>2. Failures' <= Failures
        BY <2>1, CurrentShape DEF LoginAllowed, Failures, LoginAttempt
      <4> QED BY <4>1, <4>2, Shrinking
    <3> QED BY <3>1, <3>2
  <2>2. ASSUME NEW c \in Clients, Verify(c) \/ CreateSession(c) \/ Drop(c)
        PROVE  FailuresBounded'
    <3>1. InFlight' \subseteq InFlight
      BY <2>2 DEF Verify, CreateSession, Drop, Goes, InFlight, TypeOK
    <3>2. Failures' = Failures /\ Failures \in Nat
      BY <2>2, CurrentShape DEF Verify, CreateSession, Drop, Goes, Failures
    <3> QED BY <3>1, <3>2, Shrinking
  <2>3. ASSUME NEW c \in Clients, RecordLoginFailure(c) PROVE FailuresBounded'
    <3>1. InFlight' = InFlight \ {c} /\ c \in InFlight
      BY <2>3 DEF RecordLoginFailure, InFlight, TypeOK
    <3>2. /\ Cardinality(InFlight') = Cardinality(InFlight) - 1
      BY <3>1, InFlightFinite, FS_RemoveElement
    <3>3. Failures' <= Failures + 1 /\ Failures' \in Nat
      BY <2>3, CurrentShape DEF RecordLoginFailure, Failures, LoginAttempt
    <3> QED BY <3>2, <3>3, CurrentShape, InFlightFinite DEF FailuresBounded
  <2>4. ASSUME NEW c \in Clients, ClearLoginFailures(c) PROVE FailuresBounded'
    <3>1. InFlight' \subseteq InFlight
      BY <2>4 DEF ClearLoginFailures, InFlight, TypeOK
    <3>2. Failures' <= Failures
      BY <2>4, CurrentShape DEF ClearLoginFailures, Failures
    <3> QED BY <3>1, <3>2, Shrinking
  <2>5. CASE Restart
    <3>1. InFlight' \subseteq InFlight
      BY <2>5 DEF Restart, InFlight
    <3>2. Failures' <= Failures
      BY <2>5, CurrentShape DEF Restart, Failures
    <3> QED BY <3>1, <3>2, Shrinking
  <2>6. CASE Tick \/ UNCHANGED vars
    <3>1. InFlight' = InFlight /\ Failures' = Failures
      BY <2>6 DEF Tick, vars, InFlight, Failures
    <3> QED BY <3>1 DEF FailuresBounded
  <2> QED BY <2>1, <2>2, <2>3, <2>4, <2>5, <2>6 DEF Next
<1> QED BY <1>1, <1>2, TypeCorrect, PTL DEF Spec

\* Rejected and failing attempts, ticks and dropped requests never lower the
\* count of failures within its window: only the success of a login and a
\* restart do.
THEOREM FailuresAreNotLost == Spec => FailuresAreKept
<1> DEFINE Kept ==
      Failures' < Failures =>
         \/ clock - attempt.window_started >= RateLimitWindow
         \/ \E c \in Clients : pc[c] = "clear" /\ pc'[c] = "idle"
         \/ Restart
<1>1. TypeOK /\ TypeOK' /\ [Next]_vars => [Kept]_vars
  <2> SUFFICES ASSUME TypeOK, TypeOK', [Next]_vars, Failures' < Failures,
                      ~(clock - attempt.window_started >= RateLimitWindow)
               PROVE  \/ \E c \in Clients : pc[c] = "clear" /\ pc'[c] = "idle"
                      \/ Restart
    BY DEF Failures, vars
  <2>1. attempt # None /\ Current = attempt /\ Failures = attempt.failures
    <3>1. Failures' \in Nat
      BY DEF Failures, TypeOK, LoginAttempt
    <3>2. attempt # None
      BY <3>1 DEF Failures
    <3> QED BY <3>2 DEF Failures, Current
  <2>2. ASSUME NEW c \in Clients, LoginAllowed(c) PROVE FALSE
    BY <2>1, <2>2 DEF LoginAllowed, Failures, TypeOK, LoginAttempt
  <2>3. ASSUME NEW c \in Clients, Verify(c) \/ CreateSession(c) \/ Drop(c)
        PROVE  FALSE
    BY <2>1, <2>3 DEF Verify, CreateSession, Drop, Goes, Failures, TypeOK, LoginAttempt
  <2>4. ASSUME NEW c \in Clients, RecordLoginFailure(c) PROVE FALSE
    <3>1. attempt \in LoginAttempt
      BY <2>1 DEF TypeOK
    <3>2. attempt' \in LoginAttempt /\ attempt'.failures = attempt.failures + 1
      BY <2>1, <2>4, <3>1 DEF RecordLoginFailure, LoginAttempt
    <3>3. attempt' # None
      BY <3>2 DEF LoginAttempt, Times
    <3> QED BY <2>1, <3>1, <3>2, <3>3 DEF Failures, LoginAttempt
  <2>5. ASSUME NEW c \in Clients, ClearLoginFailures(c)
        PROVE  pc[c] = "clear" /\ pc'[c] = "idle"
    BY <2>5 DEF ClearLoginFailures, TypeOK
  <2>6. CASE Tick \/ UNCHANGED vars
    BY <2>1, <2>6 DEF Tick, vars, Failures, TypeOK, LoginAttempt
  <2> QED BY <2>2, <2>3, <2>4, <2>5, <2>6 DEF Next
<1> QED BY <1>1, TypeCorrect, PTL DEF Spec, FailuresAreKept

-------------------------------------------------------------------------------
(* Windows of time.                                                        *)

\* What a window may count.
Limit == MaxLoginFailures - 1 + Cardinality(Clients)

\* The recorded failures that window w counted.
CountedBy(w) == {f \in recorded : f.window = w}

\* A failure is recorded within its window, in the past, under a number of its
\* own; two windows do not overlap; none counted more than its limit; and what
\* the current one counted is what the entry says, every other being over.
WindowsInv ==
    /\ \A f \in recorded :
          /\ f.no <= Cardinality(recorded) /\ f.at <= clock
          /\ f.window <= f.at /\ f.at < f.window + RateLimitWindow
    /\ \A f, g \in recorded :
          f.window < g.window => f.window + RateLimitWindow <= g.window
    /\ \A w \in Times : Cardinality(CountedBy(w)) <= Limit
    /\ attempt = None => recorded = {}
    /\ attempt # None =>
          /\ Cardinality(CountedBy(attempt.window_started)) = attempt.failures
          /\ \A f \in recorded :
                \/ f.window = attempt.window_started
                \/ f.window + RateLimitWindow <= attempt.window_started

\* The sets of failures are finite, so that they can be counted.
LEMMA Counting ==
    ASSUME TypeOK
    PROVE  /\ Cardinality(recorded) \in Nat /\ Limit \in Nat
           /\ \A w : IsFiniteSet(CountedBy(w)) /\ Cardinality(CountedBy(w)) \in Nat
           /\ \A t : IsFiniteSet(Within(t)) /\ Cardinality(Within(t)) \in Nat
<1>1. \A w : CountedBy(w) \subseteq recorded /\ Within(w) \subseteq recorded
  BY DEF CountedBy, Within
<1>2. Cardinality(Clients) \in Nat
  BY FS_CardinalityType
<1> QED BY <1>1, <1>2, FS_Subset, FS_CardinalityType DEF TypeOK, Limit

\* The entry as it is found counts what its window counted, and is running,
\* every other window being over; a new one has counted nothing.
LEMMA CurrentCounts ==
    ASSUME TypeOK, WindowsInv
    PROVE  /\ Cardinality(CountedBy(Current.window_started)) = Current.failures
           /\ clock < Current.window_started + RateLimitWindow
           /\ \A f \in recorded :
                 \/ f.window = Current.window_started
                 \/ f.window + RateLimitWindow <= Current.window_started
<1>1. CASE attempt = None \/ clock - attempt.window_started >= RateLimitWindow
  <2>1. Current.window_started = clock /\ Current.failures = 0
    BY <1>1 DEF Current, Fresh
  <2>2. ASSUME NEW f \in recorded PROVE f.window + RateLimitWindow <= clock
    <3>1. attempt # None
      BY <2>2 DEF WindowsInv
    <3>2. f.window \in Nat /\ attempt.window_started \in Nat /\ clock \in Nat
      BY <3>1 DEF TypeOK, Failure, LoginAttempt, Times
    <3>3. \/ f.window = attempt.window_started
          \/ f.window + RateLimitWindow <= attempt.window_started
      BY <3>1 DEF WindowsInv
    <3> QED BY <1>1, <3>1, <3>2, <3>3
  <2>3. CountedBy(clock) = {}
    <3> SUFFICES ASSUME NEW f \in recorded, f.window = clock PROVE FALSE
      BY DEF CountedBy
    <3> QED BY <2>2 DEF TypeOK, Times
  <2> QED BY <2>1, <2>2, <2>3, FS_EmptySet DEF TypeOK, Times
<1>2. CASE ~(attempt = None \/ clock - attempt.window_started >= RateLimitWindow)
  <2>1. Current = attempt
    BY <1>2 DEF Current
  <2>2. clock \in Nat /\ attempt.window_started \in Nat
    BY <1>2 DEF TypeOK, LoginAttempt, Times
  <2> QED BY <1>2, <2>1, <2>2 DEF WindowsInv
<1> QED BY <1>1, <1>2

\* Fixed windows in every reachable state: they do not overlap, each counted
\* no more failures than its limit, and the entry counts those of the last.
THEOREM WindowsStayApart == Spec => []WindowsInv
<1>1. Init => WindowsInv
  <2> SUFFICES ASSUME Init PROVE WindowsInv
    OBVIOUS
  <2>1. \A w : CountedBy(w) = {}
    BY DEF Init, CountedBy
  <2>2. Limit \in Nat
    BY FS_CardinalityType DEF Limit
  <2> QED BY <2>1, <2>2, FS_EmptySet DEF Init, WindowsInv
<1>2. TypeOK /\ TypeOK' /\ FailuresBounded' /\ WindowsInv /\ [Next]_vars => WindowsInv'
  <2> SUFFICES ASSUME TypeOK, TypeOK', FailuresBounded', WindowsInv, [Next]_vars
               PROVE  WindowsInv'
    OBVIOUS
  <2>1. ASSUME NEW c \in Clients, LoginAllowed(c) PROVE WindowsInv'
    <3>1. attempt' = Current /\ UNCHANGED <<clock, recorded>>
      BY <2>1 DEF LoginAllowed
    <3>2. \A w : CountedBy(w)' = CountedBy(w)
      BY <3>1 DEF CountedBy
    <3>3. attempt' # None
      BY <3>1, CurrentShape DEF LoginAttempt, Times
    <3>4. PICK w0 \in Times : w0 = Current.window_started
      BY CurrentShape DEF LoginAttempt
    <3>5. /\ Cardinality(CountedBy(w0)') = attempt'.failures
          /\ \A f \in recorded' : f.window = w0 \/ f.window + RateLimitWindow <= w0
      BY <3>1, <3>2, <3>4, CurrentCounts
    <3>6. CountedBy(attempt.window_started)' = CountedBy(w0)'
      BY <3>1, <3>4 DEF CountedBy
    <3> QED BY <3>1, <3>2, <3>3, <3>4, <3>5, <3>6 DEF WindowsInv, Limit
  <2>2. ASSUME NEW c \in Clients, Verify(c) \/ CreateSession(c) \/ Drop(c)
        PROVE  WindowsInv'
    BY <2>2 DEF Verify, CreateSession, Drop, Goes, WindowsInv, CountedBy
  <2>3. ASSUME NEW c \in Clients, RecordLoginFailure(c) PROVE WindowsInv'
    <3>0. PICK w0 \in Times : w0 = Current.window_started
      BY CurrentShape DEF LoginAttempt
    <3> DEFINE new == [no |-> Cardinality(recorded) + 1, at |-> clock, window |-> w0]
    <3>1. /\ recorded' = recorded \cup {new} /\ clock' = clock
          /\ attempt' = [Current EXCEPT !.failures = @ + 1]
      BY <2>3, <3>0 DEF RecordLoginFailure
    <3>2. /\ new \in Failure /\ new.no = Cardinality(recorded) + 1
          /\ new.at = clock /\ new.window = w0
      BY <3>0, NewFailure
    <3>3. /\ w0 \in Nat /\ w0 <= clock /\ clock < w0 + RateLimitWindow /\ clock \in Nat
          /\ attempt' # None /\ attempt'.window_started = w0
          /\ attempt'.failures = Current.failures + 1
      BY <3>0, <3>1, CurrentShape, CurrentCounts DEF LoginAttempt, Times, TypeOK
    <3> HIDE DEF new
    <3>4. new \notin recorded /\ Cardinality(recorded') = Cardinality(recorded) + 1
      <4>1. new \notin recorded
        BY <3>2, Counting DEF WindowsInv
      <4> QED BY <3>1, <4>1, FS_AddElement DEF TypeOK
    <3>5. CountedBy(w0)' = CountedBy(w0) \cup {new}
      BY <3>1, <3>2 DEF CountedBy
    <3>6. \A w : w # w0 => CountedBy(w)' = CountedBy(w)
      BY <3>1, <3>2 DEF CountedBy
    <3>7. Cardinality(CountedBy(w0)') = attempt'.failures
      <4>1. new \notin CountedBy(w0)
        BY <3>4 DEF CountedBy
      <4>2. Cardinality(CountedBy(w0)') = Cardinality(CountedBy(w0)) + 1
        BY <3>5, <4>1, Counting, FS_AddElement
      <4> QED BY <3>0, <3>3, <4>2, CurrentCounts
    <3>8. attempt'.failures <= Limit
      <4>1. Failures' = attempt'.failures
        BY <3>3 DEF Failures
      <4>2. attempt'.failures \in Nat
        BY <3>3 DEF TypeOK, LoginAttempt
      <4>3. InFlight' \subseteq Clients
        BY DEF InFlight
      <4>4. Cardinality(InFlight') \in Nat
        BY <4>3, FS_Subset, FS_CardinalityType
      <4> QED BY <4>1, <4>2, <4>4, Counting DEF FailuresBounded, Limit
    <3>9. \A f \in recorded' :
             /\ f.no <= Cardinality(recorded') /\ f.at <= clock'
             /\ f.window <= f.at /\ f.at < f.window + RateLimitWindow
      <4>1. \A f \in recorded : f.no \in Nat
        BY DEF TypeOK, Failure
      <4> QED BY <3>1, <3>2, <3>3, <3>4, <4>1, Counting DEF WindowsInv
    <3>10. \A f \in recorded' :
              f.window = w0 \/ f.window + RateLimitWindow <= w0
      BY <3>0, <3>1, <3>2, CurrentCounts
    <3>11. \A f, g \in recorded' :
              f.window < g.window => f.window + RateLimitWindow <= g.window
      <4> SUFFICES ASSUME NEW f \in recorded', NEW g \in recorded',
                          f.window < g.window
                   PROVE  f.window + RateLimitWindow <= g.window
        OBVIOUS
      <4>1. CASE f \in recorded /\ g \in recorded
        BY <4>1 DEF WindowsInv
      <4>2. CASE g = new
        BY <3>2, <3>3, <3>10, <4>2
      <4>3. CASE f = new
        <5>1. g.window \in Nat
          BY DEF TypeOK, Failure, Times
        <5> QED BY <3>2, <3>3, <3>10, <4>3, <5>1
      <4> QED BY <3>1, <4>1, <4>2, <4>3
    <3>12. \A w \in Times : Cardinality(CountedBy(w)') <= Limit
      BY <3>6, <3>7, <3>8 DEF WindowsInv
    <3>13. CountedBy(attempt.window_started)' = CountedBy(w0)'
      BY <3>3 DEF CountedBy
    <3> QED BY <3>3, <3>7, <3>9, <3>10, <3>11, <3>12, <3>13 DEF WindowsInv, Limit
  <2>4. ASSUME recorded' = {}, attempt' = None PROVE WindowsInv'
    <3>1. \A w : CountedBy(w)' = {}
      BY <2>4 DEF CountedBy
    <3>2. Limit \in Nat
      BY Counting
    <3>3. \A w : Cardinality(CountedBy(w)') <= Limit
      BY <3>1, <3>2, FS_EmptySet
    <3> QED BY <2>4, <3>3 DEF WindowsInv, Limit
  <2>5. CASE Tick
    <3>1. /\ UNCHANGED <<attempt, recorded>> /\ clock' = clock + 1
          /\ clock \in Nat /\ \A f \in recorded : f.at \in Nat
      BY <2>5 DEF Tick, TypeOK, Failure, Times
    <3>2. \A w : CountedBy(w)' = CountedBy(w)
      BY <3>1 DEF CountedBy
    <3> QED BY <3>1, <3>2 DEF WindowsInv
  <2>6. CASE UNCHANGED vars
    BY <2>6 DEF vars, WindowsInv, CountedBy
  <2>7. (\E c \in Clients : ClearLoginFailures(c)) \/ Restart
          => recorded' = {} /\ attempt' = None
    BY DEF ClearLoginFailures, Restart
  <2> QED BY <2>1, <2>2, <2>3, <2>4, <2>5, <2>6, <2>7 DEF Next
<1> QED BY <1>1, <1>2, TypeCorrect, FailuresStayBounded, PTL DEF Spec

\* The failures of a stretch of time as long as a window were counted by at
\* most two windows.
LEMMA TwoCount ==
    ASSUME TypeOK, WindowsInv, NEW t \in Times
    PROVE  \E a, b \in Times : Within(t) \subseteq CountedBy(a) \cup CountedBy(b)
<1>1. \A f \in Within(t) : /\ f \in recorded /\ f.window \in Times /\ f.at \in Nat
                           /\ t <= f.at /\ f.at < t + RateLimitWindow
  BY DEF Within, TypeOK, Failure, Times
<1>2. CASE \E f, g \in Within(t) : f.window # g.window
  <2>1. PICK f, g \in Within(t) : f.window < g.window
    BY <1>1, <1>2 DEF Times
  <2>2. ASSUME NEW h \in Within(t) PROVE h.window \in {f.window, g.window}
    <3> SUFFICES ASSUME h.window # f.window, h.window # g.window PROVE FALSE
      OBVIOUS
    \* Of three windows in a row the middle one would lie inside the stretch.
    <3>1. ASSUME NEW x \in Within(t), NEW y \in Within(t), NEW z \in Within(t),
                 x.window < y.window, y.window < z.window
          PROVE  FALSE
      <4>1. /\ x.window + RateLimitWindow <= y.window
            /\ y.window + RateLimitWindow <= z.window
        BY <1>1, <3>1 DEF WindowsInv
      <4>2. x.at < x.window + RateLimitWindow /\ z.window <= z.at
        BY <1>1 DEF WindowsInv
      <4>3. /\ x.window \in Nat /\ y.window \in Nat /\ z.window \in Nat
            /\ x.at \in Nat /\ z.at \in Nat /\ t \in Nat
            /\ t <= x.at /\ z.at < t + RateLimitWindow
        BY <1>1 DEF Times
      <4> QED BY <4>1, <4>2, <4>3
    <3>2. /\ f.window \in Nat /\ g.window \in Nat /\ h.window \in Nat
          /\ f.window < g.window
      BY <1>1, <2>1 DEF Times
    <3>3. CASE h.window < f.window
      BY <2>1, <3>1, <3>3
    <3>4. CASE f.window < h.window /\ h.window < g.window
      BY <3>1, <3>4
    <3>5. CASE g.window < h.window
      BY <2>1, <3>1, <3>5
    <3> QED BY <3>2, <3>3, <3>4, <3>5
  <2>3. Within(t) \subseteq CountedBy(f.window) \cup CountedBy(g.window)
    BY <1>1, <2>2 DEF CountedBy
  <2> QED BY <1>1, <2>3
<1>3. CASE \A f, g \in Within(t) : f.window = g.window
  <2>1. CASE Within(t) = {}
    BY <2>1
  <2>2. CASE Within(t) # {}
    <3>1. PICK f \in Within(t) : TRUE
      BY <2>2
    <3>2. Within(t) \subseteq CountedBy(f.window)
      BY <1>1, <1>3 DEF CountedBy
    <3> QED BY <1>1, <3>2
  <2> QED BY <2>1, <2>2
<1> QED BY <1>2, <1>3

\* Any RATE_LIMIT_WINDOW of time without a successful login sees at most twice
\* what one window admits, whatever the attempts and their interleaving.
THEOREM AtMostTwoWindows == Spec => []TwoWindowsAtMost
<1>1. TypeOK /\ WindowsInv => TwoWindowsAtMost
  <2> SUFFICES ASSUME TypeOK, WindowsInv, NEW t \in Times
               PROVE  Cardinality(Within(t)) <= 2 * Limit
    BY DEF TwoWindowsAtMost, Limit
  <2>1. PICK a, b \in Times : Within(t) \subseteq CountedBy(a) \cup CountedBy(b)
    BY TwoCount
  <2>2. IsFiniteSet(CountedBy(a)) /\ IsFiniteSet(CountedBy(b))
    BY Counting
  <2>3. /\ IsFiniteSet(CountedBy(a) \cup CountedBy(b))
        /\ Cardinality(CountedBy(a) \cup CountedBy(b)) =
              Cardinality(CountedBy(a)) + Cardinality(CountedBy(b))
                - Cardinality(CountedBy(a) \cap CountedBy(b))
    BY <2>2, FS_Union
  <2>4. Cardinality(CountedBy(a) \cap CountedBy(b)) \in Nat
    BY <2>2, FS_Intersection, FS_CardinalityType
  <2>5. Cardinality(Within(t)) <= Cardinality(CountedBy(a) \cup CountedBy(b))
    BY <2>1, <2>3, FS_Subset
  <2>6. Cardinality(CountedBy(a)) <= Limit /\ Cardinality(CountedBy(b)) <= Limit
    BY DEF WindowsInv
  <2> QED BY <2>3, <2>4, <2>5, <2>6, Counting
<1> QED BY <1>1, TypeCorrect, WindowsStayApart, PTL
================================================================================
