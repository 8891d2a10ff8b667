-------------------------- MODULE RouterSessionProofs --------------------------
(***************************************************************************)
(* The session with the router implements WakeCall, for every set of keys  *)
(* and whatever the router prints.  The strengthening, Stages, says what   *)
(* the order of the code has established at each stage: the key has been   *)
(* accepted, the password has been sent, the command line has gone out.    *)
(***************************************************************************)
EXTENDS RouterSession, TLAPS

Past(stages) == pc \notin stages \cup {"done"}

\* What each stage may rely on.
StagesReached ==
    /\ Past({"check_site", "connect", "check_key"}) => KeyAccepted
    /\ Past({"check_site", "connect", "check_key", "auth"}) => password
    /\ pc \in {"flush", "await", "judge"} <=> line = "sent" /\ pc # "done"

\* What the provider asks of the stored values.
Usable(s) == ProviderHost(s.host) /\ ProviderUser(s.user) /\ BuildsWol(s)

IInv == TypeOK /\ StagesReached /\ Usable(site)

\* Whatever an accepted form stores is a well-formed row that passes every check
\* of the provider, the one of the command line made from it included.
LEMMA StoredIsUsable ==
    ASSUME NEW f \in Forms, FormAccepts(f)
    PROVE  Stored(f) \in Forms /\ Usable(Stored(f))
<1> DEFINE s == Stored(f)
<1>1. /\ s.host = Trim(f.host) /\ s.user = Trim(f.user)
      /\ s.interface = Trim(f.interface)
      /\ s.mac = NormalMac(f.mac) /\ s.ip = f.ip
  BY DEF Stored, Forms
<1>2. ASSUME NEW t \in Texts PROVE Trim(t) \in Texts
  BY <1>2 DEF Trim, Texts
<1>3. s \in Forms
  <2>1. NormalMac(f.mac) \in Macs
    BY DEF Forms, Macs, NormalMac
  <2> QED BY <1>2, <2>1 DEF Stored, Forms
<1>4. ProviderHost(s.host) /\ ProviderUser(s.user)
  BY <1>1 DEF FormAccepts, FormHost, FormUser, ProviderHost, ProviderUser
<1>5. ProviderInterface(s.interface)
  BY <1>1 DEF FormAccepts, FormInterface, ProviderInterface
<1>6. GoodMac(s.mac) /\ (s.ip = "none" \/ GoodIp(s.ip))
  BY <1>1 DEF FormAccepts, GoodMac, NormalMac, Forms, Macs
<1>7. IsSafeCommand(WolCommand(s))
  <2> DEFINE t == s.interface
             c == WolCommand(s)
  <2>1. t \in Texts /\ ~t.padded
    BY <1>1, <1>2 DEF Trim, Texts, Forms
  <2>2. t.length \in 1 .. 32 /\ t.has \subseteq {"word", "slash"}
    BY <2>1, <1>5 DEF ProviderInterface, Fits, CharsOf, Texts
  <2>3. /\ ~c.padded /\ c.length \in 1 .. 256
        /\ c.has = t.has \cup {"word", "space", "colon"}
    BY <2>2 DEF WolCommand
  <2>4. Fits(c, 256)
    BY <2>3 DEF Fits
  <2>5. CharsOf(c) \cap {"newline", "separator"} = {}
    BY <2>2, <2>3 DEF CharsOf
  <2> HIDE DEF c
  <2> QED BY <2>4, <2>5 DEF IsSafeCommand, c
<1> HIDE DEF s
<1> QED BY <1>3, <1>4, <1>5, <1>6, <1>7 DEF Usable, BuildsWol, s

\* What has been read and what is on the wire are lines, so is what both make.
LEMMA ReadLines ==
    ASSUME TypeOK, ReadAvailable
    PROVE  output' \in Seq(Lines) /\ wire' \in Seq(Lines)
BY DEF TypeOK, ReadAvailable

\* The thread's steps that only move on or return keep the types.
LEMMA ThreadKeepsTypes ==
    ASSUME TypeOK, Thread
    PROVE  TypeOK'
<1> USE DEF Stages, ShellStates, Goes, Returns, call, peer
<1>1. CASE Stage
  BY <1>1 DEF Stage, Fails, CheckSite, Connect, CheckKey, Auth, OpenShell,
              DrainEnds, WriteCommand, WriteCr, Flush, Judge, TypeOK
<1>2. CASE Drain
  BY <1>2, ReadLines DEF Drain, TypeOK
<1>3. CASE AwaitPrompt
  BY <1>3, ReadLines DEF AwaitPrompt, TypeOK
<1>4. CASE AwaitTimesOut
  BY <1>4, ReadLines DEF AwaitTimesOut, TypeOK
<1>5. CASE ReadFails
  BY <1>5 DEF ReadFails, TypeOK
<1> QED BY <1>1, <1>2, <1>3, <1>4, <1>5 DEF Thread

\* The router's steps touch the peer only, and print lines.
LEMMA RouterKeepsTypes ==
    ASSUME TypeOK, Router
    PROVE  TypeOK' /\ UNCHANGED <<call, thread>>
<1>1. CASE Greets \/ Echoes \/ Answers \/ PromptsAgain
  <2>1. PICK from \in ShellStates, text \in Lines, to \in ShellStates :
           Moves(from, text, to)
    BY <1>1 DEF Greets, Echoes, Answers, PromptsAgain, ShellStates, Lines
  <2>2. wire' \in Seq(Lines)
    BY <2>1 DEF Moves, TypeOK
  <2> QED BY <2>1, <2>2 DEF Moves, TypeOK, call, thread
<1>2. CASE HangsUp
  BY <1>2 DEF HangsUp, TypeOK, call, thread
<1> QED BY <1>1, <1>2 DEF Router

\* Stages are reached in the order of the code.
LEMMA StagesKept ==
    ASSUME IInv, [Next]_vars
    PROVE  StagesReached'
<1> USE DEF IInv, StagesReached, Past, KeyAccepted, Goes, Returns, call
<1>1. CASE Stage
  BY <1>1 DEF Stage, Fails, CheckSite, Connect, CheckKey, Auth, OpenShell,
              DrainEnds, WriteCommand, WriteCr, Flush, Judge, TypeOK, Stages
<1>2. CASE Drain \/ AwaitPrompt \/ AwaitTimesOut \/ ReadFails
  BY <1>2 DEF Drain, AwaitPrompt, AwaitTimesOut, ReadFails
<1>3. CASE Router
  BY <1>3, RouterKeepsTypes DEF thread
<1>4. CASE UNCHANGED vars
  BY <1>4 DEF vars, thread
<1> QED BY <1>1, <1>2, <1>3, <1>4 DEF Next, Thread

\* No step touches the stored values.
LEMMA SiteKept ==
    ASSUME [Next]_vars
    PROVE  UNCHANGED <<site, expected, require>>
BY DEF Next, Thread, Stage, Fails, CheckSite, Connect, CheckKey, Auth, OpenShell,
       DrainEnds, WriteCommand, WriteCr, Flush, Judge, Drain, AwaitPrompt,
       AwaitTimesOut, ReadFails, Router, Greets, Echoes, Answers, PromptsAgain,
       HangsUp, Moves, call, vars

\* The strengthening holds in every reachable state.
LEMMA InvariantHolds == Spec => []IInv
<1>1. Init => IInv
  <2> SUFFICES ASSUME Init PROVE IInv
    OBVIOUS
  <2>1. output \in Seq(Lines) /\ wire \in Seq(Lines)
    BY DEF Init
  <2>2. site \in Forms /\ Usable(site)
    BY StoredIsUsable, RouterSessionAssumption DEF Init
  <2>3. TypeOK
    BY <2>1, <2>2 DEF Init, TypeOK, Stages, ShellStates
  <2>4. StagesReached
    BY DEF Init, StagesReached, Past
  <2> QED BY <2>2, <2>3, <2>4 DEF IInv
<1>2. IInv /\ [Next]_vars => IInv'
  <2> SUFFICES ASSUME IInv, [Next]_vars PROVE IInv'
    OBVIOUS
  <2>0. Usable(site)'
    BY SiteKept DEF IInv
  <2>1. CASE UNCHANGED vars
    <3>1. TypeOK'
      BY <2>1 DEF vars, call, thread, peer, IInv, TypeOK
    <3> QED BY <2>0, <3>1, StagesKept DEF IInv
  <2>2. CASE Next
    BY <2>0, <2>2, ThreadKeepsTypes, RouterKeepsTypes, StagesKept DEF Next, IInv
  <2> QED BY <2>1, <2>2
<1> QED BY <1>1, <1>2, PTL DEF Spec

\* The types hold in every reachable state, and a result is set exactly when
\* the thread has returned, for every set of keys.
THEOREM TypeCorrect == Spec => []TypeOK
BY InvariantHolds, PTL DEF IInv

\* A step of the thread or of the router is a step of the abstract call, or
\* leaves it as it is.
LEMMA StepRefines ==
    ASSUME IInv, [Next]_vars
    PROVE  [Call!Next]_(Call!vars)
<1> USE DEF Call!Next, Call!vars, Goes, Returns, call
<1>1. ASSUME Fails \/ ReadFails \/ AwaitTimesOut PROVE Call!Return
  BY <1>1 DEF Fails, ReadFails, AwaitTimesOut, Call!Return, IInv, TypeOK
<1>11. CASE CheckSite
  BY <1>11 DEF CheckSite, Call!Return, IInv, TypeOK
<1>2. CASE Connect \/ OpenShell \/ DrainEnds \/ Flush \/ Drain
  BY <1>2 DEF Connect, OpenShell, DrainEnds, Flush, Drain
<1>3. CASE CheckKey
  BY <1>3 DEF CheckKey, Call!Return, IInv, TypeOK
<1>4. ASSUME Auth PROVE Call!Authenticate
  BY <1>4 DEF Auth, Call!Authenticate, Call!Acceptable, IInv, TypeOK,
              StagesReached, Past, KeyAccepted
<1>5. CASE WriteCommand
  BY <1>5 DEF WriteCommand, IInv, StagesReached
<1>6. ASSUME WriteCr PROVE Call!Command
  BY <1>6 DEF WriteCr, Call!Command, IInv, TypeOK, StagesReached, Past
<1>7. ASSUME Judge PROVE Call!Return
  BY <1>7 DEF Judge, Call!Return, IInv, TypeOK, StagesReached
<1>8. CASE AwaitPrompt
  BY <1>8 DEF AwaitPrompt
<1>9. CASE Router
  BY <1>9, RouterKeepsTypes DEF thread, IInv
<1>10. CASE UNCHANGED vars
  BY <1>10 DEF vars, thread
<1> QED
  BY <1>1, <1>2, <1>3, <1>4, <1>5, <1>6, <1>7, <1>8, <1>9, <1>10, <1>11
     DEF Next, Thread, Stage

\* For every set of keys and every behaviour of the router, the session keeps
\* what the handlers rely on: no password and no command line for a host whose
\* key is not acceptable, one command line, "ok" only after it.
THEOREM SessionImplementsCall == Spec => ImplementsWakeCall
<1>1. Init => Call!Init
  BY DEF Init, Call!Init
<1>2. IInv /\ [Next]_vars => [Call!Next]_(Call!vars)
  BY StepRefines
<1> QED BY <1>1, <1>2, InvariantHolds, PTL DEF Spec, ImplementsWakeCall, Call!Spec

Seen == INSTANCE ProviderJob WITH trusted <- expected # None, commanded <- line = "sent"

\* A wake's call (require_trusted_key) is one of the jobs that Wake assumes: the
\* command line goes out once at most and for a site with a trusted key, and
\* success is returned only after it.  Wake allows each of these steps
\* (JobsAreProviderCalls of WakeProofs), so its results hold of this session.
THEOREM CallIsProviderJob == Spec /\ require => Seen!Spec
<1>1. Init => Seen!Init
  BY DEF Init, Seen!Init
<1>2. ASSUME IInv, [Next]_vars, require
      PROVE  [Seen!Next]_(Seen!vars) /\ require'
  <2>1. UNCHANGED <<expected, require>>
    BY <1>2, SiteKept
  <2>2. [Call!Next]_(Call!vars)
    BY <1>2, StepRefines
  <2>3. ASSUME Call!Authenticate \/ UNCHANGED Call!vars
        PROVE  UNCHANGED Seen!vars
    <3>1. UNCHANGED <<line = "sent", result>>
      BY <2>3, Zenon DEF Call!Authenticate, Call!vars
    <3>2. UNCHANGED <<expected # None>>
      BY <2>1
    <3> QED BY <3>1, <3>2, Zenon DEF Seen!vars
  <2>4. ASSUME Call!Command
        PROVE  Seen!Next
    <3>1. WriteCr
      BY <1>2, <2>4, RouterKeepsTypes
         DEF Call!Command, Next, Thread, Stage, Fails, CheckSite, Connect, CheckKey,
             Auth, OpenShell, DrainEnds, WriteCommand, Flush, Judge, Drain,
             AwaitPrompt, AwaitTimesOut, ReadFails, thread, vars, IInv
    <3>2. KeyAccepted
      BY <1>2, <3>1 DEF WriteCr, IInv, StagesReached, Past
    <3> QED BY <1>2, <2>1, <2>4, <3>2
            DEF Call!Command, KeyAccepted, Seen!Next, Seen!Command
  <2>5. ASSUME Call!Return
        PROVE  Seen!Next
    <3>1. UNCHANGED <<expected # None>>
      BY <2>1
    <3>2. UNCHANGED <<line = "sent">>
      BY <2>5, Zenon DEF Call!Return
    <3> QED BY <2>5, <3>1, <3>2, Zenon DEF Call!Return, Seen!Next, Seen!Return
  <2> QED BY <1>2, <2>1, <2>2, <2>3, <2>4, <2>5 DEF Call!Next
<1> QED BY <1>1, <1>2, InvariantHolds, PTL DEF Spec, Seen!Spec

\* The edit forms of sites and devices are filled with the stored row: sent back
\* as they are they are accepted, and store the row that is there.  So an edit
\* that changes no field of the connection never looks like a new connection to
\* site_update, which clears the trusted key when the stored values differ.
THEOREM ResubmittedFormIsKept ==
    ASSUME NEW f \in Forms, FormAccepts(f)
    PROVE  FormAccepts(Stored(f)) /\ Stored(Stored(f)) = Stored(f)
<1>1. ASSUME NEW g \in Forms
      PROVE  /\ Stored(g).host = Trim(g.host) /\ Stored(g).user = Trim(g.user)
             /\ Stored(g).interface = Trim(g.interface)
             /\ Stored(g).mac = NormalMac(g.mac) /\ Stored(g).ip = g.ip
  BY <1>1 DEF Stored, Forms
<1>2. ASSUME NEW t \in Texts
      PROVE  Trim(Trim(t)) = Trim(t)
  BY <1>2 DEF Trim, Texts
<1>3. FormAccepts(Stored(f))
  <2>1. GoodMac(NormalMac(f.mac))
    BY DEF FormAccepts, GoodMac, NormalMac, Forms, Macs
  <2> QED BY <1>1, <1>2, <2>1 DEF FormAccepts, FormHost, FormUser, FormInterface, Forms
<1>4. Stored(f) \in Forms /\ Stored(Stored(f)) \in Forms
  BY <1>3, StoredIsUsable
<1>5. /\ Stored(Stored(f)).host = Stored(f).host
      /\ Stored(Stored(f)).user = Stored(f).user
      /\ Stored(Stored(f)).interface = Stored(f).interface
      /\ Stored(Stored(f)).mac = Stored(f).mac
      /\ Stored(Stored(f)).ip = Stored(f).ip
  <2>1. NormalMac(NormalMac(f.mac)) = NormalMac(f.mac)
    BY DEF Forms, Macs, NormalMac
  <2> QED BY <1>1, <1>2, <1>4, <2>1 DEF Forms
<1>6. ASSUME NEW g \in Forms, NEW h \in Forms,
             g.host = h.host, g.user = h.user, g.interface = h.interface,
             g.mac = h.mac, g.ip = h.ip
      PROVE  g = h
  BY <1>6 DEF Forms
<1> QED BY <1>3, <1>4, <1>5, <1>6

\* For every set of forms: a site and a device that a form accepted never fail
\* the provider's own checks, so a call that ends before the network is reached
\* ends because no key is trusted yet.
THEOREM StoredSitesAreUsable == Spec => AcceptedIsUsable
<1>1. ASSUME IInv, [Next]_vars, pc = "check_site", pc' = "done"
      PROVE  require /\ expected = None
  <2>1. CheckSite
    BY <1>1, RouterKeepsTypes
       DEF IInv, Next, Thread, Stage, Fails, Connect, CheckKey, Auth, OpenShell,
           DrainEnds, WriteCommand, WriteCr, Flush, Judge, Drain, AwaitPrompt,
           AwaitTimesOut, ReadFails, Goes, Returns, vars, thread
  <2> QED BY <1>1, <2>1 DEF CheckSite, Goes, Returns, IInv, Usable
<1>2. IInv /\ [Next]_vars
        => [pc = "check_site" /\ pc' = "done" => require /\ expected = None]_vars
  BY <1>1
<1> QED BY <1>2, InvariantHolds, PTL DEF Spec, AcceptedIsUsable

\* How many of the thread's own stages are left before it returns.
StagesLeft ==
    CASE pc = "check_site" -> 11 [] pc = "connect" -> 10 [] pc = "check_key" -> 9
      [] pc = "auth" -> 8 [] pc = "open_shell" -> 7 [] pc = "drain" -> 6
      [] pc = "write_command" -> 5 [] pc = "write_cr" -> 4 [] pc = "flush" -> 3
      [] pc = "await" -> 2 [] pc = "judge" -> 1 [] OTHER -> 0

\* Every stage, and every deadline, brings the return nearer; a read that finds
\* no prompt and the steps of the router leave the thread where it is.
ThreadAdvances ==
    /\ Stage \/ AwaitTimesOut \/ ReadFails => StagesLeft' < StagesLeft
    /\ pc' # pc => StagesLeft' < StagesLeft

\* For every router: the thread of spawn_blocking never goes back to a stage it
\* has left (no reconnect, no second command line), so it returns after at most
\* eleven stages and deadlines.  What CallReturns adds is that each of them
\* comes, by the timeouts that connect_and_run sets.
THEOREM ThreadNeverGoesBack == Spec => [][ThreadAdvances]_vars
<1>1. ASSUME IInv, [Next]_vars, ~UNCHANGED vars
      PROVE  ThreadAdvances
  <2> USE DEF Goes, Returns
  <2>1. pc \in Stages
    BY <1>1 DEF IInv, TypeOK
  <2>2. CASE Stage
    <3>1. StagesLeft' < StagesLeft
      BY <2>1, <2>2 DEF Stage, Fails, CheckSite, Connect, CheckKey, Auth, OpenShell,
         DrainEnds, WriteCommand, WriteCr, Flush, Judge, Stages, StagesLeft
    <3> QED BY <3>1 DEF ThreadAdvances
  <2>3. CASE AwaitTimesOut \/ ReadFails
    <3>1. StagesLeft' < StagesLeft
      BY <2>3 DEF AwaitTimesOut, ReadFails, StagesLeft
    <3> QED BY <3>1 DEF ThreadAdvances
  <2>4. ASSUME ~Stage, ~(AwaitTimesOut \/ ReadFails)
        PROVE  pc' # pc => StagesLeft' < StagesLeft
    <3>1. CASE Drain
      BY <3>1 DEF Drain
    <3>2. CASE AwaitPrompt
      BY <3>2 DEF AwaitPrompt, StagesLeft
    <3>3. CASE Router
      BY <1>1, <3>3, RouterKeepsTypes DEF IInv, thread
    <3> QED BY <1>1, <2>4, <3>1, <3>2, <3>3 DEF Next, Thread
  <2> QED BY <2>2, <2>3, <2>4 DEF ThreadAdvances
<1>2. IInv /\ [Next]_vars => [ThreadAdvances]_vars
  BY <1>1
<1> QED BY <1>2, InvariantHolds, PTL DEF Spec
================================================================================
