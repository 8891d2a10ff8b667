----------------------------- MODULE ServiceProofs -----------------------------
(***************************************************************************)
(* The safety of the two services, for any number of operators, commands   *)
(* and faults.  On Windows the argument is that StartService needs the     *)
(* state Stopped, which only the newest process reports (OldAreDone); on   *)
(* macOS, that a command without a rival finds what its own earlier steps  *)
(* have left (Alone and the facts about each step).                        *)
(***************************************************************************)
EXTENDS Service, TLAPS

-------------------------------------------------------------------------------
(* Windows.                                                                *)

\* Every process but the newest has reported Stopped or is dead.
OldAreDone == \A i \in W!Runs : i < started => proc[i] \in {"exiting", "gone"}

\* Something was started by whoever is not stopped.
NewestExists == reported # "stopped" => started # 0

WinInv == W!TypeOK /\ OldAreDone /\ NewestExists /\ W!StoppedIsSilent

\* A command moves to one of its own steps.
LEMMA WinGoto ==
    ASSUME W!TypeOK, NEW o \in Operators, NEW pc \in W!StepsOf(op[o].cmd),
           op' = [op EXCEPT ![o].pc = pc]
    PROVE  /\ op' \in [Operators -> W!Commanding]
           /\ \A p \in Operators : op'[p].pc \in W!StepsOf(op'[p].cmd)
<1>1. op[o] \in W!Commanding /\ op[o].cmd \in W!Commands
  BY DEF W!TypeOK, W!Commanding
<1>2. pc \in UNION {W!StepsOf(cmd) : cmd \in W!Commands}
  BY <1>1
<1>3. [op[o] EXCEPT !.pc = pc] \in W!Commanding
  BY <1>1, <1>2 DEF W!Commanding
<1>4. \A p \in Operators :
        op'[p] = IF p = o THEN [op[o] EXCEPT !.pc = pc] ELSE op[p]
  BY DEF W!TypeOK
<1>5. [op[o] EXCEPT !.pc = pc].cmd = op[o].cmd /\ [op[o] EXCEPT !.pc = pc].pc = pc
  BY <1>1 DEF W!Commanding
<1>6. op' \in [Operators -> W!Commanding]
  BY <1>3 DEF W!TypeOK
<1>7. ASSUME NEW p \in Operators PROVE op'[p].pc \in W!StepsOf(op'[p].cmd)
  <2>1. CASE p = o
    BY <2>1, <1>4, <1>5
  <2>2. CASE p # o
    BY <2>2, <1>4 DEF W!TypeOK
  <2> QED BY <2>1, <2>2
<1> QED BY <1>6, <1>7

\* The steps of each command, spelt out.
LEMMA WinSteps ==
    /\ W!StepsOf("install") = {"idle", "ok", "error", "open", "copy", "create", "configure"}
    /\ W!StepsOf("uninstall") = {"idle", "ok", "error", "open", "control",
                                 "await_stopped", "delete", "await_absent"}
    /\ W!StepsOf("start") = {"idle", "ok", "error", "open", "start_service",
                             "await_running"}
    /\ W!StepsOf("stop") = {"idle", "ok", "error", "open", "control", "await_stopped"}
BY DEF W!StepsOf, W!Resting

\* Which command a step belongs to.
LEMMA WinCommandOf ==
    ASSUME W!TypeOK, NEW o \in Operators
    PROVE  /\ op[o].cmd \in {"install", "uninstall", "start", "stop"}
           /\ op[o].pc \in {"copy", "create", "configure"} => op[o].cmd = "install"
           /\ op[o].pc \in {"delete", "await_absent"} => op[o].cmd = "uninstall"
           /\ op[o].pc \in {"start_service", "await_running"} => op[o].cmd = "start"
           /\ op[o].pc \in {"control", "await_stopped"} => op[o].cmd \in {"uninstall", "stop"}
<1>1. op[o].cmd \in W!Commands /\ op[o].pc \in W!StepsOf(op[o].cmd)
  BY DEF W!TypeOK, W!Commanding
<1>2. op[o].cmd \in {"install", "uninstall", "start", "stop"}
  BY <1>1 DEF W!Commands
<1> QED BY <1>1, <1>2, WinSteps

\* "ok" and "error" end every command.
LEMMA WinEnds ==
    ASSUME W!TypeOK, NEW o \in Operators
    PROVE  {"ok", "error"} \subseteq W!StepsOf(op[o].cmd)
BY WinCommandOf, WinSteps

\* Every step keeps the types, and a stop control goes to a process that exists.
LEMMA WinTypesKept ==
    ASSUME W!TypeOK, NewestExists, W!Next
    PROVE  W!TypeOK'
<1>1. ASSUME NEW i \in W!Runs, W!ProcessStep(i) \/ W!ReturnEarly(i) \/ W!Crash(i)
      PROVE  W!TypeOK'
  <2>1. /\ UNCHANGED <<entry, started, stop, asked, op, commands>>
        /\ reported' \in {"stopped", "start_pending", "running"}
        /\ faults' \in 0 .. MaxFaults
    BY <1>1, ServiceAssumption
       DEF W!ProcessStep, W!ReportRunning, W!Initialize, W!Bind, W!BeginShutdown,
           W!Drained, W!ReportStopped, W!Exit, W!ReturnEarly, W!Crash, W!scm,
           W!control, W!TypeOK
  <2>2. PICK phase \in W!Phases \ {"none"} : proc' = [proc EXCEPT ![i] = phase]
    BY <1>1
       DEF W!ProcessStep, W!ReportRunning, W!Initialize, W!Bind, W!BeginShutdown,
           W!Drained, W!ReportStopped, W!Exit, W!ReturnEarly, W!Crash, W!Become,
           W!Phases
  <2>3. proc[i] # "none"
    BY <1>1
       DEF W!ProcessStep, W!ReportRunning, W!Initialize, W!Bind, W!BeginShutdown,
           W!Drained, W!ReportStopped, W!Exit, W!ReturnEarly, W!Crash, W!Alive
  <2>4. proc' \in [W!Runs -> W!Phases] /\ \A j \in W!Runs : proc'[j] = "none" <=> j > started
    BY <2>2, <2>3 DEF W!TypeOK
  <2> QED BY <2>1, <2>4 DEF W!TypeOK
<1>2. ASSUME NEW o \in Operators, W!Begin(o)
      PROVE  W!TypeOK'
  <2>1. PICK cmd \in W!Commands :
          op' = [op EXCEPT ![o] =
                   [cmd |-> cmd, pc |-> IF cmd = "install" THEN "copy" ELSE "open"]]
    BY <1>2 DEF W!Begin
  <2> DEFINE first == IF cmd = "install" THEN "copy" ELSE "open"
  <2>2. first \in W!StepsOf(cmd)
    BY WinSteps DEF W!Commands
  <2>3. [cmd |-> cmd, pc |-> first] \in W!Commanding
    BY <2>2 DEF W!Commanding
  <2>4. /\ op' \in [Operators -> W!Commanding]
        /\ \A p \in Operators : op'[p].pc \in W!StepsOf(op'[p].cmd)
    BY <2>1, <2>2, <2>3 DEF W!TypeOK
  <2> QED BY <1>2, <2>4, ServiceAssumption DEF W!Begin, W!TypeOK, W!scm, W!control
<1>3. ASSUME NEW o \in Operators, W!CommandStep(o) \/ W!CommandFails(o)
      PROVE  W!TypeOK'
  <2>1. PICK pc \in W!StepsOf(op[o].cmd) : op' = [op EXCEPT ![o].pc = pc]
    <3> USE DEF W!Goto, W!At
    <3>1. CASE W!Copy(o) \/ W!OpenInstall(o) \/ W!CreateService(o) \/ W!ChangeConfig(o)
      BY <3>1, WinCommandOf, WinSteps
         DEF W!Copy, W!OpenInstall, W!CreateService, W!ChangeConfig
    <3>2. CASE W!OpenUninstall(o) \/ W!Delete(o) \/ W!AwaitAbsent(o)
      BY <3>2, WinCommandOf, WinSteps DEF W!OpenUninstall, W!Delete, W!AwaitAbsent
    <3>3. CASE W!OpenStart(o) \/ W!StartService(o) \/ W!AwaitRunning(o)
      BY <3>3, WinCommandOf, WinSteps DEF W!OpenStart, W!StartService, W!AwaitRunning, W!Awaits
    <3>4. CASE W!OpenStop(o) \/ W!SendStop(o) \/ W!AwaitStopped(o)
      BY <3>4, WinCommandOf, WinSteps DEF W!OpenStop, W!SendStop, W!AwaitStopped, W!Awaits
    <3>5. CASE W!CommandFails(o)
      BY <3>5, WinEnds DEF W!CommandFails
    <3> QED BY <1>3, <3>1, <3>2, <3>3, <3>4, <3>5 DEF W!CommandStep
  <2>2. /\ op' \in [Operators -> W!Commanding]
        /\ \A p \in Operators : op'[p].pc \in W!StepsOf(op'[p].cmd)
    BY <2>1, WinGoto
  <2>3. CASE W!StartService(o)
    <3>1. CASE entry = "present" /\ reported = "stopped"
      <4>1. /\ UNCHANGED <<entry, stop, asked, commands, faults>>
            /\ reported' = "start_pending" /\ started' = started + 1
            /\ started' \in W!Runs
            /\ proc' = [proc EXCEPT ![started + 1] = "launched"]
        BY <2>3, <3>1, ServiceAssumption
           DEF W!StartService, W!Become, W!Runs, W!TypeOK, W!control
      <4>2. proc' \in [W!Runs -> W!Phases]
        BY <4>1 DEF W!TypeOK, W!Phases
      <4>3. ASSUME NEW i \in W!Runs PROVE proc'[i] = "none" <=> i > started'
        <5>1. i \in Nat /\ started \in Nat
          BY DEF W!Runs, W!TypeOK
        <5>2. CASE i = started + 1
          BY <4>1, <5>1, <5>2 DEF W!TypeOK
        <5>3. CASE i # started + 1
          BY <4>1, <5>1, <5>3 DEF W!TypeOK
        <5> QED BY <5>2, <5>3
      <4> QED BY <2>2, <4>1, <4>2, <4>3 DEF W!TypeOK, W!Runs
    <3>2. CASE ~(entry = "present" /\ reported = "stopped")
      BY <2>2, <2>3, <3>2 DEF W!StartService, W!TypeOK, W!control
    <3> QED BY <3>1, <3>2
  <2>4. CASE W!SendStop(o)
    <3>1. CASE reported = "running"
      <4>1. started \in W!Runs
        BY <3>1 DEF NewestExists, W!TypeOK, W!Runs
      <4>2. stop' = [stop EXCEPT ![started] = TRUE] /\ asked' = asked \cup {started}
        BY <2>4, <3>1 DEF W!SendStop, W!Buffered
      <4> QED BY <2>2, <2>4, <4>1, <4>2 DEF W!SendStop, W!TypeOK, W!scm
    <3>2. CASE reported # "running"
      BY <2>2, <2>4, <3>2 DEF W!SendStop, W!TypeOK, W!scm, W!control
    <3> QED BY <3>1, <3>2
  <2>5. CASE ~W!StartService(o) /\ ~W!SendStop(o)
    BY <1>3, <2>2, <2>5, ServiceAssumption
       DEF W!CommandStep, W!CommandFails, W!Copy, W!OpenInstall, W!CreateService,
           W!ChangeConfig, W!OpenUninstall, W!OpenStart, W!OpenStop, W!Awaits,
           W!AwaitRunning, W!AwaitStopped, W!Delete, W!AwaitAbsent,
           W!TypeOK, W!scm, W!control
  <2> QED BY <2>3, <2>4, <2>5
<1>4. ASSUME W!Remove PROVE W!TypeOK'
  BY <1>4 DEF W!Remove, W!TypeOK, W!control
<1> QED BY <1>1, <1>2, <1>3, <1>4 DEF W!Next

\* The newest process is the only one that is not done, and the SCM calls the
\* service stopped only when it is done as well.
LEMMA WinSafetyKept ==
    ASSUME WinInv, W!Next
    PROVE  OldAreDone' /\ NewestExists' /\ W!StoppedIsSilent'
<1> USE DEF WinInv, OldAreDone, NewestExists, W!StoppedIsSilent
<1>0. started \in 0 .. MaxCommands /\ proc \in [W!Runs -> W!Phases]
  BY DEF W!TypeOK
<1>1. ASSUME NEW i \in W!Runs,
             \/ W!ReportRunning(i) \/ W!Initialize(i) \/ W!Bind(i) \/ W!BeginShutdown(i)
             \/ W!Drained(i) \/ W!ReturnEarly(i)
      PROVE  OldAreDone' /\ NewestExists' /\ W!StoppedIsSilent'
  <2>1. proc[i] \in {"launched", "init", "bind", "serving", "draining"}
    BY <1>1 DEF W!ReportRunning, W!Initialize, W!Bind, W!BeginShutdown, W!Drained,
                W!ReturnEarly
  <2>2. reported # "stopped" /\ i = started
    <3>1. i <= started
      BY <2>1 DEF W!TypeOK, W!Runs
    <3> QED BY <2>1, <3>1, <1>0 DEF W!Runs
  <2>3. /\ UNCHANGED <<entry, started>> /\ reported' # "stopped"
        /\ \E phase \in W!Phases : proc' = [proc EXCEPT ![i] = phase]
    BY <1>1, <2>2 DEF W!ReportRunning, W!Initialize, W!Bind, W!BeginShutdown,
                W!Drained, W!ReturnEarly, W!Become, W!Phases, W!scm
  <2>4. \A j \in W!Runs : j # i => proc'[j] = proc[j]
    BY <2>3, <1>0
  <2>5. \A j \in W!Runs : proc'[j] = "serving" => j = i
    <3> SUFFICES ASSUME NEW j \in W!Runs, proc'[j] = "serving", j # i PROVE FALSE
      OBVIOUS
    <3>1. proc[j] = "serving"
      BY <2>4
    <3>2. j <= started
      BY <3>1 DEF W!TypeOK, W!Runs
    <3> QED BY <3>1, <3>2, <2>2, <1>0 DEF W!Runs
  <2>6. OldAreDone'
    BY <2>2, <2>3, <2>4, <1>0 DEF W!Runs
  <2>7. NewestExists'
    BY <2>2, <2>3
  <2> QED BY <2>2, <2>3, <2>5, <2>6, <2>7
<1>2. ASSUME NEW i \in W!Runs, W!ReportStopped(i) \/ W!Exit(i) \/ W!Crash(i)
      PROVE  OldAreDone' /\ NewestExists' /\ W!StoppedIsSilent'
  <2>1. /\ UNCHANGED <<entry, started>>
        /\ reported' \in {reported, "stopped"}
        /\ \E phase \in {"exiting", "gone"} : proc' = [proc EXCEPT ![i] = phase]
    BY <1>2 DEF W!ReportStopped, W!Exit, W!Crash, W!Become, W!scm
  <2>2. /\ proc'[i] \in {"exiting", "gone"}
        /\ \A j \in W!Runs : j # i => proc'[j] = proc[j]
    BY <2>1, <1>0
  <2>3. proc[i] = "exiting" => reported' = reported
    BY <1>2 DEF W!ReportStopped, W!Exit, W!Crash, W!scm
  <2>4. proc[i] # "exiting" => i = started
    <3>1. proc[i] \notin {"none", "gone"}
      BY <1>2 DEF W!ReportStopped, W!Exit, W!Crash, W!Alive
    <3>2. i <= started
      BY <3>1 DEF W!TypeOK, W!Runs
    <3> QED BY <3>1, <3>2, <1>0 DEF W!Runs
  <2>5. \A j \in W!Runs : j > started => proc[j] = "none"
    BY DEF W!TypeOK
  <2>6. reported' = "stopped" => \A j \in W!Runs : proc'[j] \in {"none", "exiting", "gone"}
    <3> SUFFICES ASSUME reported' = "stopped", NEW j \in W!Runs, j # i
                 PROVE  proc[j] \in {"none", "exiting", "gone"}
      BY <2>2
    <3>1. CASE proc[i] = "exiting"
      BY <3>1, <2>3
    <3>2. CASE proc[i] # "exiting"
      BY <3>2, <2>4, <2>5, <1>0 DEF W!Runs
    <3> QED BY <3>1, <3>2
  <2>7. OldAreDone' /\ NewestExists'
    BY <2>1, <2>2
  <2>8. \A j, k \in W!Runs : proc'[j] = "serving" /\ proc'[k] = "serving" => j = k
    BY <2>2
  <2>9. entry' = "absent" => reported' = "stopped"
    BY <2>1
  <2> QED BY <2>6, <2>7, <2>8, <2>9
<1>3. ASSUME NEW o \in Operators, W!StartService(o)
      PROVE  OldAreDone' /\ NewestExists' /\ W!StoppedIsSilent'
  <2>1. CASE entry = "present" /\ reported = "stopped"
    <3>1. /\ entry' = "present" /\ reported' = "start_pending"
          /\ started' = started + 1 /\ started' \in W!Runs
          /\ proc' = [proc EXCEPT ![started + 1] = "launched"]
      BY <1>3, <2>1, <1>0, ServiceAssumption DEF W!StartService, W!Become, W!Runs
    <3>2. \A j \in W!Runs : j # started + 1 => proc'[j] = proc[j]
      BY <3>1, <1>0
    <3>3. \A j \in W!Runs : proc[j] \in {"none", "exiting", "gone"}
      BY <2>1
    <3>4. proc'[started + 1] = "launched"
      BY <3>1, <1>0
    <3>5. \A j \in W!Runs : j < started + 1 => proc[j] # "none"
      BY <1>0 DEF W!TypeOK, W!Runs
    <3>6. OldAreDone'
      BY <3>1, <3>2, <3>3, <3>5, <1>0 DEF W!Runs
    <3>7. \A j \in W!Runs : proc'[j] # "serving"
      BY <3>2, <3>3, <3>4
    <3>8. NewestExists'
      BY <3>1, <1>0
    <3> QED BY <3>1, <3>6, <3>7, <3>8
  <2>2. CASE ~(entry = "present" /\ reported = "stopped")
    BY <1>3, <2>2 DEF W!StartService
  <2> QED BY <2>1, <2>2
<1>4. ASSUME NEW o \in Operators, W!CreateService(o) \/ W!Delete(o)
      PROVE  OldAreDone' /\ NewestExists' /\ W!StoppedIsSilent'
  BY <1>4 DEF W!CreateService, W!Delete
<1>5. ASSUME NEW o \in Operators,
             \/ W!Begin(o) \/ W!Copy(o) \/ W!OpenInstall(o) \/ W!ChangeConfig(o)
             \/ W!OpenUninstall(o) \/ W!OpenStart(o) \/ W!OpenStop(o) \/ W!SendStop(o)
             \/ W!AwaitRunning(o) \/ W!AwaitStopped(o) \/ W!AwaitAbsent(o)
             \/ W!CommandFails(o)
      PROVE  OldAreDone' /\ NewestExists' /\ W!StoppedIsSilent'
  <2>1. UNCHANGED <<entry, reported, started, proc>>
    BY <1>5 DEF W!Begin, W!Copy, W!OpenInstall, W!ChangeConfig, W!OpenUninstall,
                W!OpenStart, W!OpenStop, W!SendStop, W!AwaitRunning, W!AwaitStopped,
                W!Awaits, W!AwaitAbsent, W!CommandFails, W!scm
  <2> QED BY <2>1
<1>6. ASSUME W!Remove PROVE OldAreDone' /\ NewestExists' /\ W!StoppedIsSilent'
  BY <1>6 DEF W!Remove
<1> QED BY <1>1, <1>2, <1>3, <1>4, <1>5, <1>6
        DEF W!Next, W!ProcessStep, W!CommandStep

-------------------------------------------------------------------------------
(* Windows, what liveness needs besides fairness: no start is lost.        *)

\* A start that has seen the service started, or reported it.
Saw(o) ==
    op[o].pc = "await_running" \/ (op[o].pc = "ok" /\ op[o].cmd = "start")

\* A stop control goes to a process that was started; a channel that nobody has
\* written to is empty; the newest process, when nobody stopped it and nothing
\* failed, has not begun to shut down.
StartInv ==
    /\ \A i \in asked : i <= started
    /\ \A i \in W!Runs : stop[i] => i \in asked
    /\ \A o \in Operators : Saw(o) => started # 0
    /\ faults = 0 /\ started # 0 /\ started \notin asked =>
         proc[started] \in {"launched", "init", "bind", "serving"}

\* Only the newest process has not reported Stopped, so it binds a free port.
LEMMA PortIsFree ==
    ASSUME WinInv, NEW i \in W!Runs, proc[i] = "bind"
    PROVE  ~W!PortTaken
<1> SUFFICES ASSUME NEW j \in W!Runs, proc[j] = "serving" PROVE FALSE
  BY DEF W!PortTaken
<1>1. i <= started /\ j <= started /\ i \in Nat /\ j \in Nat /\ started \in Nat
  BY DEF WinInv, W!TypeOK, W!Runs
<1>2. ~(i < started) /\ ~(j < started)
  BY DEF WinInv, OldAreDone
<1> QED BY <1>1, <1>2

\* No step loses a start that was not followed by a stop control.
LEMMA StartKept ==
    ASSUME WinInv, StartInv, W!Next
    PROVE  StartInv'
<1> USE DEF StartInv
<1>0. /\ started \in 0 .. MaxCommands /\ proc \in [W!Runs -> W!Phases]
      /\ asked \subseteq W!Runs /\ stop \in [W!Runs -> BOOLEAN] /\ faults \in Nat
      /\ op \in [Operators -> W!Commanding] /\ MaxCommands \in Nat
  BY ServiceAssumption DEF WinInv, W!TypeOK
<1>1. ASSUME NEW i \in W!Runs, W!ProcessStep(i) \/ W!ReturnEarly(i) \/ W!Crash(i)
      PROVE  StartInv'
  <2>1. UNCHANGED <<started, stop, asked, op>>
    BY <1>1 DEF W!ProcessStep, W!ReportRunning, W!Initialize, W!Bind, W!BeginShutdown,
                W!Drained, W!ReportStopped, W!Exit, W!ReturnEarly, W!Crash, W!scm,
                W!control
  <2>2. ASSUME faults' = 0, started # 0, started \notin asked
        PROVE  proc'[started] \in {"launched", "init", "bind", "serving"}
    <3>1. ~W!ReturnEarly(i) /\ ~W!Crash(i) /\ faults = 0
      BY <1>1, <2>2, <1>0
         DEF W!ProcessStep, W!ReportRunning, W!Initialize, W!Bind, W!BeginShutdown,
             W!Drained, W!ReportStopped, W!Exit, W!ReturnEarly, W!Crash
    <3>2. proc[started] \in {"launched", "init", "bind", "serving"}
      BY <2>2, <3>1
    <3>3. CASE i # started
      <4>1. PICK phase \in W!Phases : proc' = [proc EXCEPT ![i] = phase]
        BY <1>1, <3>1
           DEF W!ProcessStep, W!ReportRunning, W!Initialize, W!Bind, W!BeginShutdown,
               W!Drained, W!ReportStopped, W!Exit, W!Become, W!Phases
      <4>2. proc'[started] = proc[started]
        BY <3>3, <4>1, <1>0
      <4> QED BY <3>2, <4>2
    <3>4. CASE i = started
      <4>1. CASE W!ReportRunning(i)
        BY <3>4, <4>1, <1>0 DEF W!ReportRunning, W!Become
      <4>2. CASE W!Initialize(i)
        <5>1. proc' = [proc EXCEPT ![i] = "bind"]
          BY <2>2, <3>1, <4>2 DEF W!Initialize, W!Become
        <5> QED BY <3>4, <5>1, <1>0
      <4>3. CASE W!Bind(i)
        <5>1. proc' = [proc EXCEPT ![i] = "serving"]
          BY <4>3, PortIsFree DEF W!Bind, W!Become
        <5> QED BY <3>4, <5>1, <1>0
      <4>4. CASE W!BeginShutdown(i)
        BY <2>2, <3>4, <4>4 DEF W!BeginShutdown
      <4>5. CASE W!Drained(i) \/ W!ReportStopped(i) \/ W!Exit(i)
        BY <3>2, <3>4, <4>5 DEF W!Drained, W!ReportStopped, W!Exit
      <4> QED BY <1>1, <3>1, <4>1, <4>2, <4>3, <4>4, <4>5 DEF W!ProcessStep
    <3> QED BY <3>3, <3>4
  <2> QED BY <2>1, <2>2 DEF Saw
<1>2. ASSUME NEW o \in Operators, W!Begin(o)
      PROVE  StartInv'
  <2>1. UNCHANGED <<started, proc, stop, asked, faults>>
    BY <1>2 DEF W!Begin, W!scm, W!control
  <2>2. op'[o].pc \in {"copy", "open"} /\ \A p \in Operators : p # o => op'[p] = op[p]
    BY <1>2, <1>0 DEF W!Begin
  <2>3. \A p \in Operators : Saw(p)' => started # 0
    BY <2>2 DEF Saw
  <2> QED BY <2>1, <2>3
<1>3. ASSUME NEW o \in Operators, W!StartService(o), entry = "present",
             reported = "stopped"
      PROVE  StartInv'
  <2>1. /\ UNCHANGED <<stop, asked, faults>> /\ started' = started + 1
        /\ started' \in W!Runs /\ proc' = [proc EXCEPT ![started + 1] = "launched"]
    BY <1>3, <1>0 DEF W!StartService, W!Become, W!Runs, W!control
  <2>2. proc'[started'] = "launched"
    BY <2>1, <1>0
  <2>3. started' # 0 /\ \A i \in asked : i <= started'
    BY <2>1, <1>0 DEF W!Runs
  <2> QED BY <2>1, <2>2, <2>3
<1>4. ASSUME NEW o \in Operators, W!SendStop(o), reported = "running"
      PROVE  StartInv'
  <2>1. started \in W!Runs
    BY <1>4, <1>0 DEF WinInv, NewestExists, W!Runs
  <2>2. /\ UNCHANGED <<started, proc, faults>> /\ asked' = asked \cup {started}
        /\ stop' = [stop EXCEPT ![started] = TRUE]
    BY <1>4 DEF W!SendStop, W!Buffered, W!scm
  <2>3. stop'[started] = TRUE /\ \A i \in W!Runs : i # started => stop'[i] = stop[i]
    BY <2>1, <2>2, <1>0
  <2>4. started # 0
    BY <2>1 DEF W!Runs
  <2> QED BY <2>1, <2>2, <2>3, <2>4, <1>0 DEF W!Runs
<1>5. ASSUME NEW o \in Operators, W!CommandStep(o) \/ W!CommandFails(o),
             ~(W!StartService(o) /\ entry = "present" /\ reported = "stopped"),
             ~(W!SendStop(o) /\ reported = "running")
      PROVE  StartInv'
  <2>1. /\ UNCHANGED <<started, proc, stop, asked>> /\ faults' \in Nat
        /\ faults' = 0 => faults = 0
    BY <1>5, <1>0
       DEF W!CommandStep, W!CommandFails, W!Copy, W!OpenInstall, W!CreateService,
           W!ChangeConfig, W!OpenUninstall, W!OpenStart, W!OpenStop, W!StartService,
           W!SendStop, W!Awaits, W!AwaitRunning, W!AwaitStopped, W!Delete,
           W!AwaitAbsent, W!scm, W!control
  <2>2. \A p \in Operators : p # o => op'[p] = op[p]
    BY <1>5, <1>0
       DEF W!CommandStep, W!CommandFails, W!Copy, W!OpenInstall, W!CreateService,
           W!ChangeConfig, W!OpenUninstall, W!OpenStart, W!OpenStop, W!StartService,
           W!SendStop, W!Awaits, W!AwaitRunning, W!AwaitStopped, W!Delete,
           W!AwaitAbsent, W!Goto
  <2>3. Saw(o)' => started # 0
    <3> USE DEF W!Goto, W!At, Saw, WinInv, W!Commanding
    <3>1. CASE W!Copy(o) \/ W!OpenInstall(o) \/ W!CreateService(o) \/ W!ChangeConfig(o)
      BY <3>1, <1>0, WinCommandOf
         DEF W!Copy, W!OpenInstall, W!CreateService, W!ChangeConfig
    <3>2. CASE W!OpenUninstall(o) \/ W!Delete(o) \/ W!AwaitAbsent(o)
      BY <3>2, <1>0, WinCommandOf DEF W!OpenUninstall, W!Delete, W!AwaitAbsent
    <3>3. CASE W!OpenStart(o)
      <4>1. op'[o].pc \in {"ok", "await_running"} => reported # "stopped"
        BY <3>3, <1>0 DEF W!OpenStart
      <4>2. op'[o].pc \in {"ok", "await_running"} \/ ~Saw(o)'
        OBVIOUS
      <4> QED BY <4>1, <4>2 DEF NewestExists
    <3>4. CASE W!StartService(o)
      BY <3>4, <1>5, <1>0 DEF W!StartService
    <3>5. CASE W!AwaitRunning(o)
      BY <3>5, <1>0 DEF W!AwaitRunning, W!Awaits
    <3>6. CASE W!OpenStop(o) \/ W!SendStop(o) \/ W!AwaitStopped(o)
      BY <3>6, <1>0, WinCommandOf DEF W!OpenStop, W!SendStop, W!AwaitStopped, W!Awaits
    <3>7. CASE W!CommandFails(o)
      BY <3>7, <1>0 DEF W!CommandFails
    <3> QED BY <1>5, <3>1, <3>2, <3>3, <3>4, <3>5, <3>6, <3>7 DEF W!CommandStep
  <2>4. \A p \in Operators : Saw(p)' => started # 0
    BY <2>2, <2>3 DEF Saw
  <2> QED BY <2>1, <2>4
<1>6. ASSUME W!Remove PROVE StartInv'
  BY <1>6 DEF W!Remove, W!control, Saw
<1> QED BY <1>1, <1>2, <1>3, <1>4, <1>5, <1>6 DEF W!Next, W!CommandStep

-------------------------------------------------------------------------------
(* macOS.                                                                  *)

Busy(o) == op[o].pc \notin M!Resting

\* Two commands under way are rivals; a command is alone until another begins.
Alone ==
    \A o, p \in Operators : o # p =>
        /\ ~rivals => ~Busy(o) \/ ~Busy(p)
        /\ op[o].alone => ~Busy(p)

\* What the earlier steps of a command have left for the next one.
StepFound(o) ==
    /\ op[o].pc \in {"clear", "bootstrap"} => plist
    /\ op[o].pc \in {"bootstrap", "remove_plist"} => ~loaded
    /\ op[o].pc \in {"kickstart", "await_loaded", "kill", "await_unloaded", "bootout"}
         => loaded

Undisturbed(o) == ~rivals \/ (op[o].alone /\ op[o].cmd = "install")

StepsFound == \A o \in Operators : Busy(o) /\ Undisturbed(o) => StepFound(o)

MacSafe ==
    /\ Alone /\ StepsFound
    /\ M!NoOrphan /\ M!SuccessIsTrue /\ M!InstallRecovers

MacInv == M!TypeOK /\ MacSafe

\* The steps of each command, spelt out.
LEMMA MacSteps ==
    /\ M!StepsOf("install") = {"idle", "ok", "error", "write_plist", "clear", "bootstrap"}
    /\ M!StepsOf("uninstall") = {"idle", "ok", "error", "check", "kill", "await_unloaded",
                                 "bootout", "remove_plist"}
    /\ M!StepsOf("start") = {"idle", "ok", "error", "check", "bootstrap", "kickstart",
                             "await_loaded"}
    /\ M!StepsOf("stop") = {"idle", "ok", "error", "check", "kill", "await_unloaded", "bootout"}
BY DEF M!StepsOf, M!Resting, M!Stopping

\* Which command a step belongs to.
LEMMA MacCommandOf ==
    ASSUME M!TypeOK, NEW o \in Operators
    PROVE  /\ op[o].cmd \in {"install", "uninstall", "start", "stop"}
           /\ op[o].pc \in {"write_plist", "clear"} => op[o].cmd = "install"
           /\ op[o].pc = "bootstrap" => op[o].cmd \in {"install", "start"}
           /\ op[o].pc \in {"kickstart", "await_loaded"} => op[o].cmd = "start"
           /\ op[o].pc \in {"kill", "await_unloaded", "bootout"}
                => op[o].cmd \in {"uninstall", "stop"}
           /\ op[o].pc = "remove_plist" => op[o].cmd = "uninstall"
<1>1. op[o].cmd \in M!Commands /\ op[o].pc \in M!StepsOf(op[o].cmd)
  BY DEF M!TypeOK, M!Commanding
<1>2. op[o].cmd \in {"install", "uninstall", "start", "stop"}
  BY <1>1 DEF M!Commands
<1> QED BY <1>1, <1>2, MacSteps

\* A step of a command changes where this command is, and nothing else of op.
LEMMA MacMoved ==
    ASSUME M!TypeOK, NEW o \in Operators, NEW pc, op' = [op EXCEPT ![o].pc = pc]
    PROVE  /\ op'[o].pc = pc /\ op'[o].cmd = op[o].cmd /\ op'[o].alone = op[o].alone
           /\ \A p \in Operators : p # o => op'[p] = op[p]
           /\ pc \in M!StepsOf(op[o].cmd) =>
                /\ op' \in [Operators -> M!Commanding]
                /\ \A p \in Operators : op'[p].pc \in M!StepsOf(op'[p].cmd)
<1>1. op[o] \in M!Commanding /\ op[o].cmd \in M!Commands
  BY DEF M!TypeOK, M!Commanding
<1>2. /\ op'[o] = [op[o] EXCEPT !.pc = pc]
      /\ \A p \in Operators : p # o => op'[p] = op[p]
  BY DEF M!TypeOK
<1>3. op'[o].pc = pc /\ op'[o].cmd = op[o].cmd /\ op'[o].alone = op[o].alone
  BY <1>1, <1>2 DEF M!Commanding
<1>4. ASSUME pc \in M!StepsOf(op[o].cmd)
      PROVE  /\ op' \in [Operators -> M!Commanding]
             /\ \A p \in Operators : op'[p].pc \in M!StepsOf(op'[p].cmd)
  <2>1. pc \in UNION {M!StepsOf(cmd) : cmd \in M!Commands}
    BY <1>1, <1>4
  <2>2. [op[o] EXCEPT !.pc = pc] \in M!Commanding
    BY <1>1, <2>1 DEF M!Commanding
  <2>3. op' \in [Operators -> M!Commanding]
    BY <2>2 DEF M!TypeOK
  <2>4. ASSUME NEW p \in Operators PROVE op'[p].pc \in M!StepsOf(op'[p].cmd)
    <3>1. CASE p = o
      BY <3>1, <1>3, <1>4
    <3>2. CASE p # o
      BY <3>2, <1>2 DEF M!TypeOK
    <3> QED BY <3>1, <3>2
  <2> QED BY <2>3, <2>4
<1> QED BY <1>2, <1>3, <1>4

\* Each step of a command leads to a step of the same command.
LEMMA MacGoes ==
    ASSUME M!TypeOK, NEW o \in Operators, M!CommandStep(o)
    PROVE  /\ Busy(o)
           /\ UNCHANGED <<rivals, commands, faults>>
           /\ \E pc \in M!StepsOf(op[o].cmd) : op' = [op EXCEPT ![o].pc = pc]
<1> USE MacCommandOf, MacSteps DEF M!Goto, M!At, Busy, M!Resting
<1>1. CASE M!WritePlist(o) \/ M!ClearOld(o) \/ M!Bootstrap(o)
  BY <1>1 DEF M!WritePlist, M!ClearOld, M!Bootstrap
<1>2. CASE M!CheckStart(o) \/ M!Kickstart(o) \/ M!AwaitLoaded(o)
  BY <1>2 DEF M!CheckStart, M!Kickstart, M!AwaitLoaded
<1>3. CASE M!CheckStop(o)
  BY <1>3 DEF M!CheckStop, M!AfterUnload
<1>4. CASE M!Kill(o) \/ M!AwaitUnloaded(o) \/ M!Bootout(o) \/ M!RemovePlist(o)
  BY <1>4 DEF M!Kill, M!AwaitUnloaded, M!Bootout, M!RemovePlist, M!AfterUnload
<1> QED BY <1>1, <1>2, <1>3, <1>4 DEF M!CommandStep

\* Every step keeps the types.
LEMMA MacTypesKept ==
    ASSUME M!TypeOK, M!Next
    PROVE  M!TypeOK'
<1>1. ASSUME M!Spawn \/ M!RunService PROVE M!TypeOK'
  BY <1>1 DEF M!Spawn, M!RunService, M!InsideRuntime, M!TypeOK
<1>2. ASSUME NEW o \in Operators, M!Begin(o) PROVE M!TypeOK'
  <2> DEFINE busy == \E p \in Operators : op[p].pc \notin M!Resting
             first(cmd) == IF cmd = "install" THEN "write_plist" ELSE "check"
  <2>1. PICK cmd \in M!Commands :
          op' = [p \in Operators |->
                   IF p = o THEN [cmd |-> cmd, pc |-> first(cmd), alone |-> ~busy]
                            ELSE [op[p] EXCEPT !.alone = FALSE]]
    BY <1>2 DEF M!Begin
  <2>2. first(cmd) \in M!StepsOf(cmd)
    BY MacSteps DEF M!Commands
  <2>3. ASSUME NEW p \in Operators
        PROVE  op'[p] \in M!Commanding /\ op'[p].pc \in M!StepsOf(op'[p].cmd)
    <3>1. CASE p = o
      <4>1. op'[p] = [cmd |-> cmd, pc |-> first(cmd), alone |-> ~busy]
        BY <2>1, <3>1
      <4>2. (~busy) \in BOOLEAN
        OBVIOUS
      <4> HIDE DEF busy, first
      <4> QED BY <2>2, <4>1, <4>2 DEF M!Commanding
    <3>2. CASE p # o
      <4>1. op'[p] = [op[p] EXCEPT !.alone = FALSE]
        BY <2>1, <3>2
      <4>2. op[p] \in M!Commanding /\ op[p].pc \in M!StepsOf(op[p].cmd)
        BY DEF M!TypeOK
      <4> QED BY <4>1, <4>2 DEF M!Commanding
    <3> QED BY <3>1, <3>2
  <2>4. op' \in [Operators -> M!Commanding]
    BY <2>1, <2>3
  <2>5. /\ UNCHANGED <<plist, loaded, job, faults>>
        /\ commands' \in 0 .. MaxCommands
    BY <1>2, ServiceAssumption DEF M!Begin, M!launchd, M!TypeOK
  <2>6. rivals' \in BOOLEAN
    BY <1>2 DEF M!Begin, M!TypeOK
  <2> QED BY <2>3, <2>4, <2>5, <2>6 DEF M!TypeOK
<1>3. ASSUME NEW o \in Operators, M!CommandStep(o) PROVE M!TypeOK'
  <2>1. /\ op' \in [Operators -> M!Commanding]
        /\ \A p \in Operators : op'[p].pc \in M!StepsOf(op'[p].cmd)
    BY <1>3, MacGoes, MacMoved
  <2>2. /\ plist' \in BOOLEAN /\ loaded' \in BOOLEAN
        /\ job' \in {"none", "main", "serving"} /\ (job' # "none" => loaded')
    BY <1>3 DEF M!CommandStep, M!WritePlist, M!ClearOld, M!Bootstrap, M!CheckStart,
                M!CheckStop, M!Kickstart, M!AwaitLoaded, M!Kill, M!AwaitUnloaded,
                M!Bootout, M!RemovePlist, M!Unloaded, M!Ended, M!launchd, M!TypeOK
  <2> QED BY <1>3, <2>1, <2>2, MacGoes DEF M!TypeOK
<1>4. ASSUME NEW o \in Operators, M!CommandFails(o) PROVE M!TypeOK'
  <2>1. op' = [op EXCEPT ![o] = [@ EXCEPT !.pc = "error", !.alone = FALSE]]
    BY <1>4 DEF M!CommandFails
  <2>2. ASSUME NEW p \in Operators
        PROVE  op'[p] \in M!Commanding /\ op'[p].pc \in M!StepsOf(op'[p].cmd)
    <3>1. op[p] \in M!Commanding /\ op[p].pc \in M!StepsOf(op[p].cmd)
      BY DEF M!TypeOK
    <3>2. "error" \in M!StepsOf(op[p].cmd)
      BY MacCommandOf, MacSteps
    <3>3. "error" \in UNION {M!StepsOf(cmd) : cmd \in M!Commands}
      BY <3>1, <3>2 DEF M!Commanding
    <3>4. CASE p = o
      <4>1. op'[p] = [op[p] EXCEPT !.pc = "error", !.alone = FALSE]
        BY <2>1, <3>4 DEF M!TypeOK
      <4> QED BY <3>1, <3>2, <3>3, <4>1 DEF M!Commanding
    <3>5. CASE p # o
      BY <2>1, <3>1, <3>5 DEF M!TypeOK
    <3> QED BY <3>4, <3>5
  <2>3. op' \in [Operators -> M!Commanding]
    BY <2>1, <2>2 DEF M!TypeOK
  <2> QED BY <1>4, <2>2, <2>3, ServiceAssumption DEF M!CommandFails, M!TypeOK, M!launchd
<1> QED BY <1>1, <1>2, <1>3, <1>4 DEF M!Next

\* What a command's step does to plist and job, from what the earlier ones found.
LEMMA MacStepWorks ==
    ASSUME MacInv, NEW o \in Operators, M!CommandStep(o)
    PROVE  /\ Undisturbed(o) /\ Busy(o)' => StepFound(o)'
           /\ ~rivals => (loaded' => plist')
           /\ ~rivals /\ op'[o].pc = "ok" =>
                /\ loaded' = (op[o].cmd \in {"install", "start"})
                /\ plist' = (op[o].cmd # "uninstall")
           /\ op[o].alone /\ op[o].cmd = "install" => op'[o].pc # "error"
<1> DEFINE moved(pc) == op'[o].pc = pc /\ op'[o].cmd = op[o].cmd
<1>1. /\ M!TypeOK /\ (~rivals => (loaded => plist))
      /\ loaded \in BOOLEAN /\ plist \in BOOLEAN
  BY DEF MacInv, MacSafe, M!NoOrphan, M!TypeOK
<1>2. Undisturbed(o) => StepFound(o)
  BY MacGoes, <1>1 DEF MacInv, MacSafe, StepsFound
<1>3. \A pc : M!Goto(o, pc) => moved(pc)
  BY <1>1, MacMoved DEF M!Goto
<1>4. op[o].cmd \in {"install", "uninstall", "start", "stop"}
  BY <1>1, MacCommandOf
<1> HIDE DEF moved
<1> USE <1>1, <1>2, <1>3, <1>4 DEF StepFound, Undisturbed, M!At
<1>5. CASE M!WritePlist(o)
  <2>1. moved("clear") /\ plist' = TRUE /\ UNCHANGED loaded
    BY <1>5 DEF M!WritePlist, M!launchd
  <2> QED BY <2>1 DEF moved
<1>6. CASE M!ClearOld(o)
  <2>1. /\ moved("bootstrap") /\ UNCHANGED plist /\ op[o].pc = "clear"
        /\ loaded' = IF plist /\ loaded THEN FALSE ELSE loaded
    BY <1>6 DEF M!ClearOld, M!Unloaded, M!launchd
  <2> QED BY <2>1 DEF moved
<1>7. CASE M!Bootstrap(o)
  <2>1. /\ op[o].pc = "bootstrap" /\ UNCHANGED plist
        /\ op[o].cmd \in {"install", "start"}
    BY <1>7, MacCommandOf DEF M!Bootstrap
  <2>2. CASE plist /\ ~loaded
    <3>1. /\ loaded' = TRUE
          /\ moved(IF op[o].cmd = "install" THEN "ok" ELSE "kickstart")
      BY <1>7, <2>2 DEF M!Bootstrap
    <3> QED BY <2>1, <2>2, <3>1 DEF moved
  <2>3. CASE ~(plist /\ ~loaded)
    <3>1. UNCHANGED loaded /\ moved("error")
      BY <1>7, <2>3 DEF M!Bootstrap
    <3> QED BY <2>1, <2>3, <3>1 DEF moved, Busy, M!Resting
  <2> QED BY <2>2, <2>3
<1>8. CASE M!CheckStart(o)
  <2>1. /\ op[o].cmd = "start" /\ UNCHANGED <<plist, loaded>>
        /\ moved(CASE ~plist -> "error"
                   [] plist /\ ~loaded -> "bootstrap"
                   [] plist /\ loaded -> "kickstart")
    BY <1>8 DEF M!CheckStart, M!launchd
  <2> QED BY <2>1 DEF moved, Busy, M!Resting
<1>9. CASE M!CheckStop(o)
  <2>1. /\ op[o].cmd \in {"stop", "uninstall"} /\ UNCHANGED <<plist, loaded>>
        /\ moved(CASE op[o].cmd = "stop" /\ ~plist -> "error"
                   [] (op[o].cmd = "stop" => plist) /\ loaded -> "kill"
                   [] OTHER -> IF op[o].cmd = "uninstall" THEN "remove_plist" ELSE "ok")
    BY <1>9 DEF M!CheckStop, M!AfterUnload, M!launchd
  <2> QED BY <2>1 DEF moved, Busy, M!Resting
<1>10. CASE M!Kickstart(o)
  <2>1. /\ op[o].pc = "kickstart" /\ op[o].cmd = "start" /\ UNCHANGED <<plist, loaded>>
        /\ moved(IF loaded THEN "await_loaded" ELSE "error")
    BY <1>10, MacCommandOf DEF M!Kickstart
  <2> QED BY <2>1 DEF moved, Busy, M!Resting
<1>11. CASE M!AwaitLoaded(o)
  <2>1. /\ op[o].pc = "await_loaded" /\ op[o].cmd = "start" /\ UNCHANGED <<plist, loaded>>
        /\ moved(IF loaded THEN "ok" ELSE "error")
    BY <1>11, MacCommandOf DEF M!AwaitLoaded, M!launchd
  <2> QED BY <2>1 DEF moved, Busy, M!Resting
<1>12. CASE M!Kill(o) \/ M!AwaitUnloaded(o)
  <2>1. /\ op[o].pc \in {"kill", "await_unloaded"} /\ op[o].cmd \in {"stop", "uninstall"}
        /\ UNCHANGED <<plist, loaded>>
        /\ moved("await_unloaded") \/ moved("bootout")
    BY <1>12, MacCommandOf DEF M!Kill, M!AwaitUnloaded, M!launchd
  <2> QED BY <2>1 DEF moved, Busy, M!Resting
<1>13. CASE M!Bootout(o)
  <2>1. /\ op[o].pc = "bootout" /\ op[o].cmd \in {"stop", "uninstall"} /\ UNCHANGED plist
    BY <1>13, MacCommandOf DEF M!Bootout
  <2>2. plist /\ loaded => loaded' = FALSE
    BY <1>13 DEF M!Bootout, M!Unloaded
  <2>3. ~loaded => loaded' = FALSE
    BY <1>13 DEF M!Bootout, M!Unloaded, M!launchd
  <2>4. \/ moved(IF op[o].cmd = "uninstall" THEN "remove_plist" ELSE "ok")
        \/ moved("error") /\ ~loaded
    BY <1>13 DEF M!Bootout, M!AfterUnload
  <2>5. ~rivals => plist = TRUE /\ plist' = TRUE /\ loaded' = FALSE
    BY <2>1, <2>2
  <2>6. ~rivals => moved(IF op[o].cmd = "uninstall" THEN "remove_plist" ELSE "ok")
    BY <2>1, <2>4
  <2>7. op[o].cmd # "install" /\ (Undisturbed(o) => ~rivals)
    BY <2>1
  <2>8. ~rivals => op'[o].pc \in {"remove_plist", "ok"}
                   /\ (op'[o].pc = "ok" => op[o].cmd = "stop")
    BY <2>1, <2>6 DEF moved
  <2>9. ~rivals /\ op'[o].pc = "ok" =>
          /\ loaded' = (op[o].cmd \in {"install", "start"})
          /\ plist' = (op[o].cmd # "uninstall")
    <3> SUFFICES ASSUME ~rivals, op'[o].pc = "ok"
                 PROVE  /\ loaded' = (op[o].cmd \in {"install", "start"})
                        /\ plist' = (op[o].cmd # "uninstall")
      OBVIOUS
    <3>1. op[o].cmd = "stop" /\ loaded' = FALSE /\ plist' = TRUE
      BY <2>5, <2>8
    <3>2. /\ (op[o].cmd \in {"install", "start"}) = FALSE
          /\ (op[o].cmd # "uninstall") = TRUE
      BY <3>1
    <3> QED BY <3>1, <3>2
  <2>10. Undisturbed(o) /\ Busy(o)' => StepFound(o)'
    BY <2>5, <2>7, <2>8 DEF Busy, M!Resting
  <2> QED BY <2>5, <2>7, <2>9, <2>10
<1>14. CASE M!RemovePlist(o)
  <2>1. /\ op[o].pc = "remove_plist" /\ op[o].cmd = "uninstall" /\ plist' = FALSE
        /\ UNCHANGED loaded /\ moved("ok")
    BY <1>14, MacCommandOf DEF M!RemovePlist, M!launchd
  <2>2. ~rivals => loaded' = FALSE
    BY <2>1
  <2>3. op'[o].pc = "ok" /\ ~(Busy(o)')
    BY <2>1 DEF moved, Busy, M!Resting
  <2>4. /\ (op[o].cmd \in {"install", "start"}) = FALSE
        /\ (op[o].cmd # "uninstall") = FALSE
    BY <2>1
  <2>5. ~rivals => loaded' = (op[o].cmd \in {"install", "start"})
    BY <2>2, <2>4
  <2>6. plist' = (op[o].cmd # "uninstall")
    BY <2>1, <2>4
  <2>7. op[o].alone /\ op[o].cmd = "install" => op'[o].pc # "error"
    BY <2>1
  <2> QED BY <2>2, <2>3, <2>5, <2>6, <2>7
<1> QED BY <1>5, <1>6, <1>7, <1>8, <1>9, <1>10, <1>11, <1>12, <1>13, <1>14
        DEF M!CommandStep

\* A command that has been alone to its end, and not failed, leaves the job and
\* the plist as it reports; nobody unloads a job without its plist but install.
LEMMA MacSafetyKept ==
    ASSUME MacInv, M!Next
    PROVE  MacSafe'
<1>0. MacSafe /\ M!TypeOK
  BY DEF MacInv
<1>1. ASSUME M!Spawn \/ M!RunService PROVE MacSafe'
  <2>1. UNCHANGED <<plist, loaded, op, rivals>>
    BY <1>1 DEF M!Spawn, M!RunService
  <2> QED BY <1>0, <2>1
          DEF MacSafe, Alone, StepsFound, StepFound, Undisturbed, Busy, M!NoOrphan,
              M!SuccessIsTrue, M!InstallRecovers, M!At
<1>2. ASSUME NEW o \in Operators, M!Begin(o) PROVE MacSafe'
  <2> DEFINE busy == \E p \in Operators : op[p].pc \notin M!Resting
  <2>1. /\ UNCHANGED <<plist, loaded>> /\ ~Busy(o)
        /\ rivals' = (rivals \/ busy)
    BY <1>2 DEF M!Begin, M!launchd, Busy
  <2>2. /\ op'[o].alone = ~busy
        /\ op'[o].pc \in {"write_plist", "check"}
        /\ op'[o].cmd = "install" => op'[o].pc = "write_plist"
    BY <1>2 DEF M!Begin
  <2>3. \A p \in Operators : p # o =>
          op'[p].pc = op[p].pc /\ op'[p].cmd = op[p].cmd /\ op'[p].alone = FALSE
    <3> SUFFICES ASSUME NEW p \in Operators, p # o
                 PROVE  op'[p].pc = op[p].pc /\ op'[p].cmd = op[p].cmd /\ op'[p].alone = FALSE
      OBVIOUS
    <3>1. op'[p] = [op[p] EXCEPT !.alone = FALSE]
      BY <1>2 DEF M!Begin
    <3>2. op[p] \in M!Commanding
      BY <1>0 DEF M!TypeOK
    <3> QED BY <3>1, <3>2 DEF M!Commanding
  <2>4. Alone'
    <3> SUFFICES ASSUME NEW p \in Operators, NEW q \in Operators, p # q
                 PROVE  /\ ~rivals' => ~(Busy(p)') \/ ~(Busy(q)')
                        /\ op'[p].alone => ~(Busy(q)')
      BY DEF Alone
    <3>1. ~busy => \A x \in Operators : x # o => ~(Busy(x)')
      BY <2>3 DEF Busy
    <3>2. op'[p].alone => p = o /\ ~busy
      BY <2>2, <2>3
    <3> HIDE DEF busy
    <3> QED BY <2>1, <3>1, <3>2
  <2>5. \A p \in Operators : Busy(p) => busy
    BY DEF Busy
  <2>6. StepsFound'
    <3> SUFFICES ASSUME NEW p \in Operators, Busy(p)', Undisturbed(p)'
                 PROVE  StepFound(p)'
      BY DEF StepsFound
    <3>1. CASE p = o
      BY <2>2, <3>1 DEF StepFound
    <3>2. CASE p # o
      <4>1. Busy(p)
        BY <2>3, <3>2 DEF Busy
      <4>2. rivals'
        BY <2>1, <2>5, <4>1
      <4> QED BY <2>3, <3>2, <4>2 DEF Undisturbed
    <3> QED BY <3>1, <3>2
  <2>7. M!NoOrphan'
    BY <1>0, <2>1 DEF MacSafe, M!NoOrphan
  <2>8. M!SuccessIsTrue' /\ M!InstallRecovers'
    BY <2>2, <2>3 DEF M!SuccessIsTrue, M!InstallRecovers, M!At
  <2> QED BY <2>4, <2>6, <2>7, <2>8 DEF MacSafe
<1>3. ASSUME NEW o \in Operators, M!CommandStep(o) PROVE MacSafe'
  <2>1. PICK pc \in M!StepsOf(op[o].cmd) : op' = [op EXCEPT ![o].pc = pc]
    BY <1>0, <1>3, MacGoes
  <2>2. /\ op'[o].cmd = op[o].cmd /\ op'[o].alone = op[o].alone
        /\ \A p \in Operators : p # o => op'[p] = op[p]
    BY <1>0, <2>1, MacMoved
  <2>3. Busy(o) /\ UNCHANGED rivals
    BY <1>0, <1>3, MacGoes
  <2>4. \A p \in Operators : p # o => /\ ~rivals => ~Busy(p)
                                      /\ op[o].alone => ~Busy(p)
                                      /\ ~op[p].alone
    BY <1>0, <2>3 DEF MacSafe, Alone
  <2>5. Alone'
    BY <1>0, <2>2, <2>3 DEF MacSafe, Alone, Busy
  <2>6. StepsFound'
    <3> SUFFICES ASSUME NEW p \in Operators, Busy(p)', Undisturbed(p)'
                 PROVE  StepFound(p)'
      BY DEF StepsFound
    <3>1. CASE p = o
      BY <1>3, <2>2, <2>3, <3>1, MacStepWorks DEF Undisturbed
    <3>2. CASE p # o
      <4>1. op'[p] = op[p]
        BY <2>2, <3>2
      <4>2. op[p].pc \notin M!Resting
        BY <4>1 DEF Busy
      <4>3. op[p].alone \/ ~rivals
        BY <2>3, <4>1 DEF Undisturbed
      <4>4. FALSE
        BY <2>4, <3>2, <4>2, <4>3 DEF Busy
      <4> QED BY <4>4
    <3> QED BY <3>1, <3>2
  <2>7. M!NoOrphan'
    BY <1>3, <2>3, MacStepWorks DEF M!NoOrphan
  <2>8. M!SuccessIsTrue'
    <3> SUFFICES ASSUME NEW p \in Operators, op'[p].alone, ~rivals', op'[p].pc = "ok"
                 PROVE  /\ loaded' = (op'[p].cmd \in {"install", "start"})
                        /\ plist' = (op'[p].cmd # "uninstall")
      BY DEF M!SuccessIsTrue, M!At
    <3>1. p = o
      BY <2>2, <2>4
    <3> QED BY <1>3, <2>2, <2>3, <3>1, MacStepWorks
  <2>9. M!InstallRecovers'
    <3> SUFFICES ASSUME NEW p \in Operators, op'[p].alone, op'[p].cmd = "install"
                 PROVE  op'[p].pc # "error"
      BY DEF M!InstallRecovers, M!At
    <3>1. p = o
      BY <2>2, <2>4
    <3> QED BY <1>3, <2>2, <3>1, MacStepWorks
  <2> QED BY <2>5, <2>6, <2>7, <2>8, <2>9 DEF MacSafe
<1>4. ASSUME NEW o \in Operators, M!CommandFails(o) PROVE MacSafe'
  <2>1. UNCHANGED <<plist, loaded, rivals>> /\ Busy(o)
    BY <1>4 DEF M!CommandFails, M!launchd, Busy
  <2>2. op' = [op EXCEPT ![o] = [@ EXCEPT !.pc = "error", !.alone = FALSE]]
    BY <1>4 DEF M!CommandFails
  <2>3. op[o] \in M!Commanding
    BY <1>0 DEF M!TypeOK
  <2>4. op'[o] = [op[o] EXCEPT !.pc = "error", !.alone = FALSE]
    BY <1>0, <2>2 DEF M!TypeOK
  <2>5. op'[o].pc = "error" /\ op'[o].alone = FALSE
    BY <2>3, <2>4 DEF M!Commanding
  <2>6. \A p \in Operators : p # o => op'[p] = op[p]
    BY <1>0, <2>2 DEF M!TypeOK
  <2>7. ~(Busy(o)') /\ \A p \in Operators : p # o => (Busy(p)' <=> Busy(p))
    BY <2>5, <2>6 DEF Busy, M!Resting
  <2>8. Alone'
    BY <1>0, <2>1, <2>5, <2>6, <2>7 DEF MacSafe, Alone
  <2>9. StepsFound'
    BY <1>0, <2>1, <2>6, <2>7 DEF MacSafe, StepsFound, StepFound, Undisturbed
  <2>10. M!NoOrphan'
    BY <1>0, <2>1 DEF MacSafe, M!NoOrphan
  <2>11. M!SuccessIsTrue' /\ M!InstallRecovers'
    BY <1>0, <2>1, <2>5, <2>6 DEF MacSafe, M!SuccessIsTrue, M!InstallRecovers, M!At
  <2> QED BY <2>8, <2>9, <2>10, <2>11 DEF MacSafe
<1> QED BY <1>1, <1>2, <1>3, <1>4 DEF M!Next

-------------------------------------------------------------------------------
(* Progress, the part of StopIsHeeded, StartedServes and CommandsEnd that  *)
(* is not fairness: processes and commands never go back.                  *)

\* The most steps a process in this phase still takes.
StepsOfProcess(phase) ==
    CASE phase = "launched" -> 7
      [] phase = "init" -> 6
      [] phase = "bind" -> 5
      [] phase = "serving" -> 4
      [] phase = "draining" -> 3
      [] phase = "done" -> 2
      [] phase \in {"exiting", "returned"} -> 1
      [] OTHER -> 0

\* The most steps a command that is at this step still takes, on either platform.
StepsOfCommand(pc) ==
    CASE pc = "copy" -> 6
      [] pc \in {"open", "check", "write_plist"} -> 5
      [] pc \in {"control", "kill", "clear"} -> 4
      [] pc \in {"await_stopped", "await_unloaded", "bootstrap"} -> 3
      [] pc \in {"delete", "start_service", "bootout", "kickstart"} -> 2
      [] pc \in {"create", "configure", "await_absent", "await_running",
                 "await_loaded", "remove_plist"} -> 1
      [] OTHER -> 0

\* A step of the process brings it nearer to its end, and no other step, of
\* whatever process or command, takes it away from there.
ProcessAdvances(i) ==
    /\ W!ProcessStep(i) => StepsOfProcess(proc'[i]) < StepsOfProcess(proc[i])
    /\ proc[i] # "none" =>
         proc'[i] = proc[i] \/ StepsOfProcess(proc'[i]) < StepsOfProcess(proc[i])

\* The same of a command that has begun.
CommandAdvances(o) ==
    /\ \/ platform = "windows" /\ W!CommandStep(o)
       \/ platform = "macos" /\ M!CommandStep(o)
         => StepsOfCommand(op'[o].pc) < StepsOfCommand(op[o].pc)
    /\ op[o].pc \notin {"idle", "ok", "error"} =>
         op'[o].pc = op[o].pc \/ StepsOfCommand(op'[o].pc) < StepsOfCommand(op[o].pc)

LEMMA ProcessesAdvance ==
    ASSUME W!TypeOK, W!Next, NEW i \in W!Runs
    PROVE  ProcessAdvances(i)
<1> USE DEF W!Become
<1>0. proc \in [W!Runs -> W!Phases] /\ started \in Nat
  BY DEF W!TypeOK
<1>1. W!ProcessStep(i) => StepsOfProcess(proc'[i]) < StepsOfProcess(proc[i])
  BY <1>0 DEF W!ProcessStep, W!ReportRunning, W!Initialize, W!Bind, W!BeginShutdown,
              W!Drained, W!ReportStopped, W!Exit, StepsOfProcess
<1>2. ASSUME NEW j \in W!Runs, W!ReturnEarly(j) \/ W!Crash(j), proc[i] # "none"
      PROVE  proc'[i] = proc[i] \/ StepsOfProcess(proc'[i]) < StepsOfProcess(proc[i])
  <2>1. CASE i = j
    BY <1>0, <1>2, <2>1 DEF W!ReturnEarly, W!Crash, W!Alive, W!Phases, StepsOfProcess
  <2>2. CASE i # j
    BY <1>0, <1>2, <2>2 DEF W!ReturnEarly, W!Crash
  <2> QED BY <2>1, <2>2
<1>3. ASSUME NEW j \in W!Runs, W!ProcessStep(j), i # j
      PROVE  proc'[i] = proc[i]
  BY <1>0, <1>3 DEF W!ProcessStep, W!ReportRunning, W!Initialize, W!Bind,
                    W!BeginShutdown, W!Drained, W!ReportStopped, W!Exit
<1>4. ASSUME NEW o \in Operators, W!StartService(o), proc[i] # "none"
      PROVE  proc'[i] = proc[i]
  <2>1. ~(i > started) /\ i \in Nat
    BY <1>4 DEF W!TypeOK, W!Runs
  <2>2. i # started + 1
    BY <1>0, <2>1
  <2> QED BY <1>0, <1>4, <2>2 DEF W!StartService
<1>5. ASSUME NEW o \in Operators,
             \/ W!Begin(o) \/ W!CommandFails(o)
             \/ W!CommandStep(o) /\ ~W!StartService(o)
      PROVE  proc' = proc
  BY <1>5 DEF W!Begin, W!CommandFails, W!CommandStep, W!Copy, W!OpenInstall,
              W!CreateService, W!ChangeConfig, W!OpenUninstall, W!OpenStart,
              W!OpenStop, W!SendStop, W!Awaits, W!AwaitRunning, W!AwaitStopped,
              W!Delete, W!AwaitAbsent
<1>6. W!Remove => proc' = proc
  BY DEF W!Remove
<1> QED BY <1>1, <1>2, <1>3, <1>4, <1>5, <1>6 DEF W!Next, ProcessAdvances

LEMMA WinCommandsAdvance ==
    ASSUME W!TypeOK, W!Next, platform = "windows", NEW o \in Operators
    PROVE  CommandAdvances(o)
<1> USE DEF W!Goto, W!At
<1>0. op \in [Operators -> W!Commanding] /\ op[o] \in W!Commanding
  BY DEF W!TypeOK
<1>1. ASSUME W!CommandStep(o)
      PROVE  StepsOfCommand(op'[o].pc) < StepsOfCommand(op[o].pc)
  <2> USE DEF StepsOfCommand, W!Commanding
  <2>1. CASE W!Copy(o) \/ W!OpenInstall(o) \/ W!CreateService(o) \/ W!ChangeConfig(o)
    BY <2>1, <1>0 DEF W!Copy, W!OpenInstall, W!CreateService, W!ChangeConfig
  <2>2. CASE W!OpenUninstall(o) \/ W!OpenStart(o) \/ W!OpenStop(o)
    BY <2>2, <1>0 DEF W!OpenUninstall, W!OpenStart, W!OpenStop
  <2>3. CASE W!StartService(o) \/ W!SendStop(o)
    BY <2>3, <1>0 DEF W!StartService, W!SendStop
  <2>4. CASE W!AwaitRunning(o) \/ W!AwaitStopped(o) \/ W!Delete(o) \/ W!AwaitAbsent(o)
    BY <2>4, <1>0 DEF W!AwaitRunning, W!AwaitStopped, W!Awaits, W!Delete, W!AwaitAbsent
  <2> QED BY <1>1, <2>1, <2>2, <2>3, <2>4 DEF W!CommandStep
<1>2. ASSUME NEW p \in Operators,
             p # o, W!Begin(p) \/ W!CommandStep(p) \/ W!CommandFails(p)
      PROVE  op'[o] = op[o]
  BY <1>2, <1>0
     DEF W!Begin, W!CommandFails, W!CommandStep, W!Copy, W!OpenInstall,
         W!CreateService, W!ChangeConfig, W!OpenUninstall, W!OpenStart, W!OpenStop,
         W!StartService, W!SendStop, W!Awaits, W!AwaitRunning, W!AwaitStopped,
         W!Delete, W!AwaitAbsent
<1>3. W!Begin(o) => op[o].pc \in {"idle", "ok", "error"}
  BY DEF W!Begin, W!Resting
<1>4. ASSUME W!CommandFails(o)
      PROVE  StepsOfCommand(op'[o].pc) < StepsOfCommand(op[o].pc)
  <2>1. op[o].pc \notin {"idle", "ok", "error"} /\ op'[o].pc = "error"
    BY <1>4, <1>0 DEF W!CommandFails, W!Resting, W!Commanding
  <2>2. op[o].cmd \in {"install", "uninstall", "start", "stop"}
        /\ op[o].pc \in W!StepsOf(op[o].cmd)
    BY WinCommandOf DEF W!TypeOK
  <2> QED BY <2>1, <2>2, WinSteps DEF StepsOfCommand
<1>5. ASSUME NEW j \in W!Runs, W!ProcessStep(j) \/ W!ReturnEarly(j) \/ W!Crash(j)
      PROVE  op' = op
  BY <1>5 DEF W!ProcessStep, W!ReportRunning, W!Initialize, W!Bind, W!BeginShutdown,
              W!Drained, W!ReportStopped, W!Exit, W!ReturnEarly, W!Crash
<1>6. W!Remove => op' = op
  BY DEF W!Remove
<1> QED BY <1>1, <1>2, <1>3, <1>4, <1>5, <1>6 DEF W!Next, CommandAdvances

LEMMA MacCommandsAdvance ==
    ASSUME M!TypeOK, M!Next, platform = "macos", NEW o \in Operators
    PROVE  CommandAdvances(o)
<1> USE DEF M!Goto, M!At
<1>0. op \in [Operators -> M!Commanding] /\ op[o] \in M!Commanding
  BY DEF M!TypeOK
<1>1. ASSUME M!CommandStep(o)
      PROVE  StepsOfCommand(op'[o].pc) < StepsOfCommand(op[o].pc)
  <2> USE DEF StepsOfCommand, M!Commanding
  <2>1. CASE M!WritePlist(o) \/ M!ClearOld(o) \/ M!Bootstrap(o)
    BY <2>1, <1>0 DEF M!WritePlist, M!ClearOld, M!Bootstrap
  <2>2. CASE M!CheckStart(o) \/ M!CheckStop(o)
    BY <2>2, <1>0 DEF M!CheckStart, M!CheckStop, M!AfterUnload
  <2>3. CASE M!Kickstart(o) \/ M!AwaitLoaded(o) \/ M!Kill(o) \/ M!AwaitUnloaded(o)
    BY <2>3, <1>0 DEF M!Kickstart, M!AwaitLoaded, M!Kill, M!AwaitUnloaded
  <2>4. CASE M!Bootout(o) \/ M!RemovePlist(o)
    BY <2>4, <1>0 DEF M!Bootout, M!RemovePlist, M!AfterUnload
  <2> QED BY <1>1, <2>1, <2>2, <2>3, <2>4 DEF M!CommandStep
<1>2. ASSUME NEW p \in Operators, p # o, M!CommandStep(p) \/ M!CommandFails(p)
      PROVE  op'[o] = op[o]
  BY <1>2, <1>0
     DEF M!CommandFails, M!CommandStep, M!WritePlist, M!ClearOld, M!Bootstrap,
         M!CheckStart, M!CheckStop, M!Kickstart, M!AwaitLoaded, M!Kill,
         M!AwaitUnloaded, M!Bootout, M!RemovePlist
<1>3. ASSUME NEW p \in Operators, M!Begin(p)
      PROVE  op[o].pc \in {"idle", "ok", "error"} \/ op'[o].pc = op[o].pc
  BY <1>3, <1>0 DEF M!Begin, M!Resting, M!Commanding
<1>4. ASSUME M!CommandFails(o)
      PROVE  StepsOfCommand(op'[o].pc) < StepsOfCommand(op[o].pc)
  <2>1. op[o].pc \notin {"idle", "ok", "error"} /\ op'[o].pc = "error"
    BY <1>4, <1>0 DEF M!CommandFails, M!Resting, M!Commanding
  <2>2. op[o].cmd \in {"install", "uninstall", "start", "stop"}
        /\ op[o].pc \in M!StepsOf(op[o].cmd)
    BY <1>0 DEF M!TypeOK, M!Commanding, M!Commands
  <2> QED BY <2>1, <2>2, MacSteps DEF StepsOfCommand
<1>5. M!Spawn \/ M!RunService => op' = op
  BY DEF M!Spawn, M!RunService
<1> QED BY <1>1, <1>2, <1>3, <1>4, <1>5 DEF M!Next, CommandAdvances

-------------------------------------------------------------------------------
(* Either platform.                                                        *)

IInv == (platform = "windows" => WinInv) /\ (platform = "macos" => MacInv)

\* Both services start with nothing installed.
LEMMA InitHolds == Init => IInv
<1> SUFFICES ASSUME Init PROVE IInv
  OBVIOUS
<1>1. ASSUME platform = "windows" PROVE WinInv
  <2>1. W!InitService /\ W!InitCommands
    BY <1>1 DEF Init
  <2>2. [cmd |-> "install", pc |-> "idle"] \in W!Commanding
    BY WinSteps DEF W!Commanding, W!Commands
  <2>3. /\ op \in [Operators -> W!Commanding]
        /\ \A o \in Operators : op[o].pc \in W!StepsOf(op[o].cmd)
    BY <2>1, <2>2, WinSteps DEF W!InitCommands
  <2>4. W!TypeOK
    BY <2>1, <2>3, ServiceAssumption
       DEF W!InitService, W!InitCommands, W!TypeOK, W!Phases, W!Runs
  <2>5. OldAreDone /\ NewestExists /\ W!StoppedIsSilent
    BY <2>1 DEF W!InitService, OldAreDone, NewestExists, W!StoppedIsSilent, W!Runs
  <2> QED BY <2>4, <2>5 DEF WinInv
<1>2. ASSUME platform = "macos" PROVE MacInv
  <2>1. M!InitService /\ M!InitCommands
    BY <1>2 DEF Init
  <2>2. [cmd |-> "install", pc |-> "idle", alone |-> FALSE] \in M!Commanding
    BY MacSteps DEF M!Commanding, M!Commands
  <2>3. /\ op \in [Operators -> M!Commanding]
        /\ \A o \in Operators : op[o].pc \in M!StepsOf(op[o].cmd)
    BY <2>1, <2>2, MacSteps DEF M!InitCommands
  <2>4. M!TypeOK
    <3>1. plist \in BOOLEAN /\ loaded \in BOOLEAN /\ rivals \in BOOLEAN
      BY <2>1 DEF M!InitService, M!InitCommands
    <3>2. job = "none"
      BY <2>1 DEF M!InitService
    <3>3. commands \in 0 .. MaxCommands /\ faults \in 0 .. MaxFaults
      BY <2>1, ServiceAssumption DEF M!InitCommands
    <3> QED BY <2>3, <3>1, <3>2, <3>3 DEF M!TypeOK
  <2>5. \A o \in Operators : op[o].alone = FALSE /\ ~Busy(o)
    BY <2>1 DEF M!InitCommands, Busy, M!Resting
  <2>6. MacSafe
    BY <2>1, <2>5 DEF M!InitService, MacSafe, Alone, StepsFound, M!NoOrphan,
                      M!SuccessIsTrue, M!InstallRecovers
  <2> QED BY <2>4, <2>6 DEF MacInv
<1> QED BY <1>1, <1>2 DEF IInv

\* A step of one platform keeps its invariant; the other platform never runs.
LEMMA StepKeeps ==
    ASSUME IInv, [Next]_vars
    PROVE  IInv'
<1>1. ASSUME WindowsStep(W!Next) PROVE IInv'
  <2>1. /\ platform = "windows" /\ platform' = "windows"
        /\ W!Next /\ WinInv
    BY <1>1 DEF WindowsStep, IInv
  <2>2. WinInv'
    BY <2>1, WinTypesKept, WinSafetyKept DEF WinInv
  <2> QED BY <2>1, <2>2 DEF IInv
<1>2. ASSUME LaunchdStep(M!Next) PROVE IInv'
  <2>1. /\ platform = "macos" /\ platform' = "macos"
        /\ M!Next /\ MacInv
    BY <1>2 DEF LaunchdStep, IInv
  <2>2. MacInv'
    BY <2>1, MacTypesKept, MacSafetyKept DEF MacInv
  <2> QED BY <2>1, <2>2 DEF IInv
<1>3. CASE UNCHANGED vars
  <2> USE <1>3 DEF vars, windowsOnly, launchdOnly
  <2>1. WinInv => WinInv'
    BY DEF WinInv, OldAreDone, NewestExists, W!StoppedIsSilent, W!TypeOK
  <2>2. MacInv => MacInv'
    <3>1. M!TypeOK => M!TypeOK'
      BY DEF M!TypeOK
    <3>2. MacSafe => MacSafe'
      BY DEF MacSafe, Alone, StepsFound, StepFound, Undisturbed, Busy, M!NoOrphan,
             M!SuccessIsTrue, M!InstallRecovers, M!At
    <3> QED BY <3>1, <3>2 DEF MacInv
  <2> QED BY <2>1, <2>2 DEF IInv
<1> QED BY <1>1, <1>2, <1>3 DEF Next

\* The strengthening holds in every reachable state.
LEMMA InvariantHolds == Spec => []IInv
BY InitHolds, StepKeeps, PTL DEF Spec

\* Every reachable state of either service is well typed; above all, no command
\* takes a step that is not its own, and there are no more processes than
\* commands.
THEOREM TypeCorrect == Spec => []TypeOK
<1>1. IInv => TypeOK
  BY DEF IInv, WinInv, MacInv, TypeOK
<1> QED BY <1>1, InvariantHolds, PTL

\* For any number of operators, commands and crashes: once Stopped is reported no
\* process works on the data directory or holds the port, and two processes
\* never listen at the same time.
THEOREM StoppedStaysSilent == Spec => []StoppedIsSilent
<1>1. IInv => StoppedIsSilent
  BY DEF IInv, WinInv, StoppedIsSilent
<1> QED BY <1>1, InvariantHolds, PTL

\* For any number of operators and faults: as long as commands do not overlap,
\* launchd never has a job that only install can remove.
THEOREM NoJobIsOrphaned == Spec => []NoOrphan
<1>1. IInv => NoOrphan
  BY DEF IInv, MacInv, MacSafe, NoOrphan
<1> QED BY <1>1, InvariantHolds, PTL

\* A lone command's success is true when it is reported, and until another
\* command begins.
THEOREM ReportsAreTrue == Spec => []SuccessIsTrue
<1>1. IInv => SuccessIsTrue
  BY DEF IInv, MacInv, MacSafe, SuccessIsTrue
<1> QED BY <1>1, InvariantHolds, PTL

\* A lone install succeeds after whatever earlier commands, overlapping or
\* killed, have left behind.
THEOREM InstallAlwaysRecovers == Spec => []InstallRecovers
<1>1. IInv => InstallRecovers
  BY DEF IInv, MacInv, MacSafe, InstallRecovers
<1> QED BY <1>1, InvariantHolds, PTL

\* What start relies on holds in every reachable state of the Windows service.
LEMMA StartInvHolds == Spec => [](platform = "windows" => StartInv)
<1> DEFINE SInv == platform = "windows" => StartInv
<1>1. Init => SInv
  BY ServiceAssumption
     DEF Init, W!InitService, W!InitCommands, StartInv, Saw
<1>2. IInv /\ SInv /\ [Next]_vars => SInv'
  <2> SUFFICES ASSUME IInv, SInv, [Next]_vars, platform' = "windows" PROVE StartInv'
    OBVIOUS
  <2>1. CASE WindowsStep(W!Next)
    BY <2>1, StartKept DEF WindowsStep, IInv
  <2>2. CASE LaunchdStep(M!Next)
    BY <2>2 DEF LaunchdStep
  <2>3. CASE UNCHANGED vars
    BY <2>3 DEF vars, windowsOnly, StartInv, Saw
  <2> QED BY <2>1, <2>2, <2>3 DEF Next
<1> QED BY <1>1, <1>2, InvariantHolds, PTL DEF Spec

\* For any number of operators, commands and crashes: the process that start has
\* launched, unless it was told to stop or something failed, serves or is on its
\* way there, and it finds the port free (start reports success earlier).
THEOREM StartLeadsOn == Spec => []StartIsUnderWay
<1>1. IInv /\ (platform = "windows" => StartInv) => StartIsUnderWay
  <2> SUFFICES ASSUME WinInv, StartInv PROVE W!StartIsUnderWay
    BY DEF IInv, StartIsUnderWay
  <2>1. started # 0 => started \in W!Runs
    BY ServiceAssumption DEF WinInv, W!TypeOK, W!Runs
  <2> QED BY <2>1, PortIsFree DEF W!StartIsUnderWay, StartInv, Saw, W!At
<1> QED BY <1>1, StartInvHolds, InvariantHolds, PTL

\* What liveness adds to fairness, for any number of operators, commands and
\* crashes: neither processes nor commands ever go back, whatever the others do,
\* so a process ends within 7 steps of its own once it is asked to, and a command
\* within 6.
THEOREM ServicesAdvance ==
    Spec => [][/\ platform = "windows" => \A i \in W!Runs : ProcessAdvances(i)
               /\ \A o \in Operators : CommandAdvances(o)]_vars
<1>1. ASSUME IInv, Next
      PROVE  /\ platform = "windows" => \A i \in W!Runs : ProcessAdvances(i)
             /\ \A o \in Operators : CommandAdvances(o)
  <2>1. CASE WindowsStep(W!Next)
    BY <1>1, <2>1, ProcessesAdvance, WinCommandsAdvance DEF WindowsStep, IInv, WinInv
  <2>2. CASE LaunchdStep(M!Next)
    BY <1>1, <2>2, MacCommandsAdvance DEF LaunchdStep, IInv, MacInv
  <2> QED BY <1>1, <2>1, <2>2 DEF Next
<1> QED BY <1>1, InvariantHolds, PTL DEF Spec
================================================================================
