----------------------------- MODULE WindowsService -----------------------------
(***************************************************************************)
(* WakeBridge as a Windows service: the commands install, uninstall, start *)
(* and stop of src/src/service.rs, given by several operators, and the     *)
(* processes that run service_main.                                        *)
(*                                                                         *)
(* The service control manager (SCM) is external.  It keeps the entry of   *)
(* the service until it is marked for deletion, stopped, and no handle is  *)
(* open; it launches a process for StartService, forwards a stop control   *)
(* to the process that last reported Running, and notices a dead process.  *)
(* The program never reports StopPending, so the branches for that state   *)
(* are not taken.                                                          *)
(***************************************************************************)
EXTENDS Integers

CONSTANTS
    Operators,    \* who gives commands: shells, installers
    MaxCommands,  \* bound: commands given
    MaxFaults     \* bound: crashes, failing calls, interrupted commands

\* A command starts one process at most: StartService never meets this bound.
Runs == 1 .. MaxCommands

Commands == {"install", "uninstall", "start", "stop"}

\* A command rests before it is given and after its result.
Resting == {"idle", "ok", "error"}

\* The steps of a command that keep a handle of the service open.
Holding == {"configure", "control", "start_service", "await_running",
            "await_stopped", "delete"}

StepsOf(cmd) ==
    Resting \cup {"open"} \cup
    CASE cmd = "install" -> {"copy", "create", "configure"}
      [] cmd = "uninstall" -> {"control", "await_stopped", "delete", "await_absent"}
      [] cmd = "start" -> {"start_service", "await_running"}
      [] cmd = "stop" -> {"control", "await_stopped"}

Commanding == [cmd : Commands, pc : UNION {StepsOf(cmd) : cmd \in Commands}]

\* service_main returned early ("returned") leaves its process behind.
Phases == {"none", "launched", "init", "bind", "serving", "draining", "done",
           "returned", "exiting", "gone"}

VARIABLES
    entry,     \* the SCM's entry: "absent", "present" or "marked"
    reported,  \* the state of the service as the SCM knows it
    started,   \* processes launched so far: the last one is the service's
    proc,      \* the phase of each process
    stop,      \* a message waits in the process's stop channel
    asked,     \* auxiliary: the processes that a stop control was sent to
    op,        \* the command of each operator and its next step
    commands,  \* auxiliary: commands given so far
    faults     \* auxiliary: faults so far

scm == <<entry, reported, started>>
control == <<stop, asked>>
vars == <<scm, proc, control, op, commands, faults>>

TypeOK ==
    /\ entry \in {"absent", "present", "marked"}
    /\ reported \in {"stopped", "start_pending", "running"}
    /\ started \in 0 .. MaxCommands
    /\ proc \in [Runs -> Phases]
    /\ stop \in [Runs -> BOOLEAN]
    /\ asked \subseteq Runs
    /\ \A i \in Runs : proc[i] = "none" <=> i > started
    /\ op \in [Operators -> Commanding]
    /\ \A o \in Operators : op[o].pc \in StepsOf(op[o].cmd)
    /\ commands \in 0 .. MaxCommands
    /\ faults \in 0 .. MaxFaults

InitService ==
    /\ entry = "absent"
    /\ reported = "stopped"
    /\ started = 0
    /\ proc = [i \in Runs |-> "none"]
    /\ stop = [i \in Runs |-> FALSE]
    /\ asked = {}

InitCommands ==
    /\ op = [o \in Operators |-> [cmd |-> "install", pc |-> "idle"]]
    /\ commands = 0
    /\ faults = 0

Init == InitService /\ InitCommands

(***************************************************************************)
(* service_main.                                                           *)
(***************************************************************************)

\* MUTATION of PortTaken: the listener lives as long as its process.
PortTakenToTheEnd ==
    \E i \in Runs : proc[i] \in {"serving", "draining", "done", "exiting"}

\* The listener is bound by "serving" and dropped when the shutdown begins.
PortTaken == \E i \in Runs : proc[i] = "serving"

Alive == {i \in Runs : proc[i] \notin {"none", "gone"}}

Become(i, phase) == proc' = [proc EXCEPT ![i] = phase]

\* The control handler is registered, and Running reported at once.
ReportRunning(i) ==
    /\ proc[i] = "launched"
    /\ Become(i, "init")
    /\ reported' = "running"
    /\ UNCHANGED <<entry, started, control, op, commands, faults>>

\* A failing registration, configuration or runtime returns from
\* service_main without a report.
ReturnEarly(i) ==
    /\ faults < MaxFaults
    /\ proc[i] \in {"launched", "init"}
    /\ Become(i, "returned")
    /\ faults' = faults + 1
    /\ UNCHANGED <<scm, control, op, commands>>

\* AppState::initialize.
Initialize(i) ==
    /\ proc[i] = "init"
    /\ \/ Become(i, "bind") /\ UNCHANGED faults
       \/ Become(i, "done") /\ faults < MaxFaults /\ faults' = faults + 1
    /\ UNCHANGED <<scm, control, op, commands>>

\* TcpListener::bind fails while another process listens.
Bind(i) ==
    /\ proc[i] = "bind"
    /\ Become(i, IF PortTaken THEN "done" ELSE "serving")
    /\ UNCHANGED <<scm, control, op, commands, faults>>

\* MUTATION of ReportStopped and BeginShutdown: Stopped is reported as soon
\* as the stop is heeded.
ReportedEarly(i) ==
    /\ proc[i] = "serving"
    /\ stop[i]
    /\ Become(i, "draining")
    /\ reported' = "stopped"
    /\ UNCHANGED <<entry, started, control, op, commands, faults>>

\* MUTATION of BeginShutdown: one channel for all runs, as a named event of
\* the system would be.
SharedShutdown(i) ==
    /\ proc[i] = "serving"
    /\ \E j \in Runs : stop[j]
    /\ Become(i, "draining")
    /\ UNCHANGED <<scm, control, op, commands, faults>>

\* The shutdown future ends when the channel has a message, also one that
\* was sent before the listener was bound.
BeginShutdown(i) ==
    /\ proc[i] = "serving"
    /\ stop[i]
    /\ Become(i, "draining")
    /\ UNCHANGED <<scm, control, op, commands, faults>>

\* axum::serve returns when the last connection is closed.
Drained(i) ==
    /\ proc[i] = "draining"
    /\ Become(i, "done")
    /\ UNCHANGED <<scm, control, op, commands, faults>>

ReportStopped(i) ==
    /\ proc[i] = "done"
    /\ Become(i, "exiting")
    /\ reported' = "stopped"
    /\ UNCHANGED <<entry, started, control, op, commands, faults>>

\* The dispatcher returns once Stopped is reported, and main with it.
Exit(i) ==
    /\ proc[i] = "exiting"
    /\ Become(i, "gone")
    /\ UNCHANGED <<scm, control, op, commands, faults>>

\* A panic (panic = "abort") or a kill.  The SCM sees the process die.
Crash(i) ==
    /\ faults < MaxFaults
    /\ i \in Alive
    /\ Become(i, "gone")
    /\ faults' = faults + 1
    /\ reported' = IF proc[i] = "exiting" THEN reported ELSE "stopped"
    /\ UNCHANGED <<entry, started, control, op, commands>>

ProcessStep(i) ==
    \/ ReportRunning(i) \/ Initialize(i) \/ Bind(i) \/ BeginShutdown(i)
    \/ Drained(i) \/ ReportStopped(i) \/ Exit(i)

(***************************************************************************)
(* The commands.  Opening the service and its first query are one step:    *)
(* an open handle keeps the entry.                                         *)
(***************************************************************************)
At(o, pc) == op[o].pc = pc

Goto(o, pc) == op' = [op EXCEPT ![o].pc = pc]

Begin(o) ==
    /\ op[o].pc \in Resting
    /\ commands < MaxCommands
    /\ \E cmd \in Commands :
         op' = [op EXCEPT ![o] =
                  [cmd |-> cmd, pc |-> IF cmd = "install" THEN "copy" ELSE "open"]]
    /\ commands' = commands + 1
    /\ UNCHANGED <<scm, proc, control, faults>>

\* The executable of a live process cannot be overwritten; an installer
\* that runs from its final place copies nothing.
Copy(o) ==
    /\ At(o, "copy")
    /\ \/ Goto(o, "open")
       \/ Alive # {} /\ Goto(o, "error")
    /\ UNCHANGED <<scm, proc, control, commands, faults>>

OpenInstall(o) ==
    /\ At(o, "open") /\ op[o].cmd = "install"
    /\ Goto(o, IF entry = "absent" THEN "create" ELSE "configure")
    /\ UNCHANGED <<scm, proc, control, commands, faults>>

CreateService(o) ==
    /\ At(o, "create")
    /\ IF entry = "absent"
         THEN Goto(o, "ok") /\ entry' = "present"
         ELSE Goto(o, "error") /\ UNCHANGED entry
    /\ UNCHANGED <<reported, started, proc, control, commands, faults>>

ChangeConfig(o) ==
    /\ At(o, "configure")
    /\ Goto(o, IF entry = "marked" THEN "error" ELSE "ok")
    /\ UNCHANGED <<scm, proc, control, commands, faults>>

OpenUninstall(o) ==
    /\ At(o, "open") /\ op[o].cmd = "uninstall"
    /\ Goto(o, CASE entry = "absent" -> "ok"
                 [] entry # "absent" /\ reported = "stopped" -> "delete"
                 [] OTHER -> "control")
    /\ UNCHANGED <<scm, proc, control, commands, faults>>

OpenStart(o) ==
    /\ At(o, "open") /\ op[o].cmd = "start"
    /\ Goto(o, CASE entry = "absent" -> "error"
                 [] entry # "absent" /\ reported = "running" -> "ok"
                 [] entry # "absent" /\ reported = "stopped" -> "start_service"
                 [] OTHER -> "await_running")
    /\ UNCHANGED <<scm, proc, control, commands, faults>>

OpenStop(o) ==
    /\ At(o, "open") /\ op[o].cmd = "stop"
    /\ Goto(o, CASE entry = "absent" -> "error"
                 [] entry # "absent" /\ reported = "stopped" -> "ok"
                 [] OTHER -> "control")
    /\ UNCHANGED <<scm, proc, control, commands, faults>>

StartService(o) ==
    /\ At(o, "start_service")
    /\ started < MaxCommands
    /\ IF entry = "present" /\ reported = "stopped"
         THEN /\ Goto(o, "await_running")
              /\ reported' = "start_pending"
              /\ started' = started + 1
              /\ Become(started + 1, "launched")
         ELSE Goto(o, "error") /\ UNCHANGED <<reported, started, proc>>
    /\ UNCHANGED <<entry, control, commands, faults>>

\* MUTATION of Buffered: a control that comes before the listener is lost.
BufferedWhenServing(i) == proc[i] = "serving"

\* The channel keeps a message for a receiver that does not wait yet.
Buffered(i) == TRUE

\* service.stop(): a service that is not running accepts no control.
SendStop(o) ==
    /\ At(o, "control")
    /\ IF reported = "running"
         THEN /\ Goto(o, "await_stopped")
              /\ stop' = [stop EXCEPT ![started] = @ \/ Buffered(started)]
              /\ asked' = asked \cup {started}
         ELSE Goto(o, "error") /\ UNCHANGED control
    /\ UNCHANGED <<scm, proc, commands, faults>>

\* wait_for_state: the deadline of 30 s may pass at any query that does not
\* show the expected state.
Awaits(o, pc, state, next) ==
    /\ At(o, pc)
    /\ Goto(o, IF reported = state THEN next ELSE "error")
    /\ UNCHANGED <<scm, proc, control, commands, faults>>

AwaitRunning(o) == Awaits(o, "await_running", "running", "ok")

\* MUTATION of AwaitStopped: every stop goes on like that of uninstall.
AwaitStoppedToDelete(o) == Awaits(o, "await_stopped", "stopped", "delete")

AwaitStopped(o) ==
    Awaits(o, "await_stopped", "stopped",
           IF op[o].cmd = "uninstall" THEN "delete" ELSE "ok")

\* The handle is dropped after it.
Delete(o) ==
    /\ At(o, "delete")
    /\ IF entry = "present"
         THEN Goto(o, "await_absent") /\ entry' = "marked"
         ELSE Goto(o, "error") /\ UNCHANGED entry
    /\ UNCHANGED <<reported, started, proc, control, commands, faults>>

\* wait_for_service_absent.
AwaitAbsent(o) ==
    /\ At(o, "await_absent")
    /\ Goto(o, IF entry = "absent" THEN "ok" ELSE "error")
    /\ UNCHANGED <<scm, proc, control, commands, faults>>

\* A call returns an error, or the command is interrupted.
CommandFails(o) ==
    /\ faults < MaxFaults
    /\ op[o].pc \notin Resting
    /\ Goto(o, "error")
    /\ faults' = faults + 1
    /\ UNCHANGED <<scm, proc, control, commands>>

\* External: the SCM forgets a marked service.
Remove ==
    /\ entry = "marked"
    /\ reported = "stopped"
    /\ \A o \in Operators : op[o].pc \notin Holding
    /\ entry' = "absent"
    /\ UNCHANGED <<reported, started, proc, control, op, commands, faults>>

CommandStep(o) ==
    \/ Copy(o) \/ OpenInstall(o) \/ CreateService(o) \/ ChangeConfig(o)
    \/ OpenUninstall(o) \/ OpenStart(o) \/ OpenStop(o)
    \/ StartService(o) \/ SendStop(o) \/ AwaitRunning(o) \/ AwaitStopped(o)
    \/ Delete(o) \/ AwaitAbsent(o)

Next ==
    \/ \E i \in Runs : ProcessStep(i) \/ ReturnEarly(i) \/ Crash(i)
    \/ \E o \in Operators : Begin(o) \/ CommandStep(o) \/ CommandFails(o)
    \/ Remove

\* Processes and commands run on their own; nothing obliges an operator to
\* give a command, or a call to fail.
Fairness ==
    /\ \A i \in Runs : WF_vars(ProcessStep(i))
    /\ \A o \in Operators : WF_vars(CommandStep(o))
    /\ WF_vars(Remove)

Spec == Init /\ [][Next]_vars
FairSpec == Spec /\ Fairness
(***************************************************************************)
(* Properties.                                                             *)
(***************************************************************************)

\* Once Stopped is reported, by whatever run and however it ended, no
\* process works on the data directory or holds the port any more, so that
\* a command may start the next one or delete the entry; two processes never
\* listen at the same time, and an uninstalled service has none.
StoppedIsSilent ==
    /\ reported = "stopped" =>
         \A i \in Runs : proc[i] \in {"none", "exiting", "gone"}
    /\ entry = "absent" => reported = "stopped"
    /\ \A i, j \in Runs : proc[i] = "serving" /\ proc[j] = "serving" => i = j

\* A stop control is heeded, also when it comes before the listener is
\* bound: the process it was sent to stops, whether or not the command still
\* waits for it.  The exception is a service_main that has returned early.
StopIsHeeded ==
    \A i \in Runs : i \in asked ~> proc[i] \in {"exiting", "gone", "returned"}

\* start reports success before the database is open and the port bound;
\* nevertheless a process then serves, unless it was told to stop or
\* something failed.
StartedServes ==
    \A o \in Operators :
      (At(o, "ok") /\ op[o].cmd = "start") ~>
        \/ \E i \in Runs : proc[i] = "serving"
        \/ started \in asked
        \/ faults > 0

\* start reports success before the database is open and the port bound.
\* Nevertheless the newest process, unless it was told to stop or something
\* failed, serves or is on its way there, and it finds the port free: no
\* overlap with the process that was stopped before it, however late that exits.
StartIsUnderWay ==
    /\ \A o \in Operators : At(o, "ok") /\ op[o].cmd = "start" => started # 0
    /\ faults = 0 /\ started # 0 /\ started \notin asked =>
         /\ proc[started] \in {"launched", "init", "bind", "serving"}
         /\ proc[started] = "bind" => ~PortTaken

\* Every command comes to an end, in spite of a service that never
\* reports what the command waits for.
CommandsEnd == \A o \in Operators : op[o].pc \notin Resting ~> op[o].pc \in Resting
=================================================================================
