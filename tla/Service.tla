--------------------------------- MODULE Service ---------------------------------
(***************************************************************************)
(* The commands `wakebridge service ...` as one program: which of the two  *)
(* implementations in src/src/service.rs a build contains is decided by    *)
(* its platform (the cfg attributes).  Builds for other platforms refuse   *)
(* every command and have no state.                                        *)
(***************************************************************************)
EXTENDS Integers

CONSTANTS Operators, MaxCommands, MaxFaults

ASSUME ServiceAssumption == MaxCommands \in Nat /\ MaxFaults \in Nat

VARIABLES
    platform,                                      \* what the program was built for
    entry, reported, started, proc, stop, asked,   \* WindowsService
    plist, loaded, job, rivals,                    \* LaunchdService
    op, commands, faults                           \* either

windowsOnly == <<entry, reported, started, proc, stop, asked>>
launchdOnly == <<plist, loaded, job, rivals>>
vars == <<platform, windowsOnly, launchdOnly, op, commands, faults>>

W == INSTANCE WindowsService
M == INSTANCE LaunchdService

Init ==
    /\ W!InitService /\ M!InitService
    /\ \/ platform = "windows" /\ W!InitCommands /\ rivals = FALSE
       \/ platform = "macos" /\ M!InitCommands

WindowsStep(A) == platform = "windows" /\ A /\ UNCHANGED <<platform, launchdOnly>>
LaunchdStep(A) == platform = "macos" /\ A /\ UNCHANGED <<platform, windowsOnly>>

Next == WindowsStep(W!Next) \/ LaunchdStep(M!Next)

\* That of the two modules.
Fairness ==
    /\ \A i \in W!Runs : WF_vars(WindowsStep(W!ProcessStep(i)))
    /\ \A o \in Operators : WF_vars(WindowsStep(W!CommandStep(o)))
    /\ WF_vars(WindowsStep(W!Remove))
    /\ WF_vars(LaunchdStep(M!Spawn)) /\ WF_vars(LaunchdStep(M!RunService))
    /\ \A o \in Operators : WF_vars(LaunchdStep(M!CommandStep(o)))

Spec == Init /\ [][Next]_vars /\ Fairness

\* The variables of either service are well typed.
TypeOK ==
    /\ platform = "windows" => W!TypeOK
    /\ platform = "macos" => M!TypeOK

\* Stopped means that no process of the service is left at work: see
\* WindowsService (service_main reports Stopped after block_on).
StoppedIsSilent == platform = "windows" => W!StoppedIsSilent

\* A stop control that comes before the listener is bound is heeded: see
\* WindowsService (the mpsc channel of service_main).
StopIsHeeded == platform = "windows" => W!StopIsHeeded

\* After a successful start a process serves: see WindowsService (start,
\* and service_main's early report).
StartedServes == platform = "windows" => W!StartedServes

\* The process that start has launched is on its way to serve, and no older one
\* holds the port: see WindowsService (start, and the bind in service_main).
StartIsUnderWay == platform = "windows" => W!StartIsUnderWay

\* Killed commands leave no loaded job without its plist: see
\* LaunchdService (the order of stop_and_unload and remove_file).
NoOrphan == platform = "macos" => M!NoOrphan

\* What a lone command reports as done is done: see LaunchdService
\* (KeepAlive against stop_and_unload).
SuccessIsTrue == platform = "macos" => M!SuccessIsTrue

\* A lone install succeeds whatever was left behind: see LaunchdService
\* (bootout before bootstrap).
InstallRecovers == platform = "macos" => M!InstallRecovers

\* Every command ends, on both platforms (the deadlines of 30 s).
CommandsEnd ==
    /\ platform = "windows" => W!CommandsEnd
    /\ platform = "macos" => M!CommandsEnd
=================================================================================
