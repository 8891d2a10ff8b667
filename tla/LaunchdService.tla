----------------------------- MODULE LaunchdService -----------------------------
(***************************************************************************)
(* WakeBridge as a launchd daemon: the commands install, uninstall, start  *)
(* and stop of src/src/service.rs, given by several operators, and the     *)
(* process that runs run_service.                                          *)
(*                                                                         *)
(* launchd is external.  bootstrap loads the job that the plist describes  *)
(* and RunAtLoad starts it; KeepAlive starts it again whenever it ends;    *)
(* bootout, which needs the plist too, ends and unloads it.  "print" tells *)
(* whether the job is loaded, not whether its process runs.                *)
(***************************************************************************)
EXTENDS Integers

CONSTANTS
    Operators,    \* who gives commands: shells, the package's scripts
    MaxCommands,  \* bound: commands given
    MaxFaults     \* bound: failing calls, interrupted commands

Commands == {"install", "uninstall", "start", "stop"}

\* A command rests before it is given and after its result.
Resting == {"idle", "ok", "error"}

Stopping == {"check", "kill", "await_unloaded", "bootout"}

StepsOf(cmd) ==
    Resting \cup
    CASE cmd = "install" -> {"write_plist", "clear", "bootstrap"}
      [] cmd = "uninstall" -> Stopping \cup {"remove_plist"}
      [] cmd = "start" -> {"check", "bootstrap", "kickstart", "await_loaded"}
      [] cmd = "stop" -> Stopping

\* alone is auxiliary: since the command began, no other was under way and
\* nothing failed.
Commanding == [cmd : Commands, pc : UNION {StepsOf(cmd) : cmd \in Commands},
               alone : BOOLEAN]

VARIABLES
    plist,     \* the file in /Library/LaunchDaemons exists
    loaded,    \* launchd has the job
    job,       \* its process: "none", "main" or "serving"
    op,        \* the command of each operator and its next step
    rivals,    \* auxiliary: two commands have overlapped
    commands,  \* auxiliary: commands given so far
    faults     \* auxiliary: faults so far

launchd == <<loaded, job>>
vars == <<plist, launchd, op, rivals, commands, faults>>

TypeOK ==
    /\ plist \in BOOLEAN
    /\ loaded \in BOOLEAN
    /\ job \in {"none", "main", "serving"}
    /\ job # "none" => loaded
    /\ op \in [Operators -> Commanding]
    /\ \A o \in Operators : op[o].pc \in StepsOf(op[o].cmd)
    /\ rivals \in BOOLEAN
    /\ commands \in 0 .. MaxCommands
    /\ faults \in 0 .. MaxFaults

InitService ==
    /\ plist = FALSE
    /\ loaded = FALSE
    /\ job = "none"

InitCommands ==
    /\ op = [o \in Operators |-> [cmd |-> "install", pc |-> "idle", alone |-> FALSE]]
    /\ rivals = FALSE
    /\ commands = 0
    /\ faults = 0

Init == InitService /\ InitCommands

(***************************************************************************)
(* The process and launchd.                                                *)
(***************************************************************************)

\* RunAtLoad and KeepAlive.
Spawn ==
    /\ loaded /\ job = "none"
    /\ job' = "main"
    /\ UNCHANGED <<plist, loaded, op, rivals, commands, faults>>

\* main is an async function under #[tokio::main]: run_service is called
\* with that runtime entered.
InsideRuntime == TRUE

\* run_service builds a second runtime and calls its block_on, which panics
\* on a thread that has entered a runtime; panic = "abort" ends the process.
RunService ==
    /\ job = "main"
    /\ job' = IF InsideRuntime THEN "none" ELSE "serving"
    /\ UNCHANGED <<plist, loaded, op, rivals, commands, faults>>

\* SIGTERM and SIGKILL end the process, by themselves or after a drain.
Ended == job' = "none"

Unloaded == loaded' = FALSE /\ Ended

(***************************************************************************)
(* The commands.                                                           *)
(***************************************************************************)
At(o, pc) == op[o].pc = pc

Goto(o, pc) == op' = [op EXCEPT ![o].pc = pc]

Begin(o) ==
    /\ op[o].pc \in Resting
    /\ commands < MaxCommands
    /\ commands' = commands + 1
    /\ LET busy == \E p \in Operators : op[p].pc \notin Resting
           first(cmd) == IF cmd = "install" THEN "write_plist" ELSE "check"
       IN  /\ rivals' = (rivals \/ busy)
           /\ \E cmd \in Commands :
                op' = [p \in Operators |->
                         IF p = o
                           THEN [cmd |-> cmd, pc |-> first(cmd), alone |-> ~busy]
                           ELSE [op[p] EXCEPT !.alone = FALSE]]
    /\ UNCHANGED <<plist, launchd, faults>>

\* install, after the copy and the change of owner.
WritePlist(o) ==
    /\ At(o, "write_plist")
    /\ plist' = TRUE
    /\ Goto(o, "clear")
    /\ UNCHANGED <<launchd, rivals, commands, faults>>

\* MUTATION of ClearOld: install does not unload an older job first.
ClearNothing(o) ==
    /\ At(o, "clear")
    /\ Goto(o, "bootstrap")
    /\ UNCHANGED <<plist, launchd, rivals, commands, faults>>

\* The result of this bootout is ignored.
ClearOld(o) ==
    /\ At(o, "clear")
    /\ Goto(o, "bootstrap")
    /\ IF plist /\ loaded THEN Unloaded ELSE UNCHANGED launchd
    /\ UNCHANGED <<plist, rivals, commands, faults>>

Bootstrap(o) ==
    /\ At(o, "bootstrap")
    /\ IF plist /\ ~loaded
         THEN /\ loaded' = TRUE
              /\ Goto(o, IF op[o].cmd = "install" THEN "ok" ELSE "kickstart")
         ELSE Goto(o, "error") /\ UNCHANGED loaded
    /\ UNCHANGED <<plist, job, rivals, commands, faults>>

\* start and stop require the plist; stop and uninstall have nothing to
\* unload when the job is not loaded.
CheckStart(o) ==
    /\ At(o, "check") /\ op[o].cmd = "start"
    /\ Goto(o, CASE ~plist -> "error"
                 [] plist /\ ~loaded -> "bootstrap"
                 [] plist /\ loaded -> "kickstart")
    /\ UNCHANGED <<plist, launchd, rivals, commands, faults>>

AfterUnload(o) == IF op[o].cmd = "uninstall" THEN "remove_plist" ELSE "ok"

CheckStop(o) ==
    /\ At(o, "check") /\ op[o].cmd \in {"stop", "uninstall"}
    /\ Goto(o, CASE op[o].cmd = "stop" /\ ~plist -> "error"
                 [] (op[o].cmd = "stop" => plist) /\ loaded -> "kill"
                 [] OTHER -> AfterUnload(o))
    /\ UNCHANGED <<plist, launchd, rivals, commands, faults>>

\* kickstart -k ends a running process and starts another.
Kickstart(o) ==
    /\ At(o, "kickstart")
    /\ IF loaded
         THEN Goto(o, "await_loaded") /\ job' = "main"
         ELSE Goto(o, "error") /\ UNCHANGED job
    /\ UNCHANGED <<plist, loaded, rivals, commands, faults>>

\* wait_running(true), which looks at "print".
AwaitLoaded(o) ==
    /\ At(o, "await_loaded")
    /\ Goto(o, IF loaded THEN "ok" ELSE "error")
    /\ UNCHANGED <<plist, launchd, rivals, commands, faults>>

\* MUTATION of Kill: the plist is removed before the job is unloaded.
KillAndRemove(o) ==
    /\ At(o, "kill")
    /\ Ended
    /\ plist' = (plist /\ op[o].cmd = "stop")
    /\ Goto(o, "await_unloaded")
    /\ UNCHANGED <<loaded, rivals, commands, faults>>

\* MUTATION of Kill: the job is taken for unloaded once its process ends.
KillOnly(o) ==
    /\ At(o, "kill")
    /\ Ended
    /\ Goto(o, AfterUnload(o))
    /\ UNCHANGED <<plist, loaded, rivals, commands, faults>>

\* launchctl kill SIGTERM; its result is ignored.
Kill(o) ==
    /\ At(o, "kill")
    /\ Ended
    /\ Goto(o, "await_unloaded")
    /\ UNCHANGED <<plist, loaded, rivals, commands, faults>>

\* MUTATION of AwaitUnloaded: it waits for a process that KeepAlive revives.
AwaitForEver(o) ==
    /\ At(o, "await_unloaded")
    /\ ~loaded
    /\ Goto(o, "bootout")
    /\ UNCHANGED <<plist, launchd, rivals, commands, faults>>

\* wait_running(false) ends when the job is unloaded, which only another
\* command does, or at its deadline; its result is ignored.
AwaitUnloaded(o) ==
    /\ At(o, "await_unloaded")
    /\ Goto(o, "bootout")
    /\ UNCHANGED <<plist, launchd, rivals, commands, faults>>

Bootout(o) ==
    /\ At(o, "bootout")
    /\ IF plist
         THEN IF loaded
                THEN Goto(o, AfterUnload(o)) /\ Unloaded
                ELSE Goto(o, "error") /\ UNCHANGED launchd
         ELSE Goto(o, AfterUnload(o)) /\ UNCHANGED launchd
    /\ UNCHANGED <<plist, rivals, commands, faults>>

RemovePlist(o) ==
    /\ At(o, "remove_plist")
    /\ plist' = FALSE
    /\ Goto(o, "ok")
    /\ UNCHANGED <<launchd, rivals, commands, faults>>

\* A call returns an error, or the command is interrupted.
CommandFails(o) ==
    /\ faults < MaxFaults
    /\ op[o].pc \notin Resting
    /\ op' = [op EXCEPT ![o].pc = "error", ![o].alone = FALSE]
    /\ faults' = faults + 1
    /\ UNCHANGED <<plist, launchd, rivals, commands>>

CommandStep(o) ==
    \/ WritePlist(o) \/ ClearOld(o) \/ Bootstrap(o)
    \/ CheckStart(o) \/ CheckStop(o) \/ Kickstart(o) \/ AwaitLoaded(o)
    \/ Kill(o) \/ AwaitUnloaded(o) \/ Bootout(o) \/ RemovePlist(o)

Next ==
    \/ Spawn \/ RunService
    \/ \E o \in Operators : Begin(o) \/ CommandStep(o) \/ CommandFails(o)

\* launchd, the process and the commands run on their own; nothing obliges
\* an operator to give a command, or a call to fail.
Fairness ==
    /\ WF_vars(Spawn) /\ WF_vars(RunService)
    /\ \A o \in Operators : WF_vars(CommandStep(o))

Spec == Init /\ [][Next]_vars
FairSpec == Spec /\ Fairness

(***************************************************************************)
(* Properties.                                                             *)
(***************************************************************************)

\* One command at a time, killed or failing anywhere, never leaves a job
\* loaded without its plist, which no later command but install unloads.
NoOrphan == rivals \/ (loaded => plist)

\* What a command reports as done is done, if it was alone: uninstall and
\* stop have unloaded the job in spite of KeepAlive, install and start have
\* loaded it.
SuccessIsTrue ==
    \A o \in Operators :
      (op[o].alone /\ ~rivals /\ At(o, "ok")) =>
        /\ loaded = (op[o].cmd \in {"install", "start"})
        /\ plist = (op[o].cmd # "uninstall")

\* A lone install succeeds whatever earlier commands have left behind:
\* overlapping, killed or half done (service.rs ignores the bootout of a
\* job that may not exist).
InstallRecovers ==
    \A o \in Operators :
      op[o].alone /\ op[o].cmd = "install" => ~At(o, "error")

\* Every command comes to an end, although KeepAlive keeps alive what stop
\* waits to see ended.
CommandsEnd == \A o \in Operators : op[o].pc \notin Resting ~> op[o].pc \in Resting

\* What a reader of README.en.md expects of start: the service then serves,
\* unless the job is unloaded again or something failed.
StartedJobServes ==
    \A o \in Operators :
      (At(o, "ok") /\ op[o].cmd = "start") ~> job = "serving" \/ ~loaded \/ faults > 0
=================================================================================
