----------------------------- MODULE RouterSession -----------------------------
(***************************************************************************)
(* connect_and_run and run_interactive_command of                          *)
(* src/src/providers/yamaha.rs: one SSH session with the router's          *)
(* interactive shell, between the blocking thread of WakeBridge and the    *)
(* router.  Both sides move on their own: what the router prints arrives   *)
(* when it likes, and the thread's two deadlines (500 ms to drain the      *)
(* greeting, COMMAND_TIMEOUT for the answer) may pass at any moment.  The  *)
(* site and the device it is for are rows that some accepted form stored   *)
(* (Validation); the thread checks them again first.                       *)
(*                                                                         *)
(* Output is a sequence of lines: "banner", "prompt" (a line that ends     *)
(* with > or #), "echo" (the prompt's line once the command follows it),   *)
(* "answer", and "error" (a line with one of the four error texts).        *)
(***************************************************************************)
EXTENDS Sequences, SequencesExt, Validation

CONSTANTS Keys, None,
    Submitted   \* the forms the administrator fills in

ASSUME RouterSessionAssumption == None \notin Keys /\ Submitted \subseteq Forms

VARIABLES
    pc,         \* what the thread does next
    site,       \* the stored values of the site and, for a wake, the device
    expected, require, presented, password, result,   \* as in WakeCall
    output,     \* output: everything read since the shell was opened
    line,       \* of the command: "none", "typed" or "sent" (with its \r)
    wire,       \* lines the router printed that were not read yet
    closed,     \* the router closed the channel
    router      \* how far the router's shell is

call == <<site, expected, require, presented>>
thread == <<pc, password, result, output, line>>
peer == <<wire, closed, router>>
vars == <<call, thread, peer>>

ShellStates == {"silent", "open", "greeting", "ready", "echoed", "answered", "finished"}

Lines == {"banner", "prompt", "echo", "answer", "error"}

\* In the order of the code.
Stages == {"check_site", "connect", "check_key", "auth", "open_shell", "drain",
           "write_command", "write_cr", "flush", "await", "judge", "done"}

TypeOK ==
    /\ pc \in Stages
    /\ site \in Forms
    /\ expected \in Keys \cup {None} /\ require \in BOOLEAN /\ presented \in Keys
    /\ password \in BOOLEAN
    /\ result \in {"none", "ok", "failed"}
    /\ result = "none" <=> pc # "done"
    /\ output \in Seq(Lines) /\ wire \in Seq(Lines)
    /\ line \in {"none", "typed", "sent"}
    /\ closed \in BOOLEAN
    /\ router \in ShellStates

Init ==
    /\ pc = "check_site"
    /\ \E f \in Submitted : FormAccepts(f) /\ site = Stored(f)
    /\ expected \in Keys \cup {None} /\ require \in BOOLEAN /\ presented \in Keys
    /\ password = FALSE /\ result = "none"
    /\ output = <<>> /\ line = "none"
    /\ wire = <<>> /\ closed = FALSE /\ router = "silent"

-------------------------------------------------------------------------------
(* The thread.  Every stage may fail: an error, or SSH_TIMEOUT.            *)

Goes(next) == pc' = next /\ UNCHANGED result
Returns(r) == pc' = "done" /\ result' = r

\* The ? of a socket, session or channel call before the answer loop.
Fails ==
    /\ pc \notin {"check_site", "await", "judge", "done"}
    /\ Returns("failed")
    /\ UNCHANGED <<call, password, output, line, peer>>

\* wake: the context of a missing fingerprint comes before any connection, and
\* so does the command line; both calls then check the host and the user.
CheckSite ==
    /\ pc = "check_site"
    /\ IF /\ require => expected # None /\ BuildsWol(site)
          /\ ProviderHost(site.host) /\ ProviderUser(site.user)
       THEN Goes("connect") ELSE Returns("failed")
    /\ UNCHANGED <<call, password, output, line, peer>>

Connect ==
    /\ pc = "connect"
    /\ Goes("check_key")
    /\ UNCHANGED <<call, password, output, line, peer>>

KeyAcceptedOnceTrusted == expected # None \/ ~require
KeyAccepted == IF expected = None THEN ~require ELSE expected = presented

CheckKey ==
    /\ pc = "check_key"
    /\ IF KeyAccepted THEN Goes("auth") ELSE Returns("failed")
    /\ UNCHANGED <<call, password, output, line, peer>>

\* The password goes out; a rejection shows as a failure of the next stage.
Auth ==
    /\ pc = "auth"
    /\ password' = TRUE
    /\ Goes("open_shell")
    /\ UNCHANGED <<call, output, line, peer>>

OpenShell ==
    /\ pc = "open_shell"
    /\ require => IsSafeCommand(WolCommand(site))
    /\ router' = "open"
    /\ Goes("drain")
    /\ UNCHANGED <<call, password, output, line, wire, closed>>

\* read_available: everything that has arrived, in one go.  (Its loop has no
\* deadline of its own: a router that never stops printing is not modelled.)
ReadAvailable == output' = output \o wire /\ wire' = <<>>

\* The drain loop; an end of file is not looked at here.
Drain ==
    /\ pc = "drain"
    /\ ReadAvailable
    /\ UNCHANGED <<call, pc, password, result, line, closed, router>>

DrainEnds ==
    /\ pc = "drain"
    /\ Goes("write_command")
    /\ UNCHANGED <<call, password, output, line, peer>>

WriteCommand ==
    /\ pc = "write_command"
    /\ line' = "typed"
    /\ Goes("write_cr")
    /\ UNCHANGED <<call, password, output, peer>>

WriteCr ==
    /\ pc = "write_cr"
    /\ line' = "sent"
    /\ Goes("flush")
    /\ UNCHANGED <<call, password, output, peer>>

Flush ==
    /\ pc = "flush"
    /\ Goes("await")
    /\ UNCHANGED <<call, password, output, line, peer>>

HasPrompt(out) == out # <<>> /\ Last(out) = "prompt"

\* The answer loop: read, look for a prompt or an end of file, and only then
\* at the deadline.
AwaitPrompt ==
    /\ pc = "await"
    /\ ReadAvailable
    /\ IF HasPrompt(output') \/ closed THEN Goes("judge") ELSE Goes("await")
    /\ UNCHANGED <<call, password, line, closed, router>>

DeadlineUnlessSilent ==
    /\ pc = "await"
    /\ wire # <<>> /\ ReadAvailable
    /\ ~HasPrompt(output') /\ ~closed
    /\ Returns("failed")
    /\ UNCHANGED <<call, password, line, closed, router>>

AwaitTimesOut ==
    /\ pc = "await"
    /\ ReadAvailable
    /\ ~HasPrompt(output') /\ ~closed
    /\ Returns("failed")
    /\ UNCHANGED <<call, password, line, closed, router>>

ReadFailsAsEnd ==
    /\ pc = "await"
    /\ Goes("done")
    /\ UNCHANGED <<call, password, output, line, peer>>

ReadFails ==
    /\ pc = "await"
    /\ Returns("failed")
    /\ UNCHANGED <<call, password, output, line, peer>>

\* What was read while draining is judged together with the answer.
Judge ==
    /\ pc = "judge"
    /\ Returns(IF Contains(output, "error") THEN "failed" ELSE "ok")
    /\ UNCHANGED <<call, password, output, line, peer>>

-------------------------------------------------------------------------------
(* The router: a shell that prints a prompt, echoes a command line, and    *)
(* carries the command out or rejects it.                                  *)

Moves(from, text, to) ==
    /\ router = from /\ ~closed
    /\ wire' = Append(wire, text)
    /\ router' = to
    /\ UNCHANGED <<call, thread, closed>>

Greets ==
    \/ Moves("open", "banner", "greeting")
    \/ Moves("open", "prompt", "ready")
    \/ Moves("greeting", "prompt", "ready")

Echoes == line = "sent" /\ Moves("ready", "echo", "echoed")

Answers ==
    \/ Moves("echoed", "answer", "answered")
    \/ Moves("echoed", "error", "answered")

PromptsAgain == Moves("answered", "prompt", "finished")

HangsUp ==
    /\ router # "silent" /\ ~closed
    /\ closed' = TRUE
    /\ UNCHANGED <<call, thread, wire, router>>

-------------------------------------------------------------------------------

Stage ==
    \/ Fails \/ CheckSite \/ Connect \/ CheckKey \/ Auth \/ OpenShell \/ DrainEnds
    \/ WriteCommand \/ WriteCr \/ Flush \/ Judge

Thread == Stage \/ Drain \/ AwaitPrompt \/ AwaitTimesOut \/ ReadFails

Router == Greets \/ Echoes \/ Answers \/ PromptsAgain \/ HangsUp

Next == Thread \/ Router

Spec == Init /\ [][Next]_vars

\* Every stage of the thread has a deadline, whatever the router does:
\* SSH_TIMEOUT on blocking calls, the drain's 500 ms, COMMAND_TIMEOUT.
FairSpec ==
    /\ Spec
    /\ WF_vars(Stage)
    /\ WF_vars(AwaitTimesOut \/ (AwaitPrompt /\ pc' = "judge"))

-------------------------------------------------------------------------------
(* Properties.                                                             *)

Call == INSTANCE WakeCall WITH commanded <- line = "sent"

\* The session keeps what the handlers rely on: no password and no command for
\* a host with an unacceptable key, one command line, "ok" only after it.
ImplementsWakeCall == Call!Spec

\* The thread of spawn_blocking comes to an end, whatever a router that pauses
\* says or leaves unsaid.
CallReturns == <>(pc = "done")

\* What the forms accepted, the provider accepts: a site and a device that were
\* stored never fail before the network is reached, but for a key that is not
\* trusted yet.  (The checks exist twice, with a trim on one side only.)
AcceptedIsUsable ==
    [][pc = "check_site" /\ pc' = "done" => require /\ expected = None]_vars

\* "WOL sent" says that the router processed the command (OPERATIONS.ja.md),
\* at least when the router keeps the channel open.
SuccessMeansProcessed ==
    result = "ok" /\ require /\ ~closed => Contains(output \o wire, "answer")
================================================================================
