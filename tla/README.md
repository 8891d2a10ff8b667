# WakeBridge in TLA+

WakeBridge is a Rust service (Tokio, Axum, SQLite) that wakes machines at
several sites: administrators register Yamaha RTX routers (sites) and machines
(devices), and a wake is one `wol send` command typed into the router's SSH
shell. This directory holds TLA+ models of that program, the TLC
configurations that check them on small instances, and proofs, checked by
TLAPS, of what matters most for every value of the constants.

Contents: [inventory](#inventory), [modules](#modules-and-how-they-correspond-to-the-code),
[runs](#runs), [bounds](#bounds), [fairness](#fairness), [proofs](#proofs),
[divergences found](#where-code-and-documents-differ),
[not modelled](#what-is-not-modelled-and-why), [plan](#plan), [usage](#usage).

## Inventory

| component | code | state | operations | interacts with |
| --- | --- | --- | --- | --- |
| Sites and host-key trust | `web.rs` 528-818, `db.rs` | tables `sites`, `secrets`, `audit_events`; `AuthState.pending_fingerprints` | create, update, delete, test, trust | sessions, provider, master key |
| Devices and waking | `web.rs` 831-1072, 1346-1438 | tables `devices`, `wake_events`, `audit_events` | create, update, delete, wake (page), wake (API) | sites (read), provider (a detached job) |
| Yamaha RTX provider | `providers/yamaha.rs` | a TCP and SSH session, the text read so far | `connect_and_run`, `run_interactive_command` | the router |
| Sessions | `auth.rs` 111-161 | `AuthState.sessions` | create, look up (and expire), remove | every handler |
| Login throttling | `auth.rs` 75-109 | `AuthState.login_attempts` | allowed?, record a failure, clear | `login_submit` |
| Users and passwords | `web.rs` 320-465, 1088-1188, `main.rs` 123-177 | table `users` | log in, change, create, reset; the same from a second process (CLI) | sessions, audit log |
| Master key | `secrets.rs` 23-84 | the key file, its legacy name | load or create, encrypt, decrypt | every process that starts |
| Settings | `web.rs` 1240-1296, `app.rs` 65-73 | table `settings` | save, set defaults | cookies, page titles |
| Database access | `db.rs` 156-187 | one connection behind a lock | one statement at a time | everything |
| Windows service | `service.rs` 9-308 | the SCM's entry and status, the stop channel | install, start, stop, uninstall; run | the SCM, the process, operators |
| macOS service | `service.rs` 343-536, `main.rs` 92-121 | the plist, launchd's job | install, start, stop, uninstall; run | launchd, the process, operators |
| Validation | `web.rs` 1735-1864, `yamaha.rs` 222-338 | none | normalise and reject input | forms, stored rows, command text |
| Pages, static files, CLI parsing, installers | `web.rs`, `templates/`, `main.rs`, `installer/` | none of their own | | |

What is hard here. Every handler is an async function without a transaction:
each `await` (of a statement, a lock, the provider) lets other handlers run, and
is a place where the handler may be dropped, by the 30 s `TimeoutLayer`
(`web.rs` 292) or a closed connection, or the process may stop. What a handler read is
stale when it is used. Many results are ignored (`let _ = ...`). The provider
runs on a blocking thread that survives its handler. The router prints when it
likes. The key file is shared by processes. A service manager and an operator's
commands act on one service at the same time. Times and limits are counted in one
place for everyone. `PROJECT.json` lists each such hazard at its line, with the
properties aimed at it.

What makes each component correct:

* *Sites*: a credential belongs to a site; a site that is created halfway is
  completed or removed; a host key is trusted only by an administrator who saw
  it in a test of that site, once; the audit log is neither false nor incomplete.
* *Waking*: commands go only to devices that exist and are enabled, at sites
  that exist, are enabled, trusted and have a credential; the history is
  true, and complete when nothing is lost.
* *Provider*: nothing secret leaves before the key is accepted; one command
  line at most; success only after it; the call always returns.
* *Throttling*: a bound on failures in spite of races; no forgetting.
* *Users*: one story in the audit log; sessions agree with users.
* *Master key*: one key, never replaced, that reads every credential.
* *Services*: a stop is heeded whenever it comes; "stopped" means that nothing works
  any more; a command's success is true; nothing is left that no command can remove.
* *Validation*: what a form accepts, the provider accepts, and makes one safe command line.

## Modules and how they correspond to the code

| module | kind | of |
| --- | --- | --- |
| `TrustLedger` | abstract specification | what the host-key protocol promises |
| `SiteTrust` | detailed, implements `TrustLedger` | the site handlers, logout, sessions, pending fingerprints |
| `SiteTable` | abstract specification | what the site handlers do to the tables, as a wake can tell |
| `WakeCall` | abstract specification | what one provider call promises its caller |
| `ProviderJob` | abstract specification | what a wake handler can tell of such a call |
| `RouterSession` | detailed, implements `WakeCall` | `yamaha.rs` against a router |
| `Wake` | composition | device handlers, wake handlers and their jobs, statements of the site handlers |
| `LoginThrottle` | component | the limit on failed logins |
| `Accounts` | component | users, passwords, CLI commands |
| `MasterKey` | component | `SecretStore::load_or_create` by several processes |
| `Validation` | operators | the validators of forms and of the provider, the command line |
| `WindowsService` | component | `service_main` and the commands on Windows, with the SCM |
| `LaunchdService` | component | `run_service` and the commands on macOS, with launchd |
| `Service` | composition | one program built for either platform |
| `MC*` | for TLC | the symmetry sets or the sample inputs of the module they extend |
| `*Proofs` | for TLAPS | theorems about the module they extend |

Common conventions. `task[r]` is the request that slot `r` is serving: `pc` names
the statement it executes next, the other fields what it read and will still use. An
action is one atomic piece of the code: a SQL statement under the connection's
lock, a critical section of an `AuthState` lock, a file-system call, a stage of an
SSH session; together with all that the code does up to the next such piece.
`Fault` is an error returned by a statement, `Drop` a handler dropped at an
await, `Restart` the end of the process. Variables marked *auxiliary* exist only in the
model: they count for a bound or remember what a property speaks about. An
operator that is not used by the specification, next to one that is (`Peeked` next to
`Taken`), is a mutation: the plausible mistake that a property is tested against.

**`SiteTrust`.** `Accept*` is the common prefix of the handlers
(`session_or_redirect`, `can_manage`, `csrf_valid`). `InsertSite`, `StoreNew`, `UndoInsert` are
`site_create` with its compensation; `GetOld`, `UpdateSite`, `ClearFingerprint`,
`UpsertSecret` are `site_update`, where `row` is the stale `old`; `GetSite`,
`GetSecret`, `TestConnection`, `SetPending` are `site_test`; `TakePending`,
`StoreFingerprint` are `site_trust`; `RemoveSession`, `DropPending` are the two locks
of `logout`; `Audit` is the row at the end of four of them. A connection is the four
columns that `site_update` compares. `Expire` keeps the pending fingerprints, as
`get_session` does. `owed` is auxiliary: the last change that each request committed and for which
it has not written an audit row. Rows of the log are a set, and two of the same kind for one site look alike, so that
only `owed` tells a change that has its own row from one that an older row seems to cover.

**`TrustLedger`.** Sites are new, live or gone; a *grant* is one
administrator's view of one key of one site; `Trust` spends it. The refinement mapping in
`SiteTrust` derives the grants from the pending fingerprints and from what
requests carry between two awaits.

**`RouterSession`.** The thread's stages in the order of the code, each of which may
fail; the answer loop reads, looks for a prompt or an end of file, and only
then at the deadline. The router's shell is external and moves on its own. Lines stand for
text: a "prompt" is a line that ends with `>` or `#`, and is no longer the last one
once the command is echoed behind it. `site` holds the values some accepted form
stored, which `CheckSite` and `OpenShell` check again, as `connect_and_run` does.

**`Validation`.** A text is its length in bytes, the classes of characters in it, and
whether white space surrounds it; a MAC or an IP address is the kinds that
`normalize_mac` and `normalize_ip` tell apart. `FormAccepts` and `Stored` are the forms'
side, which trims every field, `ProviderHost`, `ProviderUser` and `BuildsWol` the provider's,
which trims the two addresses only; each has its own copy of the rules, as in the code. The name of the
provider and the port, which both sides check alike (`web.rs` 1736, `yamaha.rs` 87), are not fields.

**`WakeCall`, `ProviderJob`.** A call as the provider sees it, with the key and the password, and as
far as a handler can tell: a command line, once at most and for a trusted site only, and a
result. `JobCommands` and `JobReturns` of `Wake` are `ProviderJob`'s `Command` and `Return`, and
`RouterSession` implements both: the two modules meet in `ProviderJob`, by proof.

**`SiteTable`.** Which sites there are, and which have a trusted key or a credential, with one action
per statement that changes it. `SiteTrust` implements it. `Wake` takes each of its steps whenever
`SiteTable` does (`TableStepsAreAllowed`), and no other on these tables (`SitesFollowTable`): so
`SiteInserted`, `SiteChanged` and `SiteDeleted` stand for the handlers that `SiteTrust` models in full,
and the two modules meet in `SiteTable`, by proof.

**`Wake`.** `GetDevice`, `GetSite`, `GetSecret`/`MissSecret`, `JobAwaited`,
`InsertEvent`/`RefusedEvent`, `Audit` are the two wake handlers, which differ in
`DeviceAllows`, `SiteAllows` and `Refuse`. `CheckSite`, `InsertDevice`, `UpdateDevice`,
`DeleteDevice` are the device handlers. `SiteInserted`, `SiteChanged`,
`SiteDeleted` are what the site handlers' statements do to the columns a wake reads.

**`LoginThrottle`.** `LoginAllowed` and `RecordLoginFailure` are the two critical
sections, `Verify` and `CreateSession` what happens between them. Time is a count of
ticks. `recorded` is auxiliary: every failure since the last success, with its time and the
start of the window that counted it.

**`Accounts`.** `VerifyLogin`, `FindAgain` are the two lookups of a login,
`VerifyCurrent`, `UpdateOwn` a password change, `UpdateOther` a reset,
`InsertUser` a creation, `Command` one CLI command in its own process.
`version` numbers stored hashes. `users.enabled` is always 1: the code never
writes anything else.

**`MasterKey`.** One action per file-system call. A created and not yet written file
is `Torn`, like one with any other content that does not unprotect to 32 bytes.

**`WindowsService`.** `proc[i]` is how far the i-th process launched by `StartService` has
come in `service_main`; `stop[i]` is the message in its channel, `reported` the state the
SCM shows. `Open*`, `Copy`, `SendStop`, `Await*`, `Delete` are the calls of the four
commands, each by an operator of its own. The SCM is external: it keeps an entry that is
marked for deletion until the service is stopped and no command holds a handle
(`Remove`), accepts a stop only in state running, and notices a dead process.

**`LaunchdService`.** `plist` is the file, `loaded` and `job` what launchd has of it.
`Spawn` is `RunAtLoad` and `KeepAlive`; `RunService` is the call inside `main`'s runtime.
`Kill`, `AwaitUnloaded`, `Bootout` are `stop_and_unload`. `alone` and `rivals` are
auxiliary: they tell a lone command from overlapping ones.

**`Service`** instantiates both over one set of operators: `platform` says which of
them a build contains. Its properties are theirs.

## Runs

Passing runs:

| run | instance | shows |
| --- | --- | --- |
| `site_handlers` | 2 requests, fair, an administrator, 1 site, 2 connections, 1 key, 1 test, 1 fault, 1 drop or restart | `TypeOK`; `SecretsHaveSites`: no credential outlives its site; `SitesHaveSecrets`: one fault is compensated; `GrantsAreSingle`: no test result in two places; `RequestsEnd`; `HalfCreatedEnds`: a half-created site is completed or removed, unless its request was dropped |
| `site_again` | 2 requests, 2 sites, 2 connections, 2 keys, 2 tests and so two decisions, nothing fails | `AuditIsComplete`: every single creation, update, trust and deletion has been logged by the request that made it or is about to be, except an update whose site is deleted before its credential is stored; `AuditIsTruthful`: no audit row is contradicted later; `ImplementsLedger`: the handlers implement `TrustLedger` |
| `wake_handlers` | a wake, another request, fair, 2 edits, 1 fault, 1 drop or restart | `TypeOK`; `HistoryIsTrue`: events, audit rows and jobs agree; `EveryCallIsRecorded`: every returned job reaches the history, unless something failed; `WakeFollowsInventory`: a command sent before anything changed went to an enabled, trusted, credentialed target; `DevicesHaveSites`; `WakesAreRecorded`: every started wake reaches the history, unless something failed |
| `router_session` | 2 keys, a router that moves on its own, forms with one field around its limits | `TypeOK`; `ImplementsWakeCall`; `CallReturns`; `AcceptedIsUsable`: nothing a form stored is refused before the network is reached |
| `login_throttle` | 3 attempts, limit 2, window 2, 4 ticks | `TypeOK`; `FailuresBounded`: limit - 1 + concurrency; `TwoWindowsAtMost`: what fixed windows allow in one window's time; `FailuresAreKept`: only an elapsed window, a success or a restart forgets |
| `master_key` | 3 processes, 1 failing call | `TypeOK`, `OneKey`, `SecretsReadable`, `KeyIsKept` |
| `accounts` | 2 requests, 1 command, 1 fault, 1 drop | `TypeOK`; `SessionsMatchUsers`; `AuditIsTrue`; `PasswordsAudited`: every stored password is logged, unless something failed |
| `service` | 2 operators, 4 commands, 1 fault, either platform | `TypeOK`; Windows: `StoppedIsSilent`: Stopped means that no process works, and never two listen; `StopIsHeeded`: a stop is not lost, however early; `StartIsUnderWay`: after a successful start a process serves, or is on its way there and finds the port free; `StartedServes`: it gets there; macOS: `NoOrphan`: no job is loaded without its plist; `SuccessIsTrue`: what a lone command reports is so; `InstallRecovers`: a lone install succeeds whatever was left behind; both: `CommandsEnd` |

The runs named `site_retrust`, `wake_dropped`, `router_answer` and `launchd_serves` each
end in a counterexample; see [below](#where-code-and-documents-differ).

Deadlock checking is off in all runs: a model stops when its bounds are used up, and the
program may rest when nobody asks for anything.

## Bounds

* `Requests` (2 slots): each hazard listed is a race of two handlers, or of a
  handler and a fault, a drop or an expiry. A third slot adds no new kind of
  interference, since a step only depends on its own task and the shared tables. The theorems
  hold for any number.
* `MaxSites`, `MaxDevices` 1: one row shows all races on a row. `site_again` has two sites, so that
  a site may be inserted while a request still holds the id of one that is gone, and `MaxTests` 2, so that
  a trusted site is tested and trusted again, with the same key or another. It has no faults and drops, which `AuditIsComplete`
  excludes; `site_handlers` has them. That `AuditIsTruthful`, `ImplementsLedger` hold with them, and
  what the viewer's role may do, is `LedgerImplemented`, `GrantsSpentOnce` and the theorems of `SiteAuditProofs`, proved
  for any number of sites, tests, sessions, faults and drops.
  `MaxVersions` 3: an initial password and two changes.
* `MaxFaults`, `MaxDrops` at most 1: the code's compensation is for one failure; what
  two do is outside what it claims (and `SitesHaveSecrets` says so in its guard).
* `MaxWakes` 1, `MaxEdits` 2: two changes of the inventory around one wake: the site that a `device_create` has checked is
  deleted, or a target is disabled and enabled again. Two wakes share nothing but the tables they add rows to
  (`Touches` of `WakeProofs`); the theorems hold for any number.
* `MaxClock` 4 with a window of 2: the end of one window, a whole one, the start of a third.
* `MaxCommands` 4, two operators: install, start, stop and a command that meets the stop halfway; or
  install, stop, and two that overlap. A command starts one process at most, so there are up to
  two processes at once, an old one that drains and a new one.
* `Submitted`: an ordinary form and all that differ from it in one field, at lengths 0, 1, the most
  and one more, with and without padding, with each class of characters. `StoredSitesAreUsable` is
  proved for all forms.
* `Keys` in `MasterKey`: one per process, and one in the legacy file.

Sets of interchangeable values are symmetric (`MC*`), except in runs of temporal
properties other than refinement and step properties.

## Fairness

* `SiteTrust`, `Wake`: weak fairness of each request's steps (`WF_vars(Step(r))`). Tokio
  polls every future that is ready, its mutexes are first come first served, and
  every statement ends. Nothing obliges a client to send a request, a session to expire,
  or a statement to fail.
* `Wake`: weak fairness of `JobReturns`, which `CallReturns` of `RouterSession` justifies.
* `RouterSession`: weak fairness of the thread's stages, since each has a deadline
  (`SSH_TIMEOUT` on the blocking calls, 500 ms for draining; the resolution of the router's name,
  `yamaha.rs` 94, has the limit of the system's resolver), and of the end of
  the answer loop (`COMMAND_TIMEOUT`). None of the router: it may be silent for ever.
  One loop has no deadline: `read_available` reads until the socket would block. The
  model reads what has arrived in one step, so `CallReturns` is about routers that pause.

* `Service`: weak fairness of each process's steps in `service_main`, of each command's
  steps, of the SCM's removal of a marked entry and of launchd's `Spawn`. A process that drains
  is assumed to finish (clients close their connections, and every request has its
  `TimeoutLayer`); a command's waits have deadlines of 30 s, which the model lets pass at any
  query. Nothing obliges an operator to give a command.

## Proofs

| theorem | of | along |
| --- | --- | --- |
| `SiteTrustProofs!TypeCorrect` | `TypeOK` | `TypeOK` is inductive: a task's shape follows its `pc` |
| `SiteTrustProofs!CredentialsHaveSites` | `SecretsHaveSites` | inductive with `TypeOK`, by the foreign key and the cascade |
| `SiteTrustProofs!GrantsSpentOnce` | `GrantsAreSingle` | each step gives, moves or drops one grant; a new one has a new number |
| `SiteTrustProofs!LedgerImplemented` | `ImplementsLedger` | each action maps to one of `TrustLedger` or to a stutter |
| `SiteAuditProofs!AuditStaysTruthful` | `AuditIsTruthful` | inductive with what requests are about to log (`AuditFacts`) |
| `SiteAuditProofs!SitesKeepSecrets`, `AuditStaysComplete` | `SitesHaveSecrets`, `AuditIsComplete` | one invariant (`CreationFacts`) and, for each change by itself, `RowIsComing`, see below |
| `SiteAuditProofs!MismatchesAreEdits` | `MismatchIsEdit`: a key of another connection has an edit as its cause | what rows, pending tests and requests know of a connection is current unless it was edited |
| `RouterSessionProofs!TypeCorrect` | `TypeOK` | inductive |
| `RouterSessionProofs!SessionImplementsCall` | `ImplementsWakeCall` | by stages |
| `RouterSessionProofs!CallIsProviderJob` | a wake's session implements `ProviderJob` | from `SessionImplementsCall`; the trusted key is the accepted one |
| `RouterSessionProofs!StoredSitesAreUsable` | `AcceptedIsUsable` | what an accepted form stores passes each check of the provider, and no step changes it |
| `RouterSessionProofs!ResubmittedFormIsKept` | a stored row sent back by its edit form is accepted and stays as it is | what is stored is in normal form |
| `LoginThrottleProofs!TypeCorrect` | `TypeOK` | inductive |
| `LoginThrottleProofs!FailuresStayBounded` | `FailuresBounded` | failures and attempts in flight change together |
| `LoginThrottleProofs!AtMostTwoWindows`, `WindowsStayApart` | `TwoWindowsAtMost` | windows do not overlap, see below |
| `LoginThrottleProofs!FailuresAreNotLost` | `FailuresAreKept` | action by action, from `TypeOK` |
| `MasterKeyProofs!TypeCorrect`, `OneKeyHeld`, `SecretsStayReadable`, `KeyStays` | `TypeOK`, `OneKey`, `SecretsReadable`, `KeyIsKept` | see below |
| `MasterKeyProofs!TornKeyHasCause`, `AbandonedStaysDown` | when the key file has no key in it, and that it then stays so | one writer (`OneWriter`); no call replaces a file that exists |
| `WakeProofs!TypeCorrect`, `DevicesKeepSites`, `HistoryStaysTrue`, `CallsStayRecorded`, `WakesFollowInventory` | `TypeOK`, `DevicesHaveSites`, `HistoryIsTrue`, `EveryCallIsRecorded`, `WakeFollowsInventory` | one invariant, see below |
| `WakeProofs!JobsAreProviderCalls`, `ProviderStepsAreAllowed` | `JobsFollow`: each job starts as a `ProviderJob` and takes its steps only; and it may take each of them | action by action |
| `SiteAuditProofs!TableKept`; `WakeProofs!SitesFollowTable`, `TableStepsAreAllowed` | `SiteTrust` and `Wake` implement `SiteTable`, and `Wake` allows each of its steps | statement by statement; ids are fresh (`FreshIds`), and a credential has its site (`SecretsHaveSites`) |
| `AccountsProofs!TypeCorrect`, `SessionsStayTrue`, `AuditStaysTrue`, `PasswordsStayAudited` | `TypeOK`, `SessionsMatchUsers`, `AuditIsTrue`, `PasswordsAudited` | one invariant, see below |
| `AccountsProofs!UsersOnlyGrow` | `Grows`: users and their roles stay, a stored password is replaced by a newer one only | action by action |
| `ServiceProofs!TypeCorrect`, `StoppedStaysSilent` | `TypeOK`, `StoppedIsSilent` | Windows: inductive with what is known of older processes |
| `ServiceProofs!StartLeadsOn` | `StartIsUnderWay` | what a start has seen and what was sent to a process (`StartInv`) |
| `ServiceProofs!NoJobIsOrphaned`, `ReportsAreTrue`, `InstallAlwaysRecovers` | `NoOrphan`, `SuccessIsTrue`, `InstallRecovers` | macOS: what an undisturbed command finds at each step |
| `RequestsAdvance` of `SiteAuditProofs`, `WakeProofs` and `AccountsProofs`; `RouterSessionProofs!ThreadNeverGoesBack`; `ServiceProofs!ServicesAdvance` | every step of a request, a thread, a process or a command brings its end nearer | a count of the steps left, see below |

Where the property is not inductive, and what strengthens it:

* `GrantsAreSingle` and the refinement need that no row, pending entry or carried observation
  belongs to an id that was not handed out yet (`FreshIds`): otherwise
  `InsertSite` could make a site appear under a used id, and `status` would not go
  from "new" to "live".
* `AuditIsTruthful` speaks of rows that are written; what the step before must
  have established for them is `AuditFacts`: ids in the log and in the hands of requests were handed out,
  a site whose deletion is logged or about to be is gone, one whose creation is logged
  or about to be has its credential. With `FreshIds` a new site has no history.
* `SitesHaveSecrets` and `AuditIsComplete` need that a new site is in the hands of one request
  (`OneCreator`) that has not logged it yet (`CreatedOnce`), that an undo has a failed statement or a
  vanished site as its cause (`UndoHasCause`), so that a failing undo is the second fault, and that a
  site that went while its creation was about to be logged was deleted (`GoneAccounted`).
* The part of `AuditIsComplete` about single changes needs, for each request that owes a row, where in its handler it
  is (`RowIsComing`): on its way to the statement that writes it (`OnItsWay`), or at the end of an update
  that a deletion overtook (`Overtaken`). Ids in `owed` were handed out, so a site that is gone stays gone.
* `ImplementsWakeCall` needs that a thread that has reached a stage has passed the
  earlier ones (`StagesReached`): that the key was accepted before `auth`, that the
  password was sent before `write_command`, that the line was sent before `await`.
* `FailuresBounded` is inductive once the entry's type is known; the argument counts
  the set of attempts in flight (`FiniteSetTheorems`).
* `TwoWindowsAtMost` speaks of any span of time, the code of fixed windows. `WindowsInv` says that two
  windows that recorded failures start a whole window's time apart, that a failure lies within
  its window, that none counted more than its limit, and that the entry counts what the last one
  recorded. A span of one window's length then meets two of them at most.
* `MismatchIsEdit` needs to follow a connection from the row that `site_test` reads, through the call,
  the pending entry and the decision, to the row again (`Known`); a new row has an id that nothing
  speaks of, by `FreshIds`.
* The `MasterKey` properties need that a process that is about to create found no legacy
  file and none appears later (`LegacyFirst`), that one process at
  most is writing and only into a `Torn` file (`OneWriter`), and that the key in the file was
  drawn (`PathDrawn`).
* The `Wake` properties are one induction. What a request knows of its call is so (`Honest`: no job
  and no row before `get_secret`, a job and no row in the history until `insert_event`, a job that
  is over after `wait`), no two requests serve one call (`Distinct`), rows speak of jobs that are
  over and so do not change any more (`LogsTrue`), and what was read is still so unless
  `edits` has moved since the request arrived (`Fresh`, `FreshJob`). Each step of a request touches
  its own call only (`Touches`).
* `AuditIsTrue` and `PasswordsAudited` speak of written rows; the induction is about those together
  with the rows to come (`Known`). A new row has a number above all others, and a creation finds no user
  and so no earlier row of that name. `SessionsMatchUsers` needs that a login has read its row (`RowRead`)
  and that users only grow (`Grows`).
* `StoppedIsSilent` needs that all processes but the newest have ended their work (`OldAreDone`)
  and that a state other than stopped belongs to a process that was started (`NewestExists`).
* `StartIsUnderWay` needs that a stop in a channel was sent by a command (`StartInv`), so that a process
  nobody asked to stop has not begun its shutdown; and again `OldAreDone`: the newest finds the port free.
* The three properties of launchd need that commands that overlap are known as rivals (`Alone`) and
  that an undisturbed command finds at each step what its earlier steps have left (`StepsFound`): after
  `clear` the plist is there and the job is not, and so on to its result.

The assumptions are the named `ASSUME`s of the modules: markers differ from data, bounds are
natural numbers, `Clients` is finite. TLC evaluates them in every run.

The halves of the liveness properties that are safety are proved: a request, the provider's thread, a
process and a command have a finite number of steps before them, which each of their own steps lowers and nothing
raises (`StepsLeft`, `StagesLeft`). So none can loop, retry or be sent back by another, for any
number of the others; whether the steps come is fairness, and that is left to TLC.

Model-checked only: liveness (`RequestsEnd`, `HalfCreatedEnds`, `WakesAreRecorded`,
`CallReturns`, `StopIsHeeded`, `StartedServes`, `CommandsEnd`), which the proof system does not reach
under fairness. Every other property of a passing run is proved, for every value of the constants.
`SitesHaveSecrets` and `HalfCreatedEnds` hold for at most
one failing statement and no dropped handler; `AuditIsComplete`, `EveryCallIsRecorded` and
`PasswordsAudited` for none: beyond that the code does not have these properties.

## Where code and documents differ

| run | property | the document says | the code does |
| --- | --- | --- | --- |
| `site_retrust` | `KeyMatchesConnection` | notice in `web.rs` 666: a change of the connection needs trust again | a test made before the change can be trusted after it |
| `router_answer` | `SuccessMeansProcessed` | `OPERATIONS.ja.md` 179: success shows that the router processed the command | the greeting's prompt ends the wait for the answer |
| `wake_dropped` | `SentIsRecorded` | `OPERATIONS.ja.md` 183: the history holds successes and failures | a dropped request's wake is sent and not recorded |
| `launchd_serves` | `StartedJobServes` | `README.en.md` 78: installation registers and starts the service | `run_service` calls `block_on` inside `main`'s runtime and panics; `KeepAlive` starts it again for ever, and `start` reports success |

The first three counterexamples are finite behaviours. That of `launchd_serves` is a cycle, under the
fairness of launchd, the process and the commands: the process never gets to serve.

Limits seen while modelling, which the models contain and no run is spent on:

* Two tests of a site without a trusted key and two decisions: the second key replaces the
  first (`db.rs` 430 stores unconditionally, `README.md` 10 speaks of rejected changes).
* The result of an audit statement is ignored (`web.rs` 584), as is that of
  `clear_site_fingerprint`: `AuditIsComplete` and `PasswordsAudited` are guarded accordingly.
* A process that ends between `insert_site` and `upsert_secret` leaves a site without a
  credential; the compensating `delete_site` may remove a site that was updated meanwhile.
* `site_updated` is audited for a site that a concurrent request has deleted after the credential was stored. If it is
  deleted before, the foreign key refuses the credential and the handler ends with an error
  (`web.rs` 655-664): the update was committed and has no audit row. `AuditIsComplete` excepts it.
* A device or site that is edited between the reads of a wake and its command (`web.rs` 1000-1027) is woken as it was
  read. `WakeFollowsInventory` is about wakes without such an edit.
* `clear_login_failures` after one client's success forgets the failures of all (`auth.rs` 107).
* The check and the store of a password change are two statements (`web.rs` 442): a reset in
  between is overwritten, although `OPERATIONS.ja.md` 151 asks for the current password.
* All clients share one login counter (`web.rs` 325), so the advice of the page, to try again in
  15 minutes, holds only if nobody else fails meanwhile.
* The CLI writes no audit row (`main.rs` 171).
* Sessions opened with an old password stay live after a reset, up to eight hours (`auth.rs` 13, `web.rs` 1171).
* A router that closes the channel without an answer makes the call succeed (`yamaha.rs` 166).
* On Windows `start` says "already running" while an accepted stop still drains; `install` cannot
  overwrite the executable of a process that runs; a `service_main` that returns early never
  reports Stopped, so its process stays until it is killed.
* On macOS `stop` waits its full 30 s, since `KeepAlive` keeps the job loaded after SIGTERM. An
  `uninstall` that overlaps an `install` may leave a loaded job without a plist, which `start` and `stop` then
  refuse as not registered; `InstallRecovers` says that another `install` mends it.
* The CLI stores a user name as it is typed (`main.rs` 133), while the login form trims it: an
  account created with surrounding blanks can never log in.
* The inner joins of `list_wake_events` (`db.rs` 668) hide the wakes of deleted devices.

## What is not modelled, and why

* Rendering, formatting, cookies, static files, command-line parsing: no state, no order.
* The bytes of passwords, keys and ciphertexts: a model value stands for each.
* Titles, descriptions, user names and passwords as texts, and the encoding of fingerprints: each is
  checked by one function and read by no other check.
* Settings (`settings_save`, `ensure_default_settings`): two rows that are written one after the other and
  read independently. What can go wrong, half a form saved or a default written over a value
  that another process saved at its first start, is visible in the two functions.
* The order in which launchd's own `bootout` ends a process, and the SCM's time limits for starting.
* Installers, IIS and the release workflow: scripts of external tools.
* Time, other than the throttle's window: a deadline may pass whenever the code would look at it.
* Tokio's blocking pool and its limit; a router that never stops printing.

## Plan

1. Done: `TrustLedger`, `SiteTrust`, `WakeCall`, `RouterSession`, `Validation`, `Wake`,
   `LoginThrottle`, `MasterKey`, `Accounts`, `WindowsService`, `LaunchdService`, `Service`; the
   proofs listed above.
2. Models still to come: the credential's value next to the connection, for the hazard at `app.rs` 50;
   `Settings`, if it gets a reader that needs both rows.
3. Proofs still to come: every safety and action property of the passing runs has its theorem. Left is
   one state machine of `SiteTrust` and `Wake` over a common `SiteTable`, whose behaviours `TableKept`
   and `TableStepsAreAllowed` relate one step at a time.

## Usage

Parse, check and prove from this directory:

    tlasany SiteTrust.tla
    tlc -workers 2 -config SiteTrust.cfg MCSiteTrust
    tlapm SiteTrustProofs.tla

`PROJECT.json` names the module and configuration of every run, the mutation each property is
tested against, and the lines of the code behind every definition.
