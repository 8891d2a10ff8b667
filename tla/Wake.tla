---------------------------------- MODULE Wake ----------------------------------
(***************************************************************************)
(* Waking a device, from the two handlers that do it (device_wake and      *)
(* api_device_wake of src/src/web.rs) to the rows of wake_events, while    *)
(* the device handlers and the statements of the site handlers change what *)
(* was read.  The provider runs in spawn_blocking: the TimeoutLayer or a   *)
(* closed connection drops the handler, never the job it has started.      *)
(*                                                                         *)
(* A job is one call of the provider, with the steps of WakeCall that a    *)
(* handler can tell apart: the command line goes out, the call returns.    *)
(***************************************************************************)
EXTENDS Integers

CONSTANTS
    Requests,    \* slots for HTTP requests served at the same time
    None,        \* no row, no value
    MaxSites,    \* bound: sites ever inserted
    MaxDevices,  \* bound: devices ever inserted
    MaxWakes,    \* bound: wake requests accepted
    MaxEdits,    \* bound: statements that change sites, secrets or devices
    MaxFaults,   \* bound: statements that fail
    MaxDrops     \* bound: dropped requests and restarts

SiteIds == 1 .. MaxSites
DeviceIds == 1 .. MaxDevices
Calls == 1 .. MaxWakes

\* A row of sites with its row of secrets.  trusted: a fingerprint is stored.
SiteRow == [enabled : BOOLEAN, trusted : BOOLEAN, secret : BOOLEAN]

DeviceRow == [site : SiteIds, enabled : BOOLEAN]

\* call is auxiliary in all three: the wake request a row belongs to.
Event == [call : Calls, device : DeviceIds, site : SiteIds,
          status : {"success", "failed"}]

Actions == {"device_created", "device_updated", "device_deleted",
            "device_wake", "device_wake_failed"}

AuditRow == [action : Actions, device : DeviceIds, call : Calls \cup {None}]

\* One call of WakeProvider::wake.  since is auxiliary: the number of edits
\* when its request arrived.
Job == [device : DeviceIds, site : SiteIds, trusted : BOOLEAN, since : Nat,
        commanded : BOOLEAN, result : {"none", "ok", "failed", "killed"}]

ASSUME WakeAssumption ==
    /\ {MaxSites, MaxDevices, MaxWakes, MaxEdits, MaxFaults, MaxDrops} \subseteq Nat
    /\ None \notin Int
    /\ None \notin Actions \cup SiteRow \cup DeviceRow \cup Job

Labels ==
    {"idle", "check_site_new", "insert_device", "check_site_old",
     "update_device", "delete_device", "get_device", "get_site", "get_secret",
     "wait", "refused_event", "insert_event", "audit"}

\* via: the page handler or the API handler.  on and trusted: device.enabled
\* and the presence of a fingerprint, as read.  action: the audit row to come.
Task == [pc : Labels, via : {"page", "api"}, device : DeviceIds \cup {None},
         site : SiteIds \cup {None}, on : BOOLEAN, trusted : BOOLEAN,
         call : Calls \cup {None}, since : Nat, action : Actions \cup {None}]

VARIABLES
    sites,       \* tables sites and secrets: a row per id, or None
    nextSite,    \* next id of sites
    devices,     \* table devices: a row per id, or None
    nextDevice,  \* next id of devices
    events,      \* table wake_events
    audit,       \* table audit_events, for devices
    task,        \* the request each slot is serving
    jobs,        \* the provider call of each wake request, or None
    wakes,       \* auxiliary: wake requests accepted so far
    edits,       \* auxiliary: changes of sites and devices so far
    faults,      \* auxiliary: statements that failed so far
    drops        \* auxiliary: requests and processes dropped so far

config == <<sites, nextSite, devices, nextDevice>>
logs == <<events, audit>>
budget == <<faults, drops>>
vars == <<config, logs, task, jobs, wakes, edits, budget>>

Idle == [pc |-> "idle", via |-> "page", device |-> None, site |-> None,
         on |-> FALSE, trusted |-> FALSE, call |-> None, since |-> 0,
         action |-> None]

\* Every table and job holds what its schema or type allows, and a handler that
\* waits or records has a call and, unless it was refused, a job.
TypeOK ==
    /\ sites \in [SiteIds -> SiteRow \cup {None}]
    /\ nextSite \in 1 .. MaxSites + 1
    /\ devices \in [DeviceIds -> DeviceRow \cup {None}]
    /\ nextDevice \in 1 .. MaxDevices + 1
    /\ events \subseteq Event /\ audit \subseteq AuditRow
    /\ task \in [Requests -> Task]
    /\ \A r \in Requests :
          /\ task[r].pc \in {"wait", "insert_event"} => jobs[task[r].call] # None
          /\ task[r].pc \in {"insert_event", "audit"} <=> task[r].action # None
    /\ jobs \in [Calls -> Job \cup {None}]
    /\ wakes \in 0 .. MaxWakes /\ edits \in 0 .. MaxEdits
    /\ faults \in 0 .. MaxFaults /\ drops \in 0 .. MaxDrops

\* Any inventory earlier requests can have left behind.
Init ==
    /\ nextSite \in 1 .. MaxSites + 1
    /\ sites \in [SiteIds -> SiteRow \cup {None}]
    /\ \A s \in SiteIds : s >= nextSite => sites[s] = None
    /\ nextDevice \in 1 .. MaxDevices + 1
    /\ devices \in [DeviceIds -> DeviceRow \cup {None}]
    /\ \A d \in DeviceIds :
          devices[d] # None => d < nextDevice /\ sites[devices[d].site] # None
    /\ events = {} /\ audit = {}
    /\ task = [r \in Requests |-> Idle]
    /\ jobs = [c \in Calls |-> None]
    /\ wakes = 0 /\ edits = 0 /\ faults = 0 /\ drops = 0

-------------------------------------------------------------------------------
(* Statements of the site handlers, which SiteTrust models in full.        *)

Edit == edits < MaxEdits /\ edits' = edits + 1

SiteInserted ==
    /\ nextSite <= MaxSites
    /\ sites' = [sites EXCEPT ![nextSite] =
                    [enabled |-> TRUE, trusted |-> FALSE, secret |-> FALSE]]
    /\ nextSite' = nextSite + 1
    /\ Edit
    /\ UNCHANGED <<devices, nextDevice, logs, task, jobs, wakes, budget>>

\* update_site, trust_site_fingerprint, clear_site_fingerprint, upsert_secret.
SiteChanged ==
    /\ \E s \in SiteIds, b \in BOOLEAN :
          /\ sites[s] # None
          /\ \/ sites' = [sites EXCEPT ![s].enabled = b]
             \/ sites' = [sites EXCEPT ![s].trusted = b]
             \/ sites' = [sites EXCEPT ![s].secret = TRUE]
    /\ Edit
    /\ UNCHANGED <<nextSite, devices, nextDevice, logs, task, jobs, wakes, budget>>

\* ON DELETE CASCADE of devices.site_id.
DevicesWithout(s) ==
    [d \in DeviceIds |-> IF devices[d] # None /\ devices[d].site = s
                         THEN None ELSE devices[d]]

SiteDeleted ==
    /\ \E s \in SiteIds :
          /\ sites[s] # None
          /\ sites' = [sites EXCEPT ![s] = None]
          /\ devices' = DevicesWithout(s)
    /\ Edit
    /\ UNCHANGED <<nextSite, nextDevice, logs, task, jobs, wakes, budget>>

-------------------------------------------------------------------------------
(* Requests.  Each passes session_or_redirect and csrf_valid first; any    *)
(* role may wake, the device handlers also pass can_manage.                *)

At(r, pc) == task[r].pc = pc
GoTo(r, pc) == task' = [task EXCEPT ![r].pc = pc]
Reply(r) == task' = [task EXCEPT ![r] = Idle]
GoAudit(r, d, action) ==
    task' = [task EXCEPT ![r] = [Idle EXCEPT !.pc = "audit", !.device = d,
                                   !.call = task[r].call, !.action = action]]

Arrive(r, request) ==
    /\ At(r, "idle")
    /\ task' = [task EXCEPT ![r] = request]
    /\ UNCHANGED <<config, logs, jobs, edits, budget>>

AcceptCreate(r) ==
    \E s \in SiteIds :
        /\ Arrive(r, [Idle EXCEPT !.pc = "check_site_new", !.site = s])
        /\ UNCHANGED wakes

AcceptUpdate(r) ==
    \E d \in DeviceIds, s \in SiteIds :
        /\ Arrive(r, [Idle EXCEPT !.pc = "check_site_old", !.device = d,
                                  !.site = s])
        /\ UNCHANGED wakes

AcceptDelete(r) ==
    \E d \in DeviceIds :
        /\ Arrive(r, [Idle EXCEPT !.pc = "delete_device", !.device = d])
        /\ UNCHANGED wakes

AcceptWake(r) ==
    \E d \in DeviceIds, via \in {"page", "api"} :
        /\ Arrive(r, [Idle EXCEPT !.pc = "get_device", !.via = via,
                                  !.device = d, !.call = wakes + 1,
                                  !.since = edits])
        /\ wakes < MaxWakes /\ wakes' = wakes + 1

\* A statement fails: it stores nothing.
Fault ==
    /\ faults < MaxFaults
    /\ faults' = faults + 1
    /\ UNCHANGED <<config, logs, edits, drops>>

-------------------------------------------------------------------------------
(* device_create, device_update, device_delete.                            *)

\* get_site of the form's site; an error counts as a missing site.
CheckSite(r) ==
    /\ \/ At(r, "check_site_new") /\ sites[task[r].site] # None
          /\ GoTo(r, "insert_device")
       \/ At(r, "check_site_old") /\ sites[task[r].site] # None
          /\ GoTo(r, "update_device")
       \/ task[r].pc \in {"check_site_new", "check_site_old"} /\ Reply(r)
    /\ UNCHANGED <<config, logs, jobs, wakes, edits, budget>>

\* The foreign key devices.site_id.
ReferenceUnchecked(s) == TRUE
ReferenceHolds(s) == sites[s] # None

\* A UNIQUE (site_id, mac_address) or the foreign key refuses the row.
InsertDevice(r) ==
    /\ At(r, "insert_device")
    /\ \/ /\ ReferenceHolds(task[r].site)
          /\ nextDevice <= MaxDevices
          /\ devices' = [devices EXCEPT ![nextDevice] =
                            [site |-> task[r].site, enabled |-> TRUE]]
          /\ nextDevice' = nextDevice + 1
          /\ GoAudit(r, nextDevice, "device_created")
          /\ Edit
          /\ UNCHANGED <<sites, nextSite>>
       \/ Reply(r) /\ UNCHANGED <<config, edits>>
    /\ UNCHANGED <<logs, jobs, wakes, budget>>

\* The row may be gone, the site of the form too.
UpdateDevice(r) ==
    LET d == task[r].device
    IN  /\ At(r, "update_device")
        /\ \/ /\ devices[d] # None /\ ReferenceHolds(task[r].site)
              /\ \E b \in BOOLEAN :
                    devices' = [devices EXCEPT ![d] =
                                   [site |-> task[r].site, enabled |-> b]]
              /\ GoAudit(r, d, "device_updated")
              /\ Edit
              /\ UNCHANGED <<sites, nextSite, nextDevice>>
           \/ Reply(r) /\ UNCHANGED <<config, edits>>
        /\ UNCHANGED <<logs, jobs, wakes, budget>>

DeleteDevice(r) ==
    LET d == task[r].device
    IN  /\ At(r, "delete_device")
        /\ \/ /\ devices[d] # None
              /\ devices' = [devices EXCEPT ![d] = None]
              /\ GoAudit(r, d, "device_deleted")
              /\ Edit
              /\ UNCHANGED <<sites, nextSite, nextDevice, budget>>
           \/ /\ devices[d] = None
              /\ Reply(r)
              /\ UNCHANGED <<config, edits, budget>>
           \/ Reply(r) /\ Fault
        /\ UNCHANGED <<logs, jobs, wakes>>

-------------------------------------------------------------------------------
(* device_wake and api_device_wake.                                        *)

\* The page refuses a disabled device before it reads the site.
DeviceAllows(r) == task[r].via = "page" => devices[task[r].device].enabled

GetDevice(r) ==
    LET row == devices[task[r].device]
    IN  /\ At(r, "get_device")
        /\ IF row # None /\ DeviceAllows(r)
           THEN task' = [task EXCEPT ![r].pc = "get_site", ![r].site = row.site,
                                     ![r].on = row.enabled]
           ELSE Reply(r)
        /\ UNCHANGED <<config, logs, jobs, wakes, edits, budget>>

\* The page looks at the site it has just read, the API also at the device
\* it read before.
SiteOnlyAllows(r) == sites[task[r].site].enabled
SiteAllows(r) == sites[task[r].site].enabled /\ task[r].on

GetSite(r) ==
    LET row == sites[task[r].site]
    IN  /\ At(r, "get_site")
        /\ IF row # None /\ SiteAllows(r)
           THEN task' = [task EXCEPT ![r].pc = "get_secret",
                                     ![r].trusted = row.trusted]
           ELSE Reply(r)
        /\ UNCHANGED <<config, logs, jobs, wakes, edits, budget>>

\* get_device or get_site returns an error.
ReadFails(r) ==
    /\ task[r].pc \in {"get_device", "get_site"}
    /\ Reply(r)
    /\ Fault
    /\ UNCHANGED <<jobs, wakes>>

HasSecret(r) ==
    sites[task[r].site] # None /\ sites[task[r].site].secret

\* site_credential, and with its result the start of the provider's job.
GetSecret(r) ==
    /\ At(r, "get_secret")
    /\ HasSecret(r)
    /\ jobs' = [jobs EXCEPT ![task[r].call] =
                   [device |-> task[r].device, site |-> task[r].site,
                    trusted |-> task[r].trusted, since |-> task[r].since,
                    commanded |-> FALSE, result |-> "none"]]
    /\ GoTo(r, "wait")
    /\ UNCHANGED <<config, logs, wakes, edits, budget>>

\* No credential, or none that can be read: the page records a failed wake,
\* the API does not.
Refuse(r) == IF task[r].via = "page" THEN GoTo(r, "refused_event") ELSE Reply(r)

MissSecret(r) ==
    /\ At(r, "get_secret")
    /\ Refuse(r)
    /\ \/ ~HasSecret(r) /\ UNCHANGED <<config, logs, edits, budget>>
       \/ Fault
    /\ UNCHANGED <<jobs, wakes>>

\* WakeCall, for call c: nothing goes out without a trusted key.
JobCommands(c) ==
    /\ jobs[c] # None /\ jobs[c].result = "none"
    /\ jobs[c].trusted /\ ~jobs[c].commanded
    /\ jobs' = [jobs EXCEPT ![c].commanded = TRUE]
    /\ UNCHANGED <<config, logs, task, wakes, edits, budget>>

ReturnsEarly(c, result) == TRUE
MayReturn(c, result) == result = "ok" => jobs[c].commanded

JobReturns(c) ==
    /\ jobs[c] # None /\ jobs[c].result = "none"
    /\ \E result \in {"ok", "failed"} :
          /\ MayReturn(c, result)
          /\ jobs' = [jobs EXCEPT ![c].result = result]
    /\ UNCHANGED <<config, logs, task, wakes, edits, budget>>

\* The handler wakes up with the job's result.
OutcomeIfOk(c) == IF jobs[c].result = "ok" THEN "device_wake" ELSE None
Outcome(c) ==
    IF jobs[c].result = "ok" THEN "device_wake" ELSE "device_wake_failed"

SuccessAwaited(r) ==
    /\ At(r, "wait")
    /\ jobs[task[r].call].result = "ok"
    /\ task' = [task EXCEPT ![r].pc = "insert_event",
                            ![r].action = Outcome(task[r].call)]
    /\ UNCHANGED <<config, logs, jobs, wakes, edits, budget>>

JobAwaited(r) ==
    /\ At(r, "wait")
    /\ jobs[task[r].call].result # "none"
    /\ task' = [task EXCEPT ![r].pc = "insert_event",
                            ![r].action = Outcome(task[r].call)]
    /\ UNCHANGED <<config, logs, jobs, wakes, edits, budget>>

EventOf(r, status) ==
    [call |-> task[r].call, device |-> task[r].device, site |-> task[r].site,
     status |-> status]

Status(r) == IF task[r].action = "device_wake" THEN "success" ELSE "failed"

SuccessRecorded(r) ==
    /\ At(r, "insert_event")
    /\ GoAudit(r, task[r].device, task[r].action)
    /\ events' = IF Status(r) = "success" THEN events \cup {EventOf(r, "success")}
                 ELSE events
    /\ UNCHANGED <<config, audit, edits, budget, jobs, wakes>>

\* insert_wake_event; its result is ignored (let _ = ...), and so is that of
\* the audit row that follows.
InsertEvent(r) ==
    /\ At(r, "insert_event")
    /\ GoAudit(r, task[r].device, task[r].action)
    /\ \/ /\ events' = events \cup {EventOf(r, Status(r))}
          /\ UNCHANGED <<config, audit, edits, budget>>
       \/ Fault
    /\ UNCHANGED <<jobs, wakes>>

RefusedEvent(r) ==
    /\ At(r, "refused_event")
    /\ Reply(r)
    /\ \/ /\ events' = events \cup {EventOf(r, "failed")}
          /\ UNCHANGED <<config, audit, edits, budget>>
       \/ Fault
    /\ UNCHANGED <<jobs, wakes>>

Audit(r) ==
    /\ At(r, "audit")
    /\ Reply(r)
    /\ \/ /\ audit' = audit \cup {[action |-> task[r].action,
                                   device |-> task[r].device,
                                   call |-> task[r].call]}
          /\ UNCHANGED <<config, events, edits, budget>>
       \/ Fault
    /\ UNCHANGED <<jobs, wakes>>

-------------------------------------------------------------------------------
(* A dropped handler leaves its job running; a restart ends every job.     *)

Drop(r) ==
    /\ ~At(r, "idle")
    /\ drops < MaxDrops /\ drops' = drops + 1
    /\ Reply(r)
    /\ UNCHANGED <<config, logs, jobs, wakes, edits, faults>>

Restart ==
    /\ drops < MaxDrops /\ drops' = drops + 1
    /\ task' = [r \in Requests |-> Idle]
    /\ jobs' = [c \in Calls |->
                  IF jobs[c] # None /\ jobs[c].result = "none"
                  THEN [jobs[c] EXCEPT !.result = "killed"] ELSE jobs[c]]
    /\ UNCHANGED <<config, logs, wakes, edits, faults>>

-------------------------------------------------------------------------------

Step(r) ==
    \/ CheckSite(r) \/ InsertDevice(r) \/ UpdateDevice(r) \/ DeleteDevice(r)
    \/ GetDevice(r) \/ GetSite(r) \/ ReadFails(r) \/ GetSecret(r) \/ MissSecret(r)
    \/ JobAwaited(r) \/ InsertEvent(r) \/ RefusedEvent(r) \/ Audit(r)

Next ==
    \/ SiteInserted \/ SiteChanged \/ SiteDeleted
    \/ \E r \in Requests :
          \/ AcceptCreate(r) \/ AcceptUpdate(r) \/ AcceptDelete(r) \/ AcceptWake(r)
          \/ Step(r) \/ Drop(r)
    \/ \E c \in Calls : JobCommands(c) \/ JobReturns(c)
    \/ Restart

Spec == Init /\ [][Next]_vars

\* Tokio polls every future that is ready, and every provider call returns
\* (CallReturns of RouterSession).
FairSpec ==
    /\ Spec
    /\ \A r \in Requests : WF_vars(Step(r))
    /\ \A c \in Calls : WF_vars(JobReturns(c))

-------------------------------------------------------------------------------
(* Properties.                                                             *)

Undisturbed == faults = 0 /\ drops = 0

\* devices.site_id: no order of device and site handlers leaves a device whose
\* site is gone, though each checks the site one statement too early.
DevicesHaveSites ==
    \A d \in DeviceIds : devices[d] # None => sites[devices[d].site] # None

\* What history and audit log say of a wake agrees with what its job did, and
\* with each other; no wake has two rows.
HistoryIsTrue ==
    /\ \A e \in events :
          LET job == jobs[e.call]
          IN  IF job = None THEN e.status = "failed"
              ELSE /\ e.device = job.device /\ e.site = job.site
                   /\ e.status = "success" <=> job.result = "ok"
                   /\ e.status = "success" => job.commanded
    /\ \A e, f \in events : e.call = f.call => e = f
    /\ \A a \in audit :
          a.call # None =>
            /\ jobs[a.call] # None /\ a.device = jobs[a.call].device
            /\ a.action = "device_wake" <=> jobs[a.call].result = "ok"

\* As long as no statement fails and no request is dropped, a job is still
\* awaited, or its outcome is about to be recorded, or it is in the history
\* and then in the audit log.
EveryCallIsRecorded ==
    Undisturbed =>
        \A c \in Calls : jobs[c] # None =>
            \/ \E r \in Requests :
                  task[r].call = c /\ task[r].pc \in {"wait", "insert_event"}
            \/ /\ \E e \in events : e.call = c
               /\ \/ \E r \in Requests : task[r].call = c /\ At(r, "audit")
                  \/ \E a \in audit : a.call = c

\* A command sent before anything was edited since its request arrived goes to
\* a device and a site that exist, are enabled, trusted and have a credential:
\* the checks of the two handlers, made one statement at a time, agree.
WakeFollowsInventory ==
    \A c \in Calls :
        jobs[c] # None /\ jobs[c].commanded /\ jobs[c].since = edits =>
            LET d == devices[jobs[c].device]
                s == sites[jobs[c].site]
            IN  /\ d # None /\ d.enabled /\ d.site = jobs[c].site
                /\ s # None /\ s.enabled /\ s.trusted /\ s.secret

\* Every wake that starts a job ends up in the history, unless a statement
\* fails or something is dropped on its way there.
WakesAreRecorded ==
    \A c \in Calls :
        jobs[c] # None ~> (~Undisturbed \/ \E e \in events : e.call = c)

\* "History: success and failure of a WOL" (OPERATIONS.ja.md): a command that
\* was sent is in the history, or has a request that will put it there, unless
\* the process died with the job.
SentIsRecorded ==
    faults = 0 =>
        \A c \in Calls :
            jobs[c] # None /\ jobs[c].commanded /\ jobs[c].result # "killed" =>
                \/ \E e \in events : e.call = c
                \/ \E r \in Requests : task[r].call = c
================================================================================
