-------------------------------- MODULE WakeProofs --------------------------------
(* The safety of Wake for every value of the constants: any number of       *)
(* requests, sites, devices, wakes, edits, faults, drops and restarts.      *)
EXTENDS Wake, TLAPS

\* A wake request before its job, and while it has one to record.
Asking == {"get_device", "get_site", "get_secret", "refused_event"}
Waiting == {"wait", "insert_event"}

\* A task carries what its next statement uses.
Fits(r) ==
    /\ task[r].pc \notin {"idle", "check_site_new", "insert_device"} =>
         task[r].device \in DeviceIds
    /\ task[r].pc \notin {"idle", "delete_device", "get_device", "audit"} =>
         task[r].site \in SiteIds
    /\ task[r].pc \in Asking \cup Waiting => task[r].call \in Calls
    /\ task[r].pc \notin Asking \cup Waiting \cup {"audit"} => task[r].call = None
    /\ task[r].pc \in {"insert_event", "audit"} <=> task[r].action # None
    /\ task[r].call # None => task[r].call <= wakes
    /\ task[r].since <= edits

\* No two requests serve the same call.
Distinct ==
    \A q, r \in Requests : q # r /\ task[q].call # None => task[q].call # task[r].call

\* Nothing has happened for a call; nothing is in the history; its job is over.
Unlogged(c) == \A e \in events : e.call # c
Unborn(c) == jobs[c] = None /\ Unlogged(c) /\ \A a \in audit : a.call # c
Over(c) == jobs[c] # None /\ jobs[c].result # "none"

\* What a request knows of its call is so.
Honest(r) ==
    LET t == task[r]
    IN  /\ t.pc \in Asking => Unborn(t.call)
        /\ t.pc \in Waiting =>
             /\ jobs[t.call] # None /\ Unlogged(t.call)
             /\ jobs[t.call].device = t.device /\ jobs[t.call].site = t.site
        /\ t.pc = "insert_event" => Over(t.call) /\ t.action = Outcome(t.call)
        /\ t.pc = "audit" /\ t.call # None =>
             /\ Over(t.call) /\ jobs[t.call].device = t.device
             /\ t.action = Outcome(t.call)

\* What a row of the history says, of a job that will not change any more.
EventTrue(e) ==
    /\ e.call <= wakes
    /\ IF jobs[e.call] = None THEN e.status = "failed"
       ELSE /\ Over(e.call)
            /\ e.device = jobs[e.call].device /\ e.site = jobs[e.call].site
            /\ e.status = "success" <=> jobs[e.call].result = "ok"

AuditTrue(a) ==
    a.call # None =>
        /\ Over(a.call) /\ a.device = jobs[a.call].device
        /\ a.action = "device_wake" <=> jobs[a.call].result = "ok"

LogsTrue ==
    /\ \A e \in events : EventTrue(e)
    /\ \A e, f \in events : e.call = f.call => e = f
    /\ \A a \in audit : AuditTrue(a)

JobTrue(c) ==
    jobs[c] # None =>
        /\ c <= wakes /\ jobs[c].since <= edits
        /\ jobs[c].result = "ok" => jobs[c].commanded
        /\ jobs[c].commanded => jobs[c].trusted

\* What a request has read is still so, unless something was edited.
Fresh(r) ==
    LET t == task[r]
        d == devices[t.device]
        s == sites[t.site]
    IN  t.since = edits =>
          /\ t.pc \in {"get_site", "get_secret"} =>
               d # None /\ d.site = t.site /\ d.enabled = t.on
          /\ t.pc = "get_secret" =>
               t.on /\ s # None /\ s.enabled /\ s.trusted = t.trusted

FreshJob(c) ==
    LET d == devices[jobs[c].device]
        s == sites[jobs[c].site]
    IN  jobs[c] # None /\ jobs[c].since = edits =>
          /\ d # None /\ d.enabled /\ d.site = jobs[c].site
          /\ s # None /\ s.enabled /\ s.secret /\ s.trusted = jobs[c].trusted

Inv ==
    /\ TypeOK /\ \A r \in Requests : Fits(r) /\ Honest(r) /\ Fresh(r)
    /\ Distinct
    /\ LogsTrue
    /\ \A c \in Calls : JobTrue(c) /\ FreshJob(c)
    /\ DevicesHaveSites
    /\ EveryCallIsRecorded

-------------------------------------------------------------------------------
(* Requests.                                                               *)

StepOf(r) ==
    \/ AcceptCreate(r) \/ AcceptUpdate(r) \/ AcceptDelete(r) \/ AcceptWake(r)
    \/ Step(r) \/ Drop(r)

\* What the step of r does to tasks.
Moves(r) ==
    /\ task' \in [Requests -> Task]
    /\ \A q \in Requests : q # r => task'[q] = task[q]
    /\ Fits(r)' /\ Honest(r)' /\ Fresh(r)'
    /\ task'[r].call \in {None, task[r].call, wakes + 1}

\* What the step of a request with call c does to jobs and logs.
Touches(c) ==
    /\ jobs' \in [Calls -> Job \cup {None}]
    /\ \A d \in Calls :
         jobs'[d] = jobs[d] \/ (d = c /\ Unborn(d) /\ JobTrue(d)' /\ FreshJob(d)')
    /\ \/ events' = events
       \/ \E e \in Event : /\ events' = events \cup {e} /\ e.call = c
                           /\ Unlogged(c) /\ EventTrue(e)'
    /\ \/ audit' = audit
       \/ \E a \in AuditRow : /\ audit' = audit \cup {a} /\ a.call = c
                              /\ AuditTrue(a)'

LEMMA Basics ==
    /\ MaxSites \in Nat /\ MaxDevices \in Nat /\ MaxWakes \in Nat
    /\ MaxEdits \in Nat /\ MaxFaults \in Nat /\ MaxDrops \in Nat
    /\ None \notin SiteIds /\ None \notin DeviceIds /\ None \notin Calls
    /\ None \notin Actions /\ None \notin SiteRow /\ None \notin DeviceRow
    /\ None \notin Job
    /\ SiteIds \subseteq Nat /\ DeviceIds \subseteq Nat /\ Calls \subseteq Nat
BY WakeAssumption DEF SiteIds, DeviceIds, Calls

LEMMA Typed ==
    ASSUME Inv
    PROVE  /\ task \in [Requests -> Task] /\ jobs \in [Calls -> Job \cup {None}]
           /\ sites \in [SiteIds -> SiteRow \cup {None}]
           /\ devices \in [DeviceIds -> DeviceRow \cup {None}]
           /\ wakes \in Nat /\ edits \in Nat /\ faults \in Nat /\ drops \in Nat
           /\ nextSite \in Nat /\ nextDevice \in Nat
           /\ events \subseteq Event /\ audit \subseteq AuditRow
BY Basics DEF Inv, TypeOK

\* One task is replaced.
LEMMA Moved ==
    ASSUME Inv, NEW r \in Requests, NEW t \in Task, task' = [task EXCEPT ![r] = t]
    PROVE  /\ task' \in [Requests -> Task] /\ task'[r] = t
           /\ \A q \in Requests : q # r => task'[q] = task[q]
BY Typed

\* An answered request claims nothing.
LEMMA Replied ==
    ASSUME Inv, NEW r \in Requests, Reply(r), wakes' \in Nat, edits' \in Nat
    PROVE  Moves(r)
<1>1. Idle \in Task
  BY DEF Idle, Task, Labels
<1>2. task'[r] = Idle /\ task' \in [Requests -> Task]
      /\ \A q \in Requests : q # r => task'[q] = task[q]
  BY <1>1, Moved DEF Reply
<1>3. Idle.pc = "idle" /\ Idle.call = None /\ Idle.since = 0 /\ Idle.action = None
  BY DEF Idle
<1>4. Fits(r)'
  BY <1>2, <1>3 DEF Fits, Asking, Waiting
<1>5. Honest(r)' /\ Fresh(r)'
  BY <1>2, <1>3 DEF Honest, Fresh, Asking, Waiting
<1> QED BY <1>2, <1>3, <1>4, <1>5 DEF Moves

\* Nothing happens to jobs and logs.
LEMMA Untouched ==
    ASSUME Inv, UNCHANGED <<jobs, events, audit>>, NEW c
    PROVE  Touches(c)
BY Typed DEF Touches

\* A new request.
LEMMA AcceptMoves ==
    ASSUME Inv, NEW r \in Requests,
           \/ AcceptCreate(r) \/ AcceptUpdate(r) \/ AcceptDelete(r) \/ AcceptWake(r)
    PROVE  Moves(r) /\ Touches(task[r].call)
<1>a. At(r, "idle") /\ UNCHANGED <<config, logs, jobs, edits>>
  BY DEF AcceptCreate, AcceptUpdate, AcceptDelete, AcceptWake, Arrive
<1>b. task[r].call = None /\ Touches(task[r].call)
  BY <1>a, Untouched DEF At, Inv, Fits, Asking, Waiting, logs
<1>1. CASE AcceptCreate(r)
  <2>1. PICK s \in SiteIds :
          task' = [task EXCEPT ![r] = [Idle EXCEPT !.pc = "check_site_new", !.site = s]]
    BY <1>1 DEF AcceptCreate, Arrive
  <2> DEFINE t == [Idle EXCEPT !.pc = "check_site_new", !.site = s]
  <2>2. /\ t \in Task /\ t.pc = "check_site_new" /\ t.site = s /\ t.call = None
        /\ t.action = None /\ t.since = 0
    BY DEF Idle, Task, Labels
  <2> HIDE DEF t
  <2>3. /\ task'[r] = t /\ task' \in [Requests -> Task]
        /\ \A q \in Requests : q # r => task'[q] = task[q]
    BY <2>1, <2>2, Moved DEF t
  <2>4. Fits(r)' /\ Honest(r)' /\ Fresh(r)'
    BY <1>a, <2>2, <2>3, Typed DEF Fits, Honest, Fresh, Asking, Waiting
  <2> QED BY <1>b, <2>2, <2>3, <2>4 DEF Moves
<1>2. CASE AcceptUpdate(r)
  <2>1. PICK d \in DeviceIds, s \in SiteIds :
          task' = [task EXCEPT ![r] = [Idle EXCEPT !.pc = "check_site_old",
                                         !.device = d, !.site = s]]
    BY <1>2 DEF AcceptUpdate, Arrive
  <2> DEFINE t == [Idle EXCEPT !.pc = "check_site_old", !.device = d, !.site = s]
  <2>2. /\ t \in Task /\ t.pc = "check_site_old" /\ t.site = s /\ t.device = d
        /\ t.call = None /\ t.action = None /\ t.since = 0
    BY DEF Idle, Task, Labels
  <2> HIDE DEF t
  <2>3. /\ task'[r] = t /\ task' \in [Requests -> Task]
        /\ \A q \in Requests : q # r => task'[q] = task[q]
    BY <2>1, <2>2, Moved DEF t
  <2>4. Fits(r)' /\ Honest(r)' /\ Fresh(r)'
    BY <1>a, <2>2, <2>3, Typed DEF Fits, Honest, Fresh, Asking, Waiting
  <2> QED BY <1>b, <2>2, <2>3, <2>4 DEF Moves
<1>3. CASE AcceptDelete(r)
  <2>1. PICK d \in DeviceIds :
          task' = [task EXCEPT ![r] = [Idle EXCEPT !.pc = "delete_device",
                                         !.device = d]]
    BY <1>3 DEF AcceptDelete, Arrive
  <2> DEFINE t == [Idle EXCEPT !.pc = "delete_device", !.device = d]
  <2>2. /\ t \in Task /\ t.pc = "delete_device" /\ t.device = d
        /\ t.call = None /\ t.action = None /\ t.since = 0
    BY DEF Idle, Task, Labels
  <2> HIDE DEF t
  <2>3. /\ task'[r] = t /\ task' \in [Requests -> Task]
        /\ \A q \in Requests : q # r => task'[q] = task[q]
    BY <2>1, <2>2, Moved DEF t
  <2>4. Fits(r)' /\ Honest(r)' /\ Fresh(r)'
    BY <1>a, <2>2, <2>3, Typed DEF Fits, Honest, Fresh, Asking, Waiting
  <2> QED BY <1>b, <2>2, <2>3, <2>4 DEF Moves
<1>4. CASE AcceptWake(r)
  <2>1. PICK d \in DeviceIds, via \in {"page", "api"} :
          task' = [task EXCEPT ![r] = [Idle EXCEPT !.pc = "get_device", !.via = via,
                                         !.device = d, !.call = wakes + 1,
                                         !.since = edits]]
    BY <1>4 DEF AcceptWake, Arrive
  <2> DEFINE t == [Idle EXCEPT !.pc = "get_device", !.via = via, !.device = d,
                               !.call = wakes + 1, !.since = edits]
  <2>2. wakes + 1 \in Calls /\ wakes' = wakes + 1
    <3>1. wakes < MaxWakes /\ wakes' = wakes + 1
      BY <1>4 DEF AcceptWake
    <3> QED BY <3>1, Typed, Basics DEF Calls
  <2>3. /\ t \in Task /\ t.pc = "get_device" /\ t.device = d
        /\ t.call = wakes + 1 /\ t.action = None /\ t.since = edits
    BY <2>2, Typed DEF Idle, Task, Labels
  <2> HIDE DEF t
  <2>4. /\ task'[r] = t /\ task' \in [Requests -> Task]
        /\ \A q \in Requests : q # r => task'[q] = task[q]
    BY <2>1, <2>3, Moved DEF t
  <2>5. Unborn(wakes + 1)
    <3>1. jobs[wakes + 1] = None
      BY <2>2, Typed DEF Inv, JobTrue
    <3>2. \A e \in events : e.call # wakes + 1
      BY Typed, Basics DEF Inv, LogsTrue, EventTrue, Event
    <3>3. \A a \in audit : a.call # wakes + 1
      BY <2>2, <3>1, Basics DEF Inv, LogsTrue, AuditTrue, Over
    <3> QED BY <3>1, <3>2, <3>3 DEF Unborn, Unlogged
  <2>6. Honest(r)'
    <3>1. Unborn(task[r].call)'
      BY <1>a, <2>3, <2>4, <2>5 DEF Unborn, Unlogged, logs
    <3> QED BY <2>3, <2>4, <3>1 DEF Honest, Asking, Waiting
  <2>7. Fits(r)' /\ Fresh(r)'
    BY <1>a, <2>2, <2>3, <2>4, Typed, Basics DEF Fits, Fresh, Asking, Waiting
  <2> QED BY <1>b, <2>3, <2>4, <2>6, <2>7 DEF Moves
<1> QED BY <1>1, <1>2, <1>3, <1>4

\* A task that has moved to another label, with the same data.
LEMMA WentTo ==
    ASSUME Inv, NEW r \in Requests, NEW pc \in Labels, GoTo(r, pc)
    PROVE  /\ task' \in [Requests -> Task]
           /\ \A q \in Requests : q # r => task'[q] = task[q]
           /\ task'[r] = [task[r] EXCEPT !.pc = pc] /\ task'[r].pc = pc
           /\ task'[r].device = task[r].device /\ task'[r].site = task[r].site
           /\ task'[r].call = task[r].call /\ task'[r].action = task[r].action
           /\ task'[r].since = task[r].since /\ task'[r].via = task[r].via
<1>1. task[r] \in Task
  BY Typed
<1>2. [task[r] EXCEPT !.pc = pc] \in Task
  BY <1>1 DEF Task
<1>3. task' = [task EXCEPT ![r] = [task[r] EXCEPT !.pc = pc]]
  BY Typed DEF GoTo
<1>4. /\ task' \in [Requests -> Task]
      /\ \A q \in Requests : q # r => task'[q] = task[q]
      /\ task'[r] = [task[r] EXCEPT !.pc = pc]
  BY <1>2, <1>3, Moved
<1> QED BY <1>1, <1>4 DEF Task

\* A request that goes on to its audit row, with the call it has.
LEMMA WentToAudit ==
    ASSUME Inv, NEW r \in Requests, NEW d \in DeviceIds, NEW action \in Actions,
           task[r].pc # "idle", GoAudit(r, d, action)
    PROVE  /\ task' \in [Requests -> Task]
           /\ \A q \in Requests : q # r => task'[q] = task[q]
           /\ task'[r].pc = "audit" /\ task'[r].device = d
           /\ task'[r].call = task[r].call /\ task'[r].action = action
           /\ task'[r].since = 0
<1> DEFINE t == [Idle EXCEPT !.pc = "audit", !.device = d, !.call = task[r].call,
                             !.action = action]
<1>1. task[r].call \in Calls \cup {None}
  BY Typed DEF Task
<1>2. /\ t \in Task /\ t.pc = "audit" /\ t.device = d /\ t.call = task[r].call
      /\ t.action = action /\ t.since = 0
  BY <1>1 DEF Idle, Task, Labels
<1>3. task' = [task EXCEPT ![r] = t]
  BY DEF GoAudit
<1> HIDE DEF t
<1> QED BY <1>2, <1>3, Moved

\* A device handler goes on to its audit row, which belongs to no call.
LEMMA DeviceLogged ==
    ASSUME Inv, NEW r \in Requests, NEW d \in DeviceIds, NEW action \in Actions,
           task[r].pc # "idle", GoAudit(r, d, action), task[r].call = None,
           edits' \in Nat
    PROVE  Moves(r)
<1>1. Fits(r)' /\ Honest(r)' /\ Fresh(r)'
  BY WentToAudit, Basics DEF Fits, Honest, Fresh, Asking, Waiting
<1> QED BY <1>1, WentToAudit DEF Moves

\* device_create, device_update and device_delete.
LEMMA DeviceStepMoves ==
    ASSUME Inv, NEW r \in Requests,
           CheckSite(r) \/ InsertDevice(r) \/ UpdateDevice(r) \/ DeleteDevice(r)
    PROVE  Moves(r) /\ Touches(task[r].call)
<1>a. UNCHANGED <<jobs, logs, wakes>> /\ edits' \in Nat /\ edits <= edits'
  BY Typed DEF CheckSite, InsertDevice, UpdateDevice, DeleteDevice, Edit, Fault
<1>b. Touches(task[r].call)
  BY <1>a, Untouched DEF logs
<1>c. Fits(r) /\ task[r].pc # "idle" /\ task[r].call = None
  BY DEF CheckSite, InsertDevice, UpdateDevice, DeleteDevice, At, Inv, Fits, Asking,
         Waiting
<1>1. CASE Reply(r)
  BY <1>1, <1>a, <1>b, Replied, Typed
<1>2. CASE CheckSite(r) /\ ~Reply(r)
  <2>1. PICK pc \in {"insert_device", "update_device"} :
          GoTo(r, pc) /\ task[r].pc \in {"check_site_new", "check_site_old"}
          /\ (pc = "update_device" => task[r].pc = "check_site_old")
    BY <1>2 DEF CheckSite, At
  <2>2. pc \in Labels
    BY <2>1 DEF Labels
  <2>3. Fits(r)' /\ Honest(r)' /\ Fresh(r)'
    <3>1. task'[r].pc = pc /\ task'[r].call = None
      BY <1>c, <2>1, <2>2, WentTo
    <3>2. Honest(r)' /\ Fresh(r)'
      BY <2>1, <3>1 DEF Honest, Fresh, Asking, Waiting
    <3>3. UNCHANGED <<wakes, edits>>
      BY <1>2 DEF CheckSite
    <3>4. Fits(r)'
      BY <1>c, <2>1, <2>2, <3>1, <3>3, WentTo DEF Fits, Asking, Waiting
    <3> QED BY <3>2, <3>4
  <2> QED BY <1>b, <2>1, <2>2, <2>3, WentTo DEF Moves
<1>3. CASE InsertDevice(r) /\ ~Reply(r)
  <2>1. nextDevice <= MaxDevices /\ GoAudit(r, nextDevice, "device_created")
    BY <1>3 DEF InsertDevice
  <2>2. nextDevice \in 1 .. MaxDevices + 1
    BY DEF Inv, TypeOK
  <2>3. nextDevice \in DeviceIds
    BY <2>1, <2>2, Basics DEF DeviceIds
  <2> QED BY <1>a, <1>b, <1>c, <2>1, <2>3, DeviceLogged DEF Actions
<1>4. CASE UpdateDevice(r) /\ ~Reply(r)
  <2>1. task[r].device \in DeviceIds /\ GoAudit(r, task[r].device, "device_updated")
    BY <1>4, <1>c DEF UpdateDevice, At, Fits
  <2> QED BY <1>a, <1>b, <1>c, <2>1, DeviceLogged DEF Actions
<1>5. CASE DeleteDevice(r) /\ ~Reply(r)
  <2>1. task[r].device \in DeviceIds /\ GoAudit(r, task[r].device, "device_deleted")
    BY <1>5, <1>c DEF DeleteDevice, At, Fits
  <2> QED BY <1>a, <1>b, <1>c, <2>1, DeviceLogged DEF Actions
<1> QED BY <1>1, <1>2, <1>3, <1>4, <1>5

\* A wake reads the device and the site it asks for.
LEMMA ReadMoves ==
    ASSUME Inv, NEW r \in Requests, GetDevice(r) \/ GetSite(r)
    PROVE  Moves(r) /\ Touches(task[r].call)
<1>a. UNCHANGED <<config, jobs, logs, wakes, edits>>
  BY DEF GetDevice, GetSite
<1>b. Touches(task[r].call)
  BY <1>a, Untouched DEF logs
<1>c. Fits(r) /\ Honest(r) /\ Fresh(r) /\ task[r] \in Task
  BY Typed DEF Inv
<1>1. CASE Reply(r)
  BY <1>1, <1>a, <1>b, Replied, Typed
<1>2. CASE GetDevice(r) /\ ~Reply(r)
  <2> DEFINE row == devices[task[r].device]
             t == [task[r] EXCEPT !.pc = "get_site", !.site = row.site,
                                  !.on = row.enabled]
  <2>1. /\ task[r].pc = "get_device" /\ row # None
        /\ task' = [task EXCEPT ![r] = t]
    BY <1>2, Typed DEF GetDevice, At
  <2>2. task[r].device \in DeviceIds /\ task[r].call \in Calls
    BY <1>c, <2>1 DEF Fits, Asking, Waiting
  <2>3. row \in DeviceRow
    BY <2>1, <2>2, Typed
  <2>4. /\ t \in Task /\ t.pc = "get_site" /\ t.site = row.site /\ t.on = row.enabled
        /\ t.device = task[r].device /\ t.call = task[r].call
        /\ t.action = task[r].action /\ t.since = task[r].since
    BY <1>c, <2>3 DEF Task, Labels, DeviceRow
  <2>5. row.site \in SiteIds
    BY <2>3 DEF DeviceRow
  <2> HIDE DEF t
  <2>6. /\ task'[r] = t /\ task' \in [Requests -> Task]
        /\ \A q \in Requests : q # r => task'[q] = task[q]
    BY <2>1, <2>4, Moved
  <2>7. Fits(r)'
    BY <1>a, <1>c, <2>1, <2>2, <2>4, <2>5, <2>6 DEF Fits, Asking, Waiting
  <2>8. Unborn(task[r].call)'
    BY <1>a, <1>c, <2>1, <2>4, <2>6 DEF Honest, Unborn, Unlogged, Asking, logs
  <2>9. Honest(r)'
    BY <2>4, <2>6, <2>8 DEF Honest, Asking, Waiting
  <2>10. Fresh(r)'
    BY <1>a, <2>1, <2>4, <2>6 DEF Fresh, config
  <2> QED BY <1>b, <2>4, <2>6, <2>7, <2>9, <2>10 DEF Moves
<1>3. CASE GetSite(r) /\ ~Reply(r)
  <2> DEFINE row == sites[task[r].site]
             t == [task[r] EXCEPT !.pc = "get_secret", !.trusted = row.trusted]
  <2>1. /\ task[r].pc = "get_site" /\ row # None /\ row.enabled /\ task[r].on
        /\ task' = [task EXCEPT ![r] = t]
    BY <1>3, Typed DEF GetSite, SiteAllows, At
  <2>2. /\ task[r].device \in DeviceIds /\ task[r].call \in Calls
        /\ task[r].site \in SiteIds
    BY <1>c, <2>1 DEF Fits, Asking, Waiting
  <2>3. row \in SiteRow
    BY <2>1, <2>2, Typed
  <2>4. /\ t \in Task /\ t.pc = "get_secret" /\ t.site = task[r].site
        /\ t.on = task[r].on /\ t.trusted = row.trusted
        /\ t.device = task[r].device /\ t.call = task[r].call
        /\ t.action = task[r].action /\ t.since = task[r].since
    BY <1>c, <2>3 DEF Task, Labels, SiteRow
  <2> HIDE DEF t
  <2>5. /\ task'[r] = t /\ task' \in [Requests -> Task]
        /\ \A q \in Requests : q # r => task'[q] = task[q]
    BY <2>1, <2>4, Moved
  <2>6. Fits(r)'
    BY <1>a, <1>c, <2>1, <2>2, <2>4, <2>5 DEF Fits, Asking, Waiting
  <2>7. Unborn(task[r].call)'
    BY <1>a, <1>c, <2>1, <2>4, <2>5 DEF Honest, Unborn, Unlogged, Asking, logs
  <2>8. Honest(r)'
    BY <2>4, <2>5, <2>7 DEF Honest, Asking, Waiting
  <2>9. Fresh(r)'
    BY <1>a, <1>c, <2>1, <2>4, <2>5 DEF Fresh, config
  <2> QED BY <1>b, <2>4, <2>5, <2>6, <2>8, <2>9 DEF Moves
<1> QED BY <1>1, <1>2, <1>3

\* site_credential starts the provider's job, or there is nothing to start.
LEMMA CredentialMoves ==
    ASSUME Inv, NEW r \in Requests, GetSecret(r) \/ MissSecret(r)
    PROVE  Moves(r) /\ Touches(task[r].call)
<1>a. /\ UNCHANGED <<config, logs, wakes, edits>> /\ task[r].pc = "get_secret"
      /\ Fits(r) /\ Honest(r) /\ Fresh(r) /\ task[r] \in Task
  BY Typed DEF Inv, GetSecret, MissSecret, Fault, At
<1>b. /\ task[r].device \in DeviceIds /\ task[r].site \in SiteIds
      /\ task[r].call \in Calls /\ task[r].action = None
  BY <1>a DEF Fits, Asking, Waiting
<1>c. Unborn(task[r].call)
  BY <1>a DEF Honest, Asking
<1>d. {"wait", "refused_event"} \subseteq Labels
  BY DEF Labels
<1>1. CASE MissSecret(r)
  <2>1. UNCHANGED jobs /\ Touches(task[r].call)
    BY <1>1, <1>a, Untouched DEF MissSecret, logs
  <2>2. CASE Reply(r)
    BY <1>a, <2>1, <2>2, Replied, Typed
  <2>3. CASE GoTo(r, "refused_event")
    <3>1. Fits(r)'
      BY <1>a, <1>b, <1>d, <2>3, WentTo DEF Fits, Asking, Waiting
    <3>2. Unborn(task[r].call)'
      BY <1>a, <1>c, <1>d, <2>1, <2>3, WentTo DEF Unborn, Unlogged, logs
    <3>3. Honest(r)' /\ Fresh(r)'
      BY <1>d, <2>3, <3>2, WentTo DEF Honest, Fresh, Asking, Waiting
    <3> QED BY <1>d, <2>1, <2>3, <3>1, <3>3, WentTo DEF Moves
  <2> QED BY <1>1, <2>2, <2>3 DEF MissSecret, Refuse
<1>2. CASE GetSecret(r)
  <2> DEFINE c == task[r].call
             job == [device |-> task[r].device, site |-> task[r].site,
                     trusted |-> task[r].trusted, since |-> task[r].since,
                     commanded |-> FALSE, result |-> "none"]
  <2>1. jobs' = [jobs EXCEPT ![c] = job] /\ GoTo(r, "wait") /\ HasSecret(r)
    BY <1>2 DEF GetSecret
  <2>2. /\ job \in Job /\ job.device = task[r].device /\ job.site = task[r].site
        /\ job.trusted = task[r].trusted /\ job.since = task[r].since
        /\ job.commanded = FALSE /\ job.result = "none"
    BY <1>a, <1>b DEF Job, Task
  <2> HIDE DEF job
  <2>3. /\ jobs' \in [Calls -> Job \cup {None}] /\ jobs'[c] = job /\ job # None
        /\ \A d \in Calls : d # c => jobs'[d] = jobs[d]
    BY <1>b, <2>1, <2>2, Typed, Basics
  <2>4. c <= wakes /\ task[r].since <= edits /\ c # None
    BY <1>a, <1>b, Basics DEF Fits
  <2>5. JobTrue(c)'
    BY <1>a, <1>b, <1>d, <2>1, <2>2, <2>3, <2>4, WentTo DEF JobTrue
  <2>6. FreshJob(c)'
    <3>1. /\ task[r].since = edits =>
            /\ devices[task[r].device] # None
            /\ devices[task[r].device].site = task[r].site
            /\ devices[task[r].device].enabled = task[r].on
            /\ task[r].on /\ sites[task[r].site].enabled
            /\ sites[task[r].site].trusted = task[r].trusted
      BY <1>a DEF Fresh
    <3>2. sites[task[r].site] # None /\ sites[task[r].site].secret
      BY <2>1 DEF HasSecret
    <3>3. devices' = devices /\ sites' = sites /\ edits' = edits
      BY <1>a DEF config
    <3>4. task'[r].call = c
      BY <1>d, <2>1, WentTo
    <3> QED BY <2>2, <2>3, <3>1, <3>2, <3>3, <3>4 DEF FreshJob
  <2>7. Touches(c)
    <3>1. /\ jobs'[c].device = job.device
          /\ UNCHANGED <<events, audit>>
      BY <1>a, <2>3 DEF logs
    <3>2. \A d \in Calls :
            jobs'[d] = jobs[d] \/ (d = c /\ Unborn(d) /\ JobTrue(d)' /\ FreshJob(d)')
      <4> SUFFICES ASSUME NEW d \in Calls, jobs'[d] # jobs[d]
                   PROVE  d = c /\ Unborn(d) /\ JobTrue(d)' /\ FreshJob(d)'
        OBVIOUS
      <4>1. d = c
        BY <2>3
      <4>2. task'[r].call = d
        BY <1>d, <2>1, <4>1, WentTo
      <4> QED BY <1>c, <2>5, <2>6, <4>1, <4>2
    <3> QED BY <2>3, <3>1, <3>2 DEF Touches
  <2>8. Fits(r)'
    BY <1>a, <1>b, <1>d, <2>1, WentTo DEF Fits, Asking, Waiting
  <2>9. Honest(r)'
    <3>1. \A e \in events' : e.call # c
      BY <1>a, <1>c DEF Unborn, Unlogged, logs
    <3>2. /\ task'[r].pc = "wait" /\ task'[r].call = c
          /\ task'[r].device = task[r].device /\ task'[r].site = task[r].site
      BY <1>d, <2>1, WentTo
    <3> QED BY <2>2, <2>3, <3>1, <3>2 DEF Honest, Unlogged, Asking, Waiting
  <2>10. Fresh(r)'
    BY <1>d, <2>1, WentTo DEF Fresh
  <2> QED BY <1>d, <2>1, <2>7, <2>8, <2>9, <2>10, WentTo DEF Moves
<1> QED BY <1>1, <1>2

\* The result of the job goes to the history, and from there to the audit log.
LEMMA RecordMoves ==
    ASSUME Inv, NEW r \in Requests,
           JobAwaited(r) \/ InsertEvent(r) \/ RefusedEvent(r) \/ Audit(r)
    PROVE  Moves(r) /\ Touches(task[r].call)
<1> DEFINE c == task[r].call
<1>a. /\ UNCHANGED <<config, jobs, wakes, edits>>
      /\ Fits(r) /\ Honest(r) /\ task[r] \in Task
  BY Typed DEF Inv, JobAwaited, InsertEvent, RefusedEvent, Audit, Fault
<1>1. CASE JobAwaited(r)
  <2> DEFINE t == [task[r] EXCEPT !.pc = "insert_event", !.action = Outcome(c)]
  <2>1. /\ task[r].pc = "wait" /\ jobs[c].result # "none"
        /\ task' = [task EXCEPT ![r] = t] /\ UNCHANGED logs
    BY <1>1, Typed DEF JobAwaited, At
  <2>2. /\ task[r].device \in DeviceIds /\ task[r].site \in SiteIds /\ c \in Calls
        /\ jobs[c] # None /\ Unlogged(c)
        /\ jobs[c].device = task[r].device /\ jobs[c].site = task[r].site
    BY <1>a, <2>1 DEF Fits, Honest, Asking, Waiting
  <2>3. Outcome(c) \in Actions
    BY DEF Outcome, Actions
  <2>4. /\ t \in Task /\ t.pc = "insert_event" /\ t.action = Outcome(c)
        /\ t.device = task[r].device /\ t.site = task[r].site /\ t.call = c
        /\ t.since = task[r].since
    BY <1>a, <2>3 DEF Task, Labels
  <2> HIDE DEF t
  <2>5. /\ task'[r] = t /\ task' \in [Requests -> Task]
        /\ \A q \in Requests : q # r => task'[q] = task[q]
    BY <2>1, <2>4, Moved
  <2>6. Fits(r)'
    BY <1>a, <2>2, <2>3, <2>4, <2>5, Basics DEF Fits, Asking, Waiting
  <2>7. Honest(r)'
    BY <1>a, <2>1, <2>2, <2>4, <2>5
       DEF Honest, Over, Unlogged, Outcome, Asking, Waiting, logs
  <2>8. Fresh(r)'
    BY <2>4, <2>5 DEF Fresh
  <2>9. Touches(c)
    BY <1>a, <2>1, Untouched DEF logs
  <2> QED BY <2>4, <2>5, <2>6, <2>7, <2>8, <2>9 DEF Moves
<1>2. CASE InsertEvent(r)
  <2>1. /\ task[r].pc = "insert_event" /\ GoAudit(r, task[r].device, task[r].action)
        /\ UNCHANGED audit
    BY <1>2 DEF InsertEvent, At, Fault, logs
  <2>2. /\ task[r].device \in DeviceIds /\ task[r].site \in SiteIds /\ c \in Calls
        /\ c <= wakes /\ c # None
        /\ Over(c) /\ Unlogged(c) /\ task[r].action = Outcome(c)
        /\ jobs[c].device = task[r].device /\ jobs[c].site = task[r].site
    BY <1>a, <2>1, Basics DEF Fits, Honest, Asking, Waiting
  <2>3. task[r].action \in Actions
    BY <2>2 DEF Outcome, Actions
  <2>4. Fits(r)' /\ Fresh(r)'
    <3>1. /\ task'[r].pc = "audit" /\ task'[r].device = task[r].device
          /\ task'[r].call = c /\ task'[r].action = task[r].action
          /\ task'[r].since = 0
      BY <2>1, <2>2, <2>3, WentToAudit
    <3>2. Fits(r)'
      BY <1>a, <2>2, <2>3, <3>1, Typed, Basics DEF Fits, Asking, Waiting
    <3>3. Fresh(r)'
      BY <3>1 DEF Fresh
    <3> QED BY <3>2, <3>3
  <2>5. Honest(r)'
    BY <1>a, <2>1, <2>2, <2>3, WentToAudit DEF Honest, Over, Outcome, Asking, Waiting
  <2>6. Moves(r)
    BY <2>1, <2>2, <2>3, <2>4, <2>5, WentToAudit DEF Moves
  <2>7. CASE UNCHANGED events
    BY <1>a, <2>1, <2>6, <2>7, Untouched
  <2>8. CASE events' = events \cup {EventOf(r, Status(r))}
    <3>1. Status(r) \in {"success", "failed"}
          /\ (Status(r) = "success" <=> jobs[c].result = "ok")
      BY <2>2 DEF Status, Outcome
    <3>a. EventOf(r, Status(r)) \in Event
      BY <2>2, <3>1 DEF EventOf, Event
    <3>b. PICK e \in Event : e = EventOf(r, Status(r))
      BY <3>a
    <3>2. /\ e.call = c /\ e.device = task[r].device
          /\ e.site = task[r].site /\ e.status = Status(r)
      BY <3>b DEF EventOf
    <3>3. events' = events \cup {e}
      BY <2>8, <3>b
    <3>4. EventTrue(e)'
      <4>1. jobs' = jobs /\ wakes' = wakes
        BY <1>a
      <4> QED BY <2>2, <3>1, <3>2, <4>1 DEF EventTrue, Over
    <3>5. Touches(c)
      BY <1>a, <2>1, <2>2, <3>2, <3>3, <3>4, Typed DEF Touches
    <3> QED BY <2>6, <3>5
  <2> QED BY <1>2, <2>7, <2>8 DEF InsertEvent, Fault, logs
<1>3. CASE RefusedEvent(r)
  <2>1. task[r].pc = "refused_event" /\ Reply(r) /\ UNCHANGED audit
    BY <1>3 DEF RefusedEvent, At, Fault, logs
  <2>2. Moves(r)
    BY <1>a, <2>1, Replied, Typed
  <2>3. /\ task[r].device \in DeviceIds /\ task[r].site \in SiteIds /\ c \in Calls
        /\ c <= wakes /\ jobs[c] = None /\ Unlogged(c)
    BY <1>a, <2>1, Basics DEF Fits, Honest, Unborn, Asking, Waiting
  <2>4. CASE UNCHANGED events
    BY <1>a, <2>1, <2>2, <2>4, Untouched
  <2>5. CASE events' = events \cup {EventOf(r, "failed")}
    <3>a. EventOf(r, "failed") \in Event
      BY <2>3 DEF EventOf, Event
    <3>b. PICK e \in Event : e = EventOf(r, "failed")
      BY <3>a
    <3>1. e.call = c /\ e.status = "failed"
      BY <3>b DEF EventOf
    <3>2. events' = events \cup {e}
      BY <2>5, <3>b
    <3>3. EventTrue(e)'
      BY <1>a, <2>3, <3>1 DEF EventTrue
    <3>4. Touches(c)
      BY <1>a, <2>1, <2>3, <3>1, <3>2, <3>3, Typed DEF Touches
    <3> QED BY <2>2, <3>4
  <2> QED BY <1>3, <2>4, <2>5 DEF RefusedEvent, Fault, logs
<1>4. CASE Audit(r)
  <2>1. task[r].pc = "audit" /\ Reply(r) /\ UNCHANGED events
    BY <1>4 DEF Audit, At, Fault, logs
  <2>2. Moves(r)
    BY <1>a, <2>1, Replied, Typed
  <2>3. CASE UNCHANGED audit
    BY <1>a, <2>1, <2>2, <2>3, Untouched
  <2>4. CASE audit' = audit \cup {[action |-> task[r].action, device |-> task[r].device,
                                   call |-> task[r].call]}
    <3>1. /\ task[r].action \in Actions /\ task[r].device \in DeviceIds
          /\ c \in Calls \cup {None}
      BY <1>a, <2>1 DEF Fits, Task
    <3>a. [action |-> task[r].action, device |-> task[r].device,
           call |-> task[r].call] \in AuditRow
      BY <3>1 DEF AuditRow
    <3>b. PICK a \in AuditRow :
            a = [action |-> task[r].action, device |-> task[r].device,
                 call |-> task[r].call]
      BY <3>a
    <3>2. a.call = c /\ a.action = task[r].action /\ a.device = task[r].device
      BY <3>b
    <3>3. audit' = audit \cup {a}
      BY <2>4, <3>b
    <3>4. AuditTrue(a)'
      <4>1. c # None => /\ Over(c) /\ jobs[c].device = task[r].device
                        /\ task[r].action = Outcome(c)
        BY <1>a, <2>1 DEF Honest
      <4>2. jobs' = jobs
        BY <1>a
      <4> QED BY <3>2, <4>1, <4>2 DEF AuditTrue, Over, Outcome
    <3>5. Touches(c)
      BY <1>a, <2>1, <3>2, <3>3, <3>4, Typed DEF Touches
    <3> QED BY <2>2, <3>5
  <2> QED BY <1>4, <2>3, <2>4 DEF Audit, Fault, logs
<1> QED BY <1>1, <1>2, <1>3, <1>4

\* Every step of a request.
LEMMA StepMoves ==
    ASSUME Inv, NEW r \in Requests, StepOf(r)
    PROVE  Moves(r) /\ Touches(task[r].call)
<1>1. CASE ReadFails(r) \/ Drop(r)
  <2>1. Reply(r) /\ UNCHANGED <<jobs, events, audit, wakes, edits>>
    BY <1>1 DEF ReadFails, Drop, Fault, logs
  <2> QED BY <2>1, Replied, Untouched, Typed
<1> QED BY <1>1, AcceptMoves, DeviceStepMoves, ReadMoves, CredentialMoves, RecordMoves
        DEF StepOf, Step

-------------------------------------------------------------------------------
(* What a request's step leaves true.                                      *)

\* A request changes the inventory in one place, or not at all.
LEMMA StepConfig ==
    ASSUME Inv, NEW r \in Requests, StepOf(r)
    PROVE  /\ nextSite' = nextSite /\ sites' = sites
           /\ devices' \in [DeviceIds -> DeviceRow \cup {None}]
           /\ nextDevice' \in 1 .. MaxDevices + 1
           /\ DevicesHaveSites'
           /\ \/ edits' = edits /\ UNCHANGED config
              \/ edits' = edits + 1 /\ edits < MaxEdits
<1>a. /\ TypeOK /\ DevicesHaveSites
  BY DEF Inv
<1>1. CASE edits' = edits /\ UNCHANGED config
  BY <1>a, <1>1 DEF config, TypeOK, DevicesHaveSites
<1>2. CASE InsertDevice(r) /\ ~UNCHANGED <<config, edits>>
  <2> DEFINE row == [site |-> task[r].site, enabled |-> TRUE]
  <2>1. /\ sites[task[r].site] # None /\ nextDevice <= MaxDevices
        /\ devices' = [devices EXCEPT ![nextDevice] = row]
        /\ nextDevice' = nextDevice + 1 /\ UNCHANGED <<sites, nextSite>>
        /\ edits' = edits + 1 /\ edits < MaxEdits
    BY <1>2 DEF InsertDevice, ReferenceHolds, Edit
  <2>2. Fits(r) /\ task[r].pc = "insert_device"
    BY <1>2 DEF InsertDevice, At, Inv
  <2>3. task[r].site \in SiteIds
    BY <2>2 DEF Fits
  <2>4. row \in DeviceRow /\ row.site = task[r].site
    BY <2>3 DEF DeviceRow
  <2>5. nextDevice \in 1 .. MaxDevices + 1
    BY <1>a DEF TypeOK
  <2>6. nextDevice' \in 1 .. MaxDevices + 1
    BY <2>1, <2>5, Basics
  <2> HIDE DEF row
  <2>7. /\ devices' \in [DeviceIds -> DeviceRow \cup {None}]
        /\ \A d \in DeviceIds : devices'[d] = devices[d] \/ devices'[d] = row
    BY <2>1, <2>4, Typed
  <2>8. DevicesHaveSites'
    BY <1>a, <2>1, <2>4, <2>7 DEF DevicesHaveSites
  <2> QED BY <2>1, <2>6, <2>7, <2>8
<1>3. CASE UpdateDevice(r) /\ ~UNCHANGED <<config, edits>>
  <2>1. PICK b \in BOOLEAN :
          devices' = [devices EXCEPT ![task[r].device] =
                         [site |-> task[r].site, enabled |-> b]]
    BY <1>3 DEF UpdateDevice
  <2> DEFINE row == [site |-> task[r].site, enabled |-> b]
  <2>2. /\ sites[task[r].site] # None /\ UNCHANGED <<sites, nextSite, nextDevice>>
        /\ edits' = edits + 1 /\ edits < MaxEdits
    BY <1>3 DEF UpdateDevice, ReferenceHolds, Edit
  <2>3. Fits(r) /\ task[r].pc = "update_device"
    BY <1>3 DEF UpdateDevice, At, Inv
  <2>4. task[r].site \in SiteIds
    BY <2>3 DEF Fits
  <2>5. row \in DeviceRow /\ row.site = task[r].site
    BY <2>4 DEF DeviceRow
  <2> HIDE DEF row
  <2>6. /\ devices' \in [DeviceIds -> DeviceRow \cup {None}]
        /\ \A d \in DeviceIds : devices'[d] = devices[d] \/ devices'[d] = row
    BY <2>1, <2>5, Typed DEF row
  <2>7. DevicesHaveSites'
    BY <1>a, <2>2, <2>5, <2>6 DEF DevicesHaveSites
  <2> QED BY <1>a, <2>2, <2>6, <2>7 DEF TypeOK
<1>4. CASE DeleteDevice(r) /\ ~UNCHANGED <<config, edits>>
  <2>1. /\ devices' = [devices EXCEPT ![task[r].device] = None]
        /\ UNCHANGED <<sites, nextSite, nextDevice>>
        /\ edits' = edits + 1 /\ edits < MaxEdits
    BY <1>4 DEF DeleteDevice, Edit, Fault
  <2>2. /\ devices' \in [DeviceIds -> DeviceRow \cup {None}]
        /\ \A d \in DeviceIds : devices'[d] = devices[d] \/ devices'[d] = None
    BY <2>1, Typed
  <2>3. DevicesHaveSites'
    BY <1>a, <2>1, <2>2 DEF DevicesHaveSites
  <2> QED BY <1>a, <2>1, <2>2, <2>3 DEF TypeOK
<1>5. CASE AcceptCreate(r) \/ AcceptUpdate(r) \/ AcceptDelete(r) \/ AcceptWake(r)
  BY <1>1, <1>5 DEF AcceptCreate, AcceptUpdate, AcceptDelete, AcceptWake, Arrive
<1>6. CASE CheckSite(r) \/ GetDevice(r) \/ GetSite(r) \/ ReadFails(r) \/ GetSecret(r)
           \/ MissSecret(r)
  BY <1>1, <1>6 DEF CheckSite, GetDevice, GetSite, ReadFails, GetSecret, MissSecret, Fault
<1>7. CASE JobAwaited(r) \/ InsertEvent(r) \/ RefusedEvent(r) \/ Audit(r) \/ Drop(r)
  BY <1>1, <1>7 DEF JobAwaited, InsertEvent, RefusedEvent, Audit, Drop, Fault
<1> QED BY <1>1, <1>2, <1>3, <1>4, <1>5, <1>6, <1>7 DEF StepOf, Step

\* A step counts at most one wake, one fault and one drop.
LEMMA StepBudget ==
    ASSUME Inv, NEW r \in Requests, StepOf(r)
    PROVE  /\ wakes' \in 0 .. MaxWakes /\ wakes <= wakes'
           /\ faults' \in 0 .. MaxFaults /\ drops' \in 0 .. MaxDrops
           /\ \/ UNCHANGED wakes /\ task'[r].call \in {None, task[r].call}
              \/ UNCHANGED <<faults, drops>> /\ At(r, "idle")
           /\ \/ UNCHANGED <<faults, drops>> \/ ~Undisturbed'
<1>a. /\ wakes \in 0 .. MaxWakes /\ faults \in 0 .. MaxFaults /\ drops \in 0 .. MaxDrops
  BY DEF Inv, TypeOK
<1>b. ASSUME Step(r) PROVE UNCHANGED wakes /\ (UNCHANGED <<faults, drops>> \/ Fault)
  BY <1>b DEF Step, CheckSite, InsertDevice, UpdateDevice, DeleteDevice, GetDevice,
              GetSite, ReadFails, GetSecret, MissSecret, JobAwaited, InsertEvent,
              RefusedEvent, Audit, budget
<1>1. CASE AcceptCreate(r) \/ AcceptUpdate(r) \/ AcceptDelete(r) \/ AcceptWake(r)
  <2>1. /\ UNCHANGED <<faults, drops>> /\ At(r, "idle")
        /\ UNCHANGED wakes \/ (wakes < MaxWakes /\ wakes' = wakes + 1)
    BY <1>1 DEF AcceptCreate, AcceptUpdate, AcceptDelete, AcceptWake, Arrive, budget
  <2> QED BY <1>a, <2>1, Basics
<1>2. CASE Reply(r) /\ ~At(r, "idle")
  <2>1. task'[r].call = None
    BY <1>2, Typed DEF Reply, Idle
  <2>2. CASE Step(r)
    <3>1. /\ faults' \in 0 .. MaxFaults /\ drops' \in 0 .. MaxDrops
          /\ \/ UNCHANGED <<faults, drops>> \/ ~Undisturbed'
      BY <1>a, <1>b, <2>2, Basics DEF Fault, Undisturbed
    <3> QED BY <1>a, <1>b, <2>1, <2>2, <3>1
  <2>3. CASE Drop(r)
    BY <1>a, <2>1, <2>3, Basics DEF Drop, Undisturbed
  <2>4. ASSUME AcceptCreate(r) \/ AcceptUpdate(r) \/ AcceptDelete(r) \/ AcceptWake(r)
        PROVE  FALSE
    BY <1>2, <2>4 DEF AcceptCreate, AcceptUpdate, AcceptDelete, AcceptWake, Arrive
  <2> QED BY <2>2, <2>3, <2>4 DEF StepOf
<1>3. CASE Step(r) /\ ~Reply(r)
  <2>1. task'[r].call \in {None, task[r].call}
    <3>1. ASSUME NEW pc \in Labels, GoTo(r, pc)
          PROVE  task'[r].call = task[r].call
      BY <3>1, WentTo
    <3>2. ASSUME NEW d, NEW action, GoAudit(r, d, action)
          PROVE  task'[r].call = task[r].call
      BY <3>2, Typed DEF GoAudit, Idle
    <3>3. CASE GetDevice(r) \/ GetSite(r) \/ JobAwaited(r)
      BY <1>3, <3>3, Typed DEF GetDevice, GetSite, JobAwaited, Task
    <3>4. CASE CheckSite(r) \/ GetSecret(r) \/ MissSecret(r)
      BY <1>3, <3>1, <3>4 DEF CheckSite, GetSecret, MissSecret, Refuse, Labels
    <3> QED BY <1>3, <3>2, <3>3, <3>4
            DEF Step, InsertDevice, UpdateDevice, DeleteDevice, ReadFails, InsertEvent,
                RefusedEvent, Audit
  <2>2. /\ faults' \in 0 .. MaxFaults /\ drops' \in 0 .. MaxDrops
        /\ \/ UNCHANGED <<faults, drops>> \/ ~Undisturbed'
    BY <1>a, <1>b, <1>3, Basics DEF Fault, Undisturbed
  <2> QED BY <1>a, <1>b, <1>3, <2>1, <2>2
<1>4. ASSUME Step(r) \/ Drop(r) PROVE ~At(r, "idle")
  BY <1>4 DEF Step, CheckSite, InsertDevice, UpdateDevice, DeleteDevice, GetDevice,
              GetSite, ReadFails, GetSecret, MissSecret, JobAwaited, InsertEvent,
              RefusedEvent, Audit, Drop, At
<1> QED BY <1>1, <1>2, <1>3, <1>4 DEF StepOf, Drop

\* What other requests know stays so.
LEMMA OthersKept ==
    ASSUME Inv, NEW r \in Requests, StepOf(r), NEW q \in Requests, q # r
    PROVE  Fits(q)' /\ Honest(q)' /\ Fresh(q)'
<1>a. /\ Fits(q) /\ Honest(q) /\ Fresh(q) /\ task[q] \in Task /\ task'[q] = task[q]
      /\ Touches(task[r].call)
  BY StepMoves, Typed DEF Inv, Moves
<1>b. wakes <= wakes' /\ wakes' \in Nat
  BY StepBudget, Basics
<1>c. edits' \in Nat /\ ((edits' = edits /\ UNCHANGED config) \/ edits' = edits + 1)
  BY StepConfig, Typed
<1>d. task[q].since \in Nat /\ task[q].call \in Calls \cup {None}
  BY <1>a DEF Task
<1>1. Fits(q)'
  <2>1. task[q].call # None => task[q].call <= wakes'
    <3> SUFFICES ASSUME task[q].call # None PROVE task[q].call <= wakes'
      OBVIOUS
    <3>1. task[q].call \in Nat /\ task[q].call <= wakes
      BY <1>a, <1>d, Basics DEF Fits
    <3> QED BY <1>b, <3>1, Typed
  <2>2. task[q].since <= edits'
    <3>1. task[q].since <= edits
      BY <1>a DEF Fits
    <3> QED BY <1>c, <1>d, <3>1, Typed
  <2> QED BY <1>a, <2>1, <2>2 DEF Fits
<1>2. Honest(q)'
  <2>1. task[q].call # None => task[q].call # task[r].call
    BY DEF Inv, Distinct
  <2>2. CASE task[q].call = None
    <3>1. task[q].pc \notin Asking \cup Waiting
      BY <1>a, <2>2, Basics DEF Fits
    <3> QED BY <1>a, <2>2, <3>1 DEF Honest, Asking, Waiting
  <2>3. CASE task[q].call \in Calls
    <3> DEFINE c == task[q].call
    <3>1. jobs'[c] = jobs[c]
      BY <1>a, <2>1, <2>3, Basics DEF Touches
    <3>2. \A e \in events' : e \in events \/ e.call # c
      BY <1>a, <2>1, <2>3, Basics DEF Touches
    <3>3. \A a \in audit' : a \in audit \/ a.call # c
      BY <1>a, <2>1, <2>3, Basics DEF Touches
    <3> QED BY <1>a, <3>1, <3>2, <3>3 DEF Honest, Unborn, Unlogged, Over, Outcome
  <2> QED BY <1>d, <2>2, <2>3
<1>3. Fresh(q)'
  <2>1. CASE edits' = edits /\ UNCHANGED config
    BY <1>a, <2>1 DEF Fresh, config
  <2>2. CASE edits' = edits + 1
    <3>1. task'[q].since # edits'
      BY <1>a, <1>d, <2>2, Typed DEF Fits
    <3> QED BY <3>1 DEF Fresh
  <2> QED BY <1>c, <2>1, <2>2
<1> QED BY <1>1, <1>2, <1>3

\* Rows stay true, and a job stays what it is.
LEMMA StepKeepsLogs ==
    ASSUME Inv, NEW r \in Requests, StepOf(r)
    PROVE  /\ LogsTrue' /\ events' \subseteq Event /\ audit' \subseteq AuditRow
           /\ \A c \in Calls : JobTrue(c)' /\ FreshJob(c)'
           /\ Distinct'
<1> DEFINE k == task[r].call
<1>a. /\ Touches(k) /\ LogsTrue /\ \A c \in Calls : JobTrue(c) /\ FreshJob(c)
  BY StepMoves DEF Inv
<1>b. wakes <= wakes' /\ wakes' \in Nat
  BY StepBudget, Basics
<1>c. edits' \in Nat /\ ((edits' = edits /\ UNCHANGED config) \/ edits' = edits + 1)
  BY StepConfig, Typed
<1>1. \A e \in events : EventTrue(e)'
  <2> SUFFICES ASSUME NEW e \in events PROVE EventTrue(e)'
    OBVIOUS
  <2>1. EventTrue(e) /\ e.call \in Calls
    BY <1>a, Typed DEF LogsTrue, Event
  <2>2. jobs'[e.call] = jobs[e.call]
    BY <1>a, <2>1 DEF Touches, Unborn, Unlogged
  <2>3. e.call <= wakes'
    <3>1. e.call \in Nat /\ e.call <= wakes
      BY <2>1, Basics DEF EventTrue
    <3> QED BY <1>b, <3>1, Typed
  <2> QED BY <2>1, <2>2, <2>3 DEF EventTrue, Over
<1>2. \A a \in audit : AuditTrue(a)'
  <2> SUFFICES ASSUME NEW a \in audit, a.call # None PROVE AuditTrue(a)'
    BY DEF AuditTrue
  <2>1. AuditTrue(a) /\ a.call \in Calls
    BY <1>a, Typed DEF LogsTrue, AuditRow
  <2>2. jobs'[a.call] = jobs[a.call]
    BY <1>a, <2>1 DEF Touches, Unborn
  <2> QED BY <2>1, <2>2 DEF AuditTrue, Over
<1>3. /\ \A e \in events' : EventTrue(e)'
      /\ \A e, f \in events' : e.call = f.call => e = f
      /\ events' \subseteq Event
  <2>1. CASE events' = events
    BY <1>1, <1>a, <2>1, Typed DEF LogsTrue
  <2>2. ASSUME NEW e \in Event, events' = events \cup {e}, e.call = k,
               Unlogged(k), EventTrue(e)'
        PROVE  /\ \A x \in events' : EventTrue(x)'
               /\ \A x, y \in events' : x.call = y.call => x = y
               /\ events' \subseteq Event
    BY <1>1, <1>a, <2>2, Typed DEF LogsTrue, Unlogged
  <2> QED BY <1>a, <2>1, <2>2 DEF Touches
<1>4. (\A a \in audit' : AuditTrue(a)') /\ audit' \subseteq AuditRow
  BY <1>2, <1>a, Typed DEF Touches
<1>5. \A c \in Calls : JobTrue(c)' /\ FreshJob(c)'
  <2> SUFFICES ASSUME NEW c \in Calls, jobs'[c] = jobs[c]
               PROVE  JobTrue(c)' /\ FreshJob(c)'
    BY <1>a DEF Touches
  <2>1. JobTrue(c) /\ FreshJob(c)
    BY <1>a
  <2>2. jobs[c] # None => jobs[c].since \in Nat
    BY Typed DEF Job
  <2>3. JobTrue(c)'
    BY <1>b, <1>c, <2>1, <2>2, Typed, Basics DEF JobTrue
  <2>4. FreshJob(c)'
    <3>1. CASE edits' = edits /\ UNCHANGED config
      BY <2>1, <3>1 DEF FreshJob, config
    <3>2. CASE edits' = edits + 1
      <4>1. jobs[c] # None => jobs[c].since # edits'
        BY <2>1, <2>2, <3>2, Typed DEF JobTrue
      <4> QED BY <4>1 DEF FreshJob
    <3> QED BY <1>c, <3>1, <3>2
  <2> QED BY <2>3, <2>4
<1>6. Distinct'
  <2> SUFFICES ASSUME NEW p \in Requests, NEW q \in Requests, p # q,
                      task'[p].call # None
               PROVE  task'[p].call # task'[q].call
    BY DEF Distinct
  <2>1. /\ \A x \in Requests : x # r => task'[x] = task[x]
        /\ task'[r].call \in {None, task[r].call, wakes + 1}
    BY StepMoves DEF Moves
  <2>2. \A x \in Requests : task[x].call # None => task[x].call # wakes + 1
    <3> SUFFICES ASSUME NEW x \in Requests, task[x].call # None
                 PROVE  task[x].call # wakes + 1
      OBVIOUS
    <3>1. task[x].call \in Calls /\ task[x].call <= wakes
      BY Typed DEF Inv, Fits, Task
    <3> QED BY <3>1, Typed, Basics
  <2>3. wakes + 1 # None
    BY WakeAssumption, Typed
  <2> QED BY <2>1, <2>2, <2>3 DEF Inv, Distinct
<1> QED BY <1>3, <1>4, <1>5, <1>6 DEF LogsTrue

\* Without faults and drops, the outcome of a job moves on to where it is due.
LEMMA StepKeepsRecords ==
    ASSUME Inv, NEW r \in Requests, StepOf(r)
    PROVE  EveryCallIsRecorded'
<1> SUFFICES ASSUME Undisturbed', NEW c \in Calls, jobs'[c] # None
             PROVE  \/ \E q \in Requests :
                         task'[q].call = c /\ task'[q].pc \in {"wait", "insert_event"}
                    \/ /\ \E e \in events' : e.call = c
                       /\ \/ \E q \in Requests : task'[q].call = c /\ task'[q].pc = "audit"
                          \/ \E a \in audit' : a.call = c
  BY DEF EveryCallIsRecorded, At
<1>a. /\ Touches(task[r].call) /\ UNCHANGED <<faults, drops>>
      /\ \A q \in Requests : q # r => task'[q] = task[q]
  BY StepMoves, StepBudget DEF Moves
<1>b. events \subseteq events' /\ audit \subseteq audit'
  BY <1>a DEF Touches
<1>c. ~ReadFails(r) /\ ~Drop(r) /\ ~Fault
  BY <1>a, Typed DEF ReadFails, Drop, Fault
<1>1. CASE At(r, "wait")
  <2>1. JobAwaited(r)
    BY <1>1, <1>c DEF StepOf, Step, AcceptCreate, AcceptUpdate, AcceptDelete, AcceptWake,
                      Arrive, CheckSite, InsertDevice, UpdateDevice, DeleteDevice,
                      GetDevice, GetSite, GetSecret, MissSecret, InsertEvent,
                      RefusedEvent, Audit, At
  <2>2. task'[r].pc = "insert_event" /\ task'[r].call = task[r].call
    BY <2>1, Typed DEF JobAwaited, Task
  <2>3. UNCHANGED jobs
    BY <2>1 DEF JobAwaited
  <2>4. EveryCallIsRecorded /\ Undisturbed
    BY <1>a DEF Inv, Undisturbed
  <2> QED BY <1>1, <1>a, <1>b, <2>2, <2>3, <2>4 DEF EveryCallIsRecorded, At
<1>2. CASE At(r, "insert_event")
  <2>1. InsertEvent(r)
    BY <1>2, <1>c DEF StepOf, Step, AcceptCreate, AcceptUpdate, AcceptDelete, AcceptWake,
                      Arrive, CheckSite, InsertDevice, UpdateDevice, DeleteDevice,
                      GetDevice, GetSite, GetSecret, MissSecret, JobAwaited,
                      RefusedEvent, Audit, At
  <2>2. task'[r].pc = "audit" /\ task'[r].call = task[r].call
    BY <2>1, Typed DEF InsertEvent, GoAudit, Idle
  <2>3. UNCHANGED jobs /\ EventOf(r, Status(r)) \in events'
    BY <1>c, <2>1 DEF InsertEvent
  <2>4. EventOf(r, Status(r)).call = task[r].call
    BY DEF EventOf
  <2>5. EveryCallIsRecorded /\ Undisturbed
    BY <1>a DEF Inv, Undisturbed
  <2> QED BY <1>2, <1>a, <1>b, <2>2, <2>3, <2>4, <2>5 DEF EveryCallIsRecorded, At
<1>3. CASE At(r, "audit")
  <2>1. Audit(r)
    BY <1>3, <1>c DEF StepOf, Step, AcceptCreate, AcceptUpdate, AcceptDelete, AcceptWake,
                      Arrive, CheckSite, InsertDevice, UpdateDevice, DeleteDevice,
                      GetDevice, GetSite, GetSecret, MissSecret, JobAwaited,
                      RefusedEvent, InsertEvent, At
  <2>2. /\ UNCHANGED jobs
        /\ [action |-> task[r].action, device |-> task[r].device,
            call |-> task[r].call] \in audit'
    BY <1>c, <2>1 DEF Audit
  <2>3. EveryCallIsRecorded /\ Undisturbed
    BY <1>a DEF Inv, Undisturbed
  <2> QED BY <1>3, <1>a, <1>b, <2>2, <2>3 DEF EveryCallIsRecorded, At
<1>4. CASE ~At(r, "wait") /\ ~At(r, "insert_event") /\ ~At(r, "audit")
  <2>1. CASE jobs[c] # None
    <3>1. EveryCallIsRecorded /\ Undisturbed
      BY <1>a DEF Inv, Undisturbed
    <3> QED BY <1>4, <1>a, <1>b, <2>1, <3>1 DEF EveryCallIsRecorded, At
  <2>2. CASE jobs[c] = None
    <3>1. GetSecret(r)
      BY <1>c, <2>2
         DEF StepOf, Step, AcceptCreate, AcceptUpdate, AcceptDelete, AcceptWake, Arrive,
             CheckSite, InsertDevice, UpdateDevice, DeleteDevice, GetDevice, GetSite,
             MissSecret, JobAwaited, RefusedEvent, InsertEvent, Audit
    <3>2. c = task[r].call
      BY <1>a, <2>2 DEF Touches
    <3>3. task'[r].pc = "wait" /\ task'[r].call = c
      BY <3>1, <3>2, WentTo DEF GetSecret, Labels
    <3> QED BY <3>3
  <2> QED BY <2>1, <2>2
<1> QED BY <1>1, <1>2, <1>3, <1>4

-------------------------------------------------------------------------------
(* Steps of no request.                                                    *)

\* A job that is not over goes on, or ends.
JobsMove ==
    /\ jobs' \in [Calls -> Job \cup {None}]
    /\ \A c \in Calls :
         \/ jobs'[c] = jobs[c]
         \/ /\ jobs[c] # None /\ jobs'[c] # None /\ jobs[c].result = "none"
            /\ jobs'[c].device = jobs[c].device /\ jobs'[c].site = jobs[c].site
            /\ jobs'[c].trusted = jobs[c].trusted /\ jobs'[c].since = jobs[c].since
            /\ jobs'[c].result = "ok" => jobs'[c].commanded
            /\ jobs'[c].commanded => jobs'[c].trusted

LEMMA JobMoves ==
    ASSUME Inv, NEW c \in Calls, JobCommands(c) \/ JobReturns(c)
    PROVE  JobsMove /\ UNCHANGED <<config, logs, task, wakes, edits, budget>>
<1>a. /\ jobs[c] \in Job /\ jobs[c] # None /\ jobs[c].result = "none" /\ JobTrue(c)
      /\ UNCHANGED <<config, logs, task, wakes, edits, budget>>
  BY Typed DEF Inv, JobCommands, JobReturns
<1>1. CASE JobCommands(c)
  <2> DEFINE job == [jobs[c] EXCEPT !.commanded = TRUE]
  <2>1. jobs' = [jobs EXCEPT ![c] = job] /\ jobs[c].trusted
    BY <1>1, Typed DEF JobCommands
  <2>2. /\ job \in Job /\ job.device = jobs[c].device /\ job.site = jobs[c].site
        /\ job.trusted = jobs[c].trusted /\ job.since = jobs[c].since
        /\ job.result = "none"
    BY <1>a DEF Job
  <2> HIDE DEF job
  <2>3. /\ jobs' \in [Calls -> Job \cup {None}] /\ jobs'[c] = job /\ job # None
        /\ \A d \in Calls : d # c => jobs'[d] = jobs[d]
    BY <2>1, <2>2, Typed, Basics
  <2> QED BY <1>a, <2>1, <2>2, <2>3 DEF JobsMove
<1>2. CASE JobReturns(c)
  <2>1. PICK result \in {"ok", "failed"} :
          /\ result = "ok" => jobs[c].commanded
          /\ jobs' = [jobs EXCEPT ![c].result = result]
    BY <1>2 DEF JobReturns, MayReturn
  <2> DEFINE job == [jobs[c] EXCEPT !.result = result]
  <2>2. jobs' = [jobs EXCEPT ![c] = job]
    BY <2>1, Typed
  <2>3. /\ job \in Job /\ job.device = jobs[c].device /\ job.site = jobs[c].site
        /\ job.trusted = jobs[c].trusted /\ job.since = jobs[c].since
        /\ job.result = result /\ job.commanded = jobs[c].commanded
    BY <1>a DEF Job
  <2> HIDE DEF job
  <2>4. /\ jobs' \in [Calls -> Job \cup {None}] /\ jobs'[c] = job /\ job # None
        /\ \A d \in Calls : d # c => jobs'[d] = jobs[d]
    BY <2>2, <2>3, Typed, Basics
  <2> QED BY <1>a, <2>1, <2>3, <2>4 DEF JobsMove, JobTrue
<1> QED BY <1>1, <1>2

LEMMA RestartMoves ==
    ASSUME Inv, Restart
    PROVE  JobsMove
<1>1. \A c \in Calls : jobs[c] # None /\ jobs[c].result = "none" =>
        LET job == [jobs[c] EXCEPT !.result = "killed"]
        IN  /\ job \in Job /\ job.device = jobs[c].device /\ job.site = jobs[c].site
            /\ job.trusted = jobs[c].trusted /\ job.since = jobs[c].since
            /\ job.result = "killed" /\ job.commanded = jobs[c].commanded
  <2> SUFFICES ASSUME NEW c \in Calls, jobs[c] # None
               PROVE  LET job == [jobs[c] EXCEPT !.result = "killed"]
                      IN  /\ job \in Job
                          /\ job.device = jobs[c].device /\ job.site = jobs[c].site
                          /\ job.trusted = jobs[c].trusted /\ job.since = jobs[c].since
                          /\ job.result = "killed" /\ job.commanded = jobs[c].commanded
    OBVIOUS
  <2>1. jobs[c] \in Job
    BY Typed
  <2> QED BY <2>1 DEF Job
<1>2. jobs' = [c \in Calls |->
                 IF jobs[c] # None /\ jobs[c].result = "none"
                 THEN [jobs[c] EXCEPT !.result = "killed"] ELSE jobs[c]]
  BY DEF Restart
<1>3. jobs' \in [Calls -> Job \cup {None}]
  BY <1>1, <1>2, Typed
<1>4. ASSUME NEW c \in Calls, jobs'[c] # jobs[c]
      PROVE  /\ jobs[c] # None /\ jobs'[c] # None /\ jobs[c].result = "none"
             /\ jobs'[c].device = jobs[c].device /\ jobs'[c].site = jobs[c].site
             /\ jobs'[c].trusted = jobs[c].trusted /\ jobs'[c].since = jobs[c].since
             /\ jobs'[c].result = "ok" => jobs'[c].commanded
             /\ jobs'[c].commanded => jobs'[c].trusted
  <2>1. /\ jobs[c] # None /\ jobs[c].result = "none"
        /\ jobs'[c] = [jobs[c] EXCEPT !.result = "killed"]
    BY <1>2, <1>4
  <2>2. jobs'[c] # None
    BY <1>1, <2>1, Basics
  <2>3. JobTrue(c)
    BY DEF Inv
  <2> QED BY <1>1, <2>1, <2>2, <2>3 DEF JobTrue
<1> QED BY <1>3, <1>4 DEF JobsMove

\* No row speaks of a job that still moves.
LEMMA JobsKeepLogs ==
    ASSUME Inv, JobsMove, UNCHANGED <<config, logs, wakes, edits>>
    PROVE  LogsTrue' /\ \A c \in Calls : JobTrue(c)' /\ FreshJob(c)'
<1>a. LogsTrue /\ \A c \in Calls : JobTrue(c) /\ FreshJob(c)
  BY DEF Inv
<1>1. \A e \in events : EventTrue(e)'
  <2> SUFFICES ASSUME NEW e \in events PROVE EventTrue(e)'
    OBVIOUS
  <2>1. EventTrue(e) /\ e.call \in Calls
    BY <1>a, Typed DEF LogsTrue, Event
  <2>2. jobs'[e.call] = jobs[e.call]
    BY <2>1 DEF JobsMove, EventTrue, Over
  <2> QED BY <2>1, <2>2 DEF EventTrue, Over
<1>2. \A a \in audit : AuditTrue(a)'
  <2> SUFFICES ASSUME NEW a \in audit, a.call # None PROVE AuditTrue(a)'
    BY DEF AuditTrue
  <2>1. AuditTrue(a) /\ a.call \in Calls
    BY <1>a, Typed DEF LogsTrue, AuditRow
  <2>2. jobs'[a.call] = jobs[a.call]
    BY <2>1 DEF JobsMove, AuditTrue, Over
  <2> QED BY <2>1, <2>2 DEF AuditTrue, Over
<1>3. LogsTrue'
  BY <1>a, <1>1, <1>2 DEF LogsTrue, logs
<1>4. \A c \in Calls : JobTrue(c)' /\ FreshJob(c)'
  BY <1>a DEF JobsMove, JobTrue, FreshJob, config
<1> QED BY <1>3, <1>4

\* A step of the provider.
LEMMA JobKeeps ==
    ASSUME Inv, NEW c \in Calls, JobCommands(c) \/ JobReturns(c)
    PROVE  Inv'
<1>a. JobsMove /\ UNCHANGED <<config, logs, task, wakes, edits, budget>>
  BY JobMoves
<1>b. \A d \in Calls : jobs[d] = None <=> jobs'[d] = None
  BY <1>a DEF JobsMove
<1>1. \A r \in Requests : Fits(r)' /\ Honest(r)' /\ Fresh(r)'
  <2> SUFFICES ASSUME NEW r \in Requests PROVE Fits(r)' /\ Honest(r)' /\ Fresh(r)'
    OBVIOUS
  <2>1. Fits(r) /\ Honest(r) /\ Fresh(r) /\ task[r] \in Task
    BY Typed DEF Inv
  <2>2. Fits(r)' /\ Fresh(r)'
    BY <1>a, <2>1 DEF Fits, Fresh, config
  <2>3. CASE task[r].call \in Calls
    <3>a. PICK k \in Calls : k = task[r].call
      BY <2>3
    <3>b. task'[r] = task[r] /\ events' = events /\ audit' = audit
      BY <1>a DEF logs
    <3>1. /\ jobs[k] = None <=> jobs'[k] = None
          /\ jobs[k] # None =>
               jobs'[k].device = jobs[k].device /\ jobs'[k].site = jobs[k].site
      BY <1>a, <1>b DEF JobsMove
    <3>2. Over(k) => jobs'[k] = jobs[k]
      BY <1>a DEF JobsMove, Over
    <3>3. task[r].pc \in Asking => Unborn(k)'
      BY <2>1, <3>a, <3>b, <3>1 DEF Honest, Unborn, Unlogged
    <3>4. task[r].pc \in Waiting =>
            /\ jobs'[k] # None /\ Unlogged(k)'
            /\ jobs'[k].device = task[r].device /\ jobs'[k].site = task[r].site
      BY <2>1, <3>a, <3>b, <3>1 DEF Honest, Unlogged
    <3>5. task[r].pc = "insert_event" => Over(k)' /\ task[r].action = Outcome(k)'
      BY <2>1, <3>a, <3>2 DEF Honest, Over, Outcome
    <3>6. task[r].pc = "audit" =>
            /\ Over(k)' /\ jobs'[k].device = task[r].device
            /\ task[r].action = Outcome(k)'
      BY <2>1, <3>a, <3>2, Basics DEF Honest, Over, Outcome
    <3> QED BY <2>2, <3>a, <3>b, <3>3, <3>4, <3>5, <3>6 DEF Honest
  <2>4. CASE task[r].call = None
    <3>1. task[r].pc \notin Asking \cup Waiting
      BY <2>1, <2>4, Basics DEF Fits
    <3> QED BY <1>a, <2>2, <2>4, <3>1 DEF Honest, Asking, Waiting
  <2> QED BY <2>1, <2>2, <2>3, <2>4 DEF Task
<1>2. TypeOK'
  <2>1. \A r \in Requests :
          /\ task'[r].pc \in {"wait", "insert_event"} => jobs'[task'[r].call] # None
          /\ task'[r].pc \in {"insert_event", "audit"} <=> task'[r].action # None
    BY <1>1 DEF Fits, Honest, Waiting
  <2> QED BY <1>a, <2>1 DEF Inv, TypeOK, JobsMove, config, logs, budget
<1>3. Distinct' /\ DevicesHaveSites'
  BY <1>a DEF Inv, Distinct, DevicesHaveSites, config
<1>4. EveryCallIsRecorded'
  BY <1>a, <1>b DEF Inv, EveryCallIsRecorded, Undisturbed, At, logs, budget
<1> QED BY <1>a, <1>1, <1>2, <1>3, <1>4, JobsKeepLogs DEF Inv

\* A restart.
LEMMA RestartKeeps ==
    ASSUME Inv, Restart
    PROVE  Inv'
<1>a. /\ UNCHANGED <<config, logs, wakes, edits, faults>>
      /\ task' = [r \in Requests |-> Idle]
      /\ drops < MaxDrops /\ drops' = drops + 1
  BY DEF Restart
<1>b. Idle \in Task /\ Idle.pc = "idle" /\ Idle.call = None /\ Idle.action = None
      /\ Idle.since = 0
  BY DEF Idle, Task, Labels
<1>1. \A r \in Requests : task'[r] = Idle
  BY <1>a
<1>2. \A r \in Requests : Fits(r)' /\ Honest(r)' /\ Fresh(r)'
  BY <1>a, <1>b, <1>1, Typed DEF Fits, Honest, Fresh, Asking, Waiting
<1>3. TypeOK'
  <2>1. task' \in [Requests -> Task] /\ drops' \in 0 .. MaxDrops
    BY <1>a, <1>b, Typed, Basics
  <2> QED BY <1>a, <1>b, <1>1, <2>1, RestartMoves
          DEF Inv, TypeOK, JobsMove, config, logs
<1>4. Distinct' /\ DevicesHaveSites'
  BY <1>a, <1>b, <1>1 DEF Inv, Distinct, DevicesHaveSites, config
<1>5. EveryCallIsRecorded'
  BY <1>a, Typed DEF EveryCallIsRecorded, Undisturbed
<1> QED BY <1>a, <1>2, <1>3, <1>4, <1>5, RestartMoves, JobsKeepLogs DEF Inv

\* A statement of a site handler: what was read before is no longer fresh.
LEMMA SiteKeeps ==
    ASSUME Inv, SiteInserted \/ SiteChanged \/ SiteDeleted
    PROVE  Inv'
<1>a. /\ edits' = edits + 1 /\ edits < MaxEdits
      /\ UNCHANGED <<nextDevice, logs, task, jobs, wakes, budget>>
  BY DEF SiteInserted, SiteChanged, SiteDeleted, Edit
<1>b. /\ sites' \in [SiteIds -> SiteRow \cup {None}]
      /\ nextSite' \in 1 .. MaxSites + 1
      /\ devices' \in [DeviceIds -> DeviceRow \cup {None}]
      /\ DevicesHaveSites'
  <2>1. CASE SiteInserted
    <3> DEFINE row == [enabled |-> TRUE, trusted |-> FALSE, secret |-> FALSE]
    <3>1. /\ nextSite <= MaxSites /\ sites' = [sites EXCEPT ![nextSite] = row]
          /\ nextSite' = nextSite + 1 /\ UNCHANGED devices
      BY <2>1 DEF SiteInserted
    <3>2. row \in SiteRow
      BY DEF SiteRow
    <3> HIDE DEF row
    <3>3. /\ sites' \in [SiteIds -> SiteRow \cup {None}]
          /\ \A s \in SiteIds : sites'[s] = sites[s] \/ sites'[s] # None
      BY <3>1, <3>2, Typed, Basics
    <3>4. nextSite' \in 1 .. MaxSites + 1
      BY <3>1, Typed, Basics DEF Inv, TypeOK
    <3> QED BY <3>1, <3>3, <3>4, Typed DEF Inv, DevicesHaveSites, DeviceRow
  <2>2. CASE SiteChanged
    <3>1. PICK s \in SiteIds, b \in BOOLEAN :
            /\ sites[s] # None
            /\ \/ sites' = [sites EXCEPT ![s].enabled = b]
               \/ sites' = [sites EXCEPT ![s].trusted = b]
               \/ sites' = [sites EXCEPT ![s].secret = TRUE]
      BY <2>2 DEF SiteChanged
    <3>2. sites[s] \in SiteRow
      BY <3>1, Typed
    <3>3. \E row \in SiteRow : sites' = [sites EXCEPT ![s] = row]
      <4>1. CASE sites' = [sites EXCEPT ![s].enabled = b]
        <5>1. [sites[s] EXCEPT !.enabled = b] \in SiteRow
          BY <3>2 DEF SiteRow
        <5> QED BY <4>1, <5>1, Typed
      <4>2. CASE sites' = [sites EXCEPT ![s].trusted = b]
        <5>1. [sites[s] EXCEPT !.trusted = b] \in SiteRow
          BY <3>2 DEF SiteRow
        <5> QED BY <4>2, <5>1, Typed
      <4>3. CASE sites' = [sites EXCEPT ![s].secret = TRUE]
        <5>1. [sites[s] EXCEPT !.secret = TRUE] \in SiteRow
          BY <3>2 DEF SiteRow
        <5> QED BY <4>3, <5>1, Typed
      <4> QED BY <3>1, <4>1, <4>2, <4>3
    <3>4. PICK row \in SiteRow : sites' = [sites EXCEPT ![s] = row]
      BY <3>3
    <3>5. /\ sites' \in [SiteIds -> SiteRow \cup {None}]
          /\ \A x \in SiteIds : sites'[x] = sites[x] \/ sites'[x] # None
      BY <3>4, Typed, Basics
    <3>6. UNCHANGED <<nextSite, devices>>
      BY <2>2 DEF SiteChanged
    <3> QED BY <3>5, <3>6, Typed DEF Inv, TypeOK, DevicesHaveSites, DeviceRow
  <2>3. CASE SiteDeleted
    <3>1. PICK s \in SiteIds : /\ sites' = [sites EXCEPT ![s] = None]
                               /\ devices' = DevicesWithout(s)
      BY <2>3 DEF SiteDeleted
    <3>2. sites' \in [SiteIds -> SiteRow \cup {None}]
          /\ \A x \in SiteIds : x # s => sites'[x] = sites[x]
      BY <3>1, Typed
    <3>3. devices' \in [DeviceIds -> DeviceRow \cup {None}]
          /\ \A d \in DeviceIds : devices'[d] # None =>
               devices'[d] = devices[d] /\ devices[d].site # s
      BY <3>1, Typed DEF DevicesWithout
    <3>4. DevicesHaveSites'
      BY <3>2, <3>3, Typed DEF Inv, DevicesHaveSites, DeviceRow
    <3>5. UNCHANGED nextSite
      BY <2>3 DEF SiteDeleted
    <3> QED BY <3>2, <3>3, <3>4, <3>5 DEF Inv, TypeOK
  <2> QED BY <2>1, <2>2, <2>3
<1>1. \A r \in Requests : Fits(r)' /\ Honest(r)' /\ Fresh(r)'
  <2> SUFFICES ASSUME NEW r \in Requests PROVE Fits(r)' /\ Honest(r)' /\ Fresh(r)'
    OBVIOUS
  <2>1. Fits(r) /\ Honest(r) /\ task[r].since \in Nat
    BY Typed DEF Inv, Task
  <2>2. task[r].since <= edits' /\ task[r].since # edits'
    BY <1>a, <2>1, Typed DEF Fits
  <2>3. Fits(r)' /\ Fresh(r)'
    BY <1>a, <2>1, <2>2 DEF Fits, Fresh
  <2>4. Honest(r)'
    BY <1>a, <2>1 DEF Honest, Unborn, Unlogged, Over, Outcome, logs
  <2> QED BY <2>3, <2>4
<1>2. \A c \in Calls : JobTrue(c)' /\ FreshJob(c)'
  <2> SUFFICES ASSUME NEW c \in Calls, jobs[c] # None PROVE JobTrue(c)' /\ FreshJob(c)'
    BY <1>a DEF JobTrue, FreshJob
  <2>1. JobTrue(c) /\ jobs[c].since \in Nat
    BY Typed DEF Inv, Job
  <2>2. jobs[c].since <= edits' /\ jobs[c].since # edits'
    BY <1>a, <2>1, Typed DEF JobTrue
  <2> QED BY <1>a, <2>1, <2>2 DEF JobTrue, FreshJob
<1>3. TypeOK'
  <2>1. edits' \in 0 .. MaxEdits
    BY <1>a, Typed, Basics
  <2> QED BY <1>a, <1>b, <2>1 DEF Inv, TypeOK, logs, budget
<1>4. LogsTrue'
  BY <1>a DEF Inv, LogsTrue, EventTrue, AuditTrue, Over, logs
<1>5. Distinct' /\ EveryCallIsRecorded'
  BY <1>a DEF Inv, Distinct, EveryCallIsRecorded, Undisturbed, At, logs, budget
<1> QED BY <1>b, <1>1, <1>2, <1>3, <1>4, <1>5 DEF Inv

-------------------------------------------------------------------------------
(* Every step.                                                             *)

LEMMA RequestKeeps ==
    ASSUME Inv, NEW r \in Requests, StepOf(r)
    PROVE  Inv'
<1>1. \A q \in Requests : Fits(q)' /\ Honest(q)' /\ Fresh(q)'
  BY StepMoves, OthersKept DEF Moves
<1>2. TypeOK'
  <2>1. /\ task' \in [Requests -> Task] /\ jobs' \in [Calls -> Job \cup {None}]
    BY StepMoves DEF Moves, Touches
  <2>2. \A q \in Requests :
          /\ task'[q].pc \in {"wait", "insert_event"} => jobs'[task'[q].call] # None
          /\ task'[q].pc \in {"insert_event", "audit"} <=> task'[q].action # None
    BY <1>1 DEF Fits, Honest, Waiting
  <2>3. /\ sites' \in [SiteIds -> SiteRow \cup {None}]
        /\ nextSite' \in 1 .. MaxSites + 1
        /\ edits' \in 0 .. MaxEdits
    BY StepConfig, Typed, Basics DEF Inv, TypeOK
  <2> QED BY <2>1, <2>2, <2>3, StepConfig, StepBudget, StepKeepsLogs DEF TypeOK
<1> QED BY <1>1, <1>2, StepConfig, StepKeepsLogs, StepKeepsRecords DEF Inv

LEMMA InitHolds == Init => Inv
<1> SUFFICES ASSUME Init PROVE Inv
  OBVIOUS
<1>a. /\ events = {} /\ audit = {} /\ task = [r \in Requests |-> Idle]
      /\ jobs = [c \in Calls |-> None]
      /\ wakes = 0 /\ edits = 0 /\ faults = 0 /\ drops = 0
  BY DEF Init
<1>b. Idle \in Task /\ Idle.pc = "idle" /\ Idle.call = None /\ Idle.action = None
      /\ Idle.since = 0
  BY DEF Idle, Task, Labels
<1>1. \A r \in Requests : task[r] = Idle
  BY <1>a
<1>2. \A r \in Requests : Fits(r) /\ Honest(r) /\ Fresh(r)
  <2> SUFFICES ASSUME NEW r \in Requests PROVE Fits(r) /\ Honest(r) /\ Fresh(r)
    OBVIOUS
  <2>1. /\ task[r].pc = "idle" /\ task[r].call = None /\ task[r].action = None
        /\ task[r].since = 0
    BY <1>b, <1>1
  <2>2. Fits(r)
    BY <1>a, <2>1 DEF Fits, Asking, Waiting
  <2>3. Honest(r) /\ Fresh(r)
    BY <2>1 DEF Honest, Fresh, Asking, Waiting
  <2> QED BY <2>2, <2>3
<1>3. TypeOK
  <2>1. task \in [Requests -> Task] /\ jobs \in [Calls -> Job \cup {None}]
    BY <1>a, <1>b
  <2>2. /\ wakes \in 0 .. MaxWakes /\ edits \in 0 .. MaxEdits
        /\ faults \in 0 .. MaxFaults /\ drops \in 0 .. MaxDrops
    BY <1>a, Basics
  <2> QED BY <1>a, <1>b, <1>1, <2>1, <2>2 DEF Init, TypeOK
<1>4. DevicesHaveSites
  BY DEF Init, DevicesHaveSites
<1>5. LogsTrue /\ Distinct /\ EveryCallIsRecorded
  BY <1>a, <1>b, <1>1 DEF LogsTrue, Distinct, EveryCallIsRecorded
<1>6. \A c \in Calls : JobTrue(c) /\ FreshJob(c)
  BY <1>a DEF JobTrue, FreshJob
<1> QED BY <1>2, <1>3, <1>4, <1>5, <1>6 DEF Inv

LEMMA StepKeeps == Inv /\ [Next]_vars => Inv'
<1> SUFFICES ASSUME Inv, [Next]_vars PROVE Inv'
  OBVIOUS
<1>1. CASE UNCHANGED vars
  <2> USE <1>1 DEF vars, config, logs, budget
  <2>1. TypeOK' /\ Distinct' /\ DevicesHaveSites' /\ EveryCallIsRecorded'
    BY DEF Inv, TypeOK, Distinct, DevicesHaveSites, EveryCallIsRecorded, Undisturbed, At
  <2>2. \A r \in Requests : Fits(r)' /\ Honest(r)' /\ Fresh(r)'
    BY DEF Inv, Fits, Honest, Fresh, Unborn, Unlogged, Over, Outcome
  <2>3. LogsTrue' /\ \A c \in Calls : JobTrue(c)' /\ FreshJob(c)'
    BY DEF Inv, LogsTrue, EventTrue, AuditTrue, Over, JobTrue, FreshJob
  <2> QED BY <2>1, <2>2, <2>3 DEF Inv
<1> QED BY <1>1, RequestKeeps, JobKeeps, RestartKeeps, SiteKeeps DEF Next, StepOf

\* The strengthening holds in every reachable state.
LEMMA InvariantHolds == Spec => []Inv
BY InitHolds, StepKeeps, PTL DEF Spec

\* Every reachable state is well typed, and a handler that waits or records has a
\* call with a job.
THEOREM TypeCorrect == Spec => []TypeOK
<1>1. Inv => TypeOK
  BY DEF Inv
<1> QED BY <1>1, InvariantHolds, PTL

\* No order of device and site handlers leaves a device without its site.
THEOREM DevicesKeepSites == Spec => []DevicesHaveSites
<1>1. Inv => DevicesHaveSites
  BY DEF Inv
<1> QED BY <1>1, InvariantHolds, PTL

\* History and audit log agree with what the provider did, and with each other,
\* for any number of wakes, faults, drops and restarts.
THEOREM HistoryStaysTrue == Spec => []HistoryIsTrue
<1>1. ASSUME Inv PROVE HistoryIsTrue
  <2>1. ASSUME NEW e \in events
        PROVE  LET job == jobs[e.call]
               IN  IF job = None THEN e.status = "failed"
                   ELSE /\ e.device = job.device /\ e.site = job.site
                        /\ e.status = "success" <=> job.result = "ok"
                        /\ e.status = "success" => job.commanded
    <3>1. e.call \in Calls /\ EventTrue(e) /\ JobTrue(e.call)
      BY <1>1, Typed DEF Inv, LogsTrue, Event
    <3> QED BY <3>1 DEF EventTrue, JobTrue
  <2> QED BY <1>1, <2>1 DEF Inv, LogsTrue, AuditTrue, Over, HistoryIsTrue
<1> QED BY <1>1, InvariantHolds, PTL

\* Without faults and drops, each job is awaited, about to be recorded, or in
\* the history and then the audit log.
THEOREM CallsStayRecorded == Spec => []EveryCallIsRecorded
<1>1. Inv => EveryCallIsRecorded
  BY DEF Inv
<1> QED BY <1>1, InvariantHolds, PTL

\* Whatever else happens, a command for an inventory that was not edited since
\* its request arrived is one that inventory allows.
THEOREM WakesFollowInventory == Spec => []WakeFollowsInventory
<1>1. Inv => WakeFollowsInventory
  BY DEF Inv, JobTrue, FreshJob, WakeFollowsInventory
<1> QED BY <1>1, InvariantHolds, PTL

-------------------------------------------------------------------------------
(* Jobs and the provider.                                                  *)

Provider(c) == INSTANCE ProviderJob
    WITH trusted <- jobs[c].trusted, commanded <- jobs[c].commanded,
         result <- jobs[c].result

\* Call c takes a step that changes nothing else.
OnlyCall(c) ==
    /\ jobs' = [jobs EXCEPT ![c].commanded = jobs'[c].commanded,
                            ![c].result = jobs'[c].result]
    /\ UNCHANGED <<config, logs, task, wakes, edits, budget>>

\* A job starts as a provider call does and takes only its steps, unless a restart
\* ends it.
JobsFollow ==
    \A c \in Calls :
        /\ jobs[c] = None /\ jobs'[c] # None => Provider(c)!Init'
        /\ jobs[c] # None => [Provider(c)!Next]_(Provider(c)!vars) \/ Restart

\* The steps of one call are those of the provider.
LEMMA CallSteps ==
    ASSUME TypeOK, NEW c \in Calls, jobs[c] # None
    PROVE  /\ JobCommands(c) \/ JobReturns(c) => OnlyCall(c) /\ Provider(c)!Next
           /\ OnlyCall(c) /\ Provider(c)!Next => JobCommands(c) \/ JobReturns(c)
<1>a. jobs[c] \in Job /\ jobs \in [Calls -> Job \cup {None}]
  BY DEF TypeOK
<1> USE DEF Provider!Next, Provider!Command, Provider!Return
<1>1. ASSUME JobCommands(c)
      PROVE  OnlyCall(c) /\ Provider(c)!Next
  <2> DEFINE job == [jobs[c] EXCEPT !.commanded = TRUE]
  <2>1. jobs' = [jobs EXCEPT ![c] = job] /\ jobs[c].trusted /\ ~jobs[c].commanded
        /\ jobs[c].result = "none"
        /\ UNCHANGED <<config, logs, task, wakes, edits, budget>>
    BY <1>1, <1>a DEF JobCommands
  <2>2. /\ job.commanded = TRUE /\ job.result = jobs[c].result
        /\ job.trusted = jobs[c].trusted
        /\ job = [jobs[c] EXCEPT !.commanded = TRUE, !.result = job.result]
    BY <1>a DEF Job
  <2> HIDE DEF job
  <2>3. jobs'[c] = job
    BY <2>1, <1>a
  <2>4. jobs' = [jobs EXCEPT ![c] = [@ EXCEPT !.commanded = jobs'[c].commanded,
                                              !.result = jobs'[c].result]]
    BY <2>1, <2>2, <2>3, <1>a
  <2>5. OnlyCall(c)
    BY <2>1, <2>4, <1>a DEF OnlyCall
  <2> QED BY <2>1, <2>2, <2>3, <2>5
<1>2. ASSUME JobReturns(c)
      PROVE  OnlyCall(c) /\ Provider(c)!Next
  <2>0. PICK result \in {"ok", "failed"} :
          /\ result = "ok" => jobs[c].commanded
          /\ jobs' = [jobs EXCEPT ![c].result = result]
    BY <1>2 DEF JobReturns, MayReturn
  <2> DEFINE job == [jobs[c] EXCEPT !.result = result]
  <2>1. jobs' = [jobs EXCEPT ![c] = job] /\ jobs[c].result = "none"
        /\ UNCHANGED <<config, logs, task, wakes, edits, budget>>
    BY <1>2, <2>0, <1>a DEF JobReturns
  <2>2. /\ job.commanded = jobs[c].commanded /\ job.result = result
        /\ job.trusted = jobs[c].trusted
        /\ job = [jobs[c] EXCEPT !.commanded = job.commanded, !.result = result]
    BY <1>a DEF Job
  <2> HIDE DEF job
  <2>3. jobs'[c] = job
    BY <2>1, <1>a
  <2>4. jobs' = [jobs EXCEPT ![c] = [@ EXCEPT !.commanded = jobs'[c].commanded,
                                              !.result = jobs'[c].result]]
    BY <2>1, <2>2, <2>3, <1>a
  <2>5. OnlyCall(c)
    BY <2>1, <2>4, <1>a DEF OnlyCall
  <2> QED BY <2>0, <2>1, <2>2, <2>3, <2>5
<1>3. ASSUME OnlyCall(c), Provider(c)!Command
      PROVE  JobCommands(c)
  <2>1. /\ jobs[c].result = "none" /\ jobs[c].trusted /\ ~jobs[c].commanded
        /\ jobs'[c].commanded = TRUE /\ jobs'[c].result = jobs[c].result
    BY <1>3
  <2>2. jobs' = [jobs EXCEPT ![c] = [@ EXCEPT !.commanded = TRUE]]
    BY <1>3, <2>1, <1>a DEF OnlyCall, Job
  <2> QED BY <1>3, <2>1, <2>2, <1>a DEF OnlyCall, JobCommands
<1>4. ASSUME OnlyCall(c), Provider(c)!Return
      PROVE  JobReturns(c)
  <2>1. PICK result \in {"ok", "failed"} :
          /\ jobs[c].result = "none" /\ (result = "ok" => jobs[c].commanded)
          /\ jobs'[c].result = result /\ jobs'[c].commanded = jobs[c].commanded
    BY <1>4
  <2>2. jobs' = [jobs EXCEPT ![c] = [@ EXCEPT !.result = result]]
    BY <1>4, <2>1, <1>a DEF OnlyCall, Job
  <2> QED BY <1>4, <2>1, <2>2, <1>a DEF OnlyCall, JobReturns, MayReturn
<1> QED BY <1>1, <1>2, <1>3, <1>4

\* Whatever a provider call of ProviderJob does, Wake allows its job to do at that
\* moment: what is shown of the handlers holds for every provider that keeps
\* ProviderJob, as the session with the router does (CallIsProviderJob of
\* RouterSessionProofs).
THEOREM ProviderStepsAreAllowed ==
    ASSUME TypeOK, NEW c \in Calls, jobs[c] # None, OnlyCall(c), Provider(c)!Next
    PROVE  JobCommands(c) \/ JobReturns(c)
BY CallSteps

\* The jobs of Wake are calls of ProviderJob: no step of a handler, of another
\* request or of a site form makes a job send, return or start over.
THEOREM JobsAreProviderCalls == Spec => [][JobsFollow]_vars
<1>1. ASSUME Inv, [Next]_vars, ~UNCHANGED vars, NEW c \in Calls
      PROVE  /\ jobs[c] = None /\ jobs'[c] # None => Provider(c)!Init'
             /\ jobs[c] # None => [Provider(c)!Next]_(Provider(c)!vars) \/ Restart
  <2>1. ASSUME UNCHANGED jobs
        PROVE  jobs'[c] = jobs[c] /\ [Provider(c)!Next]_(Provider(c)!vars)
    BY <2>1 DEF Provider!vars
  <2>2. ASSUME NEW r \in Requests, GetSecret(r), jobs'[c] # jobs[c]
        PROVE  jobs[c] = None /\ Provider(c)!Init'
    <3>1. c = task[r].call /\ Unborn(c)
      BY <1>1, <2>2, StepMoves DEF Touches, StepOf, Step
    <3> DEFINE job == [device |-> task[r].device, site |-> task[r].site,
                       trusted |-> task[r].trusted, since |-> task[r].since,
                       commanded |-> FALSE, result |-> "none"]
    <3>2. jobs' = [jobs EXCEPT ![c] = job]
      BY <2>2, <3>1 DEF GetSecret
    <3>3. /\ job.commanded = FALSE /\ job.result = "none"
          /\ job.trusted = task[r].trusted /\ task[r].trusted \in BOOLEAN
      BY <1>1, Typed DEF Task
    <3> HIDE DEF job
    <3>4. jobs'[c] = job
      BY <1>1, <3>2, Typed
    <3> QED BY <3>1, <3>3, <3>4 DEF Unborn, Provider!Init
  <2>3. ASSUME NEW d \in Calls, JobCommands(d) \/ JobReturns(d), d # c
        PROVE  jobs'[c] = jobs[c] /\ [Provider(c)!Next]_(Provider(c)!vars)
    <3>1. jobs'[c] = jobs[c]
      BY <1>1, <2>3, Typed DEF JobCommands, JobReturns
    <3> QED BY <3>1 DEF Provider!vars
  <2>4. ASSUME JobCommands(c) \/ JobReturns(c)
        PROVE  jobs[c] # None /\ Provider(c)!Next
    BY <1>1, <2>4, CallSteps DEF JobCommands, JobReturns, Inv
  <2>5. CASE UNCHANGED jobs
    BY <2>1, <2>5
  <2>6. CASE \E r \in Requests : GetSecret(r)
    BY <2>2, <2>6 DEF Provider!vars
  <2>7. CASE \E d \in Calls : JobCommands(d) \/ JobReturns(d)
    BY <2>3, <2>4, <2>7
  <2>8. CASE Restart
    BY <1>1, <2>8 DEF Restart
  <2>9. ASSUME NEW r \in Requests, StepOf(r), ~GetSecret(r)
        PROVE  UNCHANGED jobs
    <3>1. CASE AcceptCreate(r) \/ AcceptUpdate(r) \/ AcceptDelete(r)
               \/ AcceptWake(r) \/ Drop(r)
      BY <3>1 DEF AcceptCreate, AcceptUpdate, AcceptDelete, AcceptWake, Arrive, Drop
    <3>2. CASE CheckSite(r) \/ InsertDevice(r) \/ UpdateDevice(r) \/ DeleteDevice(r)
      BY <3>2 DEF CheckSite, InsertDevice, UpdateDevice, DeleteDevice
    <3>3. CASE GetDevice(r) \/ GetSite(r) \/ ReadFails(r) \/ MissSecret(r)
      BY <3>3 DEF GetDevice, GetSite, ReadFails, MissSecret
    <3>4. CASE JobAwaited(r) \/ InsertEvent(r) \/ RefusedEvent(r) \/ Audit(r)
      BY <3>4 DEF JobAwaited, InsertEvent, RefusedEvent, Audit
    <3> QED BY <2>9, <3>1, <3>2, <3>3, <3>4 DEF StepOf, Step
  <2>10. CASE SiteInserted \/ SiteChanged \/ SiteDeleted
    BY <2>1, <2>10 DEF SiteInserted, SiteChanged, SiteDeleted
  <2> QED BY <1>1, <2>5, <2>6, <2>7, <2>8, <2>9, <2>10 DEF Next, StepOf
<1>2. Inv /\ [Next]_vars => [JobsFollow]_vars
  BY <1>1 DEF JobsFollow
<1> QED BY <1>2, InvariantHolds, PTL DEF Spec

-------------------------------------------------------------------------------
(* The tables of the site handlers.                                        *)

Stored == {s \in SiteIds : sites[s] # None}
Trusted == {s \in SiteIds : sites[s] # None /\ sites[s].trusted}
Secrets == {s \in SiteIds : sites[s] # None /\ sites[s].secret}

Table == INSTANCE SiteTable
    WITH Sites <- SiteIds, next <- nextSite, stored <- Stored,
         trusted <- Trusted, secrets <- Secrets

\* AUTOINCREMENT: no id is handed out twice.
FreshIds == \A s \in SiteIds : s >= nextSite => sites[s] = None

\* A step of the table that concerns nothing else: a row keeps its enabled, a new
\* one has its default, and a deletion takes the devices of the site with it.
SitesOnly ==
    /\ sites' \in [SiteIds -> SiteRow \cup {None}]
    /\ \A s \in Stored' \cap Stored : sites'[s].enabled = sites[s].enabled
    /\ \A s \in Stored' \ Stored : sites'[s].enabled = TRUE
    /\ devices' = [d \in DeviceIds |->
                      IF devices[d] # None /\ devices[d].site \notin Stored'
                      THEN None ELSE devices[d]]
    /\ Edit
    /\ UNCHANGED <<nextDevice, logs, task, jobs, wakes, budget>>

\* A row that a step of the table leaves alone.
LEMMA RowStays ==
    ASSUME TypeOK, SitesOnly, NEW s \in SiteIds,
           s \in Stored' <=> s \in Stored, s \in Trusted' <=> s \in Trusted,
           s \in Secrets' <=> s \in Secrets
    PROVE  sites'[s] = sites[s]
<1>1. sites[s] \in SiteRow \cup {None} /\ sites'[s] \in SiteRow \cup {None}
  BY DEF TypeOK, SitesOnly
<1>2. CASE sites[s] = None
  BY <1>2 DEF Stored
<1>3. CASE sites[s] # None
  <2>1. s \in Stored /\ s \in Stored'
    <3>1. s \in Stored
      BY <1>3 DEF Stored
    <3> QED BY <3>1
  <2>2. sites'[s] # None /\ sites'[s].enabled = sites[s].enabled
    <3>1. sites'[s] # None
      BY <2>1 DEF Stored
    <3> QED BY <2>1, <3>1 DEF SitesOnly
  <2>3. sites'[s].trusted <=> sites[s].trusted
    BY <1>3, <2>2 DEF Trusted
  <2>4. sites'[s].secret <=> sites[s].secret
    BY <1>3, <2>2 DEF Secrets
  <2> QED BY <1>1, <1>3, <2>2, <2>3, <2>4 DEF SiteRow
<1> QED BY <1>2, <1>3

\* The devices stay when no site goes.
LEMMA DevicesStay ==
    ASSUME TypeOK, DevicesHaveSites, SitesOnly, Stored \subseteq Stored'
    PROVE  devices' = devices
<1>1. /\ devices \in [DeviceIds -> DeviceRow \cup {None}]
      /\ devices' = [d \in DeviceIds |->
                        IF devices[d] # None /\ devices[d].site \notin Stored'
                        THEN None ELSE devices[d]]
  BY DEF TypeOK, SitesOnly
<1>2. \A d \in DeviceIds : devices[d] # None => devices[d].site \in Stored'
  BY <1>1 DEF DevicesHaveSites, DeviceRow, Stored
<1> QED BY <1>1, <1>2

\* Whatever SiteTable does to the sites, Wake may do at any time, as long as its
\* bound lasts.  SiteTrust keeps SiteTable (TableKept of SiteAuditProofs): what is
\* shown here of wakes holds while those handlers run.
THEOREM TableStepsAreAllowed ==
    ASSUME TypeOK, DevicesHaveSites, FreshIds, SitesOnly, Table!Next
    PROVE  SiteInserted \/ SiteChanged \/ SiteDeleted
<1>a. /\ sites \in [SiteIds -> SiteRow \cup {None}]
      /\ sites' \in [SiteIds -> SiteRow \cup {None}]
      /\ nextSite \in 1 .. MaxSites + 1 /\ Edit
      /\ UNCHANGED <<nextDevice, logs, task, jobs, wakes, budget>>
  BY DEF TypeOK, SitesOnly
<1>b. Stored \subseteq SiteIds /\ None \notin SiteRow
  BY Basics DEF Stored
<1>1. CASE Table!Insert
  <2>1. /\ nextSite \in SiteIds /\ nextSite' = nextSite + 1
        /\ Stored' = Stored \cup {nextSite}
        /\ Trusted' = Trusted /\ Secrets' = Secrets
    BY <1>1 DEF Table!Insert
  <2>2. nextSite <= MaxSites /\ nextSite \notin Stored
    BY <1>a, <2>1, Basics DEF FreshIds, Stored, SiteIds
  <2>3. \A s \in SiteIds : s # nextSite => sites'[s] = sites[s]
    BY <2>1, RowStays
  <2>4. sites'[nextSite] \in SiteRow /\ sites'[nextSite] # None
    BY <1>a, <2>1 DEF Stored
  <2>5. /\ sites'[nextSite].enabled = TRUE
        /\ sites'[nextSite].trusted = FALSE /\ sites'[nextSite].secret = FALSE
    <3>1. sites'[nextSite].enabled = TRUE
      BY <2>1, <2>2 DEF SitesOnly
    <3>2. nextSite \notin Trusted' /\ nextSite \notin Secrets'
      BY <2>1, <2>2 DEF Trusted, Secrets, Stored
    <3>3. /\ ~sites'[nextSite].trusted /\ ~sites'[nextSite].secret
          /\ sites'[nextSite].trusted \in BOOLEAN /\ sites'[nextSite].secret \in BOOLEAN
      BY <2>1, <2>4, <3>2 DEF Trusted, Secrets, SiteRow
    <3> QED BY <3>1, <3>3
  <2>6. sites'[nextSite] = [enabled |-> TRUE, trusted |-> FALSE, secret |-> FALSE]
    BY <2>4, <2>5 DEF SiteRow
  <2>7. sites' = [sites EXCEPT ![nextSite] =
                     [enabled |-> TRUE, trusted |-> FALSE, secret |-> FALSE]]
    BY <1>a, <2>3, <2>6
  <2>8. UNCHANGED devices
    BY <2>1, DevicesStay
  <2> QED BY <1>a, <2>1, <2>2, <2>7, <2>8 DEF SiteInserted
<1>2. ASSUME NEW s \in Stored, Table!Trust(s) \/ Table!Distrust(s) \/ Table!Store(s)
      PROVE  SiteChanged
  <2>1. /\ Stored' = Stored /\ nextSite' = nextSite /\ s \in SiteIds
        /\ \/ Secrets' = Secrets /\ (Trusted' = Trusted \cup {s}
                                     \/ Trusted' = Trusted \ {s})
           \/ Trusted' = Trusted /\ Secrets' = Secrets \cup {s}
    BY <1>2, <1>b DEF Table!Trust, Table!Distrust, Table!Store
  <2>2. \A q \in SiteIds : q # s => sites'[q] = sites[q]
    BY <2>1, RowStays
  <2>3. /\ sites[s] # None /\ sites[s] \in SiteRow
        /\ sites'[s] # None /\ sites'[s] \in SiteRow
        /\ sites'[s].enabled = sites[s].enabled
    <3>1. s \in Stored' /\ sites[s] # None
      BY <2>1 DEF Stored
    <3>2. sites'[s] # None
      BY <3>1 DEF Stored
    <3>3. sites'[s].enabled = sites[s].enabled
      BY <3>1 DEF SitesOnly
    <3> QED BY <1>a, <2>1, <3>1, <3>2, <3>3
  <2>4. CASE Secrets' = Secrets
    <3>1. sites'[s].secret = sites[s].secret
      BY <2>1, <2>3, <2>4 DEF Secrets, SiteRow
    <3>2. sites'[s].trusted \in BOOLEAN
      BY <2>3 DEF SiteRow
    <3>3. sites'[s] = [sites[s] EXCEPT !.trusted = sites'[s].trusted]
      BY <2>3, <3>1 DEF SiteRow
    <3>4. sites' = [sites EXCEPT ![s].trusted = sites'[s].trusted]
      BY <1>a, <2>2, <3>3
    <3>5. \E b \in BOOLEAN : sites' = [sites EXCEPT ![s].trusted = b]
      BY <3>2, <3>4
    <3> QED BY <1>a, <2>1, <2>3, <3>5, DevicesStay DEF SiteChanged
  <2>5. CASE Trusted' = Trusted /\ Secrets' = Secrets \cup {s}
    <3>1. sites'[s].trusted = sites[s].trusted
      BY <2>1, <2>3, <2>5 DEF Trusted, SiteRow
    <3>2. sites'[s].secret = TRUE
      BY <2>3, <2>5 DEF Secrets, SiteRow
    <3>3. sites'[s] = [sites[s] EXCEPT !.secret = TRUE]
      BY <2>3, <3>1, <3>2 DEF SiteRow
    <3>4. sites' = [sites EXCEPT ![s].secret = TRUE]
      BY <1>a, <2>2, <3>3
    <3> QED BY <1>a, <2>1, <2>3, <3>4, DevicesStay DEF SiteChanged
  <2> QED BY <2>1, <2>4, <2>5
<1>3. ASSUME NEW s \in Stored, Table!Delete(s)
      PROVE  SiteDeleted
  <2>1. /\ Stored' = Stored \ {s} /\ Trusted' = Trusted \ {s}
        /\ Secrets' = Secrets \ {s} /\ nextSite' = nextSite /\ s \in SiteIds
    BY <1>3, <1>b DEF Table!Delete
  <2>2. \A q \in SiteIds : q # s => sites'[q] = sites[q]
    BY <2>1, RowStays
  <2>3. sites[s] # None /\ sites'[s] = None
    BY <2>1 DEF Stored
  <2>4. sites' = [sites EXCEPT ![s] = None]
    BY <1>a, <2>2, <2>3
  <2>5. devices' = DevicesWithout(s)
    <3>1. \A d \in DeviceIds : devices[d] # None =>
            (devices[d].site \notin Stored' <=> devices[d].site = s)
      BY <2>1 DEF TypeOK, DevicesHaveSites, DeviceRow, Stored
    <3> QED BY <3>1 DEF SitesOnly, DevicesWithout
  <2> QED BY <1>a, <2>1, <2>3, <2>4, <2>5 DEF SiteDeleted
<1> QED BY <1>1, <1>2, <1>3 DEF Table!Next

\* Ids are fresh, and Wake does no more to the table than SiteTable.
LEMMA TableStep ==
    ASSUME Inv, FreshIds, [Next]_vars
    PROVE  FreshIds' /\ [Table!Next]_(Table!vars)
<1>a. /\ sites \in [SiteIds -> SiteRow \cup {None}] /\ nextSite \in 1 .. MaxSites + 1
      /\ None \notin SiteRow /\ SiteIds \subseteq Nat
  BY Basics DEF Inv, TypeOK
<1> USE DEF Table!Next, Table!Insert, Table!Trust, Table!Distrust, Table!Store,
            Table!Delete
<1>1. CASE UNCHANGED <<sites, nextSite>>
  BY <1>1 DEF FreshIds, Table!vars, Stored, Trusted, Secrets
<1>2. CASE SiteInserted
  <2> DEFINE row == [enabled |-> TRUE, trusted |-> FALSE, secret |-> FALSE]
  <2>1. /\ nextSite \in SiteIds /\ nextSite' = nextSite + 1
        /\ sites' = [sites EXCEPT ![nextSite] = row]
    BY <1>2, <1>a, Basics DEF SiteInserted, SiteIds
  <2>2. row # None /\ row.trusted = FALSE /\ row.secret = FALSE
    <3>1. row \in SiteRow
      BY DEF SiteRow
    <3> QED BY <1>a, <3>1
  <2> HIDE DEF row
  <2>3. /\ sites'[nextSite] = row /\ sites[nextSite] = None
        /\ \A s \in SiteIds : s # nextSite => sites'[s] = sites[s]
    BY <1>a, <2>1 DEF FreshIds
  <2>4. FreshIds'
    BY <1>a, <2>1, <2>3 DEF FreshIds
  <2>5. /\ Stored' = Stored \cup {nextSite}
        /\ Trusted' = Trusted /\ Secrets' = Secrets
    BY <2>1, <2>2, <2>3 DEF Stored, Trusted, Secrets
  <2> QED BY <2>1, <2>4, <2>5
<1>3. CASE SiteChanged
  <2>1. PICK s \in SiteIds, b \in BOOLEAN :
          /\ sites[s] # None
          /\ \/ sites' = [sites EXCEPT ![s].enabled = b]
             \/ sites' = [sites EXCEPT ![s].trusted = b]
             \/ sites' = [sites EXCEPT ![s].secret = TRUE]
    BY <1>3 DEF SiteChanged
  <2>2. UNCHANGED nextSite /\ sites[s] \in SiteRow /\ s \in Stored
    BY <1>3, <1>a, <2>1 DEF SiteChanged, Stored
  <2>3. ASSUME NEW row \in SiteRow, sites' = [sites EXCEPT ![s] = row]
        PROVE  /\ FreshIds' /\ Stored' = Stored /\ sites'[s] = row /\ row # None
               /\ \A q \in SiteIds : q # s => sites'[q] = sites[q]
    BY <1>a, <2>1, <2>2, <2>3 DEF FreshIds, Stored
  <2>4. CASE sites' = [sites EXCEPT ![s].enabled = b]
    <3> DEFINE row == [sites[s] EXCEPT !.enabled = b]
    <3>1. /\ row \in SiteRow /\ row.trusted = sites[s].trusted
          /\ row.secret = sites[s].secret
      BY <2>2 DEF SiteRow
    <3>2. sites' = [sites EXCEPT ![s] = row]
      BY <1>a, <2>4
    <3> HIDE DEF row
    <3>3. /\ FreshIds' /\ Stored' = Stored /\ sites'[s] = row /\ row # None
          /\ \A q \in SiteIds : q # s => sites'[q] = sites[q]
      BY <2>3, <3>1, <3>2
    <3>4. Trusted' = Trusted
      BY <2>1, <3>1, <3>3 DEF Trusted
    <3>5. Secrets' = Secrets
      BY <2>1, <3>1, <3>3 DEF Secrets
    <3> QED BY <2>2, <3>3, <3>4, <3>5 DEF Table!vars
  <2>5. CASE sites' = [sites EXCEPT ![s].trusted = b]
    <3> DEFINE row == [sites[s] EXCEPT !.trusted = b]
    <3>1. row \in SiteRow /\ row.trusted = b /\ row.secret = sites[s].secret
      BY <2>2 DEF SiteRow
    <3>2. sites' = [sites EXCEPT ![s] = row]
      BY <1>a, <2>5
    <3> HIDE DEF row
    <3>3. FreshIds' /\ Stored' = Stored /\ Secrets' = Secrets
      BY <2>1, <2>3, <3>1, <3>2 DEF Secrets
    <3>4. Trusted' = Trusted \cup {s} \/ Trusted' = Trusted \ {s}
      <4>1. CASE b = TRUE
        BY <2>1, <2>3, <3>1, <3>2, <4>1 DEF Trusted
      <4>2. CASE b = FALSE
        BY <2>1, <2>3, <3>1, <3>2, <4>2 DEF Trusted
      <4> QED BY <4>1, <4>2
    <3> QED BY <2>2, <3>3, <3>4
  <2>6. CASE sites' = [sites EXCEPT ![s].secret = TRUE]
    <3> DEFINE row == [sites[s] EXCEPT !.secret = TRUE]
    <3>1. row \in SiteRow /\ row.trusted = sites[s].trusted /\ row.secret = TRUE
      BY <2>2 DEF SiteRow
    <3>2. sites' = [sites EXCEPT ![s] = row]
      BY <1>a, <2>6
    <3> HIDE DEF row
    <3>3. /\ FreshIds' /\ Stored' = Stored /\ sites'[s] = row /\ row # None
          /\ \A q \in SiteIds : q # s => sites'[q] = sites[q]
      BY <2>3, <3>1, <3>2
    <3>4. Trusted' = Trusted
      BY <2>1, <3>1, <3>3 DEF Trusted
    <3>5. Secrets' = Secrets \cup {s}
      BY <2>1, <3>1, <3>3 DEF Secrets
    <3> QED BY <2>2, <3>3, <3>4, <3>5
  <2> QED BY <2>1, <2>4, <2>5, <2>6
<1>4. CASE SiteDeleted
  <2>1. PICK s \in SiteIds : sites[s] # None /\ sites' = [sites EXCEPT ![s] = None]
    BY <1>4 DEF SiteDeleted
  <2>2. /\ UNCHANGED nextSite /\ sites'[s] = None /\ s \in Stored
        /\ \A q \in SiteIds : q # s => sites'[q] = sites[q]
    BY <1>4, <1>a, <2>1 DEF SiteDeleted, Stored
  <2>3. /\ FreshIds' /\ Stored' = Stored \ {s}
        /\ Trusted' = Trusted \ {s} /\ Secrets' = Secrets \ {s}
    BY <2>2 DEF FreshIds, Stored, Trusted, Secrets
  <2> QED BY <2>2, <2>3
<1>5. ASSUME NEW r \in Requests, StepOf(r)
      PROVE  UNCHANGED <<sites, nextSite>>
  <2>1. CASE AcceptCreate(r) \/ AcceptUpdate(r) \/ AcceptDelete(r) \/ AcceptWake(r)
             \/ Drop(r)
    BY <2>1 DEF AcceptCreate, AcceptUpdate, AcceptDelete, AcceptWake, Arrive, Drop,
       config
  <2>2. CASE CheckSite(r) \/ InsertDevice(r) \/ UpdateDevice(r) \/ DeleteDevice(r)
    BY <2>2 DEF CheckSite, InsertDevice, UpdateDevice, DeleteDevice, Fault, config
  <2>3. CASE GetDevice(r) \/ GetSite(r) \/ ReadFails(r) \/ GetSecret(r) \/ MissSecret(r)
    BY <2>3 DEF GetDevice, GetSite, ReadFails, GetSecret, MissSecret, Fault, config
  <2>4. CASE JobAwaited(r) \/ InsertEvent(r) \/ RefusedEvent(r) \/ Audit(r)
    BY <2>4 DEF JobAwaited, InsertEvent, RefusedEvent, Audit, Fault, config
  <2> QED BY <1>5, <2>1, <2>2, <2>3, <2>4 DEF StepOf, Step
<1>6. CASE Restart \/ \E c \in Calls : JobCommands(c) \/ JobReturns(c)
  BY <1>1, <1>6 DEF Restart, JobCommands, JobReturns, config
<1> QED BY <1>1, <1>2, <1>3, <1>4, <1>5, <1>6 DEF Next, StepOf, vars, config

\* In Wake too, the sites change as SiteTable says, and no way else: what the
\* devices, the wakes and the jobs do leaves them alone.
THEOREM SitesFollowTable == Spec => Table!Spec
<1>1. Init => Table!Init /\ FreshIds
  <2> SUFFICES ASSUME Init PROVE Table!Init /\ FreshIds
    OBVIOUS
  <2>1. FreshIds /\ nextSite \in Nat
    BY Basics DEF Init, FreshIds
  <2>2. \A s \in Stored : s \in SiteIds /\ s < nextSite
    BY <2>1, Basics DEF FreshIds, Stored
  <2>3. Trusted \subseteq Stored /\ Secrets \subseteq Stored
    BY DEF Stored, Trusted, Secrets
  <2> QED BY <2>1, <2>2, <2>3 DEF Table!Init
<1> QED BY <1>1, TableStep, InvariantHolds, PTL DEF Spec, Table!Spec

-------------------------------------------------------------------------------
(* Requests come to an end.                                                *)

\* How many statements and waits request r has before it at most.
StepsLeft(r) ==
    CASE task[r].pc = "get_device" -> 6
      [] task[r].pc = "get_site" -> 5
      [] task[r].pc = "get_secret" -> 4
      [] task[r].pc \in {"check_site_new", "check_site_old", "wait"} -> 3
      [] task[r].pc \in {"insert_device", "update_device", "delete_device",
                         "insert_event"} -> 2
      [] task[r].pc \in {"refused_event", "audit"} -> 1
      [] task[r].pc = "idle" -> 0

\* Every step of a request brings its reply nearer, and nothing takes it back.
RequestAdvances(r) ==
    /\ Step(r) => StepsLeft(r)' < StepsLeft(r)
    /\ ~At(r, "idle") => StepsLeft(r)' <= StepsLeft(r)

\* Whatever the others do, and whichever statements fail, no handler repeats a
\* statement or a provider call: a request is answered after six steps of its
\* own at most.  What WakesAreRecorded adds is that each of them comes.
THEOREM RequestsAdvance == Spec => [][\A r \in Requests : RequestAdvances(r)]_vars
<1>1. ASSUME Inv, NEW r \in Requests, Reply(r), ~At(r, "idle")
      PROVE  StepsLeft(r)' < StepsLeft(r)
  <2>1. Idle \in Task /\ Idle.pc = "idle"
    BY DEF Idle, Task, Labels
  <2>2. task'[r].pc = "idle"
    BY <1>1, <2>1, Moved DEF Reply
  <2>3. task[r].pc \in Labels
    BY <1>1, Typed DEF Task
  <2> QED BY <1>1, <2>2, <2>3 DEF StepsLeft, Labels, At
<1>2. ASSUME Inv, NEW r \in Requests, NEW pc \in Labels, GoTo(r, pc)
      PROVE  task'[r].pc = pc
  BY <1>2, WentTo
<1>3. ASSUME Inv, NEW r \in Requests, Step(r)
      PROVE  StepsLeft(r)' < StepsLeft(r)
  <2> USE DEF At
  <2>0. task[r] \in Task /\ ~At(r, "idle")
    BY <1>3, Typed DEF Step, CheckSite, InsertDevice, UpdateDevice, DeleteDevice,
       GetDevice, GetSite, ReadFails, GetSecret, MissSecret, JobAwaited, InsertEvent,
       RefusedEvent, Audit
  <2>1. CASE Reply(r)
    BY <1>1, <1>3, <2>0, <2>1
  <2>2. CASE CheckSite(r) /\ ~Reply(r)
    <3>1. PICK pc \in {"insert_device", "update_device"} : GoTo(r, pc)
      BY <2>2 DEF CheckSite
    <3>2. task'[r].pc = pc
      BY <1>2, <1>3, <3>1 DEF Labels
    <3> QED BY <2>2, <3>2 DEF CheckSite, StepsLeft
  <2>3. ASSUME NEW d, NEW action, GoAudit(r, d, action)
        PROVE  task'[r].pc = "audit"
    BY <1>3, <2>3, Typed DEF GoAudit, Idle
  <2>4. CASE (InsertDevice(r) \/ UpdateDevice(r) \/ DeleteDevice(r)) /\ ~Reply(r)
    <3>1. task'[r].pc = "audit"
      BY <2>3, <2>4 DEF InsertDevice, UpdateDevice, DeleteDevice
    <3> QED BY <2>4, <3>1 DEF InsertDevice, UpdateDevice, DeleteDevice, StepsLeft
  <2>5. CASE GetDevice(r) /\ ~Reply(r)
    <3>1. task'[r].pc = "get_site"
      BY <1>3, <2>0, <2>5, Typed DEF GetDevice, Task
    <3> QED BY <2>5, <3>1 DEF GetDevice, StepsLeft
  <2>6. CASE GetSite(r) /\ ~Reply(r)
    <3>1. task'[r].pc = "get_secret"
      BY <1>3, <2>0, <2>6, Typed DEF GetSite, Task
    <3> QED BY <2>6, <3>1 DEF GetSite, StepsLeft
  <2>7. CASE GetSecret(r)
    <3>1. task'[r].pc = "wait"
      BY <1>2, <1>3, <2>7 DEF GetSecret, Labels
    <3> QED BY <2>7, <3>1 DEF GetSecret, StepsLeft
  <2>8. CASE MissSecret(r) /\ ~Reply(r)
    <3>1. task'[r].pc = "refused_event"
      BY <1>2, <1>3, <2>8 DEF MissSecret, Refuse, Labels
    <3> QED BY <2>8, <3>1 DEF MissSecret, StepsLeft
  <2>9. CASE JobAwaited(r)
    <3>1. task'[r].pc = "insert_event"
      BY <1>3, <2>0, <2>9, Typed DEF JobAwaited, Task
    <3> QED BY <2>9, <3>1 DEF JobAwaited, StepsLeft
  <2>10. CASE InsertEvent(r)
    <3>1. task'[r].pc = "audit"
      BY <2>3, <2>10 DEF InsertEvent
    <3> QED BY <2>10, <3>1 DEF InsertEvent, StepsLeft
  <2> QED
    BY <1>3, <2>1, <2>2, <2>4, <2>5, <2>6, <2>7, <2>8, <2>9, <2>10
       DEF Step, ReadFails, RefusedEvent, Audit
<1>4. ASSUME Inv, [Next]_vars, NEW r \in Requests, ~At(r, "idle"), ~Step(r)
      PROVE  StepsLeft(r)' <= StepsLeft(r)
  <2>0. task[r].pc \in Labels
    BY <1>4, Typed DEF Task
  <2>1. ASSUME task'[r] = task[r]
        PROVE  StepsLeft(r)' <= StepsLeft(r)
    BY <2>0, <2>1 DEF StepsLeft, Labels
  <2>2. ASSUME task'[r].pc = "idle"
        PROVE  StepsLeft(r)' <= StepsLeft(r)
    BY <2>0, <2>2 DEF StepsLeft, Labels
  <2>3. CASE UNCHANGED task
    BY <2>1, <2>3
  <2>4. CASE StepOf(r)
    <3>1. Drop(r)
      BY <1>4, <2>4 DEF StepOf, AcceptCreate, AcceptUpdate, AcceptDelete, AcceptWake,
         Arrive
    <3>2. Reply(r)
      BY <3>1 DEF Drop
    <3>3. StepsLeft(r)' < StepsLeft(r)
      BY <1>1, <1>4, <3>2
    <3> HIDE DEF StepsLeft
    <3>4. StepsLeft(r)' \in Nat /\ StepsLeft(r) \in Nat
      <4>1. task'[r].pc = "idle"
        BY <1>4, <3>2, Moved, Typed DEF Reply, Idle
      <4> QED BY <2>0, <4>1 DEF StepsLeft, Labels
    <3> QED BY <3>3, <3>4
  <2>5. CASE \E q \in Requests : q # r /\ StepOf(q)
    <3>1. task'[r] = task[r]
      BY <1>4, <2>5, StepMoves DEF Moves
    <3> QED BY <2>1, <3>1
  <2>6. CASE Restart
    <3>1. task'[r].pc = "idle"
      BY <2>6 DEF Restart, Idle
    <3> QED BY <2>2, <3>1
  <2>7. CASE SiteInserted \/ SiteChanged \/ SiteDeleted
             \/ \E c \in Calls : JobCommands(c) \/ JobReturns(c)
    BY <2>3, <2>7 DEF SiteInserted, SiteChanged, SiteDeleted, JobCommands, JobReturns
  <2> QED
    BY <1>4, <2>3, <2>4, <2>5, <2>6, <2>7 DEF Next, StepOf, vars
<1>5. ASSUME Inv, [Next]_vars, NEW r \in Requests
      PROVE  RequestAdvances(r)
  <2>1. ASSUME Step(r)
        PROVE  StepsLeft(r) \in Nat /\ StepsLeft(r)' \in Nat
    <3>1. task[r].pc \in Labels /\ task'[r].pc \in Labels
      BY <1>5, <2>1, StepMoves, Typed DEF Moves, StepOf, Task
    <3> QED BY <3>1 DEF StepsLeft, Labels
  <2> HIDE DEF StepsLeft
  <2>2. Step(r) => StepsLeft(r)' <= StepsLeft(r)
    BY <1>3, <1>5, <2>1
  <2> QED BY <1>3, <1>4, <1>5, <2>2 DEF RequestAdvances
<1>6. Inv /\ [Next]_vars => [\A r \in Requests : RequestAdvances(r)]_vars
  BY <1>5
<1> QED BY <1>6, InvariantHolds, PTL DEF Spec
===================================================================================
