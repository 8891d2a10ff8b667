---------------------------- MODULE SiteAuditProofs ----------------------------
(* The audit log of SiteTrust is truthful, and complete while nothing      *)
(* fails, and no site is left without its credential, for every value of   *)
(* the constants: any number of sites, requests and sessions.              *)
EXTENDS SiteTrustProofs

\* The labels of a request whose site has had its id.
Numbered ==
    {"store_new", "undo_insert", "update_site", "clear_fingerprint",
     "upsert_secret", "audit_created", "audit_updated", "audit_deleted",
     "audit_trusted"}

\* Ids in the log and in the hands of requests were handed out, so that a new
\* site has no history.
NumbersUsed ==
    /\ \A e \in audit : e.site < nextSite
    /\ \A r \in Requests : task[r].pc \in Numbered => task[r].site < nextSite

\* What is logged, or about to be, as deleted is gone for good.
DeletedStayGone ==
    \A s \in SiteIds :
        Audited(s, "site_deleted") \/ Doing(s, {"audit_deleted"}) => ~Exists(s)

\* What is logged, or about to be, as created keeps its credential.
CreatedHaveSecrets ==
    \A s \in SiteIds :
        /\ Audited(s, "site_created") \/ Doing(s, {"audit_created"})
        /\ Exists(s)
        => s \in secrets

AuditFacts == NumbersUsed /\ DeletedStayGone /\ CreatedHaveSecrets

\* A step that adds no row, drops none and logs nothing.
LEMMA QuietStepKeepsFacts ==
    ASSUME TypeOK, FreshIds, AuditFacts, NEW r \in Requests,
           UNCHANGED <<nextSite, audit>>, secrets \subseteq secrets',
           \A s \in SiteIds : Exists(s)' <=> Exists(s),
           \A q \in Requests \ {r} : task'[q] = task[q],
           \/ task'[r] = Idle
           \/ /\ task'[r].site = task[r].site
              /\ task'[r].pc # "audit_deleted"
              /\ task'[r].pc = "audit_created" => task[r].site \in secrets'
              /\ task'[r].pc \in Numbered =>
                   \/ task[r].pc \in Numbered
                   \/ task[r].site \in SiteIds /\ Exists(task[r].site)
    PROVE  AuditFacts'
<1> Idle.pc \notin Numbered /\ Idle.pc = "idle"
    BY DEF Idle, Numbered
<1>1. NumbersUsed'
  BY DEF AuditFacts, NumbersUsed, FreshIds
<1>2. DeletedStayGone'
  BY DEF AuditFacts, DeletedStayGone, Audited, Doing
<1>3. CreatedHaveSecrets'
  <2> SUFFICES ASSUME NEW s \in SiteIds, Exists(s)',
                      (Audited(s, "site_created") \/ Doing(s, {"audit_created"}))'
               PROVE  s \in secrets'
      BY DEF CreatedHaveSecrets
  <2>1. CASE Audited(s, "site_created")'
    BY <2>1 DEF AuditFacts, CreatedHaveSecrets, Audited
  <2>2. ASSUME NEW q \in Requests, task'[q].site = s, task'[q].pc = "audit_created"
        PROVE  s \in secrets'
    <3>1. CASE q # r
      BY <2>2, <3>1 DEF AuditFacts, CreatedHaveSecrets, Doing
    <3>2. CASE q = r
      BY <2>2, <3>2
    <3> QED BY <3>1, <3>2
  <2> QED BY <2>1, <2>2 DEF Doing
<1> QED BY <1>1, <1>2, <1>3 DEF AuditFacts

\* The row that a request inserts has a new id, which nothing speaks of yet.
LEMMA InsertSiteKeepsFacts ==
    ASSUME TypeOK, FreshIds, AuditFacts, NEW r \in Requests, InsertSite(r)
    PROVE  AuditFacts'
<1>a. /\ task \in [Requests -> Task] /\ nextSite \in Nat
      /\ sites \in [SiteIds -> SiteRow \cup {None}]
  BY DEF TypeOK, TasksOK, StoreOK
<1>1. CASE Reply(r) /\ UNCHANGED store
  BY <1>1, <1>a, QuietStepKeepsFacts DEF Reply, store, Exists
<1>2. CASE /\ nextSite <= MaxSites /\ nextSite' = nextSite + 1
           /\ task' = [task EXCEPT ![r].pc = "store_new", ![r].site = nextSite]
           /\ UNCHANGED <<secrets, audit>>
           /\ \E c \in Conns :
                sites' = [sites EXCEPT ![nextSite] = [conn |-> c, fp |-> None, via |-> None]]
  <2>1. task'[r].pc = "store_new" /\ task'[r].site = nextSite
    BY <1>a, <1>2 DEF Task
  <2>2. \A q \in Requests \ {r} : task'[q] = task[q]
    BY <1>a, <1>2
  <2>3. \A s \in SiteIds : s # nextSite => (Exists(s)' <=> Exists(s))
    BY <1>a, <1>2 DEF Exists
  <2>4. \A s \in SiteIds :
          /\ Audited(s, "site_deleted")' => Audited(s, "site_deleted") /\ s # nextSite
          /\ Audited(s, "site_created")' => Audited(s, "site_created") /\ s # nextSite
    BY <1>a, <1>2 DEF AuditFacts, NumbersUsed, Audited, SiteIds
  <2>5. \A s \in SiteIds :
          /\ Doing(s, {"audit_deleted"})' => Doing(s, {"audit_deleted"}) /\ s # nextSite
          /\ Doing(s, {"audit_created"})' => Doing(s, {"audit_created"}) /\ s # nextSite
    BY <1>a, <2>1, <2>2 DEF AuditFacts, NumbersUsed, Doing, Numbered, SiteIds
  <2>6. NumbersUsed'
    <3>1. \A e \in audit' : e.site < nextSite'
      BY <1>a, <1>2 DEF AuditFacts, NumbersUsed, TypeOK, StoreOK, AuditRow, SiteIds
    <3>2. ASSUME NEW q \in Requests, task'[q].pc \in Numbered
          PROVE  task'[q].site < nextSite'
      <4>1. CASE q = r
        BY <1>a, <1>2, <2>1, <4>1
      <4>2. CASE q # r
        <5>1. task[q].site \in SiteIds
          BY <1>a, <2>2, <3>2, <4>2 DEF TypeOK, TasksOK, TaskShape, Task, Numbered
        <5> QED BY <1>a, <1>2, <2>2, <3>2, <4>2, <5>1 DEF AuditFacts, NumbersUsed, SiteIds
      <4> QED BY <4>1, <4>2
    <3> QED BY <3>1, <3>2 DEF NumbersUsed
  <2>7. DeletedStayGone'
    BY <2>3, <2>4, <2>5 DEF AuditFacts, DeletedStayGone
  <2>8. CreatedHaveSecrets'
    BY <1>2, <2>3, <2>4, <2>5 DEF AuditFacts, CreatedHaveSecrets
  <2> QED BY <2>6, <2>7, <2>8 DEF AuditFacts
<1> QED BY <1>1, <1>2 DEF InsertSite, NewId

\* A deleted row takes its credential along, and its id is not used again.
LEMMA DropRowKeepsFacts ==
    ASSUME TypeOK, FreshIds, AuditFacts, NEW r \in Requests,
           NEW s \in SiteIds, DropRow(s), task[r].site = s,
           \/ task'= [task EXCEPT ![r] = Idle]
           \/ task' = [task EXCEPT ![r].pc = "audit_deleted"] /\ s < nextSite
    PROVE  AuditFacts'
<1>a. /\ task \in [Requests -> Task]
      /\ sites \in [SiteIds -> SiteRow \cup {None}]
  BY DEF TypeOK, TasksOK, StoreOK
<1>b. UNCHANGED <<nextSite, audit>> /\ secrets' = secrets \ {s}
  BY DEF DropRow
<1>1. ~Exists(s)' /\ \A q \in SiteIds \ {s} : Exists(q)' <=> Exists(q)
  BY <1>a DEF DropRow, Exists
<1>2. \A q \in Requests \ {r} : task'[q] = task[q]
  BY <1>a
<1>3. \/ task'[r] = Idle
      \/ task'[r].pc = "audit_deleted" /\ task'[r].site = s /\ s < nextSite
  BY <1>a DEF Task
<1> Idle.pc \notin Numbered /\ Idle.pc = "idle"
  BY DEF Idle, Numbered
<1>4. NumbersUsed'
  BY <1>b, <1>2, <1>3 DEF AuditFacts, NumbersUsed
<1>5. DeletedStayGone'
  <2> SUFFICES ASSUME NEW q \in SiteIds, q # s,
                      (Audited(q, "site_deleted") \/ Doing(q, {"audit_deleted"}))'
               PROVE  ~Exists(q)'
      BY <1>1 DEF DeletedStayGone
  <2>1. Audited(q, "site_deleted") \/ Doing(q, {"audit_deleted"})
    BY <1>b, <1>2, <1>3 DEF Audited, Doing
  <2> QED BY <1>1, <2>1 DEF AuditFacts, DeletedStayGone
<1>6. CreatedHaveSecrets'
  <2> SUFFICES ASSUME NEW q \in SiteIds, q # s, Exists(q)',
                      (Audited(q, "site_created") \/ Doing(q, {"audit_created"}))'
               PROVE  q \in secrets'
      BY <1>1 DEF CreatedHaveSecrets
  <2>1. Audited(q, "site_created") \/ Doing(q, {"audit_created"})
    BY <1>b, <1>2, <1>3 DEF Audited, Doing
  <2> QED BY <1>1, <1>b, <2>1 DEF AuditFacts, CreatedHaveSecrets
<1> QED BY <1>4, <1>5, <1>6 DEF AuditFacts

\* A row of audit_events is written by a request that was about to.
LEMMA AuditKeepsFacts ==
    ASSUME TypeOK, FreshIds, AuditFacts, NEW r \in Requests, NEW pc, NEW action,
           <<pc, action>> \in {<<"audit_created", "site_created">>,
                               <<"audit_updated", "site_updated">>,
                               <<"audit_deleted", "site_deleted">>,
                               <<"audit_trusted", "site_host_key_trusted">>},
           Audit(r, pc, action)
    PROVE  AuditFacts'
<1> DEFINE s == task[r].site
           row == [action |-> action, site |-> s]
<1>a. task \in [Requests -> Task] /\ TaskShape(task[r]) /\ task[r].pc = pc
  BY DEF TypeOK, TasksOK, Audit, At
<1>b. s \in SiteIds /\ pc \in Numbered
  BY <1>a DEF TaskShape, Task, Numbered
<1>c. task'[r] = Idle /\ \A q \in Requests \ {r} : task'[q] = task[q]
  BY <1>a DEF Audit, Reply
<1>1. CASE Fault
  BY <1>1, <1>c, QuietStepKeepsFacts DEF Fault, store, Exists
<1>2. CASE audit' = audit \cup {row} /\ UNCHANGED <<sites, secrets, nextSite>>
  <2> Idle.pc \notin Numbered /\ Idle.pc = "idle"
    BY DEF Idle, Numbered
  <2>1. NumbersUsed'
    BY <1>2, <1>a, <1>b, <1>c DEF AuditFacts, NumbersUsed
  <2>2. ASSUME NEW q \in SiteIds
        PROVE  /\ (Audited(q, "site_deleted") \/ Doing(q, {"audit_deleted"}))' =>
                    Audited(q, "site_deleted") \/ Doing(q, {"audit_deleted"})
               /\ (Audited(q, "site_created") \/ Doing(q, {"audit_created"}))' =>
                    Audited(q, "site_created") \/ Doing(q, {"audit_created"})
    <3>1. \A a : Audited(q, a)' => Audited(q, a) \/ (a = action /\ q = s)
      BY <1>2 DEF Audited
    <3>2. \A p : Doing(q, {p})' => Doing(q, {p}) \/ p = "idle"
      BY <1>c DEF Doing
    <3>3. Doing(s, {pc})
      BY <1>a DEF Doing
    <3> QED BY <3>1, <3>2, <3>3
  <2>3. DeletedStayGone'
    BY <1>2, <2>2 DEF AuditFacts, DeletedStayGone, Exists
  <2>4. CreatedHaveSecrets'
    BY <1>2, <2>2 DEF AuditFacts, CreatedHaveSecrets, Exists
  <2> QED BY <2>1, <2>3, <2>4 DEF AuditFacts
<1> QED BY <1>1, <1>2 DEF Audit

\* Any other statement.
LEMMA OtherStepIsQuiet ==
    ASSUME TypeOK, FreshIds, AuditFacts, NEW r \in Requests,
           \/ StoreNew(r) \/ UpsertSecret(r)
           \/ UndoInsert(r) /\ Fault
           \/ DeleteSite(r) /\ UNCHANGED store
           \/ GetOld(r) \/ UpdateSite(r) \/ ClearFingerprint(r)
           \/ GetSite(r) \/ GetSecret(r) \/ TestConnection(r) \/ SetPending(r)
           \/ TakePending(r) \/ StoreFingerprint(r)
           \/ RemoveSession(r) \/ DropPending(r)
    PROVE  AuditFacts'
<1> DEFINE s == task[r].site
<1>a. /\ task \in [Requests -> Task] /\ TaskShape(task[r])
      /\ sites \in [SiteIds -> SiteRow \cup {None}]
  BY DEF TypeOK, TasksOK, StoreOK
<1>b. ASSUME NEW pc, GoTo(r, pc)
      PROVE  /\ task'[r].pc = pc /\ task'[r].site = s
             /\ \A q \in Requests \ {r} : task'[q] = task[q]
  BY <1>a, <1>b DEF GoTo, Task
<1>c. Reply(r) => task'[r] = Idle /\ \A q \in Requests \ {r} : task'[q] = task[q]
  BY <1>a DEF Reply
<1>d. UNCHANGED sites => \A q \in SiteIds : Exists(q)' <=> Exists(q)
  BY DEF Exists
<1>1. CASE StoreNew(r) \/ UpsertSecret(r)
  <2>1. At(r, "store_new") \/ At(r, "upsert_secret")
    BY <1>1 DEF StoreNew, UpsertSecret
  <2>2. UNCHANGED <<sites, nextSite, audit>> /\ secrets \subseteq secrets'
    BY <1>1 DEF StoreNew, UpsertSecret, StoreSecret, Fault, store
  <2>3. \/ Reply(r)
        \/ GoTo(r, "undo_insert")
        \/ GoTo(r, "audit_updated")
        \/ GoTo(r, "audit_created") /\ s \in secrets'
    BY <1>1 DEF StoreNew, UpsertSecret, StoreSecret
  <2> QED BY <2>1, <2>2, <2>3, <1>b, <1>c, <1>d, QuietStepKeepsFacts DEF At, Numbered
<1>2. CASE (UndoInsert(r) /\ Fault) \/ (DeleteSite(r) /\ UNCHANGED store)
  <2>1. Reply(r)
    <3>1. ~(DeleteSite(r) /\ UNCHANGED store /\ Exists(s) /\ DropRow(s))
      BY <1>a, SiteTrustAssumption DEF DeleteSite, At, TaskShape, Task, DropRow, Exists, store
    <3> QED BY <1>2, <3>1 DEF UndoInsert, DeleteSite, Exists
  <2> QED BY <1>2, <2>1, <1>c, <1>d, QuietStepKeepsFacts DEF Fault, store
<1>3. CASE GetOld(r) \/ GetSite(r)
  <2>1. s \in SiteIds
    BY <1>3, <1>a DEF GetOld, GetSite, At, TaskShape, Task
  <2>2. \/ Reply(r)
        \/ /\ Exists(s)
           /\ task'[r].pc \in {"update_site", "get_secret"} /\ task'[r].site = s
           /\ \A q \in Requests \ {r} : task'[q] = task[q]
    BY <1>3, <1>a DEF GetOld, GetSite, Task, Exists
  <2> QED BY <1>3, <2>1, <2>2, <1>c, <1>d, QuietStepKeepsFacts DEF GetOld, GetSite, store
<1>4. CASE UpdateSite(r)
  <2>1. \/ Reply(r)
        \/ /\ task'[r].pc \in {"clear_fingerprint", "upsert_secret", "audit_updated"}
           /\ task'[r].site = s
           /\ \A q \in Requests \ {r} : task'[q] = task[q]
    <3>1. ASSUME NEW c \in Conns, NEW next \in {"upsert_secret", "audit_updated"},
                 task' = [task EXCEPT
                            ![r].pc = IF task[r].row.conn # c
                                      THEN "clear_fingerprint" ELSE next,
                            ![r].row = None]
          PROVE  /\ task'[r].pc \in {"clear_fingerprint", "upsert_secret", "audit_updated"}
                 /\ task'[r].site = s
                 /\ \A q \in Requests \ {r} : task'[q] = task[q]
      <4> DEFINE pc == IF task[r].row.conn # c THEN "clear_fingerprint" ELSE next
      <4>1. task' = [task EXCEPT ![r] = [task[r] EXCEPT !.pc = pc, !.row = None]]
        BY <3>1
      <4>2. pc \in {"clear_fingerprint", "upsert_secret", "audit_updated"}
        OBVIOUS
      <4> HIDE DEF pc
      <4> QED BY <1>a, <4>1, <4>2 DEF Task
    <3> QED BY <1>4, <3>1 DEF UpdateSite
  <2>2. \A q \in SiteIds : Exists(q)' <=> Exists(q)
    BY <1>4, StepOnRows DEF Step, RowsStay, UpdateSite, InsertSite, UndoInsert,
       DeleteSite, ClearFingerprint, StoreFingerprint, At
  <2>3. task[r].pc \in Numbered
    BY <1>4 DEF UpdateSite, At, Numbered
  <2> QED BY <1>4, <2>1, <2>2, <2>3, <1>c, QuietStepKeepsFacts DEF UpdateSite, store
<1>5. CASE ClearFingerprint(r) \/ StoreFingerprint(r)
  <2>1. s \in SiteIds /\ UNCHANGED <<nextSite, audit, secrets>>
    BY <1>5, <1>a DEF ClearFingerprint, StoreFingerprint, At, TaskShape, Task, Fault, store
  <2>2. \A q \in SiteIds : Exists(q)' <=> Exists(q)
    <3>1. \/ RowsStay \/ RowCleared(s) \/ RowTrusted(s, task[r].obs.key)
      BY <1>5, StepOnRows DEF Step, UpdateSite, InsertSite, UndoInsert,
         DeleteSite, ClearFingerprint, StoreFingerprint, At
    <3> QED BY <1>a, <3>1, SiteTrustAssumption DEF RowsStay, RowCleared, RowTrusted, Exists
  <2>3. \/ Reply(r)
        \/ /\ task'[r].pc \in {"upsert_secret", "audit_updated", "audit_trusted"}
           /\ task'[r].site = s /\ (task[r].pc \in Numbered \/ Exists(s))
           /\ \A q \in Requests \ {r} : task'[q] = task[q]
    <3>1. CASE ClearFingerprint(r)
      BY <3>1, <1>b DEF ClearFingerprint, At, Numbered
    <3>2. CASE StoreFingerprint(r)
      BY <3>2, <1>a DEF StoreFingerprint, Exists, Task
    <3> QED BY <1>5, <3>1, <3>2
  <2> QED BY <2>1, <2>2, <2>3, <1>c, QuietStepKeepsFacts
<1>6. CASE \/ GetSecret(r) \/ TestConnection(r) \/ SetPending(r)
           \/ TakePending(r) \/ RemoveSession(r) \/ DropPending(r)
  <2>1. UNCHANGED store
    BY <1>6 DEF GetSecret, TestConnection, SetPending, TakePending,
       RemoveSession, DropPending
  <2>2. \/ task'[r] = Idle
        \/ task'[r].site = s /\ task'[r].pc \in {"test_connection", "set_pending",
                                                 "store_fingerprint", "drop_pending"}
    <3>1. CASE GetSecret(r) \/ RemoveSession(r)
      BY <3>1, <1>b, <1>c DEF GetSecret, RemoveSession
    <3>2. CASE SetPending(r) \/ DropPending(r)
      BY <3>2, <1>c DEF SetPending, DropPending
    <3>3. CASE TestConnection(r)
      <4>1. ASSUME NEW obs, task' = [task EXCEPT ![r].pc = "set_pending",
                                       ![r].row = None, ![r].obs = obs]
            PROVE  task'[r].site = s /\ task'[r].pc = "set_pending"
        BY <1>a, <4>1 DEF Task
      <4> QED BY <3>3, <4>1, <1>c DEF TestConnection
    <3>4. CASE TakePending(r)
      <4>1. ASSUME NEW obs, task' = [task EXCEPT ![r].pc = "store_fingerprint",
                                       ![r].obs = obs]
            PROVE  task'[r].site = s /\ task'[r].pc = "store_fingerprint"
        BY <1>a, <4>1 DEF Task
      <4> QED BY <3>4, <4>1, <1>c DEF TakePending
    <3> QED BY <1>6, <3>1, <3>2, <3>3, <3>4
  <2>3. \A q \in Requests \ {r} : task'[q] = task[q]
    BY <1>6, <1>a DEF GetSecret, TestConnection, SetPending, TakePending,
       RemoveSession, DropPending, Reply, GoTo
  <2>4. task'[r] = Idle \/ task'[r].pc \notin Numbered
    BY <2>2 DEF Numbered
  <2> QED BY <2>1, <2>2, <2>3, <2>4, <1>d, QuietStepKeepsFacts DEF store
<1> QED BY <1>1, <1>2, <1>3, <1>4, <1>5, <1>6 DEF Fault, store

LEMMA NextKeepsFacts ==
    TypeOK /\ FreshIds /\ AuditFacts /\ [Next]_vars => AuditFacts'
<1> SUFFICES ASSUME TypeOK, FreshIds, AuditFacts, [Next]_vars PROVE AuditFacts'
    OBVIOUS
<1>a. \A r \in Requests : TaskShape(task[r]) /\ task[r] \in Task
  BY DEF TypeOK, TasksOK
<1>1. ASSUME NEW r \in Requests, Step(r) PROVE AuditFacts'
  <2>1. CASE InsertSite(r)
    BY <2>1, InsertSiteKeepsFacts
  <2>2. CASE UndoInsert(r) /\ DropRow(task[r].site)
    <3>1. task[r].site \in SiteIds
      BY <1>a, <2>2 DEF UndoInsert, At, TaskShape, Task
    <3> QED BY <2>2, <3>1, DropRowKeepsFacts DEF UndoInsert, Reply
  <2>3. CASE DeleteSite(r) /\ Exists(task[r].site) /\ DropRow(task[r].site) /\ GoTo(r, "audit_deleted")
    <3>1. task[r].site \in SiteIds
      BY <1>a, <2>3 DEF DeleteSite, At, TaskShape, Task
    <3> QED BY <2>3, <3>1, DropRowKeepsFacts DEF GoTo, FreshIds
  <2>4. ASSUME NEW pc, NEW action, Audit(r, pc, action),
               <<pc, action>> \in {<<"audit_created", "site_created">>,
                                   <<"audit_updated", "site_updated">>,
                                   <<"audit_deleted", "site_deleted">>,
                                   <<"audit_trusted", "site_host_key_trusted">>}
        PROVE  AuditFacts'
    BY <2>4, AuditKeepsFacts
  <2>5. CASE \/ UndoInsert(r) /\ Fault
             \/ DeleteSite(r) /\ UNCHANGED store
    BY <2>5, OtherStepIsQuiet
  <2>6. CASE UndoInsert(r) \/ DeleteSite(r)
    BY <2>2, <2>3, <2>5, <2>6 DEF UndoInsert, DeleteSite, Exists, Fault
  <2> QED BY <1>1, <2>1, <2>4, <2>6, OtherStepIsQuiet DEF Step
<1>2. CASE \A r \in Requests : ~Step(r)
  <2>1. UNCHANGED <<sites, nextSite>>
    BY <1>2, EnvironmentKeeps
  <2>2. UNCHANGED <<audit, secrets>>
    BY <1>2 DEF Next, Login, Expire, AcceptCreate, AcceptSiteRequest,
       AcceptLogout, Accept, Drop, Restart, vars, store
  <2>3. \A q \in Requests : task'[q] = task[q] \/ task'[q].pc \notin Numbered
    <3>1. ASSUME NEW r \in Requests, NEW t, NEW s,
                 NEW pc \in {"insert_site", "get_old", "delete_site", "get_site",
                             "take_pending", "remove_session"}, Accept(r, t, s, pc)
          PROVE  \A q \in Requests : task'[q] = task[q] \/ task'[q].pc \notin Numbered
      BY <3>1 DEF Accept, Idle, TypeOK, TasksOK, Numbered
    <3>2. CASE \E t \in Tokens : Login(t) \/ Expire(t)
      BY <3>2 DEF Login, Expire
    <3>3. CASE UNCHANGED vars
      BY <3>3 DEF vars
    <3>4. CASE Restart \/ \E r \in Requests : Drop(r)
      BY <3>4 DEF Restart, Drop, Reply, Idle, TypeOK, TasksOK, Numbered
    <3> QED BY <1>2, <3>1, <3>2, <3>3, <3>4
            DEF Next, AcceptCreate, AcceptSiteRequest, AcceptLogout
  <2>4. \A s \in SiteIds :
          /\ Doing(s, {"audit_deleted"})' => Doing(s, {"audit_deleted"})
          /\ Doing(s, {"audit_created"})' => Doing(s, {"audit_created"})
    BY <2>3 DEF Doing, Numbered
  <2> QED BY <2>1, <2>2, <2>3, <2>4
          DEF AuditFacts, NumbersUsed, DeletedStayGone, CreatedHaveSecrets, Audited, Exists
<1> QED BY <1>1, <1>2

\* An audited deletion is final and an audited creation left a usable site,
\* however many requests race for it and whatever fails or is dropped.
THEOREM AuditStaysTruthful == Spec => []AuditIsTruthful
<1>1. Init => FreshIds /\ AuditFacts
  BY SiteTrustAssumption DEF Init, FreshIds, AuditFacts, NumbersUsed, DeletedStayGone,
     CreatedHaveSecrets, Audited, Doing, Exists, Idle, Numbered
<1>2. AuditFacts => AuditIsTruthful
  BY DEF AuditFacts, NumbersUsed, DeletedStayGone, CreatedHaveSecrets, AuditIsTruthful
<1> QED BY <1>1, <1>2, NextKeepsFresh, NextKeepsFacts, TypeCorrect, PTL DEF Spec

-------------------------------------------------------------------------------
(* No site is left without its credential, and the log accounts for every  *)
(* change.                                                                 *)

\* The labels of site_create from the insertion of its row to its audit row.
Creating == {"store_new", "undo_insert", "audit_created"}

\* The other labels at which a request owes an audit row.
Owing == {"audit_deleted", "audit_trusted"}

\* A new site is in the hands of the one request that inserted it,
OneCreator ==
    \A q, r \in Requests :
        /\ task[q].pc \in Creating /\ task[r].pc \in Creating
        /\ task[q].site = task[r].site
        => q = r

\* which has not logged it yet,
CreatedOnce ==
    \A r \in Requests :
        task[r].pc \in Creating => ~Audited(task[r].site, "site_created")

\* and which undoes the insertion for a reason.
UndoHasCause ==
    \A r \in Requests :
        task[r].pc = "undo_insert" => faults >= 1 \/ ~Exists(task[r].site)

\* A site that is gone, and logged or about to be as created, was deleted.
GoneAccounted ==
    \A s \in SiteIds :
        /\ ~Exists(s)
        /\ Audited(s, "site_created") \/ Doing(s, {"audit_created"})
        => Audited(s, "site_deleted") \/ Doing(s, {"audit_deleted"})

Complete == faults = 0 /\ drops = 0 => Accounted /\ GoneAccounted

Creators == OneCreator /\ CreatedOnce /\ UndoHasCause
CreationFacts == Creators /\ SitesHaveSecrets /\ Complete

\* A step that inserts and removes no site and logs nothing.
LEMMA MoveKeepsCreation ==
    ASSUME TypeOK, CreationFacts, NEW r \in Requests,
           UNCHANGED <<audit, drops>>, secrets \subseteq secrets',
           faults' \in Nat, faults' >= faults,
           \A s \in SiteIds : Exists(s)' <=> Exists(s),
           \A s \in SiteIds :
               Exists(s) /\ sites'[s].fp # None =>
                   \/ sites[s].fp # None
                   \/ task'[r].pc = "audit_trusted" /\ task'[r].site = s,
           \A q \in Requests \ {r} : task'[q] = task[q],
           task[r].pc \notin Owing,
           task[r].pc \in Creating <=> task'[r].pc \in Creating,
           task'[r].pc \in Creating =>
               task'[r].site = task[r].site /\ task[r].site \in SiteIds,
           task'[r].pc = "audit_created" =>
               Exists(task[r].site) /\ task[r].site \in secrets',
           task'[r].pc = "undo_insert" => faults' >= 1 \/ ~Exists(task[r].site)
    PROVE  CreationFacts'
<1>a. faults \in Nat /\ \A q \in Requests : TaskShape(task[q]) /\ task[q] \in Task
  BY DEF TypeOK, TasksOK, BudgetOK
<1>b. \A s : \A a : Audited(s, a)' <=> Audited(s, a)
  BY DEF Audited
<1>1. OneCreator'
  BY DEF CreationFacts, Creators, OneCreator
<1>2. CreatedOnce'
  BY <1>b DEF CreationFacts, Creators, CreatedOnce
<1>3. UndoHasCause'
  <2> SUFFICES ASSUME NEW q \in Requests, task'[q].pc = "undo_insert"
               PROVE  (faults >= 1 \/ ~Exists(task[q].site))'
      BY DEF UndoHasCause
  <2>1. CASE q = r
    BY <2>1 DEF Creating
  <2>2. CASE q # r
    <3>1. task'[q] = task[q] /\ task[q].site \in SiteIds
      BY <1>a, <2>2 DEF TaskShape, Task
    <3> QED BY <1>a, <3>1 DEF CreationFacts, Creators, UndoHasCause
  <2> QED BY <2>1, <2>2
<1>4. SitesHaveSecrets'
  <2> SUFFICES ASSUME faults' <= 1, drops' = 0, NEW s \in SiteIds, Exists(s)', s \notin secrets'
               PROVE  Doing(s, {"store_new", "undo_insert"})'
      BY DEF SitesHaveSecrets
  <2>1. Doing(s, {"store_new", "undo_insert"})
    BY <1>a DEF CreationFacts, SitesHaveSecrets
  <2>2. PICK q \in Requests : task[q].site = s /\ task[q].pc \in {"store_new", "undo_insert"}
    BY <2>1 DEF Doing
  <2>3. CASE q = r
    <3>1. task'[r].site = s /\ task'[r].pc \in Creating \ {"audit_created"}
      BY <2>2, <2>3 DEF Creating
    <3> QED BY <3>1 DEF Doing, Creating
  <2>4. CASE q # r
    BY <2>2, <2>4 DEF Doing
  <2> QED BY <2>3, <2>4
<1>5. Complete'
  <2> SUFFICES ASSUME faults' = 0, drops' = 0 PROVE Accounted' /\ GoneAccounted'
      BY DEF Complete
  <2>1. Accounted /\ GoneAccounted
    BY <1>a DEF CreationFacts, Complete
  <2>2. \A s \in SiteIds : Doing(s, Creating) => Doing(s, Creating)'
    BY DEF Doing
  <2>3. \A s \in SiteIds, pc \in Owing : Doing(s, {pc}) => Doing(s, {pc})'
    BY DEF Doing
  <2>4. \A s \in SiteIds : ~Exists(s) /\ Doing(s, {"audit_created"})' => Doing(s, {"audit_created"})
    BY DEF Doing, Creating
  <2>5. \A s \in SiteIds : task'[r].pc = "audit_trusted" /\ task'[r].site = s =>
                             Doing(s, {"audit_trusted"})'
    BY DEF Doing
  <2>6. Accounted'
    BY <1>b, <2>1, <2>2, <2>3, <2>5 DEF Accounted, Exists, Creating, Owing
  <2>7. GoneAccounted'
    BY <1>b, <2>1, <2>3, <2>4 DEF GoneAccounted, Owing
  <2> QED BY <2>6, <2>7
<1> QED BY <1>1, <1>2, <1>3, <1>4, <1>5 DEF CreationFacts, Creators

\* The row that a request inserts has a new id, which nothing speaks of yet.
LEMMA InsertKeepsCreation ==
    ASSUME TypeOK, FreshIds, AuditFacts, CreationFacts, NEW r \in Requests,
           InsertSite(r), RowAdded,
           task' = [task EXCEPT ![r].pc = "store_new", ![r].site = nextSite]
    PROVE  CreationFacts'
<1>a. /\ task \in [Requests -> Task] /\ nextSite \in SiteIds
      /\ faults \in Nat /\ SiteIds \subseteq Nat
      /\ sites \in [SiteIds -> SiteRow \cup {None}]
      /\ \A q \in Requests : TaskShape(task[q])
  BY DEF TypeOK, TasksOK, StoreOK, BudgetOK, RowAdded, SiteIds
<1> PICK n \in SiteIds : n = nextSite
  BY <1>a
<1>b. UNCHANGED <<audit, secrets, faults, drops>>
  BY DEF InsertSite, store, memory, budget
<1>c. /\ task[r].pc = "insert_site"
      /\ task'[r].pc = "store_new" /\ task'[r].site = n
      /\ \A q \in Requests \ {r} : task'[q] = task[q]
  BY <1>a DEF InsertSite, At, Task
<1>d. /\ Exists(n)' /\ sites'[n].fp = None
      /\ \A s \in SiteIds \ {n} : sites'[s] = sites[s]
  BY <1>a, SiteTrustAssumption DEF RowAdded, Exists
<1>e. \A q \in Requests : task[q].pc \in Creating => task[q].site \in SiteIds \ {n}
  BY <1>a DEF AuditFacts, NumbersUsed, Numbered, Creating, TaskShape, Task
<1>f. \A a : ~Audited(n, a) /\ \A s : Audited(s, a)' <=> Audited(s, a)
  BY <1>a, <1>b DEF AuditFacts, NumbersUsed, Audited
<1>1. OneCreator'
  <2> SUFFICES ASSUME NEW p \in Requests, NEW q \in Requests, p # q,
                      task'[p].pc \in Creating, task'[q].pc \in Creating
               PROVE  task'[p].site # task'[q].site
      BY DEF OneCreator
  <2>1. CASE p = r \/ q = r
    BY <1>c, <1>e, <2>1
  <2>2. CASE p # r /\ q # r
    BY <1>c, <2>2 DEF CreationFacts, Creators, OneCreator
  <2> QED BY <2>1, <2>2
<1>2. CreatedOnce'
  BY <1>c, <1>f DEF CreationFacts, Creators, CreatedOnce
<1>3. UndoHasCause'
  <2> SUFFICES ASSUME NEW q \in Requests, task'[q].pc = "undo_insert"
               PROVE  (faults >= 1 \/ ~Exists(task[q].site))'
      BY DEF UndoHasCause
  <2>1. q # r /\ task'[q] = task[q] /\ task[q].site \in SiteIds \ {n}
    BY <1>c, <1>e DEF Creating
  <2> QED BY <1>b, <1>d, <2>1 DEF CreationFacts, Creators, UndoHasCause, Exists
<1>4. Doing(n, {"store_new", "undo_insert"})'
      /\ Doing(n, {"store_new", "undo_insert", "audit_created"})'
  BY <1>c DEF Doing
<1>5. \A pcs : \A s \in SiteIds \ {n} : pcs \subseteq Labels \ {"insert_site"} =>
        /\ Doing(s, pcs) => Doing(s, pcs)'
        /\ Doing(s, pcs)' => Doing(s, pcs)
  BY <1>a, <1>c DEF Doing
<1>6. SitesHaveSecrets'
  BY <1>a, <1>b, <1>d, <1>4, <1>5 DEF CreationFacts, SitesHaveSecrets, Exists, Labels
<1>7. Complete'
  BY <1>b, <1>d, <1>4, <1>5, <1>f
     DEF CreationFacts, Complete, Accounted, GoneAccounted, Exists, Labels
<1> QED BY <1>1, <1>2, <1>3, <1>6, <1>7 DEF CreationFacts, Creators

\* Requests end without a statement: they are dropped, or their statement failed.
LEMMA ForgetKeepsCreation ==
    ASSUME TypeOK, CreationFacts, UNCHANGED store,
           faults' \in Nat, faults' >= faults, drops' \in Nat, drops' >= drops,
           \A q \in Requests : task'[q] = task[q] \/ task'[q] = Idle,
           \/ drops' > 0
           \/ /\ faults' > faults
              /\ \A q \in Requests : task'[q] = task[q] \/ task[q].pc # "store_new"
    PROVE  CreationFacts'
<1>a. faults \in Nat /\ drops \in Nat
  BY DEF TypeOK, BudgetOK
<1>b. /\ \A s : Exists(s)' <=> Exists(s)
      /\ \A s : \A a : Audited(s, a)' <=> Audited(s, a)
  BY DEF Audited, Exists, store
<1>c. \A q \in Requests : task'[q].pc \in Creating => task'[q] = task[q]
  BY DEF Idle, Creating
<1>1. OneCreator'
  <2> SUFFICES ASSUME NEW p \in Requests, NEW q \in Requests,
                      task'[p].pc \in Creating, task'[q].pc \in Creating,
                      task'[p].site = task'[q].site
               PROVE  p = q
      BY DEF OneCreator
  <2> QED BY <1>c DEF CreationFacts, Creators, OneCreator
<1>2. CreatedOnce'
  BY <1>b, <1>c DEF CreationFacts, Creators, CreatedOnce
<1>3. UndoHasCause'
  <2> SUFFICES ASSUME NEW q \in Requests, task'[q].pc = "undo_insert"
               PROVE  (faults >= 1 \/ ~Exists(task[q].site))'
      BY DEF UndoHasCause
  <2>1. task'[q] = task[q]
    BY <1>c DEF Creating
  <2> QED BY <1>a, <2>1 DEF CreationFacts, Creators, UndoHasCause, Exists, store
<1>4. SitesHaveSecrets'
  <2> SUFFICES ASSUME faults' <= 1, drops' = 0, NEW s \in SiteIds, Exists(s), s \notin secrets
               PROVE  Doing(s, {"store_new", "undo_insert"})'
      BY <1>b DEF SitesHaveSecrets, store
  <2>1. faults = 0 /\ drops = 0
    BY <1>a
  <2>2. PICK q \in Requests : task[q].site = s /\ task[q].pc \in {"store_new", "undo_insert"}
    BY <2>1 DEF CreationFacts, SitesHaveSecrets, Doing
  <2>3. task[q].pc = "store_new"
    BY <2>1, <2>2 DEF CreationFacts, Creators, UndoHasCause
  <2>4. task'[q] = task[q]
    BY <2>3
  <2> QED BY <2>2, <2>4 DEF Doing
<1>5. Complete'
  BY <1>a DEF Complete
<1> QED BY <1>1, <1>2, <1>3, <1>4, <1>5 DEF CreationFacts, Creators

\* A site is removed: by the request that inserted it, or by one that goes on
\* to log the deletion.
LEMMA RemovalKeepsCreation ==
    ASSUME TypeOK, CreationFacts, NEW r \in Requests, NEW s \in SiteIds,
           task[r].site = s, DropRow(s), UNCHANGED <<faults, drops>>,
           \/ task[r].pc = "undo_insert" /\ Reply(r)
           \/ task[r].pc = "delete_site" /\ GoTo(r, "audit_deleted")
    PROVE  CreationFacts'
<1>a. /\ task \in [Requests -> Task] /\ \A q \in Requests : TaskShape(task[q])
      /\ sites \in [SiteIds -> SiteRow \cup {None}]
  BY DEF TypeOK, TasksOK, StoreOK
<1>b. UNCHANGED audit /\ secrets' = secrets \ {s}
      /\ \A a : \A q \in SiteIds : Audited(q, a)' <=> Audited(q, a)
  BY DEF DropRow, Audited
<1>c. ~Exists(s)' /\ \A q \in SiteIds \ {s} : sites'[q] = sites[q]
  BY <1>a DEF DropRow, Exists
<1>d. /\ \A q \in Requests \ {r} : task'[q] = task[q]
      /\ \/ task[r].pc = "undo_insert" /\ task'[r].pc = "idle"
         \/ /\ task[r].pc = "delete_site"
            /\ task'[r].pc = "audit_deleted" /\ task'[r].site = s
  BY <1>a DEF Reply, GoTo, Idle, Task
<1>e. \A q \in Requests : task'[q].pc \in Creating =>
        task'[q] = task[q] /\ task[q].site \in SiteIds /\ q # r
  BY <1>a, <1>d DEF Creating, TaskShape, Task
<1>1. OneCreator'
  <2> SUFFICES ASSUME NEW p \in Requests, NEW q \in Requests,
                      task'[p].pc \in Creating, task'[q].pc \in Creating,
                      task'[p].site = task'[q].site
               PROVE  p = q
      BY DEF OneCreator
  <2> QED BY <1>e DEF CreationFacts, Creators, OneCreator
<1>2. CreatedOnce'
  BY <1>b, <1>e DEF CreationFacts, Creators, CreatedOnce
<1>3. UndoHasCause'
  <2> SUFFICES ASSUME NEW q \in Requests, task'[q].pc = "undo_insert"
               PROVE  (faults >= 1 \/ ~Exists(task[q].site))'
      BY DEF UndoHasCause
  <2>1. task'[q] = task[q] /\ task[q].site \in SiteIds
    BY <1>e DEF Creating
  <2>2. faults >= 1 \/ ~Exists(task[q].site)
    BY <2>1 DEF CreationFacts, Creators, UndoHasCause
  <2> QED BY <1>c, <2>1, <2>2 DEF Exists
<1>4. \A pcs : \A q \in SiteIds \ {s} :
        /\ pcs \subseteq Labels \ {"idle", "audit_deleted"} => (Doing(q, pcs)' <=> Doing(q, pcs))
        /\ Doing(q, {"audit_deleted"}) => Doing(q, {"audit_deleted"})'
  BY <1>d DEF Doing
<1>5. SitesHaveSecrets'
  BY <1>b, <1>c, <1>4 DEF CreationFacts, SitesHaveSecrets, Exists, Labels
<1>6. Complete'
  <2> SUFFICES ASSUME faults = 0, drops = 0, Accounted, GoneAccounted
               PROVE  Accounted' /\ GoneAccounted'
      BY DEF CreationFacts, Complete
  <2>1. Audited(s, "site_created") \/ Doing(s, {"audit_created"})' =>
          Audited(s, "site_deleted") \/ Doing(s, {"audit_deleted"})'
    <3>1. CASE task[r].pc = "delete_site"
      BY <1>d, <3>1 DEF Doing
    <3>2. CASE task[r].pc = "undo_insert"
      <4>1. ~Audited(s, "site_created")
        BY <3>2 DEF CreationFacts, Creators, CreatedOnce, Creating
      <4>2. ~Doing(s, {"audit_created"})'
        BY <1>e, <3>2 DEF Doing, CreationFacts, Creators, OneCreator, Creating
      <4> QED BY <4>1, <4>2
    <3> QED BY <1>d, <3>1, <3>2
  <2>2. Accounted'
    BY <1>b, <1>c, <1>4, <2>1 DEF Accounted, Exists, Labels
  <2>3. GoneAccounted'
    BY <1>b, <1>c, <1>4, <2>1 DEF GoneAccounted, Exists, Labels
  <2> QED BY <2>2, <2>3
<1> QED BY <1>1, <1>2, <1>3, <1>5, <1>6 DEF CreationFacts, Creators

\* A row of audit_events is written, which pays what the request owed; or the
\* statement failed, after which the log claims nothing.
LEMMA AuditKeepsCreation ==
    ASSUME TypeOK, CreationFacts, NEW r \in Requests, NEW pc, NEW action,
           <<pc, action>> \in {<<"audit_created", "site_created">>,
                               <<"audit_updated", "site_updated">>,
                               <<"audit_deleted", "site_deleted">>,
                               <<"audit_trusted", "site_host_key_trusted">>},
           Audit(r, pc, action)
    PROVE  CreationFacts'
<1>a. /\ task \in [Requests -> Task] /\ TaskShape(task[r]) /\ task[r].pc = pc
      /\ faults \in Nat /\ drops \in Nat
  BY DEF TypeOK, TasksOK, BudgetOK, Audit, At
<1>b. task'[r] = Idle /\ \A q \in Requests \ {r} : task'[q] = task[q]
  BY <1>a DEF Audit, Reply
<1>1. CASE Fault
  BY <1>1, <1>a, <1>b, ForgetKeepsCreation DEF Fault
<1>2. CASE /\ audit' = audit \cup {[action |-> action, site |-> task[r].site]}
           /\ UNCHANGED <<sites, secrets, nextSite, memory, budget>>
  <2> PICK s \in SiteIds : s = task[r].site
    BY <1>a DEF TaskShape, Task
  <2>a. UNCHANGED <<faults, drops>> /\ \A q : Exists(q)' <=> Exists(q)
    BY <1>2 DEF budget, Exists
  <2>b. \A q, a : Audited(q, a)' <=> Audited(q, a) \/ (q = s /\ a = action)
    BY <1>2 DEF Audited
  <2>c. \A q \in Requests : task'[q].pc \in Creating => q # r /\ task'[q] = task[q]
    BY <1>b DEF Idle, Creating
  <2>d. \A q \in SiteIds, l \in Labels :
          Doing(q, {l}) => Doing(q, {l})' \/ (q = s /\ l = pc)
    BY <1>a, <1>b DEF Doing
  <2>e. \A pcs : \A q \in SiteIds : Doing(q, pcs)' => Doing(q, pcs) \/ "idle" \in pcs
    BY <1>b DEF Doing, Idle
  <2>1. OneCreator'
    <3> SUFFICES ASSUME NEW p \in Requests, NEW q \in Requests,
                        task'[p].pc \in Creating, task'[q].pc \in Creating,
                        task'[p].site = task'[q].site
                 PROVE  p = q
        BY DEF OneCreator
    <3> QED BY <2>c DEF CreationFacts, Creators, OneCreator
  <2>2. CreatedOnce'
    <3> SUFFICES ASSUME NEW q \in Requests, task'[q].pc \in Creating
                 PROVE  ~Audited(task[q].site, "site_created")'
        BY DEF CreatedOnce
    <3>1. q # r /\ task'[q] = task[q] /\ ~Audited(task[q].site, "site_created")
      BY <2>c DEF CreationFacts, Creators, CreatedOnce
    <3>2. action = "site_created" => task[q].site # s
      BY <1>a, <2>c, <3>1 DEF CreationFacts, Creators, OneCreator, Creating
    <3> QED BY <2>b, <3>1, <3>2 DEF Audited
  <2>3. UndoHasCause'
    <3> SUFFICES ASSUME NEW q \in Requests, task'[q].pc = "undo_insert"
                 PROVE  (faults >= 1 \/ ~Exists(task[q].site))'
        BY DEF UndoHasCause
    <3>1. task'[q] = task[q]
      BY <2>c DEF Creating
    <3> QED BY <1>2, <2>a, <3>1 DEF CreationFacts, Creators, UndoHasCause, Exists
  <2>4. \A q \in SiteIds :
          Doing(q, {"store_new", "undo_insert"}) => Doing(q, {"store_new", "undo_insert"})'
    BY <1>a, <1>b DEF Doing
  <2>5. SitesHaveSecrets'
    BY <1>2, <2>a, <2>4 DEF CreationFacts, SitesHaveSecrets
  <2>6. Complete'
    <3> SUFFICES ASSUME faults = 0, drops = 0, Accounted, GoneAccounted
                 PROVE  Accounted' /\ GoneAccounted'
        BY <2>a DEF CreationFacts, Complete
    <3>1. \A q \in SiteIds :
            Audited(q, "site_created") \/ Doing(q, {"store_new", "undo_insert", "audit_created"}) =>
            (Audited(q, "site_created") \/ Doing(q, {"store_new", "undo_insert", "audit_created"}))'
      <4> SUFFICES ASSUME NEW q \in SiteIds, NEW p \in Requests, task[p].site = q,
                          task[p].pc \in {"store_new", "undo_insert", "audit_created"}
                   PROVE  (Audited(q, "site_created") \/ Doing(q, {"store_new", "undo_insert", "audit_created"}))'
          BY <2>b DEF Doing
      <4> QED BY <1>a, <1>b, <2>b DEF Doing
    <3>2. \A q \in SiteIds :
            /\ Audited(q, "site_host_key_trusted") \/ Doing(q, {"audit_trusted"}) =>
                 (Audited(q, "site_host_key_trusted") \/ Doing(q, {"audit_trusted"}))'
            /\ Audited(q, "site_deleted") \/ Doing(q, {"audit_deleted"}) =>
                 (Audited(q, "site_deleted") \/ Doing(q, {"audit_deleted"}))'
      BY <2>b, <2>d DEF Labels
    <3>3. \A q \in SiteIds :
            (Audited(q, "site_created") \/ Doing(q, {"audit_created"}))' =>
            Audited(q, "site_created") \/ Doing(q, {"audit_created"})
      <4>1. action = "site_created" => Doing(s, {"audit_created"})
        BY <1>a DEF Doing
      <4> QED BY <2>b, <2>e, <4>1
    <3>4. Accounted'
      BY <1>2, <2>a, <3>1, <3>2, <3>3 DEF Accounted, GoneAccounted
    <3>5. GoneAccounted'
      BY <2>a, <3>2, <3>3 DEF GoneAccounted
    <3> QED BY <3>4, <3>5
  <2> QED BY <2>1, <2>2, <2>3, <2>5, <2>6 DEF CreationFacts, Creators
<1> QED BY <1>1, <1>2 DEF Audit

\* A statement of a handler that neither creates nor removes a site.
LEMMA PlainStepKeepsCreation ==
    ASSUME TypeOK, CreationFacts, NEW r \in Requests,
           \/ UpsertSecret(r) \/ (DeleteSite(r) /\ Reply(r))
           \/ GetOld(r) \/ UpdateSite(r) \/ ClearFingerprint(r)
           \/ GetSite(r) \/ GetSecret(r) \/ TestConnection(r) \/ SetPending(r)
           \/ TakePending(r) \/ StoreFingerprint(r)
           \/ RemoveSession(r) \/ DropPending(r),
           \/ RowsStay \/ RowCleared(task[r].site)
           \/ RowTrusted(task[r].site, task[r].obs.key) /\ StoreFingerprint(r)
    PROVE  CreationFacts'
<1> DEFINE s == task[r].site
<1>a. /\ task \in [Requests -> Task] /\ TaskShape(task[r])
      /\ sites \in [SiteIds -> SiteRow \cup {None}]
      /\ faults \in Nat
  BY DEF TypeOK, TasksOK, StoreOK, BudgetOK
<1>b. UNCHANGED <<audit, drops>> /\ secrets \subseteq secrets'
  <2>1. CASE DeleteSite(r) /\ Reply(r)
    <3>1. ~GoTo(r, "audit_deleted")
      BY <1>a, <2>1 DEF Reply, GoTo, Task, Idle
    <3> QED BY <2>1, <3>1 DEF DeleteSite, Fault, store, budget
  <2>2. CASE UpsertSecret(r) \/ ClearFingerprint(r) \/ StoreFingerprint(r)
    BY <2>2 DEF UpsertSecret, StoreSecret, ClearFingerprint, StoreFingerprint, Fault, store, budget
  <2>3. CASE \/ GetOld(r) \/ UpdateSite(r) \/ GetSite(r) \/ GetSecret(r)
             \/ TestConnection(r) \/ SetPending(r) \/ TakePending(r)
             \/ RemoveSession(r) \/ DropPending(r)
    BY <2>3 DEF GetOld, UpdateSite, GetSite, GetSecret, TestConnection, SetPending,
       TakePending, RemoveSession, DropPending, store, budget
  <2> QED BY <2>1, <2>2, <2>3
<1>c. faults' \in Nat /\ faults' >= faults
  <2>1. UNCHANGED faults \/ faults' = faults + 1
    <3>1. CASE UpsertSecret(r) \/ DeleteSite(r) \/ ClearFingerprint(r) \/ StoreFingerprint(r)
      BY <3>1 DEF UpsertSecret, StoreSecret, DeleteSite, ClearFingerprint,
         StoreFingerprint, Fault, budget
    <3>2. CASE \/ GetOld(r) \/ UpdateSite(r) \/ GetSite(r) \/ GetSecret(r)
               \/ TestConnection(r) \/ SetPending(r) \/ TakePending(r)
               \/ RemoveSession(r) \/ DropPending(r)
      BY <3>2 DEF GetOld, UpdateSite, GetSite, GetSecret, TestConnection, SetPending,
         TakePending, RemoveSession, DropPending, budget
    <3> QED BY <3>1, <3>2
  <2> QED BY <1>a, <2>1
<1>d. task[r].pc \notin Owing \cup Creating
  BY DEF UpsertSecret, DeleteSite, GetOld, UpdateSite, ClearFingerprint, GetSite,
     GetSecret, TestConnection, SetPending, TakePending, StoreFingerprint,
     RemoveSession, DropPending, At, Owing, Creating
<1>e. \A q \in Requests \ {r} : task'[q] = task[q]
  BY <1>a DEF UpsertSecret, StoreSecret, GetOld, UpdateSite, ClearFingerprint, GetSite,
     GetSecret, TestConnection, SetPending, TakePending, StoreFingerprint,
     RemoveSession, DropPending, Reply, GoTo
<1>f. ASSUME NEW l, GoTo(r, l) PROVE task'[r].pc = l /\ task'[r].site = s
  BY <1>a, <1>f DEF GoTo, Task
<1>g. Reply(r) => task'[r] = Idle
  BY <1>a DEF Reply
<1>h. task'[r].pc \notin Creating
  <2> Idle.pc \notin Creating
    BY DEF Idle, Creating
  <2>1. ASSUME NEW l, NEW row, task' = [task EXCEPT ![r].pc = l, ![r].row = row]
        PROVE  task'[r].pc = l
    BY <1>a, <2>1 DEF Task
  <2>2. CASE UpsertSecret(r) \/ ClearFingerprint(r) \/ (DeleteSite(r) /\ Reply(r))
    BY <2>2, <1>f, <1>g DEF UpsertSecret, StoreSecret, ClearFingerprint, Creating
  <2>3. CASE GetOld(r) \/ GetSite(r)
    <3>1. Reply(r) \/ task'[r].pc \in {"update_site", "get_secret"}
      BY <1>a, <2>3 DEF GetOld, GetSite, Task
    <3> QED BY <3>1, <1>g DEF Creating
  <2>4. CASE UpdateSite(r)
    <3>1. ASSUME NEW c \in Conns, NEW next \in {"upsert_secret", "audit_updated"},
                 task' = [task EXCEPT
                            ![r].pc = IF task[r].row.conn # c
                                      THEN "clear_fingerprint" ELSE next,
                            ![r].row = None]
          PROVE  task'[r].pc \in {"clear_fingerprint", "upsert_secret", "audit_updated"}
      BY <3>1, <2>1
    <3> QED BY <2>4, <3>1, <1>g DEF UpdateSite, Creating
  <2>5. CASE TestConnection(r)
    <3>1. ASSUME NEW obs, task' = [task EXCEPT ![r].pc = "set_pending",
                                     ![r].row = None, ![r].obs = obs]
          PROVE  task'[r].pc = "set_pending"
      BY <1>a, <3>1 DEF Task
    <3> QED BY <2>5, <3>1, <1>g DEF TestConnection, Creating
  <2>6. CASE TakePending(r)
    <3>1. ASSUME NEW obs, task' = [task EXCEPT ![r].pc = "store_fingerprint",
                                     ![r].obs = obs]
          PROVE  task'[r].pc = "store_fingerprint"
      BY <1>a, <3>1 DEF Task
    <3> QED BY <2>6, <3>1, <1>g DEF TakePending, Creating
  <2>7. CASE StoreFingerprint(r)
    <3>1. Reply(r) \/ task'[r].pc = "audit_trusted"
      BY <1>a, <2>7 DEF StoreFingerprint, Task
    <3> QED BY <3>1, <1>g DEF Creating
  <2>8. CASE GetSecret(r) \/ SetPending(r) \/ RemoveSession(r) \/ DropPending(r)
    BY <2>8, <1>f, <1>g DEF GetSecret, SetPending, RemoveSession, DropPending, Creating
  <2> QED BY <2>2, <2>3, <2>4, <2>5, <2>6, <2>7, <2>8
<1>i. /\ \A q \in SiteIds : Exists(q)' <=> Exists(q)
      /\ \A q \in SiteIds :
           Exists(q) /\ sites'[q].fp # None =>
               \/ sites[q].fp # None
               \/ task'[r].pc = "audit_trusted" /\ task'[r].site = q
  <2>1. CASE RowsStay
    BY <2>1 DEF RowsStay
  <2>2. CASE RowCleared(s)
    BY <1>a, <2>2, SiteTrustAssumption DEF RowCleared, Exists
  <2>3. CASE RowTrusted(s, task[r].obs.key) /\ StoreFingerprint(r)
    <3>1. \/ UNCHANGED sites
          \/ task'[r].pc = "audit_trusted" /\ task'[r].site = s
      BY <1>a, <2>3 DEF StoreFingerprint, Fault, store, Task
    <3> QED BY <1>a, <2>3, <3>1, SiteTrustAssumption DEF RowTrusted, Exists
  <2> QED BY <2>1, <2>2, <2>3
<1> QED BY <1>b, <1>c, <1>d, <1>e, <1>h, <1>i, MoveKeepsCreation DEF Creating

LEMMA StepKeepsCreation ==
    ASSUME TypeOK, FreshIds, AuditFacts, CreationFacts, NEW r \in Requests, Step(r)
    PROVE  CreationFacts'
<1> DEFINE s == task[r].site
<1>a. /\ task \in [Requests -> Task] /\ TaskShape(task[r])
      /\ nextSite \in Nat /\ faults \in Nat /\ drops \in Nat
  BY DEF TypeOK, TasksOK, StoreOK, BudgetOK
<1>b. /\ Reply(r) => /\ task'[r] = Idle /\ Idle.pc = "idle"
                     /\ \A q \in Requests \ {r} : task'[q] = task[q]
      /\ \A l : GoTo(r, l) => /\ task'[r].pc = l /\ task'[r].site = s
                              /\ \A q \in Requests \ {r} : task'[q] = task[q]
  BY <1>a DEF Reply, GoTo, Task, Idle
<1>1. CASE InsertSite(r)
  <2>1. CASE Reply(r) /\ UNCHANGED store
    <3>1. task[r].pc = "insert_site" /\ UNCHANGED <<faults, drops>>
      BY <1>1 DEF InsertSite, At, budget
    <3> QED BY <1>a, <1>b, <2>1, <3>1, MoveKeepsCreation
            DEF Creating, Owing, store, Exists
  <2>2. CASE ~(Reply(r) /\ UNCHANGED store)
    <3>1. task' = [task EXCEPT ![r].pc = "store_new", ![r].site = nextSite]
          /\ nextSite' = nextSite + 1
      BY <1>1, <2>2 DEF InsertSite, NewId
    <3>2. RowAdded
      BY <1>a, <1>1, <3>1, StepOnRows
         DEF Step, RowsStay, DropRow, RowCleared, RowTrusted
    <3> QED BY <1>1, <3>1, <3>2, InsertKeepsCreation
  <2> QED BY <2>1, <2>2
<1>2. CASE StoreNew(r)
  <2>1. /\ task[r].pc = "store_new" /\ s \in SiteIds
        /\ UNCHANGED <<sites, audit, drops>> /\ secrets \subseteq secrets'
        /\ UNCHANGED faults \/ faults' = faults + 1
    BY <1>a, <1>2 DEF StoreNew, StoreSecret, At, TaskShape, Task, Fault, store, budget
  <2>2. \/ GoTo(r, "audit_created") /\ Exists(s) /\ s \in secrets'
        \/ GoTo(r, "undo_insert") /\ (faults' = faults + 1 \/ ~Exists(s))
    BY <1>2 DEF StoreNew, StoreSecret, Exists, Fault
  <2> QED BY <1>a, <1>b, <2>1, <2>2, MoveKeepsCreation DEF Creating, Owing, Exists
<1>3. CASE UndoInsert(r)
  <2>1. task[r].pc = "undo_insert" /\ s \in SiteIds /\ Reply(r)
    BY <1>a, <1>3 DEF UndoInsert, At, TaskShape, Task
  <2>2. CASE DropRow(s) /\ UNCHANGED <<memory, budget>>
    BY <2>1, <2>2, RemovalKeepsCreation DEF budget
  <2>3. CASE Fault
    BY <1>a, <1>b, <2>1, <2>3, ForgetKeepsCreation DEF Fault
  <2> QED BY <1>3, <2>2, <2>3 DEF UndoInsert
<1>4. CASE DeleteSite(r) /\ ~Reply(r)
  <2>1. /\ task[r].pc = "delete_site" /\ s \in SiteIds /\ GoTo(r, "audit_deleted")
        /\ DropRow(s) /\ UNCHANGED <<memory, budget>>
    BY <1>a, <1>4 DEF DeleteSite, At, TaskShape, Task
  <2> QED BY <2>1, RemovalKeepsCreation DEF budget
<1>5. ASSUME NEW pc, NEW action, Audit(r, pc, action),
             <<pc, action>> \in {<<"audit_created", "site_created">>,
                                 <<"audit_updated", "site_updated">>,
                                 <<"audit_deleted", "site_deleted">>,
                                 <<"audit_trusted", "site_host_key_trusted">>}
      PROVE  CreationFacts'
  BY <1>5, AuditKeepsCreation
<1>6. CASE \/ UpsertSecret(r) \/ (DeleteSite(r) /\ Reply(r))
           \/ GetOld(r) \/ UpdateSite(r) \/ ClearFingerprint(r)
           \/ GetSite(r) \/ GetSecret(r) \/ TestConnection(r) \/ SetPending(r)
           \/ TakePending(r) \/ StoreFingerprint(r)
           \/ RemoveSession(r) \/ DropPending(r)
  <2>1. ~InsertSite(r) /\ ~UndoInsert(r)
    BY <1>6 DEF UpsertSecret, DeleteSite, GetOld, UpdateSite, ClearFingerprint, GetSite,
       GetSecret, TestConnection, SetPending, TakePending, StoreFingerprint,
       RemoveSession, DropPending, InsertSite, UndoInsert, At
  <2>2. DeleteSite(r) /\ DropRow(s) => RowsStay
    <3> SUFFICES ASSUME DeleteSite(r), DropRow(s) PROVE RowsStay
        OBVIOUS
    <3>1. Reply(r)
      BY <1>6 DEF UpsertSecret, DeleteSite, GetOld, UpdateSite, ClearFingerprint, GetSite,
         GetSecret, TestConnection, SetPending, TakePending, StoreFingerprint,
         RemoveSession, DropPending, At
    <3>2. ~GoTo(r, "audit_deleted")
      BY <1>b, <3>1
    <3> QED BY <3>2 DEF DeleteSite, Fault, store, RowsStay, Exists
  <2>3. \/ RowsStay \/ RowCleared(s)
        \/ RowTrusted(s, task[r].obs.key) /\ StoreFingerprint(r)
    BY <2>1, <2>2, StepOnRows
  <2> QED BY <1>6, <2>3, PlainStepKeepsCreation
<1>7. CASE \/ Audit(r, "audit_created", "site_created")
           \/ Audit(r, "audit_updated", "site_updated")
           \/ Audit(r, "audit_deleted", "site_deleted")
           \/ Audit(r, "audit_trusted", "site_host_key_trusted")
  BY <1>5, <1>7
<1> QED BY <1>1, <1>2, <1>3, <1>4, <1>6, <1>7 DEF Step

LEMMA NextKeepsCreation ==
    TypeOK /\ FreshIds /\ AuditFacts /\ CreationFacts /\ [Next]_vars => CreationFacts'
<1> SUFFICES ASSUME TypeOK, FreshIds, AuditFacts, CreationFacts, [Next]_vars
             PROVE  CreationFacts'
    OBVIOUS
<1>a. /\ task \in [Requests -> Task] /\ faults \in Nat /\ drops \in Nat
  BY DEF TypeOK, TasksOK, BudgetOK
<1>1. ASSUME NEW r \in Requests, NEW t, NEW s,
             NEW pc \in {"insert_site", "get_old", "delete_site", "get_site",
                         "take_pending", "remove_session"}, Accept(r, t, s, pc)
      PROVE  CreationFacts'
  <2>1. /\ task[r].pc = "idle" /\ task'[r].pc = pc
        /\ \A q \in Requests \ {r} : task'[q] = task[q]
        /\ UNCHANGED <<sites, secrets, audit, faults, drops>>
    BY <1>a, <1>1 DEF Accept, Idle, store, budget
  <2>2. {task[r].pc, task'[r].pc} \cap (Creating \cup Owing) = {}
    BY <2>1 DEF Creating, Owing
  <2> QED BY <1>a, <2>1, <2>2, MoveKeepsCreation DEF Exists, Creating, Owing
<1>2. CASE UNCHANGED <<store, task, budget>>
  BY <1>2 DEF CreationFacts, Creators, OneCreator, CreatedOnce, UndoHasCause,
     SitesHaveSecrets, Complete, Accounted, GoneAccounted, Audited, Doing, Exists,
     store, budget
<1>3. CASE Restart \/ \E r \in Requests : Drop(r)
  <2>1. /\ UNCHANGED <<store, faults>> /\ drops' = drops + 1
        /\ \A q \in Requests : task'[q] = task[q] \/ task'[q] = Idle
    BY <1>a, <1>3 DEF Restart, Drop, Reply
  <2> QED BY <1>a, <2>1, ForgetKeepsCreation
<1>4. (\E t \in Tokens : Login(t) \/ Expire(t)) \/ UNCHANGED vars =>
        UNCHANGED <<store, task, budget>>
  BY DEF Login, Expire, vars
<1> QED BY <1>1, <1>2, <1>3, <1>4, StepKeepsCreation
        DEF Next, AcceptCreate, AcceptSiteRequest, AcceptLogout

LEMMA InitCreation == Init => CreationFacts
BY DEF Init, Idle, CreationFacts, Creators, OneCreator, CreatedOnce, UndoHasCause,
   SitesHaveSecrets, Complete, Accounted, GoneAccounted, Audited, Doing, Exists, Creating

LEMMA CreationStaysRight == Spec => []CreationFacts
<1>1. Init => FreshIds /\ AuditFacts
  BY SiteTrustAssumption DEF Init, FreshIds, AuditFacts, NumbersUsed, DeletedStayGone,
     CreatedHaveSecrets, Audited, Doing, Exists, Idle, Numbered
<1> QED BY <1>1, InitCreation, NextKeepsFresh, NextKeepsFacts, NextKeepsCreation,
           TypeCorrect, PTL DEF Spec

\* site_create compensates: as long as one statement fails at most and no
\* handler is dropped, a site that has no credential is in the hands of a
\* request that gives it one or removes it.
THEOREM SitesKeepSecrets == Spec => []SitesHaveSecrets
<1>1. CreationFacts => SitesHaveSecrets
  BY DEF CreationFacts
<1> QED BY <1>1, CreationStaysRight, PTL

-------------------------------------------------------------------------------
(* Every single change gets its row.                                       *)

\* The ids only grow, and a row that appears has an id nothing spoke of.
LEMMA NewRowsAreNew ==
    ASSUME TypeOK, FreshIds, NEW r \in Requests, Step(r)
    PROVE  /\ nextSite \in Nat /\ nextSite' \in Nat /\ nextSite <= nextSite'
           /\ \A s \in SiteIds : Exists(s)' => Exists(s) \/ s = nextSite
<1>a. sites \in [SiteIds -> SiteRow \cup {None}] /\ nextSite \in Nat
  BY DEF TypeOK, StoreOK
<1>1. CASE RowsStay
  BY <1>1, <1>a DEF RowsStay
<1>2. CASE RowAdded
  BY <1>2, <1>a DEF RowAdded, Exists
<1>3. CASE task[r].site \in SiteIds /\ DropRow(task[r].site)
  BY <1>3, <1>a DEF DropRow, Exists
<1>4. CASE RowCleared(task[r].site) \/ RowTrusted(task[r].site, task[r].obs.key)
  BY <1>4, <1>a DEF RowCleared, RowTrusted, Exists
<1> QED BY <1>1, <1>2, <1>3, <1>4, StepOnRows

OnItsWay(r) ==
    task[r].site = owed[r].site /\ task[r].pc \in UntilLogged[owed[r].action]

Overtaken(r) == owed[r].action = "site_updated" /\ ~Exists(owed[r].site)

\* OwedIsComing for one slot, and a row that is owed is about a site that has
\* had its id: if the site is gone, it stays gone.
RowIsComing(r) ==
    owed[r] # None => owed[r].site < nextSite /\ (OnItsWay(r) \/ Overtaken(r))

AllComing == faults = 0 /\ drops = 0 => \A r \in Requests : RowIsComing(r)

\* The labels at which something is owed.
Logging == Numbered \ {"update_site"}

\* A statement that settles what is owed, makes a change of its own, or leads
\* on to the row.
LEMMA StatementKeepsOwed ==
    ASSUME TypeOK, FreshIds, NEW r \in Requests, Step(r),
           \A q \in Requests : RowIsComing(q),
           \A q \in Requests \ {r} : task'[q] = task[q] /\ owed'[q] = owed[q],
           \/ owed'[r] = None
           \/ owed'[r].site < nextSite' /\ OnItsWay(r)'
           \/ /\ owed'[r] = owed[r]
              /\ \/ task[r].pc \notin Logging
                 \/ /\ task'[r].site = task[r].site
                    /\ \A a \in DOMAIN UntilLogged :
                         task[r].pc \in UntilLogged[a] => task'[r].pc \in UntilLogged[a]
                 \/ /\ task[r].pc = "upsert_secret" /\ ~Exists(task[r].site)
    PROVE  \A q \in Requests : RowIsComing(q)'
<1>a. \A q \in Requests : owed[q] # None => owed[q].site \in SiteIds /\ owed[q].action \in DOMAIN UntilLogged
  BY DEF TypeOK, StoreOK, AuditRow, UntilLogged
<1>b. /\ nextSite \in Nat /\ nextSite' \in Nat /\ nextSite <= nextSite'
      /\ \A s \in SiteIds : Exists(s)' => Exists(s) \/ s = nextSite
  BY NewRowsAreNew
<1>c. SiteIds \subseteq Nat
  BY DEF SiteIds
<1>1. ASSUME NEW q \in Requests, owed'[q] = owed[q], owed[q] # None
      PROVE  owed'[q].site < nextSite' /\ (Overtaken(q) => Overtaken(q)')
  <2>1. owed[q].site < nextSite
    BY <1>1 DEF RowIsComing
  <2>2. PICK s \in SiteIds : s = owed[q].site
    BY <1>1, <1>a
  <2>3. s \in Nat /\ s < nextSite
    BY <1>c, <2>1, <2>2
  <2>4. s < nextSite' /\ (~Exists(s) => ~Exists(s)')
    BY <1>b, <2>3
  <2> QED BY <1>1, <2>2, <2>4 DEF Overtaken, Exists
<1>2. ASSUME NEW q \in Requests \ {r}
      PROVE  RowIsComing(q)'
  BY <1>1, <1>2 DEF RowIsComing, OnItsWay
<1>3. RowIsComing(r)'
  <2>1. CASE owed'[r] = None \/ (owed'[r].site < nextSite' /\ OnItsWay(r)')
    BY <2>1 DEF RowIsComing
  <2>2. CASE owed'[r] = owed[r] /\ owed[r] # None
    <3>1. OnItsWay(r) => task[r].pc \in Logging
      <4>1. owed[r].action \in {"site_created", "site_updated", "site_deleted",
                               "site_host_key_trusted"}
        BY <2>2 DEF TypeOK, StoreOK, AuditRow
      <4>2. \A a \in {"site_created", "site_updated", "site_deleted",
                      "site_host_key_trusted"} : UntilLogged[a] \subseteq Logging
        BY DEF UntilLogged, Logging, Numbered
      <4> QED BY <4>1, <4>2 DEF OnItsWay
    <3>2. OnItsWay(r) /\ task[r].pc = "upsert_secret" => owed[r].action = "site_updated"
      BY <1>a, <2>2 DEF OnItsWay, UntilLogged
    <3>3. CASE task[r].pc \notin Logging
      BY <1>1, <2>2, <3>1, <3>3 DEF RowIsComing
    <3>4. CASE /\ task'[r].site = task[r].site
               /\ \A a \in DOMAIN UntilLogged :
                    task[r].pc \in UntilLogged[a] => task'[r].pc \in UntilLogged[a]
      BY <1>1, <1>a, <2>2, <3>4 DEF RowIsComing, OnItsWay
    <3>5. CASE task[r].pc = "upsert_secret" /\ ~Exists(task[r].site)
      <4>1. OnItsWay(r) => Overtaken(r)
        BY <3>2, <3>5 DEF OnItsWay, Overtaken
      <4> QED BY <1>1, <2>2, <4>1 DEF RowIsComing
    <3> QED BY <2>1, <2>2, <3>3, <3>4, <3>5
  <2> QED BY <2>1, <2>2 DEF RowIsComing
<1> QED BY <1>2, <1>3

LEMMA StepKeepsOwed ==
    ASSUME TypeOK, FreshIds, AuditFacts, NEW r \in Requests, Step(r), faults' = 0,
           \A q \in Requests : RowIsComing(q)
    PROVE  \A q \in Requests : RowIsComing(q)'
<1> DEFINE s == task[r].site
<1>a. /\ task \in [Requests -> Task] /\ TaskShape(task[r])
      /\ nextSite \in Nat /\ owed \in [Requests -> AuditRow \cup {None}]
      /\ ~Fault
  BY DEF TypeOK, TasksOK, StoreOK, BudgetOK, Fault
<1>b. /\ Reply(r) => \A q \in Requests \ {r} : task'[q] = task[q]
      /\ \A l : GoTo(r, l) => /\ task'[r].pc = l /\ task'[r].site = s
                              /\ \A q \in Requests \ {r} : task'[q] = task[q]
  BY <1>a DEF Reply, GoTo, Task
<1>c. /\ Settled(r) => owed'[r] = None /\ \A q \in Requests \ {r} : owed'[q] = owed[q]
      /\ \A a, n : Owes(r, a, n) =>
           /\ owed'[r].action = a /\ owed'[r].site = n
           /\ \A q \in Requests \ {r} : owed'[q] = owed[q]
  BY <1>a DEF Settled, Owes
<1>d. task[r].pc \in Numbered => s \in SiteIds /\ s < nextSite
  BY <1>a DEF AuditFacts, NumbersUsed, TaskShape, Task, Numbered
<1>1. CASE InsertSite(r) /\ ~(Reply(r) /\ UNCHANGED store)
  <2>1. /\ task' = [task EXCEPT ![r].pc = "store_new", ![r].site = nextSite]
        /\ Owes(r, "site_created", nextSite) /\ nextSite' = nextSite + 1
    BY <1>1 DEF InsertSite, NewId
  <2>2. /\ task'[r].pc = "store_new" /\ task'[r].site = nextSite
        /\ \A q \in Requests \ {r} : task'[q] = task[q]
    BY <1>a, <2>1 DEF Task
  <2>3. owed'[r].site < nextSite' /\ OnItsWay(r)'
    BY <1>a, <1>c, <2>1, <2>2 DEF OnItsWay, UntilLogged
  <2> QED BY <1>c, <2>1, <2>2, <2>3, StatementKeepsOwed
<1>2. CASE StoreNew(r)
  <2>1. /\ task[r].pc = "store_new" /\ UNCHANGED owed
        /\ GoTo(r, "audit_created") \/ GoTo(r, "undo_insert")
    BY <1>a, <1>2 DEF StoreNew, StoreSecret, At, store
  <2> QED BY <1>b, <2>1, StatementKeepsOwed DEF UntilLogged
<1>3. CASE UndoInsert(r)
  <2>1. Settled(r) /\ Reply(r)
    BY <1>a, <1>3 DEF UndoInsert
  <2> QED BY <1>b, <1>c, <2>1, StatementKeepsOwed
<1>4. CASE UpdateSite(r)
  <2>1. task[r].pc = "update_site" /\ task[r].pc \notin Logging
    BY <1>4 DEF UpdateSite, At, Logging, Numbered
  <2>2. CASE UNCHANGED owed
    <3>1. \A q \in Requests \ {r} : task'[q] = task[q]
      BY <1>4, <1>a, <1>b DEF UpdateSite
    <3> QED BY <2>1, <2>2, <3>1, StatementKeepsOwed
  <2>3. ASSUME NEW pc \in {"clear_fingerprint", "upsert_secret", "audit_updated"},
               task' = [task EXCEPT ![r].pc = pc, ![r].row = None],
               Owes(r, "site_updated", s), UNCHANGED nextSite
        PROVE  \A q \in Requests : RowIsComing(q)'
    <3>1. /\ task'[r].pc = pc /\ task'[r].site = s
          /\ \A q \in Requests \ {r} : task'[q] = task[q]
      BY <1>a, <2>3 DEF Task
    <3>2. owed'[r].site < nextSite' /\ OnItsWay(r)'
      BY <1>c, <1>d, <2>1, <2>3, <3>1 DEF OnItsWay, UntilLogged, Numbered
    <3> QED BY <1>c, <2>3, <3>1, <3>2, StatementKeepsOwed
  <2> QED BY <1>4, <2>2, <2>3 DEF UpdateSite, store
<1>5. CASE ClearFingerprint(r)
  <2>1. /\ task[r].pc = "clear_fingerprint" /\ UNCHANGED owed
        /\ GoTo(r, "upsert_secret") \/ GoTo(r, "audit_updated")
    BY <1>a, <1>5 DEF ClearFingerprint, At
  <2> QED BY <1>b, <2>1, StatementKeepsOwed DEF UntilLogged
<1>6. CASE UpsertSecret(r)
  <2>1. /\ task[r].pc = "upsert_secret" /\ UNCHANGED owed
        /\ GoTo(r, "audit_updated") \/ (Reply(r) /\ ~Exists(s))
    BY <1>a, <1>6 DEF UpsertSecret, StoreSecret, At, Exists, store
  <2> QED BY <1>b, <2>1, StatementKeepsOwed DEF UntilLogged
<1>7. CASE DeleteSite(r) \/ StoreFingerprint(r)
  <2>1. s \in SiteIds /\ task[r].pc \notin Logging
    BY <1>7, <1>a DEF DeleteSite, StoreFingerprint, At, TaskShape, Task, Logging, Numbered
  <2>2. CASE Reply(r) /\ UNCHANGED owed
    BY <1>b, <2>1, <2>2, StatementKeepsOwed
  <2>3. CASE Exists(s) /\ ~(Reply(r) /\ UNCHANGED owed)
    <3>1. /\ \/ task'[r].pc = "audit_deleted" /\ Owes(r, "site_deleted", s)
             \/ task'[r].pc = "audit_trusted" /\ Owes(r, "site_host_key_trusted", s)
          /\ task'[r].site = s /\ UNCHANGED nextSite
          /\ \A q \in Requests \ {r} : task'[q] = task[q]
      <4>1. CASE DeleteSite(r)
        BY <1>a, <1>b, <2>3, <4>1 DEF DeleteSite, DropRow, Exists
      <4>2. CASE StoreFingerprint(r)
        BY <1>a, <2>3, <4>2 DEF StoreFingerprint, Exists, Task
      <4> QED BY <1>7, <4>1, <4>2
    <3>2. owed'[r].site < nextSite' /\ OnItsWay(r)'
      BY <1>c, <2>1, <2>3, <3>1 DEF OnItsWay, UntilLogged, FreshIds
    <3> QED BY <1>c, <3>1, <3>2, StatementKeepsOwed
  <2> QED BY <1>7, <1>a, <2>2, <2>3 DEF DeleteSite, StoreFingerprint, Exists, store
<1>8. ASSUME NEW pc, NEW action, Audit(r, pc, action)
      PROVE  \A q \in Requests : RowIsComing(q)'
  <2>1. Settled(r) /\ Reply(r)
    BY <1>a, <1>8 DEF Audit
  <2> QED BY <1>b, <1>c, <2>1, StatementKeepsOwed
<1>9. CASE \/ GetOld(r) \/ GetSite(r) \/ GetSecret(r) \/ TestConnection(r)
           \/ SetPending(r) \/ TakePending(r) \/ RemoveSession(r) \/ DropPending(r)
           \/ (InsertSite(r) /\ Reply(r) /\ UNCHANGED store)
  <2>1. UNCHANGED owed /\ task[r].pc \notin Logging
    <3>1. UNCHANGED store
      BY <1>9 DEF GetOld, GetSite, GetSecret, TestConnection, SetPending,
         TakePending, RemoveSession, DropPending
    <3>2. task[r].pc \in {"get_old", "get_site", "get_secret", "test_connection",
                          "set_pending", "take_pending", "remove_session",
                          "drop_pending", "insert_site"}
      BY <1>9 DEF GetOld, GetSite, GetSecret, TestConnection, SetPending,
         TakePending, RemoveSession, DropPending, InsertSite, At
    <3> QED BY <3>1, <3>2 DEF store, Logging, Numbered
  <2>2. \A q \in Requests \ {r} : task'[q] = task[q]
    BY <1>9, <1>a DEF GetOld, GetSite, GetSecret, TestConnection, SetPending,
       TakePending, RemoveSession, DropPending, Reply, GoTo
  <2> QED BY <2>1, <2>2, StatementKeepsOwed
<1> QED BY <1>1, <1>2, <1>3, <1>4, <1>5, <1>6, <1>7, <1>8, <1>9 DEF Step

\* Statements that fail and handlers that are dropped are only counted up.
LEMMA StepKeepsBudget ==
    ASSUME TypeOK, NEW r \in Requests, Step(r)
    PROVE  /\ drops' = drops /\ (faults' = faults \/ faults' = faults + 1)
<1>1. CASE \/ InsertSite(r) \/ StoreNew(r) \/ UndoInsert(r) \/ UpsertSecret(r)
  BY <1>1 DEF InsertSite, StoreNew, UndoInsert, UpsertSecret, StoreSecret, Fault, budget
<1>2. CASE \/ GetOld(r) \/ UpdateSite(r) \/ ClearFingerprint(r) \/ DeleteSite(r)
  BY <1>2 DEF GetOld, UpdateSite, ClearFingerprint, DeleteSite, Fault, budget
<1>3. CASE \/ GetSite(r) \/ GetSecret(r) \/ TestConnection(r) \/ SetPending(r)
  BY <1>3 DEF GetSite, GetSecret, TestConnection, SetPending, budget
<1>4. CASE \/ TakePending(r) \/ StoreFingerprint(r) \/ RemoveSession(r) \/ DropPending(r)
  BY <1>4 DEF TakePending, StoreFingerprint, RemoveSession, DropPending, Fault, budget
<1>5. ASSUME NEW pc, NEW action, Audit(r, pc, action)
      PROVE  /\ drops' = drops /\ (faults' = faults \/ faults' = faults + 1)
  BY <1>5 DEF Audit, Fault, budget
<1> QED BY <1>1, <1>2, <1>3, <1>4, <1>5 DEF Step

LEMMA NextKeepsOwed ==
    TypeOK /\ FreshIds /\ AuditFacts /\ AllComing /\ [Next]_vars => AllComing'
<1> SUFFICES ASSUME TypeOK, FreshIds, AuditFacts, AllComing, [Next]_vars,
                    faults' = 0, drops' = 0
             PROVE  \A r \in Requests : RowIsComing(r)'
    BY DEF AllComing
<1>a. /\ task \in [Requests -> Task] /\ faults \in Nat /\ drops \in Nat
  BY DEF TypeOK, TasksOK, BudgetOK
<1>1. ASSUME NEW r \in Requests, Step(r)
      PROVE  \A q \in Requests : RowIsComing(q)'
  <2>1. faults = 0 /\ drops = 0
    BY <1>a, <1>1, StepKeepsBudget
  <2> QED BY <1>1, <2>1, StepKeepsOwed DEF AllComing
<1>2. ASSUME NEW r \in Requests, NEW t, NEW s,
             NEW pc \in {"insert_site", "get_old", "delete_site", "get_site",
                         "take_pending", "remove_session"}, Accept(r, t, s, pc)
      PROVE  \A q \in Requests : RowIsComing(q)'
  <2>1. /\ task[r].pc = "idle" /\ \A q \in Requests \ {r} : task'[q] = task[q]
        /\ UNCHANGED <<sites, nextSite, owed, faults, drops>>
    BY <1>a, <1>2 DEF Accept, store, budget
  <2>2. ~OnItsWay(r) \/ owed[r] = None
    BY <2>1 DEF OnItsWay, UntilLogged, TypeOK, StoreOK, AuditRow
  <2> QED BY <2>1, <2>2 DEF AllComing, RowIsComing, OnItsWay, Overtaken, Exists
<1>3. CASE UNCHANGED <<store, task, budget>>
  BY <1>3 DEF AllComing, RowIsComing, OnItsWay, Overtaken, Exists, store, budget
<1>4. ~Restart /\ \A r \in Requests : ~Drop(r)
  BY <1>a DEF Restart, Drop
<1>5. (\E t \in Tokens : Login(t) \/ Expire(t)) \/ UNCHANGED vars =>
        UNCHANGED <<store, task, budget>>
  BY DEF Login, Expire, vars
<1> QED BY <1>1, <1>2, <1>3, <1>4, <1>5
        DEF Next, AcceptCreate, AcceptSiteRequest, AcceptLogout

\* As long as nothing fails and no handler is dropped, the audit log accounts
\* for every creation, update, trusted key and deletion: its row is written, or
\* the request that made the change is on its way to write it, unless it is an
\* update whose site was deleted before upsert_secret.
THEOREM AuditStaysComplete == Spec => []AuditIsComplete
<1>1. CreationFacts /\ AllComing => AuditIsComplete
  BY DEF CreationFacts, Complete, AuditIsComplete, AllComing, OwedIsComing,
     RowIsComing, OnItsWay, Overtaken
<1>2. Init => FreshIds /\ AuditFacts
  BY SiteTrustAssumption DEF Init, FreshIds, AuditFacts, NumbersUsed, DeletedStayGone,
     CreatedHaveSecrets, Audited, Doing, Exists, Idle, Numbered
<1>3. Init => AllComing
  BY DEF Init, AllComing, RowIsComing
<1> QED BY <1>1, <1>2, <1>3, CreationStaysRight, NextKeepsFresh, NextKeepsFacts,
           NextKeepsOwed, TypeCorrect, PTL DEF Spec

-------------------------------------------------------------------------------
(* A trusted key and the connection it was observed on.                    *)

\* The connection of s was edited, and the log says so or is about to.
Edited(s) ==
    \/ Audited(s, "site_updated")
    \/ Doing(s, {"clear_fingerprint", "upsert_secret", "audit_updated"})
    \/ faults > 0 \/ drops > 0

\* A key may still be trusted, or is trusted, that was presented at c: by the
\* row, by a pending test, by a request that tests or decides.
TrustedVia(s, c) == Exists(s) /\ sites[s].fp # None /\ sites[s].via = c
PendingVia(s, c) == \E t \in Tokens : pending[t][s] # None /\ pending[t][s].conn = c

Carries(k, c) ==
    \/ k.obs # None /\ k.obs.conn = c
    \/ k.pc \in {"get_secret", "test_connection"} /\ k.row.conn = c

CarriedVia(s, c) == \E r \in Requests : task[r].site = s /\ Carries(task[r], c)

Known(s, c) == TrustedVia(s, c) \/ PendingVia(s, c) \/ CarriedVia(s, c)

\* What is known of a site's connection is true, or was made untrue by an edit.
KnownIsCurrent ==
    \A s \in SiteIds, c \in Conns \cup {None} :
        Known(s, c) => /\ s < nextSite
                       /\ Exists(s) => sites[s].conn = c \/ Edited(s)

\* The row of a site learns from a request that holds a test of it.
LEMMA TrustComes ==
    ASSUME TypeOK, NEW r \in Requests, Step(r), NEW s \in SiteIds, NEW c \in Conns \cup {None},
           TrustedVia(s, c)'
    PROVE  Known(s, c)
<1>a. /\ sites \in [SiteIds -> SiteRow \cup {None}] /\ None \notin SiteRow
      /\ task[r] \in Task /\ TaskShape(task[r])
  BY SiteTrustAssumption DEF TypeOK, StoreOK, TasksOK
<1>1. CASE UNCHANGED sites
  BY <1>1 DEF TrustedVia, Exists, Known
<1>2. CASE InsertSite(r)
  <2>1. ASSUME NEW d \in Conns,
               sites' = [sites EXCEPT ![NewId] = [conn |-> d, fp |-> None, via |-> None]]
        PROVE  sites'[s] = sites[s]
    BY <1>a, <2>1 DEF TrustedVia
  <2> QED BY <1>1, <1>2, <2>1 DEF InsertSite, store, TrustedVia, Exists, Known
<1>3. ASSUME NEW q \in SiteIds, DropRow(q)
      PROVE  Known(s, c)
  <2>1. sites'[s] = sites[s]
    BY <1>a, <1>3 DEF DropRow, TrustedVia, Exists
  <2> QED BY <2>1 DEF TrustedVia, Exists, Known
<1>4. CASE UndoInsert(r) \/ DeleteSite(r)
  <2>1. task[r].site \in SiteIds
    BY <1>4, <1>a DEF UndoInsert, DeleteSite, At, TaskShape, Task
  <2> QED BY <1>1, <1>3, <1>4, <2>1 DEF UndoInsert, DeleteSite, Fault, store
<1>5. CASE UpdateSite(r)
  <2>1. ASSUME NEW d \in Conns, sites' = [sites EXCEPT ![task[r].site].conn = d],
               sites[task[r].site] # None
        PROVE  Known(s, c)
    <3>1. /\ Exists(s) /\ sites'[s].fp = sites[s].fp /\ sites'[s].via = sites[s].via
      BY <1>a, <2>1 DEF TrustedVia, Exists, SiteRow
    <3> QED BY <3>1 DEF TrustedVia, Known
  <2> QED BY <1>1, <1>5, <2>1 DEF UpdateSite, store
<1>6. CASE ClearFingerprint(r)
  <2>1. ASSUME sites' = [sites EXCEPT ![task[r].site].fp = None, ![task[r].site].via = None],
               sites[task[r].site] # None
        PROVE  sites'[s] = sites[s]
    BY <1>a, <2>1 DEF TrustedVia, SiteRow
  <2> QED BY <1>1, <1>6, <2>1 DEF ClearFingerprint, Fault, store, TrustedVia, Exists, Known
<1>7. CASE StoreFingerprint(r)
  <2>1. task[r].obs # None
    BY <1>7, <1>a DEF StoreFingerprint, At, TaskShape
  <2>2. ASSUME sites' = [sites EXCEPT ![task[r].site].fp = task[r].obs.key,
                                      ![task[r].site].via = task[r].obs.conn],
               sites[task[r].site] # None
        PROVE  Known(s, c)
    <3>1. CASE s # task[r].site
      <4>1. sites'[s] = sites[s]
        BY <1>a, <2>2, <3>1
      <4> QED BY <4>1 DEF TrustedVia, Exists, Known
    <3>2. CASE s = task[r].site
      <4>1. task[r].obs.conn = c
        BY <1>a, <2>2, <3>2 DEF TrustedVia, SiteRow
      <4> QED BY <2>1, <3>2, <4>1 DEF Known, CarriedVia, Carries
    <3> QED BY <3>1, <3>2
  <2> QED BY <1>1, <1>7, <2>2 DEF StoreFingerprint, Fault, store
<1>8. CASE \/ StoreNew(r) \/ GetOld(r) \/ UpsertSecret(r) \/ GetSite(r) \/ GetSecret(r)
           \/ TestConnection(r) \/ SetPending(r) \/ TakePending(r)
           \/ RemoveSession(r) \/ DropPending(r)
           \/ Audit(r, "audit_created", "site_created")
           \/ Audit(r, "audit_updated", "site_updated")
           \/ Audit(r, "audit_deleted", "site_deleted")
           \/ Audit(r, "audit_trusted", "site_host_key_trusted")
  <2>1. UNCHANGED sites
    BY <1>8 DEF StoreNew, StoreSecret, GetOld, UpsertSecret, GetSite, GetSecret,
       TestConnection, SetPending, TakePending, RemoveSession, DropPending, Audit,
       Fault, store
  <2> QED BY <1>1, <2>1
<1> QED BY <1>2, <1>4, <1>5, <1>6, <1>7, <1>8 DEF Step

\* An entry of pending_fingerprints comes from a request that made the test.
LEMMA PendingComes ==
    ASSUME TypeOK, NEW r \in Requests, Step(r), NEW s \in SiteIds, NEW c \in Conns \cup {None},
           PendingVia(s, c)'
    PROVE  Known(s, c)
<1>a. /\ pending \in [Tokens -> [SiteIds -> Observation \cup {None}]]
      /\ task[r] \in Task /\ TaskShape(task[r])
  BY DEF TypeOK, MemoryOK, TasksOK
<1>b. PICK t \in Tokens : pending'[t][s] # None /\ pending'[t][s].conn = c
  BY DEF PendingVia
<1>1. CASE pending'[t][s] = pending[t][s]
  BY <1>b, <1>1 DEF PendingVia, Known
<1>2. CASE pending'[t][s] # pending[t][s]
  <2>1. CASE SetPending(r)
    <3>1. /\ task[r].site = s /\ task[r].token = t
          /\ pending'[t][s] = task[r].obs
      BY <1>a, <1>2, <2>1 DEF SetPending, At, TaskShape, Task
    <3> QED BY <1>b, <3>1 DEF Known, CarriedVia, Carries
  <2>2. CASE TakePending(r)
    BY <1>a, <1>b, <1>2, <2>2 DEF TakePending, Taken
  <2>3. CASE DropPending(r)
    BY <1>a, <1>b, <1>2, <2>3 DEF DropPending
  <2>4. CASE ~SetPending(r) /\ ~TakePending(r) /\ ~DropPending(r)
    <3>1. UNCHANGED pending
      BY <2>4 DEF Step, InsertSite, StoreNew, StoreSecret, UndoInsert, GetOld, UpdateSite,
         ClearFingerprint, UpsertSecret, DeleteSite, GetSite, GetSecret, TestConnection,
         StoreFingerprint, RemoveSession, Audit, Fault, memory
    <3> QED BY <1>2, <3>1
  <2> QED BY <2>1, <2>2, <2>3, <2>4
<1> QED BY <1>1, <1>2

\* A request learns a connection from the row it reads, a test it makes on that
\* connection, or the pending test it takes.
LEMMA CarriedComes ==
    ASSUME TypeOK, NEW r \in Requests, Step(r), NEW s \in SiteIds, NEW c \in Conns \cup {None},
           CarriedVia(s, c)'
    PROVE  Known(s, c) \/ (Exists(s) /\ sites[s].conn = c)
<1>a. /\ task \in [Requests -> Task] /\ task[r] \in Task /\ TaskShape(task[r])
      /\ pending \in [Tokens -> [SiteIds -> Observation \cup {None}]]
  BY DEF TypeOK, MemoryOK, TasksOK
<1>b. PICK q \in Requests : task'[q].site = s /\ Carries(task'[q], c)
  BY DEF CarriedVia
<1>c. Idle.obs = None /\ Idle.pc = "idle"
  BY DEF Idle
<1>1. CASE task'[q] = task[q]
  BY <1>b, <1>1 DEF CarriedVia, Known
<1>2. CASE q = r /\ ~Reply(r)
  <2>1. ASSUME NEW pc \in Labels \ {"get_secret", "test_connection"}, GoTo(r, pc)
        PROVE  Known(s, c)
    <3>1. /\ task'[r].pc = pc /\ task'[r].site = task[r].site
          /\ task'[r].obs = task[r].obs
      BY <1>a, <2>1 DEF GoTo, Task
    <3> QED BY <1>b, <1>2, <2>1, <3>1 DEF Carries, CarriedVia, Known
  <2>2. CASE GetSite(r)
    <3>1. /\ task'[r].site = task[r].site /\ task'[r].obs = task[r].obs
          /\ task'[r].row = sites[task[r].site] /\ Exists(task[r].site)
      BY <1>a, <1>2, <2>2 DEF GetSite, Task, Exists
    <3>2. task[r].obs = None
      BY <1>a, <2>2 DEF GetSite, At, TaskShape
    <3> QED BY <1>b, <1>2, <3>1, <3>2 DEF Carries
  <2>3. CASE GetSecret(r)
    <3>1. /\ task[r].pc = "get_secret" /\ GoTo(r, "test_connection")
      BY <1>2, <2>3 DEF GetSecret, At
    <3>2. /\ task'[r].pc = "test_connection" /\ task'[r].site = task[r].site
          /\ task'[r].obs = task[r].obs /\ task'[r].row = task[r].row
      BY <1>a, <3>1 DEF GoTo, Task
    <3> QED BY <1>b, <1>2, <3>1, <3>2 DEF Carries, CarriedVia, Known
  <2>4. CASE TestConnection(r)
    <3>1. PICK k \in Keys : 
            task' = [task EXCEPT ![r].pc = "set_pending", ![r].row = None,
                                 ![r].obs = [key |-> k, conn |-> task[r].row.conn,
                                             id |-> tests + 1]]
      BY <1>2, <2>4 DEF TestConnection
    <3>2. task[r].pc = "test_connection"
      BY <2>4 DEF TestConnection, At
    <3> DEFINE o == [key |-> k, conn |-> task[r].row.conn, id |-> tests + 1]
    <3>3. o.conn = task[r].row.conn
      OBVIOUS
    <3> HIDE DEF o
    <3>4. task' = [task EXCEPT ![r] = [task[r] EXCEPT !.pc = "set_pending",
                                                     !.row = None, !.obs = o]]
      BY <3>1 DEF o
    <3>5. /\ task'[r].pc = "set_pending" /\ task'[r].site = task[r].site
          /\ task'[r].obs = o
      BY <1>a, <3>4 DEF Task
    <3> QED BY <1>b, <1>2, <3>2, <3>3, <3>5 DEF Carries, CarriedVia, Known
  <2>5. CASE TakePending(r)
    <3> DEFINE t == task[r].token
               entry == pending[t][task[r].site]
    <3>0. t \in Tokens /\ task[r].site \in SiteIds
      BY <1>a, <2>5, SiteTrustAssumption DEF TakePending, At, TaskShape, Task
    <3>1. PICK k \in Keys :
            /\ entry # None
            /\ task' = [task EXCEPT ![r].pc = "store_fingerprint",
                                    ![r].obs = [entry EXCEPT !.key = k]]
      BY <1>2, <2>5 DEF TakePending, Matches
    <3>2. entry \in Observation
      BY <1>a, <3>0, <3>1
    <3> DEFINE o == [entry EXCEPT !.key = k]
    <3>3. o.conn = entry.conn
      BY <3>2 DEF Observation
    <3> HIDE DEF o, entry
    <3>4. task' = [task EXCEPT ![r] = [task[r] EXCEPT !.pc = "store_fingerprint", !.obs = o]]
      BY <3>1 DEF o, entry
    <3>5. /\ task'[r].pc = "store_fingerprint" /\ task'[r].site = task[r].site
          /\ task'[r].obs = o
      BY <1>a, <3>4 DEF Task
    <3>6. entry.conn = c /\ task[r].site = s
      BY <1>b, <1>2, <3>3, <3>5 DEF Carries
    <3> QED BY <3>0, <3>1, <3>6 DEF entry, PendingVia, Known
  <2>6. CASE GetOld(r) \/ UpdateSite(r) \/ InsertSite(r)
    <3>1. task[r].obs = None
      BY <1>a, <2>6 DEF GetOld, UpdateSite, InsertSite, At, TaskShape
    <3>2. PICK pc, row, site :
            /\ pc \in Labels \ {"get_secret", "test_connection"}
            /\ task' = [task EXCEPT ![r] = [task[r] EXCEPT !.pc = pc, !.row = row,
                                                           !.site = site]]
      <4>1. CASE GetOld(r)
        <5>1. task' = [task EXCEPT ![r] = [task[r] EXCEPT !.pc = "update_site",
                         !.row = sites[task[r].site], !.site = task[r].site]]
          BY <1>a, <1>2, <4>1 DEF GetOld, Task
        <5> QED BY <5>1 DEF Labels
      <4>2. CASE UpdateSite(r)
        <5>1. PICK pc \in {"clear_fingerprint", "upsert_secret", "audit_updated"} :
                task' = [task EXCEPT ![r].pc = pc, ![r].row = None]
          BY <1>2, <4>2 DEF UpdateSite
        <5>2. task' = [task EXCEPT ![r] = [task[r] EXCEPT !.pc = pc, !.row = None,
                                                         !.site = task[r].site]]
          BY <1>a, <5>1 DEF Task
        <5> QED BY <5>2 DEF Labels
      <4>3. CASE InsertSite(r)
        <5>1. task' = [task EXCEPT ![r] = [task[r] EXCEPT !.pc = "store_new",
                         !.row = task[r].row, !.site = NewId]]
          BY <1>a, <1>2, <4>3 DEF InsertSite, Task
        <5> QED BY <5>1 DEF Labels
      <4> QED BY <2>6, <4>1, <4>2, <4>3
    <3>3. task'[r].pc = pc /\ task'[r].obs = None
      BY <1>a, <3>1, <3>2 DEF Task
    <3> QED BY <1>b, <1>2, <3>2, <3>3 DEF Carries
  <2>7. CASE StoreFingerprint(r)
    <3>1. task'[r].pc = "audit_trusted" /\ task'[r].obs = None
      BY <1>a, <1>2, <2>7 DEF StoreFingerprint, Task
    <3> QED BY <1>b, <1>2, <3>1 DEF Carries
  <2>8. CASE \/ StoreNew(r) \/ ClearFingerprint(r) \/ UpsertSecret(r)
             \/ DeleteSite(r) \/ RemoveSession(r)
    BY <1>2, <2>1, <2>8 DEF StoreNew, StoreSecret, ClearFingerprint, UpsertSecret,
       DeleteSite, RemoveSession, Labels
  <2>9. CASE \/ UndoInsert(r) \/ SetPending(r) \/ DropPending(r)
             \/ Audit(r, "audit_created", "site_created")
             \/ Audit(r, "audit_updated", "site_updated")
             \/ Audit(r, "audit_deleted", "site_deleted")
             \/ Audit(r, "audit_trusted", "site_host_key_trusted")
    BY <1>2, <2>9 DEF UndoInsert, SetPending, DropPending, Audit
  <2> QED BY <2>2, <2>3, <2>4, <2>5, <2>6, <2>7, <2>8, <2>9 DEF Step
<1>3. CASE q = r /\ Reply(r)
  BY <1>a, <1>b, <1>c, <1>3 DEF Reply, Carries
<1>4. q # r => task'[q] = task[q]
  BY <1>a DEF Step, InsertSite, StoreNew, UndoInsert, GetOld, UpdateSite,
     ClearFingerprint, UpsertSecret, StoreSecret, DeleteSite, GetSite, GetSecret,
     TestConnection, SetPending, TakePending, StoreFingerprint, RemoveSession,
     DropPending, Audit, GoTo, Reply
<1> QED BY <1>1, <1>2, <1>3, <1>4

\* An edit stays edited, and only an edit changes the connection of a row.
LEMMA EditsStay ==
    ASSUME TypeOK, FreshIds, NEW r \in Requests, Step(r), NEW s \in SiteIds,
           Exists(s), Exists(s)',
           sites[s].conn # sites'[s].conn \/ Edited(s)
    PROVE  Edited(s)'
<1>a. /\ task \in [Requests -> Task] /\ task[r] \in Task /\ TaskShape(task[r])
      /\ sites \in [SiteIds -> SiteRow \cup {None}] /\ None \notin SiteRow
      /\ faults \in Nat /\ drops \in Nat /\ nextSite \in Nat
  BY SiteTrustAssumption DEF TypeOK, StoreOK, TasksOK, BudgetOK
<1>b. /\ audit \subseteq audit' /\ drops' = drops
      /\ faults' = faults \/ faults' = faults + 1
      /\ \A q \in Requests \ {r} : task'[q] = task[q]
  <2>1. audit \subseteq audit'
    BY DEF Step, InsertSite, StoreNew, StoreSecret, UndoInsert, GetOld, UpdateSite,
       ClearFingerprint, UpsertSecret, DeleteSite, GetSite, GetSecret, TestConnection,
       SetPending, TakePending, StoreFingerprint, RemoveSession, DropPending, Audit,
       DropRow, Fault, store
  <2>2. drops' = drops /\ (faults' = faults \/ faults' = faults + 1)
    BY DEF Step, InsertSite, StoreNew, StoreSecret, UndoInsert, GetOld, UpdateSite,
       ClearFingerprint, UpsertSecret, DeleteSite, GetSite, GetSecret, TestConnection,
       SetPending, TakePending, StoreFingerprint, RemoveSession, DropPending, Audit,
       Fault, budget
  <2>3. \A q \in Requests \ {r} : task'[q] = task[q]
    BY <1>a DEF Step, InsertSite, StoreNew, UndoInsert, GetOld, UpdateSite,
       ClearFingerprint, UpsertSecret, StoreSecret, DeleteSite, GetSite, GetSecret,
       TestConnection, SetPending, TakePending, StoreFingerprint, RemoveSession,
       DropPending, Audit, GoTo, Reply
  <2> QED BY <2>1, <2>2, <2>3
<1> DEFINE Editing == {"clear_fingerprint", "upsert_secret", "audit_updated"}
<1>1. CASE sites[s].conn # sites'[s].conn
  <2>1. ASSUME UNCHANGED sites \/ sites'[s] = sites[s]
        PROVE  FALSE
    BY <1>1, <2>1
  <2>2. ~InsertSite(r)
    <3>1. ASSUME NEW d \in Conns, InsertSite(r), s = NewId,
                 sites' = [sites EXCEPT ![NewId] = [conn |-> d, fp |-> None, via |-> None]]
          PROVE  FALSE
      BY <1>a, <3>1 DEF NewId, FreshIds
    <3>2. ASSUME NEW d \in Conns, InsertSite(r), s # NewId,
                 sites' = [sites EXCEPT ![NewId] = [conn |-> d, fp |-> None, via |-> None]]
          PROVE  FALSE
      BY <1>a, <2>1, <3>2
    <3> QED BY <2>1, <3>1, <3>2 DEF InsertSite, store
  <2>3. ~UndoInsert(r) /\ ~DeleteSite(r)
    <3>1. ASSUME NEW q, DropRow(q)
          PROVE  FALSE
      BY <1>a, <2>1, <3>1 DEF DropRow, Exists
    <3> QED BY <2>1, <3>1 DEF UndoInsert, DeleteSite, Fault, store
  <2>4. ~ClearFingerprint(r) /\ ~StoreFingerprint(r)
    <3>1. ASSUME NEW fp, NEW via, NEW q,
                 sites' = [sites EXCEPT ![q].fp = fp, ![q].via = via]
          PROVE  FALSE
      <4>1. sites' = [sites EXCEPT ![q] = [sites[q] EXCEPT !.fp = fp, !.via = via]]
        BY <3>1
      <4>2. sites[s] \in SiteRow
        BY <1>a DEF Exists
      <4>3. sites'[s].conn = sites[s].conn
        BY <1>a, <4>1, <4>2 DEF SiteRow
      <4> QED BY <1>1, <4>3
    <3> QED BY <2>1, <3>1 DEF ClearFingerprint, StoreFingerprint, Fault, store
  <2>5. UpdateSite(r)
    BY <2>1, <2>2, <2>3, <2>4
       DEF Step, StoreNew, StoreSecret, GetOld, UpsertSecret, GetSite, GetSecret,
           TestConnection, SetPending, TakePending, RemoveSession, DropPending, Audit,
           Fault, store
  <2>6. PICK c \in Conns, next \in {"upsert_secret", "audit_updated"} :
          /\ sites' = IF sites[task[r].site] = None THEN sites
                      ELSE [sites EXCEPT ![task[r].site].conn = c]
          /\ task' = [task EXCEPT ![r].pc = IF task[r].row.conn # c
                                            THEN "clear_fingerprint" ELSE next,
                                  ![r].row = None]
    BY <2>1, <2>5 DEF UpdateSite, store
  <2>7. task[r].site = s
    BY <1>a, <2>1, <2>6
  <2> DEFINE pc == IF task[r].row.conn # c THEN "clear_fingerprint" ELSE next
  <2>8. task' = [task EXCEPT ![r] = [task[r] EXCEPT !.pc = pc, !.row = None]]
    BY <2>6
  <2>9. pc \in Editing
    OBVIOUS
  <2> HIDE DEF pc
  <2>10. task'[r].pc \in Editing /\ task'[r].site = s
    BY <1>a, <2>7, <2>8, <2>9 DEF Task
  <2> QED BY <2>10 DEF Edited, Doing
<1>2. CASE Edited(s)
  <2>1. CASE Audited(s, "site_updated") \/ faults > 0 \/ drops > 0
    BY <1>a, <1>b, <2>1 DEF Audited, Edited
  <2>2. ASSUME NEW q \in Requests, task[q].site = s, task[q].pc \in Editing
        PROVE  Edited(s)'
    <3>1. CASE q # r
      BY <1>b, <2>2, <3>1 DEF Edited, Doing
    <3>2. CASE q = r /\ task[r].pc \in {"clear_fingerprint", "upsert_secret"}
      <4>1. ClearFingerprint(r) \/ UpsertSecret(r)
        BY <3>2 DEF Step, InsertSite, StoreNew, UndoInsert, GetOld, UpdateSite,
           DeleteSite, GetSite, GetSecret, TestConnection, SetPending, TakePending,
           StoreFingerprint, RemoveSession, DropPending, Audit, At
      <4>2. \/ faults' = faults + 1
            \/ \E pc \in {"upsert_secret", "audit_updated"} : GoTo(r, pc)
        BY <2>2, <3>2, <4>1 DEF ClearFingerprint, UpsertSecret, StoreSecret, Fault, Exists
      <4>3. ASSUME NEW pc \in {"upsert_secret", "audit_updated"}, GoTo(r, pc)
            PROVE  task'[r].pc = pc /\ task'[r].site = s
        BY <1>a, <2>2, <3>2, <4>3 DEF GoTo, Task
      <4> QED BY <1>a, <4>2, <4>3 DEF Edited, Doing
    <3>3. CASE q = r /\ task[r].pc = "audit_updated"
      <4>1. Audit(r, "audit_updated", "site_updated")
        BY <3>3 DEF Step, InsertSite, StoreNew, UndoInsert, GetOld, UpdateSite,
           ClearFingerprint, UpsertSecret, DeleteSite, GetSite, GetSecret, TestConnection,
           SetPending, TakePending, StoreFingerprint, RemoveSession, DropPending, Audit, At
      <4> QED BY <1>a, <2>2, <3>3, <4>1 DEF Audit, Fault, Audited, Edited
    <3> QED BY <2>2, <3>1, <3>2, <3>3
  <2> QED BY <1>2, <2>1, <2>2 DEF Edited, Doing
<1> QED BY <1>1, <1>2

\* What is known stays current through every statement.
LEMMA NextKeepsKnown ==
    TypeOK /\ FreshIds /\ KnownIsCurrent /\ [Next]_vars => KnownIsCurrent'
<1> SUFFICES ASSUME TypeOK, FreshIds, KnownIsCurrent, [Next]_vars,
                    NEW s \in SiteIds, NEW c \in Conns \cup {None}, Known(s, c)'
             PROVE  /\ s < nextSite'
                    /\ Exists(s)' => sites'[s].conn = c \/ Edited(s)'
    BY DEF KnownIsCurrent
<1>a. /\ task \in [Requests -> Task] /\ faults \in Nat /\ drops \in Nat
      /\ s \in Nat
  BY DEF TypeOK, TasksOK, BudgetOK, SiteIds
<1>1. ASSUME NEW r \in Requests, Step(r)
      PROVE  /\ s < nextSite'
             /\ Exists(s)' => sites'[s].conn = c \/ Edited(s)'
  <2>1. Known(s, c) \/ (Exists(s) /\ sites[s].conn = c)
    BY <1>1, TrustComes, PendingComes, CarriedComes DEF Known
  <2>2. s < nextSite
    BY <2>1 DEF KnownIsCurrent, FreshIds
  <2>3. s < nextSite' /\ (Exists(s)' => Exists(s))
    BY <1>1, <1>a, <2>2, NewRowsAreNew
  <2>4. Exists(s) => sites[s].conn = c \/ Edited(s)
    BY <2>1 DEF KnownIsCurrent
  <2>5. ASSUME Exists(s)'
        PROVE  sites'[s].conn = c \/ Edited(s)'
    <3>1. Exists(s)
      BY <2>3, <2>5
    <3>2. CASE sites'[s].conn = sites[s].conn /\ ~Edited(s)
      BY <2>4, <3>1, <3>2
    <3>3. CASE sites'[s].conn # sites[s].conn \/ Edited(s)
      BY <1>1, <2>5, <3>1, <3>3, EditsStay
    <3> QED BY <3>2, <3>3
  <2> QED BY <2>3, <2>5
<1>2. ASSUME UNCHANGED <<sites, nextSite>>, Known(s, c), Edited(s) => Edited(s)'
      PROVE  /\ s < nextSite'
             /\ Exists(s)' => sites'[s].conn = c \/ Edited(s)'
  BY <1>2 DEF KnownIsCurrent, Exists
<1>3. ASSUME NEW r \in Requests, NEW t, NEW q,
             NEW pc \in {"insert_site", "get_old", "delete_site", "get_site",
                         "take_pending", "remove_session"}, Accept(r, t, q, pc)
      PROVE  /\ s < nextSite'
             /\ Exists(s)' => sites'[s].conn = c \/ Edited(s)'
  <2>1. /\ task[r].pc = "idle" /\ task'[r].pc = pc /\ task'[r].obs = None
        /\ \A p \in Requests \ {r} : task'[p] = task[p]
        /\ UNCHANGED <<sites, pending, nextSite, audit, faults, drops>>
    BY <1>a, <1>3 DEF Accept, Idle, store, budget, memory
  <2>2. Known(s, c)
    <3>1. CarriedVia(s, c)' => CarriedVia(s, c)
      BY <2>1 DEF CarriedVia, Carries
    <3>2. PendingVia(s, c)' => PendingVia(s, c)
      BY <2>1 DEF PendingVia
    <3>3. TrustedVia(s, c)' => TrustedVia(s, c)
      BY <2>1 DEF TrustedVia, Exists
    <3> QED BY <3>1, <3>2, <3>3 DEF Known
  <2>3. Edited(s) => Edited(s)'
    BY <2>1 DEF Edited, Doing, Audited
  <2> QED BY <1>2, <2>1, <2>2, <2>3
<1>4. CASE Restart \/ \E r \in Requests : Drop(r)
  <2>1. /\ UNCHANGED store /\ drops' = drops + 1
        /\ \A q \in Requests : task'[q] = task[q] \/ task'[q] = Idle
    BY <1>a, <1>4 DEF Restart, Drop, Reply
  <2>2. \A t \in Tokens : pending'[t][s] \in {pending[t][s], None}
    BY <1>4 DEF Restart, Drop, memory
  <2>3. Known(s, c)
    <3>1. CarriedVia(s, c)' => CarriedVia(s, c)
      BY <2>1 DEF CarriedVia, Carries, Idle
    <3>2. PendingVia(s, c)' => PendingVia(s, c)
      BY <2>2 DEF PendingVia
    <3>3. TrustedVia(s, c)' => TrustedVia(s, c)
      BY <2>1 DEF TrustedVia, Exists, store
    <3> QED BY <3>1, <3>2, <3>3 DEF Known
  <2>4. Edited(s)'
    BY <1>a, <2>1 DEF Edited
  <2> QED BY <1>2, <2>1, <2>3, <2>4 DEF store
<1>5. CASE UNCHANGED vars \/ \E t \in Tokens : Login(t) \/ Expire(t)
  <2>1. UNCHANGED <<store, pending, task, budget>>
    BY <1>5 DEF Login, Expire, vars, memory
  <2>2. Known(s, c)
    BY <2>1 DEF Known, TrustedVia, PendingVia, CarriedVia, Exists, store
  <2>3. Edited(s) => Edited(s)'
    BY <2>1 DEF Edited, Doing, Audited, store, budget
  <2> QED BY <1>2, <2>1, <2>2, <2>3 DEF store
<1> QED BY <1>1, <1>3, <1>4, <1>5
        DEF Next, AcceptCreate, AcceptSiteRequest, AcceptLogout

\* A trusted key that was not observed on the connection now in the row: the
\* connection was edited.
MismatchIsEdit ==
    \A s \in SiteIds :
        Exists(s) /\ sites[s].fp # None /\ sites[s].via # sites[s].conn => Edited(s)

\* What is left of KeyMatchesConnection, which the code does not keep: a site can
\* have the key of another connection only if site_update was used on it
\* (the audit log says so, or is about to), or something failed or was dropped.
\* No order of tests and decisions alone pairs a key with a wrong connection.
THEOREM MismatchesAreEdits == Spec => []MismatchIsEdit
<1>1. Init => FreshIds /\ KnownIsCurrent
  BY SiteTrustAssumption DEF Init, FreshIds, KnownIsCurrent, Known, TrustedVia, PendingVia,
     CarriedVia, Carries, Exists, Idle
<1>2. TypeOK /\ KnownIsCurrent => MismatchIsEdit
  <2> SUFFICES ASSUME TypeOK, KnownIsCurrent, NEW s \in SiteIds, Exists(s),
                      sites[s].fp # None, sites[s].via # sites[s].conn
               PROVE  Edited(s)
      BY DEF MismatchIsEdit
  <2>1. sites[s].via \in Conns \cup {None}
    BY DEF TypeOK, StoreOK, SiteRow, Exists
  <2> QED BY <2>1 DEF KnownIsCurrent, Known, TrustedVia
<1> QED BY <1>1, <1>2, NextKeepsFresh, NextKeepsKnown, TypeCorrect, PTL DEF Spec

-------------------------------------------------------------------------------
(* The tables, as a wake sees them.                                        *)

Table == INSTANCE SiteTable
    WITH Sites <- SiteIds, next <- nextSite,
         stored <- {s \in SiteIds : Exists(s)},
         trusted <- {s \in SiteIds : Exists(s) /\ sites[s].fp # None}

\* Each statement is one of the table's, or changes nothing that a wake looks at.
LEMMA StepOnTable ==
    ASSUME TypeOK, SecretsHaveSites, FreshIds, NEW r \in Requests, Step(r)
    PROVE  [Table!Next]_(Table!vars)
<1>a. /\ sites \in [SiteIds -> SiteRow \cup {None}] /\ secrets \subseteq SiteIds
      /\ None \notin SiteRow /\ None \notin Keys
  BY SiteTrustAssumption DEF TypeOK, StoreOK
<1>b. \A s \in secrets : Exists(s)
  BY DEF SecretsHaveSites
<1> USE DEF Table!Next, Table!vars, Table!Insert, Table!Trust, Table!Distrust,
            Table!Store, Table!Delete
<1>1. ASSUME NEW s \in SiteIds, DropRow(s)
      PROVE  [Table!Next]_(Table!vars)
  <2>1. /\ nextSite' = nextSite /\ secrets' = secrets \ {s}
        /\ {q \in SiteIds : Exists(q)'} = {q \in SiteIds : Exists(q)} \ {s}
        /\ {q \in SiteIds : Exists(q)' /\ sites'[q].fp # None}
             = {q \in SiteIds : Exists(q) /\ sites[q].fp # None} \ {s}
    BY <1>a, <1>1 DEF DropRow, Exists
  <2>2. CASE Exists(s)
    BY <2>1, <2>2
  <2>3. CASE ~Exists(s)
    BY <1>b, <2>1, <2>3
  <2> QED BY <2>2, <2>3
<1>2. ASSUME RowsStay, UNCHANGED secrets
      PROVE  UNCHANGED Table!vars
  BY <1>2 DEF RowsStay
<1>3. ASSUME UNCHANGED <<sites, nextSite>>,
             NEW s \in SiteIds, Exists(s), secrets' = secrets \cup {s}
      PROVE  Table!Next
  <2>1. /\ nextSite' = nextSite
        /\ {q \in SiteIds : Exists(q)'} = {q \in SiteIds : Exists(q)}
        /\ {q \in SiteIds : Exists(q)' /\ sites'[q].fp # None}
             = {q \in SiteIds : Exists(q) /\ sites[q].fp # None}
    BY <1>3 DEF Exists
  <2> QED BY <1>3, <2>1
<1>4. ASSUME RowAdded, UNCHANGED secrets, ~Exists(nextSite)
      PROVE  Table!Next
  <2>1. PICK row \in SiteRow :
          row.fp = None /\ sites' = [sites EXCEPT ![nextSite] = row]
    BY <1>4 DEF RowAdded
  <2>2. /\ nextSite \in SiteIds /\ nextSite' = nextSite + 1
        /\ {q \in SiteIds : Exists(q)'} = {q \in SiteIds : Exists(q)} \cup {nextSite}
        /\ {q \in SiteIds : Exists(q)' /\ sites'[q].fp # None}
             = {q \in SiteIds : Exists(q) /\ sites[q].fp # None}
    BY <1>a, <1>4, <2>1 DEF RowAdded, Exists
  <2> QED BY <1>4, <2>2
<1>5. ASSUME NEW s, RowCleared(s), UNCHANGED secrets
      PROVE  Table!Next
  <2>1. PICK row \in SiteRow : row.fp = None /\ sites' = [sites EXCEPT ![s] = row]
    BY <1>5 DEF RowCleared
  <2>2. /\ s \in SiteIds /\ Exists(s) /\ nextSite' = nextSite
        /\ {q \in SiteIds : Exists(q)'} = {q \in SiteIds : Exists(q)}
        /\ {q \in SiteIds : Exists(q)' /\ sites'[q].fp # None}
             = {q \in SiteIds : Exists(q) /\ sites[q].fp # None} \ {s}
    BY <1>a, <1>5, <2>1 DEF RowCleared, Exists
  <2> QED BY <1>5, <2>2
<1>6. ASSUME NEW s, NEW k \in Keys, RowTrusted(s, k), UNCHANGED secrets
      PROVE  Table!Next
  <2>1. PICK row \in SiteRow : row.fp = k /\ sites' = [sites EXCEPT ![s] = row]
    BY <1>6 DEF RowTrusted
  <2>2. /\ s \in SiteIds /\ Exists(s) /\ nextSite' = nextSite
        /\ {q \in SiteIds : Exists(q)'} = {q \in SiteIds : Exists(q)}
        /\ {q \in SiteIds : Exists(q)' /\ sites'[q].fp # None}
             = {q \in SiteIds : Exists(q) /\ sites[q].fp # None} \cup {s}
    BY <1>a, <1>6, <2>1 DEF RowTrusted, Exists
  <2> QED BY <1>6, <2>2
<1>7. CASE InsertSite(r)
  <2>1. UNCHANGED secrets
    BY <1>7 DEF InsertSite, store
  <2>2. RowsStay \/ RowAdded
    BY <1>7, StepOnRows DEF InsertSite, UndoInsert, DeleteSite, ClearFingerprint,
       StoreFingerprint, At
  <2>3. RowAdded => ~Exists(nextSite)
    BY <1>a DEF FreshIds, RowAdded, TypeOK, StoreOK
  <2> QED BY <1>2, <1>4, <2>1, <2>2, <2>3
<1>8. CASE StoreNew(r) \/ UpsertSecret(r)
  <2>1. UNCHANGED <<sites, nextSite>>
    BY <1>8 DEF StoreNew, UpsertSecret, StoreSecret, Fault, store
  <2>2. task[r].site \in SiteIds
    BY <1>8 DEF StoreNew, UpsertSecret, At, TypeOK, TasksOK, TaskShape, Task
  <2>3. \/ UNCHANGED secrets
        \/ Exists(task[r].site) /\ secrets' = secrets \cup {task[r].site}
    BY <1>8 DEF StoreNew, UpsertSecret, StoreSecret, Fault, store, Exists
  <2>4. RowsStay
    BY <2>1 DEF RowsStay, Exists
  <2> QED BY <1>2, <1>3, <2>1, <2>2, <2>3, <2>4
<1>9. CASE UndoInsert(r) \/ DeleteSite(r)
  <2>1. task[r].site \in SiteIds
    BY <1>9 DEF UndoInsert, DeleteSite, At, TypeOK, TasksOK, TaskShape, Task
  <2>2. CASE UNCHANGED store
    <3>1. RowsStay /\ UNCHANGED secrets
      BY <2>2 DEF RowsStay, Exists, store
    <3> QED BY <1>2, <3>1
  <2> QED BY <1>1, <1>9, <2>1, <2>2 DEF UndoInsert, DeleteSite, Fault
<1>10. CASE ClearFingerprint(r) \/ StoreFingerprint(r) \/ UpdateSite(r)
  <2>1. UNCHANGED secrets
    BY <1>10 DEF ClearFingerprint, StoreFingerprint, UpdateSite, Fault, store
  <2>2. \/ RowsStay \/ RowCleared(task[r].site)
        \/ RowTrusted(task[r].site, task[r].obs.key) /\ StoreFingerprint(r)
    BY <1>10, StepOnRows DEF InsertSite, UndoInsert, DeleteSite, ClearFingerprint,
       StoreFingerprint, UpdateSite, At
  <2>3. StoreFingerprint(r) => task[r].obs.key \in Keys
    BY DEF StoreFingerprint, At, TypeOK, TasksOK, TaskShape, Task, Observation
  <2> QED BY <1>2, <1>5, <1>6, <2>1, <2>2, <2>3
<1>11. CASE UNCHANGED store
  <2>1. RowsStay /\ UNCHANGED secrets
    BY <1>11 DEF RowsStay, Exists, store
  <2> QED BY <1>2, <2>1
<1>12. CASE \E pc, action : Audit(r, pc, action)
  <2>1. RowsStay /\ UNCHANGED secrets
    BY <1>12 DEF RowsStay, Exists, Audit, Fault, store
  <2> QED BY <1>2, <2>1
<1> QED
  BY <1>7, <1>8, <1>9, <1>10, <1>11, <1>12
     DEF Step, GetOld, GetSite, GetSecret, TestConnection, SetPending, TakePending,
         RemoveSession, DropPending

\* The handlers of sites, with everything that may happen to their requests, do to
\* the tables what SiteTable says: one statement changes one thing a wake reads,
\* a key or a credential never comes before its site or stays behind it.  Wake
\* allows each of these changes at any time (TableStepsAreAllowed of WakeProofs),
\* so its results hold in the presence of these handlers.
THEOREM TableKept == Spec => Table!Spec
<1>1. Init => Table!Init /\ FreshIds
  BY DEF Init, Table!Init, FreshIds, Exists
<1>2. ASSUME TypeOK, SecretsHaveSites, FreshIds, [Next]_vars
      PROVE  [Table!Next]_(Table!vars)
  <2>1. CASE \E r \in Requests : Step(r)
    BY <1>2, <2>1, StepOnTable
  <2>2. CASE \A r \in Requests : ~Step(r)
    <3>1. UNCHANGED <<sites, nextSite>>
      BY <1>2, <2>2, EnvironmentKeeps
    <3>2. UNCHANGED secrets
      BY <1>2, <2>2 DEF Next, Login, Expire, AcceptCreate, AcceptSiteRequest,
         AcceptLogout, Accept, Drop, Restart, store, vars
    <3> QED BY <3>1, <3>2 DEF Table!vars, Exists
  <2> QED BY <2>1, <2>2
<1> QED BY <1>1, <1>2, NextKeepsFresh, TypeCorrect, CredentialsHaveSites, PTL
        DEF Spec, Table!Spec

-------------------------------------------------------------------------------
(* Requests come to an end.                                                *)

\* How many statements a request at label pc has before it at most.
StatementsLeft(pc) ==
    CASE pc = "get_old" -> 5
      [] pc \in {"update_site", "get_site"} -> 4
      [] pc \in {"insert_site", "clear_fingerprint", "get_secret",
                 "take_pending"} -> 3
      [] pc \in {"store_new", "upsert_secret", "delete_site", "test_connection",
                 "store_fingerprint", "remove_session"} -> 2
      [] pc \in {"undo_insert", "set_pending", "drop_pending", "audit_created",
                 "audit_updated", "audit_deleted", "audit_trusted"} -> 1
      [] pc = "idle" -> 0

StepsLeft(r) == StatementsLeft(task[r].pc)

\* Every statement of a request brings its reply nearer, and nothing else that
\* happens takes it back.
RequestAdvances(r) ==
    /\ Step(r) => StepsLeft(r)' < StepsLeft(r)
    /\ ~At(r, "idle") => StepsLeft(r)' <= StepsLeft(r)

LEMMA CountOfStatements ==
    ASSUME NEW pc \in Labels
    PROVE  /\ StatementsLeft(pc) \in Nat /\ StatementsLeft("idle") = 0
           /\ pc # "idle" => StatementsLeft(pc) > 0
BY DEF StatementsLeft, Labels

\* The labels a step may lead to.
LEMMA StepGoes ==
    ASSUME TypeOK, NEW r \in Requests, Step(r)
    PROVE  /\ task[r].pc \in Labels /\ task[r].pc # "idle"
           /\ task'[r].pc \in Labels
           /\ StatementsLeft(task'[r].pc) < StatementsLeft(task[r].pc)
<1>a. task[r] \in Task /\ task \in [Requests -> Task]
  BY DEF TypeOK, TasksOK
<1>b. task[r].pc \in Labels /\ task[r].pc # "idle"
  BY <1>a DEF Step, At, InsertSite, StoreNew, UndoInsert, GetOld, UpdateSite,
     ClearFingerprint, UpsertSecret, DeleteSite, GetSite, GetSecret, TestConnection,
     SetPending, TakePending, StoreFingerprint, RemoveSession, DropPending, Audit, Task
<1>c. ASSUME NEW pc \in Labels, task'[r].pc = pc,
             StatementsLeft(pc) < StatementsLeft(task[r].pc)
      PROVE  /\ task'[r].pc \in Labels
             /\ StatementsLeft(task'[r].pc) < StatementsLeft(task[r].pc)
  BY <1>c
<1>1. CASE Reply(r)
  <2>1. task'[r].pc = "idle"
    BY <1>1, <1>a DEF Reply, Idle
  <2> QED BY <1>b, <2>1, CountOfStatements DEF Labels
<1>2. ASSUME NEW pc \in Labels, GoTo(r, pc)
      PROVE  task'[r].pc = pc
  BY <1>2, <1>a DEF GoTo, Task
<1>3. CASE (InsertSite(r) \/ GetOld(r) \/ GetSite(r)) /\ ~Reply(r)
  <2>1. \/ task[r].pc = "insert_site" /\ task'[r].pc = "store_new"
        \/ task[r].pc = "get_old" /\ task'[r].pc = "update_site"
        \/ task[r].pc = "get_site" /\ task'[r].pc = "get_secret"
    BY <1>3, <1>a DEF InsertSite, GetOld, GetSite, At, Task
  <2> QED BY <1>b, <2>1 DEF StatementsLeft, Labels
<1>10. CASE UpdateSite(r) /\ ~Reply(r)
  <2>1. PICK pc \in {"clear_fingerprint", "upsert_secret", "audit_updated"} :
          task' = [task EXCEPT ![r].pc = pc, ![r].row = None]
    BY <1>10 DEF UpdateSite
  <2>2. task'[r].pc = pc
    BY <1>a, <2>1 DEF Task
  <2>3. task[r].pc = "update_site"
    BY <1>10 DEF UpdateSite, At
  <2> QED BY <2>2, <2>3 DEF StatementsLeft, Labels
<1>4. CASE TestConnection(r) /\ ~Reply(r)
  <2>1. task[r].pc = "test_connection" /\ task'[r].pc = "set_pending"
    BY <1>4, <1>a DEF TestConnection, At, Task
  <2> QED BY <1>b, <2>1 DEF StatementsLeft, Labels
<1>5. CASE (TakePending(r) \/ StoreFingerprint(r)) /\ ~Reply(r)
  <2>1. \/ task[r].pc = "take_pending" /\ task'[r].pc = "store_fingerprint"
        \/ task[r].pc = "store_fingerprint" /\ task'[r].pc = "audit_trusted"
    BY <1>5, <1>a DEF TakePending, StoreFingerprint, At, Task
  <2> QED BY <1>b, <2>1 DEF StatementsLeft, Labels
<1>6. CASE (StoreNew(r) \/ ClearFingerprint(r) \/ UpsertSecret(r)) /\ ~Reply(r)
  <2>1. \/ /\ task[r].pc = "store_new"
           /\ GoTo(r, "audit_created") \/ GoTo(r, "undo_insert")
        \/ /\ task[r].pc = "clear_fingerprint"
           /\ GoTo(r, "upsert_secret") \/ GoTo(r, "audit_updated")
        \/ task[r].pc = "upsert_secret" /\ GoTo(r, "audit_updated")
    BY <1>6 DEF StoreNew, ClearFingerprint, UpsertSecret, StoreSecret, At
  <2> QED BY <1>2, <1>b, <2>1 DEF StatementsLeft, Labels
<1>7. CASE (DeleteSite(r) \/ GetSecret(r)) /\ ~Reply(r)
  <2>1. \/ task[r].pc = "delete_site" /\ GoTo(r, "audit_deleted")
        \/ task[r].pc = "get_secret" /\ GoTo(r, "test_connection")
    BY <1>7 DEF DeleteSite, GetSecret, At
  <2> QED BY <1>2, <1>b, <2>1 DEF StatementsLeft, Labels
<1>8. CASE RemoveSession(r)
  <2>1. task[r].pc = "remove_session" /\ GoTo(r, "drop_pending")
    BY <1>8 DEF RemoveSession, At
  <2> QED BY <1>2, <1>b, <2>1 DEF StatementsLeft, Labels
<1>9. CASE UndoInsert(r) \/ SetPending(r) \/ DropPending(r)
           \/ Audit(r, "audit_created", "site_created")
           \/ Audit(r, "audit_updated", "site_updated")
           \/ Audit(r, "audit_deleted", "site_deleted")
           \/ Audit(r, "audit_trusted", "site_host_key_trusted")
  BY <1>1, <1>9 DEF UndoInsert, SetPending, DropPending, Audit
<1> QED BY <1>1, <1>3, <1>4, <1>5, <1>6, <1>7, <1>8, <1>9, <1>10 DEF Step

\* Whatever the other requests do, and whichever statements fail, no handler
\* repeats a statement: a site request is answered after five steps of its own at
\* most, and a half created site is completed or removed by the second statement
\* after its insertion.  What RequestsEnd and HalfCreatedEnds add is that each
\* of these steps comes.
THEOREM RequestsAdvance == Spec => [][\A r \in Requests : RequestAdvances(r)]_vars
<1>1. ASSUME TypeOK, [Next]_vars, NEW r \in Requests
      PROVE  RequestAdvances(r)
  <2>a. task[r].pc \in Labels /\ task \in [Requests -> Task]
    BY <1>1 DEF TypeOK, TasksOK, Task
  <2>1. ASSUME Step(r)
        PROVE  RequestAdvances(r)
    <3>1. /\ StepsLeft(r)' < StepsLeft(r)
          /\ StepsLeft(r)' \in Nat /\ StepsLeft(r) \in Nat
      BY <1>1, <2>1, StepGoes, CountOfStatements DEF StepsLeft
    <3> QED BY <3>1 DEF RequestAdvances
  <2>2. ASSUME task'[r] = task[r], ~Step(r)
        PROVE  RequestAdvances(r)
    <3>1. StepsLeft(r) \in Nat /\ StepsLeft(r)' = StepsLeft(r)
      BY <2>a, <2>2, CountOfStatements DEF StepsLeft
    <3> QED BY <2>2, <3>1 DEF RequestAdvances
  <2>3. ASSUME task'[r].pc = "idle", ~Step(r)
        PROVE  RequestAdvances(r)
    <3>1. StepsLeft(r) \in Nat /\ StepsLeft(r)' = 0
      BY <2>a, <2>3, CountOfStatements DEF StepsLeft
    <3> QED BY <2>3, <3>1 DEF RequestAdvances
  <2>4. ASSUME NEW q \in Requests, q # r,
               Step(q) \/ Drop(q) \/ AcceptCreate(q) \/ AcceptSiteRequest(q)
                 \/ AcceptLogout(q)
        PROVE  task'[r] = task[r]
    BY <2>a, <2>4 DEF Step, InsertSite, StoreNew, UndoInsert, GetOld, UpdateSite,
       ClearFingerprint, UpsertSecret, StoreSecret, DeleteSite, GetSite, GetSecret,
       TestConnection, SetPending, TakePending, StoreFingerprint, RemoveSession,
       DropPending, Audit, Drop, AcceptCreate, AcceptSiteRequest, AcceptLogout,
       Accept, GoTo, Reply
  <2>5. CASE Drop(r) \/ Restart
    <3>1. task'[r].pc = "idle"
      BY <2>a, <2>5 DEF Drop, Restart, Reply, Idle
    <3> QED BY <2>1, <2>3, <3>1
  <2>6. CASE AcceptCreate(r) \/ AcceptSiteRequest(r) \/ AcceptLogout(r)
    <3>1. At(r, "idle")
      BY <2>6 DEF AcceptCreate, AcceptSiteRequest, AcceptLogout, Accept, At
    <3> QED BY <2>1, <3>1 DEF RequestAdvances
  <2>7. CASE UNCHANGED vars \/ \E t \in Tokens : Login(t) \/ Expire(t)
    <3>1. task' = task
      BY <2>7 DEF vars, Login, Expire
    <3> QED BY <2>1, <2>2, <3>1
  <2> QED BY <1>1, <2>1, <2>2, <2>4, <2>5, <2>6, <2>7 DEF Next
<1>2. TypeOK /\ [Next]_vars => [\A r \in Requests : RequestAdvances(r)]_vars
  BY <1>1
<1> QED BY <1>2, TypeCorrect, PTL DEF Spec
================================================================================
