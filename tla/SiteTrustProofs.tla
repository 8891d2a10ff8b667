---------------------------- MODULE SiteTrustProofs ----------------------------
(* Proofs about SiteTrust, for every value of its constants.               *)
EXTENDS SiteTrust, TLAPS

-------------------------------------------------------------------------------
(* Type correctness.                                                       *)

\* Replacing one request's task by a well-formed one keeps TasksOK.
LEMMA TaskReplaced ==
    ASSUME TasksOK, NEW r \in Requests, NEW k \in Task, TaskShape(k),
           task' = [task EXCEPT ![r] = k]
    PROVE  TasksOK'
BY DEF TasksOK, TaskShape

\* So does going to a label at which the task still has what it carries.
LEMMA GoToKeepsTasks ==
    ASSUME TasksOK, NEW r \in Requests, NEW pc \in Labels, GoTo(r, pc),
           TaskShape([task[r] EXCEPT !.pc = pc])
    PROVE  TasksOK'
<1> [task[r] EXCEPT !.pc = pc] \in Task
    BY DEF TasksOK, Task
<1> QED BY TaskReplaced DEF GoTo

\* And so does an answer.
LEMMA ReplyKeepsTasks ==
    ASSUME TasksOK, NEW r \in Requests, Reply(r)
    PROVE  TasksOK'
<1> Idle \in Task /\ TaskShape(Idle)
    BY SiteTrustAssumption DEF Idle, Task, Labels, TaskShape
<1> QED BY TaskReplaced DEF Reply

\* What an action leaves alone stays well typed.
LEMMA StoreUnchanged == ASSUME StoreOK, UNCHANGED store PROVE StoreOK'
BY DEF StoreOK, store

LEMMA MemoryUnchanged == ASSUME MemoryOK, UNCHANGED memory PROVE MemoryOK'
BY DEF MemoryOK, memory

LEMMA BudgetUnchanged == ASSUME BudgetOK, UNCHANGED budget PROVE BudgetOK'
BY DEF BudgetOK, budget

LEMMA FaultKeepsTypes ==
    ASSUME StoreOK, MemoryOK, BudgetOK, Fault
    PROVE  StoreOK' /\ MemoryOK' /\ BudgetOK'
<1> BudgetOK'
    BY SiteTrustAssumption DEF Fault, BudgetOK
<1> QED BY StoreUnchanged, MemoryUnchanged DEF Fault

\* The fields of a request that is at work on a site.
LEMMA TaskFields ==
    ASSUME TasksOK, NEW r \in Requests
    PROVE  /\ task[r] \in Task
           /\ TaskShape(task[r])
           /\ task[r].site \in SiteIds \cup {None}
           /\ task[r].token \in Tokens \cup {None}
           /\ task[r].obs \in Observation \cup {None}
           /\ task[r].row \in SiteRow \cup {None}
BY DEF TasksOK, Task

\* A slot owes a row of the log, or none.
OwedOK == owed \in [Requests -> AuditRow \cup {None}]

LEMMA OwedReplaced ==
    ASSUME StoreOK, NEW r \in Requests, NEW s \in SiteIds,
           NEW action \in {"site_created", "site_updated", "site_deleted",
                           "site_host_key_trusted"},
           Owes(r, action, s) \/ Settled(r) \/ UNCHANGED owed
    PROVE  OwedOK'
<1> [action |-> action, site |-> s] \in AuditRow
    BY DEF AuditRow
<1> QED BY DEF StoreOK, OwedOK, Owes, Settled

LEMMA RowReplaced ==
    ASSUME StoreOK, NEW s \in SiteIds, NEW row \in SiteRow, OwedOK',
           sites' = [sites EXCEPT ![s] = row], UNCHANGED <<secrets, nextSite, audit>>
    PROVE  StoreOK'
BY DEF StoreOK, OwedOK

LEMMA DropRowKeepsStore ==
    ASSUME StoreOK, NEW s \in SiteIds, DropRow(s), OwedOK'
    PROVE  StoreOK'
BY DEF DropRow, StoreOK, OwedOK

LEMMA AcceptKeepsTypes ==
    ASSUME TypeOK, NEW r \in Requests, NEW t \in Tokens,
           NEW s \in SiteIds \cup {None}, NEW pc \in Labels, Accept(r, t, s, pc),
           s = None <=> pc \in {"insert_site", "remove_session"},
           t \in Admins \/ pc = "remove_session",
           pc \in {"insert_site", "remove_session", "get_old", "delete_site",
                   "get_site", "take_pending"}
    PROVE  TypeOK'
<1> DEFINE k == [Idle EXCEPT !.pc = pc, !.token = t, !.site = s]
<1>1. k \in Task
    BY DEF Task, Idle
<1>2. TaskShape(k)
    BY SiteTrustAssumption DEF TaskShape, Idle
<1>3. TasksOK'
    BY <1>1, <1>2, TaskReplaced DEF Accept, TypeOK
<1> QED BY <1>3, StoreUnchanged, MemoryUnchanged, BudgetUnchanged DEF Accept, TypeOK

\* Each statement of a handler keeps the types.
LEMMA StepKeepsTypes ==
    ASSUME TypeOK, NEW r \in Requests, Step(r)
    PROVE  TypeOK'
<1> USE DEF TypeOK
<1> DEFINE s == task[r].site
<1>a. TaskShape(task[r]) /\ task[r] \in Task
    BY TaskFields
<1>1. CASE InsertSite(r)
  <2>1. ASSUME nextSite <= MaxSites
        PROVE  NewId \in SiteIds /\ nextSite + 1 \in 1 .. MaxSites + 1
    BY <2>1, SiteTrustAssumption DEF NewId, StoreOK, SiteIds
  <2>2. StoreOK'
    <3>1. CASE Reply(r) /\ UNCHANGED store
      BY <3>1, StoreUnchanged
    <3>2. CASE nextSite <= MaxSites /\ Owes(r, "site_created", NewId)
      <4>1. OwedOK'
        BY <2>1, <3>2, OwedReplaced
      <4> QED BY <1>1, <2>1, <4>1, StoreUnchanged DEF InsertSite, StoreOK, SiteRow, OwedOK
    <3> QED BY <1>1, <3>1, <3>2 DEF InsertSite
  <2>3. TasksOK'
    <3>1. CASE Reply(r)
      BY <3>1, ReplyKeepsTasks
    <3>2. CASE /\ nextSite <= MaxSites
               /\ task' = [task EXCEPT ![r].pc = "store_new", ![r].site = NewId]
      <4> DEFINE k == [task[r] EXCEPT !.pc = "store_new", !.site = NewId]
      <4>1. k \in Task
        BY <1>a, <2>1, <3>2 DEF Task, Labels
      <4>2. TaskShape(k)
        BY <1>1, <1>a, <2>1, <3>2, SiteTrustAssumption
        DEF TaskShape, InsertSite, At, Task
      <4> QED BY <3>2, <4>1, <4>2, TaskReplaced
    <3> QED BY <1>1, <3>1, <3>2 DEF InsertSite
  <2> QED BY <1>1, <2>2, <2>3, MemoryUnchanged, BudgetUnchanged DEF InsertSite
<1>2. CASE StoreNew(r)
  <2>1. s \in SiteIds
    BY <1>2, <1>a DEF StoreNew, At, TaskShape, Task
  <2>2. StoreOK' /\ MemoryOK' /\ BudgetOK'
    BY <1>2, <2>1, StoreUnchanged, MemoryUnchanged, BudgetUnchanged, FaultKeepsTypes
    DEF StoreNew, StoreSecret, StoreOK
  <2>3. \E pc \in {"audit_created", "undo_insert"} : GoTo(r, pc)
    BY <1>2 DEF StoreNew, StoreSecret, Fault
  <2>4. TasksOK'
    BY <1>2, <1>a, <2>3, GoToKeepsTasks DEF StoreNew, At, TaskShape, Task, Labels
  <2> QED BY <2>2, <2>4
<1>3. CASE UndoInsert(r)
  <2>1. s \in SiteIds
    BY <1>3, <1>a DEF UndoInsert, At, TaskShape, Task
  <2>2. StoreOK' /\ MemoryOK' /\ BudgetOK'
    <3>1. CASE Fault
      BY <3>1, FaultKeepsTypes
    <3>2. CASE DropRow(s) /\ Settled(r) /\ UNCHANGED <<memory, budget>>
      <4>1. OwedOK'
        BY <2>1, <3>2, OwedReplaced
      <4> QED BY <2>1, <3>2, <4>1, DropRowKeepsStore, MemoryUnchanged, BudgetUnchanged
    <3> QED BY <1>3, <3>1, <3>2 DEF UndoInsert
  <2> QED BY <1>3, <2>2, ReplyKeepsTasks DEF UndoInsert
<1>4. CASE GetOld(r)
  <2>1. TasksOK'
    <3>1. CASE Reply(r)
      BY <3>1, ReplyKeepsTasks
    <3>2. CASE /\ sites[s] # None
               /\ task' = [task EXCEPT ![r].pc = "update_site", ![r].row = sites[s]]
      <4> DEFINE k == [task[r] EXCEPT !.pc = "update_site", !.row = sites[s]]
      <4>1. sites[s] \in SiteRow
        BY <1>4, <1>a, <3>2 DEF GetOld, At, TaskShape, Task, StoreOK
      <4>2. k \in Task /\ TaskShape(k)
        BY <1>4, <1>a, <3>2, <4>1 DEF GetOld, At, TaskShape, Task, Labels
      <4> QED BY <3>2, <4>2, TaskReplaced
    <3> QED BY <1>4, <3>1, <3>2 DEF GetOld
  <2> QED BY <1>4, <2>1, StoreUnchanged, MemoryUnchanged, BudgetUnchanged DEF GetOld
<1>5. CASE UpdateSite(r)
  <2>1. s \in SiteIds
    BY <1>5, <1>a DEF UpdateSite, At, TaskShape, Task
  <2>2. StoreOK'
    <3>1. CASE UNCHANGED store
      BY <3>1, StoreUnchanged
    <3>2. CASE UNCHANGED <<sites, owed, secrets, nextSite, audit>>
      BY <3>2, StoreUnchanged DEF store
    <3>3. ASSUME NEW c \in Conns, sites[s] # None,
                 sites' = [sites EXCEPT ![s].conn = c], Owes(r, "site_updated", s),
                 UNCHANGED <<secrets, nextSite, audit>>
          PROVE  StoreOK'
      <4>1. [sites[s] EXCEPT !.conn = c] \in SiteRow
        BY <2>1, <3>3 DEF StoreOK, SiteRow
      <4>2. OwedOK'
        BY <2>1, <3>3, OwedReplaced
      <4> QED BY <2>1, <3>3, <4>1, <4>2, RowReplaced
    <3> QED BY <1>5, <3>1, <3>2, <3>3 DEF UpdateSite
  <2>3. TasksOK'
    <3>1. CASE Reply(r)
      BY <3>1, ReplyKeepsTasks
    <3>2. ASSUME NEW pc \in {"clear_fingerprint", "upsert_secret", "audit_updated"},
                 task' = [task EXCEPT ![r].pc = pc, ![r].row = None]
          PROVE  TasksOK'
      <4> DEFINE k == [task[r] EXCEPT !.pc = pc, !.row = None]
      <4>1. k \in Task /\ TaskShape(k)
        BY <1>5, <1>a DEF UpdateSite, At, TaskShape, Task, Labels
      <4> QED BY <3>2, <4>1, TaskReplaced
    <3> QED BY <1>5, <3>1, <3>2 DEF UpdateSite
  <2> QED BY <1>5, <2>2, <2>3, MemoryUnchanged, BudgetUnchanged DEF UpdateSite
<1>6. CASE ClearFingerprint(r)
  <2>1. s \in SiteIds
    BY <1>6, <1>a DEF ClearFingerprint, At, TaskShape, Task
  <2>2. StoreOK' /\ MemoryOK' /\ BudgetOK'
    <3>1. CASE Fault
      BY <3>1, FaultKeepsTypes
    <3>2. CASE UNCHANGED <<store, memory, budget>>
      BY <3>2, StoreUnchanged, MemoryUnchanged, BudgetUnchanged
    <3>3. CASE /\ sites[s] # None
               /\ sites' = [sites EXCEPT ![s].fp = None, ![s].via = None]
               /\ UNCHANGED <<secrets, nextSite, audit, owed, memory, budget>>
      <4>1. [sites[s] EXCEPT !.fp = None, !.via = None] \in SiteRow
        BY <2>1, <3>3 DEF StoreOK, SiteRow
      <4> OwedOK'
        BY <3>3 DEF StoreOK, OwedOK
      <4> QED BY <2>1, <3>3, <4>1, RowReplaced, MemoryUnchanged, BudgetUnchanged
    <3> QED BY <1>6, <3>1, <3>2, <3>3 DEF ClearFingerprint, store
  <2>3. TasksOK'
    BY <1>6, <1>a, GoToKeepsTasks DEF ClearFingerprint, At, TaskShape, Task, Labels
  <2> QED BY <2>2, <2>3
<1>7. CASE UpsertSecret(r)
  <2>1. s \in SiteIds
    BY <1>7, <1>a DEF UpsertSecret, At, TaskShape, Task
  <2>2. StoreOK' /\ MemoryOK' /\ BudgetOK'
    BY <1>7, <2>1, StoreUnchanged, MemoryUnchanged, BudgetUnchanged, FaultKeepsTypes
    DEF UpsertSecret, StoreSecret, StoreOK
  <2>3. GoTo(r, "audit_updated") \/ Reply(r)
    BY <1>7 DEF UpsertSecret, StoreSecret, Fault
  <2>4. TasksOK'
    BY <1>7, <1>a, <2>3, GoToKeepsTasks, ReplyKeepsTasks
    DEF UpsertSecret, At, TaskShape, Task, Labels
  <2> QED BY <2>2, <2>4
<1>8. CASE DeleteSite(r)
  <2>1. s \in SiteIds
    BY <1>8, <1>a DEF DeleteSite, At, TaskShape, Task
  <2>2. StoreOK' /\ MemoryOK' /\ BudgetOK'
    <3>1. CASE DropRow(s) /\ Owes(r, "site_deleted", s) /\ UNCHANGED <<memory, budget>>
      <4>1. OwedOK'
        BY <2>1, <3>1, OwedReplaced
      <4> QED BY <2>1, <3>1, <4>1, DropRowKeepsStore, MemoryUnchanged, BudgetUnchanged
    <3>2. CASE UNCHANGED <<store, memory, budget>>
      BY <3>2, StoreUnchanged, MemoryUnchanged, BudgetUnchanged
    <3>3. CASE Fault
      BY <3>3, FaultKeepsTypes
    <3> QED BY <1>8, <3>1, <3>2, <3>3 DEF DeleteSite
  <2>3. GoTo(r, "audit_deleted") \/ Reply(r)
    BY <1>8 DEF DeleteSite, Fault
  <2>4. TasksOK'
    BY <1>8, <1>a, <2>3, GoToKeepsTasks, ReplyKeepsTasks
    DEF DeleteSite, At, TaskShape, Task, Labels
  <2> QED BY <2>2, <2>4
<1>9. CASE GetSite(r)
  <2>1. TasksOK'
    <3>1. CASE Reply(r)
      BY <3>1, ReplyKeepsTasks
    <3>2. CASE /\ sites[s] # None
               /\ task' = [task EXCEPT ![r].pc = "get_secret", ![r].row = sites[s]]
      <4> DEFINE k == [task[r] EXCEPT !.pc = "get_secret", !.row = sites[s]]
      <4>1. sites[s] \in SiteRow
        BY <1>9, <1>a, <3>2 DEF GetSite, At, TaskShape, Task, StoreOK
      <4>2. k \in Task /\ TaskShape(k)
        BY <1>9, <1>a, <3>2, <4>1 DEF GetSite, At, TaskShape, Task, Labels
      <4> QED BY <3>2, <4>2, TaskReplaced
    <3> QED BY <1>9, <3>1, <3>2 DEF GetSite
  <2> QED BY <1>9, <2>1, StoreUnchanged, MemoryUnchanged, BudgetUnchanged DEF GetSite
<1>10. CASE GetSecret(r)
  <2>1. TasksOK'
    BY <1>10, <1>a, GoToKeepsTasks, ReplyKeepsTasks
    DEF GetSecret, At, TaskShape, Task, Labels
  <2> QED BY <1>10, <2>1, StoreUnchanged, MemoryUnchanged, BudgetUnchanged DEF GetSecret
<1>11. CASE TestConnection(r)
  <2>1. task[r].row \in SiteRow
    BY <1>11, <1>a DEF TestConnection, At, TaskShape, Task
  <2>2. BudgetOK'
    BY <1>11, SiteTrustAssumption DEF TestConnection, BudgetOK
  <2>3. TasksOK'
    <3>1. CASE Reply(r)
      BY <3>1, ReplyKeepsTasks
    <3>2. ASSUME NEW key \in Keys,
                 task' = [task EXCEPT
                            ![r].pc = "set_pending", ![r].row = None,
                            ![r].obs = [key |-> key, conn |-> task[r].row.conn,
                                        id |-> tests + 1]]
          PROVE  TasksOK'
      <4> DEFINE o == [key |-> key, conn |-> task[r].row.conn, id |-> tests + 1]
                 k == [task[r] EXCEPT !.pc = "set_pending", !.row = None, !.obs = o]
      <4>1. o \in Observation /\ o # None
        BY <2>1, SiteTrustAssumption DEF Observation, SiteRow, BudgetOK
      <4>2. k \in Task /\ TaskShape(k)
        BY <1>11, <1>a, <4>1 DEF TestConnection, At, TaskShape, Task, Labels
      <4> QED BY <3>2, <4>2, TaskReplaced
    <3> QED BY <1>11, <3>1, <3>2 DEF TestConnection
  <2> QED BY <1>11, <2>2, <2>3, StoreUnchanged, MemoryUnchanged DEF TestConnection
<1>12. CASE SetPending(r)
  <2>1. MemoryOK'
    BY <1>12, <1>a DEF SetPending, At, TaskShape, Task, MemoryOK
  <2> QED BY <1>12, <2>1, ReplyKeepsTasks, StoreUnchanged, BudgetUnchanged DEF SetPending
<1>13. CASE TakePending(r)
  <2> DEFINE entry == pending[task[r].token][s]
  <2>1. s \in SiteIds /\ task[r].token \in Tokens
    BY <1>13, <1>a DEF TakePending, At, TaskShape, Task
  <2>2. MemoryOK'
    BY <1>13, <2>1 DEF TakePending, Taken, MemoryOK
  <2>3. TasksOK'
    <3>1. CASE Reply(r)
      BY <3>1, ReplyKeepsTasks
    <3>2. ASSUME NEW submitted \in Keys, entry # None,
                 task' = [task EXCEPT
                            ![r].pc = "store_fingerprint",
                            ![r].obs = [entry EXCEPT !.key = submitted]]
          PROVE  TasksOK'
      <4> DEFINE o == [entry EXCEPT !.key = submitted]
                 k == [task[r] EXCEPT !.pc = "store_fingerprint", !.obs = o]
      <4>1. o \in Observation /\ o # None
        BY <2>1, <3>2, SiteTrustAssumption DEF Observation, MemoryOK
      <4>2. k \in Task /\ TaskShape(k)
        BY <1>13, <1>a, <4>1 DEF TakePending, At, TaskShape, Task, Labels
      <4> QED BY <3>2, <4>2, TaskReplaced
    <3> QED BY <1>13, <3>1, <3>2 DEF TakePending, Matches
  <2> QED BY <1>13, <2>2, <2>3, StoreUnchanged, BudgetUnchanged DEF TakePending
<1>14. CASE StoreFingerprint(r)
  <2>1. s \in SiteIds /\ task[r].obs \in Observation
    BY <1>14, <1>a DEF StoreFingerprint, At, TaskShape, Task
  <2>2. StoreOK' /\ MemoryOK' /\ BudgetOK'
    <3>1. CASE UNCHANGED <<store, memory, budget>>
      BY <3>1, StoreUnchanged, MemoryUnchanged, BudgetUnchanged
    <3>2. CASE Fault
      BY <3>2, FaultKeepsTypes
    <3>3. CASE /\ sites[s] # None
               /\ sites' = [sites EXCEPT ![s].fp = task[r].obs.key, ![s].via = task[r].obs.conn]
               /\ Owes(r, "site_host_key_trusted", s)
               /\ UNCHANGED <<secrets, nextSite, audit, memory, budget>>
      <4>1. [sites[s] EXCEPT !.fp = task[r].obs.key, !.via = task[r].obs.conn] \in SiteRow
        BY <2>1, <3>3 DEF StoreOK, SiteRow, Observation
      <4>2. OwedOK'
        BY <2>1, <3>3, OwedReplaced
      <4> QED BY <2>1, <3>3, <4>1, <4>2, RowReplaced, MemoryUnchanged, BudgetUnchanged
    <3> QED BY <1>14, <3>1, <3>2, <3>3 DEF StoreFingerprint
  <2>3. TasksOK'
    <3>1. CASE Reply(r)
      BY <3>1, ReplyKeepsTasks
    <3>2. CASE task' = [task EXCEPT ![r].pc = "audit_trusted", ![r].obs = None]
      <4> DEFINE k == [task[r] EXCEPT !.pc = "audit_trusted", !.obs = None]
      <4>1. k \in Task /\ TaskShape(k)
        BY <1>14, <1>a DEF StoreFingerprint, At, TaskShape, Task, Labels
      <4> QED BY <3>2, <4>1, TaskReplaced
    <3> QED BY <1>14, <3>1, <3>2 DEF StoreFingerprint, Fault
  <2> QED BY <2>2, <2>3
<1>15. CASE RemoveSession(r)
  <2>1. MemoryOK'
    BY <1>15 DEF RemoveSession, MemoryOK
  <2>2. TasksOK'
    BY <1>15, <1>a, GoToKeepsTasks DEF RemoveSession, At, TaskShape, Task, Labels
  <2> QED BY <1>15, <2>1, <2>2, StoreUnchanged, BudgetUnchanged DEF RemoveSession
<1>16. CASE DropPending(r)
  <2>1. MemoryOK'
    BY <1>16 DEF DropPending, MemoryOK
  <2> QED BY <1>16, <2>1, ReplyKeepsTasks, StoreUnchanged, BudgetUnchanged DEF DropPending
<1>17. ASSUME NEW pc \in {"audit_created", "audit_updated", "audit_deleted", "audit_trusted"},
              NEW action \in {"site_created", "site_updated", "site_deleted",
                              "site_host_key_trusted"},
              Audit(r, pc, action)
       PROVE  TypeOK'
  <2>1. s \in SiteIds
    BY <1>17, <1>a DEF Audit, At, TaskShape, Task
  <2>2. StoreOK' /\ MemoryOK' /\ BudgetOK'
    <3>1. [action |-> action, site |-> s] \in AuditRow
      BY <2>1 DEF AuditRow
    <3>2. Settled(r) => OwedOK'
      BY <2>1, OwedReplaced
    <3> QED BY <1>17, <3>1, <3>2, MemoryUnchanged, BudgetUnchanged, FaultKeepsTypes
            DEF Audit, StoreOK, OwedOK
  <2> QED BY <1>17, <2>2, ReplyKeepsTasks DEF Audit
<1> QED BY <1>1, <1>2, <1>3, <1>4, <1>5, <1>6, <1>7, <1>8, <1>9, <1>10, <1>11,
           <1>12, <1>13, <1>14, <1>15, <1>16, <1>17 DEF Step

LEMMA NextKeepsTypes == TypeOK /\ [Next]_vars => TypeOK'
<1> SUFFICES ASSUME TypeOK, [Next]_vars PROVE TypeOK'
    OBVIOUS
<1> USE DEF TypeOK
<1>1. ASSUME NEW t \in Tokens, Login(t) \/ Expire(t) PROVE TypeOK'
  <2>1. MemoryOK'
    BY <1>1 DEF Login, Expire, MemoryOK
  <2>2. TasksOK'
    BY <1>1 DEF Login, Expire, TasksOK
  <2> QED BY <1>1, <2>1, <2>2, StoreUnchanged, BudgetUnchanged DEF Login, Expire
<1>2. ASSUME NEW r \in Requests, AcceptCreate(r) PROVE TypeOK'
  <2>1. PICK t \in Admins : Accept(r, t, None, "insert_site")
    BY <1>2 DEF AcceptCreate
  <2> QED BY <2>1, AcceptKeepsTypes, SiteTrustAssumption DEF Labels
<1>3. ASSUME NEW r \in Requests, AcceptSiteRequest(r) PROVE TypeOK'
  <2>1. PICK t \in Admins, s \in SiteIds,
             pc \in {"get_old", "delete_site", "get_site", "take_pending"} :
                Accept(r, t, s, pc)
    BY <1>3 DEF AcceptSiteRequest
  <2> QED BY <2>1, AcceptKeepsTypes, SiteTrustAssumption DEF Labels
<1>4. ASSUME NEW r \in Requests, AcceptLogout(r) PROVE TypeOK'
  <2>1. PICK t \in Tokens : Accept(r, t, None, "remove_session")
    BY <1>4 DEF AcceptLogout
  <2> QED BY <2>1, AcceptKeepsTypes, SiteTrustAssumption DEF Labels
<1>5. ASSUME NEW r \in Requests, Drop(r) PROVE TypeOK'
  <2>1. BudgetOK'
    BY <1>5, SiteTrustAssumption DEF Drop, BudgetOK
  <2> QED BY <1>5, <2>1, ReplyKeepsTasks, StoreUnchanged, MemoryUnchanged DEF Drop
<1>6. CASE Restart
  <2>1. BudgetOK'
    BY <1>6, SiteTrustAssumption DEF Restart, BudgetOK
  <2>2. MemoryOK'
    BY <1>6 DEF Restart, MemoryOK
  <2>3. TasksOK'
    <3>1. Idle \in Task /\ TaskShape(Idle)
      BY SiteTrustAssumption DEF Idle, Task, Labels, TaskShape
    <3> QED BY <1>6, <3>1 DEF Restart, TasksOK, TaskShape
  <2> QED BY <1>6, <2>1, <2>2, <2>3, StoreUnchanged DEF Restart
<1>7. CASE UNCHANGED vars
  BY <1>7, StoreUnchanged, MemoryUnchanged, BudgetUnchanged DEF vars, TasksOK
<1> QED BY <1>1, <1>2, <1>3, <1>4, <1>5, <1>6, <1>7, StepKeepsTypes DEF Next

LEMMA InitTypes == Init => TypeOK
<1> SUFFICES ASSUME Init PROVE TypeOK
    OBVIOUS
<1>1. StoreOK /\ BudgetOK
  BY SiteTrustAssumption DEF Init, StoreOK, BudgetOK
<1>2. MemoryOK
  BY DEF Init, MemoryOK
<1>3. TasksOK
  BY SiteTrustAssumption DEF Init, TasksOK, Idle, Task, Labels, TaskShape
<1> QED BY <1>1, <1>2, <1>3 DEF TypeOK

\* In every reachable state every table, map and handler is well typed.
THEOREM TypeCorrect == Spec => []TypeOK
BY InitTypes, NextKeepsTypes, PTL DEF Spec

-------------------------------------------------------------------------------
(* Credentials and their sites.                                            *)

\* What a step does to the sites and their credentials.
LEMMA StepOnSecrets ==
    ASSUME TypeOK, NEW r \in Requests, Step(r)
    PROVE  \/ UNCHANGED secrets /\ \A s \in SiteIds : Exists(s) => Exists(s)'
           \/ /\ UNCHANGED sites
              /\ \E s \in SiteIds : Exists(s) /\ secrets' = secrets \cup {s}
           \/ \E s \in SiteIds : DropRow(s)
<1> DEFINE s == task[r].site
<1>a. StoreOK /\ TaskShape(task[r]) /\ task[r] \in Task
    BY TaskFields DEF TypeOK
<1>1. CASE InsertSite(r)
  BY <1>1, <1>a, SiteTrustAssumption DEF InsertSite, NewId, Exists, StoreOK, SiteRow, store, SiteIds
<1>2. CASE StoreNew(r) \/ UpsertSecret(r)
  <2>1. s \in SiteIds
    BY <1>2, <1>a DEF StoreNew, UpsertSecret, At, TaskShape, Task
  <2> QED BY <1>2, <2>1 DEF StoreNew, UpsertSecret, StoreSecret, Fault, Exists, store
<1>3. CASE UndoInsert(r) \/ DeleteSite(r)
  <2>1. s \in SiteIds
    BY <1>3, <1>a DEF UndoInsert, DeleteSite, At, TaskShape, Task
  <2> QED BY <1>3, <2>1 DEF UndoInsert, DeleteSite, Fault, Exists, store
<1>4. CASE UpdateSite(r)
  <2>1. s \in SiteIds /\ s # None
    BY <1>4, <1>a DEF UpdateSite, At, TaskShape, Task
  <2>2. CASE UNCHANGED <<sites, secrets>>
    BY <2>2 DEF Exists
  <2>3. ASSUME NEW c \in Conns, sites[s] # None, UNCHANGED secrets,
               sites' = [sites EXCEPT ![s].conn = c]
        PROVE  UNCHANGED secrets /\ \A q \in SiteIds : Exists(q) => Exists(q)'
    <3>1. [sites[s] EXCEPT !.conn = c] \in SiteRow
      BY <1>a, <2>1, <2>3 DEF StoreOK, SiteRow
    <3> QED BY <1>a, <2>1, <2>3, <3>1, SiteTrustAssumption DEF Exists, StoreOK
  <2> QED BY <1>4, <2>2, <2>3 DEF UpdateSite, store
<1>5. CASE ClearFingerprint(r)
  <2>1. s \in SiteIds /\ s # None
    BY <1>5, <1>a DEF ClearFingerprint, At, TaskShape, Task
  <2>2. CASE Fault
    BY <2>2 DEF Fault, store, Exists
  <2>3. CASE sites[s] = None /\ UNCHANGED <<sites, secrets>>
    BY <2>3 DEF Exists
  <2>4. CASE /\ sites[s] # None /\ UNCHANGED secrets
             /\ sites' = [sites EXCEPT ![s].fp = None, ![s].via = None]
    <3>1. [sites[s] EXCEPT !.fp = None, !.via = None] \in SiteRow
      BY <1>a, <2>1, <2>4 DEF StoreOK, SiteRow
    <3> QED BY <1>a, <2>1, <2>4, <3>1, SiteTrustAssumption DEF Exists, StoreOK
  <2> QED BY <1>5, <2>2, <2>3, <2>4 DEF ClearFingerprint
<1>6. CASE StoreFingerprint(r)
  <2>1. s \in SiteIds /\ task[r].obs \in Observation
    BY <1>6, <1>a DEF StoreFingerprint, At, TaskShape, Task
  <2>2. CASE UNCHANGED <<sites, secrets>>
    BY <2>2 DEF Exists
  <2>3. CASE /\ sites[s] # None /\ UNCHANGED secrets
             /\ sites' = [sites EXCEPT ![s].fp = task[r].obs.key,
                                       ![s].via = task[r].obs.conn]
    <3>1. [sites[s] EXCEPT !.fp = task[r].obs.key, !.via = task[r].obs.conn] \in SiteRow
      BY <1>a, <2>1, <2>3 DEF StoreOK, SiteRow, Observation
    <3> QED BY <1>a, <2>1, <2>3, <3>1, SiteTrustAssumption DEF Exists, StoreOK
  <2> QED BY <1>6, <2>2, <2>3 DEF StoreFingerprint, Fault, store
<1>7. CASE UNCHANGED <<sites, secrets>>
  BY <1>7 DEF Exists
<1> QED BY <1>1, <1>2, <1>3, <1>4, <1>5, <1>6, <1>7
        DEF Step, GetOld, GetSite, GetSecret, TestConnection, SetPending,
            TakePending, RemoveSession, DropPending, Audit, Fault, store

\* No credential outlives its site, in any interleaving, with any failures.
THEOREM CredentialsHaveSites == Spec => []SecretsHaveSites
<1>1. Init => SecretsHaveSites
  BY DEF Init, SecretsHaveSites
<1>2. TypeOK /\ SecretsHaveSites /\ [Next]_vars => SecretsHaveSites'
  <2> SUFFICES ASSUME TypeOK, SecretsHaveSites, [Next]_vars
               PROVE  SecretsHaveSites'
      OBVIOUS
  <2>1. ASSUME NEW r \in Requests, Step(r) PROVE SecretsHaveSites'
    <3>1. \A s \in secrets : s \in SiteIds
      BY DEF TypeOK, StoreOK
    <3>2. CASE UNCHANGED secrets /\ \A s \in SiteIds : Exists(s) => Exists(s)'
      BY <3>1, <3>2 DEF SecretsHaveSites
    <3>3. CASE UNCHANGED sites /\ \E s \in SiteIds : Exists(s) /\ secrets' = secrets \cup {s}
      BY <3>3 DEF SecretsHaveSites, Exists
    <3>4. CASE \E s \in SiteIds : DropRow(s)
      BY <3>1, <3>4 DEF SecretsHaveSites, Exists, DropRow, TypeOK, StoreOK
    <3> QED BY <2>1, <3>2, <3>3, <3>4, StepOnSecrets
  <2>2. CASE UNCHANGED <<sites, secrets>>
    BY <2>2 DEF SecretsHaveSites, Exists
  <2> QED BY <2>1, <2>2 DEF Next, Login, Expire, AcceptCreate, AcceptSiteRequest,
             AcceptLogout, Accept, Drop, Restart, vars, store
<1> QED BY <1>1, <1>2, TypeCorrect, PTL DEF Spec

-------------------------------------------------------------------------------
(* Grants.                                                                 *)

Kept ==
    /\ \A t \in Tokens, s \in SiteIds : pending'[t][s] \in {None, pending[t][s]}
    /\ \A r \in Requests :
         task'[r].obs # None => /\ task'[r].obs = task[r].obs
                                /\ task'[r].token = task[r].token
                                /\ task'[r].site = task[r].site

\* Losing grants keeps them single.
LEMMA KeptStaysSingle ==
    ASSUME GrantsAreSingle, Kept, tests' = tests
    PROVE  GrantsAreSingle' /\ Grants' \subseteq Grants
<1>1. \A p \in Held' : p \in Held /\ pending'[p[1]][p[2]] = pending[p[1]][p[2]]
  BY DEF Kept, Held
<1>2. \A r \in Carried' : /\ r \in Carried /\ task'[r].obs = task[r].obs
                          /\ task'[r].token = task[r].token
                          /\ task'[r].site = task[r].site
  BY DEF Kept, Carried
<1>3. GrantsAreSingle'
  <2>1. \A p \in Held' : pending'[p[1]][p[2]].id \in 1 .. tests'
    BY <1>1 DEF GrantsAreSingle
  <2>2. \A r \in Carried' : task'[r].obs.id \in 1 .. tests'
    BY <1>2 DEF GrantsAreSingle
  <2>3. \A p, q \in Held' :
           pending'[p[1]][p[2]].id = pending'[q[1]][q[2]].id => p = q
    BY <1>1 DEF GrantsAreSingle
  <2>4. \A q, r \in Carried' : task'[q].obs.id = task'[r].obs.id => q = r
    BY <1>2 DEF GrantsAreSingle
  <2>5. \A p \in Held', r \in Carried' : pending'[p[1]][p[2]].id # task'[r].obs.id
    BY <1>1, <1>2 DEF GrantsAreSingle
  <2> QED BY <2>1, <2>2, <2>3, <2>4, <2>5 DEF GrantsAreSingle
<1>4. ASSUME NEW g \in Grants' PROVE g \in Grants
  <2>1. CASE \E p \in Held' : g = GrantOf(p[1], p[2], pending'[p[1]][p[2]])
    BY <1>1, <2>1 DEF Grants
  <2>2. CASE \E r \in Carried' : g = GrantOf(task'[r].token, task'[r].site, task'[r].obs)
    BY <1>2, <2>2 DEF Grants
  <2> QED BY <2>1, <2>2 DEF Grants
<1> QED BY <1>3, <1>4

\* No observation moves at all.
Same ==
    /\ pending' = pending
    /\ \A r \in Requests :
         /\ task'[r].obs = task[r].obs
         /\ task[r].obs # None => /\ task'[r].token = task[r].token
                                  /\ task'[r].site = task[r].site

LEMMA SameIsKept == Same => Kept
BY DEF Same, Kept

LEMMA SameGrants == Same => Grants' = Grants
<1> SUFFICES ASSUME Same PROVE Grants' = Grants
    OBVIOUS
<1>1. Held' = Held /\ pending' = pending
  BY DEF Same, Held
<1>2. Carried' = Carried
  BY DEF Same, Carried
<1>3. \A r \in Carried : GrantOf(task'[r].token, task'[r].site, task'[r].obs)
                            = GrantOf(task[r].token, task[r].site, task[r].obs)
  BY DEF Same, Carried
<1>4. {GrantOf(p[1], p[2], pending[p[1]][p[2]]) : p \in Held}'
         = {GrantOf(p[1], p[2], pending[p[1]][p[2]]) : p \in Held}
  BY <1>1
<1>5. {GrantOf(task[r].token, task[r].site, task[r].obs) : r \in Carried}'
         = {GrantOf(task[r].token, task[r].site, task[r].obs) : r \in Carried}
  BY <1>2, <1>3
<1> QED BY <1>4, <1>5 DEF Grants

\* What a statement of a handler does to the observations: most do nothing.
LEMMA OtherStepsKeep ==
    ASSUME TypeOK, NEW r \in Requests, Step(r)
    PROVE  \/ Same /\ UNCHANGED tests
           \/ StoreFingerprint(r) \/ DropPending(r)
           \/ TestConnection(r) \/ SetPending(r) \/ TakePending(r)
<1>a. TasksOK /\ TaskShape(task[r]) /\ task[r] \in Task
    BY TaskFields DEF TypeOK
<1>1. ASSUME UNCHANGED <<pending, tests>>, task[r].obs = None,
             Reply(r) \/ \E pc \in Labels : GoTo(r, pc)
      PROVE  Same /\ UNCHANGED tests
  BY <1>1, <1>a DEF Same, Reply, Idle, GoTo, TasksOK, Task
<1>2. CASE InsertSite(r)
  <2>1. task[r].obs = None /\ UNCHANGED <<pending, tests>>
    BY <1>2, <1>a DEF InsertSite, At, TaskShape, memory, budget
  <2> QED BY <1>2, <1>1, <1>a, <2>1 DEF InsertSite, Same, TasksOK, Task
<1>3. CASE GetOld(r) \/ GetSite(r)
  <2>1. task[r].obs = None /\ UNCHANGED <<pending, tests>>
    BY <1>3, <1>a DEF GetOld, GetSite, At, TaskShape, memory, budget
  <2> QED BY <1>3, <1>1, <1>a, <2>1 DEF GetOld, GetSite, Same, TasksOK, Task
<1>4. CASE UpdateSite(r)
  <2>1. task[r].obs = None /\ UNCHANGED <<pending, tests>>
    BY <1>4, <1>a DEF UpdateSite, At, TaskShape, memory, budget
  <2>2. CASE Reply(r)
    BY <1>1, <2>1, <2>2
  <2>3. ASSUME NEW pc, task' = [task EXCEPT ![r].pc = pc, ![r].row = None]
        PROVE  Same
    BY <1>a, <2>1, <2>3 DEF Same, TasksOK, Task
  <2> QED BY <1>4, <1>1, <2>1, <2>2, <2>3 DEF UpdateSite
<1>5. CASE \/ StoreNew(r) \/ UndoInsert(r) \/ ClearFingerprint(r) \/ UpsertSecret(r)
           \/ DeleteSite(r) \/ GetSecret(r) \/ RemoveSession(r)
  <2>1. task[r].obs = None
    BY <1>5, <1>a DEF StoreNew, UndoInsert, ClearFingerprint, UpsertSecret,
                      DeleteSite, GetSecret, RemoveSession, At, TaskShape
  <2> QED BY <1>5, <1>1, <2>1 DEF StoreNew, StoreSecret, UndoInsert, ClearFingerprint,
             UpsertSecret, DeleteSite, GetSecret, RemoveSession, Fault, memory, budget, Labels
<1>6. ASSUME NEW pc \in {"audit_created", "audit_updated", "audit_deleted", "audit_trusted"},
             NEW action, Audit(r, pc, action)
      PROVE  Same /\ UNCHANGED tests
  <2>1. Reply(r) /\ UNCHANGED <<pending, tests>> /\ task[r].obs = None
    BY <1>6, <1>a DEF Audit, Fault, memory, budget, At, TaskShape
  <2> QED BY <1>1, <2>1
<1> QED BY <1>2, <1>3, <1>4, <1>5, <1>6 DEF Step

LEMMA DropPendingKeeps ==
    ASSUME TypeOK, NEW r \in Requests, DropPending(r)
    PROVE  Kept /\ UNCHANGED tests
<1>1. \A q \in Requests : task'[q] = task[q] \/ task'[q].obs = None
  BY DEF DropPending, Reply, TypeOK, TasksOK, Idle
<1> QED BY <1>1 DEF DropPending, Kept, TypeOK, MemoryOK, budget

LEMMA StoreFingerprintKeeps ==
    ASSUME TypeOK, NEW r \in Requests, StoreFingerprint(r)
    PROVE  /\ Kept /\ UNCHANGED tests /\ UNCHANGED pending
           /\ r \in Carried
           /\ task'[r].obs = None
           /\ \A q \in Requests \ {r} : task'[q] = task[q]
<1>1. task'[r].obs = None /\ \A q \in Requests \ {r} : task'[q] = task[q]
  BY DEF StoreFingerprint, Reply, TypeOK, TasksOK, Task, Idle, Fault
<1>2. UNCHANGED <<pending, tests>>
  BY DEF StoreFingerprint, Fault, memory, budget
<1>3. r \in Carried
  BY TaskFields DEF StoreFingerprint, At, TaskShape, TypeOK, Carried
<1> QED BY <1>1, <1>2, <1>3 DEF Kept

LEMMA HeldPair ==
    \A p \in Held : p[1] \in Tokens /\ p[2] \in SiteIds /\ p = <<p[1], p[2]>>
BY DEF Held

LEMMA HeldPairNext ==
    \A p \in Held' : p[1] \in Tokens /\ p[2] \in SiteIds /\ p = <<p[1], p[2]>>
BY DEF Held

\* The ways an observation moves: into a request, into the map, out of
\* the map, and into the sites table.
LEMMA ObservationMoves ==
    ASSUME TypeOK, GrantsAreSingle, NEW r \in Requests,
           TestConnection(r) \/ SetPending(r) \/ TakePending(r)
    PROVE  /\ GrantsAreSingle'
           /\ \/ UNCHANGED tests /\ Grants' \subseteq Grants
              \/ /\ tests' = tests + 1
                 /\ \E k \in Keys :
                       LET g == GrantOf(task[r].token, task[r].site, [key |-> k, id |-> tests + 1])
                       IN  g \in Grants' /\ Grants' \ {g} \subseteq Grants
<1> DEFINE t == task[r].token
           s == task[r].site
<1>a. TasksOK /\ MemoryOK /\ tests \in Nat /\ TaskShape(task[r]) /\ task[r] \in Task
  BY SiteTrustAssumption, TaskFields DEF TypeOK, BudgetOK
<1>1. CASE TestConnection(r)
  <2>1. task[r].obs = None
    BY <1>1, <1>a DEF TestConnection, At, TaskShape
  <2>2. CASE Reply(r) /\ UNCHANGED <<pending, tests>>
    <3>1. Kept
      BY <1>a, <2>2 DEF Reply, Kept, TasksOK, Idle
    <3> QED BY <2>2, <3>1, KeptStaysSingle
  <2>3. ASSUME NEW k \in Keys, tests' = tests + 1, UNCHANGED pending,
               task' = [task EXCEPT
                          ![r].pc = "set_pending", ![r].row = None,
                          ![r].obs = [key |-> k, conn |-> task[r].row.conn,
                                      id |-> tests + 1]]
        PROVE  /\ GrantsAreSingle'
               /\ LET g == GrantOf(t, s, [key |-> k, id |-> tests + 1])
                  IN  g \in Grants' /\ Grants' \ {g} \subseteq Grants
    <3> DEFINE o == [key |-> k, conn |-> task[r].row.conn, id |-> tests + 1]
               g == GrantOf(t, s, [key |-> k, id |-> tests + 1])
    <3>0. pending' = pending /\ tests' = tests + 1
      BY <2>3
    <3>1. /\ task'[r].obs = o /\ task'[r].token = t /\ task'[r].site = s
          /\ \A q \in Requests \ {r} : task'[q] = task[q]
      BY <1>a, <2>3 DEF TasksOK, Task
    <3>2. o # None /\ o.id = tests + 1 /\ GrantOf(t, s, o) = g
      <4>1. o.id = tests + 1 /\ GrantOf(t, s, o) = g
        BY DEF GrantOf
      <4>2. o \in Observation
        BY <1>1, <1>a DEF Observation, TestConnection, At, TaskShape, Task, SiteRow
      <4> QED BY <4>1, <4>2, SiteTrustAssumption
    <3>3. Held' = Held /\ Carried' = Carried \cup {r} /\ r \notin Carried
      BY <2>1, <2>3, <3>1, <3>2 DEF Held, Carried
    <3>4. GrantsAreSingle'
      <4>1. \A p \in Held' : pending'[p[1]][p[2]].id \in 1 .. tests
        BY <2>3, <3>3 DEF GrantsAreSingle
      <4>2. \A q \in Carried' : q # r => task'[q].obs.id \in 1 .. tests
        BY <3>1, <3>3 DEF GrantsAreSingle, Carried
      <4>3. ASSUME NEW p \in Held', NEW q \in Carried'
            PROVE  pending'[p[1]][p[2]].id # task'[q].obs.id
        <5>1. CASE q = r
          BY <1>a, <3>1, <3>2, <4>1, <5>1
        <5>2. CASE q # r
          <6>1. q \in Carried /\ task'[q].obs = task[q].obs
            BY <3>1, <3>3, <5>2 DEF Carried
          <6>2. p \in Held
            BY <3>3
          <6> QED BY <3>0, <6>1, <6>2 DEF GrantsAreSingle
        <5> QED BY <5>1, <5>2
      <4>4. \A p, q \in Carried' : task'[p].obs.id = task'[q].obs.id => p = q
        BY <1>a, <3>1, <3>2, <3>3, <4>2 DEF GrantsAreSingle, Carried
      <4>5. \A p, q \in Held' :
               pending'[p[1]][p[2]].id = pending'[q[1]][q[2]].id => p = q
        BY <2>3, <3>3 DEF GrantsAreSingle
      <4>. 1 .. tests \subseteq 1 .. tests' /\ tests + 1 \in 1 .. tests'
        BY <1>a, <2>3
      <4>6. \A p \in Held' : pending'[p[1]][p[2]].id \in 1 .. tests'
        BY <4>1
      <4>7. \A q \in Carried' : task'[q].obs.id \in 1 .. tests'
        BY <3>1, <3>2, <4>2
      <4> QED BY <4>3, <4>4, <4>5, <4>6, <4>7 DEF GrantsAreSingle
    <3>5. g \in Grants'
      BY <3>1, <3>2, <3>3 DEF Grants
    <3>6. ASSUME NEW h \in Grants', h # g PROVE h \in Grants
      <4>1. CASE \E p \in Held' : h = GrantOf(p[1], p[2], pending'[p[1]][p[2]])
        <5>1. PICK p \in Held : h = GrantOf(p[1], p[2], pending[p[1]][p[2]])
          BY <3>0, <3>3, <4>1
        <5> QED BY <5>1 DEF Grants
      <4>2. CASE \E q \in Carried' : h = GrantOf(task'[q].token, task'[q].site, task'[q].obs)
        <5>1. PICK q \in Carried' :
                 h = GrantOf(task'[q].token, task'[q].site, task'[q].obs)
          BY <4>2
        <5>2. q # r
          BY <3>1, <3>2, <3>6, <5>1
        <5>3. q \in Carried /\ task'[q] = task[q]
          BY <3>1, <3>3, <5>2 DEF Carried
        <5> QED BY <5>1, <5>3 DEF Grants
      <4> QED BY <4>1, <4>2 DEF Grants
    <3> QED BY <3>4, <3>5, <3>6
  <2> QED BY <1>1, <2>2, <2>3 DEF TestConnection, memory
<1>2. CASE SetPending(r)
  <2>1. /\ t \in Tokens /\ s \in SiteIds /\ task[r].obs # None
        /\ UNCHANGED tests
        /\ pending' = [pending EXCEPT ![t][s] = task[r].obs]
    BY <1>2, <1>a, SiteTrustAssumption
    DEF SetPending, At, TaskShape, Task, budget
  <2>2. /\ task'[r].obs = None
        /\ \A q \in Requests \ {r} : task'[q] = task[q]
    BY <1>2, <1>a DEF SetPending, Reply, TasksOK, Idle
  <2>3. /\ pending'[t][s] = task[r].obs
        /\ \A u \in Tokens, q \in SiteIds :
              <<u, q>> # <<t, s>> => pending'[u][q] = pending[u][q]
    BY <1>a, <2>1 DEF MemoryOK
  <2>4. Carried' = Carried \ {r} /\ r \in Carried
    BY <2>1, <2>2 DEF Carried
  <2>5. \A p \in Held' :
           p # <<t, s>> => p \in Held /\ pending'[p[1]][p[2]] = pending[p[1]][p[2]]
    <3> SUFFICES ASSUME NEW p \in Held', p # <<t, s>>
                 PROVE  p \in Held /\ pending'[p[1]][p[2]] = pending[p[1]][p[2]]
        OBVIOUS
    <3>1. p[1] \in Tokens /\ p[2] \in SiteIds /\ p = <<p[1], p[2]>>
      BY HeldPairNext
    <3>2. pending'[p[1]][p[2]] = pending[p[1]][p[2]]
      BY <2>3, <3>1
    <3> QED BY <3>1, <3>2 DEF Held
  <2>6. GrantsAreSingle'
    <3>1. \A p \in Held' : pending'[p[1]][p[2]].id \in 1 .. tests'
      BY <2>1, <2>3, <2>4, <2>5 DEF GrantsAreSingle
    <3>2. \A q \in Carried' : task'[q].obs.id \in 1 .. tests'
      BY <2>1, <2>2, <2>4 DEF GrantsAreSingle, Carried
    <3>3. \A p, q \in Held' : pending'[p[1]][p[2]].id = pending'[q[1]][q[2]].id => p = q
      <4>1. ASSUME NEW p \in Held', p # <<t, s>>
            PROVE  pending'[p[1]][p[2]].id # pending'[t][s].id
        BY <2>3, <2>4, <2>5, <4>1 DEF GrantsAreSingle
      <4>2. ASSUME NEW p \in Held', NEW q \in Held', p # <<t, s>>, q # <<t, s>>,
                   pending'[p[1]][p[2]].id = pending'[q[1]][q[2]].id
            PROVE  p = q
        BY <2>5, <4>2 DEF GrantsAreSingle
      <4> QED BY <4>1, <4>2
    <3>4. \A p, q \in Carried' : task'[p].obs.id = task'[q].obs.id => p = q
      BY <2>2, <2>4 DEF GrantsAreSingle, Carried
    <3>5. \A p \in Held', q \in Carried' : pending'[p[1]][p[2]].id # task'[q].obs.id
      BY <2>2, <2>3, <2>4, <2>5 DEF GrantsAreSingle, Carried
    <3> QED BY <3>1, <3>2, <3>3, <3>4, <3>5 DEF GrantsAreSingle
  <2>7. ASSUME NEW g \in Grants' PROVE g \in Grants
    <3>1. CASE \E p \in Held' : g = GrantOf(p[1], p[2], pending'[p[1]][p[2]])
      BY <2>3, <2>4, <2>5, <3>1 DEF Grants
    <3>2. CASE \E q \in Carried' : g = GrantOf(task'[q].token, task'[q].site, task'[q].obs)
      BY <2>2, <2>4, <3>2 DEF Grants, Carried
    <3> QED BY <3>1, <3>2 DEF Grants
  <2> QED BY <2>1, <2>6, <2>7
<1>3. CASE TakePending(r)
  <2> DEFINE entry == pending[t][s]
  <2>1. /\ t \in Tokens /\ s \in SiteIds /\ task[r].obs = None
        /\ UNCHANGED tests
        /\ pending' = [pending EXCEPT ![t][s] = None]
    BY <1>3, <1>a, SiteTrustAssumption
    DEF TakePending, Taken, At, TaskShape, Task, budget
  <2>2. /\ pending'[t][s] = None
        /\ \A u \in Tokens, q \in SiteIds :
              <<u, q>> # <<t, s>> => pending'[u][q] = pending[u][q]
    BY <1>a, <2>1 DEF MemoryOK
  <2>3. CASE Reply(r)
    <3>1. Kept
      BY <1>a, <2>1, <2>2, <2>3 DEF Reply, Kept, TasksOK, Idle
    <3> QED BY <2>1, <3>1, KeptStaysSingle
  <2>4. ASSUME entry # None,
               task' = [task EXCEPT ![r].pc = "store_fingerprint",
                                    ![r].obs = [entry EXCEPT !.key = entry.key]]
        PROVE  GrantsAreSingle' /\ Grants' \subseteq Grants
    <3>1. [entry EXCEPT !.key = entry.key] = entry
      <4>1. entry \in Observation
        BY <1>a, <2>1, <2>4 DEF MemoryOK
      <4> QED BY <4>1 DEF Observation
    <3>2. /\ task'[r].obs = entry /\ task'[r].token = t /\ task'[r].site = s
          /\ \A q \in Requests \ {r} : task'[q] = task[q]
      BY <1>a, <2>4, <3>1 DEF TasksOK, Task
    <3>3. Carried' = Carried \cup {r} /\ r \notin Carried /\ <<t, s>> \in Held
      BY <2>1, <2>4, <3>2 DEF Carried, Held
    <3>4. \A p \in Held' : /\ p \in Held /\ p # <<t, s>>
                           /\ pending'[p[1]][p[2]] = pending[p[1]][p[2]]
      <4> SUFFICES ASSUME NEW p \in Held'
                   PROVE  /\ p \in Held /\ p # <<t, s>>
                          /\ pending'[p[1]][p[2]] = pending[p[1]][p[2]]
          OBVIOUS
      <4>1. p[1] \in Tokens /\ p[2] \in SiteIds /\ p = <<p[1], p[2]>>
        BY HeldPairNext
      <4>2. pending'[p[1]][p[2]] # None
        BY DEF Held
      <4>3. p # <<t, s>>
        BY <2>2, <4>2
      <4>4. pending'[p[1]][p[2]] = pending[p[1]][p[2]]
        BY <2>2, <4>1, <4>3
      <4> QED BY <4>1, <4>2, <4>3, <4>4 DEF Held
    <3>5. GrantsAreSingle'
      <4>1. \A p \in Held' : pending'[p[1]][p[2]].id \in 1 .. tests'
        BY <2>1, <3>4 DEF GrantsAreSingle
      <4>2. \A q \in Carried' : task'[q].obs.id \in 1 .. tests'
        BY <2>1, <3>2, <3>3 DEF GrantsAreSingle, Carried
      <4>3. \A p, q \in Held' : pending'[p[1]][p[2]].id = pending'[q[1]][q[2]].id => p = q
        BY <3>4 DEF GrantsAreSingle
      <4>4. \A p, q \in Carried' : task'[p].obs.id = task'[q].obs.id => p = q
        BY <3>2, <3>3 DEF GrantsAreSingle, Carried
      <4>5. \A p \in Held', q \in Carried' : pending'[p[1]][p[2]].id # task'[q].obs.id
        BY <3>2, <3>3, <3>4 DEF GrantsAreSingle, Carried
      <4> QED BY <4>1, <4>2, <4>3, <4>4, <4>5 DEF GrantsAreSingle
    <3>6. ASSUME NEW g \in Grants' PROVE g \in Grants
      <4>1. CASE \E p \in Held' : g = GrantOf(p[1], p[2], pending'[p[1]][p[2]])
        BY <3>4, <4>1 DEF Grants
      <4>2. CASE \E q \in Carried' : g = GrantOf(task'[q].token, task'[q].site, task'[q].obs)
        BY <3>2, <3>3, <4>2 DEF Grants, Carried
      <4> QED BY <4>1, <4>2 DEF Grants
    <3> QED BY <3>5, <3>6
  <2> QED BY <1>3, <2>1, <2>3, <2>4 DEF TakePending, Matches
<1> QED BY <1>1, <1>2, <1>3

\* Arrivals, drops, logins and restarts move no observation to a new place.
LEMMA EnvironmentKeeps ==
    ASSUME TypeOK, [Next]_vars, \A r \in Requests : ~Step(r)
    PROVE  Kept /\ UNCHANGED <<tests, sites, nextSite>>
<1>1. CASE \E t \in Tokens : Login(t) \/ Expire(t)
  BY <1>1 DEF Login, Expire, Kept, store, budget
<1>2. ASSUME NEW r \in Requests, NEW t, NEW s, NEW pc, Accept(r, t, s, pc)
      PROVE  Kept /\ UNCHANGED <<tests, sites, nextSite>>
  BY <1>2 DEF Accept, Kept, Idle, TypeOK, TasksOK, store, memory, budget
<1>3. CASE \E r \in Requests : Drop(r)
  BY <1>3 DEF Drop, Reply, Kept, Idle, TypeOK, TasksOK, store, memory
<1>4. CASE Restart
  BY <1>4 DEF Restart, Kept, Idle, TypeOK, MemoryOK, store
<1>5. CASE UNCHANGED vars
  BY <1>5 DEF vars, Kept, store, memory, budget
<1> QED BY <1>1, <1>2, <1>3, <1>4, <1>5
        DEF Next, AcceptCreate, AcceptSiteRequest, AcceptLogout

LEMMA NextKeepsSingle == TypeOK /\ GrantsAreSingle /\ [Next]_vars => GrantsAreSingle'
<1> SUFFICES ASSUME TypeOK, GrantsAreSingle, [Next]_vars PROVE GrantsAreSingle'
    OBVIOUS
<1>1. ASSUME NEW r \in Requests, Step(r) PROVE GrantsAreSingle'
  BY <1>1, OtherStepsKeep, SameIsKept, KeptStaysSingle, DropPendingKeeps,
     StoreFingerprintKeeps, ObservationMoves
<1>2. CASE \A r \in Requests : ~Step(r)
  BY <1>2, EnvironmentKeeps, KeptStaysSingle
<1> QED BY <1>1, <1>2

\* A successful test leads to at most one trust decision, whichever requests
\* race for it.
THEOREM GrantsSpentOnce == Spec => []GrantsAreSingle
<1>1. Init => GrantsAreSingle
  BY DEF Init, GrantsAreSingle, Held, Carried, Idle
<1> QED BY <1>1, NextKeepsSingle, TypeCorrect, PTL DEF Spec

-------------------------------------------------------------------------------
(* The handlers implement the ledger.                                      *)

\* AUTOINCREMENT: no row has an id that has not been handed out.
FreshIds == \A s \in SiteIds : Exists(s) => s < nextSite

\* What one statement does to the rows, as the ledger sees it.
RowsStay ==
    /\ nextSite' = nextSite
    /\ \A s \in SiteIds : /\ Exists(s)' <=> Exists(s)
                          /\ Exists(s) => sites'[s].fp = sites[s].fp

RowAdded ==
    /\ nextSite \in SiteIds /\ nextSite' = nextSite + 1
    /\ \E row \in SiteRow : row.fp = None /\ sites' = [sites EXCEPT ![nextSite] = row]

RowCleared(s) ==
    /\ s \in SiteIds /\ Exists(s) /\ nextSite' = nextSite
    /\ \E row \in SiteRow : row.fp = None /\ sites' = [sites EXCEPT ![s] = row]

RowTrusted(s, k) ==
    /\ s \in SiteIds /\ Exists(s) /\ nextSite' = nextSite
    /\ \E row \in SiteRow : row.fp = k /\ sites' = [sites EXCEPT ![s] = row]

LEMMA StepOnRows ==
    ASSUME TypeOK, NEW r \in Requests, Step(r)
    PROVE  \/ RowsStay
           \/ RowAdded /\ InsertSite(r)
           \/ /\ UndoInsert(r) \/ DeleteSite(r)
              /\ task[r].site \in SiteIds /\ DropRow(task[r].site)
           \/ RowCleared(task[r].site) /\ ClearFingerprint(r)
           \/ RowTrusted(task[r].site, task[r].obs.key) /\ StoreFingerprint(r)
<1> DEFINE s == task[r].site
<1>a. StoreOK /\ TaskShape(task[r]) /\ task[r] \in Task
  BY TaskFields DEF TypeOK
<1>1. ASSUME UNCHANGED <<sites, nextSite>> PROVE RowsStay
  BY <1>1 DEF RowsStay, Exists
<1>2. CASE InsertSite(r)
  <2>1. CASE UNCHANGED store
    BY <1>1, <2>1 DEF store
  <2>2. ASSUME NEW c \in Conns, nextSite <= MaxSites, nextSite' = nextSite + 1,
               sites' = [sites EXCEPT ![nextSite] = [conn |-> c, fp |-> None, via |-> None]]
        PROVE  RowAdded
    <3>1. [conn |-> c, fp |-> None, via |-> None] \in SiteRow
      BY DEF SiteRow
    <3>2. nextSite \in SiteIds
      BY <1>a, <2>2, SiteTrustAssumption DEF StoreOK, SiteIds
    <3> QED BY <2>2, <3>1, <3>2 DEF RowAdded
  <2> QED BY <1>2, <2>1, <2>2 DEF InsertSite, NewId
<1>3. CASE UndoInsert(r) \/ DeleteSite(r)
  <2>1. s \in SiteIds
    BY <1>3, <1>a DEF UndoInsert, DeleteSite, At, TaskShape, Task
  <2> QED BY <1>3, <1>1, <2>1 DEF UndoInsert, DeleteSite, Fault, store
<1>4. CASE UpdateSite(r)
  <2>1. s \in SiteIds /\ s # None
    BY <1>4, <1>a DEF UpdateSite, At, TaskShape, Task
  <2>2. CASE UNCHANGED <<sites, nextSite>>
    BY <1>1, <2>2
  <2>3. ASSUME NEW c \in Conns, sites[s] # None, UNCHANGED nextSite,
               sites' = [sites EXCEPT ![s].conn = c]
        PROVE  RowsStay
    <3> DEFINE row == [sites[s] EXCEPT !.conn = c]
    <3>1. row \in SiteRow /\ row.fp = sites[s].fp
      BY <1>a, <2>1, <2>3 DEF StoreOK, SiteRow
    <3>2. sites' = [sites EXCEPT ![s] = row]
      BY <2>3
    <3>3. row # None
      BY <3>1, SiteTrustAssumption
    <3> QED BY <1>a, <2>1, <2>3, <3>1, <3>2, <3>3 DEF RowsStay, Exists, StoreOK
  <2> QED BY <1>4, <2>2, <2>3 DEF UpdateSite, store
<1>5. CASE ClearFingerprint(r)
  <2>1. s \in SiteIds /\ s # None
    BY <1>5, <1>a DEF ClearFingerprint, At, TaskShape, Task
  <2>2. CASE UNCHANGED <<sites, nextSite>>
    BY <1>1, <2>2
  <2>3. CASE /\ sites[s] # None /\ UNCHANGED nextSite
             /\ sites' = [sites EXCEPT ![s].fp = None, ![s].via = None]
    <3> DEFINE row == [sites[s] EXCEPT !.fp = None, !.via = None]
    <3>1. row \in SiteRow /\ row.fp = None
      BY <1>a, <2>1, <2>3 DEF StoreOK, SiteRow
    <3>2. sites' = [sites EXCEPT ![s] = row]
      BY <2>3
    <3> QED BY <1>5, <2>1, <2>3, <3>1, <3>2 DEF RowCleared, Exists
  <2> QED BY <1>5, <2>2, <2>3 DEF ClearFingerprint, Fault, store
<1>6. CASE StoreFingerprint(r)
  <2>1. s \in SiteIds /\ task[r].obs \in Observation
    BY <1>6, <1>a DEF StoreFingerprint, At, TaskShape, Task
  <2>2. CASE UNCHANGED <<sites, nextSite>>
    BY <1>1, <2>2
  <2>3. CASE /\ sites[s] # None /\ UNCHANGED nextSite
             /\ sites' = [sites EXCEPT ![s].fp = task[r].obs.key,
                                       ![s].via = task[r].obs.conn]
    <3> DEFINE row == [sites[s] EXCEPT !.fp = task[r].obs.key, !.via = task[r].obs.conn]
    <3>1. row \in SiteRow /\ row.fp = task[r].obs.key
      BY <1>a, <2>1, <2>3 DEF StoreOK, SiteRow, Observation
    <3>2. sites' = [sites EXCEPT ![s] = row]
      BY <2>3
    <3> QED BY <1>6, <2>1, <2>3, <3>1, <3>2 DEF RowTrusted, Exists
  <2> QED BY <1>6, <2>2, <2>3 DEF StoreFingerprint, Fault, store
<1>7. CASE UNCHANGED <<sites, nextSite>>
  BY <1>1, <1>7
<1> QED BY <1>2, <1>3, <1>4, <1>5, <1>6, <1>7
        DEF Step, StoreNew, StoreSecret, UpsertSecret, GetOld, GetSite, GetSecret,
            TestConnection, SetPending, TakePending, RemoveSession, DropPending,
            Audit, Fault, store

LEMMA NextKeepsFresh == TypeOK /\ FreshIds /\ [Next]_vars => FreshIds'
<1> SUFFICES ASSUME TypeOK, FreshIds, [Next]_vars PROVE FreshIds'
    OBVIOUS
<1>a. sites \in [SiteIds -> SiteRow \cup {None}] /\ nextSite \in Nat
  BY DEF TypeOK, StoreOK
<1>1. ASSUME NEW r \in Requests, Step(r) PROVE FreshIds'
  <2>1. CASE RowsStay
    BY <2>1 DEF RowsStay, FreshIds
  <2>2. CASE RowAdded
    BY <1>a, <2>2 DEF RowAdded, FreshIds, Exists, SiteIds
  <2>3. CASE DropRow(task[r].site) /\ task[r].site \in SiteIds
    BY <1>a, <2>3 DEF DropRow, FreshIds, Exists
  <2>4. CASE RowCleared(task[r].site)
    BY <1>a, <2>4 DEF RowCleared, FreshIds, Exists
  <2>5. CASE RowTrusted(task[r].site, task[r].obs.key)
    BY <1>a, <2>5 DEF RowTrusted, FreshIds, Exists
  <2> QED BY <1>1, <2>1, <2>2, <2>3, <2>4, <2>5, StepOnRows
<1>2. CASE \A r \in Requests : ~Step(r)
  BY <1>2, EnvironmentKeeps DEF FreshIds, Exists
<1> QED BY <1>1, <1>2

LEMMA RowsStayForLedger == RowsStay => UNCHANGED <<SiteStatus, TrustedKey>>
BY DEF RowsStay, SiteStatus, TrustedKey, Exists

LEMMA StepImplementsLedger ==
    ASSUME TypeOK, GrantsAreSingle, FreshIds, NEW r \in Requests, Step(r)
    PROVE  [Ledger!Next]_Ledger!vars
<1> DEFINE t == task[r].token
           s == task[r].site
<1>a. /\ sites \in [SiteIds -> SiteRow \cup {None}] /\ nextSite \in Nat
      /\ SiteIds \subseteq Nat /\ TaskShape(task[r]) /\ task[r] \in Task
  BY TaskFields DEF TypeOK, StoreOK, SiteIds
<1>b. ASSUME RowsStay, Kept, UNCHANGED tests PROVE Ledger!Forget
  BY <1>b, RowsStayForLedger, KeptStaysSingle DEF Ledger!Forget
<1>1. CASE RowsStay
  <2>1. CASE Same /\ UNCHANGED tests
    BY <1>1, <1>b, <2>1, SameIsKept DEF Ledger!Next
  <2>2. CASE StoreFingerprint(r) \/ DropPending(r)
    BY <1>1, <1>b, <2>2, StoreFingerprintKeeps, DropPendingKeeps DEF Ledger!Next
  <2>3. CASE TestConnection(r) \/ SetPending(r) \/ TakePending(r)
    <3>1. CASE UNCHANGED tests /\ Grants' \subseteq Grants
      BY <1>1, <3>1, RowsStayForLedger DEF Ledger!Next, Ledger!Forget
    <3>2. ASSUME NEW k \in Keys, tests' = tests + 1,
                 GrantOf(t, s, [key |-> k, id |-> tests + 1]) \in Grants',
                 Grants' \ {GrantOf(t, s, [key |-> k, id |-> tests + 1])} \subseteq Grants
          PROVE  Ledger!Next
      <4>1. t \in Admins /\ t \in Tokens /\ s \in SiteIds
        <5>1. task[r].pc # "idle" /\ task[r].pc \in {"test_connection", "set_pending", "take_pending"}
          BY <2>3 DEF TestConnection, SetPending, TakePending, At
        <5> QED BY <1>a, <5>1, SiteTrustAssumption DEF TaskShape, Task
      <4>2. GrantOf(t, s, [key |-> k, id |-> tests + 1])
               = [token |-> t, site |-> s, key |-> k, id |-> tests + 1]
        BY DEF GrantOf
      <4>3. Ledger!Observe(t, s, k)
        BY <1>1, <3>2, <4>1, <4>2, RowsStayForLedger DEF Ledger!Observe
      <4> QED BY <4>1, <4>3 DEF Ledger!Next
    <3> QED BY <2>3, <3>1, <3>2, ObservationMoves
  <2> QED BY <2>1, <2>2, <2>3, OtherStepsKeep
<1>2. CASE RowAdded /\ InsertSite(r)
  <2>1. Grants' = Grants /\ UNCHANGED tests
    BY <1>2, OtherStepsKeep, SameGrants
    DEF InsertSite, StoreFingerprint, DropPending, TestConnection, SetPending,
        TakePending, At
  <2>2. ~Exists(nextSite) /\ nextSite \in SiteIds
    BY <1>2, <1>a DEF RowAdded, FreshIds
  <2>3. /\ SiteStatus[nextSite] = "new"
        /\ SiteStatus' = [SiteStatus EXCEPT ![nextSite] = "live"]
    <3>1. sites'[nextSite] # None /\ nextSite' = nextSite + 1
      BY <1>2, <1>a, <2>2, SiteTrustAssumption DEF RowAdded, Exists
    <3>2. \A q \in SiteIds \ {nextSite} : Exists(q)' <=> Exists(q)
      BY <1>2, <1>a DEF RowAdded, Exists
    <3>3. \A q \in SiteIds \ {nextSite} : q < nextSite + 1 <=> q < nextSite
      BY <1>a
    <3>4. SiteStatus'[nextSite] = "live"
      BY <2>2, <3>1 DEF SiteStatus, Exists
    <3>5. \A q \in SiteIds \ {nextSite} : SiteStatus'[q] = SiteStatus[q]
      BY <3>1, <3>2, <3>3 DEF SiteStatus
    <3>6. SiteStatus[nextSite] = "new"
      BY <1>a, <2>2 DEF SiteStatus
    <3> QED BY <2>2, <3>4, <3>5, <3>6 DEF SiteStatus
  <2>4. TrustedKey' = TrustedKey
    BY <1>2, <1>a, <2>2, SiteTrustAssumption DEF RowAdded, TrustedKey, Exists
  <2>5. Ledger!Register(nextSite)
    BY <2>1, <2>3, <2>4 DEF Ledger!Register
  <2> QED BY <2>2, <2>5 DEF Ledger!Next
<1>3. CASE (UndoInsert(r) \/ DeleteSite(r)) /\ s \in SiteIds /\ DropRow(s)
  <2>1. Grants' = Grants /\ UNCHANGED tests
    BY <1>3, OtherStepsKeep, SameGrants
    DEF UndoInsert, DeleteSite, StoreFingerprint, DropPending, TestConnection,
        SetPending, TakePending, At
  <2>2. CASE Exists(s)
    <3>1. /\ SiteStatus[s] = "live"
          /\ SiteStatus' = [SiteStatus EXCEPT ![s] = "gone"]
      BY <1>3, <1>a, <2>2 DEF DropRow, SiteStatus, Exists, FreshIds
    <3>2. TrustedKey' = [TrustedKey EXCEPT ![s] = None]
      BY <1>3, <1>a, <2>2 DEF DropRow, TrustedKey, Exists
    <3>3. Ledger!Remove(s)
      BY <2>1, <3>1, <3>2 DEF Ledger!Remove
    <3> QED BY <1>3, <3>3 DEF Ledger!Next
  <2>3. CASE ~Exists(s)
    <3>1. UNCHANGED <<SiteStatus, TrustedKey>>
      BY <1>3, <1>a, <2>3 DEF DropRow, SiteStatus, TrustedKey, Exists
    <3> QED BY <2>1, <3>1 DEF Ledger!vars
  <2> QED BY <2>2, <2>3
<1>4. CASE RowCleared(s) /\ ClearFingerprint(r)
  <2>1. Grants' = Grants /\ UNCHANGED tests
    BY <1>4, OtherStepsKeep, SameGrants
    DEF ClearFingerprint, StoreFingerprint, DropPending, TestConnection, SetPending,
        TakePending, At
  <2>2. UNCHANGED SiteStatus
    BY <1>4, <1>a, SiteTrustAssumption DEF RowCleared, SiteStatus, Exists
  <2>3. TrustedKey' = [TrustedKey EXCEPT ![s] = None]
    BY <1>4, <1>a, SiteTrustAssumption DEF RowCleared, TrustedKey, Exists
  <2>4. Ledger!Revoke(s)
    BY <2>1, <2>2, <2>3 DEF Ledger!Revoke
  <2> QED BY <1>4, <2>4 DEF Ledger!Next, RowCleared
<1>5. CASE RowTrusted(s, task[r].obs.key) /\ StoreFingerprint(r)
  <2> DEFINE g == GrantOf(t, s, task[r].obs)
  <2>1. /\ UNCHANGED <<tests, pending>> /\ r \in Carried /\ Kept
        /\ task'[r].obs = None
        /\ \A q \in Requests \ {r} : task'[q] = task[q]
    BY <1>5, StoreFingerprintKeeps
  <2>2. g \in Grants /\ g.site = s /\ g.key = task[r].obs.key
    BY <2>1 DEF Grants, GrantOf
  <2>3. g \notin Grants'
    <3>1. ASSUME NEW p \in Held', g = GrantOf(p[1], p[2], pending'[p[1]][p[2]]) PROVE FALSE
      <4>1. p \in Held /\ pending[p[1]][p[2]].id = task[r].obs.id
        BY <2>1, <3>1 DEF GrantOf, Held
      <4> QED BY <2>1, <4>1 DEF GrantsAreSingle
    <3>2. ASSUME NEW q \in Carried',
                 g = GrantOf(task'[q].token, task'[q].site, task'[q].obs)
          PROVE  FALSE
      <4>1. q # r /\ q \in Carried /\ task'[q] = task[q]
        BY <2>1 DEF Carried
      <4>2. task[q].obs.id = task[r].obs.id
        BY <3>2, <4>1 DEF GrantOf
      <4> QED BY <2>1, <4>1, <4>2 DEF GrantsAreSingle
    <3> QED BY <3>1, <3>2 DEF Grants
  <2>4. ASSUME NEW h \in Grants, h # g PROVE h \in Grants'
    <3>1. CASE \E p \in Held : h = GrantOf(p[1], p[2], pending[p[1]][p[2]])
      <4>1. PICK p \in Held' : h = GrantOf(p[1], p[2], pending'[p[1]][p[2]])
        BY <2>1, <3>1 DEF Held
      <4> QED BY <4>1 DEF Grants
    <3>2. CASE \E q \in Carried : h = GrantOf(task[q].token, task[q].site, task[q].obs)
      <4>1. PICK q \in Carried : h = GrantOf(task[q].token, task[q].site, task[q].obs)
        BY <3>2
      <4>2. q \in Carried' /\ task'[q] = task[q]
        BY <2>1, <2>4, <4>1 DEF Carried
      <4> QED BY <4>1, <4>2 DEF Grants
    <3> QED BY <3>1, <3>2 DEF Grants
  <2>5. Grants' = Grants \ {g}
    BY <2>1, <2>3, <2>4, KeptStaysSingle
  <2>6. UNCHANGED SiteStatus /\ SiteStatus[s] = "live"
    BY <1>5, <1>a, SiteTrustAssumption DEF RowTrusted, SiteStatus, Exists
  <2>7. TrustedKey' = [TrustedKey EXCEPT ![s] = task[r].obs.key]
    BY <1>5, <1>a, SiteTrustAssumption DEF RowTrusted, TrustedKey, Exists
  <2>8. Ledger!Trust(g)
    BY <2>1, <2>2, <2>5, <2>6, <2>7 DEF Ledger!Trust
  <2> QED BY <2>2, <2>8 DEF Ledger!Next
<1> QED BY <1>1, <1>2, <1>3, <1>4, <1>5, StepOnRows

\* A site's host key becomes trusted only by spending, once, a test that an
\* administrator's session made of that site: every behaviour of the handlers
\* is a behaviour of TrustLedger.
THEOREM LedgerImplemented == Spec => ImplementsLedger
<1>1. Init => Ledger!Init /\ FreshIds
  <2> SUFFICES ASSUME Init PROVE Ledger!Init /\ FreshIds
      OBVIOUS
  <2>1. \A s \in SiteIds : ~Exists(s) /\ ~(s < nextSite)
    BY DEF Init, Exists, SiteIds
  <2>2. Grants = {}
    BY DEF Init, Grants, Held, Carried, Idle
  <2> QED BY <2>1, <2>2 DEF Ledger!Init, SiteStatus, TrustedKey, FreshIds, Init
<1>2. TypeOK /\ GrantsAreSingle /\ FreshIds /\ [Next]_vars => [Ledger!Next]_Ledger!vars
  <2> SUFFICES ASSUME TypeOK, GrantsAreSingle, FreshIds, [Next]_vars,
                      \A r \in Requests : ~Step(r)
               PROVE  Ledger!Forget
      BY StepImplementsLedger DEF Ledger!Next
  <2>1. RowsStay
    BY EnvironmentKeeps DEF RowsStay, Exists
  <2> QED BY <2>1, EnvironmentKeeps, KeptStaysSingle, RowsStayForLedger DEF Ledger!Forget
<1> QED BY <1>1, <1>2, NextKeepsFresh, TypeCorrect, GrantsSpentOnce, PTL
        DEF Spec, ImplementsLedger, Ledger!Spec
================================================================================
