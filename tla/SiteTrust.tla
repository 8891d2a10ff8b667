------------------------------- MODULE SiteTrust -------------------------------
(***************************************************************************)
(* The site handlers of src/src/web.rs (site_create, site_update,          *)
(* site_delete, site_test, site_trust, logout) over the sites, secrets and *)
(* audit_events tables (src/src/db.rs) and the in-memory sessions and      *)
(* pending fingerprints (src/src/auth.rs).                                 *)
(*                                                                         *)
(* A handler is an async function: every await of a database statement, of *)
(* an AuthState lock or of the provider is a point where other handlers    *)
(* run, where the 30 s TimeoutLayer or a closed connection may drop the    *)
(* handler, and where the process may die.  So each statement is a step of *)
(* its own, and what a handler read earlier is carried in its task.        *)
(***************************************************************************)
EXTENDS Naturals

CONSTANTS
    Requests,   \* slots for HTTP requests served at the same time
    Tokens,     \* session tokens; random, so each is issued once
    Admins,     \* the tokens of sessions whose role is admin
    Conns,      \* (router_host, ssh_port, ssh_username, allow_legacy_ssh)
    Keys,       \* host-key fingerprints in normal form
    None,       \* SQL NULL, Option::None, or a field not in use
    MaxSites,   \* bound: sites ever inserted
    MaxTests,   \* bound: connection tests that succeed
    MaxFaults,  \* bound: statements that fail (busy, disk full)
    MaxDrops    \* bound: dropped requests and restarts

SiteIds == 1 .. MaxSites

\* A row of sites.  via is auxiliary: the connection on which fp was observed.
SiteRow == [conn : Conns, fp : Keys \cup {None}, via : Conns \cup {None}]

\* What a successful test leaves behind.  conn and id are auxiliary: the
\* connection that presented the key, and the number of the test.
Observation == [key : Keys, conn : Conns, id : Nat]

AuditRow ==
    [action : {"site_created", "site_updated", "site_deleted",
               "site_host_key_trusted"},
     site : SiteIds]

\* Program counters, named for the statement a handler is about to execute.
Labels ==
    {"idle", "insert_site", "store_new", "undo_insert", "get_old",
     "update_site", "clear_fingerprint", "upsert_secret", "delete_site",
     "get_site", "get_secret", "test_connection", "set_pending",
     "take_pending", "store_fingerprint", "remove_session", "drop_pending",
     "audit_created", "audit_updated", "audit_deleted", "audit_trusted"}

Task == [pc : Labels, token : Tokens \cup {None}, site : SiteIds \cup {None},
         row : SiteRow \cup {None}, obs : Observation \cup {None}]

ASSUME SiteTrustAssumption ==
    /\ Admins \subseteq Tokens
    /\ None \notin Tokens \cup Conns \cup Keys
    /\ None \notin SiteRow /\ None \notin Observation /\ None \notin SiteIds
    /\ None \notin AuditRow
    /\ {MaxSites, MaxTests, MaxFaults, MaxDrops} \subseteq Nat

VARIABLES
    sites,      \* table sites: a row per id, or None
    secrets,    \* table secrets: the sites that have a stored credential
    nextSite,   \* the sqlite_sequence value of sites, plus one
    audit,      \* table audit_events
    owed,       \* auxiliary: the audit row that the last change a slot's
                \* request made still calls for, or None
    sessions,   \* AuthState.sessions: "unused", "live" or "closed" per token
    pending,    \* AuthState.pending_fingerprints, by token and site
    task,       \* the request each slot is serving
    tests,      \* auxiliary: successful tests so far
    faults,     \* auxiliary: statements that failed so far
    drops       \* auxiliary: requests and processes dropped so far

store == <<sites, secrets, nextSite, audit, owed>>
memory == <<sessions, pending>>
budget == <<tests, faults, drops>>
vars == <<store, memory, task, budget>>

Idle == [pc |-> "idle", token |-> None, site |-> None, row |-> None,
         obs |-> None]

\* A task carries what its next statement uses, and nothing else.
TaskShape(k) ==
    /\ k.token = None <=> k.pc = "idle"
    /\ k.pc \notin {"idle", "remove_session", "drop_pending"} => k.token \in Admins
    /\ k.site = None <=>
         k.pc \in {"idle", "insert_site", "remove_session", "drop_pending"}
    /\ k.row # None <=>
         k.pc \in {"update_site", "get_secret", "test_connection"}
    /\ k.obs # None <=> k.pc \in {"set_pending", "store_fingerprint"}

StoreOK ==
    /\ sites \in [SiteIds -> SiteRow \cup {None}]
    /\ secrets \subseteq SiteIds
    /\ nextSite \in 1 .. MaxSites + 1
    /\ audit \subseteq AuditRow
    /\ owed \in [Requests -> AuditRow \cup {None}]

MemoryOK ==
    /\ sessions \in [Tokens -> {"unused", "live", "closed"}]
    /\ pending \in [Tokens -> [SiteIds -> Observation \cup {None}]]

TasksOK ==
    /\ task \in [Requests -> Task]
    /\ \A r \in Requests : TaskShape(task[r])

BudgetOK ==
    /\ tests \in 0 .. MaxTests
    /\ faults \in 0 .. MaxFaults
    /\ drops \in 0 .. MaxDrops

\* Every table and map holds what its schema or type allows, and every handler
\* has what its next statement uses.
TypeOK == StoreOK /\ MemoryOK /\ TasksOK /\ BudgetOK

Init ==
    /\ sites = [s \in SiteIds |-> None]
    /\ secrets = {}
    /\ nextSite = 1
    /\ audit = {}
    /\ owed = [r \in Requests |-> None]
    /\ sessions = [t \in Tokens |-> "unused"]
    /\ pending = [t \in Tokens |-> [s \in SiteIds |-> None]]
    /\ task = [r \in Requests |-> Idle]
    /\ tests = 0 /\ faults = 0 /\ drops = 0

-------------------------------------------------------------------------------
(* Sessions.                                                               *)

Login(t) ==
    /\ sessions[t] = "unused"
    /\ sessions' = [sessions EXCEPT ![t] = "live"]
    /\ UNCHANGED <<store, pending, task, budget>>

\* get_session finds expires_at in the past: the session is removed, the
\* pending fingerprints of its token are not.
Expire(t) ==
    /\ sessions[t] = "live"
    /\ sessions' = [sessions EXCEPT ![t] = "closed"]
    /\ UNCHANGED <<store, pending, task, budget>>

-------------------------------------------------------------------------------
(* A request arrives and passes session_or_redirect, can_manage and        *)
(* csrf_valid.  One that does not is answered without any state change.    *)

Accept(r, t, s, pc) ==
    /\ task[r].pc = "idle"
    /\ sessions[t] = "live"
    /\ task' = [task EXCEPT ![r] = [Idle EXCEPT !.pc = pc, !.token = t,
                                                !.site = s]]
    /\ UNCHANGED <<store, memory, budget>>

AcceptCreate(r) ==
    \E t \in Admins : Accept(r, t, None, "insert_site")

AcceptSiteRequest(r) ==
    \E t \in Admins, s \in SiteIds,
       pc \in {"get_old", "delete_site", "get_site", "take_pending"} :
        Accept(r, t, s, pc)

AcceptLogout(r) ==
    \E t \in Tokens : Accept(r, t, None, "remove_session")

-------------------------------------------------------------------------------
(* Steps of a handler.  Each names the label it executes.                  *)

At(r, pc) == task[r].pc = pc
GoTo(r, pc) == task' = [task EXCEPT ![r].pc = pc]
ReplyKeeping(r) == task' = [task EXCEPT ![r].pc = "idle"]
Reply(r) == task' = [task EXCEPT ![r] = Idle]

\* A statement fails and stores nothing.
Fault ==
    /\ faults < MaxFaults
    /\ faults' = faults + 1
    /\ UNCHANGED <<store, memory, tests, drops>>

\* A change of site s calls for a row of audit_events, until one is written
\* or the change is taken back.
Owes(r, action, s) ==
    owed' = [owed EXCEPT ![r] = [action |-> action, site |-> s]]
Settled(r) == owed' = [owed EXCEPT ![r] = None]

\* The row of audit_events that ends a successful handler.  Its result is
\* ignored (let _ = ...).
Audit(r, pc, action) ==
    /\ At(r, pc)
    /\ Reply(r)
    /\ \/ /\ audit' = audit \cup {[action |-> action, site |-> task[r].site]}
          /\ Settled(r)
          /\ UNCHANGED <<sites, secrets, nextSite, memory, budget>>
       \/ Fault

\* Without AUTOINCREMENT: the first id above those in the table.
ReusedId ==
    CHOOSE n \in SiteIds :
        /\ \A s \in SiteIds : sites[s] # None => s < n
        /\ n = 1 \/ sites[n - 1] # None

\* INTEGER PRIMARY KEY AUTOINCREMENT: above all ids ever handed out.
NewId == nextSite

\* site_create: insert_site gives the row a new id, and no fingerprint.  A
\* UNIQUE name refuses the row.
InsertSite(r) ==
    /\ At(r, "insert_site")
    /\ \/ /\ nextSite <= MaxSites
          /\ \E c \in Conns :
                sites' = [sites EXCEPT ![NewId] =
                             [conn |-> c, fp |-> None, via |-> None]]
          /\ nextSite' = nextSite + 1
          /\ task' = [task EXCEPT ![r].pc = "store_new", ![r].site = NewId]
          /\ Owes(r, "site_created", NewId)
          /\ UNCHANGED <<secrets, audit>>
       \/ Reply(r) /\ UNCHANGED store
    /\ UNCHANGED <<memory, budget>>

\* The foreign key of secrets: no row without its site.
StoreSecret(r, ok, failed) ==
    LET s == task[r].site
    IN  \/ /\ sites[s] # None
           /\ secrets' = secrets \cup {s}
           /\ ok
           /\ UNCHANGED <<sites, nextSite, audit, owed, memory, budget>>
        \/ /\ sites[s] = None
           /\ failed
           /\ UNCHANGED <<store, memory, budget>>
        \/ Fault /\ failed

\* encrypt and upsert_secret of a new site; a failure of either one leads to
\* the compensating delete_site.
StoreUndone(r) ==
    /\ At(r, "store_new")
    /\ StoreSecret(r, GoTo(r, "audit_created"), Reply(r))

StoreRetried(r) ==
    /\ At(r, "store_new")
    /\ StoreSecret(r, GoTo(r, "audit_created"), GoTo(r, "store_new"))

StoreNew(r) ==
    /\ At(r, "store_new")
    /\ StoreSecret(r, GoTo(r, "audit_created"), GoTo(r, "undo_insert"))

DropRowOnly(s) ==
    /\ sites' = [sites EXCEPT ![s] = None]
    /\ UNCHANGED <<secrets, nextSite, audit>>

\* DELETE FROM sites cascades to secrets (and devices).
DropRow(s) ==
    /\ sites' = [sites EXCEPT ![s] = None]
    /\ secrets' = secrets \ {s}
    /\ UNCHANGED <<nextSite, audit>>

UndoSkipped(r) ==
    /\ At(r, "undo_insert")
    /\ Reply(r)
    /\ UNCHANGED <<store, memory, budget>>

UndoInsert(r) ==
    /\ At(r, "undo_insert")
    /\ Reply(r)
    /\ \/ DropRow(task[r].site) /\ Settled(r) /\ UNCHANGED <<memory, budget>>
       \/ Fault

\* site_update: the row as it is before the change.  A form that fails
\* validation ends the request here.
GetOld(r) ==
    /\ At(r, "get_old")
    /\ \/ /\ sites[task[r].site] # None
          /\ task' = [task EXCEPT ![r].pc = "update_site",
                                  ![r].row = sites[task[r].site]]
       \/ Reply(r)
    /\ UNCHANGED <<store, memory, budget>>

\* The form's connection c is written whatever the row has become since, and
\* also when the row is gone: Ok(false) is not looked at.  What follows
\* depends on the row read by GetOld, and on a new credential in the form.
UpdateSite(r) ==
    LET s == task[r].site
    IN  /\ At(r, "update_site")
        /\ \/ \E c \in Conns, next \in {"upsert_secret", "audit_updated"} :
                /\ IF sites[s] = None THEN UNCHANGED <<sites, owed>>
                   ELSE /\ sites' = [sites EXCEPT ![s].conn = c]
                        /\ Owes(r, "site_updated", s)
                /\ task' = [task EXCEPT
                              ![r].pc = IF task[r].row.conn # c
                                        THEN "clear_fingerprint" ELSE next,
                              ![r].row = None]
                /\ UNCHANGED <<secrets, nextSite, audit>>
           \/ Reply(r) /\ UNCHANGED store
        /\ UNCHANGED <<memory, budget>>

\* clear_site_fingerprint; its result is ignored (let _ = ...).
ClearFingerprint(r) ==
    LET s == task[r].site
    IN  /\ At(r, "clear_fingerprint")
        /\ \E next \in {"upsert_secret", "audit_updated"} : GoTo(r, next)
        /\ \/ /\ sites' = IF sites[s] = None THEN sites
                          ELSE [sites EXCEPT ![s].fp = None, ![s].via = None]
              /\ UNCHANGED <<secrets, nextSite, audit, owed, memory, budget>>
           \/ Fault

UpsertUnlogged(r) ==
    /\ At(r, "upsert_secret")
    /\ StoreSecret(r, Reply(r), Reply(r))

UpsertSecret(r) ==
    /\ At(r, "upsert_secret")
    /\ StoreSecret(r, GoTo(r, "audit_updated"), Reply(r))

DeleteSite(r) ==
    LET s == task[r].site
    IN  /\ At(r, "delete_site")
        /\ \/ /\ sites[s] # None
              /\ DropRow(s)
              /\ Owes(r, "site_deleted", s)
              /\ GoTo(r, "audit_deleted")
              /\ UNCHANGED <<memory, budget>>
           \/ /\ sites[s] = None
              /\ Reply(r)
              /\ UNCHANGED <<store, memory, budget>>
           \/ Fault /\ Reply(r)

\* site_test: the row, then the credential, then the provider's
\* connect_and_run with require_trusted_key false.
GetSite(r) ==
    /\ At(r, "get_site")
    /\ \/ /\ sites[task[r].site] # None
          /\ task' = [task EXCEPT ![r].pc = "get_secret",
                                  ![r].row = sites[task[r].site]]
       \/ Reply(r)
    /\ UNCHANGED <<store, memory, budget>>

GetSecret(r) ==
    /\ At(r, "get_secret")
    /\ \/ task[r].site \in secrets /\ GoTo(r, "test_connection")
       \/ Reply(r)
    /\ UNCHANGED <<store, memory, budget>>

\* The router at the connection that was read presents some key.  A key other
\* than the one trusted when the row was read ends the test; so do a
\* network error, a rejected login and a timeout.
TestConnection(r) ==
    LET row == task[r].row
    IN  /\ At(r, "test_connection")
        /\ \/ \E k \in Keys :
                /\ row.fp \in {None, k}
                /\ tests < MaxTests
                /\ tests' = tests + 1
                /\ task' = [task EXCEPT
                              ![r].pc = "set_pending", ![r].row = None,
                              ![r].obs = [key |-> k, conn |-> row.conn,
                                          id |-> tests + 1]]
           \/ Reply(r) /\ UNCHANGED tests
        /\ UNCHANGED <<store, memory, faults, drops>>

SetPending(r) ==
    /\ At(r, "set_pending")
    /\ pending' = [pending EXCEPT ![task[r].token][task[r].site] = task[r].obs]
    /\ Reply(r)
    /\ UNCHANGED <<store, sessions, budget>>

\* site_trust: the entry of pending_fingerprints is taken first, compared
\* second; the submitted fingerprint is any that validate_fingerprint accepts.
Peeked(t, s) == pending
Taken(t, s) == [pending EXCEPT ![t][s] = None]

MatchesAny(entry, submitted) == entry # None
Matches(entry, submitted) == entry # None /\ entry.key = submitted

TakePending(r) ==
    LET t == task[r].token
        s == task[r].site
        entry == pending[t][s]
    IN  /\ At(r, "take_pending")
        /\ pending' = Taken(t, s)
        /\ \E submitted \in Keys :
              IF Matches(entry, submitted)
              THEN task' = [task EXCEPT
                              ![r].pc = "store_fingerprint",
                              ![r].obs = [entry EXCEPT !.key = submitted]]
              ELSE Reply(r)
        /\ UNCHANGED <<store, sessions, budget>>

StoreFingerprint(r) ==
    LET s == task[r].site
    IN  /\ At(r, "store_fingerprint")
        /\ \/ /\ sites[s] # None
              /\ sites' = [sites EXCEPT ![s].fp = task[r].obs.key,
                                        ![s].via = task[r].obs.conn]
              /\ task' = [task EXCEPT ![r].pc = "audit_trusted",
                                      ![r].obs = None]
              /\ Owes(r, "site_host_key_trusted", s)
              /\ UNCHANGED <<secrets, nextSite, audit, memory, budget>>
           \/ /\ sites[s] = None
              /\ Reply(r)
              /\ UNCHANGED <<store, memory, budget>>
           \/ Fault /\ Reply(r)

\* logout: remove_session takes the two locks one after the other.
RemoveSession(r) ==
    /\ At(r, "remove_session")
    /\ sessions' = [sessions EXCEPT ![task[r].token] = "closed"]
    /\ GoTo(r, "drop_pending")
    /\ UNCHANGED <<store, pending, budget>>

DropPending(r) ==
    /\ At(r, "drop_pending")
    /\ pending' = [pending EXCEPT ![task[r].token] = [s \in SiteIds |-> None]]
    /\ Reply(r)
    /\ UNCHANGED <<store, sessions, budget>>

-------------------------------------------------------------------------------
(* The TimeoutLayer or a closed connection drops the handler at an await;  *)
(* a restart drops every handler and all of AuthState.                     *)

Drop(r) ==
    /\ ~At(r, "idle")
    /\ drops < MaxDrops
    /\ drops' = drops + 1
    /\ Reply(r)
    /\ UNCHANGED <<store, memory, tests, faults>>

Restart ==
    /\ drops < MaxDrops
    /\ drops' = drops + 1
    /\ task' = [r \in Requests |-> Idle]
    /\ sessions' = [t \in Tokens |-> IF sessions[t] = "live" THEN "closed"
                                     ELSE sessions[t]]
    /\ pending' = [t \in Tokens |-> [s \in SiteIds |-> None]]
    /\ UNCHANGED <<store, tests, faults>>

-------------------------------------------------------------------------------

Step(r) ==
    \/ InsertSite(r) \/ StoreNew(r) \/ UndoInsert(r)
    \/ GetOld(r) \/ UpdateSite(r) \/ ClearFingerprint(r) \/ UpsertSecret(r)
    \/ DeleteSite(r)
    \/ GetSite(r) \/ GetSecret(r) \/ TestConnection(r) \/ SetPending(r)
    \/ TakePending(r) \/ StoreFingerprint(r)
    \/ RemoveSession(r) \/ DropPending(r)
    \/ Audit(r, "audit_created", "site_created")
    \/ Audit(r, "audit_updated", "site_updated")
    \/ Audit(r, "audit_deleted", "site_deleted")
    \/ Audit(r, "audit_trusted", "site_host_key_trusted")

Next ==
    \/ \E t \in Tokens : Login(t) \/ Expire(t)
    \/ \E r \in Requests :
          \/ AcceptCreate(r) \/ AcceptSiteRequest(r) \/ AcceptLogout(r)
          \/ Step(r) \/ Drop(r)
    \/ Restart

Spec == Init /\ [][Next]_vars

\* Tokio polls every future that is ready, the database and AuthState locks
\* are queues, and the provider gives every stage a time limit: a handler that
\* is not dropped goes on.  Clients are free not to ask for anything.
FairSpec == Spec /\ \A r \in Requests : WF_vars(Step(r))

-------------------------------------------------------------------------------
(* Properties.                                                             *)

Exists(s) == sites[s] # None
Doing(s, pcs) == \E r \in Requests : task[r].site = s /\ task[r].pc \in pcs
Audited(s, action) == [action |-> action, site |-> s] \in audit

\* PRAGMA foreign_keys and ON DELETE CASCADE: a credential never outlives its
\* site, whatever the order of site_delete, site_create and site_update.
SecretsHaveSites == \A s \in secrets : Exists(s)

\* site_create writes two tables without a transaction; one failing statement
\* is compensated, so a site without a credential is one being created or
\* undone.
SitesHaveSecrets ==
    faults <= 1 /\ drops = 0 =>
        \A s \in SiteIds :
            Exists(s) /\ s \notin secrets => Doing(s, {"store_new", "undo_insert"})

\* An audit row is never contradicted later: the id of a deleted site is not
\* handed out again, and an audited creation left a usable site.
AuditIsTruthful ==
    /\ \A e \in audit : e.site < nextSite
    /\ \A s \in SiteIds : Audited(s, "site_deleted") => ~Exists(s)
    /\ \A s \in SiteIds :
         Audited(s, "site_created") /\ Exists(s) => s \in secrets

\* Every site that exists, is trusted or was deleted has its audit row, or a
\* request that is about to write it.
Accounted ==
    \A s \in SiteIds :
        /\ Exists(s) => \/ Audited(s, "site_created")
                        \/ Doing(s, {"store_new", "undo_insert", "audit_created"})
        /\ Exists(s) /\ sites[s].fp # None =>
             Audited(s, "site_host_key_trusted") \/ Doing(s, {"audit_trusted"})
        /\ ~Exists(s) /\ Audited(s, "site_created") =>
             Audited(s, "site_deleted") \/ Doing(s, {"audit_deleted"})

\* The labels from a change to the statement that logs it.
UntilLogged ==
    [site_created |-> {"store_new", "undo_insert", "audit_created"},
     site_updated |-> {"clear_fingerprint", "upsert_secret", "audit_updated"},
     site_deleted |-> {"audit_deleted"},
     site_host_key_trusted |-> {"audit_trusted"}]

\* Each single change, the second update or trust of a site like the first,
\* gets a row of its own: the request that made it is on its way to the row.
\* Only an update whose site another request deleted before upsert_secret has
\* none: the foreign key refuses the credential and the handler ends.
OwedIsComing ==
    \A r \in Requests : owed[r] # None =>
        \/ /\ task[r].site = owed[r].site
           /\ task[r].pc \in UntilLogged[owed[r].action]
        \/ owed[r].action = "site_updated" /\ ~Exists(owed[r].site)

\* As long as no statement fails and no request is dropped, the audit log
\* accounts for every creation, update, trust and deletion of a site, but for
\* an update that a deletion overtook.
AuditIsComplete == faults = 0 /\ drops = 0 => Accounted /\ OwedIsComing

\* A grant is a successful test that may still lead to a trust decision: an
\* entry of pending_fingerprints, or an observation a request carries.
GrantOf(t, s, obs) == [token |-> t, site |-> s, key |-> obs.key, id |-> obs.id]

Held == {p \in Tokens \X SiteIds : pending[p[1]][p[2]] # None}
Carried == {r \in Requests : task[r].obs # None}

Grants ==
    {GrantOf(p[1], p[2], pending[p[1]][p[2]]) : p \in Held}
        \cup {GrantOf(task[r].token, task[r].site, task[r].obs) : r \in Carried}

\* No test result is in two places: take_pending_fingerprint removes what it
\* returns, and site_test hands its result over once.
GrantsAreSingle ==
    /\ \A p \in Held : pending[p[1]][p[2]].id \in 1 .. tests
    /\ \A r \in Carried : task[r].obs.id \in 1 .. tests
    /\ \A p, q \in Held :
         pending[p[1]][p[2]].id = pending[q[1]][q[2]].id => p = q
    /\ \A q, r \in Carried : task[q].obs.id = task[r].obs.id => q = r
    /\ \A p \in Held, r \in Carried : pending[p[1]][p[2]].id # task[r].obs.id

SiteStatus ==
    [s \in SiteIds |-> IF Exists(s) THEN "live"
                       ELSE IF s < nextSite THEN "gone" ELSE "new"]

TrustedKey == [s \in SiteIds |-> IF Exists(s) THEN sites[s].fp ELSE None]

Ledger == INSTANCE TrustLedger
          WITH Sites <- SiteIds, status <- SiteStatus, trusted <- TrustedKey,
               grants <- Grants, lastGrant <- tests

\* The interleaved handlers implement the ledger: a key is trusted only by
\* spending, once, a test an administrator's session made of that site.
ImplementsLedger == Ledger!Spec

\* "A change of the connection needs trust again" (the notice of site_update):
\* a trusted key was observed on the connection now in the row, unless the
\* update is about to clear it.
KeyMatchesConnection ==
    \A s \in SiteIds :
        Exists(s) /\ sites[s].fp # None /\ sites[s].via # sites[s].conn =>
            Doing(s, {"clear_fingerprint"})

\* Every request is answered or dropped.
RequestsEnd == \A r \in Requests : []<>At(r, "idle")

\* A site without a credential gets one or is removed, when one statement
\* fails at most and no request is dropped.
HalfCreatedEnds ==
    \A s \in SiteIds :
        Exists(s) /\ s \notin secrets ~> ~Exists(s) \/ s \in secrets \/ drops > 0
================================================================================
