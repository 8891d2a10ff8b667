-------------------------------- MODULE Accounts --------------------------------
(***************************************************************************)
(* Users and their passwords: login_submit, account_password_submit,       *)
(* user_create and user_reset_password of src/src/web.rs, and the commands *)
(* user create and user reset-password of src/src/main.rs, which write the *)
(* same table from a process of their own.  A handler reads the user row,  *)
(* verifies a password against what it read, and writes later.  (The limit *)
(* on failed logins is LoginThrottle.)                                     *)
(***************************************************************************)
EXTENDS Integers

CONSTANTS
    Requests,     \* slots for HTTP requests served at the same time
    Names,        \* usernames
    Passwords,    \* passwords in use or offered
    None,         \* no row, no value
    MaxVersions,  \* bound: passwords ever stored
    MaxCommands,  \* bound: commands of the CLI
    MaxFaults,    \* bound: statements that fail
    MaxDrops      \* bound: dropped requests

Roles == {"admin", "operator"}
Versions == 1 .. MaxVersions

\* A row of users.  version is auxiliary: it numbers the stored hashes (each
\* has a salt of its own, so none is stored twice).
User == [password : Passwords, role : Roles, version : Versions]

\* A session keeps the role its user had at login.
Session == [name : Names, role : Roles]

AuditRow ==
    [action : {"user_created", "user_password_changed", "user_password_reset"},
     name : Names, version : Versions]

Labels == {"idle", "verify_login", "find_again", "verify_current",
           "update_own", "update_other", "insert_user", "audit"}

\* name: the user acted on; password: the one given as proof; action and
\* version: the audit row to come.
Task == [pc : Labels, name : Names \cup {None},
         password : Passwords \cup {None}, role : Roles \cup {None},
         action : {"user_created", "user_password_changed",
                   "user_password_reset", None},
         version : Versions \cup {None}]

ASSUME AccountsAssumption ==
    /\ None \notin Names \cup Passwords \cup Roles \cup User
    /\ None \notin Int
    /\ {MaxVersions, MaxCommands, MaxFaults, MaxDrops} \subseteq Nat
    /\ MaxVersions >= 1

VARIABLES
    users,      \* table users: a row per name, or None
    version,    \* auxiliary: hashes stored so far
    sessions,   \* AuthState.sessions: who has a live session, in which role
    audit,      \* the rows of audit_events about users
    task,       \* the request each slot is serving
    commands,   \* auxiliary: CLI commands that wrote so far
    faults,     \* auxiliary: statements that failed so far
    drops       \* auxiliary: requests dropped so far

budget == <<commands, faults, drops>>
vars == <<users, version, sessions, audit, task, budget>>

Idle == [pc |-> "idle", name |-> None, password |-> None, role |-> None,
         action |-> None, version |-> None]

\* The types; a task carries what its next statement uses.
TypeOK ==
    /\ users \in [Names -> User \cup {None}]
    /\ version \in 0 .. MaxVersions
    /\ sessions \subseteq Session
    /\ audit \subseteq AuditRow
    /\ task \in [Requests -> Task]
    /\ \A r \in Requests :
          /\ task[r].name = None <=> task[r].pc = "idle"
          /\ task[r].version # None <=> task[r].pc = "audit"
          /\ task[r].password # None <=>
               task[r].pc \in {"verify_login", "verify_current", "update_own"}
    /\ commands \in 0 .. MaxCommands
    /\ faults \in 0 .. MaxFaults /\ drops \in 0 .. MaxDrops

\* The installer's user create has made the first administrator.
Init ==
    /\ \E n \in Names, p \in Passwords :
          users = [m \in Names |->
                     IF m = n THEN [password |-> p, role |-> "admin", version |-> 1]
                     ELSE None]
    /\ version = 1
    /\ sessions = {}
    /\ audit = {}
    /\ task = [r \in Requests |-> Idle]
    /\ commands = 0 /\ faults = 0 /\ drops = 0

-------------------------------------------------------------------------------

At(r, pc) == task[r].pc = pc
Reply(r) == task' = [task EXCEPT ![r] = Idle]

Arrive(r, request) ==
    /\ At(r, "idle")
    /\ task' = [task EXCEPT ![r] = request]
    /\ UNCHANGED <<users, version, sessions, audit, budget>>

AcceptLogin(r) ==
    \E n \in Names, p \in Passwords :
        Arrive(r, [Idle EXCEPT !.pc = "verify_login", !.name = n, !.password = p])

\* A request with a live session of the given roles.
WithSession(roles, names) ==
    \E s \in sessions : s.role \in roles /\ s.name \in names

AcceptChange(r) ==
    \E n \in Names, p \in Passwords :
        /\ WithSession(Roles, {n})
        /\ Arrive(r, [Idle EXCEPT !.pc = "verify_current", !.name = n,
                                  !.password = p])

AcceptReset(r) ==
    \E n \in Names :
        /\ WithSession({"admin"}, Names)
        /\ Arrive(r, [Idle EXCEPT !.pc = "update_other", !.name = n])

AcceptCreate(r) ==
    \E n \in Names, role \in Roles :
        /\ WithSession({"admin"}, Names)
        /\ Arrive(r, [Idle EXCEPT !.pc = "insert_user", !.name = n, !.role = role])

-------------------------------------------------------------------------------
(* Statements.                                                             *)

Fault ==
    /\ faults < MaxFaults
    /\ faults' = faults + 1
    /\ UNCHANGED <<users, version, sessions, audit, commands, drops>>

Verified(r) ==
    users[task[r].name] # None /\ users[task[r].name].password = task[r].password

\* find_user and verify_password (no await between them).
VerifyLogin(r) ==
    /\ At(r, "verify_login")
    /\ IF Verified(r)
       THEN task' = [task EXCEPT ![r].pc = "find_again", ![r].password = None]
       ELSE Reply(r)
    /\ UNCHANGED <<users, version, sessions, audit, budget>>

\* The second find_user, and create_session for the row it returns: its role
\* is the one of that row, its password is not looked at again.
FindAgain(r) ==
    LET row == users[task[r].name]
    IN  /\ At(r, "find_again")
        /\ sessions' = sessions \cup {[name |-> task[r].name, role |-> row.role]}
        /\ Reply(r)
        /\ UNCHANGED <<users, version, audit, budget>>

VerifyCurrent(r) ==
    /\ At(r, "verify_current")
    /\ IF Verified(r) THEN task' = [task EXCEPT ![r].pc = "update_own"]
       ELSE Reply(r)
    /\ UNCHANGED <<users, version, sessions, audit, budget>>

\* find_user or the second find_user of a login returns an error.
ReadFails(r) ==
    /\ task[r].pc \in {"verify_login", "find_again", "verify_current"}
    /\ Reply(r)
    /\ Fault

\* UPDATE users SET password_hash: the hash of p replaces whatever is stored.
Store(n, p) ==
    /\ version < MaxVersions
    /\ version' = version + 1
    /\ users' = [users EXCEPT ![n].password = p, ![n].version = version + 1]

GoAuditOwn(r, action) ==
    IF action = "user_password_reset" THEN Reply(r)
    ELSE task' = [task EXCEPT ![r] = [Idle EXCEPT !.pc = "audit",
                    !.name = task[r].name, !.action = action,
                    !.version = version + 1]]

GoAuditUnnumbered(r, action) ==
    task' = [task EXCEPT ![r] = [Idle EXCEPT !.pc = "audit", !.name = task[r].name,
                                   !.action = action]]

GoAudit(r, action) ==
    task' = [task EXCEPT ![r] = [Idle EXCEPT !.pc = "audit", !.name = task[r].name,
                                   !.action = action, !.version = version + 1]]

UpdateOwn(r) ==
    /\ At(r, "update_own")
    /\ \/ /\ \E p \in Passwords : Store(task[r].name, p)
          /\ GoAudit(r, "user_password_changed")
          /\ UNCHANGED <<sessions, audit, budget>>
       \/ Reply(r) /\ Fault

UpdateOther(r) ==
    /\ At(r, "update_other")
    /\ \/ /\ users[task[r].name] # None
          /\ \E p \in Passwords : Store(task[r].name, p)
          /\ GoAudit(r, "user_password_reset")
          /\ UNCHANGED <<sessions, audit, budget>>
       \/ /\ users[task[r].name] = None
          /\ Reply(r)
          /\ UNCHANGED <<users, version, sessions, audit, budget>>
       \/ Reply(r) /\ Fault

\* username TEXT NOT NULL UNIQUE.
AnyName(n) == TRUE
FreeName(n) == users[n] = None

NewUser(n, role, p) ==
    /\ version < MaxVersions
    /\ version' = version + 1
    /\ users' = [users EXCEPT ![n] =
                    [password |-> p, role |-> role, version |-> version + 1]]

InsertUser(r) ==
    /\ At(r, "insert_user")
    /\ \/ /\ FreeName(task[r].name)
          /\ \E p \in Passwords : NewUser(task[r].name, task[r].role, p)
          /\ GoAudit(r, "user_created")
          /\ UNCHANGED <<sessions, audit, budget>>
       \/ /\ ~FreeName(task[r].name)
          /\ Reply(r)
          /\ UNCHANGED <<users, version, sessions, audit, budget>>
       \/ Reply(r) /\ Fault

\* insert_audit_event; its result is ignored (let _ = ...).
Audit(r) ==
    /\ At(r, "audit")
    /\ Reply(r)
    /\ \/ /\ audit' = audit \cup {[action |-> task[r].action, name |-> task[r].name,
                                   version |-> task[r].version]}
          /\ UNCHANGED <<users, version, sessions, budget>>
       \/ Fault

\* The last session of a user in a role ends: logout, expiry or a restart.
SessionEnds ==
    \E s \in sessions :
        /\ sessions' = sessions \ {s}
        /\ UNCHANGED <<users, version, audit, task, budget>>

Drop(r) ==
    /\ ~At(r, "idle")
    /\ drops < MaxDrops /\ drops' = drops + 1
    /\ Reply(r)
    /\ UNCHANGED <<users, version, sessions, audit, commands, faults>>

\* user_command: one statement, and no row in audit_events.
Command ==
    /\ commands < MaxCommands /\ commands' = commands + 1
    /\ \E n \in Names, p \in Passwords :
          \/ users[n] # None /\ Store(n, p)
          \/ \E role \in Roles : users[n] = None /\ NewUser(n, role, p)
    /\ UNCHANGED <<sessions, audit, task, faults, drops>>

-------------------------------------------------------------------------------

Step(r) ==
    \/ VerifyLogin(r) \/ FindAgain(r) \/ VerifyCurrent(r) \/ ReadFails(r)
    \/ UpdateOwn(r) \/ UpdateOther(r) \/ InsertUser(r) \/ Audit(r)

Next ==
    \/ \E r \in Requests :
          \/ AcceptLogin(r) \/ AcceptChange(r) \/ AcceptReset(r) \/ AcceptCreate(r)
          \/ Step(r) \/ Drop(r)
    \/ SessionEnds \/ Command

Spec == Init /\ [][Next]_vars

-------------------------------------------------------------------------------
(* Properties.                                                             *)

\* Users are never deleted, renamed or created twice: a live session always
\* has the role its user has, though it looked it up only once.
SessionsMatchUsers ==
    \A s \in sessions : users[s.name] # None /\ users[s.name].role = s.role

\* The audit log tells one story: each stored password has one row at most,
\* it belongs to a user of that name, and a creation is the first row of its
\* user, whatever requests and commands interleave.
AuditIsTrue ==
    \A a \in audit :
        /\ users[a.name] # None /\ a.version <= users[a.name].version
        /\ \A b \in audit :
              /\ a.version = b.version => a = b
              /\ a.action = "user_created" /\ a.name = b.name =>
                   a.version <= b.version

\* Every stored password has its row, or a request about to write it.
Logged ==
    \A v \in 2 .. version :
        \/ \E a \in audit : a.version = v
        \/ \E r \in Requests : task[r].version = v

\* As long as no statement fails and no request is dropped, the web interface
\* accounts for every password it stores, overwritten ones included.
PasswordsAudited == faults = 0 /\ drops = 0 /\ commands = 0 => Logged
================================================================================
