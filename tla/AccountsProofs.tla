------------------------------ MODULE AccountsProofs ------------------------------
(* Accounts for every value of the constants: any number of users,          *)
(* passwords, requests and commands of the CLI, whatever fails or is        *)
(* dropped.                                                                 *)
EXTENDS Accounts, TLAPS

Logging == {"user_created", "user_password_changed", "user_password_reset"}

\* What TypeOK says of a task, and what its audit row and its user will need.
Fit(t) ==
    /\ t.name = None <=> t.pc = "idle"
    /\ t.version # None <=> t.pc = "audit"
    /\ t.password # None <=> t.pc \in {"verify_login", "verify_current", "update_own"}
    /\ t.pc = "insert_user" => t.role \in Roles
    /\ t.pc = "audit" => t.action \in Logging

\* A request past its check has read a row, which nobody deletes.
RowRead ==
    \A r \in Requests :
        task[r].pc \in {"find_again", "update_own"} => users[task[r].name] # None

\* The row a request is about to write.
RowOf(r) == [action |-> task[r].action, name |-> task[r].name,
             version |-> task[r].version]

\* The audit log with the rows to come.
Known == audit \cup {RowOf(r) : r \in {q \in Requests : At(q, "audit")}}

\* What AuditIsTrue says, of the rows to come too, and none is ahead of time.
KnownIsTrue ==
    \A a \in Known :
        /\ users[a.name] # None /\ a.version <= users[a.name].version
        /\ \A b \in Known :
              /\ a.version = b.version => a = b
              /\ a.action = "user_created" /\ a.name = b.name =>
                   a.version <= b.version

\* Every hash that is stored has had its number.
Numbered == \A n \in Names : users[n] # None => users[n].version <= version

Inv ==
    /\ TypeOK /\ \A r \in Requests : Fit(task[r])
    /\ RowRead
    /\ KnownIsTrue /\ Numbered
    /\ SessionsMatchUsers
    /\ PasswordsAudited

-------------------------------------------------------------------------------
(* Tasks.                                                                  *)

LEMMA IdleFits == Idle \in Task /\ Fit(Idle)
BY DEF Idle, Task, Labels, Fit

\* A request whose next statement is named has a user.
LEMMA NameKnown ==
    ASSUME TypeOK, NEW r \in Requests, Fit(task[r]), task[r].pc # "idle"
    PROVE  /\ task[r] \in Task /\ task[r].name \in Names
           /\ users[task[r].name] \in User \cup {None}
BY DEF TypeOK, Task, Fit

\* A step of one request replaces its task by one that fits.
LEMMA TaskSteps ==
    ASSUME Inv, NEW r \in Requests,
           \/ AcceptLogin(r) \/ AcceptChange(r) \/ AcceptReset(r) \/ AcceptCreate(r)
           \/ Step(r) \/ Drop(r)
    PROVE  \E t \in Task :
              /\ Fit(t)
              /\ task' = [task EXCEPT ![r] = t]
              /\ \/ t = Idle
                 \/ t.pc \notin {"idle", "audit", "find_again", "update_own"}
                 \/ /\ t.pc \in {"find_again", "update_own"} /\ t.name = task[r].name
                    /\ UNCHANGED users /\ users[t.name] # None
                 \/ /\ t.pc = "audit" /\ t.name = task[r].name /\ t.name \in Names
                    /\ t.version = version + 1 /\ version' = version + 1
                    /\ t.action = "user_created" => users[t.name] = None
<1> DEFINE Goal(t) ==
              /\ Fit(t)
              /\ task' = [task EXCEPT ![r] = t]
              /\ \/ t = Idle
                 \/ t.pc \notin {"idle", "audit", "find_again", "update_own"}
                 \/ /\ t.pc \in {"find_again", "update_own"} /\ t.name = task[r].name
                    /\ UNCHANGED users /\ users[t.name] # None
                 \/ /\ t.pc = "audit" /\ t.name = task[r].name /\ t.name \in Names
                    /\ t.version = version + 1 /\ version' = version + 1
                    /\ t.action = "user_created" => users[t.name] = None
<1>a. TypeOK /\ Fit(task[r]) /\ task \in [Requests -> Task] /\ version \in Nat
  BY AccountsAssumption DEF Inv, TypeOK
<1>1. ASSUME Reply(r) PROVE \E t \in Task : Goal(t)
  BY <1>1, IdleFits DEF Reply
<1>2. ASSUME AcceptLogin(r) PROVE \E t \in Task : Goal(t)
  <2>1. PICK n \in Names, p \in Passwords :
          task' = [task EXCEPT ![r] = [Idle EXCEPT !.pc = "verify_login",
                                         !.name = n, !.password = p]]
    BY <1>2 DEF AcceptLogin, Arrive
  <2> DEFINE t == [Idle EXCEPT !.pc = "verify_login", !.name = n, !.password = p]
  <2>2. t \in Task /\ t.pc = "verify_login" /\ Fit(t)
    BY AccountsAssumption DEF Idle, Task, Labels, Fit
  <2> QED BY <2>1, <2>2
<1>3. ASSUME AcceptChange(r) PROVE \E t \in Task : Goal(t)
  <2>1. PICK n \in Names, p \in Passwords :
          task' = [task EXCEPT ![r] = [Idle EXCEPT !.pc = "verify_current",
                                         !.name = n, !.password = p]]
    BY <1>3 DEF AcceptChange, Arrive
  <2> DEFINE t == [Idle EXCEPT !.pc = "verify_current", !.name = n, !.password = p]
  <2>2. t \in Task /\ t.pc = "verify_current" /\ Fit(t)
    BY AccountsAssumption DEF Idle, Task, Labels, Fit
  <2> QED BY <2>1, <2>2
<1>4. ASSUME AcceptReset(r) PROVE \E t \in Task : Goal(t)
  <2>1. PICK n \in Names :
          task' = [task EXCEPT ![r] = [Idle EXCEPT !.pc = "update_other", !.name = n]]
    BY <1>4 DEF AcceptReset, Arrive
  <2> DEFINE t == [Idle EXCEPT !.pc = "update_other", !.name = n]
  <2>2. t \in Task /\ t.pc = "update_other" /\ Fit(t)
    BY AccountsAssumption DEF Idle, Task, Labels, Fit
  <2> QED BY <2>1, <2>2
<1>5. ASSUME AcceptCreate(r) PROVE \E t \in Task : Goal(t)
  <2>1. PICK n \in Names, role \in Roles :
          task' = [task EXCEPT ![r] = [Idle EXCEPT !.pc = "insert_user",
                                         !.name = n, !.role = role]]
    BY <1>5 DEF AcceptCreate, Arrive
  <2> DEFINE t == [Idle EXCEPT !.pc = "insert_user", !.name = n, !.role = role]
  <2>2. t \in Task /\ t.pc = "insert_user" /\ Fit(t)
    BY AccountsAssumption DEF Idle, Task, Labels, Fit
  <2> QED BY <2>1, <2>2
<1>6. ASSUME VerifyLogin(r), Verified(r), ~Reply(r) PROVE \E t \in Task : Goal(t)
  <2> DEFINE t == [task[r] EXCEPT !.pc = "find_again", !.password = None]
  <2>1. task' = [task EXCEPT ![r] = t] /\ UNCHANGED users
    BY <1>6, <1>a DEF VerifyLogin
  <2>2. t \in Task /\ t.pc = "find_again" /\ t.name = task[r].name /\ Fit(t)
    BY <1>6, <1>a DEF VerifyLogin, At, Task, Labels, Fit
  <2>3. users[t.name] # None
    BY <1>6, <2>2 DEF Verified
  <2> QED BY <2>1, <2>2, <2>3
<1>7. ASSUME VerifyCurrent(r), Verified(r), ~Reply(r) PROVE \E t \in Task : Goal(t)
  <2> DEFINE t == [task[r] EXCEPT !.pc = "update_own"]
  <2>1. task' = [task EXCEPT ![r] = t] /\ UNCHANGED users
    BY <1>7, <1>a DEF VerifyCurrent
  <2>2. t \in Task /\ t.pc = "update_own" /\ t.name = task[r].name /\ Fit(t)
    BY <1>7, <1>a DEF VerifyCurrent, At, Task, Labels, Fit
  <2>3. users[t.name] # None
    BY <1>7, <2>2 DEF Verified
  <2> QED BY <2>1, <2>2, <2>3
<1>8. ASSUME NEW action \in Logging, GoAudit(r, action), task[r].pc # "idle",
             version < MaxVersions, version' = version + 1,
             action = "user_created" => users[task[r].name] = None
      PROVE  \E t \in Task : Goal(t)
  <2> DEFINE t == [Idle EXCEPT !.pc = "audit", !.name = task[r].name,
                               !.action = action, !.version = version + 1]
  <2>1. task' = [task EXCEPT ![r] = t]
    BY <1>8 DEF GoAudit
  <2>2. task[r].name \in Names
    BY <1>8, <1>a, NameKnown
  <2>3. version + 1 \in Versions /\ version + 1 # None
    BY <1>8, <1>a, AccountsAssumption DEF Versions
  <2>4. /\ t \in Task /\ t.pc = "audit" /\ t.name = task[r].name
        /\ t.version = version + 1 /\ t.action = action
    BY <2>2, <2>3 DEF Idle, Task, Labels, Logging
  <2>5. Fit(t)
    BY <2>2, <2>3, AccountsAssumption DEF Idle, Fit
  <2> QED BY <1>8, <2>1, <2>2, <2>4, <2>5
<1>9. ASSUME Step(r), ~Reply(r) PROVE \E t \in Task : Goal(t)
  <2>1. CASE VerifyLogin(r)
    BY <2>1, <1>6, <1>9 DEF VerifyLogin
  <2>2. CASE VerifyCurrent(r)
    BY <2>2, <1>7, <1>9 DEF VerifyCurrent
  <2>3. CASE UpdateOwn(r)
    BY <2>3, <1>8, <1>9 DEF UpdateOwn, Store, At, Logging
  <2>4. CASE UpdateOther(r)
    BY <2>4, <1>8, <1>9 DEF UpdateOther, Store, At, Logging
  <2>5. CASE InsertUser(r)
    BY <2>5, <1>8, <1>9 DEF InsertUser, NewUser, FreeName, At, Logging
  <2> QED BY <1>9, <2>1, <2>2, <2>3, <2>4, <2>5 DEF Step, FindAgain, ReadFails, Audit
<1> QED BY <1>1, <1>2, <1>3, <1>4, <1>5, <1>9 DEF Drop

-------------------------------------------------------------------------------
(* Users.                                                                  *)

\* What no statement takes back: a user stays, with its role, and the number of
\* its hash grows.
Grows ==
    /\ \A n \in Names : users[n] # None =>
          /\ users'[n] # None /\ users'[n].role = users[n].role
          /\ users[n].version <= users'[n].version
    /\ version <= version'

LEMMA StoreSets ==
    ASSUME TypeOK, Numbered, NEW n \in Names, users[n] # None, NEW p \in Passwords,
           Store(n, p)
    PROVE  /\ users' \in [Names -> User \cup {None}] /\ version' = version + 1
           /\ version' \in 0 .. MaxVersions
           /\ Numbered' /\ Grows
           /\ users'[n] # None /\ users'[n].version = version + 1
<1>1. users[n] \in User /\ users \in [Names -> User \cup {None}]
  BY DEF TypeOK
<1>2. version \in Nat /\ version < MaxVersions /\ version' = version + 1
      /\ MaxVersions \in Nat
  BY AccountsAssumption DEF TypeOK, Store
<1>3. version + 1 \in Versions
  BY <1>2 DEF Versions
<1> DEFINE row == [users[n] EXCEPT !.password = p, !.version = version + 1]
<1>4. row \in User /\ row.version = version + 1 /\ row.role = users[n].role
  BY <1>1, <1>3 DEF User
<1>5. users' = [users EXCEPT ![n] = row]
  BY <1>1 DEF Store
<1>6. row # None
  BY <1>4, AccountsAssumption
<1> HIDE DEF row
<1>7. users' \in [Names -> User \cup {None}] /\ users'[n] = row
      /\ \A m \in Names : m # n => users'[m] = users[m]
  BY <1>1, <1>4, <1>5
<1>8. \A m \in Names : users[m] # None => users[m].version \in Nat
  BY <1>1, <1>2 DEF User, Versions
<1>9. Numbered'
  BY <1>2, <1>4, <1>7, <1>8 DEF Numbered
<1>10. Grows
  BY <1>2, <1>4, <1>6, <1>7, <1>8 DEF Grows, Numbered
<1> QED BY <1>2, <1>4, <1>6, <1>7, <1>9, <1>10

LEMMA NewUserSets ==
    ASSUME TypeOK, Numbered, NEW n \in Names, users[n] = None, NEW p \in Passwords,
           NEW role \in Roles, NewUser(n, role, p)
    PROVE  /\ users' \in [Names -> User \cup {None}] /\ version' = version + 1
           /\ version' \in 0 .. MaxVersions
           /\ Numbered' /\ Grows
           /\ users'[n] # None /\ users'[n].version = version + 1
<1>1. users \in [Names -> User \cup {None}]
  BY DEF TypeOK
<1>2. version \in Nat /\ version < MaxVersions /\ version' = version + 1
      /\ MaxVersions \in Nat
  BY AccountsAssumption DEF TypeOK, NewUser
<1>3. version + 1 \in Versions
  BY <1>2 DEF Versions
<1> DEFINE row == [password |-> p, role |-> role, version |-> version + 1]
<1>4. row \in User /\ row.version = version + 1
  BY <1>3 DEF User
<1>5. users' = [users EXCEPT ![n] = row]
  BY <1>1 DEF NewUser
<1>6. row # None
  BY <1>4, AccountsAssumption
<1> HIDE DEF row
<1>7. users' \in [Names -> User \cup {None}] /\ users'[n] = row
      /\ \A m \in Names : m # n => users'[m] = users[m]
  BY <1>1, <1>4, <1>5
<1>8. \A m \in Names : users[m] # None => users[m].version \in Nat
  BY <1>1, <1>2 DEF User, Versions
<1>9. Numbered'
  BY <1>2, <1>4, <1>7, <1>8 DEF Numbered
<1>10. Grows
  BY <1>2, <1>7, <1>8 DEF Grows
<1> QED BY <1>2, <1>4, <1>6, <1>7, <1>9, <1>10

\* A request writes one user at most, and then announces the row that says so.
LEMMA RequestWrites ==
    ASSUME Inv, NEW r \in Requests,
           \/ AcceptLogin(r) \/ AcceptChange(r) \/ AcceptReset(r) \/ AcceptCreate(r)
           \/ Step(r) \/ Drop(r)
    PROVE  /\ users' \in [Names -> User \cup {None}] /\ version' \in 0 .. MaxVersions
           /\ Numbered' /\ Grows
           /\ \/ UNCHANGED <<users, version>>
              \/ /\ version' = version + 1
                 /\ users'[task[r].name] # None
                 /\ users'[task[r].name].version = version + 1
                 /\ task'[r].version = version + 1
<1>a. TypeOK /\ Numbered /\ \A q \in Requests : Fit(task[q])
  BY DEF Inv
<1>1. ASSUME UNCHANGED <<users, version>>
      PROVE  /\ users' \in [Names -> User \cup {None}] /\ version' \in 0 .. MaxVersions
             /\ Numbered' /\ Grows
  <2>1. \A n \in Names : users[n] # None => users[n].version \in Nat
    BY <1>a DEF TypeOK, User, Versions
  <2>2. version \in Nat
    BY <1>a, AccountsAssumption DEF TypeOK
  <2> QED BY <1>a, <1>1, <2>1, <2>2 DEF TypeOK, Numbered, Grows
<1>2. ASSUME NEW action, GoAudit(r, action) PROVE task'[r].version = version + 1
  BY <1>a, <1>2 DEF GoAudit, TypeOK, Idle
<1>3. CASE UpdateOwn(r) /\ ~UNCHANGED <<users, version>>
  <2>1. task[r].pc = "update_own" /\ users[task[r].name] # None /\ task[r].name \in Names
    BY <1>a, <1>3, NameKnown DEF UpdateOwn, At, Inv, RowRead
  <2>2. PICK p \in Passwords : Store(task[r].name, p)
    BY <1>3 DEF UpdateOwn, Fault
  <2>3. GoAudit(r, "user_password_changed")
    BY <1>3 DEF UpdateOwn, Fault
  <2> QED BY <1>a, <1>2, <2>1, <2>2, <2>3, StoreSets
<1>4. CASE UpdateOther(r) /\ ~UNCHANGED <<users, version>>
  <2>1. users[task[r].name] # None /\ task[r].name \in Names
    BY <1>a, <1>4, NameKnown DEF UpdateOther, At, Fault
  <2>2. PICK p \in Passwords : Store(task[r].name, p)
    BY <1>4 DEF UpdateOther, Fault
  <2>3. GoAudit(r, "user_password_reset")
    BY <1>4 DEF UpdateOther, Fault
  <2> QED BY <1>a, <1>2, <2>1, <2>2, <2>3, StoreSets
<1>5. CASE InsertUser(r) /\ ~UNCHANGED <<users, version>>
  <2>1. users[task[r].name] = None /\ task[r].name \in Names /\ task[r].role \in Roles
    BY <1>a, <1>5, NameKnown DEF InsertUser, FreeName, At, Fault, Fit
  <2>2. PICK p \in Passwords : NewUser(task[r].name, task[r].role, p)
    BY <1>5 DEF InsertUser, Fault
  <2>3. GoAudit(r, "user_created")
    BY <1>5 DEF InsertUser, Fault
  <2> QED BY <1>a, <1>2, <2>1, <2>2, <2>3, NewUserSets
<1>6. CASE UNCHANGED <<users, version>>
  BY <1>1, <1>6
<1> QED BY <1>3, <1>4, <1>5, <1>6
        DEF AcceptLogin, AcceptChange, AcceptReset, AcceptCreate, Arrive, Step, Drop,
            VerifyLogin, FindAgain, VerifyCurrent, ReadFails, Audit, Fault

\* The CLI writes one user, or none.
LEMMA CommandWrites ==
    ASSUME Inv, Command
    PROVE  /\ users' \in [Names -> User \cup {None}] /\ version' \in 0 .. MaxVersions
           /\ Numbered' /\ Grows
<1>a. TypeOK /\ Numbered
  BY DEF Inv
<1>1. PICK n \in Names, p \in Passwords :
        \/ users[n] # None /\ Store(n, p)
        \/ \E role \in Roles : users[n] = None /\ NewUser(n, role, p)
  BY DEF Command
<1> QED BY <1>a, <1>1, StoreSets, NewUserSets

-------------------------------------------------------------------------------
(* The audit log.                                                          *)

LEMMA KnownTyped ==
    ASSUME Inv
    PROVE  Known \subseteq AuditRow /\ version \in Nat
<1>1. ASSUME NEW r \in Requests, At(r, "audit") PROVE RowOf(r) \in AuditRow
  <2>1. task[r] \in Task /\ task[r].name \in Names /\ Fit(task[r]) /\ task[r].pc = "audit"
    BY <1>1, NameKnown DEF Inv, At
  <2>2. task[r].version \in Versions /\ task[r].action \in Logging
    BY <2>1 DEF Fit, Task
  <2> QED BY <2>1, <2>2 DEF RowOf, AuditRow, Logging
<1> QED BY <1>1, AccountsAssumption DEF Known, Inv, TypeOK

\* Rows stay true while users grow and nothing is announced.
LEMMA KnownKept ==
    ASSUME Inv, Known' \subseteq Known, Grows, version' \in Nat,
           users' \in [Names -> User \cup {None}]
    PROVE  KnownIsTrue'
<1> SUFFICES ASSUME NEW a \in Known'
             PROVE  /\ users'[a.name] # None /\ a.version <= users'[a.name].version
                    /\ \A b \in Known' :
                          /\ a.version = b.version => a = b
                          /\ a.action = "user_created" /\ a.name = b.name =>
                               a.version <= b.version
  BY DEF KnownIsTrue
<1>1. a \in Known /\ a.name \in Names /\ a.version \in Nat
  BY KnownTyped DEF AuditRow, Versions
<1>2. users[a.name] # None /\ a.version <= users[a.name].version
  BY <1>1 DEF Inv, KnownIsTrue
<1>3. users[a.name].version \in Nat /\ users[a.name].version <= users'[a.name].version
  BY <1>1, <1>2 DEF Inv, TypeOK, User, Versions, Grows
<1>4. users'[a.name] # None /\ users'[a.name].version \in Nat
  BY <1>1, <1>2 DEF Grows, User, Versions
<1>5. \A b \in Known' : /\ a.version = b.version => a = b
                        /\ a.action = "user_created" /\ a.name = b.name =>
                             a.version <= b.version
  BY <1>1 DEF Inv, KnownIsTrue
<1> QED BY <1>1, <1>2, <1>3, <1>4, <1>5

\* A row that is announced has a number of its own, above all others; and if it
\* speaks of a creation, no other row speaks of that name.
LEMMA KnownAdded ==
    ASSUME Inv, NEW row, Known' \subseteq Known \cup {row}, Grows,
           users' \in [Names -> User \cup {None}],
           row.name \in Names, row.version = version + 1, version' = version + 1,
           users'[row.name] # None, users'[row.name].version = version + 1,
           row.action = "user_created" => users[row.name] = None
    PROVE  KnownIsTrue'
<1>a. \A a \in Known : a.name \in Names /\ a.version \in Nat
  BY KnownTyped DEF AuditRow, Versions
<1>b. version \in Nat
  BY KnownTyped
<1>1. \A a \in Known : a.version <= version
  <2> SUFFICES ASSUME NEW a \in Known PROVE a.version <= version
    OBVIOUS
  <2>1. users[a.name] # None /\ a.version <= users[a.name].version
    BY DEF Inv, KnownIsTrue
  <2>2. users[a.name].version \in Nat /\ users[a.name].version <= version
    BY <1>a, <2>1 DEF Inv, TypeOK, User, Versions, Numbered
  <2> QED BY <1>a, <1>b, <2>1, <2>2
<1> SUFFICES ASSUME NEW a \in Known'
             PROVE  /\ users'[a.name] # None /\ a.version <= users'[a.name].version
                    /\ \A b \in Known' :
                          /\ a.version = b.version => a = b
                          /\ a.action = "user_created" /\ a.name = b.name =>
                               a.version <= b.version
  BY DEF KnownIsTrue
<1>2. CASE a = row
  <2>1. \A b \in Known : a.version # b.version
    BY <1>1, <1>2, <1>a, <1>b
  <2>2. \A b \in Known : users[b.name] # None
    BY DEF Inv, KnownIsTrue
  <2>3. users'[a.name] # None /\ a.version <= users'[a.name].version
    BY <1>2, <1>b
  <2> QED BY <1>2, <1>b, <2>1, <2>2, <2>3
<1>3. CASE a \in Known
  <2>1. users[a.name] # None /\ a.version <= users[a.name].version
    BY <1>3 DEF Inv, KnownIsTrue
  <2>2. users[a.name].version \in Nat /\ users[a.name].version <= users'[a.name].version
    BY <1>3, <1>a, <2>1 DEF Inv, TypeOK, User, Versions, Grows
  <2>3. users'[a.name] # None /\ users'[a.name].version \in Nat
    BY <1>3, <1>a, <2>1 DEF Grows, User, Versions
  <2>4. a.version <= users'[a.name].version
    BY <1>3, <1>a, <2>1, <2>2, <2>3
  <2>5. \A b \in Known : /\ a.version = b.version => a = b
                         /\ a.action = "user_created" /\ a.name = b.name =>
                              a.version <= b.version
    BY <1>3 DEF Inv, KnownIsTrue
  <2>6. a.version # row.version /\ a.version <= row.version
    BY <1>1, <1>3, <1>a, <1>b
  <2> QED BY <2>3, <2>4, <2>5, <2>6
<1> QED BY <1>2, <1>3

\* All but two of the steps leave the log and the bounds alone, or fail.
LEMMA StepShapes ==
    ASSUME NEW r \in Requests,
           \/ AcceptLogin(r) \/ AcceptChange(r) \/ AcceptReset(r) \/ AcceptCreate(r)
           \/ Step(r) \/ Drop(r)
    PROVE  \/ Audit(r) \/ Drop(r)
           \/ ~At(r, "audit") /\ (UNCHANGED <<audit, budget>> \/ Fault)
<1>1. ASSUME AcceptLogin(r) \/ AcceptChange(r) \/ AcceptReset(r) \/ AcceptCreate(r)
      PROVE  ~At(r, "audit") /\ UNCHANGED <<audit, budget>>
  BY <1>1 DEF AcceptLogin, AcceptChange, AcceptReset, AcceptCreate, Arrive, At
<1>2. ASSUME VerifyLogin(r) \/ FindAgain(r) \/ VerifyCurrent(r)
      PROVE  ~At(r, "audit") /\ UNCHANGED <<audit, budget>>
  BY <1>2 DEF VerifyLogin, FindAgain, VerifyCurrent, At
<1>3. ASSUME ReadFails(r) PROVE ~At(r, "audit") /\ Fault
  BY <1>3 DEF ReadFails, At
<1>4. ASSUME UpdateOwn(r) \/ UpdateOther(r) \/ InsertUser(r)
      PROVE  ~At(r, "audit") /\ (UNCHANGED <<audit, budget>> \/ Fault)
  BY <1>4 DEF UpdateOwn, UpdateOther, InsertUser, At
<1> QED BY <1>1, <1>2, <1>3, <1>4 DEF Step

\* Writing a row of the log takes it from the request that announced it.
LEMMA AuditWrites ==
    ASSUME Inv, NEW r \in Requests,
           \/ AcceptLogin(r) \/ AcceptChange(r) \/ AcceptReset(r) \/ AcceptCreate(r)
           \/ Step(r) \/ Drop(r)
    PROVE  /\ audit \subseteq audit' /\ audit' \subseteq Known
           /\ faults' = 0 /\ drops' = 0 /\ At(r, "audit") => RowOf(r) \in audit'
           /\ faults' = 0 /\ drops' = 0 /\ commands' = 0 =>
                faults = 0 /\ drops = 0 /\ commands = 0
<1>a. {faults, drops, commands} \subseteq Nat
  BY AccountsAssumption DEF Inv, TypeOK
<1>1. CASE Audit(r)
  BY <1>1, <1>a DEF Audit, Known, RowOf, Fault, budget
<1>2. CASE Drop(r)
  BY <1>2, <1>a DEF Drop, Known
<1>3. CASE ~At(r, "audit") /\ UNCHANGED <<audit, budget>>
  BY <1>3 DEF Known, budget
<1>4. CASE ~At(r, "audit") /\ Fault
  BY <1>4, <1>a DEF Known, Fault
<1> QED BY <1>1, <1>2, <1>3, <1>4, StepShapes

\* The log, and the rows to come, after the step of a request.
LEMMA RequestKeepsLog ==
    ASSUME Inv, NEW r \in Requests,
           \/ AcceptLogin(r) \/ AcceptChange(r) \/ AcceptReset(r) \/ AcceptCreate(r)
           \/ Step(r) \/ Drop(r)
    PROVE  KnownIsTrue' /\ PasswordsAudited'
<1>a. TypeOK /\ task \in [Requests -> Task]
  BY DEF Inv, TypeOK
<1>1. PICK t \in Task :
        /\ task' = [task EXCEPT ![r] = t]
        /\ t.pc = "audit" =>
             /\ t.name = task[r].name /\ t.name \in Names
             /\ t.version = version + 1 /\ version' = version + 1
             /\ t.action = "user_created" => users[t.name] = None
  BY TaskSteps, IdleFits DEF Idle
<1>2. task'[r] = t /\ \A q \in Requests : q # r => task'[q] = task[q]
  BY <1>a, <1>1
<1> DEFINE row == [action |-> t.action, name |-> t.name, version |-> t.version]
<1>3. \A a \in Known' : a \in Known \/ (t.pc = "audit" /\ a = row)
  <2> SUFFICES ASSUME NEW a \in Known' PROVE a \in Known \/ (t.pc = "audit" /\ a = row)
    OBVIOUS
  <2>1. CASE a \in audit'
    BY <2>1, AuditWrites
  <2>2. ASSUME NEW q \in Requests, task'[q].pc = "audit",
               a = [action |-> task'[q].action, name |-> task'[q].name,
                    version |-> task'[q].version]
        PROVE  a \in Known \/ (t.pc = "audit" /\ a = row)
    <3>1. CASE q = r
      BY <1>2, <2>2, <3>1
    <3>2. CASE q # r
      BY <1>2, <2>2, <3>2 DEF Known, RowOf, At
    <3> QED BY <3>1, <3>2
  <2> QED BY <2>1, <2>2 DEF Known, RowOf, At
<1>4. KnownIsTrue'
  <2>1. /\ users' \in [Names -> User \cup {None}] /\ version' \in Nat /\ Grows
    BY RequestWrites, AccountsAssumption
  <2>2. CASE t.pc # "audit"
    BY <1>3, <2>1, <2>2, KnownKept
  <2>3. CASE t.pc = "audit"
    <3>1. version \in Nat
      BY KnownTyped
    <3>2. users'[row.name] # None /\ users'[row.name].version = version + 1
      BY <1>1, <2>3, <3>1, RequestWrites
    <3>3. /\ Known' \subseteq Known \cup {row}
          /\ row.name \in Names /\ row.version = version + 1 /\ version' = version + 1
          /\ row.action = "user_created" => users[row.name] = None
      BY <1>1, <1>3, <2>3
    <3> HIDE DEF row
    <3> QED BY <2>1, <3>2, <3>3, KnownAdded
  <2> QED BY <2>2, <2>3
<1>5. PasswordsAudited'
  <2> SUFFICES ASSUME faults' = 0, drops' = 0, commands' = 0, NEW v \in 2 .. version'
               PROVE  \/ \E a \in audit' : a.version = v
                      \/ \E q \in Requests : task'[q].version = v
    BY DEF PasswordsAudited, Logged
  <2>1. version \in Nat /\ v \in Nat
    BY KnownTyped, RequestWrites, AccountsAssumption
  <2>2. CASE v = version + 1
    <3>1. version' # version
      BY <2>1, <2>2
    <3> QED BY <2>2, <3>1, RequestWrites
  <2>3. CASE v # version + 1
    <3>1. v \in 2 .. version
      BY <2>1, <2>3, RequestWrites
    <3>2. Logged
      BY AuditWrites DEF Inv, PasswordsAudited
    <3>3. CASE \E a \in audit : a.version = v
      BY <3>3, AuditWrites
    <3>4. ASSUME NEW q \in Requests, task[q].version = v
          PROVE  \/ \E a \in audit' : a.version = v
                 \/ \E p \in Requests : task'[p].version = v
      <4>1. CASE q # r
        BY <1>2, <3>4, <4>1
      <4>2. CASE q = r
        <5>1. At(r, "audit")
          BY <2>1, <3>4, <4>2, AccountsAssumption DEF Inv, TypeOK, At
        <5>2. RowOf(r) \in audit' /\ RowOf(r).version = v
          BY <3>4, <4>2, <5>1, AuditWrites DEF RowOf
        <5> QED BY <5>2
      <4> QED BY <4>1, <4>2
    <3> QED BY <3>1, <3>2, <3>3, <3>4 DEF Logged
  <2> QED BY <2>2, <2>3
<1> QED BY <1>4, <1>5

-------------------------------------------------------------------------------
(* Every step.                                                             *)

\* A session is opened with the role of its user's row; roles do not change.
LEMMA RequestKeepsSessions ==
    ASSUME Inv, NEW r \in Requests,
           \/ AcceptLogin(r) \/ AcceptChange(r) \/ AcceptReset(r) \/ AcceptCreate(r)
           \/ Step(r) \/ Drop(r)
    PROVE  sessions' \subseteq Session /\ SessionsMatchUsers'
<1>1. sessions \subseteq Session /\ Grows
  BY RequestWrites DEF Inv, TypeOK
<1>2. CASE FindAgain(r)
  <2>1. /\ task[r].name \in Names /\ users[task[r].name] # None
        /\ users[task[r].name] \in User
    BY <1>2, NameKnown DEF FindAgain, At, Inv, RowRead
  <2>2. sessions' = sessions \cup {[name |-> task[r].name,
                                    role |-> users[task[r].name].role]}
        /\ UNCHANGED users
    BY <1>2 DEF FindAgain
  <2>3. [name |-> task[r].name, role |-> users[task[r].name].role] \in Session
    BY <2>1 DEF Session, User
  <2> QED BY <1>1, <2>1, <2>2, <2>3 DEF Inv, SessionsMatchUsers
<1>3. CASE UNCHANGED sessions
  BY <1>1, <1>3 DEF Inv, SessionsMatchUsers, Grows, Session
<1> QED BY <1>2, <1>3
        DEF AcceptLogin, AcceptChange, AcceptReset, AcceptCreate, Arrive, Step, Drop,
            VerifyLogin, VerifyCurrent, ReadFails, UpdateOwn, UpdateOther, InsertUser,
            Audit, Fault

\* The tasks and bounds after the step of a request.
LEMMA RequestKeepsTasks ==
    ASSUME Inv, NEW r \in Requests,
           \/ AcceptLogin(r) \/ AcceptChange(r) \/ AcceptReset(r) \/ AcceptCreate(r)
           \/ Step(r) \/ Drop(r)
    PROVE  /\ task' \in [Requests -> Task] /\ \A q \in Requests : Fit(task'[q])
           /\ RowRead'
           /\ commands' \in 0 .. MaxCommands /\ faults' \in 0 .. MaxFaults
           /\ drops' \in 0 .. MaxDrops
<1>a. TypeOK /\ task \in [Requests -> Task] /\ \A q \in Requests : Fit(task[q])
  BY DEF Inv, TypeOK
<1>1. PICK t \in Task :
        /\ Fit(t)
        /\ task' = [task EXCEPT ![r] = t]
        /\ t.pc \in {"find_again", "update_own"} =>
             t.name = task[r].name /\ UNCHANGED users /\ users[t.name] # None
  BY TaskSteps, IdleFits DEF Idle
<1>2. task'[r] = t /\ \A q \in Requests : q # r => task'[q] = task[q]
  BY <1>a, <1>1
<1>3. RowRead'
  <2> SUFFICES ASSUME NEW q \in Requests, task'[q].pc \in {"find_again", "update_own"}
               PROVE  users'[task'[q].name] # None
    BY DEF RowRead
  <2>1. CASE q = r
    BY <1>1, <1>2, <2>1
  <2>2. CASE q # r
    <3>1. users[task[q].name] # None /\ task[q].name \in Names
      BY <1>a, <1>2, <2>2, NameKnown DEF Inv, RowRead
    <3> QED BY <1>2, <2>2, <3>1, RequestWrites DEF Grows
  <2> QED BY <2>1, <2>2
<1>4. /\ commands' \in 0 .. MaxCommands /\ faults' \in 0 .. MaxFaults
      /\ drops' \in 0 .. MaxDrops
  <2>1. UNCHANGED budget \/ Fault \/ Drop(r)
    BY StepShapes DEF Audit
  <2> QED BY <1>a, <2>1, AccountsAssumption DEF TypeOK, Fault, Drop, budget
<1> QED BY <1>a, <1>1, <1>2, <1>3, <1>4

LEMMA InitHolds == Init => Inv
<1> SUFFICES ASSUME Init PROVE Inv
  OBVIOUS
<1>1. PICK n \in Names, p \in Passwords :
        users = [m \in Names |->
                   IF m = n THEN [password |-> p, role |-> "admin", version |-> 1]
                   ELSE None]
  BY DEF Init
<1>2. /\ version = 1 /\ sessions = {} /\ audit = {}
      /\ task = [r \in Requests |-> Idle]
      /\ commands = 0 /\ faults = 0 /\ drops = 0
  BY DEF Init
<1>3. [password |-> p, role |-> "admin", version |-> 1] \in User
  BY AccountsAssumption DEF User, Roles, Versions
<1>4. users \in [Names -> User \cup {None}]
  BY <1>1, <1>3
<1>5. \A r \in Requests : task[r] \in Task /\ Fit(task[r]) /\ task[r].pc = "idle"
  BY <1>2, IdleFits DEF Idle
<1>6. TypeOK
  <2>1. task \in [Requests -> Task]
    BY <1>2, IdleFits
  <2>2. /\ version \in 0 .. MaxVersions /\ commands \in 0 .. MaxCommands
        /\ faults \in 0 .. MaxFaults /\ drops \in 0 .. MaxDrops
    BY <1>2, AccountsAssumption
  <2> QED BY <1>2, <1>4, <1>5, <2>1, <2>2 DEF TypeOK, Fit
<1>7. Known = {}
  BY <1>2, <1>5 DEF Known, At
<1>8. Numbered
  BY <1>1, <1>2 DEF Numbered
<1>9. SessionsMatchUsers /\ RowRead /\ KnownIsTrue
  BY <1>2, <1>5, <1>7 DEF SessionsMatchUsers, RowRead, KnownIsTrue
<1>10. PasswordsAudited
  BY <1>2 DEF PasswordsAudited, Logged
<1> QED BY <1>5, <1>6, <1>8, <1>9, <1>10 DEF Inv

LEMMA StepKeeps == Inv /\ [Next]_vars => Inv'
<1> SUFFICES ASSUME Inv, [Next]_vars PROVE Inv'
  OBVIOUS
<1>a. TypeOK
  BY DEF Inv
<1>1. ASSUME NEW r \in Requests,
             \/ AcceptLogin(r) \/ AcceptChange(r) \/ AcceptReset(r) \/ AcceptCreate(r)
             \/ Step(r) \/ Drop(r)
      PROVE  Inv'
  <2>1. audit' \subseteq AuditRow
    BY <1>1, AuditWrites, KnownTyped
  <2>2. TypeOK'
    BY <1>1, <2>1, RequestKeepsTasks, RequestKeepsSessions, RequestWrites DEF TypeOK, Fit
  <2> QED BY <1>1, <2>2, RequestKeepsTasks, RequestKeepsSessions, RequestKeepsLog,
             RequestWrites DEF Inv
<1>2. ASSUME SessionEnds PROVE Inv'
  <2>1. sessions' \subseteq sessions /\ UNCHANGED <<users, version, audit, task, budget>>
    BY <1>2 DEF SessionEnds
  <2>2. Known' = Known
    BY <2>1 DEF Known, RowOf, At
  <2>3. TypeOK'
    BY <1>a, <2>1 DEF TypeOK, budget
  <2> QED BY <2>1, <2>2, <2>3
          DEF Inv, RowRead, KnownIsTrue, Numbered, SessionsMatchUsers,
              PasswordsAudited, Logged, budget
<1>3. ASSUME Command PROVE Inv'
  <2>1. /\ users' \in [Names -> User \cup {None}] /\ version' \in 0 .. MaxVersions
        /\ Numbered' /\ Grows
    BY <1>3, CommandWrites
  <2>2. /\ UNCHANGED <<sessions, audit, task, faults, drops>>
        /\ commands' \in 1 .. MaxCommands
    BY <1>3, <1>a, AccountsAssumption DEF Command, TypeOK
  <2>3. TypeOK'
    BY <1>a, <2>1, <2>2 DEF TypeOK
  <2>4. Known' = Known
    BY <2>2 DEF Known, RowOf, At
  <2>5. KnownIsTrue'
    BY <2>1, <2>4, KnownKept, AccountsAssumption
  <2>6. SessionsMatchUsers'
    BY <1>a, <2>1, <2>2 DEF Inv, SessionsMatchUsers, Grows, TypeOK, Session
  <2>7. RowRead'
    <3> SUFFICES ASSUME NEW q \in Requests, task[q].pc \in {"find_again", "update_own"}
                 PROVE  users'[task[q].name] # None
      BY <2>2 DEF RowRead
    <3>1. users[task[q].name] # None /\ task[q].name \in Names
      BY <1>a, NameKnown DEF Inv, RowRead
    <3> QED BY <2>1, <3>1 DEF Grows
  <2>8. PasswordsAudited'
    BY <2>2 DEF PasswordsAudited
  <2> QED BY <2>1, <2>2, <2>3, <2>5, <2>6, <2>7, <2>8 DEF Inv
<1>4. CASE UNCHANGED vars
  <2>1. Known' = Known
    BY <1>4 DEF vars, Known, RowOf, At
  <2>2. TypeOK'
    BY <1>a, <1>4 DEF vars, budget, TypeOK
  <2> QED BY <1>4, <2>1, <2>2
          DEF vars, budget, Inv, RowRead, KnownIsTrue, Numbered, SessionsMatchUsers,
              PasswordsAudited, Logged
<1> QED BY <1>1, <1>2, <1>3, <1>4 DEF Next

\* The strengthening holds in every reachable state.
LEMMA InvariantHolds == Spec => []Inv
BY InitHolds, StepKeeps, PTL DEF Spec

\* Every reachable state is well typed, and a task carries exactly what its next
\* statement uses.
THEOREM TypeCorrect == Spec => []TypeOK
<1>1. Inv => TypeOK
  BY DEF Inv
<1> QED BY <1>1, InvariantHolds, PTL

\* A live session has the role of its user, though login looked it up only once
\* and nothing renews it.
THEOREM SessionsStayTrue == Spec => []SessionsMatchUsers
<1>1. Inv => SessionsMatchUsers
  BY DEF Inv
<1> QED BY <1>1, InvariantHolds, PTL

\* The rows of the audit log about users agree with the table and with each
\* other, whatever requests, commands and faults come between a statement and
\* its row.
THEOREM AuditStaysTrue == Spec => []AuditIsTrue
<1>1. Inv => AuditIsTrue
  BY DEF Inv, KnownIsTrue, Known, AuditIsTrue
<1> QED BY <1>1, InvariantHolds, PTL

\* Without commands, faults and drops, every password ever stored has its row or
\* a request about to write it.
THEOREM PasswordsStayAudited == Spec => []PasswordsAudited
<1>1. Inv => PasswordsAudited
  BY DEF Inv
<1> QED BY <1>1, InvariantHolds, PTL

\* Whatever interleaves, no step takes a user away or changes its role, and a
\* stored password is replaced by a newer one only: a request that verified an
\* old hash never brings it back.
THEOREM UsersOnlyGrow == Spec => [][Grows]_vars
<1>1. ASSUME Inv, Next
      PROVE  Grows
  <2>1. ASSUME UNCHANGED <<users, version>>
        PROVE  Grows
    <3>1. /\ version \in Nat /\ users \in [Names -> User \cup {None}]
          /\ \A n \in Names : users[n] # None => users[n].version \in Nat
      BY <1>1, AccountsAssumption DEF Inv, TypeOK, User, Versions
    <3> QED BY <2>1, <3>1 DEF Grows
  <2> QED BY <1>1, <2>1, RequestWrites, CommandWrites DEF Next, SessionEnds
<1>2. Inv /\ [Next]_vars => [Grows]_vars
  BY <1>1
<1> QED BY <1>2, InvariantHolds, PTL DEF Spec

-------------------------------------------------------------------------------
(* Requests come to an end.                                                *)

\* How many statements request r has before it at most.
StepsLeft(r) ==
    CASE task[r].pc = "verify_current" -> 3
      [] task[r].pc \in {"verify_login", "update_own", "update_other",
                         "insert_user"} -> 2
      [] task[r].pc \in {"find_again", "audit"} -> 1
      [] task[r].pc = "idle" -> 0

RequestAdvances(r) ==
    /\ Step(r) => StepsLeft(r)' < StepsLeft(r)
    /\ ~At(r, "idle") => StepsLeft(r)' <= StepsLeft(r)

\* Whatever the others do, and whichever statements fail, a login or a request
\* about a user repeats no statement: it is answered after three of its own.
THEOREM RequestsAdvance == Spec => [][\A r \in Requests : RequestAdvances(r)]_vars
<1> USE DEF At
<1>1. ASSUME Inv, Next, NEW r \in Requests
      PROVE  RequestAdvances(r)
  <2>a. task \in [Requests -> Task] /\ task[r].pc \in Labels
    BY <1>1 DEF Inv, TypeOK, Task
  <2>b. ASSUME task'[r] = Idle, task[r].pc # "idle"
        PROVE  RequestAdvances(r)
    <3>1. task'[r].pc = "idle"
      BY <2>b DEF Idle
    <3>2. StepsLeft(r)' = 0 /\ StepsLeft(r) \in Nat /\ StepsLeft(r) > 0
      BY <2>a, <2>b, <3>1 DEF StepsLeft, Labels
    <3> QED BY <3>2 DEF RequestAdvances
  <2>1. CASE Step(r)
    <3>0. task[r].pc # "idle"
      BY <2>1 DEF Step, VerifyLogin, FindAgain, VerifyCurrent, ReadFails, UpdateOwn,
         UpdateOther, InsertUser, Audit
    <3>1. CASE Reply(r)
      BY <2>a, <2>b, <3>0, <3>1 DEF Reply
    <3>2. ASSUME NEW action, GoAudit(r, action)
          PROVE  task'[r].pc = "audit"
      BY <2>a, <3>2 DEF GoAudit, Idle
    <3>3. CASE ~Reply(r)
      <4>1. \/ task[r].pc = "verify_login" /\ task'[r].pc = "find_again"
            \/ task[r].pc = "verify_current" /\ task'[r].pc = "update_own"
            \/ /\ task[r].pc \in {"update_own", "update_other", "insert_user"}
               /\ task'[r].pc = "audit"
        <5>1. CASE VerifyLogin(r) \/ VerifyCurrent(r)
          BY <2>a, <3>3, <5>1 DEF VerifyLogin, VerifyCurrent, Task
        <5>2. CASE UpdateOwn(r) \/ UpdateOther(r) \/ InsertUser(r)
          BY <3>2, <3>3, <5>2 DEF UpdateOwn, UpdateOther, InsertUser
        <5> QED BY <2>1, <3>3, <5>1, <5>2 DEF Step, FindAgain, ReadFails, Audit
      <4>2. /\ StepsLeft(r)' < StepsLeft(r)
            /\ StepsLeft(r)' \in Nat /\ StepsLeft(r) \in Nat
        BY <4>1 DEF StepsLeft
      <4> QED BY <4>2 DEF RequestAdvances
    <3> QED BY <3>1, <3>3
  <2>2. ASSUME task'[r] = task[r], ~Step(r)
        PROVE  RequestAdvances(r)
    <3>1. StepsLeft(r)' = StepsLeft(r) /\ StepsLeft(r) \in Nat
      BY <2>a, <2>2 DEF StepsLeft, Labels
    <3> QED BY <2>2, <3>1 DEF RequestAdvances
  <2>3. CASE Drop(r)
    BY <2>a, <2>b, <2>3 DEF Drop, Reply
  <2>4. ASSUME NEW q \in Requests, q # r,
               \/ AcceptLogin(q) \/ AcceptChange(q) \/ AcceptReset(q)
               \/ AcceptCreate(q) \/ Step(q) \/ Drop(q)
        PROVE  task'[r] = task[r]
    BY <1>1, <2>a, <2>4, TaskSteps
  <2>5. CASE AcceptLogin(r) \/ AcceptChange(r) \/ AcceptReset(r) \/ AcceptCreate(r)
    <3>1. At(r, "idle")
      BY <2>5 DEF AcceptLogin, AcceptChange, AcceptReset, AcceptCreate, Arrive
    <3> QED BY <2>1, <3>1 DEF RequestAdvances
  <2>6. CASE SessionEnds \/ Command
    BY <2>1, <2>2, <2>6 DEF SessionEnds, Command
  <2> QED BY <1>1, <2>1, <2>2, <2>3, <2>4, <2>5, <2>6 DEF Next
<1>2. Inv /\ [Next]_vars => [\A r \in Requests : RequestAdvances(r)]_vars
  BY <1>1
<1> QED BY <1>2, InvariantHolds, PTL DEF Spec
===================================================================================
