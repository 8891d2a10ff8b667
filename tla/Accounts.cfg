\* Two concurrent requests, a command, a failing statement, a drop.
CONSTANTS
    Requests = {r1, r2}
    Names = {u1, u2}
    Passwords = {p1, p2}
    None = None
    MaxVersions = 3
    MaxCommands = 1
    MaxFaults = 1
    MaxDrops = 1
SYMMETRY Symmetry
SPECIFICATION Spec
INVARIANTS
    TypeOK
    SessionsMatchUsers
    AuditIsTrue
    PasswordsAudited
CHECK_DEADLOCK FALSE
