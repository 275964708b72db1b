CONSTANTS
    Procs = {p1, p2, p3}
    p1 = p1
    p2 = p2
    p3 = p3
    Old = {u1}
    u1 = u1
    InitialUsers <- MCInitialUsers
    None = None
    Malformed = Malformed
    Emails = {"e1", "e2"}
    Passwords = {"pw", "secret", "long secret"}
    Accepted = {"long secret"}
    Long = {"secret", "long secret"}
    Roles = {"admin", "editor", "reader", "ghost"}
    Hierarchy <- MCHierarchy
    Defined = {"admin", "editor", "reader"}
    Superuser = "admin"
    Required = {"reader"}
    NoRowsIsSql = TRUE
    Calls <- MCCalls
SYMMETRY Symmetry
SPECIFICATION Spec
INVARIANTS RegistrationsExplained PasswordsAccountedFor AccessEarned RoleChangesLogged
\* Every process may be done.
CHECK_DEADLOCK FALSE
