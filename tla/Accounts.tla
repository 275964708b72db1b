------------------------------ MODULE Accounts ------------------------------
(***************************************************************************)
(* Accounts and their roles: registration and login of auth/handlers, the  *)
(* commands of cmd/user, the assignments and the audit log of              *)
(* rbac/repository.go, and the middleware that lets a request through.     *)
(* Requests and commands run concurrently; a step is at most one           *)
(* statement, and nothing spans two of them.                               *)
(*                                                                         *)
(* uuid.New() never returns an id twice: the one a process draws is named  *)
(* after the process.  A statement may fail, and one that writes may have  *)
(* been applied when it does.                                              *)
(***************************************************************************)
EXTENDS RoleHierarchy

CONSTANTS
    Procs,          \* requests, and runs of the user command
    Old,            \* ids of the accounts there are at first
    InitialUsers,   \* those accounts
    None,
    Malformed,      \* an argument uuid.Parse refuses
    Emails, Passwords,
    Accepted,       \* passwords the policy accepts
    Long,           \* passwords of eight bytes or more
    Defined,        \* rows of the table roles
    Superuser, Required,  \* what a guarded route asks for
    NoRowsIsSql,    \* a row that is missing is sql.ErrNoRows: not so with pgx
    Calls           \* what the processes are for

Ids == Old \cup Procs

Account == [email : Emails, password : Passwords]

Kinds == {"register", "login", "create", "resetByID", "resetByEmail",
          "promote", "demote", "request"}

Call == [kind : Kinds, email : Emails, password : Passwords, id : Ids \cup {Malformed},
         role : Roles]

ASSUME AccountsAssumption ==
    /\ Hierarchy \in [Roles -> SUBSET Roles]
    /\ Old \cap Procs = {}
    /\ Malformed \notin Ids /\ None \notin Ids /\ None \notin Account
    /\ InitialUsers \in [Old -> Account]
    /\ \A i, j \in Old : InitialUsers[i].email = InitialUsers[j].email => i = j
    /\ Defined \subseteq Roles /\ Required \subseteq Roles
    /\ Calls \subseteq Call /\ NoRowsIsSql \in BOOLEAN

VARIABLES
    users,      \* the table users: email and bcrypt hash of every id
    holds,      \* the table user_roles
    access,     \* ids an access token was issued for
    call,       \* what each process is for
    pc,         \* where it is
    target,     \* the account it works on
    got,        \* the roles read for it
    audit,      \* the row it left in rbac_audit_log
    answer,     \* what it was told in the end
    changed,    \* it changed users or user_roles
    broke,      \* a statement of it failed
    accountsSeen,  \* what was in users, and in user_roles, while it ran
    rolesSeen

vars == <<users, holds, access, call, pc, target, got, audit, answer, changed, broke,
          accountsSeen, rolesSeen>>

Exists(i) == i \in Ids /\ users[i] # None
Accounts == {<<users[i].email, users[i].password>> : i \in {j \in Ids : Exists(j)}}

Init ==
    /\ users = [i \in Ids |-> IF i \in Old THEN InitialUsers[i] ELSE None]
    /\ holds = {}
    /\ access = Old
    /\ call \in [Procs -> Calls]
    /\ pc = [p \in Procs |-> "start"]
    /\ target = [p \in Procs |-> None]
    /\ got = [p \in Procs |-> {}]
    /\ audit = [p \in Procs |-> "none"]
    /\ answer = [p \in Procs |-> "none"]
    /\ changed = [p \in Procs |-> FALSE]
    /\ broke = [p \in Procs |-> FALSE]
    /\ accountsSeen = [p \in Procs |-> {}]
    /\ rolesSeen = [p \in Procs |-> {}]
-----------------------------------------------------------------------------
Goto(p, place) ==
    /\ pc' = [pc EXCEPT ![p] = place]
    /\ UNCHANGED <<answer, broke>>

End(p, told) ==
    /\ pc' = [pc EXCEPT ![p] = "done"]
    /\ answer' = [answer EXCEPT ![p] = told]
    /\ UNCHANGED broke

\* A statement of p failed.
Fail(p, place, told) ==
    /\ pc' = [pc EXCEPT ![p] = place]
    /\ answer' = [answer EXCEPT ![p] = told]
    /\ broke' = [broke EXCEPT ![p] = TRUE]

Starts(p, kinds) == pc[p] = "start" /\ call[p].kind \in kinds

Changes(p, yes) == changed' = [changed EXCEPT ![p] = @ \/ yes]

HasEmail(email) == \E i \in Ids : Exists(i) /\ users[i].email = email

tables == <<users, holds, changed>>
locals == <<call, target, got, audit>>

\* The password first, so that a weak one is refused the same way whether or
\* not the address is taken; then checkEmailExists.
Register(p) ==
    /\ Starts(p, {"register"})
    /\ \/ call[p].password \notin Accepted /\ End(p, "weak")
       \/ /\ call[p].password \in Accepted
          /\ \/ HasEmail(call[p].email) /\ End(p, "taken")
             \/ ~HasEmail(call[p].email) /\ Goto(p, "insert")
             \/ Fail(p, "done", "failed")
    /\ UNCHANGED <<tables, locals, access>>

\* user create: the confirmation and the length only.
Create(p) ==
    /\ Starts(p, {"create"})
    /\ \/ call[p].password \notin Long /\ End(p, "weak")
       \/ call[p].password \in Long /\ Goto(p, "insert")
    /\ UNCHANGED <<tables, locals, access>>

Stored(p) == users' = [users EXCEPT ![p] =
                [email |-> call[p].email, password |-> call[p].password]]

\* Mutant of Insert: no index on the e-mail.
BugNoIndex(p) ==
    /\ pc[p] = "insert"
    /\ Stored(p) /\ Changes(p, TRUE) /\ target' = [target EXCEPT ![p] = p]
    /\ IF call[p].kind = "register" THEN Goto(p, "issue") ELSE End(p, "created")
    /\ UNCHANGED <<holds, access, call, got, audit>>

\* The unique index on the e-mail decides.  The handler answers a duplicate as
\* the check would have; the command prints the error.
Insert(p) ==
    /\ pc[p] = "insert"
    /\ \/ /\ HasEmail(call[p].email)
          /\ IF call[p].kind = "register" THEN End(p, "taken") ELSE Fail(p, "done", "failed")
          /\ UNCHANGED <<tables, target>>
       \/ /\ ~HasEmail(call[p].email)
          /\ Stored(p) /\ Changes(p, TRUE) /\ target' = [target EXCEPT ![p] = p]
          /\ \/ call[p].kind = "register" /\ Goto(p, "issue")
             \/ call[p].kind = "create" /\ End(p, "created")
             \/ Fail(p, "done", "failed")
          /\ UNCHANGED holds
       \/ Fail(p, "done", "failed") /\ UNCHANGED <<tables, target>>
    /\ UNCHANGED <<access, call, got, audit>>

\* getUserByEmail and CheckPassword: what follows decides on the row read here.
Login(p) ==
    /\ Starts(p, {"login"})
    /\ \/ \E i \in Ids : /\ Exists(i) /\ users[i].email = call[p].email
                         /\ users[i].password = call[p].password
                         /\ target' = [target EXCEPT ![p] = i]
                         /\ Goto(p, "issue")
       \/ /\ <<call[p].email, call[p].password>> \notin Accounts
          /\ End(p, "unauthorized") /\ UNCHANGED target
       \/ Fail(p, "done", "failed") /\ UNCHANGED target
    /\ UNCHANGED <<tables, call, got, audit, access>>

\* The tokens: Issue's row refers to the account, which may be gone.
Issue(p) ==
    /\ pc[p] = "issue"
    /\ \/ /\ Exists(target[p])
          /\ access' = access \cup {target[p]}
          /\ End(p, IF call[p].kind = "register" THEN "created" ELSE "session")
       \/ Fail(p, "done", "failed") /\ UNCHANGED access
    /\ UNCHANGED <<tables, locals>>
-----------------------------------------------------------------------------
\* user password: an id is taken as it is, an e-mail looked up.
FindAccount(p) ==
    /\ Starts(p, {"resetByID", "resetByEmail"})
    /\ \/ /\ call[p].kind = "resetByID"
          /\ target' = [target EXCEPT ![p] = call[p].id]
          /\ Goto(p, "update")
       \/ /\ call[p].kind = "resetByEmail"
          /\ \/ \E i \in Ids : /\ Exists(i) /\ users[i].email = call[p].email
                               /\ target' = [target EXCEPT ![p] = i]
                               /\ Goto(p, "update")
             \/ ~HasEmail(call[p].email) /\ End(p, "notFound") /\ UNCHANGED target
             \/ Fail(p, "done", "notFound") /\ UNCHANGED target
    /\ UNCHANGED <<tables, call, got, audit, access>>

\* Mutant of NewPassword: no WHERE.
BugEveryPassword(p) ==
    users' = [i \in Ids |-> IF Exists(i) THEN [users[i] EXCEPT !.password = call[p].password]
                                        ELSE None]

NewPassword(p) == users' = [users EXCEPT ![target[p]].password = call[p].password]

\* After the prompts.  No row affected is an account that is not there.
Update(p) ==
    /\ pc[p] = "update"
    /\ \/ call[p].password \notin Long /\ End(p, "weak") /\ UNCHANGED tables
       \/ /\ call[p].password \in Long
          /\ \/ /\ Exists(target[p]) /\ NewPassword(p) /\ Changes(p, TRUE)
                /\ End(p, "done") \/ Fail(p, "done", "failed")
                /\ UNCHANGED holds
             \/ ~Exists(target[p]) /\ End(p, "notFound") /\ UNCHANGED tables
             \/ Fail(p, "done", "failed") /\ UNCHANGED tables
    /\ UNCHANGED <<locals, access>>
-----------------------------------------------------------------------------
\* AssignRole and RemoveRole: the id is parsed and the role's row looked up.
\* Only an error that is sql.ErrNoRows itself is a missing role.
FindRole(p) ==
    /\ Starts(p, {"promote", "demote"})
    /\ \/ call[p].id = Malformed /\ End(p, "failed")
       \/ /\ call[p].id # Malformed
          /\ \/ call[p].role \in Defined /\ Goto(p, "change")
             \/ /\ call[p].role \notin Defined
                /\ IF NoRowsIsSql THEN Goto(p, "logFailure") ELSE End(p, "failed")
             \/ Fail(p, "done", "failed")
    /\ UNCHANGED <<tables, locals, access>>

Pair(p) == <<call[p].id, call[p].role>>

\* INSERT ... ON CONFLICT DO NOTHING.  Nothing asks whether the account exists.
Assign(p) ==
    /\ pc[p] = "change" /\ call[p].kind = "promote"
    /\ \/ /\ holds' = holds \cup {Pair(p)}
          /\ Changes(p, Pair(p) \notin holds)
          /\ Goto(p, "logSuccess") \/ Fail(p, "logFailure", "none")
          /\ UNCHANGED users
       \/ Fail(p, "logFailure", "none") /\ UNCHANGED tables
    /\ UNCHANGED <<locals, access>>

\* The rows affected tell whether the role was there.
Remove(p) ==
    /\ pc[p] = "change" /\ call[p].kind = "demote"
    /\ \/ /\ Pair(p) \in holds
          /\ holds' = holds \ {Pair(p)} /\ Changes(p, TRUE)
          /\ Goto(p, "logSuccess") \/ Fail(p, "logFailure", "none")
          /\ UNCHANGED users
       \/ Pair(p) \notin holds /\ Goto(p, "logFailure") /\ UNCHANGED tables
       \/ Fail(p, "logFailure", "none") /\ UNCHANGED tables
    /\ UNCHANGED <<locals, access>>

\* Mutant of LogSuccess: its error is dropped, as in LogFailure.
BugDropError(p) ==
    /\ pc[p] = "logSuccess"
    /\ \E row \in {"none", "success"} : audit' = [audit EXCEPT ![p] = row]
    /\ End(p, "done")
    /\ UNCHANGED <<tables, call, target, got, access>>

\* logAudit after the change: its error is the answer.
LogSuccess(p) ==
    /\ pc[p] = "logSuccess"
    /\ \/ audit' = [audit EXCEPT ![p] = "success"] /\ End(p, "done")
       \/ /\ \E row \in {"none", "success"} : audit' = [audit EXCEPT ![p] = row]
          /\ Fail(p, "done", "failed")
    /\ UNCHANGED <<tables, call, target, got, access>>

\* logAudit after an error: its own is dropped.
LogFailure(p) ==
    /\ pc[p] = "logFailure"
    /\ \/ audit' = [audit EXCEPT ![p] = "failure"] /\ End(p, "failed")
       \/ UNCHANGED audit /\ Fail(p, "done", "failed")
    /\ UNCHANGED <<tables, call, target, got, access>>
-----------------------------------------------------------------------------
\* Mutant of RolesOf: from a cache that nobody clears.
BugCachedRoles(i) == {r \in Roles : \E q \in Procs : <<i, r>> \in rolesSeen[q]}

RolesOf(i) == {r \in Roles : <<i, r>> \in holds}

\* There may be no token, or one that has expired.  AuthMiddleware answers an
\* error of the lookup; OptionalAuthMiddleware and RoleLoader go on, without
\* the roles they could not read.
Authenticate(p) ==
    /\ Starts(p, {"request"})
    /\ \/ End(p, "unauthorized") /\ UNCHANGED got
       \/ /\ call[p].id \in access
          /\ \/ got' = [got EXCEPT ![p] = RolesOf(call[p].id)] /\ Goto(p, "guard")
             \/ Fail(p, "done", "failed") /\ UNCHANGED got
             \/ /\ \E roles \in SUBSET RolesOf(call[p].id) : got' = [got EXCEPT ![p] = roles]
                /\ Fail(p, "guard", "none")
    /\ UNCHANGED <<tables, call, target, audit, access>>

\* RequireAnyRole.
Passes(roles) == roles # {} /\ (Superuser \in roles \/ HasAnyRole(roles, Required))

Guard(p) ==
    /\ pc[p] = "guard"
    /\ End(p, IF Passes(got[p]) THEN "admitted" ELSE "forbidden")
    /\ UNCHANGED <<tables, locals, access>>
-----------------------------------------------------------------------------
Step(p) ==
    \/ Register(p) \/ Create(p) \/ Insert(p) \/ Login(p) \/ Issue(p)
    \/ FindAccount(p) \/ Update(p)
    \/ FindRole(p) \/ Assign(p) \/ Remove(p) \/ LogSuccess(p) \/ LogFailure(p)
    \/ Authenticate(p) \/ Guard(p)

\* The application's CRUD resource deletes an account; user_roles does not
\* refer to users, so the roles stay.
Delete(i) ==
    /\ Exists(i)
    /\ users' = [users EXCEPT ![i] = None]
    /\ UNCHANGED <<holds, access, call, pc, target, got, audit, answer, changed, broke>>

\* What the tables held at some time while a process ran.
Witness ==
    /\ accountsSeen' = [p \in Procs |-> IF pc[p] = "done" \/ pc'[p] = "start"
                            THEN accountsSeen[p] ELSE accountsSeen[p] \cup Accounts \cup Accounts']
    /\ rolesSeen' = [p \in Procs |-> IF pc[p] = "done" \/ pc'[p] = "start"
                            THEN rolesSeen[p] ELSE rolesSeen[p] \cup holds \cup holds']

Next ==
    /\ (\E p \in Procs : Step(p)) \/ (\E i \in Ids : Delete(i))
    /\ Witness

Spec == Init /\ [][Next]_vars
-----------------------------------------------------------------------------
(* Properties.                                                             *)

Places == {"start", "insert", "issue", "update", "change", "logSuccess", "logFailure",
           "guard", "done"}

Answers == {"none", "weak", "taken", "failed", "created", "session", "unauthorized",
            "notFound", "done", "admitted", "forbidden"}

TypeOK ==
    /\ users \in [Ids -> Account \cup {None}]
    /\ holds \subseteq (Ids \X Roles)
    /\ access \subseteq Ids
    /\ call \in [Procs -> Calls]
    /\ pc \in [Procs -> Places]
    /\ target \in [Procs -> Ids \cup {Malformed, None}]
    /\ got \in [Procs -> SUBSET Roles]
    /\ audit \in [Procs -> {"none", "success", "failure"}]
    /\ answer \in [Procs -> Answers]
    /\ changed \in [Procs -> BOOLEAN] /\ broke \in [Procs -> BOOLEAN]
    /\ accountsSeen \in [Procs -> SUBSET (Emails \X Passwords)]
    /\ rolesSeen \in [Procs -> SUBSET (Ids \X Roles)]

Told(p, told) == answer[p] = told

\* However registrations and commands interleave, two that were told that they
\* created an account for one address did not both: the check of the address
\* and the INSERT are two statements.
RegisteredOnce ==
    \A p, q \in Procs :
        /\ Told(p, "created") /\ Told(q, "created")
        /\ call[p].email = call[q].email
        /\ Exists(p) /\ Exists(q)
        => p = q

\* A registration cannot be told apart by whom it lost against: "taken" means
\* that somebody had the address while it ran, and an error that a statement
\* failed, never that another registration was faster.  Nothing of a refused
\* registration stays.
RefusalsExplained ==
    \A p \in Procs : call[p].kind = "register" =>
        /\ Told(p, "failed") => broke[p]
        /\ Told(p, "taken") => /\ ~changed[p]
                               /\ \E w \in Passwords : <<call[p].email, w>> \in accountsSeen[p]
        /\ Told(p, "weak") => ~changed[p]

\* What is told of registrations can be relied on, by whoever succeeded and by
\* whoever did not: the two statements of handleRegister and the unique index.
RegistrationsExplained == RegisteredOnce /\ RefusalsExplained

\* Every password in the table was put there by a process for that account
\* and was one its rules accept; a registration that fails after its INSERT
\* leaves an account its password opens.
PasswordsAccountedFor ==
    \A i \in Ids : Exists(i) =>
        \/ i \in Old /\ users[i] = InitialUsers[i]
        \/ \E p \in Procs :
              /\ changed[p] /\ target[p] = i
              /\ users[i].password = call[p].password
              /\ call[p].password \in IF call[p].kind = "register" THEN Accepted ELSE Long
              /\ call[p].kind \in {"register", "create"} => p = i

\* Whoever is given a session knew a password the account had while the login
\* ran, though it may have been changed by the time the session is issued.
LoginProvesPassword ==
    \A p \in Procs :
        Told(p, "session") => <<call[p].email, call[p].password>> \in accountsSeen[p]

\* A request that a guard lets through held roles that satisfy it while it
\* ran: roles taken away before it began do not help it.
AdmittedHeldRole ==
    \A p \in Procs :
        Told(p, "admitted") =>
            \E roles \in SUBSET {r \in Roles : <<call[p].id, r>> \in rolesSeen[p]} : Passes(roles)

\* Nobody gets in who had neither the password nor the roles while it asked:
\* handleLogin, RoleLoader and RequireAnyRole act on rows they read before.
AccessEarned == LoginProvesPassword /\ AdmittedHeldRole

\* A change of roles is in the log, or whoever made it was told of an error,
\* or is still at it.
Reported(p) == pc[p] = "done" => audit[p] = "success" \/ Told(p, "failed")

\* Every role somebody holds was assigned, and every assigned role nobody
\* holds any more removed, by a command that is reported.
ChangesExplained ==
    /\ \A pair \in holds :
          \E p \in Procs : /\ call[p].kind = "promote" /\ Pair(p) = pair
                           /\ changed[p] /\ Reported(p)
    /\ \A p \in Procs : call[p].kind = "promote" /\ changed[p] /\ Pair(p) \notin holds =>
          \E q \in Procs : /\ call[q].kind = "demote" /\ Pair(q) = Pair(p)
                           /\ changed[q] /\ Reported(q)

\* The log does not lie: a success is an assignment that stood, or a removal
\* that took place, while the command ran; a failure changed nothing, unless
\* the statement reported an error after it was applied.
AuditTellsTheTruth ==
    \A p \in Procs :
        /\ audit[p] = "success" => IF call[p].kind = "promote" THEN Pair(p) \in rolesSeen[p]
                                                              ELSE changed[p]
        /\ audit[p] = "failure" => broke[p] \/ ~changed[p]

\* The table user_roles and the log of AssignRole and RemoveRole account for
\* each other, although a change and its row are two statements.
RoleChangesLogged == ChangesExplained /\ AuditTellsTheTruth

\* CLI.md of cmd/user: "Every `promote` and `demote` is written to
\* `rbac_audit_log`", of which only those are asked here that name a user and
\* whose statements all succeed.
EveryPromotionAudited ==
    \A p \in Procs :
        /\ pc[p] = "done" /\ call[p].kind \in {"promote", "demote"}
        /\ call[p].id # Malformed /\ ~broke[p]
        => audit[p] # "none"
=============================================================================
