--------------------------- MODULE AccountsProofs ---------------------------
(***************************************************************************)
(* The invariants of Accounts, for any number of processes, accounts,      *)
(* roles and passwords, and whatever the processes are for.                *)
(*                                                                         *)
(* Most of the argument is local to a process: what it knows at each place *)
(* (Local), from its own row of every variable and from what it has seen   *)
(* of the tables, which only grows.  The tables themselves need that no    *)
(* two accounts share an address (UniqueEmails) and that an account a      *)
(* process made carries the address it was asked for (Own).                *)
(***************************************************************************)
EXTENDS Accounts, TLAPS

LEMMA NoneIsNoAccount == None \notin Account /\ None \notin Ids /\ Old \cap Procs = {}
BY AccountsAssumption

LEMMA Words ==
    /\ {"start", "insert", "issue", "update", "change", "logSuccess", "logFailure", "guard",
        "done"} \subseteq Places
    /\ {"none", "weak", "taken", "failed", "created", "session", "unauthorized",
        "notFound", "done", "admitted", "forbidden"} \subseteq Answers
BY DEF Places, Answers

LEMMA InitTypes == Init => TypeOK
<1> SUFFICES ASSUME Init PROVE TypeOK
  OBVIOUS
<1> USE DEF Init, TypeOK
<1>1. users \in [Ids -> Account \cup {None}]
  BY AccountsAssumption DEF Ids
<1>2. access \subseteq Ids
  BY DEF Ids
<1> QED
  BY <1>1, <1>2, Words

\* The parts of TypeOK that Witness is about.
LEMMA WitnessTypes ==
    ASSUME TypeOK, users' \in [Ids -> Account \cup {None}], holds' \subseteq (Ids \X Roles),
           Witness
    PROVE  /\ accountsSeen' \in [Procs -> SUBSET (Emails \X Passwords)]
           /\ rolesSeen' \in [Procs -> SUBSET (Ids \X Roles)]
<1>1. Accounts \subseteq Emails \X Passwords
  BY NoneIsNoAccount DEF Accounts, Exists, TypeOK, Account
<1>2. Accounts' \subseteq Emails \X Passwords
  BY NoneIsNoAccount DEF Accounts, Exists, Account
<1> QED
  BY <1>1, <1>2 DEF Witness, TypeOK

LEMMA CallTypes ==
    ASSUME TypeOK, NEW p \in Procs
    PROVE  /\ call[p].kind \in Kinds /\ call[p].email \in Emails
           /\ call[p].password \in Passwords
           /\ call[p].id \in Ids \cup {Malformed} /\ call[p].role \in Roles
BY AccountsAssumption DEF TypeOK, Call

LEMMA AccountFields ==
    ASSUME TypeOK, NEW i \in Ids, Exists(i)
    PROVE  users[i] \in Account
BY DEF TypeOK, Exists


\* The variables Goto, End and Fail set.
Control == pc \in [Procs -> Places] /\ answer \in [Procs -> Answers] /\ broke \in [Procs -> BOOLEAN]

LEMMA GotoTypes ==
    ASSUME TypeOK, NEW p \in Procs, NEW place \in Places, Goto(p, place)
    PROVE  Control'
BY DEF TypeOK, Goto, Control

LEMMA EndTypes ==
    ASSUME TypeOK, NEW p \in Procs, NEW told \in Answers, End(p, told)
    PROVE  Control'
BY DEF TypeOK, End, Control, Places

LEMMA FailTypes ==
    ASSUME TypeOK, NEW p \in Procs, NEW place \in Places, NEW told \in Answers,
           Fail(p, place, told)
    PROVE  Control'
BY DEF TypeOK, Fail, Control

\* A step of a process sets control variables to what they may be ...
LEMMA StepControl ==
    ASSUME TypeOK, NEW p \in Procs, Step(p)
    PROVE  Control'
<1> USE GotoTypes, EndTypes, FailTypes, Words
<1>1. CASE Register(p)
  BY <1>1 DEF Register
<1>2. CASE Create(p)
  BY <1>2 DEF Create
<1>3. CASE Insert(p)
  BY <1>3 DEF Insert
<1>4. CASE Login(p)
  BY <1>4 DEF Login
<1>5. CASE Issue(p)
  BY <1>5 DEF Issue
<1>6. CASE FindAccount(p)
  BY <1>6 DEF FindAccount
<1>7. CASE Update(p)
  BY <1>7 DEF Update
<1>8. CASE FindRole(p)
  BY <1>8 DEF FindRole
<1>9. CASE Assign(p)
  BY <1>9 DEF Assign
<1>10. CASE Remove(p)
  BY <1>10 DEF Remove
<1>11. CASE LogSuccess(p)
  BY <1>11 DEF LogSuccess
<1>12. CASE LogFailure(p)
  BY <1>12 DEF LogFailure
<1>13. CASE Authenticate(p)
  BY <1>13 DEF Authenticate
<1>14. CASE Guard(p)
  BY <1>14 DEF Guard
<1> QED
  BY <1>1, <1>2, <1>3, <1>4, <1>5, <1>6, <1>7, <1>8, <1>9, <1>10, <1>11, <1>12, <1>13, <1>14
  DEF Step

\* ... and so it does with everything else.
Data ==
    /\ users \in [Ids -> Account \cup {None}]
    /\ holds \subseteq (Ids \X Roles)
    /\ access \subseteq Ids
    /\ call \in [Procs -> Calls]
    /\ target \in [Procs -> Ids \cup {Malformed, None}]
    /\ got \in [Procs -> SUBSET Roles]
    /\ audit \in [Procs -> {"none", "success", "failure"}]
    /\ changed \in [Procs -> BOOLEAN]

LEMMA StepData ==
    ASSUME TypeOK, NEW p \in Procs, Step(p), pc[p] = "change" => call[p].id \in Ids
    PROVE  Data'
<1> USE CallTypes DEF TypeOK, Data, tables, locals
<1>1. CASE Register(p)
  BY <1>1 DEF Register
<1>2. CASE Create(p)
  BY <1>2 DEF Create
<1>3. CASE Insert(p)
  <2>1. CASE Stored(p)
    <3>1. p \in Ids /\ [email |-> call[p].email, password |-> call[p].password] \in Account
      BY DEF Ids, Account
    <3>2. users' \in [Ids -> Account \cup {None}]
      BY <2>1, <3>1 DEF Stored
    <3> QED
      BY <1>3, <3>1, <3>2 DEF Insert, Changes
  <2> QED
    BY <1>3, <2>1 DEF Insert
<1>4. CASE Login(p)
  BY <1>4 DEF Login
<1>5. CASE Issue(p)
  BY <1>5 DEF Issue, Exists
<1>6. CASE FindAccount(p)
  BY <1>6 DEF FindAccount
<1>7. CASE Update(p)
  <2>1. CASE Exists(target[p]) /\ NewPassword(p)
    <3>1. users[target[p]] \in Account
      BY <2>1, AccountFields DEF Exists
    <3>2. users' \in [Ids -> Account \cup {None}]
      BY <2>1, <3>1 DEF NewPassword, Account
    <3> QED
      BY <1>7, <3>2 DEF Update, Changes
  <2> QED
    BY <1>7, <2>1 DEF Update
<1>8. CASE FindRole(p)
  BY <1>8 DEF FindRole
<1>9. CASE Assign(p)
  <2>1. CASE holds' = holds \cup {Pair(p)}
    <3>1. call[p].id \in Ids /\ call[p].role \in Roles
      BY <1>9 DEF Assign
    <3>2. Pair(p) \in Ids \X Roles
      BY <3>1 DEF Pair
    <3> QED
      BY <1>9, <2>1, <3>2 DEF Assign, Changes
  <2> QED
    BY <1>9, <2>1 DEF Assign
<1>10. CASE Remove(p)
  BY <1>10 DEF Remove, Changes
<1>11. CASE LogSuccess(p)
  BY <1>11 DEF LogSuccess
<1>12. CASE LogFailure(p)
  BY <1>12 DEF LogFailure
<1>13. CASE Authenticate(p)
  BY <1>13 DEF Authenticate, RolesOf
<1>14. CASE Guard(p)
  BY <1>14 DEF Guard
<1> QED
  BY <1>1, <1>2, <1>3, <1>4, <1>5, <1>6, <1>7, <1>8, <1>9, <1>10, <1>11, <1>12, <1>13, <1>14
  DEF Step

-----------------------------------------------------------------------------
(* What a process knows                                                    *)

\* Where a process may be, given what it is for, and what it has done there.
Placed(p) ==
    /\ pc[p] = "insert" => call[p].kind \in {"register", "create"}
    /\ pc[p] = "issue" => call[p].kind \in {"register", "login"}
    /\ pc[p] = "update" => call[p].kind \in {"resetByID", "resetByEmail"}
    /\ pc[p] \in {"change", "logSuccess", "logFailure"} =>
          call[p].kind \in {"promote", "demote"} /\ call[p].id \in Ids
    /\ pc[p] = "guard" => call[p].kind = "request"
    /\ pc[p] \in {"start", "insert", "update", "change"} => ~changed[p]
    /\ pc[p] # "done" => answer[p] = "none" /\ audit[p] = "none"
    /\ pc[p] = "insert" =>
          call[p].password \in IF call[p].kind = "register" THEN Accepted ELSE Long

\* Refusals of a registration.
Refused(p) ==
    call[p].kind = "register" =>
        /\ Told(p, "failed") => broke[p]
        /\ Told(p, "taken") => /\ ~changed[p]
                               /\ \E w \in Passwords : <<call[p].email, w>> \in accountsSeen[p]
        /\ Told(p, "weak") => ~changed[p]

\* A login that has read its row, and one that has answered.
Proved(p) ==
    /\ (pc[p] = "issue" /\ call[p].kind = "login") \/ Told(p, "session") =>
          <<call[p].email, call[p].password>> \in accountsSeen[p]

\* A request that has read its roles, and one that was let through.
SeenRoles(p) == {r \in Roles : <<call[p].id, r>> \in rolesSeen[p]}

Entitled(p) ==
    /\ pc[p] = "guard" => got[p] \subseteq SeenRoles(p)
    /\ Told(p, "admitted") => \E roles \in SUBSET SeenRoles(p) : Passes(roles)

\* A change of roles and its row in the log.
Audited(p) ==
    /\ changed[p] /\ call[p].kind \in {"promote", "demote"} => Reported(p)
    /\ pc[p] = "logSuccess" \/ audit[p] = "success" =>
          IF call[p].kind = "promote" THEN Pair(p) \in rolesSeen[p] ELSE changed[p]
    /\ pc[p] = "logFailure" \/ audit[p] = "failure" => broke[p] \/ ~changed[p]

Local(p) == Placed(p) /\ Refused(p) /\ Proved(p) /\ Entitled(p) /\ Audited(p)

\* A step of one process leaves the rows of the others alone.
LEMMA Frame ==
    ASSUME TypeOK, NEW p \in Procs, NEW q \in Procs, p # q, Step(p)
    PROVE  /\ pc'[q] = pc[q] /\ target'[q] = target[q] /\ got'[q] = got[q]
           /\ audit'[q] = audit[q] /\ answer'[q] = answer[q]
           /\ changed'[q] = changed[q] /\ broke'[q] = broke[q]
<1> USE DEF TypeOK, tables, locals
<1>1. \A place : Goto(p, place) => pc'[q] = pc[q] /\ answer'[q] = answer[q] /\ broke'[q] = broke[q]
  BY DEF Goto
<1>2. \A told : End(p, told) => pc'[q] = pc[q] /\ answer'[q] = answer[q] /\ broke'[q] = broke[q]
  BY DEF End
<1>3. \A place, told : Fail(p, place, told) =>
        pc'[q] = pc[q] /\ answer'[q] = answer[q] /\ broke'[q] = broke[q]
  BY DEF Fail
<1>4. CASE Register(p) \/ Create(p)
  BY <1>1, <1>2, <1>3, <1>4 DEF Register, Create
<1>5. CASE Insert(p)
  BY <1>1, <1>2, <1>3, <1>5 DEF Insert, Changes
<1>6. CASE Login(p) \/ Issue(p)
  BY <1>1, <1>2, <1>3, <1>6 DEF Login, Issue
<1>7. CASE FindAccount(p) \/ Update(p)
  BY <1>1, <1>2, <1>3, <1>7 DEF FindAccount, Update, Changes
<1>8. CASE FindRole(p) \/ Assign(p) \/ Remove(p)
  BY <1>1, <1>2, <1>3, <1>8 DEF FindRole, Assign, Remove, Changes
<1>9. CASE LogSuccess(p) \/ LogFailure(p)
  BY <1>1, <1>2, <1>3, <1>9 DEF LogSuccess, LogFailure
<1>10. CASE Authenticate(p) \/ Guard(p)
  BY <1>1, <1>2, <1>3, <1>10 DEF Authenticate, Guard
<1> QED
  BY <1>4, <1>5, <1>6, <1>7, <1>8, <1>9, <1>10 DEF Step

LEMMA SameCall == ASSUME NEW p, Step(p) PROVE call' = call
BY DEF Step, Register, Create, Insert, Login, Issue, FindAccount, Update, FindRole, Assign,
       Remove, LogSuccess, LogFailure, Authenticate, Guard, tables, locals

\* What was seen is never forgotten ...
LEMMA SeenGrows ==
    ASSUME TypeOK, Witness, NEW p \in Procs
    PROVE  accountsSeen[p] \subseteq accountsSeen'[p] /\ rolesSeen[p] \subseteq rolesSeen'[p]
BY DEF TypeOK, Witness

\* ... and a step of the process sees the tables before and after it.
LEMMA StepSees ==
    ASSUME TypeOK, Witness, NEW p \in Procs, pc[p] # "done", pc'[p] # "start"
    PROVE  /\ Accounts \subseteq accountsSeen'[p] /\ Accounts' \subseteq accountsSeen'[p]
           /\ holds \subseteq rolesSeen'[p] /\ holds' \subseteq rolesSeen'[p]
BY DEF TypeOK, Witness

\* A process that does nothing keeps what it knows.
LEMMA LocalStutters ==
    ASSUME TypeOK, Witness, call' = call, NEW q \in Procs, Local(q),
           pc'[q] = pc[q], target'[q] = target[q], got'[q] = got[q],
           audit'[q] = audit[q], answer'[q] = answer[q],
           changed'[q] = changed[q], broke'[q] = broke[q]
    PROVE  Local(q)'
<1>1. accountsSeen[q] \subseteq accountsSeen'[q] /\ rolesSeen[q] \subseteq rolesSeen'[q]
  BY SeenGrows
<1>2. SeenRoles(q) \subseteq SeenRoles(q)'
  BY <1>1 DEF SeenRoles
<1>3. Placed(q)'
  BY DEF Local, Placed
<1>4. Refused(q)' /\ Proved(q)'
  BY <1>1 DEF Local, Refused, Proved, Told
<1>5. Entitled(q)'
  BY <1>2 DEF Local, Entitled, Told, Passes, HasAnyRole
<1>6. Audited(q)'
  BY <1>1 DEF Local, Audited, Reported, Told, Pair
<1> QED
  BY <1>3, <1>4, <1>5, <1>6 DEF Local

\* Each action leaves its process knowing what the place it leads to requires.
LEMMA PlacedStep ==
    ASSUME TypeOK, NEW p \in Procs, Placed(p), Step(p)
    PROVE  Placed(p)' /\ pc[p] # "done" /\ pc'[p] # "start"
<1> USE CallTypes, SameCall DEF TypeOK, Placed, tables, locals, Goto, End, Fail, Kinds, Starts
<1>1. CASE Register(p)
  BY <1>1 DEF Register
<1>2. CASE Create(p)
  BY <1>2 DEF Create
<1>3. CASE Insert(p)
  BY <1>3 DEF Insert, Changes
<1>4. CASE Login(p)
  BY <1>4 DEF Login
<1>5. CASE Issue(p)
  BY <1>5 DEF Issue
<1>6. CASE FindAccount(p)
  BY <1>6 DEF FindAccount
<1>7. CASE Update(p)
  BY <1>7 DEF Update, Changes
<1>8. CASE FindRole(p)
  BY <1>8 DEF FindRole
<1>9. CASE Assign(p)
  BY <1>9 DEF Assign, Changes
<1>10. CASE Remove(p)
  BY <1>10 DEF Remove, Changes
<1>11. CASE LogSuccess(p)
  BY <1>11 DEF LogSuccess
<1>12. CASE LogFailure(p)
  BY <1>12 DEF LogFailure
<1>13. CASE Authenticate(p)
  BY <1>13 DEF Authenticate
<1>14. CASE Guard(p)
  BY <1>14 DEF Guard
<1> QED
  BY <1>1, <1>2, <1>3, <1>4, <1>5, <1>6, <1>7, <1>8, <1>9, <1>10, <1>11, <1>12, <1>13, <1>14
  DEF Step

LEMMA RefusedStep ==
    ASSUME TypeOK, Witness, NEW p \in Procs, Placed(p), Step(p)
    PROVE  Refused(p)'
<1>1. pc[p] # "done" /\ pc'[p] # "start" /\ Placed(p)' /\ call' = call
  BY PlacedStep, SameCall
<1>2. Accounts \subseteq accountsSeen'[p]
  BY <1>1, StepSees
<1>3. HasEmail(call[p].email) => \E w \in Passwords : <<call[p].email, w>> \in accountsSeen'[p]
  <2> SUFFICES ASSUME HasEmail(call[p].email)
               PROVE  \E w \in Passwords : <<call[p].email, w>> \in accountsSeen'[p]
    OBVIOUS
  <2>1. PICK i \in Ids : Exists(i) /\ users[i].email = call[p].email
    BY DEF HasEmail
  <2>2. users[i].password \in Passwords /\ <<users[i].email, users[i].password>> \in Accounts
    BY <2>1, AccountFields DEF Account, Accounts
  <2> QED
    BY <1>2, <2>1, <2>2
<1> SUFFICES ASSUME call[p].kind = "register"
             PROVE  /\ Told(p, "failed")' => broke'[p]
                    /\ Told(p, "taken")' => /\ ~changed'[p]
                          /\ \E w \in Passwords : <<call[p].email, w>> \in accountsSeen'[p]
                    /\ Told(p, "weak")' => ~changed'[p]
  BY <1>1 DEF Refused
<1> USE <1>1, <1>3 DEF TypeOK, Placed, Told, tables, locals, Goto, End, Fail, Starts
<1>4. CASE Register(p)
  BY <1>4 DEF Register
<1>5. CASE Insert(p)
  BY <1>5 DEF Insert, Changes
<1>6. CASE Issue(p)
  BY <1>6 DEF Issue
<1>7. ~Create(p) /\ ~Login(p) /\ ~FindAccount(p) /\ ~FindRole(p) /\ ~Authenticate(p)
  BY DEF Create, Login, FindAccount, FindRole, Authenticate
<1>8. ~Update(p) /\ ~Assign(p) /\ ~Remove(p) /\ ~LogSuccess(p) /\ ~LogFailure(p) /\ ~Guard(p)
  BY DEF Update, Assign, Remove, LogSuccess, LogFailure, Guard
<1> QED
  BY <1>4, <1>5, <1>6, <1>7, <1>8 DEF Step

LEMMA ProvedStep ==
    ASSUME TypeOK, Witness, NEW p \in Procs, Placed(p), Proved(p), Step(p)
    PROVE  Proved(p)'
<1>1. pc[p] # "done" /\ pc'[p] # "start" /\ Placed(p)' /\ call' = call
  BY PlacedStep, SameCall
<1>2. Accounts \subseteq accountsSeen'[p] /\ accountsSeen[p] \subseteq accountsSeen'[p]
  BY <1>1, StepSees, SeenGrows
<1> SUFFICES ASSUME (pc'[p] = "issue" /\ call[p].kind = "login") \/ Told(p, "session")'
             PROVE  <<call[p].email, call[p].password>> \in accountsSeen'[p]
  BY <1>1 DEF Proved
<1> USE <1>1, <1>2 DEF TypeOK, Placed, Told, tables, locals, Goto, End, Fail, Starts
<1>3. CASE Login(p)
  BY <1>3 DEF Login, Accounts
<1>4. CASE Issue(p)
  BY <1>4 DEF Issue, Proved
<1>5. ~Register(p) /\ ~Create(p) /\ ~FindAccount(p) /\ ~FindRole(p) /\ ~Authenticate(p)
  BY DEF Register, Create, FindAccount, FindRole, Authenticate
<1>6. ~Insert(p)
  BY DEF Insert
<1>7. ~Update(p) /\ ~Assign(p) /\ ~Remove(p) /\ ~LogSuccess(p) /\ ~LogFailure(p) /\ ~Guard(p)
  BY DEF Update, Assign, Remove, LogSuccess, LogFailure, Guard
<1> QED
  BY <1>3, <1>4, <1>5, <1>6, <1>7 DEF Step

LEMMA EntitledStep ==
    ASSUME TypeOK, Witness, NEW p \in Procs, Placed(p), Entitled(p), Step(p)
    PROVE  Entitled(p)'
<1>1. pc[p] # "done" /\ pc'[p] # "start" /\ Placed(p)' /\ call' = call
  BY PlacedStep, SameCall
<1>2. holds \subseteq rolesSeen'[p] /\ rolesSeen[p] \subseteq rolesSeen'[p]
  BY <1>1, StepSees, SeenGrows
<1>3. SeenRoles(p) \subseteq SeenRoles(p)' /\ RolesOf(call[p].id) \subseteq SeenRoles(p)'
  BY <1>1, <1>2 DEF SeenRoles, RolesOf
<1> USE <1>1 DEF TypeOK, Placed, Told, tables, locals, Goto, End, Fail, Starts
<1>4. CASE Authenticate(p)
  <2>1. ~Told(p, "admitted")'
    BY <1>4 DEF Authenticate
  <2>2. pc'[p] = "guard" => got'[p] \subseteq SeenRoles(p)'
    BY <1>3, <1>4 DEF Authenticate
  <2> QED
    BY <2>1, <2>2 DEF Entitled
<1>5. CASE Guard(p)
  <2>1. pc'[p] # "guard"
    BY <1>5 DEF Guard
  <2>2. Told(p, "admitted")' => Passes(got[p])
    BY <1>5 DEF Guard
  <2>3. got[p] \subseteq SeenRoles(p)'
    BY <1>3, <1>5 DEF Entitled, Guard
  <2>4. Told(p, "admitted")' => \E roles \in SUBSET SeenRoles(p)' : Passes(roles)
    BY <2>2, <2>3
  <2> QED
    BY <2>1, <2>4 DEF Entitled, Passes, HasAnyRole
<1>6. CASE ~Authenticate(p) /\ ~Guard(p)
  <2>1. pc'[p] # "guard" /\ ~Told(p, "admitted")'
    <3>1. CASE Register(p) \/ Create(p) \/ Insert(p) \/ Login(p) \/ Issue(p)
      BY <3>1 DEF Register, Create, Insert, Login, Issue
    <3>2. CASE FindAccount(p) \/ Update(p) \/ FindRole(p)
      BY <3>2 DEF FindAccount, Update, FindRole
    <3>3. CASE Assign(p) \/ Remove(p) \/ LogSuccess(p) \/ LogFailure(p)
      BY <3>3 DEF Assign, Remove, LogSuccess, LogFailure
    <3> QED
      BY <1>6, <3>1, <3>2, <3>3 DEF Step
  <2> QED
    BY <2>1 DEF Entitled
<1> QED
  BY <1>4, <1>5, <1>6

LEMMA AuditedStep ==
    ASSUME TypeOK, Witness, NEW p \in Procs, Placed(p), Audited(p), Step(p)
    PROVE  Audited(p)'
<1>1. pc[p] # "done" /\ pc'[p] # "start" /\ Placed(p)' /\ call' = call
  BY PlacedStep, SameCall
<1>2. holds' \subseteq rolesSeen'[p] /\ rolesSeen[p] \subseteq rolesSeen'[p]
  BY <1>1, StepSees, SeenGrows
<1>3. Pair(p)' = Pair(p)
  BY <1>1 DEF Pair
<1> USE <1>1, <1>2, <1>3
    DEF TypeOK, Placed, Audited, Reported, Told, tables, locals, Goto, End, Fail, Starts
<1>4. CASE FindRole(p)
  BY <1>4 DEF FindRole
<1>5. CASE Assign(p)
  BY <1>5 DEF Assign, Changes
<1>6. CASE Remove(p)
  BY <1>6 DEF Remove, Changes
<1>7. CASE LogSuccess(p)
  BY <1>7 DEF LogSuccess
<1>8. CASE LogFailure(p)
  BY <1>8 DEF LogFailure
<1>9. CASE Register(p) \/ Create(p) \/ Insert(p) \/ Login(p) \/ Issue(p)
  BY <1>9 DEF Register, Create, Insert, Login, Issue
<1>10. CASE FindAccount(p) \/ Update(p) \/ Authenticate(p) \/ Guard(p)
  BY <1>10 DEF FindAccount, Update, Authenticate, Guard
<1> QED
  BY <1>4, <1>5, <1>6, <1>7, <1>8, <1>9, <1>10 DEF Step

LEMMA LocalStep ==
    ASSUME TypeOK, Witness, NEW p \in Procs, Local(p), Step(p)
    PROVE  Local(p)'
BY PlacedStep, RefusedStep, ProvedStep, EntitledStep, AuditedStep DEF Local

-----------------------------------------------------------------------------
(* What the tables hold                                                    *)

\* No two accounts share an address.
UniqueEmails ==
    \A i, j \in Ids : Exists(i) /\ Exists(j) /\ users[i].email = users[j].email => i = j

\* An account that a process made is there once the process has inserted it,
\* with the address it was asked for.
Own ==
    \A p \in Procs : Exists(p) => users[p].email = call[p].email /\ changed[p]

\* The three ways a step leaves the table users: as it was, with the account
\* of the process, or with another password for its target.
LEMMA UsersStep ==
    ASSUME TypeOK, NEW p \in Procs, Placed(p), Step(p)
    PROVE  \/ users' = users
           \/ /\ pc[p] = "insert" /\ ~HasEmail(call[p].email) /\ Stored(p)
              /\ changed'[p] /\ target'[p] = p
           \/ /\ pc[p] = "update" /\ Exists(target[p]) /\ NewPassword(p)
              /\ changed'[p] /\ target'[p] = target[p] /\ call[p].password \in Long
<1> USE DEF TypeOK, Placed, tables, locals
<1>1. CASE Insert(p)
  BY <1>1 DEF Insert, Changes
<1>2. CASE Update(p)
  BY <1>2 DEF Update, Changes
<1>3. CASE Register(p) \/ Create(p) \/ Login(p) \/ Issue(p)
  BY <1>3 DEF Register, Create, Login, Issue
<1>4. CASE FindAccount(p) \/ FindRole(p) \/ Assign(p) \/ Remove(p)
  BY <1>4 DEF FindAccount, FindRole, Assign, Remove
<1>5. CASE LogSuccess(p) \/ LogFailure(p) \/ Authenticate(p) \/ Guard(p)
  BY <1>5 DEF LogSuccess, LogFailure, Authenticate, Guard
<1> QED
  BY <1>1, <1>2, <1>3, <1>4, <1>5 DEF Step

\* What a process changed stays changed, and its account stays its target
\* from then on.
LEMMA Settled ==
    ASSUME TypeOK, NEW p \in Procs, Placed(p), Step(p), changed[p]
    PROVE  changed'[p] /\ target'[p] = target[p]
<1> USE DEF TypeOK, Placed, tables, locals, Starts
<1>1. CASE Insert(p) \/ Update(p) \/ Assign(p) \/ Remove(p)
  BY <1>1 DEF Insert, Update, Assign, Remove
<1>2. CASE Register(p) \/ Create(p) \/ Login(p) \/ Issue(p) \/ FindAccount(p) \/ FindRole(p)
  BY <1>2 DEF Register, Create, Login, Issue, FindAccount, FindRole
<1>3. CASE LogSuccess(p) \/ LogFailure(p) \/ Authenticate(p) \/ Guard(p)
  BY <1>3 DEF LogSuccess, LogFailure, Authenticate, Guard
<1> QED
  BY <1>1, <1>2, <1>3 DEF Step

LEMMA EmailsStep ==
    ASSUME TypeOK, NEW p \in Procs, Placed(p), UniqueEmails, Own, Step(p)
    PROVE  UniqueEmails' /\ Own'
<1> USE NoneIsNoAccount, SameCall DEF Exists
<1>1. \A q \in Procs : changed[q] => changed'[q]
  BY Frame, Settled
<1>2. CASE users' = users
  BY <1>1, <1>2 DEF UniqueEmails, Own
<1>3. CASE pc[p] = "insert" /\ ~HasEmail(call[p].email) /\ Stored(p) /\ changed'[p]
  <2>1. p \in Ids /\ users' = [users EXCEPT ![p] =
                [email |-> call[p].email, password |-> call[p].password]]
    BY <1>3 DEF Stored, Ids
  <2>2. \A i \in Ids \ {p} : users'[i] = users[i]
    BY <2>1 DEF TypeOK
  <2>3. users'[p].email = call[p].email
    BY <2>1 DEF TypeOK
  <2>4. UniqueEmails'
    BY <1>3, <2>2, <2>3 DEF UniqueEmails, HasEmail
  <2>5. Own'
    BY <1>1, <1>3, <2>2, <2>3 DEF Own
  <2> QED
    BY <2>4, <2>5
<1>4. CASE Exists(target[p]) /\ NewPassword(p)
  <2>1. target[p] \in Ids /\ users[target[p]] \in Account
    BY <1>4, AccountFields
  <2> DEFINE new == [users[target[p]] EXCEPT !.password = call[p].password]
  <2>5. new \in Account /\ new.email = users[target[p]].email
    BY <2>1, CallTypes DEF Account
  <2>6. users' = [users EXCEPT ![target[p]] = new]
    BY <1>4 DEF NewPassword
  <2> HIDE DEF new
  <2>2. \A i \in Ids : (users'[i] = None <=> users[i] = None)
                       /\ (users[i] # None => users'[i].email = users[i].email)
    BY <2>1, <2>5, <2>6 DEF TypeOK
  <2>3. UniqueEmails'
    BY <2>2 DEF UniqueEmails
  <2>4. Own'
    BY <1>1, <2>2 DEF Own
  <2> QED
    BY <2>3, <2>4
<1> QED
  BY <1>2, <1>3, <1>4, UsersStep

\* Whose password an account has.
Gave(p, i) ==
    /\ changed[p] /\ target[p] = i
    /\ users[i].password = call[p].password
    /\ call[p].password \in IF call[p].kind = "register" THEN Accepted ELSE Long
    /\ call[p].kind \in {"register", "create"} => p = i

LEMMA PasswordsStep ==
    ASSUME TypeOK, NEW p \in Procs, Placed(p), PasswordsAccountedFor, Step(p)
    PROVE  PasswordsAccountedFor'
<1> SUFFICES ASSUME NEW i \in Ids, Exists(i)'
             PROVE  \/ i \in Old /\ users'[i] = InitialUsers[i]
                    \/ \E q \in Procs : Gave(q, i)'
  BY DEF PasswordsAccountedFor, Gave
<1> USE NoneIsNoAccount, SameCall DEF Exists
<1>1. \A q \in Procs : changed[q] => changed'[q] /\ target'[q] = target[q]
  BY Frame, Settled
<1>2. CASE users'[i] = users[i]
  <2>1. \A q \in Procs : Gave(q, i) => Gave(q, i)'
    BY <1>1, <1>2 DEF Gave
  <2> QED
    BY <1>2, <2>1 DEF PasswordsAccountedFor, Gave
<1>3. CASE pc[p] = "insert" /\ Stored(p) /\ changed'[p] /\ target'[p] = p
  <2>1. p \in Ids /\ users'[p] = [email |-> call[p].email, password |-> call[p].password]
    BY <1>3 DEF Stored, TypeOK, Ids
  <2>2. Gave(p, p)'
    BY <1>3, <2>1 DEF Gave, Placed
  <2>3. i # p => users'[i] = users[i]
    BY <1>3 DEF Stored, TypeOK
  <2> QED
    BY <1>2, <2>2, <2>3
<1>4. CASE /\ pc[p] = "update" /\ Exists(target[p]) /\ NewPassword(p)
           /\ changed'[p] /\ target'[p] = target[p] /\ call[p].password \in Long
  <2>1. i # target[p] => users'[i] = users[i]
    BY <1>4 DEF NewPassword, TypeOK
  <2>2. ASSUME i = target[p] PROVE Gave(p, i)'
    <3>1. users[i] \in Account
      BY <1>4, <2>2, AccountFields
    <3>2. users'[i].password = call[p].password
      BY <1>4, <2>2, <3>1 DEF NewPassword, TypeOK, Account
    <3> QED
      BY <1>4, <2>2, <3>2 DEF Gave, Placed
  <2> QED
    BY <1>2, <2>1, <2>2
<1> QED
  BY <1>2, <1>3, <1>4, UsersStep

\* What a step does to user_roles.
LEMMA HoldsStep ==
    ASSUME TypeOK, NEW p \in Procs, Placed(p), Step(p)
    PROVE  \/ holds' = holds
           \/ /\ call[p].kind = "promote" /\ holds' = holds \cup {Pair(p)}
              /\ Pair(p) \notin holds => changed'[p]
           \/ /\ call[p].kind = "demote" /\ holds' = holds \ {Pair(p)} /\ changed'[p]
<1> USE DEF TypeOK, Placed, tables, locals
<1>1. CASE Assign(p)
  BY <1>1 DEF Assign, Changes
<1>2. CASE Remove(p)
  BY <1>2 DEF Remove, Changes
<1>3. CASE Register(p) \/ Create(p) \/ Insert(p) \/ Login(p) \/ Issue(p)
  BY <1>3 DEF Register, Create, Insert, Login, Issue
<1>4. CASE FindAccount(p) \/ Update(p) \/ FindRole(p)
  BY <1>4 DEF FindAccount, Update, FindRole
<1>5. CASE LogSuccess(p) \/ LogFailure(p) \/ Authenticate(p) \/ Guard(p)
  BY <1>5 DEF LogSuccess, LogFailure, Authenticate, Guard
<1> QED
  BY <1>1, <1>2, <1>3, <1>4, <1>5 DEF Step

\* A promotion that is first to assign a role changes user_roles; so the
\* command that is promoting now and changed nothing found it assigned.
Assigned ==
    \A pair \in holds :
        \E p \in Procs : call[p].kind = "promote" /\ Pair(p) = pair /\ changed[p]

Removed ==
    \A p \in Procs : call[p].kind = "promote" /\ changed[p] /\ Pair(p) \notin holds =>
        \E q \in Procs : call[q].kind = "demote" /\ Pair(q) = Pair(p) /\ changed[q]

LEMMA RolesStep ==
    ASSUME TypeOK, NEW p \in Procs, Placed(p), Assigned, Removed, Step(p)
    PROVE  Assigned' /\ Removed'
<1> USE SameCall
<1>1. \A q \in Procs : (changed[q] => changed'[q]) /\ Pair(q)' = Pair(q)
  BY Frame, Settled DEF Pair
<1>2. \A q \in Procs : q # p => changed'[q] = changed[q]
  BY Frame
<1>3. call[p].kind = "promote" /\ changed'[p] /\ ~changed[p] => holds' = holds \cup {Pair(p)}
  <2> USE DEF TypeOK, Placed, tables, locals, Starts
  <2>1. CASE Assign(p)
    BY <2>1 DEF Assign, Changes
  <2>2. CASE Remove(p) \/ Insert(p) \/ Update(p)
    BY <2>2 DEF Remove, Insert, Update
  <2>3. CASE Register(p) \/ Create(p) \/ Login(p) \/ Issue(p) \/ FindAccount(p) \/ FindRole(p)
    BY <2>3 DEF Register, Create, Login, Issue, FindAccount, FindRole
  <2>4. CASE LogSuccess(p) \/ LogFailure(p) \/ Authenticate(p) \/ Guard(p)
    BY <2>4 DEF LogSuccess, LogFailure, Authenticate, Guard
  <2> QED
    BY <2>1, <2>2, <2>3, <2>4 DEF Step
<1>4. Assigned'
  BY <1>1, HoldsStep DEF Assigned
<1>5. Removed'
  <2> SUFFICES ASSUME NEW q \in Procs, call[q].kind = "promote", changed'[q],
                      Pair(q) \notin holds'
               PROVE  \E r \in Procs : call[r].kind = "demote" /\ Pair(r) = Pair(q) /\ changed'[r]
    BY <1>1 DEF Removed
  <2>1. changed[q]
    BY <1>2, <1>3
  <2>2. CASE Pair(q) \notin holds
    BY <1>1, <2>1, <2>2 DEF Removed
  <2>3. CASE Pair(q) \in holds
    BY <2>3, HoldsStep
  <2> QED
    BY <2>2, <2>3
<1> QED
  BY <1>4, <1>5

-----------------------------------------------------------------------------
(* The invariant                                                           *)

IInv ==
    /\ TypeOK
    /\ \A p \in Procs : Local(p)
    /\ UniqueEmails
    /\ Own
    /\ PasswordsAccountedFor
    /\ Assigned
    /\ Removed

LEMMA InitInv == Init => IInv
<1> SUFFICES ASSUME Init PROVE IInv
  OBVIOUS
<1> USE DEF Init
<1>1. TypeOK
  BY InitTypes
<1>2. \A p \in Procs : Local(p)
  BY DEF Local, Placed, Refused, Proved, Entitled, Audited, Told
<1>3. \A i \in Ids : Exists(i) => i \in Old /\ users[i] = InitialUsers[i]
  BY DEF Exists
<1>4. UniqueEmails
  BY <1>3, AccountsAssumption DEF UniqueEmails
<1>5. Own
  BY <1>3, NoneIsNoAccount DEF Own, Exists
<1>6. PasswordsAccountedFor
  BY <1>3 DEF PasswordsAccountedFor
<1>7. Assigned /\ Removed
  BY DEF Assigned, Removed
<1> QED
  BY <1>1, <1>2, <1>4, <1>5, <1>6, <1>7 DEF IInv

LEMMA ProcessStep ==
    ASSUME IInv, Witness, NEW p \in Procs, Step(p)
    PROVE  IInv'
<1> USE DEF IInv
<1>1. Placed(p)
  BY DEF Local
<1>2. pc[p] = "change" => call[p].id \in Ids
  BY <1>1 DEF Placed
<1>3. TypeOK'
  <2>1. Control' /\ Data'
    BY <1>2, StepControl, StepData
  <2> QED
    BY <2>1, WitnessTypes DEF TypeOK, Control, Data
<1>4. ASSUME NEW q \in Procs PROVE Local(q)'
  <2>1. CASE q = p
    BY <2>1, LocalStep
  <2>2. CASE q # p
    BY <2>2, Frame, SameCall, LocalStutters
  <2> QED
    BY <2>1, <2>2
<1>5. UniqueEmails' /\ Own'
  BY <1>1, EmailsStep
<1>6. PasswordsAccountedFor'
  BY <1>1, PasswordsStep
<1>7. Assigned' /\ Removed'
  BY <1>1, RolesStep
<1> QED
  BY <1>3, <1>4, <1>5, <1>6, <1>7

LEMMA DeleteStep ==
    ASSUME IInv, Witness, NEW i \in Ids, Delete(i)
    PROVE  IInv'
<1> USE DEF IInv, Delete
<1>1. users' \in [Ids -> Account \cup {None}]
  BY DEF TypeOK
<1>2. TypeOK'
  BY <1>1, WitnessTypes DEF TypeOK
<1>3. \A q \in Procs : Local(q)'
  BY LocalStutters
<1>4. \A j \in Ids : Exists(j)' => Exists(j) /\ users'[j] = users[j]
  BY DEF TypeOK, Exists
<1>5. UniqueEmails' /\ Own'
  BY <1>4, NoneIsNoAccount DEF UniqueEmails, Own, Exists
<1>6. PasswordsAccountedFor'
  BY <1>4 DEF PasswordsAccountedFor
<1>7. Assigned' /\ Removed'
  BY DEF Assigned, Removed, Pair
<1> QED
  BY <1>2, <1>3, <1>5, <1>6, <1>7

LEMMA Stutter == ASSUME IInv, UNCHANGED vars PROVE IInv'
<1> USE DEF vars
<1>1. TypeOK'
  BY DEF IInv, TypeOK
<1>2. ASSUME NEW p \in Procs, Local(p) PROVE Local(p)'
  <2>1. SeenRoles(p)' = SeenRoles(p)
    BY DEF SeenRoles
  <2>2. Entitled(p)'
    BY <1>2, <2>1 DEF Local, Entitled, Told, Passes, HasAnyRole
  <2>3. Audited(p)'
    BY <1>2 DEF Local, Audited, Reported, Told, Pair
  <2>4. Placed(p)' /\ Refused(p)' /\ Proved(p)'
    BY <1>2 DEF Local, Placed, Refused, Proved, Told
  <2> QED
    BY <2>2, <2>3, <2>4 DEF Local
<1>3. UniqueEmails' /\ Own' /\ PasswordsAccountedFor'
  BY DEF IInv, UniqueEmails, Own, PasswordsAccountedFor, Exists
<1>4. Assigned' /\ Removed'
  BY DEF IInv, Assigned, Removed, Pair
<1> QED
  BY <1>1, <1>2, <1>3, <1>4 DEF IInv

\* However the processes interleave, the invariant holds.
THEOREM AccountsInv == Spec => []IInv
<1>1. IInv /\ [Next]_vars => IInv'
  BY ProcessStep, DeleteStep, Stutter DEF Next
<1> QED
  BY InitInv, <1>1, PTL DEF Spec

-----------------------------------------------------------------------------
(* What follows                                                            *)

\* Every variable keeps to its type.
THEOREM TypesHold == Spec => []TypeOK
<1>1. IInv => TypeOK
  BY DEF IInv
<1> QED
  BY AccountsInv, <1>1, PTL

\* Two registrations or commands that both passed the check of the address
\* never both create an account for it.
THEOREM OneAccountPerAddress == Spec => []RegisteredOnce
<1>1. IInv => RegisteredOnce
  <2> SUFFICES ASSUME IInv, NEW p \in Procs, NEW q \in Procs,
                      call[p].email = call[q].email, Exists(p), Exists(q)
               PROVE  p = q
    BY DEF RegisteredOnce
  <2>1. users[p].email = users[q].email
    BY DEF IInv, Own
  <2> QED
    BY <2>1 DEF IInv, UniqueEmails, Exists
<1> QED
  BY AccountsInv, <1>1, PTL

\* A refused registration is told why, and left nothing.
THEOREM RegistrationRefusals == Spec => []RefusalsExplained
<1>1. IInv => RefusalsExplained
  BY DEF IInv, Local, Refused, RefusalsExplained
<1> QED
  BY AccountsInv, <1>1, PTL

\* Every password was put there by somebody for that account, within the
\* rules that bind them.
THEOREM PasswordsHaveAnOrigin == Spec => []PasswordsAccountedFor
<1>1. IInv => PasswordsAccountedFor
  BY DEF IInv
<1> QED
  BY AccountsInv, <1>1, PTL

\* A session is only given to who knew the password of the account.
THEOREM SessionsNeedPassword == Spec => []LoginProvesPassword
<1>1. IInv => LoginProvesPassword
  BY DEF IInv, Local, Proved, LoginProvesPassword
<1> QED
  BY AccountsInv, <1>1, PTL

\* A guard lets nobody through who did not hold the roles while they asked.
THEOREM GuardsNeedRoles == Spec => []AdmittedHeldRole
<1>1. IInv => AdmittedHeldRole
  BY DEF IInv, Local, Entitled, SeenRoles, AdmittedHeldRole
<1> QED
  BY AccountsInv, <1>1, PTL

\* Every change of roles goes back to commands that reported it.
THEOREM RoleChangesExplained == Spec => []ChangesExplained
<1>1. IInv => ChangesExplained
  <2> SUFFICES ASSUME IInv PROVE ChangesExplained
    OBVIOUS
  <2>1. \A p \in Procs : changed[p] /\ call[p].kind \in {"promote", "demote"} => Reported(p)
    BY DEF IInv, Local, Audited
  <2>2. \A pair \in holds : \E p \in Procs :
            call[p].kind = "promote" /\ Pair(p) = pair /\ changed[p] /\ Reported(p)
    BY <2>1 DEF IInv, Assigned
  <2>3. \A p \in Procs : call[p].kind = "promote" /\ changed[p] /\ Pair(p) \notin holds =>
            \E q \in Procs : /\ call[q].kind = "demote" /\ Pair(q) = Pair(p)
                             /\ changed[q] /\ Reported(q)
    BY <2>1 DEF IInv, Removed
  <2> QED
    BY <2>2, <2>3 DEF ChangesExplained
<1> QED
  BY AccountsInv, <1>1, PTL

\* What the audit log says of a command is true.
THEOREM AuditIsTrue == Spec => []AuditTellsTheTruth
<1>1. IInv => AuditTellsTheTruth
  BY DEF IInv, Local, Audited, AuditTellsTheTruth
<1> QED
  BY AccountsInv, <1>1, PTL

\* What registrations are told, whoever won.
THEOREM RegistrationsAreExplained == Spec => []RegistrationsExplained
BY OneAccountPerAddress, RegistrationRefusals, PTL DEF RegistrationsExplained

\* Sessions and admissions only for who had the password and the roles.
THEOREM AccessIsEarned == Spec => []AccessEarned
BY SessionsNeedPassword, GuardsNeedRoles, PTL DEF AccessEarned

\* The roles and their log account for each other.
THEOREM RoleChangesAreLogged == Spec => []RoleChangesLogged
BY RoleChangesExplained, AuditIsTrue, PTL DEF RoleChangesLogged
=============================================================================
