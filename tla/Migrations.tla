----------------------------- MODULE Migrations -----------------------------
(***************************************************************************)
(* The migrator of migrations/migrator.go with its tracker (tracker.go)    *)
(* and its advisory lock (lock.go): several processes, each with a migrator*)
(* of its own, work on one database; an operator repairs records by hand.  *)
(*                                                                         *)
(* A migration's effect on the schema is the number of times its Up ran    *)
(* without a Down; its record is its row of schema_migrations.  Up and the *)
(* record are separate transactions, and a step of a process is at most    *)
(* one of them.                                                            *)
(***************************************************************************)
EXTENDS Naturals

CONSTANTS
    Procs,      \* processes that may migrate: servers starting up, the CLI
    Drivers,    \* the database in use is one of these
    Migs,       \* every migration
    Rank,       \* its place in what OrderMigrations returns
    Version,
    Sources,    \* the sets of migrations that share a source
    Kinds,      \* the operations that may be called
    GoMigs,     \* migrations with an executor and no UpSQL
    Edited,     \* migrations whose checksum differs between builds
    BuildOf,    \* the build each process runs: 0 or 1
    MaxCalls,   \* bound: calls of the migrator
    MaxRepairs, \* bound: calls of ForceMigration and Retry
    MaxFaults,  \* bound: timeouts, lost statements and crashes
    Nobody

UpKinds == {"up", "upAll", "upTx", "upOne", "upTo", "upSource", "runUp"}
DownKinds == {"down", "downTo", "runDown"}

ASSUME KindsAssumption == Kinds \subseteq UpKinds \cup DownKinds
ASSUME DriversAssumption == Drivers \subseteq {"postgres", "mysql", "sqlite"}
ASSUME NobodyAssumption == Nobody \notin Procs
ASSUME OrderAssumption ==
    /\ Rank \in [Migs -> Nat] /\ \A m, n \in Migs : Rank[m] = Rank[n] => m = n
    /\ Version \in [Migs -> Nat] /\ \A m, n \in Migs : Version[m] = Version[n] => m = n
ASSUME SourcesAssumption == Sources \subseteq SUBSET Migs
ASSUME BoundsAssumption == /\ MaxCalls \in Nat /\ MaxRepairs \in Nat /\ MaxFaults \in Nat
                           /\ BuildOf \in [Procs -> {0, 1}]

VARIABLES
    driver,   \* the database in use
    holder,   \* the process one of whose connections holds the advisory lock
    depth,    \* how many times that connection has locked it
    acquired, \* what each process's migrator believes: MigrationLock.acquired
    schema,   \* how many times each migration is in the schema
    record,   \* schema_migrations
    pc, kind, want, todo,  \* each process's call and where it is in it
    calls, repairs, faults,
    \* History, read by the properties only.
    kept,     \* is the lock held because an unlock went wrong?
    unlocked, \* has a process worked without holding the lock?
    excused   \* migrations whose record an event entitles to disagree

lock == <<holder, depth, acquired, kept>>
call == <<kind, want>>
bounds == <<calls, repairs, faults>>
history == <<unlocked, excused>>
vars == <<driver, lock, schema, record, pc, call, todo, bounds, history>>

None == [status |-> "none", sum |-> 0]

\* The checksum of m in a build.
Sum(b, m) == IF m \in Edited THEN b ELSE 0

Row(s, b, m) == [status |-> s, sum |-> Sum(b, m)]

Is(m, s) == record[m].status = s

-----------------------------------------------------------------------------
(* What a call selects                                                     *)

\* UpTo and DownTo name a version, UpSource and DownSource a source, RunOne
\* one migration; the other calls select everything.
Wants(k) == CASE k = "upTo" -> {{m \in Migs : Version[m] <= Version[n]} : n \in Migs}
              [] k = "downTo" -> {{m \in Migs : Version[m] >= Version[n]} : n \in Migs}
              [] k = "upSource" -> Sources
              [] k = "down" -> {Migs} \cup Sources
              [] k \in {"runUp", "runDown"} -> {{m} : m \in Migs}
              [] OTHER -> {Migs}

\* Mutant of Pending: what is applied stays in the plan.
BugPending(S) == S

Pending(S) == {m \in S : ~Is(m, "applied")}

Applied(S) == {m \in S : Is(m, "applied")}

\* Migrations go up in the order of their dependencies and down from the
\* newest version to the oldest.
Before(k, m, n) == IF k \in DownKinds THEN Version[n] < Version[m] ELSE Rank[m] < Rank[n]

First(k, S) == {m \in S : \A n \in S : ~Before(k, n, m)}

Plan(k, S) == CASE k \in {"runUp", "runDown"} -> S
                [] k = "upOne" -> First(k, Pending(S))
                [] k = "down" -> First(k, Applied(S))
                [] k = "downTo" -> Applied(S)
                [] OTHER -> Pending(S)

-----------------------------------------------------------------------------
(* Steps shared by the operations                                          *)

\* Where a process reads a plan or changes the schema or the records.
Working(p) == pc[p] \notin {"idle", "lock", "release"} /\ ~(pc[p] = "plan" /\ kind[p] = "upSource")

Goto(p, l) == pc' = [pc EXCEPT ![p] = l]

\* The end of a call: nothing of it is kept.
Return(p) == /\ Goto(p, "idle")
             /\ kind' = [kind EXCEPT ![p] = "up"]
             /\ want' = [want EXCEPT ![p] = {}]
             /\ todo' = [todo EXCEPT ![p] = {}]

Fault == faults < MaxFaults /\ faults' = faults + 1

Excuse(S) == excused' = excused \cup S

\* The migration a process is at.
At(p) == First(kind[p], todo[p])

Left(p) == todo[p] \ At(p)

\* The loops over several migrations.
Advance(p, l) == /\ todo' = [todo EXCEPT ![p] = Left(p)]
                 /\ Goto(p, IF Left(p) = {} THEN "release" ELSE l)

\* Going on to the next migration without the lock is what unlocked records.
NextMigration(p) == /\ Advance(p, "exec")
                    /\ unlocked' = (unlocked \/ (holder' # p /\ Left(p) # {}))

\* executeSequential stops at the first error unless StopOnError is off.
AfterError(p) == IF kind[p] = "upAll" THEN NextMigration(p)
                 ELSE Goto(p, "release") /\ UNCHANGED <<todo, unlocked>>

\* MySQL commits DDL as it executes, the others with the transaction.
CommitsEarly == driver = "mysql"

\* Mutant of Effect: Down counts down, whatever there is to revert.
BugEffect(p, D) == [m \in Migs |-> IF m \notin D THEN schema[m]
                                   ELSE IF kind[p] \in DownKinds THEN schema[m] - 1
                                   ELSE schema[m] + 1]

\* The schema once D has been executed: Up adds to it, Down clears.
Effect(p, D) == [m \in Migs |-> IF m \notin D THEN schema[m]
                                ELSE IF kind[p] \in DownKinds THEN 0 ELSE schema[m] + 1]

\* What process p executes at one go.  executeTransactional executes UpSQL,
\* which a migration with an executor does not have.
Executing(p) == IF kind[p] = "upTx" THEN todo[p] \ GoMigs ELSE At(p)

\* An execution that is cut short: MySQL keeps what came before.
Interrupted(p) ==
    \E D \in SUBSET Executing(p) :
        /\ \A m \in D, n \in Executing(p) : Before(kind[p], n, m) => n \in D
        /\ CommitsEarly \/ D = {}
        /\ schema' = Effect(p, D) /\ Excuse(D)

Executed(p) == schema' = Effect(p, Executing(p))

-----------------------------------------------------------------------------
Init == /\ driver \in Drivers
        /\ holder = Nobody /\ depth = 0
        /\ acquired = [p \in Procs |-> FALSE]
        /\ kept = FALSE
        /\ schema = [m \in Migs |-> 0]
        /\ record = [m \in Migs |-> None]
        /\ pc = [p \in Procs |-> "idle"]
        /\ kind = [p \in Procs |-> "up"]
        /\ want = [p \in Procs |-> {}]
        /\ todo = [p \in Procs |-> {}]
        /\ calls = 0 /\ repairs = 0 /\ faults = 0
        /\ unlocked = (driver = "sqlite")
        /\ excused = {}

Start(p, k) ==
    /\ pc[p] = "idle"
    /\ calls < MaxCalls
    /\ calls' = calls + 1
    /\ kind' = [kind EXCEPT ![p] = k]
    /\ \E S \in Wants(k) : want' = [want EXCEPT ![p] = S]
    /\ Goto(p, IF k = "upSource" THEN "plan" ELSE "lock")
    /\ UNCHANGED <<driver, lock, schema, record, todo, repairs, faults, history>>

-----------------------------------------------------------------------------
(* The lock                                                                *)

\* Mutant of Free: nobody waits.
BugFree == TRUE

Free == driver = "sqlite" \/ holder = Nobody

\* What follows Acquire.  UpSource planned before it locked and may hold a stale
\* plan by now.
Locked(p) ==
    /\ acquired' = [acquired EXCEPT ![p] = TRUE]
    /\ Goto(p, CASE kind[p] \in {"up", "upAll", "upTx", "upOne", "upTo"} -> "dirty"
                 [] kind[p] = "upSource" -> "exec"
                 [] OTHER -> "plan")
    /\ Excuse(IF kind[p] = "upSource" THEN {m \in todo[p] : ~Is(m, "none")} ELSE {})
    /\ UNCHANGED <<driver, schema, record, call, todo, kept>>

Acquire(p) ==
    /\ pc[p] = "lock" /\ ~acquired[p]
    /\ Free
    /\ IF driver = "sqlite" THEN UNCHANGED <<holder, depth>>
       ELSE holder' = p /\ depth' = 1
    /\ Locked(p)
    /\ UNCHANGED <<bounds, unlocked>>

\* A migrator whose last unlock failed believes that it still has the lock, and
\* does not ask the database.
AcquireAtOnce(p) ==
    /\ pc[p] = "lock" /\ acquired[p]
    /\ Locked(p)
    /\ unlocked' = (unlocked \/ holder # p)
    /\ UNCHANGED <<holder, depth, bounds>>

\* The lock is a connection's and may be taken again: the pool happens to hand
\* out the connection that kept it.
AcquireAgain(p) ==
    /\ pc[p] = "lock" /\ ~acquired[p]
    /\ holder = p /\ depth' = depth + 1
    /\ Locked(p)
    /\ UNCHANGED <<holder, bounds, unlocked>>

\* GET_LOCK gives up after 60 seconds; pg_advisory_lock waits on.
AcquireTimesOut(p) ==
    /\ pc[p] = "lock" /\ ~acquired[p]
    /\ driver = "mysql" /\ ~Free
    /\ Return(p)
    /\ UNCHANGED <<driver, lock, schema, record, bounds, history>>

FreeLock == holder' = Nobody /\ depth' = 0 /\ kept' = FALSE

\* The connection that holds the lock is closed; the migrator is not told.
LoseLock(p) == holder = p /\ FreeLock /\ UNCHANGED acquired

\* The deferred Release, on every path out of a call that acquired, when the
\* pool hands out the connection that holds the lock.  A lock that is not this
\* connection's is only a warning, but RELEASE_LOCK answers NULL when nobody
\* holds it, which cannot be scanned: an error, as if the unlock had failed.
Release(p) ==
    /\ pc[p] = "release"
    /\ IF holder # p THEN UNCHANGED <<holder, depth, kept>>
       ELSE IF depth > 1 THEN depth' = depth - 1 /\ UNCHANGED <<holder, kept>>
       ELSE FreeLock
    /\ acquired' = [acquired EXCEPT ![p] = driver = "mysql" /\ holder = Nobody]
    /\ Return(p)
    /\ UNCHANGED <<driver, schema, record, bounds, history>>

\* The unlock fails, and nobody reads its error: the context is over, so that
\* it is not sent, or its connection breaks; or it reaches another connection
\* of the pool, which has nothing to unlock.
ReleaseFails(p) ==
    /\ pc[p] = "release" /\ driver # "sqlite"
    /\ Fault
    /\ \/ LoseLock(p)
       \/ /\ kept' = (kept \/ holder = p)
          /\ \/ UNCHANGED acquired
             \/ holder = p /\ acquired' = [acquired EXCEPT ![p] = FALSE]
          /\ UNCHANGED <<holder, depth>>
    /\ Return(p)
    /\ UNCHANGED <<driver, schema, record, calls, repairs, history>>

\* A lock that was kept is free when its connection is old or was idle for long
\* and the pool closes it; nothing says that it ever does.
CloseConnection(p) ==
    /\ kept
    /\ LoseLock(p)
    /\ unlocked' = (unlocked \/ Working(p))
    /\ UNCHANGED <<driver, schema, record, pc, call, todo, bounds, excused>>

-----------------------------------------------------------------------------
(* The checks and the plan                                                 *)

\* Mutant of CheckForDirtyDatabase: only failures of the same build count.
BugCheckForDirtyDatabase(p) ==
    /\ pc[p] = "dirty"
    /\ Goto(p, IF \E m \in Migs : record[m] = Row("failed", BuildOf[p], m) THEN "release"
               ELSE IF kind[p] \in {"upOne", "upTo"} THEN "plan"
               ELSE "verify")
    /\ UNCHANGED <<driver, lock, schema, record, call, todo, bounds, history>>

CheckForDirtyDatabase(p) ==
    /\ pc[p] = "dirty"
    /\ Goto(p, IF \E m \in Migs : Is(m, "failed") THEN "release"
               ELSE IF kind[p] \in {"upOne", "upTo"} THEN "plan"
               ELSE "verify")
    /\ UNCHANGED <<driver, lock, schema, record, call, todo, bounds, history>>

\* Mutant of VerifyChecksums: it looks at the pending migrations.
BugVerifyChecksums(p) ==
    /\ pc[p] = "verify"
    /\ Goto(p, IF \E m \in Migs : Is(m, "failed") /\ record[m].sum # Sum(BuildOf[p], m)
               THEN "release" ELSE "plan")
    /\ UNCHANGED <<driver, lock, schema, record, call, todo, bounds, history>>

VerifyChecksums(p) ==
    /\ pc[p] = "verify"
    /\ Goto(p, IF \E m \in Migs : Is(m, "applied") /\ record[m].sum # Sum(BuildOf[p], m)
               THEN "release" ELSE "plan")
    /\ UNCHANGED <<driver, lock, schema, record, call, todo, bounds, history>>

\* Mutant of MakePlan: an empty plan returns without unlocking.
BugMakePlan(p) ==
    /\ pc[p] = "plan"
    /\ IF Plan(kind[p], want[p]) = {}
       THEN Return(p)
       ELSE /\ todo' = [todo EXCEPT ![p] = Plan(kind[p], want[p])]
            /\ Goto(p, CASE kind[p] = "upSource" -> "lock"
                         [] kind[p] = "upTx" -> "execTx"
                         [] kind[p] \in DownKinds -> "revert"
                         [] OTHER -> "exec")
            /\ UNCHANGED <<call>>
    /\ Excuse(IF kind[p] = "runUp" THEN {m \in want[p] : ~Is(m, "none")} ELSE {})
    /\ UNCHANGED <<driver, lock, schema, record, bounds, unlocked>>

\* RunOne does not look at the record of the migration it runs.
MakePlan(p) ==
    /\ pc[p] = "plan"
    /\ LET plan == Plan(kind[p], want[p]) IN
         IF plan = {}
         THEN IF kind[p] = "upSource" THEN Return(p)
              ELSE Goto(p, "release") /\ UNCHANGED <<call, todo>>
         ELSE /\ todo' = [todo EXCEPT ![p] = plan]
              /\ Goto(p, CASE kind[p] = "upSource" -> "lock"
                           [] kind[p] = "upTx" -> "execTx"
                           [] kind[p] \in DownKinds -> "revert"
                           [] OTHER -> "exec")
              /\ UNCHANGED <<call>>
    /\ Excuse(IF kind[p] = "runUp" THEN {m \in want[p] : ~Is(m, "none")} ELSE {})
    /\ UNCHANGED <<driver, lock, schema, record, bounds, unlocked>>

\* A query or BEGIN fails before anything was done.
QueryFails(p) ==
    /\ Fault
    /\ UNCHANGED lock
    /\ \/ pc[p] \in {"dirty", "verify", "execTx", "revert"} /\ Goto(p, "release")
          /\ UNCHANGED <<call, todo, unlocked>>
       \/ pc[p] = "plan" /\ kind[p] # "upSource" /\ Goto(p, "release")
          /\ UNCHANGED <<call, todo, unlocked>>
       \/ (pc[p] = "lock" \/ (pc[p] = "plan" /\ kind[p] = "upSource"))
          /\ Return(p) /\ UNCHANGED unlocked
       \/ pc[p] = "exec" /\ UNCHANGED call /\ AfterError(p)
    /\ UNCHANGED <<driver, schema, record, calls, repairs, excused>>

-----------------------------------------------------------------------------
(* executeMigration                                                        *)

ExecuteUp(p) ==
    /\ pc[p] = "exec"
    /\ \/ /\ Goto(p, "commit")
          /\ IF CommitsEarly THEN Executed(p) ELSE UNCHANGED schema
          /\ UNCHANGED excused
       \/ /\ Goto(p, "fail")
          /\ Interrupted(p)
    /\ UNCHANGED <<driver, lock, record, call, todo, bounds, unlocked>>

\* The context expires: the driver closes the connection, which may be the
\* one that holds the lock, and RecordFailedMigration, called with the same
\* context, fails unnoticed.
ExecuteUpTimesOut(p) ==
    /\ pc[p] = "exec"
    /\ Fault
    /\ Interrupted(p)
    /\ UNCHANGED lock \/ LoseLock(p)
    /\ AfterError(p)
    /\ UNCHANGED <<driver, record, call, calls, repairs>>

\* An upsert: the checksum of an earlier row stays.
RecordFailed(p) ==
    /\ pc[p] = "fail"
    /\ \E m \in At(p) :
         record' = [record EXCEPT ![m] = IF Is(m, "none") THEN Row("failed", BuildOf[p], m)
                                         ELSE [@ EXCEPT !.status = "failed"]]
    /\ UNCHANGED lock
    /\ AfterError(p)
    /\ UNCHANGED <<driver, schema, call, bounds, excused>>

\* The upsert fails and its error is dropped.
RecordFailedLost(p) ==
    /\ pc[p] = "fail"
    /\ Fault
    /\ UNCHANGED lock
    /\ AfterError(p)
    /\ UNCHANGED <<driver, schema, record, call, calls, repairs, excused>>

CommitUp(p) ==
    /\ pc[p] = "commit"
    /\ IF CommitsEarly THEN UNCHANGED schema ELSE Executed(p)
    /\ Goto(p, "record")
    /\ UNCHANGED <<driver, lock, record, call, todo, bounds, history>>

\* An error from Commit leaves it open whether the transaction was applied.
CommitUpFails(p) ==
    /\ pc[p] = "commit"
    /\ Fault
    /\ \/ UNCHANGED schema
       \/ ~CommitsEarly /\ Executed(p)
    /\ UNCHANGED lock
    /\ AfterError(p)
    /\ Excuse(At(p))
    /\ UNCHANGED <<driver, record, call, calls, repairs>>

\* RecordMigration is a plain INSERT: a row that is already there refuses it.
RecordUp(p) ==
    /\ pc[p] = "record"
    /\ \E m \in At(p) : /\ Is(m, "none")
                        /\ record' = [record EXCEPT ![m] = Row("applied", BuildOf[p], m)]
    /\ UNCHANGED lock
    /\ NextMigration(p)
    /\ UNCHANGED <<driver, schema, call, bounds, excused>>

RecordUpConflicts(p) ==
    /\ pc[p] = "record"
    /\ \E m \in At(p) : ~Is(m, "none")
    /\ UNCHANGED lock
    /\ AfterError(p)
    /\ UNCHANGED <<driver, schema, record, call, bounds, excused>>

\* An error leaves it open whether the row was written; so below.
RecordUpFails(p) ==
    /\ pc[p] = "record"
    /\ Fault
    /\ \/ UNCHANGED record
       \/ \E m \in At(p) : /\ Is(m, "none")
                           /\ record' = [record EXCEPT ![m] = Row("applied", BuildOf[p], m)]
    /\ UNCHANGED lock
    /\ AfterError(p)
    /\ Excuse(At(p))
    /\ UNCHANGED <<driver, schema, call, calls, repairs>>

-----------------------------------------------------------------------------
(* executeTransactional                                                    *)

\* A failed statement rolls everything back and is recorded nowhere.  MySQL
\* refuses the empty UpSQL of a migration with an executor.
ExecuteTx(p) ==
    /\ pc[p] = "execTx"
    /\ \/ /\ driver = "mysql" => todo[p] \cap GoMigs = {}
          /\ Goto(p, "commitTx")
          /\ IF CommitsEarly THEN Executed(p) ELSE UNCHANGED schema
          /\ UNCHANGED excused
       \/ /\ Goto(p, "release")
          /\ Interrupted(p)
    /\ UNCHANGED <<driver, lock, record, call, todo, bounds, unlocked>>

CommitTx(p) ==
    /\ pc[p] = "commitTx"
    /\ IF CommitsEarly THEN UNCHANGED schema ELSE Executed(p)
    /\ Goto(p, "recordTx")
    /\ UNCHANGED <<driver, lock, record, call, todo, bounds, history>>

CommitTxFails(p) ==
    /\ pc[p] = "commitTx"
    /\ Fault
    /\ \/ UNCHANGED schema
       \/ ~CommitsEarly /\ Executed(p)
    /\ Goto(p, "release")
    /\ Excuse(todo[p])
    /\ UNCHANGED <<driver, lock, record, call, todo, calls, repairs, unlocked>>

\* An INSERT that is refused or fails is only logged.
RecordTx(p) ==
    /\ pc[p] = "recordTx"
    /\ \E m \in At(p) :
         record' = [record EXCEPT ![m] = IF Is(m, "none") THEN Row("applied", BuildOf[p], m) ELSE @]
    /\ Advance(p, "recordTx")
    /\ UNCHANGED <<driver, lock, schema, call, bounds, history>>

RecordTxFails(p) ==
    /\ pc[p] = "recordTx"
    /\ Fault
    /\ \/ UNCHANGED record
       \/ \E m \in At(p) : /\ Is(m, "none")
                           /\ record' = [record EXCEPT ![m] = Row("applied", BuildOf[p], m)]
    /\ Advance(p, "recordTx")
    /\ Excuse(At(p))
    /\ UNCHANGED <<driver, lock, schema, call, calls, repairs, unlocked>>

-----------------------------------------------------------------------------
(* executeDown                                                             *)

\* Executed and committed, or failed and rolled back.
Revert(p) ==
    /\ pc[p] = "revert"
    /\ \/ Executed(p) /\ Goto(p, "unrecord") /\ UNCHANGED excused
       \/ Interrupted(p) /\ Goto(p, "release")
    /\ UNCHANGED <<driver, lock, record, call, todo, bounds, unlocked>>

\* Committed, but Commit reported an error.
RevertFails(p) ==
    /\ pc[p] = "revert"
    /\ Fault
    /\ Executed(p)
    /\ Goto(p, "release")
    /\ Excuse(At(p))
    /\ UNCHANGED <<driver, lock, record, call, todo, calls, repairs, unlocked>>

RemoveMigration(p) ==
    /\ pc[p] = "unrecord"
    /\ \E m \in At(p) : record' = [record EXCEPT ![m] = None]
    /\ Advance(p, "revert")
    /\ UNCHANGED <<driver, lock, schema, call, bounds, history>>

RemoveMigrationFails(p) ==
    /\ pc[p] = "unrecord"
    /\ Fault
    /\ \/ UNCHANGED record
       \/ \E m \in At(p) : record' = [record EXCEPT ![m] = None]
    /\ Goto(p, "release")
    /\ Excuse(At(p))
    /\ UNCHANGED <<driver, lock, schema, call, todo, calls, repairs, unlocked>>

-----------------------------------------------------------------------------
(* Repairs, which take no lock, and crashes                                *)

Repair == repairs < MaxRepairs /\ repairs' = repairs + 1

ForceMigration(m) ==
    /\ Repair
    /\ \E p \in Procs :
          record' = [record EXCEPT ![m] = IF Is(m, "none") THEN Row("applied", BuildOf[p], m)
                                          ELSE [@ EXCEPT !.status = "applied"]]
    /\ Excuse({m})
    /\ UNCHANGED <<driver, lock, schema, pc, call, todo, calls, faults, unlocked>>

\* Retry deletes the row whatever its status.
Retry(m) ==
    /\ Repair
    /\ record' = [record EXCEPT ![m] = None]
    /\ Excuse(IF Is(m, "applied") THEN {m} ELSE {})
    /\ UNCHANGED <<driver, lock, schema, pc, call, todo, calls, faults, unlocked>>

\* The database rolls the open transaction back and frees the lock.  A process
\* that kept the lock gives it up no later than when it ends.
Crash(p) ==
    /\ pc[p] # "idle" \/ holder = p
    /\ Fault
    /\ IF holder = p THEN FreeLock ELSE UNCHANGED <<holder, depth, kept>>
    /\ acquired' = [acquired EXCEPT ![p] = FALSE]
    /\ Return(p)
    /\ IF pc[p] \in {"exec", "execTx", "revert"}
       THEN Interrupted(p)
       ELSE /\ UNCHANGED schema
            /\ Excuse(IF \/ pc[p] \in {"record", "recordTx", "unrecord"}
                         \/ CommitsEarly /\ pc[p] \in {"commit", "commitTx"}
                      THEN todo[p] ELSE {})
    /\ UNCHANGED <<driver, record, calls, repairs, unlocked>>

-----------------------------------------------------------------------------
Step(p) ==
    \/ Acquire(p) \/ AcquireAtOnce(p) \/ AcquireTimesOut(p) \/ Release(p)
    \/ CheckForDirtyDatabase(p) \/ VerifyChecksums(p) \/ MakePlan(p)
    \/ ExecuteUp(p) \/ CommitUp(p) \/ RecordUp(p) \/ RecordUpConflicts(p) \/ RecordFailed(p)
    \/ ExecuteTx(p) \/ CommitTx(p) \/ RecordTx(p)
    \/ Revert(p) \/ RemoveMigration(p)

Mishap(p) ==
    \/ QueryFails(p) \/ ReleaseFails(p) \/ Crash(p)
    \/ ExecuteUpTimesOut(p) \/ CommitUpFails(p) \/ RecordUpFails(p) \/ RecordFailedLost(p)
    \/ CommitTxFails(p) \/ RecordTxFails(p)
    \/ RevertFails(p) \/ RemoveMigrationFails(p)

Next == \/ \E p \in Procs, k \in Kinds : Start(p, k)
        \/ \E p \in Procs : Step(p) \/ AcquireAgain(p) \/ CloseConnection(p) \/ Mishap(p)
        \/ \E m \in Migs : ForceMigration(m) \/ Retry(m)

Spec == Init /\ [][Next]_vars

\* A process that can run does, and the lock service serves a waiter that has
\* no competitor left.  Nothing obliges a call to go wrong.
FairSpec == Spec /\ \A p \in Procs : WF_vars(Step(p))

-----------------------------------------------------------------------------
(* Properties                                                              *)

PCs == {"idle", "lock", "dirty", "verify", "plan", "exec", "fail", "commit", "record",
        "execTx", "commitTx", "recordTx", "revert", "unrecord", "release"}

TypeOK == /\ driver \in Drivers
          /\ holder \in Procs \cup {Nobody} /\ depth \in Nat
          /\ acquired \in [Procs -> BOOLEAN]
          /\ kept \in BOOLEAN
          /\ schema \in [Migs -> Nat]
          /\ record \in [Migs -> [status : {"none", "applied", "failed"}, sum : {0, 1}]]
          /\ pc \in [Procs -> PCs]
          /\ kind \in [Procs -> UpKinds \cup DownKinds]
          /\ want \in [Procs -> SUBSET Migs]
          /\ todo \in [Procs -> SUBSET Migs]
          /\ calls \in Nat /\ repairs \in Nat /\ faults \in Nat
          /\ unlocked \in BOOLEAN
          /\ excused \subseteq Migs

\* Advisory locking prevents concurrent migrations: at most one process works.
NeverConcurrent == \A p, q \in Procs : Working(p) /\ Working(q) => p = q

\* The same while no process has worked after it lost the connection that held
\* its lock, whatever else failed, timed out or crashed, unlocks included.
MutualExclusion == ~unlocked => NeverConcurrent

\* The migrations whose transaction or record p still owes.
Unsettled(p) == {m \in todo[p] :
    \/ pc[p] \in {"commit", "record", "unrecord"} /\ m \in At(p)
    \/ pc[p] \in {"commitTx", "recordTx"}}

\* schema_migrations tells the truth: a migration is recorded as applied when
\* its Up ran once and was not reverted.  The exceptions are named: an error
\* or crash between a commit and its record, a statement that failed half-way
\* on MySQL, a repair by hand, RunOne and UpSource on a migration that already
\* has a record, a migration that only has an executor, and work without a lock.
RecordMatchesSchema ==
    ~unlocked => \A m \in Migs \ (excused \cup GoMigs) :
                     (\A p \in Procs : m \notin Unsettled(p)) =>
                         schema[m] = IF Is(m, "applied") THEN 1 ELSE 0

\* An all-or-nothing call records as applied only what it executed.
RecordedWasExecuted ==
    \A m \in Migs \ excused : Is(m, "applied") => schema[m] # 0

\* A failed migration blocks execution: no call that checks for a dirty
\* database executes anything while a migration is marked failed, although the
\* check was made several steps earlier.
DirtyDatabaseBlocks ==
    \A p \in Procs :
        /\ ~unlocked
        /\ pc[p] \in {"exec", "execTx"} /\ kind[p] \in {"up", "upTx", "upOne", "upTo"}
        => \A m \in Migs : ~Is(m, "failed")

\* A modified migration is detected: Up does not execute anything while a
\* migration is recorded as applied with a checksum that is not its own, unless
\* the record was forced.
ModifiedMigrationBlocks ==
    \A p \in Procs :
        /\ ~unlocked
        /\ pc[p] \in {"exec", "execTx"} /\ kind[p] \in {"up", "upAll", "upTx"}
        => \A m \in Migs \ excused : Is(m, "applied") => record[m].sum = Sum(BuildOf[p], m)

\* No call is left waiting, whichever way the calls before it ended.  The one
\* exception: on PostgreSQL, where the lock has no timeout, a process keeps it
\* for ever because its unlock failed or reached another connection.
EveryCallReturns ==
    \/ \A p \in Procs : pc[p] # "idle" ~> pc[p] = "idle"
    \/ <>[](driver = "postgres" /\ kept)
=============================================================================
