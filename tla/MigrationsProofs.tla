-------------------------- MODULE MigrationsProofs --------------------------
(***************************************************************************)
(* Proofs about Migrations for every set of processes, every list of       *)
(* migrations and sources, and any number of calls, repairs and faults.    *)
(***************************************************************************)
EXTENDS Migrations, TLAPS

-----------------------------------------------------------------------------
(* The inductive invariant                                                 *)

Records == [status : {"none", "applied", "failed"}, sum : {0, 1}]

\* The part of the types the arguments below rest on.
ShapeInv == /\ pc \in [Procs -> PCs]
            /\ kind \in [Procs -> UpKinds \cup DownKinds]
            /\ record \in [Migs -> Records]
            /\ unlocked \in BOOLEAN

\* Whoever works holds the lock.
OwnerInv == ~unlocked => /\ driver # "sqlite"
                         /\ \A p \in Procs : Working(p) => holder = p

\* What the check for a dirty database found stays true until the call ends.
CheckedKinds == {"up", "upTx", "upOne", "upTo"}

Checked(p) == /\ kind[p] \in CheckedKinds
              /\ pc[p] \in {"verify", "plan", "exec", "commit", "record",
                           "execTx", "commitTx", "recordTx"}

CleanInv == ~unlocked => \A p \in Procs : Checked(p) =>
                             \A m \in Migs : record[m].status # "failed"

\* What VerifyChecksums found stays true as well: the call adds its own sums.
VerifiedKinds == {"up", "upAll", "upTx"}

Verified(p) == /\ kind[p] \in VerifiedKinds
               /\ pc[p] \in {"plan", "exec", "fail", "commit", "record",
                            "execTx", "commitTx", "recordTx"}

ChecksumInv ==
    ~unlocked => \A p \in Procs : Verified(p) =>
                     \A m \in Migs \ excused :
                         record[m].status = "applied" => record[m].sum = Sum(BuildOf[p], m)

\* The rest of the types.
RestInv == /\ driver \in Drivers
           /\ holder \in Procs \cup {Nobody} /\ depth \in Nat
           /\ acquired \in [Procs -> BOOLEAN]
           /\ kept \in BOOLEAN
           /\ schema \in [Migs -> Nat]
           /\ want \in [Procs -> SUBSET Migs]
           /\ todo \in [Procs -> SUBSET Migs]
           /\ calls \in Nat /\ repairs \in Nat /\ faults \in Nat
           /\ excused \subseteq Migs

\* Which operations come by which places.
PlaceInv ==
    \A p \in Procs :
        /\ pc[p] = "dirty" => kind[p] \in {"up", "upAll", "upTx", "upOne", "upTo"}
        /\ pc[p] = "verify" => kind[p] \in {"up", "upAll", "upTx"}
        /\ pc[p] \in {"exec", "fail", "commit", "record"} => kind[p] \in UpKinds \ {"upTx"}
        /\ pc[p] \in {"execTx", "commitTx", "recordTx"} => kind[p] = "upTx"
        /\ pc[p] \in {"revert", "unrecord"} => kind[p] \in DownKinds

\* upAll goes on after a failure, but plans before one.
ScanInv == ~unlocked => \A p \in Procs :
               kind[p] = "upAll" /\ pc[p] \in {"verify", "plan"} =>
                   \A m \in Migs : record[m].status # "failed"

\* What a call is about to execute or to record has no record yet.
FreshInv == ~unlocked => \A p \in Procs :
                pc[p] \in {"exec", "fail", "commit", "record", "execTx", "commitTx", "recordTx"} =>
                    \A m \in todo[p] \ excused : record[m].status = "none"

\* How often an unsettled migration is in the schema.
Landed(p) == CASE pc[p] \in {"record", "recordTx"} -> 1
               [] pc[p] = "unrecord" -> 0
               [] OTHER -> IF CommitsEarly THEN 1 ELSE 0

\* Record and schema agree, and for what is unsettled the place of the process
\* tells what is in the schema.
Recorded(m) == IF record[m].status = "applied" THEN 1 ELSE 0

Truthful(m) ==
    /\ \A p \in Procs : m \in Unsettled(p) => schema[m] = Landed(p)
    /\ (\A p \in Procs : m \notin Unsettled(p)) => schema[m] = Recorded(m)

RecordInv == ~unlocked => \A m \in Migs \ (excused \cup GoMigs) : Truthful(m)

IInv == /\ ShapeInv /\ RestInv /\ PlaceInv
        /\ OwnerInv /\ CleanInv /\ ChecksumInv
        /\ ScanInv /\ FreshInv /\ RecordInv

-----------------------------------------------------------------------------
(* Lemmas                                                                  *)

LEMMA SumType == \A p \in Procs : \A m : Sum(BuildOf[p], m) \in {0, 1}
BY BoundsAssumption DEF Sum

LEMMA InterruptedExcuses == \A p : Interrupted(p) => excused \subseteq excused'
BY DEF Interrupted, Excuse

\* A process is at one migration at most: places and versions are distinct.
LEMMA AtOne ==
    ASSUME NEW p \in Procs, RestInv, NEW m \in At(p), NEW n \in At(p)
    PROVE  m = n /\ m \in todo[p] /\ m \in Migs
<1>1. m \in todo[p] /\ n \in todo[p] /\ todo[p] \subseteq Migs
    BY DEF RestInv, At, First
<1>2. CASE kind[p] \in DownKinds
  <2>1. ~(Version[m] < Version[n]) /\ ~(Version[n] < Version[m])
      BY <1>1, <1>2 DEF At, First, Before
  <2> QED BY <1>1, <2>1, OrderAssumption
<1>3. CASE kind[p] \notin DownKinds
  <2>1. ~(Rank[m] < Rank[n]) /\ ~(Rank[n] < Rank[m])
      BY <1>1, <1>3 DEF At, First, Before
  <2> QED BY <1>1, <2>1, OrderAssumption
<1> QED BY <1>1, <1>2, <1>3

LEMMA AtLeft == \A p : At(p) \subseteq todo[p] /\ Left(p) \subseteq todo[p]
BY DEF At, First, Left

LEMMA PlanType ==
    ASSUME NEW k \in UpKinds \cup DownKinds
    PROVE  /\ \A S : Plan(k, S) \subseteq S
           /\ \A S \in Wants(k) : S \subseteq Migs
<1>1. \A S : Plan(k, S) \subseteq S
    BY DEF Plan, First, Pending, Applied
<1>2. \A S \in Wants(k) : S \subseteq Migs
    BY SourcesAssumption DEF Wants
<1> QED BY <1>1, <1>2

LEMMA EffectType ==
    ASSUME RestInv, NEW p, NEW D PROVE Effect(p, D) \in [Migs -> Nat]
BY DEF RestInv, Effect

LEMMA ExecutingType ==
    ASSUME RestInv, NEW p \in Procs PROVE Executing(p) \subseteq Migs
BY AtLeft DEF RestInv, Executing

LEMMA InterruptedType ==
    ASSUME RestInv, NEW p \in Procs, Interrupted(p)
    PROVE  schema' \in [Migs -> Nat] /\ excused' \subseteq Migs
BY EffectType, ExecutingType DEF Interrupted, Excuse, RestInv

LEMMA ExecutedType ==
    ASSUME RestInv, NEW p \in Procs, Executed(p) PROVE schema' \in [Migs -> Nat]
BY EffectType DEF Executed

LEMMA InitInv == Init => IInv
<1> SUFFICES ASSUME Init PROVE IInv
    OBVIOUS
<1>1. ShapeInv /\ RestInv /\ PlaceInv
    BY DEF Init, ShapeInv, RestInv, PlaceInv, Records, None, PCs, UpKinds
<1>2. OwnerInv
    BY DEF Init, OwnerInv, Working
<1>3. CleanInv /\ ChecksumInv /\ ScanInv /\ FreshInv
    BY DEF Init, CleanInv, Checked, ChecksumInv, Verified, ScanInv, FreshInv
<1>4. RecordInv
    BY DEF Init, RecordInv, Truthful, Recorded, Unsettled, None
<1> QED BY <1>1, <1>2, <1>3, <1>4 DEF IInv

LEMMA ShapeStep == ShapeInv /\ [Next]_vars => ShapeInv'
<1> USE SumType DEF ShapeInv, Records, PCs, UpKinds, DownKinds
<1> SUFFICES ASSUME ShapeInv, [Next]_vars PROVE ShapeInv'
    OBVIOUS
<1>1. ASSUME NEW p \in Procs, NEW k \in Kinds, Start(p, k) PROVE ShapeInv'
    BY <1>1, KindsAssumption DEF Start, Goto, history
<1>2. ASSUME NEW p \in Procs, Acquire(p) PROVE ShapeInv'
    BY <1>2 DEF Acquire, Locked, Goto, Excuse, Free, lock, call, history
<1>3. ASSUME NEW p \in Procs, AcquireTimesOut(p) PROVE ShapeInv'
    BY <1>3 DEF AcquireTimesOut, Return, Goto, lock, call, history
<1>4. ASSUME NEW p \in Procs, Release(p) PROVE ShapeInv'
    BY <1>4 DEF Release, FreeLock, Return, Goto, lock, call, history
<1>5. ASSUME NEW p \in Procs, CheckForDirtyDatabase(p) PROVE ShapeInv'
    BY <1>5 DEF CheckForDirtyDatabase, Goto, Is, lock, call, history
<1>6. ASSUME NEW p \in Procs, VerifyChecksums(p) PROVE ShapeInv'
    BY <1>6 DEF VerifyChecksums, Goto, Is, lock, call, history
<1>7. ASSUME NEW p \in Procs, MakePlan(p) PROVE ShapeInv'
    BY <1>7 DEF MakePlan, Goto, Return, Excuse, lock, call, history
<1>8. ASSUME NEW p \in Procs, ExecuteUp(p) PROVE ShapeInv'
    BY <1>8 DEF ExecuteUp, Goto, lock, call, history
<1>9. ASSUME NEW p \in Procs, CommitUp(p) PROVE ShapeInv'
    BY <1>9 DEF CommitUp, Goto, lock, call, history
<1>10. ASSUME NEW p \in Procs, RecordUp(p) PROVE ShapeInv'
  <2>1. PICK m \in At(p) : record' = [record EXCEPT ![m] = Row("applied", BuildOf[p], m)]
      BY <1>10 DEF RecordUp
  <2>2. record' \in [Migs -> Records]
      BY <2>1 DEF Row, None, Is
  <2> QED BY <2>2, <1>10 DEF RecordUp, NextMigration, Advance, Goto, Row, Is, lock, call, history
<1>11. ASSUME NEW p \in Procs, RecordUpConflicts(p) PROVE ShapeInv'
    BY <1>11 DEF RecordUpConflicts, AfterError, NextMigration, Advance, Goto, lock, call,
        history
<1>12. ASSUME NEW p \in Procs, RecordFailed(p) PROVE ShapeInv'
  <2>1. PICK m \in At(p) : record' = [record EXCEPT ![m] = IF Is(m, "none") THEN Row("failed", BuildOf[p], m)
                                       ELSE [@ EXCEPT !.status = "failed"]]
      BY <1>12 DEF RecordFailed
  <2>2. record' \in [Migs -> Records]
      BY <2>1 DEF Row, None, Is
  <2> QED BY <2>2, <1>12 DEF RecordFailed, AfterError, NextMigration, Advance, Goto, Row,
      Is, lock, call, history
<1>13. ASSUME NEW p \in Procs, ExecuteTx(p) PROVE ShapeInv'
    BY <1>13 DEF ExecuteTx, Goto, lock, call, history
<1>14. ASSUME NEW p \in Procs, CommitTx(p) PROVE ShapeInv'
    BY <1>14 DEF CommitTx, Goto, lock, call, history
<1>15. ASSUME NEW p \in Procs, RecordTx(p) PROVE ShapeInv'
  <2>1. PICK m \in At(p) : record' = [record EXCEPT ![m] = IF Is(m, "none") THEN Row("applied", BuildOf[p], m) ELSE @]
      BY <1>15 DEF RecordTx
  <2>2. record' \in [Migs -> Records]
      BY <2>1 DEF Row, None, Is
  <2> QED BY <2>2, <1>15 DEF RecordTx, Advance, Goto, Row, Is, lock, call, history
<1>16. ASSUME NEW p \in Procs, Revert(p) PROVE ShapeInv'
    BY <1>16 DEF Revert, Goto, lock, call, history
<1>17. ASSUME NEW p \in Procs, RemoveMigration(p) PROVE ShapeInv'
  <2>1. PICK m \in At(p) : record' = [record EXCEPT ![m] = None]
      BY <1>17 DEF RemoveMigration
  <2>2. record' \in [Migs -> Records]
      BY <2>1 DEF Row, None, Is
  <2> QED BY <2>2, <1>17 DEF RemoveMigration, Advance, Goto, None, lock, call, history
<1>18. ASSUME NEW p \in Procs, QueryFails(p) PROVE ShapeInv'
    BY <1>18 DEF QueryFails, Return, AfterError, NextMigration, Advance, Goto, lock, call,
        history
<1>19. ASSUME NEW p \in Procs, Crash(p) PROVE ShapeInv'
    BY <1>19 DEF Crash, FreeLock, Return, Goto, Excuse, lock, call, history
<1>20. ASSUME NEW p \in Procs, ExecuteUpTimesOut(p) PROVE ShapeInv'
    BY <1>20 DEF ExecuteUpTimesOut, LoseLock, FreeLock, AfterError, NextMigration, Advance, Goto, lock, call,
        history
<1>21. ASSUME NEW p \in Procs, CommitUpFails(p) PROVE ShapeInv'
    BY <1>21 DEF CommitUpFails, AfterError, NextMigration, Advance, Goto, Excuse, lock, call,
        history
<1>22. ASSUME NEW p \in Procs, RecordUpFails(p) PROVE ShapeInv'
  <2>1. record' = record \/ \E m \in At(p) : record' = [record EXCEPT ![m] = Row("applied", BuildOf[p], m)]
      BY <1>22 DEF RecordUpFails
  <2>2. record' \in [Migs -> Records]
      BY <2>1 DEF Row, None
  <2> QED BY <2>2, <1>22 DEF RecordUpFails, AfterError, NextMigration, Advance, Goto, Excuse, lock, call, history
<1>23. ASSUME NEW p \in Procs, RecordFailedLost(p) PROVE ShapeInv'
    BY <1>23 DEF RecordFailedLost, AfterError, NextMigration, Advance, Goto, lock, call,
        history
<1>24. ASSUME NEW p \in Procs, CommitTxFails(p) PROVE ShapeInv'
    BY <1>24 DEF CommitTxFails, Goto, Excuse, lock, call, history
<1>25. ASSUME NEW p \in Procs, RecordTxFails(p) PROVE ShapeInv'
  <2>1. record' = record \/ \E m \in At(p) : record' = [record EXCEPT ![m] = Row("applied", BuildOf[p], m)]
      BY <1>25 DEF RecordTxFails
  <2>2. record' \in [Migs -> Records]
      BY <2>1 DEF Row, None
  <2> QED BY <2>2, <1>25 DEF RecordTxFails, Advance, Goto, Excuse, lock, call, history
<1>26. ASSUME NEW p \in Procs, RevertFails(p) PROVE ShapeInv'
    BY <1>26 DEF RevertFails, Goto, Excuse, lock, call, history
<1>27. ASSUME NEW p \in Procs, RemoveMigrationFails(p) PROVE ShapeInv'
  <2>1. record' = record \/ \E m \in At(p) : record' = [record EXCEPT ![m] = None]
      BY <1>27 DEF RemoveMigrationFails
  <2>2. record' \in [Migs -> Records]
      BY <2>1 DEF Row, None
  <2> QED BY <2>2, <1>27 DEF RemoveMigrationFails, Goto, Excuse, lock, call, history
<1>28. ASSUME NEW m \in Migs, ForceMigration(m) PROVE ShapeInv'
    BY <1>28 DEF ForceMigration, Repair, Excuse, Is, Row, lock, call, history
<1>29. ASSUME NEW m \in Migs, Retry(m) PROVE ShapeInv'
    BY <1>29 DEF Retry, Repair, Excuse, Is, None, lock, call, history
<1>30. ASSUME UNCHANGED vars PROVE ShapeInv'
    BY <1>30 DEF vars, lock, call, history
<1>31. ASSUME NEW p \in Procs, AcquireAtOnce(p) PROVE ShapeInv'
    BY <1>31 DEF AcquireAtOnce, Locked, Goto, Excuse, lock, call, history
<1>32. ASSUME NEW p \in Procs, AcquireAgain(p) PROVE ShapeInv'
    BY <1>32 DEF AcquireAgain, Locked, Goto, Excuse, lock, call, history
<1>33. ASSUME NEW p \in Procs, ReleaseFails(p) PROVE ShapeInv'
    BY <1>33 DEF ReleaseFails, LoseLock, FreeLock, Return, Goto, call, history
<1>34. ASSUME NEW p \in Procs, CloseConnection(p) PROVE ShapeInv'
    BY <1>34 DEF CloseConnection, LoseLock, FreeLock, Working, call, history
<1> QED
    BY <1>1, <1>2, <1>3, <1>4, <1>5, <1>6, <1>7, <1>8, <1>9, <1>10, <1>11, <1>12,
        <1>13, <1>14, <1>15, <1>16, <1>17, <1>18, <1>19, <1>20, <1>21, <1>22, <1>23,
        <1>24, <1>25, <1>26, <1>27, <1>28, <1>29, <1>30, <1>31, <1>32,
        <1>33, <1>34 DEF Next, Step, Mishap

\* Plans, effects and excuses are about migrations there are.
LEMMA RestStep == ShapeInv /\ RestInv /\ [Next]_vars => RestInv'
<1> USE AtLeft, BoundsAssumption DEF RestInv
<1> SUFFICES ASSUME ShapeInv, RestInv, [Next]_vars PROVE RestInv'
    OBVIOUS
<1>1. ASSUME NEW p \in Procs, NEW k \in Kinds, Start(p, k) PROVE RestInv'
    BY <1>1, KindsAssumption, PlanType DEF Start, Goto, lock, history, UpKinds, DownKinds
<1>2. ASSUME NEW p \in Procs, Acquire(p) PROVE RestInv'
    BY <1>2 DEF Acquire, Locked, Goto, Excuse, Free, lock, call, history, Fault, bounds
<1>3. ASSUME NEW p \in Procs, AcquireTimesOut(p) PROVE RestInv'
    BY <1>3 DEF AcquireTimesOut, Return, Goto, lock, call, history, Fault, bounds
<1>4. ASSUME NEW p \in Procs, Release(p) PROVE RestInv'
  <2>1. depth' \in Nat /\ holder' \in Procs \cup {Nobody}
      BY <1>4 DEF Release, FreeLock
  <2>2. kept' \in BOOLEAN
      BY <1>4 DEF Release, FreeLock
  <2>3. acquired' \in [Procs -> BOOLEAN]
      BY <1>4 DEF Release
  <2> QED BY <1>4, <2>1, <2>2, <2>3 DEF Release, Return, Goto, call, history, bounds
<1>5. ASSUME NEW p \in Procs, CheckForDirtyDatabase(p) PROVE RestInv'
    BY <1>5 DEF CheckForDirtyDatabase, Goto, Is, lock, call, history, Fault, bounds
<1>6. ASSUME NEW p \in Procs, VerifyChecksums(p) PROVE RestInv'
    BY <1>6 DEF VerifyChecksums, Goto, Is, lock, call, history, Fault, bounds
<1>7. ASSUME NEW p \in Procs, MakePlan(p) PROVE RestInv'
  <2>1. Plan(kind[p], want[p]) \subseteq Migs
      BY PlanType DEF ShapeInv
  <2>2. todo' \in [Procs -> SUBSET Migs] /\ want' \in [Procs -> SUBSET Migs]
      BY <1>7, <2>1 DEF MakePlan, Return, lock, call
  <2> QED BY <1>7, <2>2 DEF MakePlan, Excuse, lock, call, bounds
<1>8. ASSUME NEW p \in Procs, ExecuteUp(p) PROVE RestInv'
    BY <1>8, InterruptedType, ExecutedType DEF ExecuteUp, Goto, lock, call, history, Fault,
        bounds
<1>9. ASSUME NEW p \in Procs, CommitUp(p) PROVE RestInv'
    BY <1>9, InterruptedType, ExecutedType DEF CommitUp, Goto, lock, call, history, Fault,
        bounds
<1>10. ASSUME NEW p \in Procs, RecordUp(p) PROVE RestInv'
    BY <1>10 DEF RecordUp, NextMigration, Advance, Goto, Row, Is, lock, call, history, Fault,
        bounds
<1>11. ASSUME NEW p \in Procs, RecordUpConflicts(p) PROVE RestInv'
    BY <1>11 DEF RecordUpConflicts, AfterError, NextMigration, Advance, Goto, lock, call,
        history, Fault, bounds
<1>12. ASSUME NEW p \in Procs, RecordFailed(p) PROVE RestInv'
    BY <1>12 DEF RecordFailed, AfterError, NextMigration, Advance, Goto, Row, Is, lock, call,
        history, Fault, bounds
<1>13. ASSUME NEW p \in Procs, ExecuteTx(p) PROVE RestInv'
    BY <1>13, InterruptedType, ExecutedType DEF ExecuteTx, Goto, lock, call, history, Fault,
        bounds
<1>14. ASSUME NEW p \in Procs, CommitTx(p) PROVE RestInv'
    BY <1>14, InterruptedType, ExecutedType DEF CommitTx, Goto, lock, call, history, Fault,
        bounds
<1>15. ASSUME NEW p \in Procs, RecordTx(p) PROVE RestInv'
    BY <1>15 DEF RecordTx, Advance, Goto, Row, Is, lock, call, history, Fault, bounds
<1>16. ASSUME NEW p \in Procs, Revert(p) PROVE RestInv'
    BY <1>16, InterruptedType, ExecutedType DEF Revert, Goto, lock, call, history, Fault,
        bounds
<1>17. ASSUME NEW p \in Procs, RemoveMigration(p) PROVE RestInv'
    BY <1>17 DEF RemoveMigration, Advance, Goto, None, lock, call, history, Fault, bounds
<1>18. ASSUME NEW p \in Procs, QueryFails(p) PROVE RestInv'
    BY <1>18 DEF QueryFails, Return, AfterError, NextMigration, Advance, Goto, lock, call,
        history, Fault, bounds
<1>19. ASSUME NEW p \in Procs, Crash(p) PROVE RestInv'
  <2>1. depth' \in Nat /\ holder' \in Procs \cup {Nobody}
      BY <1>19 DEF Crash, LoseLock, FreeLock, lock
  <2>2. kept' \in BOOLEAN
      BY <1>19 DEF Crash, LoseLock, FreeLock, lock
  <2>3. acquired' \in [Procs -> BOOLEAN]
      BY <1>19 DEF Crash, LoseLock, lock
  <2>4. schema' \in [Migs -> Nat] /\ excused' \subseteq Migs
      BY <1>19, InterruptedType DEF Crash, Excuse
  <2> QED BY <1>19, <2>1, <2>2, <2>3, <2>4 DEF Crash, Return, Goto, call,
      history, Fault, bounds
<1>20. ASSUME NEW p \in Procs, ExecuteUpTimesOut(p) PROVE RestInv'
  <2>1. depth' \in Nat /\ holder' \in Procs \cup {Nobody}
      BY <1>20 DEF ExecuteUpTimesOut, LoseLock, FreeLock, lock
  <2>2. kept' \in BOOLEAN
      BY <1>20 DEF ExecuteUpTimesOut, LoseLock, FreeLock, lock
  <2>3. acquired' \in [Procs -> BOOLEAN]
      BY <1>20 DEF ExecuteUpTimesOut, LoseLock, lock
  <2>4. schema' \in [Migs -> Nat] /\ excused' \subseteq Migs
      BY <1>20, InterruptedType DEF ExecuteUpTimesOut, Excuse
  <2> QED BY <1>20, <2>1, <2>2, <2>3, <2>4 DEF ExecuteUpTimesOut, AfterError, NextMigration, Advance, Goto, call,
      history, Fault, bounds
<1>21. ASSUME NEW p \in Procs, CommitUpFails(p) PROVE RestInv'
    BY <1>21, InterruptedType, ExecutedType DEF CommitUpFails, AfterError,
        NextMigration, Advance, Goto, Excuse, lock, call, history, Fault, bounds
<1>22. ASSUME NEW p \in Procs, RecordUpFails(p) PROVE RestInv'
    BY <1>22 DEF RecordUpFails, AfterError, NextMigration, Advance, Goto, Excuse, lock, call,
        history, Fault, bounds
<1>23. ASSUME NEW p \in Procs, RecordFailedLost(p) PROVE RestInv'
    BY <1>23 DEF RecordFailedLost, AfterError, NextMigration, Advance, Goto, lock, call,
        history, Fault, bounds
<1>24. ASSUME NEW p \in Procs, CommitTxFails(p) PROVE RestInv'
    BY <1>24, InterruptedType, ExecutedType DEF CommitTxFails, Goto, Excuse, lock, call,
        history, Fault, bounds
<1>25. ASSUME NEW p \in Procs, RecordTxFails(p) PROVE RestInv'
    BY <1>25 DEF RecordTxFails, Advance, Goto, Excuse, lock, call, history, Fault, bounds
<1>26. ASSUME NEW p \in Procs, RevertFails(p) PROVE RestInv'
    BY <1>26, InterruptedType, ExecutedType DEF RevertFails, Goto, Excuse, lock, call,
        history, Fault, bounds
<1>27. ASSUME NEW p \in Procs, RemoveMigrationFails(p) PROVE RestInv'
    BY <1>27 DEF RemoveMigrationFails, Goto, Excuse, lock, call, history, Fault, bounds
<1>28. ASSUME NEW m \in Migs, ForceMigration(m) PROVE RestInv'
    BY <1>28 DEF ForceMigration, Repair, Excuse, Is, Row, lock, call, history, Fault, bounds
<1>29. ASSUME NEW m \in Migs, Retry(m) PROVE RestInv'
    BY <1>29 DEF Retry, Repair, Excuse, Is, None, lock, call, history, Fault, bounds
<1>30. ASSUME UNCHANGED vars PROVE RestInv'
    BY <1>30 DEF vars, lock, call, history, Fault, bounds
<1>31. ASSUME NEW p \in Procs, AcquireAtOnce(p) PROVE RestInv'
    BY <1>31 DEF AcquireAtOnce, Locked, Goto, Excuse, lock, call, history, Fault, bounds
<1>32. ASSUME NEW p \in Procs, AcquireAgain(p) PROVE RestInv'
    BY <1>32 DEF AcquireAgain, Locked, Goto, Excuse, lock, call, history, Fault, bounds
<1>33. ASSUME NEW p \in Procs, ReleaseFails(p) PROVE RestInv'
  <2>1. depth' \in Nat /\ holder' \in Procs \cup {Nobody}
      BY <1>33 DEF ReleaseFails, LoseLock, FreeLock, lock
  <2>2. kept' \in BOOLEAN
      BY <1>33 DEF ReleaseFails, LoseLock, FreeLock, lock
  <2>3. acquired' \in [Procs -> BOOLEAN]
      BY <1>33 DEF ReleaseFails, LoseLock, lock
  <2>4. want' \in [Procs -> SUBSET Migs] /\ todo' \in [Procs -> SUBSET Migs] /\ faults' \in Nat
      BY <1>33 DEF ReleaseFails, Return, Fault
  <2>5. UNCHANGED <<driver, schema, calls, repairs, excused>>
      BY <1>33 DEF ReleaseFails, history
  <2> QED BY <2>1, <2>2, <2>3, <2>4, <2>5
<1>34. ASSUME NEW p \in Procs, CloseConnection(p) PROVE RestInv'
    BY <1>34 DEF CloseConnection, LoseLock, FreeLock, Working, call, history, Fault, bounds
<1> QED
    BY <1>1, <1>2, <1>3, <1>4, <1>5, <1>6, <1>7, <1>8, <1>9, <1>10, <1>11, <1>12,
        <1>13, <1>14, <1>15, <1>16, <1>17, <1>18, <1>19, <1>20, <1>21, <1>22, <1>23,
        <1>24, <1>25, <1>26, <1>27, <1>28, <1>29, <1>30, <1>31, <1>32,
        <1>33, <1>34 DEF Next, Step, Mishap

LEMMA OwnerStep == ShapeInv /\ OwnerInv /\ [Next]_vars => OwnerInv'
<1> USE NobodyAssumption DEF ShapeInv, PCs, OwnerInv, Working, UpKinds, DownKinds
<1> SUFFICES ASSUME ShapeInv, OwnerInv, [Next]_vars PROVE OwnerInv'
    OBVIOUS
<1>1. ASSUME NEW p \in Procs, NEW k \in Kinds, Start(p, k) PROVE OwnerInv'
    BY <1>1, KindsAssumption DEF Start, Goto, lock, history
<1>2. ASSUME NEW p \in Procs, Acquire(p) PROVE OwnerInv'
    BY <1>2 DEF Acquire, Locked, Goto, Excuse, Free, lock, call, history
<1>3. ASSUME NEW p \in Procs, AcquireTimesOut(p) PROVE OwnerInv'
    BY <1>3 DEF AcquireTimesOut, Return, Goto, lock, call, history
<1>4. ASSUME NEW p \in Procs, Release(p) PROVE OwnerInv'
    BY <1>4 DEF Release, FreeLock, Return, Goto, lock, call, history
<1>5. ASSUME NEW p \in Procs, CheckForDirtyDatabase(p) PROVE OwnerInv'
    BY <1>5 DEF CheckForDirtyDatabase, Goto, Is, lock, call, history
<1>6. ASSUME NEW p \in Procs, VerifyChecksums(p) PROVE OwnerInv'
    BY <1>6 DEF VerifyChecksums, Goto, Is, lock, call, history
<1>7. ASSUME NEW p \in Procs, MakePlan(p) PROVE OwnerInv'
    BY <1>7 DEF MakePlan, Goto, Return, Excuse, lock, call, history
<1>8. ASSUME NEW p \in Procs, ExecuteUp(p) PROVE OwnerInv'
    BY <1>8 DEF ExecuteUp, Goto, lock, call, history
<1>9. ASSUME NEW p \in Procs, CommitUp(p) PROVE OwnerInv'
    BY <1>9 DEF CommitUp, Goto, lock, call, history
<1>10. ASSUME NEW p \in Procs, RecordUp(p) PROVE OwnerInv'
    BY <1>10 DEF RecordUp, NextMigration, Advance, Goto, Row, Is, lock, call, history
<1>11. ASSUME NEW p \in Procs, RecordUpConflicts(p) PROVE OwnerInv'
    BY <1>11 DEF RecordUpConflicts, AfterError, NextMigration, Advance, Goto,
        lock, call, history
<1>12. ASSUME NEW p \in Procs, RecordFailed(p) PROVE OwnerInv'
    BY <1>12 DEF RecordFailed, AfterError, NextMigration, Advance, Goto, Row,
        Is, lock, call, history
<1>13. ASSUME NEW p \in Procs, ExecuteTx(p) PROVE OwnerInv'
    BY <1>13 DEF ExecuteTx, Goto, lock, call, history
<1>14. ASSUME NEW p \in Procs, CommitTx(p) PROVE OwnerInv'
    BY <1>14 DEF CommitTx, Goto, lock, call, history
<1>15. ASSUME NEW p \in Procs, RecordTx(p) PROVE OwnerInv'
    BY <1>15 DEF RecordTx, Advance, Goto, Row, Is, lock, call, history
<1>16. ASSUME NEW p \in Procs, Revert(p) PROVE OwnerInv'
    BY <1>16 DEF Revert, Goto, lock, call, history
<1>17. ASSUME NEW p \in Procs, RemoveMigration(p) PROVE OwnerInv'
    BY <1>17 DEF RemoveMigration, Advance, Goto, None, lock, call, history
<1>18. ASSUME NEW p \in Procs, QueryFails(p) PROVE OwnerInv'
    BY <1>18 DEF QueryFails, Return, AfterError, NextMigration, Advance, Goto,
        lock, call, history
<1>19. ASSUME NEW p \in Procs, Crash(p) PROVE OwnerInv'
    BY <1>19 DEF Crash, FreeLock, Return, Goto, Excuse, lock, call, history
<1>20. ASSUME NEW p \in Procs, ExecuteUpTimesOut(p) PROVE OwnerInv'
    BY <1>20 DEF ExecuteUpTimesOut, LoseLock, FreeLock, AfterError, NextMigration, Advance, Goto,
        lock, call, history
<1>21. ASSUME NEW p \in Procs, CommitUpFails(p) PROVE OwnerInv'
    BY <1>21 DEF CommitUpFails, AfterError, NextMigration, Advance, Goto,
        Excuse, lock, call, history
<1>22. ASSUME NEW p \in Procs, RecordUpFails(p) PROVE OwnerInv'
    BY <1>22 DEF RecordUpFails, AfterError, NextMigration, Advance, Goto,
        Excuse, lock, call, history
<1>23. ASSUME NEW p \in Procs, RecordFailedLost(p) PROVE OwnerInv'
    BY <1>23 DEF RecordFailedLost, AfterError, NextMigration, Advance, Goto,
        lock, call, history
<1>24. ASSUME NEW p \in Procs, CommitTxFails(p) PROVE OwnerInv'
    BY <1>24 DEF CommitTxFails, Goto, Excuse, lock, call, history
<1>25. ASSUME NEW p \in Procs, RecordTxFails(p) PROVE OwnerInv'
    BY <1>25 DEF RecordTxFails, Advance, Goto, Excuse, lock, call, history
<1>26. ASSUME NEW p \in Procs, RevertFails(p) PROVE OwnerInv'
    BY <1>26 DEF RevertFails, Goto, Excuse, lock, call, history
<1>27. ASSUME NEW p \in Procs, RemoveMigrationFails(p) PROVE OwnerInv'
    BY <1>27 DEF RemoveMigrationFails, Goto, Excuse, lock, call, history
<1>28. ASSUME NEW m \in Migs, ForceMigration(m) PROVE OwnerInv'
    BY <1>28 DEF ForceMigration, Repair, Excuse, Is, Row, lock, call, history
<1>29. ASSUME NEW m \in Migs, Retry(m) PROVE OwnerInv'
    BY <1>29 DEF Retry, Repair, Excuse, Is, None, lock, call, history
<1>30. ASSUME UNCHANGED vars PROVE OwnerInv'
    BY <1>30 DEF vars, lock, call, history
<1>31. ASSUME NEW p \in Procs, AcquireAtOnce(p) PROVE OwnerInv'
    BY <1>31 DEF AcquireAtOnce, Locked, Goto, Excuse, lock, call, history
<1>32. ASSUME NEW p \in Procs, AcquireAgain(p) PROVE OwnerInv'
    BY <1>32 DEF AcquireAgain, Locked, Goto, Excuse, lock, call, history
<1>33. ASSUME NEW p \in Procs, ReleaseFails(p) PROVE OwnerInv'
    BY <1>33 DEF ReleaseFails, LoseLock, FreeLock, Return, Goto, call, history
<1>34. ASSUME NEW p \in Procs, CloseConnection(p) PROVE OwnerInv'
    BY <1>34 DEF CloseConnection, LoseLock, FreeLock, Working, call, history
<1> QED
    BY <1>1, <1>2, <1>3, <1>4, <1>5, <1>6, <1>7, <1>8, <1>9, <1>10,
        <1>11, <1>12, <1>13, <1>14, <1>15, <1>16, <1>17, <1>18, <1>19,
        <1>20, <1>21, <1>22, <1>23, <1>24, <1>25, <1>26, <1>27, <1>28,
        <1>29, <1>30, <1>31, <1>32,
        <1>33, <1>34
    DEF Next, Step, Mishap

\* Only who works writes records, and nobody else works meanwhile.
LEMMA CleanStep == ShapeInv /\ OwnerInv /\ CleanInv /\ [Next]_vars => CleanInv'
<1> USE NobodyAssumption DEF ShapeInv, Records, PCs, OwnerInv, Working, CleanInv, Checked,
    CheckedKinds, DownKinds
<1> SUFFICES ASSUME ShapeInv, OwnerInv, CleanInv, [Next]_vars PROVE CleanInv'
    OBVIOUS
<1>1. ASSUME NEW p \in Procs, NEW k \in Kinds, Start(p, k) PROVE CleanInv'
    BY <1>1, KindsAssumption DEF Start, Goto, history
<1>2. ASSUME NEW p \in Procs, Acquire(p) PROVE CleanInv'
    BY <1>2 DEF Acquire, Locked, Goto, Excuse, Free, lock, call, history
<1>3. ASSUME NEW p \in Procs, AcquireTimesOut(p) PROVE CleanInv'
    BY <1>3 DEF AcquireTimesOut, Return, Goto, lock, call, history
<1>4. ASSUME NEW p \in Procs, Release(p) PROVE CleanInv'
    BY <1>4 DEF Release, FreeLock, Return, Goto, lock, call, history
<1>5. ASSUME NEW p \in Procs, CheckForDirtyDatabase(p) PROVE CleanInv'
    BY <1>5 DEF CheckForDirtyDatabase, Goto, Is, lock, call, history
<1>6. ASSUME NEW p \in Procs, VerifyChecksums(p) PROVE CleanInv'
    BY <1>6 DEF VerifyChecksums, Goto, Is, lock, call, history
<1>7. ASSUME NEW p \in Procs, MakePlan(p) PROVE CleanInv'
    BY <1>7 DEF MakePlan, Goto, Return, Excuse, lock, call, history
<1>8. ASSUME NEW p \in Procs, ExecuteUp(p) PROVE CleanInv'
    BY <1>8 DEF ExecuteUp, Goto, lock, call, history
<1>9. ASSUME NEW p \in Procs, CommitUp(p) PROVE CleanInv'
    BY <1>9 DEF CommitUp, Goto, lock, call, history
<1>10. ASSUME NEW p \in Procs, RecordUp(p) PROVE CleanInv'
    BY <1>10 DEF RecordUp, NextMigration, Advance, Goto, Row, Is, lock, call, history
<1>11. ASSUME NEW p \in Procs, RecordUpConflicts(p) PROVE CleanInv'
    BY <1>11 DEF RecordUpConflicts, AfterError, NextMigration, Advance, Goto,
        lock, call, history
<1>12. ASSUME NEW p \in Procs, RecordFailed(p) PROVE CleanInv'
    BY <1>12 DEF RecordFailed, AfterError, NextMigration, Advance, Goto, Row,
        Is, lock, call, history
<1>13. ASSUME NEW p \in Procs, ExecuteTx(p) PROVE CleanInv'
    BY <1>13 DEF ExecuteTx, Goto, lock, call, history
<1>14. ASSUME NEW p \in Procs, CommitTx(p) PROVE CleanInv'
    BY <1>14 DEF CommitTx, Goto, lock, call, history
<1>15. ASSUME NEW p \in Procs, RecordTx(p) PROVE CleanInv'
    BY <1>15 DEF RecordTx, Advance, Goto, Row, Is, lock, call, history
<1>16. ASSUME NEW p \in Procs, Revert(p) PROVE CleanInv'
    BY <1>16 DEF Revert, Goto, lock, call, history
<1>17. ASSUME NEW p \in Procs, RemoveMigration(p) PROVE CleanInv'
    BY <1>17 DEF RemoveMigration, Advance, Goto, None, lock, call, history
<1>18. ASSUME NEW p \in Procs, QueryFails(p) PROVE CleanInv'
    BY <1>18 DEF QueryFails, Return, AfterError, NextMigration, Advance, Goto,
        lock, call, history
<1>19. ASSUME NEW p \in Procs, Crash(p) PROVE CleanInv'
    BY <1>19 DEF Crash, FreeLock, Return, Goto, Excuse, lock, call, history
<1>20. ASSUME NEW p \in Procs, ExecuteUpTimesOut(p) PROVE CleanInv'
    BY <1>20 DEF ExecuteUpTimesOut, LoseLock, FreeLock, AfterError, NextMigration, Advance, Goto,
        lock, call, history
<1>21. ASSUME NEW p \in Procs, CommitUpFails(p) PROVE CleanInv'
    BY <1>21 DEF CommitUpFails, AfterError, NextMigration, Advance, Goto,
        Excuse, lock, call, history
<1>22. ASSUME NEW p \in Procs, RecordUpFails(p) PROVE CleanInv'
    BY <1>22 DEF RecordUpFails, AfterError, NextMigration, Advance, Goto,
        Excuse, lock, call, history
<1>23. ASSUME NEW p \in Procs, RecordFailedLost(p) PROVE CleanInv'
    BY <1>23 DEF RecordFailedLost, AfterError, NextMigration, Advance, Goto,
        lock, call, history
<1>24. ASSUME NEW p \in Procs, CommitTxFails(p) PROVE CleanInv'
    BY <1>24 DEF CommitTxFails, Goto, Excuse, lock, call, history
<1>25. ASSUME NEW p \in Procs, RecordTxFails(p) PROVE CleanInv'
    BY <1>25 DEF RecordTxFails, Advance, Goto, Excuse, Row, None, lock, call, history
<1>26. ASSUME NEW p \in Procs, RevertFails(p) PROVE CleanInv'
    BY <1>26 DEF RevertFails, Goto, Excuse, lock, call, history
<1>27. ASSUME NEW p \in Procs, RemoveMigrationFails(p) PROVE CleanInv'
    BY <1>27 DEF RemoveMigrationFails, Goto, Excuse, lock, call, history
<1>28. ASSUME NEW m \in Migs, ForceMigration(m) PROVE CleanInv'
    BY <1>28 DEF ForceMigration, Repair, Excuse, Is, Row, lock, call, history
<1>29. ASSUME NEW m \in Migs, Retry(m) PROVE CleanInv'
    BY <1>29 DEF Retry, Repair, Excuse, Is, None, lock, call, history
<1>30. ASSUME UNCHANGED vars PROVE CleanInv'
    BY <1>30 DEF vars, lock, call, history
<1>31. ASSUME NEW p \in Procs, AcquireAtOnce(p) PROVE CleanInv'
    BY <1>31 DEF AcquireAtOnce, Locked, Goto, Excuse, lock, call, history
<1>32. ASSUME NEW p \in Procs, AcquireAgain(p) PROVE CleanInv'
    BY <1>32 DEF AcquireAgain, Locked, Goto, Excuse, lock, call, history
<1>33. ASSUME NEW p \in Procs, ReleaseFails(p) PROVE CleanInv'
    BY <1>33 DEF ReleaseFails, LoseLock, FreeLock, Return, Goto, call, history
<1>34. ASSUME NEW p \in Procs, CloseConnection(p) PROVE CleanInv'
    BY <1>34 DEF CloseConnection, LoseLock, FreeLock, Working, call, history
<1> QED
    BY <1>1, <1>2, <1>3, <1>4, <1>5, <1>6, <1>7, <1>8, <1>9, <1>10,
        <1>11, <1>12, <1>13, <1>14, <1>15, <1>16, <1>17, <1>18, <1>19,
        <1>20, <1>21, <1>22, <1>23, <1>24, <1>25, <1>26, <1>27, <1>28,
        <1>29, <1>30, <1>31, <1>32,
        <1>33, <1>34
    DEF Next, Step, Mishap

LEMMA ChecksumStep == ShapeInv /\ OwnerInv /\ ChecksumInv /\ [Next]_vars => ChecksumInv'
<1> USE NobodyAssumption DEF ShapeInv, Records, PCs, OwnerInv, Working, ChecksumInv,
    Verified, VerifiedKinds, DownKinds
<1> SUFFICES ASSUME ShapeInv, OwnerInv, ChecksumInv, [Next]_vars PROVE ChecksumInv'
    OBVIOUS
<1>1. ASSUME NEW p \in Procs, NEW k \in Kinds, Start(p, k) PROVE ChecksumInv'
    BY <1>1, KindsAssumption DEF Start, Goto, history
<1>2. ASSUME NEW p \in Procs, Acquire(p) PROVE ChecksumInv'
    BY <1>2 DEF Acquire, Locked, Goto, Excuse, Free, lock, call, history
<1>3. ASSUME NEW p \in Procs, AcquireTimesOut(p) PROVE ChecksumInv'
    BY <1>3 DEF AcquireTimesOut, Return, Goto, lock, call, history
<1>4. ASSUME NEW p \in Procs, Release(p) PROVE ChecksumInv'
    BY <1>4 DEF Release, FreeLock, Return, Goto, lock, call, history
<1>5. ASSUME NEW p \in Procs, CheckForDirtyDatabase(p) PROVE ChecksumInv'
    BY <1>5 DEF CheckForDirtyDatabase, Goto, Is, lock, call, history
<1>6. ASSUME NEW p \in Procs, VerifyChecksums(p) PROVE ChecksumInv'
    BY <1>6 DEF VerifyChecksums, Goto, Is, lock, call, history
<1>7. ASSUME NEW p \in Procs, MakePlan(p) PROVE ChecksumInv'
    BY <1>7 DEF MakePlan, Goto, Return, Excuse, lock, call, history
<1>8. ASSUME NEW p \in Procs, ExecuteUp(p) PROVE ChecksumInv'
    BY <1>8, InterruptedExcuses DEF ExecuteUp, Goto, lock, call, history
<1>9. ASSUME NEW p \in Procs, CommitUp(p) PROVE ChecksumInv'
    BY <1>9 DEF CommitUp, Goto, lock, call, history
<1>10. ASSUME NEW p \in Procs, RecordUp(p) PROVE ChecksumInv'
  <2> SUFFICES ASSUME ~unlocked', NEW q \in Procs, Verified(q)',
                      NEW m \in Migs, m \notin excused', record'[m].status = "applied"
               PROVE record'[m].sum = Sum(BuildOf[q], m)
      OBVIOUS
  <2>1. ~unlocked /\ UNCHANGED <<kind, excused>>
      BY <1>10 DEF RecordUp, NextMigration, lock, call
  <2>2. Working(p) /\ q = p
      BY <1>10, <2>1 DEF RecordUp, NextMigration, Advance, Goto
  <2>3. CASE m \in At(p)
      BY <1>10, <2>1, <2>2, <2>3 DEF RecordUp, Row, Is
  <2>4. CASE m \notin At(p)
      BY <1>10, <2>1, <2>2, <2>4 DEF RecordUp, Row
  <2> QED BY <2>3, <2>4
<1>11. ASSUME NEW p \in Procs, RecordUpConflicts(p) PROVE ChecksumInv'
    BY <1>11 DEF RecordUpConflicts, AfterError, NextMigration, Advance, Goto,
        lock, call, history
<1>12. ASSUME NEW p \in Procs, RecordFailed(p) PROVE ChecksumInv'
    BY <1>12 DEF RecordFailed, AfterError, NextMigration, Advance, Goto, Row,
        Is, lock, call, history
<1>13. ASSUME NEW p \in Procs, ExecuteTx(p) PROVE ChecksumInv'
    BY <1>13, InterruptedExcuses DEF ExecuteTx, Goto, lock, call, history
<1>14. ASSUME NEW p \in Procs, CommitTx(p) PROVE ChecksumInv'
    BY <1>14 DEF CommitTx, Goto, lock, call, history
<1>15. ASSUME NEW p \in Procs, RecordTx(p) PROVE ChecksumInv'
    BY <1>15 DEF RecordTx, Advance, Goto, Row, Is, lock, call, history
<1>16. ASSUME NEW p \in Procs, Revert(p) PROVE ChecksumInv'
    BY <1>16, InterruptedExcuses DEF Revert, Goto, lock, call, history
<1>17. ASSUME NEW p \in Procs, RemoveMigration(p) PROVE ChecksumInv'
    BY <1>17 DEF RemoveMigration, Advance, Goto, None, lock, call, history
<1>18. ASSUME NEW p \in Procs, QueryFails(p) PROVE ChecksumInv'
    BY <1>18 DEF QueryFails, Return, AfterError, NextMigration, Advance, Goto,
        lock, call, history
<1>19. ASSUME NEW p \in Procs, Crash(p) PROVE ChecksumInv'
    BY <1>19, InterruptedExcuses DEF Crash, FreeLock, Return, Goto, Excuse, lock, call, history
<1>20. ASSUME NEW p \in Procs, ExecuteUpTimesOut(p) PROVE ChecksumInv'
    BY <1>20, InterruptedExcuses DEF ExecuteUpTimesOut, LoseLock, FreeLock, AfterError, NextMigration,
        Advance, Goto,
        lock, call, history
<1>21. ASSUME NEW p \in Procs, CommitUpFails(p) PROVE ChecksumInv'
    BY <1>21 DEF CommitUpFails, AfterError, NextMigration, Advance, Goto,
        Excuse, lock, call, history
<1>22. ASSUME NEW p \in Procs, RecordUpFails(p) PROVE ChecksumInv'
    BY <1>22 DEF RecordUpFails, AfterError, NextMigration, Advance, Goto,
        Excuse, lock, call, history
<1>23. ASSUME NEW p \in Procs, RecordFailedLost(p) PROVE ChecksumInv'
    BY <1>23 DEF RecordFailedLost, AfterError, NextMigration, Advance, Goto,
        lock, call, history
<1>24. ASSUME NEW p \in Procs, CommitTxFails(p) PROVE ChecksumInv'
    BY <1>24 DEF CommitTxFails, Goto, Excuse, lock, call, history
<1>25. ASSUME NEW p \in Procs, RecordTxFails(p) PROVE ChecksumInv'
    BY <1>25 DEF RecordTxFails, Advance, Goto, Excuse, lock, call, history
<1>26. ASSUME NEW p \in Procs, RevertFails(p) PROVE ChecksumInv'
    BY <1>26 DEF RevertFails, Goto, Excuse, lock, call, history
<1>27. ASSUME NEW p \in Procs, RemoveMigrationFails(p) PROVE ChecksumInv'
    BY <1>27 DEF RemoveMigrationFails, Goto, Excuse, lock, call, history
<1>28. ASSUME NEW m \in Migs, ForceMigration(m) PROVE ChecksumInv'
    BY <1>28 DEF ForceMigration, Repair, Excuse, Is, Row, lock, call, history
<1>29. ASSUME NEW m \in Migs, Retry(m) PROVE ChecksumInv'
    BY <1>29 DEF Retry, Repair, Excuse, Is, None, lock, call, history
<1>30. ASSUME UNCHANGED vars PROVE ChecksumInv'
    BY <1>30 DEF vars, lock, call, history
<1>31. ASSUME NEW p \in Procs, AcquireAtOnce(p) PROVE ChecksumInv'
    BY <1>31 DEF AcquireAtOnce, Locked, Goto, Excuse, lock, call, history
<1>32. ASSUME NEW p \in Procs, AcquireAgain(p) PROVE ChecksumInv'
    BY <1>32 DEF AcquireAgain, Locked, Goto, Excuse, lock, call, history
<1>33. ASSUME NEW p \in Procs, ReleaseFails(p) PROVE ChecksumInv'
    BY <1>33 DEF ReleaseFails, LoseLock, FreeLock, Return, Goto, call, history
<1>34. ASSUME NEW p \in Procs, CloseConnection(p) PROVE ChecksumInv'
    BY <1>34 DEF CloseConnection, LoseLock, FreeLock, Working, call, history
<1> QED
    BY <1>1, <1>2, <1>3, <1>4, <1>5, <1>6, <1>7, <1>8, <1>9, <1>10,
        <1>11, <1>12, <1>13, <1>14, <1>15, <1>16, <1>17, <1>18, <1>19,
        <1>20, <1>21, <1>22, <1>23, <1>24, <1>25, <1>26, <1>27, <1>28,
        <1>29, <1>30, <1>31, <1>32,
        <1>33, <1>34
    DEF Next, Step, Mishap

LEMMA PlaceStep == ShapeInv /\ PlaceInv /\ [Next]_vars => PlaceInv'
<1> USE KindsAssumption DEF ShapeInv, PCs, PlaceInv, UpKinds, DownKinds
<1> SUFFICES ASSUME ShapeInv, PlaceInv, [Next]_vars PROVE PlaceInv'
    OBVIOUS
<1>1. ASSUME NEW p \in Procs, NEW k \in Kinds, Start(p, k) PROVE PlaceInv'
    BY <1>1, KindsAssumption DEF Start, Goto, history
<1>2. ASSUME NEW p \in Procs, Acquire(p) PROVE PlaceInv'
    BY <1>2 DEF Acquire, Locked, Goto, Excuse, Free, lock, call, history
<1>3. ASSUME NEW p \in Procs, AcquireTimesOut(p) PROVE PlaceInv'
    BY <1>3 DEF AcquireTimesOut, Return, Goto, lock, call, history
<1>4. ASSUME NEW p \in Procs, Release(p) PROVE PlaceInv'
    BY <1>4 DEF Release, FreeLock, Return, Goto, lock, call, history
<1>5. ASSUME NEW p \in Procs, CheckForDirtyDatabase(p) PROVE PlaceInv'
    BY <1>5 DEF CheckForDirtyDatabase, Goto, Is, lock, call, history
<1>6. ASSUME NEW p \in Procs, VerifyChecksums(p) PROVE PlaceInv'
    BY <1>6 DEF VerifyChecksums, Goto, Is, lock, call, history
<1>7. ASSUME NEW p \in Procs, MakePlan(p) PROVE PlaceInv'
    BY <1>7 DEF MakePlan, Goto, Return, Excuse, lock, call, history
<1>8. ASSUME NEW p \in Procs, ExecuteUp(p) PROVE PlaceInv'
    BY <1>8 DEF ExecuteUp, Goto, lock, call, history
<1>9. ASSUME NEW p \in Procs, CommitUp(p) PROVE PlaceInv'
    BY <1>9 DEF CommitUp, Goto, lock, call, history
<1>10. ASSUME NEW p \in Procs, RecordUp(p) PROVE PlaceInv'
    BY <1>10 DEF RecordUp, NextMigration, Advance, Goto, Row, Is, lock, call, history
<1>11. ASSUME NEW p \in Procs, RecordUpConflicts(p) PROVE PlaceInv'
    BY <1>11 DEF RecordUpConflicts, AfterError, NextMigration, Advance, Goto, lock, call,
        history
<1>12. ASSUME NEW p \in Procs, RecordFailed(p) PROVE PlaceInv'
    BY <1>12 DEF RecordFailed, AfterError, NextMigration, Advance, Goto, Row, Is, lock, call,
        history
<1>13. ASSUME NEW p \in Procs, ExecuteTx(p) PROVE PlaceInv'
    BY <1>13 DEF ExecuteTx, Goto, lock, call, history
<1>14. ASSUME NEW p \in Procs, CommitTx(p) PROVE PlaceInv'
    BY <1>14 DEF CommitTx, Goto, lock, call, history
<1>15. ASSUME NEW p \in Procs, RecordTx(p) PROVE PlaceInv'
    BY <1>15 DEF RecordTx, Advance, Goto, Row, Is, lock, call, history
<1>16. ASSUME NEW p \in Procs, Revert(p) PROVE PlaceInv'
    BY <1>16 DEF Revert, Goto, lock, call, history
<1>17. ASSUME NEW p \in Procs, RemoveMigration(p) PROVE PlaceInv'
    BY <1>17 DEF RemoveMigration, Advance, Goto, None, lock, call, history
<1>18. ASSUME NEW p \in Procs, QueryFails(p) PROVE PlaceInv'
    BY <1>18 DEF QueryFails, Return, AfterError, NextMigration, Advance, Goto, lock, call,
        history
<1>19. ASSUME NEW p \in Procs, Crash(p) PROVE PlaceInv'
    BY <1>19 DEF Crash, FreeLock, Return, Goto, Excuse, lock, call, history
<1>20. ASSUME NEW p \in Procs, ExecuteUpTimesOut(p) PROVE PlaceInv'
    BY <1>20 DEF ExecuteUpTimesOut, LoseLock, FreeLock, AfterError, NextMigration, Advance, Goto, lock, call,
        history
<1>21. ASSUME NEW p \in Procs, CommitUpFails(p) PROVE PlaceInv'
    BY <1>21 DEF CommitUpFails, AfterError, NextMigration, Advance, Goto, Excuse, lock, call,
        history
<1>22. ASSUME NEW p \in Procs, RecordUpFails(p) PROVE PlaceInv'
    BY <1>22 DEF RecordUpFails, AfterError, NextMigration, Advance, Goto, Excuse, lock, call,
        history
<1>23. ASSUME NEW p \in Procs, RecordFailedLost(p) PROVE PlaceInv'
    BY <1>23 DEF RecordFailedLost, AfterError, NextMigration, Advance, Goto, lock, call,
        history
<1>24. ASSUME NEW p \in Procs, CommitTxFails(p) PROVE PlaceInv'
    BY <1>24 DEF CommitTxFails, Goto, Excuse, lock, call, history
<1>25. ASSUME NEW p \in Procs, RecordTxFails(p) PROVE PlaceInv'
    BY <1>25 DEF RecordTxFails, Advance, Goto, Excuse, lock, call, history
<1>26. ASSUME NEW p \in Procs, RevertFails(p) PROVE PlaceInv'
    BY <1>26 DEF RevertFails, Goto, Excuse, lock, call, history
<1>27. ASSUME NEW p \in Procs, RemoveMigrationFails(p) PROVE PlaceInv'
    BY <1>27 DEF RemoveMigrationFails, Goto, Excuse, lock, call, history
<1>28. ASSUME NEW m \in Migs, ForceMigration(m) PROVE PlaceInv'
    BY <1>28 DEF ForceMigration, Repair, Excuse, Is, Row, lock, call, history
<1>29. ASSUME NEW m \in Migs, Retry(m) PROVE PlaceInv'
    BY <1>29 DEF Retry, Repair, Excuse, Is, None, lock, call, history
<1>30. ASSUME UNCHANGED vars PROVE PlaceInv'
    BY <1>30 DEF vars, lock, call, history
<1>31. ASSUME NEW p \in Procs, AcquireAtOnce(p) PROVE PlaceInv'
    BY <1>31 DEF AcquireAtOnce, Locked, Goto, Excuse, lock, call, history
<1>32. ASSUME NEW p \in Procs, AcquireAgain(p) PROVE PlaceInv'
    BY <1>32 DEF AcquireAgain, Locked, Goto, Excuse, lock, call, history
<1>33. ASSUME NEW p \in Procs, ReleaseFails(p) PROVE PlaceInv'
    BY <1>33 DEF ReleaseFails, LoseLock, FreeLock, Return, Goto, call, history
<1>34. ASSUME NEW p \in Procs, CloseConnection(p) PROVE PlaceInv'
    BY <1>34 DEF CloseConnection, LoseLock, FreeLock, Working, call, history
<1> QED
    BY <1>1, <1>2, <1>3, <1>4, <1>5, <1>6, <1>7, <1>8, <1>9, <1>10, <1>11, <1>12,
        <1>13, <1>14, <1>15, <1>16, <1>17, <1>18, <1>19, <1>20, <1>21, <1>22, <1>23,
        <1>24, <1>25, <1>26, <1>27, <1>28, <1>29, <1>30, <1>31, <1>32,
        <1>33, <1>34 DEF Next, Step, Mishap

LEMMA ScanStep == ShapeInv /\ OwnerInv /\ ScanInv /\ [Next]_vars => ScanInv'
<1> USE NobodyAssumption DEF ShapeInv, PCs, Records, OwnerInv, Working, ScanInv,
    DownKinds
<1> SUFFICES ASSUME ShapeInv, OwnerInv, ScanInv, [Next]_vars PROVE ScanInv'
    OBVIOUS
<1>1. ASSUME NEW p \in Procs, NEW k \in Kinds, Start(p, k) PROVE ScanInv'
    BY <1>1, KindsAssumption DEF Start, Goto, history
<1>2. ASSUME NEW p \in Procs, Acquire(p) PROVE ScanInv'
    BY <1>2 DEF Acquire, Locked, Goto, Excuse, Free, lock, call, history
<1>3. ASSUME NEW p \in Procs, AcquireTimesOut(p) PROVE ScanInv'
    BY <1>3 DEF AcquireTimesOut, Return, Goto, lock, call, history
<1>4. ASSUME NEW p \in Procs, Release(p) PROVE ScanInv'
    BY <1>4 DEF Release, FreeLock, Return, Goto, lock, call, history
<1>5. ASSUME NEW p \in Procs, CheckForDirtyDatabase(p) PROVE ScanInv'
    BY <1>5 DEF CheckForDirtyDatabase, Goto, Is, lock, call, history
<1>6. ASSUME NEW p \in Procs, VerifyChecksums(p) PROVE ScanInv'
    BY <1>6 DEF VerifyChecksums, Goto, Is, lock, call, history
<1>7. ASSUME NEW p \in Procs, MakePlan(p) PROVE ScanInv'
    BY <1>7 DEF MakePlan, Goto, Return, Excuse, lock, call, history
<1>8. ASSUME NEW p \in Procs, ExecuteUp(p) PROVE ScanInv'
    BY <1>8 DEF ExecuteUp, Goto, lock, call, history
<1>9. ASSUME NEW p \in Procs, CommitUp(p) PROVE ScanInv'
    BY <1>9 DEF CommitUp, Goto, lock, call, history
<1>10. ASSUME NEW p \in Procs, RecordUp(p) PROVE ScanInv'
    BY <1>10 DEF RecordUp, NextMigration, Advance, Goto, Row, Is, lock, call, history
<1>11. ASSUME NEW p \in Procs, RecordUpConflicts(p) PROVE ScanInv'
    BY <1>11 DEF RecordUpConflicts, AfterError, NextMigration, Advance, Goto, lock, call,
        history
<1>12. ASSUME NEW p \in Procs, RecordFailed(p) PROVE ScanInv'
    BY <1>12 DEF RecordFailed, AfterError, NextMigration, Advance, Goto, Row, Is, lock, call,
        history
<1>13. ASSUME NEW p \in Procs, ExecuteTx(p) PROVE ScanInv'
    BY <1>13 DEF ExecuteTx, Goto, lock, call, history
<1>14. ASSUME NEW p \in Procs, CommitTx(p) PROVE ScanInv'
    BY <1>14 DEF CommitTx, Goto, lock, call, history
<1>15. ASSUME NEW p \in Procs, RecordTx(p) PROVE ScanInv'
    BY <1>15 DEF RecordTx, Advance, Goto, Row, Is, lock, call, history
<1>16. ASSUME NEW p \in Procs, Revert(p) PROVE ScanInv'
    BY <1>16 DEF Revert, Goto, lock, call, history
<1>17. ASSUME NEW p \in Procs, RemoveMigration(p) PROVE ScanInv'
    BY <1>17 DEF RemoveMigration, Advance, Goto, None, lock, call, history
<1>18. ASSUME NEW p \in Procs, QueryFails(p) PROVE ScanInv'
    BY <1>18 DEF QueryFails, Return, AfterError, NextMigration, Advance, Goto, lock, call,
        history
<1>19. ASSUME NEW p \in Procs, Crash(p) PROVE ScanInv'
    BY <1>19 DEF Crash, FreeLock, Return, Goto, Excuse, lock, call, history
<1>20. ASSUME NEW p \in Procs, ExecuteUpTimesOut(p) PROVE ScanInv'
    BY <1>20 DEF ExecuteUpTimesOut, LoseLock, FreeLock, AfterError, NextMigration, Advance, Goto, lock, call,
        history
<1>21. ASSUME NEW p \in Procs, CommitUpFails(p) PROVE ScanInv'
    BY <1>21 DEF CommitUpFails, AfterError, NextMigration, Advance, Goto, Excuse, lock, call,
        history
<1>22. ASSUME NEW p \in Procs, RecordUpFails(p) PROVE ScanInv'
    BY <1>22 DEF RecordUpFails, AfterError, NextMigration, Advance, Goto, Excuse, lock, call,
        history
<1>23. ASSUME NEW p \in Procs, RecordFailedLost(p) PROVE ScanInv'
    BY <1>23 DEF RecordFailedLost, AfterError, NextMigration, Advance, Goto, lock, call,
        history
<1>24. ASSUME NEW p \in Procs, CommitTxFails(p) PROVE ScanInv'
    BY <1>24 DEF CommitTxFails, Goto, Excuse, lock, call, history
<1>25. ASSUME NEW p \in Procs, RecordTxFails(p) PROVE ScanInv'
    BY <1>25 DEF RecordTxFails, Advance, Goto, Excuse, lock, call, history
<1>26. ASSUME NEW p \in Procs, RevertFails(p) PROVE ScanInv'
    BY <1>26 DEF RevertFails, Goto, Excuse, lock, call, history
<1>27. ASSUME NEW p \in Procs, RemoveMigrationFails(p) PROVE ScanInv'
    BY <1>27 DEF RemoveMigrationFails, Goto, Excuse, lock, call, history
<1>28. ASSUME NEW m \in Migs, ForceMigration(m) PROVE ScanInv'
    BY <1>28 DEF ForceMigration, Repair, Excuse, Is, Row, lock, call, history
<1>29. ASSUME NEW m \in Migs, Retry(m) PROVE ScanInv'
    BY <1>29 DEF Retry, Repair, Excuse, Is, None, lock, call, history
<1>30. ASSUME UNCHANGED vars PROVE ScanInv'
    BY <1>30 DEF vars, lock, call, history
<1>31. ASSUME NEW p \in Procs, AcquireAtOnce(p) PROVE ScanInv'
    BY <1>31 DEF AcquireAtOnce, Locked, Goto, Excuse, lock, call, history
<1>32. ASSUME NEW p \in Procs, AcquireAgain(p) PROVE ScanInv'
    BY <1>32 DEF AcquireAgain, Locked, Goto, Excuse, lock, call, history
<1>33. ASSUME NEW p \in Procs, ReleaseFails(p) PROVE ScanInv'
    BY <1>33 DEF ReleaseFails, LoseLock, FreeLock, Return, Goto, call, history
<1>34. ASSUME NEW p \in Procs, CloseConnection(p) PROVE ScanInv'
    BY <1>34 DEF CloseConnection, LoseLock, FreeLock, Working, call, history
<1> QED
    BY <1>1, <1>2, <1>3, <1>4, <1>5, <1>6, <1>7, <1>8, <1>9, <1>10, <1>11, <1>12,
        <1>13, <1>14, <1>15, <1>16, <1>17, <1>18, <1>19, <1>20, <1>21, <1>22, <1>23,
        <1>24, <1>25, <1>26, <1>27, <1>28, <1>29, <1>30, <1>31, <1>32,
        <1>33, <1>34 DEF Next, Step, Mishap

-----------------------------------------------------------------------------
(* What a step leaves to the other processes                               *)

\* The step is p's own: it moves no other process, history only grows.
Mine(p) == /\ \A q \in Procs \ {p} : pc'[q] = pc[q] /\ kind'[q] = kind[q] /\ todo'[q] = todo[q]
           /\ driver' = driver
           /\ unlocked => unlocked'
           /\ excused \subseteq excused'

LEMMA StartMine ==
    ASSUME ShapeInv, RestInv, NEW p \in Procs, NEW k, Start(p, k) PROVE Mine(p)
BY DEF ShapeInv, RestInv, Mine, Start, Goto, lock, call, history

LEMMA StepMine ==
    ASSUME ShapeInv, RestInv, NEW p \in Procs, 
           Step(p) \/ AcquireAgain(p) \/ CloseConnection(p) \/ Mishap(p)
    PROVE  Mine(p)
<1> USE InterruptedExcuses DEF ShapeInv, RestInv, Mine
<1>2. ASSUME Acquire(p) PROVE Mine(p)
    BY <1>2 DEF Acquire, Locked, Goto, Excuse, Free, lock, call, history
<1>3. ASSUME AcquireTimesOut(p) PROVE Mine(p)
    BY <1>3 DEF AcquireTimesOut, Return, Goto, lock, call, history
<1>4. ASSUME Release(p) PROVE Mine(p)
    BY <1>4 DEF Release, FreeLock, Return, Goto, lock, call, history
<1>5. ASSUME CheckForDirtyDatabase(p) PROVE Mine(p)
    BY <1>5 DEF CheckForDirtyDatabase, Goto, Is, lock, call, history
<1>6. ASSUME VerifyChecksums(p) PROVE Mine(p)
    BY <1>6 DEF VerifyChecksums, Goto, Is, lock, call, history
<1>7. ASSUME MakePlan(p) PROVE Mine(p)
    BY <1>7 DEF MakePlan, Goto, Return, Excuse, lock, call, history
<1>8. ASSUME ExecuteUp(p) PROVE Mine(p)
    BY <1>8 DEF ExecuteUp, Goto, lock, call, history
<1>9. ASSUME CommitUp(p) PROVE Mine(p)
    BY <1>9 DEF CommitUp, Goto, lock, call, history
<1>10. ASSUME RecordUp(p) PROVE Mine(p)
    BY <1>10 DEF RecordUp, NextMigration, Advance, Goto, Row, Is, lock, call, history
<1>11. ASSUME RecordUpConflicts(p) PROVE Mine(p)
    BY <1>11 DEF RecordUpConflicts, AfterError, NextMigration, Advance, Goto, lock, call,
        history
<1>12. ASSUME RecordFailed(p) PROVE Mine(p)
    BY <1>12 DEF RecordFailed, AfterError, NextMigration, Advance, Goto, Row, Is, lock, call,
        history
<1>13. ASSUME ExecuteTx(p) PROVE Mine(p)
    BY <1>13 DEF ExecuteTx, Goto, lock, call, history
<1>14. ASSUME CommitTx(p) PROVE Mine(p)
    BY <1>14 DEF CommitTx, Goto, lock, call, history
<1>15. ASSUME RecordTx(p) PROVE Mine(p)
    BY <1>15 DEF RecordTx, Advance, Goto, Row, Is, lock, call, history
<1>16. ASSUME Revert(p) PROVE Mine(p)
    BY <1>16 DEF Revert, Goto, lock, call, history
<1>17. ASSUME RemoveMigration(p) PROVE Mine(p)
    BY <1>17 DEF RemoveMigration, Advance, Goto, None, lock, call, history
<1>18. ASSUME QueryFails(p) PROVE Mine(p)
    BY <1>18 DEF QueryFails, Return, AfterError, NextMigration, Advance, Goto, lock, call,
        history
<1>19. ASSUME Crash(p) PROVE Mine(p)
    BY <1>19 DEF Crash, FreeLock, Return, Goto, Excuse, lock, call, history
<1>20. ASSUME ExecuteUpTimesOut(p) PROVE Mine(p)
    BY <1>20 DEF ExecuteUpTimesOut, LoseLock, FreeLock, AfterError, NextMigration, Advance, Goto, lock, call,
        history
<1>21. ASSUME CommitUpFails(p) PROVE Mine(p)
    BY <1>21 DEF CommitUpFails, AfterError, NextMigration, Advance, Goto, Excuse, lock, call,
        history
<1>22. ASSUME RecordUpFails(p) PROVE Mine(p)
    BY <1>22 DEF RecordUpFails, AfterError, NextMigration, Advance, Goto, Excuse, lock, call,
        history
<1>23. ASSUME RecordFailedLost(p) PROVE Mine(p)
    BY <1>23 DEF RecordFailedLost, AfterError, NextMigration, Advance, Goto, lock, call,
        history
<1>24. ASSUME CommitTxFails(p) PROVE Mine(p)
    BY <1>24 DEF CommitTxFails, Goto, Excuse, lock, call, history
<1>25. ASSUME RecordTxFails(p) PROVE Mine(p)
    BY <1>25 DEF RecordTxFails, Advance, Goto, Excuse, lock, call, history
<1>26. ASSUME RevertFails(p) PROVE Mine(p)
    BY <1>26 DEF RevertFails, Goto, Excuse, lock, call, history
<1>27. ASSUME RemoveMigrationFails(p) PROVE Mine(p)
    BY <1>27 DEF RemoveMigrationFails, Goto, Excuse, lock, call, history
<1>31. ASSUME AcquireAtOnce(p) PROVE Mine(p)
    BY <1>31 DEF AcquireAtOnce, Locked, Goto, Excuse, lock, call, history
<1>32. ASSUME AcquireAgain(p) PROVE Mine(p)
    BY <1>32 DEF AcquireAgain, Locked, Goto, Excuse, lock, call, history
<1>33. ASSUME ReleaseFails(p) PROVE Mine(p)
    BY <1>33 DEF ReleaseFails, LoseLock, FreeLock, Return, Goto, call, history
<1>34. ASSUME CloseConnection(p) PROVE Mine(p)
    BY <1>34 DEF CloseConnection, LoseLock, FreeLock, Working, call, history
<1> QED
    BY <1>2, <1>3, <1>4, <1>5, <1>6, <1>7, <1>8, <1>9, <1>10, <1>11, <1>12, <1>13,
        <1>14, <1>15, <1>16, <1>17, <1>18, <1>19, <1>20, <1>21, <1>22, <1>23, <1>24,
        <1>25, <1>26, <1>27, <1>31, <1>32,
        <1>33, <1>34 DEF Step, Mishap

\* Where todo holds what has no record yet.
FreshPlaces == {"exec", "fail", "commit", "record", "execTx", "commitTx", "recordTx"}

LEMMA FreshKept ==
    ASSUME ShapeInv, OwnerInv, FreshInv, NEW p \in Procs, Mine(p), pc[p] \in FreshPlaces,
           pc'[p] \in FreshPlaces =>
               \A m \in todo'[p] : m \in todo[p] /\ record'[m].status = record[m].status
    PROVE  FreshInv'
<1> USE DEF Mine, FreshPlaces
<1> SUFFICES ASSUME ~unlocked', NEW q \in Procs, pc'[q] \in FreshPlaces, NEW m \in todo'[q] \ excused'
             PROVE  record'[m].status = "none"
    BY DEF FreshInv
<1>1. CASE q = p
    BY <1>1 DEF FreshInv
<1>2. CASE q # p
  <2>1. Working(p) /\ Working(q)
      BY <1>2 DEF Working
  <2> QED BY <1>2, <2>1, NobodyAssumption DEF OwnerInv
<1> QED BY <1>1, <1>2

LEMMA FreshStep ==
    ShapeInv /\ RestInv /\ PlaceInv /\ OwnerInv /\ CleanInv /\ ScanInv /\ FreshInv /\ [Next]_vars
    => FreshInv'
<1> USE AtLeft, NobodyAssumption DEF ShapeInv, PCs, OwnerInv, Working, FreshInv
<1> SUFFICES ASSUME ShapeInv, RestInv, PlaceInv, OwnerInv, CleanInv, ScanInv, FreshInv,
                    [Next]_vars
             PROVE  FreshInv'
    OBVIOUS
<1>1. ASSUME NEW p \in Procs, NEW k \in Kinds, Start(p, k) PROVE FreshInv'
    BY <1>1, KindsAssumption DEF Start, Goto, history
<1>2. ASSUME NEW p \in Procs, Acquire(p) PROVE FreshInv'
  <2> SUFFICES ASSUME ~unlocked', NEW q \in Procs, pc'[q] \in FreshPlaces, NEW m \in todo'[q] \ excused'
               PROVE  record'[m].status = "none"
      BY DEF FreshInv, FreshPlaces
  <2>1. CASE q # p
      BY <1>2, <2>1 DEF Acquire, Locked, Goto, Excuse, call, FreshPlaces
  <2>2. CASE q = p
      BY <1>2, <2>2 DEF Acquire, Locked, Goto, Excuse, call, FreshPlaces, Is, RestInv
  <2> QED BY <2>1, <2>2
<1>3. ASSUME NEW p \in Procs, AcquireTimesOut(p) PROVE FreshInv'
    BY <1>3 DEF AcquireTimesOut, Return, Goto, lock, call, history
<1>4. ASSUME NEW p \in Procs, Release(p) PROVE FreshInv'
    BY <1>4 DEF Release, FreeLock, Return, Goto, lock, call, history
<1>5. ASSUME NEW p \in Procs, CheckForDirtyDatabase(p) PROVE FreshInv'
    BY <1>5 DEF CheckForDirtyDatabase, Goto, Is, lock, call, history
<1>6. ASSUME NEW p \in Procs, VerifyChecksums(p) PROVE FreshInv'
    BY <1>6 DEF VerifyChecksums, Goto, Is, lock, call, history
<1>7. ASSUME NEW p \in Procs, MakePlan(p) PROVE FreshInv'
  <2> SUFFICES ASSUME ~unlocked', NEW q \in Procs, pc'[q] \in FreshPlaces, NEW m \in todo'[q] \ excused'
               PROVE  record'[m].status = "none"
      BY DEF FreshInv, FreshPlaces
  <2>4. Mine(p) /\ record' = record /\ ~unlocked /\ m \in Migs
      BY <1>7, StepMine, RestStep DEF Step, MakePlan, RestInv, history
  <2>1. CASE q # p
      BY <2>4, <2>1 DEF Mine, FreshPlaces
  <2>2. CASE q = p
    <3>1. pc[p] = "plan" /\ kind[p] # "upSource" /\ kind[p] \notin DownKinds
        BY <1>7, <2>2 DEF MakePlan, Goto, Return, FreshPlaces
    <3>2. m \in Plan(kind[p], want[p])
        BY <1>7, <2>2, <3>1 DEF MakePlan, Goto, Return, FreshPlaces, RestInv
    <3>3. kind[p] = "runUp" => record[m].status = "none"
        BY <1>7, <3>1, <3>2, <2>2 DEF MakePlan, Excuse, Plan, Is
    <3>4. kind[p] # "runUp" => record[m].status # "applied"
        BY <3>1, <3>2 DEF Plan, Pending, First, DownKinds, Is
    <3>5. kind[p] # "runUp" => record[m].status # "failed"
        BY <2>4, <3>1 DEF CleanInv, Checked, CheckedKinds, ScanInv, UpKinds, DownKinds
    <3>6. record[m].status \in {"none", "applied", "failed"}
        BY <2>4 DEF Records
    <3> QED BY <2>4, <3>3, <3>4, <3>5, <3>6
  <2> QED BY <2>1, <2>2
<1>8. ASSUME NEW p \in Procs, ExecuteUp(p) PROVE FreshInv'
    BY <1>8, InterruptedExcuses DEF ExecuteUp, Goto, lock, call, history
<1>9. ASSUME NEW p \in Procs, CommitUp(p) PROVE FreshInv'
    BY <1>9 DEF CommitUp, Goto, lock, call, history
<1>10. ASSUME NEW p \in Procs, RecordUp(p) PROVE FreshInv'
  <2>1. Mine(p)
      BY <1>10, StepMine DEF Step, Mishap
  <2>2. pc[p] \in FreshPlaces
      BY <1>10 DEF RecordUp, FreshPlaces
  <2>3. pc'[p] \in FreshPlaces =>
             \A m \in todo'[p] : m \in todo[p] /\ record'[m].status = record[m].status
    <3>1. PICK n \in At(p) : \A m \in Migs : m # n => record'[m] = record[m]
        BY <1>10 DEF RecordUp, ShapeInv
    <3>2. todo[p] \subseteq Migs /\ \A m \in Left(p) : m \in todo[p] /\ m # n
        BY <3>1 DEF RestInv, Left
    <3>3. pc'[p] \in FreshPlaces => todo'[p] = Left(p)
        BY <1>10 DEF FreshPlaces, ShapeInv, RestInv, RecordUp, NextMigration, Advance,
            Goto, Row, Is, lock, call, history
    <3> QED BY <3>1, <3>2, <3>3
  <2> QED BY <2>1, <2>2, <2>3, FreshKept
<1>11. ASSUME NEW p \in Procs, RecordUpConflicts(p) PROVE FreshInv'
  <2>1. Mine(p)
      BY <1>11, StepMine DEF Step, Mishap
  <2>2. pc[p] \in FreshPlaces
      BY <1>11 DEF RecordUpConflicts, FreshPlaces
  <2>3. pc'[p] \in FreshPlaces =>
             \A m \in todo'[p] : m \in todo[p] /\ record'[m].status = record[m].status
      BY <1>11, AtLeft DEF ShapeInv, RestInv, RecordUpConflicts, AfterError,
          NextMigration, Advance, Goto, lock, call, history, Left
  <2> QED BY <2>1, <2>2, <2>3, FreshKept
<1>12. ASSUME NEW p \in Procs, RecordFailed(p) PROVE FreshInv'
  <2>1. Mine(p)
      BY <1>12, StepMine DEF Step, Mishap
  <2>2. pc[p] \in FreshPlaces
      BY <1>12 DEF RecordFailed, FreshPlaces
  <2>3. pc'[p] \in FreshPlaces =>
             \A m \in todo'[p] : m \in todo[p] /\ record'[m].status = record[m].status
    <3>1. PICK n \in At(p) : \A m \in Migs : m # n => record'[m] = record[m]
        BY <1>12 DEF RecordFailed, ShapeInv
    <3>2. todo[p] \subseteq Migs /\ \A m \in Left(p) : m \in todo[p] /\ m # n
        BY <3>1 DEF RestInv, Left
    <3>3. pc'[p] \in FreshPlaces => todo'[p] = Left(p)
        BY <1>12 DEF FreshPlaces, ShapeInv, RestInv, RecordFailed, AfterError,
            NextMigration, Advance, Goto, Row, Is, lock, call, history
    <3> QED BY <3>1, <3>2, <3>3
  <2> QED BY <2>1, <2>2, <2>3, FreshKept
<1>13. ASSUME NEW p \in Procs, ExecuteTx(p) PROVE FreshInv'
    BY <1>13, InterruptedExcuses DEF ExecuteTx, Goto, lock, call, history
<1>14. ASSUME NEW p \in Procs, CommitTx(p) PROVE FreshInv'
    BY <1>14 DEF CommitTx, Goto, lock, call, history
<1>15. ASSUME NEW p \in Procs, RecordTx(p) PROVE FreshInv'
  <2>1. Mine(p)
      BY <1>15, StepMine DEF Step, Mishap
  <2>2. pc[p] \in FreshPlaces
      BY <1>15 DEF RecordTx, FreshPlaces
  <2>3. pc'[p] \in FreshPlaces =>
             \A m \in todo'[p] : m \in todo[p] /\ record'[m].status = record[m].status
    <3>1. PICK n \in At(p) : \A m \in Migs : m # n => record'[m] = record[m]
        BY <1>15 DEF RecordTx, ShapeInv
    <3>2. todo[p] \subseteq Migs /\ \A m \in Left(p) : m \in todo[p] /\ m # n
        BY <3>1 DEF RestInv, Left
    <3>3. pc'[p] \in FreshPlaces => todo'[p] = Left(p)
        BY <1>15 DEF FreshPlaces, ShapeInv, RestInv, RecordTx, Advance, Goto, Row, Is,
            lock, call, history
    <3> QED BY <3>1, <3>2, <3>3
  <2> QED BY <2>1, <2>2, <2>3, FreshKept
<1>16. ASSUME NEW p \in Procs, Revert(p) PROVE FreshInv'
    BY <1>16, InterruptedExcuses DEF Revert, Goto, lock, call, history
<1>17. ASSUME NEW p \in Procs, RemoveMigration(p) PROVE FreshInv'
    BY <1>17 DEF RemoveMigration, Advance, Goto, None, lock, call, history
<1>18. ASSUME NEW p \in Procs, QueryFails(p) PROVE FreshInv'
  <2>1. CASE pc[p] = "exec"
    <3>1. Mine(p) /\ pc[p] \in FreshPlaces
        BY <1>18, <2>1, StepMine DEF Step, Mishap, FreshPlaces
    <3>2. pc'[p] \in FreshPlaces =>
             \A m \in todo'[p] : m \in todo[p] /\ record'[m].status = record[m].status
        BY <1>18, <2>1, AtLeft DEF QueryFails, ShapeInv, RestInv, AfterError,
            NextMigration, Advance, Goto
    <3> QED BY <3>1, <3>2, FreshKept
  <2>2. CASE pc[p] # "exec"
    <3>1. Mine(p) /\ record' = record
        BY <1>18, StepMine DEF Step, Mishap, QueryFails
    <3>2. pc'[p] \in {"idle", "release"}
        BY <1>18, <2>2 DEF QueryFails, Return, Goto
    <3>3. \A q \in Procs \ {p} : pc'[q] = pc[q] /\ todo'[q] = todo[q]
        BY <3>1 DEF Mine
    <3> QED BY <3>1, <3>2, <3>3 DEF Mine
  <2> QED BY <2>1, <2>2
<1>19. ASSUME NEW p \in Procs, Crash(p) PROVE FreshInv'
    BY <1>19, InterruptedExcuses DEF Crash, FreeLock, Return, Goto, Excuse, lock, call, history
<1>20. ASSUME NEW p \in Procs, ExecuteUpTimesOut(p) PROVE FreshInv'
  <2>1. Mine(p)
      BY <1>20, StepMine DEF Step, Mishap
  <2>2. pc[p] \in FreshPlaces
      BY <1>20 DEF ExecuteUpTimesOut, LoseLock, FreeLock, FreshPlaces
  <2>3. pc'[p] \in FreshPlaces =>
             \A m \in todo'[p] : m \in todo[p] /\ record'[m].status = record[m].status
      BY <1>20, AtLeft DEF ShapeInv, RestInv, ExecuteUpTimesOut, AfterError,
          NextMigration, Advance, Goto, lock, call, history, Left
  <2> QED BY <2>1, <2>2, <2>3, FreshKept
<1>21. ASSUME NEW p \in Procs, CommitUpFails(p) PROVE FreshInv'
  <2>1. Mine(p)
      BY <1>21, StepMine DEF Step, Mishap
  <2>2. pc[p] \in FreshPlaces
      BY <1>21 DEF CommitUpFails, FreshPlaces
  <2>3. pc'[p] \in FreshPlaces =>
             \A m \in todo'[p] : m \in todo[p] /\ record'[m].status = record[m].status
      BY <1>21, AtLeft DEF ShapeInv, RestInv, CommitUpFails, AfterError, NextMigration,
          Advance, Goto, Excuse, lock, call, history, Left
  <2> QED BY <2>1, <2>2, <2>3, FreshKept
<1>22. ASSUME NEW p \in Procs, RecordUpFails(p) PROVE FreshInv'
  <2>1. Mine(p)
      BY <1>22, StepMine DEF Step, Mishap
  <2>2. pc[p] \in FreshPlaces
      BY <1>22 DEF RecordUpFails, FreshPlaces
  <2>3. pc'[p] \in FreshPlaces =>
             \A m \in todo'[p] : m \in todo[p] /\ record'[m].status = record[m].status
    <3>1. \A m \in todo'[p] : pc'[p] \in FreshPlaces => m \in Left(p)
        BY <1>22 DEF RestInv, ShapeInv, RecordUpFails, AfterError, NextMigration, Advance, Goto,
            call, FreshPlaces
    <3>2. \A m \in Left(p) : record'[m] = record[m] /\ m \in todo[p]
        BY <1>22, AtLeft DEF ShapeInv, RestInv, RecordUpFails, Left
    <3> QED BY <3>1, <3>2
  <2> QED BY <2>1, <2>2, <2>3, FreshKept
<1>23. ASSUME NEW p \in Procs, RecordFailedLost(p) PROVE FreshInv'
  <2>1. Mine(p)
      BY <1>23, StepMine DEF Step, Mishap
  <2>2. pc[p] \in FreshPlaces
      BY <1>23 DEF RecordFailedLost, FreshPlaces
  <2>3. pc'[p] \in FreshPlaces =>
             \A m \in todo'[p] : m \in todo[p] /\ record'[m].status = record[m].status
      BY <1>23, AtLeft DEF ShapeInv, RestInv, RecordFailedLost, AfterError, NextMigration,
          Advance, Goto, lock, call, history, Left
  <2> QED BY <2>1, <2>2, <2>3, FreshKept
<1>24. ASSUME NEW p \in Procs, CommitTxFails(p) PROVE FreshInv'
    BY <1>24 DEF CommitTxFails, Goto, Excuse, lock, call, history
<1>25. ASSUME NEW p \in Procs, RecordTxFails(p) PROVE FreshInv'
  <2>1. Mine(p) /\ pc[p] \in FreshPlaces
      BY <1>25, StepMine DEF Step, Mishap, RecordTxFails, FreshPlaces
  <2>2. \A m \in todo'[p] : m \in Left(p)
      BY <1>25 DEF RestInv, RecordTxFails, Advance
  <2>3. \A m \in Left(p) : record'[m] = record[m] /\ m \in todo[p]
      BY <1>25, AtLeft DEF ShapeInv, RestInv, RecordTxFails, Left
  <2> QED BY <2>1, <2>2, <2>3, FreshKept
<1>26. ASSUME NEW p \in Procs, RevertFails(p) PROVE FreshInv'
    BY <1>26 DEF RevertFails, Goto, Excuse, lock, call, history
<1>27. ASSUME NEW p \in Procs, RemoveMigrationFails(p) PROVE FreshInv'
    BY <1>27 DEF RemoveMigrationFails, Goto, Excuse, lock, call, history
<1>28. ASSUME NEW m \in Migs, ForceMigration(m) PROVE FreshInv'
    BY <1>28 DEF ForceMigration, Repair, Excuse, Is, Row, lock, call, history
<1>29. ASSUME NEW m \in Migs, Retry(m) PROVE FreshInv'
    BY <1>29 DEF Retry, Repair, Excuse, Is, None, lock, call, history
<1>30. ASSUME UNCHANGED vars PROVE FreshInv'
    BY <1>30 DEF vars, lock, call, history
<1>31. ASSUME NEW p \in Procs, AcquireAtOnce(p) PROVE FreshInv'
  <2> SUFFICES ASSUME ~unlocked', NEW q \in Procs, pc'[q] \in FreshPlaces, NEW m \in todo'[q] \ excused'
               PROVE  record'[m].status = "none"
      BY DEF FreshInv, FreshPlaces
  <2>1. CASE q # p
      BY <1>31, <2>1 DEF AcquireAtOnce, Locked, Goto, Excuse, call, FreshPlaces
  <2>2. CASE q = p
      BY <1>31, <2>2 DEF AcquireAtOnce, Locked, Goto, Excuse, call, FreshPlaces, Is, RestInv
  <2> QED BY <2>1, <2>2
<1>32. ASSUME NEW p \in Procs, AcquireAgain(p) PROVE FreshInv'
  <2> SUFFICES ASSUME ~unlocked', NEW q \in Procs, pc'[q] \in FreshPlaces, NEW m \in todo'[q] \ excused'
               PROVE  record'[m].status = "none"
      BY DEF FreshInv, FreshPlaces
  <2>1. CASE q # p
      BY <1>32, <2>1 DEF AcquireAgain, Locked, Goto, Excuse, call, FreshPlaces
  <2>2. CASE q = p
      BY <1>32, <2>2 DEF AcquireAgain, Locked, Goto, Excuse, call, FreshPlaces, Is, RestInv
  <2> QED BY <2>1, <2>2
<1>33. ASSUME NEW p \in Procs, ReleaseFails(p) PROVE FreshInv'
    BY <1>33 DEF ReleaseFails, Return, Goto, call, history
<1>34. ASSUME NEW p \in Procs, CloseConnection(p) PROVE FreshInv'
    BY <1>34 DEF CloseConnection, call, history
<1> QED
    BY <1>1, <1>2, <1>3, <1>4, <1>5, <1>6, <1>7, <1>8, <1>9, <1>10, <1>11, <1>12,
        <1>13, <1>14, <1>15, <1>16, <1>17, <1>18, <1>19, <1>20, <1>21, <1>22, <1>23,
        <1>24, <1>25, <1>26, <1>27, <1>28, <1>29, <1>30, <1>31, <1>32,
        <1>33, <1>34 DEF Next, Step, Mishap

-----------------------------------------------------------------------------
(* Records and schema                                                      *)

\* What the schema holds of m while p is the only one at work.
Promised(p, m) == IF m \in Unsettled(p) THEN Landed(p) ELSE Recorded(m)

LEMMA UnsettledWork == \A p : Unsettled(p) # {} => Working(p)
BY DEF Unsettled, Working

\* A step of p that leaves schema and records alone, and settles nothing.
LEMMA RecordKept ==
    ASSUME RecordInv, NEW p \in Procs, Mine(p), schema' = schema, record' = record,
           Unsettled(p) = {}, Unsettled(p)' = {}
    PROVE  RecordInv'
<1>1. \A q \in Procs : Unsettled(q)' = Unsettled(q)
    BY DEF Mine, Unsettled, At, First, Before
<1>2. \A q \in Procs \ {p} : Landed(q)' = Landed(q)
    BY DEF Mine, Landed, CommitsEarly
<1>3. \A m : Recorded(m)' = Recorded(m)
    BY DEF Recorded
<1> SUFFICES ASSUME ~unlocked', NEW m \in Migs \ (excused' \cup GoMigs) PROVE Truthful(m)'
    BY DEF RecordInv
<1>4. Truthful(m)
    BY DEF RecordInv, Mine
<1>5. \A q \in Procs : m \in Unsettled(q)' => schema'[m] = Landed(q)'
    BY <1>1, <1>2, <1>4 DEF Truthful
<1>6. (\A q \in Procs : m \notin Unsettled(q)') => schema'[m] = Recorded(m)'
    BY <1>1, <1>3, <1>4 DEF Truthful
<1> QED BY <1>5, <1>6 DEF Truthful

\* A step of the process at work: nobody else is unsettled.
LEMMA RecordBy ==
    ASSUME OwnerInv, RecordInv, NEW p \in Procs, Mine(p), Working(p),
           ~unlocked => \A m \in Migs \ (excused' \cup GoMigs) :
               schema[m] = Promised(p, m) => schema'[m] = Promised(p, m)'
    PROVE  RecordInv'
<1> SUFFICES ASSUME ~unlocked', NEW m \in Migs \ (excused' \cup GoMigs) PROVE Truthful(m)'
    BY DEF RecordInv
<1>1. ~unlocked /\ \A q \in Procs \ {p} : ~Working(q)
    BY NobodyAssumption DEF OwnerInv, Mine
<1>2. \A q \in Procs \ {p} : Unsettled(q) = {}
    BY <1>1, UnsettledWork
<1>3. \A q \in Procs \ {p} : Unsettled(q)' = Unsettled(q)
    BY DEF Mine, Unsettled, At, First, Before
<1>4. Truthful(m)
    BY <1>1 DEF RecordInv, Mine
<1>5. schema[m] = Promised(p, m)
    BY <1>2, <1>4 DEF Truthful, Promised
<1>6. schema'[m] = Promised(p, m)'
    BY <1>1, <1>5
<1>7. CASE m \in Unsettled(p)'
    BY <1>2, <1>3, <1>6, <1>7 DEF Truthful, Promised
<1>8. CASE m \notin Unsettled(p)'
    BY <1>2, <1>3, <1>6, <1>8 DEF Truthful, Promised
<1> QED BY <1>7, <1>8

LEMMA RecordStep ==
    ShapeInv /\ RestInv /\ PlaceInv /\ OwnerInv /\ FreshInv /\ RecordInv /\ [Next]_vars
    => RecordInv'
<1> SUFFICES ASSUME ShapeInv, RestInv, PlaceInv, OwnerInv, FreshInv, RecordInv,
                    [Next]_vars
             PROVE  RecordInv'
    OBVIOUS
<1>1. ASSUME NEW p \in Procs, NEW k \in Kinds, Start(p, k) PROVE RecordInv'
  <2>1. Mine(p) /\ schema' = schema /\ record' = record
      BY <1>1, StartMine DEF Start
  <2>2. Unsettled(p) = {} /\ Unsettled(p)' = {}
      BY <1>1 DEF ShapeInv, Unsettled, Start, Goto, history
  <2> QED BY <2>1, <2>2, RecordKept
<1>2. ASSUME NEW p \in Procs, Acquire(p) PROVE RecordInv'
  <2>1. Mine(p) /\ schema' = schema /\ record' = record
      BY <1>2, StepMine DEF Step, Mishap, Acquire, Locked
  <2>2. Unsettled(p) = {} /\ Unsettled(p)' = {}
      BY <1>2 DEF ShapeInv, Unsettled, Acquire, Locked, Goto, Excuse, Free, lock, call, history
  <2> QED BY <2>1, <2>2, RecordKept
<1>3. ASSUME NEW p \in Procs, AcquireTimesOut(p) PROVE RecordInv'
  <2>1. Mine(p) /\ schema' = schema /\ record' = record
      BY <1>3, StepMine DEF Step, Mishap, AcquireTimesOut, Return
  <2>2. Unsettled(p) = {} /\ Unsettled(p)' = {}
      BY <1>3 DEF ShapeInv, Unsettled, AcquireTimesOut, Return, Goto, lock, call, history
  <2> QED BY <2>1, <2>2, RecordKept
<1>4. ASSUME NEW p \in Procs, Release(p) PROVE RecordInv'
  <2>1. Mine(p) /\ schema' = schema /\ record' = record
      BY <1>4, StepMine DEF Step, Mishap, Release, Return
  <2>2. Unsettled(p) = {} /\ Unsettled(p)' = {}
      BY <1>4 DEF ShapeInv, Unsettled, Release, Return, Goto, lock, call, history
  <2> QED BY <2>1, <2>2, RecordKept
<1>5. ASSUME NEW p \in Procs, CheckForDirtyDatabase(p) PROVE RecordInv'
  <2>1. Mine(p) /\ schema' = schema /\ record' = record
      BY <1>5, StepMine DEF Step, Mishap, CheckForDirtyDatabase, Return
  <2>2. Unsettled(p) = {} /\ Unsettled(p)' = {}
      BY <1>5 DEF ShapeInv, Unsettled, CheckForDirtyDatabase, Goto, Is, lock, call, history
  <2> QED BY <2>1, <2>2, RecordKept
<1>6. ASSUME NEW p \in Procs, VerifyChecksums(p) PROVE RecordInv'
  <2>1. Mine(p) /\ schema' = schema /\ record' = record
      BY <1>6, StepMine DEF Step, Mishap, VerifyChecksums, Return
  <2>2. Unsettled(p) = {} /\ Unsettled(p)' = {}
      BY <1>6 DEF ShapeInv, Unsettled, VerifyChecksums, Goto, Is, lock, call, history
  <2> QED BY <2>1, <2>2, RecordKept
<1>7. ASSUME NEW p \in Procs, MakePlan(p) PROVE RecordInv'
  <2>1. Mine(p) /\ schema' = schema /\ record' = record
      BY <1>7, StepMine DEF Step, Mishap, MakePlan, Return
  <2>2. Unsettled(p) = {} /\ Unsettled(p)' = {}
      BY <1>7 DEF ShapeInv, Unsettled, MakePlan, Goto, Return, Excuse, lock, call, history
  <2> QED BY <2>1, <2>2, RecordKept
<1>8. ASSUME NEW p \in Procs, ExecuteUp(p) PROVE RecordInv'
  <2>1. Mine(p) /\ Working(p)
      BY <1>8, StepMine DEF Step, Mishap, Working, ExecuteUp
  <2> SUFFICES ASSUME ~unlocked, NEW m \in Migs \ (excused' \cup GoMigs), schema[m] = Promised(p, m)
               PROVE  schema'[m] = Promised(p, m)'
      BY <2>1, RecordBy
  <2>2. schema[m] \in Nat /\ m \notin excused /\ todo[p] \subseteq Migs /\ At(p) \subseteq todo[p]
      BY <2>1, AtLeft DEF Mine, RestInv
  <2>3. m \in todo[p] => record[m].status = "none"
      BY <1>8, <2>2 DEF FreshInv, ExecuteUp
  <2>4. Executing(p) = At(p) /\ kind[p] \notin DownKinds /\ pc[p] = "exec" /\ record' = record
      BY <1>8 DEF ExecuteUp, PlaceInv, Executing, UpKinds, DownKinds
  <2>5. Unsettled(p) = {} /\ schema[m] = Recorded(m)
      BY <2>4 DEF Unsettled, Promised
  <2>6. CASE Goto(p, "commit") /\ (IF CommitsEarly THEN Executed(p) ELSE UNCHANGED schema)
    <3>1. pc'[p] = "commit" /\ At(p)' = At(p)
        BY <1>8, <2>6 DEF ExecuteUp, Goto, ShapeInv, At, First, Before, lock, call
    <3>2. Unsettled(p)' = At(p)
        BY <1>8, <3>1, <2>2 DEF ExecuteUp, Unsettled
    <3>3. CASE m \in At(p)
      <4>1. schema[m] = 0
          BY <2>2, <2>3, <2>5, <3>3 DEF Recorded
      <4>2. schema'[m] = IF CommitsEarly THEN 1 ELSE 0
          BY <2>4, <2>6, <3>3, <4>1 DEF Executed, Effect
      <4>3. Landed(p)' = IF CommitsEarly THEN 1 ELSE 0
          BY <1>8, <3>1 DEF ExecuteUp, Landed, CommitsEarly
      <4> QED BY <3>2, <3>3, <4>2, <4>3 DEF Promised
    <3>4. CASE m \notin At(p)
        BY <2>4, <2>5, <2>6, <3>2, <3>4 DEF Executed, Effect, Promised, Recorded
    <3> QED BY <3>3, <3>4
  <2>7. CASE Goto(p, "fail") /\ Interrupted(p)
    <3>1. Unsettled(p)' = {}
        BY <2>7 DEF Goto, ShapeInv, Unsettled
    <3>2. schema'[m] = schema[m]
        BY <2>7, <2>2 DEF Interrupted, Effect, Excuse
    <3> QED BY <2>4, <2>5, <3>1, <3>2 DEF Promised, Recorded
  <2> QED BY <1>8, <2>6, <2>7 DEF ExecuteUp
<1>9. ASSUME NEW p \in Procs, CommitUp(p) PROVE RecordInv'
  <2>1. Mine(p) /\ Working(p)
      BY <1>9, StepMine DEF Step, Mishap, Working, CommitUp
  <2> SUFFICES ASSUME ~unlocked, NEW m \in Migs \ (excused' \cup GoMigs), schema[m] = Promised(p, m)
               PROVE  schema'[m] = Promised(p, m)'
      BY <2>1, RecordBy
  <2>2. schema[m] \in Nat /\ m \notin excused /\ todo[p] \subseteq Migs /\ At(p) \subseteq todo[p]
      BY <2>1, AtLeft DEF Mine, RestInv
  <2>3. pc[p] = "commit" /\ pc'[p] = "record" /\ kind' = kind /\ todo' = todo /\ record' = record
      BY <1>9 DEF ShapeInv, CommitUp, Goto, lock, call, history
  <2>4. Unsettled(p) = At(p) /\ Unsettled(p)' = At(p)
      BY <2>2, <2>3 DEF Unsettled, At, First, Before
  <2>5. Executing(p) = At(p) /\ kind[p] \notin DownKinds
      BY <2>3 DEF PlaceInv, Executing, UpKinds, DownKinds
  <2>6. CASE m \in At(p)
    <3>1. schema[m] = IF CommitsEarly THEN 1 ELSE 0
        BY <2>3, <2>4, <2>6 DEF Promised, Landed
    <3>2. schema'[m] = 1
        BY <1>9, <2>2, <2>5, <2>6, <3>1 DEF CommitUp, Executed, Effect
    <3> QED BY <2>3, <2>4, <2>6, <3>2 DEF Promised, Landed
  <2>7. CASE m \notin At(p)
      BY <1>9, <2>2, <2>3, <2>4, <2>5, <2>7 DEF CommitUp, Executed, Effect, Promised,
          Recorded
  <2> QED BY <2>6, <2>7
<1>10. ASSUME NEW p \in Procs, RecordUp(p) PROVE RecordInv'
  <2>1. Mine(p) /\ Working(p)
      BY <1>10, StepMine DEF Step, Mishap, Working, RecordUp
  <2> SUFFICES ASSUME ~unlocked, NEW m \in Migs \ (excused' \cup GoMigs), schema[m] = Promised(p, m)
               PROVE  schema'[m] = Promised(p, m)'
      BY <2>1, RecordBy
  <2>2. schema[m] \in Nat /\ m \notin excused /\ todo[p] \subseteq Migs /\ At(p) \subseteq todo[p]
      BY <2>1, AtLeft DEF Mine, RestInv
  <2>3. PICK n \in At(p) : record' = [record EXCEPT ![n] = Row("applied", BuildOf[p], n)]
      BY <1>10 DEF RecordUp
  <2>4. At(p) = {n} /\ n \in Migs
      BY <2>3, AtOne
  <2>5. Unsettled(p) = At(p) /\ Unsettled(p)' = {} /\ schema' = schema /\ Landed(p) = 1
      BY <1>10, <2>2 DEF ShapeInv, Unsettled, Landed, RecordUp, NextMigration, Advance,
          Goto, Row, Is, lock, call, history
  <2>6. Recorded(m)' = IF m = n THEN 1 ELSE Recorded(m)
      BY <2>3, <2>4 DEF ShapeInv, Recorded, Row
  <2> QED BY <2>4, <2>5, <2>6 DEF Promised
<1>11. ASSUME NEW p \in Procs, RecordUpConflicts(p) PROVE RecordInv'
  <2>1. Mine(p) /\ Working(p)
      BY <1>11, StepMine DEF Step, Mishap, Working, RecordUpConflicts
  <2> SUFFICES ASSUME ~unlocked, NEW m \in Migs \ (excused' \cup GoMigs), schema[m] = Promised(p, m)
               PROVE  schema'[m] = Promised(p, m)'
      BY <2>1, RecordBy
  <2>2. schema[m] \in Nat /\ m \notin excused /\ todo[p] \subseteq Migs /\ At(p) \subseteq todo[p]
      BY <2>1, AtLeft DEF Mine, RestInv
  <2>3. m \notin At(p)
      BY <1>11, <2>2, AtOne DEF RecordUpConflicts, FreshInv, Is
  <2>4. Unsettled(p) = At(p) /\ Unsettled(p)' = {} /\ schema' = schema /\ record' = record
      BY <1>11, <2>2 DEF ShapeInv, Unsettled, RecordUpConflicts, AfterError,
          NextMigration, Advance, Goto, lock, call, history
  <2> QED BY <2>3, <2>4 DEF Promised, Recorded
<1>12. ASSUME NEW p \in Procs, RecordFailed(p) PROVE RecordInv'
  <2>1. Mine(p) /\ Working(p)
      BY <1>12, StepMine DEF Step, Mishap, Working, RecordFailed
  <2> SUFFICES ASSUME ~unlocked, NEW m \in Migs \ (excused' \cup GoMigs), schema[m] = Promised(p, m)
               PROVE  schema'[m] = Promised(p, m)'
      BY <2>1, RecordBy
  <2>2. schema[m] \in Nat /\ m \notin excused /\ todo[p] \subseteq Migs /\ At(p) \subseteq todo[p]
      BY <2>1, AtLeft DEF Mine, RestInv
  <2>3. m \in todo[p] => record[m].status = "none"
      BY <1>12, <2>2 DEF FreshInv, RecordFailed
  <2>4. PICK n \in At(p) :
           record' = [record EXCEPT ![n] = IF Is(n, "none") THEN Row("failed", BuildOf[p], n)
                                           ELSE [@ EXCEPT !.status = "failed"]]
      BY <1>12 DEF RecordFailed
  <2>5. Recorded(m)' = Recorded(m)
      BY <2>2, <2>3, <2>4 DEF ShapeInv, Records, Recorded, Row, Is
  <2>6. Unsettled(p) = {} /\ Unsettled(p)' = {} /\ schema' = schema
      BY <1>12 DEF ShapeInv, Unsettled, RecordFailed, AfterError, NextMigration, Advance,
          Goto, Row, Is, lock, call, history
  <2> QED BY <2>5, <2>6 DEF Promised
<1>13. ASSUME NEW p \in Procs, ExecuteTx(p) PROVE RecordInv'
  <2>1. Mine(p) /\ Working(p)
      BY <1>13, StepMine DEF Step, Mishap, Working, ExecuteTx
  <2> SUFFICES ASSUME ~unlocked, NEW m \in Migs \ (excused' \cup GoMigs), schema[m] = Promised(p, m)
               PROVE  schema'[m] = Promised(p, m)'
      BY <2>1, RecordBy
  <2>2. schema[m] \in Nat /\ m \notin excused /\ todo[p] \subseteq Migs /\ At(p) \subseteq todo[p]
      BY <2>1, AtLeft DEF Mine, RestInv
  <2>3. m \in todo[p] => record[m].status = "none"
      BY <1>13, <2>2 DEF FreshInv, ExecuteTx
  <2>4. Executing(p) = todo[p] \ GoMigs /\ kind[p] \notin DownKinds /\ pc[p] = "execTx" /\ record' = record
      BY <1>13 DEF ExecuteTx, PlaceInv, Executing, DownKinds
  <2>5. Unsettled(p) = {} /\ schema[m] = Recorded(m)
      BY <2>4 DEF Unsettled, Promised
  <2>6. CASE Goto(p, "commitTx") /\ (IF CommitsEarly THEN Executed(p) ELSE UNCHANGED schema)
    <3>1. pc'[p] = "commitTx"
        BY <2>6 DEF Goto, ShapeInv
    <3>2. Unsettled(p)' = todo[p]
        BY <1>13, <3>1, <2>2 DEF ExecuteTx, Unsettled
    <3>3. CASE m \in todo[p]
      <4>1. schema[m] = 0
          BY <2>3, <2>5, <3>3 DEF Recorded
      <4>2. schema'[m] = IF CommitsEarly THEN 1 ELSE 0
          BY <2>4, <2>6, <3>3, <4>1 DEF Executed, Effect
      <4>3. Landed(p)' = IF CommitsEarly THEN 1 ELSE 0
          BY <1>13, <3>1 DEF ExecuteTx, Landed, CommitsEarly
      <4> QED BY <3>2, <3>3, <4>2, <4>3 DEF Promised
    <3>4. CASE m \notin todo[p]
        BY <2>4, <2>5, <2>6, <3>2, <3>4 DEF Executed, Effect, Promised, Recorded
    <3> QED BY <3>3, <3>4
  <2>7. CASE Goto(p, "release") /\ Interrupted(p)
    <3>1. Unsettled(p)' = {}
        BY <2>7 DEF Goto, ShapeInv, Unsettled
    <3>2. schema'[m] = schema[m]
        BY <2>7, <2>2 DEF Interrupted, Effect, Excuse
    <3> QED BY <2>4, <2>5, <3>1, <3>2 DEF Promised, Recorded
  <2> QED BY <1>13, <2>6, <2>7 DEF ExecuteTx
<1>14. ASSUME NEW p \in Procs, CommitTx(p) PROVE RecordInv'
  <2>1. Mine(p) /\ Working(p)
      BY <1>14, StepMine DEF Step, Mishap, Working, CommitTx
  <2> SUFFICES ASSUME ~unlocked, NEW m \in Migs \ (excused' \cup GoMigs), schema[m] = Promised(p, m)
               PROVE  schema'[m] = Promised(p, m)'
      BY <2>1, RecordBy
  <2>2. schema[m] \in Nat /\ m \notin excused /\ todo[p] \subseteq Migs /\ At(p) \subseteq todo[p]
      BY <2>1, AtLeft DEF Mine, RestInv
  <2>3. pc[p] = "commitTx" /\ pc'[p] = "recordTx" /\ kind' = kind /\ todo' = todo /\ record' = record
      BY <1>14 DEF ShapeInv, CommitTx, Goto, lock, call, history
  <2>4. Unsettled(p) = todo[p] /\ Unsettled(p)' = todo[p]
      BY <2>2, <2>3 DEF Unsettled, At, First, Before
  <2>5. Executing(p) = todo[p] \ GoMigs /\ kind[p] \notin DownKinds
      BY <2>3 DEF PlaceInv, Executing, UpKinds, DownKinds
  <2>6. CASE m \in todo[p]
    <3>1. schema[m] = IF CommitsEarly THEN 1 ELSE 0
        BY <2>3, <2>4, <2>6 DEF Promised, Landed
    <3>2. schema'[m] = 1
        BY <1>14, <2>2, <2>5, <2>6, <3>1 DEF CommitTx, Executed, Effect
    <3> QED BY <2>3, <2>4, <2>6, <3>2 DEF Promised, Landed
  <2>7. CASE m \notin todo[p]
      BY <1>14, <2>2, <2>3, <2>4, <2>5, <2>7 DEF CommitTx, Executed, Effect, Promised,
          Recorded
  <2> QED BY <2>6, <2>7
<1>15. ASSUME NEW p \in Procs, RecordTx(p) PROVE RecordInv'
  <2>1. Mine(p) /\ Working(p)
      BY <1>15, StepMine DEF Step, Mishap, Working, RecordTx
  <2> SUFFICES ASSUME ~unlocked, NEW m \in Migs \ (excused' \cup GoMigs), schema[m] = Promised(p, m)
               PROVE  schema'[m] = Promised(p, m)'
      BY <2>1, RecordBy
  <2>2. schema[m] \in Nat /\ m \notin excused /\ todo[p] \subseteq Migs /\ At(p) \subseteq todo[p]
      BY <2>1, AtLeft DEF Mine, RestInv
  <2>3. m \in todo[p] => record[m].status = "none"
      BY <1>15, <2>2 DEF FreshInv, RecordTx
  <2>4. PICK n \in At(p) :
           record' = [record EXCEPT ![n] = IF Is(n, "none") THEN Row("applied", BuildOf[p], n) ELSE @]
      BY <1>15 DEF RecordTx
  <2>5. At(p) = {n} /\ n \in Migs
      BY <2>4, AtOne
  <2>6. Recorded(m)' = IF m = n THEN 1 ELSE Recorded(m)
      BY <2>2, <2>3, <2>4, <2>5 DEF ShapeInv, Recorded, Row, Is
  <2>7. Unsettled(p) = todo[p] /\ Landed(p) = 1 /\ schema' = schema
      BY <1>15, <2>2 DEF RecordTx, Unsettled, Landed
  <2>8. Unsettled(p)' = Left(p) /\ (Left(p) # {} => Landed(p)' = 1)
      BY <1>15, AtLeft DEF ShapeInv, RestInv, Unsettled, Landed, RecordTx, Advance, Goto,
          Row, Is, lock, call, history
  <2>9. m \in todo[p] <=> m = n \/ m \in Left(p)
      BY <2>2, <2>5 DEF Left
  <2>10. n \notin Left(p)
      BY <2>5 DEF Left
  <2> QED BY <2>6, <2>7, <2>8, <2>9, <2>10 DEF Promised
<1>16. ASSUME NEW p \in Procs, Revert(p) PROVE RecordInv'
  <2>1. Mine(p) /\ Working(p)
      BY <1>16, StepMine DEF Step, Mishap, Working, Revert
  <2> SUFFICES ASSUME ~unlocked, NEW m \in Migs \ (excused' \cup GoMigs), schema[m] = Promised(p, m)
               PROVE  schema'[m] = Promised(p, m)'
      BY <2>1, RecordBy
  <2>2. schema[m] \in Nat /\ m \notin excused /\ todo[p] \subseteq Migs /\ At(p) \subseteq todo[p]
      BY <2>1, AtLeft DEF Mine, RestInv
  <2>3. Executing(p) = At(p) /\ kind[p] \in DownKinds /\ pc[p] = "revert" /\ record' = record
      BY <1>16 DEF Revert, PlaceInv, Executing, DownKinds
  <2>4. Unsettled(p) = {} /\ schema[m] = Recorded(m)
      BY <2>3 DEF Unsettled, Promised
  <2>5. CASE Executed(p) /\ Goto(p, "unrecord")
    <3>1. pc'[p] = "unrecord" /\ At(p)' = At(p)
        BY <1>16, <2>5 DEF Revert, Goto, ShapeInv, At, First, Before, lock, call
    <3>2. Unsettled(p)' = At(p) /\ Landed(p)' = 0
        BY <1>16, <3>1, <2>2 DEF Revert, Unsettled, Landed
    <3> QED BY <2>3, <2>4, <2>5, <3>2 DEF Executed, Effect, Promised, Recorded
  <2>6. CASE Interrupted(p) /\ Goto(p, "release")
    <3>1. Unsettled(p)' = {}
        BY <2>6 DEF Goto, ShapeInv, Unsettled
    <3>2. schema'[m] = schema[m]
        BY <2>6, <2>2 DEF Interrupted, Effect, Excuse
    <3> QED BY <2>3, <2>4, <3>1, <3>2 DEF Promised, Recorded
  <2> QED BY <1>16, <2>5, <2>6 DEF Revert
<1>17. ASSUME NEW p \in Procs, RemoveMigration(p) PROVE RecordInv'
  <2>1. Mine(p) /\ Working(p)
      BY <1>17, StepMine DEF Step, Mishap, Working, RemoveMigration
  <2> SUFFICES ASSUME ~unlocked, NEW m \in Migs \ (excused' \cup GoMigs), schema[m] = Promised(p, m)
               PROVE  schema'[m] = Promised(p, m)'
      BY <2>1, RecordBy
  <2>2. schema[m] \in Nat /\ m \notin excused /\ todo[p] \subseteq Migs /\ At(p) \subseteq todo[p]
      BY <2>1, AtLeft DEF Mine, RestInv
  <2>3. PICK n \in At(p) : record' = [record EXCEPT ![n] = None]
      BY <1>17 DEF RemoveMigration
  <2>4. At(p) = {n} /\ n \in Migs
      BY <2>3, AtOne
  <2>5. Unsettled(p) = At(p) /\ Unsettled(p)' = {} /\ schema' = schema /\ Landed(p) = 0
      BY <1>17, <2>2 DEF ShapeInv, Unsettled, Landed, RemoveMigration, Advance, Goto,
          None, lock, call, history
  <2>6. Recorded(m)' = IF m = n THEN 0 ELSE Recorded(m)
      BY <2>3, <2>4 DEF ShapeInv, Recorded, None
  <2> QED BY <2>4, <2>5, <2>6 DEF Promised
<1>18. ASSUME NEW p \in Procs, QueryFails(p) PROVE RecordInv'
  <2>1. Mine(p) /\ schema' = schema /\ record' = record
      BY <1>18, StepMine DEF Step, Mishap, QueryFails, Return
  <2>2. Unsettled(p) = {} /\ Unsettled(p)' = {}
      BY <1>18 DEF ShapeInv, Unsettled, QueryFails, Return, AfterError, NextMigration,
          Advance, Goto, lock, call, history
  <2> QED BY <2>1, <2>2, RecordKept
<1>19. ASSUME NEW p \in Procs, Crash(p) PROVE RecordInv'
  <2>1. Mine(p) /\ record' = record
      BY <1>19, StepMine DEF Step, Mishap, Crash
  <2>2. Unsettled(p)' = {}
      BY <1>19 DEF ShapeInv, Crash, Return, Goto, Unsettled
  <2>3. CASE ~Working(p)
    <3>1. Unsettled(p) = {}
        BY <2>3, UnsettledWork
    <3>2. schema' = schema
        BY <1>19, <2>3 DEF Crash, Working
    <3> QED BY <2>1, <2>2, <3>1, <3>2, RecordKept
  <2>4. CASE Working(p)
    <3> SUFFICES ASSUME ~unlocked, NEW m \in Migs \ (excused' \cup GoMigs), schema[m] = Promised(p, m)
                 PROVE  schema'[m] = Promised(p, m)'
        BY <2>1, <2>4, RecordBy
    <3>1. Recorded(m)' = Recorded(m) /\ m \notin excused /\ m \in Migs
        BY <2>1 DEF Recorded, Mine
    <3>2. CASE pc[p] \in {"exec", "execTx", "revert"}
      <4>1. schema'[m] = schema[m]
          BY <1>19, <3>2 DEF Crash, Interrupted, Effect, Excuse
      <4>2. Unsettled(p) = {}
          BY <3>2 DEF Unsettled
      <4> QED BY <2>2, <3>1, <4>1, <4>2 DEF Promised
    <3>3. CASE pc[p] \notin {"exec", "execTx", "revert"}
      <4>1. schema' = schema
          BY <1>19, <3>3 DEF Crash
      <4>2. CASE m \notin Unsettled(p)
          BY <2>2, <3>1, <4>1, <4>2 DEF Promised
      <4>3. CASE m \in Unsettled(p)
        <5>1. m \in todo[p] /\ pc[p] \in {"commit", "commitTx"} /\ ~CommitsEarly
            BY <1>19, <3>3, <4>3 DEF Crash, Excuse, Unsettled
        <5>2. record[m].status = "none"
            BY <3>1, <5>1 DEF FreshInv
        <5>3. schema[m] = 0
            BY <4>3, <5>1 DEF Promised, Landed
        <5> QED BY <2>2, <3>1, <4>1, <5>2, <5>3 DEF Promised, Recorded
      <4> QED BY <4>2, <4>3
    <3> QED BY <3>2, <3>3
  <2> QED BY <2>3, <2>4
<1>20. ASSUME NEW p \in Procs, ExecuteUpTimesOut(p) PROVE RecordInv'
  <2>1. Mine(p) /\ Working(p)
      BY <1>20, StepMine DEF Step, Mishap, Working, ExecuteUpTimesOut
  <2> SUFFICES ASSUME ~unlocked, NEW m \in Migs \ (excused' \cup GoMigs), schema[m] = Promised(p, m)
               PROVE  schema'[m] = Promised(p, m)'
      BY <2>1, RecordBy
  <2>2. schema[m] \in Nat /\ m \notin excused /\ todo[p] \subseteq Migs /\ At(p) \subseteq todo[p]
      BY <2>1, AtLeft DEF Mine, RestInv
  <2>3. schema'[m] = schema[m] /\ record' = record
      BY <1>20, <2>2 DEF ExecuteUpTimesOut, LoseLock, FreeLock, Interrupted, Effect, Excuse
  <2>4. Unsettled(p) = {} /\ Unsettled(p)' = {}
      BY <1>20 DEF ShapeInv, Unsettled, ExecuteUpTimesOut, AfterError, NextMigration,
          Advance, Goto, lock, call, history
  <2> QED BY <2>3, <2>4 DEF Promised, Recorded
<1>21. ASSUME NEW p \in Procs, CommitUpFails(p) PROVE RecordInv'
  <2>1. Mine(p) /\ Working(p)
      BY <1>21, StepMine DEF Step, Mishap, Working, CommitUpFails
  <2> SUFFICES ASSUME ~unlocked, NEW m \in Migs \ (excused' \cup GoMigs), schema[m] = Promised(p, m)
               PROVE  schema'[m] = Promised(p, m)'
      BY <2>1, RecordBy
  <2>2. schema[m] \in Nat /\ m \notin excused /\ todo[p] \subseteq Migs /\ At(p) \subseteq todo[p]
      BY <2>1, AtLeft DEF Mine, RestInv
  <2>3. m \notin At(p) /\ schema'[m] = schema[m] /\ record' = record
      BY <1>21, <2>2 DEF CommitUpFails, Excuse, PlaceInv, Executed, Effect, Executing,
          UpKinds, DownKinds, lock, call, bounds
  <2>4. m \in Unsettled(p)' <=> m \in Unsettled(p)
      BY <1>21, <2>2, <2>3 DEF ShapeInv, RestInv, Unsettled, CommitUpFails, AfterError,
          NextMigration, Advance, Goto, Excuse, lock, call, history, Left
  <2>5. m \in Unsettled(p) => Landed(p)' = Landed(p)
      BY <1>21, <2>2, <2>3 DEF ShapeInv, RestInv, Unsettled, Landed, CommitUpFails,
          AfterError, NextMigration, Advance, Goto, Excuse, lock, call, history
  <2> QED BY <2>3, <2>4, <2>5 DEF Promised, Recorded
<1>22. ASSUME NEW p \in Procs, RecordUpFails(p) PROVE RecordInv'
  <2>1. Mine(p) /\ Working(p)
      BY <1>22, StepMine DEF Step, Mishap, Working, RecordUpFails
  <2> SUFFICES ASSUME ~unlocked, NEW m \in Migs \ (excused' \cup GoMigs), schema[m] = Promised(p, m)
               PROVE  schema'[m] = Promised(p, m)'
      BY <2>1, RecordBy
  <2>2. schema[m] \in Nat /\ m \notin excused /\ todo[p] \subseteq Migs /\ At(p) \subseteq todo[p]
      BY <2>1, AtLeft DEF Mine, RestInv
  <2>3. m \notin At(p) /\ schema'[m] = schema[m] /\ record'[m] = record[m]
      BY <1>22, <2>2 DEF ShapeInv, RecordUpFails, Excuse, lock, call, bounds
  <2>4. m \in Unsettled(p)' <=> m \in Unsettled(p)
      BY <1>22, <2>2, <2>3 DEF ShapeInv, RestInv, Unsettled, RecordUpFails, AfterError,
          NextMigration, Advance, Goto, Excuse, lock, call, history, Left
  <2>5. m \in Unsettled(p) => Landed(p)' = Landed(p)
      BY <1>22, <2>2, <2>3 DEF ShapeInv, RestInv, Unsettled, Landed, RecordUpFails,
          AfterError, NextMigration, Advance, Goto, Excuse, lock, call, history
  <2> QED BY <2>3, <2>4, <2>5 DEF Promised, Recorded
<1>23. ASSUME NEW p \in Procs, RecordFailedLost(p) PROVE RecordInv'
  <2>1. Mine(p) /\ schema' = schema /\ record' = record
      BY <1>23, StepMine DEF Step, Mishap, RecordFailedLost, Return
  <2>2. Unsettled(p) = {} /\ Unsettled(p)' = {}
      BY <1>23 DEF ShapeInv, Unsettled, RecordFailedLost, AfterError, NextMigration,
          Advance, Goto, lock, call, history
  <2> QED BY <2>1, <2>2, RecordKept
<1>24. ASSUME NEW p \in Procs, CommitTxFails(p) PROVE RecordInv'
  <2>1. Mine(p) /\ Working(p)
      BY <1>24, StepMine DEF Step, Mishap, Working, CommitTxFails
  <2> SUFFICES ASSUME ~unlocked, NEW m \in Migs \ (excused' \cup GoMigs), schema[m] = Promised(p, m)
               PROVE  schema'[m] = Promised(p, m)'
      BY <2>1, RecordBy
  <2>2. schema[m] \in Nat /\ m \notin excused /\ todo[p] \subseteq Migs /\ At(p) \subseteq todo[p]
      BY <2>1, AtLeft DEF Mine, RestInv
  <2>3. m \notin todo[p] /\ schema'[m] = schema[m] /\ record' = record
      BY <1>24, <2>2 DEF CommitTxFails, Excuse, PlaceInv, Executed, Effect, Executing,
          UpKinds, DownKinds, lock, call, bounds
  <2>4. m \in Unsettled(p)' <=> m \in Unsettled(p)
      BY <1>24, <2>2, <2>3 DEF ShapeInv, RestInv, Unsettled, CommitTxFails, Goto, Excuse,
          lock, call, history, Left
  <2>5. m \in Unsettled(p) => Landed(p)' = Landed(p)
      BY <1>24, <2>2, <2>3 DEF ShapeInv, RestInv, Unsettled, Landed, CommitTxFails, Goto,
          Excuse, lock, call, history
  <2> QED BY <2>3, <2>4, <2>5 DEF Promised, Recorded
<1>25. ASSUME NEW p \in Procs, RecordTxFails(p) PROVE RecordInv'
  <2>1. Mine(p) /\ Working(p)
      BY <1>25, StepMine DEF Step, Mishap, Working, RecordTxFails
  <2> SUFFICES ASSUME ~unlocked, NEW m \in Migs \ (excused' \cup GoMigs), schema[m] = Promised(p, m)
               PROVE  schema'[m] = Promised(p, m)'
      BY <2>1, RecordBy
  <2>2. schema[m] \in Nat /\ m \notin excused /\ todo[p] \subseteq Migs /\ At(p) \subseteq todo[p]
      BY <2>1, AtLeft DEF Mine, RestInv
  <2>3. m \notin At(p) /\ schema'[m] = schema[m] /\ record'[m] = record[m]
      BY <1>25, <2>2 DEF ShapeInv, RecordTxFails, Excuse, lock, call, bounds
  <2>4. m \in Unsettled(p)' <=> m \in Unsettled(p)
      BY <1>25, <2>2, <2>3 DEF ShapeInv, RestInv, Unsettled, RecordTxFails, Advance, Goto,
          Excuse, lock, call, history, Left
  <2>5. m \in Unsettled(p) => Landed(p)' = Landed(p)
      BY <1>25, <2>2, <2>3 DEF ShapeInv, RestInv, Unsettled, Landed, RecordTxFails,
          Advance, Goto, Excuse, lock, call, history, Left
  <2> QED BY <2>3, <2>4, <2>5 DEF Promised, Recorded
<1>26. ASSUME NEW p \in Procs, RevertFails(p) PROVE RecordInv'
  <2>1. Mine(p) /\ Working(p)
      BY <1>26, StepMine DEF Step, Mishap, Working, RevertFails
  <2> SUFFICES ASSUME ~unlocked, NEW m \in Migs \ (excused' \cup GoMigs), schema[m] = Promised(p, m)
               PROVE  schema'[m] = Promised(p, m)'
      BY <2>1, RecordBy
  <2>2. schema[m] \in Nat /\ m \notin excused /\ todo[p] \subseteq Migs /\ At(p) \subseteq todo[p]
      BY <2>1, AtLeft DEF Mine, RestInv
  <2>3. m \notin At(p) /\ schema'[m] = schema[m] /\ record' = record
      BY <1>26, <2>2 DEF RevertFails, Excuse, PlaceInv, Executed, Effect, Executing,
          UpKinds, DownKinds, lock, call, bounds
  <2>4. m \in Unsettled(p)' <=> m \in Unsettled(p)
      BY <1>26, <2>2, <2>3 DEF ShapeInv, RestInv, Unsettled, RevertFails, Goto, Excuse,
          lock, call, history, Left
  <2>5. m \in Unsettled(p) => Landed(p)' = Landed(p)
      BY <1>26, <2>2, <2>3 DEF ShapeInv, RestInv, Unsettled, Landed, RevertFails, Goto,
          Excuse, lock, call, history
  <2> QED BY <2>3, <2>4, <2>5 DEF Promised, Recorded
<1>27. ASSUME NEW p \in Procs, RemoveMigrationFails(p) PROVE RecordInv'
  <2>1. Mine(p) /\ Working(p)
      BY <1>27, StepMine DEF Step, Mishap, Working, RemoveMigrationFails
  <2> SUFFICES ASSUME ~unlocked, NEW m \in Migs \ (excused' \cup GoMigs), schema[m] = Promised(p, m)
               PROVE  schema'[m] = Promised(p, m)'
      BY <2>1, RecordBy
  <2>2. schema[m] \in Nat /\ m \notin excused /\ todo[p] \subseteq Migs /\ At(p) \subseteq todo[p]
      BY <2>1, AtLeft DEF Mine, RestInv
  <2>3. m \notin At(p) /\ schema'[m] = schema[m] /\ record'[m] = record[m]
      BY <1>27, <2>2 DEF ShapeInv, RemoveMigrationFails, Excuse, lock, call, bounds
  <2>4. m \in Unsettled(p)' <=> m \in Unsettled(p)
      BY <1>27, <2>2, <2>3 DEF ShapeInv, RestInv, Unsettled, RemoveMigrationFails, Goto,
          Excuse, lock, call, history, Left
  <2>5. m \in Unsettled(p) => Landed(p)' = Landed(p)
      BY <1>27, <2>2, <2>3 DEF ShapeInv, RestInv, Unsettled, Landed, RemoveMigrationFails,
          Goto, Excuse, lock, call, history
  <2> QED BY <2>3, <2>4, <2>5 DEF Promised, Recorded
<1>28. ASSUME NEW m \in Migs, ForceMigration(m) PROVE RecordInv'
  <2>1. \A q \in Procs : Unsettled(q)' = Unsettled(q) /\ Landed(q)' = Landed(q)
      BY <1>28 DEF ForceMigration, Unsettled, At, First, Before, Landed, CommitsEarly, lock, call
  <2> SUFFICES ASSUME ~unlocked', NEW n \in Migs \ (excused' \cup GoMigs) PROVE Truthful(n)'
      BY DEF RecordInv
  <2>2. Truthful(n) /\ schema' = schema
      BY <1>28 DEF ForceMigration, RecordInv, Excuse
  <2>3. Recorded(n)' = Recorded(n)
      BY <1>28 DEF ForceMigration, Excuse, ShapeInv, Recorded, Is, None
  <2>4. \A q \in Procs : n \in Unsettled(q)' => schema'[n] = Landed(q)'
      BY <2>1, <2>2 DEF Truthful
  <2>5. (\A q \in Procs : n \notin Unsettled(q)') => schema'[n] = Recorded(n)'
      BY <2>1, <2>2, <2>3 DEF Truthful
  <2> QED BY <2>4, <2>5 DEF Truthful
<1>29. ASSUME NEW m \in Migs, Retry(m) PROVE RecordInv'
  <2>1. \A q \in Procs : Unsettled(q)' = Unsettled(q) /\ Landed(q)' = Landed(q)
      BY <1>29 DEF Retry, Unsettled, At, First, Before, Landed, CommitsEarly, lock, call
  <2> SUFFICES ASSUME ~unlocked', NEW n \in Migs \ (excused' \cup GoMigs) PROVE Truthful(n)'
      BY DEF RecordInv
  <2>2. Truthful(n) /\ schema' = schema
      BY <1>29 DEF Retry, RecordInv, Excuse
  <2>3. Recorded(n)' = Recorded(n)
      BY <1>29 DEF Retry, Excuse, ShapeInv, Recorded, Is, None
  <2>4. \A q \in Procs : n \in Unsettled(q)' => schema'[n] = Landed(q)'
      BY <2>1, <2>2 DEF Truthful
  <2>5. (\A q \in Procs : n \notin Unsettled(q)') => schema'[n] = Recorded(n)'
      BY <2>1, <2>2, <2>3 DEF Truthful
  <2> QED BY <2>4, <2>5 DEF Truthful
<1>30. ASSUME UNCHANGED vars PROVE RecordInv'
  <2>1. \A q \in Procs : Unsettled(q)' = Unsettled(q) /\ Landed(q)' = Landed(q)
      BY <1>30 DEF vars, Unsettled, At, First, Before, Landed, CommitsEarly, lock, call
  <2>2. schema' = schema /\ excused' = excused /\ unlocked' = unlocked /\ record' = record
      BY <1>30 DEF vars, history
  <2> SUFFICES ASSUME ~unlocked', NEW n \in Migs \ (excused' \cup GoMigs) PROVE Truthful(n)'
      BY DEF RecordInv
  <2>3. Truthful(n)
      BY <2>2 DEF RecordInv
  <2>4. Recorded(n)' = Recorded(n)
      BY <2>2 DEF Recorded
  <2>5. \A q \in Procs : n \in Unsettled(q)' => schema'[n] = Landed(q)'
      BY <2>1, <2>2, <2>3 DEF Truthful
  <2>6. (\A q \in Procs : n \notin Unsettled(q)') => schema'[n] = Recorded(n)'
      BY <2>1, <2>2, <2>3, <2>4 DEF Truthful
  <2> QED BY <2>5, <2>6 DEF Truthful
<1>31. ASSUME NEW p \in Procs, AcquireAtOnce(p) PROVE RecordInv'
  <2>1. Mine(p) /\ schema' = schema /\ record' = record
      BY <1>31, StepMine DEF Step, Mishap, AcquireAtOnce, Locked
  <2>2. Unsettled(p) = {} /\ Unsettled(p)' = {}
      BY <1>31 DEF ShapeInv, Unsettled, AcquireAtOnce, Locked, Goto, Excuse, lock, call, history
  <2> QED BY <2>1, <2>2, RecordKept
<1>32. ASSUME NEW p \in Procs, AcquireAgain(p) PROVE RecordInv'
  <2>1. Mine(p) /\ schema' = schema /\ record' = record
      BY <1>32, StepMine DEF Step, Mishap, AcquireAgain, Locked
  <2>2. Unsettled(p) = {} /\ Unsettled(p)' = {}
      BY <1>32 DEF ShapeInv, Unsettled, AcquireAgain, Locked, Goto, Excuse, lock, call, history
  <2> QED BY <2>1, <2>2, RecordKept
<1>33. ASSUME NEW p \in Procs, ReleaseFails(p) PROVE RecordInv'
  <2>1. Mine(p) /\ schema' = schema /\ record' = record
      BY <1>33, StepMine DEF Step, Mishap, ReleaseFails, Return
  <2>2. Unsettled(p) = {} /\ Unsettled(p)' = {}
      BY <1>33 DEF ShapeInv, Unsettled, ReleaseFails, Return, Goto, lock, call, history
  <2> QED BY <2>1, <2>2, RecordKept
<1>34. ASSUME NEW p \in Procs, CloseConnection(p) PROVE RecordInv'
  <2>1. Mine(p) /\ schema' = schema /\ record' = record
      BY <1>34, StepMine DEF CloseConnection
  <2>2. \A q \in Procs : Unsettled(q)' = Unsettled(q) /\ Landed(q)' = Landed(q)
      BY <1>34 DEF CloseConnection, Unsettled, At, First, Before, Landed, CommitsEarly, call
  <2> SUFFICES ASSUME ~unlocked', NEW m \in Migs \ (excused' \cup GoMigs) PROVE Truthful(m)'
      BY DEF RecordInv
  <2>3. Truthful(m) /\ Recorded(m)' = Recorded(m)
      BY <2>1 DEF RecordInv, Mine, Recorded
  <2>4. \A q \in Procs : m \in Unsettled(q)' => schema'[m] = Landed(q)'
      BY <2>1, <2>2, <2>3 DEF Truthful
  <2>5. (\A q \in Procs : m \notin Unsettled(q)') => schema'[m] = Recorded(m)'
      BY <2>1, <2>2, <2>3 DEF Truthful
  <2> QED BY <2>4, <2>5 DEF Truthful
<1> QED
    BY <1>1, <1>2, <1>3, <1>4, <1>5, <1>6, <1>7, <1>8, <1>9, <1>10, <1>11, <1>12,
        <1>13, <1>14, <1>15, <1>16, <1>17, <1>18, <1>19, <1>20, <1>21, <1>22, <1>23,
        <1>24, <1>25, <1>26, <1>27, <1>28, <1>29, <1>30, <1>31, <1>32,
        <1>33, <1>34 DEF Next, Step, Mishap

LEMMA Invariance == Spec => []IInv
<1>1. IInv /\ [Next]_vars => IInv'
    BY ShapeStep, RestStep, PlaceStep, OwnerStep, CleanStep, ChecksumStep, ScanStep,
        FreshStep,
       RecordStep DEF IInv
<1> QED BY InitInv, <1>1, PTL DEF Spec

-----------------------------------------------------------------------------
(* Theorems                                                                *)

\* Whatever fails, times out or crashes, at most one process works while none
\* has gone on without the lock it lost.
THEOREM LockExcludes == Spec => []MutualExclusion
<1>1. IInv => MutualExclusion
    BY DEF IInv, OwnerInv, MutualExclusion, NeverConcurrent
<1> QED BY Invariance, <1>1, PTL

\* No call that checked for a dirty database executes on top of a failed
\* migration, although the check is made several steps before.
THEOREM FailureBlocks == Spec => []DirtyDatabaseBlocks
<1>1. IInv => DirtyDatabaseBlocks
    BY DEF IInv, CleanInv, Checked, CheckedKinds, DirtyDatabaseBlocks, Is
<1> QED BY Invariance, <1>1, PTL

\* Up executes nothing beside a record whose checksum is not its own.
THEOREM DriftBlocks == Spec => []ModifiedMigrationBlocks
<1>1. IInv => ModifiedMigrationBlocks
    BY DEF IInv, ChecksumInv, Verified, VerifiedKinds, ModifiedMigrationBlocks, Is
<1> QED BY Invariance, <1>1, PTL

\* Every variable keeps its type: the migrator writes no other status, visits no
\* other place and plans nothing but migrations there are.
THEOREM TypeCorrect == Spec => []TypeOK
<1>1. IInv => TypeOK
    BY DEF IInv, ShapeInv, RestInv, Records, TypeOK
<1> QED BY Invariance, <1>1, PTL

\* schema_migrations tells the truth about every migration no named exception
\* applies to, whatever fails and whoever crashes, while nobody works unlocked.
THEOREM RecordsTellTruth == Spec => []RecordMatchesSchema
<1>1. IInv => RecordMatchesSchema
    BY DEF IInv, RecordInv, Truthful, Recorded, RecordMatchesSchema, Is
<1> QED BY Invariance, <1>1, PTL
=============================================================================
