------------------------- MODULE MigrationRunner_proofs -------------------------
(***************************************************************************)
(* Theorems about MigrationRunner, for any number of processes, migrations *)
(* and file versions.                                                      *)
(*                                                                         *)
(* Four invariants are built on one another: Typed gives every variable    *)
(* its type and the process that sends SQL a migration to send; Exclusive  *)
(* ties the advisory lock to the one session that may change the database; *)
(* Prepared says what that session, or the backend that outlives it, finds *)
(* in the database before each statement that will change it; Ordered says *)
(* that the migration in hand is on top of the history, and that the plan  *)
(* made under the lock still fits the ledger.  Together they show that the *)
(* runner implements MigrationHistory.                                     *)
(***************************************************************************)
EXTENDS MigrationRunner, TLAPS

Sending == Writing \ {"rollback"}

\* A process that sends SQL has a migration to send, and the bytes it verified.
HasMigration ==
    /\ \A r \in Runners :
        /\ pc[r] \in Sending =>
            /\ cur[r] \in Ids /\ seen[r][cur[r]] \in Versions
            /\ sql[r] = seen[r][cur[r]]
        /\ pc[r] \in Sending \cup {"apply"} => \A i \in todo[r] : seen[r][i] \in Versions
    /\ orphan.at # "none" => orphan.id \in Ids /\ orphan.sum \in Sums

Typed == TypeOK /\ HasMigration

\* The lock is owned by exactly the live session that is past acquireMigrationLock.
Exclusive ==
    /\ \A r \in Runners : Live(r) <=> lock = r
    /\ lock # Backend => orphan = NoOrphan

Whole(c) == [sum |-> c, whole |-> TRUE]

\* what is in the database before the statement sent at pc `at` is executed
Before(at, down, i, c) ==
    /\ at \in {"commit", "markcommit"} =>
        ledger[i] = IF down THEN Row(c, Applied) ELSE NoRow
    /\ at \in {"ndispatch", "nbody", "final"} => ledger[i] = Row(c, Dirty)
    /\ at \in {"ndispatch", "nbody"} => catalog[i] = IF down THEN Whole(c) ELSE NoEffect
    /\ at = "final" => catalog[i] = IF down THEN NoEffect ELSE Whole(c)

Prepared ==
    /\ \A r \in Runners : lock = r => Before(pc[r], IsDown(r), cur[r], ExpectedSum(r))
    /\ lock = Backend => Before(orphan.at, orphan.down, orphan.id, orphan.sum)

Truthful == LedgerIsTruthful /\ Prepared
----------------------------------------------------------------------------
(* Types *)

LocalOK ==
    /\ dir \in [Runners -> [Ids -> Versions \cup {NoFile}]]
    /\ pc \in [Runners -> AllPC]
    /\ cmd \in [Runners -> Commands \cup {"none"}]
    /\ seen \in [Runners -> [Ids -> Versions \cup {NoFile}]]
    /\ todo \in [Runners -> SUBSET Ids]
    /\ cur \in [Runners -> Ids \cup {0}]
    /\ sql \in [Runners -> Versions \cup {NoFile}]
    /\ aborted \in [Runners -> BOOLEAN]
    /\ lost \in [Runners -> BOOLEAN]
    /\ outcome \in [Runners -> [kind : Kinds, broken : BOOLEAN]]
    /\ \A r \in Runners :
        /\ pc[r] \in Sending =>
            /\ cur[r] \in Ids /\ seen[r][cur[r]] \in Versions
            /\ sql[r] = seen[r][cur[r]]
        /\ pc[r] \in Sending \cup {"apply"} => \A i \in todo[r] : seen[r][i] \in Versions

SharedOK ==
    /\ ledger \in [Ids -> RowSet]
    /\ catalog \in [Ids -> EffectSet]
    /\ lock \in Runners \cup {NoLock, Backend}
    /\ orphan \in [at : {"none", "commit", "markcommit", "nbody", "final"},
                   down : BOOLEAN, id : Ids \cup {0}, sum : Sums \cup {"none"}]
    /\ orphan.at # "none" => orphan.id \in Ids /\ orphan.sum \in Sums

LEMMA TypedParts == Typed <=> LocalOK /\ SharedOK
  BY DEF Typed, TypeOK, HasMigration, LocalOK, SharedOK

\* What each way to go on does to a process.
LEMMA LeaveLocal ==
  ASSUME LocalOK, NEW r \in Runners, NEW p \in {"rollback", "release"},
         NEW k \in Kinds, NEW b \in BOOLEAN, Leave(r, p, k, b)
  PROVE  LocalOK'
  BY ConstantsAssumption
  DEF LocalOK, Leave, NoDir, AllPC, Holding, Writing, Transaction, Sending, Outcome

LEMMA ReportLocal ==
  ASSUME LocalOK, NEW r \in Runners, Report(r)
  PROVE  LocalOK'
  BY ConstantsAssumption
  DEF LocalOK, Report, NoDir, NoOutcome, AllPC, Holding, Writing, Transaction, Sending,
      Outcome, Kinds

LEMMA GotoLocal ==
  ASSUME LocalOK, NEW r \in Runners, NEW p \in AllPC, Goto(r, p),
         p \in Sending => pc[r] \in Sending, p # "apply"
  PROVE  LocalOK'
  BY DEF LocalOK, Goto, plan, AllPC, Holding, Writing, Transaction, Sending

LEMMA BeginLocal ==
  ASSUME LocalOK, NEW r \in Runners, NEW ids \in SUBSET Ids,
         \A i \in ids : seen[r][i] \in Versions, Begin(r, ids)
  PROVE  LocalOK'
  BY DEF LocalOK, Begin, AllPC, Holding, Writing, Transaction, Sending

LEMMA NextTurnLocal ==
  ASSUME LocalOK, NEW r \in Runners, pc[r] \in Sending, NextTurn(r)
  PROVE  LocalOK'
  BY DEF LocalOK, NextTurn, AllPC, Holding, Writing, Transaction, Sending

LEMMA SharedFrame == SharedOK /\ UNCHANGED <<database, server>> => SharedOK'
  BY DEF SharedOK, database, server

\* The checksum that a sending process expects is one of the checksums there are.
LEMMA ExpectedIsSum ==
  ASSUME LocalOK, NEW r \in Runners, pc[r] \in Sending
  PROVE  /\ cur[r] \in Ids /\ ExpectedSum(r) \in Sums
         /\ SentSum(r) = ExpectedSum(r)
  BY DEF LocalOK, ExpectedSum, Expected, SentSum, Sums

LEMMA RowTypes == \A c \in Sums : /\ Row(c, Applied) \in RowSet /\ Row(c, Dirty) \in RowSet
                                  /\ NoRow \in RowSet /\ NoEffect \in EffectSet
                                  /\ \A w \in BOOLEAN : [sum |-> c, whole |-> w] \in EffectSet
  BY DEF Row, RowSet, NoRow, NoEffect, EffectSet, Applied, Dirty

\* The statements that change committed state keep its types.
LEMMA StatementTypes ==
  ASSUME SharedOK, NEW down \in BOOLEAN, NEW i \in Ids, NEW c \in Sums,
         \/ CommitMigration(down, i, c, c) \/ CommitMarker(i, c)
         \/ RunWhole(down, i, c) \/ RunPart(i, c) \/ FinishMarker(down, i, c)
  PROVE  ledger' \in [Ids -> RowSet] /\ catalog' \in [Ids -> EffectSet]
  BY RowTypes
  DEF SharedOK, CommitMigration, CommitMarker, RunWhole, RunPart, FinishMarker,
      After, AfterUp, AfterDown

LEMMA SendShared ==
  ASSUME LocalOK, SharedOK, NEW r \in Runners, pc[r] \in Sending, UNCHANGED server,
         \/ CommitMigration(IsDown(r), cur[r], ExpectedSum(r), SentSum(r))
         \/ CommitMarker(cur[r], ExpectedSum(r))
         \/ RunWhole(IsDown(r), cur[r], SentSum(r)) \/ RunPart(cur[r], SentSum(r))
         \/ FinishMarker(IsDown(r), cur[r], ExpectedSum(r))
  PROVE  SharedOK'
<1> DEFINE down == IsDown(r)  i == cur[r]  c == ExpectedSum(r)
<1>1. down \in BOOLEAN /\ i \in Ids /\ c \in Sums /\ SentSum(r) = c
  BY ExpectedIsSum DEF IsDown
<1>2. ledger' \in [Ids -> RowSet] /\ catalog' \in [Ids -> EffectSet]
  <2> HIDE DEF down, i, c
  <2>1. \/ CommitMigration(down, i, c, c) \/ CommitMarker(i, c)
        \/ RunWhole(down, i, c) \/ RunPart(i, c) \/ FinishMarker(down, i, c)
    BY <1>1 DEF down, i, c
  <2> QED
    BY <1>1, <2>1, StatementTypes
<1> QED
  BY <1>2 DEF SharedOK, server

LEMMA DetachShared ==
  ASSUME LocalOK, SharedOK, NEW r \in Runners, Detach(r), UNCHANGED database
  PROVE  SharedOK'
<1>1. LeftBehind(r) \in [at : {"none", "commit", "markcommit", "nbody", "final"},
                         down : BOOLEAN, id : Ids \cup {0}, sum : Sums \cup {"none"}]
  BY ExpectedIsSum
  DEF LeftBehind, NoOrphan, IsDown, Sending, Writing, Transaction
<1>2. LeftBehind(r).at # "none" => LeftBehind(r).id \in Ids /\ LeftBehind(r).sum \in Sums
  BY ExpectedIsSum
  DEF LeftBehind, NoOrphan, Sending, Writing, Transaction
<1>3. CASE lock' = Backend /\ orphan' \in {LeftBehind(r), NoOrphan}
  <2>1. CASE orphan' = LeftBehind(r)
    BY <1>1, <1>2, <1>3, <2>1 DEF SharedOK, database
  <2>2. CASE orphan' = NoOrphan
    BY <1>3, <2>2 DEF SharedOK, database, NoOrphan
  <2> QED BY <1>3, <2>1, <2>2
<1>4. CASE UNCHANGED server
  BY <1>4, SharedFrame
<1> QED
  BY <1>3, <1>4 DEF Detach

LEMMA InitTyped == Init => Typed
<1> SUFFICES ASSUME Init PROVE LocalOK /\ SharedOK
  BY TypedParts
<1>1. LocalOK
  BY ConstantsAssumption
  DEF Init, LocalOK, NoDir, NoOutcome, Outcome, Kinds, AllPC, Sending, Writing, Transaction
<1>2. SharedOK
  BY RowTypes
  DEF Init, SharedOK, NoOrphan, NoRow, NoEffect, RowSet, EffectSet
<1> QED
  BY <1>1, <1>2

\* A step of a command keeps the types.
LEMMA StepTyped ==
  ASSUME Typed, NEW r \in Runners, Step(r)
  PROVE  Typed'
<1>0. LocalOK /\ SharedOK
  BY TypedParts
<1> SUFFICES LocalOK' /\ SharedOK'
  BY TypedParts DEF LocalOK, SharedOK, TypeOK, Typed, HasMigration
<1> USE DEF Kinds
<1>1. CASE Acquire(r)
  <2>1. CASE TryLock(r)
    <3>1. LocalOK'
      BY <1>0, <2>1, GotoLocal DEF TryLock, AllPC, Holding, Sending, Writing, Transaction
    <3>2. SharedOK'
      BY <1>0, <2>1 DEF TryLock, SharedOK, database
    <3> QED BY <3>1, <3>2
  <2>2. CASE LockTimeout(r) \/ AcquireAborted(r) \/ AcquireLost(r)
    BY <1>0, <2>2, ReportLocal, SharedFrame DEF LockTimeout, AcquireAborted, AcquireLost
  <2> QED BY <1>1, <2>1, <2>2 DEF Acquire
<1>2. CASE Loop(r)
  <2>1. CASE FilesChanged(r) \/ Done(r) \/ AbortedBetween(r) \/ ReadSqlChanged(r)
    BY <1>0, <2>1, LeaveLocal, SharedFrame
    DEF FilesChanged, Done, AbortedBetween, ReadSqlChanged
  <2>2. CASE PlanUnderLock(r)
    <3>1. ASSUME NEW k \in Kinds, Leave(r, "release", k, FALSE)
          PROVE  LocalOK' /\ SharedOK'
      BY <1>0, <2>2, <3>1, LeaveLocal, SharedFrame DEF PlanUnderLock
    <3>2. ASSUME NEW ids \in SUBSET Ids, Begin(r, ids),
                 \A i \in ids : seen[r][i] \in Versions
          PROVE  LocalOK' /\ SharedOK'
      BY <1>0, <2>2, <3>2, BeginLocal, SharedFrame DEF PlanUnderLock
    <3>3. CASE UpPlan(r)
      <4>1. \A i \in Pending(seen[r]) : i \in Ids /\ seen[r][i] \in Versions
        BY <1>0 DEF Pending, LocalOK
      <4> QED
        BY <3>1, <3>2, <3>3, <4>1 DEF UpPlan, HistoryStatus
    <3>4. CASE DownPlan(r)
      <4> DEFINE target == {i \in Newest : <<i, seen[r][i]>> \in HasDown}
      <4>1. \A i \in target : i \in Ids /\ seen[r][i] \in Versions
        BY ConstantsAssumption
      <4> QED
        BY <3>1, <3>2, <3>4, <4>1 DEF DownPlan, HistoryStatus
    <3> QED
      BY <2>2, <3>3, <3>4 DEF PlanUnderLock
  <2>3. CASE ReadSql(r)
    <3>1. SharedOK'
      BY <1>0, <2>3, SharedFrame DEF ReadSql
    <3>2. LocalOK'
      BY <1>0, <2>3
      DEF ReadSql, IsNext, BytesVerified, LocalOK, AllPC, Holding, Sending, Writing, Transaction
    <3> QED BY <3>1, <3>2
  <2> QED BY <1>2, <2>1, <2>2, <2>3 DEF Loop
<1>3. CASE Transactional(r)
  <2>1. CASE Commit(r)
    <3>1. LocalOK'
      BY <1>0, <2>1, NextTurnLocal DEF Commit, Sending, Writing, Transaction
    <3>2. SharedOK'
      BY <1>0, <2>1, SendShared
      DEF Commit, Sending, Writing, Transaction
    <3> QED BY <3>1, <3>2
  <2>2. CASE Dispatch(r) \/ Body(r) \/ Record(r) \/ StatementFails(r) \/ Rollback(r)
    BY <1>0, <2>2, LeaveLocal, GotoLocal, SharedFrame
    DEF Dispatch, Body, Record, StatementFails, Rollback, AllPC, Holding, Sending, Writing,
        Transaction
  <2> QED BY <1>3, <2>1, <2>2 DEF Transactional
<1>4. CASE Alone(r)
  <2>1. CASE Mark(r) \/ MarkCommitFails(r) \/ DispatchAlone(r) \/ FinishFails(r)
    BY <1>0, <2>1, LeaveLocal, GotoLocal, SharedFrame
    DEF Mark, MarkCommitFails, DispatchAlone, FinishFails, AllPC, Holding, Sending, Writing,
        Transaction
  <2>2. CASE MarkCommit(r) \/ RunAlone(r)
    <3>1. LocalOK'
      BY <1>0, <2>2, GotoLocal
      DEF MarkCommit, RunAlone, AllPC, Holding, Sending, Writing, Transaction
    <3>2. SharedOK'
      BY <1>0, <2>2, SendShared
      DEF MarkCommit, RunAlone, Sending, Writing, Transaction
    <3> QED BY <3>1, <3>2
  <2>3. CASE RunAloneFails(r)
    <3>1. LocalOK'
      BY <1>0, <2>3, LeaveLocal DEF RunAloneFails
    <3>2. CASE UNCHANGED database
      BY <1>0, <2>3, <3>1, <3>2, SharedFrame DEF RunAloneFails
    <3>3. CASE RunPart(cur[r], SentSum(r))
      BY <1>0, <2>3, <3>1, <3>3, SendShared
      DEF RunAloneFails, Sending, Writing, Transaction
    <3> QED BY <2>3, <3>2, <3>3 DEF RunAloneFails
  <2>4. CASE Finish(r)
    <3>1. CASE MarkerMatches(cur[r], ExpectedSum(r))
      <4>1. LocalOK'
        BY <1>0, <2>4, <3>1, NextTurnLocal DEF Finish, Sending, Writing, Transaction
      <4>2. SharedOK'
        BY <1>0, <2>4, <3>1, SendShared
        DEF Finish, Sending, Writing, Transaction
      <4> QED BY <4>1, <4>2
    <3>2. CASE ~MarkerMatches(cur[r], ExpectedSum(r))
      BY <1>0, <2>4, <3>2, LeaveLocal, SharedFrame DEF Finish
    <3> QED BY <3>1, <3>2
  <2> QED BY <1>4, <2>1, <2>2, <2>3, <2>4 DEF Alone
<1>5. CASE Observe(r)
  <2>1. CASE ObserveTryLock(r) \/ ObserveUnlock(r)
    <3>1. LocalOK'
      BY <1>0, <2>1, GotoLocal
      DEF ObserveTryLock, ObserveUnlock, AllPC, Holding, Sending, Writing, Transaction
    <3>2. SharedOK'
      BY <1>0, <2>1 DEF ObserveTryLock, ObserveUnlock, SharedOK, database
    <3> QED BY <3>1, <3>2
  <2>2. CASE ObserveLocked(r) \/ Inspect(r) \/ ObserveLost(r)
    BY <1>0, <2>2, ReportLocal, SharedFrame DEF ObserveLocked, Inspect, ObserveLost
  <2> QED BY <1>5, <2>1, <2>2 DEF Observe
<1>6. CASE Lost(r)
  BY <1>0, <1>6, LeaveLocal, SharedFrame
  DEF Lost, LostOutsideTransaction, LostInTransaction, LostAtMarkCommit, LostAfterDispatch,
      LostAtFinish
<1>7. CASE Leaving(r)
  <2>1. CASE Release(r) \/ ReleaseBroken(r)
    <3>1. LocalOK'
      BY <1>0, <2>1, ReportLocal DEF Release, ReleaseBroken
    <3>2. SharedOK'
      BY <1>0, <2>1 DEF Release, ReleaseBroken, SharedOK, database
    <3> QED BY <3>1, <3>2
  <2>2. CASE ReleaseLost(r)
    BY <1>0, <2>2, LeaveLocal, SharedFrame DEF ReleaseLost
  <2> QED BY <1>7, <2>1, <2>2 DEF Leaving
<1> QED
  BY <1>1, <1>2, <1>3, <1>4, <1>5, <1>6, <1>7 DEF Step

\* So does everything that happens to it and around it.
LEMMA EnvironmentTyped ==
  ASSUME Typed, NEW r \in Runners, Environment(r)
  PROVE  Typed'
<1>0. LocalOK /\ SharedOK
  BY TypedParts
<1> SUFFICES LocalOK' /\ SharedOK'
  BY TypedParts DEF LocalOK, SharedOK, TypeOK, Typed, HasMigration
<1>1. CASE Start(r)
  <2>1. SharedOK'
    BY <1>0, <1>1, SharedFrame DEF Start
  <2>2. PICK c \in Commands, d \in Directories :
            /\ cmd' = [cmd EXCEPT ![r] = c]
            /\ pc' = [pc EXCEPT ![r] = IF c = "status" THEN "observe" ELSE "acquire"]
            /\ dir' = [dir EXCEPT ![r] = d]
            /\ seen' = [seen EXCEPT ![r] = d]
    BY <1>1 DEF Start
  <2>3. d \in [Ids -> Versions \cup {NoFile}]
    BY ConstantsAssumption
  <2> QED
    BY <1>0, <1>1, <2>1, <2>2, <2>3
    DEF Start, LocalOK, AllPC, Holding, Sending, Writing, Transaction
<1>2. CASE Abort(r)
  <2>1. LocalOK'
    BY <1>0, <1>2 DEF Abort, LocalOK, plan
  <2> QED BY <1>0, <1>2, <2>1, SharedFrame DEF Abort
<1>5. CASE ChangeFiles(r)
  <2>1. PICK d \in Directories : dir' = [dir EXCEPT ![r] = d]
    BY <1>5 DEF ChangeFiles
  <2>2. d \in [Ids -> Versions \cup {NoFile}]
    BY ConstantsAssumption
  <2>3. LocalOK'
    BY <1>0, <1>5, <2>1, <2>2 DEF ChangeFiles, LocalOK, plan
  <2> QED BY <1>0, <1>5, <2>3, SharedFrame DEF ChangeFiles
<1>3. CASE LoseSession(r)
  BY <1>0, <1>3, DetachShared DEF LoseSession, LocalOK, plan
<1>4. CASE Crash(r)
  <2>1. LocalOK'
    BY <1>0, <1>4, ReportLocal DEF Crash
  <2>2. SharedOK'
    BY <1>0, <1>4, DetachShared, SharedFrame DEF Crash
  <2> QED BY <2>1, <2>2
<1> QED
  BY <1>1, <1>2, <1>3, <1>4, <1>5 DEF Environment

LEMMA OutsideTyped ==
  ASSUME Typed, BackendEnds \/ \E i \in Ids : Reconcile(i)
  PROVE  Typed'
<1>0. LocalOK /\ SharedOK
  BY TypedParts
<1> SUFFICES SharedOK'
  BY <1>0, TypedParts
  DEF BackendEnds, Reconcile, LocalOK, SharedOK, TypeOK, Typed, HasMigration, plan
<1>1. CASE BackendEnds
  <2>1. ledger' \in [Ids -> RowSet] /\ catalog' \in [Ids -> EffectSet]
    <3>1. CASE UNCHANGED database
      BY <1>0, <3>1 DEF SharedOK, database
    <3>2. CASE orphan.at # "none" /\ ~UNCHANGED database
      <4> DEFINE down == orphan.down  i == orphan.id  c == orphan.sum
      <4>1. down \in BOOLEAN /\ i \in Ids /\ c \in Sums
        BY <1>0, <3>2 DEF SharedOK
      <4>2. \/ CommitMigration(down, i, c, c) \/ CommitMarker(i, c)
            \/ RunWhole(down, i, c) \/ RunPart(i, c) \/ FinishMarker(down, i, c)
        BY <1>1, <3>2 DEF BackendEnds
      <4> HIDE DEF down, i, c
      <4> QED
        BY <1>0, <4>1, <4>2, StatementTypes
    <3> QED
      BY <1>1, <3>1, <3>2 DEF BackendEnds
  <2> QED
    BY <1>1, <2>1 DEF BackendEnds, SharedOK, NoOrphan
<1>2. ASSUME NEW i \in Ids, Reconcile(i) PROVE SharedOK'
  <2>1. ledger[i].sum \in Sums
    BY <1>0, <1>2 DEF Reconcile, DirtyRows, SharedOK, RowSet, NoRow, Dirty
  <2>2. /\ Row(ledger[i].sum, Applied) \in RowSet /\ NoRow \in RowSet
        /\ [sum |-> ledger[i].sum, whole |-> TRUE] \in EffectSet /\ NoEffect \in EffectSet
    BY <2>1, RowTypes
  <2>3. ledger' \in [Ids -> RowSet]
    <3>1. \E w \in RowSet : ledger' = [ledger EXCEPT ![i] = w]
      BY <1>2, <2>2 DEF Reconcile
    <3> QED BY <1>0, <3>1 DEF SharedOK
  <2>4. catalog' \in [Ids -> EffectSet]
    <3>1. \E w \in EffectSet : catalog' = [catalog EXCEPT ![i] = w]
      BY <1>2, <2>2 DEF Reconcile
    <3> QED BY <1>0, <3>1 DEF SharedOK
  <2> QED
    BY <1>0, <1>2, <2>3, <2>4 DEF Reconcile, SharedOK, server
<1> QED
  BY <1>1, <1>2

LEMMA NextTyped == Typed /\ [Next]_vars => Typed'
<1> SUFFICES ASSUME Typed, [Next]_vars PROVE Typed'
  OBVIOUS
<1>1. CASE UNCHANGED vars
  BY <1>1
  DEF vars, Typed, TypeOK, HasMigration, database, server, plan
<1>2. CASE Next
  BY <1>2, StepTyped, EnvironmentTyped, OutsideTyped DEF Next
<1> QED
  BY <1>1, <1>2

LEMMA AlwaysTyped == Spec => []Typed
  BY InitTyped, NextTyped, PTL DEF Spec

\* Every variable always has its type, whatever is lost, cancelled or killed.
THEOREM TypesHold == Spec => []TypeOK
<1>1. Typed => TypeOK
  BY DEF Typed
<1> QED
  BY <1>1, AlwaysTyped, PTL
----------------------------------------------------------------------------
(* Mutual exclusion *)

\* A process that stays between acquiring and releasing the lock.
LEMMA HoldingExclusive ==
  ASSUME Typed, Exclusive, NEW r \in Runners, NEW p \in Holding, pc[r] \in Holding,
         pc' = [pc EXCEPT ![r] = p], UNCHANGED <<lost, server>>
  PROVE  Exclusive'
  BY DEF Typed, TypeOK, Exclusive, Live, server

\* A process that does not own the lock and ends.
LEMMA ReportExclusive ==
  ASSUME Typed, Exclusive, NEW r \in Runners, ~Live(r), Report(r), UNCHANGED server
  PROVE  Exclusive'
  BY DEF Typed, TypeOK, Exclusive, Live, Report, server, Holding, Writing, Transaction

\* Under the lock every step leaves the lock alone, except the last.
LEMMA LockedSteps ==
  ASSUME Typed, NEW r \in Runners,
         Loop(r) \/ Transactional(r) \/ Alone(r) \/ Lost(r) \/ ReleaseLost(r)
  PROVE  /\ pc[r] \in Holding /\ UNCHANGED <<lost, server>>
         /\ \E p \in Holding : pc' = [pc EXCEPT ![r] = p]
<1> USE DEF Holding, Writing, Transaction
<1>1. CASE Loop(r)
  <2>1. CASE FilesChanged(r) \/ Done(r) \/ AbortedBetween(r) \/ ReadSqlChanged(r)
    BY <2>1 DEF FilesChanged, Done, AbortedBetween, ReadSqlChanged, Leave
  <2>2. CASE PlanUnderLock(r)
    BY <2>2 DEF PlanUnderLock, UpPlan, DownPlan, Leave, Begin
  <2>3. CASE ReadSql(r)
    BY <2>3 DEF ReadSql
  <2> QED BY <1>1, <2>1, <2>2, <2>3 DEF Loop
<1>2. CASE Transactional(r)
  BY <1>2
  DEF Transactional, Dispatch, Body, Record, Commit, StatementFails, Rollback, Leave, Goto,
      NextTurn
<1>3. CASE Alone(r)
  BY <1>3
  DEF Alone, Mark, MarkCommit, MarkCommitFails, DispatchAlone, RunAlone, RunAloneFails, Finish,
      FinishFails, Leave, Goto, NextTurn
<1>4. CASE Lost(r) \/ ReleaseLost(r)
  BY <1>4
  DEF Lost, LostOutsideTransaction, LostInTransaction, LostAtMarkCommit, LostAfterDispatch,
      LostAtFinish, ReleaseLost, Leave
<1> QED
  BY <1>1, <1>2, <1>3, <1>4

LEMMA DetachExclusive ==
  ASSUME Typed, Exclusive, NEW r \in Runners, Detach(r), ~lost[r], lost'[r] \/ pc'[r] = "idle",
         \A q \in Runners \ {r} : pc'[q] = pc[q] /\ lost'[q] = lost[q]
  PROVE  Exclusive'
<1>1. /\ ~Live(r)'
      /\ \A q \in Runners \ {r} : Live(q)' <=> Live(q)
  BY DEF Live, Holding, Writing, Transaction, Typed, TypeOK
<1>2. \A q \in Runners : q # Backend /\ q # NoLock
  BY ConstantsAssumption
<1>3. CASE lock = r /\ lock' = Backend
  BY <1>1, <1>2, <1>3 DEF Exclusive
<1>4. CASE lock = NoLock /\ lock' = Backend
  BY <1>1, <1>2, <1>4 DEF Exclusive
<1>5. CASE lock # r /\ UNCHANGED server
  BY <1>1, <1>2, <1>5 DEF Exclusive, server
<1> QED
  BY <1>3, <1>4, <1>5 DEF Detach

LEMMA NextExclusive ==
  ASSUME Typed, Exclusive, [Next]_vars
  PROVE  Exclusive'
<1> USE DEF Holding, Writing, Transaction
<1>1. CASE UNCHANGED vars
  BY <1>1 DEF vars, Exclusive, Live, server
<1>2. ASSUME NEW r \in Runners, Step(r) PROVE Exclusive'
  <2>1. CASE Loop(r) \/ Transactional(r) \/ Alone(r) \/ Lost(r) \/ ReleaseLost(r)
    <3> HIDE DEF Holding
    <3> QED BY <2>1, LockedSteps, HoldingExclusive
  <2>2. CASE TryLock(r) \/ ObserveTryLock(r)
    BY <2>2, ConstantsAssumption
    DEF TryLock, ObserveTryLock, Goto, plan, Typed, TypeOK, Exclusive, Live
  <2>3. CASE LockTimeout(r) \/ AcquireAborted(r) \/ AcquireLost(r)
             \/ ObserveLocked(r) \/ Inspect(r) \/ ObserveLost(r)
    BY <2>3, ReportExclusive
    DEF LockTimeout, AcquireAborted, AcquireLost, ObserveLocked, Inspect, ObserveLost, Live
  <2>4. CASE ObserveUnlock(r)
    BY <2>4, ConstantsAssumption
    DEF ObserveUnlock, Goto, plan, Typed, TypeOK, Exclusive, Live
  <2>7. CASE Release(r)
    BY <2>7, ConstantsAssumption
    DEF Release, Report, Typed, TypeOK, Exclusive, Live
  <2>5. CASE ReleaseBroken(r) /\ lost[r]
    BY <2>5, ReportExclusive DEF ReleaseBroken, Live, server
  <2>6. CASE ReleaseBroken(r) /\ ~lost[r]
    BY <2>6, ConstantsAssumption
    DEF ReleaseBroken, Report, Typed, TypeOK, Exclusive, Live
  <2> QED
    BY <1>2, <2>1, <2>2, <2>3, <2>4, <2>5, <2>6, <2>7
    DEF Step, Acquire, Observe, Leaving
<1>3. ASSUME NEW r \in Runners, Environment(r) PROVE Exclusive'
  <2>1. CASE Start(r)
    BY <2>1 DEF Start, Typed, TypeOK, Exclusive, Live, server
  <2>2. CASE Abort(r) \/ ChangeFiles(r)
    BY <2>2 DEF Abort, ChangeFiles, Exclusive, Live, server
  <2>3. CASE LoseSession(r)
    BY <2>3, DetachExclusive DEF LoseSession, Typed, TypeOK
  <2>4. CASE Crash(r) /\ lost[r]
    BY <2>4, ReportExclusive DEF Crash, Live
  <2>5. CASE Crash(r) /\ ~lost[r]
    BY <2>5, DetachExclusive DEF Crash, Report, Typed, TypeOK
  <2> QED
    BY <1>3, <2>1, <2>2, <2>3, <2>4, <2>5 DEF Environment
<1>4. CASE BackendEnds
  BY <1>4, ConstantsAssumption DEF BackendEnds, Exclusive, Live
<1>5. CASE \E i \in Ids : Reconcile(i)
  BY <1>5 DEF Reconcile, Exclusive, Live, server
<1> QED
  BY <1>1, <1>2, <1>3, <1>4, <1>5 DEF Next

LEMMA AlwaysExclusive == Spec => []Exclusive
<1>1. Init => Exclusive
  BY ConstantsAssumption DEF Init, Exclusive, Live, Holding, Writing, Transaction
<1>2. Typed /\ Exclusive /\ [Next]_vars => Exclusive'
  BY NextExclusive
<1> QED
  BY <1>1, <1>2, AlwaysTyped, PTL DEF Spec

\* Two live sessions never both work under the lock, and none does while a backend whose
\* client is gone may still execute something.
THEOREM MutualExclusion == Spec => []OneSession
<1>1. Exclusive => OneSession
  BY ConstantsAssumption DEF Exclusive, OneSession
<1> QED
  BY <1>1, AlwaysExclusive, PTL
----------------------------------------------------------------------------
(* The ledger tells the truth *)

LEMMA TruthPointwise ==
  /\ LedgerIsTruthful <=> \A j \in Ids :
        /\ ledger[j] = NoRow => catalog[j] = NoEffect
        /\ ledger[j].state = Applied => catalog[j] = Whole(ledger[j].sum)
  /\ LedgerIsTruthful' <=> \A j \in Ids :
        /\ ledger'[j] = NoRow => catalog'[j] = NoEffect
        /\ ledger'[j].state = Applied => catalog'[j] = Whole(ledger'[j].sum)
  BY DEF LedgerIsTruthful, Recorded, Whole

\* What each statement does to a database that is prepared for it.
LEMMA StatementsAreTruthful ==
  ASSUME SharedOK, LedgerIsTruthful, NEW down \in BOOLEAN, NEW i \in Ids, NEW c \in Sums
  PROVE  /\ Before("commit", down, i, c) /\ CommitMigration(down, i, c, c) => LedgerIsTruthful'
         /\ Before("markcommit", down, i, c) /\ CommitMarker(i, c) =>
              /\ LedgerIsTruthful'
              /\ ledger'[i] = Row(c, Dirty)
              /\ catalog'[i] = IF down THEN Whole(c) ELSE NoEffect
         /\ Before("nbody", down, i, c) /\ RunPart(i, c) => LedgerIsTruthful'
         /\ Before("nbody", down, i, c) /\ RunWhole(down, i, c) =>
              /\ LedgerIsTruthful'
              /\ ledger'[i] = Row(c, Dirty)
              /\ catalog'[i] = IF down THEN NoEffect ELSE Whole(c)
         /\ Before("final", down, i, c) /\ FinishMarker(down, i, c) => LedgerIsTruthful'
<1>1. /\ \A st : Row(c, st).state = st /\ Row(c, st).sum = c
      /\ Row(c, Applied) # NoRow /\ Row(c, Dirty) # NoRow /\ Applied # Dirty
      /\ NoRow.state # Applied /\ Whole(c).whole = TRUE /\ Whole(c).sum = c
  BY DEF Row, NoRow, Applied, Dirty, Whole
<1>2. /\ ledger \in [Ids -> RowSet] /\ catalog \in [Ids -> EffectSet]
      /\ i \in Ids /\ down \in BOOLEAN
  BY DEF SharedOK
<1> HIDE DEF Row, NoRow, NoEffect, Whole, Applied, Dirty, LedgerIsTruthful, SharedOK
<1>3. Before("commit", down, i, c) /\ CommitMigration(down, i, c, c) => LedgerIsTruthful'
  <2> SUFFICES ASSUME Before("commit", down, i, c), CommitMigration(down, i, c, c)
               PROVE  LedgerIsTruthful'
    OBVIOUS
  <2>1. catalog'[i] = IF down THEN NoEffect ELSE Whole(c)
    <3>1. CASE down
      BY <1>1, <1>2, TruthPointwise, <3>1 DEF Before, CommitMigration, After, AfterDown
    <3>2. CASE ~down
      <4>1. catalog[i] = NoEffect
        BY <1>2, TruthPointwise, <3>2 DEF Before
      <4>2. AfterUp(i, c) = Whole(c)
        BY <4>1 DEF AfterUp, Whole
      <4> QED
        BY <1>2, <3>2, <4>2 DEF CommitMigration, After
    <3> QED BY <1>2, <3>1, <3>2
  <2>2. ledger'[i] = IF down THEN NoRow ELSE Row(c, Applied)
    BY <1>2 DEF CommitMigration
  <2>3. \A j \in Ids \ {i} : ledger'[j] = ledger[j] /\ catalog'[j] = catalog[j]
    BY <1>2 DEF CommitMigration
  <2> QED
    BY <1>1, <1>2, TruthPointwise, <2>1, <2>2, <2>3
<1>4. Before("markcommit", down, i, c) /\ CommitMarker(i, c) =>
        /\ LedgerIsTruthful'
        /\ ledger'[i] = Row(c, Dirty)
        /\ catalog'[i] = IF down THEN Whole(c) ELSE NoEffect
  BY <1>1, <1>2, TruthPointwise DEF Before, CommitMarker
<1>5. Before("nbody", down, i, c) /\ RunPart(i, c) => LedgerIsTruthful'
  BY <1>1, <1>2, TruthPointwise DEF Before, RunPart
<1>6. Before("nbody", down, i, c) /\ RunWhole(down, i, c) =>
        /\ LedgerIsTruthful'
        /\ ledger'[i] = Row(c, Dirty)
        /\ catalog'[i] = IF down THEN NoEffect ELSE Whole(c)
  <2> SUFFICES ASSUME Before("nbody", down, i, c), RunWhole(down, i, c)
               PROVE  /\ LedgerIsTruthful'
                      /\ ledger'[i] = Row(c, Dirty)
                      /\ catalog'[i] = IF down THEN NoEffect ELSE Whole(c)
    OBVIOUS
  <2>1. After(down, i, c) = IF down THEN NoEffect ELSE Whole(c)
    <3>1. CASE down
      BY <1>1, <1>2, <3>1 DEF Before, After, AfterDown
    <3>2. CASE ~down
      BY <1>2, <3>2 DEF Before, After, AfterUp, Whole
    <3> QED BY <1>2, <3>1, <3>2
  <2> QED
    BY <1>1, <1>2, TruthPointwise, <2>1 DEF Before, RunWhole
<1>7. Before("final", down, i, c) /\ FinishMarker(down, i, c) => LedgerIsTruthful'
  BY <1>1, <1>2, TruthPointwise DEF Before, FinishMarker
<1> QED
  BY <1>3, <1>4, <1>5, <1>6, <1>7

\* A step of one process leaves the plans of the others alone.
Undisturbed(r) ==
    \A q \in Runners \ {r} :
        /\ pc'[q] = pc[q] /\ cmd'[q] = cmd[q] /\ seen'[q] = seen[q]
        /\ cur'[q] = cur[q] /\ todo'[q] = todo[q] /\ lost'[q] = lost[q]
        /\ outcome'[q] = outcome[q]

LEMMA WaysUndisturbed ==
  ASSUME Typed, NEW r \in Runners
  PROVE  /\ \A p, k, b : Leave(r, p, k, b) => Undisturbed(r)
         /\ \A p : Goto(r, p) => Undisturbed(r)
         /\ \A ids : Begin(r, ids) => Undisturbed(r)
         /\ Report(r) \/ NextTurn(r) => Undisturbed(r)
<1> USE DEF Typed, TypeOK, Undisturbed
<1>1. \A p, k, b : Leave(r, p, k, b) => Undisturbed(r)
  BY DEF Leave
<1>2. \A p : Goto(r, p) => Undisturbed(r)
  BY DEF Goto, plan
<1>3. \A ids : Begin(r, ids) => Undisturbed(r)
  BY DEF Begin
<1>4. Report(r) \/ NextTurn(r) => Undisturbed(r)
  BY DEF Report, NextTurn
<1> QED BY <1>1, <1>2, <1>3, <1>4

LEMMA OthersUndisturbed ==
  ASSUME Typed, NEW r \in Runners, Step(r) \/ Environment(r)
  PROVE  Undisturbed(r)
<1>1. CASE Acquire(r)
  BY <1>1, WaysUndisturbed DEF Acquire, TryLock, LockTimeout, AcquireAborted, AcquireLost
<1>2. CASE Loop(r)
  <2>1. CASE ReadSql(r)
    BY <2>1 DEF ReadSql, Typed, TypeOK, Undisturbed
  <2> QED
    BY <1>2, <2>1, WaysUndisturbed
    DEF Loop, FilesChanged, PlanUnderLock, Done, AbortedBetween, ReadSqlChanged, UpPlan, DownPlan
<1>3. CASE Transactional(r)
  BY <1>3, WaysUndisturbed
  DEF Transactional, Dispatch, Body, Record, Commit, StatementFails, Rollback
<1>4. CASE Alone(r)
  BY <1>4, WaysUndisturbed
  DEF Alone, Mark, MarkCommit, MarkCommitFails, DispatchAlone, RunAlone, RunAloneFails, Finish,
      FinishFails
<1>5. CASE Observe(r)
  BY <1>5, WaysUndisturbed
  DEF Observe, ObserveLocked, ObserveTryLock, ObserveUnlock, Inspect, ObserveLost
<1>6. CASE Lost(r)
  BY <1>6, WaysUndisturbed
  DEF Lost, LostOutsideTransaction, LostInTransaction, LostAtMarkCommit, LostAfterDispatch,
      LostAtFinish
<1>7. CASE Leaving(r)
  BY <1>7, WaysUndisturbed DEF Leaving, Release, ReleaseLost, ReleaseBroken
<1>8. CASE Environment(r)
  BY <1>8, WaysUndisturbed
  DEF Environment, Start, Abort, LoseSession, Crash, ChangeFiles, plan, Typed, TypeOK, Undisturbed
<1> QED
  BY <1>1, <1>2, <1>3, <1>4, <1>5, <1>6, <1>7, <1>8 DEF Step

\* The process that owns the lock is prepared, and the backend without a client too.
PreparedOwner(r) == lock = r => Before(pc[r], IsDown(r), cur[r], ExpectedSum(r))
PreparedOrphan == lock = Backend => Before(orphan.at, orphan.down, orphan.id, orphan.sum)

LEMMA OthersPrepared ==
  ASSUME Prepared, NEW r \in Runners, Undisturbed(r), UNCHANGED <<database, server>>,
         PreparedOwner(r)'
  PROVE  Prepared'
  BY DEF Prepared, PreparedOwner, Undisturbed, Before, IsDown, ExpectedSum, Expected, Row,
         database, server

\* One process owns the lock before and after the step: it alone has to be prepared.
LEMMA OwnerPrepared ==
  ASSUME NEW r \in Runners, lock' = r, PreparedOwner(r)'
  PROVE  Prepared'
  BY ConstantsAssumption DEF Prepared, PreparedOwner

LEMMA TruthfulFrame == LedgerIsTruthful /\ UNCHANGED database => LedgerIsTruthful'
  BY DEF LedgerIsTruthful, Recorded, database

\* Steps that neither touch the database nor the lock, and prepare nothing.
LEMMA QuietTruthful ==
  ASSUME Typed, Truthful, NEW r \in Runners, Undisturbed(r), UNCHANGED <<database, server>>,
         pc'[r] \notin {"commit", "markcommit", "ndispatch", "nbody", "final"}
  PROVE  Truthful'
<1>1. PreparedOwner(r)'
  BY DEF PreparedOwner, Before
<1> QED
  BY <1>1, OthersPrepared, TruthfulFrame DEF Truthful

\* The statements of the process that owns the lock.
LEMMA SendTruthful ==
  ASSUME Typed, Exclusive, Truthful, NEW r \in Runners, Undisturbed(r),
         Commit(r) \/ MarkCommit(r) \/ RunAlone(r) \/ RunAloneFails(r) \/ Finish(r)
  PROVE  Truthful'
<1> DEFINE down == IsDown(r)  i == cur[r]  c == ExpectedSum(r)
<1>1. /\ LocalOK /\ SharedOK /\ pc[r] \in Sending /\ pc[r] \in Holding /\ ~lost[r]
  BY TypedParts
  DEF Commit, MarkCommit, RunAlone, RunAloneFails, Finish, Sending, Holding, Writing, Transaction
<1>2. down \in BOOLEAN /\ i \in Ids /\ c \in Sums /\ SentSum(r) = c
  BY <1>1, ExpectedIsSum DEF IsDown
<1>3. lock = r /\ lock' = r
  BY <1>1
  DEF Exclusive, Live, Commit, MarkCommit, RunAlone, RunAloneFails, Finish, server
<1>4. Before(pc[r], down, i, c) /\ LedgerIsTruthful
  BY <1>3 DEF Truthful, Prepared
<1>5. /\ Before("commit", down, i, c) /\ CommitMigration(down, i, c, c) => LedgerIsTruthful'
      /\ Before("markcommit", down, i, c) /\ CommitMarker(i, c) =>
           /\ LedgerIsTruthful'
           /\ ledger'[i] = Row(c, Dirty)
           /\ catalog'[i] = IF down THEN Whole(c) ELSE NoEffect
      /\ Before("nbody", down, i, c) /\ RunPart(i, c) => LedgerIsTruthful'
      /\ Before("nbody", down, i, c) /\ RunWhole(down, i, c) =>
           /\ LedgerIsTruthful'
           /\ ledger'[i] = Row(c, Dirty)
           /\ catalog'[i] = IF down THEN NoEffect ELSE Whole(c)
      /\ Before("final", down, i, c) /\ FinishMarker(down, i, c) => LedgerIsTruthful'
  <2> HIDE DEF down, i, c
  <2> QED BY <1>1, <1>2, <1>4, StatementsAreTruthful
<1>6. PreparedOwner(r)' => Prepared'
  BY <1>3, OwnerPrepared
<1> SUFFICES LedgerIsTruthful' /\ PreparedOwner(r)'
  BY <1>6 DEF Truthful
<1>7. CASE Commit(r)
  BY <1>1, <1>2, <1>4, <1>5, <1>7
  DEF Commit, NextTurn, PreparedOwner, Before, LocalOK
<1>8. CASE MarkCommit(r)
  <2>1. pc'[r] = "ndispatch" /\ UNCHANGED <<cmd, seen, cur>>
    BY <1>1, <1>8 DEF MarkCommit, Goto, plan, LocalOK
  <2>2. LedgerIsTruthful' /\ ledger'[i] = Row(c, Dirty)
        /\ catalog'[i] = IF down THEN Whole(c) ELSE NoEffect
    BY <1>4, <1>5, <1>8 DEF MarkCommit
  <2> QED
    BY <2>1, <2>2 DEF PreparedOwner, Before, IsDown, ExpectedSum, Expected, Row, Whole, NoEffect
<1>9. CASE RunAlone(r)
  <2>1. pc'[r] = "final" /\ UNCHANGED <<cmd, seen, cur>>
    BY <1>1, <1>9 DEF RunAlone, Goto, plan, LocalOK
  <2>2. LedgerIsTruthful' /\ ledger'[i] = Row(c, Dirty)
        /\ catalog'[i] = IF down THEN NoEffect ELSE Whole(c)
    BY <1>2, <1>4, <1>5, <1>9 DEF RunAlone
  <2> QED
    BY <2>1, <2>2 DEF PreparedOwner, Before, IsDown, ExpectedSum, Expected, Row, Whole, NoEffect
<1>10. CASE RunAloneFails(r)
  <2>1. pc'[r] = "release"
    BY <1>1, <1>10 DEF RunAloneFails, Leave, LocalOK
  <2>2. LedgerIsTruthful'
    BY <1>2, <1>4, <1>5, <1>10, TruthfulFrame DEF RunAloneFails
  <2> QED
    BY <2>1, <2>2 DEF PreparedOwner, Before
<1>11. CASE Finish(r)
  <2>1. pc'[r] \in {"apply", "release"}
    BY <1>1, <1>11 DEF Finish, Leave, NextTurn, LocalOK
  <2>2. LedgerIsTruthful'
    BY <1>2, <1>4, <1>5, <1>11, TruthfulFrame DEF Finish
  <2> QED
    BY <2>1, <2>2 DEF PreparedOwner, Before
<1> QED
  BY <1>7, <1>8, <1>9, <1>10, <1>11

LEMMA StepTruthful ==
  ASSUME Typed, Exclusive, Truthful, NEW r \in Runners, Step(r)
  PROVE  Truthful'
<1>0. Undisturbed(r) /\ LedgerIsTruthful
  BY OthersUndisturbed DEF Truthful
<1> USE DEF Typed, TypeOK
<1>1. CASE Commit(r) \/ MarkCommit(r) \/ RunAlone(r) \/ RunAloneFails(r) \/ Finish(r)
  BY <1>0, <1>1, SendTruthful
<1>2. CASE TryLock(r) \/ ObserveTryLock(r)
  <2>1. pc'[r] \in {"locked", "unlock"} /\ lock' = r /\ UNCHANGED database
    BY <1>2 DEF TryLock, ObserveTryLock, Goto
  <2>2. PreparedOwner(r)'
    BY <2>1 DEF PreparedOwner, Before
  <2> QED
    BY <1>0, <2>1, <2>2, OwnerPrepared, TruthfulFrame DEF Truthful
<1>3. CASE ObserveUnlock(r) \/ Release(r)
  BY <1>0, <1>3, TruthfulFrame, ConstantsAssumption DEF ObserveUnlock, Release, Truthful, Prepared
<1>4. CASE ReleaseBroken(r) /\ ~lost[r]
  <2>1. lock = r /\ orphan = NoOrphan
    BY <1>4, ConstantsAssumption DEF ReleaseBroken, Exclusive, Live, Holding
  <2>2. lock' = Backend /\ orphan' = NoOrphan /\ UNCHANGED database
    BY <1>4, <2>1 DEF ReleaseBroken
  <2>3. Prepared'
    BY <2>2, ConstantsAssumption DEF Prepared, Before, NoOrphan
  <2> QED
    BY <1>0, <2>2, <2>3, TruthfulFrame DEF Truthful
<1>5. CASE ReleaseBroken(r) /\ lost[r]
  BY <1>0, <1>5, QuietTruthful DEF ReleaseBroken, Report, server
<1>6. CASE Record(r) \/ Mark(r)
  <2>1. /\ pc'[r] \in {"commit", "markcommit"} => RowReady(r) /\ UNCHANGED <<cmd, seen, cur>>
        /\ pc'[r] \in {"commit", "markcommit", "rollback"}
    BY <1>6 DEF Record, Mark, Leave, Goto, plan
  <2>2. PreparedOwner(r)'
    <3>1. CASE pc'[r] = "rollback"
      BY <3>1 DEF PreparedOwner, Before
    <3>2. CASE RowReady(r) /\ UNCHANGED <<cmd, seen, cur, ledger, catalog>>
               /\ pc'[r] \in {"commit", "markcommit"}
      BY <3>2
      DEF PreparedOwner, Before, RowReady, IsDown, ExpectedSum, Expected, Recorded, Row
    <3> QED BY <1>6, <2>1, <3>1, <3>2 DEF Record, Mark, database
  <2> QED
    BY <1>0, <1>6, <2>2, OthersPrepared, TruthfulFrame DEF Record, Mark, Truthful
<1>7. CASE DispatchAlone(r)
  <2>1. PreparedOwner(r)'
    <3>1. CASE pc'[r] = "release"
      BY <3>1 DEF PreparedOwner, Before
    <3>2. CASE Goto(r, "nbody")
      <4>1. PreparedOwner(r) /\ pc[r] = "ndispatch" /\ pc'[r] = "nbody"
        BY <1>7, <3>2 DEF DispatchAlone, Goto, Truthful, Prepared, PreparedOwner
      <4>2. UNCHANGED <<cmd, seen, cur, ledger, catalog, lock>>
        BY <1>7, <3>2 DEF DispatchAlone, Goto, plan, database, server
      <4> QED
        BY <4>1, <4>2
        DEF PreparedOwner, Before, IsDown, ExpectedSum, Expected, Row, Whole, NoEffect
    <3> QED BY <1>7, <3>1, <3>2 DEF DispatchAlone, Leave
  <2> QED
    BY <1>0, <1>7, <2>1, OthersPrepared, TruthfulFrame DEF DispatchAlone, Truthful
<1>8. CASE LockTimeout(r) \/ AcquireAborted(r) \/ AcquireLost(r)
           \/ ObserveLocked(r) \/ Inspect(r) \/ ObserveLost(r)
  BY <1>0, <1>8, QuietTruthful
  DEF LockTimeout, AcquireAborted, AcquireLost, ObserveLocked, Inspect, ObserveLost, Report
<1>9. CASE Loop(r)
  <2>1. CASE FilesChanged(r) \/ Done(r) \/ AbortedBetween(r) \/ ReadSqlChanged(r)
    BY <1>0, <2>1, QuietTruthful
    DEF FilesChanged, Done, AbortedBetween, ReadSqlChanged, Leave
  <2>2. CASE PlanUnderLock(r)
    BY <1>0, <2>2, QuietTruthful DEF PlanUnderLock, UpPlan, DownPlan, Leave, Begin
  <2>3. CASE ReadSql(r)
    BY <1>0, <2>3, QuietTruthful DEF ReadSql
  <2> QED BY <1>9, <2>1, <2>2, <2>3 DEF Loop
<1>10. CASE Dispatch(r) \/ Body(r) \/ StatementFails(r) \/ Rollback(r)
            \/ MarkCommitFails(r) \/ FinishFails(r)
  BY <1>0, <1>10, QuietTruthful
  DEF Dispatch, Body, StatementFails, Rollback, MarkCommitFails, FinishFails, Leave, Goto
<1>11. CASE Lost(r) \/ ReleaseLost(r)
  BY <1>0, <1>11, QuietTruthful
  DEF Lost, LostOutsideTransaction, LostInTransaction, LostAtMarkCommit, LostAfterDispatch,
      LostAtFinish, ReleaseLost, Leave
<1> QED
  BY <1>1, <1>2, <1>3, <1>4, <1>5, <1>6, <1>7, <1>8, <1>9, <1>10, <1>11
  DEF Step, Acquire, Transactional, Alone, Observe, Leaving

\* The statement in flight of a session that is lost is prepared as the process was.
LEMMA DetachTruthful ==
  ASSUME Typed, Exclusive, Truthful, NEW r \in Runners, Undisturbed(r), Detach(r), ~lost[r],
         UNCHANGED database, lost'[r] \/ pc'[r] = "idle", Exclusive'
  PROVE  Truthful'
<1>0. LedgerIsTruthful'
  BY TruthfulFrame DEF Truthful
<1>1. ~PreparedOwner(r)' => lock' = r /\ Live(r)'
  BY DEF PreparedOwner, Exclusive
<1>2. PreparedOwner(r)'
  BY <1>1 DEF Live, Holding, Writing, Transaction
<1>3. CASE lock = r /\ lock' = Backend /\ orphan' = LeftBehind(r)
  <2>1. Before(pc[r], IsDown(r), cur[r], ExpectedSum(r))
    BY <1>3 DEF Truthful, Prepared
  <2>2. PreparedOrphan'
    BY <1>3, <2>1
    DEF PreparedOrphan, LeftBehind, NoOrphan, Before, Row, Whole, NoEffect, database
  <2> QED
    BY <1>0, <1>3, <2>2, ConstantsAssumption DEF Truthful, Prepared, PreparedOrphan
<1>4. CASE lock' = Backend /\ orphan' = NoOrphan
  BY <1>0, <1>4, ConstantsAssumption DEF Truthful, Prepared, Before, NoOrphan
<1>5. CASE UNCHANGED server
  BY <1>0, <1>2, <1>5, OthersPrepared DEF Truthful
<1> QED
  BY <1>3, <1>4, <1>5 DEF Detach

LEMMA EnvironmentTruthful ==
  ASSUME Typed, Exclusive, Truthful, Exclusive', NEW r \in Runners, Environment(r)
  PROVE  Truthful'
<1>0. Undisturbed(r)
  BY OthersUndisturbed
<1> USE DEF Typed, TypeOK
<1>1. CASE Start(r)
  BY <1>0, <1>1, QuietTruthful DEF Start
<1>2. CASE Abort(r) \/ ChangeFiles(r)
  <2>1. Prepared /\ UNCHANGED <<pc, cmd, seen, cur>> /\ UNCHANGED <<database, server>>
    BY <1>2 DEF Abort, ChangeFiles, plan, Truthful
  <2>2. Prepared'
    BY <2>1
    DEF Prepared, Before, IsDown, ExpectedSum, Expected, Row, Whole, NoEffect, database, server
  <2> QED BY <2>1, <2>2, TruthfulFrame DEF Truthful
<1>3. CASE LoseSession(r)
  BY <1>0, <1>3, DetachTruthful DEF LoseSession
<1>4. CASE Crash(r) /\ lost[r]
  BY <1>0, <1>4, QuietTruthful DEF Crash, Report
<1>5. CASE Crash(r) /\ ~lost[r]
  BY <1>0, <1>5, DetachTruthful DEF Crash, Report
<1> QED
  BY <1>1, <1>2, <1>3, <1>4, <1>5 DEF Environment

LEMMA OutsideTruthful ==
  ASSUME Typed, Exclusive, Truthful, BackendEnds \/ \E i \in Ids : Reconcile(i)
  PROVE  Truthful'
<1>1. CASE BackendEnds
  <2>1. LedgerIsTruthful'
    <3>1. CASE UNCHANGED database
      BY <3>1, TruthfulFrame DEF Truthful
    <3>2. CASE orphan.at # "none" /\ ~UNCHANGED database
      <4> DEFINE down == orphan.down  i == orphan.id  c == orphan.sum
      <4>1. SharedOK /\ down \in BOOLEAN /\ i \in Ids /\ c \in Sums
        BY <3>2, TypedParts DEF SharedOK
      <4>2. Before(orphan.at, down, i, c) /\ LedgerIsTruthful
        BY <1>1 DEF BackendEnds, Truthful, Prepared
      <4>3. \/ Before("commit", down, i, c) /\ CommitMigration(down, i, c, c)
            \/ Before("markcommit", down, i, c) /\ CommitMarker(i, c)
            \/ Before("nbody", down, i, c) /\ RunPart(i, c)
            \/ Before("nbody", down, i, c) /\ RunWhole(down, i, c)
            \/ Before("final", down, i, c) /\ FinishMarker(down, i, c)
        BY <1>1, <3>2, <4>2 DEF BackendEnds
      <4> HIDE DEF down, i, c
      <4> QED
        BY <4>1, <4>2, <4>3, StatementsAreTruthful
    <3> QED BY <1>1, <3>1, <3>2 DEF BackendEnds
  <2>2. Prepared'
    BY <1>1, ConstantsAssumption DEF BackendEnds, Prepared
  <2> QED BY <2>1, <2>2 DEF Truthful
<1>2. ASSUME NEW i \in Ids, Reconcile(i) PROVE Truthful'
  <2>1. Prepared'
    BY <1>2, ConstantsAssumption DEF Reconcile, Prepared, server
  <2>2. ledger \in [Ids -> RowSet] /\ catalog \in [Ids -> EffectSet] /\ LedgerIsTruthful
    BY DEF Typed, TypeOK, Truthful
  <2>3. \A j \in Ids \ {i} : ledger'[j] = ledger[j] /\ catalog'[j] = catalog[j]
    BY <1>2, <2>2 DEF Reconcile
  <2>4. \/ ledger'[i] = Row(ledger[i].sum, Applied) /\ catalog'[i] = Whole(ledger[i].sum)
        \/ ledger'[i] = NoRow /\ catalog'[i] = NoEffect
    BY <1>2, <2>2 DEF Reconcile, Whole
  <2>5. \A s : Row(s, Applied) # NoRow /\ Row(s, Applied).sum = s /\ NoRow.state # Applied
    BY DEF Row, NoRow, Applied
  <2>6. \A j \in Ids : /\ ledger[j] = NoRow => catalog[j] = NoEffect
                       /\ ledger[j].state = Applied => catalog[j] = Whole(ledger[j].sum)
    BY <2>2, TruthPointwise
  <2>7. \A j \in Ids : /\ ledger'[j] = NoRow => catalog'[j] = NoEffect
                       /\ ledger'[j].state = Applied => catalog'[j] = Whole(ledger'[j].sum)
    BY <2>3, <2>4, <2>5, <2>6
  <2>8. LedgerIsTruthful'
    BY <2>7, TruthPointwise
  <2> QED
    BY <2>1, <2>8 DEF Truthful
<1> QED
  BY <1>1, <1>2

LEMMA AlwaysTruthful == Spec => []Truthful
<1>1. Init => Truthful
  BY ConstantsAssumption
  DEF Init, Truthful, LedgerIsTruthful, Prepared, NoRow, Recorded, Applied
<1>2. Typed /\ Exclusive /\ Exclusive' /\ Truthful /\ [Next]_vars => Truthful'
  <2> SUFFICES ASSUME Typed, Exclusive, Exclusive', Truthful, [Next]_vars PROVE Truthful'
    OBVIOUS
  <2>1. CASE UNCHANGED vars
    BY <2>1
    DEF vars, database, server, plan, Truthful, LedgerIsTruthful, Recorded, Prepared, Before,
        IsDown, ExpectedSum, Expected
  <2>2. CASE Next
    BY <2>2, StepTruthful, EnvironmentTruthful, OutsideTruthful DEF Next
  <2> QED BY <2>1, <2>2
<1> QED
  BY <1>1, <1>2, AlwaysTyped, AlwaysExclusive, PTL DEF Spec

\* Through crashes, lost sessions and retries a migration without a row has left no
\* trace, and one whose row says APPLIED took effect whole, once, from those bytes.
THEOREM LedgerNeverLies == Spec => []LedgerIsTruthful
<1>1. Truthful => LedgerIsTruthful
  BY DEF Truthful
<1> QED
  BY <1>1, AlwaysTruthful, PTL
----------------------------------------------------------------------------
(* The order of the history *)

\* the migration whose outcome is in doubt while its SQL runs outside a transaction
UnderWay(at, i) == IF at \in {"ndispatch", "nbody", "final"} THEN {i} ELSE {}

\* A migration in hand comes after everything recorded, and nothing else is in doubt.
Atop(at, i) ==
    at \in Sending =>
        /\ \A j \in Ids : Recorded(j) => j <= i
        /\ DirtyRows = UnderWay(at, i)

\* The plan made under the lock still fits the ledger: `up` has exactly the pending
\* migrations left, `down` has the newest one left or nothing.
Planned(r) ==
    pc[r] \in Sending \cup {"apply"} =>
        /\ DirtyRows = UnderWay(pc[r], cur[r])
        /\ IF IsDown(r) THEN \A i \in todo[r] : Recorded(i) /\ IsLast(i)
           ELSE ExactPrefix(seen[r]) /\ Pending(seen[r]) = todo[r] \ UnderWay(pc[r], cur[r])
        /\ pc[r] \in Sending => IsNext(r, cur[r])

\* what each outcome says of the ledger
SaysApplied(r, k) ==
    cmd[r] = "up" /\ k = "UP_TO_DATE" =>
        \A i \in Ids : ledger[i] = IF seen[r][i] = NoFile THEN NoRow
                                  ELSE Row(Checksum[seen[r][i]], Applied)
SaysUndone(r, k) ==
    cur[r] # 0 /\ k \in {"ROLLED_BACK", "ABORTED"} =>
        IF IsDown(r) THEN ledger[cur[r]].state = Applied ELSE ~Recorded(cur[r])
SaysDoubt(k) == DirtyRows # {} => k \in {"UNKNOWN_OUTCOME", "DATABASE", "INVALID_HISTORY"}
Says(r, k) == SaysApplied(r, k) /\ SaysUndone(r, k) /\ SaysDoubt(k)

OrderedOwner(r) ==
    lock = r =>
        /\ Atop(pc[r], cur[r]) /\ Planned(r)
        /\ pc[r] \in {"rollback", "release"} => Says(r, outcome[r].kind)
OrderedOrphan == lock = Backend => Atop(orphan.at, orphan.id)

Ordered == DoubtIsNewest /\ (\A r \in Runners : OrderedOwner(r)) /\ OrderedOrphan

\* Outside of a turn of the loop a process works on no migration.
Fresh == \A r \in Runners : pc[r] \notin Sending \cup {"rollback", "release"} => cur[r] = 0

LEMMA NextFresh == Typed /\ Fresh /\ [Next]_vars => Fresh'
<1> SUFFICES ASSUME Typed, Fresh, [Next]_vars PROVE Fresh'
  OBVIOUS
<1> USE DEF Sending, Writing, Transaction
<1>0. /\ pc \in [Runners -> AllPC] /\ cur \in [Runners -> Ids \cup {0}]
  BY DEF Typed, TypeOK
<1>1. CASE UNCHANGED vars
  BY <1>1 DEF vars, plan, Fresh
<1>2. ASSUME NEW r \in Runners, NEW p, NEW k, NEW b, Leave(r, p, k, b),
             p \in {"rollback", "release"}
      PROVE  Fresh'
  BY <1>0, <1>2 DEF Leave, Fresh
<1>3. ASSUME NEW r \in Runners, Report(r) PROVE Fresh'
  BY <1>0, <1>3 DEF Report, Fresh
<1>4. ASSUME NEW r \in Runners, Goto(r, "release") PROVE Fresh'
  BY <1>0, <1>4 DEF Goto, plan, Fresh
<1>5. ASSUME NEW r \in Runners, NEW p \in Sending, Goto(r, p) PROVE Fresh'
  BY <1>0, <1>5 DEF Goto, plan, Fresh
<1>6. ASSUME NEW r \in Runners, NextTurn(r) PROVE Fresh'
  BY <1>0, <1>6 DEF NextTurn, Fresh
<1>7. ASSUME NEW r \in Runners, Step(r) PROVE Fresh'
  <2>1. CASE Acquire(r) \/ Observe(r)
    <3>1. CASE TryLock(r) \/ ObserveTryLock(r) \/ ObserveUnlock(r)
      BY <1>0, <3>1 DEF TryLock, ObserveTryLock, ObserveUnlock, Goto, plan, Fresh
    <3> QED
      BY <1>3, <2>1, <3>1
      DEF Acquire, LockTimeout, AcquireAborted, AcquireLost, Observe, ObserveLocked, Inspect,
          ObserveLost
  <2>2. CASE Loop(r)
    <3>1. CASE ReadSql(r)
      BY <1>0, <3>1 DEF ReadSql, Fresh
    <3>2. ASSUME NEW ids, pc[r] = "locked", Begin(r, ids) PROVE Fresh'
      BY <1>0, <3>2 DEF Begin, Fresh
    <3> QED
      BY <1>2, <2>2, <3>1, <3>2
      DEF Loop, FilesChanged, PlanUnderLock, UpPlan, DownPlan, Done, AbortedBetween,
          ReadSqlChanged
  <2>3. CASE Transactional(r)
    BY <1>2, <1>4, <1>5, <1>6, <2>3
    DEF Transactional, Dispatch, Body, Record, Commit, StatementFails, Rollback
  <2>4. CASE Alone(r)
    BY <1>2, <1>5, <1>6, <2>4
    DEF Alone, Mark, MarkCommit, MarkCommitFails, DispatchAlone, RunAlone, RunAloneFails, Finish,
        FinishFails
  <2>5. CASE Lost(r)
    BY <1>2, <2>5
    DEF Lost, LostOutsideTransaction, LostInTransaction, LostAtMarkCommit, LostAfterDispatch,
        LostAtFinish
  <2>6. CASE Leaving(r)
    BY <1>2, <1>3, <2>6 DEF Leaving, Release, ReleaseLost, ReleaseBroken
  <2> QED BY <1>7, <2>1, <2>2, <2>3, <2>4, <2>5, <2>6 DEF Step
<1>8. ASSUME NEW r \in Runners, Environment(r) PROVE Fresh'
  <2>1. CASE Start(r)
    BY <1>0, <2>1 DEF Start, Fresh
  <2>2. CASE Crash(r)
    BY <1>3, <2>2 DEF Crash
  <2> QED
    BY <1>8, <2>1, <2>2 DEF Environment, Abort, LoseSession, ChangeFiles, plan, Fresh
<1> QED
  BY <1>1, <1>7, <1>8 DEF Next, BackendEnds, Reconcile, plan, Fresh

\* A row has a state, and a checksum if there is one.
LEMMA RowFacts ==
  ASSUME ledger \in [Ids -> RowSet]
  PROVE  \A i \in Ids :
            /\ ledger[i].state \in {Applied, Dirty} <=> Recorded(i)
            /\ Recorded(i) => ledger[i].sum \in Sums
            /\ i \in DirtyRows <=> ledger[i].state = Dirty
  BY DEF RowSet, NoRow, Recorded, DirtyRows, Applied, Dirty

LEMMA RowValues ==
  /\ \A c, s : Row(c, s).sum = c /\ Row(c, s).state = s
  /\ \A c : Row(c, Applied) # NoRow /\ Row(c, Dirty) # NoRow
  /\ NoRow.state \notin {Applied, Dirty} /\ Applied # Dirty
  BY DEF Row, NoRow, Applied, Dirty

LEMMA IdsOrdered == \A i, j \in Ids : /\ i \in Nat /\ i # 0
                                      /\ i <= j \/ j <= i
                                      /\ i <= j /\ j <= i => i = j
                                      /\ i <= j <=> ~(j < i)
  BY ConstantsAssumption

LEMMA IdTypes ==
  ASSUME Typed
  PROVE  /\ ledger \in [Ids -> RowSet]
         /\ \A r \in Runners : todo[r] \subseteq Ids /\ cur[r] \in Ids \cup {0}
  BY DEF Typed, TypeOK

\* Steps that leave the database and the lock alone.
LEMMA FrameOrdered ==
  ASSUME Ordered, NEW r \in Runners, Undisturbed(r), UNCHANGED <<database, server>>,
         OrderedOwner(r)'
  PROVE  Ordered'
<1>1. DirtyRows' = DirtyRows /\ \A i \in Ids : Recorded(i)' = Recorded(i)
  BY DEF DirtyRows, Recorded, database
<1>2. DoubtIsNewest' /\ OrderedOrphan'
  BY <1>1 DEF Ordered, DoubtIsNewest, IsLast, OrderedOrphan, Atop, database, server
<1>3. ASSUME NEW q \in Runners \ {r} PROVE OrderedOwner(q)'
  BY <1>1, <1>3
  DEF Ordered, OrderedOwner, Undisturbed, Atop, Planned, Says, SaysApplied, SaysUndone, SaysDoubt,
      IsDown, ExactPrefix, Pending, IsLast, IsNext, database, server, Recorded
<1> QED
  BY <1>2, <1>3 DEF Ordered

\* A step of the process that owns the lock and keeps it.
LEMMA OwnerOrdered ==
  ASSUME NEW r \in Runners, lock' = r, OrderedOwner(r)', DoubtIsNewest'
  PROVE  Ordered'
  BY ConstantsAssumption DEF Ordered, OrderedOwner, OrderedOrphan

\* The process goes on to another statement for the same migration.
LEMMA GoOnOrdered ==
  ASSUME Typed, Ordered, NEW r \in Runners, lock = r, UNCHANGED <<database, server>>,
         pc[r] \in Sending, NEW p \in Sending, Goto(r, p),
         UnderWay(p, cur[r]) = UnderWay(pc[r], cur[r])
  PROVE  OrderedOwner(r)'
<1>1. OrderedOwner(r) /\ lock' = r
  BY DEF Ordered, server
<1>2. pc'[r] = p /\ UNCHANGED <<ledger, cmd, seen, todo, cur, outcome>>
  BY DEF Typed, TypeOK, Goto, plan, database
<1>3. Atop(pc[r], cur[r])' /\ Planned(r)'
  BY <1>1, <1>2
  DEF OrderedOwner, Atop, Planned, UnderWay, DirtyRows, Recorded, IsDown, ExactPrefix, Pending,
      IsLast, IsNext
<1> QED
  BY <1>2, <1>3 DEF OrderedOwner, Sending, Writing, Transaction

\* An error or a return says of the ledger what is in it.
LEMMA LeaveOrdered ==
  ASSUME Typed, NEW r \in Runners, NEW k, NEW b, NEW p \in {"rollback", "release"},
         Leave(r, p, k, b), Says(r, k), ledger' = ledger
  PROVE  OrderedOwner(r)'
<1>1. pc'[r] = p /\ outcome'[r].kind = k /\ UNCHANGED <<cmd, seen, cur, ledger>>
  BY DEF Typed, TypeOK, Leave, Outcome
<1>2. Atop(pc[r], cur[r])' /\ Planned(r)'
  BY <1>1 DEF Atop, Planned, Sending, Writing, Transaction
<1>3. Says(r, outcome[r].kind)'
  BY <1>1 DEF Says, SaysApplied, SaysUndone, SaysDoubt, IsDown, DirtyRows, Recorded
<1> QED
  BY <1>2, <1>3 DEF OrderedOwner

\* Before its first statement takes effect the migration in hand is where it was.
LEMMA StillThere ==
  ASSUME Typed, Ordered, NEW r \in Runners, lock = r,
         pc[r] \in {"dispatch", "body", "record", "commit", "mark", "markcommit"}
  PROVE  /\ DirtyRows = {} /\ cur[r] \in todo[r] /\ cur[r] \in Ids
         /\ \A j \in Ids : Recorded(j) => j <= cur[r]
         /\ IF IsDown(r) THEN ledger[cur[r]].state = Applied ELSE ~Recorded(cur[r])
<1>1. Atop(pc[r], cur[r]) /\ Planned(r) /\ pc[r] \in Sending
  BY DEF Ordered, OrderedOwner, Sending, Writing, Transaction
<1>2. UnderWay(pc[r], cur[r]) = {}
  BY DEF UnderWay
<1>3. cur[r] \in todo[r] /\ cur[r] \in Ids /\ DirtyRows = {}
  BY <1>1, <1>2, IdTypes DEF Planned, IsNext
<1>4. CASE IsDown(r)
  BY <1>1, <1>3, <1>4, IdTypes, RowFacts DEF Planned, Atop
<1>5. CASE ~IsDown(r)
  BY <1>1, <1>2, <1>3, <1>5 DEF Planned, Pending, Atop
<1> QED
  BY <1>4, <1>5

\* An error that admits doubt promises nothing.
LEMMA SettledOutcomes ==
  \A r \in Runners : \A k \in {"UNKNOWN_OUTCOME", "DATABASE", "INVALID_HISTORY"} : Says(r, k)
  BY DEF Says, SaysApplied, SaysUndone, SaysDoubt

\* What the plan made under the lock says about the ledger at the head of the loop.
LEMMA PlanOrdered ==
  ASSUME Typed, Ordered, NEW r \in Runners, lock = r, PlanUnderLock(r)
  PROVE  OrderedOwner(r)'
<1>1. ledger' = ledger /\ ledger \in [Ids -> RowSet]
  BY IdTypes DEF PlanUnderLock, database
<1> DEFINE status == HistoryStatus(seen[r])
<1>2. status \in {"INVALID_HISTORY", "UNKNOWN_OUTCOME", "PENDING", "UP_TO_DATE"}
  BY DEF HistoryStatus
<1>3. status \notin {"INVALID_HISTORY", "UNKNOWN_OUTCOME"} =>
        ExactPrefix(seen[r]) /\ DirtyRows = {}
  BY DEF HistoryStatus
<1> HIDE DEF status
<1>4. CASE /\ Leave(r, "release", status, FALSE)
           /\ status \in {"INVALID_HISTORY", "UNKNOWN_OUTCOME"} \/ cmd[r] = "up-dry"
  <2>1. Says(r, status)
    BY <1>2, <1>3, <1>4 DEF Says, SaysApplied, SaysUndone, SaysDoubt
  <2> QED BY <1>1, <1>4, <2>1, LeaveOrdered
<1>5. CASE Leave(r, "release", "INVALID_HISTORY", FALSE)
  BY <1>1, <1>5, LeaveOrdered, SettledOutcomes
<1>6. ASSUME NEW ids, Begin(r, ids), status \notin {"INVALID_HISTORY", "UNKNOWN_OUTCOME"},
             IF IsDown(r) THEN ids \subseteq Newest ELSE ids = Pending(seen[r])
      PROVE  OrderedOwner(r)'
  <2>1. pc'[r] = "apply" /\ todo'[r] = ids /\ UNCHANGED <<cmd, seen, cur, ledger>>
    BY <1>1, <1>6 DEF Begin, Typed, TypeOK
  <2>2. ExactPrefix(seen[r]) /\ DirtyRows = {}
    BY <1>3, <1>6
  <2>3. Atop(pc[r], cur[r])'
    BY <2>1 DEF Atop, Sending, Writing, Transaction
  <2>4. UnderWay(pc[r], cur[r])' = {} /\ "apply" \notin Sending
    BY <2>1 DEF UnderWay, Sending, Writing, Transaction
  <2>5. Planned(r)'
    <3>1. DirtyRows' = {} /\ IsDown(r)' = IsDown(r) /\ Pending(seen[r])' = Pending(seen[r])
          /\ ExactPrefix(seen[r])' = ExactPrefix(seen[r])
      BY <2>1, <2>2 DEF DirtyRows, IsDown, Pending, ExactPrefix, Recorded
    <3>2. \A i \in Ids : IsLast(i)' = IsLast(i) /\ Recorded(i)' = Recorded(i)
      BY <2>1 DEF IsLast, Recorded
    <3> QED
      BY <1>6, <2>1, <2>2, <2>4, <3>1, <3>2 DEF Planned, Newest
  <2> QED
    BY <2>1, <2>3, <2>5 DEF OrderedOwner
<1>7. CASE ~IsDown(r)
  <2>1. UpPlan(r) BY <1>7 DEF PlanUnderLock
  <2> QED
    BY <1>4, <1>6, <1>7, <2>1 DEF UpPlan, status
<1>8. CASE IsDown(r)
  <2>1. DownPlan(r) BY <1>8 DEF PlanUnderLock
  <2> QED
    BY <1>4, <1>5, <1>6, <1>8, <2>1 DEF DownPlan, status
<1> QED
  BY <1>7, <1>8

\* Taking up the next migration.
LEMMA ReadOrdered ==
  ASSUME Typed, Ordered, NEW r \in Runners, lock = r, ReadSql(r)
  PROVE  OrderedOwner(r)'
<1>1. PICK i \in Ids :
        /\ IsNext(r, i) /\ cur' = [cur EXCEPT ![r] = i]
        /\ pc' = [pc EXCEPT ![r] = IF MustRunAlone(r, i) THEN "mark" ELSE "dispatch"]
  BY DEF ReadSql
<1>2. /\ pc[r] = "apply" /\ cur'[r] = i /\ pc'[r] \in {"mark", "dispatch"}
      /\ UNCHANGED <<ledger, cmd, seen, todo>>
  BY <1>1 DEF ReadSql, Typed, TypeOK, database
<1>3. Planned(r) /\ UnderWay(pc[r], cur[r]) = {} /\ UnderWay(pc[r], cur[r])' = {}
  BY <1>2 DEF Ordered, OrderedOwner, UnderWay
<1>4. Planned(r)'
  BY <1>1, <1>2, <1>3
  DEF Planned, DirtyRows, IsDown, ExactPrefix, Pending, IsLast, IsNext, Recorded
<1>5. \A j \in Ids : Recorded(j) => j <= i
  <2>1. i \in todo[r]
    BY <1>1 DEF IsNext
  <2>2. CASE IsDown(r)
    BY <1>2, <1>3, <2>1, <2>2 DEF Planned, IsLast
  <2>3. CASE ~IsDown(r)
    <3>1. ExactPrefix(seen[r]) /\ seen[r][i] # NoFile /\ ~Recorded(i)
      BY <1>2, <1>3, <2>1, <2>3 DEF Planned, Pending
    <3> QED
      BY <3>1, IdsOrdered DEF ExactPrefix
  <2> QED BY <2>2, <2>3
<1>6. Atop(pc[r], cur[r])'
  BY <1>2, <1>3, <1>5 DEF Atop, Planned, DirtyRows, Recorded
<1> QED
  BY <1>2, <1>4, <1>6 DEF OrderedOwner

\* The head of the loop with nothing left: success means what it says.
LEMMA DoneOrdered ==
  ASSUME Typed, Ordered, NEW r \in Runners, lock = r, Done(r)
  PROVE  OrderedOwner(r)'
<1>1. /\ pc[r] = "apply" /\ todo[r] = {} /\ ledger' = ledger
      /\ Planned(r) /\ UnderWay(pc[r], cur[r]) = {}
  BY DEF Done, Ordered, OrderedOwner, UnderWay, database
<1>2. DirtyRows = {}
  BY <1>1 DEF Planned
<1>3. CASE IsDown(r)
  <2>1. Says(r, "PENDING")
    BY <1>2 DEF Says, SaysApplied, SaysUndone, SaysDoubt
  <2> QED BY <1>1, <1>3, <2>1, LeaveOrdered DEF Done
<1>4. CASE ~IsDown(r)
  <2>1. ExactPrefix(seen[r]) /\ Pending(seen[r]) = {}
    BY <1>1, <1>4 DEF Planned
  <2>2. ASSUME NEW i \in Ids
        PROVE  ledger[i] = IF seen[r][i] = NoFile THEN NoRow
                           ELSE Row(Checksum[seen[r][i]], Applied)
    <3>1. CASE ~Recorded(i)
      BY <2>1, <3>1 DEF Pending, Recorded
    <3>2. CASE Recorded(i)
      <4>1. /\ ledger[i].state = Applied /\ ledger[i].sum = Checksum[seen[r][i]]
            /\ seen[r][i] # NoFile
        BY <1>2, <2>1, <3>2, IdTypes, RowFacts DEF ExactPrefix
      <4>2. ledger[i] \in RowSet /\ ledger[i] # NoRow
        BY <3>2, IdTypes DEF Recorded
      <4> QED
        BY <4>1, <4>2 DEF RowSet, Row
    <3> QED BY <3>1, <3>2
  <2>3. Says(r, "UP_TO_DATE")
    BY <1>2, <2>2 DEF Says, SaysApplied, SaysUndone, SaysDoubt
  <2> QED BY <1>1, <1>4, <2>3, LeaveOrdered DEF Done
<1> QED BY <1>3, <1>4

\* A statement writes one row.
LEMMA OneRow ==
  ASSUME Typed, NEW i \in Ids, NEW w, ledger' = [ledger EXCEPT ![i] = w]
  PROVE  /\ ledger'[i] = w
         /\ \A j \in Ids \ {i} : ledger'[j] = ledger[j] /\ Recorded(j)' = Recorded(j)
         /\ Recorded(i)' <=> w # NoRow
         /\ DirtyRows' = IF w.state = Dirty THEN DirtyRows \cup {i} ELSE DirtyRows \ {i}
<1>1. ledger'[i] = w /\ \A j \in Ids \ {i} : ledger'[j] = ledger[j]
  BY IdTypes
<1> QED
  BY <1>1 DEF Recorded, DirtyRows

\* Each statement, executed on top of the history, leaves the doubt on top of it.
LEMMA StatementsAreOrdered ==
  ASSUME Typed, DoubtIsNewest, NEW down \in BOOLEAN, NEW i \in Ids, NEW c \in Sums,
         \A j \in Ids : Recorded(j) => j <= i
  PROVE  /\ DirtyRows = {} /\ CommitMigration(down, i, c, c) => DirtyRows' = {}
         /\ DirtyRows = {} /\ CommitMarker(i, c) => DirtyRows' = {i}
         /\ RunPart(i, c) \/ RunWhole(down, i, c) => DirtyRows' = DirtyRows
         /\ DirtyRows = {i} /\ FinishMarker(down, i, c) => DirtyRows' = {}
         /\ \/ CommitMigration(down, i, c, c) \/ CommitMarker(i, c)
            \/ RunPart(i, c) \/ RunWhole(down, i, c) \/ FinishMarker(down, i, c)
            => \A j \in Ids : Recorded(j)' => j <= i
<1>1. i <= i
  BY IdsOrdered
<1>2. RunPart(i, c) \/ RunWhole(down, i, c) =>
        /\ DirtyRows' = DirtyRows /\ \A j \in Ids : Recorded(j)' = Recorded(j)
  BY DEF RunPart, RunWhole, DirtyRows, Recorded
<1>3. CommitMigration(down, i, c, c) \/ FinishMarker(down, i, c) =>
        /\ DirtyRows' = DirtyRows \ {i}
        /\ \A j \in Ids \ {i} : Recorded(j)' = Recorded(j)
  <2>1. CommitMigration(down, i, c, c) \/ FinishMarker(down, i, c) =>
           ledger' = [ledger EXCEPT ![i] = IF down THEN NoRow ELSE Row(c, Applied)]
    BY DEF CommitMigration, FinishMarker
  <2> QED
    BY <2>1, OneRow, RowValues
<1>4. CommitMarker(i, c) =>
        /\ DirtyRows' = DirtyRows \cup {i}
        /\ \A j \in Ids \ {i} : Recorded(j)' = Recorded(j)
  <2>1. CommitMarker(i, c) => ledger' = [ledger EXCEPT ![i] = Row(c, Dirty)]
    BY DEF CommitMarker
  <2> QED
    BY <2>1, OneRow, RowValues
<1> QED
  BY <1>1, <1>2, <1>3, <1>4

\* The statements of the process that owns the lock.
LEMMA SendOrdered ==
  ASSUME Typed, Exclusive, Truthful, Ordered, NEW r \in Runners, Undisturbed(r),
         Commit(r) \/ MarkCommit(r) \/ RunAlone(r) \/ RunAloneFails(r) \/ Finish(r)
  PROVE  Ordered'
<1>1. /\ LocalOK /\ SharedOK /\ pc[r] \in Sending /\ pc[r] \in Holding /\ ~lost[r]
  BY TypedParts
  DEF Commit, MarkCommit, RunAlone, RunAloneFails, Finish, Sending, Holding, Writing, Transaction
<1>0. /\ cur[r] \in Ids /\ ExpectedSum(r) \in Sums
      /\ SentSum(r) = ExpectedSum(r) /\ IsDown(r) \in BOOLEAN
  BY <1>1, ExpectedIsSum DEF IsDown
<1>2. PICK i \in Ids, c \in Sums, down \in BOOLEAN :
        i = cur[r] /\ c = ExpectedSum(r) /\ down = IsDown(r)
  BY <1>0, Zenon
<1> USE <1>0, <1>2
<1>3. lock = r /\ lock' = r
  BY <1>1
  DEF Exclusive, Live, Commit, MarkCommit, RunAlone, RunAloneFails, Finish, server
<1>4. /\ Planned(r) /\ DoubtIsNewest
      /\ DirtyRows = UnderWay(pc[r], i) /\ \A j \in Ids : Recorded(j) => j <= i
  BY <1>1, <1>3 DEF Ordered, OrderedOwner, Atop
<1>5. /\ DirtyRows = {} /\ CommitMigration(down, i, c, c) => DirtyRows' = {}
      /\ DirtyRows = {} /\ CommitMarker(i, c) => DirtyRows' = {i}
      /\ RunPart(i, c) \/ RunWhole(down, i, c) => DirtyRows' = DirtyRows
      /\ DirtyRows = {i} /\ FinishMarker(down, i, c) => DirtyRows' = {}
      /\ \/ CommitMigration(down, i, c, c) \/ CommitMarker(i, c)
         \/ RunPart(i, c) \/ RunWhole(down, i, c) \/ FinishMarker(down, i, c)
         => \A j \in Ids : Recorded(j)' => j <= i
  BY <1>2, <1>4, StatementsAreOrdered
<1>6. IsNext(r, i) /\ i \in todo[r] /\ todo[r] \subseteq Ids
      /\ IF down THEN \A j \in todo[r] : Recorded(j) /\ IsLast(j)
         ELSE ExactPrefix(seen[r]) /\ Pending(seen[r]) = todo[r] \ UnderWay(pc[r], i)
  BY <1>1, <1>4, IdTypes DEF Planned, IsNext
<1>7. DirtyRows' \in {{}, {i}} /\ (\A j \in Ids : Recorded(j)' => j <= i) => DoubtIsNewest'
  BY DEF DoubtIsNewest, IsLast
<1>8. c = Checksum[seen[r][i]] /\ seen[r][i] # NoFile /\ seen[r][i] \in Versions
  BY <1>1, ConstantsAssumption DEF LocalOK, ExpectedSum, Expected
<1>9. ASSUME NEW w \in RowSet, w # NoRow, w.sum = c, ~down, ledger' = [ledger EXCEPT ![i] = w]
      PROVE  /\ ExactPrefix(seen[r])'
             /\ Pending(seen[r])' = Pending(seen[r]) \ {i}
  <2>1. /\ ledger'[i] = w /\ Recorded(i)'
        /\ \A j \in Ids \ {i} : ledger'[j] = ledger[j] /\ Recorded(j)' = Recorded(j)
    BY <1>2, <1>9, OneRow
  <2>2. seen'[r] = seen[r]
    BY <1>1 DEF Commit, MarkCommit, RunAlone, RunAloneFails, Finish, NextTurn, Goto, plan, Leave
  <2>3. \A j \in Ids : j < i /\ seen[r][j] # NoFile => Recorded(j)
    BY <1>2, <1>6, <1>9, IdsOrdered DEF Pending, IsNext, UnderWay
  <2>4. ExactPrefix(seen[r])'
    BY <1>2, <1>6, <1>8, <1>9, <2>1, <2>2, <2>3, IdsOrdered DEF ExactPrefix
  <2> QED
    BY <1>2, <2>1, <2>2, <2>4 DEF Pending
<1>10. ASSUME NextTurn(r), DirtyRows' = {},
              ledger' = [ledger EXCEPT ![i] = IF down THEN NoRow ELSE Row(c, Applied)]
       PROVE  OrderedOwner(r)'
  <2>1. /\ pc'[r] = "apply" /\ todo'[r] = todo[r] \ {i} /\ UNCHANGED <<cmd, seen>>
        /\ "apply" \notin Sending /\ UnderWay("apply", cur'[r]) = {}
    BY <1>1, <1>10 DEF NextTurn, LocalOK, Sending, Writing, Transaction, UnderWay
  <2>2. CASE down
    <3>1. todo'[r] = {}
      BY <1>6, <2>1, <2>2, IdsOrdered DEF IsLast
    <3> QED
      BY <1>10, <2>1, <2>2, <3>1 DEF OrderedOwner, Atop, Planned, IsDown
  <2>3. CASE ~down
    <3>1. ExactPrefix(seen[r])' /\ Pending(seen[r])' = Pending(seen[r]) \ {i}
      BY <1>2, <1>9, <1>10, <2>3, RowTypes, RowValues
    <3>2. Pending(seen[r])' = todo'[r]
      BY <1>6, <2>1, <2>3, <3>1 DEF UnderWay
    <3> QED
      BY <1>10, <2>1, <2>3, <3>1, <3>2 DEF OrderedOwner, Atop, Planned, IsDown
  <2> QED BY <2>2, <2>3
<1>11. CASE Commit(r)
  <2>1. DirtyRows = {} /\ CommitMigration(down, i, c, c) /\ NextTurn(r)
    BY <1>2, <1>4, <1>11 DEF Commit, UnderWay
  <2>2. DirtyRows' = {} /\ (\A j \in Ids : Recorded(j)' => j <= i)
        /\ ledger' = [ledger EXCEPT ![i] = IF down THEN NoRow ELSE Row(c, Applied)]
    BY <1>5, <2>1 DEF CommitMigration
  <2> QED
    BY <1>3, <1>7, <1>10, <2>1, <2>2, OwnerOrdered
<1>12. CASE MarkCommit(r)
  <2>1. DirtyRows = {} /\ CommitMarker(i, c) /\ Goto(r, "ndispatch")
    BY <1>4, <1>12 DEF MarkCommit, UnderWay
  <2>2. DirtyRows' = {i} /\ (\A j \in Ids : Recorded(j)' => j <= i)
        /\ ledger' = [ledger EXCEPT ![i] = Row(c, Dirty)]
    BY <1>5, <2>1 DEF CommitMarker
  <2>3. /\ pc'[r] = "ndispatch" /\ UNCHANGED <<cmd, seen, todo, cur>>
        /\ "ndispatch" \in Sending /\ UnderWay("ndispatch", i) = {i}
    BY <1>1, <2>1 DEF Goto, plan, LocalOK, Sending, Writing, Transaction, UnderWay
  <2>4. Atop(pc[r], cur[r])'
    BY <2>2, <2>3 DEF Atop
  <2>5. IsNext(r, cur[r])'
    BY <1>6, <2>3 DEF IsNext
  <2>6. CASE down
    <3>1. \A j \in todo[r] : j = i
      BY <1>6, <2>6, IdsOrdered DEF IsLast
    <3>2. Recorded(i)' /\ IsLast(i)'
      BY <1>2, <2>2, OneRow, RowValues DEF IsLast
    <3> QED
      BY <1>3, <1>7, <2>2, <2>3, <2>4, <2>5, <2>6, <3>1, <3>2, OwnerOrdered
      DEF OrderedOwner, Planned, IsDown
  <2>7. CASE ~down
    <3>1. ExactPrefix(seen[r])' /\ Pending(seen[r])' = Pending(seen[r]) \ {i}
      BY <1>2, <1>9, <2>2, <2>7, RowTypes, RowValues
    <3>2. Pending(seen[r]) = todo[r]
      BY <1>6, <1>12, <2>7 DEF UnderWay, MarkCommit
    <3>3. Planned(r)'
      BY <2>2, <2>3, <2>5, <2>7, <3>1, <3>2 DEF Planned, IsDown
    <3> QED
      BY <1>3, <1>7, <2>2, <2>3, <2>4, <3>3, OwnerOrdered DEF OrderedOwner
  <2> QED BY <2>6, <2>7
<1>13. ASSUME pc[r] = "nbody", ledger' = ledger, Goto(r, "final") PROVE Ordered'
  <2>1. /\ pc'[r] = "final" /\ UNCHANGED <<ledger, cmd, seen, todo, cur>>
        /\ "final" \in Sending /\ "nbody" \in Sending
        /\ UnderWay("final", i) = {i} /\ UnderWay("nbody", i) = {i}
    BY <1>1, <1>13 DEF Goto, plan, LocalOK, Sending, Writing, Transaction, UnderWay
  <2>2. Atop(pc[r], cur[r])' /\ Planned(r)' /\ DoubtIsNewest'
    BY <1>4, <1>13, <2>1
    DEF Atop, Planned, DirtyRows, Recorded, IsDown, ExactPrefix, Pending, IsLast, IsNext,
        DoubtIsNewest
  <2> QED
    BY <1>3, <2>1, <2>2, OwnerOrdered DEF OrderedOwner
<1>14. CASE RunAlone(r)
  BY <1>13, <1>14 DEF RunAlone, RunWhole
<1>15. ASSUME NEW k \in {"UNKNOWN_OUTCOME", "DATABASE", "INVALID_HISTORY"}, ledger' = ledger,
              Leave(r, "release", k, FALSE)
       PROVE  Ordered'
  <2>1. OrderedOwner(r)'
    BY <1>15, LeaveOrdered, SettledOutcomes
  <2>2. DoubtIsNewest'
    BY <1>4, <1>15 DEF DoubtIsNewest, DirtyRows, IsLast, Recorded
  <2> QED
    BY <1>3, <2>1, <2>2, OwnerOrdered
<1>16. CASE RunAloneFails(r)
  BY <1>15, <1>16 DEF RunAloneFails, RunPart, database
<1>17. CASE Finish(r)
  <2>1. CASE MarkerMatches(i, c)
    <3>1. DirtyRows = {i} /\ FinishMarker(down, i, c) /\ NextTurn(r)
      BY <1>4, <1>17, <2>1 DEF Finish, UnderWay
    <3>2. DirtyRows' = {} /\ (\A j \in Ids : Recorded(j)' => j <= i)
          /\ ledger' = [ledger EXCEPT ![i] = IF down THEN NoRow ELSE Row(c, Applied)]
      BY <1>5, <3>1 DEF FinishMarker
    <3> QED
      BY <1>3, <1>7, <1>10, <3>1, <3>2, OwnerOrdered
  <2>2. CASE ~MarkerMatches(i, c)
    BY <1>15, <1>17, <2>2 DEF Finish, database
  <2> QED BY <2>1, <2>2
<1> QED
  BY <1>11, <1>12, <1>14, <1>16, <1>17

\* A process that does not own the lock after a step that leaves the lock alone.
LEMMA BystanderOrdered ==
  ASSUME Ordered, NEW r \in Runners, Undisturbed(r), UNCHANGED <<database, server>>, lock # r
  PROVE  Ordered'
  BY FrameOrdered DEF OrderedOwner, server

LEMMA StepOrdered ==
  ASSUME Typed, Exclusive, Truthful, Fresh, Ordered, NEW r \in Runners, Step(r)
  PROVE  Ordered'
<1>0. Undisturbed(r) /\ DoubtIsNewest
  BY OthersUndisturbed DEF Ordered
<1>1. CASE Commit(r) \/ MarkCommit(r) \/ RunAlone(r) \/ RunAloneFails(r) \/ Finish(r)
  BY <1>0, <1>1, SendOrdered
<1>2. ASSUME UNCHANGED <<database, server>>, lock = r => OrderedOwner(r)' PROVE Ordered'
  BY <1>0, <1>2, FrameOrdered, BystanderOrdered
<1>3. ASSUME NEW k, NEW b, NEW p \in {"rollback", "release"}, Leave(r, p, k, b),
             lock = r => Says(r, k), UNCHANGED <<database, server>>
      PROVE  Ordered'
  BY <1>2, <1>3, LeaveOrdered DEF database
<1>4. ASSUME ledger' = ledger,
             lock' \in {NoLock, Backend} \/ (lock' = r /\ pc'[r] \in {"locked", "unlock"}),
             lock' = Backend => orphan' = NoOrphan
      PROVE  Ordered'
  <2>1. DoubtIsNewest'
    BY <1>0, <1>4 DEF DoubtIsNewest, DirtyRows, IsLast, Recorded
  <2>2. lock' = r /\ pc'[r] \in {"locked", "unlock"} => OrderedOwner(r)'
    BY DEF OrderedOwner, Atop, Planned, Sending, Writing, Transaction
  <2>3. lock' = Backend => OrderedOrphan'
    BY <1>4 DEF OrderedOrphan, Atop, NoOrphan, Sending, Writing, Transaction
  <2> QED
    BY <1>4, <2>1, <2>2, <2>3, OwnerOrdered, ConstantsAssumption
    DEF Ordered, OrderedOwner, OrderedOrphan
<1>5. CASE TryLock(r) \/ ObserveTryLock(r)
  <2>1. pc'[r] \in {"locked", "unlock"} /\ lock' = r /\ ledger' = ledger
    BY <1>5 DEF TryLock, ObserveTryLock, Goto, database, Typed, TypeOK
  <2> QED BY <1>4, <2>1, ConstantsAssumption
<1>6. CASE ObserveUnlock(r) \/ Release(r)
  <2>1. ledger' = ledger /\ lock' = NoLock
    BY <1>6 DEF ObserveUnlock, Release, database
  <2> QED BY <1>4, <2>1, ConstantsAssumption
<1>7. CASE ReleaseBroken(r) /\ ~lost[r]
  <2>1. orphan = NoOrphan
    BY <1>7, ConstantsAssumption DEF ReleaseBroken, Exclusive, Live, Holding
  <2>2. ledger' = ledger /\ lock' = Backend /\ orphan' = NoOrphan
    BY <1>7, <2>1 DEF ReleaseBroken, database
  <2> QED BY <1>4, <2>2
<1>8. CASE lost[r] \/ pc[r] \notin Holding
  <2>1. lock # r
    BY <1>8 DEF Exclusive, Live
  <2>2. CASE UNCHANGED <<database, server>>
    BY <1>0, <2>1, <2>2, BystanderOrdered
  <2>3. CASE ~UNCHANGED <<database, server>>
    <3>1. TryLock(r) \/ ObserveTryLock(r)
      <4>1. CASE lost[r]
        BY <2>3, <4>1
        DEF Step, Acquire, TryLock, LockTimeout, AcquireAborted, AcquireLost, Loop, FilesChanged,
            PlanUnderLock, Done, AbortedBetween, ReadSql, ReadSqlChanged, Transactional, Dispatch,
            Body, Record, Commit, StatementFails, Rollback, Alone, Mark, MarkCommit, MarkCommitFails,
            DispatchAlone, RunAlone, RunAloneFails, Finish, FinishFails, Observe, ObserveLocked,
            ObserveTryLock, ObserveUnlock, Inspect, ObserveLost, Lost, LostOutsideTransaction,
            LostInTransaction, LostAtMarkCommit, LostAfterDispatch, LostAtFinish, Leaving, Release,
            ReleaseLost, ReleaseBroken, server
      <4>2. CASE pc[r] \notin Holding
        BY <1>0, <2>3, <4>2, LockedSteps
        DEF Step, Acquire, LockTimeout, AcquireAborted, AcquireLost, Observe, ObserveLocked,
            ObserveUnlock, Inspect, ObserveLost, Leaving, Release, ReleaseBroken, Holding
      <4> QED BY <1>8, <4>1, <4>2
    <3> QED BY <1>5, <3>1
  <2> QED BY <2>2, <2>3
<1> SUFFICES ASSUME lock = r, ~lost[r], pc[r] \in Holding PROVE Ordered'
  BY <1>8 DEF Exclusive, Live
<1>9. Planned(r) /\ OrderedOwner(r) /\ ledger \in [Ids -> RowSet]
  BY IdTypes DEF Ordered, OrderedOwner
<1>10. CASE Loop(r)
  <2>1. CASE FilesChanged(r) \/ ReadSqlChanged(r)
    BY <1>3, <2>1, SettledOutcomes DEF FilesChanged, ReadSqlChanged
  <2>2. CASE PlanUnderLock(r)
    BY <1>2, <2>2, PlanOrdered DEF PlanUnderLock
  <2>3. CASE Done(r)
    BY <1>2, <2>3, DoneOrdered DEF Done
  <2>4. CASE AbortedBetween(r)
    <3>1. cur[r] = 0 /\ DirtyRows = {}
      BY <1>9, <2>4
      DEF AbortedBetween, Planned, Fresh, UnderWay, Sending, Writing, Transaction
    <3>2. Says(r, "ABORTED")
      BY <3>1 DEF Says, SaysApplied, SaysUndone, SaysDoubt
    <3> QED BY <1>3, <2>4, <3>2 DEF AbortedBetween
  <2>5. CASE ReadSql(r)
    BY <1>2, <2>5, ReadOrdered DEF ReadSql
  <2> QED BY <1>10, <2>1, <2>2, <2>3, <2>4, <2>5 DEF Loop
<1>11. ASSUME NEW p \in Sending, Goto(r, p), UnderWay(p, cur[r]) = UnderWay(pc[r], cur[r]),
              pc[r] \in Sending, UNCHANGED <<database, server>>
       PROVE  Ordered'
  BY <1>2, <1>11, GoOnOrdered
<1>12. pc[r] \in {"dispatch", "body", "record", "commit", "mark", "markcommit"} =>
           \A k \in {"ROLLED_BACK", "ABORTED", "INVALID_HISTORY"} : Says(r, k)
  BY StillThere DEF Says, SaysApplied, SaysUndone, SaysDoubt
<1>13. CASE Dispatch(r) \/ Body(r) \/ Record(r) \/ Mark(r) \/ DispatchAlone(r)
  <2>1. CASE \E p \in Sending : /\ Goto(r, p) /\ UnderWay(p, cur[r]) = UnderWay(pc[r], cur[r])
                                /\ pc[r] \in Sending /\ UNCHANGED <<database, server>>
    BY <1>11, <2>1
  <2>2. CASE Leave(r, "rollback", "ABORTED", FALSE) /\ Dispatch(r)
    BY <1>3, <1>12, <2>2 DEF Dispatch
  <2>3. CASE DispatchAlone(r) /\ ~Goto(r, "nbody")
    BY <1>3, <2>3, SettledOutcomes DEF DispatchAlone
  <2>4. CASE (Record(r) \/ Mark(r)) /\ ~RowReady(r)
    BY <1>3, <1>12, <2>4 DEF Record, Mark
  <2> QED
    BY <1>13, <2>1, <2>2, <2>3, <2>4
    DEF Dispatch, Body, Record, Mark, DispatchAlone, UnderWay, Sending, Writing, Transaction
<1>14. CASE StatementFails(r)
  BY <1>3, <1>12, <1>14 DEF StatementFails
<1>15. CASE Rollback(r)
  <2>1. /\ pc[r] = "rollback" /\ pc'[r] = "release"
        /\ UNCHANGED <<ledger, cmd, seen, cur, outcome, lock>>
    BY <1>15 DEF Rollback, Goto, plan, database, server, Typed, TypeOK
  <2>2. Says(r, outcome[r].kind)'
    BY <1>9, <2>1
    DEF OrderedOwner, Says, SaysApplied, SaysUndone, SaysDoubt, IsDown, DirtyRows, Recorded
  <2>3. OrderedOwner(r)'
    BY <2>1, <2>2 DEF OrderedOwner, Atop, Planned, Sending, Writing, Transaction
  <2> QED BY <1>2, <1>15, <2>3 DEF Rollback
<1>16. CASE MarkCommitFails(r) \/ FinishFails(r)
  BY <1>3, <1>16, SettledOutcomes DEF MarkCommitFails, FinishFails
<1>17. CASE Lost(r) \/ ReleaseLost(r) \/ ObserveLost(r) \/ AcquireLost(r)
            \/ (ReleaseBroken(r) /\ lost[r])
  BY <1>17
  DEF Lost, LostOutsideTransaction, LostInTransaction, LostAtMarkCommit, LostAfterDispatch,
      LostAtFinish, ReleaseLost, ObserveLost, AcquireLost
<1>18. CASE LockTimeout(r) \/ AcquireAborted(r) \/ ObserveLocked(r) \/ Inspect(r)
  BY <1>18 DEF LockTimeout, AcquireAborted, ObserveLocked, Inspect, Holding, Writing, Transaction
<1> QED
  BY <1>1, <1>5, <1>6, <1>7, <1>10, <1>13, <1>14, <1>15, <1>16, <1>17, <1>18
  DEF Step, Acquire, Transactional, Alone, Observe, Leaving

\* The migration of a lost session's last statement is where the session found it.
LEMMA DetachOrdered ==
  ASSUME Typed, Exclusive, Ordered, NEW r \in Runners, Undisturbed(r), Detach(r),
         UNCHANGED database, lost'[r] \/ pc'[r] = "idle", Exclusive'
  PROVE  Ordered'
<1>1. DirtyRows' = DirtyRows /\ \A i \in Ids : Recorded(i)' = Recorded(i)
  BY DEF DirtyRows, Recorded, database
<1>2. DoubtIsNewest'
  BY <1>1 DEF Ordered, DoubtIsNewest, IsLast
<1>3. ASSUME lock' = Backend, OrderedOrphan' PROVE Ordered'
  BY <1>2, <1>3, ConstantsAssumption DEF Ordered, OrderedOwner
<1>4. CASE lock = r /\ lock' = Backend /\ orphan' = LeftBehind(r)
  <2>1. Atop(pc[r], cur[r])
    BY <1>4 DEF Ordered, OrderedOwner
  <2>2. OrderedOrphan'
    BY <1>1, <1>4, <2>1
    DEF OrderedOrphan, LeftBehind, NoOrphan, Atop, UnderWay, Sending, Writing, Transaction
  <2> QED BY <1>3, <1>4, <2>2
<1>5. CASE lock' = Backend /\ orphan' = NoOrphan
  <2>1. OrderedOrphan'
    BY <1>5 DEF OrderedOrphan, NoOrphan, Atop, Sending, Writing, Transaction
  <2> QED BY <1>3, <1>5, <2>1
<1>6. CASE lock # r /\ UNCHANGED server
  BY <1>6, BystanderOrdered
<1> QED
  BY <1>4, <1>5, <1>6 DEF Detach

LEMMA EnvironmentOrdered ==
  ASSUME Typed, Exclusive, Ordered, Exclusive', NEW r \in Runners, Environment(r)
  PROVE  Ordered'
<1>0. Undisturbed(r)
  BY OthersUndisturbed
<1>1. CASE Start(r)
  BY <1>0, <1>1, BystanderOrdered DEF Start, Exclusive, Live, Holding, Writing, Transaction
<1>2. CASE Abort(r) \/ ChangeFiles(r)
  <2>1. UNCHANGED <<pc, cmd, seen, todo, cur, outcome>> /\ UNCHANGED <<database, server>>
    BY <1>2 DEF Abort, ChangeFiles, plan
  <2>2. OrderedOwner(r)'
    BY <2>1
    DEF Ordered, OrderedOwner, Atop, Planned, Says, SaysApplied, SaysUndone, SaysDoubt, IsDown,
        ExactPrefix, Pending, IsLast, IsNext, DirtyRows, Recorded, database, server
  <2> QED BY <1>0, <2>1, <2>2, FrameOrdered
<1>3. CASE LoseSession(r)
  BY <1>0, <1>3, DetachOrdered DEF LoseSession, Typed, TypeOK
<1>4. CASE Crash(r) /\ lost[r]
  BY <1>0, <1>4, BystanderOrdered DEF Crash, Exclusive, Live
<1>5. CASE Crash(r) /\ ~lost[r]
  BY <1>0, <1>5, DetachOrdered DEF Crash, Report, Typed, TypeOK
<1> QED
  BY <1>1, <1>2, <1>3, <1>4, <1>5 DEF Environment

LEMMA OutsideOrdered ==
  ASSUME Typed, Ordered, BackendEnds \/ \E i \in Ids : Reconcile(i)
  PROVE  Ordered'
<1>1. DoubtIsNewest
  BY DEF Ordered
<1>2. ASSUME lock' = NoLock, DoubtIsNewest' PROVE Ordered'
  BY <1>2, ConstantsAssumption DEF Ordered, OrderedOwner, OrderedOrphan
<1>3. CASE BackendEnds
  <2>1. DoubtIsNewest'
    <3>1. CASE ledger' = ledger
      BY <1>1, <3>1 DEF DoubtIsNewest, DirtyRows, IsLast, Recorded
    <3>2. CASE ledger' # ledger
      <4>0. orphan.id \in Ids /\ orphan.sum \in Sums /\ orphan.down \in BOOLEAN
        BY <1>3, <3>2 DEF BackendEnds, database, Typed, TypeOK, HasMigration
      <4>1. PICK i \in Ids, c \in Sums, down \in BOOLEAN :
              i = orphan.id /\ c = orphan.sum /\ down = orphan.down
        BY <4>0, Zenon
      <4>2. \/ orphan.at = "commit" /\ CommitMigration(down, i, c, c)
            \/ orphan.at = "markcommit" /\ CommitMarker(i, c)
            \/ orphan.at = "final" /\ FinishMarker(down, i, c)
        BY <1>3, <3>2, <4>1 DEF BackendEnds, RunPart, RunWhole, database
      <4>3. (\A j \in Ids : Recorded(j) => j <= i) /\ DirtyRows = UnderWay(orphan.at, i)
        BY <1>3, <4>1, <4>2
        DEF BackendEnds, Ordered, OrderedOrphan, Atop, Sending, Writing, Transaction
      <4>4. DirtyRows' \in {{}, {i}} /\ \A j \in Ids : Recorded(j)' => j <= i
        BY <1>1, <4>2, <4>3, StatementsAreOrdered DEF UnderWay
      <4> QED BY <4>4 DEF DoubtIsNewest, IsLast
    <3> QED BY <3>1, <3>2
  <2> QED BY <1>2, <1>3, <2>1 DEF BackendEnds
<1>4. ASSUME NEW i \in Ids, Reconcile(i) PROVE Ordered'
  <2>1. lock' = NoLock /\ i \in DirtyRows
    BY <1>4 DEF Reconcile, server
  <2>2. PICK w : w.state # Dirty /\ ledger' = [ledger EXCEPT ![i] = w]
    BY <1>4, RowValues, IdTypes DEF Reconcile
  <2>3. DirtyRows' = DirtyRows \ {i}
    BY <2>2, OneRow
  <2>4. \A j \in DirtyRows : j = i
    BY <1>1, <2>1, RowFacts, IdTypes, IdsOrdered DEF DoubtIsNewest, IsLast, DirtyRows
  <2>5. DirtyRows' = {}
    BY <2>3, <2>4
  <2> QED BY <1>2, <2>1, <2>5 DEF DoubtIsNewest
<1> QED
  BY <1>3, <1>4

LEMMA AlwaysOrdered == Spec => [](Ordered /\ Fresh)
<1>1. Init => Ordered /\ Fresh
  BY ConstantsAssumption
  DEF Init, Ordered, OrderedOwner, OrderedOrphan, DoubtIsNewest, DirtyRows, NoRow, Dirty, Fresh
<1>2. Typed /\ Exclusive /\ Exclusive' /\ Truthful /\ Fresh /\ Ordered /\ [Next]_vars => Ordered'
  <2> SUFFICES ASSUME Typed, Exclusive, Exclusive', Truthful, Fresh, Ordered, [Next]_vars
               PROVE  Ordered'
    OBVIOUS
  <2>1. CASE UNCHANGED vars
    BY <2>1
    DEF vars, database, server, plan, Ordered, OrderedOwner, OrderedOrphan, DoubtIsNewest, Atop,
        Planned, Says, SaysApplied, SaysUndone, SaysDoubt, IsDown, ExactPrefix, Pending, IsLast,
        IsNext, DirtyRows, Recorded
  <2>2. CASE Next
    BY <2>2, StepOrdered, EnvironmentOrdered, OutsideOrdered DEF Next
  <2> QED BY <2>1, <2>2
<1> QED
  BY <1>1, <1>2, NextFresh, AlwaysTyped, AlwaysExclusive, AlwaysTruthful, PTL DEF Spec

\* Nothing is ever recorded on top of a migration whose outcome is uncertain, whoever runs
\* which command and whatever is lost or killed: an uncertain row is always the last one.
THEOREM DoubtStaysNewest == Spec => []DoubtIsNewest
<1>1. Ordered => DoubtIsNewest
  BY DEF Ordered
<1> QED
  BY <1>1, AlwaysOrdered, PTL

\* Success, a rollback, a cancellation and a doubt each mean of the database what they say,
\* for any number of processes, migrations and file versions.
THEOREM OutcomesAreHonest == Spec => []OutcomeIsHonest
<1>1. Typed /\ Truthful /\ Ordered => OutcomeIsHonest
  <2> SUFFICES ASSUME Typed, Truthful, Ordered PROVE OutcomeIsHonest
    OBVIOUS
  <2>1. \A r \in Runners : pc[r] = "release" /\ lock = r => Says(r, outcome[r].kind)
    BY DEF Ordered, OrderedOwner
  <2>2. \A i \in Ids : /\ ledger[i].state = Applied => catalog[i].whole
                       /\ ~Recorded(i) => catalog[i] = NoEffect
    <3>1. \A c : Whole(c).whole = TRUE
      BY DEF Whole
    <3> QED BY <3>1, TruthPointwise, Zenon DEF Truthful, Recorded
  <2>3. SuccessMeansApplied /\ DoubtIsReported
    BY <2>1 DEF SuccessMeansApplied, DoubtIsReported, Says, SaysApplied, SaysDoubt
  <2>4. RolledBackLeavesNoTrace
    BY <2>1, <2>2, IdTypes DEF RolledBackLeavesNoTrace, Says, SaysUndone
  <2> QED
    BY <2>3, <2>4 DEF OutcomeIsHonest
<1> QED
  BY <1>1, AlwaysTyped, AlwaysTruthful, AlwaysOrdered, PTL
----------------------------------------------------------------------------
(* The runner implements MigrationHistory *)

\* A truthful ledger is the history: no migration is ever torn.
LEMMA HistoryOfLedger ==
  ASSUME LedgerIsTruthful
  PROVE  \A i \in Ids : InHistory(i) = IF ledger[i].state = Applied THEN ledger[i].sum ELSE "none"
  BY DEF LedgerIsTruthful, InHistory

LEMMA HistoryOfLedgerNext ==
  ASSUME LedgerIsTruthful'
  PROVE  \A i \in Ids :
            InHistory(i)' = IF ledger'[i].state = Applied THEN ledger'[i].sum ELSE "none"
  BY DEF LedgerIsTruthful, InHistory

LEMMA SameLedgerStutters ==
  ASSUME LedgerIsTruthful, LedgerIsTruthful', ledger' = ledger
  PROVE  UNCHANGED History!vars
<1>1. [i \in Ids |-> InHistory(i)]' = [i \in Ids |-> InHistory(i)]
  BY HistoryOfLedger, HistoryOfLedgerNext
<1>2. Doubt' = Doubt
  BY DEF Doubt, DirtyRows
<1> QED
  BY <1>1, <1>2 DEF History!vars

\* What one written row means for the history.
LEMMA OneRowInHistory ==
  ASSUME Typed, LedgerIsTruthful, LedgerIsTruthful', NEW i \in Ids, NEW c \in Sums, NEW w,
         ledger' = [ledger EXCEPT ![i] = w],
         \/ ledger[i] = NoRow /\ w \in {Row(c, Applied), Row(c, Dirty)}
         \/ ledger[i] = Row(c, Applied) /\ w \in {NoRow, Row(c, Dirty)}
         \/ ledger[i] = Row(c, Dirty) /\ w \in {NoRow, Row(c, Applied)},
         \A j \in Ids : Recorded(j) => j <= i, DirtyRows \subseteq {i}
  PROVE  History!Next
<1> DEFINE H == [j \in Ids |-> InHistory(j)]
           x == IF w.state = Applied THEN w.sum ELSE "none"
<1>0. /\ ledger'[i] = w
      /\ \A j \in Ids \ {i} : ledger'[j] = ledger[j]
      /\ DirtyRows' = IF w.state = Dirty THEN DirtyRows \cup {i} ELSE DirtyRows \ {i}
  BY OneRow
<1>1. [j \in Ids |-> InHistory(j)]' = [H EXCEPT ![i] = x]
  <2>1. InHistory(i)' = x
    BY <1>0, HistoryOfLedgerNext
  <2>2. \A j \in Ids \ {i} : InHistory(j)' = InHistory(j)
    BY <1>0, HistoryOfLedger, HistoryOfLedgerNext
  <2> QED BY <2>1, <2>2
<1>2. /\ H[i] = IF ledger[i].state = Applied THEN ledger[i].sum ELSE "none"
      /\ H \in [Ids -> {H[j] : j \in Ids}]
  BY HistoryOfLedger
<1>3. History!Newer(i) = {}
  BY HistoryOfLedger, RowFacts, IdTypes, IdsOrdered DEF History!Newer
<1>4. c # "none"
  BY ConstantsAssumption
<1>5. i \in DirtyRows <=> ledger[i].state = Dirty
  BY IdTypes, RowFacts
<1> HIDE DEF H, x
<1>6. CASE ledger[i] = NoRow /\ w = Row(c, Applied)
  <2>1. DirtyRows = {} /\ DirtyRows' = {} /\ x = c /\ H[i] = "none"
    BY <1>0, <1>2, <1>5, <1>6, RowValues DEF x
  <2>2. Doubt = {} /\ Doubt' = {}
    BY <2>1 DEF Doubt
  <2>3. History!Apply(i, c)
    BY <1>1, <1>3, <2>1, <2>2 DEF History!Apply, H
  <2> QED BY <2>3 DEF History!Next
<1>7. CASE ledger[i] = Row(c, Applied) /\ w = NoRow
  <2>1. DirtyRows = {} /\ DirtyRows' = {} /\ x = "none" /\ H[i] = c
    BY <1>0, <1>2, <1>5, <1>7, RowValues DEF x
  <2>2. Doubt = {} /\ Doubt' = {}
    BY <2>1 DEF Doubt
  <2>3. History!Revert(i)
    BY <1>1, <1>3, <1>4, <2>1, <2>2 DEF History!Revert, H
  <2> QED BY <2>3 DEF History!Next
<1>8. CASE ledger[i] \in {NoRow, Row(c, Applied)} /\ w = Row(c, Dirty)
  <2>1. DirtyRows = {} /\ DirtyRows' = {i} /\ x = "none" /\ H[i] \in {"none", c}
    BY <1>0, <1>2, <1>5, <1>8, RowValues DEF x
  <2>2. Doubt = {} /\ Doubt' = {[id |-> i, sum |-> c]}
    BY <1>0, <1>8, <2>1, RowValues DEF Doubt
  <2>3. History!Unsettle(i, c)
    BY <1>1, <1>3, <2>1, <2>2 DEF History!Unsettle, H
  <2> QED BY <2>3 DEF History!Next
<1>9. CASE ledger[i] = Row(c, Dirty)
  <2>1. DirtyRows = {i} /\ DirtyRows' = {} /\ H[i] = "none" /\ x \in {"none", c}
    BY <1>0, <1>2, <1>5, <1>9, RowValues DEF x
  <2>2. Doubt = {[id |-> i, sum |-> c]} /\ Doubt' = {}
    BY <1>9, <2>1, RowValues DEF Doubt
  <2>3. [H EXCEPT ![i] = x] = H \/ [H EXCEPT ![i] = x] = [H EXCEPT ![i] = c]
    BY <1>2, <2>1
  <2>4. History!Settle
    <3> DEFINE d == [id |-> i, sum |-> c]
    <3>1. d \in Doubt /\ d.id = i /\ d.sum = c
      BY <2>2
    <3> QED
      BY <1>1, <2>2, <2>3, <3>1 DEF History!Settle, H
  <2> QED BY <2>4 DEF History!Next
<1> QED
  BY <1>6, <1>7, <1>8, <1>9

\* Every statement of a command, of a backend without a client and of an operator is a step
\* of the history or changes nothing in it.
LEMMA StatementsFollowHistory ==
  ASSUME Typed, LedgerIsTruthful, LedgerIsTruthful', NEW at, NEW down \in BOOLEAN,
         NEW i \in Ids, NEW c \in Sums, Before(at, down, i, c),
         \A j \in Ids : Recorded(j) => j <= i, DirtyRows = UnderWay(at, i),
         \/ at = "commit" /\ CommitMigration(down, i, c, c)
         \/ at = "markcommit" /\ CommitMarker(i, c)
         \/ at = "nbody" /\ (RunPart(i, c) \/ RunWhole(down, i, c))
         \/ at = "final" /\ FinishMarker(down, i, c)
  PROVE  [History!Next]_(History!vars)
<1>1. CASE RunPart(i, c) \/ RunWhole(down, i, c)
  BY <1>1, SameLedgerStutters DEF RunPart, RunWhole
<1>2. CASE at = "commit" /\ CommitMigration(down, i, c, c)
  BY <1>2, OneRowInHistory DEF CommitMigration, Before, UnderWay
<1>3. CASE at = "markcommit" /\ CommitMarker(i, c)
  BY <1>3, OneRowInHistory DEF CommitMarker, Before, UnderWay
<1>4. CASE at = "final" /\ FinishMarker(down, i, c)
  BY <1>4, OneRowInHistory DEF FinishMarker, Before, UnderWay
<1> QED
  BY <1>1, <1>2, <1>3, <1>4

\* Only these steps write the ledger.
LEMMA LedgerWriters ==
  ASSUME NEW r \in Runners, Step(r) \/ Environment(r)
  PROVE  \/ ledger' = ledger
         \/ Commit(r) \/ MarkCommit(r) \/ Finish(r)
<1>1. CASE Acquire(r) \/ Observe(r)
  BY <1>1
  DEF Acquire, TryLock, LockTimeout, AcquireAborted, AcquireLost, Observe, ObserveLocked,
      ObserveTryLock, ObserveUnlock, Inspect, ObserveLost, database
<1>2. CASE Loop(r)
  BY <1>2
  DEF Loop, FilesChanged, PlanUnderLock, Done, AbortedBetween, ReadSql, ReadSqlChanged, database
<1>3. CASE Transactional(r)
  BY <1>3 DEF Transactional, Dispatch, Body, Record, StatementFails, Rollback, database
<1>4. CASE Alone(r)
  BY <1>4
  DEF Alone, Mark, MarkCommitFails, DispatchAlone, RunAlone, RunAloneFails, FinishFails, RunPart,
      RunWhole, database
<1>5. CASE Lost(r) \/ Leaving(r)
  BY <1>5
  DEF Lost, LostOutsideTransaction, LostInTransaction, LostAtMarkCommit, LostAfterDispatch,
      LostAtFinish, Leaving, Release, ReleaseLost, ReleaseBroken, database
<1>6. CASE Environment(r)
  BY <1>6 DEF Environment, Start, Abort, LoseSession, Crash, ChangeFiles, database
<1> QED
  BY <1>1, <1>2, <1>3, <1>4, <1>5, <1>6 DEF Step

LEMMA StepFollowsHistory ==
  ASSUME Typed, Exclusive, Truthful, Truthful', Ordered, [Next]_vars
  PROVE  [History!Next]_(History!vars)
<1>0. LedgerIsTruthful /\ LedgerIsTruthful' /\ DoubtIsNewest
  BY DEF Truthful, Ordered
<1>1. CASE ledger' = ledger
  BY <1>0, <1>1, SameLedgerStutters
<1>2. ASSUME NEW r \in Runners, Commit(r) \/ MarkCommit(r) \/ Finish(r), ledger' # ledger
      PROVE  [History!Next]_(History!vars)
  <2>1. pc[r] \in {"commit", "markcommit", "final"} /\ pc[r] \in Sending /\ lock = r
    BY <1>2
    DEF Commit, MarkCommit, Finish, Sending, Holding, Writing, Transaction, Exclusive, Live
  <2>2. cur[r] \in Ids /\ ExpectedSum(r) \in Sums /\ SentSum(r) = ExpectedSum(r)
        /\ IsDown(r) \in BOOLEAN
    BY <2>1, TypedParts, ExpectedIsSum DEF IsDown
  <2>3. PICK i \in Ids, c \in Sums, down \in BOOLEAN :
          i = cur[r] /\ c = ExpectedSum(r) /\ down = IsDown(r)
    BY <2>2, Zenon
  <2>4. Before(pc[r], down, i, c)
    BY <2>1, <2>3 DEF Truthful, Prepared
  <2>5. DirtyRows = UnderWay(pc[r], i) /\ \A j \in Ids : Recorded(j) => j <= i
    BY <2>1, <2>3 DEF Ordered, OrderedOwner, Atop
  <2>6. \/ pc[r] = "commit" /\ CommitMigration(down, i, c, c)
        \/ pc[r] = "markcommit" /\ CommitMarker(i, c)
        \/ pc[r] = "final" /\ FinishMarker(down, i, c)
    BY <1>2, <2>2, <2>3 DEF Commit, MarkCommit, Finish, database
  <2> QED
    BY <1>0, <2>4, <2>5, <2>6, StatementsFollowHistory
<1>3. ASSUME BackendEnds, ledger' # ledger PROVE [History!Next]_(History!vars)
  <2>1. orphan.id \in Ids /\ orphan.sum \in Sums /\ orphan.down \in BOOLEAN
    BY <1>3 DEF BackendEnds, database, Typed, TypeOK, HasMigration
  <2>2. PICK i \in Ids, c \in Sums, down \in BOOLEAN :
          i = orphan.id /\ c = orphan.sum /\ down = orphan.down
    BY <2>1, Zenon
  <2>3. \/ orphan.at = "commit" /\ CommitMigration(down, i, c, c)
        \/ orphan.at = "markcommit" /\ CommitMarker(i, c)
        \/ orphan.at = "final" /\ FinishMarker(down, i, c)
    BY <1>3, <2>2 DEF BackendEnds, RunPart, RunWhole, database
  <2>4. Before(orphan.at, down, i, c)
    BY <1>3, <2>2 DEF BackendEnds, Truthful, Prepared
  <2>5. DirtyRows = UnderWay(orphan.at, i) /\ \A j \in Ids : Recorded(j) => j <= i
    BY <1>3, <2>2, <2>3
    DEF BackendEnds, Ordered, OrderedOrphan, Atop, Sending, Writing, Transaction
  <2> QED
    BY <1>0, <2>3, <2>4, <2>5, StatementsFollowHistory
<1>4. ASSUME NEW i \in Ids, Reconcile(i) PROVE [History!Next]_(History!vars)
  <2>1. i \in DirtyRows /\ ledger[i] \in RowSet
    BY <1>4, IdTypes DEF Reconcile
  <2>2. PICK c \in Sums : ledger[i] = Row(c, Dirty)
    BY <2>1, RowValues DEF DirtyRows, RowSet, Row
  <2>3. ledger' = [ledger EXCEPT ![i] = Row(c, Applied)] \/ ledger' = [ledger EXCEPT ![i] = NoRow]
    BY <1>4, <2>2, IdTypes, RowValues DEF Reconcile
  <2>4. (\A j \in Ids : Recorded(j) => j <= i) /\ \A j \in DirtyRows : j = i
    BY <1>0, <2>1, RowFacts, IdTypes, IdsOrdered DEF DoubtIsNewest, IsLast, DirtyRows
  <2> QED
    BY <1>0, <2>2, <2>3, <2>4, OneRowInHistory
<1>5. CASE UNCHANGED vars
  BY <1>1, <1>5 DEF vars, database
<1> QED
  BY <1>1, <1>2, <1>3, <1>4, <1>5, LedgerWriters DEF Next

\* The runner implements the promise of MigrationHistory: whatever is lost, cancelled or
\* killed, migrations take effect whole and in order, only the newest is taken back, and at
\* most one is in doubt, until it is settled.
THEOREM HistoryIsImplemented == Spec => ImplementsHistory
<1>1. Init => History!Init
  <2> SUFFICES ASSUME Init PROVE History!Init
    OBVIOUS
  <2>1. DirtyRows = {} /\ \A i \in Ids : InHistory(i) = "none"
    BY RowValues DEF Init, DirtyRows, InHistory, Recorded
  <2> QED
    BY <2>1 DEF History!Init, Doubt
<1>2. Typed /\ Exclusive /\ Truthful /\ Truthful' /\ Ordered /\ [Next]_vars
        => [History!Next]_(History!vars)
  BY StepFollowsHistory
<1> QED
  BY <1>1, <1>2, AlwaysTyped, AlwaysExclusive, AlwaysTruthful, AlwaysOrdered, PTL
  DEF Spec, ImplementsHistory, History!Spec
============================================================================
