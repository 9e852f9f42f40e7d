---------------------------- MODULE MigrationRunner ----------------------------
(***************************************************************************)
(* The PostgreSQL migration runner of @blendsdk/codegen: concurrent `up`,  *)
(* `down` and `status` commands (runner.ts) that share one database, its   *)
(* ledger table (ledger.ts) and one session-level advisory lock            *)
(* (migration-lock.ts).                                                    *)
(*                                                                         *)
(* A round trip to PostgreSQL is one step.  A session can be lost, a       *)
(* caller can cancel and a process can be killed between any two steps.    *)
(* A lost session's backend lives on for a while: it still owns the        *)
(* advisory lock and may still execute the statement it was sent.          *)
(*                                                                         *)
(* Data: a migration is an id, ordered as the file names are; the content  *)
(* of its files is a version, of which the ledger records the checksum of  *)
(* the up file (the header, and so the lineage, is part of those bytes).   *)
(***************************************************************************)
EXTENDS Integers

CONSTANTS
    Runners,          \* processes that run migration commands
    Ids,              \* migration identifiers, ordered by <
    Versions,         \* contents of a migration's pair of files
    Checksum,         \* [Versions -> up-file checksum]
    NoFile,           \* an id for which a directory has no migration
    Directories,      \* contents a migrations directory may have
    NonTransactional, \* pairs <<id, version>> whose up file says transaction: false
    DownNonTransactional,  \* the same for the down file
    HasDown,          \* pairs <<id, version>> that have a down file
    Commands,         \* commands the processes run
    NoLock, Backend   \* lock owners: nobody, a session whose client is gone

Sums == {Checksum[v] : v \in Versions}

ASSUME ConstantsAssumption ==
    /\ Ids \subseteq Nat \ {0}
    /\ NoFile \notin Versions
    /\ Checksum \in [Versions -> Sums]
    /\ Directories \subseteq [Ids -> Versions \cup {NoFile}]
    /\ HasDown \subseteq Ids \X Versions
    /\ Commands \subseteq {"up", "up-dry", "down", "down-dry", "status"}
    /\ "none" \notin Sums /\ 0 \notin Sums
    /\ NoLock \notin Runners /\ Backend \notin Runners /\ NoLock # Backend

VARIABLES
    dir,      \* the migration files on the disk of each process, while it runs a command
    ledger,   \* committed rows of public.blendsdk_migrations
    catalog,  \* what the migrations' SQL has done to the database
    lock,     \* owner of the advisory lock
    orphan,   \* what the lock-owning backend without a client was executing
    pc,       \* the step each process is about to take
    cmd,      \* the command each process runs
    seen,     \* local history the process discovered before it had the lock
    todo,     \* ids the command still has to apply or to revert
    cur,      \* the id it works on, 0 before the first
    sql,      \* version of the file whose bytes are sent to PostgreSQL
    aborted,  \* the caller's AbortSignal has fired
    lost,     \* the client's session is dead, noticed or not
    outcome   \* what the command is about to report, and `broken`

database == <<ledger, catalog>>
server   == <<lock, orphan>>
plan     == <<cmd, seen, todo, cur>>
vars     == <<dir, database, server, pc, plan, sql, aborted, lost, outcome>>
----------------------------------------------------------------------------
(* Rows, effects and outcomes *)

NoRow     == [sum |-> "none", state |-> "ABSENT"]
NoEffect  == [sum |-> "none", whole |-> TRUE]
Row(c, s) == [sum |-> c, state |-> s]

Applied == "APPLIED"
Dirty   == "NONTRANSACTIONAL_DIRTY"

RowSet    == {NoRow} \cup [sum : Sums, state : {Applied, Dirty}]
EffectSet == {NoEffect} \cup [sum : Sums, whole : BOOLEAN]

Kinds == {"UP_TO_DATE", "PENDING", "INVALID_HISTORY", "LOCKED", "UNKNOWN_OUTCOME",
          "DATABASE", "ROLLED_BACK", "ABORTED", "NONE"}
\* ROLLED_BACK is the DATABASE error thrown after a statement of a transaction has failed
\* and the transaction has been rolled back.

Outcome(k, b) == [kind |-> k, broken |-> b]
NoOutcome     == Outcome("NONE", FALSE)
NoOrphan      == [at |-> "none", down |-> FALSE, id |-> 0, sum |-> "none"]
NoDir         == [i \in Ids |-> NoFile]

\* program counters at which a process owns its session's advisory lock
Transaction == {"dispatch", "body", "record", "commit", "rollback", "mark", "markcommit"}
Writing == Transaction \cup {"ndispatch", "nbody", "final"}
Holding == {"locked", "apply", "release", "unlock"} \cup Writing
AllPC   == Holding \cup {"idle", "acquire", "observe", "inspect"}
\* where the caller's signal can still change what happens
Cancellable == {"acquire", "locked", "apply", "dispatch", "body", "mark", "markcommit",
                "ndispatch", "nbody"}

IsDown(r) == cmd[r] \in {"down", "down-dry"}
Recorded(i) == ledger[i] # NoRow

\* pending migrations are taken in id order
IsNext(r, i) == i \in todo[r] /\ \A j \in todo[r] : i <= j
Expected(r) == seen[r][cur[r]]
ExpectedSum(r) == Checksum[Expected(r)]
SentSum(r) == Checksum[sql[r]]
----------------------------------------------------------------------------
(* The SQL statements that change committed state *)

\* Up SQL run on top of its own effects, or down SQL run without them, leaves a
\* catalog nobody intended.
AfterUp(i, c)   == IF catalog[i] = NoEffect THEN [sum |-> c, whole |-> TRUE]
                   ELSE [sum |-> c, whole |-> FALSE]
AfterDown(i, c) == IF catalog[i].whole THEN NoEffect ELSE [sum |-> c, whole |-> FALSE]
After(down, i, c) == IF down THEN AfterDown(i, c) ELSE AfterUp(i, c)

\* COMMIT of a transactional migration: its SQL and its ledger row together.
CommitMigration(down, i, c, sent) ==
    /\ ledger'  = [ledger EXCEPT ![i] = IF down THEN NoRow ELSE Row(c, Applied)]
    /\ catalog' = [catalog EXCEPT ![i] = After(down, i, sent)]

\* COMMIT of the uncertainty marker that precedes nontransactional SQL.
CommitMarker(i, c) ==
    /\ ledger' = [ledger EXCEPT ![i] = Row(c, Dirty)]
    /\ UNCHANGED catalog

\* Nontransactional SQL takes effect on its own: all of it, or a part.
RunWhole(down, i, sent) ==
    /\ catalog' = [catalog EXCEPT ![i] = After(down, i, sent)]
    /\ UNCHANGED ledger

RunPart(i, sent) ==
    /\ catalog' = [catalog EXCEPT ![i] = [sum |-> sent, whole |-> FALSE]]
    /\ UNCHANGED ledger

\* The guarded UPDATE or DELETE that ends a nontransactional migration.
MarkerMatches(i, c) == ledger[i] = Row(c, Dirty)

\* mutant: a reverted migration's row is kept, without its state
FinishMarkerKeepsRow(down, i, c) ==
    /\ ledger' = [ledger EXCEPT ![i] = Row(c, IF down THEN "ABSENT" ELSE Applied)]
    /\ UNCHANGED catalog

FinishMarker(down, i, c) ==
    /\ ledger' = [ledger EXCEPT ![i] = IF down THEN NoRow ELSE Row(c, Applied)]
    /\ UNCHANGED catalog

\* The guard of the ledger statement inside a migration's transaction: an INSERT
\* needs a free primary key, the guarded DELETE and UPDATE an APPLIED row.
RowReady(r) ==
    IF IsDown(r) THEN ledger[cur[r]] = Row(ExpectedSum(r), Applied)
    ELSE ~Recorded(cur[r])
----------------------------------------------------------------------------
(* Comparing local files with the ledger: validateMigrationPrefix *)

\* mutant: the history is compared by id alone
ExactPrefixById(local) ==
    \A i \in Ids : Recorded(i) =>
        /\ local[i] # NoFile
        /\ \A j \in Ids : (j < i /\ local[j] # NoFile) => Recorded(j)

ExactPrefix(local) ==
    \A i \in Ids : Recorded(i) =>
        /\ local[i] # NoFile
        /\ ledger[i].sum = Checksum[local[i]]
        /\ \A j \in Ids : (j < i /\ local[j] # NoFile) => Recorded(j)

DirtyRows == {i \in Ids : ledger[i].state = Dirty}
IsLast(i) == \A j \in Ids : Recorded(j) => j <= i

\* mutant: an uncertain row counts as an applied one
HistoryStatusTrustsMarker(local) ==
    IF ~ExactPrefix(local) THEN "INVALID_HISTORY"
    ELSE IF \E i \in Ids : local[i] # NoFile /\ ~Recorded(i) THEN "PENDING"
    ELSE "UP_TO_DATE"

\* The first uncertain row ends the comparison; it has to be the final one.
HistoryStatus(local) ==
    IF ~ExactPrefix(local) \/ \E i \in DirtyRows : ~IsLast(i) THEN "INVALID_HISTORY"
    ELSE IF DirtyRows # {} THEN "UNKNOWN_OUTCOME"
    ELSE IF \E i \in Ids : local[i] # NoFile /\ ~Recorded(i) THEN "PENDING"
    ELSE "UP_TO_DATE"

Pending(local) == {i \in Ids : local[i] # NoFile /\ ~Recorded(i)}
\* mutant: the first row instead of the last
NewestReadsFirst == {i \in Ids : Recorded(i) /\ \A j \in Ids : Recorded(j) => i <= j}
Newest == {i \in Ids : Recorded(i) /\ IsLast(i)}
----------------------------------------------------------------------------
\* the next step of a command that goes on
Goto(r, p) ==
    /\ pc' = [pc EXCEPT ![r] = p]
    /\ UNCHANGED <<dir, plan, sql, aborted, lost, outcome>>

\* The migration in hand is complete: back to the head of the loop.
NextTurn(r) ==
    /\ pc' = [pc EXCEPT ![r] = "apply"]
    /\ todo' = [todo EXCEPT ![r] = @ \ {cur[r]}]
    /\ cur' = [cur EXCEPT ![r] = 0]
    /\ sql' = [sql EXCEPT ![r] = NoFile]
    /\ UNCHANGED <<dir, cmd, seen, aborted, lost, outcome>>

\* An exception or a return that leaves through `finally { lock.release(broken) }`: from
\* here on nothing looks at the files, at the signal or at what was left to do.
Leave(r, p, kind, broken) ==
    /\ pc' = [pc EXCEPT ![r] = p]
    /\ outcome' = [outcome EXCEPT ![r] = Outcome(kind, broken)]
    /\ dir' = [dir EXCEPT ![r] = NoDir]
    /\ aborted' = [aborted EXCEPT ![r] = FALSE]
    /\ sql' = [sql EXCEPT ![r] = NoFile]
    /\ todo' = [todo EXCEPT ![r] = {}]
    /\ UNCHANGED <<cmd, seen, cur, lost>>

\* The command settles its promise, with what `outcome` says or with the error named
\* beside the call; the process may run another command later.
Report(r) ==
    /\ pc' = [pc EXCEPT ![r] = "idle"]
    /\ dir' = [dir EXCEPT ![r] = NoDir]
    /\ cmd' = [cmd EXCEPT ![r] = "none"]
    /\ seen' = [seen EXCEPT ![r] = NoDir]
    /\ todo' = [todo EXCEPT ![r] = {}]
    /\ cur' = [cur EXCEPT ![r] = 0]
    /\ sql' = [sql EXCEPT ![r] = NoFile]
    /\ aborted' = [aborted EXCEPT ![r] = FALSE]
    /\ lost' = [lost EXCEPT ![r] = FALSE]
    /\ outcome' = [outcome EXCEPT ![r] = NoOutcome]

Init ==
    /\ dir = [r \in Runners |-> NoDir]
    /\ ledger = [i \in Ids |-> NoRow]
    /\ catalog = [i \in Ids |-> NoEffect]
    /\ lock = NoLock
    /\ orphan = NoOrphan
    /\ pc = [r \in Runners |-> "idle"]
    /\ cmd = [r \in Runners |-> "none"]
    /\ seen = [r \in Runners |-> NoDir]
    /\ todo = [r \in Runners |-> {}]
    /\ cur = [r \in Runners |-> 0]
    /\ sql = [r \in Runners |-> NoFile]
    /\ aborted = [r \in Runners |-> FALSE]
    /\ lost = [r \in Runners |-> FALSE]
    /\ outcome = [r \in Runners |-> NoOutcome]

\* runMigrations: discover the files, then open a session.
Start(r) ==
    /\ pc[r] = "idle"
    /\ \E c \in Commands :
        /\ cmd' = [cmd EXCEPT ![r] = c]
        /\ pc' = [pc EXCEPT ![r] = IF c = "status" THEN "observe" ELSE "acquire"]
    /\ \E d \in Directories :
        /\ dir' = [dir EXCEPT ![r] = d]
        /\ seen' = [seen EXCEPT ![r] = d]
    /\ UNCHANGED <<database, server, todo, cur, sql, aborted, lost, outcome>>
----------------------------------------------------------------------------
(* acquireMigrationLock: poll pg_try_advisory_lock until a deadline *)

\* mutant: the answer of pg_try_advisory_lock is not looked at
TryLockUnchecked(r) ==
    /\ pc[r] = "acquire" /\ ~lost[r] /\ ~aborted[r]
    /\ lock' = r
    /\ Goto(r, "locked")
    /\ UNCHANGED <<database, orphan>>

TryLock(r) ==
    /\ pc[r] = "acquire" /\ ~lost[r] /\ ~aborted[r]
    /\ lock = NoLock
    /\ lock' = r
    /\ Goto(r, "locked")
    /\ UNCHANGED <<database, orphan>>

\* mutant: the wait has no deadline
LockTimeoutNever(r) == FALSE /\ pc[r] = "acquire" /\ UNCHANGED vars

LockTimeout(r) ==
    /\ pc[r] = "acquire" /\ ~lost[r]
    /\ lock # NoLock
    /\ Report(r)  \* LOCKED
    /\ UNCHANGED <<database, server>>

AcquireAborted(r) ==
    /\ pc[r] = "acquire" /\ aborted[r]
    /\ Report(r)  \* ABORTED
    /\ UNCHANGED <<database, server>>

AcquireLost(r) ==
    /\ pc[r] = "acquire" /\ lost[r]
    /\ Report(r)  \* DATABASE
    /\ UNCHANGED <<database, server>>

Begin(r, ids) ==
    /\ pc' = [pc EXCEPT ![r] = "apply"]
    /\ todo' = [todo EXCEPT ![r] = ids]
    /\ UNCHANGED <<dir, cmd, seen, cur, sql, aborted, lost, outcome>>

\* Under the lock: compare the ledger with the files.
UpPlan(r) ==
    LET status == HistoryStatus(seen[r]) IN
    IF status \in {"INVALID_HISTORY", "UNKNOWN_OUTCOME"} \/ cmd[r] = "up-dry"
    THEN Leave(r, "release", status, FALSE)
    ELSE Begin(r, Pending(seen[r]))

\* `down` takes the newest applied migration, and never looks at dryRun.
DownPlan(r) ==
    LET status == HistoryStatus(seen[r])
        target == {i \in Newest : <<i, seen[r][i]>> \in HasDown}
    IN  IF status \in {"INVALID_HISTORY", "UNKNOWN_OUTCOME"}
        THEN Leave(r, "release", status, FALSE)
        ELSE IF target = {}
        THEN Leave(r, "release", "INVALID_HISTORY", FALSE)
        ELSE Begin(r, target)

\* Under the lock: rediscover the files and refuse any change.
FilesChanged(r) ==
    /\ pc[r] = "locked" /\ dir[r] # seen[r]
    /\ Leave(r, "release", "INVALID_HISTORY", FALSE)
    /\ UNCHANGED <<database, server>>

PlanUnderLock(r) ==
    /\ pc[r] = "locked" /\ dir[r] = seen[r] /\ ~lost[r]
    /\ IF IsDown(r) THEN DownPlan(r) ELSE UpPlan(r)
    /\ UNCHANGED <<database, server>>
----------------------------------------------------------------------------
(* One turn of the loop over pending migrations (`down` makes one turn) *)

Done(r) ==
    /\ pc[r] = "apply" /\ todo[r] = {}
    /\ Leave(r, "release", IF IsDown(r) THEN "PENDING" ELSE "UP_TO_DATE", FALSE)
    /\ UNCHANGED <<database, server>>

\* throwIfAborted at the head of the loop; down has no such check.
AbortedBetween(r) ==
    /\ pc[r] = "apply" /\ todo[r] # {} /\ aborted[r] /\ ~IsDown(r)
    /\ Leave(r, "release", "ABORTED", FALSE)
    /\ UNCHANGED <<database, server>>

MustRunAlone(r, i) ==
    <<i, seen[r][i]>> \in (IF IsDown(r) THEN DownNonTransactional ELSE NonTransactional)

\* mutant: the bytes are sent as they are read
BytesTrusted(r, i) == i \in Ids /\ r \in Runners

\* readVerifiedMigrationSql refuses bytes that differ from the discovered ones.
BytesVerified(r, i) == dir[r][i] = seen[r][i]

\* Then come BEGIN, the timeouts and the ledger table.
ReadSql(r) ==
    /\ pc[r] = "apply" /\ ~lost[r] /\ ~(aborted[r] /\ ~IsDown(r))
    /\ \E i \in Ids :
        /\ IsNext(r, i) /\ BytesVerified(r, i)
        /\ cur' = [cur EXCEPT ![r] = i]
        /\ sql' = [sql EXCEPT ![r] = dir[r][i]]
        /\ pc' = [pc EXCEPT ![r] = IF MustRunAlone(r, i) THEN "mark" ELSE "dispatch"]
    /\ UNCHANGED <<dir, database, server, cmd, seen, todo, aborted, lost, outcome>>

ReadSqlChanged(r) ==
    /\ pc[r] = "apply" /\ ~(aborted[r] /\ ~IsDown(r))
    /\ \E i \in Ids : IsNext(r, i) /\ ~BytesVerified(r, i)
    /\ Leave(r, "release", "INVALID_HISTORY", FALSE)
    /\ UNCHANGED <<database, server>>
----------------------------------------------------------------------------
(* A transactional migration *)

\* executeMigrationSql asks for the backend's pid and looks at the signal before it sends.
Dispatch(r) ==
    /\ pc[r] = "dispatch" /\ ~lost[r]
    /\ IF aborted[r] THEN Leave(r, "rollback", "ABORTED", FALSE)
       ELSE Goto(r, "body")
    /\ UNCHANGED <<database, server>>

Body(r) ==
    /\ pc[r] = "body" /\ ~lost[r]
    /\ Goto(r, "record")
    /\ UNCHANGED <<database, server>>

Record(r) ==
    /\ pc[r] = "record" /\ ~lost[r]
    /\ IF RowReady(r) THEN Goto(r, "commit")
       ELSE Leave(r, "rollback", IF IsDown(r) THEN "INVALID_HISTORY" ELSE "ROLLED_BACK", FALSE)
    /\ UNCHANGED <<database, server>>

Commit(r) ==
    /\ pc[r] = "commit" /\ ~lost[r]
    /\ CommitMigration(IsDown(r), cur[r], ExpectedSum(r), SentSum(r))
    /\ NextTurn(r)
    /\ UNCHANGED server

\* A statement fails: an SQL error, a timeout, or the cancel request that
\* cancelBackend sent when the signal fired.
StatementFails(r) ==
    /\ pc[r] \in {"dispatch", "body", "record", "commit", "mark"} /\ ~lost[r]
    /\ Leave(r, "rollback", IF pc[r] = "body" /\ aborted[r] THEN "ABORTED" ELSE "ROLLED_BACK", FALSE)
    /\ UNCHANGED <<database, server>>

Rollback(r) ==
    /\ pc[r] = "rollback" /\ ~lost[r]
    /\ Goto(r, "release")
    /\ UNCHANGED <<database, server>>
----------------------------------------------------------------------------
(* A nontransactional migration: marker, SQL, final ledger statement *)

Mark(r) ==
    /\ pc[r] = "mark" /\ ~lost[r]
    /\ IF RowReady(r) THEN Goto(r, "markcommit")
       ELSE Leave(r, "rollback", IF IsDown(r) THEN "INVALID_HISTORY" ELSE "ROLLED_BACK", FALSE)
    /\ UNCHANGED <<database, server>>

MarkCommit(r) ==
    /\ pc[r] = "markcommit" /\ ~lost[r]
    /\ CommitMarker(cur[r], ExpectedSum(r))
    /\ Goto(r, "ndispatch")
    /\ UNCHANGED server

MarkCommitFails(r) ==
    /\ pc[r] = "markcommit" /\ ~lost[r]
    /\ Leave(r, "release", "UNKNOWN_OUTCOME", TRUE)
    /\ UNCHANGED <<database, server>>

DispatchAlone(r) ==
    /\ pc[r] = "ndispatch" /\ ~lost[r]
    /\ \/ ~aborted[r] /\ Goto(r, "nbody")
       \/ aborted[r] /\ Leave(r, "release", "UNKNOWN_OUTCOME", FALSE)
       \/ Leave(r, "release", "DATABASE", FALSE)
    /\ UNCHANGED <<database, server>>

RunAlone(r) ==
    /\ pc[r] = "nbody" /\ ~lost[r]
    /\ RunWhole(IsDown(r), cur[r], SentSum(r))
    /\ Goto(r, "final")
    /\ UNCHANGED server

\* mutant: cancelled nontransactional SQL counts as cancelled, as in a transaction
RunAloneFailsAborted(r) ==
    /\ pc[r] = "nbody" /\ ~lost[r]
    /\ \/ UNCHANGED database
       \/ RunPart(cur[r], SentSum(r))
    /\ Leave(r, "release", IF aborted[r] THEN "ABORTED" ELSE "DATABASE", FALSE)
    /\ UNCHANGED server

RunAloneFails(r) ==
    /\ pc[r] = "nbody" /\ ~lost[r]
    /\ \/ UNCHANGED database
       \/ RunPart(cur[r], SentSum(r))
    /\ Leave(r, "release", IF aborted[r] THEN "UNKNOWN_OUTCOME" ELSE "DATABASE", FALSE)
    /\ UNCHANGED server

Finish(r) ==
    /\ pc[r] = "final" /\ ~lost[r]
    /\ IF MarkerMatches(cur[r], ExpectedSum(r))
       THEN FinishMarker(IsDown(r), cur[r], ExpectedSum(r)) /\ NextTurn(r)
       ELSE Leave(r, "release", "UNKNOWN_OUTCOME", FALSE) /\ UNCHANGED database
    /\ UNCHANGED server

\* mutant: the result of the final ledger statement is ignored
FinishFailsUnnoticed(r) ==
    /\ pc[r] = "final" /\ ~lost[r]
    /\ NextTurn(r)
    /\ UNCHANGED <<database, server>>

FinishFails(r) ==
    /\ pc[r] = "final" /\ ~lost[r]
    /\ Leave(r, "release", "UNKNOWN_OUTCOME", FALSE)
    /\ UNCHANGED <<database, server>>
----------------------------------------------------------------------------
(* lock.release(broken), once, in `finally` *)

\* A backend whose client has gone: its statement in flight, if it has one that
\* can still change the database.
LeftBehind(r) ==
    IF pc[r] \in {"commit", "markcommit", "nbody", "final"}
    THEN [at |-> pc[r], down |-> IsDown(r), id |-> cur[r], sum |-> ExpectedSum(r)]
    ELSE NoOrphan

\* mutant: the client goes back to the pool with the session's lock
ReleaseKeepsLock(r) ==
    /\ pc[r] = "release" /\ ~lost[r] /\ ~outcome[r].broken
    /\ Report(r)
    /\ UNCHANGED <<database, server>>

Release(r) ==
    /\ pc[r] = "release" /\ ~lost[r] /\ ~outcome[r].broken
    /\ lock' = NoLock
    /\ Report(r)
    /\ UNCHANGED <<database, orphan>>

\* The unlock query fails: `finally` throws, whatever the command had to report.
ReleaseLost(r) ==
    /\ pc[r] = "release" /\ lost[r] /\ ~outcome[r].broken
    /\ Leave(r, "release", "DATABASE", TRUE)
    /\ UNCHANGED <<database, server>>

\* client.release(true) closes the socket; PostgreSQL frees the lock when it notices.
ReleaseBroken(r) ==
    /\ pc[r] = "release" /\ outcome[r].broken
    /\ lock' = IF lost[r] THEN lock ELSE Backend
    /\ Report(r)
    /\ UNCHANGED <<database, orphan>>
----------------------------------------------------------------------------
(* observeHistory: try the lock, give it back, then read the ledger *)

ObserveLocked(r) ==
    /\ pc[r] = "observe" /\ ~lost[r] /\ lock # NoLock
    /\ Report(r)  \* LOCKED
    /\ UNCHANGED <<database, server>>

ObserveTryLock(r) ==
    /\ pc[r] = "observe" /\ ~lost[r] /\ lock = NoLock
    /\ lock' = r
    /\ Goto(r, "unlock")
    /\ UNCHANGED <<database, orphan>>

ObserveUnlock(r) ==
    /\ pc[r] = "unlock" /\ ~lost[r]
    /\ lock' = NoLock
    /\ Goto(r, "inspect")
    /\ UNCHANGED <<database, orphan>>

Inspect(r) ==
    /\ pc[r] = "inspect" /\ ~lost[r]
    /\ Report(r)  \* HistoryStatus(seen[r])
    /\ UNCHANGED <<database, server>>

ObserveLost(r) ==
    /\ pc[r] \in {"observe", "unlock", "inspect"} /\ lost[r]
    /\ Report(r)  \* DATABASE
    /\ UNCHANGED <<database, server>>
----------------------------------------------------------------------------
(* The client notices that its session is lost: the awaited query rejects.  *)
(* `coded` is whether isConnectionFailure recognizes the error it gets.     *)

LostOutsideTransaction(r) ==
    /\ lost[r]
    /\ \/ pc[r] = "locked" /\ dir[r] = seen[r]
       \/ /\ pc[r] = "apply" /\ ~(aborted[r] /\ ~IsDown(r))
          /\ \E i \in Ids : IsNext(r, i) /\ BytesVerified(r, i)
    /\ \E coded \in BOOLEAN : Leave(r, "release", "DATABASE", coded)
    /\ UNCHANGED <<database, server>>

LostInTransaction(r) ==
    /\ lost[r] /\ pc[r] \in Transaction \ {"markcommit"}
    /\ Leave(r, "release", "DATABASE", TRUE)
    /\ UNCHANGED <<database, server>>

LostAtMarkCommit(r) ==
    /\ lost[r] /\ pc[r] = "markcommit"
    /\ Leave(r, "release", "UNKNOWN_OUTCOME", TRUE)
    /\ UNCHANGED <<database, server>>

LostAfterDispatch(r) ==
    /\ lost[r] /\ pc[r] \in {"ndispatch", "nbody"}
    /\ \/ aborted[r] /\ Leave(r, "release", "UNKNOWN_OUTCOME", FALSE)
       \/ ~(aborted[r] /\ pc[r] = "nbody") /\ Leave(r, "release", "UNKNOWN_OUTCOME", TRUE)
       \/ ~(aborted[r] /\ pc[r] = "nbody") /\ Leave(r, "release", "DATABASE", FALSE)
    /\ UNCHANGED <<database, server>>

LostAtFinish(r) ==
    /\ lost[r] /\ pc[r] = "final"
    /\ \E coded \in BOOLEAN : Leave(r, "release", "UNKNOWN_OUTCOME", coded)
    /\ UNCHANGED <<database, server>>
----------------------------------------------------------------------------
(* The environment *)

Abort(r) ==
    /\ pc[r] \in Cancellable /\ ~aborted[r]
    /\ aborted' = [aborted EXCEPT ![r] = TRUE]
    /\ UNCHANGED <<dir, database, server, pc, plan, sql, lost, outcome>>

\* The session goes; a lock it owns, or is just being granted, stays with the backend.
Detach(r) ==
    \/ /\ lock = r
       /\ lock' = Backend
       /\ orphan' = LeftBehind(r)
    \/ /\ lock = NoLock /\ pc[r] \in {"acquire", "observe"}
       /\ lock' = Backend
       /\ orphan' = NoOrphan
    \/ /\ lock # r
       /\ UNCHANGED server

LoseSession(r) ==
    /\ pc[r] # "idle" /\ ~lost[r]
    /\ lost' = [lost EXCEPT ![r] = TRUE]
    /\ Detach(r)
    /\ UNCHANGED <<dir, database, pc, plan, sql, aborted, outcome>>

Crash(r) ==
    /\ pc[r] # "idle"
    /\ IF lost[r] THEN UNCHANGED server ELSE Detach(r)
    /\ Report(r)
    /\ UNCHANGED database

\* The files matter while a process still has to read some of them; a change made while
\* it waits for the lock is noticed as one made just after.
ChangeFiles(r) ==
    /\ pc[r] \in {"locked", "apply"}
    /\ \E d \in Directories : dir' = [dir EXCEPT ![r] = d]
    /\ UNCHANGED <<database, server, pc, plan, sql, aborted, lost, outcome>>

\* The backend ends, with or without having executed the statement in flight.
BackendEnds ==
    /\ lock = Backend
    /\ \/ UNCHANGED database
       \/ orphan.at = "commit" /\ CommitMigration(orphan.down, orphan.id, orphan.sum, orphan.sum)
       \/ orphan.at = "markcommit" /\ CommitMarker(orphan.id, orphan.sum)
       \/ orphan.at = "nbody" /\ RunPart(orphan.id, orphan.sum)
       \/ orphan.at = "nbody" /\ RunWhole(orphan.down, orphan.id, orphan.sum)
       \/ orphan.at = "final" /\ FinishMarker(orphan.down, orphan.id, orphan.sum)
    /\ lock' = NoLock
    /\ orphan' = NoOrphan
    /\ UNCHANGED <<dir, pc, plan, sql, aborted, lost, outcome>>

\* An operator investigates an uncertain migration while no command runs, completes
\* it or undoes it, and reconciles the row by hand.
Reconcile(i) ==
    /\ lock = NoLock /\ i \in DirtyRows
    /\ \/ /\ ledger' = [ledger EXCEPT ![i] = Row(@.sum, Applied)]
          /\ catalog' = [catalog EXCEPT ![i] = [sum |-> ledger[i].sum, whole |-> TRUE]]
       \/ /\ ledger' = [ledger EXCEPT ![i] = NoRow]
          /\ catalog' = [catalog EXCEPT ![i] = NoEffect]
    /\ UNCHANGED <<dir, server, pc, plan, sql, aborted, lost, outcome>>
----------------------------------------------------------------------------
Acquire(r) == TryLock(r) \/ LockTimeout(r) \/ AcquireAborted(r) \/ AcquireLost(r)
Loop(r) ==
    \/ FilesChanged(r) \/ PlanUnderLock(r)
    \/ Done(r) \/ AbortedBetween(r) \/ ReadSql(r) \/ ReadSqlChanged(r)
Transactional(r) ==
    Dispatch(r) \/ Body(r) \/ Record(r) \/ Commit(r) \/ StatementFails(r) \/ Rollback(r)
Alone(r) ==
    \/ Mark(r) \/ MarkCommit(r) \/ MarkCommitFails(r)
    \/ DispatchAlone(r) \/ RunAlone(r) \/ RunAloneFails(r) \/ Finish(r) \/ FinishFails(r)
Observe(r) ==
    ObserveLocked(r) \/ ObserveTryLock(r) \/ ObserveUnlock(r) \/ Inspect(r) \/ ObserveLost(r)
Lost(r) ==
    \/ LostOutsideTransaction(r) \/ LostInTransaction(r) \/ LostAtMarkCommit(r)
    \/ LostAfterDispatch(r) \/ LostAtFinish(r)
Leaving(r) == Release(r) \/ ReleaseBroken(r) \/ ReleaseLost(r)

\* what the command itself does next
Step(r) ==
    Acquire(r) \/ Loop(r) \/ Transactional(r) \/ Alone(r) \/ Observe(r) \/ Lost(r) \/ Leaving(r)

Environment(r) == Start(r) \/ Abort(r) \/ LoseSession(r) \/ Crash(r) \/ ChangeFiles(r)

Next ==
    \/ \E r \in Runners : Step(r) \/ Environment(r)
    \/ BackendEnds
    \/ \E i \in Ids : Reconcile(i)

Spec == Init /\ [][Next]_vars

\* Every await settles: the lock wait has a deadline, SQL has statement_timeout, and
\* PostgreSQL ends a backend whose client is gone.
FairSpec == Spec /\ (\A r \in Runners : WF_vars(Step(r))) /\ WF_vars(BackendEnds)
----------------------------------------------------------------------------
(* Properties *)

\* Every variable has its type (the ledger's CHECK constraints, the pool's two
\* connections, the error kinds of errors.ts).
TypeOK ==
    /\ dir \in [Runners -> [Ids -> Versions \cup {NoFile}]]
    /\ ledger \in [Ids -> RowSet]
    /\ catalog \in [Ids -> EffectSet]
    /\ lock \in Runners \cup {NoLock, Backend}
    /\ orphan \in [at : {"none", "commit", "markcommit", "nbody", "final"},
                   down : BOOLEAN, id : Ids \cup {0}, sum : Sums \cup {"none"}]
    /\ pc \in [Runners -> AllPC]
    /\ cmd \in [Runners -> Commands \cup {"none"}]
    /\ seen \in [Runners -> [Ids -> Versions \cup {NoFile}]]
    /\ todo \in [Runners -> SUBSET Ids]
    /\ cur \in [Runners -> Ids \cup {0}]
    /\ sql \in [Runners -> Versions \cup {NoFile}]
    /\ aborted \in [Runners -> BOOLEAN]
    /\ lost \in [Runners -> BOOLEAN]
    /\ outcome \in [Runners -> [kind : Kinds, broken : BOOLEAN]]

\* A process whose session is alive and that holds, or believes it holds, the lock.
Live(r) == pc[r] \in Holding /\ ~lost[r]

\* Mutual exclusion.  No two live sessions are ever past acquireMigrationLock, and none
\* is while a backend whose client is gone can still execute what it was sent.
OneSession ==
    /\ \A r, q \in Runners : Live(r) /\ Live(q) => r = q
    /\ lock = Backend => \A r \in Runners : ~Live(r)

\* The ledger tells the truth about the database, through crashes, lost sessions and
\* retries: a migration without a row has left no trace, one with an APPLIED row took
\* effect whole and once, with the bytes the row's checksum names.
LedgerIsTruthful ==
    \A i \in Ids :
        /\ ~Recorded(i) => catalog[i] = NoEffect
        /\ ledger[i].state = Applied => catalog[i] = [sum |-> ledger[i].sum, whole |-> TRUE]

\* Nothing is ever recorded on top of a migration whose outcome is uncertain, so that
\* validateMigrationPrefix never finds an uncertain row below the last one.
DoubtIsNewest == \A i \in DirtyRows : IsLast(i)

\* `up` that is about to report UP_TO_DATE has applied every file it discovered, the
\* ledger has no row besides, and nothing is in doubt.
SuccessMeansApplied ==
    \A r \in Runners :
        pc[r] = "release" /\ lock = r /\ cmd[r] = "up" /\ outcome[r].kind = "UP_TO_DATE" =>
            \A i \in Ids : ledger[i] = IF seen[r][i] = NoFile THEN NoRow
                                      ELSE Row(Checksum[seen[r][i]], Applied)

\* A migration reported as rolled back, or as cancelled while it ran, is exactly where
\* it was before the command took it up.
RolledBackLeavesNoTrace ==
    \A r \in Runners :
        /\ pc[r] = "release" /\ lock = r /\ cur[r] # 0
        /\ outcome[r].kind \in {"ROLLED_BACK", "ABORTED"}
        => IF IsDown(r) THEN ledger[cur[r]].state = Applied /\ catalog[cur[r]].whole
           ELSE ~Recorded(cur[r]) /\ catalog[cur[r]] = NoEffect

\* A command that ends while a migration is in doubt never reports success, a clean
\* rollback or a clean cancellation.
DoubtIsReported ==
    \A r \in Runners :
        pc[r] = "release" /\ lock = r /\ DirtyRows # {} =>
            outcome[r].kind \in {"UNKNOWN_OUTCOME", "DATABASE", "INVALID_HISTORY"}

\* What a command is about to report of the migrations is what it, and the commands before it,
\* did to the database: success, a rollback, a cancellation and a doubt each mean what they say,
\* although the session may have been lost or the statement cancelled at any point.
OutcomeIsHonest == SuccessMeansApplied /\ RolledBackLeavesNoTrace /\ DoubtIsReported

\* A dry run looks at files and ledger and never gets as far as sending SQL
\* (RunMigrationsOptions.dryRun, runner.ts).
DryRunOnlyReads ==
    \A r \in Runners : cmd[r] \in {"up-dry", "down-dry"} => pc[r] \notin Writing

\* Once a nontransactional migration has ended in UNKNOWN_OUTCOME, that is what the
\* caller gets to see (pitfalls.md: losing the session or cancelling after dispatch
\* produces UNKNOWN_OUTCOME).
UnknownOutcomeReported ==
    [][\A r \in Runners :
        outcome[r].kind = "UNKNOWN_OUTCOME" /\ pc'[r] # "idle" =>
            outcome'[r].kind = "UNKNOWN_OUTCOME"]_vars

\* The runner implements the promise of MigrationHistory.  A migration is in the history
\* when its row and its effects agree that it is; its doubt is its uncertain row.
InHistory(i) ==
    IF ledger[i].state = Applied /\ catalog[i] = [sum |-> ledger[i].sum, whole |-> TRUE]
    THEN ledger[i].sum
    ELSE IF ledger[i].state = Applied \/ (~Recorded(i) /\ catalog[i] # NoEffect)
    THEN "torn"
    ELSE "none"

Doubt == {[id |-> i, sum |-> ledger[i].sum] : i \in DirtyRows}

History == INSTANCE MigrationHistory
    WITH Sums <- Sums, None <- "none", history <- [i \in Ids |-> InHistory(i)], doubt <- Doubt

ImplementsHistory == History!Spec

\* Every command that is started settles, also when its session is lost, its caller
\* cancels, or other commands come and go.
EveryCommandReports == \A r \in Runners : pc[r] # "idle" ~> pc[r] = "idle"

\* The advisory lock is never kept for ever.
LockIsFreed == []<>(lock = NoLock)
============================================================================
