--------------------------- MODULE BaselineAdoption ---------------------------
(***************************************************************************)
(* packages/codegen/src/migration/baseline.ts: adoptBaseline records that  *)
(* an existing database is what the first migration would have made.  The  *)
(* files, the catalog and the ledger change under it: a developer edits    *)
(* the files, an administrator the schema, and others adopt or migrate     *)
(* when they have the lock of the database.                                *)
(***************************************************************************)
EXTENDS Naturals, Sequences, FiniteSets

CONSTANTS Adopter,          \* processes that call adoptBaseline
          Migrator,         \* one that runs the migrations instead
          NoSession,        \* holds no lock
          MaxEdits          \* bound on changes of the files and of the catalog

\* NoSession is no process, and who migrates is no adopter.
ASSUME AdoptionAssumption == NoSession \notin Adopter /\ Migrator \notin Adopter

VARIABLES disk,             \* the baseline on disk: its id and its schema, or none when torn
          catalog,          \* the schema of the database
          ledger,           \* the rows that are committed, by whom
          holder,           \* of the advisory lock of migrations
          adopter,          \* where each adopter is, and what it has seen
          edits

adoptionVars == <<disk, catalog, ledger, holder, adopter, edits>>

Baselines == {[id |-> 1, schema |-> "a"], [id |-> 1, schema |-> "b"], [id |-> 2, schema |-> "a"]}
NewAdopter == [at |-> "idle", alive |-> TRUE, confirmation |-> 0, local |-> {}, locked |-> {}, snapshot |-> {}, result |-> "none"]

AdoptionInit ==
    /\ disk = {[id |-> 1, schema |-> "a"]} /\ catalog = "a" /\ ledger = <<>> /\ holder = NoSession
    /\ adopter = [a \in Adopter |-> NewAdopter] /\ edits = 0

-----------------------------------------------------------------------------

Advance(a, fields) == adopter' = [adopter EXCEPT ![a] = [f \in DOMAIN @ |-> IF f \in DOMAIN fields THEN fields[f] ELSE @[f]]]
Go(a, at) == Advance(a, [at |-> at])
\* A refusal: a MigrationError, after ROLLBACK where a transaction is open.
Failed(a, at) == Advance(a, [NewAdopter EXCEPT !.at = at, !.alive = adopter[a].alive, !.result = "failed"])
Refuse(a) == /\ Failed(a, "release")
             /\ UNCHANGED <<disk, catalog, ledger, holder, edits>>

\* readOnlyBaseline: one generated migration that matches the snapshot, or a refusal.
ReadOnlyBaseline == disk
\* requireSameLocalBaseline
RequireSameLocalBaseline(expected) == ReadOnlyBaseline # {} /\ ReadOnlyBaseline = expected

\* The confirmation is given with the command, for the target its author had in mind.
ReadFiles(a) ==
    /\ adopter[a].at = "idle"
    /\ \E id \in {1, 2} :
         IF ReadOnlyBaseline = {} THEN Failed(a, "done")
         ELSE Advance(a, [at |-> "lock", local |-> ReadOnlyBaseline, confirmation |-> id])
    /\ UNCHANGED <<disk, catalog, ledger, holder, edits>>

AcquireLock(a) ==
    /\ adopter[a].at = "lock" /\ holder = NoSession
    /\ holder' = a /\ Go(a, "reread")
    /\ UNCHANGED <<disk, catalog, ledger, edits>>
LockTimeout(a) ==
    /\ adopter[a].at = "lock" /\ holder # NoSession
    /\ Failed(a, "done")
    /\ UNCHANGED <<disk, catalog, ledger, holder, edits>>

Reread(a) ==
    /\ adopter[a].at = "reread"
    /\ IF RequireSameLocalBaseline(adopter[a].local)
       THEN /\ Advance(a, [at |-> "preview", locked |-> ReadOnlyBaseline])
            /\ UNCHANGED <<disk, catalog, ledger, holder, edits>>
       ELSE Refuse(a)

\* A session that is alive answers its query; else the query fails with an error of its own.
Asks(a) == adopter[a].alive
Fails(a) ==
    /\ adopter[a].at \in {"preview", "begin", "compare", "ledger", "insert", "commit", "rollback"} /\ ~Asks(a)
    /\ Failed(a, "release")
    /\ UNCHANGED <<disk, catalog, ledger, holder, edits>>

\* compareCurrentCatalog, requireCompatible; unmanaged objects do not count.
Compatible(a, schema) == \A local \in adopter[a].locked : local.schema = schema
RequireConfirmation(a) == \A local \in adopter[a].locked : adopter[a].confirmation = local.id
Preview(a) ==
    /\ adopter[a].at = "preview" /\ Asks(a)
    /\ IF Compatible(a, catalog) /\ RequireConfirmation(a)
       THEN Go(a, "begin") /\ UNCHANGED <<disk, catalog, ledger, holder, edits>>
       ELSE Refuse(a)

\* BEGIN ISOLATION LEVEL REPEATABLE READ, and the first query, which fixes what the others see.
BeginTransaction(a) ==
    /\ adopter[a].at = "begin" /\ Asks(a)
    /\ Advance(a, [at |-> "compare", snapshot |-> {[catalog |-> catalog, ledger |-> ledger]}])
    /\ UNCHANGED <<disk, catalog, ledger, holder, edits>>
Snapshot(a) == CHOOSE s \in adopter[a].snapshot : TRUE
\* Mutant of CompareAgain: what the preview showed is enough.
ComparedOnce(a) == TRUE
CompareAgain(a) == Compatible(a, Snapshot(a).catalog)
Compare(a) ==
    /\ adopter[a].at = "compare" /\ Asks(a)
    /\ IF CompareAgain(a) /\ RequireSameLocalBaseline(adopter[a].locked) THEN Go(a, "ledger") ELSE Go(a, "rollback")
    /\ UNCHANGED <<disk, catalog, ledger, holder, edits>>
ReadLedger(a) ==
    /\ adopter[a].at = "ledger" /\ Asks(a)
    /\ IF Snapshot(a).ledger = <<>> THEN Go(a, "commit") ELSE Go(a, "rollback")
    /\ UNCHANGED <<disk, catalog, ledger, holder, edits>>
RollbackTransaction(a) == adopter[a].at = "rollback" /\ Asks(a) /\ Refuse(a)

\* ensureMigrationLedger, insertAppliedMigration and COMMIT, whose answer may be lost: the ROLLBACK
\* that follows fails, and the adoption is reported as failed.
Row(a) == [by |-> a, local |-> CHOOSE local \in adopter[a].locked : TRUE]
Commit(a) ==
    /\ adopter[a].at = "commit" /\ Asks(a)
    /\ ledger' = Append(ledger, Row(a))
    /\ \/ Advance(a, [at |-> "release", result |-> "adopted"]) /\ UNCHANGED holder
       \/ Advance(a, [at |-> "release", alive |-> FALSE, result |-> "failed"]) /\ holder' = NoSession
    /\ UNCHANGED <<disk, catalog, edits>>

Release(a) ==
    /\ adopter[a].at = "release"
    /\ Go(a, "done") /\ holder' = IF holder = a THEN NoSession ELSE holder
    /\ UNCHANGED <<disk, catalog, ledger, edits>>

\* The session is lost: PostgreSQL rolls its transaction back and frees its lock.
LoseSession(a) ==
    /\ adopter[a].at \notin {"idle", "lock", "release", "done"} /\ adopter[a].alive
    /\ Advance(a, [alive |-> FALSE])
    /\ holder' = IF holder = a THEN NoSession ELSE holder
    /\ UNCHANGED <<disk, catalog, ledger, edits>>

-----------------------------------------------------------------------------
(* The others.                                                             *)

EditFiles ==
    /\ edits < MaxEdits /\ edits' = edits + 1
    /\ disk' \in {{}} \cup {{b} : b \in Baselines} /\ disk' # disk
    /\ UNCHANGED <<catalog, ledger, holder, adopter>>
ChangeSchema ==
    /\ edits < MaxEdits /\ edits' = edits + 1
    /\ catalog' \in {"a", "b"} \ {catalog}
    /\ UNCHANGED <<disk, ledger, holder, adopter>>
\* runMigrations: applies the baseline to a database without it.
Migrate ==
    /\ holder = NoSession /\ ledger = <<>> /\ disk # {}
    /\ ledger' = <<[by |-> Migrator, local |-> CHOOSE b \in disk : TRUE]>>
    /\ UNCHANGED <<disk, catalog, holder, adopter, edits>>

AdoptionNext ==
    \/ \E a \in Adopter :
          \/ ReadFiles(a) \/ AcquireLock(a) \/ LockTimeout(a) \/ Reread(a) \/ Fails(a) \/ Preview(a) \/ BeginTransaction(a)
          \/ Compare(a) \/ ReadLedger(a) \/ RollbackTransaction(a) \/ Commit(a) \/ Release(a) \/ LoseSession(a)
    \/ EditFiles \/ ChangeSchema \/ Migrate

-----------------------------------------------------------------------------

\* api.md:1803, "Proves supported catalog equality against the desired snapshot and records the
\* initial lineage row": whoever interferes, a database has one baseline; the row of an adoption is of
\* the files that its author confirmed, and the schema of these is that of the database in the
\* snapshot in which the ledger was empty.  Who reports an adoption has made one, and who reports a
\* failure has not, unless the answer to its COMMIT was lost.
AdoptionIsProved ==
    /\ Len(ledger) <= 1
    /\ \A i \in DOMAIN ledger : LET a == ledger[i].by
         IN a \in Adopter =>
              /\ ledger[i].local.id = adopter[a].confirmation
              /\ adopter[a].local = {ledger[i].local}
              /\ adopter[a].snapshot = {[catalog |-> ledger[i].local.schema, ledger |-> <<>>]}
              /\ adopter[a].result = "failed" => ~adopter[a].alive
    /\ \A a \in Adopter : adopter[a].result = "adopted" => \E i \in DOMAIN ledger : ledger[i].by = a
=============================================================================
