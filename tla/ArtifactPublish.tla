---------------------------- MODULE ArtifactPublish ----------------------------
(***************************************************************************)
(* `migrate generate` and `migrate baseline` (generate.ts): commands that  *)
(* compare the wanted schema with schema.snapshot.json and publish a new   *)
(* migration file together with the new snapshot (artifact-writer.ts).     *)
(* Nothing locks the directory: the commands only read it, one file after  *)
(* the other, and check the lineage that the headers record                *)
(* (migration-file.ts). A snapshot stands for its bytes and their hash.    *)
(***************************************************************************)
EXTENDS Naturals, FiniteSets

CONSTANTS
    Commands,   \* processes, each runs one command
    Ids,        \* <timestamp>_<name>, in the order of the file names
    Schemas,    \* what a snapshot may say
    Empty,      \* the snapshot of a schema without tables
    Missing,    \* no snapshot file; also `none` in a header
    Absent      \* no such migration file

Migrations == [from : Schemas \cup {Missing}, to : Schemas, by : Commands]

ASSUME ArtifactAssumption ==
    /\ Ids \subseteq Nat
    /\ Empty \in Schemas
    /\ Missing \notin Schemas
    /\ Absent \notin Migrations

VARIABLES
    files,      \* the migrations of the directory
    snapshot,   \* schema.snapshot.json
    pc,         \* what a command does next
    baseline,   \* generateBaseline rather than generateMigration
    desired,    \* the schema a command wants
    prior,      \* the snapshot it has read
    unread,     \* the migrations it has listed and not parsed yet
    seen,       \* the migrations it has parsed
    id,         \* the identifier of its migration, 0 before it has one
    outcome,
    overlapped  \* history variable: two commands ran at the same time

vars == <<files, snapshot, pc, baseline, desired, prior, unread, seen, id, outcome,
          overlapped>>
directory == <<files, snapshot>>
command == <<baseline, desired, prior, unread, seen, id>>

\* mutant: the two hashes of the header are exchanged
MigrationSwapped(c) == [from |-> desired[c], to |-> prior[c], by |-> c]

Migration(c) == [from |-> prior[c], to |-> desired[c], by |-> c]
Present(f) == {i \in Ids : f[i] # Absent}
Running == {c \in Commands : pc[c] \notin {"idle", "ended"}}

Newest(S, i) == i \in S /\ \A j \in S : j <= i
Before(S, i) == {j \in S : j < i}
Continues(f, S, i) == \E j \in S : Newest(Before(S, i), j) /\ f[j].to = f[i].from
----------------------------------------------------------------------------
(* What discoverMigrations checks *)

\* mutant: a migration that starts from nothing is never disconnected
ConnectedOrNew(f, S) ==
    \A i \in S : Before(S, i) # {} => f[i].from = Missing \/ Continues(f, S, i)

Connected(f, S) == \A i \in S : Before(S, i) # {} => Continues(f, S, i)
Torn(f, S, s) == \E i \in S : Newest(S, i) /\ f[i].to # s

Accepted == Connected(files, Present(files)) /\ ~Torn(files, Present(files), snapshot)
----------------------------------------------------------------------------
Init ==
    /\ files = [i \in Ids |-> Absent]
    /\ snapshot = Missing
    /\ pc = [c \in Commands |-> "idle"]
    /\ baseline = [c \in Commands |-> FALSE]
    /\ desired = [c \in Commands |-> Empty]
    /\ prior = [c \in Commands |-> Missing]
    /\ unread = [c \in Commands |-> {}]
    /\ seen = [c \in Commands |-> [i \in Ids |-> Absent]]
    /\ id = [c \in Commands |-> 0]
    /\ outcome = [c \in Commands |-> "none"]
    /\ overlapped = FALSE

Goto(c, p) ==
    /\ pc' = [pc EXCEPT ![c] = p]
    /\ UNCHANGED <<outcome, overlapped>>

End(c, result) ==
    /\ pc' = [pc EXCEPT ![c] = "ended"]
    /\ outcome' = [outcome EXCEPT ![c] = result]
    /\ UNCHANGED overlapped

Start(c, s, b) ==
    /\ pc[c] = "idle"
    /\ pc' = [pc EXCEPT ![c] = "prior"]
    /\ desired' = [desired EXCEPT ![c] = s]
    /\ baseline' = [baseline EXCEPT ![c] = b]
    /\ overlapped' = (overlapped \/ Running # {})
    /\ UNCHANGED <<directory, prior, unread, seen, id, outcome>>

ReadPrior(c) ==
    /\ pc[c] = "prior"
    /\ prior' = [prior EXCEPT ![c] = snapshot]
    /\ Goto(c, "list")
    /\ UNCHANGED <<directory, baseline, desired, unread, seen, id>>

List(c) ==
    /\ pc[c] = "list"
    /\ unread' = [unread EXCEPT ![c] = Present(files)]
    /\ Goto(c, "parse")
    /\ UNCHANGED <<directory, baseline, desired, prior, seen, id>>

\* One file after the other, in the order the system lists them: a listed file may be gone,
\* or be another one, when it is read.
Parse(c, i) ==
    /\ pc[c] = "parse" /\ i \in unread[c]
    /\ unread' = [unread EXCEPT ![c] = @ \ {i}]
    /\ IF files[i] # Absent
       THEN /\ seen' = [seen EXCEPT ![c][i] = files[i]]
            /\ Goto(c, "parse")
       ELSE /\ UNCHANGED seen
            /\ End(c, "refused")
    /\ UNCHANGED <<directory, baseline, desired, prior, id>>

Validate(c) ==
    /\ pc[c] = "parse" /\ unread[c] = {}
    /\ IF Connected(seen[c], Present(seen[c])) THEN Goto(c, "check") ELSE End(c, "refused")
    /\ UNCHANGED <<directory, command>>

\* mutant: the lineage is not compared with the snapshot
PermitsUnvalidated(c) ==
    IF prior[c] = Missing THEN Present(seen[c]) = {} ELSE ~baseline[c]

\* the lineage check and the two checks that follow it in generateMigrationArtifacts
HistoryPermits(c) ==
    IF prior[c] = Missing
    THEN Present(seen[c]) = {}
    ELSE ~baseline[c] /\ ~Torn(seen[c], Present(seen[c]), snapshot)

UpToDate(c) ==
    ~baseline[c] /\ desired[c] = (IF prior[c] = Missing THEN Empty ELSE prior[c])

\* mutant: any unused identifier will do
FollowsAny(c, i) == i \notin Present(seen[c])

FollowsHistory(c, i) == \A j \in Present(seen[c]) : j < i

Plan(c, i) ==
    /\ pc[c] = "check"
    /\ IF HistoryPermits(c) /\ ~UpToDate(c) /\ FollowsHistory(c, i)
       THEN /\ id' = [id EXCEPT ![c] = i]
            /\ Goto(c, "target")
       ELSE /\ UNCHANGED id
            /\ End(c, IF HistoryPermits(c) /\ UpToDate(c) THEN "uptodate" ELSE "refused")
    /\ UNCHANGED <<directory, baseline, desired, prior, unread, seen>>

\* renderMigrationSql refuses the changes, or assertSafeTargets the paths
Unsafe(c) ==
    /\ pc[c] = "target"
    /\ End(c, "refused")
    /\ UNCHANGED <<directory, command>>

Target(c) ==
    /\ pc[c] = "target"
    /\ files[id[c]] = Absent
    /\ Goto(c, "write")
    /\ UNCHANGED <<directory, command>>

\* The private files have names that discovery skips: only what becomes of them matters.
Write(c) ==
    /\ pc[c] = "write"
    /\ \E p \in {"link", "undo"} : Goto(c, p)
    /\ UNCHANGED <<directory, command>>

Link(c) ==
    /\ pc[c] = "link"
    /\ IF files[id[c]] = Absent
       THEN /\ files' = [files EXCEPT ![id[c]] = Migration(c)]
            /\ Goto(c, "rename")
       ELSE /\ UNCHANGED files
            /\ Goto(c, "undo")
    /\ UNCHANGED <<snapshot, command>>

Rename(c) ==
    /\ pc[c] = "rename"
    /\ snapshot' = desired[c]
    /\ End(c, "generated")
    /\ UNCHANGED <<files, command>>

\* mutant: the private migration is removed after the snapshot was replaced
RenameFailsLate(c) ==
    /\ pc[c] = "rename"
    /\ snapshot' = desired[c]
    /\ Goto(c, "undo")
    /\ UNCHANGED <<files, command>>

\* the private migration cannot be removed, or the snapshot not be replaced
RenameFails(c) ==
    /\ pc[c] = "rename"
    /\ Goto(c, "undo")
    /\ UNCHANGED <<directory, command>>

\* mutant: what bears the name is removed, whoever made it
UndoByName(c) ==
    /\ pc[c] = "undo"
    /\ files' = [files EXCEPT ![id[c]] = Absent]
    /\ End(c, "failed")
    /\ UNCHANGED <<snapshot, command>>

\* Only the inode this command has linked is removed, and that may fail, too.
Undo(c) ==
    /\ pc[c] = "undo"
    /\ \/ /\ files[id[c]] # Absent
          /\ files[id[c]].by = c
          /\ files' = [files EXCEPT ![id[c]] = Absent]
       \/ UNCHANGED files
    /\ End(c, "failed")
    /\ UNCHANGED <<snapshot, command>>

Crash(c) ==
    /\ c \in Running
    /\ End(c, "crashed")
    /\ UNCHANGED <<directory, command>>

\* Someone follows "Remove the orphan migration", while no command runs.
RemoveOrphan ==
    /\ Running = {}
    /\ Connected(files, Present(files))
    /\ \E i \in Ids :
        /\ Newest(Present(files), i)
        /\ files[i].to # snapshot
        /\ files' = [files EXCEPT ![i] = Absent]
    /\ UNCHANGED <<snapshot, command, pc, outcome, overlapped>>

Step(c) ==
    \/ ReadPrior(c) \/ List(c) \/ Validate(c)
    \/ \E i \in Ids : Parse(c, i) \/ Plan(c, i)
    \/ Unsafe(c) \/ Target(c) \/ Write(c) \/ Link(c)
    \/ Rename(c) \/ RenameFails(c) \/ Undo(c)

Next ==
    \/ \E c \in Commands :
        \/ \E s \in Schemas, b \in BOOLEAN : Start(c, s, b)
        \/ Step(c)
        \/ Crash(c)
    \/ RemoveOrphan

Spec == Init /\ [][Next]_vars
----------------------------------------------------------------------------
(* The migrations S, in the order of their identifiers, lead from nothing to s. *)
Leads(f, S, s) ==
    /\ \A i \in S : IF Before(S, i) = {} THEN f[i].from = Missing ELSE Continues(f, S, i)
    /\ IF S = {} THEN s = Missing ELSE \E i \in S : Newest(S, i) /\ f[i].to = s

Published == {i \in Present(files) : outcome[files[i].by] = "generated"}
Whole == Leads(files, Present(files), snapshot)

\* Types of the variables.
TypeOK ==
    /\ files \in [Ids -> Migrations \cup {Absent}]
    /\ snapshot \in Schemas \cup {Missing}
    /\ pc \in [Commands -> {"idle", "prior", "list", "parse", "check", "target", "write",
                            "link", "rename", "undo", "ended"}]
    /\ baseline \in [Commands -> BOOLEAN]
    /\ desired \in [Commands -> Schemas]
    /\ prior \in [Commands -> Schemas \cup {Missing}]
    /\ unread \in [Commands -> SUBSET Ids]
    /\ seen \in [Commands -> [Ids -> Migrations \cup {Absent}]]
    /\ id \in [Commands -> Ids \cup {0}]
    /\ outcome \in [Commands -> {"none", "refused", "uptodate", "generated", "failed", "crashed"}]
    /\ overlapped \in BOOLEAN

\* Whatever commands overlap, fail or crash, and whatever orphans are removed, the
\* directory holds migrations that lead from nothing to the snapshot, all of them
\* published by commands that reported GENERATED: the migration is linked before the
\* snapshot is replaced, under an identifier above all that led to the prior one.
SnapshotReachable == \E S \in SUBSET Published : Leads(files, S, snapshot)

\* A directory that discoverMigrations accepts leads from nothing to the snapshot,
\* though it never looks at where the first migration starts.
AcceptedIsWhole == Accepted => Whole

\* As long as no two commands have run at the same time, crashes and failed clean-ups
\* leave at worst a torn lineage, for which the error names a repair, and never a
\* disconnected one.
CrashOnlyTears == ~overlapped => Connected(files, Present(files))

\* A migration that was published stays, unless it is removed as the orphan it looks
\* like: no command's rollback removes what another command has linked.
RollbackIsOwn ==
    [][\A i \in Published : files'[i] = files[i] \/ Torn(files, Present(files), snapshot)]_vars

\* A lineage that is not disconnected can be mended as the message for torn ones says:
\* without some of the newest migrations it leads from nothing to the snapshot.
TornIsRepairable ==
    Connected(files, Present(files)) =>
        \E S \in SUBSET Present(files) :
            /\ \A i \in S : Before(Present(files), i) \subseteq S
            /\ Leads(files, S, snapshot)
=============================================================================
