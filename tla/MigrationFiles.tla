---------------------------- MODULE MigrationFiles ----------------------------
(***************************************************************************)
(* packages/codegen/src/migration: what a migration file may contain, how  *)
(* the files of a directory become a history, where the configuration may  *)
(* point, and what the command line answers.                               *)
(***************************************************************************)
EXTENDS Integers, Sequences, FiniteSets, SequencesExt

-----------------------------------------------------------------------------
(* migration-file.ts: scanSql.  A text is a sequence of characters, where  *)
(* a word that matters, in any case, counts as one; nl ends a line.        *)

Blanks == {"sp", "nl"}
Commands1 == {"ABORT", "BEGIN", "COMMIT", "END", "ROLLBACK", "SAVEPOINT", "RELEASE"}
Commands2 == {"PREPARE", "SET", "START"}        \* before TRANSACTION
Letters == Commands1 \cup Commands2 \cup {"TRANSACTION", "SELECT", "E", "U", "B", "t"}
Digits == {"1"}

\* A place after the text is "end".
Char(sql, i) == IF i \in DOMAIN sql THEN sql[i] ELSE "end"
Starts(sql, i, with) == \A k \in DOMAIN with : Char(sql, i + k - 1) = with[k]
\* Where the scan of something ends: none, when it does not.
Nowhere == 0

RECURSIVE ScanBlockComment(_, _, _)
ScanBlockComment(sql, i, depth) ==
    CASE depth = 0 -> i
      [] i > Len(sql) -> Nowhere
      [] Starts(sql, i, <<"/", "*">>) -> ScanBlockComment(sql, i + 2, depth + 1)
      [] Starts(sql, i, <<"*", "/">>) -> ScanBlockComment(sql, i + 2, depth - 1)
      [] OTHER -> ScanBlockComment(sql, i + 1, depth)

\* Mutant of ScanQuoted: a doubled quote ends the string.
RECURSIVE ScanToQuote(_, _, _, _)
ScanToQuote(sql, i, quote, backslashEscapes) ==
    CASE i > Len(sql) -> Nowhere
      [] sql[i] = quote -> i + 1
      [] OTHER -> ScanToQuote(sql, i + 1, quote, backslashEscapes)
\* From after the opening quote.
RECURSIVE ScanQuoted(_, _, _, _)
ScanQuoted(sql, i, quote, backslashEscapes) ==
    CASE i > Len(sql) -> Nowhere
      [] backslashEscapes /\ sql[i] = "\\" -> ScanQuoted(sql, i + 2, quote, backslashEscapes)
      [] sql[i] = quote /\ Char(sql, i + 1) = quote -> ScanQuoted(sql, i + 2, quote, backslashEscapes)
      [] sql[i] = quote -> i + 1
      [] OTHER -> ScanQuoted(sql, i + 1, quote, backslashEscapes)

QuotedStringPrefix(sql, i) ==
    CASE Char(sql, i - 1) \in Letters \cup Digits \cup {"$"} -> {}
      [] Starts(sql, i, <<"E", "'">>) -> {[length |-> 1, backslashEscapes |-> TRUE]}
      [] Starts(sql, i, <<"U", "&", "'">>) -> {[length |-> 2, backslashEscapes |-> FALSE]}
      [] Starts(sql, i, <<"B", "'">>) -> {[length |-> 1, backslashEscapes |-> FALSE]}
      [] OTHER -> {}

\* The end of $$...$$ or $tag$...$tag$: {} when there is no such tag at i.
ScanDollarQuote(sql, i) ==
    LET tags == {j \in (i + 1)..Len(sql) : sql[j] = "$" /\ \A k \in (i + 1)..(j - 1) :
                    sql[k] \in Letters \cup (IF k = i + 1 THEN {} ELSE Digits)}
    IN {LET tag == SubSeq(sql, i, j)
            closed == {k \in (j + 1)..Len(sql) : Starts(sql, k, tag)}
        IN IF closed = {} THEN Nowhere ELSE (CHOOSE k \in closed : \A l \in closed : k <= l) + Len(tag) : j \in tags}

RECURSIVE WordEnd(_, _)
WordEnd(sql, i) == IF Char(sql, i) \in Letters \cup Digits \cup {"$"} THEN WordEnd(sql, i + 1) ELSE i
LineEnd(sql, i) ==
    LET ends == {j \in i..Len(sql) : sql[j] = "nl"}
    IN IF ends = {} THEN Len(sql) + 1 ELSE (CHOOSE j \in ends : \A k \in ends : j <= k) + 1

NoToken == [hasToken |-> FALSE, statementStart |-> TRUE, pendingSecondWord |-> FALSE, outcome |-> "read"]
Fails(s, outcome) == [s EXCEPT !.outcome = outcome]
AcceptToken(s, word, reject) ==
    LET controls == IF s.pendingSecondWord THEN word = "TRANSACTION" ELSE s.statementStart /\ word \in Commands1
    IN IF controls /\ reject THEN Fails(s, "controls")
       ELSE [s EXCEPT !.hasToken = TRUE, !.statementStart = FALSE,
                      !.pendingSecondWord = ~@ /\ s.statementStart /\ word \in Commands2]

RECURSIVE ScanFrom(_, _, _, _)
\* Goes on at next after a token, unless the token never ends.
ScanAfter(sql, next, s, word, reject) ==
    IF next = Nowhere THEN Fails(s, "unterminated") ELSE ScanFrom(sql, next, AcceptToken(s, word, reject), reject)
ScanFrom(sql, i, s, reject) ==
    LET c == Char(sql, i)
        prefix == QuotedStringPrefix(sql, i)
        dollar == IF c = "$" THEN ScanDollarQuote(sql, i) ELSE {}
    IN CASE s.outcome # "read" \/ i > Len(sql) -> s
         [] c \in Blanks -> ScanFrom(sql, i + 1, s, reject)
         [] Starts(sql, i, <<"-", "-">>) -> ScanFrom(sql, LineEnd(sql, i + 2), s, reject)
         [] Starts(sql, i, <<"/", "*">>) ->
                LET next == ScanBlockComment(sql, i + 2, 1)
                IN IF next = Nowhere THEN Fails(s, "unterminated") ELSE ScanFrom(sql, next, s, reject)
         [] c = ";" -> ScanFrom(sql, i + 1, [s EXCEPT !.statementStart = TRUE, !.pendingSecondWord = FALSE], reject)
         [] prefix # {} ->
                LET p == CHOOSE x \in prefix : TRUE
                IN ScanAfter(sql, ScanQuoted(sql, i + p.length + 1, "'", p.backslashEscapes), s, "", reject)
         [] c \in {"'", "\""} -> ScanAfter(sql, ScanQuoted(sql, i + 1, c, FALSE), s, "", reject)
         [] dollar # {} -> ScanAfter(sql, CHOOSE n \in dollar : TRUE, s, "", reject)
         [] c \in Letters ->
                LET next == WordEnd(sql, i) IN ScanAfter(sql, next, s, IF next = i + 1 THEN c ELSE "", reject)
         [] OTHER -> ScanAfter(sql, i + 1, s, "", reject)
ScanSql(sql, reject) == ScanFrom(sql, 1, NoToken, reject)

-----------------------------------------------------------------------------
(* A text by its lexemes: what PostgreSQL sees in it (external).  A lexeme *)
(* has its kind, the characters inside, and what opens and closes it.      *)

Lexeme(kind, open, inside, close) == [kind |-> kind, text |-> open \o inside \o close, close |-> close]
TextOf(lexemes) == FoldLeft(LAMBDA t, l : t \o (IF l.kind = "semicolon" THEN <<>> ELSE <<"sp">>) \o l.text, <<>>, lexemes)
Statements(lexemes) ==
    LET seen == SelectSeq(lexemes, LAMBDA l : l.kind # "comment")
        ends == {i \in DOMAIN seen : seen[i].kind = "semicolon"}
        starts == {0} \cup ends
    IN {SubSeq(seen, i + 1, (CHOOSE j \in ends \cup {Len(seen) + 1} : j > i /\ \A k \in ends : k > i => j <= k) - 1) : i \in starts}
Controls(statement) ==
    /\ statement # <<>> /\ statement[1].kind = "word"
    /\ \/ statement[1].text[1] \in Commands1
       \/ /\ statement[1].text[1] \in Commands2 /\ Len(statement) > 1
          /\ statement[2].kind = "word" /\ statement[2].text[1] = "TRANSACTION"

\* migration-file.ts:192-204, "Rejects transaction-control commands while ignoring comments and
\* quoted SQL": a file is refused for a transaction when and only when one of its statements begins
\* or ends one, whatever its comments and strings contain, it has a body when it has a token, and a
\* comment or a string that is cut off is noticed.
ScanSeesStatements(lexemes) ==
    LET controls == \E statement \in Statements(lexemes) : Controls(statement)
        tokens == \E i \in DOMAIN lexemes : lexemes[i].kind \notin {"comment", "semicolon"}
        last == lexemes[Len(lexemes)]
        cut == TextOf(lexemes)
    IN /\ ScanSql(TextOf(lexemes), TRUE).outcome = IF controls THEN "controls" ELSE "read"
       /\ \A s \in {ScanSql(TextOf(lexemes), FALSE)} : s.outcome = "read" /\ s.hasToken = tokens
       /\ lexemes # <<>> /\ last.close # <<>> /\ last.close # <<"nl">> =>
            ScanSql(SubSeq(cut, 1, Len(cut) - 1), FALSE).outcome = "unterminated"

-----------------------------------------------------------------------------
(* migration-file.ts: files and directories.  A name is odd when it ends   *)
(* in .sql and no more; a file is its encoding, the values of its header   *)
(* and its lexemes.  An id is <<time, slug>>, in the order of the texts; a *)
(* hash is {} for none.                                                    *)

Name(id, direction) == [form |-> "migration", id |-> id, direction |-> direction]
File(id, transactional, from, to, body) ==
    [encoding |-> "utf-8", version |-> 1, id |-> id, transactional |-> transactional, from |-> from, to |-> to, body |-> body]
Select1 == <<Lexeme("comment", <<"-", "-">>, <<>>, <<"nl">>), Lexeme("word", <<"SELECT">>, <<>>, <<>>)>>
ManualTemplate(id, transactional) == File(id, transactional, {}, {}, Select1)

\* The body is scanned once to find a token, and again for a transaction, which sees more to refuse.
ParseHeader(file, id) == file.version = 1 /\ file.id = id
ParseMigrationBytes(name, file) ==
    /\ name.form = "migration" /\ file.encoding = "utf-8" /\ ParseHeader(file, name.id)
    /\ \A s \in {ScanSql(TextOf(file.body), file.transactional)} : s.outcome = "read" /\ s.hasToken

\* An entry is a name with a file, or with something else of that name.
Entry(name, file) == [name |-> name, regular |-> TRUE, file |-> file]
FileAt(dir, id, direction) == {e.file : e \in {x \in dir : x.name = Name(id, direction)}}

Before(a, b) == a[1] < b[1] \/ (a[1] = b[1] /\ a[2] <= b[2])
Descriptor(dir, id) ==
    LET up == CHOOSE f \in FileAt(dir, id, "up") : TRUE
    IN [id |-> id, up |-> up, down |-> FileAt(dir, id, "down"), from |-> up.from, to |-> up.to]

ValidateDownLineage(d) == \A down \in d.down : down.from = d.to /\ down.to = d.from
Generated(descriptors) == SelectSeq(descriptors, LAMBDA d : d.from # {} \/ d.to # {})
ValidateGeneratedLineage(descriptors) ==
    LET generated == Generated(descriptors)
    IN \A i \in DOMAIN generated : generated[i].to # {} /\ (i > 1 => generated[i].from = generated[i - 1].to)
\* snapshot is {} without a file.
ValidateSnapshotLineage(descriptors, snapshot) ==
    LET generated == SelectSeq(descriptors, LAMBDA d : d.to # {})
    IN generated # <<>> => snapshot = generated[Len(generated)].to

Refused == <<[refused |-> TRUE]>>
DiscoverMigrations(dir, snapshot) ==
    LET ids == {e.name.id : e \in dir}
        descriptors == [i \in 1..Cardinality(ids) |->
                          Descriptor(dir, CHOOSE id \in ids : Cardinality({j \in ids : Before(j, id)}) = i)]
    IN IF \E e \in dir : ~e.regular \/ ~ParseMigrationBytes(e.name, e.file) THEN Refused
       ELSE IF \E id \in ids : FileAt(dir, id, "up") = {} THEN Refused
       ELSE IF \E i \in DOMAIN descriptors : ~ValidateDownLineage(descriptors[i]) THEN Refused
       ELSE IF ~ValidateGeneratedLineage(descriptors) \/ ~ValidateSnapshotLineage(descriptors, snapshot) THEN Refused
       ELSE descriptors

\* Files are created only where nothing is; when the second fails the first is taken away again.
CreateManualMigration(dir, id, withDown, transactional) ==
    LET Taken(direction) == \E e \in dir : e.name = Name(id, direction)
        New(direction) == Entry(Name(id, direction), ManualTemplate(id, transactional))
    IN IF Taken("up") \/ (withDown /\ Taken("down")) THEN dir
       ELSE dir \cup {New("up")} \cup {New(x) : x \in {y \in {"down"} : withDown}}

Accepted(dir, snapshot) == DiscoverMigrations(dir, snapshot) # Refused
\* What is accepted is one line of snapshots that ends at the snapshot on disk and that the files for
\* going down retrace; no file is left out of it; losing any generated migration but the first, or
\* the snapshot, is noticed, and so is a file that is not one; a manual migration joins a history
\* without disturbing it, and creating one that exists changes nothing.
HistoryIsAccounted(dir, snapshot, id) ==
    /\ \A history \in {h \in {DiscoverMigrations(dir, snapshot)} : h # Refused} :
         /\ \A e \in dir : \E i \in DOMAIN history : history[i].id = e.name.id /\ e.file \in {history[i].up} \cup history[i].down
         /\ \A i, j \in DOMAIN history : i < j => Before(history[i].id, history[j].id) /\ history[i].id # history[j].id
         /\ \A generated \in {Generated(history)} : generated # <<>> =>
              /\ snapshot = generated[Len(generated)].to /\ ~Accepted(dir, {})
              /\ \A i \in 2..Len(generated) :
                   /\ ~Accepted({e \in dir : e.name.id # generated[i].id}, snapshot)
                   /\ \A down \in generated[i].down : down.to = generated[i - 1].to
         /\ \A withDown \in BOOLEAN : \A more \in {CreateManualMigration(dir, id, withDown, ~withDown)} :
              /\ \A with \in {DiscoverMigrations(more, snapshot)} : with # Refused /\ Generated(with) = Generated(history)
              /\ (\E e \in dir : e.name = Name(id, "up")) <=> more = dir
         /\ ~Accepted(dir \cup {[Entry(Name(id, "down"), ManualTemplate(id, TRUE)) EXCEPT !.name.form = "odd"]}, snapshot)
    /\ \A withDown \in BOOLEAN : \A more \in {CreateManualMigration(dir, id, withDown, TRUE)} :
         dir \subseteq more /\ \A e, f \in more : e.name = f.name => e = f \/ {e, f} \subseteq dir

-----------------------------------------------------------------------------
(* config.ts.  A path is a sequence of names; fs gives what is there, a    *)
(* "file", a "directory" or a "link"; a configured path is absolute or not,*)
(* with ".." among its names.                                              *)

PathKind(fs, path) == IF path \in DOMAIN fs THEN fs[path] ELSE "missing"
NotFound == <<"not found">>

RECURSIVE SearchParents(_, _)
SearchParents(fs, directory) ==
    LET candidate == Append(directory, "config")
    IN CASE PathKind(fs, candidate) = "file" -> candidate
         [] PathKind(fs, candidate) = "link" \/ directory = <<>> -> NotFound
         [] OTHER -> SearchParents(fs, Front(directory))
FindMigrationConfig(fs, explicit, start) ==
    IF explicit = {} THEN SearchParents(fs, start)
    ELSE LET path == CHOOSE p \in explicit : TRUE
         IN CASE PathKind(fs, path) = "file" -> path
              [] PathKind(fs, path) = "directory" -> SearchParents(fs, path)
              [] OTHER -> NotFound

\* From boundary, or from the root, to path.
RejectSymlinkSegments(fs, path, boundary) == \A n \in Len(boundary)..Len(path) : PathKind(fs, SubSeq(path, 1, n)) # "link"
Resolved(directory, path) ==
    FoldLeft(LAMBDA at, name : IF name # ".." THEN Append(at, name) ELSE IF at = <<>> THEN at ELSE Front(at),
             IF path.absolute THEN <<>> ELSE directory, path.names)
Inside(path, directory) == IsPrefix(directory, path)
ResolveConfiguredPath(fs, path, directory) ==
    LET at == Resolved(directory, path)
    IN IF ~path.absolute /\ ~Inside(at, directory) THEN NotFound
       ELSE IF at = <<>> THEN NotFound
       ELSE IF ~RejectSymlinkSegments(fs, at, IF path.absolute THEN <<>> ELSE directory) THEN NotFound ELSE at

\* Names of migration files, which the snapshot may not have.
MigrationNames == {"1.up.sql"}
AllowedKeys == {"schema", "migrationsDir", "snapshotFile", "lockTimeoutMs"}
MaxLockTimeoutMs == 3
ValidateConfigObject(config) ==
    DOMAIN config \subseteq AllowedKeys /\ ("lockTimeoutMs" \in DOMAIN config => config["lockTimeoutMs"] \in 1..MaxLockTimeoutMs)

LoadMigrationConfig(fs, command, config, explicit, start) ==
    LET path == FindMigrationConfig(fs, explicit, start)
        directory == Front(path)
        At(key, default) == ResolveConfiguredPath(fs, IF key \in DOMAIN config THEN config[key] ELSE default, directory)
        migrations == At("migrationsDir", [absolute |-> FALSE, names |-> <<"migrations">>])
        snapshot == At("snapshotFile", [absolute |-> TRUE, names |-> Append(migrations, "snapshot")])
        schema == IF "schema" \in DOMAIN config THEN At("schema", config["schema"]) ELSE <<>>
    IN IF path = NotFound THEN {}
       ELSE IF ~RejectSymlinkSegments(fs, path, <<>>) \/ ~ValidateConfigObject(config) THEN {}
       ELSE IF NotFound \in {migrations, schema} THEN {}
       ELSE IF snapshot = NotFound \/ (command \in {"generate", "baseline", "adopt-baseline"} /\ schema = <<>>) THEN {}
       ELSE IF Last(snapshot) \in MigrationNames THEN {}
       ELSE {[directory |-> directory, migrationsDir |-> migrations, snapshotFile |-> snapshot, schema |-> schema]}

\* A configuration that is accepted is the nearest one, nothing that it names relative to itself is
\* outside its directory, no link leads elsewhere, and its snapshot hides no migration.
ConfigStaysInside(fs, command, config, explicit, start) ==
    \A c \in LoadMigrationConfig(fs, command, config, explicit, start) :
        /\ PathKind(fs, c.directory) # "link"
        /\ explicit = {} => /\ Inside(start, c.directory)
                            /\ \A n \in (Len(c.directory) + 1)..Len(start) :
                                 PathKind(fs, Append(SubSeq(start, 1, n), "config")) \notin {"file", "link"}
        /\ \A key \in DOMAIN config \cap {"schema", "migrationsDir", "snapshotFile"} :
             ~config[key].absolute => Inside(c[key], c.directory)
        /\ \A path \in {c.migrationsDir, c.snapshotFile} : \A n \in 1..Len(path) : PathKind(fs, SubSeq(path, 1, n)) # "link"
        /\ command = "generate" => c.schema # <<>>
        /\ Front(c.snapshotFile) = c.migrationsDir => Last(c.snapshotFile) \notin MigrationNames

-----------------------------------------------------------------------------
(* cli.ts.  After "migrate" and the action comes a word or an option; what *)
(* the parser makes of the options is an input, and what the operation     *)
(* answers is a status or an error.                                        *)

NeedsName == {"generate", "create", "baseline"}
Actions == NeedsName \cup {"up", "down", "status", "validate", "adopt-baseline"}
\* argv: the action, the words that follow, whether help is asked for.
ParseRoute(argv) ==
    LET word == argv.words # <<>>
        needs == argv.action \in NeedsName
    IN IF argv.action \notin Actions \/ (needs /\ ~argv.help /\ ~word) \/ (~needs /\ word) THEN {}
       ELSE {[action |-> argv.action, name |-> IF word THEN {argv.words[1]} ELSE {}, rest |-> IF word THEN Tail(argv.words) ELSE <<>>]}
\* "from=to" by its parts.
RenameHint(parts) == IF Len(parts) # 2 \/ "" \in ToSet(parts) THEN {} ELSE {[from |-> parts[1], to |-> parts[2]]}

WriteResult(status) == IF status \in {"INVALID_HISTORY", "LOCKED", "UNKNOWN_OUTCOME"} THEN 1 ELSE 0
Ran(exit, name, hints) == [exit |-> exit, ran |-> TRUE, name |-> name, hints |-> hints]
Usage == [exit |-> 2, ran |-> FALSE, name |-> {}, hints |-> <<>>]
Main(argv, valid, answer) ==
    LET route == ParseRoute(argv)
        r == CHOOSE x \in route : TRUE
        hints == IF r.action = "generate" THEN [i \in DOMAIN argv.hints |-> RenameHint(argv.hints[i])] ELSE <<>>
    IN CASE route = {} -> Usage
         [] argv.help -> [Usage EXCEPT !.exit = 0]
         [] r.rest # <<>> \/ ~valid -> Usage
         [] {} \in ToSet(hints) -> Usage
         [] answer.error # "" -> Ran(IF answer.error = "CONFIGURATION" THEN 2 ELSE 1, r.name, hints)
         [] r.action \in {"status", "validate", "up", "down"} -> Ran(WriteResult(answer.status), r.name, hints)
         [] OTHER -> Ran(0, r.name, hints)

\* cli.ts:420, "Exit codes: 0 success, 1 operational failure, 2 usage or configuration failure": a
\* command answers 0 when it did what it was asked and never when its operation failed or reported a
\* history that cannot be trusted; nothing runs with a name or a hint that was not given whole.
ExitTellsOutcome(argv, valid, answer) ==
    LET done == Main(argv, valid, answer)
    IN /\ done.exit = 0 /\ done.ran => answer.error = "" /\ (argv.action \in {"status", "validate", "up", "down"} =>
                                                            answer.status \in {"UP_TO_DATE", "PENDING"})
       /\ done.ran => /\ done.exit = 2 <=> answer.error = "CONFIGURATION"
                      /\ argv.action \in NeedsName <=> done.name # {}
                      /\ \A i \in DOMAIN done.hints : \A h \in done.hints[i] : argv.hints[i] = <<h.from, h.to>>
       /\ ~done.ran /\ ~argv.help => done.exit = 2
=============================================================================
