--------------------------- MODULE MCMigrationFiles ---------------------------
(* Texts of up to three lexemes, directories that grow and are damaged, configurations of a small    *)
(* file system, and command lines.                                                                   *)
EXTENDS MigrationFiles, TLC

Quote == <<"'">>
Word(w) == Lexeme("word", <<w>>, <<>>, <<>>)
Lexemes ==
    {Word(w) : w \in {"BEGIN", "SET", "START", "TRANSACTION", "SELECT"}}
    \cup {Lexeme("semicolon", <<";">>, <<>>, <<>>), Lexeme("token", <<"BEGIN", "1">>, <<>>, <<>>), Lexeme("token", <<"$">>, <<>>, <<>>),
          Lexeme("token", <<"1", "E">>, <<>>, <<>>)}
    \cup {Lexeme("string", Quote, inside, Quote) :
              inside \in {<<"'", "'", ";", "BEGIN">>, <<"\\">>, <<"/", "*">>, <<"-", "-">>, <<"$", "t", "$">>}}
    \cup {Lexeme("string", <<"E", "'">>, <<"\\", "'", ";", "BEGIN">>, Quote), Lexeme("string", <<"U", "&", "'">>, <<"\\">>, Quote),
          Lexeme("string", <<"\"">>, <<"'", "\"", "\"">>, <<"\"">>),
          Lexeme("string", <<"$", "$">>, <<"'", ";", "BEGIN", "$", "t", "$", "sp">>, <<"$", "$">>),
          Lexeme("string", <<"$", "t", "1", "$">>, <<"$", "$", "/", "*">>, <<"$", "t", "1", "$">>)}
    \cup {Lexeme("comment", <<"-", "-">>, <<"'", ";", "BEGIN">>, <<"nl">>),
          Lexeme("comment", <<"/", "*">>, <<"'", "/", "*", "*", "/", ";">>, <<"*", "/">>)}
MaxLexemes == 3

-----------------------------------------------------------------------------

MaxTime == 3
Hashes == 1..3
Directory(dir, snapshot, time, whole) == [of |-> "directory", dir |-> dir, snapshot |-> snapshot, time |-> time, whole |-> whole]
Grown(p) ==
    {Directory(CreateManualMigration(p.dir, <<p.time + 1, slug>>, withDown, transactional), p.snapshot, p.time + 1, TRUE) :
        slug \in {2}, withDown \in BOOLEAN, transactional \in {FALSE}}
    \cup UNION {LET id == <<p.time + 1, 1>>
                    up == Entry(Name(id, "up"), File(id, TRUE, p.snapshot, {hash}, Select1))
                    down == Entry(Name(id, "down"), File(id, TRUE, {hash}, p.snapshot, Select1))
                IN {Directory(p.dir \cup {up}, {hash}, p.time + 1, TRUE), Directory(p.dir \cup {up, down}, {hash}, p.time + 1, TRUE)} :
                  hash \in {h \in Hashes : {h} # p.snapshot}}
Faulty(e) ==
    {[e EXCEPT !.regular = FALSE], [e EXCEPT !.name.id = <<0, 1>>], [e EXCEPT !.name.direction = "down"], [e EXCEPT !.file.encoding = "bom"],
     [e EXCEPT !.file.body = <<Word("BEGIN")>>, !.file.transactional = TRUE], [e EXCEPT !.file.body = <<Lexeme("comment", <<"-", "-">>, <<"t">>, <<"nl">>)>>],
     [e EXCEPT !.file.to = {}], [e EXCEPT !.file.from = {3}]}
Damaged(p) ==
    {[p EXCEPT !.snapshot = s, !.whole = FALSE] : s \in {{}, {1}} \ {p.snapshot}}
    \cup UNION {{[p EXCEPT !.dir = (@ \ {e}) \cup new, !.whole = FALSE] : new \in {{}} \cup {{f} : f \in Faulty(e)}} : e \in p.dir}

-----------------------------------------------------------------------------

config == <<"config">>
AtA == <<"a", "config">>
AtB == <<"a", "b", "config">>
Link == <<"a", "link">>
FileSystems ==
    {[p \in {q \in {config, AtA, AtB, <<"a">>, Link, <<"a", "b">>} :
              CASE q = config -> top # "missing" [] q = AtA -> middle # "missing" [] q = AtB -> low # "missing" [] OTHER -> TRUE} |->
        CASE p = config -> top [] p = AtA -> middle [] p = AtB -> low [] p = <<"a">> -> a [] p = Link -> "link" [] OTHER -> "directory"] :
        top, middle, low \in {"missing", "file", "link"}, a \in {"directory", "link"}}
Path(absolute, names) == [absolute |-> absolute, names |-> names]
Paths == {Path(FALSE, <<"m">>), Path(FALSE, <<"..", "m">>), Path(FALSE, <<"m", "..", "link", "m">>), Path(FALSE, <<"..", "a", "m">>),
          Path(TRUE, <<"a", "link", "m">>), Path(TRUE, <<"m">>), Path(TRUE, <<"m", "..">>), Path(FALSE, <<"b", "..", "1.up.sql">>)}
Configs ==
    {k :> p @@ t : k \in {"schema", "migrationsDir", "snapshotFile"}, p \in Paths, t \in {[x \in {} |-> 0], "schema" :> Path(FALSE, <<"s">>)}}
    \cup {"lockTimeoutMs" :> n : n \in {0, 1, 3, 4}} \cup {"other" :> 1}

-----------------------------------------------------------------------------

Argvs == [action : Actions \cup {"drop"}, words : {<<>>, <<"n">>, <<"n", "m">>}, help : BOOLEAN,
          hints : {<<>>, <<<<"a", "b">>>>, <<<<"a">>>>, <<<<"a", "b">>, <<"a", "">>>>}]
Answers == {[error |-> "", status |-> s] : s \in {"UP_TO_DATE", "PENDING", "INVALID_HISTORY", "LOCKED", "UNKNOWN_OUTCOME"}}
           \cup {[error |-> e, status |-> ""] : e \in {"CONFIGURATION", "INVALID_HISTORY", "FILESYSTEM", "DATABASE", "INTERNAL"}}

Start == {[of |-> "text", lexemes |-> <<>>], Directory({}, {}, 0, TRUE)} \cup {[of |-> "filesystem", fs |-> fs] : fs \in FileSystems}
         \cup {[of |-> "argv", argv |-> argv] : argv \in Argvs}
Steps(p) ==
    CASE p.of = "text" -> {[p EXCEPT !.lexemes = Append(@, l)] : l \in {x \in Lexemes : Len(p.lexemes) < MaxLexemes}}
      [] p.of = "directory" -> {q \in Grown(p) : p.whole /\ p.time < MaxTime} \cup {q \in Damaged(p) : p.whole}
      [] OTHER -> {}
Holds(p) ==
    CASE p.of = "text" -> ScanSeesStatements(p.lexemes)
      [] p.of = "directory" -> /\ p.whole => Accepted(p.dir, p.snapshot)
                               /\ \A id \in {<<1, 1>>, <<2, 9>>} : HistoryIsAccounted(p.dir, p.snapshot, id)
      [] p.of = "filesystem" ->
            \A c \in Configs, explicit \in {{}, {AtA}, {<<"a">>}, {Link}}, command \in {"generate", "up"} :
                ConfigStaysInside(p.fs, command, c, explicit, <<"a", "b">>)
      [] p.of = "argv" -> \A valid \in BOOLEAN, answer \in Answers : ExitTellsOutcome(p.argv, valid, answer)
=============================================================================
