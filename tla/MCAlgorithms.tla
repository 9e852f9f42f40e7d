----------------------------- MODULE MCAlgorithms -----------------------------
(***************************************************************************)
(* The algorithms that keep no state between two calls.  A behaviour       *)
(* chooses one of them, then a part of its input, then the rest; the       *)
(* invariant says what must hold of the result.                            *)
(***************************************************************************)
EXTENDS RequestCases, TLC

-----------------------------------------------------------------------------
(* Schemas: up to three tables in public, or one object of each other kind. *)

users == <<10>>
posts == <<11>>
tags == <<12>>
id == <<33>>
owner == <<34>>
public == <<26>>
app == <<9>>

S == INSTANCE SchemaCatalog WITH
        Suffix <- [pkey |-> <<25>>, key |-> <<20>>, check |-> <<12>>, fkey |-> <<15>>, idx |-> <<18>>, unique |-> <<30>>, fk |-> <<16>>]

Integer(n) == S!Column(n, "integer")
Nullable(col) == [col EXCEPT !.nullable = TRUE]

TablesOf(n, other) ==
    LET Of(columns) == S!Build(public, n, columns)
        plain == Of({Nullable(Integer(id))})
        keyed == S!PrimaryKeyColumn(Of({Integer(id)}), id)
    IN {plain, Of({Integer(id)}), keyed,
        S!References(keyed, id, <<public, other>>, id),
        S!References(keyed, id, <<public, n>>, id),
        [S!UniqueColumn(plain, id) EXCEPT !.comment = {"c"}],
        S!References(S!UniqueColumn(Of({Integer(id), Nullable(Integer(owner))}), id), id, <<public, other>>, id),
        [Of({Nullable(Integer(owner))}) EXCEPT !.indexes = {[name |-> {}, columns |-> <<owner>>, unique |-> FALSE]}],
        [Of({Nullable(Integer(id)), [Nullable(S!Column(owner, "char")) EXCEPT !.default = {"zero"}, !.comment = {"c"}]})
            EXCEPT !.checks = {<<40>>}]}

View(n) == [schema |-> public, name |-> n, source |-> "select", comment |-> {"c"}]
Schemas ==
    LET Of(tables) == [defaultSchema |-> public, extensions |-> {}, views |-> {}, tables |-> tables]
        empty == Of({})
        Keyed(n) == S!PrimaryKeyColumn(S!Build(public, n, {Integer(id)}), id)
        Tags(other) == S!References(Keyed(tags), id, <<public, other>>, id)
    IN {s \in {S!Normalize(Of(TA \cup TB)) :
                   TA \in {{}} \cup {{t} : t \in TablesOf(users, posts)},
                   TB \in {{}} \cup {{t} : t \in TablesOf(posts, users)}} : S!ValidSnapshot(s)}
       \cup {s \in {S!Normalize(Of(TA \cup TB \cup {Tags(posts)})) :
                   TA \in {{Keyed(users)}} \cup {{S!References(Keyed(users), id, <<public, other>>, id)} : other \in {posts, tags}},
                   TB \in {{Keyed(posts)}} \cup {{S!References(Keyed(posts), id, <<public, other>>, id)} : other \in {users, tags}}} :
                S!ValidSnapshot(s)}
       \cup {S!Normalize(s) : s \in
                {[empty EXCEPT !.extensions = {<<30>>}],
                 [empty EXCEPT !.views = {View(users)}], [empty EXCEPT !.views = {View(users), View(posts)}],
                 Of({S!Build(app, users, {Integer(id)})}), Of({S!Build(app, posts, {Integer(id)})}),
                 Of({S!Build(public, users, {[S!Column(id, "timestamp") EXCEPT !.size = {6}],
                               [Integer(owner) EXCEPT !.identity = {[generation |-> "ALWAYS", start |-> {1}]}]})}),
                 Of({S!Build(public, users, {[S!Column(id, "decimal") EXCEPT !.size = {9}]})})}}

Orders(tables) ==
    LET ids == {<<t.schema, t.name>> : t \in tables}
    IN {f \in [1..Cardinality(ids) -> ids] : \A i, j \in DOMAIN f : i # j => f[i] # f[j]}

Hint(kind, from, to) == [kind |-> kind, from |-> from, to |-> to]
TableHint == Hint("table", <<public, users>>, <<public, posts>>)
HintLists ==
    {<<>>, <<TableHint>>, <<Hint("column", <<public, users, id>>, <<public, users, owner>>)>>,
     <<TableHint, Hint("column", <<public, users, id>>, <<public, posts, owner>>)>>,
     <<Hint("column", <<public, users, id>>, <<public, posts, id>>)>>}

Diff ==
    \/ /\ probe = [of |-> "nothing"]
       /\ \E s \in Schemas : probe' = [of |-> "schema", previous |-> s]
    \/ /\ probe.of = "schema"
       /\ \E s \in Schemas, hints \in HintLists, approved \in BOOLEAN :
            /\ S!ValidHints(probe.previous, s, hints)
            /\ probe' = [of |-> "migration", previous |-> probe.previous, desired |-> s,
                         hints |-> hints, approved |-> approved]

F == INSTANCE MCMigrationFiles

Migrating ==
    \/ probe = [of |-> "nothing"] /\ probe' \in F!Start
    \/ probe.of \in {"text", "directory"} /\ probe' \in F!Steps(probe)

G == INSTANCE CodeGenerators WITH
        Upper <- [a |-> "A", b |-> "B", c |-> "C"], Numeric <- {<<>>, <<"1">>, <<"2">>}

\* Up to three objects, the later ones referring to the earlier ones, each a root or not; then up
\* to two properties and one modifier.
Letters == <<<<"a">>, <<"b">>, <<"c">>>>
Add(c, kind, target, named) ==
    LET n == Len(c.objects) + 1
        made == IF kind = "ref" THEN G!CreateRef(c, target, <<>>) ELSE G!Create(c, kind, <<>>)
    IN IF named THEN G!Named(made, n, Letters[n]) ELSE made
Adds(c) ==
    {Add(c, kind, 0, named) : kind \in {"string", "object"}, named \in BOOLEAN}
    \cup {Add(c, "ref", i, named) : i \in DOMAIN c.objects, named \in BOOLEAN}

Unusual ==
    LET Two(first, second) == G!Named(G!Create(G!Named(G!Create(G!Container, "object", first[1]), 1, first[2]),
                                               "object", second[1]), 2, second[2])
        Root(kind) == G!Create(G!Named(G!Create(G!Container, "object", <<>>), 1, <<"b">>), kind, <<"a">>)
    IN {Two(<<<<"a">>, <<"b">>>>, <<<<>>, <<"a", "_", "b">>>>), Two(<<<<"a">>, <<"b">>>>, <<<<>>, <<"a", "b">>>>),
        Two(<<<<>>, <<"a", "_", "b">>>>, <<<<>>, <<"a", "_", "_", "b">>>>), Two(<<<<>>, <<"a">>>>, <<<<>>, <<"a">>>>)}
       \cup {Root(kind) : kind \in {"BigInt", "Buffer", "Date", "unknown"}}
       \cup {G!Enum(Root(kind), 2, {<<"b">>}) : kind \in {"string", "number"}}
       \cup {G!Named(Root("BigInt"), 2, <<"a">>),
             G!CreateRef(G!Named(G!CreateRef(Two(<<<<>>, <<"a">>>>, <<<<>>, <<"b">>>>), 2, <<>>), 3, <<"c">>), 3, <<>>)}

Types == G!Textual \cup {"bool", "json", "bytea", "int2", "int4", "float8", "oid", "xid", "timestamptz", "interval", "xml"}
Col(n, type, enum) ==
    [name |-> n, type |-> type, enum |-> enum, array |-> FALSE, domains |-> 0, nullable |-> FALSE, default |-> FALSE]
Relation(schema, n, kind, columns) == [schema |-> schema, name |-> n, kind |-> kind, columns |-> columns]
Mood == <<<<>>, <<"c">>>>
Columns ==
    LET Of(type, enum) == {[Col(<<"a">>, type, enum) EXCEPT !.array = a, !.nullable = n, !.default = d] :
                             a \in BOOLEAN, n \in BOOLEAN, d \in BOOLEAN}
    IN UNION {Of(type, {}) : type \in {"text", "bytea", "numeric", "timestamptz"}} \cup Of("enum", {Mood})
       \cup {Col(<<"a">>, type, {}) : type \in Types}
       \cup {[Col(<<"a">>, "text", {}) EXCEPT !.domains = d] : d \in {1, 2}}
       \cup {[Col(<<"a">>, "enum", {Mood}) EXCEPT !.domains = d] : d \in {1, 2}}
Sites == {<<<<>>, <<"a">>>>, <<<<>>, <<"a", "_", "b">>>>, <<<<"a">>, <<"b">>>>, <<<<>>, <<"a", "b">>>>,
          <<<<"a", "_", "b">>, <<"c">>>>, <<<<"a">>, <<"b", "_", "c">>>>}
Databases ==
    LET Moods(labels) == {[schema |-> <<>>, name |-> <<"c">>, labels |-> labels]}
        Db(relations, labels) == [relations |-> relations, enums |-> SetToSeq(Moods(labels)), domains |-> <<<<<<>>, <<"d">>>>>>]
    IN {Db(<<Relation(<<>>, <<"a">>, kind, <<col, Col(<<"b">>, "int4", {})>>)>>, labels) :
           kind \in {"table", "view"}, col \in Columns, labels \in {<<<<"a">>, <<"b">>>>, <<<<"1">>, <<"b">>>>}}
       \cup {Db(<<Relation(<<>>, <<"a">>, "composite type", <<col, Col(<<"b">>, "int4", {})>>)>>, <<<<"a">>>>) :
               col \in {k \in Columns : ~k.default}}
       \cup {Db(<<Relation(s[1], s[2], kind, <<Col(<<"a">>, "text", {})>>),
                  Relation(t[1], t[2], "table", <<Col(<<"a">>, "text", {}), Col(<<"b">>, "enum", {Mood})>>)>>,
                <<<<"a">>>>) :
               kind \in {"table", "composite type"}, s \in Sites, t \in Sites}
       \cup {Db(<<Relation(<<>>, <<"a">>, "table", <<Col(<<"A">>, "text", {}), Col(<<"a">>, "text", {})>>)>>, <<<<"a">>>>)}

Generating ==
    \/ /\ probe = [of |-> "nothing"]
       /\ \/ \E c1 \in Adds(G!Container) : \E c2 \in Adds(c1) : \E c3 \in {c2} \cup Adds(c2) :
                probe' = [of |-> "container", c |-> c3, puts |-> 0, modified |-> FALSE]
          \/ \E c \in Unusual : probe' = [of |-> "container", c |-> c, puts |-> 0, modified |-> FALSE]
          \/ \E db \in Databases : probe' = [of |-> "database", db |-> db]
    \/ /\ probe.of = "container" /\ probe.c.ok /\ ~probe.modified /\ probe.puts < 2
       /\ \E i, j \in DOMAIN probe.c.objects, key \in {<<"a">>, <<"b">>} :
            /\ probe.c.objects[i].kind = "object" /\ (probe.puts = 0 => key = <<"a">>)
            /\ probe' = [probe EXCEPT !.c = G!Properties(@, i, key, j), !.puts = @ + 1]
    \/ /\ probe.of = "container" /\ probe.c.ok /\ ~probe.modified /\ probe.puts = 0 /\ Len(probe.c.objects) = 2
       /\ probe.c.objects[1].kind = "string" /\ probe.c.objects[2].kind = "object"
       /\ \E n \in -1..2 : \/ probe' = [probe EXCEPT !.c = G!MinLength(@, 1, n)]
                          \/ probe' = [probe EXCEPT !.c = G!MaxLength(@, 1, n)]
                          \/ probe' = [probe EXCEPT !.c = G!Pattern(@, 1, n > 0, n = 1)]
    \/ /\ probe.of = "container" /\ probe.c.ok /\ ~probe.modified
       /\ \E i \in DOMAIN probe.c.objects, m \in {"nullable", "optional", "partial", "arrayed", "recordOf"},
             n \in {"nullable", "optional", "partial", "arrayed", "recordOf"} :
            /\ Len(probe.c.objects) > 2 => n = m
            /\ probe' = [probe EXCEPT !.c = G!Modify(G!Modify(@, i, m), i, n), !.modified = TRUE]

\* See MigrationArrives and SchemaIsBuilt in SchemaCatalog, and ScanSeesStatements, HistoryIsAccounted,
\* ConfigStaysInside and ExitTellsOutcome in MigrationFiles, and GeneratorsAgree and
\* IntrospectionIsFaithful in CodeGenerators.
MigrationsAreSound ==
    /\ probe.of = "migration" =>
         S!MigrationArrives(probe.previous, probe.desired, probe.hints, probe.approved)
    /\ probe.of = "migration" /\ probe.hints = <<>> /\ probe.approved =>
         \A order \in Orders(probe.desired.tables) : S!SchemaIsBuilt(probe.previous, probe.desired, order)
    /\ probe.of \in {"text", "directory", "filesystem", "argv"} => F!Holds(probe)
    /\ probe.of = "container" /\ probe.c.ok => G!GeneratorsAgree(probe.c)
    /\ probe.of = "database" => G!IntrospectionIsFaithful(probe.db)

\* .agents/skills/blendsdk/references/packages/codegen/recipes.md: "fixed dependency phases [...]
\* constraints (referenced tables before foreign keys) [...] then the reverse order for drops".
\* A foreign key is dropped before the key it refers to.
DropsInReverseOrder ==
    probe.of = "migration" =>
        ~S!KeyBeforeForeignKey(
            S!Render(S!DiffSnapshots(probe.previous, probe.desired, probe.hints), TRUE).statements)

-----------------------------------------------------------------------------
(* Scripts.                                                                *)

E == INSTANCE MCBlendScript

Script ==
    \/ probe = [of |-> "nothing"] /\ probe' \in E!Starts
    \/ probe.of = "subtree" /\ probe' \in E!Inputs(probe)

\* See ScriptIsSound in BlendScript.
ScriptsAreSound == probe.of = "script" => E!Holds(probe)

-----------------------------------------------------------------------------
(* SQL conditions.                                                         *)

T == INSTANCE MCStatements

Query ==
    \/ probe = [of |-> "nothing"] /\ probe' = T!AQuery
    \/ probe.of = "query" /\ probe.calls < T!MaxCalls /\ probe' \in T!QuerySteps(probe)

Statement ==
    \/ probe = [of |-> "nothing"] /\ probe' \in T!Start
    \/ probe.of = "statement" /\ probe' \in T!Steps(probe)

\* See QueryMeansItsTree in Expression and StatementDoesItsWork in Statements.
QueriesMeanTheirTree ==
    /\ probe.of = "query" => T!QueryHolds(probe)
    /\ probe.of = "statement" => T!Holds(probe)

\* .agents/skills/blendsdk/references/packages/dbcore/usage.md: "Multiple `filter()` calls (and
\* combinations with `filterByExpression()`) are layered with AND logic on top of the existing
\* builder".  The rows that are changed satisfy each of the filters.
FiltersAreCombined == probe.of = "statement" => T!Combines(probe)

\* .agents/skills/blendsdk/references/packages/expression/api.md: and "the recorded condition is
\* AND-combined with the tree", search "AND-combined with the tree".  So does the text.
AndCombinesWithTheTree == probe.of = "query" /\ probe.own => T!MeansItsTree(probe.b)

-----------------------------------------------------------------------------
(* Command lines, translations, API contracts.                             *)

L == INSTANCE MCCmdline

CommandLine ==
    \/ probe = [of |-> "nothing"] /\ probe' \in L!Start
    \/ probe.of \in {"parser", "suggestion"} /\ probe' \in L!Steps(probe)

K == INSTANCE MCApiContract

Contracting ==
    \/ probe = [of |-> "nothing"] /\ probe' \in K!Start
    \/ probe.of \in {"parts", "conversions", "routes", "output"} /\ probe' \in K!Steps(probe)

\* Requests and translations: see RequestsAreJudged and RequestsAreHandled in RequestCases.
R == INSTANCE MCRequests

Handling ==
    \/ probe = [of |-> "nothing"] /\ probe' \in R!Start
    \/ probe.of \in {"bearer", "request", "memory", "builder", "limiter", "reloads"} /\ probe' \in R!Steps(probe)

\* See ArgumentsMeanTheirOptions, SpellingsResolve and SuggestionsAreStable in Cmdline, and
\* LocaleFindsItsText, LastSourceDecides, ContentIsFound, LocaleIsAskedFor and ReloadsAreHonest in
\* Translation, and TypesAdmitValues, HoistingKeepsMeaning, ClientMatchesServer and CheckSeesDrift in
\* ApiContract.
InterfacesAreHonest ==
    /\ probe.of \in {"parser", "suggestion"} => L!Holds(probe)
    /\ probe.of \in {"catalog", "files", "ask", "reloads"} => R!Holds(probe)
    /\ probe.of \in {"zod", "conversions", "routes", "output", "command"} => K!Holds(probe)

-----------------------------------------------------------------------------

Init == probe = [of |-> "nothing"]
Next == Diff \/ Generating \/ Migrating \/ Script \/ Query \/ Statement \/ CommandLine \/ Handling \/ Contracting
Spec == Init /\ [][Next]_probe
=============================================================================
