---------------------------- MODULE SchemaCatalog ----------------------------
(***************************************************************************)
(* What the statements of a generated migration do to a database, how the  *)
(* catalog projector reads the result and how adoption compares it with a  *)
(* desired snapshot.  The database (external) holds the objects of a       *)
(* snapshot and ok, which a statement that PostgreSQL refuses makes FALSE. *)
(***************************************************************************)
EXTENDS SchemaMigration, TLC

-----------------------------------------------------------------------------
(* PostgreSQL.                                                             *)


\* A column as renderColumn writes it: a generated expression comes before an identity, an
\* identity before a default, and comments are statements of their own.
Rendered(c) ==
    [c EXCEPT !.comment = {},
              !.identity = IF c.generated # {} THEN {} ELSE @,
              !.default = IF c.generated # {} \/ c.identity # {} THEN {} ELSE @]

Relations(db, schema) ==
    {r.name : r \in {x \in db.tables \cup db.views : x.schema = schema}}
    \cup UNION {Names(t.indexes) \cup Names(t.primaryKey \cup t.unique) :
                    t \in {x \in db.tables : x.schema = schema}}

RefersTo(f, t) == f.references = Identity(t)
ReferredBy(db, t) == {f \in UNION {u.foreignKeys : u \in db.tables \ {t}} : RefersTo(f, t)}

Put(db, t, u) == [db EXCEPT !.tables = (@ \ {t}) \cup {u}]

RenameIn(columns, a, b) == [i \in DOMAIN columns |-> IF columns[i] = a THEN b ELSE columns[i]]

\* Every constraint and index keeps its name, and follows the table or column it is on.
RenameColumn(db, t, a, b) ==
    LET OnT(S) == {[x EXCEPT !.columns = RenameIn(@, a, b)] : x \in S}
        Follow(S) == {IF RefersTo(f, t)
                      THEN [f EXCEPT !.referencedColumns = RenameIn(@, a, b)] ELSE f : f \in S}
        renamed == [t EXCEPT !.columns = {IF c.name = a THEN [c EXCEPT !.name = b] ELSE c : c \in @},
                             !.primaryKey = OnT(@), !.unique = OnT(@), !.indexes = OnT(@),
                             !.foreignKeys = OnT(@)]
    IN [db EXCEPT !.tables = {[u EXCEPT !.foreignKeys = Follow(@)] : u \in (@ \ {t}) \cup {renamed}}]

RenameTable(db, t, n) ==
    LET Follow(S) == {IF RefersTo(f, t) THEN [f EXCEPT !.references = <<t.schema, n>>] ELSE f : f \in S}
    IN [db EXCEPT !.tables = {[u EXCEPT !.foreignKeys = Follow(@)] :
                                u \in (@ \ {t}) \cup {[t EXCEPT !.name = n]}}]

Add(db, t, d) ==
    Put(db, t, CASE d.kind = "primaryKey" ->
                    [t EXCEPT !.primaryKey = {d},
                              !.columns = {[x EXCEPT !.nullable = @ /\ x.name \notin Range(d.columns)] :
                                              x \in @}]
                 [] d.kind = "unique" -> [t EXCEPT !.unique = @ \cup {d}]
                 [] d.kind = "check" -> [t EXCEPT !.checks = @ \cup {d}]
                 [] d.kind = "foreignKey" -> [t EXCEPT !.foreignKeys = @ \cup {d}])

\* A key cannot be dropped under the foreign keys that need it.  One that was declared when the
\* table had another key over the same columns is taken to be bound to the other one.
Needed(db, t, k) ==
    /\ \A j \in t.primaryKey \cup t.unique : j.columns = k.columns => j = k
    /\ \E f \in ReferredBy(db, t) \cup {g \in t.foreignKeys : RefersTo(g, t)} :
        f.referencedColumns = k.columns

InPrimaryKey(t, n) == \E k \in t.primaryKey : n \in Range(k.columns)

RunOnTable(db, c, t) ==
    LET d == CHOOSE x \in c.detail : TRUE
        ColumnOf(n) == Named(t.columns, n)
        Alter(n, u) == Put(db, t, [t EXCEPT !.columns = (@ \ {ColumnOf(n)}) \cup {u}])
        fail == [db EXCEPT !.ok = FALSE]
        If(guard, next) == IF guard THEN next ELSE fail
    IN CASE c.kind = <<"column", "add">> ->
                If(c.name \notin Names(t.columns),
                   Put(db, t, [t EXCEPT !.columns = @ \cup {Rendered(d)}]))
         [] c.kind = <<"column", "drop">> ->
                If(c.name \in Names(t.columns)
                   /\ \A x \in Constraints(t) \cup t.indexes : c.name \notin Range(x.columns),
                   Put(db, t, [t EXCEPT !.columns = {x \in @ : x.name # c.name}]))
         [] c.kind = <<"column", "rename">> ->
                If(c.name \in Names(t.columns) /\ d.newName \notin Names(t.columns),
                   RenameColumn(db, t, c.name, d.newName))
         [] c.kind = <<"column", "default">> ->
                If(c.name \in Names(t.columns),
                   Alter(c.name, [ColumnOf(c.name) EXCEPT !.default = d.default]))
         [] c.kind = <<"column", "nullability">> ->
                If(c.name \in Names(t.columns) /\ ~(d.nullable /\ InPrimaryKey(t, c.name)),
                   Alter(c.name, [ColumnOf(c.name) EXCEPT !.nullable = d.nullable]))
         [] c.kind = <<"constraint", "add">> ->
                If(/\ c.name \notin Names(Constraints(t)) /\ Range(d.columns) \subseteq Names(t.columns)
                   /\ d.kind = "primaryKey" => t.primaryKey = {}
                   /\ d.kind \in {"primaryKey", "unique"} => c.name \notin Relations(db, t.schema)
                   /\ d.kind = "foreignKey" => ForeignKeyHolds(db.tables, t, d),
                   Add(db, t, d))
         [] c.kind = <<"constraint", "drop">> ->
                If(/\ c.name \in Names(Constraints(t))
                   /\ \A k \in t.primaryKey \cup t.unique : k.name = c.name => ~Needed(db, t, k),
                   LET Rest(S) == {x \in S : x.name # c.name}
                   IN Put(db, t, [t EXCEPT !.primaryKey = Rest(@), !.unique = Rest(@),
                                           !.checks = Rest(@), !.foreignKeys = Rest(@)]))
         [] c.kind = <<"index", "add">> ->
                If(c.name \notin Relations(db, t.schema) /\ Range(d.columns) \subseteq Names(t.columns),
                   Put(db, t, [t EXCEPT !.indexes = @ \cup {d}]))
         [] c.kind = <<"index", "drop">> ->
                If(c.name \in Names(t.indexes),
                   Put(db, t, [t EXCEPT !.indexes = {x \in @ : x.name # c.name}]))
         [] c.kind = <<"comment", "set">> ->
                IF c.name = <<>> THEN Put(db, t, [t EXCEPT !.comment = c.detail])
                ELSE If(c.name \in Names(t.columns),
                        Alter(c.name, [ColumnOf(c.name) EXCEPT !.comment = c.detail]))

\* What renderChange writes for a change, carried out.
Run(db, c) ==
    LET d == CHOOSE x \in c.detail : TRUE
        id == <<c.schema, c.name>>
        t == Owner(db.tables, id)
        inSchema == {x \in db.tables \cup db.views : x.schema = c.name}
        If(guard, next) == IF guard THEN next ELSE [db EXCEPT !.ok = FALSE]
    IN CASE ~db.ok -> db
         [] c.kind = <<"extension", "add">> -> [db EXCEPT !.extensions = @ \cup {c.name}]
         [] c.kind = <<"extension", "drop">> ->
                If(c.name \in db.extensions, [db EXCEPT !.extensions = @ \ {c.name}])
         [] c.kind = <<"schema", "add">> ->
                If(c.name \notin db.schemas, [db EXCEPT !.schemas = @ \cup {c.name}])
         [] c.kind = <<"schema", "drop">> ->
                If(c.name \in db.schemas /\ inSchema = {}, [db EXCEPT !.schemas = @ \ {c.name}])
         [] c.kind = <<"table", "add">> ->
                If(c.schema \in db.schemas /\ c.name \notin Relations(db, c.schema),
                   [db EXCEPT !.tables = @ \cup
                       {[d EXCEPT !.columns = {Rendered(x) : x \in @}, !.comment = {},
                                  !.primaryKey = {}, !.unique = {}, !.checks = {},
                                  !.foreignKeys = {}, !.indexes = {}]}])
         [] c.kind = <<"table", "drop">> ->
                If(id \in Qualified(db.tables) /\ ReferredBy(db, t) = {}, [db EXCEPT !.tables = @ \ {t}])
         [] c.kind = <<"table", "rename">> ->
                If(id \in Qualified(db.tables) /\ d.newName \notin Relations(db, c.schema),
                   RenameTable(db, t, d.newName))
         [] c.kind = <<"view", "add">> ->
                If(c.schema \in db.schemas /\ c.name \notin Relations(db, c.schema),
                   [db EXCEPT !.views = @ \cup {[d EXCEPT !.comment = {}]}])
         [] c.kind = <<"view", "drop">> ->
                If(id \in Qualified(db.views), [db EXCEPT !.views = {v \in @ : Identity(v) # id}])
         [] c.kind = <<"comment", "set">> /\ c.table = <<>> ->
                If(id \in Qualified(db.views),
                   [db EXCEPT !.views = {IF Identity(v) = id THEN [v EXCEPT !.comment = c.detail]
                                         ELSE v : v \in @}])
         [] OTHER -> If(<<c.schema, c.table>> \in Qualified(db.tables),
                        RunOnTable(db, c, Owner(db.tables, <<c.schema, c.table>>)))

\* A database whose history led to the snapshot s.
Database(s) ==
    [s EXCEPT !.tables = {[t EXCEPT !.columns = {[Rendered(c) EXCEPT !.comment = c.comment] : c \in @}] :
                            t \in @}]
    @@ [ok |-> TRUE]

Migrate(db, statements) == FoldLeft(Run, db, statements)

-----------------------------------------------------------------------------
(* projectPostgreSqlCatalog and compareCatalogs.                           *)

\* What PostgreSQL makes of a column's type, and what the projector reads of it.
Timestamps == {"time", "timestamp", "timestamptz"}
Stored(c) ==
    [c EXCEPT !.type = IF @ = "decimal" THEN "numeric" ELSE @,
              !.size = IF c.type = "char" /\ @ = {} THEN {1} ELSE @,
              !.scale = IF c.type \in {"decimal", "numeric"} /\ c.size # {} /\ @ = {} THEN {0} ELSE @]
TypeModifiers(c) ==
    [c EXCEPT !.size = IF c.type \in Timestamps /\ @ = {6} THEN {}
                       ELSE IF c.type \in Timestamps \cup {"char", "varchar", "numeric"} THEN @ ELSE {},
              !.scale = IF c.type = "numeric" THEN @ ELSE {}]
IdentityOptions(c) == [c EXCEPT !.identity = {[g EXCEPT !.start = @ \ {1}] : g \in @}]

\* An identity, and a serial type, hide the default of the column.
ParseColumn(c) ==
    LET d == IdentityOptions(TypeModifiers(Stored(c)))
    IN IF c.identity # {} \/ c.generated # {} \/ c.type \in {"serial", "bigserial"}
       THEN [d EXCEPT !.default = {}] ELSE d

Project(db) ==
    [db EXCEPT !.tables = {[t EXCEPT !.columns = {ParseColumn(c) : c \in @}] : t \in @}]

\* Representations that mean the same thing.
ComparableColumn(c) ==
    LET type == IF c.type = "decimal" THEN "numeric" ELSE c.type
        implicit == (type = "char" /\ c.size = {1}) \/ (type \in Timestamps /\ c.size = {6})
    IN [c EXCEPT !.type = type, !.size = IF implicit THEN {} ELSE @,
                 !.identity = {[g EXCEPT !.start = @ \ {1}] : g \in @}]

Comparable(s) ==
    {<<<<"default schema">>, s.defaultSchema>>}
    \cup {<<<<"extension", e>>, <<>>>> : e \in s.extensions}
    \cup {<<<<"schema", e>>, <<>>>> : e \in s.schemas}
    \cup {<<<<"view", v.schema, v.name>>, {v}>> : v \in s.views}
    \cup UNION {
        {<<<<"table", t.schema, t.name>>, t.comment>>}
        \cup {<<<<"column", t.schema, t.name, c.name>>, {ComparableColumn(c)}>> : c \in t.columns}
        \cup {<<<<"constraint", t.schema, t.name, k.name>>, {k}>> : k \in Constraints(t)}
        \cup {<<<<"index", t.schema, t.name, x.name>>, {x}>> : x \in t.indexes} : t \in s.tables}

\* Expressions are text that PostgreSQL rewrites: these objects cannot be compared.
UnsupportedDesired(s) ==
    {<<"view", v.schema, v.name>> : v \in s.views}
    \cup UNION {
        {<<"column", t.schema, t.name, c.name>> :
            c \in {d \in t.columns : d.default = {"expression"} \/ d.generated # {}}}
        \cup {<<"constraint", t.schema, t.name, k.name>> : k \in t.checks} : t \in s.tables}

Classify(desired, live, id) ==
    LET want == {o \in Comparable(desired) : o[1] = id}
        have == {o \in Comparable(live) : o[1] = id}
    IN IF want = {} THEN "EXTRA_MODELED" ELSE IF have = {} THEN "MISSING"
       ELSE IF want = have THEN "MATCH" ELSE "DIFFERENT"

CompareCatalogs(desired, live) ==
    {[classification |-> Classify(desired, live, o[1]), identity |-> o[1]] :
        o \in Comparable(desired) \cup Comparable(live)}
    \cup {[classification |-> "UNSUPPORTED_FOR_ADOPTION", identity |-> id] :
        id \in UnsupportedDesired(desired)}

Compatible(items) == \A i \in items : i.classification = "MATCH"

-----------------------------------------------------------------------------
(* postgres-schema-generator.ts: the DDL that builds a schema at once, with *)
(* names of its own for constraints and indexes.  order: the tables as the *)
(* schema declares them.                                                   *)

\* The first of the constraints of a kind has no number.
ConstraintName(t, columns, suffix, i) ==
    StableName(t.name, columns, suffix) \o (IF i = 1 THEN <<>> ELSE <<1, i>>)

\* A generated column is written without NOT NULL, an identity column is NOT NULL by itself, and a
\* default that is falsy in JavaScript, like 0 and false, is not written.
GeneratedColumn(c) ==
    [c EXCEPT !.nullable = IF c.generated # {} THEN TRUE ELSE IF c.identity # {} THEN FALSE ELSE @,
              !.default = @ \ {"zero"}]

Declared(t, S, suffix) ==
    LET list == SetToSeq(S)
    IN [i \in DOMAIN list |-> [list[i] EXCEPT !.name = ConstraintName(t, list[i].columns, suffix, i)]]

DeclaredIndexes(t) ==
    LET list == SetToSeq(t.indexes)
        Suffixed(x) == IF x.unique THEN "key" ELSE "idx"
    IN [i \in DOMAIN list |->
          [list[i] EXCEPT !.name = IF @ = StableName(t.name, list[i].columns, "idx")
                                   THEN ConstraintName(t, list[i].columns, Suffixed(list[i]), i) ELSE @]]

PrimaryKeyOf(t) == Declared(t, t.primaryKey, "pkey")
ForeignKeysOf(t) == Declared(t, t.foreignKeys, "fk")

\* The key, the checks, the uniques and the foreign keys of a table, in one ALTER TABLE.
RenderConstraints(t) ==
    LET list == PrimaryKeyOf(t) \o Declared(t, t.checks, "check")
                \o Declared(t, t.unique, "unique") \o ForeignKeysOf(t)
    IN [i \in DOMAIN list |-> Change(<<"constraint", "add">>, "safe", t.schema, t.name, list[i].name, {list[i]})]

RenderComments(t) ==
    LET Of(c) == IF c.comment = {} THEN <<>> ELSE <<SetComment(t.schema, t.name, c.name, c.comment)>>
        columns == SetToSeq(t.columns)
    IN (IF t.comment = {} THEN <<>> ELSE <<SetComment(t.schema, t.name, <<>>, t.comment)>>)
       \o FlattenSeq([i \in DOMAIN columns |-> Of(columns[i])])

RenderIndexes(t) ==
    LET list == DeclaredIndexes(t)
    IN [i \in DOMAIN list |-> Change(<<"index", "add">>, "safe", t.schema, t.name, list[i].name, {list[i]})]

RenderViewComments(views) ==
    LET Comment(v) == IF v.comment = {} THEN <<>> ELSE <<SetComment(v.schema, <<>>, v.name, v.comment)>>
    IN FlattenSeq([i \in DOMAIN views |-> Comment(views[i])])

RenderViews(views) ==
    LET Of(kind, v) == Change(<<"view", kind>>, "safe", v.schema, <<>>, v.name, {v})
    IN [i \in DOMAIN views |-> Of("cascade", views[i])] \o [i \in DOMAIN views |-> Of("replace", views[i])]
       \o RenderViewComments(views)

Statement(kind, name) == Change(kind, "safe", <<>>, <<>>, name, {})
RenderExtensions(s) ==
    LET names == SetToSeq(s.extensions) IN [i \in DOMAIN names |-> Statement(<<"extension", "add">>, names[i])]

\* The schemas of the tables, but for the one that is always there.
RenderSchemas(s, kind) ==
    LET names == SetToSeq({t.schema : t \in s.tables} \ {s.defaultSchema})
    IN [i \in DOMAIN names |-> Statement(<<"schema", kind>>, names[i])]

TableStatement(kind, t) ==
    <<Change(<<"table", kind>>, "safe", t.schema, <<>>, t.name, {[t EXCEPT !.columns = {GeneratedColumn(c) : c \in @}]})>>

GenerateDDL(s, order, dropBeforeCreate) ==
    LET Tables(P(_)) == FlattenSeq([i \in DOMAIN order |-> P(Owner(s.tables, order[i]))])
    IN RenderExtensions(s)
       \o (IF dropBeforeCreate
           THEN RenderSchemas(s, "cascade") \o Tables(LAMBDA t : TableStatement("cascade", t)) ELSE <<>>)
       \o RenderSchemas(s, "ensure")
       \o Tables(LAMBDA t : TableStatement("add", t)) \o Tables(RenderConstraints) \o Tables(RenderComments)
       \o Tables(RenderIndexes) \o RenderViews(SetToSeq(s.views))

\* PostgreSQL: DROP ... CASCADE takes along what depends on an object.  Views are taken to read
\* the tables.
Cascade(db, gone) ==
    [db EXCEPT !.tables = {[t EXCEPT !.foreignKeys = {f \in @ : f.references \notin gone}] :
                             t \in {x \in @ : Identity(x) \notin gone}},
               !.views = IF Qualified(db.tables) \cap gone = {} THEN {v \in @ : Identity(v) \notin gone} ELSE {}]

RunDDL(db, c) ==
    LET id == <<c.schema, c.name>>
        If(guard, next) == IF guard THEN next ELSE [db EXCEPT !.ok = FALSE]
    IN CASE ~db.ok -> db
         [] c.kind = <<"schema", "cascade">> ->
                [Cascade(db, {i \in Qualified(db.tables \cup db.views) : i[1] = c.name}) EXCEPT !.schemas = @ \ {c.name}]
         [] c.kind = <<"schema", "ensure">> -> [db EXCEPT !.schemas = @ \cup {c.name}]
         [] c.kind = <<"table", "cascade">> -> If(id \notin Qualified(db.views), Cascade(db, {id}))
         [] c.kind = <<"view", "cascade">> -> If(id \notin Qualified(db.tables), Cascade(db, {id}))
         [] c.kind = <<"view", "replace">> -> Run(db, [c EXCEPT !.kind = <<"view", "add">>])
         [] OTHER -> Run(db, c)

-----------------------------------------------------------------------------

\* What stays out of what the planner promises.  Constraints and indexes of a renamed table keep
\* the names PostgreSQL knows them by, while the snapshot derives new ones; a numeric with a
\* precision alone has the scale 0 in the catalog and none in the snapshot; a key that is
\* dropped together with a foreign key that needs it is dropped in the order of the names, and
\* before the table that holds that foreign key; a column gives up NOT NULL while it is still in
\* the primary key; an object is created before another object that has its name is dropped.
RenamesNamed(s, hints) ==
    \E h \in Range(hints), t \in s.tables :
        h.kind = "table" /\ Identity(t) = h.from /\ Constraints(t) \cup t.indexes # {}
HasBareNumeric(s) ==
    \E t \in s.tables : \E c \in t.columns :
        c.type \in {"numeric", "decimal"} /\ c.size # {} /\ c.scale = {}
NullableInKey(s) ==
    \E t \in s.tables : \E c \in t.columns : c.nullable /\ InPrimaryKey(t, c.name)
FreesKeyColumn(previous, hints, changes) ==
    LET Before(c) == {c.name} \cup {h.from[3] : h \in {x \in Range(hints) :
                         x.kind = "column" /\ x.to = <<c.schema, c.table, c.name>>}}
    IN \E t \in previous.tables, c \in changes :
        /\ c.kind = <<"column", "nullability">> /\ <<c.schema, c.table>> = Identity(t)
        /\ \A d \in c.detail : d.nullable
        /\ \E n \in Before(c) : InPrimaryKey(t, n)
DropsOf(statements, P(_)) ==
    {i \in DOMAIN statements : statements[i].kind = <<"constraint", "drop">>
                               /\ \E d \in statements[i].detail : P(d)}
KeyBeforeForeignKey(statements) ==
    \E i \in DropsOf(statements, LAMBDA d : d.kind \in {"primaryKey", "unique"}),
       j \in DropsOf(statements, LAMBDA d : d.kind = "foreignKey") :
        /\ i < j
        /\ \E d \in statements[i].detail, f \in statements[j].detail :
            /\ f.references = <<statements[i].schema, statements[i].table>>
            /\ f.referencedColumns = d.columns

KeyBeforeTable(changes) ==
    \E c, e \in changes : /\ c.kind = <<"constraint", "drop">> /\ IsTableDrop(e)
                          /\ \E d \in c.detail, t \in e.detail : \E f \in t.foreignKeys :
                                f.references = <<c.schema, c.table>> /\ f.referencedColumns = d.columns

ReusesName(changes) ==
    \E c, d \in changes : /\ c.kind[2] = "add" /\ d.kind[2] = "drop" /\ c.kind[1] # d.kind[1]
                          /\ c.schema = d.schema /\ c.name = d.name

Live(previous, statements) == Migrate(Database(previous), statements)

\* A migration that generate accepts carries a database from one desired state to the next:
\* PostgreSQL refuses no statement in the order they are rendered, and the catalog that results
\* is the one desired, object by object, although the diff only ever saw two snapshots.  Nothing
\* is dropped without approval, and nothing changes between equal snapshots.  (known: a renamed
\* table keeps the names of its constraints, a numeric without scale has one in the catalog, and
\* the fixed order of the statements is wrong for NOT NULL of key columns, for keys that a foreign
\* key or a table with one still needs, and for names that are used again.)
MigrationArrives(previous, desired, hints, allowDestructive) ==
    LET changes == DiffSnapshots(previous, desired, hints)
        plan == Render(changes, allowDestructive)
        live == Live(previous, plan.statements)
        known == RenamesNamed(previous, hints) \/ HasBareNumeric(desired) \/ NullableInKey(desired)
                 \/ FreesKeyColumn(previous, hints, changes)
                 \/ KeyBeforeForeignKey(plan.statements) \/ KeyBeforeTable(changes)
                 \/ ReusesName(changes)
    IN /\ plan.ok /\ ~known =>
            /\ live.ok
            /\ \A i \in CompareCatalogs(desired, Project(live)) :
                i.classification \in {"MATCH", "UNSUPPORTED_FOR_ADOPTION"}
       /\ plan.ok /\ ~allowDestructive => \A c \in changes : c.kind[2] # "drop"
       /\ previous = desired => changes = {}

\* The objects of a schema under the names the DDL gives them.
AsDeclared(s) ==
    LET Set(list) == Range(list)
    IN [s EXCEPT !.tables =
        {[t EXCEPT !.primaryKey = Set(Declared(t, @, "pkey")), !.unique = Set(Declared(t, @, "unique")),
                   !.checks = Set(Declared(t, @, "check")), !.foreignKeys = Set(Declared(t, @, "fk")),
                   !.indexes = Set(DeclaredIndexes(t))] : t \in @}]

\* A foreign key to a table that is declared later: its key is not there yet.
RefersAhead(s, order) ==
    \E i \in DOMAIN order : \E f \in Owner(s.tables, order[i]).foreignKeys :
        \E j \in DOMAIN order : i < j /\ order[j] = f.references

\* Tables and views of the database keep what the schema does not mention.
InTheWay(live, s) ==
    LET mine == Qualified(s.tables \cup s.views)
        Other(t) == Identity(t) \notin mine /\ t.schema = s.defaultSchema
        named == UNION {Names(t.indexes) \cup Names(t.primaryKey \cup t.unique) \cup {t.name} : t \in AsDeclared(s).tables}
    IN \/ \E t \in s.tables : Identity(t) \in Qualified(live.views)
       \/ \E v \in s.views : Identity(v) \in Qualified(live.tables)
       \/ \E t \in live.tables : Other(t) /\ named \cap (Names(t.indexes) \cup Names(t.primaryKey \cup t.unique) \cup {t.name}) # {}

\* The text that generate() writes builds the schema, on an empty database and over any schema
\* that was there: PostgreSQL refuses a statement only if a foreign key comes before the key it
\* refers to or a name is taken, and then every object of the schema is in the catalog as it was
\* declared, but for NOT NULL of a generated column and a default of 0 or false.  Tables the
\* schema does not declare stay, unless they are in a schema that it brings.
SchemaIsBuilt(previous, desired, order) ==
    \A live \in {FoldLeft(RunDDL, Database(previous), GenerateDDL(desired, order, TRUE))} :
        /\ ~InTheWay(previous, desired) => (live.ok <=> ~RefersAhead(desired, order))
        /\ live.ok =>
            LET written == [AsDeclared(desired) EXCEPT !.tables =
                              {[t EXCEPT !.columns = {GeneratedColumn(c) : c \in @}] : t \in @}]
            IN /\ ~HasBareNumeric(desired) /\ ~NullableInKey(desired) =>
                    Comparable(written) \subseteq Comparable(Project(live))
               /\ \A id \in Qualified(previous.tables) \ Qualified(desired.tables) :
                    id \in Qualified(live.tables) <=>
                        id[1] = desired.defaultSchema \/ \A t \in desired.tables : t.schema # id[1]
=============================================================================
