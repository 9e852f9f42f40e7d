--------------------------- MODULE SchemaMigration ---------------------------
(***************************************************************************)
(* packages/codegen/src/migration: from two desired schemas to SQL.  The   *)
(* normalizer turns a schema built in code into a snapshot, the diff turns *)
(* two snapshots and the rename hints into classified changes, the         *)
(* renderer refuses them or orders them as statements, and adoption        *)
(* compares a live catalog with a snapshot.  PostgreSQL, which carries the *)
(* statements out, is external: Run says what it does with each.           *)
(*                                                                         *)
(* An identifier is a sequence of letters by number: 0 and 1 are the '.'   *)
(* of a qualified name and the '_' of a derived one, which sort before     *)
(* letters.  An optional value is a set of at most one element.            *)
(***************************************************************************)
EXTENDS Integers, Sequences, FiniteSets, SequencesExt

CONSTANTS Suffix      \* the words that end derived names: pkey, key, check, fkey, idx

-----------------------------------------------------------------------------
(* The schema builder.  Columns are NOT NULL unless nullable() is called.  *)

Column(n, type) == [name |-> n, type |-> type, size |-> {}, scale |-> {}, nullable |-> FALSE,
                    default |-> {}, generated |-> {}, identity |-> {}, comment |-> {}]

Build(schema, n, columns) ==
    [schema |-> schema, name |-> n, columns |-> columns, primaryKey |-> {}, unique |-> {},
     checks |-> {}, foreignKeys |-> {}, indexes |-> {}, comment |-> {}]

UniqueColumn(t, n) == [t EXCEPT !.unique = @ \cup {<<n>>}]

\* primaryKey() of a column: it joins the table's key, is unique by itself, and NOT NULL.
PrimaryKeyColumn(t, n) ==
    [UniqueColumn(t, n) EXCEPT
        !.primaryKey = IF @ = {} THEN {<<n>>} ELSE {Append(k, n) : k \in @},
        !.columns = {IF c.name = n THEN [c EXCEPT !.nullable = FALSE] ELSE c : c \in @}]

References(t, n, to, m) ==
    [t EXCEPT !.foreignKeys = @ \cup {[columns |-> <<n>>, references |-> to, referencedColumns |-> <<m>>]}]

-----------------------------------------------------------------------------
(* Desired state: normalizeDatabaseSchema and the snapshot schema.         *)

Names(S) == {x.name : x \in S}
Identity(t) == <<t.schema, t.name>>
Qualified(S) == {Identity(t) : t \in S}
Named(S, n) == CHOOSE x \in S : x.name = n
Owner(S, id) == CHOOSE t \in S : Identity(t) = id

\* stableName; the hash that keeps a long name within 63 bytes is taken to be one-to-one.
StableName(table, columns, suffix) ==
    table \o FlattenSeq([i \in DOMAIN columns |-> <<1>> \o columns[i]]) \o <<1>> \o Suffix[suffix]

\* An expression is named by its hash: a letter of its own.
StableExpressionName(table, expression, suffix) ==
    table \o <<1>> \o expression \o <<1>> \o Suffix[suffix]

Constraint(kind, name, columns) ==
    [kind |-> kind, name |-> name, columns |-> columns, expression |-> {},
     references |-> <<>>, referencedColumns |-> <<>>]

\* t: a table as it was built, with sequences of columns and no names for its constraints.
NormalizeTable(t) ==
    [schema |-> t.schema, name |-> t.name, columns |-> t.columns, comment |-> t.comment,
     primaryKey |-> {Constraint("primaryKey", StableName(t.name, k, "pkey"), k) : k \in t.primaryKey},
     unique |-> {Constraint("unique", StableName(t.name, k, "key"), k) : k \in t.unique},
     checks |-> {[Constraint("check", StableExpressionName(t.name, e, "check"), <<>>)
                    EXCEPT !.expression = {e}] : e \in t.checks},
     foreignKeys |-> {[Constraint("foreignKey", StableName(t.name, f.columns, "fkey"), f.columns)
                         EXCEPT !.references = f.references,
                                !.referencedColumns = f.referencedColumns] : f \in t.foreignKeys},
     indexes |-> {[name |-> IF x.name # {} THEN CHOOSE n \in x.name : TRUE
                            ELSE StableName(t.name, x.columns, "idx"),
                   columns |-> x.columns, unique |-> x.unique] : x \in t.indexes}]

Normalize(built) ==
    LET tables == {NormalizeTable(t) : t \in built.tables}
    IN [defaultSchema |-> built.defaultSchema, extensions |-> built.extensions,
        schemas |-> {built.defaultSchema} \cup {t.schema : t \in tables \cup built.views},
        tables |-> tables, views |-> built.views]

Constraints(t) == t.primaryKey \cup t.unique \cup t.checks \cup t.foreignKeys
Keys(t) == {k.columns : k \in t.primaryKey \cup t.unique}

Distinct(S) == Cardinality(Names(S)) = Cardinality(S)
TypeOf(t, n) == LET c == Named(t.columns, n) IN <<c.type, c.size, c.scale>>

\* A foreign key names a key of an existing table, with columns of the same types.
ForeignKeyHolds(tables, t, f) ==
    /\ f.references \in Qualified(tables)
    /\ LET r == Owner(tables, f.references) IN
        /\ f.referencedColumns \in Keys(r)
        /\ Range(f.referencedColumns) \subseteq Names(r.columns)
        /\ Range(f.columns) \subseteq Names(t.columns)
        /\ \A i \in DOMAIN f.columns :
            i \in DOMAIN f.referencedColumns
                /\ TypeOf(t, f.columns[i]) = TypeOf(r, f.referencedColumns[i])

ValidTable(s, t) ==
    /\ t.schema \in s.schemas
    /\ Distinct(t.columns) /\ Distinct(Constraints(t)) /\ Distinct(t.indexes)
    /\ \A x \in Constraints(t) \cup t.indexes : Range(x.columns) \subseteq Names(t.columns)
    /\ \A f \in t.foreignKeys : ForeignKeyHolds(s.tables, t, f)

ValidSnapshot(s) ==
    /\ s.defaultSchema \in s.schemas
    /\ Cardinality(Qualified(s.tables \cup s.views)) = Cardinality(s.tables) + Cardinality(s.views)
    /\ \A v \in s.views : v.schema \in s.schemas
    /\ \A t \in s.tables : ValidTable(s, t)

-----------------------------------------------------------------------------
(* Rename hints, in the order they are given.                              *)

TableOf(id) == SubSeq(id, 1, 2)

IdentityExists(s, kind, id) ==
    \E t \in s.tables : /\ Identity(t) = TableOf(id)
                        /\ kind = "column" => id[3] \in Names(t.columns)

ValidHint(previous, desired, hints, i) ==
    LET h == hints[i]
        earlier == {hints[j] : j \in 1..(i - 1)}
    IN /\ Len(h.from) = Len(h.to) /\ Len(h.from) = (IF h.kind = "table" THEN 2 ELSE 3)
       /\ h.from # h.to
       /\ h.from[1] = h.to[1]
       /\ h.kind = "column" /\ TableOf(h.from) # TableOf(h.to) =>
            \E g \in Range(hints) : /\ g.kind = "table"
                                    /\ g.from = TableOf(h.from) /\ g.to = TableOf(h.to)
       /\ \A g \in earlier : g.from # h.from /\ g.to # h.to /\ g.to # h.from
       /\ IdentityExists(previous, h.kind, h.from) /\ IdentityExists(desired, h.kind, h.to)
       /\ ~IdentityExists(desired, h.kind, h.from) /\ ~IdentityExists(previous, h.kind, h.to)

ValidHints(previous, desired, hints) ==
    \A i \in DOMAIN hints : ValidHint(previous, desired, hints, i)

-----------------------------------------------------------------------------
(* diffSnapshots.  A change is about an object (schema, table, name); its  *)
(* kind is the phase the diff sorts by and what happens to the object.     *)

Change(kind, safety, schema, table, name, detail) ==
    [kind |-> kind, safety |-> safety, schema |-> schema, table |-> table, name |-> name,
     detail |-> detail]

DiffNamedSet(kind, before, after, protected) ==
    {Change(<<kind, "add">>, "safe", <<>>, <<>>, n, {}) : n \in after \ before}
    \cup {Change(<<kind, "drop">>, "destructive", <<>>, <<>>, n, {}) :
            n \in (before \ after) \ protected}

SetComment(schema, table, name, comment) ==
    Change(<<"comment", "set">>, "safe", schema, table, name, comment)

DiffColumn(t, before, after) ==
    LET On(kind, safety) ==
            Change(<<"column", kind>>, safety, t.schema, t.name, after.name, {after})
        Type(c) == <<c.type, c.size, c.scale>>
        fixed == (IF Type(before) = Type(after) THEN {} ELSE {"type"})
                 \cup (IF before.generated = after.generated THEN {} ELSE {"generated"})
                 \cup (IF before.identity = after.identity THEN {} ELSE {"identity"})
    IN {On(k, "unsupported") : k \in fixed}
       \cup (IF before.default = after.default THEN {} ELSE {On("default", "safe")})
       \cup (IF before.nullable = after.nullable THEN {}
             ELSE {On("nullability", IF after.nullable THEN "safe" ELSE "caution")})
       \cup (IF before.comment = after.comment THEN {}
             ELSE {SetComment(t.schema, t.name, after.name, after.comment)})

\* constraint.add, index.drop...: by name, a replacement under the same name is not rendered.
DiffDefinitions(kind, before, after, t) ==
    LET On(what, safety, d) == Change(<<kind, what>>, safety, t.schema, t.name, d.name, {d})
    IN {On("drop", "destructive", d) : d \in {b \in before : b.name \notin Names(after)}}
       \cup {On("add", "safe", d) : d \in {a \in after : a.name \notin Names(before)}}
       \cup {On("add", "unsupported", d) :
               d \in {a \in after : a.name \in Names(before) /\ Named(before, a.name) # a}}

DiffTableCollections(before, after) ==
    LET replaced == before.primaryKey # {} /\ after.primaryKey # {}
                    /\ before.primaryKey # after.primaryKey
        Rest(t) == IF replaced THEN Constraints(t) \ t.primaryKey ELSE Constraints(t)
    IN {Change(<<"constraint", "add">>, "unsupported", after.schema, after.name, k.name, {k}) :
            k \in IF replaced THEN after.primaryKey ELSE {}}
       \cup DiffDefinitions("constraint", Rest(before), Rest(after), after)
       \cup DiffDefinitions("index", before.indexes, after.indexes, after)

\* Shapes leave the names out: of the table, of its constraints and indexes, of a column.
Unnamed(S) == {[x EXCEPT !.name = <<>>] : x \in S}
Self(t, S) == {[f EXCEPT !.name = <<>>,
                         !.references = IF @ = Identity(t) THEN <<>> ELSE @] : f \in S}
CollectionShape(t) == <<Unnamed(t.primaryKey), Unnamed(t.unique), Unnamed(t.checks),
                        Self(t, t.foreignKeys), Unnamed(t.indexes)>>
SameTableShape(t, u) ==
    t.columns = u.columns /\ CollectionShape(t) = CollectionShape(u) /\ t.comment = u.comment
SameColumnShape(c, d) == Unnamed({c}) = Unnamed({d})

Rename(kind, safety, schema, table, name, newName) ==
    Change(<<kind, "rename">>, safety, schema, table, name, {[newName |-> newName]})

\* The only added object of the same shape: an apparent rename, which nobody has confirmed.
Apparent(prior, added, Same(_, _)) ==
    LET candidates == {a \in added : Same(prior, a)}
    IN IF Cardinality(candidates) = 1 THEN candidates ELSE {}

DiffColumns(before, after, hints) ==
    LET hinted == {h \in Range(hints) : /\ h.kind = "column"
                                        /\ TableOf(h.from) = Identity(before)
                                        /\ TableOf(h.to) = Identity(after)}
        removed == {c \in before.columns : /\ c.name \notin Names(after.columns)
                                           /\ \A h \in hinted : h.from[3] # c.name}
        added == {c \in after.columns : /\ c.name \notin Names(before.columns)
                                        /\ \A h \in hinted : h.to[3] # c.name}
        Pair(c) == Apparent(c, added, SameColumnShape)
        new == added \ UNION {Pair(c) : c \in removed}
    IN {Rename("column", "safe", after.schema, after.name, h.from[3], h.to[3]) : h \in hinted}
       \cup UNION {DiffColumn(after, Named(before.columns, h.from[3]),
                              Named(after.columns, h.to[3])) : h \in hinted}
       \cup UNION {{Rename("column", "ambiguous", after.schema, after.name, c.name, d.name) :
                        d \in Pair(c)} : c \in removed}
       \cup {Change(<<"column", "drop">>, "destructive", after.schema, after.name, c.name, {}) :
                c \in {r \in removed : Pair(r) = {}}}
       \cup {Change(<<"column", "add">>, IF c.nullable THEN "safe" ELSE "caution",
                    after.schema, after.name, c.name, {c}) : c \in new}
       \cup {SetComment(after.schema, after.name, c.name, c.comment) :
                c \in {n \in new : n.comment # {}}}
       \cup UNION {DiffColumn(after, c, Named(after.columns, c.name)) :
                c \in {b \in before.columns : b.name \in Names(after.columns)}}

DiffTable(before, after, hints) ==
    IF before.name # after.name /\ SameTableShape(before, after) THEN {}
    ELSE DiffColumns(before, after, hints)
         \cup (IF before.name = after.name THEN DiffTableCollections(before, after)
               ELSE IF CollectionShape(before) = CollectionShape(after) THEN {}
               ELSE {Change(<<"constraint", "add">>, "unsupported", after.schema, after.name,
                            <<>>, {})})
         \cup (IF before.comment = after.comment THEN {}
               ELSE {SetComment(after.schema, after.name, <<>>, after.comment)})

AddTable(t) ==
    {Change(<<"table", "add">>, "safe", t.schema, <<>>, t.name, {t})}
    \cup {Change(<<"constraint", "add">>, "safe", t.schema, t.name, k.name, {k}) : k \in Constraints(t)}
    \cup {Change(<<"index", "add">>, "safe", t.schema, t.name, x.name, {x}) : x \in t.indexes}
    \cup {SetComment(t.schema, t.name, <<>>, t.comment) : x \in t.comment}
    \cup {SetComment(t.schema, t.name, c.name, c.comment) :
            c \in {d \in t.columns : d.comment # {}}}

DiffTables(previous, desired, hints) ==
    LET tableHints == {h \in Range(hints) : h.kind = "table"}
        removed == {t \in previous : /\ Identity(t) \notin Qualified(desired)
                                     /\ \A h \in tableHints : h.from # Identity(t)}
        added == {t \in desired : /\ Identity(t) \notin Qualified(previous)
                                  /\ \A h \in tableHints : h.to # Identity(t)}
        Pair(t) == Apparent(t, added, SameTableShape)
        guessed == UNION {{<<t.schema, g.name>> : g \in Pair(t)} : t \in removed}
    IN {Rename("table", "safe", h.from[1], <<>>, h.from[2], h.to[2]) : h \in tableHints}
       \cup UNION {DiffTable(Owner(previous, h.from), Owner(desired, h.to), hints) : h \in tableHints}
       \cup UNION {{Rename("table", "ambiguous", t.schema, <<>>, t.name, g.name) : g \in Pair(t)} :
                        t \in removed}
       \cup {Change(<<"table", "drop">>, "destructive", t.schema, <<>>, t.name, {t}) :
                t \in {r \in removed : Pair(r) = {}}}
       \cup UNION {AddTable(t) : t \in {a \in added : Identity(a) \notin guessed}}
       \cup UNION {DiffTable(t, Owner(desired, Identity(t)), hints) :
                t \in {p \in previous : Identity(p) \in Qualified(desired)}}

\* Views are text nobody parses: several of them may depend on one another.
DiffViews(before, after) ==
    LET added == {v \in after : Identity(v) \notin Qualified(before)}
        removed == {v \in before : Identity(v) \notin Qualified(after)}
        changed == {v \in after : v \notin before /\ v \notin added}
        On(what, safety, v) == Change(<<"view", what>>, safety, v.schema, <<>>, v.name, {v})
    IN {On("drop", IF Cardinality(before) = 1 THEN "destructive" ELSE "unsupported", v) : v \in removed}
       \cup {On("add", IF Cardinality(added) = 1 THEN "safe" ELSE "unsupported", v) : v \in added}
       \cup {On("replace", "unsupported", v) : v \in changed}
       \cup {SetComment(v.schema, <<>>, v.name, v.comment) :
                v \in {w \in added : w.comment # {} /\ Cardinality(added) = 1}}

DiffSnapshots(previous, desired, hints) ==
    DiffNamedSet("extension", previous.extensions, desired.extensions, {})
    \cup DiffNamedSet("schema", previous.schemas, desired.schemas, {desired.defaultSchema})
    \cup DiffTables(previous.tables, desired.tables, hints)
    \cup DiffViews(previous.views, desired.views)

-----------------------------------------------------------------------------
(* renderMigrationSql: refuse, or order.                                   *)

Blocked(c, allowDestructive) ==
    \/ c.safety \in {"ambiguous", "unsupported", "caution"}
    \/ c.safety = "destructive" /\ ~allowDestructive

RenderPhase(c) ==
    LET object == c.kind[1] what == c.kind[2] IN
    CASE c.kind = <<"extension", "add">> -> 0
      [] c.kind = <<"schema", "add">> -> 1
      [] what = "rename" -> 2
      [] what = "add" /\ object \in {"table", "column"} -> 3
      [] object = "column" /\ what # "drop" /\ what # "add" /\ what # "rename" -> 4
      [] c.kind = <<"constraint", "add">> ->
            IF \E d \in c.detail : d.kind = "foreignKey" THEN 55 ELSE 50
      [] c.kind = <<"index", "add">> -> 60
      [] object = "comment" -> IF c.table = <<>> THEN 81 ELSE 70
      [] c.kind = <<"view", "add">> -> 80
      [] c.kind = <<"view", "drop">> -> 900
      [] c.kind = <<"index", "drop">> -> 910
      [] c.kind = <<"constraint", "drop">> -> 920
      [] c.kind = <<"column", "drop">> -> 930
      [] c.kind = <<"table", "drop">> -> 940
      [] c.kind = <<"schema", "drop">> -> 950
      [] c.kind = <<"extension", "drop">> -> 960
      [] OTHER -> 970

\* Text order.
TextBefore(s, t) ==
    \/ IsStrictPrefix(s, t)
    \/ \E i \in DOMAIN s \cap DOMAIN t : s[i] < t[i] /\ SubSeq(s, 1, i - 1) = SubSeq(t, 1, i - 1)

RenderKey(c) == c.schema \o <<0>> \o c.table \o <<0>> \o c.name
RenderBefore(c, d) ==
    \/ RenderPhase(c) < RenderPhase(d)
    \/ RenderPhase(c) = RenderPhase(d) /\ TextBefore(RenderKey(c), RenderKey(d))

\* Changes of one object in one phase do not depend on one another: any of them comes first.
RECURSIVE Sorted(_)
Sorted(changes) ==
    IF changes = {} THEN <<>>
    ELSE LET first == CHOOSE c \in changes : \A d \in changes : ~RenderBefore(d, c)
         IN <<first>> \o Sorted(changes \ {first})

\* Depth first over the tables a dropped table refers to: parents come first, then all is reversed.
RECURSIVE Visit(_, _, _)
Visit(drops, walk, d) ==
    IF walk.cyclic \/ d \in Range(walk.done) THEN walk
    ELSE IF d \in walk.visiting THEN [walk EXCEPT !.cyclic = TRUE]
    ELSE LET t == CHOOSE x \in d.detail : TRUE
             parents == {p \in drops : \E f \in t.foreignKeys : f.references = <<p.schema, p.name>>}
             after == FoldLeft(LAMBDA w, p : Visit(drops, w, p),
                               [walk EXCEPT !.visiting = @ \cup {d}], Sorted(parents))
         IN [after EXCEPT !.visiting = @ \ {d}, !.done = Append(@, d)]

\* Mutant of DropOrder: tables are dropped in the order of their names.
DropOrderByName(drops) == [cyclic |-> FALSE, visiting |-> {}, done |-> Reverse(drops)]

DropOrder(drops) ==
    FoldLeft(LAMBDA w, d : Visit(Range(drops), w, d),
             [cyclic |-> FALSE, visiting |-> {}, done |-> <<>>], drops)

IsTableDrop(c) == c.kind = <<"table", "drop">>

\* The statements, or a refusal.
OrderChanges(changes) ==
    LET ordered == Sorted(changes)
        drops == SelectSeq(ordered, IsTableDrop)
        walk == DropOrder(drops)
        others == SelectSeq(ordered, LAMBDA c : RenderPhase(c) < 940)
        last == SelectSeq(ordered, LAMBDA c : RenderPhase(c) > 940)
    IN IF Len(drops) < 2 THEN [ok |-> TRUE, statements |-> ordered]
       ELSE [ok |-> ~walk.cyclic, statements |-> others \o Reverse(walk.done) \o last]

Render(changes, allowDestructive) ==
    IF \E c \in changes : Blocked(c, allowDestructive) THEN [ok |-> FALSE, statements |-> <<>>]
    ELSE OrderChanges(changes)
=============================================================================
