--------------------------- MODULE CodeGenerators ---------------------------
(***************************************************************************)
(* packages/codegen: the schema container with its objects (src/schema/),  *)
(* the generators that write TypeScript types and zod validators from it   *)
(* (src/generator/) and the introspector that fills it from a database     *)
(* (src/database/introspect/).  A name is a sequence of characters;        *)
(* written code is a sequence of declarations [name, type], a type being a *)
(* base with the modifiers around it, innermost first.                     *)
(***************************************************************************)
EXTENDS Integers, Sequences, FiniteSets
LOCAL INSTANCE SequencesExt

CONSTANTS
    Upper,         \* [letter -> its capital]
    Numeric        \* the labels that JavaScript's Number reads as a number

-----------------------------------------------------------------------------
(* The container.                                                          *)

Type(base, name, labels) ==
    [base |-> base, name |-> name, labels |-> labels, rules |-> {}, props |-> <<>>, mods |-> <<>>]

SchemaObject(kind, scope) ==
    [kind |-> kind, name |-> <<>>, scope |-> scope, props |-> <<>>, ref |-> 0, mods |-> {}, rules |-> {},
     parent |-> 0, rendered |-> FALSE, tsType |-> Type(kind, <<>>, {})]

Container == [objects |-> <<>>, index |-> {}, ok |-> TRUE]

\* Scope and name are joined without anything between them.
Named(c, i, name) ==
    LET key == c.objects[i].scope \o name
    IN IF key \in c.index THEN [c EXCEPT !.ok = FALSE]
       ELSE [c EXCEPT !.index = @ \cup {key}, !.objects[i].name = name]

Create(c, kind, scope) == [c EXCEPT !.objects = Append(@, SchemaObject(kind, scope))]
CreateRef(c, target, scope) ==
    [c EXCEPT !.objects = Append(@, [SchemaObject("ref", scope) EXCEPT !.ref = target])]
Modify(c, i, modifier) == [c EXCEPT !.objects[i].mods = @ \cup {modifier}]
Enum(c, i, labels) == [c EXCEPT !.objects[i].tsType = Type(c.objects[i].kind, <<>>, labels)]

\* The rules of a string: at most one of a kind, and the least length is not above the greatest.
Rule(c, i, rule, valid) ==
    IF valid THEN [c EXCEPT !.objects[i].rules = {r \in @ : r[1] # rule[1]} \cup {rule}] ELSE [c EXCEPT !.ok = FALSE]
MinLength(c, i, n) == Rule(c, i, <<"min", n>>, n >= 0 /\ \A r \in c.objects[i].rules : r[1] = "max" => n <= r[2])
MaxLength(c, i, n) == Rule(c, i, <<"max", n>>, n >= 0 /\ \A r \in c.objects[i].rules : r[1] = "min" => n >= r[2])
Pattern(c, i, compiles, flagged) == Rule(c, i, <<"regex", 0>>, compiles /\ ~flagged)

\* The properties of an object know only the last object they were given to.
Properties(c, i, key, p) ==
    LET old == c.objects[i].props
        at == {k \in DOMAIN old : old[k].key = key}
        props == IF at = {} THEN Append(old, [key |-> key, object |-> p])
                 ELSE [k \in DOMAIN old |-> IF k \in at THEN [key |-> key, object |-> p] ELSE old[k]]
        given == {props[k].object : k \in DOMAIN props}
    IN [c EXCEPT !.objects = [j \in DOMAIN @ |->
            LET o == IF j = i THEN [@[j] EXCEPT !.props = props] ELSE @[j]
            IN IF j \in given THEN [o EXCEPT !.parent = i] ELSE o]]

Reset(objects) == [i \in DOMAIN objects |-> [objects[i] EXCEPT !.rendered = FALSE]]

Find(c, scope, name) ==
    LET found == {i \in DOMAIN c.objects : c.objects[i].scope = scope /\ c.objects[i].name = name}
    IN {i \in found : \A j \in found : i <= j}

-----------------------------------------------------------------------------
(* Names: a_b and a.b become AB.                                           *)

Capital(w) == IF w = <<>> THEN w ELSE <<IF w[1] \in DOMAIN Upper THEN Upper[w[1]] ELSE w[1]>> \o Tail(w)

Doubled(s) ==
    FoldLeft(LAMBDA out, ch : IF ch = "_" /\ out # <<>> /\ Last(out) = "_" THEN Append(Front(out), "+")
                              ELSE Append(out, ch), <<>>, s)
Plain(ch) == IF ch = "+" THEN <<"_">> ELSE <<ch>>
SnakeToPascalCase(s) ==
    LET parts == Doubled(s)
        Words == FoldLeft(LAMBDA ws, ch : IF ch \in {"_", "."} THEN Append(ws, <<>>)
                                          ELSE Append(Front(ws), Append(Last(ws), ch)), <<<<>>>>, parts)
        Join(ws) == FlattenSeq([k \in DOMAIN ws |-> Capital(ws[k])])
        joined == Join(Words)
    IN IF ~\E k \in DOMAIN parts : parts[k] \in {"_", "."} THEN Capital(parts)
       ELSE FlattenSeq([k \in DOMAIN joined |-> Plain(joined[k])])

NamedScoped(o) == IF o.scope = <<>> \/ o.name = <<>> THEN o.scope \o o.name ELSE o.scope \o <<".">> \o o.name
TypeName(o) == SnakeToPascalCase(NamedScoped(o))
ZodVariableName(o) == SnakeToPascalCase(NamedScoped(o) \o <<"_", "s">>)

-----------------------------------------------------------------------------
(* The generators.  run: the objects as the generator leaves them and what *)
(* it has written; open: the objects being rendered, for which JavaScript   *)
(* would run out of stack.                                                  *)

Fail(run) == [run EXCEPT !.failed = TRUE]
Start(objects) == [objects |-> Reset(objects), lines |-> <<>>, open |-> {}, failed |-> FALSE]
Modified(t, order, mods) == [t EXCEPT !.mods = @ \o SelectSeq(order, LAMBDA m : m \in mods)]

TypeModifiers(t, mods) == Modified(t, <<"partial", "arrayed", "recordOf", "nullable">>, mods)

\* A root becomes a declaration, and from then on its type is its name.  What is no identifier is
\* not formatted.
Declare(run, i, t) ==
    LET name == TypeName(run.objects[i])
    IN [type |-> Type("name", name, {}),
        run |-> [run EXCEPT !.lines = Append(@, [name |-> name, type |-> t]),
                            !.failed = @ \/ "+" \in Range(name), !.objects[i].rendered = TRUE, !.objects[i].tsType = Type("name", name, {})]]

\* A reference may have been made to an object that find() did not find.
Target(objects, o) == IF o.ref = 0 THEN SchemaObject("none", <<>>) ELSE objects[o.ref]

RECURSIVE RenderType(_, _)

\* The reference of a property writes the object it names first; a named reference does not.
RenderReference(run, i) ==
    LET o == run.objects[i]
        target == Target(run.objects, o)
        Of(ready) == TypeModifiers(Target(ready.objects, o).tsType, o.mods)
        Ready == IF target.rendered THEN run ELSE IF target.name = <<>> THEN Fail(run) ELSE RenderType(run, o.ref).run
    IN IF o.parent = 0 THEN Declare(run, i, Of(run))
       ELSE LET ready == Ready IN [run |-> ready, type |-> Of(ready)]

\* A root without modifiers is an interface, which has none.
RenderObject(run, i) ==
    LET o == run.objects[i]
        Property(acc, p) ==
            LET r == RenderType(acc.run, p.object)
            IN [run |-> r.run,
                props |-> Append(acc.props, [key |-> p.key, type |-> r.type,
                                             optional |-> "optional" \in run.objects[p.object].mods])]
        made == FoldLeft(Property, [run |-> run, props |-> <<>>], o.props)
        plain == [Type("object", <<>>, {}) EXCEPT !.props = made.props]
        interface == o.mods \cap {"arrayed", "nullable", "partial"} = {}
    IN IF o.parent # 0 THEN [run |-> made.run, type |-> TypeModifiers(plain, o.mods)]
       ELSE Declare(made.run, i, IF interface THEN plain ELSE TypeModifiers(plain, o.mods))

RenderPrimitiveType(run, i) ==
    LET o == run.objects[i]
        t == TypeModifiers(o.tsType, o.mods)
    IN IF o.parent # 0 THEN [run |-> run, type |-> t] ELSE Declare(run, i, t)

RenderType(run, i) ==
    LET opened == [run EXCEPT !.open = @ \cup {i}]
        r == CASE run.failed \/ i \in run.open -> [run |-> Fail(run), type |-> Type("none", <<>>, {})]
               [] run.objects[i].kind = "ref" -> RenderReference(opened, i)
               [] run.objects[i].kind = "object" -> RenderObject(opened, i)
               [] OTHER -> RenderPrimitiveType(opened, i)
    IN [r EXCEPT !.run.open = run.open]

\* The roots in the order of the container; a property must not have a name.
GenerateWith(objects, Render(_, _)) ==
    FoldLeft(LAMBDA run, i :
                LET o == run.objects[i]
                IN IF run.failed \/ o.name = <<>> \/ o.rendered THEN run
                   ELSE IF o.parent # 0 THEN Fail(run) ELSE Render(run, i).run,
             Start(objects), [i \in DOMAIN objects |-> i])
GenerateTypes(objects) == GenerateWith(objects, RenderType)

\* The zod side: no array, no record, no labels; and everything rendered is rendered once.
ZodBase(kind) == IF kind = "BigInt" THEN "number" ELSE kind
RenderStringConstraints(o) == [Type(ZodBase(o.kind), <<>>, {}) EXCEPT !.rules = o.rules]
ZodModifiers(t, mods) == Modified(t, <<"partial", "optional", "nullable">>, mods)
ZodDeclare(run, i, name, t) ==
    LET o == run.objects[i]
    IN [type |-> t,
        run |-> [run EXCEPT !.lines = IF o.parent = 0 THEN Append(@, [name |-> name, type |-> t]) ELSE @,
                            !.objects[i].rendered = TRUE]]

RECURSIVE RenderZod(_, _)

\* A named reference is written under the name it refers to, modifiers and all.
RenderZodReference(run, i) ==
    LET o == run.objects[i]
        target == Target(run.objects, o)
        name == ZodVariableName(target)
        t == ZodModifiers(Type("name", name, {}), o.mods)
        unnamed == ~target.rendered /\ target.name = <<>>
    IN ZodDeclare(IF unnamed \/ (o.parent = 0 /\ t.mods # <<>>) THEN Fail(run) ELSE run, i, name, t)

RenderZodObject(run, i) ==
    LET o == run.objects[i]
        Property(acc, p) ==
            LET r == RenderZod(acc.run, p.object)
            IN [run |-> r.run, props |-> Append(acc.props, [key |-> p.key, type |-> r.type, optional |-> FALSE])]
        made == FoldLeft(Property, [run |-> run, props |-> <<>>], o.props)
        plain == [Type("object", <<>>, {}) EXCEPT !.props = made.props]
    IN ZodDeclare(made.run, i, ZodVariableName(o), ZodModifiers(plain, o.mods))

\* What is rendered already is written as nothing, which is no expression.
RenderZod(run, i) ==
    LET o == run.objects[i]
        opened == [run EXCEPT !.open = @ \cup {i}]
        r == CASE run.failed \/ o.rendered \/ i \in run.open -> [run |-> Fail(run), type |-> Type("none", <<>>, {})]
               [] o.kind = "ref" -> RenderZodReference(opened, i)
               [] o.kind = "object" -> RenderZodObject(opened, i)
               [] OTHER -> ZodDeclare(opened, i, ZodVariableName(o), ZodModifiers(RenderStringConstraints(o), o.mods))
    IN [r EXCEPT !.run.open = run.open]

GenerateZod(objects) == GenerateWith(objects, RenderZod)

-----------------------------------------------------------------------------
(* What the written code means, and what the schema means.                  *)

Shape(base, labels, items) ==
    [base |-> base, labels |-> labels, rules |-> {}, items |-> items, absent |-> FALSE, null |-> FALSE]
Broken == Shape("broken", {}, {})

Partial(s) == [s EXCEPT !.items = {<<item[1], [item[2] EXCEPT !.absent = TRUE]>> : item \in @}]
Wrap(s, modifier) ==
    CASE modifier = "partial" -> Partial(s)
      [] modifier = "arrayed" -> Shape("array", {}, {<<<<>>, s>>})
      [] modifier = "recordOf" -> Shape("record", {}, {<<<<>>, s>>})
      [] modifier = "nullable" -> [s EXCEPT !.null = TRUE]
      [] modifier = "optional" -> [s EXCEPT !.absent = TRUE]

\* A validator has partial() only if it is a plain object.
ZodWrap(s, modifier) ==
    IF modifier = "partial" /\ (s.base # "object" \/ s.absent \/ s.null) THEN Broken ELSE Wrap(s, modifier)

\* A type may stand after its use, but not in itself; a constant is used after it is made.
RECURSIVE Means(_, _, _)
Means(lines, t, zod) ==
    LET at == {k \in DOMAIN lines : lines[k].name = t.name}
        Declared1 == LET k == CHOOSE k \in at : TRUE
                  IN Means(IF zod THEN SubSeq(lines, 1, k - 1) ELSE SelectSeq(lines, LAMBDA l : l.name # t.name),
                           lines[k].type, zod)
        Property(p) ==
            LET m == Means(lines, p.type, zod) IN <<p.key, IF p.optional THEN [m EXCEPT !.absent = TRUE] ELSE m>>
        here == CASE t.base = "name" -> IF Cardinality(at) = 1 THEN Declared1 ELSE Broken
                  [] t.base \in {"any", "unknown"} -> [Shape("any", {}, {}) EXCEPT !.absent = TRUE, !.null = TRUE]
                  [] OTHER -> [Shape(t.base, t.labels, {Property(p) : p \in Range(t.props)}) EXCEPT !.rules = t.rules]
    IN FoldLeft(LAMBDA s, m : IF zod THEN ZodWrap(s, m) ELSE Wrap(s, m), here, t.mods)

RECURSIVE Intended(_, _, _)
Intended(objects, i, zod) ==
    LET o == objects[i]
        Property(p) ==
            LET m == Intended(objects, p.object, zod)
            IN <<p.key, IF "optional" \in objects[p.object].mods THEN [m EXCEPT !.absent = TRUE] ELSE m>>
        here == CASE o.kind = "ref" /\ o.ref # 0 -> Intended(objects, o.ref, zod)
                  [] o.kind \in {"any", "unknown"} -> [Shape("any", {}, {}) EXCEPT !.absent = TRUE, !.null = TRUE]
                  [] OTHER -> [Shape(o.kind, o.tsType.labels, {Property(p) : p \in Range(o.props)})
                                 EXCEPT !.rules = IF zod THEN o.rules ELSE {}]
    IN FoldLeft(Wrap, here, SelectSeq(<<"partial", "arrayed", "recordOf", "nullable">>, LAMBDA m : m \in o.mods))

Roots(objects) == {i \in DOMAIN objects : objects[i].name # <<>>}
Uses(objects, i) ==
    {p.object : p \in Range(objects[i].props)} \cup ({objects[i].ref} \ {0})
RECURSIVE Within(_, _)
Within(objects, S) ==
    LET more == S \cup UNION {Uses(objects, i) : i \in S} IN IF more = S THEN S ELSE Within(objects, more)
Below(objects, i) == Within(objects, Uses(objects, i))

\* What the generators refuse.
NamedProperty(objects) == \E i \in Roots(objects) : objects[i].parent # 0
UnnamedTarget(objects) ==
    \E i \in Within(objects, Roots(objects)) : objects[i].kind = "ref" /\ Target(objects, objects[i]).name = <<>>
Cyclic(objects) == \E i \in DOMAIN objects : i \in Below(objects, i)
SameNames(objects) == \E i, j \in Roots(objects) : i # j /\ TypeName(objects[i]) = TypeName(objects[j])
NamedReference(objects) == \E i \in Roots(objects) : objects[i].kind = "ref"
Unspellable(objects) == \E i \in Roots(objects) : "+" \in Range(TypeName(objects[i]))
SharedProperty(objects) ==
    \E i, j \in DOMAIN objects : \E p \in Range(objects[i].props), q \in Range(objects[j].props) :
        p.object = q.object /\ <<i, p.key>> # <<j, q.key>>

\* What the validators do not say: arrays, records, labels, big integers, optional roots; and
\* a validator that is used before it is made, or made partial although it is no plain object.
TypesOnly(objects, S) ==
    \E i \in S : \/ objects[i].mods \cap {"arrayed", "recordOf"} # {} \/ objects[i].tsType.labels # {}
                 \/ objects[i].kind = "BigInt" \/ (objects[i].parent = 0 /\ "optional" \in objects[i].mods)
                 \/ "partial" \in objects[i].mods /\ objects[i].kind # "object"
RefersAhead(objects, i) == \E j \in Within(objects, {i}) : \E k \in Below(objects, j) \cap Roots(objects) : k > i

\* One container, a type and a validator: both generators succeed unless an object is used as the
\* rules forbid, every root is declared once, the type says what the schema says, the validator
\* accepts what the type admits and the rules of its strings allow, and generating the types again writes the same.  Not so for a
\* root that is a primitive or a reference, whose type has become its own name; for a named reference
\* that is needed before its target is written, which stands for any object; and for the validator
\* of a named reference, which is declared under the name of its target.
GeneratorsAgree(c) ==
    \A t \in {GenerateTypes(c.objects)} : \A z \in {GenerateZod(t.objects)}, again \in {GenerateTypes(t.objects)} :
        LET objects == c.objects
            legal == ~NamedProperty(objects) /\ ~UnnamedTarget(objects)
            Shapes(i, lines, zod) ==
                Means(lines, Type("name", IF zod THEN ZodVariableName(objects[i]) ELSE TypeName(objects[i]), {}), zod)
            early == NamedReference(objects) /\ \E i \in Roots(objects) : RefersAhead(objects, i)
            mute == \E i \in Roots(objects) : objects[i].kind = "object" /\ objects[i].mods \cap {"recordOf"} # {}
        IN /\ \A i \in DOMAIN objects : \A r, q \in objects[i].rules : r[1] = "min" /\ q[1] = "max" => r[2] <= q[2]
           /\ t.failed => ~legal \/ Cyclic(objects) \/ Unspellable(objects)
           /\ z.failed => ~legal \/ Cyclic(objects) \/ SharedProperty(objects)
                          \/ NamedReference(objects)
           /\ ~t.failed => {l.name : l \in Range(t.lines)} = {TypeName(objects[i]) : i \in Roots(objects)}
                           /\ Len(t.lines) = Cardinality(Roots(objects))
           /\ ~t.failed /\ ~SameNames(objects) /\ ~mute /\ legal /\ ~Cyclic(objects) /\ ~early =>
                \A i \in Roots(objects) : Shapes(i, t.lines, FALSE) = Intended(objects, i, FALSE)
           /\ ~t.failed /\ ~z.failed /\ ~SameNames(objects) /\ legal /\ ~Cyclic(objects) /\ ~NamedReference(objects) =>
                \A i \in Roots(objects) :
                    RefersAhead(objects, i) \/ TypesOnly(objects, Within(objects, {i}))
                    \/ Shapes(i, z.lines, TRUE) = Intended(objects, i, TRUE)
           /\ ~t.failed /\ (\A i \in Roots(objects) : objects[i].kind = "object") =>
                ~again.failed /\ again.lines = t.lines

-----------------------------------------------------------------------------
(* The introspector.  db: relations [schema, name, kind, columns], enums     *)
(* [schema, name, labels] and domains <<schema, name>>, each sorted by schema *)
(* and name, columns and labels by name, as the query returns them; a schema  *)
(* is <<>> for public.  A column has a type, that of its elements if it is an  *)
(* array, an enum {} or {id}, and the number of domains around its type.      *)

\* COALESCE(base type, type) looks through one domain only.
SeenType(c) == IF c.domains > 1 THEN "domain" ELSE c.type
EnumOf(c) == IF c.domains > 1 THEN {} ELSE c.enum

Row(schema, relation, kind, column, type, enum) ==
    [schema |-> schema, relation |-> relation, kind |-> kind, column |-> column, type |-> type, enum |-> enum,
     array |-> FALSE, nullable |-> FALSE, default |-> FALSE]
BaseRow(r, c) ==
    [Row(r.schema, r.name, r.kind, c.name, SeenType(c), EnumOf(c)) EXCEPT
        !.array = c.array, !.nullable = c.nullable \/ r.kind = "view", !.default = c.default]
CompositeRow(r, c) ==
    [Row(r.schema, r.name, r.kind, c.name, SeenType(c), EnumOf(c)) EXCEPT !.array = c.array, !.nullable = c.nullable]
DomainRow(d) == Row(d[1], d[2], "domain type", <<"(base)">>, "text", {})

Introspection(db) ==
    LET Of(r) == [k \in DOMAIN r.columns |-> IF r.kind = "composite type" THEN CompositeRow(r, r.columns[k])
                                             ELSE BaseRow(r, r.columns[k])]
    IN FlattenSeq([i \in DOMAIN db.relations |-> Of(db.relations[i])]) \o [i \in DOMAIN db.domains |-> DomainRow(db.domains[i])]
Rows(db, kinds) == SelectSeq(Introspection(db), LAMBDA r : r.kind \in kinds)
EnumRows(db) ==
    FlattenSeq([i \in DOMAIN db.enums |->
        [k \in DOMAIN db.enums[i].labels |->
            [schema |-> db.enums[i].schema, relation |-> db.enums[i].name, column |-> db.enums[i].labels[k]]]])

\* Schema and relation are joined with "_", which both may contain.
IndexKey(schema, relation) == schema \o <<"_">> \o relation
At(entries, key) == SelectSeq(entries, LAMBDA e : e.key = key)

CreateEnumTypes(c, rows) ==
    LET Group(types, r) ==
            LET key == IndexKey(r.schema, r.relation)
            IN IF At(types, key) = <<>>
               THEN Append(types, [key |-> key, r |-> r, values |-> <<r.column>>])
               ELSE [i \in DOMAIN types |-> IF types[i].key = key THEN [types[i] EXCEPT !.values = Append(@, r.column)]
                                            ELSE types[i]]
        Made(cc, t) ==
            LET n == Len(cc.objects) + 1
                made == Create(cc, IF t.values[1] \in Numeric THEN "number" ELSE "string", t.r.schema)
            IN Named(Enum(made, n, Range(t.values)), n, t.r.relation)
    IN FoldLeft(Made, c, FoldLeft(Group, <<>>, rows))

Textual == {"text", "varchar", "char", "bpchar", "name", "uuid", "inet", "cidr", "macaddr", "macaddr8", "money",
            "bit", "varbit", "numeric", "decimal", "int8", "bigserial", "date", "time", "timetz", "tsvector",
            "tsquery", "xid8", "tid", "pg_lsn", "txid_snapshot", "regclass", "regtype", "regproc"}
MapPgTypeToTypescript(type) ==
    CASE type = "bool" -> "boolean"
      [] type \in {"json", "jsonb"} -> "unknown"
      [] type = "bytea" -> "Buffer"
      [] type \in {"int2", "int4", "serial", "float4", "float8", "oid", "xid", "cid"} -> "number"
      [] type \in {"timestamp", "timestamptz"} -> "Date"
      [] type \in Textual -> "string"
      [] OTHER -> "any"

EnumFound(c, r) == UNION {Find(c, id[1], id[2]) : id \in r.enum}
ColumnProperty(c, r) ==
    LET n == Len(c.objects) + 1
        found == EnumFound(c, r)
        made == IF r.enum = {} THEN Create(c, MapPgTypeToTypescript(r.type), r.schema)
                ELSE CreateRef(c, IF found = {} THEN 0 ELSE CHOOSE i \in found : TRUE, r.schema)
    IN [made EXCEPT !.objects[n].mods = (IF r.array THEN {"arrayed"} ELSE {})
                                        \cup (IF r.nullable THEN {"nullable", "optional"} ELSE {})
                                        \cup (IF r.default THEN {"optional"} ELSE {})]

\* The object of a relation comes with its first column.
AddColumn(acc, r) ==
    LET with == ColumnProperty(acc.c, r)
        p == Len(with.objects)
        key == IndexKey(r.schema, r.relation)
        known == At(acc.index, key)
    IN IF known # <<>> THEN [acc EXCEPT !.c = Properties(with, known[1].object, r.column, p)]
       ELSE [c |-> Properties(Named(Create(with, "object", r.schema), p + 1, r.relation), p + 1, r.column, p),
             index |-> Append(acc.index, [key |-> key, object |-> p + 1])]
CreateTypes(acc, rows) == FoldLeft(AddColumn, acc, rows)

\* Enums first, then composite types, then the relations.
Introspect(db) ==
    LET enums == CreateEnumTypes(Container, EnumRows(db))
        composites == CreateTypes([c |-> enums, index |-> <<>>], Rows(db, {"composite type"}))
    IN CreateTypes(composites, SelectSeq(Introspection(db), LAMBDA r : r.kind \notin {"composite type", "domain type"})).c

\* The constants: the columns of each relation under their names in capitals.
ConstantTypes(db) ==
    LET rows == Rows(db, {"table", "view"})
    IN {[name |-> NamedScoped([scope |-> r.schema, name |-> r.relation]),
         columns |-> {q.column : q \in {p \in Range(rows) : p.schema = r.schema /\ p.relation = r.relation}}] :
            r \in Range(rows)}
ConstantName(t) ==
    SnakeToPascalCase([k \in DOMAIN t.name |-> IF t.name[k] = "." THEN "_" ELSE t.name[k]])
Capitals(s) == [k \in DOMAIN s |-> IF s[k] \in DOMAIN Upper THEN Upper[s[k]] ELSE s[k]]
GenerateConstants(types) ==
    {[name |-> ConstantName(t), table |-> t.name, keys |-> {<<Capitals(n), n>> : n \in t.columns}] : t \in types}

\* node-postgres: what a value of the type is in JavaScript.
Value(c) ==
    CASE c.type \in {"date", "timestamp", "timestamptz"} -> "Date"
      [] c.type \in {"int2", "int4", "serial", "float4", "float8", "oid"} -> "number"
      [] c.type = "numeric" -> IF c.array THEN "number" ELSE "string"
      [] c.type = "bool" -> "boolean"
      [] c.type = "bytea" -> "Buffer"
      [] c.type \in {"json", "jsonb", "interval", "point"} -> "object"
      [] OTHER -> "string"
Unparsed(c) == c.array /\ c.enum # {}

\* Types whose values are not what the introspector says: a date is a Date, xid and cid are texts,
\* an array of an enum is a text, an array of numerics has numbers; labels that look like numbers.
Misread(db, c) ==
    \/ c.type \in {"date", "xid", "cid"} \/ Unparsed(c) \/ (c.array /\ c.type = "numeric")
    \/ \E e \in Range(db.enums) : <<e.schema, e.name>> \in c.enum /\ e.labels[1] \in Numeric

Admits(shape, base) == shape.base = "any" \/ shape.base = base
Fits(shape, c, nullable) ==
    /\ nullable => shape.null
    /\ IF c.array THEN shape.base = "array" /\ \A item \in shape.items : Admits(item[2], Value(c))
       ELSE Admits(shape, Value(c))

JoinedAlike(db, Join(_, _)) ==
    \/ \E i, j \in DOMAIN db.relations : i # j /\
          Join(db.relations[i].schema, db.relations[i].name) = Join(db.relations[j].schema, db.relations[j].name)
    \/ \E i, j \in DOMAIN db.enums : i # j /\
          Join(db.enums[i].schema, db.enums[i].name) = Join(db.enums[j].schema, db.enums[j].name)
    \/ \E i \in DOMAIN db.relations, j \in DOMAIN db.enums :
          Join(db.relations[i].schema, db.relations[i].name) = Join(db.enums[j].schema, db.enums[j].name)

\* Every relation becomes a type of its own with exactly its columns, and a row that node-postgres
\* returns is of that type, nulls, arrays, enums and domains included.  Not if two names cannot be
\* told apart once schema and relation are joined: then the introspector throws or loses a relation.
IntrospectionIsFaithful(db) ==
    \A c \in {Introspect(db)} : \A t \in {GenerateTypes(c.objects)} :
        LET TypeOf(r) ==
                Means(t.lines, Type("name", TypeName([scope |-> r.schema, name |-> r.name]), {}), FALSE)
            distinct == ~JoinedAlike(db, IndexKey) /\ ~SameNames(c.objects)
        IN /\ c.ok \/ JoinedAlike(db, LAMBDA schema, name : schema \o name) \/ JoinedAlike(db, IndexKey)
           /\ c.ok /\ distinct =>
                /\ t.failed => Unspellable(c.objects)
                /\ ~t.failed => {l.name : l \in Range(t.lines)} =
                     {TypeName([scope |-> r.schema, name |-> r.name]) : r \in Range(db.relations)}
                     \cup {TypeName([scope |-> e.schema, name |-> e.name]) : e \in Range(db.enums)}
                /\ ~t.failed => \A r \in Range(db.relations) : \A shape \in {TypeOf(r)} :
                    /\ shape.base = "object" /\ ~shape.null
                    /\ {item[1] : item \in shape.items} = {col.name : col \in Range(r.columns)}
                    /\ Cardinality(shape.items) = Len(r.columns)
                    /\ \A col \in Range(r.columns), item \in shape.items :
                        item[1] = col.name =>
                            /\ Misread(db, col) \/ Fits(item[2], col, col.nullable \/ r.kind = "view")
                            /\ col.default => item[2].absent
                            /\ item[2].base = "any" =>
                                col.domains > 1 \/ col.type \in {"json", "xml", "interval"}
           /\ LET constants == GenerateConstants(ConstantTypes(db))
                  Folded(r) == \E a, b \in Range(r.columns) : a # b /\ Capitals(a.name) = Capitals(b.name)
              IN distinct => \A r \in Range(db.relations) :
                    r.kind # "composite type" /\ ~Folded(r) =>
                        \E k \in constants :
                            /\ k.name = TypeName([scope |-> r.schema, name |-> r.name])
                            /\ \A l \in constants : l.name = k.name => l = k
                            /\ \A col \in Range(r.columns) :
                                {key[2] : key \in {q \in k.keys : q[1] = Capitals(col.name)}} = {col.name}
=============================================================================
