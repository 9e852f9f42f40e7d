----------------------------- MODULE ApiContract -----------------------------
(***************************************************************************)
(* packages/codegen/src/generator and src/api, packages/api-client/src:    *)
(* from the routes of a server to the client that calls them.  Schemas     *)
(* become JSON Schema, JSON Schema becomes TypeScript, the generator       *)
(* writes and prunes files, `blendsdk api` decides what it exits with, and *)
(* the runtime client spreads one parameter object over a path, a query    *)
(* and a body that the server merges again.                                *)
(*                                                                         *)
(* A name is a sequence of letters, an optional value is a set of at most  *)
(* one element, a map is a sequence of records with a name.                *)
(***************************************************************************)
EXTENDS Integers, Sequences, FiniteSets, TLC

LOCAL INSTANCE SequencesExt
LOCAL INSTANCE Functions

CONSTANTS Reserved       \* words that no identifier may be

-----------------------------------------------------------------------------
(* client-naming.ts.                                                       *)

\* Words that the code writes are letters of their own.
Capital == [a |-> "A", b |-> "B", c |-> "C", d |-> "D", i |-> "I", p |-> "P", u |-> "U",
            get |-> "Get", post |-> "Post", delete |-> "Delete"]
Words == {"By", "Params", "Result", "operation", "Schema", "body"}
Digits == {"1", "2"}
Upper(l) == IF l \in DOMAIN Capital THEN Capital[l] ELSE l
Lower(l) == IF l \in Range(Capital) THEN CHOOSE m \in DOMAIN Capital : Capital[m] = l ELSE l
IsAlphanumeric(l) == l \in DOMAIN Capital \cup Range(Capital) \cup Words \cup Digits
IsIdentifierPart(l) == IsAlphanumeric(l) \/ l \in {"_", "$"}

PascalCase(raw) ==
    FoldLeft(LAMBDA s, l : IF IsAlphanumeric(l)
                           THEN [out |-> Append(s.out, IF s.first THEN Upper(l) ELSE l), first |-> FALSE]
                           ELSE [s EXCEPT !.first = TRUE],
             [out |-> <<>>, first |-> TRUE], raw).out

SanitizeIdentifier(raw) ==
    LET Replaced == [i \in DOMAIN raw |-> IF IsIdentifierPart(raw[i]) THEN raw[i] ELSE "_"]
        Prefixed(name) == IF name = <<>> THEN <<"_", "operation">>
                          ELSE IF name[1] \in Digits THEN <<"_">> \o name ELSE name
        Unreserved(name) == IF name \in Reserved THEN Append(name, "_") ELSE name
    IN Unreserved(Prefixed(Replaced))

\* A path is a sequence of segments: literal words and {parameters}.
WithoutApi(path) ==
    IF path # <<>> /\ [i \in DOMAIN path[1].name |-> Lower(path[1].name[i])] = <<"a", "p", "i">>
    THEN Tail(path) ELSE path

Braced(segment) == IF segment.param THEN <<"{">> \o segment.name \o <<"}">> ELSE segment.name

DeriveGroupName(tags, path) ==
    LET Camel(pascal) == [i \in DOMAIN pascal |-> IF i = 1 THEN Lower(pascal[i]) ELSE pascal[i]]
        Segment(rest) == IF rest # <<>> THEN Braced(rest[1]) ELSE <<"d">>
    IN SanitizeIdentifier(Camel(PascalCase(IF tags # <<>> THEN tags[1] ELSE Segment(WithoutApi(path)))))

RenderFallbackSegment(segment) ==
    IF segment.param THEN <<"By">> \o PascalCase(segment.name) ELSE PascalCase(segment.name)

FallbackMethodName(group, method, path) ==
    LET rest == WithoutApi(path)
    IN SanitizeIdentifier(group \o PascalCase(<<method>>)
         \o FlattenSeq([i \in 1..(IF rest = <<>> THEN 0 ELSE Len(rest) - 1) |-> RenderFallbackSegment(rest[i + 1])]))

TypeAliasName(group, methodName, suffix) ==
    SanitizeIdentifier(PascalCase(group) \o PascalCase(methodName) \o <<suffix>>)

\* A component keeps a name that is an identifier.
ComponentTypeName(raw) ==
    LET normalized == IF /\ raw # <<>> /\ raw[1] \notin Digits
                         /\ \A i \in DOMAIN raw : IsIdentifierPart(raw[i]) THEN raw ELSE PascalCase(raw)
    IN SanitizeIdentifier(IF normalized = <<>> THEN <<"Schema">> ELSE normalized)

-----------------------------------------------------------------------------
(* JSON Schema, and what it accepts (external: Zod and the draft).  A       *)
(* reference is local to one conversion, or names a component.             *)

Schema == [ref |-> [to |-> "none", name |-> <<>>], types |-> {}, fields |-> <<>>, extra |-> <<>>,
           items |-> <<>>, any |-> <<>>, all |-> <<>>, enum |-> {}]

Named(map, name) == map[CHOOSE i \in DOMAIN map : map[i].name = name]
Has(map, name) == \E i \in DOMAIN map : map[i].name = name
NamesOf(map) == {map[i].name : i \in DOMAIN map}

\* A value: text stands for a string, a number and so on.
Value == [kind |-> "null", text |-> "", items |-> <<>>, fields |-> <<>>]

RECURSIVE Accepts(_, _, _)
Accepts(defs, s, v) ==
    IF s.ref.to # "none" THEN Has(defs, s.ref.name) /\ Accepts(defs, Named(defs, s.ref.name).schema, v)
    ELSE /\ s.enum # {} => v \in s.enum
         /\ \A i \in DOMAIN s.all : Accepts(defs, s.all[i], v)
         /\ s.any # <<>> => \E i \in DOMAIN s.any : Accepts(defs, s.any[i], v)
         /\ s.types # {} => v.kind \in s.types \/ (v.kind = "number" /\ "integer" \in s.types)
         /\ v.kind = "array" => \A i \in DOMAIN v.items, j \in DOMAIN s.items : Accepts(defs, s.items[j], v.items[i])
         /\ v.kind = "object" =>
              /\ \A i \in DOMAIN s.fields : s.fields[i].required => Has(v.fields, s.fields[i].name)
              /\ \A i \in DOMAIN v.fields :
                    IF Has(s.fields, v.fields[i].name)
                    THEN Accepts(defs, Named(s.fields, v.fields[i].name).schema, v.fields[i].value)
                    ELSE \A j \in DOMAIN s.extra : Accepts(defs, s.extra[j], v.fields[i].value)

Parts(s) == [i \in DOMAIN s.fields |-> s.fields[i].schema] \o s.extra \o s.items \o s.any \o s.all

RECURSIVE Refs(_)
Refs(s) == {s.ref} \cup UNION {Refs(p) : p \in Range(Parts(s))}

-----------------------------------------------------------------------------
(* zod-to-openapi.ts.                                                      *)

IsNullSchema(s) == s = [Schema EXCEPT !.types = {"null"}]

\* The enum is forgotten to be checked: the fixed values shut null out.
FoldEveryUnion(s) ==
    LET nulls == SelectSeq(s.any, IsNullSchema)
        values == SelectSeq(s.any, LAMBDA b : ~IsNullSchema(b))
    IN IF Len(nulls) = 1 /\ Len(values) = 1 /\ values[1].types # {}
       THEN [values[1] EXCEPT !.types = @ \cup {"null"}] ELSE s

\* anyOf [T, null] becomes the type list [T, null], where T has a type and no fixed values.
\* Of what stands beside the anyOf Zod only writes annotations.
FoldNullableUnion(s) ==
    LET nulls == SelectSeq(s.any, IsNullSchema)
        values == SelectSeq(s.any, LAMBDA b : ~IsNullSchema(b))
    IN IF Len(nulls) = 1 /\ Len(values) = 1 /\ values[1].enum = {} /\ values[1].types # {}
       THEN [values[1] EXCEPT !.types = @ \cup {"null"}] ELSE s

RECURSIVE NormalizeJsonSchema(_)
NormalizeJsonSchema(s) ==
    LET All(list) == [i \in DOMAIN list |-> NormalizeJsonSchema(list[i])]
    IN FoldNullableUnion(
        [s EXCEPT !.fields = [i \in DOMAIN @ |-> [@[i] EXCEPT !.schema = NormalizeJsonSchema(@)]],
                  !.extra = All(@), !.items = All(@), !.any = All(@), !.all = All(@)])

\* What Zod makes of a schema: a root, and definitions that are local to it.
ConvertZodToJsonSchema(zod) ==
    [root |-> NormalizeJsonSchema(zod.root),
     defs |-> [i \in DOMAIN zod.defs |-> [zod.defs[i] EXCEPT !.schema = NormalizeJsonSchema(@)]]]

\* The object a query schema is: itself, or the first object of a union.
AsObjectSchema(s) ==
    IF "object" \in s.types THEN {s}
    ELSE LET objects == {i \in DOMAIN s.any : s.any[i].types = {"object"}}
         IN {s.any[i] : i \in {j \in objects : \A k \in objects : j <= k}}

\* One parameter for every property.  The definitions of the object are left behind.
ConvertZodToQueryParameters(zod) ==
    LET Of(o) == [i \in DOMAIN o.fields |->
                    [role |-> "query", status |-> 0, name |-> o.fields[i].name, required |-> o.fields[i].required,
                     schema |-> <<[root |-> o.fields[i].schema, defs |-> <<>>]>>]]
    IN FlattenSeq(SetToSeq({Of(o) : o \in AsObjectSchema(ConvertZodToJsonSchema(zod).root)}))

ContainsLocalReference(s) == \E r \in Refs(s) : r.to = "local"

\* The definition that comes first keeps the name.
ResolveFirstName(name, definition, schemas) == name

\* The name a definition gets: its own, if it is free or has the same definition without local
\* references, and otherwise the first Name_2, Name_3, ... that is free.
ResolveDefinitionName(name, definition, schemas) ==
    LET Candidate(n) == name \o <<"_", ToString(n)>>
        Free(n) == ~Has(schemas, Candidate(n))
    IN IF ~Has(schemas, name) THEN name
       ELSE IF /\ ~ContainsLocalReference(definition) /\ ~ContainsLocalReference(Named(schemas, name).schema)
               /\ Named(schemas, name).schema = definition THEN name
       ELSE Candidate(CHOOSE n \in 2..(Len(schemas) + 2) : Free(n) /\ \A m \in 2..(n - 1) : ~Free(m))

Put(map, entry) ==
    IF Has(map, entry.name)
    THEN [i \in DOMAIN map |-> IF map[i].name = entry.name THEN entry ELSE map[i]] ELSE Append(map, entry)

\* The references of a schema by a map from local names to components.
RECURSIVE Rewrite(_, _)
Rewrite(s, to) ==
    LET All(list) == [i \in DOMAIN list |-> Rewrite(list[i], to)]
    IN [s EXCEPT !.ref = IF @.to = "local" /\ Has(to, @.name)
                         THEN [to |-> "component", name |-> Named(to, @.name).final] ELSE @,
                 !.fields = [i \in DOMAIN @ |-> [@[i] EXCEPT !.schema = Rewrite(@, to)]],
                 !.extra = All(@), !.items = All(@), !.any = All(@), !.all = All(@)]

RewriteRenamedReferences(s, rename) == Rewrite(s, rename)

\* What is still local becomes the component of the same name.
RewriteReferences(s) ==
    Rewrite(s, SetToSeq({[name |-> r.name, final |-> r.name] : r \in {x \in Refs(s) : x.to = "local"}}))

\* One conversion of the document: its definitions move to the components under their final
\* names, and what refers to a renamed one follows.
CollectAndRename(schemas, converted) ==
    LET Collect(w, d, final) ==
            [schemas |-> Put(w.schemas, [name |-> final, schema |-> d.schema]),
             rename |-> IF final = d.name THEN w.rename ELSE Append(w.rename, [name |-> d.name, final |-> final]),
             own |-> w.own \cup {final}]
        Renamed(walk) ==
            [root |-> RewriteRenamedReferences(converted.root, walk.rename),
             schemas |-> [i \in DOMAIN walk.schemas |->
                            IF walk.schemas[i].name \in walk.own
                            THEN [walk.schemas[i] EXCEPT !.schema = RewriteRenamedReferences(@, walk.rename)]
                            ELSE walk.schemas[i]]]
    IN Renamed(FoldLeft(LAMBDA w, d : Collect(w, d, ResolveDefinitionName(d.name, d.schema, w.schemas)),
                        [schemas |-> schemas, rename |-> <<>>, own |-> {}], converted.defs))

\* The conversions of a document in its order.  A local reference that is left is refused; none
\* can be, unless there is no component at all.
HoistDefinitions(conversions) ==
    LET Collect(w, x) == [schemas |-> x.schemas, roots |-> Append(w.roots, x.root)]
        Rewritten(walk) ==
            [components |-> [i \in DOMAIN walk.schemas |-> [walk.schemas[i] EXCEPT !.schema = RewriteReferences(@)]],
             roots |-> [i \in DOMAIN walk.roots |->
                          IF walk.schemas = <<>> THEN walk.roots[i] ELSE RewriteReferences(walk.roots[i])]]
        Checked(s) == [ok |-> \A i \in DOMAIN s.roots : ~ContainsLocalReference(s.roots[i]),
                       roots |-> s.roots, components |-> s.components]
    IN Checked(Rewritten(FoldLeft(LAMBDA w, c : Collect(w, CollectAndRename(w.schemas, c)),
                                  [schemas |-> <<>>, roots |-> <<>>], conversions)))

\* A schema with its references followed n deep.
RECURSIVE Unfold(_, _, _)
Unfold(defs, s, n) ==
    IF s.ref.to # "none"
    THEN IF n = 0 \/ ~Has(defs, s.ref.name) THEN Schema ELSE Unfold(defs, Named(defs, s.ref.name).schema, n - 1)
    ELSE LET All(list) == [i \in DOMAIN list |-> Unfold(defs, list[i], n)]
         IN [s EXCEPT !.fields = [i \in DOMAIN @ |-> [@[i] EXCEPT !.schema = Unfold(defs, @, n)]],
                      !.extra = All(@), !.items = All(@), !.any = All(@), !.all = All(@)]

\* zod-to-openapi.ts: renaming "prevents one operation's schema from silently overwriting
\* another's".  Wherever a schema is used in the document it means what its own conversion
\* meant, however many conversions number their definitions alike.
HoistingKeepsMeaning(conversions, depth) ==
    \A hoisted \in {HoistDefinitions(conversions)} :
        /\ hoisted.ok
        /\ \A i \in DOMAIN conversions :
             Unfold(hoisted.components, hoisted.roots[i], depth)
                 = Unfold(conversions[i].defs, conversions[i].root, depth)
        /\ Cardinality(NamesOf(hoisted.components)) = Len(hoisted.components)

-----------------------------------------------------------------------------
(* client-schema.ts: TypeScript, and what it admits (external).            *)

Type(kind) == [kind |-> kind, name |-> <<>>, value |-> Value, of |-> <<>>, fields |-> <<>>]
Unknown == Type("unknown")
Reference(name) == [Type("named") EXCEPT !.name = ComponentTypeName(name)]

\* The types of the members once each.
Unique(members) ==
    FoldLeft(LAMBDA list, t : IF t \in Range(list) THEN list ELSE Append(list, t), <<>>, members)
Joined(kind, members) == IF Len(members) = 1 THEN members[1] ELSE [Type(kind) EXCEPT !.of = members]
Union(members) == Joined("union", Unique(members))
Intersection(members) ==
    LET known == Unique(SelectSeq(members, LAMBDA t : t # Unknown))
    IN IF known = <<>> THEN Unknown ELSE Joined("intersection", known)

NeedsParentheses(t) == t.kind \in {"union", "intersection"}
ArrayOf(t) == [Type("array") EXCEPT !.of = <<t>>]

ArrayTypeBare(item) ==
    IF NeedsParentheses(item) THEN [item EXCEPT !.of[Len(item.of)] = ArrayOf(@)] ELSE ArrayOf(item)

\* The text `a | b[]` is the union of a and an array.
ArrayType(item) ==
    IF NeedsParentheses(item) THEN ArrayOf(item) ELSE ArrayOf(item)
Literal(v) == IF v.kind \in {"array", "object"} THEN Unknown ELSE [Type("literal") EXCEPT !.value = v]

RECURSIVE SchemaToType(_)

\* Declared properties, and an index signature for the rest; without properties a Record.
ObjectType(s) ==
    IF s.fields = <<>>
    THEN [Type("record") EXCEPT !.of = IF s.extra = <<>> THEN <<Unknown>> ELSE <<SchemaToType(s.extra[1])>>]
    ELSE [Type("object") EXCEPT
            !.fields = [i \in DOMAIN s.fields |-> [name |-> s.fields[i].name, required |-> s.fields[i].required,
                                                   type |-> SchemaToType(s.fields[i].schema)]],
            !.of = [i \in DOMAIN s.extra |-> SchemaToType(s.extra[i])]]

BaseType(s, types) ==
    IF "object" \in types \/ s.fields # <<>> \/ s.extra # <<>> THEN ObjectType(s)
    ELSE IF "array" \in types \/ s.items # <<>>
    THEN ArrayType(IF s.items = <<>> THEN Unknown ELSE SchemaToType(s.items[1]))
    ELSE IF Cardinality(types) # 1 THEN Unknown
    ELSE Type(IF types = {"integer"} THEN "number" ELSE CHOOSE t \in types : TRUE)

SchemaToType(s) ==
    LET Each(list) == [i \in DOMAIN list |-> SchemaToType(list[i])]
        Nullable(base) == IF "null" \in s.types THEN Union(<<base, Type("null")>>) ELSE base
        Literals(values) == [i \in DOMAIN values |-> Literal(values[i])]
    IN IF s.ref.to # "none" THEN Reference(s.ref.name)
       ELSE IF s.enum # {} THEN Union(Literals(SetToSeq(s.enum)))
       ELSE IF s.all # <<>> THEN Intersection(<<SchemaToType([s EXCEPT !.all = <<>>])>> \o Each(s.all))
       ELSE IF s.any # <<>> THEN Union(Each(s.any))
       ELSE Nullable(BaseType(s, s.types \ {"null"}))

RECURSIVE NamedIn(_)
NamedIn(t) ==
    (IF t.kind = "named" THEN {t.name} ELSE {})
    \cup UNION ({NamedIn(t.of[i]) : i \in DOMAIN t.of} \cup {NamedIn(t.fields[i].type) : i \in DOMAIN t.fields})

\* aliases: the types a file exports.
RECURSIVE Admits(_, _, _)
Admits(aliases, t, v) ==
    CASE t.kind = "unknown" -> TRUE
      [] t.kind \in {"string", "number", "boolean", "null"} -> v.kind = t.kind
      [] t.kind = "literal" -> v = t.value
      [] t.kind = "named" -> Has(aliases, t.name) /\ Admits(aliases, Named(aliases, t.name).type, v)
      [] t.kind = "union" -> \E i \in DOMAIN t.of : Admits(aliases, t.of[i], v)
      [] t.kind = "intersection" -> \A i \in DOMAIN t.of : Admits(aliases, t.of[i], v)
      [] t.kind = "array" -> v.kind = "array" /\ \A i \in DOMAIN v.items : Admits(aliases, t.of[1], v.items[i])
      [] t.kind = "record" -> v.kind = "object" /\ \A i \in DOMAIN v.fields : Admits(aliases, t.of[1], v.fields[i].value)
      [] t.kind = "object" ->
            /\ v.kind = "object"
            /\ \A i \in DOMAIN t.fields : t.fields[i].required => Has(v.fields, t.fields[i].name)
            /\ \A i \in DOMAIN v.fields :
                 IF Has(t.fields, v.fields[i].name)
                 THEN Admits(aliases, Named(t.fields, v.fields[i].name).type, v.fields[i].value)
                 ELSE \A j \in DOMAIN t.of : Admits(aliases, t.of[j], v.fields[i].value)

ComponentAliases(components) ==
    [i \in DOMAIN components |-> [name |-> ComponentTypeName(components[i].name),
                                  type |-> SchemaToType(components[i].schema)]]

\* What the schema of the server accepts survives the folding of null, and the type a client
\* sees admits it: a caller can write every request, and read every answer, that is valid.
TypesAdmitValues(zod, values) ==
    \A converted \in {ConvertZodToJsonSchema(zod)} :
        \A hoisted \in {HoistDefinitions(<<converted>>)} :
            \A aliases \in {ComponentAliases(hoisted.components)}, type \in {SchemaToType(hoisted.roots[1])}, v \in values :
                /\ Accepts(zod.defs, zod.root, v) <=> Accepts(converted.defs, converted.root, v)
                /\ Accepts(zod.defs, zod.root, v) => Admits(aliases, type, v)

-----------------------------------------------------------------------------
(* openapi-generator.ts.  A use is a place where an operation has a schema. *)

IsQueryParamMethod(method) == method \in {"get", "delete"}

BuildFullPath(base, path) == base \o path

StringSchema == [root |-> [Schema EXCEPT !.types = {"string"}], defs |-> <<>>]

BuildParameters(route) ==
    LET params == SelectSeq(BuildFullPath(route.base, route.path), LAMBDA s : s.param)
        Given(n) == IF Has(route.pathParams, n) THEN ConvertZodToJsonSchema(Named(route.pathParams, n).schema) ELSE StringSchema
    IN [i \in DOMAIN params |-> [role |-> "path", status |-> 0, name |-> params[i].name, required |-> TRUE,
                                 schema |-> <<Given(params[i].name)>>]]
       \o (IF IsQueryParamMethod(route.method)
           THEN FlattenSeq([i \in DOMAIN route.validation |-> ConvertZodToQueryParameters(route.validation[i])])
           ELSE <<>>)

BuildRequestBody(route) ==
    IF IsQueryParamMethod(route.method) THEN <<>>
    ELSE [i \in DOMAIN route.validation |->
            [role |-> "body", status |-> 0, name |-> <<>>, required |-> TRUE,
             schema |-> <<ConvertZodToJsonSchema(route.validation[i])>>]]

\* The last answer that is documented for a status counts.
BuildResponses(route) ==
    FoldLeft(LAMBDA list, a :
                LET use == [role |-> "response", status |-> a.status, name |-> <<>>, required |-> TRUE,
                            schema |-> [i \in DOMAIN a.schema |-> ConvertZodToJsonSchema(a.schema[i])]]
                IN Append(SelectSeq(list, LAMBDA u : u.status # a.status), use),
             <<>>, route.answers)

BuildOperation(route) ==
    [path |-> BuildFullPath(route.base, route.path), method |-> route.method, id |-> route.id,
     tags |-> route.tags, envelope |-> route.envelope,
     uses |-> BuildParameters(route) \o BuildRequestBody(route) \o BuildResponses(route)]

\* Routes without metadata are left out, and the last of two routes for one path and method
\* takes the place of the first.
BuildPaths(routes) ==
    LET Same(o, op) == o.path = op.path /\ o.method = op.method
        Place(ops, op) == IF \E i \in DOMAIN ops : Same(ops[i], op)
                          THEN [i \in DOMAIN ops |-> IF Same(ops[i], op) THEN op ELSE ops[i]] ELSE Append(ops, op)
    IN FoldLeft(LAMBDA ops, r : Place(ops, BuildOperation(r)), <<>>, SelectSeq(routes, LAMBDA r : r.documented))

\* The document, with the schemas of every use in the order of the document.
Generate(routes) ==
    LET Places(ops) == FlattenSeq([i \in DOMAIN ops |->
            SelectSeq([k \in DOMAIN ops[i].uses |-> <<i, k>>], LAMBDA p : ops[p[1]].uses[p[2]].schema # <<>>)])
        Document(ops, places, hoisted) ==
            [ok |-> hoisted.ok, components |-> hoisted.components,
             operations |-> [i \in DOMAIN ops |-> [ops[i] EXCEPT
                 !.uses = [k \in DOMAIN @ |->
                     [@[k] EXCEPT !.schema = IF @ = <<>> THEN @
                                             ELSE <<hoisted.roots[CHOOSE n \in DOMAIN places : places[n] = <<i, k>>]>>]]]]]
        Hoisted(ops, places) ==
            Document(ops, places, HoistDefinitions([n \in DOMAIN places |-> ops[places[n][1]].uses[places[n][2]].schema[1]]))
        Placed(ops) == Hoisted(ops, Places(ops))
    IN Placed(BuildPaths(routes))

-----------------------------------------------------------------------------
(* client-generator.ts: operations.                                        *)

UsesOf(op, role) == SelectSeq(op.uses, LAMBDA u : u.role = role)

ResolveObjectSchema(components, s) ==
    LET IsObject(t) == "object" \in t.types \/ t.fields # <<>>
    IN IF s.ref.to = "none" THEN {t \in {s} : IsObject(t)}
       ELSE {t \in {components[i].schema : i \in {j \in DOMAIN components : components[j].name = s.ref.name}} : IsObject(t)}

\* Path, query and the properties of the body side by side; the first of two equal names stays.
CollectParameters(components, op) ==
    LET Of(u) == [name |-> u.name, type |-> SchemaToType(u.schema[1]), required |-> u.role = "path" \/ u.required]
        Properties(o) == [i \in DOMAIN o.fields |->
            [name |-> o.fields[i].name, required |-> o.fields[i].required, type |-> SchemaToType(o.fields[i].schema)]]
        Whole(u) == <<[name |-> <<"body">>, type |-> SchemaToType(u.schema[1]), required |-> u.required]>>
        Spread(u, objects) == IF objects = {} THEN Whole(u) ELSE Properties(CHOOSE o \in objects : TRUE)
        Body(u) == Spread(u, {o \in ResolveObjectSchema(components, u.schema[1]) : o.fields # <<>>})
        Each(params, bodies) == [i \in DOMAIN params |-> Of(params[i])] \o FlattenSeq([i \in DOMAIN bodies |-> Body(bodies[i])])
        Counted(all, kept) == [properties |-> kept, dropped |-> Len(all) > Len(kept)]
        Distinct(all) ==
            Counted(all, FoldLeft(LAMBDA list, p : IF Has(list, p.name) THEN list ELSE Append(list, p), <<>>, all))
    IN Distinct(Each(UsesOf(op, "path") \o UsesOf(op, "query"), UsesOf(op, "body")))

\* The schema of the lowest success status that has one.
SuccessSchema(op) ==
    LET good == {u \in Range(UsesOf(op, "response")) : u.status \in 200..299 /\ u.schema # <<>>}
    IN {u.schema[1] : u \in {x \in good : \A y \in good : x.status <= y.status}}

ResolveResult(op, alias, schemas) ==
    LET Aliased(t) == [type |-> [Type("named") EXCEPT !.name = alias], defines |-> <<[name |-> alias, type |-> t]>>,
                       untyped |-> schemas = {}]
        Plain(t) == [type |-> t, defines |-> <<>>, untyped |-> schemas = {}]
        Item == IF schemas = {} THEN Unknown ELSE SchemaToType(CHOOSE s \in schemas : TRUE)
        references == {s.ref : s \in schemas}
    IN IF op.envelope = "body" THEN Aliased([Type("page") EXCEPT !.of = <<Item>>])
       ELSE IF schemas = {} \/ \E r \in references : r.to # "none" THEN Plain(Item)
       ELSE Aliased(Item)

Issue(op, what, escalates) == [what |-> what, method |-> op.method, path |-> op.path, escalates |-> escalates]

\* One operation after those that were collected before it.
Collected(s, op, group, methodName, params, parameters, result) ==
    LET named == op.id # <<>>
        taken == parameters.properties # <<>>
        duplicate == \E i \in DOMAIN s.operations :
                        LET o == s.operations[i] IN (named /\ o.op.id = op.id) \/ (o.group = group /\ o.methodName = methodName)
        If(c, issue) == IF c THEN <<issue>> ELSE <<>>
    IN [ok |-> s.ok /\ ~duplicate,
        issues |-> s.issues \o If(~named, Issue(op, "no operationId", TRUE))
                   \o If(named /\ <<methodName>> # op.id, Issue(op, "renamed", FALSE))
                   \o If(parameters.dropped, Issue(op, "duplicate parameter", FALSE))
                   \o If(result.untyped, Issue(op, "untyped", TRUE)),
        operations |-> Append(s.operations,
            [op |-> op, group |-> group, methodName |-> methodName, parameters |-> parameters.properties,
             result |-> result.type, params |-> If(taken, params),
             defines |-> If(taken, [name |-> params, type |-> [Type("object") EXCEPT !.fields = parameters.properties]])
                         \o result.defines])]

CollectOperation(components, s, op) ==
    LET Methods(group, methodName) ==
            Collected(s, op, group, methodName, TypeAliasName(group, methodName, "Params"), CollectParameters(components, op),
                      ResolveResult(op, TypeAliasName(group, methodName, "Result"), SuccessSchema(op)))
        Grouped(group) ==
            Methods(group, IF op.id # <<>> THEN SanitizeIdentifier(op.id[1]) ELSE FallbackMethodName(group, op.method, op.path))
    IN Grouped(DeriveGroupName(op.tags, op.path))

CollectOperations(document) ==
    FoldLeft(LAMBDA s, op : CollectOperation(document.components, s, op),
             [ok |-> TRUE, issues |-> <<>>, operations |-> <<>>], document.operations)

FinalizeIssues(issues, escalate) ==
    [i \in DOMAIN issues |-> [issue |-> issues[i], error |-> escalate /\ issues[i].escalates]]
HasErrors(issues) == \E i \in DOMAIN issues : issues[i].error

-----------------------------------------------------------------------------
(* client-generator.ts: files.  A file has the marker of the generator or  *)
(* not, and a text: here the types it exports and imports, its methods and *)
(* the groups whose clients it puts together.                              *)

Text(exports, imports, methods, groups) ==
    [exports |-> exports, imports |-> imports, methods |-> methods, groups |-> groups]
Generated(text) == [kind |-> "file", marked |-> TRUE, text |-> <<text>>]

EmitTypesFile(document, operations) ==
    Text(ComponentAliases(document.components) \o FlattenSeq([i \in DOMAIN operations |-> operations[i].defines]),
         {}, <<>>, {})

\* The names a file needs from types.ts.
CollectLocalTypeNames(operations) ==
    UNION {{o.defines[i].name : i \in DOMAIN o.defines} \cup NamedIn(o.result) : o \in Range(operations)}

EmitClientFile(operations) == Text(<<>>, CollectLocalTypeNames(operations), operations, {})
EmitGroupFile(group, operations) == EmitClientFile(SelectSeq(operations, LAMBDA o : o.group = group))

EmitFiles(document, operations, splitByGroup) ==
    LET groups == {operations[i].group : i \in DOMAIN operations}
    IN <<[name |-> <<"types">>, content |-> Generated(EmitTypesFile(document, operations))]>>
       \o (IF splitByGroup
           THEN LET list == SetToSeq(groups) IN
                [i \in DOMAIN list |-> [name |-> <<"client", list[i]>>,
                                        content |-> Generated(EmitGroupFile(list[i], operations))]]
                \o <<[name |-> <<"client">>, content |-> Generated(Text(<<>>, {}, <<>>, groups))]>>
           ELSE <<[name |-> <<"client">>, content |-> Generated(EmitClientFile(operations))]>>)
       \o <<[name |-> <<"index">>, content |-> Generated(Text(<<>>, {}, <<>>, {}))]>>

\* Regular files that start with the marker.
ListMarkerFiles(directory) ==
    {directory[i].name : i \in {j \in DOMAIN directory : directory[j].content.kind = "file" /\ directory[j].content.marked}}

\* A directory in the place of a file stops the writing.
WriteFiles(directory, files) ==
    FoldLeft(LAMBDA s, f :
                IF ~s.ok THEN s
                ELSE IF Has(s.directory, f.name) /\ Named(s.directory, f.name).content.kind # "file"
                THEN [s EXCEPT !.ok = FALSE]
                ELSE [s EXCEPT !.directory = Put(@, f)],
             [ok |-> TRUE, directory |-> directory], files)

\* What was generated once stays.
PruneNothing(directory, keep) == directory

PruneStaleFiles(directory, keep) ==
    LET stale == ListMarkerFiles(directory) \ keep
    IN SelectSeq(directory, LAMBDA f : f.name \notin stale)

\* A document with the operations that generateClient and checkClient both collect first.
Collect(documents) == {[document |-> d, collected |-> CollectOperations(d)] : d \in documents}

\* generateClient: refused issues leave the directory as it was.
GenerateClient(api, options, directory) ==
    LET Written(files) == WriteFiles(PruneStaleFiles(directory, NamesOf(files)), files)
    IN IF ~api.collected.ok \/ HasErrors(FinalizeIssues(api.collected.issues, options.strict))
       THEN [ok |-> FALSE, directory |-> directory]
       ELSE Written(EmitFiles(api.document, api.collected.operations, options.splitByGroup))

\* checkClient: every warning that escalates is an error here.
CheckClient(api, options, directory) ==
    LET Current(f) == Has(directory, f.name) /\ Named(directory, f.name).content = f.content
        Drifted(expected) ==
            (\E f \in Range(expected) : ~Current(f)) \/ ListMarkerFiles(directory) \ NamesOf(expected) # {}
    IN [ok |-> api.collected.ok,
        drifted |-> \/ Drifted(EmitFiles(api.document, api.collected.operations, options.splitByGroup))
                   \/ HasErrors(FinalizeIssues(api.collected.issues, TRUE))]

-----------------------------------------------------------------------------
(* api-client: request.ts, client.ts and envelope.ts.                      *)

\* Values in a URL are text.
StringifyValue(v) ==
    [Value EXCEPT !.kind = "string",
                  !.text = CASE v.kind = "null" -> "" [] v.kind \in {"array", "object"} -> "json" [] OTHER -> v.text]

ExtractPathParamNames(path) == {path[i].name : i \in {j \in DOMAIN path : path[j].param}}

OmitNothing(path, params) == params

OmitPathParams(path, params) == SelectSeq(params, LAMBDA p : p.name \notin ExtractPathParamNames(path))

\* A path parameter without a value is refused before anything is sent.
ResolvePath(path, params) ==
    [ok |-> \A n \in ExtractPathParamNames(path) : Has(params, n) /\ Named(params, n).value.kind # "null",
     values |-> FlattenSeq([i \in DOMAIN params |->
                    IF params[i].name \in ExtractPathParamNames(path)
                    THEN <<[params[i] EXCEPT !.value = StringifyValue(@)]>> ELSE <<>>])]

\* An array is its items, one after the other.
SerializeQuery(params) ==
    FlattenSeq([i \in DOMAIN params |->
        IF params[i].value.kind = "array"
        THEN [k \in DOMAIN params[i].value.items |-> [params[i] EXCEPT !.value = StringifyValue(params[i].value.items[k])]]
        ELSE <<[params[i] EXCEPT !.value = StringifyValue(@)]>>])

HasBody(method) == method \notin {"get", "delete"}

\* What request() hands to the adapter.
Request(op, params) ==
    LET path == ResolvePath(op.path, params)
        rest == OmitPathParams(op.path, params)
    IN [ok |-> path.ok, path |-> path.values, query |-> IF HasBody(op.method) THEN <<>> ELSE SerializeQuery(rest),
        body |-> IF HasBody(op.method) THEN rest ELSE <<>>]

\* The server (webafx request-params and the query parser): a repeated name is a list, the query
\* covers the path and the body covers both.
ParseQuery(query) ==
    LET Of(n) == SelectSeq(query, LAMBDA q : q.name = n)
        Parsed(n) == IF Len(Of(n)) = 1 THEN Of(n)[1].value
                     ELSE [Value EXCEPT !.kind = "array", !.items = [i \in DOMAIN Of(n) |-> Of(n)[i].value]]
    IN {[name |-> n, value |-> Parsed(n)] : n \in NamesOf(query)}
Over(low, high) == {e \in low : e.name \notin {x.name : x \in high}} \cup high
ServerSees(request) == Over(Over(Range(request.path), ParseQuery(request.query)), Range(request.body))

\* ok() and created() of the base controller, and unwrapResponse.
Respond(v) == [Value EXCEPT !.kind = "object", !.fields = <<[name |-> <<"data">>, value |-> v]>>]
UnwrapResponse(envelope, body) ==
    IF envelope = "data" /\ body.kind = "object" /\ Has(body.fields, <<"data">>)
    THEN Named(body.fields, <<"data">>).value ELSE body

-----------------------------------------------------------------------------
(* api/config.ts.  chain: the directories from the start up to the root.   *)

\* The nearest configuration file; a repository ends the search.
SearchParents(chain) ==
    LET Found(i) == chain[i].config = "file"
    IN {i \in DOMAIN chain : Found(i) /\ \A j \in 1..(i - 1) : ~Found(j) /\ ~chain[j].git}

\* An explicit path is a configuration, or a directory to start from.
FindApiConfig(explicit, chain) ==
    IF explicit = {} \/ explicit = {"directory"} THEN SearchParents(chain)
    ELSE IF explicit = {"file"} THEN {1} ELSE {}

\* What a key must hold.  An optional one may be absent, and unknown keys are refused only at the
\* top and in generator.
Kinds(key) ==
    CASE key \in {"outputDir", "basePath", "title", "version", "url"} -> {"text"}
      [] key \in {"contractFile", "description", "name", "scheme", "bearerFormat", "clientName", "runtimeImport"} ->
            {"text", "absent"}
      [] key \in {"splitByGroup", "strict"} -> {"boolean", "absent"}
      [] key = "controllers" -> {"list"}
      [] key = "controller" -> {"function"}
      [] key = "openapi" -> {"record"}
      [] key \in {"securitySchemes", "generator"} -> {"record", "absent"}
      [] key \in {"servers", "defaultSecurity"} -> {"list", "absent"}
      [] key = "type" -> {"scheme type"}
      [] key = "in" -> {"location", "absent"}
      [] key = "scopes" -> {"texts"}
      [] OTHER -> {}

\* leaves: every key of the loaded object with the kind of its value.
ValidateContract(leaves) == \A l \in leaves : l.kind \in Kinds(l.key)

\* A path is absolute or not, its names may be "..".
ResolvedNames(directory, path) ==
    FoldLeft(LAMBDA at, n : IF n # ".." THEN Append(at, n) ELSE IF at = <<>> THEN at ELSE Front(at),
             IF path.absolute THEN <<>> ELSE directory, path.names)

ResolveConfiguredPath(directory, path) ==
    LET at == ResolvedNames(directory, path)
    IN IF (~path.absolute /\ ~IsPrefix(directory, at)) \/ at = <<>> THEN {} ELSE {at}

LoadApiContract(input) ==
    LET outputs == ResolveConfiguredPath(input.directory, input.outputDir)
    IN {at \in outputs : FindApiConfig(input.explicit, input.chain) # {} /\ ValidateContract(input.leaves)}

-----------------------------------------------------------------------------
(* api/cli.ts.                                                             *)

\* The route of a command line: none, or an action and the last --config.
RECURSIVE RouteFrom(_, _)
RouteFrom(argv, route) ==
    IF argv = <<>> THEN {route}
    ELSE IF argv[1] # "--config" \/ Len(argv) = 1 THEN {}
    ELSE IF argv[2] \in {"--config", "-x", ""} THEN {}
    ELSE RouteFrom(SubSeq(argv, 3, Len(argv)), [route EXCEPT !.config = {argv[2]}])
ParseRoute(argv) ==
    IF Len(argv) < 2 THEN {}
    ELSE IF argv[1] # "api" \/ argv[2] \notin {"generate", "check"} THEN {}
    ELSE RouteFrom(SubSeq(argv, 3, Len(argv)), [action |-> argv[2], config |-> {}])
IsHelpRequest(argv) == argv \in {<<"api", "--help">>, <<"api", "-h">>}

\* The client first, then the contract.  contract: the documents that the file may hold.
RunGenerate(api, options, files) ==
    LET Wrote(client) ==
            [exit |-> IF client.ok THEN 0 ELSE 1,
             files |-> [directory |-> client.directory, contract |-> IF client.ok THEN <<api.document>> ELSE files.contract]]
    IN Wrote(GenerateClient(api, options, files.directory))

RunCheck(api, options, files) ==
    LET Exit(client) == IF client.ok /\ ~client.drifted /\ files.contract = <<api.document>> THEN 0 ELSE 1
    IN [exit |-> Exit(CheckClient(api, options, files.directory)), files |-> files]

\* api: what buildDocument makes of the controllers of the contract.
Main(argv, input, api, options, files) ==
    LET Answer(exit) == [exit |-> exit, files |-> files]
    IN IF IsHelpRequest(argv) THEN Answer(0)
       ELSE IF ParseRoute(argv) = {} \/ LoadApiContract(input) = {} THEN Answer(2)
       ELSE IF ~api.document.ok THEN Answer(1)
       ELSE IF \E r \in ParseRoute(argv) : r.action = "generate" THEN RunGenerate(api, options, files)
       ELSE RunCheck(api, options, files)

-----------------------------------------------------------------------------

\* Two of the names that types.ts would export are one identifier.
NamesClash(exports) == Cardinality(NamesOf(exports)) < Len(exports)

\* Every name that a type or a method needs is exported, and imported where it is used.
Compiles(files) ==
    LET exports == Named(files, <<"types">>).content.text[1].exports
    IN /\ \A i \in DOMAIN exports : NamedIn(exports[i].type) \subseteq NamesOf(exports)
       /\ \A i \in DOMAIN files :
            LET text == files[i].content.text[1] IN
            /\ text.imports \subseteq NamesOf(exports)
            /\ \A k \in DOMAIN text.methods :
                NamedIn(text.methods[k].result) \cup Range(text.methods[k].params) \subseteq text.imports
            /\ \A g \in text.groups : Has(files, <<"client", g>>)

\* A caller fills in what the server asks for, by the names and with the requirements of the
\* route's own schema, and a client has a method for every documented route.
CallsFit(operation, params) ==
    LET op == operation.op
        text == IF HasBody(op.method) THEN ExtractPathParamNames(op.path) ELSE NamesOf(params)
        Arrives(sees, n, v) ==
            \/ [name |-> n, value |-> v] \in sees
            \/ n \in text /\ v.kind # "array" /\ [name |-> n, value |-> StringifyValue(v)] \in sees
            \/ n \in text /\ v.kind = "array" /\ (v.items = <<>> \/ \E e \in sees : e.name = n)
    IN /\ \A n \in ExtractPathParamNames(op.path) : \E p \in Range(operation.parameters) :
            /\ p.name = n /\ p.required
            /\ \E u \in Range(UsesOf(op, "path")) : u.name = n /\ p.type = SchemaToType(u.schema[1])
       /\ \A request \in {Request(op, params)} : request.ok =>
            /\ ExtractPathParamNames(op.path) \cap (NamesOf(request.query) \cup NamesOf(request.body)) = {}
            /\ \A sees \in {ServerSees(request)} :
                /\ NamesOf(SetToSeq(sees)) \subseteq NamesOf(params)
                /\ \A i \in DOMAIN params : Arrives(sees, params[i].name, params[i].value)

\* usage.md: the params object mirrors "the server's merged validation object".  The client of a
\* document has a method for each of its routes, its files need no name they do not export, what
\* a caller passes reaches the server's validation whole and under its own name, whether it
\* travels in the path, the query or the body, and the result has the type of the answer.
OperationFits(document, aliases, o, calls, values) ==
    /\ \A params \in calls : CallsFit(o, params)
    /\ \A s \in SuccessSchema(o.op), v \in values :
        Accepts(document.components, s, v) /\ o.op.envelope = "data" =>
            Admits(aliases, o.result, UnwrapResponse(o.op.envelope, Respond(v)))

ClientMatchesServer(routes, options, calls, values) ==
    \A api \in Collect({Generate(routes)}) :
        api.document.ok /\ api.collected.ok =>
            /\ Len(api.collected.operations) = Cardinality({<<BuildFullPath(r.base, r.path), r.method>> :
                                                          r \in {x \in Range(routes) : x.documented}})
            /\ \A files \in {EmitFiles(api.document, api.collected.operations, options.splitByGroup)} :
                 LET aliases == Named(files, <<"types">>).content.text[1].exports IN
                 /\ Compiles(files)
                 /\ ~NamesClash(aliases) =>
                      \A o \in Range(api.collected.operations) : OperationFits(api.document, aliases, o, calls, values)

\* usage.md: `blendsdk api check` fails "on any drift".  A check passes only on what generate
\* would write, and passes after it did unless an issue escalates; a refusal writes nothing; no
\* file that a person wrote is deleted; and a configuration that is used is the nearest one, with
\* its outputs inside its directory.
CheckSeesDrift(argv, input, api, options, files) ==
    LET clean == ~HasErrors(FinalizeIssues(api.collected.issues, TRUE))
        generated == \E r \in ParseRoute(argv) : r.action = "generate"
        ByHand(f) == ~(f.content.kind = "file" /\ f.content.marked)
    IN /\ \A run \in {Main(argv, input, api, options, files)} :
            /\ run.exit = 2 \/ ~generated => run.files = files
            /\ run.exit = 1 =>
                 /\ run.files = files \/ \E f \in Range(files.directory) : f.content.kind = "directory"
                 /\ run.files.contract = files.contract
            /\ \A f \in Range(files.directory) : ByHand(f) => Has(run.files.directory, f.name)
            /\ run.exit = 0 /\ ~IsHelpRequest(argv) =>
                 IF generated THEN RunCheck(api, options, run.files).exit = 0 <=> clean
                 ELSE \A generate \in {RunGenerate(api, options, files)} :
                        /\ generate.exit = 0
                        /\ Range(generate.files.directory) = Range(files.directory)
                        /\ generate.files.contract = files.contract
       /\ \A at \in LoadApiContract(input) :
            /\ at # <<>> /\ (~input.outputDir.absolute => IsPrefix(input.directory, at))
            /\ input.explicit # {"file"} => \A i \in SearchParents(input.chain) : \A j \in 1..(i - 1) : ~input.chain[j].git

=============================================================================
