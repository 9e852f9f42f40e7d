---------------------------- MODULE MCApiContract ----------------------------
(***************************************************************************)
(* Instances of ApiContract: schemas of two levels, conversions that number *)
(* their definitions alike, routes that share a path, names that become    *)
(* the same identifier, and output directories with files of all kinds.    *)
(***************************************************************************)
EXTENDS Integers, Sequences, FiniteSets, TLC

Reserved == {<<"d", "a">>}

INSTANCE ApiContract

-----------------------------------------------------------------------------
(* Schemas and values.                                                     *)

Of(types) == [Schema EXCEPT !.types = types]
Local(name) == [Schema EXCEPT !.ref = [to |-> "local", name |-> name]]
ObjectOf(fields) == [Of({"object"}) EXCEPT !.fields = fields]
Field(name, required, s) == [name |-> name, required |-> required, schema |-> s]
Zod(root, defs) == [root |-> root, defs |-> defs]
Def(name, s) == [name |-> name, schema |-> s]

V(kind, text) == [Value EXCEPT !.kind = kind, !.text = text]
Arr(items) == [Value EXCEPT !.kind = "array", !.items = items]
Obj(fields) == [Value EXCEPT !.kind = "object", !.fields = fields]
Entry(name, v) == [name |-> name, value |-> v]

Scalars == {V("null", ""), V("string", "x"), V("number", "1")}
Simple == Scalars \cup {Arr(<<>>), Obj(<<>>)} \cup {Arr(<<v>>) : v \in Scalars}
          \cup {Obj(<<Entry(<<"a">>, v)>>) : v \in Scalars}
Values == Simple \cup {Arr(<<v>>) : v \in Simple} \cup {Arr(<<V("null", ""), V("number", "1")>>)}
          \cup {Obj(<<Entry(<<"a">>, v)>>) : v \in Simple}
          \cup {Obj(<<Entry(<<"a">>, V("number", "1")), Entry(<<"b">>, v)>>) : v \in Simple}

Leaves ==
    {Schema, Of({"string"}), Of({"integer"}), Of({"null"}), [Schema EXCEPT !.enum = {V("string", "x")}],
     [Of({"string"}) EXCEPT !.enum = {V("string", "x"), V("string", "y")}], Local(<<"a">>)}
Nodes(parts, others) ==
    UNION {{[Of({"array"}) EXCEPT !.items = <<p>>], ObjectOf(<<Field(<<"a">>, TRUE, p)>>),
            ObjectOf(<<Field(<<"a">>, FALSE, p)>>), [Of({"object"}) EXCEPT !.extra = <<p>>],
            [ObjectOf(<<Field(<<"a">>, TRUE, p)>>) EXCEPT !.extra = <<Of({"string"})>>]} : p \in parts}
    \cup {[Schema EXCEPT !.any = <<p, q>>] : p \in parts, q \in others}
    \cup {[Schema EXCEPT !.all = <<p, q>>] : p \in parts, q \in others}

Level1 == Leaves \cup Nodes(Leaves, Leaves)
Alias == Def(<<"a">>, ObjectOf(<<Field(<<"b">>, FALSE, Of({"string"}))>>))

HoistDefs ==
    {<<>>, <<Def(<<"s">>, Of({"string"}))>>, <<Def(<<"s">>, Of({"integer"}))>>,
     <<Def(<<"s">>, Of({"string"})), Def(<<"t">>, ObjectOf(<<Field(<<"a">>, TRUE, Local(<<"s">>))>>))>>,
     <<Def(<<"s">>, Of({"integer"})), Def(<<"t">>, ObjectOf(<<Field(<<"a">>, TRUE, Local(<<"s">>))>>))>>,
     <<Def(<<"s">>, Of({"integer"})), Def(<<"s", "_", "2">>, Local(<<"s">>))>>,
     <<Def(<<"s", "_", "2">>, Of({"null"})), Def(<<"s">>, Of({"integer"}))>>}
Conversions ==
    UNION {{[root |-> IF ds = <<>> THEN Of({"number"})
                      ELSE ObjectOf([i \in DOMAIN ds |-> Field(<<"a", ToString(i)>>, TRUE, Local(ds[i].name))]),
             defs |-> ds]} : ds \in HoistDefs}

-----------------------------------------------------------------------------
(* Routes.  Query schemas refer to no definition: see the README.          *)

Seg(name) == [param |-> FALSE, name |-> name]
Par(name) == [param |-> TRUE, name |-> name]
Answer(status, schemas) == [status |-> status, schema |-> schemas]
Route(method, path, validation) ==
    [base |-> <<Seg(<<"a", "p", "i">>)>>, path |-> path, method |-> method, id |-> <<>>, tags |-> <<>>,
     validation |-> validation, pathParams |-> <<>>, answers |-> <<>>, envelope |-> "data", documented |-> TRUE]

Plain == Zod(ObjectOf(<<Field(<<"a">>, TRUE, Of({"string"})), Field(<<"b">>, FALSE, [Of({"array"}) EXCEPT !.items = <<Of({"integer"})>>])>>), <<>>)
WithId == Zod(ObjectOf(<<Field(<<"i", "d">>, TRUE, Of({"integer"})), Field(<<"a">>, FALSE, Of({"integer"}))>>), <<>>)
Choice == Zod([Schema EXCEPT !.any = <<Plain.root, WithId.root>>], <<>>)
Shared(s) == Zod(ObjectOf(<<Field(<<"a">>, TRUE, Local(<<"s">>))>>), <<Def(<<"s">>, s)>>)
RootRef == Zod(Local(<<"u", "-", "1">>), <<Def(<<"u", "-", "1">>, Plain.root)>>)

users == <<Seg(<<"u">>)>>
user == <<Seg(<<"u">>), Par(<<"i", "d">>)>>

Bodies == {<<>>, <<Plain>>, <<WithId>>, <<Choice>>, <<Shared(Of({"string"}))>>, <<Shared(Of({"integer"}))>>, <<RootRef>>}
Queries == {<<>>, <<Plain>>, <<WithId>>, <<Choice>>}
Answers == {<<>>, <<Answer(200, <<Plain>>)>>, <<Answer(201, <<Shared(Of({"null"}))>>), Answer(200, <<>>)>>,
            <<Answer(404, <<WithId>>), Answer(201, <<RootRef>>)>>, <<Answer(200, <<Plain>>), Answer(200, <<WithId>>)>>}
First == {Route("get", path, v) : path \in {users, user}, v \in Queries}
         \cup {Route("post", path, v) : path \in {users, user}, v \in Bodies}
Variants(r) == {r, [r EXCEPT !.documented = FALSE], [r EXCEPT !.pathParams = <<Def(<<"i", "d">>, Shared(Of({"null"})))>>]}
               \cup {[r EXCEPT !.answers = list] : list \in Answers}
               \cup {[r EXCEPT !.id = <<i>>, !.tags = tags] : i \in {<<"a">>, <<"d", "a">>, <<"a", "-", "b">>}, tags \in {<<>>, <<<<"u">>>>, <<<<"1", "b">>, <<"u">>>>}}
Second == UNION {Variants(r) : r \in {Route("get", user, <<>>), Route("post", users, <<Shared(Of({"integer"}))>>),
                                      Route("delete", user, <<WithId>>)}}

Called == {V("string", "x"), V("null", ""), Arr(<<>>), Arr(<<V("number", "1")>>), Arr(<<V("number", "1"), V("number", "2")>>), Obj(<<>>)}
Calls == {<<Entry(<<"a">>, v)>> : v \in Called} \cup {<<Entry(<<"i", "d">>, v)>> : v \in Called}
         \cup {<<Entry(<<"i", "d">>, v), Entry(<<"b">>, w)>> : v \in {V("string", "x")}, w \in Called}
Results == {Obj(<<>>), Obj(<<Entry(<<"a">>, V("string", "x"))>>), Obj(<<Entry(<<"a">>, V("null", ""))>>),
            Obj(<<Entry(<<"i", "d">>, V("number", "1"))>>)}

Option(strict, split) == [strict |-> strict, splitByGroup |-> split]

-----------------------------------------------------------------------------
(* Commands.                                                               *)

ListUsers == [Route("get", users, <<Plain>>) EXCEPT !.id = <<<<"a">>>>, !.answers = <<Answer(200, <<Plain>>)>>]
Lists == {<<ListUsers>>, <<ListUsers, [Route("post", users, <<RootRef>>) EXCEPT !.tags = <<<<"b">>>>]>>,
          <<ListUsers, [ListUsers EXCEPT !.path = user]>>}
Apis == UNION {{[list |-> list, api |-> a] : a \in Collect({Generate(list)})} : list \in Lists \cup {<<>>}}
ApisOf(list) == {x.api : x \in {y \in Apis : y.list = list}}

Hand == [kind |-> "file", marked |-> FALSE, text |-> <<>>]
Stale == [kind |-> "file", marked |-> TRUE, text |-> <<>>]
Extra == {<<>>} \cup {<<[name |-> n, content |-> c]>> :
            n \in {<<"client">>, <<"other">>, <<"client", <<"u">>>>},
            c \in {Hand, Stale, [kind |-> "directory", marked |-> FALSE, text |-> <<>>]}}
\* An output that was generated before, or not, with another file in it.
Written(api, options, extra) ==
    LET Kept(client) == IF client.ok THEN SelectSeq(client.directory, LAMBDA f : ~Has(extra, f.name)) ELSE <<>>
    IN {[directory |-> Kept(client) \o extra, contract |-> IF client.ok THEN <<api.document>> ELSE <<>>] :
          client \in {GenerateClient(api, options, <<>>)}}

Dir(config, git) == [config |-> config, git |-> git]
Chains == {<<x, y>> : x, y \in {Dir(c, g) : c \in {"file", "missing"}, g \in BOOLEAN}}
Leaf(key, kind) == [key |-> key, kind |-> kind]
Good == [explicit |-> {}, chain |-> <<Dir("missing", FALSE), Dir("file", TRUE)>>, directory |-> <<"p">>,
         outputDir |-> [absolute |-> FALSE, names |-> <<"out">>], leaves |-> {Leaf("outputDir", "text"), Leaf("title", "text")}]
Inputs ==
    {[Good EXCEPT !.explicit = e, !.chain = c] : e \in {{}, {"file"}, {"directory"}, {"missing"}}, c \in Chains}
    \cup {[Good EXCEPT !.outputDir = [absolute |-> a, names |-> n]] :
            a \in BOOLEAN, n \in {<<>>, <<"..">>, <<"..", "d">>, <<"..", "p", "out">>, <<"out", "..", "..">>}}
    \cup {[Good EXCEPT !.leaves = {l}] : l \in
            {Leaf(k, v) : k \in {"outputDir", "contractFile", "strict", "controllers", "in", "other"},
                          v \in {"text", "absent", "boolean", "list", "empty"}}}
Argvs == {<<"api", "generate">>, <<"api", "check">>, <<"api", "-h">>, <<"api">>, <<"migrate", "check">>,
          <<"api", "check", "--config">>, <<"api", "check", "--config", "-x">>, <<"api", "check", "other", "p">>,
          <<"api", "generate", "--config", "p">>}

Start == {[of |-> "parts", schema |-> s] : s \in Level1}
         \cup {[of |-> "conversions", list |-> <<c>>] : c \in Conversions}
         \cup {[of |-> "routes", list |-> <<r>>] : r \in First}
         \cup {[of |-> "output", list |-> list, options |-> Option(strict, split), extra |-> <<>>,
                 before |-> [list |-> list, options |-> Option(strict, split)]] :
                   list \in Lists \cup {<<>>}, strict \in BOOLEAN, split \in BOOLEAN}

Steps(p) ==
    CASE p.of = "parts" -> {[of |-> "zod", schema |-> s] : s \in Nodes({p.schema}, Leaves)}
      [] p.of = "conversions" -> IF Len(p.list) = 3 THEN {} ELSE
            {[of |-> "conversions", list |-> Append(p.list, c)] : c \in Conversions}
      [] p.of = "routes" -> IF Len(p.list) = 2 THEN {} ELSE
            {[of |-> "routes", list |-> Append(p.list, r)] : r \in Second}
      [] p.of = "output" ->
            {[of |-> "command", before |-> [list |-> p.list, options |-> p.options], list |-> list,
              options |-> Option(strict, split), extra |-> extra] :
                 list \in Lists, strict \in BOOLEAN, split \in BOOLEAN, extra \in Extra}
      [] OTHER -> {}

Holds(p) ==
    /\ p.of = "zod" => TypesAdmitValues(Zod(p.schema, <<Alias>>), Values)
    /\ p.of = "conversions" => HoistingKeepsMeaning(p.list, 2)
    /\ p.of = "routes" => \A split \in BOOLEAN : ClientMatchesServer(p.list, Option(FALSE, split), Calls, Results)
    /\ p.of \in {"output", "command"} => \A before \in ApisOf(p.before.list), api \in ApisOf(p.list) :
         \A files \in Written(before, p.before.options, p.extra),
            argv \in IF p.of = "output" THEN {<<"api", "generate">>, <<"api", "check">>} ELSE Argvs,
            input \in IF p.of = "output" THEN Inputs ELSE {Good} :
                CheckSeesDrift(argv, input, api, p.options, files)
=============================================================================
