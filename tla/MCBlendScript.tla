---------------------------- MODULE MCBlendScript ----------------------------
(* BlendScript on two fields, f and the name n]d, and trees of two operators. *)
EXTENDS Integers, Sequences, FiniteSets, TLC

B == INSTANCE BlendScript WITH
        MaxSource <- 40, MaxTokens <- 13, MaxString <- 2, MaxFieldName <- 3, MaxFields <- 2,
        MaxNesting <- 2, MaxSteps <- 7,
        BuiltinNames <- {<<<<"i">>, "isblank">>, <<<<"l">>, "lower">>, <<<<"t">>, "text">>,
                         <<<<"n">>, "trynumber">>, <<<<"e">>, "equalsignorecase">>}

f == <<"f">>
g == <<"n", "]", "d">>

Literal(v) == B!Node("literal", v, <<>>)
Number(n) == B!Value("number", n)
String(text) == B!Value("string", text)
True == B!Value("boolean", TRUE)
Leaves == {B!Node("identifier", f, <<>>), B!Node("field", g, <<>>),
           Literal(Number(1)), Literal(String(<<"A">>)), Literal(True), Literal(B!Null)}

Unary(l) == {B!Node("unary", "not", <<l>>)}
            \cup {B!Node("call", name, <<l>>) : name \in {"isblank", "lower", "text", "trynumber"}}
            \cup {B!Node("membership", <<Number(12), String(<<"A">>)>>, <<l>>),
                  B!Node("membership", <<B!Null>>, <<l>>)}
Binary(l, r) == {B!Node("binary", o, <<l, r>>) : o \in {"or", "and", "equal", "less"}}
                \cup {B!Node("call", "equalsignorecase", <<l, r>>)}
Grow(S, T) == UNION {Unary(l) : l \in S} \cup UNION {Binary(l, r) : l \in S, r \in T}
Subtrees == Leaves \cup Grow(Leaves, {Literal(True), Literal(B!Null)})
Trees(l) == Unary(l) \cup UNION {Binary(l, r) \cup Binary(r, l) : r \in Leaves}

Entry(name, type, nullable) == [name |-> name, type |-> type, nullable |-> nullable]
Schema == {<<Entry(f, t, n), Entry(g, "string", TRUE)>> : t \in {"boolean", "scalar"}, n \in BOOLEAN}
Values == {B!Null, Number(12), String(<<"1">>), String(<<"a", " ", "\"">>), True}
Records == {f :> v @@ g :> w : v \in Values, w \in {B!Null, String(<<" ", "\\">>)}}
Other == f :> Number(2) @@ g :> String(<<>>)

Starts == {[of |-> "subtree", subtree |-> l] : l \in Subtrees}
Inputs(p) == {[of |-> "script", tree |-> t] : t \in Trees(p.subtree)}
Holds(p) == B!ScriptIsSound(p.tree, Schema, {{}, {"boolean"}, {"number"}}, Records, Other)
==============================================================================
