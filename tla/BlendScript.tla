------------------------------ MODULE BlendScript ------------------------------
(***************************************************************************)
(* packages/blendscript: source text to tokens, tokens to a tree, the      *)
(* analysis of the tree against a schema, and its evaluation on a record.  *)
(*                                                                         *)
(* Text is a sequence of characters.  The four digits of a unicode escape  *)
(* are one character: "hex", or "hexHigh" and "hexLow" for surrogates,     *)
(* which are "high" and "low" when they stand for themselves.  A number is *)
(* a sign and digits.  A value is [t |-> its type, v |-> it].  Positions   *)
(* and messages of the diagnostics are left out, their codes are not.      *)
(***************************************************************************)
EXTENDS Integers, Sequences, FiniteSets, SequencesExt

CONSTANTS MaxSource, MaxTokens, MaxString, MaxFieldName, MaxFields, MaxNesting, MaxSteps

Lower == <<"a", "d", "e", "f", "i", "l", "n", "o", "r", "s", "t", "u">>
Upper == <<"A", "D", "E", "F", "I", "L", "N", "O", "R", "S", "T", "U">>
Digits == <<"0", "1", "2">>
Blanks == {" "}
Breaks == {"\n", "\r"}
Quote == "\""
Backslash == "\\"

IsIdentifierStart(c) == c \in Range(Lower) \cup Range(Upper) \cup {"_"}
IsIdentifierPart(c) == IsIdentifierStart(c) \/ c \in Range(Digits)
Swap(from, to, text) ==
    [k \in DOMAIN text |-> IF text[k] \in Range(from)
                           THEN to[CHOOSE j \in DOMAIN from : from[j] = text[k]] ELSE text[k]]
ToUpper(text) == Swap(Lower, Upper, text)
ToLower(text) == Swap(Upper, Lower, text)

Value(t, v) == [t |-> t, v |-> v]
Null == Value("null", <<>>)
At(s, i) == IF i \in DOMAIN s THEN s[i] ELSE "end"
Slice(s, i, n) == SubSeq(s, i, IF i + n - 1 <= Len(s) THEN i + n - 1 ELSE Len(s))
Fail(code) == [ok |-> FALSE, code |-> code]

-----------------------------------------------------------------------------
(* lexer.ts                                                                *)

Token(kind, value) == [kind |-> kind, value |-> value]

Keywords == {<<<<"T","R","U","E">>, Token("true", Value("boolean", TRUE))>>,
             <<<<"F","A","L","S","E">>, Token("false", Value("boolean", FALSE))>>,
             <<<<"N","U","L","L">>, Token("null", Null)>>,
             <<<<"A","N","D">>, Token("and", Null)>>, <<<<"O","R">>, Token("or", Null)>>,
             <<<<"N","O","T">>, Token("not", Null)>>, <<<<"I","N">>, Token("in", Null)>>}
Twos == {<<<<"=","=">>, "equal">>, <<<<"!","=">>, "notEqual">>, <<<<"<","=">>, "lessEqual">>,
         <<<<">","=">>, "greaterEqual">>, <<<<"&","&">>, "and">>, <<<<"|","|">>, "or">>}
Ones == {<<<<"(">>, "leftParen">>, <<<<")">>, "rightParen">>, <<<<",">>, "comma">>,
         <<<<"<">>, "less">>, <<<<">">>, "greater">>, <<<<"!">>, "not">>}

\* The first place from i on whose character is not in S.
RECURSIVE Past(_, _, _)
Past(source, i, S) == IF At(source, i) \in S THEN Past(source, i + 1, S) ELSE i

Escapes == {<<Quote, Quote>>, <<Backslash, Backslash>>, <<"n", "\n">>, <<"r", "\r">>, <<"t", "\t">>}

\* A string from its first character to its quote: surrogates come in pairs, escaped or not.
RECURSIVE LexString(_, _, _)
LexString(source, i, value) ==
    LET c == At(source, i)
        second == At(source, i + 1)
        pair == <<"high", "low">>
    IN CASE Len(value) > MaxString -> Fail("BS_STRING_LITERAL_TOO_LONG")
         [] c = Quote -> [ok |-> TRUE, token |-> Token("string", Value("string", value)), next |-> i + 1]
         [] c = Backslash /\ (\E e \in Escapes : e[1] = second) ->
                LexString(source, i + 2, Append(value, (CHOOSE e \in Escapes : e[1] = second)[2]))
         [] c = Backslash /\ second = "u" /\ At(source, i + 2) = "hex" ->
                LexString(source, i + 3, Append(value, "hex"))
         [] c = Backslash /\ second = "u"
            /\ Slice(source, i + 2, 4) = <<"hexHigh", Backslash, "u", "hexLow">> ->
                LexString(source, i + 6, value \o pair)
         [] c = "high" /\ second = "low" -> LexString(source, i + 2, value \o pair)
         [] c \in Breaks \cup {Backslash, "high", "low", "end"} -> Fail("BS_INVALID_STRING")
         [] OTHER -> LexString(source, i + 1, Append(value, c))

\* A name between brackets, where ]] stands for one of them.
RECURSIVE LexField(_, _, _)
LexField(source, i, value) ==
    CASE Len(value) > MaxFieldName -> Fail("BS_FIELD_NAME_TOO_LONG")
      [] At(source, i) = "]" /\ At(source, i + 1) = "]" -> LexField(source, i + 2, Append(value, "]"))
      [] At(source, i) = "]" /\ value # <<>> ->
            [ok |-> TRUE, token |-> Token("field", value), next |-> i + 1]
      [] At(source, i) \in {"]", "end"} -> Fail("BS_UNEXPECTED_TOKEN")
      [] OTHER -> LexField(source, i + 1, Append(value, source[i]))

Natural(digits) ==
    FoldLeft(LAMBDA n, c : 10 * n + ((CHOOSE k \in DOMAIN Digits : Digits[k] = c) - 1), 0, digits)
Number(text) == IF Head(text) = "-" THEN 0 - Natural(Tail(text))
                ELSE Natural(IF Head(text) = "+" THEN Tail(text) ELSE text)
\* matchDecimalNumberPrefix: where the number that starts at i ends; i when there is none.
NumberEnd(source, i) ==
    LET first == IF At(source, i) \in {"+", "-"} THEN i + 1 ELSE i
        next == Past(source, first, Range(Digits))
    IN IF next = first THEN i ELSE next

LexNumber(source, i) ==
    LET next == NumberEnd(source, i)
    IN IF IsIdentifierPart(At(source, next)) \/ At(source, next) = "." THEN Fail("BS_INVALID_NUMBER")
       ELSE [ok |-> TRUE, next |-> next,
             token |-> Token("number", Value("number", Number(SubSeq(source, i, next - 1))))]

LexIdentifier(source, i) ==
    LET next == Past(source, i, Range(Lower) \cup Range(Upper) \cup Range(Digits) \cup {"_"})
        word == SubSeq(source, i, next - 1)
        keyword == {k \in Keywords : k[1] = ToUpper(word)}
    IN [ok |-> TRUE, next |-> next,
        token |-> IF keyword = {} THEN Token("identifier", word) ELSE (CHOOSE k \in keyword : TRUE)[2]]

LexOperator(source, i) ==
    LET Of(table, n) == {o \in table : o[1] = Slice(source, i, n)}
        two == Of(Twos, 2)
        one == Of(Ones, 1)
    IN IF two # {} THEN [ok |-> TRUE, next |-> i + 2, token |-> Token((CHOOSE o \in two : TRUE)[2], Null)]
       ELSE IF one # {} THEN [ok |-> TRUE, next |-> i + 1, token |-> Token((CHOOSE o \in one : TRUE)[2], Null)]
       ELSE Fail("BS_INVALID_CHARACTER")

RECURSIVE LexFrom(_, _, _)
LexFrom(source, i, tokens) ==
    LET c == source[i]
        one == CASE c = Quote -> LexString(source, i + 1, <<>>)
                 [] c = "[" -> LexField(source, i + 1, <<>>)
                 [] NumberEnd(source, i) > i -> LexNumber(source, i)
                 [] IsIdentifierStart(c) -> LexIdentifier(source, i)
                 [] OTHER -> LexOperator(source, i)
    IN CASE i > Len(source) -> [ok |-> TRUE, tokens |-> Append(tokens, Token("eof", Null))]
         [] c \in Blanks \cup Breaks -> LexFrom(source, i + 1, tokens)
         [] ~one.ok -> one
         [] Len(tokens) = MaxTokens -> Fail("BS_TOKEN_LIMIT_EXCEEDED")
         [] OTHER -> LexFrom(source, one.next, Append(tokens, one.token))

Lex(source) == IF Len(source) > MaxSource THEN Fail("BS_SOURCE_TOO_LONG") ELSE LexFrom(source, 1, <<>>)

-----------------------------------------------------------------------------
(* parser.ts.  A node has its kind, what it is about, and its operands.    *)

Node(kind, value, operands) == [kind |-> kind, value |-> value, operands |-> operands]
Found(node, at) == [ok |-> TRUE, node |-> node, at |-> at]
Unexpected == Fail("BS_UNEXPECTED_TOKEN")

Literals == {"number", "string", "true", "false", "null"}
Comparisons == {"equal", "notEqual", "less", "lessEqual", "greater", "greaterEqual"}

Definition(parameters, type, nullable, acceptsNull) ==
    [parameters |-> parameters, type |-> type, nullable |-> nullable, acceptsNull |-> acceptsNull]
\* BUILTINS, with words for their names.  contains stands for startsWith and endsWith as well, and
\* lower for upper.
Builtins ==
    [isblank |-> Definition(<<"string">>, "boolean", FALSE, TRUE),
     contains |-> Definition(<<"string", "string">>, "boolean", FALSE, FALSE),
     equalsignorecase |-> Definition(<<"string", "string">>, "boolean", FALSE, FALSE),
     trim |-> Definition(<<"string">>, "string", FALSE, FALSE),
     lower |-> Definition(<<"string">>, "string", FALSE, FALSE),
     length |-> Definition(<<"string">>, "number", FALSE, FALSE),
     trynumber |-> Definition(<<"scalar">>, "number", TRUE, TRUE),
     text |-> Definition(<<"scalar">>, "string", FALSE, FALSE)]

\* Their names in the source: a letter each.
CONSTANT BuiltinNames       \* a set of <<word, name in Builtins>>
BuiltinName(word) ==
    LET named == {b \in BuiltinNames : b[1] = ToLower(word)}
    IN IF named = {} THEN "none" ELSE (CHOOSE b \in named : TRUE)[2]

RECURSIVE ParseOr(_, _, _), ParseAnd(_, _, _), ParseNot(_, _, _), ParseArguments(_, _, _, _),
          ParseMembers(_, _, _)

ParseNested(nesting, inner) == IF nesting >= MaxNesting THEN Fail("BS_NESTING_LIMIT_EXCEEDED") ELSE inner

\* Arguments after a "(" at i - 1, up to and with the ")".
ArgumentsFrom(ts, i, nesting, arguments, one) ==
    CASE arguments = <<>> /\ ts[i].kind = "rightParen" -> Found(<<>>, i + 1)
      [] ~one.ok -> one
      [] ts[one.at].kind = "rightParen" -> Found(Append(arguments, one.node), one.at + 1)
      [] ts[one.at].kind # "comma" -> Unexpected
      [] OTHER -> ParseArguments(ts, one.at + 1, nesting, Append(arguments, one.node))
ParseArguments(ts, i, nesting, arguments) ==
    ArgumentsFrom(ts, i, nesting, arguments, ParseOr(ts, i, nesting))

Grouped(ts, e) ==
    IF ~e.ok THEN e ELSE IF ts[e.at].kind # "rightParen" THEN Unexpected ELSE Found(e.node, e.at + 1)
Over(kind, value, e) == IF e.ok THEN Found(Node(kind, value, e.node), e.at) ELSE e

ParsePrimary(ts, i, nesting) ==
    LET t == ts[i]
        call == BuiltinName(t.value)
    IN CASE t.kind \in Literals -> Found(Node("literal", t.value, <<>>), i + 1)
         [] t.kind = "field" -> Found(Node("field", t.value, <<>>), i + 1)
         [] t.kind = "identifier" /\ ts[i + 1].kind # "leftParen" ->
                Found(Node("identifier", t.value, <<>>), i + 1)
         [] t.kind = "identifier" ->
                IF call = "none" THEN Unexpected
                ELSE ParseNested(nesting, Over("call", call, ParseArguments(ts, i + 2, nesting + 1, <<>>)))
         [] t.kind = "leftParen" -> ParseNested(nesting, Grouped(ts, ParseOr(ts, i + 1, nesting + 1)))
         [] OTHER -> Unexpected

Operand(e) == IF e.ok THEN Found(<<e.node>>, e.at) ELSE e
ParseNot(ts, i, nesting) ==
    IF ts[i].kind # "not" THEN ParsePrimary(ts, i, nesting)
    ELSE ParseNested(nesting, Over("unary", "not", Operand(ParseNot(ts, i + 1, nesting + 1))))

ParseMembers(ts, i, members) ==
    CASE ts[i].kind \notin Literals -> Unexpected
      [] ts[i + 1].kind = "rightParen" -> Found(Append(members, ts[i].value), i + 2)
      [] ts[i + 1].kind # "comma" -> Unexpected
      [] OTHER -> ParseMembers(ts, i + 2, Append(members, ts[i].value))

Joined(operator, left, right) ==
    IF right.ok THEN Found(Node("binary", operator, <<left.node, right.node>>), right.at) ELSE right

ComparisonFrom(ts, left, nesting) ==
    LET operator == ts[left.at].kind
    IN CASE ~left.ok -> left
         [] operator \in Comparisons -> Joined(operator, left, ParseNot(ts, left.at + 1, nesting))
         [] operator # "in" -> left
         [] ts[left.at + 1].kind # "leftParen" -> Unexpected
         [] OTHER -> LET members == ParseMembers(ts, left.at + 2, <<>>)
                     IN IF members.ok THEN Found(Node("membership", members.node, <<left.node>>), members.at)
                        ELSE members
ParseComparison(ts, i, nesting) == ComparisonFrom(ts, ParseNot(ts, i, nesting), nesting)

\* A level of left-associative operators, after its first operand.
RECURSIVE LevelFrom(_, _, _, _)
LevelFrom(ts, operator, left, nesting) ==
    IF ~left.ok \/ ts[left.at].kind # operator THEN left
    ELSE LevelFrom(ts, operator,
                   Joined(operator, left, IF operator = "and" THEN ParseComparison(ts, left.at + 1, nesting)
                                          ELSE ParseAnd(ts, left.at + 1, nesting)), nesting)
ParseAnd(ts, i, nesting) == LevelFrom(ts, "and", ParseComparison(ts, i, nesting), nesting)
ParseOr(ts, i, nesting) == LevelFrom(ts, "or", ParseAnd(ts, i, nesting), nesting)

Complete(ts, e) == IF e.ok /\ ts[e.at].kind # "eof" THEN Unexpected ELSE e
Parse(ts) == Complete(ts, ParseOr(ts, 1, 0))

-----------------------------------------------------------------------------
(* analyzer.ts.  Type is {} where the type of a node could not be told.    *)

Type(type, nullable) == {[type |-> type, nullable |-> nullable]}
Typed(info, type, nullable) == info # {} /\ info # Type(type, nullable)
LiteralType(v) == Type(v.t, v = Null)

EqualityCompatible(left, right) ==
    \A l \in left, r \in right :
        l.type = r.type \/ (l.type = "null" /\ r.nullable) \/ (r.type = "null" /\ l.nullable)

ArgumentCompatible(actual, expected, acceptsNull) ==
    \A a \in actual : IF a.type = "null" THEN acceptsNull
                      ELSE a.type = expected \/ (expected = "scalar" /\ a.type \in {"string", "number"})

IsNot(info, type) == \E x \in info : x.type # type
When(bad, code) == IF bad THEN {code} ELSE {}

\* The type of a node, the codes of its diagnostics, and the fields it reads in their order.
RECURSIVE Visit(_, _)
Visit(schema, node) ==
    LET at == [k \in DOMAIN node.operands |-> Visit(schema, node.operands[k])]
        types == [k \in DOMAIN at |-> at[k].type]
        Result(type, codes) ==
            [type |-> type, codes |-> codes \cup UNION {at[k].codes : k \in DOMAIN at},
             fields |-> FlattenSeq([k \in DOMAIN at |-> at[k].fields])]
        known == \A k \in DOMAIN types : types[k] # {}
        Boolean(bad) == Result(IF known THEN Type("boolean", FALSE) ELSE {},
                               When(known /\ bad, "BS_TYPE_MISMATCH"))
        d == Builtins[node.value]
    IN CASE node.kind = "literal" -> Result(LiteralType(node.value), {})
         [] node.kind \in {"field", "identifier"} ->
                LET field == {e \in Range(schema) : e.name = node.value}
                    bare == node.kind = "identifier" /\ BuiltinName(node.value) # "none"
                IN IF field = {}
                   THEN Result({}, {IF bare THEN "BS_UNEXPECTED_TOKEN" ELSE "BS_UNKNOWN_FIELD"})
                   ELSE [Result(UNION {Type(e.type, e.nullable) : e \in field}, {})
                            EXCEPT !.fields = <<node.value>>]
         [] node.kind = "unary" -> Boolean(IsNot(types[1], "boolean"))
         [] node.kind = "binary" /\ node.value \in {"and", "or"} ->
                Boolean(IsNot(types[1], "boolean") \/ IsNot(types[2], "boolean"))
         [] node.kind = "binary" /\ node.value \in {"equal", "notEqual"} ->
                Boolean(~EqualityCompatible(types[1], types[2]))
         [] node.kind = "binary" -> Boolean(IsNot(types[1], "number") \/ IsNot(types[2], "number"))
         [] node.kind = "membership" ->
                Boolean(\E m \in Range(node.value) : ~EqualityCompatible(types[1], LiteralType(m)))
         [] node.kind = "call" ->
                Result(Type(d.type, d.nullable),
                       IF Len(types) # Len(d.parameters) THEN {"BS_INVALID_ARGUMENT_COUNT"}
                       ELSE When(\E k \in DOMAIN types :
                                    ~ArgumentCompatible(types[k], d.parameters[k], d.acceptsNull),
                                 "BS_TYPE_MISMATCH"))

FirstUses(fields) == FoldLeft(LAMBDA seen, f : IF f \in Range(seen) THEN seen ELSE Append(seen, f), <<>>, fields)

\* Mutant of Analyze: a nullable result passes for the type that was expected.
AnalyzeNullable(node, schema, expected) ==
    LET result == Visit(schema, node)
        codes == result.codes \cup When(\E x \in result.type, e \in expected : x.type # e,
                                        "BS_EXPECTED_RESULT_TYPE_MISMATCH")
    IN IF codes # {} THEN [ok |-> FALSE, codes |-> codes]
       ELSE [ok |-> TRUE, type |-> result.type, fields |-> FirstUses(result.fields)]

\* expected: {} or {the type the result must have}.
Analyze(node, schema, expected) ==
    LET result == Visit(schema, node)
        wrong == \E x \in result.type, e \in expected : x.type # e \/ (x.nullable /\ x.type # "null")
        codes == result.codes \cup When(wrong, "BS_EXPECTED_RESULT_TYPE_MISMATCH")
        syntax == codes \cap {"BS_UNEXPECTED_TOKEN"}
    IN IF codes # {} THEN [ok |-> FALSE, codes |-> IF syntax # {} THEN syntax ELSE codes]
       ELSE [ok |-> TRUE, type |-> result.type, fields |-> FirstUses(result.fields)]

-----------------------------------------------------------------------------
(* input-validation.ts                                                     *)

\* A schema is a sequence of entries, and the record a function from some of the names.  A value
\* of no type of the language, an accessor or a number that is not finite, has the type "other".
ValidateSchema(schema) ==
    IF Len(schema) > MaxFields THEN Fail("BS_SCHEMA_FIELD_LIMIT_EXCEEDED")
    ELSE IF \E e \in Range(schema) :
                \/ Len(e.name) \notin 1..MaxFieldName
                \/ e.type \notin {"string", "number", "boolean", "scalar"}
         THEN Fail("BS_INVALID_SCHEMA") ELSE [ok |-> TRUE]

\* The first field, in the order of the schema, whose value does not fit.
SnapshotRecord(record, schema) ==
    LET Code(e) ==
            IF e.name \notin DOMAIN record THEN "BS_MISSING_FIELD"
            ELSE LET v == record[e.name]
                     types == IF e.type = "scalar" THEN {"string", "number"} ELSE {e.type}
                 IN CASE v = Null -> IF e.nullable THEN "" ELSE "BS_RUNTIME_TYPE_MISMATCH"
                      [] v.t \notin types -> "BS_RUNTIME_TYPE_MISMATCH"
                      [] v.t = "string" /\ Len(v.v) > MaxString -> "BS_STRING_VALUE_LIMIT_EXCEEDED"
                      [] OTHER -> ""
        wrong == SelectSeq(schema, LAMBDA e : Code(e) # "")
    IN IF wrong = <<>> THEN [ok |-> TRUE] ELSE Fail(Code(wrong[1]))

-----------------------------------------------------------------------------
(* evaluator.ts and builtins.ts.  An outcome is a value, a diagnostic, or  *)
(* an internal error, and the steps it took.                               *)

Outcome(kind, value, steps) == [kind |-> kind, value |-> value, steps |-> steps]

Charge(n, steps, Then(_)) ==
    IF steps > MaxSteps - n THEN Outcome("failed", "BS_EVALUATION_STEP_LIMIT_EXCEEDED", steps)
    ELSE Then(steps + n)

\* The value of an operand that must have a type, which null has not.
Require(out, type, Then(_, _)) ==
    IF out.kind # "value" THEN out
    ELSE IF out.value = Null THEN Outcome("failed", "BS_NULL_NOT_ALLOWED", out.steps)
    ELSE IF out.value.t \notin type THEN Outcome("internal", "type", out.steps)
    ELSE Then(out.value.v, out.steps)

RECURSIVE Decimal(_)
Decimal(n) == IF n < 0 THEN <<"-">> \o Decimal(0 - n)
              ELSE IF n < Len(Digits) THEN <<Digits[n + 1]>>
              ELSE Decimal(n \div 10) \o <<Digits[(n % 10) + 1]>>

Trim(text) ==
    LET inner == {k \in DOMAIN text : text[k] \notin Blanks \cup Breaks}
    IN SelectSeq([k \in DOMAIN text |-> IF \E i, j \in inner : i <= k /\ k <= j THEN text[k] ELSE "trimmed"],
                 LAMBDA c : c # "trimmed")
Includes(text, search) ==
    \E k \in 0..(Len(text) - Len(search)) : SubSeq(text, k + 1, k + Len(search)) = search
CodePoints(text) == Len(SelectSeq(text, LAMBDA c : c # "low"))

EvaluateBuiltin(name, arguments, steps) ==
    LET one == Outcome("value", arguments[1], steps)
        two == IF Len(arguments) > 1 THEN Outcome("value", arguments[2], steps) ELSE one
        strings == {"string"}
        Answer(n, t, v) == Charge(n, steps, LAMBDA s : Outcome("value", Value(t, v), s))
        Derived(n, text) ==
            Charge(n, steps, LAMBDA s : IF Len(text) > MaxString
                                        THEN Outcome("failed", "BS_STRING_VALUE_LIMIT_EXCEEDED", s)
                                        ELSE Outcome("value", Value("string", text), s))
        WithTwo(F(_, _)) ==
            Require(one, strings, LAMBDA v, s : Require(two, strings, LAMBDA w, r : F(v, w)))
    IN CASE name = "trynumber" ->
                IF one.value = Null THEN one
                ELSE Require(one, {"string", "number"}, LAMBDA v, s :
                        IF one.value.t = "number" THEN one
                        ELSE Charge(Len(v), steps, LAMBDA r :
                                Outcome("value", IF v # <<>> /\ NumberEnd(v, 1) = Len(v) + 1
                                                 THEN Value("number", Number(v)) ELSE Null, r)))
         [] name = "text" ->
                Require(one, {"string", "number"}, LAMBDA v, s :
                    LET text == IF one.value.t = "string" THEN v ELSE Decimal(v) IN Derived(Len(text), text))
         [] name = "isblank" ->
                IF one.value = Null THEN Outcome("value", Value("boolean", TRUE), steps)
                ELSE Require(one, strings, LAMBDA v, s : Answer(Len(v), "boolean", Trim(v) = <<>>))
         [] name = "contains" ->
                WithTwo(LAMBDA v, w : Answer(Len(v) + Len(w), "boolean", Includes(v, w)))
         [] name = "equalsignorecase" ->
                WithTwo(LAMBDA v, w :
                    Answer(Len(v) + Len(w) + (IF Len(v) > Len(w) THEN Len(v) ELSE Len(w)),
                           "boolean", ToLower(v) = ToLower(w)))
         [] name = "trim" -> Require(one, strings, LAMBDA v, s : Derived(Len(v), Trim(v)))
         [] name = "lower" -> Require(one, strings, LAMBDA v, s : Derived(Len(v), ToLower(v)))
         [] name = "length" -> Require(one, strings, LAMBDA v, s : Answer(Len(v), "number", CodePoints(v)))

Compare(operator, m, n) ==
    CASE operator = "less" -> m < n
      [] operator = "lessEqual" -> m <= n
      [] operator = "greater" -> m > n
      [] operator = "greaterEqual" -> m >= n

\* Members are visited one by one until one of them is the candidate.
MembershipSteps(candidate, members) ==
    LET hits == {k \in DOMAIN members : members[k] = candidate}
    IN IF hits = {} THEN Len(members) ELSE CHOOSE k \in hits : \A j \in hits : k <= j

Evaluated(out, value) == Outcome("value", Value("boolean", value), out.steps)

RECURSIVE Evaluate(_, _, _), EvaluateAll(_, _, _, _)

\* The arguments of a call, from the left.
EvaluateAll(nodes, record, steps, done) ==
    IF nodes = <<>> THEN Outcome("value", done, steps)
    ELSE LET out == Evaluate(Head(nodes), record, steps)
         IN IF out.kind # "value" THEN out
            ELSE EvaluateAll(Tail(nodes), record, out.steps, Append(done, out.value))

EvaluateBinary(node, record, steps) ==
    LET left == Evaluate(node.operands[1], record, steps)
        right == Evaluate(node.operands[2], record, left.steps)
    IN CASE node.value \in {"and", "or"} ->
                Require(left, {"boolean"}, LAMBDA v, s :
                    IF v = (node.value = "or") THEN Evaluated(left, v)
                    ELSE Require(right, {"boolean"}, LAMBDA w, r : Evaluated(right, w)))
         [] left.kind # "value" -> left
         [] right.kind # "value" -> right
         [] node.value \in {"equal", "notEqual"} ->
                Evaluated(right, (left.value = right.value) = (node.value = "equal"))
         [] OTHER ->
                Require([left EXCEPT !.steps = right.steps], {"number"}, LAMBDA m, s :
                    Require(right, {"number"}, LAMBDA n, r : Evaluated(right, Compare(node.value, m, n))))

EvaluateMembership(node, record, steps) ==
    LET out == Evaluate(node.operands[1], record, steps)
    IN IF out.kind # "value" THEN out
       ELSE Charge(MembershipSteps(out.value, node.value), out.steps, LAMBDA r :
                Outcome("value", Value("boolean", out.value \in Range(node.value)), r))

Evaluate(node, record, before) ==
    Charge(1, before, LAMBDA steps :
        CASE node.kind = "literal" -> Outcome("value", node.value, steps)
          [] node.kind \in {"field", "identifier"} -> IF node.value \in DOMAIN record
                                    THEN Outcome("value", record[node.value], steps)
                                    ELSE Outcome("internal", "field", steps)
          [] node.kind = "unary" ->
                LET out == Evaluate(node.operands[1], record, steps)
                IN Require(out, {"boolean"}, LAMBDA v, s : Evaluated(out, ~v))
          [] node.kind = "binary" -> EvaluateBinary(node, record, steps)
          [] node.kind = "membership" -> EvaluateMembership(node, record, steps)
          [] node.kind = "call" ->
                LET arguments == EvaluateAll(node.operands, record, steps, <<>>)
                IN IF arguments.kind # "value" THEN arguments
                   ELSE EvaluateBuiltin(node.value, arguments.value, arguments.steps))

-----------------------------------------------------------------------------
(* api.ts                                                                  *)

\* analyzeSource, which validateExpression and compileExpression answer, of a source that was lexed
\* and parsed.
AnalyzeSource(lexical, parsed, schema, expected) ==
    LET valid == ValidateSchema(schema)
    IN IF ~valid.ok THEN valid
       ELSE IF ~lexical.ok THEN lexical
       ELSE IF ~parsed.ok THEN parsed
       ELSE Analyze(parsed.node, schema, expected)

EvaluateExpression(node, record, schema) ==
    LET snapshot == SnapshotRecord(record, schema)
    IN IF ~snapshot.ok THEN Outcome("failed", snapshot.code, 0) ELSE Evaluate(node, record, 0)

-----------------------------------------------------------------------------
(* The text of a tree, with the parentheses it needs and no more.          *)

Words == [or |-> <<"|","|">>, and |-> <<"A","n","d">>, equal |-> <<"=","=">>, notEqual |-> <<"!","=">>,
          less |-> <<"<">>, lessEqual |-> <<"<","=">>, greater |-> <<">">>, greaterEqual |-> <<">","=">>]
Binding(node) ==
    CASE node.kind = "binary" -> (CASE node.value = "or" -> 1 [] node.value = "and" -> 2 [] OTHER -> 3)
      [] node.kind = "membership" -> 3
      [] node.kind = "unary" -> 4
      [] OTHER -> 5

Escaped(text, special, By(_)) == FlattenSeq([k \in DOMAIN text |->
                                    IF text[k] \in special THEN By(text[k]) ELSE <<text[k]>>])
WriteLiteral(v) ==
    CASE v = Null -> <<"n","u","L","l">>
      [] v.t = "number" -> Decimal(v.v)
      [] v.t = "boolean" -> IF v.v THEN <<"T","r","u","e">> ELSE <<"f","a","l","s","e">>
      [] v.t = "string" ->
            <<Quote>> \o Escaped(v.v, {Quote, Backslash}, LAMBDA c : <<Backslash, c>>) \o <<Quote>>

Separated(parts) == FlattenSeq([k \in DOMAIN parts |-> IF k = 1 THEN parts[k] ELSE <<",">> \o parts[k]])
Parenthesized(text) == <<"(">> \o text \o <<")">>

RECURSIVE Write(_, _)
Write(node, binding) ==
    LET By(k, least) == Write(node.operands[k], least)
        text ==
            CASE node.kind = "literal" -> WriteLiteral(node.value)
              [] node.kind = "field" ->
                    <<"[">> \o Escaped(node.value, {"]"}, LAMBDA c : <<c, c>>) \o <<"]">>
              [] node.kind = "identifier" -> node.value
              [] node.kind = "unary" -> <<"!">> \o By(1, 4)
              [] node.kind = "binary" ->
                    LET level == Binding(node)
                    IN By(1, IF level = 3 THEN 4 ELSE level) \o <<" ">> \o Words[node.value]
                       \o <<" ">> \o By(2, level + 1)
              [] node.kind = "membership" ->
                    By(1, 4) \o <<" ","i","n">>
                    \o Parenthesized(Separated([k \in DOMAIN node.value |-> Write(Node("literal", node.value[k], <<>>), 1)]))
              [] node.kind = "call" ->
                    (CHOOSE b \in BuiltinNames : b[2] = node.value)[1]
                    \o Parenthesized(Separated([k \in DOMAIN node.operands |-> By(k, 1)]))
    IN IF Binding(node) < binding THEN Parenthesized(text) ELSE text

Fits(value, type) ==
    \E x \in type : IF value = Null THEN x.nullable
                    ELSE value.t = x.type \/ (x.type = "scalar" /\ value.t \in {"string", "number"})

OutcomeFits(out, analysis, expected) ==
    /\ out.kind # "internal"
    /\ out.kind = "value" => Fits(out.value, analysis.type) /\ \A e \in expected : out.value.t = e
TreeIsSound(node, schema, expected, records, other, analysis) ==
    LET Out(record) == EvaluateExpression(node, record, schema)
        Mixed(record) == [f \in DOMAIN record |->
                            IF f \in Range(analysis.fields) THEN record[f] ELSE other[f]]
    IN analysis.ok => \A r \in records :
            /\ OutcomeFits(Out(r), analysis, expected)
            /\ SnapshotRecord(r, schema).ok /\ SnapshotRecord(Mixed(r), schema).ok => Out(Mixed(r)) = Out(r)

\* An expression means what its text says, and what the analysis says of it is true of every
\* evaluation: the text of a tree is read back as that tree; an analysed expression never meets a
\* value it was not checked for, its result has the type that was inferred, never null when one was
\* expected; and it depends on no field but those it is said to refer to.
ScriptIsSound(tree, schemas, expectations, records, other) ==
    \A lexical \in {Lex(Write(tree, 1))} :
        lexical.ok => \A parsed \in {Parse(lexical.tokens)} :
            /\ parsed.ok /\ parsed.node = tree
            /\ \A schema \in schemas, e \in expectations :
                 TreeIsSound(tree, schema, e, records, other, AnalyzeSource(lexical, parsed, schema, e))
=============================================================================
