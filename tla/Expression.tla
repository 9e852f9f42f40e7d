------------------------------ MODULE Expression ------------------------------
(***************************************************************************)
(* packages/expression: the fluent builder of SQL conditions.  A builder   *)
(* is its tree, none or one node, and the values of its parameters: the    *)
(* parameter p1 is the first of them.  A column, an operator, a word of    *)
(* SQL is a string, and what is compiled a sequence of these and of tests. *)
(***************************************************************************)
EXTENDS Integers, Sequences, FiniteSets

-----------------------------------------------------------------------------
(* core/parameter-manager.ts                                               *)

Serialize(value) == IF value = <<"undefined">> THEN <<"null">> ELSE value

\* addParameterWithValue, for each of the values: the names of the new parameters are their places.
AddParameters(params, values) == params \o [k \in DOMAIN values |-> Serialize(values[k])]
\* Mutant of NewNames: the names of a condition start at p1 again.
NamesAnew(params, values) == [k \in DOMAIN values |-> k]
NewNames(params, values) == [k \in DOMAIN values |-> Len(params) + k]

-----------------------------------------------------------------------------
(* core/ast-node.ts                                                        *)

NewBuilder == [ast |-> {}, params |-> <<>>]

\* A condition on a column, a document or a text: the values it was given, and the names under
\* which they are sent.
CreateConditionNode(type, column, operator, values, names) ==
    [type |-> type, column |-> column, operator |-> operator, values |-> values, names |-> names,
     operands |-> <<>>]
Inner(type, column, operator, operands) ==
    [type |-> type, column |-> column, operator |-> operator, values |-> <<>>, names |-> <<>>,
     operands |-> operands]
CreateLogicalNode(operator, left, right) == Inner("logical", "", operator, <<left, right>>)
CreateGroupNode(child) == Inner("group", "", "", <<child>>)
CreateSubqueryNode(operator, subquery, column) == Inner("subquery", column, operator, <<subquery>>)

RECURSIVE NodesEqual(_, _)
NodesEqual(a, b) ==
    /\ <<a.type, a.column, a.operator, a.values>> = <<b.type, b.column, b.operator, b.values>>
    /\ Len(a.operands) = Len(b.operands)
    /\ \A k \in DOMAIN a.operands : NodesEqual(a.operands[k], b.operands[k])

-----------------------------------------------------------------------------
(* builders/query-builder.ts.  link is where, and, or.                     *)

AddNode(b, link, node) ==
    [b EXCEPT !.ast = IF link = "where" \/ @ = {} THEN {node}
                      ELSE {CreateLogicalNode(link, ast, node) : ast \in @}]

\* A callback gets a builder with the same parameters, and what it builds is a group.
Grouped(b, link, Callback(_)) ==
    LET nested == Callback([NewBuilder EXCEPT !.params = b.params])
        with == [b EXCEPT !.params = nested.params]
    IN IF nested.ast = {} THEN with
       ELSE AddNode(with, link, CreateGroupNode(CHOOSE n \in nested.ast : TRUE))

Clone(b) == [NewBuilder EXCEPT !.ast = b.ast]

-----------------------------------------------------------------------------
(* builders/comparison-builder.ts                                          *)

Condition(b, link, type, column, operator, values) ==
    AddNode([b EXCEPT !.params = AddParameters(@, values)], link,
            CreateConditionNode(type, column, operator, values, NewNames(b.params, values)))

\* equals, notEquals, greaterThan and the rest.
Compare(b, link, column, operator, value) == Condition(b, link, "comparison", column, operator, <<value>>)
Between(b, link, column, operator, min, max) ==
    Condition(b, link, "comparison", column, operator, <<min, max>>)
In(b, link, column, operator, values) == Condition(b, link, "comparison", column, operator, values)
Like(b, link, column, operator, pattern) == Compare(b, link, column, operator, pattern)
StartsWith(b, link, column, value) == Like(b, link, column, "LIKE", value \o <<"%">>)
EndsWith(b, link, column, value) == Like(b, link, column, "LIKE", <<"%">> \o value)
Contains(b, link, column, value) == Like(b, link, column, "LIKE", <<"%">> \o value \o <<"%">>)
IsNull(b, link, column, operator) == Condition(b, link, "comparison", column, operator, <<>>)
EqualsColumn(b, link, column, other) ==
    AddNode(b, link, CreateConditionNode("comparison", column, "=", <<<<other>>>>, <<>>))

\* jsonContains and the rest: the value or the keys are one parameter.
Json(b, link, column, operator, value) == Condition(b, link, "json", column, operator, <<value>>)
\* search of a column; search of the builder itself is an AND.
Search(b, link, columns, mode, text) ==
    Condition(b, IF link = "search" THEN "and" ELSE link, "text", columns, mode, <<text>>)

\* exists, notExists, inSubquery, notInSubquery; an empty subquery is refused.
Subquery(b, link, column, operator, subquery) ==
    IF subquery.ast = {} THEN b
    ELSE AddNode(b, link, CreateSubqueryNode(operator, CHOOSE n \in subquery.ast : TRUE, column))

-----------------------------------------------------------------------------
(* compiler/postgresql-compiler.ts.  A test has the names of its           *)
(* parameters, and, where it has none, what is written in their place.     *)

Test(node) == [column |-> node.column, operator |-> node.operator, names |-> node.names,
               written |-> IF node.names = <<>> THEN node.values ELSE <<>>]

CompileComparison(node) ==
    IF node.operator \in {"BETWEEN", "NOT BETWEEN"} /\ Len(node.names) # 2 THEN <<"refused">>
    ELSE IF node.operator \in {"LIKE", "ILIKE"} /\ node.names = <<>> THEN <<"refused">>
    ELSE <<"test", Test(node)>>

RECURSIVE CompileNode(_)
CompileNode(node) ==
    CASE node.type = "comparison" -> CompileComparison(node)
      [] node.type \in {"json", "text"} -> <<"test", Test(node)>>
      [] node.type = "logical" ->
            CompileNode(node.operands[1]) \o <<node.operator>> \o CompileNode(node.operands[2])
      [] node.type = "group" -> <<"(">> \o CompileNode(node.operands[1]) \o <<")">>
      [] node.type = "subquery" ->
            <<"select", [column |-> node.column, operator |-> node.operator], "(">>
            \o CompileNode(node.operands[1]) \o <<")">>

Compile(b) == IF b.ast = {} THEN [sql |-> <<>>, params |-> <<>>]
              ELSE [sql |-> CompileNode(CHOOSE n \in b.ast : TRUE), params |-> b.params]

-----------------------------------------------------------------------------
(* What PostgreSQL makes of it (external).  A fact is a test with its      *)
(* values in place; a state of the database is the set of the true ones.   *)

Fact(column, operator, values) == [column |-> column, operator |-> operator, values |-> values]
Chosen(operator, fact, some) ==
    CASE operator = "EXISTS" -> some
      [] operator = "NOT EXISTS" -> ~some
      [] operator = "IN" -> fact /\ some
      [] operator = "NOT IN" -> ~(fact /\ some)

\* The truth of the text from i on, and where the part that was read ends: OR of AND of the rest.
\* left is what was read so far of an OR or of an AND.
RECURSIVE ReadOr(_, _, _, _), ReadAnd(_, _, _, _), ReadOne(_, _, _, _)
OrOf(left, sql, params, facts) ==
    IF left.next > Len(sql) \/ sql[left.next] # "or" THEN left
    ELSE [ReadOr(sql, params, facts, left.next + 1) EXCEPT !.truth = @ \/ left.truth]
AndOf(left, sql, params, facts) ==
    IF left.next > Len(sql) \/ sql[left.next] # "and" THEN left
    ELSE [ReadAnd(sql, params, facts, left.next + 1) EXCEPT !.truth = @ /\ left.truth]
ReadOr(sql, params, facts, i) == OrOf(ReadAnd(sql, params, facts, i), sql, params, facts)
ReadAnd(sql, params, facts, i) == AndOf(ReadOne(sql, params, facts, i), sql, params, facts)

SelectOf(inner, s, facts) ==
    [truth |-> Chosen(s.operator, Fact(s.column, "chosen", <<>>) \in facts, inner.truth), next |-> inner.next + 1]
ReadOne(sql, params, facts, i) ==
    CASE sql[i] = "(" -> [ReadOr(sql, params, facts, i + 1) EXCEPT !.next = @ + 1]
      [] sql[i] = "select" -> SelectOf(ReadOr(sql, params, facts, i + 3), sql[i + 1], facts)
      [] sql[i] = "test" ->
            LET t == sql[i + 1]
                bound == [k \in DOMAIN t.names |-> IF t.names[k] \in DOMAIN params
                                                   THEN params[t.names[k]] ELSE <<"unbound">>]
            IN [truth |-> Fact(t.column, t.operator, bound \o t.written) \in facts, next |-> i + 2]

-----------------------------------------------------------------------------
(* The meaning of the tree itself.                                         *)

Sent(values) == [k \in DOMAIN values |-> Serialize(values[k])]
RECURSIVE Means(_, _), FactsOf(_), Mixes(_)
Means(node, facts) ==
    LET Of(k) == Means(node.operands[k], facts)
    IN CASE node.type = "logical" -> IF node.operator = "and" THEN Of(1) /\ Of(2) ELSE Of(1) \/ Of(2)
         [] node.type = "group" -> Of(1)
         [] node.type = "subquery" ->
                Chosen(node.operator, Fact(node.column, "chosen", <<>>) \in facts, Of(1))
         [] OTHER -> Fact(node.column, node.operator, Sent(node.values)) \in facts

FactsOf(node) ==
    UNION {FactsOf(node.operands[k]) : k \in DOMAIN node.operands}
    \cup (CASE node.type = "subquery" -> {Fact(node.column, "chosen", <<>>)}
            [] node.type \in {"logical", "group"} -> {}
            [] OTHER -> {Fact(node.column, node.operator, Sent(node.values))})

\* An AND of an OR that no group keeps together: the text has no parentheses for it.
Mixes(node) ==
    \/ /\ node.type = "logical" /\ node.operator = "and"
       /\ node.operands[1].type = "logical" /\ node.operands[1].operator = "or"
    \/ \E k \in DOMAIN node.operands : Mixes(node.operands[k])

\* The text of a query and the parameters sent with it mean what its tree means, in every state of
\* the database that tells the tests of the tree apart.
MeansItsTree(b) ==
    \A node \in b.ast, query \in {Compile(b)} : \A facts \in SUBSET FactsOf(node) :
        ReadOr(query.sql, query.params, facts, 1).truth = Means(node, facts)

\* A query means what was built, however its calls are nested, unless an AND follows an OR outside
\* a group, or the conditions of another builder were taken without their parameters.
QueryMeansItsTree(b, own) == own /\ (\A node \in b.ast : ~Mixes(node)) => MeansItsTree(b)
=============================================================================
