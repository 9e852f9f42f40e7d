---------------------------- MODULE MCStatements ----------------------------
(* Queries of up to three calls; own is FALSE after a clone or a subquery with parameters.  Then     *)
(* one statement of each kind on a table with every row of two columns; first is what its builder    *)
(* said when it was first executed, filters the filters so far, in terms of the calls of each alone. *)
EXTENDS Statements

one == <<"1">>
two == <<"2">>

Links == {"where", "and", "or"}
QueryCalls(b, link) ==
    {Compare(b, link, "x", "=", v) : v \in {one, <<"undefined">>}}
    \cup {Between(b, link, "x", "BETWEEN", one, two), In(b, link, "y", "IN", <<one, two>>),
          StartsWith(b, link, "y", two), IsNull(b, link, "x", "IS NULL"),
          EqualsColumn(b, link, "x", "y")}
Simple(b, link) == {Compare(b, link, "y", "=", one), Json(b, link, "x", "@>", two)}
Groups(b, link) ==
    UNION {{Grouped(b, link, LAMBDA n : n)},
           UNION {LET First(n) == CHOOSE s \in Simple(n, "where") : \A node \in s.ast : node.column = column
                      Both(n) == Compare(First(n), l, "y", "<", two)
                      Deep(n) == Grouped(First(n), l, Both)
                  IN {Grouped(b, link, Both), Grouped(b, link, Deep)} : l \in {"and", "or"}, column \in {"x", "y"}}}

AQuery == [of |-> "query", b |-> NewBuilder, own |-> TRUE, calls |-> 0]
MaxCalls == 3
PlainCalls(q) == UNION {QueryCalls(q.b, l) \cup Groups(q.b, l) : l \in Links}
            \cup {Search(q.b, "search", "x y", "plain", one)}
            \cup {Subquery(q.b, "and", "x", o, EqualsColumn(NewBuilder, "where", "y", "x")) :
                    o \in {"EXISTS", "NOT EXISTS", "IN", "NOT IN"}}
ForeignCalls(q) == {Clone(q.b), Subquery(q.b, "and", "x", "EXISTS", Compare(NewBuilder, "where", "y", "=", two))}
QuerySteps(q) == {[q EXCEPT !.b = b, !.calls = @ + 1] : b \in PlainCalls(q)}
            \cup {[q EXCEPT !.b = b, !.calls = @ + 1, !.own = FALSE] : b \in ForeignCalls(q)}
QueryHolds(q) == QueryMeansItsTree(q.b, q.own)

-----------------------------------------------------------------------------

Rows == [i \in 1..4 |-> [x |-> IF i \in {1, 2} THEN one ELSE two, y |-> IF i \in {1, 3} THEN one ELSE two]]
Defaults == [x |-> <<"null">>, y |-> <<"null">>]
ValueSets == {[c \in {} |-> one], "x" :> two, "x" :> <<"null">> @@ "y" :> one}
Criterion(column, value) == [column |-> column, value |-> value]
Criteria == {<<>>, <<Criterion("x", one)>>, <<Criterion("y", two)>>, <<Criterion("x", two), Criterion("y", one)>>}
Test1(link, column, value) == [link |-> link, column |-> column, value |-> value]
Calls1 == {<<>>} \cup {<<Test1(l, "y", one)>> : l \in {"where", "and", "or"}}
          \cup {<<Test1("where", "x", one), Test1("or", "y", one)>>}
Of(criteria) == [i \in DOMAIN criteria |-> Test1(IF i = 1 THEN "where" ELSE "and", criteria[i].column, criteria[i].value)]

Statement(s) == [of |-> "statement", s |-> s, table |-> Rows, filters |-> <<>>, first |-> {}, runs |-> 0]
Reading(s, calls) == [Statement(s) EXCEPT !.filters = <<calls>>]
Start == {Statement(NewStatement(k)) : k \in {"insert", "update", "delete"}}
         \cup {Statement(FindAll), Statement(Select(FindAll, <<"y">>)), Reading(FindById("x", one), <<Test1("where", "x", one)>>)}
         \cup {Reading(FindAllByExpression(c), c) : c \in Calls1}

More(p) ==
    {[p EXCEPT !.s = Values(@, v)] : v \in {w \in ValueSets : p.s.kind \in {"insert", "update"}}}
    \cup {[p EXCEPT !.s = Returning(@, f)] : f \in {<<"*">>, <<"y">>}}
    \cup UNION {{[p EXCEPT !.s = Filter(@, c), !.filters = Append(@, Of(c))] : c \in Criteria}
                \cup {[p EXCEPT !.s = FilterByExpression(@, c), !.filters = Append(@, c)] : c \in Calls1} :
                    more \in {Len(p.filters)} \cap {n \in 0..1 : p.s.kind \in {"update", "delete"}}}
Now(p) == IF p.s.kind = "select" THEN Lists!ToSet(p.filters) ELSE IF p.s.compiled # {} THEN p.first ELSE p.s.builder
Executed(p, done) == [p EXCEPT !.s = done.s, !.table = done.result.table, !.first = Now(p), !.runs = 1]
Steps(p) ==
    More(p) \cup {Executed(p, Execute(p.s, p.table, Defaults)) : n \in {p.runs} \cap {m \in {0} : p.s.kind = "update"}}
Holds(p) == StatementDoesItsWork(p.s, p.table, Defaults, Now(p))
Combines(p) == p.runs = 0 => EveryFilterHolds(p.s, p.table, Defaults, p.filters)
=============================================================================
