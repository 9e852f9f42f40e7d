------------------------------ MODULE Statements ------------------------------
(***************************************************************************)
(* packages/dbcore and packages/postgresql: the statements that are built  *)
(* of a table, values and conditions, and the service that reads.  A table *)
(* is a function from places to rows, a row one from columns to values.    *)
(* The text of a statement is a record of its clauses; a clause that is    *)
(* left out is {}.                                                         *)
(***************************************************************************)
EXTENDS Expression, TLC

Lists == INSTANCE SequencesExt

-----------------------------------------------------------------------------
(* crud-statement.ts, filterable-statement.ts.  A builder function is the  *)
(* sequence of the calls it makes; one after the other is their            *)
(* concatenation.                                                          *)

NewStatement(kind) ==
    [kind |-> kind, values |-> [c \in {} |-> <<>>], returning |-> <<>>, builder |-> {}, compiled |-> {}]

Values(s, values) == [s EXCEPT !.values = values]
Returning(s, fields) == [s EXCEPT !.returning = fields]

FilterByExpression(s, calls) == [s EXCEPT !.builder = IF @ = {} THEN {calls} ELSE {existing \o calls : existing \in @}]
\* The columns of the object in their order.
Filter(s, criteria) ==
    FilterByExpression(s, [i \in DOMAIN criteria |->
        [link |-> IF i = 1 THEN "where" ELSE "and", column |-> criteria[i].column, value |-> criteria[i].value]])

Run(calls) == Lists!FoldLeft(LAMBDA q, c : Compare(q, c.link, c.column, "=", c.value), NewBuilder, calls)
\* The first result is kept.
GetCompiledExpression(s) ==
    IF s.compiled # {} \/ s.builder = {} THEN s
    ELSE [s EXCEPT !.compiled = {Compile(Run(calls)) : calls \in s.builder}]

-----------------------------------------------------------------------------
(* insert-, update- and delete-statement.ts of packages/postgresql.  The   *)
(* parameters of values are named by their columns, after a "v" in an      *)
(* UPDATE; those of the condition by their places.                         *)

Refused == [refused |-> TRUE]
Where(s) == {c.sql : c \in {d \in s.compiled : d.sql # <<>>}}
Text(s, set, where) ==
    [kind |-> s.kind, set |-> set, where |-> where, returning |-> s.returning]
ConditionParameters(s) == UNION {{<<<<"p", i>>, c.params[i]>> : i \in DOMAIN c.params} : c \in s.compiled}
ValueParameters(s, prefix) == {<<<<prefix, column>>, s.values[column]>> : column \in DOMAIN s.values}
Set(s, prefix) == [column \in DOMAIN s.values |-> <<prefix, column>>]

BuildQuery(s) ==
    CASE s.kind \in {"insert", "update"} /\ DOMAIN s.values = {} -> Refused
      [] s.kind = "insert" -> Text(s, Set(s, ""), {})
      [] s.kind = "update" -> Text(s, Set(s, "v"), Where(s))
      [] s.kind = "delete" -> Text(s, Set(s, "v"), Where(s))
      [] s.kind = "select" -> Text(s, Set(s, "v"), {c.sql : c \in s.compiled})
\* Mutant of BuildParameters: the values of an UPDATE are sent under the names of an INSERT.
WithoutPrefix(s) == ValueParameters(s, "") \cup ConditionParameters(s)
BuildParameters(s) ==
    (CASE s.kind = "insert" -> ValueParameters(s, "")
       [] s.kind = "update" -> ValueParameters(s, "v")
       [] OTHER -> {}) \cup ConditionParameters(s)

-----------------------------------------------------------------------------
(* from-statement.ts, query-dataservice.ts.  "*" is every column.          *)

Select(s, columns) == [s EXCEPT !.returning = columns]
\* The last condition counts, an empty one too: "WHERE" with nothing after it.
ByExpression(s, compiled) == [s EXCEPT !.compiled = {compiled}]

FindAll == Select(NewStatement("select"), <<"*">>)
FindAllByExpression(calls) == ByExpression(FindAll, Compile(Run(calls)))
FindById(idColumn, id) == FindAllByExpression(<<[link |-> "where", column |-> idColumn, value |-> id]>>)

-----------------------------------------------------------------------------
(* database.ts, statement.ts, and what PostgreSQL does (external).         *)

Bound(params, name) ==
    IF \E p \in params : p[1] = name THEN (CHOOSE p \in params : p[1] = name)[2] ELSE <<"null">>
Satisfying(table, text, params) ==
    LET Facts(row) == {Fact(c, "=", <<row[c]>>) : c \in DOMAIN row}
        places == [i \in 1..Cardinality({p \in params : p[1][1] = "p"}) |-> Bound(params, <<"p", i>>)]
    IN {i \in DOMAIN table : \A sql \in text.where : ReadOr(sql, places, Facts(table[i]), 1).truth}

Written(text, params, row) ==
    [c \in DOMAIN row |-> IF c \in DOMAIN text.set THEN Bound(params, text.set[c]) ELSE row[c]]
Projected(row, columns) ==
    IF columns = <<"*">> THEN row ELSE [c \in Lists!ToSet(columns) \cap DOMAIN row |-> row[c]]

\* What the table becomes, the places that were touched and what they return; an error changes nothing.
Performed(table, text, params, defaults) ==
    LET touched == IF text.kind = "insert" THEN {Len(table) + 1} ELSE Satisfying(table, text, params)
        after == CASE text.kind = "insert" -> Append(table, Written(text, params, defaults))
                   [] text.kind = "update" -> [i \in DOMAIN table |-> IF i \in touched THEN Written(text, params, table[i]) ELSE table[i]]
                   [] OTHER -> table
    IN [error |-> FALSE, touched |-> touched,
        table |-> IF text.kind = "delete" THEN [i \in DOMAIN table \ touched |-> table[i]] ELSE after,
        records |-> IF text.returning = <<>> THEN {} ELSE {<<i, Projected(after[i], text.returning)>> : i \in touched}]

\* buildQuery before buildParameters; the statement keeps what it compiled.
Execute(s, table, defaults) ==
    LET compiled == GetCompiledExpression(s)
        text == BuildQuery(compiled)
        failed == [error |-> TRUE, touched |-> {}, table |-> table, records |-> {}]
    IN [s |-> compiled,
        result |-> IF text = Refused THEN failed
                   ELSE IF text.where = {<<>>} THEN failed
                   ELSE Performed(table, text, BuildParameters(compiled), defaults)]
ExecuteReturnCount(result) == Cardinality(result.touched)

-----------------------------------------------------------------------------

Satisfies(row, calls) ==
    \A node \in Run(calls).ast : Means(node, {Fact(c, "=", <<row[c]>>) : c \in DOMAIN row})

\* What a statement does to a table: the rows that it touches are those that its condition chose
\* when it was first executed, whatever filter came later; they get its values and no other row
\* changes, also when the columns of the values and of the condition are the same; what it returns is
\* read after the change.  Without values it fails and changes nothing.  (An AND after an OR outside a
\* group chooses otherwise: see QueryMeansItsTree.)
StatementDoesItsWork(s, table, defaults, first) ==
    LET done == Execute(s, table, defaults)
        r == done.result
        chosen == IF s.kind = "insert" THEN {Len(table) + 1}
                  ELSE IF \E calls \in first : \E node \in Run(calls).ast : Mixes(node) THEN r.touched
                  ELSE {i \in DOMAIN table : \A calls \in first : Satisfies(table[i], calls)}
    IN IF r.error THEN /\ r.table = table
                       /\ IF s.kind = "select" THEN \E c \in s.compiled : c.sql = <<>> ELSE DOMAIN s.values = {}
       ELSE /\ s.kind \in {"insert", "update"} => DOMAIN s.values # {}
            /\ r.touched = chosen /\ ExecuteReturnCount(r) = Cardinality(chosen)
            /\ \A i \in DOMAIN table \ chosen : r.table[i] = table[i]
            /\ s.kind = "delete" => DOMAIN r.table = DOMAIN table \ chosen
            /\ s.kind = "insert" => r.table[Len(table) + 1] = s.values @@ defaults
            /\ s.kind = "update" => \A i \in chosen : r.table[i] = s.values @@ table[i]
            /\ s.returning = <<"*">> /\ s.kind # "delete" => r.records = {<<i, r.table[i]>> : i \in chosen}
            /\ s.returning # <<>> => Cardinality(r.records) = Cardinality(chosen)
            /\ s.kind # "insert" => Execute(done.s, table, defaults).result = r

\* filterable-statement.ts:83: "Multiple filters are combined with AND logic."
\* The rows a statement would touch satisfy each of the filters it was given, where each is a whole
\* condition.
EveryFilterHolds(s, table, defaults, filters) ==
    (\A k \in DOMAIN filters : filters[k] # <<>> => filters[k][1].link = "where") =>
        \A i \in Execute(s, table, defaults).result.touched, k \in DOMAIN filters : Satisfies(table[i], filters[k])
=============================================================================
