------------------------------ MODULE Builders ------------------------------
(***************************************************************************)
(* A builder of query/ in the hands of a caller: its methods in any order, *)
(* and Build whenever the caller likes.  asked keeps what the caller asked *)
(* for, call by call, apart from how the builder stores it.                *)
(***************************************************************************)
EXTENDS Filtering, TLC

CONSTANTS
    Verbs,          \* the builders there are
    Tables,         \* names of tables, columns and aliases callers give
    Columns,
    Conditions,     \* trees for Where, And, Or
    JoinConditions, HavingConditions, Expressions,
    Selects,        \* builders for common table expressions
    Limits,         \* numbers for Limit and Offset
    ColumnLists,    \* lists for Columns
    RowValues,      \* rows for Values
    RowMaps,        \* rows for ValuesMap, by column
    SetValues,      \* values for Set
    QueryStrings,   \* sets of parameters of a listing
    Orderings,      \* sets of fields in order[...]
    Rank,           \* the place of a field among the names
    MaxCalls        \* bound: methods called on a builder

\* Callers give trees low enough for what MaxCalls methods put around them.
Given == Trees[MaxHeight - MaxCalls - 1]

ASSUME BuildersAssumption ==
    /\ MaxCalls \in Nat /\ MaxCalls < MaxHeight
    /\ Verbs \subseteq {"select", "update", "delete", "insert", "cte"}
    /\ Tables \cup Columns \subseteq Words
    /\ Conditions \cup JoinConditions \cup HavingConditions \cup Expressions \subseteq Given
    /\ Selects \subseteq BuildersOver(Given, {<<>>})
    /\ Limits \subseteq Int /\ ColumnLists \subseteq Seq(Words)
    /\ RowValues \subseteq Seq(BoundValues) /\ SetValues \cup {"NULL"} \subseteq BoundValues
    /\ \A row \in RowMaps : /\ IsFiniteSet(DOMAIN row) /\ DOMAIN row \subseteq Words
                            /\ \A column \in DOMAIN row : row[column] \in BoundValues
    /\ \A params \in QueryStrings : /\ IsFiniteSet(params)
                                    /\ \A param \in params : param.values \in Seq(Searched)
    /\ \A ordering \in Orderings : IsFiniteSet(ordering)

VARIABLES
    dialect,
    b,              \* the builder
    calls,          \* methods called
    asked,          \* what was asked of it
    built,          \* the answer of the last Build
    filters,        \* a FilterSet: its filters,
    clause,         \* the last clause it wrote, and the placeholder it reached,
    clauses         \* and how many it wrote

vars == <<dialect, b, calls, asked, built, filters, clause, clauses>>
filterVars == <<filters, clause, clauses>>

NotBuilt == [err |-> FALSE, text |-> <<>>, args |-> <<>>]

Init ==
    /\ dialect \in Dialects
    /\ \/ \E verb \in Verbs \ {"cte"}, table \in Tables :
             b = Builder(verb, IF verb = "select" THEN <<>> ELSE <<table>>)
       \/ \E query \in Selects : /\ "cte" \in Verbs
                                 /\ b = [Builder("cte", <<>>) EXCEPT !.ctes = <<query>>]
    /\ calls = 0
    /\ asked = [where |-> <<>>, having |-> <<>>, sets |-> <<>>, rows |-> <<>>, mixed |-> FALSE]
    /\ built = NotBuilt
    /\ filters = <<>> /\ clauses = 0 /\ clause = Fragment(<<>>, <<>>, 1)
-----------------------------------------------------------------------------
Method(next) ==
    /\ calls < MaxCalls
    /\ calls' = calls + 1
    /\ b' = next
    /\ built' = NotBuilt
    /\ UNCHANGED <<dialect, filterVars>>

\* A method that keeps an error; the first one stays.
Checked(ok) == [b EXCEPT !.err = @ \/ ~ok]

Selecting == b.verb \in {"select", "cte"}
Conditional == b.verb \in {"select", "cte", "update", "delete"}

\* CTEBuilder.From and Select write the fields of the builder they wrap.
From(table) ==
    /\ Selecting
    /\ Method([Checked(b.verb = "cte" \/ ValidIdentifier(table)) EXCEPT !.table = <<table>>])
    /\ UNCHANGED asked

SelectColumn(column) ==
    /\ Selecting /\ b.columns = <<>>
    /\ Method([Checked(b.verb = "cte" \/ ValidColumnReference(column)) EXCEPT !.columns = <<column>>])
    /\ UNCHANGED asked

SelectExpr(expr) ==
    /\ Selecting
    /\ Method([b EXCEPT !.exprs = Append(@, expr)])
    /\ UNCHANGED asked

Distinct ==
    /\ b.verb = "select" /\ ~b.distinct
    /\ Method([b EXCEPT !.distinct = TRUE])
    /\ UNCHANGED asked

\* Where and And.
Where(cond) ==
    /\ Conditional
    /\ Method([b EXCEPT !.conditions = Append(@, cond)])
    /\ asked' = [asked EXCEPT !.where = Append(@, <<cond>>)]

\* Mutant of OrWhere: it takes every condition before it along.
BugOrAll(cond) ==
    /\ b.verb \in {"select", "update", "delete"}
    /\ Method([b EXCEPT !.conditions = <<Or(<<And(@), cond>>)>>])
    /\ LET n == Len(asked.where)
       IN asked' = IF n = 0 THEN [asked EXCEPT !.where = <<<<cond>>>>]
                   ELSE [asked EXCEPT !.where[n] = Append(@, cond)]

\* Or takes the condition before it along.
OrWhere(cond) ==
    /\ b.verb \in {"select", "update", "delete"}
    /\ LET n == Len(b.conditions)
       IN IF n = 0
          THEN /\ Method([b EXCEPT !.conditions = <<cond>>])
               /\ asked' = [asked EXCEPT !.where = <<<<cond>>>>]
          ELSE /\ Method([b EXCEPT !.conditions[n] = Or(<<@, cond>>)])
               /\ asked' = [asked EXCEPT !.where[Len(asked.where)] = Append(@, cond)]

\* InnerJoin, LeftJoin, RightJoin, JoinAs...; FULL JOIN where there is one.
Join(type, table, cond) ==
    /\ Selecting
    /\ type = "FULL_JOIN" => b.verb = "select"
    /\ LET checked == Checked(ValidIdentifier(table) /\ (type = "FULL_JOIN" => dialect.fullJoin))
       IN Method(IF checked.err THEN checked
               ELSE [checked EXCEPT !.joins =
                        Append(@, [type |-> type, table |-> table, on |-> <<cond>>])])
    /\ UNCHANGED asked

CrossJoin(table) ==
    /\ b.verb = "select"
    /\ LET checked == Checked(ValidIdentifier(table))
       IN Method(IF checked.err THEN checked
               ELSE [checked EXCEPT !.joins =
                        Append(@, [type |-> "CROSS_JOIN", table |-> table, on |-> <<>>])])
    /\ UNCHANGED asked

GroupBy(column) ==
    /\ Selecting
    /\ LET checked == Checked(ValidColumnReference(column))
       IN Method(IF checked.err THEN checked ELSE [checked EXCEPT !.groupBy = Append(@, column)])
    /\ UNCHANGED asked

GroupByExpr(expr) ==
    /\ b.verb = "select"
    /\ Method([b EXCEPT !.groupByExprs = Append(@, expr)])
    /\ UNCHANGED asked

Having(cond) ==
    /\ Selecting
    /\ Method([b EXCEPT !.having = Append(@, cond)])
    /\ asked' = [asked EXCEPT !.having = Append(@, <<cond>>)]

OrderBy(column) ==
    /\ Selecting
    /\ Method([Checked(ValidColumnReference(column)) EXCEPT !.orderBy = Append(@, column)])
    /\ UNCHANGED asked

OrderByExpr(expr) ==
    /\ b.verb = "select"
    /\ Method([b EXCEPT !.orderByExprs = Append(@, expr)])
    /\ UNCHANGED asked

Limit(limit) ==
    /\ Selecting
    /\ Method([Checked(ValidLimit(limit)) EXCEPT !.limit = limit])
    /\ UNCHANGED asked

Offset(offset) ==
    /\ Selecting
    /\ Method([Checked(ValidOffset(offset)) EXCEPT !.offset = offset])
    /\ UNCHANGED asked

AndCTE(query) ==
    /\ b.verb = "cte"
    /\ Method([b EXCEPT !.ctes = Append(@, query)])
    /\ UNCHANGED asked

\* Mutant of Set: a column set again is there again.
BugSetTwice(column, value) ==
    /\ b.verb = "update"
    /\ Method([Checked(ValidIdentifier(column)) EXCEPT !.sets = Append(@, <<column, value>>)])
    /\ asked' = [asked EXCEPT !.sets = Append(@, <<column, value>>)]

\* Set and SetMap: a column set again keeps its place and takes the value.
Set(column, value) ==
    /\ b.verb = "update"
    /\ LET checked == Checked(ValidIdentifier(column))
           there == {i \in DOMAIN b.sets : b.sets[i][1] = column}
       IN Method(IF there = {} THEN [checked EXCEPT !.sets = Append(@, <<column, value>>)]
               ELSE [checked EXCEPT !.sets[Min(there)] = <<column, value>>])
    /\ asked' = [asked EXCEPT !.sets = Append(@, <<column, value>>)]

Returning ==
    /\ ~Selecting /\ ~b.returning
    /\ Method([b EXCEPT !.returning = TRUE])
    /\ UNCHANGED asked

InsertColumns(columns) ==
    /\ b.verb = "insert"
    /\ Method([b EXCEPT !.columns = columns])
    /\ asked' = [asked EXCEPT !.mixed = @ \/ b.rows # <<>>]

InsertValues(values) ==
    /\ b.verb = "insert"
    /\ Method([b EXCEPT !.rows = Append(@, values)])
    /\ asked' = [asked EXCEPT !.mixed = TRUE]

\* The first map gives the columns, in whatever order it is ranged over; a
\* column missing from a later map is NULL, one it adds is left out.
ValuesMap(row) ==
    /\ b.verb = "insert"
    /\ \E columns \in IF b.columns = <<>> THEN SetToSeqs(DOMAIN row) ELSE {b.columns} :
          Method([b EXCEPT !.columns = columns,
                         !.rows = Append(@, [i \in DOMAIN columns |->
                            IF columns[i] \in DOMAIN row THEN row[columns[i]] ELSE "NULL"])])
    /\ asked' = [asked EXCEPT !.rows = Append(@, row)]

OnConflictDoNothing ==
    /\ b.verb = "insert" /\ ~b.ignore
    /\ Method([b EXCEPT !.ignore = TRUE])
    /\ UNCHANGED asked
-----------------------------------------------------------------------------
\* Rendering of this builder's trees.
render == Rendering(dialect)[MaxHeight]

WhereSQL(p) ==
    LET where == ToSQL(dialect, And(b.conditions), p)
    IN IF b.conditions = <<>> THEN Fragment(<<>>, <<>>, p)
       ELSE [where EXCEPT !.text = <<Word("WHERE")>> \o @]

ReturningSQL == IF b.returning /\ dialect.returning THEN <<Word("RETURNING")>> ELSE <<>>

UpdateBuild ==
    LET sets == [i \in DOMAIN b.sets |->
                    <<Name(b.sets[i][1]), Mark(dialect, i, b.sets[i][2])>>]
        where == WhereSQL(Len(sets) + 1)
    IN IF b.err \/ ~ValidIdentifier(b.table[1]) \/ HasInvalid(b.conditions) THEN Refused
       ELSE [err |-> FALSE,
             text |-> <<Word("UPDATE"), Word("SET")>> \o Joined(sets, ",")
                        \o where.text \o ReturningSQL,
             args |-> [i \in DOMAIN b.sets |-> b.sets[i][2]] \o where.args]

\* It does not look for an invalid condition.
DeleteBuild ==
    LET where == WhereSQL(1)
    IN IF ~ValidIdentifier(b.table[1]) THEN Refused
       ELSE [err |-> FALSE, text |-> <<Word("DELETE")>> \o where.text \o ReturningSQL,
             args |-> where.args]

InsertBuild ==
    LET row(k) == Numbered(dialect, b.rows[k], Before(b.rows, k) + 1)
        ignored == b.ignore /\ ~dialect.onConflict
    IN IF ~(\A name \in ToSet(b.table \o b.columns) : ValidIdentifier(name)) THEN Refused
       ELSE [err |-> FALSE,
             text |-> (IF ignored THEN <<Word("INSERT_IGNORE"), Word("INTO")>>
                                      ELSE <<Word("INSERT"), Word("INTO")>>)
                        \o Bracketed("[", [i \in DOMAIN b.columns |-> Name(b.columns[i])], "]")
                        \o <<Word("VALUES")>>
                        \o Joined([k \in DOMAIN b.rows |-> Bracketed("[", row(k), "]")], ",")
                        \o (IF b.ignore /\ ~ignored THEN <<Word("ON_CONFLICT")>> ELSE <<>>)
                        \o ReturningSQL,
             args |-> FlattenSeq(b.rows)]

\* Queries one after the other, each renumbered to follow the arguments
\* before it.
With(d, queries) ==
    LET n == Len(queries)
        lists == [i \in 1..n |-> queries[i].args]
        texts == [k \in 1..n |-> renumberParameters(d, queries[k].text, Len(lists[k]),
                                                    Before(lists, k) + 1)]
        front == [k \in 1..(n - 1) |-> <<Word("AS")>> \o Bracketed("[", texts[k], "]")]
    IN IF \E k \in 1..n : queries[k].err THEN Refused
       ELSE [err |-> FALSE,
             text |-> <<Word("WITH")>> \o Joined(front, ",") \o texts[n],
             args |-> FlattenSeq(lists)]

\* Every WITH query is built on its own, then the statement over them.
CTEBuild ==
    With(dialect, [i \in 1..(Len(b.ctes) + 1) |->
                      SelectBuild(render, IF i <= Len(b.ctes) THEN b.ctes[i] ELSE b)])

Build ==
    /\ built = NotBuilt
    /\ built' = CASE b.verb = "select" -> SelectBuild(render, b)
                  [] b.verb = "update" -> UpdateBuild
                  [] b.verb = "delete" -> DeleteBuild
                  [] b.verb = "insert" -> InsertBuild
                  [] b.verb = "cte"    -> CTEBuild
    /\ UNCHANGED <<dialect, b, calls, asked, filterVars>>
-----------------------------------------------------------------------------
(* A listing: the filters of the query string become conditions of a       *)
(* SELECT, its orders the ORDER BY.                                        *)

List(params, ordering) ==
    /\ b.verb = "select" /\ filters = <<>>
    /\ calls < MaxCalls
    /\ filters' \in ParseFilters(params)
    /\ filters' # <<>>
    /\ \E orders \in ParseOrders(ordering, Rank) :
          b' = [b EXCEPT !.conditions = @ \o [i \in DOMAIN filters' |-> ConditionOf(filters'[i])],
                         !.orderBy = @ \o orders]
    /\ asked' = [asked EXCEPT !.where = @ \o [i \in DOMAIN filters' |-> <<ConditionOf(filters'[i])>>]]
    /\ calls' = calls + 1
    /\ built' = NotBuilt
    /\ UNCHANGED <<dialect, clause, clauses>>

\* The set can also write its own clause; it goes on counting if asked again.
BuildWhereClause ==
    /\ filters # <<>> /\ clauses < MaxCalls
    /\ clauses' = clauses + 1
    /\ clause' = WhereClause(dialect, filters, clause.next)
    /\ UNCHANGED <<dialect, b, calls, asked, built, filters>>
-----------------------------------------------------------------------------
Next ==
    \/ \E table \in Tables : From(table) \/ CrossJoin(table)
    \/ \E column \in Columns : SelectColumn(column) \/ GroupBy(column) \/ OrderBy(column)
    \/ \E expr \in Expressions : SelectExpr(expr) \/ GroupByExpr(expr) \/ OrderByExpr(expr)
    \/ \E cond \in Conditions : Where(cond) \/ OrWhere(cond)
    \/ \E type \in {"JOIN", "FULL_JOIN"}, table \in Tables, cond \in JoinConditions :
          Join(type, table, cond)
    \/ \E cond \in HavingConditions : Having(cond)
    \/ \E n \in Limits : Limit(n) \/ Offset(n)
    \/ \E query \in Selects : AndCTE(query)
    \/ \E column \in Columns, value \in SetValues : Set(column, value)
    \/ \E columns \in ColumnLists : InsertColumns(columns)
    \/ \E row \in RowValues : InsertValues(row)
    \/ \E row \in RowMaps : ValuesMap(row)
    \/ \E params \in QueryStrings, ordering \in Orderings : List(params, ordering)
    \/ BuildWhereClause
    \/ Distinct \/ Returning \/ OnConflictDoNothing \/ Build

Spec == Init /\ [][Next]_vars
-----------------------------------------------------------------------------
(* Properties.                                                             *)

Answered == built # NotBuilt /\ ~built.err

\* Every value reaches the database for the place it was given for.  The
\* texts of subqueries and common table expressions are numbered from 1 and
\* renumbered by replacing the digits of one placeholder at a time.
PlaceholdersBound ==
    Answered => BoundTo(dialect, built.text, built.args)

\* A comparison of a quoted column, the column bare.
Unquoted(token) == Pred(Bare[CHOOSE at \in DOMAIN Quoted : Pred(Quoted[at]) = token])

\* The clause a FilterSet writes and the conditions it gives a builder, from
\* two switches and two counters, make the same comparisons of the same
\* columns with the same values in the same places.  The column alone is
\* written otherwise: as it is spelt in the clause, quoted in the conditions,
\* so that a name PostgreSQL folds, or a reserved one, is not the same column.
FilterPathsAgree ==
    clauses = 1 =>
        LET chain == Chain(render, [i \in DOMAIN filters |-> ConditionOf(filters[i])], 1)
            plain == [i \in DOMAIN filters |->
                         <<Unquoted(chain.parts[i][1])>> \o Tail(chain.parts[i])]
        IN /\ clause.text = <<Word("WHERE")>> \o Joined(plain, "AND")
           /\ clause.args = chain.args
           /\ BoundTo(dialect, clause.text, clause.args)
=============================================================================
