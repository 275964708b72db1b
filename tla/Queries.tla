------------------------------ MODULE Queries ------------------------------
(***************************************************************************)
(* The query builders of query/: conditions and expressions as trees, the  *)
(* text and the arguments each of them renders to, and the builders'       *)
(* methods, called in any order before and after a Build.                  *)
(*                                                                         *)
(* A predicate is its name: which comparison it makes, and how the dialect *)
(* words it, is left out; how many values it takes is not.                 *)
(***************************************************************************)
EXTENDS SqlText

CONSTANTS
    Dialects,       \* records of what database.Dialect answers
    Identifiers,    \* names ValidateIdentifier accepts
    References,     \* other names ValidateColumnReference does: t.c, *, f(c)
    Words,          \* all a statement is written in, besides its placeholders
    BoundValues,    \* values callers bind
    RawTexts,       \* what callers give to Raw
    MaxLimitValue, MaxOffsetValue,
    MaxHeight       \* bound: how deep conditions and expressions nest

\* What the builders write themselves.
Keywords ==
    {"SELECT", "SELECT_DISTINCT", "*", "FROM", "JOIN", "FULL_JOIN", "CROSS_JOIN", "WHERE", "AND",
     "OR", "NOT", "GROUP_BY", "HAVING", "ORDER_BY", "LIMIT", "OFFSET", "n", "UPDATE", "SET",
     "DELETE", "INSERT", "INSERT_IGNORE", "INTO", "VALUES", "ON_CONFLICT", "RETURNING", "WITH",
     "AS", "OVER", "CASE", "WHEN", "THEN", "ELSE", "END", "1=1", "1=0", "none", "simple",
     "searched", "literal", "pred", "name", "(", ")", "[", "]", ","}

\* Nothing but a placeholder is written "?".
ASSUME WordsAssumption ==
    /\ Keywords \cup Identifiers \cup References \subseteq Words
    /\ "?" \notin Words
    /\ MaxHeight \in Nat
    /\ \A d \in Dialects : d.numbered \in BOOLEAN

ValidIdentifier(name) == name \in Identifiers
ValidColumnReference(name) == name \in Identifiers \cup References
ValidLimit(limit) == limit \in 0..MaxLimitValue
ValidOffset(offset) == offset \in 0..MaxOffsetValue
-----------------------------------------------------------------------------
(* Conditions and expressions.                                             *)

Node(k, name, vals, subs) ==
    [k |-> k, name |-> name, vals |-> vals, subs |-> subs, query |-> <<>>, text |-> <<>>]

invalidCondition == Node("invalid", "none", <<>>, <<>>)

\* Eq, Ne, ..., Like, ILike, IsNull: a predicate of the column, with a
\* placeholder for each of its values.
Comparison(column, name, vals) ==
    IF ValidColumnReference(column) THEN Node("pred", name, vals, <<>>) ELSE invalidCondition

Between(column, name, start, end) == Comparison(column, name, <<start, end>>)

\* ColEq, ColNe, ...: two columns and no value.
ColComparison(col1, col2, name) ==
    IF ValidColumnReference(col1) THEN Comparison(col2, name, <<>>) ELSE invalidCondition

In(column, name, vals) ==
    IF ValidColumnReference(column) THEN Node("in", name, vals, <<>>) ELSE invalidCondition
NotIn(column, name, vals) ==
    IF ValidColumnReference(column) THEN Node("not_in", name, vals, <<>>) ELSE invalidCondition

And(conds) == Node("and", "none", <<>>, conds)
Or(conds) == Node("or", "none", <<>>, conds)
Not(cond) == Node("not", "none", <<>>, <<cond>>)

\* Text given whole, its "?" written for the values, in order.
Raw(text, vals) == [Node("raw", "none", vals, <<>>) EXCEPT !.text = text]

\* InSubquery, NotInSubquery, Exists, NotExists.
Subquery(name, query) == [Node("subquery", name, <<>>, <<>>) EXCEPT !.query = <<query>>]

Col(column) == Node("column", column, <<>>, <<>>)
Literal(value) == Node("pred", "literal", <<value>>, <<>>)

Call(name, exprs) == Node("call", name, <<>>, exprs)

\* COUNT, SUM, AVG, MIN, MAX.
Aggregate(name, expr) == Call(name, <<expr>>)

\* ROUND and its fellows; the precision may be left out, as <<>>.
MathCall(name, expr, precision) == Call(name, <<expr>> \o precision)

\* NOW, CURRENT_DATE, CURRENT_TIME: a word like the name of a column.
Moment(name) == Col(name)

\* COALESCE, NULLIF.
FirstKnown(name, exprs) == Call(name, exprs)

As(expr, alias) == IF ValidIdentifier(alias) THEN Node("as", alias, <<>>, <<expr>>)
                                             ELSE Node("invalid", "none", <<>>, <<>>)

\* A function over a window: its partitions and orders follow it.
Over(call, window) == Node("over", "none", <<>>, <<call>> \o window)

\* PARTITION BY, then ORDER BY.
Window(partitions, orders) == partitions \o orders

\* ROW_NUMBER, NTILE, NTH_VALUE, LAG, LEAD: optional arguments may be missing.
WindowCall(name, exprs, window) == Over(Call(name, exprs), window)
AggregateOver(name, expr, window) == Over(Aggregate(name, expr), window)

\* Case(expr).When(value, result)...Else(expr).End(): the operand first if
\* there is one, then the pairs, then the Else if there is one.
SimpleCase(operand, pairs, other) == Node("case", "simple", <<>>, <<operand>> \o pairs \o other)
SearchedCase(pairs, other) == Node("case", "searched", <<>>, pairs \o other)

CaseWord(n, i) ==
    LET place == IF n.name = "simple" THEN i - 1 ELSE i
    IN CASE place = 0 -> "CASE"
         [] place % 2 = 0 -> "THEN"
         [] place % 2 = 1 /\ i = Len(n.subs) -> "ELSE"
         [] OTHER -> "WHEN"
-----------------------------------------------------------------------------
(* The trees there are: callers build them from the leaves up.             *)

Token == [t : Words \cup {"?"}, n : Nat, v : Words \cup BoundValues]

JoinWords == {"JOIN", "FULL_JOIN", "CROSS_JOIN"}

\* Builders with parts among trees.
BuildersOver(trees, ctes) ==
    [verb : {"select", "update", "delete", "insert", "cte"}, table : Seq(Words),
     err : BOOLEAN, distinct : BOOLEAN, columns : Seq(Words), exprs : Seq(trees),
     joins : Seq([type : JoinWords, table : Words, on : Seq(trees)]),
     conditions : Seq(trees), groupBy : Seq(Words), groupByExprs : Seq(trees),
     having : Seq(trees), orderBy : Seq(Words), orderByExprs : Seq(trees),
     limit : Int, offset : Int, sets : Seq(Words \X BoundValues), rows : Seq(Seq(BoundValues)),
     ctes : ctes, returning : BOOLEAN, ignore : BOOLEAN]

Kinds == {"invalid", "pred", "column", "in", "not_in", "raw", "subquery",
          "and", "or", "not", "call", "as", "over", "case"}

\* A raw text has a "?" for each of its values, a subquery is one query, and
\* NOT, AS and OVER are about a part.
Fits(n) ==
    /\ n.k = "raw" => /\ n.text \in RawTexts
                      /\ Marks(n.text) = Numbered([numbered |-> FALSE], n.vals, 1)
    /\ n.k = "subquery" => Len(n.query) = 1
    /\ n.k \in {"not", "as"} => Len(n.subs) = 1
    /\ n.k = "over" => n.subs # <<>>

NodesOver(trees) ==
    {n \in [k : Kinds, name : Words, vals : Seq(BoundValues), subs : Seq(trees),
            query : Seq(BuildersOver(trees, {<<>>})), text : Seq(Token)] : Fits(n)}

\* By height.
Trees[h \in 0..MaxHeight] == IF h = 0 THEN {} ELSE NodesOver(Trees[h - 1])
-----------------------------------------------------------------------------
(* Rendering: text, arguments, and the number of the next placeholder.     *)

Fragment(text, args, next) == [text |-> text, args |-> args, next |-> next]
Refused == [err |-> TRUE, text |-> <<>>, args |-> <<>>]

Values(d, head, vals, p) == Fragment(head \o Numbered(d, vals, p), vals, p + Len(vals))

\* strings.Replace(text, "?", Placeholder(p + i), 1) for each value.
RawSQL(d, n, p) ==
    Fragment([k \in DOMAIN n.text |->
                 IF n.text[k].t = "?" /\ Place(n.text, k) <= Len(n.vals) /\ d.numbered
                 THEN [n.text[k] EXCEPT !.n = p + Place(n.text, k) - 1] ELSE n.text[k]],
             n.vals, p + Len(n.vals))

Bracketed(open, text, close) == <<Word(open)>> \o text \o <<Word(close)>>

Clause(word, plain, nodes, sep) == [word |-> word, plain |-> plain, nodes |-> nodes, sep |-> sep]

\* The clauses of a SELECT in the order Build writes them.
Clauses(q) ==
    LET given(word, plain, nodes, sep) ==
            IF plain = <<>> /\ nodes = <<>> THEN <<>> ELSE <<Clause(word, plain, nodes, sep)>>
    IN <<Clause(IF q.distinct THEN "SELECT_DISTINCT" ELSE "SELECT",
                IF q.columns = <<>> /\ q.exprs = <<>> THEN <<"*">> ELSE q.columns, q.exprs, ",")>>
       \o given("FROM", q.table, <<>>, ",")
       \o [i \in DOMAIN q.joins |-> Clause(q.joins[i].type, <<q.joins[i].table>>, q.joins[i].on, ",")]
       \o given("WHERE", <<>>, q.conditions, "AND")
       \o given("GROUP_BY", q.groupBy, q.groupByExprs, ",")
       \o given("HAVING", <<>>, q.having, "AND")
       \o given("ORDER_BY", q.orderBy, q.orderByExprs, ",")
       \o given("LIMIT", IF q.limit > 0 THEN <<"n">> ELSE <<>>, <<>>, ",")
       \o given("OFFSET", IF q.offset > 0 THEN <<"n">> ELSE <<>>, <<>>, ",")

\* The parts of a SELECT that Build looks at: not what is inside them, and
\* not what its joins are on.
Looked(q) == q.exprs \o q.conditions \o q.groupByExprs \o q.having \o q.orderByExprs

HasInvalid(nodes) == \E i \in DOMAIN nodes : nodes[i].k = "invalid"

\* What New(dialect).Select, Update, Delete, Insert or WithCTE starts from.
\* columns, table, groupBy and orderBy hold names; the others hold trees.
Builder(verb, table) ==
    [verb |-> verb, table |-> table, err |-> FALSE, distinct |-> FALSE, columns |-> <<>>,
     exprs |-> <<>>, joins |-> <<>>, conditions |-> <<>>, groupBy |-> <<>>,
     groupByExprs |-> <<>>, having |-> <<>>, orderBy |-> <<>>, orderByExprs |-> <<>>,
     limit |-> 0, offset |-> 0, sets |-> <<>>, rows |-> <<>>, ctes |-> <<>>,
     returning |-> FALSE, ignore |-> FALSE]

\* Each node takes up the numbers where the one before it left off.
Chain(render, nodes, p) ==
    LET upTo[i \in 0..Len(nodes)] ==
            IF i = 0 THEN [parts |-> <<>>, args |-> <<>>, next |-> p]
            ELSE LET acc == upTo[i - 1]
                     f == render[<<nodes[i], acc.next>>]
                 IN [parts |-> Append(acc.parts, f.text), args |-> acc.args \o f.args,
                     next |-> f.next]
    IN upTo[Len(nodes)]

\* The text of one clause: its names, then its trees.
ClauseSQL(c, f) ==
    Fragment(<<Word(c.word)>> \o Joined([i \in DOMAIN c.plain |-> <<Name(c.plain[i])>>] \o f.parts,
                                        c.sep),
             f.args, f.next)

\* SelectBuilder.Build: refused for an error kept from a method, or for an
\* invalid part it looks at; otherwise clause after clause.
SelectBuild(render, q) ==
    LET clauses == Clauses(q)
        upTo[i \in 0..Len(clauses)] ==
            IF i = 0 THEN Fragment(<<>>, <<>>, 1)
            ELSE LET acc == upTo[i - 1]
                     f == ClauseSQL(clauses[i], Chain(render, clauses[i].nodes, acc.next))
                 IN Fragment(acc.text \o f.text, acc.args \o f.args, f.next)
        all == upTo[Len(clauses)]
    IN IF q.err \/ HasInvalid(Looked(q)) THEN Refused
       ELSE [err |-> FALSE, text |-> all.text, args |-> all.args]

\* A subquery that cannot be built is a condition that does not hold.
SubquerySQL(d, n, p, inner) ==
    LET count == Len(inner.args)
    IN IF inner.err THEN Fragment(<<Word("1=0")>>, <<>>, p)
       ELSE Fragment(<<Pred(n.name)>>
                        \o Bracketed("[", renumberParameters(d, inner.text, count, p), "]"),
                     inner.args, p + count)

\* What a node writes around and between its parts.
Composed(n, parts) ==
    CASE n.k \in {"and", "or"} ->
            CASE parts = <<>>    -> <<Word("1=1")>>
              [] Len(parts) = 1  -> parts[1]
              [] OTHER -> Bracketed("(", Joined(parts, IF n.k = "and" THEN "AND" ELSE "OR"), ")")
      [] n.k = "not"  -> <<Word("NOT")>> \o Bracketed("(", parts[1], ")")
      [] n.k = "call" -> <<Name(n.name)>> \o Bracketed("[", Joined(parts, ","), "]")
      [] n.k = "as"   -> parts[1] \o <<Word("AS"), Name(n.name)>>
      [] n.k = "over" -> parts[1] \o <<Word("OVER")>> \o Bracketed("[", Joined(Tail(parts), ","), "]")
      [] n.k = "case" -> FlattenSeq([i \in DOMAIN parts |-> <<Word(CaseWord(n, i))>> \o parts[i]])
                            \o <<Word("END")>>

\* The ToSQL of one node, given that of the nodes below it.
NodeSQL(d, render, n, p) ==
    LET subs == Chain(render, n.subs, p)
    IN CASE n.k = "invalid" -> Fragment(<<>>, <<>>, p)
         [] n.k = "pred"    -> Values(d, <<Pred(n.name)>>, n.vals, p)
         [] n.k = "column"  -> Fragment(<<Name(n.name)>>, <<>>, p)
         [] n.k \in {"in", "not_in"} ->
                IF n.vals # <<>> THEN Values(d, <<Pred(n.name)>>, n.vals, p)
                ELSE Fragment(<<Word(IF n.k = "in" THEN "1=0" ELSE "1=1")>>, <<>>, p)
         [] n.k = "raw"      -> RawSQL(d, n, p)
         [] n.k = "subquery" -> SubquerySQL(d, n, p, SelectBuild(render, n.query[1]))
         [] OTHER            -> Fragment(Composed(n, subs.parts), subs.args, subs.next)

\* Rendering(d)[h] renders every tree of height h at most.
Rendering(d) ==
    LET sql[h \in 0..MaxHeight] ==
            IF h = 0 THEN <<>>
            ELSE [at \in Trees[h] \X Nat |-> NodeSQL(d, sql[h - 1], at[1], at[2])]
    IN sql

ToSQL(d, n, p) == Rendering(d)[MaxHeight][<<n, p>>]
=============================================================================
