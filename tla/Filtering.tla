----------------------------- MODULE Filtering -----------------------------
(***************************************************************************)
(* The query string of a listing, as filter/ reads it: filters and         *)
(* orders, and the two ways to turn filters into SQL.  A parameter is a    *)
(* field, what is written in brackets after it, and its values.            *)
(***************************************************************************)
EXTENDS Queries

CONSTANTS
    AllowedFields,  \* fields a resource may be filtered and ordered by
    FieldMap,       \* their columns
    Bare, Quoted,   \* predicates, by column and comparison: the column as it
                    \* is spelt, and quoted by the dialect
    Searched,       \* values of a query string
    Pattern         \* what LIKE is given for a value: "%" on either side

\* [op] after a field; [] and [nin][] are lists.
OperatorOf(suffix) ==
    CASE suffix = "[]"      -> "in"
      [] suffix = "[nin][]" -> "nin"
      [] OTHER              -> suffix
Operators == {"eq", "ne", "gt", "gte", "lt", "lte", "like", "ilike", "in", "nin"}

\* ILIKE is LOWER() LIKE LOWER() where CaseInsensitiveLike has no ILIKE.
Comparisons == {"=", "!=", ">", ">=", "<", "<=", "LIKE", "ILIKE", "IN", "NOT_IN"}

\* Resources map their fields to columns ValidateColumnReference accepts.
\* Predicates of another column, or another comparison, are written otherwise.
ASSUME FilteringAssumption ==
    /\ FieldMap \in [AllowedFields -> Identifiers \cup References]
    /\ {Bare, Quoted} \subseteq [(Identifiers \cup References) \X Comparisons -> Words]
    /\ IsInjective(Bare) /\ IsInjective(Quoted)
    /\ Searched \subseteq BoundValues /\ Pattern \in [Searched -> BoundValues]

\* Parameters that are no filters, whatever fields there are.
Reserved(param) ==
    \/ param.field \in {"page", "limit", "count"} /\ param.suffix = "eq"
    \/ param.field = "order" /\ param.suffix # "eq"

\* A suffix that is no operator stays a part of the name, which is then not
\* the name of an allowed field: the parameter is skipped.
Understood(param) ==
    /\ ~Reserved(param)
    /\ param.field \in AllowedFields
    /\ OperatorOf(param.suffix) \in Operators
    /\ param.suffix # "in"
    /\ param.values # <<>>

\* One value makes a list an equality, several make an equality a list.
FilterOf(param) ==
    LET op == OperatorOf(param.suffix)
        n  == Len(param.values)
    IN [field |-> FieldMap[param.field], values |-> param.values,
        op |-> CASE op = "eq" /\ n > 1 -> "in"
                 [] op = "in" /\ n = 1 -> "eq"
                 [] OTHER              -> op]

\* The parameters come out of a map in any order.
ParseFilters(params) ==
    {[i \in DOMAIN seq |-> FilterOf(seq[i])] : seq \in SetToSeqs({p \in params : Understood(p)})}

\* The switch of BuildWhereClause: the comparison and the arguments of a case.
Compares(filter) ==
    CASE filter.op = "eq"    -> "="
      [] filter.op = "ne"    -> "!="
      [] filter.op = "gt"    -> ">"
      [] filter.op = "gte"   -> ">="
      [] filter.op = "lt"    -> "<"
      [] filter.op = "lte"   -> "<="
      [] filter.op = "like"  -> "LIKE"
      [] filter.op = "ilike" -> "ILIKE"
      [] filter.op = "in"    -> "IN"
      [] filter.op = "nin"   -> "NOT_IN"

Arguments(filter) ==
    CASE filter.op \in {"in", "nin"}     -> filter.values
      [] filter.op \in {"like", "ilike"} -> <<Pattern[filter.values[1]]>>
      [] OTHER                           -> <<filter.values[1]>>

\* It writes the column as it is spelt.
Test(filter) == Pred(Bare[<<filter.field, Compares(filter)>>])

\* Mutant of WhereClause: one placeholder is counted for each filter.
BugOneEach(d, filters, p) ==
    LET part(i) == Values(d, <<Test(filters[i])>>, Arguments(filters[i]), p + i - 1).text
        all == FlattenSeq([i \in DOMAIN filters |-> Arguments(filters[i])])
    IN Fragment(<<Word("WHERE")>> \o Joined([i \in DOMAIN filters |-> part(i)], "AND"),
                all, p + Len(filters))

\* BuildWhereClause, from the placeholder the set has reached.
WhereClause(d, filters, p) ==
    LET lists == [i \in DOMAIN filters |-> Arguments(filters[i])]
        part(i) == Values(d, <<Test(filters[i])>>, lists[i], p + Before(lists, i)).text
        all == FlattenSeq(lists)
    IN Fragment(IF filters = <<>> THEN <<>>
                ELSE <<Word("WHERE")>> \o Joined([i \in DOMAIN filters |-> part(i)], "AND"),
                all, p + Len(all))

\* The switch of filterToCondition: Eq, Ne, ... quote the column.
ConditionOf(filter) ==
    LET name(comparison) == Quoted[<<filter.field, comparison>>]
        first == filter.values[1]
        one(comparison, value) == Comparison(filter.field, name(comparison), <<value>>)
    IN CASE filter.op = "eq"    -> one("=", first)
         [] filter.op = "ne"    -> one("!=", first)
         [] filter.op = "gt"    -> one(">", first)
         [] filter.op = "gte"   -> one(">=", first)
         [] filter.op = "lt"    -> one("<", first)
         [] filter.op = "lte"   -> one("<=", first)
         [] filter.op = "like"  -> one("LIKE", Pattern[first])
         [] filter.op = "ilike" -> one("ILIKE", Pattern[first])
         [] filter.op = "in"    -> In(filter.field, name("IN"), filter.values)
         [] filter.op = "nin"   -> NotIn(filter.field, name("NOT_IN"), filter.values)

\* OrderSet.ParseFromQuery: the fields in the order of their names, rank.
ParseOrders(fields, rank) ==
    {[i \in DOMAIN seq |-> FieldMap[seq[i]]] : seq \in
        {seq \in SetToSeqs(fields \cap AllowedFields) :
            \A i, j \in DOMAIN seq : i < j => rank[seq[i]] < rank[seq[j]]}}
=============================================================================
