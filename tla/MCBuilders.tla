----------------------------- MODULE MCBuilders -----------------------------
(* Trees that nest, share no value and reach two-digit placeholders.       *)
EXTENDS Reading

PostgreSQL == [numbered |-> TRUE, fullJoin |-> TRUE, returning |-> TRUE, onConflict |-> TRUE]
MySQL == [numbered |-> FALSE, fullJoin |-> FALSE, returning |-> FALSE, onConflict |-> FALSE]

MCDialects == {PostgreSQL, MySQL}

Select(conds) == [Builder("select", <<"t">>) EXCEPT !.conditions = conds]

Plain == Comparison("t.c", "plain", <<"v1", "v2">>)
Failing == Subquery("failing", [Select(<<>>) EXCEPT !.err = TRUE])
Odd == Or(<<In("c", "empty", <<>>), Not(And(<<>>)), Failing>>)
Deep == Not(Or(<<Between("c", "deep1", "v3", "v20"), ColComparison("c", "t.c", "deep2")>>))
RawText == Raw(<<Pred("raw"), Word("["), Mark(MySQL, 0, "v4"), Word(","), Mark(MySQL, 0, "v5"),
                 Word("]")>>, <<"v4", "v5">>)
Bad == Comparison("1c", "bad", <<"v6">>)
Lame == Or(<<Bad, Comparison("c", "lame", <<"v7">>)>>)

\* Eleven values: in the subquery their numbers have two digits.
Many == [i \in 1..11 |-> "m" \o ToString(i)]
Inner == Subquery("inner", Select(<<In("c", "many", Many), Comparison("c", "after", <<"v8">>)>>))
Outer == Subquery("outer", [Select(<<Comparison("c", "o", <<"v9">>), Inner>>) EXCEPT
                                !.exprs = <<Literal("v10")>>])

Total == FirstKnown("COALESCE", <<Aggregate("SUM", Col("c")), Literal("v11")>>)
Ranked == WindowCall("NTILE", <<Literal("v12")>>, Window(<<Col("c")>>, <<Literal("v13")>>))
Rounded == MathCall("ROUND", AggregateOver("AVG", Moment("NOW"), Window(<<>>, <<Total>>)),
                    <<Literal("v21")>>)
Banded == As(SimpleCase(Literal("v14"), <<Literal("v15"), Total>>, <<Ranked>>), "a")
Flagged == SearchedCase(<<Comparison("c", "when", <<"v16">>), Rounded>>, <<Literal("v17")>>)

MCRawTexts == {RawText.text}
MCConditions == {Plain, Odd, Deep, RawText, Bad, Lame, Outer}
MCJoinConditions == {Comparison("t.c", "join", <<"v18">>)}
MCHavingConditions == {Comparison("c", "having", <<"v19">>), Not(Failing)}
MCExpressions == {Banded, Flagged, As(Col("c"), "1c")}
MCSelects == {Select(<<Plain>>), [Select(<<Inner>>) EXCEPT !.exprs = <<Total>>], Select(<<Bad>>)}
MCColumnLists == {<<"a", "c">>}
MCRowValues == {<<"w1", "w2">>, <<"w3">>}
MCRowMaps == {[a |-> "r1", c |-> "r2"], [a |-> "r3"], [c |-> "r4", d |-> "r5"]}

Param(field, suffix, values) == [field |-> field, suffix |-> suffix, values |-> values]
MCQueryStrings == {{Param("status", "eq", <<"q1", "q2">>), Param("age", "ilike", <<"q3", "q4">>)},
                   {Param("status", "[]", <<"q5">>), Param("age", "[nin][]", <<"q6", "q7">>),
                    Param("age", "[zz]", <<"q8">>), Param("page", "eq", <<"q9">>)}}
MCSearched == {"q" \o ToString(i) : i \in 1..9}
MCPattern == [value \in MCSearched |-> "%" \o value \o "%"]
MCFieldMap == [f \in AllowedFields |-> IF f = "age" THEN "a" ELSE "c"]
MCBare == [at \in (Identifiers \cup References) \X Comparisons |-> at[1] \o " " \o at[2]]
MCQuoted == [at \in (Identifiers \cup References) \X Comparisons |->
                "'" \o at[1] \o "' " \o at[2]]
MCWords == STRING \ {"?"}
MCValues == STRING
MCRank == [f \in AllowedFields |-> IF f = "age" THEN 1 ELSE 2]
=============================================================================
