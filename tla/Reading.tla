------------------------------ MODULE Reading ------------------------------
(***************************************************************************)
(* What the statements of Builders mean: their text read back as a         *)
(* database reads it, against the calls that asked for them.  A row of a   *)
(* table is the set of the predicates that hold of it; a condition means   *)
(* the rows, of those there are, that it lets through.                     *)
(***************************************************************************)
EXTENDS Builders

-----------------------------------------------------------------------------
(* Reading the text back, as a database does: NOT before AND before OR.    *)

Opening == {"(", "["}
Closing == {")", "]"}

\* How many brackets are open after each token.
Depths(text) ==
    LET after[i \in 0..Len(text)] ==
            IF i = 0 THEN 0
            ELSE after[i - 1] + (IF text[i].t \in Opening THEN 1
                                 ELSE IF text[i].t \in Closing THEN -1 ELSE 0)
    IN after

\* Where some of the words stand that no bracket encloses.
At(text, words) ==
    LET open == Depths(text)
    IN {i \in DOMAIN text : text[i].t \in words /\ open[i - 1] = 0}

\* A pair of brackets of one kind around the whole text.
Enclosed(text, open, close) ==
    /\ Len(text) >= 2 /\ text[1].t = open /\ text[Len(text)].t = close
    /\ LET depth == Depths(text) IN \A i \in 1..(Len(text) - 1) : depth[i] > 0

Unreadable == [ok |-> FALSE, rows |-> {}]
Readable(rows) == [ok |-> TRUE, rows |-> rows]

Joining(w, one, other) ==
    IF ~(one.ok /\ other.ok) THEN Unreadable
    ELSE Readable(IF w = "OR" THEN one.rows \cup other.rows ELSE one.rows \cap other.rows)

Opposite(rows, one) == IF one.ok THEN Readable(rows \ one.rows) ELSE Unreadable

\* What is on the two sides of the last w.
Cut(read, text, w) ==
    LET at == Max(At(text, {w}))
    IN Joining(w, read[SubSeq(text, 1, at - 1)], read[SubSeq(text, at + 1, Len(text))])

\* A predicate: its name, then its placeholders or a subquery.
IsPredicate(text) ==
    /\ text[1].t = "pred"
    /\ \/ \A i \in 2..Len(text) : text[i].t = "?"
       \/ Enclosed(Tail(text), "[", "]")

\* A text that no AND and no OR divides.
ReadUnit(rows, read, text) ==
    IF text[1].t = "NOT" THEN Opposite(rows, read[Tail(text)])
    ELSE IF Enclosed(text, "(", ")") THEN read[SubSeq(text, 2, Len(text) - 1)]
    ELSE IF text = <<Word("1=1")>> THEN Readable(rows)
    ELSE IF text = <<Word("1=0")>> THEN Readable({})
    ELSE IF IsPredicate(text) THEN Readable({row \in rows : text[1].v \in row})
    ELSE Unreadable

Read(rows, read, text) ==
    IF text = <<>> THEN Unreadable
    ELSE IF At(text, {"OR"}) # {} THEN Cut(read, text, "OR")
    ELSE IF At(text, {"AND"}) # {} THEN Cut(read, text, "AND")
    ELSE ReadUnit(rows, read, text)

\* Texts of n tokens at most.
Readings(rows) ==
    LET upTo[n \in Nat] ==
            [text \in Seq(Token) |-> IF n = 0 THEN Unreadable ELSE Read(rows, upTo[n - 1], text)]
    IN upTo

Reads(rows, text) == Readings(rows)[Len(text)][text]

ClauseWords == {"SELECT", "SELECT_DISTINCT", "FROM", "JOIN", "FULL_JOIN", "CROSS_JOIN", "WHERE",
                "GROUP_BY", "HAVING", "ORDER_BY", "LIMIT", "OFFSET", "UPDATE", "SET", "DELETE",
                "INSERT", "INSERT_IGNORE", "INTO", "VALUES", "ON_CONFLICT", "RETURNING", "WITH"}

\* What follows a clause word, up to the next one.
ClauseOf(text, w) ==
    LET from == Min(At(text, {w}))
        ends == {Len(text) + 1} \cup {i \in At(text, ClauseWords) : i > from}
    IN SubSeq(text, from + 1, Min(ends) - 1)

PredsIn(text) == {text[i].v : i \in {i \in DOMAIN text : text[i].t = "pred"}}
-----------------------------------------------------------------------------
(* What was asked for.                                                     *)

\* A subquery that Build refuses.
Unbuilt(n) == n.k = "subquery" /\ LET q == n.query[1] IN q.err \/ HasInvalid(Looked(q))

\* The rows a condition lets through: And() and Or() of nothing are true, as
\* the tests of condition_test.go have it; In() of nothing is false, and so is
\* a subquery that Build refuses, which subquery_panic_fix_test.go wants
\* written 1=0 whatever it is: NotInSubquery too, and below Not every row
\* passes.
Meaning(rows, n, parts) ==
    CASE n.k = "pred" \/ (n.k \in {"in", "not_in"} /\ n.vals # <<>>) ->
            {row \in rows : n.name \in row}
      [] n.k = "subquery" -> IF Unbuilt(n) THEN {} ELSE {row \in rows : n.name \in row}
      [] n.k = "in" /\ n.vals = <<>>     -> {}
      [] n.k = "not_in" /\ n.vals = <<>> -> rows
      [] n.k = "raw" -> Reads(rows, n.text).rows
      [] n.k = "and" -> {row \in rows : \A i \in DOMAIN parts : row \in parts[i].rows}
      [] n.k = "or"  -> {row \in rows : parts = <<>> \/ \E i \in DOMAIN parts : row \in parts[i].rows}
      [] n.k = "not" -> rows \ parts[1].rows
      [] OTHER -> {}

\* Whether a tree is a condition; whether it has one in it that was refused
\* when it was made; its predicates, and its rows.
Sense(rows, below, n) ==
    LET joins == n.k \in {"and", "or", "not"}
        parts == IF joins THEN [i \in DOMAIN n.subs |-> below[n.subs[i]]] ELSE <<>>
    IN [condition |-> /\ joins \/ n.k \in {"invalid", "pred", "in", "not_in", "raw", "subquery"}
                      /\ \A i \in DOMAIN parts : parts[i].condition,
        hollow    |-> n.k = "invalid" \/ \E i \in DOMAIN parts : parts[i].hollow,
        preds     |-> (IF n.k \in {"pred", "in", "not_in", "subquery"} THEN {n.name} ELSE PredsIn(n.text))
                         \cup UNION {parts[i].preds : i \in DOMAIN parts},
        rows      |-> Meaning(rows, n, parts)]

\* Senses(rows)[h] is about the trees of height h at most.
Senses(rows) ==
    LET sense[h \in 0..MaxHeight] ==
            IF h = 0 THEN <<>> ELSE [n \in Trees[h] |-> Sense(rows, sense[h - 1], n)]
    IN sense

SenseOf(rows, n) == Senses(rows)[MaxHeight][n]

\* Where, And, Or, Not, Having take a Condition.  Raw takes any text and writes
\* it as it stands, with no brackets around it: that its brackets pair, that no
\* OR divides it and that no clause begins in it is left to who calls Raw, and
\* assumed here.
ASSUME ReadingAssumption ==
    /\ \A n \in Conditions \cup HavingConditions : SenseOf({}, n).condition
    /\ \A text \in RawTexts :
          /\ \A i \in 0..Len(text) : Depths(text)[i] >= 0
          /\ Depths(text)[Len(text)] = 0
          /\ At(text, ClauseWords \cup {"OR"}) = {}
          /\ Reads({}, text).ok

\* Nothing refused by Eq, In, ... is among them: HolesDoNotRun is about those.
Senseful(rows, groups) ==
    \A i \in DOMAIN groups : \A j \in DOMAIN groups[i] : ~SenseOf(rows, groups[i][j]).hollow

\* The rows of every group, each group letting those of its conditions through.
Wanted(rows, groups) ==
    LET let == [i \in DOMAIN groups |-> [j \in DOMAIN groups[i] |-> SenseOf(rows, groups[i][j]).rows]]
    IN {row \in rows : \A i \in DOMAIN groups : \E j \in DOMAIN groups[i] : row \in let[i][j]}

\* Rows enough to tell conditions with these predicates apart; of others that
\* the text may have, either all hold or none.
Rows(text, groups) ==
    LET known == UNION {UNION {SenseOf({}, groups[i][j]).preds : j \in DOMAIN groups[i]}
                         : i \in DOMAIN groups}
    IN {row \cup others : row \in SUBSET known, others \in {{}, PredsIn(text) \ known}}
-----------------------------------------------------------------------------
(* Properties.                                                             *)

Means(word, groups) ==
    LET rows == Rows(ClauseOf(built.text, word), groups)
    IN IF groups = <<>> THEN At(built.text, {word}) = {}
       ELSE /\ At(built.text, {word}) # {}
            /\ Reads(rows, ClauseOf(built.text, word)) = Readable(Wanted(rows, groups))

\* The WHERE and the HAVING of a statement, read with SQL's precedence, hold
\* for the rows the calls asked for: Where and And narrow, Or widens the
\* condition before it and no other.  A subquery that Build refuses lets no row
\* through, so that a Not around it lets every row through: the statement is
\* built without an error and reads as if that condition had been left out.
\* Texts given to Raw are ones no OR divides (ReadingAssumption).
ClausesMeanWhatWasAsked ==
    Answered => /\ Senseful({}, asked.where) => Means("WHERE", asked.where)
                /\ Senseful({}, asked.having) => Means("HAVING", asked.having)

\* A condition that was refused when it was made never ends up in a statement
\* a database would run, though Build looks for it at the top only and not in
\* a DELETE: the hole it leaves does not parse.
HolesDoNotRun ==
    /\ Answered
    /\ \E i \in DOMAIN asked.where : \E j \in DOMAIN asked.where[i] :
          SenseOf({}, asked.where[i][j]).hollow
    => ~Reads({}, ClauseOf(built.text, "WHERE")).ok

\* In the SET of an UPDATE a column set twice is there once, with the later
\* value.
SetsOnce ==
    LET text == ClauseOf(built.text, "SET")
        Later(k) == \E j \in DOMAIN asked.sets : j > k /\ asked.sets[j][1] = asked.sets[k][1]
    IN \A k \in DOMAIN asked.sets : ~Later(k) =>
          \E i \in 1..(Len(text) - 1) :
             /\ text[i + 1].t = "?" /\ text[i + 1].v = asked.sets[k][2]
             /\ \A j \in DOMAIN text : text[j] = Name(asked.sets[k][1]) <=> j = i

\* The k-th row of an INSERT holds for each column what the k-th map has.
RowsLined ==
    LET into == ClauseOf(built.text, "INTO")
        n == Len(into) - 2
        marks == Marks(ClauseOf(built.text, "VALUES"))
    IN /\ Len(marks) = Len(asked.rows) * n
       /\ \A k \in DOMAIN asked.rows : \A i \in 1..n :
             LET row == asked.rows[k]
                 column == into[i + 1].v
             IN marks[(k - 1) * n + i].v = IF column \in DOMAIN row THEN row[column] ELSE "NULL"

\* Each value goes to the column it was given for: a column set twice in an
\* UPDATE is there once, with the later value; the rows of maps that do not
\* have the same columns line up with the columns of the first.
ValuesGoToTheirColumns ==
    Answered => /\ b.verb = "update" => SetsOnce
                /\ b.verb = "insert" /\ ~asked.mixed /\ {} \notin {DOMAIN row : row \in ToSet(asked.rows)}
                      => RowsLined
=============================================================================
