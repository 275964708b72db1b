------------------------------- MODULE SqlText -------------------------------
(***************************************************************************)
(* SQL as the query builders write it: a sequence of tokens.  A mark is a  *)
(* placeholder; v is the value it was written for, which the text does not *)
(* show.  Round brackets group conditions; square ones stand for the round *)
(* brackets of a list, a call or a subquery, which SQL tells from the      *)
(* others by what comes before them.                                       *)
(***************************************************************************)
EXTENDS Integers, SequencesExt

Word(w) == [t |-> w, n |-> 0, v |-> w]
Pred(name) == [t |-> "pred", n |-> 0, v |-> name]

\* A table, a column, an alias: quoted, so that it is no word of SQL whatever
\* it is spelt like.  The functions' names and the numbers of LIMIT are no
\* word of SQL either.
Name(name) == [t |-> "name", n |-> 0, v |-> name]

\* Placeholder(n) of a dialect: "$n" where it numbers them, "?" elsewhere.
Mark(d, n, value) == [t |-> "?", n |-> IF d.numbered THEN n ELSE 0, v |-> value]

\* What a number of arguments leaves in the text, from the placeholder p on.
Numbered(d, vals, p) == [i \in DOMAIN vals |-> Mark(d, p + i - 1, vals[i])]

\* The placeholders of a text, in its order.
Marks(text) ==
    LET upTo[k \in 0..Len(text)] ==
            IF k = 0 THEN <<>>
            ELSE IF text[k].t = "?" THEN Append(upTo[k - 1], text[k]) ELSE upTo[k - 1]
    IN upTo[Len(text)]

\* How many of them there are up to token k.
Place(text, k) == Len(Marks(SubSeq(text, 1, k)))

\* How many values the lists before the k-th hold.
Before(lists, k) == Len(FlattenSeq(SubSeq(lists, 1, k - 1)))

Separated(parts, sep) == [i \in DOMAIN parts |-> (IF i = 1 THEN <<>> ELSE <<Word(sep)>>) \o parts[i]]

\* Mutant of Joined: parts without text are left out.
BugSkipEmpty(parts, sep) ==
    FlattenSeq(Separated(SelectSeq(parts, LAMBDA text : text # <<>>), sep))

Joined(parts, sep) == FlattenSeq(Separated(parts, sep))

\* "$i" is found in the text of "$p" when the digits of i begin those of p;
\* a statement takes at most 65535 arguments.
Powers == {1, 10, 100, 1000, 10000}
BeginsWith(p, i) == \E w \in Powers : p \div w = i
Spliced(p, i, new) == LET w == CHOOSE w \in Powers : p \div w = i IN (new * w) + (p % w)

\* strings.Replace(text, "$i", "$new", 1): the first place it is found.
ReplaceMark(text, i, new) ==
    LET found == {k \in DOMAIN text : text[k].t = "?" /\ BeginsWith(text[k].n, i)}
    IN IF found = {} THEN text ELSE [text EXCEPT ![Min(found)].n = Spliced(@, i, new)]

\* Mutant of renumberParameters: from the lowest mark to the highest.
BugRenumberUpwards(d, text, count, start) ==
    LET done[k \in 0..count] == IF k = 0 THEN text ELSE ReplaceMark(done[k - 1], k, start + k - 1)
    IN IF d.numbered THEN done[count] ELSE text

\* A subquery was numbered from 1; in the statement around it, its count
\* arguments start at another number.  From the highest mark to the lowest.
\* Where every placeholder is "?", replacing one by another changes nothing.
renumberParameters(d, text, count, start) ==
    LET done[k \in 0..count] ==
            IF k = 0 THEN text
            ELSE LET i == count - k + 1 IN ReplaceMark(done[k - 1], i, start + i - 1)
    IN IF d.numbered THEN done[count] ELSE text

\* The arguments are the values the marks stand for: by number, or by place.
BoundTo(d, text, args) ==
    LET marks == Marks(text)
    IN /\ Len(marks) = Len(args)
       /\ \A k \in DOMAIN marks :
            LET n == IF d.numbered THEN marks[k].n ELSE k
            IN n \in DOMAIN args /\ args[n] = marks[k].v
=============================================================================
