--------------------------- MODULE BuildersProofs ---------------------------
(***************************************************************************)
(* Theorems about the query builders: whatever trees of conditions and     *)
(* expressions a statement is built from, its placeholders are numbered in *)
(* the order of its arguments, and each stands for the value it was        *)
(* written for.                                                            *)
(***************************************************************************)
EXTENDS Builders, FiniteSetTheorems, SequenceTheorems, WellFoundedInduction, TLAPS

-----------------------------------------------------------------------------
(* Induction up to n, and sequences by their prefixes                      *)

\* A set with 0 that leads from each number below n to the next holds them all.
LEMMA Upwards ==
    ASSUME NEW n \in Nat, NEW P, 0 \in P, \A i \in 0..(n - 1) : i \in P => i + 1 \in P
    PROVE  \A i \in 0..n : i \in P
<1> DEFINE Missing == {i \in 0..n : i \notin P}
<1> SUFFICES ASSUME Missing # {} PROVE FALSE
  OBVIOUS
<1>1. Missing \subseteq Nat
  OBVIOUS
<1> DEFINE Less == {p \in Nat \X Nat : p[1] < p[2]}
<1>2. PICK m \in Missing : \A y \in Missing : <<y, m>> \notin Less
  <2>1. IsWellFoundedOn(Less, Nat)
    BY NatLessThanWellFounded, Zenon DEF OpToRel
  <2> HIDE DEF Missing, Less
  <2> QED
    BY <1>1, <2>1, WFMin
<1>3. \A y \in Missing : ~(y < m)
  BY <1>1, <1>2
<1>4. m # 0 /\ m - 1 \in 0..(n - 1)
  BY <1>2
<1>5. m - 1 \in P
  BY <1>3, <1>4
<1>6. (m - 1) + 1 \in P
  BY <1>4, <1>5
<1>7. m \in Nat /\ (m - 1) + 1 = m
  BY <1>1, <1>2
<1> QED
  BY <1>2, <1>6, <1>7

\* pre leads from the empty sequence to s.
Grows(pre, s) ==
    /\ Len(s) \in Nat /\ pre[0] = <<>> /\ pre[Len(s)] = s
    /\ \A i \in 0..Len(s) : pre[i] = SubSeq(s, 1, i) /\ Len(pre[i]) = i
    /\ \A i \in 0..(Len(s) - 1) : /\ i \in 0..Len(s) /\ i + 1 \in 0..Len(s) /\ i + 1 \in 1..Len(s)
                                  /\ pre[i + 1] = Append(pre[i], s[i + 1])

LEMMA PrefixSteps ==
    ASSUME NEW S, NEW s \in Seq(S)
    PROVE  \E pre \in [0..Len(s) -> Seq(S)] : Grows(pre, s)
<1>1. Len(s) \in Nat /\ \A i \in 1..Len(s) : s[i] \in S
  OBVIOUS
<1>2. SubSeq(s, 1, 0) = <<>>
  BY SubSeqEmpty
<1>3. ASSUME NEW i \in 0..Len(s) PROVE SubSeq(s, 1, i) \in Seq(S) /\ Len(SubSeq(s, 1, i)) = i
  <2>1. \A j \in 1..i : s[j] \in S
    BY <1>1
  <2> QED
    BY <2>1, SubSeqProperties
<1>4. ASSUME NEW i \in 0..(Len(s) - 1)
      PROVE  SubSeq(s, 1, i + 1) = Append(SubSeq(s, 1, i), s[i + 1])
  <2>1. /\ SubSeq(s, 1, i) \in Seq(S) /\ Len(SubSeq(s, 1, i)) = i
        /\ SubSeq(s, 1, i + 1) \in Seq(S) /\ Len(SubSeq(s, 1, i + 1)) = i + 1
    BY <1>1, <1>3
  <2>2. \A j \in 1..i : SubSeq(s, 1, i)[j] = s[j]
    BY <1>1, SubSeqProperties
  <2>3. \A j \in 1..(i + 1) : SubSeq(s, 1, i + 1)[j] = s[j]
    BY <1>1, SubSeqProperties
  <2> QED
    BY <1>1, <2>1, <2>2, <2>3, SeqEqual
<1>5. SubSeq(s, 1, Len(s)) = s
  BY SubSeqFull
<1>6. PICK pre : pre = [i \in 0..Len(s) |-> SubSeq(s, 1, i)]
  OBVIOUS
<1>7. 0 \in 0..Len(s) /\ Len(s) \in 0..Len(s)
      /\ \A i \in 0..(Len(s) - 1) : i \in 0..Len(s) /\ i + 1 \in 0..Len(s) /\ i + 1 \in 1..Len(s)
  BY <1>1
<1>8. pre \in [0..Len(s) -> Seq(S)]
  BY <1>3, <1>6
<1> QED
  BY <1>1, <1>2, <1>3, <1>4, <1>5, <1>6, <1>7, <1>8 DEF Grows

\* f is defined from its value one below.
Ascends(f, n, base, step) == f[0] = base /\ \A k \in 1..n : f[k] = step[k][f[k - 1]]

\* Such functions exist.
LEMMA Recursion ==
    ASSUME NEW n \in Nat, NEW S, NEW base \in S, NEW step \in [1..n -> [S -> S]]
    PROVE  \E f \in [0..n -> S] : Ascends(f, n, base, step)
<1> USE DEF Ascends
<1> DEFINE P == {m \in 0..n : \E f \in [0..m -> S] : Ascends(f, m, base, step)}
<1>1. 0 \in P
  <2>1. PICK f : f = [k \in 0..0 |-> base]
    OBVIOUS
  <2>2. f \in [0..0 -> S] /\ Ascends(f, 0, base, step) /\ 0 \in 0..n
    BY <2>1
  <2> QED
    BY <2>2
<1>2. ASSUME NEW m \in 0..(n - 1), m \in P PROVE m + 1 \in P
  <2>1. PICK f \in [0..m -> S] : Ascends(f, m, base, step)
    BY <1>2
  <2> DEFINE g == [k \in 0..(m + 1) |-> IF k <= m THEN f[k] ELSE step[m + 1][f[m]]]
  <2>2. /\ m \in Nat /\ m + 1 \in 1..n /\ (m + 1) - 1 = m /\ f[m] \in S
        /\ step[m + 1] \in [S -> S]
    OBVIOUS
  <2>3. step[m + 1][f[m]] \in S
    BY <2>2
  <2>4. g \in [0..(m + 1) -> S]
    BY <2>2, <2>3
  <2>5. (\A k \in 0..m : g[k] = f[k]) /\ g[m + 1] = step[m + 1][f[m]]
    BY <2>2
  <2>6. ASSUME NEW k \in 1..(m + 1) PROVE g[k] = step[k][g[k - 1]]
    <3>1. CASE k = m + 1
      BY <2>2, <2>5, <3>1
    <3>2. CASE k # m + 1
      <4>1. k \in 1..m /\ k \in 0..m /\ k - 1 \in 0..m
        BY <2>2, <3>2
      <4> QED
        BY <2>1, <2>5, <4>1
    <3> QED
      BY <3>1, <3>2
  <2>7. Ascends(g, m + 1, base, step)
    BY <2>1, <2>2, <2>5, <2>6
  <2>8. m + 1 \in 0..n
    BY <2>2
  <2> HIDE DEF g, Ascends
  <2> QED
    BY <2>4, <2>7, <2>8
<1>3. \A m \in 0..n : m \in P
  <2> HIDE DEF P
  <2> QED
    BY <1>1, <1>2, Upwards
<1> QED
  BY <1>3, n \in 0..n

-----------------------------------------------------------------------------
(* The marks of a text                                                     *)

\* Marks counts along the text.
LEMMA MarksUpTo ==
    ASSUME NEW text \in Seq(Token)
    PROVE  \E f \in [0..Len(text) -> Seq(Token)] :
              /\ f[0] = <<>>
              /\ \A k \in 1..Len(text) :
                    f[k] = IF text[k].t = "?" THEN Append(f[k - 1], text[k]) ELSE f[k - 1]
              /\ Marks(text) = f[Len(text)]
<1> DEFINE N == Len(text)
           Is(f) == f = [k \in 0..N |->
                            IF k = 0 THEN <<>>
                            ELSE IF text[k].t = "?" THEN Append(f[k - 1], text[k])
                                                    ELSE f[k - 1]]
           step == [k \in 1..N |-> [m \in Seq(Token) |->
                        IF text[k].t = "?" THEN Append(m, text[k]) ELSE m]]
           F == CHOOSE f : Is(f)
<1>1. N \in Nat /\ \A k \in 1..N : text[k] \in Token
  OBVIOUS
<1>2. <<>> \in Seq(Token) /\ step \in [1..N -> [Seq(Token) -> Seq(Token)]]
  BY <1>1
<1>3. PICK f \in [0..N -> Seq(Token)] : Ascends(f, N, <<>>, step)
  <2> HIDE DEF step, N
  <2> QED
    BY <1>1, <1>2, Recursion
<1> USE DEF Ascends
<1>4. \A k \in 1..N : /\ f[k - 1] \in Seq(Token)
                      /\ f[k] = IF text[k].t = "?" THEN Append(f[k - 1], text[k]) ELSE f[k - 1]
  <2>1. \A k \in 1..N : f[k - 1] \in Seq(Token)
    BY <1>1
  <2> QED
    BY <1>3, <2>1
<1>5. Is(f)
  <2> HIDE DEF N
  <2>1. \A k \in 0..N : k = 0 \/ k \in 1..N
    BY <1>1
  <2>2. \A k \in 0..N : f[k] = IF k = 0 THEN <<>>
                               ELSE IF text[k].t = "?" THEN Append(f[k - 1], text[k])
                                                       ELSE f[k - 1]
    BY <1>3, <1>4, <2>1
  <2> QED
    BY <2>2
<1>6. Is(F)
  <2> HIDE DEF Is
  <2> QED
    BY <1>5
<1>7. Marks(text) = F[N]
  BY DEF Marks
<1> HIDE DEF F
<1>8. F = f
  <2> HIDE DEF N
  <2>1. /\ F = [k \in 0..N |-> F[k]]
        /\ F[0] = <<>>
        /\ \A k \in 1..N : F[k] = IF text[k].t = "?" THEN Append(F[k - 1], text[k]) ELSE F[k - 1]
    <3>1. 0 \in 0..N /\ \A k \in 1..N : k \in 0..N /\ k # 0
      BY <1>1
    <3>2. \A k \in 0..N : F[k] = IF k = 0 THEN <<>>
                                 ELSE IF text[k].t = "?" THEN Append(F[k - 1], text[k])
                                                         ELSE F[k - 1]
      BY <1>6
    <3>3. F = [k \in 0..N |-> F[k]]
      BY <1>6
    <3> QED
      BY <3>1, <3>2, <3>3
  <2> DEFINE P == {k \in 0..N : F[k] = f[k]}
  <2>2. 0 \in P
    BY <1>1, <1>3, <2>1
  <2>3. ASSUME NEW k \in 0..(N - 1), k \in P PROVE k + 1 \in P
    <3>1. k + 1 \in 1..N /\ (k + 1) - 1 = k /\ F[k] = f[k]
      BY <1>1, <2>3
    <3>2. F[k + 1] = IF text[k + 1].t = "?" THEN Append(F[k], text[k + 1]) ELSE F[k]
      BY <2>1, <3>1
    <3>3. f[k + 1] = IF text[k + 1].t = "?" THEN Append(f[k], text[k + 1]) ELSE f[k]
      BY <1>4, <3>1
    <3> QED
      BY <1>1, <3>1, <3>2, <3>3
  <2>4. \A k \in 0..N : k \in P
    <3> HIDE DEF P
    <3> QED
      BY <1>1, <2>2, <2>3, Upwards
  <2> QED
    BY <2>1, <2>4
<1> QED
  BY <1>3, <1>4, <1>7, <1>8

LEMMA MarksAppend ==
    /\ Marks(<<>>) = <<>>
    /\ \A text \in Seq(Token), tok \in Token :
          Marks(Append(text, tok)) =
              IF tok.t = "?" THEN Append(Marks(text), tok) ELSE Marks(text)
<1>1. Marks(<<>>) = <<>>
  <2>1. <<>> \in Seq(Token) /\ Len(<<>>) = 0
    OBVIOUS
  <2> QED
    BY <2>1, MarksUpTo
<1>2. ASSUME NEW text \in Seq(Token), NEW tok \in Token
      PROVE  Marks(Append(text, tok)) =
                 IF tok.t = "?" THEN Append(Marks(text), tok) ELSE Marks(text)
  <2> DEFINE more == Append(text, tok)
             n == Len(text)
  <2>1. /\ n \in Nat /\ more \in Seq(Token) /\ Len(more) = n + 1
        /\ more[n + 1] = tok /\ \A k \in 1..n : more[k] = text[k]
    OBVIOUS
  <2>2. PICK f \in [0..n -> Seq(Token)] :
            /\ f[0] = <<>>
            /\ \A k \in 1..n : f[k] = IF text[k].t = "?" THEN Append(f[k - 1], text[k])
                                                         ELSE f[k - 1]
            /\ Marks(text) = f[n]
    BY MarksUpTo
  <2> HIDE DEF more
  <2>3. PICK g \in [0..Len(more) -> Seq(Token)] :
            /\ g[0] = <<>>
            /\ \A k \in 1..Len(more) : g[k] = IF more[k].t = "?" THEN Append(g[k - 1], more[k])
                                                                 ELSE g[k - 1]
            /\ Marks(more) = g[Len(more)]
    BY <2>1, MarksUpTo
  <2> DEFINE P == {k \in 0..n : f[k] = g[k]}
  <2> HIDE DEF n
  <2>4. 0 \in P
    BY <2>1, <2>2, <2>3
  <2>5. ASSUME NEW k \in 0..(n - 1), k \in P PROVE k + 1 \in P
    <3>1. k + 1 \in 1..n /\ (k + 1) - 1 = k /\ f[k] = g[k]
      <4>1. f[k] = g[k]
        BY <2>5
      <4>2. n \in Nat
        BY <2>1
      <4> HIDE DEF P
      <4>3. k + 1 \in 1..n /\ (k + 1) - 1 = k
        BY <4>2
      <4> QED
        BY <4>1, <4>3
    <3>2. f[k + 1] = IF text[k + 1].t = "?" THEN Append(f[k], text[k + 1]) ELSE f[k]
      BY <2>2, <3>1
    <3>3. k + 1 \in 1..Len(more)
      BY <2>1, <3>1
    <3>4. g[k + 1] = IF more[k + 1].t = "?" THEN Append(g[k], more[k + 1]) ELSE g[k]
      BY <2>3, <3>1, <3>3
    <3> QED
      BY <2>1, <3>1, <3>2, <3>4
  <2>6. n \in P
    <3> HIDE DEF P
    <3>1. n \in Nat /\ n \in 0..n
      BY <2>1
    <3>2. \A i \in 0..n : i \in P
      BY <2>4, <2>5, <3>1, Upwards
    <3> QED
      BY <3>1, <3>2
  <2>7. g[n + 1] = IF tok.t = "?" THEN Append(g[n], tok) ELSE g[n]
    <3>1. n + 1 \in 1..Len(more) /\ (n + 1) - 1 = n /\ more[n + 1] = tok
      BY <2>1
    <3>2. g[n + 1] = IF more[n + 1].t = "?" THEN Append(g[(n + 1) - 1], more[n + 1])
                                            ELSE g[(n + 1) - 1]
      BY <2>3, <3>1, Zenon
    <3> QED
      BY <3>1, <3>2, Zenon
  <2> QED
    BY <2>1, <2>2, <2>3, <2>6, <2>7 DEF more
<1> QED
  BY <1>1, <1>2

LEMMA MarksType ==
    ASSUME NEW text \in Seq(Token)
    PROVE  Marks(text) \in Seq(Token)
<1>1. PICK f \in [0..Len(text) -> Seq(Token)] : Marks(text) = f[Len(text)]
  BY MarksUpTo
<1>2. Len(text) \in 0..Len(text)
  OBVIOUS
<1> QED
  BY <1>1, <1>2

\* The marks of two texts, one after the other.
LEMMA MarksConcat ==
    ASSUME NEW s \in Seq(Token), NEW t \in Seq(Token)
    PROVE  Marks(s \o t) = Marks(s) \o Marks(t)
<1>1. PICK pre \in [0..Len(t) -> Seq(Token)] : Grows(pre, t)
  BY PrefixSteps
<1> USE DEF Grows
<1> DEFINE P == {i \in 0..Len(t) : Marks(s \o pre[i]) = Marks(s) \o Marks(pre[i])}
<1>2. Marks(s) \in Seq(Token) /\ \A i \in 0..Len(t) : Marks(pre[i]) \in Seq(Token)
  BY <1>1, MarksType
<1>3. 0 \in P
  <2>1. s \o <<>> = s /\ Marks(s) \o <<>> = Marks(s)
    BY <1>2, ConcatEmptySeq
  <2>2. 0 \in 0..Len(t) /\ pre[0] = <<>>
    BY <1>1
  <2>3. Marks(<<>>) = <<>>
    BY MarksAppend
  <2> QED
    BY <2>1, <2>2, <2>3
<1>4. ASSUME NEW i \in 0..(Len(t) - 1), i \in P PROVE i + 1 \in P
  <2>1. i \in 0..Len(t) /\ i + 1 \in 0..Len(t) /\ t[i + 1] \in Token
    BY <1>1
  <2>2. PICK u \in Seq(Token), tok \in Token : u = pre[i] /\ pre[i + 1] = Append(u, tok)
    BY <1>1, <2>1
  <2>3. s \o Append(u, tok) = Append(s \o u, tok) /\ s \o u \in Seq(Token)
    OBVIOUS
  <2>4. PICK m \in Seq(Token), w \in Seq(Token) :
            m = Marks(s) /\ w = Marks(u) /\ Marks(s \o u) = m \o w
    BY <1>2, <1>4, <2>1, <2>2
  <2>5. m \o Append(w, tok) = Append(m \o w, tok)
    OBVIOUS
  <2>6. Marks(Append(s \o u, tok)) = m \o Marks(Append(u, tok))
    BY <2>3, <2>4, <2>5, MarksAppend
  <2> QED
    BY <2>1, <2>2, <2>3, <2>4, <2>6
<1>5. \A i \in 0..Len(t) : i \in P
  <2> HIDE DEF P
  <2> QED
    BY <1>1, <1>3, <1>4, Upwards
<1>6. Len(t) \in 0..Len(t)
  BY <1>1
<1> QED
  BY <1>1, <1>5, <1>6

\* Text without placeholders.
Unmarked == {text \in Seq(Token) : \A k \in 1..Len(text) : text[k].t # "?"}

LEMMA UnmarkedText ==
    ASSUME NEW text \in Unmarked
    PROVE  text \in Seq(Token) /\ Marks(text) = <<>>
<1>1. PICK f \in [0..Len(text) -> Seq(Token)] :
          /\ f[0] = <<>>
          /\ \A k \in 1..Len(text) :
                f[k] = IF text[k].t = "?" THEN Append(f[k - 1], text[k]) ELSE f[k - 1]
          /\ Marks(text) = f[Len(text)]
  BY MarksUpTo DEF Unmarked
<1> DEFINE P == {k \in 0..Len(text) : f[k] = <<>>}
<1>2. Len(text) \in Nat /\ \A k \in 1..Len(text) : text[k].t # "?"
  BY DEF Unmarked
<1>3. 0 \in P
  BY <1>1, <1>2
<1>4. ASSUME NEW i \in 0..(Len(text) - 1), i \in P PROVE i + 1 \in P
  <2>1. i + 1 \in 1..Len(text) /\ (i + 1) - 1 = i
    BY <1>2
  <2> QED
    BY <1>1, <1>2, <1>4, <2>1
<1>5. \A i \in 0..Len(text) : i \in P
  <2> HIDE DEF P
  <2> QED
    BY <1>2, <1>3, <1>4, Upwards
<1> QED
  BY <1>1, <1>2, <1>5 DEF Unmarked

\* It may come before or after: the marks are the same.
LEMMA MarksAround ==
    ASSUME NEW text \in Seq(Token), NEW other \in Unmarked
    PROVE  /\ Marks(other \o text) = Marks(text) /\ other \o text \in Seq(Token)
           /\ Marks(text \o other) = Marks(text) /\ text \o other \in Seq(Token)
<1>1. Marks(text) \in Seq(Token) /\ other \in Seq(Token) /\ Marks(other) = <<>>
  BY MarksType, UnmarkedText
<1>2. <<>> \o Marks(text) = Marks(text) /\ Marks(text) \o <<>> = Marks(text)
  BY <1>1, ConcatEmptySeq
<1>3. /\ Marks(other \o text) = Marks(other) \o Marks(text)
      /\ Marks(text \o other) = Marks(text) \o Marks(other)
  BY <1>1, MarksConcat
<1>4. other \o text \in Seq(Token) /\ text \o other \in Seq(Token)
  BY <1>1, ConcatProperties
<1> QED
  BY <1>1, <1>2, <1>3, <1>4

-----------------------------------------------------------------------------
(* Sequences joined into one                                               *)

\* f adds up the lists of s.
Gathers(f, s) == f[0] = <<>> /\ \A k \in 1..Len(s) : f[k] = f[k - 1] \o s[k]

LEMMA FlattenUpTo ==
    ASSUME NEW S, NEW s \in Seq(Seq(S))
    PROVE  \E f \in [0..Len(s) -> Seq(S)] : Gathers(f, s) /\ FlattenSeq(s) = f[Len(s)]
<1> DEFINE N == Len(s)
           step == [k \in 1..N |-> [m \in Seq(S) |-> m \o s[k]]]
           Is(f) == f = [i \in 1..N |-> IF i = 1 THEN s[i] ELSE f[i - 1] \o s[i]]
           F == CHOOSE f : Is(f)
<1>1. N \in Nat /\ \A k \in 1..N : s[k] \in Seq(S)
  OBVIOUS
<1>2. <<>> \in Seq(S) /\ step \in [1..N -> [Seq(S) -> Seq(S)]]
  BY <1>1
<1>3. PICK f \in [0..N -> Seq(S)] : Ascends(f, N, <<>>, step)
  <2> HIDE DEF step, N
  <2> QED
    BY <1>1, <1>2, Recursion
<1>4. /\ f[0] = <<>>
      /\ \A k \in 1..N : k - 1 \in 0..N /\ f[k - 1] \in Seq(S) /\ f[k] = f[k - 1] \o s[k]
  <2> HIDE DEF N
  <2>1. \A k \in 1..N : k - 1 \in 0..N
    BY <1>1
  <2>2. \A k \in 1..N : f[k - 1] \in Seq(S)
    BY <2>1
  <2> QED
    BY <1>3, <2>1, <2>2 DEF Ascends
<1>5. CASE N = 0
  <2>1. s = <<>>
    BY <1>5
  <2>2. FlattenSeq(s) = <<>>
    BY <2>1 DEF FlattenSeq
  <2> QED
    BY <1>4, <1>5, <2>2 DEF Gathers
<1>6. CASE N # 0
  <2> DEFINE g == [i \in 1..N |-> f[i]]
  <2>1. FlattenSeq(s) = F[N]
    BY <1>6 DEF FlattenSeq
  <2> HIDE DEF N
  <2>2. Is(g)
    <3>1. \A i \in 1..N : g[i] = IF i = 1 THEN s[i] ELSE g[i - 1] \o s[i]
      <4> SUFFICES ASSUME NEW i \in 1..N
                   PROVE  g[i] = IF i = 1 THEN s[i] ELSE g[i - 1] \o s[i]
        OBVIOUS
      <4>1. CASE i = 1
        <5> HIDE DEF g
        <5>1. 1 \in 1..N /\ 1 - 1 = 0
          BY <4>1
        <5>3. f[1] = f[1 - 1] \o s[1] /\ s[1] \in Seq(S)
          BY <1>1, <1>4, <5>1
        <5>2. <<>> \o s[1] = s[1]
          BY <5>3, ConcatEmptySeq
        <5> QED
          BY <1>4, <4>1, <5>1, <5>2, <5>3 DEF g
      <4>2. CASE i # 1
        <5>1. i - 1 \in 1..N
          BY <1>1, <4>2
        <5>2. f[i] = f[i - 1] \o s[i] /\ g[i] = f[i] /\ g[i - 1] = f[i - 1]
          BY <1>4, <5>1
        <5> QED
          BY <4>2, <5>2
      <4> QED
        BY <4>1, <4>2
    <3> QED
      BY <3>1
  <2>3. Is(F)
    <3> HIDE DEF Is, g
    <3> QED
      BY <2>2
  <2> HIDE DEF F
  <2>4. \A i \in 1..N : F[i] = IF i = 1 THEN s[i] ELSE F[i - 1] \o s[i]
    BY <2>3
  <2> DEFINE P == {i \in 0..(N - 1) : F[i + 1] = f[i + 1]}
  <2>5. 0 \in P
    <3>1. 1 \in 1..N
      BY <1>1, <1>6
    <3>2. F[1] = s[1]
      BY <2>4, <3>1
    <3>3. g[1] = s[1]
      BY <2>2, <3>1
    <3> QED
      BY <1>1, <1>6, <3>1, <3>2, <3>3
  <2>6. ASSUME NEW i \in 0..((N - 1) - 1), i \in P PROVE i + 1 \in P
    <3>1. /\ i \in Nat /\ (i + 1) + 1 \in 1..N /\ (i + 1) + 1 # 1
          /\ ((i + 1) + 1) - 1 = i + 1 /\ F[i + 1] = f[i + 1] /\ i + 1 \in 0..(N - 1)
      BY <1>1, <2>6
    <3>2. F[(i + 1) + 1] = F[i + 1] \o s[(i + 1) + 1]
      BY <2>4, <3>1
    <3>3. f[(i + 1) + 1] = f[i + 1] \o s[(i + 1) + 1]
      BY <1>4, <3>1
    <3> QED
      BY <3>1, <3>2, <3>3
  <2>7. N - 1 \in Nat /\ \A i \in 0..(N - 1) : i \in P
    <3>1. N - 1 \in Nat
      BY <1>1, <1>6
    <3> HIDE DEF P
    <3> QED
      BY <2>5, <2>6, <3>1, Upwards
  <2>8. N - 1 \in 0..(N - 1) /\ (N - 1) + 1 = N
    BY <1>1, <1>6
  <2>9. F[N] = f[N]
    BY <2>7, <2>8
  <2> QED
    BY <1>3, <1>4, <2>1, <2>9 DEF Gathers, N
<1> QED
  BY <1>5, <1>6

LEMMA FlattenEmpty == FlattenSeq(<<>>) = <<>>
BY DEF FlattenSeq

LEMMA FlattenAppend ==
    ASSUME NEW S, NEW s \in Seq(Seq(S)), NEW x \in Seq(S)
    PROVE  /\ FlattenSeq(s) \in Seq(S)
           /\ FlattenSeq(Append(s, x)) = FlattenSeq(s) \o x
<1> DEFINE more == Append(s, x)
           n == Len(s)
<1>1. /\ n \in Nat /\ more \in Seq(Seq(S)) /\ Len(more) = n + 1
      /\ more[n + 1] = x /\ \A k \in 1..n : more[k] = s[k] /\ s[k] \in Seq(S)
  OBVIOUS
<1> HIDE DEF more
<1>2. PICK f \in [0..n -> Seq(S)] : Gathers(f, s) /\ FlattenSeq(s) = f[n]
  BY FlattenUpTo
<1>3. PICK g \in [0..Len(more) -> Seq(S)] : Gathers(g, more) /\ FlattenSeq(more) = g[Len(more)]
  BY <1>1, FlattenUpTo
<1> DEFINE P == {k \in 0..n : f[k] = g[k]}
<1>4. 0 \in P
  BY <1>1, <1>2, <1>3 DEF Gathers
<1> HIDE DEF n
<1>5. ASSUME NEW k \in 0..(n - 1), k \in P PROVE k + 1 \in P
  <2>1. n \in Nat /\ Len(more) = n + 1 /\ f[k] = g[k]
    BY <1>1, <1>5
  <2> HIDE DEF P
  <2>2. k + 1 \in 1..n /\ k + 1 \in 1..Len(more) /\ (k + 1) - 1 = k /\ k + 1 \in 0..n
    BY <2>1
  <2>3. f[k + 1] = f[k] \o s[k + 1]
    BY <1>2, <2>2 DEF Gathers, n
  <2>4. g[k + 1] = g[k] \o more[k + 1]
    BY <1>3, <2>2 DEF Gathers
  <2> QED
    BY <1>1, <2>1, <2>2, <2>3, <2>4 DEF P
<1>6. \A k \in 0..n : k \in P
  <2> HIDE DEF P
  <2> QED
    BY <1>1, <1>4, <1>5, Upwards
<1>7. g[n + 1] = g[n] \o x /\ n \in 0..n
  <2>1. n \in Nat /\ Len(more) = n + 1
    BY <1>1
  <2>2. n + 1 \in 1..Len(more) /\ (n + 1) - 1 = n /\ n \in 0..n
    BY <2>1
  <2>3. g[n + 1] = g[n] \o more[n + 1]
    BY <1>3, <2>2 DEF Gathers
  <2> QED
    BY <1>1, <2>2, <2>3
<1> QED
  BY <1>1, <1>2, <1>3, <1>6, <1>7 DEF more
LEMMA FlattenType ==
    ASSUME NEW S, NEW s \in Seq(Seq(S))
    PROVE  FlattenSeq(s) \in Seq(S)
<1>1. <<>> \in Seq(S)
  OBVIOUS
<1> QED
  BY <1>1, FlattenAppend

\* f holds the flattened prefixes, as Before counts them.
Flattens(f, s) ==
    /\ Len(s) \in Nat /\ Gathers(f, s) /\ FlattenSeq(s) = f[Len(s)]
    /\ \A k \in 1..Len(s) : k - 1 \in 0..Len(s) /\ Before(s, k) = Len(f[k - 1])

LEMMA FlattenPrefixes ==
    ASSUME NEW S, NEW s \in Seq(Seq(S))
    PROVE  \E f \in [0..Len(s) -> Seq(S)] : Flattens(f, s)
<1>1. PICK pre \in [0..Len(s) -> Seq(Seq(S))] : Grows(pre, s)
  BY PrefixSteps
<1>2. Len(s) \in Nat /\ \A k \in 0..Len(s) : pre[k] \in Seq(Seq(S)) /\ FlattenSeq(pre[k]) \in Seq(S)
  BY <1>1, FlattenType DEF Grows
<1>3. PICK f : f = [k \in 0..Len(s) |-> FlattenSeq(pre[k])]
  OBVIOUS
<1>4. f \in [0..Len(s) -> Seq(S)]
  BY <1>2, <1>3
<1>5. f[0] = <<>> /\ f[Len(s)] = FlattenSeq(s)
  <2>1. 0 \in 0..Len(s) /\ Len(s) \in 0..Len(s) /\ pre[0] = <<>> /\ pre[Len(s)] = s
    BY <1>1, <1>2 DEF Grows
  <2> QED
    BY <1>3, <2>1, FlattenEmpty
<1>6. ASSUME NEW k \in 1..Len(s)
      PROVE  k - 1 \in 0..Len(s) /\ f[k] = f[k - 1] \o s[k] /\ Before(s, k) = Len(f[k - 1])
  <2>1. k - 1 \in 0..Len(s) /\ k \in 0..Len(s) /\ k - 1 \in 0..(Len(s) - 1) /\ (k - 1) + 1 = k
        /\ s[k] \in Seq(S)
    BY <1>2
  <2>2. pre[k] = Append(pre[k - 1], s[k]) /\ pre[k - 1] = SubSeq(s, 1, k - 1)
    <3>1. pre[(k - 1) + 1] = Append(pre[k - 1], s[(k - 1) + 1])
      BY <1>1, <2>1 DEF Grows
    <3> QED
      BY <1>1, <2>1, <3>1 DEF Grows
  <2>3. FlattenSeq(pre[k]) = FlattenSeq(pre[k - 1]) \o s[k]
    BY <1>2, <2>1, <2>2, FlattenAppend
  <2> QED
    BY <1>3, <2>1, <2>2, <2>3 DEF Before
<1> QED
  BY <1>2, <1>4, <1>5, <1>6 DEF Gathers, Flattens

LEMMA AsSeq ==
    ASSUME NEW n \in Nat, NEW S, NEW f \in [1..n -> S]
    PROVE  f \in Seq(S) /\ Len(f) = n /\ DOMAIN f = 1..n
OBVIOUS

LEMMA Associative ==
    ASSUME NEW S, NEW v \in Seq(S), NEW w \in Seq(S), NEW x \in Seq(S)
    PROVE  (v \o w) \o x = v \o (w \o x)
BY ConcatAssociative

LEMMA FlattenLonger ==
    ASSUME NEW S, NEW s \in Seq(Seq(S)), NEW u \in Seq(Seq(S)), NEW x \in Seq(S),
           FlattenSeq(s \o u) = FlattenSeq(s) \o FlattenSeq(u)
    PROVE  FlattenSeq(s \o Append(u, x)) = FlattenSeq(s) \o FlattenSeq(Append(u, x))
<1>1. s \o Append(u, x) = Append(s \o u, x) /\ s \o u \in Seq(Seq(S))
  OBVIOUS
<1>2. FlattenSeq(s) \in Seq(S) /\ FlattenSeq(u) \in Seq(S)
  BY FlattenType
<1>3. FlattenSeq(Append(u, x)) = FlattenSeq(u) \o x
  BY FlattenAppend
<1>4. FlattenSeq(Append(s \o u, x)) = FlattenSeq(s \o u) \o x
  BY <1>1, FlattenAppend
<1>5. (FlattenSeq(s) \o FlattenSeq(u)) \o x = FlattenSeq(s) \o (FlattenSeq(u) \o x)
  BY <1>2, Associative
<1> QED
  BY <1>1, <1>3, <1>4, <1>5

LEMMA FlattenConcat ==
    ASSUME NEW S, NEW s \in Seq(Seq(S)), NEW t \in Seq(Seq(S))
    PROVE  FlattenSeq(s \o t) = FlattenSeq(s) \o FlattenSeq(t)
<1>1. PICK pre \in [0..Len(t) -> Seq(Seq(S))] : Grows(pre, t)
  BY PrefixSteps
<1> USE DEF Grows
<1> DEFINE P == {i \in 0..Len(t) : FlattenSeq(s \o pre[i]) = FlattenSeq(s) \o FlattenSeq(pre[i])}
<1>2. 0 \in P
  <2>1. s \o <<>> = s /\ FlattenSeq(s) \o <<>> = FlattenSeq(s)
    BY FlattenType, ConcatEmptySeq
  <2>2. 0 \in 0..Len(t) /\ pre[0] = <<>>
    BY <1>1
  <2> QED
    BY <2>1, <2>2, FlattenEmpty
<1>3. ASSUME NEW i \in 0..(Len(t) - 1), i \in P PROVE i + 1 \in P
  <2>1. i \in 0..Len(t) /\ i + 1 \in 0..Len(t) /\ t[i + 1] \in Seq(S)
    BY <1>1
  <2>2. pre[i] \in Seq(Seq(S)) /\ pre[i + 1] = Append(pre[i], t[i + 1])
    BY <1>1, <2>1
  <2>3. FlattenSeq(s \o pre[i]) = FlattenSeq(s) \o FlattenSeq(pre[i])
    BY <1>3
  <2> HIDE DEF P
  <2>4. FlattenSeq(s \o Append(pre[i], t[i + 1])) = FlattenSeq(s) \o FlattenSeq(Append(pre[i], t[i + 1]))
    BY <2>1, <2>2, <2>3, FlattenLonger
  <2> QED
    BY <2>1, <2>2, <2>4 DEF P
<1>4. \A i \in 0..Len(t) : i \in P
  <2> HIDE DEF P
  <2> QED
    BY <1>1, <1>2, <1>3, Upwards
<1>5. Len(t) \in 0..Len(t)
  BY <1>1
<1> QED
  BY <1>1, <1>4, <1>5

LEMMA FlattenOne ==
    ASSUME NEW S, NEW x \in Seq(S)
    PROVE  FlattenSeq(<<x>>) = x
<1>1. <<>> \in Seq(Seq(S)) /\ Append(<<>>, x) = <<x>>
  OBVIOUS
<1>2. FlattenSeq(Append(<<>>, x)) = FlattenSeq(<<>>) \o x
  BY <1>1, FlattenAppend
<1> QED
  BY <1>1, <1>2, FlattenEmpty, ConcatEmptySeq

\* Parts with the same marks, one by one, make texts with the same marks.
LEMMA SameMarks ==
    ASSUME NEW s \in Seq(Seq(Token)), NEW t \in Seq(Seq(Token)), Len(s) = Len(t),
           \A i \in 1..Len(s) : Marks(s[i]) = Marks(t[i])
    PROVE  Marks(FlattenSeq(s)) = Marks(FlattenSeq(t))
<1>1. PICK f \in [0..Len(s) -> Seq(Token)] : Flattens(f, s)
  BY FlattenPrefixes
<1>2. PICK g \in [0..Len(t) -> Seq(Token)] : Flattens(g, t)
  BY FlattenPrefixes
<1>3. /\ f[0] = <<>> /\ g[0] = <<>> /\ Len(s) \in Nat
      /\ FlattenSeq(s) = f[Len(s)] /\ FlattenSeq(t) = g[Len(s)]
      /\ \A k \in 1..Len(s) : f[k] = f[k - 1] \o s[k] /\ g[k] = g[k - 1] \o t[k]
  BY <1>1, <1>2 DEF Flattens, Gathers
<1>7. \A k \in 1..Len(s) : s[k] \in Seq(Token) /\ t[k] \in Seq(Token)
  OBVIOUS
<1> DEFINE P == {i \in 0..Len(s) : Marks(f[i]) = Marks(g[i])}
<1>4. 0 \in P
  BY <1>3
<1>5. ASSUME NEW i \in 0..(Len(s) - 1), i \in P PROVE i + 1 \in P
  <2>1. i + 1 \in 1..Len(s) /\ (i + 1) - 1 = i /\ i + 1 \in 0..Len(s) /\ i \in 0..Len(s)
    BY <1>3
  <2>6. f[i + 1] = f[i] \o s[i + 1] /\ g[i + 1] = g[i] \o t[i + 1]
    BY <1>3, <2>1
  <2>7. f[i] \in Seq(Token) /\ g[i] \in Seq(Token) /\ s[i + 1] \in Seq(Token) /\ t[i + 1] \in Seq(Token)
    BY <1>7, <2>1
  <2>2. PICK u \in Seq(Token), v \in Seq(Token), x \in Seq(Token), y \in Seq(Token) :
            /\ u = f[i] /\ v = g[i] /\ x = s[i + 1] /\ y = t[i + 1]
            /\ f[i + 1] = u \o x /\ g[i + 1] = v \o y
    BY <2>6, <2>7
  <2>3. Marks(u) = Marks(v) /\ Marks(x) = Marks(y)
    BY <1>5, <2>1, <2>2
  <2>4. Marks(u \o x) = Marks(u) \o Marks(x) /\ Marks(v \o y) = Marks(v) \o Marks(y)
    BY MarksConcat
  <2>5. Marks(u \o x) = Marks(v \o y)
    BY <2>3, <2>4
  <2> QED
    BY <2>1, <2>2, <2>5
<1>6. \A i \in 0..Len(s) : i \in P
  <2> HIDE DEF P
  <2> QED
    BY <1>3, <1>4, <1>5, Upwards
<1> QED
  BY <1>3, <1>6

-----------------------------------------------------------------------------
(* Numbered placeholders                                                   *)

\* The marks of a text are numbered from p on, in the order of its arguments.
Numbers(d, text, args, p) ==
    text \in Seq(Token) /\ args \in Seq(BoundValues) /\ Marks(text) = Numbered(d, args, p)

LEMMA MarkTokens ==
    ASSUME NEW d \in Dialects, NEW n \in Nat, NEW value \in BoundValues
    PROVE  Mark(d, n, value) \in Token /\ Mark(d, n, value).t = "?"
BY WordsAssumption DEF Mark, Token

LEMMA NumberedMarks ==
    ASSUME NEW d \in Dialects, NEW vals \in Seq(BoundValues), NEW p \in Nat
    PROVE  /\ Numbered(d, vals, p) \in Seq(Token) /\ Len(Numbered(d, vals, p)) = Len(vals)
           /\ \A i \in 1..Len(vals) : /\ Numbered(d, vals, p)[i] = Mark(d, p + i - 1, vals[i])
                                      /\ Numbered(d, vals, p)[i].t = "?"
<1>1. Len(vals) \in Nat /\ DOMAIN vals = 1..Len(vals) /\ \A i \in 1..Len(vals) : vals[i] \in BoundValues
  OBVIOUS
<1>2. \A i \in 1..Len(vals) : p + i - 1 \in Nat
  OBVIOUS
<1>3. \A i \in 1..Len(vals) : /\ Mark(d, p + i - 1, vals[i]) \in Token
                              /\ Mark(d, p + i - 1, vals[i]).t = "?"
  BY <1>1, <1>2, MarkTokens
<1>4. PICK m : m = Numbered(d, vals, p)
  OBVIOUS
<1>5. m = [i \in 1..Len(vals) |-> Mark(d, p + i - 1, vals[i])]
  BY <1>1, <1>4 DEF Numbered
<1>6. m \in [1..Len(vals) -> Token] /\ \A i \in 1..Len(vals) : m[i] = Mark(d, p + i - 1, vals[i])
  BY <1>3, <1>5
<1>7. m \in Seq(Token) /\ Len(m) = Len(vals)
  BY <1>1, <1>6, AsSeq
<1> QED
  BY <1>3, <1>4, <1>6, <1>7

\* The marks of two lists of values are those of the first and then those of the
\* second, numbered on from it.
Continues(d, a, c, p) ==
    Numbered(d, a \o c, p) = Numbered(d, a, p) \o Numbered(d, c, p + Len(a))

LEMMA NumberedConcat ==
    ASSUME NEW d \in Dialects, NEW p \in Nat,
           NEW a \in Seq(BoundValues), NEW c \in Seq(BoundValues)
    PROVE  Continues(d, a, c, p)
<1>1. /\ Len(a) \in Nat /\ Len(c) \in Nat /\ p + Len(a) \in Nat
      /\ a \o c \in Seq(BoundValues) /\ Len(a \o c) = Len(a) + Len(c)
  BY ConcatProperties
<1>2. PICK l \in Seq(Token), m \in Seq(Token), n \in Seq(Token) :
          l = Numbered(d, a, p) /\ m = Numbered(d, c, p + Len(a)) /\ n = Numbered(d, a \o c, p)
  BY <1>1, NumberedMarks
<1>3. /\ Len(l) = Len(a) /\ Len(m) = Len(c) /\ Len(n) = Len(a) + Len(c)
      /\ \A i \in 1..Len(a) : l[i] = Mark(d, p + i - 1, a[i])
      /\ \A i \in 1..Len(c) : m[i] = Mark(d, (p + Len(a)) + i - 1, c[i])
      /\ \A i \in 1..(Len(a) + Len(c)) : n[i] = Mark(d, p + i - 1, (a \o c)[i])
  <2>1. Len(l) = Len(a) /\ \A i \in 1..Len(a) : l[i] = Mark(d, p + i - 1, a[i])
    BY <1>2, NumberedMarks
  <2>2. Len(m) = Len(c) /\ \A i \in 1..Len(c) : m[i] = Mark(d, (p + Len(a)) + i - 1, c[i])
    BY <1>1, <1>2, NumberedMarks
  <2>3. /\ Len(n) = Len(a \o c)
        /\ \A i \in 1..Len(a \o c) : n[i] = Mark(d, p + i - 1, (a \o c)[i])
    BY <1>1, <1>2, NumberedMarks
  <2> QED
    BY <1>1, <2>1, <2>2, <2>3
<1>4. l \o m \in Seq(Token) /\ Len(l \o m) = Len(n)
  <2>1. l \o m \in Seq(Token) /\ Len(l \o m) = Len(l) + Len(m)
    BY ConcatProperties
  <2> QED
    BY <1>3, <2>1
<1>5. ASSUME NEW i \in 1..Len(n) PROVE n[i] = (l \o m)[i]
  <2>1. CASE i <= Len(a)
    <3>1. i \in 1..Len(a) /\ i \in 1..(Len(a) + Len(c)) /\ i \in 1..(Len(l) + Len(m)) /\ i <= Len(l)
      BY <1>1, <1>3, <2>1
    <3>2. (a \o c)[i] = a[i] /\ (l \o m)[i] = l[i]
      BY <2>1, <3>1, ConcatProperties
    <3> QED
      BY <1>3, <3>1, <3>2
  <2>2. CASE ~(i <= Len(a))
    <3>1. /\ i - Len(a) \in 1..Len(c) /\ i \in 1..(Len(a) + Len(c)) /\ i \in 1..(Len(l) + Len(m))
          /\ ~(i <= Len(l)) /\ (p + Len(a)) + (i - Len(a)) - 1 = p + i - 1
      BY <1>1, <1>3, <2>2
    <3>2. (a \o c)[i] = c[i - Len(a)] /\ (l \o m)[i] = m[i - Len(a)]
      BY <1>3, <2>2, <3>1, ConcatProperties
    <3> QED
      BY <1>3, <3>1, <3>2
  <2> QED
    BY <2>1, <2>2
<1>6. n = l \o m
  BY <1>4, <1>5, SeqEqual
<1> QED
  BY <1>2, <1>6, Zenon DEF Continues

LEMMA NumberedNothing ==
    \A d, p : Numbered(d, <<>>, p) = <<>>
BY DEF Numbered

\* A text of nothing but marks.
LEMMA AllMarks ==
    ASSUME NEW text \in Seq(Token), \A k \in 1..Len(text) : text[k].t = "?"
    PROVE  Marks(text) = text
<1>1. PICK f \in [0..Len(text) -> Seq(Token)] :
          /\ f[0] = <<>>
          /\ \A k \in 1..Len(text) :
                f[k] = IF text[k].t = "?" THEN Append(f[k - 1], text[k]) ELSE f[k - 1]
          /\ Marks(text) = f[Len(text)]
  BY MarksUpTo
<1>2. PICK pre \in [0..Len(text) -> Seq(Token)] : Grows(pre, text)
  BY PrefixSteps
<1>3. Len(text) \in Nat /\ 0 \in 0..Len(text) /\ Len(text) \in 0..Len(text)
  OBVIOUS
<1> DEFINE P == {k \in 0..Len(text) : f[k] = pre[k]}
<1>4. 0 \in P
  BY <1>1, <1>2, <1>3 DEF Grows
<1>5. ASSUME NEW i \in 0..(Len(text) - 1), i \in P PROVE i + 1 \in P
  <2>1. i + 1 \in 1..Len(text) /\ (i + 1) - 1 = i /\ i + 1 \in 0..Len(text)
    BY <1>3
  <2>2. f[i + 1] = Append(f[i], text[i + 1])
    BY <1>1, <2>1
  <2>3. pre[i + 1] = Append(pre[i], text[i + 1])
    BY <1>2 DEF Grows
  <2> QED
    BY <1>5, <2>1, <2>2, <2>3
<1>6. \A i \in 0..Len(text) : i \in P
  <2> HIDE DEF P
  <2> QED
    BY <1>3, <1>4, <1>5, Upwards
<1> QED
  BY <1>1, <1>2, <1>3, <1>6 DEF Grows

LEMMA NumbersAlone ==
    ASSUME NEW d \in Dialects, NEW vals \in Seq(BoundValues), NEW p \in Nat
    PROVE  Numbers(d, Numbered(d, vals, p), vals, p)
BY NumberedMarks, AllMarks DEF Numbers

LEMMA NumbersConcat ==
    ASSUME NEW d \in Dialects, NEW s, NEW t, NEW a, NEW c, NEW p \in Nat,
           Numbers(d, s, a, p), Numbers(d, t, c, p + Len(a))
    PROVE  Numbers(d, s \o t, a \o c, p) /\ Len(a \o c) = Len(a) + Len(c)
<1>1. /\ s \in Seq(Token) /\ t \in Seq(Token) /\ a \in Seq(BoundValues) /\ c \in Seq(BoundValues)
      /\ Marks(s) = Numbered(d, a, p) /\ Marks(t) = Numbered(d, c, p + Len(a))
  BY DEF Numbers
<1>2. Marks(s \o t) = Marks(s) \o Marks(t) /\ s \o t \in Seq(Token)
  BY <1>1, MarksConcat, ConcatProperties
<1>3. /\ a \o c \in Seq(BoundValues) /\ Len(a \o c) = Len(a) + Len(c)
      /\ Numbered(d, a \o c, p) = Numbered(d, a, p) \o Numbered(d, c, p + Len(a))
  <2>1. a \o c \in Seq(BoundValues) /\ Len(a \o c) = Len(a) + Len(c)
    BY <1>1, ConcatProperties
  <2>2. a \in Seq(BoundValues) /\ c \in Seq(BoundValues)
    BY <1>1, Zenon
  <2>3. Numbered(d, a \o c, p) = Numbered(d, a, p) \o Numbered(d, c, p + Len(a))
    <3>1. Continues(d, a, c, p)
      BY <2>2, NumberedConcat, Zenon
    <3> QED
      BY <3>1, Zenon DEF Continues
  <2> QED
    BY <2>1, <2>3, Zenon
<1>4. PICK text, args : text = s \o t /\ args = a \o c
  OBVIOUS
<1>5. Marks(text) = Numbered(d, args, p)
  BY <1>1, <1>2, <1>3, <1>4, Zenon
<1>6. text \in Seq(Token) /\ args \in Seq(BoundValues)
  BY <1>2, <1>3, <1>4, Zenon
<1>7. Numbers(d, text, args, p)
  BY <1>5, <1>6 DEF Numbers
<1> QED
  BY <1>3, <1>4, <1>7, Zenon

LEMMA NumbersAround ==
    ASSUME NEW d \in Dialects, NEW s, NEW a, NEW p \in Nat, NEW other \in Unmarked,
           Numbers(d, s, a, p)
    PROVE  Numbers(d, other \o s, a, p) /\ Numbers(d, s \o other, a, p)
BY MarksAround DEF Numbers

LEMMA NumbersNothing ==
    ASSUME NEW d \in Dialects, NEW p \in Nat, NEW other \in Unmarked
    PROVE  Numbers(d, other, <<>>, p)
BY UnmarkedText, NumberedNothing, EmptySeq DEF Numbers

\* One word or keyword leaves the marks alone.
LEMMA WordsUnmarked ==
    ASSUME NEW w \in Words
    PROVE  Word(w) \in Token /\ <<Word(w)>> \in Unmarked
<1>1. Word(w) \in Token /\ Word(w).t # "?"
  BY WordsAssumption DEF Word, Token
<1> QED
  BY <1>1 DEF Unmarked

LEMMA PredsUnmarked ==
    ASSUME NEW name \in Words
    PROVE  Pred(name) \in Token /\ <<Pred(name)>> \in Unmarked
<1>1. "pred" \in Words
  BY WordsAssumption DEF Keywords
<1>2. Pred(name) \in Token /\ Pred(name).t # "?"
  BY <1>1, WordsAssumption DEF Pred, Token
<1> QED
  BY <1>2 DEF Unmarked

LEMMA NamesUnmarked ==
    ASSUME NEW name \in Words
    PROVE  Name(name) \in Token /\ <<Name(name)>> \in Unmarked
<1>1. "name" \in Words
  BY WordsAssumption DEF Keywords
<1>2. Name(name) \in Token /\ Name(name).t # "?"
  BY <1>1, WordsAssumption DEF Name, Token
<1> QED
  BY <1>2 DEF Unmarked

LEMMA JoinsAreWords == JoinWords \subseteq Keywords /\ JoinWords \subseteq Words
<1>1. JoinWords \subseteq Keywords
  BY Zenon DEF JoinWords, Keywords
<1> QED
  BY <1>1, WordsAssumption

LEMMA KeywordsUnmarked ==
    ASSUME NEW w \in Keywords
    PROVE  w \in Words /\ Word(w) \in Token /\ <<Word(w)>> \in Unmarked
BY WordsUnmarked, WordsAssumption

LEMMA UnmarkedConcat ==
    /\ <<>> \in Unmarked
    /\ \A s, t \in Unmarked : s \o t \in Unmarked
<1>1. <<>> \in Unmarked
  BY DEF Unmarked
<1>2. ASSUME NEW s \in Unmarked, NEW t \in Unmarked PROVE s \o t \in Unmarked
  <2>1. s \in Seq(Token) /\ t \in Seq(Token) /\ s \o t \in Seq(Token)
        /\ Len(s) \in Nat /\ Len(t) \in Nat /\ Len(s \o t) = Len(s) + Len(t)
    BY ConcatProperties DEF Unmarked
  <2>2. ASSUME NEW k \in 1..Len(s \o t) PROVE (s \o t)[k].t # "?"
    <3>1. k \in 1..(Len(s) + Len(t))
      BY <2>1
    <3>2. CASE k <= Len(s)
      <4>1. k \in 1..Len(s) /\ (s \o t)[k] = s[k]
        BY <2>1, <3>1, <3>2, ConcatProperties
      <4> QED
        BY <4>1 DEF Unmarked
    <3>3. CASE ~(k <= Len(s))
      <4>1. k - Len(s) \in 1..Len(t) /\ (s \o t)[k] = t[k - Len(s)]
        BY <2>1, <3>1, <3>3, ConcatProperties
      <4> QED
        BY <4>1 DEF Unmarked
    <3> QED
      BY <3>2, <3>3
  <2> QED
    BY <2>1, <2>2 DEF Unmarked
<1> QED
  BY <1>1, <1>2

-----------------------------------------------------------------------------
(* Parts joined into one text                                              *)

LEMMA JoinedMarks ==
    ASSUME NEW parts \in Seq(Seq(Token)), NEW sep \in Keywords
    PROVE  Joined(parts, sep) \in Seq(Token) /\ Marks(Joined(parts, sep)) = Marks(FlattenSeq(parts))
<1>1. <<Word(sep)>> \in Unmarked /\ <<>> \in Unmarked
  BY KeywordsUnmarked, UnmarkedConcat
<1>2. Len(parts) \in Nat /\ DOMAIN parts = 1..Len(parts) /\ \A i \in 1..Len(parts) : parts[i] \in Seq(Token)
  OBVIOUS
<1>3. ASSUME NEW i \in 1..Len(parts), NEW before \in Unmarked
      PROVE  before \o parts[i] \in Seq(Token) /\ Marks(before \o parts[i]) = Marks(parts[i])
  BY <1>2, MarksAround
<1>4. PICK t : t = Separated(parts, sep)
  OBVIOUS
<1>5. t = [i \in 1..Len(parts) |-> (IF i = 1 THEN <<>> ELSE <<Word(sep)>>) \o parts[i]]
  BY <1>2, <1>4 DEF Separated
<1>6. \A i \in 1..Len(parts) : t[i] \in Seq(Token) /\ Marks(t[i]) = Marks(parts[i])
  <2> TAKE i \in 1..Len(parts)
  <2>1. PICK before : before = IF i = 1 THEN <<>> ELSE <<Word(sep)>>
    OBVIOUS
  <2>2. before \in Unmarked /\ t[i] = before \o parts[i]
    BY <1>1, <1>5, <2>1
  <2> QED
    BY <1>3, <2>2
<1>7. t \in Seq(Seq(Token)) /\ Len(t) = Len(parts)
  BY <1>2, <1>5, <1>6, AsSeq
<1>8. Marks(FlattenSeq(t)) = Marks(FlattenSeq(parts)) /\ FlattenSeq(t) \in Seq(Token)
  BY <1>6, <1>7, SameMarks, FlattenType
<1> QED
  BY <1>4, <1>8 DEF Joined

\* Part k has the values of list k, and goes on where the lists before end.
LEMMA NumbersSpread ==
    ASSUME NEW d \in Dialects, NEW p \in Nat,
           NEW lists \in Seq(Seq(BoundValues)), NEW parts \in Seq(Seq(Token)),
           Len(parts) = Len(lists),
           \A k \in 1..Len(lists) : Marks(parts[k]) = Numbered(d, lists[k], p + Before(lists, k))
    PROVE  Numbers(d, FlattenSeq(parts), FlattenSeq(lists), p)
<1>1. PICK f \in [0..Len(lists) -> Seq(BoundValues)] : Flattens(f, lists)
  BY FlattenPrefixes
<1>2. PICK g \in [0..Len(parts) -> Seq(Token)] : Flattens(g, parts)
  BY FlattenPrefixes
<1> DEFINE n == Len(lists)
<1>3. /\ f[0] = <<>> /\ g[0] = <<>> /\ n \in Nat
      /\ FlattenSeq(lists) = f[n] /\ FlattenSeq(parts) = g[n]
      /\ \A k \in 1..n : /\ f[k] = f[k - 1] \o lists[k] /\ g[k] = g[k - 1] \o parts[k]
                         /\ Before(lists, k) = Len(f[k - 1])
  BY <1>1, <1>2 DEF Flattens, Gathers
<1>4. \A k \in 1..n : lists[k] \in Seq(BoundValues) /\ parts[k] \in Seq(Token)
  OBVIOUS
<1> DEFINE P == {i \in 0..n : Numbers(d, g[i], f[i], p)}
<1>5. 0 \in P
  BY <1>3, UnmarkedConcat, NumbersNothing
<1> HIDE DEF n
<1>6. ASSUME NEW i \in 0..(n - 1), i \in P PROVE i + 1 \in P
  <2>1. i + 1 \in 1..n /\ (i + 1) - 1 = i /\ i + 1 \in 0..n /\ i \in 0..n
    BY <1>3
  <2>2. f[i + 1] = f[i] \o lists[i + 1] /\ g[i + 1] = g[i] \o parts[i + 1]
        /\ Before(lists, i + 1) = Len(f[i])
    BY <1>3, <2>1
  <2>3. Numbers(d, g[i], f[i], p)
    BY <1>6
  <2> HIDE DEF P
  <2>4. Marks(parts[i + 1]) = Numbered(d, lists[i + 1], p + Len(f[i]))
    BY <2>1, <2>2 DEF n
  <2>5. Numbers(d, parts[i + 1], lists[i + 1], p + Len(f[i]))
    BY <1>4, <2>1, <2>4 DEF Numbers
  <2>6. Numbers(d, g[i] \o parts[i + 1], f[i] \o lists[i + 1], p)
    BY <2>3, <2>5, NumbersConcat
  <2> QED
    BY <2>1, <2>2, <2>6 DEF P
<1>7. \A i \in 0..n : i \in P
  <2> HIDE DEF P
  <2> QED
    BY <1>3, <1>5, <1>6, Upwards
<1>8. n \in 0..n
  BY <1>3
<1> QED
  BY <1>3, <1>7, <1>8

-----------------------------------------------------------------------------
(* Marks by their place                                                    *)

\* f counts the marks of a text up to each of its tokens.
Counts(f, text) ==
    /\ Len(text) \in Nat /\ f[0] = <<>> /\ Marks(text) = f[Len(text)]
    /\ \A k \in 0..Len(text) : f[k] \in Seq(Token)
    /\ \A k \in 1..Len(text) :
          /\ k - 1 \in 0..Len(text) /\ text[k] \in Token
          /\ f[k] = (IF text[k].t = "?" THEN Append(f[k - 1], text[k]) ELSE f[k - 1])
          /\ Place(text, k) = Len(f[k])

LEMMA MarksCounted ==
    ASSUME NEW text \in Seq(Token)
    PROVE  \E f \in [0..Len(text) -> Seq(Token)] : Counts(f, text)
<1>1. PICK pre \in [0..Len(text) -> Seq(Token)] : Grows(pre, text)
  BY PrefixSteps
<1>2. PICK f : f = [k \in 0..Len(text) |-> Marks(pre[k])]
  OBVIOUS
<1>3. /\ Len(text) \in Nat /\ \A k \in 0..Len(text) : pre[k] \in Seq(Token) /\ Marks(pre[k]) \in Seq(Token)
      /\ \A k \in 1..Len(text) : text[k] \in Token
  BY <1>1, MarksType
<1>4. f \in [0..Len(text) -> Seq(Token)]
  BY <1>2, <1>3
<1>5. f[0] = <<>> /\ Marks(text) = f[Len(text)]
  <2>1. 0 \in 0..Len(text) /\ Len(text) \in 0..Len(text) /\ pre[0] = <<>> /\ pre[Len(text)] = text
    BY <1>1, <1>3 DEF Grows
  <2> QED
    BY <1>2, <2>1, MarksAppend
<1>6. ASSUME NEW k \in 1..Len(text)
      PROVE  /\ k - 1 \in 0..Len(text)
             /\ f[k] = (IF text[k].t = "?" THEN Append(f[k - 1], text[k]) ELSE f[k - 1])
             /\ Place(text, k) = Len(f[k])
  <2>1. k - 1 \in 0..Len(text) /\ k \in 0..Len(text) /\ k - 1 \in 0..(Len(text) - 1) /\ (k - 1) + 1 = k
    BY <1>3
  <2>2. pre[k] = Append(pre[k - 1], text[k]) /\ pre[k] = SubSeq(text, 1, k)
    <3>1. pre[(k - 1) + 1] = Append(pre[k - 1], text[(k - 1) + 1])
      BY <1>1, <2>1 DEF Grows
    <3> QED
      BY <1>1, <2>1, <3>1 DEF Grows
  <2>3. Marks(pre[k]) = IF text[k].t = "?" THEN Append(Marks(pre[k - 1]), text[k]) ELSE Marks(pre[k - 1])
    BY <1>3, <2>1, <2>2, MarksAppend
  <2> QED
    BY <1>2, <2>1, <2>2, <2>3 DEF Place
<1> QED
  BY <1>3, <1>4, <1>5, <1>6 DEF Counts

\* The count never falls.
LEMMA CountsRise ==
    ASSUME NEW text \in Seq(Token), NEW f, Counts(f, text),
           NEW k \in 0..Len(text), NEW m \in k..Len(text)
    PROVE  /\ Len(f[k]) \in Nat /\ Len(f[m]) \in Nat /\ Len(f[k]) <= Len(f[m])
           /\ \A j \in 1..Len(f[k]) : f[m][j] = f[k][j]
<1> DEFINE P == {i \in 0..(m - k) : /\ Len(f[k]) <= Len(f[k + i])
                                    /\ \A j \in 1..Len(f[k]) : f[k + i][j] = f[k][j]}
<1>1. Len(text) \in Nat /\ k \in Nat /\ m \in Nat /\ m - k \in Nat /\ k + 0 = k /\ k + (m - k) = m
      /\ m \in 0..Len(text)
  BY DEF Counts
<1>2. \A i \in 0..Len(text) : f[i] \in Seq(Token) /\ Len(f[i]) \in Nat
  BY DEF Counts
<1>3. 0 \in P
  BY <1>1, <1>2
<1>4. ASSUME NEW i \in 0..((m - k) - 1), i \in P PROVE i + 1 \in P
  <2>1. (k + i) + 1 \in 1..Len(text) /\ ((k + i) + 1) - 1 = k + i /\ k + (i + 1) = (k + i) + 1
        /\ k + i \in 0..Len(text) /\ i + 1 \in 0..(m - k)
    BY <1>1
  <2>2. f[(k + i) + 1] = f[k + i] \/ f[(k + i) + 1] = Append(f[k + i], text[(k + i) + 1])
    BY <2>1 DEF Counts
  <2>3. PICK u \in Seq(Token), w \in Seq(Token) :
            u = f[k] /\ w = f[k + i] /\ Len(u) <= Len(w) /\ \A j \in 1..Len(u) : w[j] = u[j]
    BY <1>2, <1>4, <2>1
  <2>4. text[(k + i) + 1] \in Token
    BY <2>1 DEF Counts
  <2>5. \A tok \in Token : Len(u) <= Len(Append(w, tok)) /\ \A j \in 1..Len(u) : Append(w, tok)[j] = u[j]
    BY <2>3, AppendProperties
  <2>6. Len(u) <= Len(f[(k + i) + 1]) /\ \A j \in 1..Len(u) : f[(k + i) + 1][j] = u[j]
    BY <2>2, <2>3, <2>4, <2>5
  <2> QED
    BY <2>1, <2>3, <2>6
<1>5. \A i \in 0..(m - k) : i \in P
  <2> HIDE DEF P
  <2> QED
    BY <1>1, <1>3, <1>4, Upwards
<1>6. m - k \in P
  <2> HIDE DEF P
  <2> QED
    BY <1>1, <1>5
<1> QED
  BY <1>1, <1>2, <1>6

\* The mark at token k is the one its place says.
LEMMA MarkPlaces ==
    ASSUME NEW text \in Seq(Token), NEW f, Counts(f, text),
           NEW k \in 1..Len(text), text[k].t = "?"
    PROVE  /\ Len(f[k]) \in 1..Len(Marks(text)) /\ Marks(text)[Len(f[k])] = text[k]
           /\ Len(f[k - 1]) = Len(f[k]) - 1
<1>1. /\ Len(text) \in Nat /\ k - 1 \in 0..Len(text) /\ k \in 0..Len(text) /\ Len(text) \in k..Len(text)
      /\ f[k] = Append(f[k - 1], text[k]) /\ text[k] \in Token /\ Marks(text) = f[Len(text)]
      /\ f[k - 1] \in Seq(Token)
  <2>1. Len(text) \in Nat
    BY DEF Counts
  <2>2. k - 1 \in 0..Len(text) /\ k \in 0..Len(text) /\ Len(text) \in k..Len(text)
    BY <2>1
  <2> QED
    BY <2>1, <2>2 DEF Counts
<1>2. Len(f[k]) = Len(f[k - 1]) + 1 /\ f[k][Len(f[k])] = text[k] /\ Len(f[k - 1]) \in Nat
  BY <1>1, AppendProperties
<1>3. Len(f[k]) <= Len(Marks(text)) /\ \A j \in 1..Len(f[k]) : Marks(text)[j] = f[k][j]
  <2>1. PICK m \in k..Len(text) : m = Len(text)
    BY <1>1
  <2>2. Len(f[k]) <= Len(f[m]) /\ \A j \in 1..Len(f[k]) : f[m][j] = f[k][j]
    <3>1. Counts(f, text)
      OBVIOUS
    <3>2. k \in 0..Len(text)
      BY <1>1
    <3> QED
      BY <2>1, <3>1, <3>2, CountsRise
  <2> QED
    BY <1>1, <2>1, <2>2
<1>4. Len(Marks(text)) \in Nat
  BY MarksType, LenProperties
<1> QED
  BY <1>2, <1>3, <1>4

\* Every mark is at some token.
LEMMA MarkFound ==
    ASSUME NEW text \in Seq(Token), NEW f, Counts(f, text), NEW j \in 1..Len(Marks(text))
    PROVE  \E k \in 1..Len(text) : text[k].t = "?" /\ Len(f[k]) = j
<1> DEFINE At(i) == \E k \in 1..Len(text) : text[k].t = "?" /\ Len(f[k]) = i
           P == {m \in 0..Len(text) : \A i \in 1..Len(f[m]) : At(i)}
<1>1. Len(text) \in Nat /\ f[0] = <<>> /\ Marks(text) = f[Len(text)]
  BY DEF Counts
<1>2. 0 \in P
  BY <1>1
<1>3. ASSUME NEW m \in 0..(Len(text) - 1), m \in P PROVE m + 1 \in P
  <2>1. m + 1 \in 1..Len(text) /\ (m + 1) - 1 = m /\ m + 1 \in 0..Len(text) /\ m \in 0..Len(text)
    BY <1>1
  <2>2. /\ f[m] \in Seq(Token) /\ text[m + 1] \in Token
        /\ f[m + 1] = (IF text[m + 1].t = "?" THEN Append(f[m], text[m + 1]) ELSE f[m])
    BY <2>1 DEF Counts
  <2>3. CASE text[m + 1].t = "?"
    <3>1. Len(f[m + 1]) = Len(f[m]) + 1 /\ Len(f[m]) \in Nat
      BY <2>2, <2>3, AppendProperties
    <3>2. At(Len(f[m + 1]))
      BY <2>1, <2>3
    <3>3. \A i \in 1..Len(f[m]) : At(i)
      BY <1>3
    <3> HIDE DEF At
    <3>4. \A i \in 1..Len(f[m + 1]) : i = Len(f[m + 1]) \/ i \in 1..Len(f[m])
      BY <3>1
    <3> QED
      BY <2>1, <3>2, <3>3, <3>4
  <2>4. CASE text[m + 1].t # "?"
    BY <1>3, <2>1, <2>2, <2>4
  <2> QED
    BY <2>3, <2>4
<1>4. \A m \in 0..Len(text) : m \in P
  <2> HIDE DEF P
  <2> QED
    BY <1>1, <1>2, <1>3, Upwards
<1>5. Len(text) \in P
  <2> HIDE DEF P
  <2> QED
    BY <1>1, <1>4
<1> QED
  BY <1>1, <1>5

\* A token with another number.
Renumbered(tok, x) == [tok EXCEPT !.n = x]

LEMMA RenumberedToken ==
    ASSUME NEW tok \in Token, NEW x \in Nat
    PROVE  /\ Renumbered(tok, x) \in Token /\ Renumbered(tok, x).t = tok.t
           /\ Renumbered(tok, x).v = tok.v /\ Renumbered(tok, x).n = x
BY DEF Renumbered, Token

LEMMA MarksReplaced ==
    ASSUME NEW text \in Seq(Token), NEW f, Counts(f, text), NEW x \in Nat,
           NEW k \in 1..Len(text), text[k].t = "?"
    PROVE  LET new == [text EXCEPT ![k] = Renumbered(text[k], x)]
           IN /\ new \in Seq(Token)
              /\ Marks(new) = [Marks(text) EXCEPT ![Len(f[k])] = Renumbered(text[k], x)]
<1> DEFINE new == [text EXCEPT ![k] = Renumbered(text[k], x)]
           tok == Renumbered(text[k], x)
           c == Len(f[k])
           n == Len(text)
<1>1. text[k] \in Token /\ tok \in Token /\ tok.t = "?"
  <2>1. text[k] \in Token
    OBVIOUS
  <2> QED
    BY <2>1, RenumberedToken
<1> HIDE DEF tok
<1>2. /\ new \in Seq(Token) /\ Len(new) = n /\ new[k] = tok
      /\ \A i \in 1..n : i # k => new[i] = text[i]
  BY <1>1, ExceptSeq DEF tok
<1> HIDE DEF new
<1>3. PICK g \in [0..Len(new) -> Seq(Token)] : Counts(g, new)
  BY <1>2, MarksCounted
<1>4. /\ n \in Nat /\ f[0] = <<>> /\ g[0] = <<>> /\ Marks(text) = f[n] /\ Marks(new) = g[n]
      /\ \A i \in 0..n : f[i] \in Seq(Token) /\ g[i] \in Seq(Token)
      /\ \A i \in 1..n :
            /\ text[i] \in Token /\ i - 1 \in 0..n
            /\ f[i] = (IF text[i].t = "?" THEN Append(f[i - 1], text[i]) ELSE f[i - 1])
            /\ g[i] = (IF new[i].t = "?" THEN Append(g[i - 1], new[i]) ELSE g[i - 1])
  BY <1>2, <1>3 DEF Counts
<1> DEFINE P == {i \in 0..(k - 1) : g[i] = f[i]}
<1> HIDE DEF n
<1>5. k \in 1..n /\ k - 1 \in Nat /\ k - 1 \in 0..(k - 1) /\ k - 1 \in 0..n
  BY <1>4 DEF n
<1>6. 0 \in P
  BY <1>4, <1>5
<1>7. ASSUME NEW i \in 0..((k - 1) - 1), i \in P PROVE i + 1 \in P
  <2>1. i + 1 \in 1..n /\ (i + 1) - 1 = i /\ i + 1 # k /\ i + 1 \in 0..(k - 1)
    BY <1>4, <1>5
  <2>2. new[i + 1] = text[i + 1] /\ g[i] = f[i]
    BY <1>2, <1>7, <2>1
  <2>3. f[i + 1] = IF text[i + 1].t = "?" THEN Append(f[i], text[i + 1]) ELSE f[i]
    BY <1>4, <2>1
  <2>4. g[i + 1] = IF new[i + 1].t = "?" THEN Append(g[i], new[i + 1]) ELSE g[i]
    BY <1>4, <2>1
  <2>5. g[i + 1] = f[i + 1]
    BY <2>2, <2>3, <2>4, Zenon
  <2> QED
    BY <2>1, <2>5
<1>8. \A i \in 0..(k - 1) : i \in P
  <2> HIDE DEF P
  <2> QED
    BY <1>5, <1>6, <1>7, Upwards
<1>9. g[k - 1] = f[k - 1]
  BY <1>5, <1>8
<1>10. /\ f[k] = Append(f[k - 1], text[k]) /\ g[k] = Append(f[k - 1], tok)
       /\ f[k - 1] \in Seq(Token)
  BY <1>1, <1>2, <1>4, <1>5, <1>9
<1>11. c = Len(f[k - 1]) + 1 /\ c \in Nat /\ g[k] = [f[k] EXCEPT ![c] = tok]
  <2>1. PICK u \in Seq(Token) : u = f[k - 1]
    BY <1>10
  <2>2. /\ Append(u, tok) \in Seq(Token) /\ Append(u, text[k]) \in Seq(Token) /\ Len(u) \in Nat
        /\ Len(Append(u, tok)) = Len(u) + 1 /\ Len(Append(u, text[k])) = Len(u) + 1
        /\ Append(u, tok)[Len(u) + 1] = tok
        /\ \A i \in 1..Len(u) : Append(u, tok)[i] = u[i] /\ Append(u, text[k])[i] = u[i]
    BY <1>1, AppendProperties
  <2>3. PICK v \in Seq(Token), w \in Seq(Token) : v = Append(u, text[k]) /\ w = Append(u, tok)
    BY <2>2
  <2>4. PICK e : e = [v EXCEPT ![Len(u) + 1] = tok]
    OBVIOUS
  <2>5. Len(u) + 1 \in 1..Len(v)
    BY <2>2, <2>3
  <2>6. e \in Seq(Token) /\ Len(e) = Len(v)
        /\ \A i \in 1..Len(v) : e[i] = IF i = Len(u) + 1 THEN tok ELSE v[i]
    BY <1>1, <2>4, <2>5, ExceptSeq
  <2>7. \A i \in 1..Len(v) : e[i] = w[i]
    <3>1. \A i \in 1..Len(v) : i = Len(u) + 1 \/ i \in 1..Len(u)
      BY <2>2, <2>3
    <3> QED
      BY <2>2, <2>3, <2>6, <3>1
  <2>8. e = w
    BY <2>2, <2>3, <2>6, <2>7, SeqEqual
  <2> QED
    BY <1>10, <2>1, <2>2, <2>3, <2>4, <2>8
<1>12. ASSUME NEW u \in Seq(Token), c \in 1..Len(u), NEW z \in Token
       PROVE  Append([u EXCEPT ![c] = tok], z) = [Append(u, z) EXCEPT ![c] = tok]
  <2> HIDE DEF c
  <2>1. PICK e : e = [u EXCEPT ![c] = tok]
    OBVIOUS
  <2>2. e \in Seq(Token) /\ Len(e) = Len(u) /\ \A i \in 1..Len(u) : e[i] = IF i = c THEN tok ELSE u[i]
    BY <1>1, <1>12, <2>1, ExceptSeq
  <2>3. PICK a \in Seq(Token) : a = Append(e, z)
    BY <2>2, AppendProperties
  <2>4. Len(a) = Len(u) + 1 /\ a[Len(u) + 1] = z /\ \A i \in 1..Len(u) : a[i] = e[i]
    BY <2>2, <2>3, AppendProperties
  <2>5. PICK w \in Seq(Token) : w = Append(u, z)
    BY AppendProperties
  <2>6. Len(w) = Len(u) + 1 /\ w[Len(u) + 1] = z /\ \A i \in 1..Len(u) : w[i] = u[i]
    BY <2>5, AppendProperties
  <2>7. PICK m : m = [w EXCEPT ![c] = tok]
    OBVIOUS
  <2>8. Len(u) \in Nat /\ c \in 1..Len(w) /\ c # Len(u) + 1
    BY <1>12, <2>6
  <2>9. m \in Seq(Token) /\ Len(m) = Len(w) /\ \A i \in 1..Len(w) : m[i] = IF i = c THEN tok ELSE w[i]
    BY <1>1, <2>7, <2>8, ExceptSeq
  <2>10. \A i \in 1..Len(a) : i = Len(u) + 1 \/ i \in 1..Len(u)
    BY <2>4, <2>8
  <2>11. \A i \in 1..Len(a) : a[i] = m[i]
    BY <2>2, <2>4, <2>6, <2>8, <2>9, <2>10
  <2>12. a = m
    BY <2>4, <2>6, <2>9, <2>11, SeqEqual
  <2> QED
    BY <2>1, <2>3, <2>5, <2>7, <2>12
<1> DEFINE Q == {i \in 0..(n - k) : c \in 1..Len(f[k + i]) /\ g[k + i] = [f[k + i] EXCEPT ![c] = tok]}
<1>13. 0 \in Q
  <2>1. k + 0 = k /\ 0 \in 0..(n - k)
    BY <1>4, <1>5
  <2>2. c \in 1..Len(f[k])
    BY <1>11
  <2> QED
    BY <1>11, <2>1, <2>2
<1>14. ASSUME NEW i \in 0..((n - k) - 1), i \in Q PROVE i + 1 \in Q
  <2>1. /\ (k + i) + 1 \in 1..n /\ ((k + i) + 1) - 1 = k + i /\ k + (i + 1) = (k + i) + 1
        /\ k + i \in 0..n /\ i + 1 \in 0..(n - k) /\ (k + i) + 1 # k
    <3> HIDE DEF Q, c
    <3>1. n \in Nat /\ k \in 1..n
      BY <1>4, <1>5
    <3> QED
      BY <3>1
  <2>2. c \in 1..Len(f[k + i]) /\ g[k + i] = [f[k + i] EXCEPT ![c] = tok]
    BY <1>14
  <2> HIDE DEF Q, c
  <2>3. PICK u \in Seq(Token), z \in Token : u = f[k + i] /\ z = text[(k + i) + 1]
    BY <1>4, <2>1
  <2>4. /\ f[(k + i) + 1] = (IF z.t = "?" THEN Append(u, z) ELSE u)
        /\ g[(k + i) + 1] = (IF z.t = "?" THEN Append([u EXCEPT ![c] = tok], z)
                                          ELSE [u EXCEPT ![c] = tok])
    <3>1. new[(k + i) + 1] = z
      BY <1>2, <2>1, <2>3 DEF n
    <3>2. f[(k + i) + 1] = (IF text[(k + i) + 1].t = "?" THEN Append(f[k + i], text[(k + i) + 1])
                                                         ELSE f[k + i])
      BY <1>4, <2>1
    <3>3. g[(k + i) + 1] = (IF new[(k + i) + 1].t = "?" THEN Append(g[k + i], new[(k + i) + 1])
                                                        ELSE g[k + i])
      BY <1>4, <2>1
    <3> QED
      BY <2>2, <2>3, <3>1, <3>2, <3>3
  <2>5. Append([u EXCEPT ![c] = tok], z) = [Append(u, z) EXCEPT ![c] = tok]
    BY <1>12, <2>2, <2>3
  <2>6. c \in 1..Len(u) /\ c \in 1..Len(Append(u, z))
    BY <2>2, <2>3, AppendProperties
  <2> QED
    BY <2>1, <2>4, <2>5, <2>6 DEF Q
<1>15. n - k \in Nat /\ k + (n - k) = n /\ n - k \in 0..(n - k)
  BY <1>4, <1>5
<1>16. \A i \in 0..(n - k) : i \in Q
  <2> HIDE DEF Q
  <2> QED
    BY <1>13, <1>14, <1>15, Upwards
<1>17. g[n] = [f[n] EXCEPT ![c] = tok]
  BY <1>15, <1>16
<1> QED
  BY <1>2, <1>4, <1>17 DEF new, tok

-----------------------------------------------------------------------------
(* Renumbering                                                             *)

LEMMA LeastOf ==
    ASSUME NEW S, S \subseteq Nat, S # {}
    PROVE  Min(S) \in S /\ \A y \in S : Min(S) <= y
<1> DEFINE Less == {p \in Nat \X Nat : p[1] < p[2]}
<1>1. PICK m \in S : \A y \in S : <<y, m>> \notin Less
  <2>1. IsWellFoundedOn(Less, Nat)
    BY NatLessThanWellFounded, Zenon DEF OpToRel
  <2> HIDE DEF Less
  <2> QED
    BY <2>1, WFMin
<1>2. \A y \in S : m <= y
  <2> TAKE y \in S
  <2>1. y \in Nat /\ m \in Nat /\ <<y, m>> \in Nat \X Nat
    OBVIOUS
  <2>2. ~(y < m)
    BY <1>1, <2>1
  <2> QED
    BY <2>1, <2>2
<1> QED
  BY <1>2 DEF Min

LEMMA SplicedMark ==
    ASSUME NEW p \in Nat, NEW i \in Nat, NEW new \in Nat, BeginsWith(p, i)
    PROVE  Spliced(p, i, new) \in Nat
<1>1. PICK w : w = CHOOSE x \in Powers : p \div x = i
  OBVIOUS
<1>2. w \in Powers
  BY <1>1 DEF BeginsWith
<1>3. /\ (new * 1) + (p % 1) \in Nat /\ (new * 10) + (p % 10) \in Nat
      /\ (new * 100) + (p % 100) \in Nat /\ (new * 1000) + (p % 1000) \in Nat
      /\ (new * 10000) + (p % 10000) \in Nat
  OBVIOUS
<1>4. (new * w) + (p % w) \in Nat
  BY <1>2, <1>3 DEF Powers
<1> QED
  BY <1>1, <1>4 DEF Spliced

LEMMA ReplaceType ==
    ASSUME NEW text \in Seq(Token), NEW i \in Nat, NEW new \in Nat
    PROVE  ReplaceMark(text, i, new) \in Seq(Token)
<1> DEFINE found == {k \in DOMAIN text : text[k].t = "?" /\ BeginsWith(text[k].n, i)}
<1>1. CASE found = {}
  BY <1>1 DEF ReplaceMark
<1>2. CASE found # {}
  <2>1. DOMAIN text = 1..Len(text) /\ Len(text) \in Nat
    OBVIOUS
  <2>2. found \subseteq Nat
    BY <2>1
  <2>3. PICK k : k = Min(found)
    OBVIOUS
  <2>4. k \in found
    <3> HIDE DEF found
    <3> QED
      BY <1>2, <2>2, <2>3, LeastOf
  <2>5. k \in 1..Len(text) /\ text[k] \in Token /\ BeginsWith(text[k].n, i)
    BY <2>1, <2>4
  <2>6. text[k].n \in Nat
    BY <2>5 DEF Token
  <2>7. Spliced(text[k].n, i, new) \in Nat
    BY <2>5, <2>6, SplicedMark
  <2>8. Renumbered(text[k], Spliced(text[k].n, i, new)) \in Token
    BY <2>5, <2>7, RenumberedToken
  <2>9. ReplaceMark(text, i, new) = [text EXCEPT ![k] = Renumbered(text[k], Spliced(text[k].n, i, new))]
    BY <1>2, <2>3, <2>5 DEF ReplaceMark, Renumbered
  <2> QED
    BY <2>5, <2>8, <2>9, ExceptSeq
<1> QED
  BY <1>1, <1>2

\* Where the first i marks are still numbered from 1, the one replaced is the
\* i-th: no number before it begins with the digits of i.
LEMMA ReplacesItsMark ==
    ASSUME NEW text \in Seq(Token), NEW i \in 1..Len(Marks(text)), NEW new \in Nat,
           \A j \in 1..i : Marks(text)[j].n = j
    PROVE  Marks(ReplaceMark(text, i, new)) =
               [Marks(text) EXCEPT ![i] = Renumbered(Marks(text)[i], new)]
<1>1. PICK f \in [0..Len(text) -> Seq(Token)] : Counts(f, text)
  BY MarksCounted
<1>2. PICK q \in 1..Len(text) : text[q].t = "?" /\ Len(f[q]) = i
  BY <1>1, MarkFound
<1>3. Marks(text)[i] = text[q] /\ Len(f[q - 1]) = i - 1 /\ i \in Nat /\ i >= 1 /\ text[q].n = i
  <2>1. Marks(text)[i] = text[q] /\ Len(f[q - 1]) = i - 1
    BY <1>1, <1>2, MarkPlaces
  <2>2. Len(Marks(text)) \in Nat
    BY MarksType, LenProperties
  <2>3. i \in Nat /\ i >= 1 /\ i \in 1..i
    BY <2>2
  <2> QED
    BY <2>1, <2>3
<1> DEFINE found == {k \in DOMAIN text : text[k].t = "?" /\ BeginsWith(text[k].n, i)}
<1>4. DOMAIN text = 1..Len(text) /\ Len(text) \in Nat
  OBVIOUS
<1>5. q \in found
  <2>1. i \div 1 = i
    BY <1>3
  <2>2. BeginsWith(i, i)
    BY <2>1 DEF BeginsWith, Powers
  <2> QED
    BY <1>2, <1>3, <1>4, <2>2
<1>6. ASSUME NEW k \in found, k < q PROVE FALSE
  <2>1. k \in 1..Len(text) /\ text[k].t = "?" /\ BeginsWith(text[k].n, i) /\ k \in Nat
    BY <1>4
  <2>2. Marks(text)[Len(f[k])] = text[k] /\ Len(f[k]) \in 1..Len(Marks(text))
    BY <1>1, <2>1, MarkPlaces
  <2> HIDE DEF found
  <2>3. k \in 0..Len(text) /\ q - 1 \in k..Len(text)
    BY <1>4, <1>6, <2>1
  <2>4. Len(f[k]) <= Len(f[q - 1]) /\ Len(f[k]) \in Nat
    BY <1>1, <2>3, CountsRise
  <2>5. Len(f[k]) \in 1..i /\ Len(f[k]) < i
    <3>1. Len(f[k]) >= 1
      <4>1. Len(Marks(text)) \in Nat
        BY MarksType, LenProperties
      <4> QED
        BY <2>2, <4>1
    <3> QED
      BY <1>3, <2>4, <3>1
  <2>6. text[k].n = Len(f[k])
    BY <2>2, <2>5
  <2>7. PICK w \in Powers : text[k].n \div w = i
    BY <2>1 DEF BeginsWith
  <2>8. \A n \in Nat : n \div 1 <= n /\ n \div 10 <= n /\ n \div 100 <= n /\ n \div 1000 <= n
                       /\ n \div 10000 <= n
    OBVIOUS
  <2>9. text[k].n \div w <= text[k].n
    <3>1. PICK n \in Nat : n = text[k].n
      BY <2>4, <2>6
    <3>2. n \div w <= n
      BY <2>8 DEF Powers
    <3> QED
      BY <3>1, <3>2
  <2> QED
    BY <1>3, <2>4, <2>5, <2>6, <2>7, <2>9
<1>7. Min(found) = q
  <2>1. found \subseteq Nat
    BY <1>4
  <2> HIDE DEF found
  <2>2. Min(found) \in found /\ Min(found) <= q
    BY <1>5, <2>1, LeastOf
  <2>3. PICK m \in found : m = Min(found)
    BY <2>2
  <2>4. ~(m < q) /\ m <= q /\ m \in Nat /\ q \in Nat
    BY <1>4, <1>6, <2>1, <2>2, <2>3
  <2> QED
    BY <2>3, <2>4
<1>8. Spliced(i, i, new) = new
  <2>1. PICK w : w = CHOOSE x \in Powers : i \div x = i
    OBVIOUS
  <2>2. w \in Powers /\ i \div w = i
    <3>1. i \div 1 = i /\ 1 \in Powers
      BY <1>3 DEF Powers
    <3> QED
      BY <2>1, <3>1
  <2>3. i \div 10 # i /\ i \div 100 # i /\ i \div 1000 # i /\ i \div 10000 # i
    BY <1>3
  <2>4. w = 1
    BY <2>2, <2>3 DEF Powers
  <2>5. new * 1 + (i % 1) = new
    BY <1>3
  <2> QED
    BY <2>1, <2>4, <2>5 DEF Spliced
<1>9. ReplaceMark(text, i, new) = [text EXCEPT ![q] = Renumbered(text[q], new)]
  <2>1. ReplaceMark(text, i, new) = [text EXCEPT ![q].n = Spliced(@, i, new)]
    BY <1>5, <1>7 DEF ReplaceMark
  <2>2. [text EXCEPT ![q].n = Spliced(@, i, new)] = [text EXCEPT ![q] = Renumbered(text[q], new)]
    BY <1>3, <1>8 DEF Renumbered
  <2> QED
    BY <2>1, <2>2
<1>10. Marks([text EXCEPT ![q] = Renumbered(text[q], new)])
           = [Marks(text) EXCEPT ![Len(f[q])] = Renumbered(text[q], new)]
  BY <1>1, <1>2, MarksReplaced
<1> QED
  BY <1>2, <1>3, <1>9, <1>10

\* renumberParameters, placeholder by placeholder.
Replacing(F, text, n, p) ==
    /\ F[0] = text
    /\ \A k \in 1..n : F[k] = ReplaceMark(F[k - 1], n - k + 1, p + (n - k + 1) - 1)

LEMMA RenumberSteps ==
    ASSUME NEW d \in Dialects, d.numbered, NEW text \in Seq(Token), NEW n \in Nat, NEW p \in Nat
    PROVE  \E F \in [0..n -> Seq(Token)] :
              Replacing(F, text, n, p) /\ renumberParameters(d, text, n, p) = F[n]
<1> DEFINE next(k, t) == ReplaceMark(t, n - k + 1, p + (n - k + 1) - 1)
           Is(f) == f = [k \in 0..n |->
                            IF k = 0 THEN text
                            ELSE LET i == n - k + 1 IN ReplaceMark(f[k - 1], i, p + i - 1)]
           step == [k \in 1..n |-> [t \in Seq(Token) |-> next(k, t)]]
           F == CHOOSE f : Is(f)
<1>1. \A k \in 1..n, t \in Seq(Token) : next(k, t) \in Seq(Token)
  <2> TAKE k \in 1..n, t \in Seq(Token)
  <2>1. n - k + 1 \in Nat /\ p + (n - k + 1) - 1 \in Nat
    OBVIOUS
  <2> QED
    BY <2>1, ReplaceType
<1>2. step \in [1..n -> [Seq(Token) -> Seq(Token)]]
  <2> HIDE DEF next
  <2> QED
    BY <1>1
<1>3. PICK f \in [0..n -> Seq(Token)] : Ascends(f, n, text, step)
  <2> HIDE DEF step
  <2> QED
    BY <1>2, Recursion
<1>4. Is(f)
  <2>1. \A k \in 1..n : k - 1 \in 0..n /\ f[k - 1] \in Seq(Token)
    OBVIOUS
  <2>2. \A k \in 1..n : f[k] = next(k, f[k - 1])
    <3> HIDE DEF next
    <3> QED
      BY <1>3, <2>1 DEF Ascends
  <2>3. f[0] = text /\ \A k \in 0..n : k = 0 \/ k \in 1..n
    BY <1>3 DEF Ascends
  <2>4. f = [k \in 0..n |-> IF k = 0 THEN text ELSE next(k, f[k - 1])]
    <3> HIDE DEF next
    <3> QED
      BY <2>2, <2>3
  <2> QED
    BY <2>4
<1>5. Is(F)
  <2> HIDE DEF Is
  <2> QED
    BY <1>4
<1>6. renumberParameters(d, text, n, p) = F[n]
  BY DEF renumberParameters
<1> HIDE DEF F
<1>7. F[0] = text /\ \A k \in 1..n : F[k] = next(k, F[k - 1])
  <2>1. 0 \in 0..n /\ \A k \in 1..n : k \in 0..n /\ k # 0
    OBVIOUS
  <2> QED
    BY <1>5, <2>1
<1>8. F = f
  <2> DEFINE Q == {k \in 0..n : F[k] = f[k]}
  <2>1. f[0] = text /\ \A k \in 1..n : f[k] = next(k, f[k - 1])
    <3>1. 0 \in 0..n /\ \A k \in 1..n : k \in 0..n /\ k # 0
      OBVIOUS
    <3> QED
      BY <1>4, <3>1
  <2>2. 0 \in Q
    BY <1>7, <2>1
  <2>3. ASSUME NEW k \in 0..(n - 1), k \in Q PROVE k + 1 \in Q
    <3>1. k + 1 \in 1..n /\ (k + 1) - 1 = k
      OBVIOUS
    <3> HIDE DEF next
    <3>2. F[k + 1] = next(k + 1, F[k]) /\ f[k + 1] = next(k + 1, f[k])
      BY <1>7, <2>1, <3>1
    <3> QED
      BY <2>3, <3>1, <3>2
  <2> HIDE DEF Q
  <2>4. \A k \in 0..n : k \in Q
    BY <2>2, <2>3, Upwards
  <2>5. \A k \in 0..n : F[k] = f[k]
    BY <2>4 DEF Q
  <2>6. DOMAIN F = 0..n /\ F = [k \in 0..n |-> F[k]]
    BY <1>5
  <2> QED
    BY <2>5, <2>6
<1> QED
  BY <1>6, <1>7, <1>8 DEF Replacing

\* renumberParameters never takes one placeholder for another: however many
\* digits its numbers have, a text numbered from 1 is numbered from p after it
\* (query/subquery.go).
THEOREM Renumbers ==
    ASSUME NEW d \in Dialects, NEW text, NEW args, NEW p \in Nat, Numbers(d, text, args, 1)
    PROVE  Numbers(d, renumberParameters(d, text, Len(args), p), args, p)
<1>1. text \in Seq(Token) /\ args \in Seq(BoundValues) /\ Marks(text) = Numbered(d, args, 1)
  BY DEF Numbers
<1>2. d.numbered \in BOOLEAN
  BY WordsAssumption
<1>3. CASE ~d.numbered
  <2>1. renumberParameters(d, text, Len(args), p) = text
    BY <1>3 DEF renumberParameters
  <2>2. Numbered(d, args, 1) = Numbered(d, args, p)
    BY <1>3 DEF Numbered, Mark
  <2> QED
    BY <1>1, <2>1, <2>2 DEF Numbers
<1>4. CASE d.numbered
  <2> DEFINE n == Len(args)
             next(k, t) == ReplaceMark(t, n - k + 1, p + (n - k + 1) - 1)
  <2>1. n \in Nat
    BY <1>1
  <2>7. PICK F \in [0..n -> Seq(Token)] :
            Replacing(F, text, n, p) /\ renumberParameters(d, text, Len(args), p) = F[n]
    <3>1. Len(args) \in Nat
      BY <2>1
    <3> QED
      BY <1>1, <1>4, <3>1, RenumberSteps
  <2>8. F[0] = text /\ \A k \in 1..n : F[k] = next(k, F[k - 1])
    BY <2>7 DEF Replacing
  <2> DEFINE at(k, j) == Mark(d, IF j <= n - k THEN j ELSE p + j - 1, args[j])
             P == {k \in 0..n : /\ F[k] \in Seq(Token) /\ Len(Marks(F[k])) = n
                                /\ \A j \in 1..n : Marks(F[k])[j] = at(k, j)}
  <2>9. \A k \in 0..n, j \in 1..n :
            /\ at(k, j) \in Token /\ at(k, j).v = args[j] /\ at(k, j).t = "?"
            /\ at(k, j).n = (IF j <= n - k THEN j ELSE p + j - 1)
    <3> TAKE k \in 0..n, j \in 1..n
    <3>1. args[j] \in BoundValues
      BY <1>1
    <3>2. (IF j <= n - k THEN j ELSE p + j - 1) \in Nat
      BY <2>1
    <3>3. at(k, j) \in Token
      BY <3>1, <3>2, MarkTokens
    <3> QED
      BY <1>4, <3>3 DEF Mark
  <2>10. 0 \in P
    <3>1. Len(Numbered(d, args, 1)) = Len(args)
          /\ \A j \in 1..Len(args) : Numbered(d, args, 1)[j] = Mark(d, 1 + j - 1, args[j])
      BY <1>1, NumberedMarks
    <3>2. \A j \in 1..n : 1 + j - 1 = j /\ j <= n - 0
      BY <2>1
    <3>3. \A j \in 1..n : Marks(F[0])[j] = at(0, j)
      BY <1>1, <2>8, <3>1, <3>2
    <3>4. F[0] \in Seq(Token) /\ Len(Marks(F[0])) = n /\ 0 \in 0..n
      BY <1>1, <2>1, <2>8, <3>1
    <3> HIDE DEF at, n
    <3> QED
      BY <3>3, <3>4
  <2> HIDE DEF n
  <2>11. ASSUME NEW k \in 0..(n - 1), k \in P PROVE k + 1 \in P
    <3> DEFINE i == n - k
    <3>1. /\ k + 1 \in 1..n /\ (k + 1) - 1 = k /\ k + 1 \in 0..n /\ k \in 0..n
          /\ n - (k + 1) + 1 = i /\ i \in 1..n /\ i \in Nat /\ p + i - 1 \in Nat
          /\ n - (k + 1) = i - 1
      BY <2>1
    <3>2. PICK t \in Seq(Token), m \in Seq(Token) :
              t = F[k] /\ m = Marks(t) /\ Len(m) = n /\ \A j \in 1..n : m[j] = at(k, j)
      <4> HIDE DEF at
      <4>1. F[k] \in Seq(Token) /\ Len(Marks(F[k])) = n /\ \A j \in 1..n : Marks(F[k])[j] = at(k, j)
        BY <2>11
      <4> QED
        BY <4>1, MarksType
    <3>3. F[k + 1] = ReplaceMark(t, i, p + i - 1)
      BY <2>8, <3>1, <3>2
    <3>4. \A j \in 1..i : j \in 1..n /\ j <= n - k
      BY <2>1, <3>1
    <3>5. \A j \in 1..i : Marks(t)[j].n = j
      <4> HIDE DEF at, i
      <4>1. \A j \in 1..i : m[j] = at(k, j) /\ at(k, j).n = j
        BY <2>9, <3>1, <3>2, <3>4
      <4> QED
        BY <3>2, <4>1, Zenon
    <3> HIDE DEF P, i
    <3>6. /\ F[k + 1] \in Seq(Token)
          /\ Marks(F[k + 1]) = [m EXCEPT ![i] = Renumbered(m[i], p + i - 1)]
      <4>1. F[k + 1] \in Seq(Token)
        BY <3>1, <3>3, ReplaceType
      <4>2. i \in 1..Len(Marks(t))
        BY <3>1, <3>2
      <4>3. Marks(ReplaceMark(t, i, p + i - 1)) = [Marks(t) EXCEPT ![i] = Renumbered(Marks(t)[i], p + i - 1)]
        <5>1. PICK x \in Nat : x = p + i - 1
          BY <3>1
        <5>2. Marks(ReplaceMark(t, i, x)) = [Marks(t) EXCEPT ![i] = Renumbered(Marks(t)[i], x)]
          BY <3>5, <4>2, ReplacesItsMark
        <5> QED
          BY <5>1, <5>2
      <4> QED
        BY <3>2, <3>3, <4>1, <4>3
    <3>7. m[i] \in Token /\ i \in 1..Len(m)
      BY <3>1, <3>2
    <3>8. Renumbered(m[i], p + i - 1) \in Token
      BY <3>1, <3>7, RenumberedToken
    <3>9. PICK r \in Seq(Token) :
              /\ r = Marks(F[k + 1]) /\ Len(r) = n
              /\ \A j \in 1..n : r[j] = IF j = i THEN Renumbered(m[i], p + i - 1) ELSE m[j]
      <4>1. PICK r : r = [m EXCEPT ![i] = Renumbered(m[i], p + i - 1)]
        OBVIOUS
      <4>2. r \in Seq(Token) /\ Len(r) = Len(m)
            /\ \A j \in 1..Len(m) : r[j] = IF j = i THEN Renumbered(m[i], p + i - 1) ELSE m[j]
        BY <3>7, <3>8, <4>1, ExceptSeq
      <4> QED
        BY <3>2, <3>6, <4>1, <4>2
    <3>10. ASSUME NEW j \in 1..n PROVE r[j] = at(k + 1, j)
      <4>1. CASE j = i
        <5>1. r[j] = Renumbered(at(k, i), p + i - 1)
          <6> HIDE DEF at
          <6> QED
            BY <3>1, <3>2, <3>9, <4>1
        <5>2. i <= n - k /\ ~(i <= n - (k + 1))
          BY <2>1, <3>1 DEF i
        <5>3. at(k, i) = Mark(d, i, args[i]) /\ at(k + 1, i) = Mark(d, p + i - 1, args[i])
          BY <5>2
        <5>4. Renumbered(Mark(d, i, args[i]), p + i - 1) = Mark(d, p + i - 1, args[i])
          BY <1>4 DEF Renumbered, Mark
        <5> HIDE DEF at
        <5>5. r[j] = Mark(d, p + i - 1, args[i])
          BY <5>1, <5>3, <5>4
        <5> QED
          BY <4>1, <5>3, <5>5
      <4>2. CASE j # i
        <5>1. r[j] = at(k, j)
          BY <3>2, <3>9, <4>2
        <5>2. (j <= n - k) <=> (j <= n - (k + 1))
          BY <2>1, <4>2 DEF i
        <5> QED
          BY <5>1, <5>2
      <4> QED
        BY <4>1, <4>2
    <3> HIDE DEF at
    <3> QED
      BY <3>1, <3>6, <3>9, <3>10 DEF P
  <2>12. \A k \in 0..n : k \in P
    <3> HIDE DEF P
    <3> QED
      BY <2>1, <2>10, <2>11, Upwards
  <2>13. F[n] \in Seq(Token) /\ Len(Marks(F[n])) = n /\ \A j \in 1..n : Marks(F[n])[j] = at(n, j)
    <3>1. n \in 0..n
      BY <2>1
    <3> HIDE DEF at
    <3> QED
      BY <2>12, <3>1
  <2>14. Marks(F[n]) = Numbered(d, args, p)
    <3>1. PICK m \in Seq(Token), q \in Seq(Token) : m = Marks(F[n]) /\ q = Numbered(d, args, p)
      BY <1>1, <2>13, MarksType, NumberedMarks
    <3>2. Len(q) = n /\ \A j \in 1..n : q[j] = Mark(d, p + j - 1, args[j])
      BY <1>1, <3>1, NumberedMarks DEF n
    <3>3. \A j \in 1..n : ~(j <= n - n)
      BY <2>1
    <3>4. Len(m) = Len(q) /\ \A j \in 1..Len(m) : m[j] = q[j]
      BY <2>13, <3>1, <3>2, <3>3
    <3> QED
      BY <3>1, <3>4, SeqEqual
  <2> QED
    BY <1>1, <2>7, <2>13, <2>14 DEF Numbers
<1> QED
  BY <1>2, <1>3, <1>4

-----------------------------------------------------------------------------
(* Leaves and chains                                                       *)

\* A fragment that takes up the numbers at p.
Right(d, f, p) == Numbers(d, f.text, f.args, p) /\ f.next = p + Len(f.args)

LEMMA RightParts ==
    ASSUME NEW d \in Dialects, NEW text, NEW args, NEW p \in Nat, Numbers(d, text, args, p)
    PROVE  Right(d, Fragment(text, args, p + Len(args)), p)
BY DEF Right, Fragment

LEMMA RightNext ==
    ASSUME NEW d \in Dialects, NEW f, NEW p \in Nat, Right(d, f, p)
    PROVE  /\ f.text \in Seq(Token) /\ f.args \in Seq(BoundValues)
           /\ f.next \in Nat /\ f.next = p + Len(f.args) /\ Len(f.args) \in Nat
<1>1. f.text \in Seq(Token) /\ f.args \in Seq(BoundValues) /\ f.next = p + Len(f.args)
  BY DEF Right, Numbers
<1>2. Len(f.args) \in Nat
  BY <1>1, LenProperties
<1> QED
  BY <1>1, <1>2

\* Text alone takes up none.
LEMMA RightWords ==
    ASSUME NEW d \in Dialects, NEW text \in Unmarked, NEW p \in Nat
    PROVE  Right(d, Fragment(text, <<>>, p), p)
<1>1. Numbers(d, text, <<>>, p) /\ p + Len(<<>>) = p
  BY NumbersNothing
<1> QED
  BY <1>1, RightParts

LEMMA ValuesRight ==
    ASSUME NEW d \in Dialects, NEW head \in Unmarked, NEW vals \in Seq(BoundValues), NEW p \in Nat
    PROVE  Right(d, Values(d, head, vals, p), p)
<1>1. Numbers(d, Numbered(d, vals, p), vals, p)
  BY NumbersAlone
<1>2. Numbers(d, head \o Numbered(d, vals, p), vals, p)
  BY <1>1, NumbersAround
<1> QED
  BY <1>2, RightParts DEF Values

\* Text given whole, with its "?" in the order of its values.
LEMMA RawRight ==
    ASSUME NEW d \in Dialects, NEW p \in Nat, NEW n,
           n.text \in Seq(Token), n.vals \in Seq(BoundValues),
           Marks(n.text) = Numbered([numbered |-> FALSE], n.vals, 1)
    PROVE  Right(d, RawSQL(d, n, p), p)
<1>1. PICK text \in Seq(Token), vals \in Seq(BoundValues) : text = n.text /\ vals = n.vals
  OBVIOUS
<1> DEFINE tok(k) == IF text[k].t = "?" /\ Place(text, k) <= Len(vals) /\ d.numbered
                     THEN [text[k] EXCEPT !.n = p + Place(text, k) - 1] ELSE text[k]
<1>2. PICK new : new = [k \in DOMAIN text |-> tok(k)]
  OBVIOUS
<1>3. PICK f \in [0..Len(text) -> Seq(Token)] : Counts(f, text)
  BY MarksCounted
<1>4. Len(text) \in Nat /\ DOMAIN text = 1..Len(text) /\ Len(vals) \in Nat
      /\ \A k \in 1..Len(text) : text[k] \in Token
  OBVIOUS
<1>5. Len(Marks(text)) = Len(vals)
      /\ \A j \in 1..Len(vals) : Marks(text)[j] = [t |-> "?", n |-> 0, v |-> vals[j]]
  <2>1. DOMAIN vals = 1..Len(vals)
    OBVIOUS
  <2>2. Marks(text) = [i \in 1..Len(vals) |-> Mark([numbered |-> FALSE], 1 + i - 1, vals[i])]
    BY <1>1, <2>1 DEF Numbered
  <2>3. \A i \in 1..Len(vals) : Mark([numbered |-> FALSE], 1 + i - 1, vals[i]) = [t |-> "?", n |-> 0, v |-> vals[i]]
    BY DEF Mark
  <2>4. Marks(text) \in Seq(Token)
    BY MarksType
  <2>5. DOMAIN Marks(text) = 1..Len(vals)
    BY <2>2
  <2>6. Len(Marks(text)) = Len(vals)
    BY <1>4, <2>4, <2>5, LenProperties
  <2> QED
    BY <2>2, <2>3, <2>6
<1>6. ASSUME NEW k \in 1..Len(text), text[k].t = "?"
      PROVE  Len(f[k]) \in 1..Len(vals) /\ Len(f[k - 1]) = Len(f[k]) - 1
             /\ tok(k) = Mark(d, p + Len(f[k]) - 1, vals[Len(f[k])])
  <2>1. /\ Len(f[k]) \in 1..Len(Marks(text)) /\ Marks(text)[Len(f[k])] = text[k]
        /\ Len(f[k - 1]) = Len(f[k]) - 1
    BY <1>3, <1>6, MarkPlaces
  <2>2. Place(text, k) = Len(f[k])
    BY <1>3 DEF Counts
  <2>3. Len(f[k]) \in 1..Len(vals) /\ Len(f[k]) <= Len(vals)
    BY <1>4, <1>5, <2>1
  <2>4. text[k] = [t |-> "?", n |-> 0, v |-> vals[Len(f[k])]]
    BY <1>5, <2>1, <2>3
  <2>5. PICK c \in 1..Len(vals) : c = Len(f[k])
    BY <2>3
  <2>6. tok(k) = IF d.numbered THEN [text[k] EXCEPT !.n = p + c - 1] ELSE text[k]
    BY <1>6, <2>2, <2>3, <2>5
  <2> HIDE DEF tok
  <2>7. tok(k) = Mark(d, p + c - 1, vals[c])
    <3>1. PICK z : z = text[k] /\ z = [t |-> "?", n |-> 0, v |-> vals[c]]
      BY <2>4, <2>5
    <3>2. CASE d.numbered
      <4>1. tok(k) = [z EXCEPT !.n = p + c - 1]
        BY <2>6, <3>1, <3>2
      <4>2. [z EXCEPT !.n = p + c - 1] = [t |-> "?", n |-> p + c - 1, v |-> vals[c]]
        BY <3>1
      <4> QED
        BY <3>2, <4>1, <4>2 DEF Mark
    <3>3. CASE ~d.numbered
      BY <2>6, <3>1, <3>3 DEF Mark
    <3> QED
      BY <3>2, <3>3
  <2> QED
    BY <2>1, <2>3, <2>5, <2>7
<1>7. ASSUME NEW k \in 1..Len(text) PROVE tok(k) \in Token /\ (tok(k).t = "?" <=> text[k].t = "?")
  <2>1. CASE text[k].t = "?"
    <3> HIDE DEF tok
    <3>1. PICK c \in 1..Len(vals) : tok(k) = Mark(d, p + c - 1, vals[c])
      BY <1>6, <2>1
    <3>2. p + c - 1 \in Nat /\ vals[c] \in BoundValues
      BY <1>4
    <3> QED
      BY <2>1, <3>1, <3>2, MarkTokens
  <2>2. CASE text[k].t # "?"
    BY <1>4, <2>2
  <2> QED
    BY <2>1, <2>2
<1> HIDE DEF tok
<1>8. new \in Seq(Token) /\ Len(new) = Len(text) /\ \A k \in 1..Len(text) : new[k] = tok(k)
  <2>1. new \in [1..Len(text) -> Token] /\ \A k \in 1..Len(text) : new[k] = tok(k)
    BY <1>2, <1>4, <1>7
  <2> QED
    BY <1>4, <2>1, AsSeq
<1>9. PICK g \in [0..Len(new) -> Seq(Token)] : Counts(g, new)
  BY <1>8, MarksCounted
<1> DEFINE m == Len(text)
           P == {k \in 0..m : /\ Len(g[k]) = Len(f[k])
                              /\ \A j \in 1..Len(f[k]) : g[k][j] = Mark(d, p + j - 1, vals[j])}
<1>10. /\ f[0] = <<>> /\ g[0] = <<>> /\ Marks(new) = g[m]  /\ m \in Nat /\ Marks(text) = f[m]
       /\ \A k \in 0..m : f[k] \in Seq(Token) /\ g[k] \in Seq(Token)
       /\ \A k \in 1..m :
            /\ f[k] = (IF text[k].t = "?" THEN Append(f[k - 1], text[k]) ELSE f[k - 1])
            /\ g[k] = (IF new[k].t = "?" THEN Append(g[k - 1], new[k]) ELSE g[k - 1])
  BY <1>3, <1>4, <1>8, <1>9 DEF Counts
<1> HIDE DEF m
<1>11. 0 \in P
  BY <1>10
<1>12. ASSUME NEW k \in 0..(m - 1), k \in P PROVE k + 1 \in P
  <2>1. k + 1 \in 1..m /\ (k + 1) - 1 = k /\ k \in 0..m /\ k + 1 \in 0..m
    BY <1>10
  <2>2. new[k + 1] = tok(k + 1) /\ (new[k + 1].t = "?" <=> text[k + 1].t = "?")
    BY <1>7, <1>8, <2>1 DEF m
  <2>3. Len(g[k]) = Len(f[k]) /\ \A j \in 1..Len(f[k]) : g[k][j] = Mark(d, p + j - 1, vals[j])
    BY <1>12
  <2>4. CASE text[k + 1].t # "?"
    <3>1. f[k + 1] = f[k] /\ g[k + 1] = g[k]
      BY <1>10, <2>1, <2>2, <2>4
    <3> QED
      BY <2>1, <2>3, <3>1
  <2>5. CASE text[k + 1].t = "?"
    <3>1. PICK w \in Seq(Token), z \in Token :
              w = g[k] /\ z = Mark(d, p + Len(f[k + 1]) - 1, vals[Len(f[k + 1])]) /\ g[k + 1] = Append(w, z)
              /\ Len(f[k]) = Len(f[k + 1]) - 1 /\ Len(f[k + 1]) \in 1..Len(vals)
      <4>1. /\ tok(k + 1) = Mark(d, p + Len(f[k + 1]) - 1, vals[Len(f[k + 1])])
            /\ Len(f[k]) = Len(f[k + 1]) - 1 /\ Len(f[k + 1]) \in 1..Len(vals)
        BY <1>6, <2>1, <2>5 DEF m
      <4>2. g[k + 1] = Append(g[k], tok(k + 1)) /\ g[k] \in Seq(Token) /\ tok(k + 1) \in Token
        BY <1>7, <1>10, <2>1, <2>2, <2>5 DEF m
      <4> QED
        BY <4>1, <4>2
    <3>2. /\ Len(Append(w, z)) = Len(w) + 1 /\ Append(w, z)[Len(w) + 1] = z
          /\ \A j \in 1..Len(w) : Append(w, z)[j] = w[j]
      BY AppendProperties
    <3>3. Len(f[k + 1]) \in Nat /\ Len(w) + 1 = Len(f[k + 1]) /\ Len(w) \in Nat
      BY <1>4, <2>3, <3>1
    <3>4. Len(g[k + 1]) = Len(f[k + 1])
      BY <3>1, <3>2, <3>3
    <3>5. ASSUME NEW j \in 1..Len(f[k + 1]) PROVE g[k + 1][j] = Mark(d, p + j - 1, vals[j])
      <4>1. j = Len(w) + 1 \/ j \in 1..Len(w)
        BY <3>3
      <4>2. CASE j = Len(w) + 1
        BY <3>1, <3>2, <3>3, <4>2
      <4>3. CASE j \in 1..Len(w)
        BY <2>3, <3>1, <3>2, <4>3
      <4> QED
        BY <4>1, <4>2, <4>3
    <3> QED
      BY <2>1, <3>4, <3>5
  <2> QED
    BY <2>4, <2>5
<1>13. m \in P
  <2>1. \A k \in 0..m : k \in P
    <3> HIDE DEF P
    <3> QED
      BY <1>10, <1>11, <1>12, Upwards
  <2>2. m \in 0..m
    BY <1>10
  <2> HIDE DEF P
  <2> QED
    BY <2>1, <2>2
<1>14. Marks(new) = Numbered(d, vals, p)
  <2>1. Len(Marks(new)) = Len(vals) /\ \A j \in 1..Len(vals) : Marks(new)[j] = Mark(d, p + j - 1, vals[j])
    BY <1>5, <1>10, <1>13
  <2>2. PICK s \in Seq(Token), t \in Seq(Token) : s = Marks(new) /\ t = Numbered(d, vals, p)
    BY <1>8, MarksType, NumberedMarks
  <2>3. Len(t) = Len(vals) /\ \A j \in 1..Len(vals) : t[j] = Mark(d, p + j - 1, vals[j])
    BY <2>2, NumberedMarks
  <2>4. Len(s) = Len(t) /\ \A j \in 1..Len(s) : s[j] = t[j]
    BY <2>1, <2>2, <2>3
  <2> QED
    BY <2>2, <2>4, SeqEqual
<1>15. Numbers(d, new, vals, p)
  BY <1>8, <1>14 DEF Numbers
<1>16. RawSQL(d, n, p) = Fragment(new, vals, p + Len(vals))
  BY <1>1, <1>2 DEF RawSQL, tok
<1> QED
  BY <1>15, <1>16, RightParts

\* render takes up the numbers of the trees right, wherever it is asked to start.
RendersRight(d, render_, trees) ==
    \A n \in trees, p \in Nat : Right(d, render_[<<n, p>>], p)

\* What Chain gives.
ChainRight(d, c, nodes, p) ==
    /\ c.parts \in Seq(Seq(Token)) /\ Len(c.parts) = Len(nodes)
    /\ Numbers(d, FlattenSeq(c.parts), c.args, p)
    /\ c.args \in Seq(BoundValues) /\ c.next \in Nat /\ c.next = p + Len(c.args)

\* Its steps: one part for each node.
Links(F, r, nodes, p) ==
    /\ F[0] = [parts |-> <<>>, args |-> <<>>, next |-> p]
    /\ \A i \in 1..Len(nodes) :
          F[i] = [parts |-> Append(F[i - 1].parts, r[<<nodes[i], F[i - 1].next>>].text),
                  args |-> F[i - 1].args \o r[<<nodes[i], F[i - 1].next>>].args,
                  next |-> r[<<nodes[i], F[i - 1].next>>].next]

Accumulated == [parts : Seq(Seq(Token)), args : Seq(BoundValues), next : Nat]

LEMMA ChainLinks ==
    ASSUME NEW d \in Dialects, NEW T, NEW nodes \in Seq(T), NEW p \in Nat, NEW r,
           RendersRight(d, r, T)
    PROVE  \E F \in [0..Len(nodes) -> Accumulated] :
              Links(F, r, nodes, p) /\ Chain(r, nodes, p) = F[Len(nodes)]
<1> DEFINE n == Len(nodes)
           base == [parts |-> <<>>, args |-> <<>>, next |-> p]
           next(i, acc) == [parts |-> Append(acc.parts, r[<<nodes[i], acc.next>>].text),
                            args |-> acc.args \o r[<<nodes[i], acc.next>>].args,
                            next |-> r[<<nodes[i], acc.next>>].next]
           step == [i \in 1..n |-> [acc \in Accumulated |-> next(i, acc)]]
           Is(f) == f = [i \in 0..n |->
                            IF i = 0 THEN [parts |-> <<>>, args |-> <<>>, next |-> p]
                            ELSE LET acc == f[i - 1]
                                     f_1 == r[<<nodes[i], acc.next>>]
                                 IN [parts |-> Append(acc.parts, f_1.text), args |-> acc.args \o f_1.args,
                                     next |-> f_1.next]]
           F == CHOOSE f : Is(f)
<1>1. n \in Nat /\ \A i \in 1..n : nodes[i] \in T
  OBVIOUS
<1>2. base \in Accumulated
  BY DEF Accumulated
<1>3. \A i \in 1..n, acc \in Accumulated : next(i, acc) \in Accumulated
  <2> TAKE i \in 1..n, acc \in Accumulated
  <2>1. /\ acc.parts \in Seq(Seq(Token)) /\ acc.args \in Seq(BoundValues) /\ acc.next \in Nat
    BY DEF Accumulated
  <2>2. PICK g : g = r[<<nodes[i], acc.next>>]
    OBVIOUS
  <2>3. Right(d, g, acc.next)
    BY <1>1, <2>1, <2>2 DEF RendersRight
  <2>4. g.text \in Seq(Token) /\ g.args \in Seq(BoundValues) /\ g.next \in Nat
    BY <2>1, <2>3, RightNext
  <2>5. Append(acc.parts, g.text) \in Seq(Seq(Token)) /\ acc.args \o g.args \in Seq(BoundValues)
    BY <2>1, <2>4, AppendProperties, ConcatProperties
  <2>6. next(i, acc) = [parts |-> Append(acc.parts, g.text), args |-> acc.args \o g.args, next |-> g.next]
    BY <2>2
  <2> QED
    BY <2>4, <2>5, <2>6 DEF Accumulated
<1>4. step \in [1..n -> [Accumulated -> Accumulated]]
  <2> HIDE DEF n, next
  <2> QED
    BY <1>3
<1>5. PICK f \in [0..n -> Accumulated] : Ascends(f, n, base, step)
  <2> HIDE DEF step, n, base
  <2> QED
    BY <1>1, <1>2, <1>4, Recursion
<1>6. f[0] = base /\ \A i \in 1..n : i - 1 \in 0..n /\ f[i] = next(i, f[i - 1])
  <2> HIDE DEF n, next, base
  <2>1. \A i \in 1..n : i - 1 \in 0..n /\ f[i - 1] \in Accumulated
    BY <1>1
  <2> QED
    BY <1>5, <2>1 DEF Ascends
<1>7. Is(f)
  <2> HIDE DEF n
  <2>1. \A i \in 0..n : i = 0 \/ i \in 1..n
    BY <1>1
  <2>2. f = [i \in 0..n |-> IF i = 0 THEN base ELSE next(i, f[i - 1])]
    <3> HIDE DEF next, base
    <3> QED
      BY <1>6, <2>1, Zenon
  <2> QED
    BY <2>2, Zenon
<1>8. Is(F)
  <2> HIDE DEF Is
  <2> QED
    BY <1>7, Zenon
<1>9. Chain(r, nodes, p) = F[n]
  BY Zenon DEF Chain
<1> HIDE DEF F
<1>10. F[0] = base /\ F = [i \in 0..n |-> F[i]] /\ \A i \in 1..n : F[i] = next(i, F[i - 1])
  <2>2. F = [i \in 0..n |-> IF i = 0 THEN base ELSE next(i, F[i - 1])]
    BY <1>8, Zenon
  <2> HIDE DEF n, next, base, step, Is
  <2>1. 0 \in 0..n /\ \A i \in 1..n : i \in 0..n /\ i # 0
    BY <1>1
  <2> QED
    BY <2>1, <2>2, Zenon
<1> DEFINE P == {i \in 0..n : F[i] = f[i]}
<1> HIDE DEF n
<1>11. 0 \in P
  BY <1>1, <1>6, <1>10
<1>12. ASSUME NEW i \in 0..(n - 1), i \in P PROVE i + 1 \in P
  <2>1. i + 1 \in 1..n /\ (i + 1) - 1 = i /\ i + 1 \in 0..n
    BY <1>1
  <2>2. F[i] = f[i]
    BY <1>12
  <2> HIDE DEF next
  <2> QED
    BY <1>6, <1>10, <2>1, <2>2
<1>13. \A i \in 0..n : i \in P
  <2> HIDE DEF P
  <2> QED
    BY <1>1, <1>11, <1>12, Upwards
<1>14. F = f
  BY <1>10, <1>13
<1>15. Links(f, r, nodes, p)
  BY <1>6 DEF Links, n
<1> QED
  BY <1>9, <1>14, <1>15 DEF n

LEMMA ChainNumbers ==
    ASSUME NEW d \in Dialects, NEW T, NEW nodes \in Seq(T), NEW p \in Nat, NEW r,
           RendersRight(d, r, T)
    PROVE  ChainRight(d, Chain(r, nodes, p), nodes, p)
<1>1. PICK F \in [0..Len(nodes) -> Accumulated] :
          Links(F, r, nodes, p) /\ Chain(r, nodes, p) = F[Len(nodes)]
  BY ChainLinks
<1> DEFINE n == Len(nodes)
           P == {i \in 0..n : /\ Len(F[i].parts) = i /\ F[i].next = p + Len(F[i].args)
                              /\ Numbers(d, FlattenSeq(F[i].parts), F[i].args, p)}
<1>2. n \in Nat /\ \A i \in 1..n : nodes[i] \in T
  OBVIOUS
<1>3. 0 \in P
  <2>1. F[0] = [parts |-> <<>>, args |-> <<>>, next |-> p]
    BY <1>1 DEF Links
  <2>2. Numbers(d, <<>>, <<>>, p)
    BY UnmarkedConcat, NumbersNothing
  <2>3. 0 \in 0..n /\ Len(<<>>) = 0 /\ p + 0 = p
    BY <1>2
  <2> QED
    BY <2>1, <2>2, <2>3, FlattenEmpty
<1> HIDE DEF n
<1>4. ASSUME NEW i \in 0..(n - 1), i \in P PROVE i + 1 \in P
  <2>1. i + 1 \in 1..n /\ (i + 1) - 1 = i /\ i \in 0..n /\ i + 1 \in 0..n
    BY <1>2
  <2>2. PICK acc \in Accumulated : acc = F[i]
    BY <1>1, <2>1 DEF n
  <2>3. /\ acc.parts \in Seq(Seq(Token)) /\ acc.args \in Seq(BoundValues) /\ acc.next \in Nat
        /\ Len(acc.parts) = i /\ acc.next = p + Len(acc.args)
        /\ Numbers(d, FlattenSeq(acc.parts), acc.args, p)
    BY <1>4, <2>2 DEF Accumulated
  <2>4. PICK g : g = r[<<nodes[i + 1], acc.next>>]
    OBVIOUS
  <2>5. Right(d, g, acc.next)
    BY <1>2, <2>1, <2>3, <2>4 DEF RendersRight
  <2>6. g.text \in Seq(Token) /\ g.args \in Seq(BoundValues) /\ g.next = acc.next + Len(g.args)
        /\ Len(g.args) \in Nat
    BY <2>3, <2>5, RightNext
  <2>7. F[i + 1] = [parts |-> Append(acc.parts, g.text), args |-> acc.args \o g.args, next |-> g.next]
    BY <1>1, <2>1, <2>2, <2>4 DEF Links, n
  <2>8. FlattenSeq(Append(acc.parts, g.text)) = FlattenSeq(acc.parts) \o g.text
    BY <2>3, <2>6, FlattenAppend
  <2> HIDE DEF P
  <2>9. PICK u, t, a, c : /\ u = FlattenSeq(acc.parts) /\ t = g.text /\ a = acc.args /\ c = g.args
    OBVIOUS
  <2>10. Numbers(d, u, a, p) /\ Numbers(d, t, c, p + Len(a))
    <3>1. Numbers(d, t, c, acc.next)
      BY <2>5, <2>9 DEF Right
    <3> QED
      BY <2>3, <2>9, <3>1
  <2>11. Numbers(d, u \o t, a \o c, p) /\ Len(a \o c) = Len(a) + Len(c)
    BY <2>10, NumbersConcat
  <2>12. Len(a) \in Nat /\ Len(c) \in Nat
    BY <2>3, <2>6, <2>9, LenProperties
  <2>13. g.next = p + Len(a \o c)
    <3>1. g.next = (p + Len(a)) + Len(c)
      BY <2>3, <2>6, <2>9
    <3> QED
      BY <2>11, <2>12, <3>1
  <2>14. Len(Append(acc.parts, t)) = i + 1
    BY <2>3, <2>6, <2>9, AppendProperties
  <2>15. F[i + 1] = [parts |-> Append(acc.parts, t), args |-> a \o c, next |-> g.next]
    BY <2>7, <2>9
  <2>16. F[i + 1].parts = Append(acc.parts, t) /\ F[i + 1].args = a \o c /\ F[i + 1].next = g.next
    BY <2>15
  <2>17. FlattenSeq(Append(acc.parts, t)) = u \o t
    BY <2>8, <2>9
  <2>18. /\ Len(F[i + 1].parts) = i + 1 /\ F[i + 1].next = p + Len(F[i + 1].args)
         /\ Numbers(d, FlattenSeq(F[i + 1].parts), F[i + 1].args, p)
    BY <2>11, <2>13, <2>14, <2>16, <2>17
  <2> QED
    BY <2>1, <2>18 DEF P
<1>5. n \in P
  <2>1. \A i \in 0..n : i \in P
    <3> HIDE DEF P
    <3> QED
      BY <1>2, <1>3, <1>4, Upwards
  <2> HIDE DEF P
  <2> QED
    BY <1>2, <2>1
<1>6. F[n] \in Accumulated
  BY <1>1, <1>2 DEF n
<1> QED
  BY <1>1, <1>5, <1>6 DEF ChainRight, Accumulated, n

-----------------------------------------------------------------------------
(* Statements                                                              *)

LEMMA UnmarkedParts ==
    ASSUME NEW parts \in Seq(Unmarked)
    PROVE  parts \in Seq(Seq(Token)) /\ FlattenSeq(parts) \in Unmarked
<1>1. \A u \in Unmarked : u \in Seq(Token)
  BY DEF Unmarked
<1>2. parts \in Seq(Seq(Token))
  BY <1>1, SeqMonotonic
<1>3. PICK f \in [0..Len(parts) -> Seq(Token)] : Flattens(f, parts)
  BY <1>2, FlattenPrefixes
<1>4. /\ Len(parts) \in Nat /\ f[0] = <<>> /\ FlattenSeq(parts) = f[Len(parts)]
      /\ \A k \in 1..Len(parts) : f[k] = f[k - 1] \o parts[k]
  BY <1>3 DEF Flattens, Gathers
<1> DEFINE P == {k \in 0..Len(parts) : f[k] \in Unmarked}
<1>5. 0 \in P
  BY <1>4, UnmarkedConcat
<1>6. ASSUME NEW k \in 0..(Len(parts) - 1), k \in P PROVE k + 1 \in P
  <2>1. k + 1 \in 1..Len(parts) /\ (k + 1) - 1 = k /\ k + 1 \in 0..Len(parts)
    BY <1>4
  <2>2. parts[k + 1] \in Unmarked /\ f[k] \in Unmarked
    BY <1>6, <2>1
  <2>3. f[k + 1] = f[k] \o parts[k + 1]
    BY <1>4, <2>1
  <2> QED
    BY <2>1, <2>2, <2>3, UnmarkedConcat
<1>7. \A k \in 0..Len(parts) : k \in P
  <2> HIDE DEF P
  <2> QED
    BY <1>4, <1>5, <1>6, Upwards
<1> QED
  BY <1>2, <1>4, <1>7

\* The clauses there are, over some trees.
SelectWords == {"SELECT", "SELECT_DISTINCT", "FROM", "WHERE", "GROUP_BY", "HAVING", "ORDER_BY", "LIMIT",
                "OFFSET"} \cup JoinWords
Separators == {",", "AND"}

ClausesOver(trees) ==
    [word : SelectWords, plain : Seq(Words), nodes : Seq(trees), sep : Separators]

LEMMA SelectKeywords == SelectWords \subseteq Keywords /\ SelectWords \subseteq Words /\ Separators \subseteq Keywords
<1>1. SelectWords \subseteq Keywords
  BY JoinsAreWords DEF SelectWords, Keywords
<1>2. Separators \subseteq Keywords
  BY DEF Separators, Keywords
<1> QED
  BY <1>1, <1>2, WordsAssumption

LEMMA ClauseNumbers ==
    ASSUME NEW d \in Dialects, NEW T, NEW c \in ClausesOver(T), NEW p \in Nat, NEW f,
           ChainRight(d, f, c.nodes, p)
    PROVE  Right(d, ClauseSQL(c, f), p)
<1>1. c.word \in Words /\ c.plain \in Seq(Words) /\ c.sep \in Keywords
  BY SelectKeywords DEF ClausesOver
<1>2. PICK plain : plain = [i \in DOMAIN c.plain |-> <<Name(c.plain[i])>>]
  OBVIOUS
<1>3. plain \in Seq(Unmarked)
  <2>1. DOMAIN c.plain = 1..Len(c.plain) /\ Len(c.plain) \in Nat
        /\ \A i \in 1..Len(c.plain) : c.plain[i] \in Words
    BY <1>1
  <2>2. \A i \in 1..Len(c.plain) : <<Name(c.plain[i])>> \in Unmarked
    BY <2>1, NamesUnmarked
  <2>3. plain \in [1..Len(c.plain) -> Unmarked]
    BY <1>2, <2>1, <2>2
  <2> QED
    BY <2>1, <2>3, AsSeq
<1>4. plain \in Seq(Seq(Token)) /\ FlattenSeq(plain) \in Unmarked
  BY <1>3, UnmarkedParts
<1>5. PICK parts \in Seq(Seq(Token)), args \in Seq(BoundValues) : parts = f.parts /\ args = f.args
  BY DEF ChainRight
<1>6. Numbers(d, FlattenSeq(parts), args, p) /\ f.next = p + Len(args)
  BY <1>5 DEF ChainRight
<1>7. plain \o parts \in Seq(Seq(Token)) /\ FlattenSeq(plain \o parts) = FlattenSeq(plain) \o FlattenSeq(parts)
  BY <1>4, FlattenConcat, ConcatProperties
<1>8. Numbers(d, FlattenSeq(plain \o parts), args, p)
  BY <1>4, <1>6, <1>7, NumbersAround
<1>9. PICK text : text = Joined(plain \o parts, c.sep)
  OBVIOUS
<1>10. Numbers(d, text, args, p)
  <2>1. text \in Seq(Token) /\ Marks(text) = Marks(FlattenSeq(plain \o parts))
    BY <1>1, <1>7, <1>9, JoinedMarks
  <2> QED
    BY <1>8, <2>1 DEF Numbers
<1>11. Numbers(d, <<Word(c.word)>> \o text, args, p)
  BY <1>1, <1>10, WordsUnmarked, NumbersAround
<1>12. ClauseSQL(c, f) = Fragment(<<Word(c.word)>> \o text, args, p + Len(args))
  BY <1>2, <1>5, <1>6, <1>9 DEF ClauseSQL
<1> QED
  BY <1>11, <1>12, RightParts

LEMMA ClauseType ==
    ASSUME NEW T, NEW word \in SelectWords, NEW plain \in Seq(Words), NEW nodes \in Seq(T),
           NEW sep \in Separators
    PROVE  Clause(word, plain, nodes, sep) \in ClausesOver(T)
BY DEF Clause, ClausesOver

\* What Build reads of a builder.
LEMMA BuilderParts ==
    ASSUME NEW T, NEW C, NEW q \in BuildersOver(T, C)
    PROVE  /\ q.err \in BOOLEAN /\ q.distinct \in BOOLEAN /\ q.table \in Seq(Words)
           /\ q.columns \in Seq(Words) /\ q.exprs \in Seq(T)
           /\ q.joins \in Seq([type : JoinWords, table : Words, on : Seq(T)])
           /\ q.conditions \in Seq(T) /\ q.groupBy \in Seq(Words) /\ q.groupByExprs \in Seq(T)
           /\ q.having \in Seq(T) /\ q.orderBy \in Seq(Words) /\ q.orderByExprs \in Seq(T)
           /\ q.limit \in Int /\ q.offset \in Int
           /\ q.sets \in Seq(Words \X BoundValues) /\ q.rows \in Seq(Seq(BoundValues))
           /\ q.ctes \in C /\ q.returning \in BOOLEAN /\ q.ignore \in BOOLEAN
           /\ q.verb \in {"select", "update", "delete", "insert", "cte"}
BY DEF BuildersOver

\* Nine sequences, one after the other.
LEMMA NineTogether ==
    ASSUME NEW S, NEW a \in Seq(S), NEW b_ \in Seq(S), NEW c \in Seq(S), NEW e \in Seq(S),
           NEW f \in Seq(S), NEW g \in Seq(S), NEW h \in Seq(S), NEW i \in Seq(S), NEW j \in Seq(S)
    PROVE  a \o b_ \o c \o e \o f \o g \o h \o i \o j \in Seq(S)
<1>1. PICK u \in Seq(S) : u = a \o b_ \o c
  <2>1. a \o b_ \in Seq(S)
    BY ConcatProperties
  <2> QED
    BY <2>1, ConcatProperties
<1>2. PICK v \in Seq(S) : v = u \o e \o f
  <2>1. u \o e \in Seq(S)
    BY ConcatProperties
  <2> QED
    BY <2>1, ConcatProperties
<1>3. PICK w \in Seq(S) : w = v \o g \o h
  <2>1. v \o g \in Seq(S)
    BY ConcatProperties
  <2> QED
    BY <2>1, ConcatProperties
<1>4. w \o i \in Seq(S)
  BY ConcatProperties
<1>5. w \o i \o j \in Seq(S)
  BY <1>4, ConcatProperties
<1> QED
  BY Zenon, <1>1, <1>2, <1>3, <1>5

\* A clause, if there is anything to write in it; the first one; those of the
\* joins.
Given1(word, plain, nodes, sep) ==
    IF plain = <<>> /\ nodes = <<>> THEN <<>> ELSE <<Clause(word, plain, nodes, sep)>>
First(q) == <<Clause(IF q.distinct THEN "SELECT_DISTINCT" ELSE "SELECT",
                     IF q.columns = <<>> /\ q.exprs = <<>> THEN <<"*">> ELSE q.columns, q.exprs, ",")>>
JoinClauses(q) ==
    [i \in DOMAIN q.joins |-> Clause(q.joins[i].type, <<q.joins[i].table>>, q.joins[i].on, ",")]

\* The nine parts of a SELECT.
NineParts(q, first, from, joins, where, group, having, order, limit, offset) ==
    /\ first = First(q) /\ joins = JoinClauses(q)
    /\ from = Given1("FROM", q.table, <<>>, ",")
    /\ where = Given1("WHERE", <<>>, q.conditions, "AND")
    /\ group = Given1("GROUP_BY", q.groupBy, q.groupByExprs, ",")
    /\ having = Given1("HAVING", <<>>, q.having, "AND")
    /\ order = Given1("ORDER_BY", q.orderBy, q.orderByExprs, ",")
    /\ limit = Given1("LIMIT", IF q.limit > 0 THEN <<"n">> ELSE <<>>, <<>>, ",")
    /\ offset = Given1("OFFSET", IF q.offset > 0 THEN <<"n">> ELSE <<>>, <<>>, ",")
    /\ Clauses(q) = first \o from \o joins \o where \o group \o having \o order \o limit \o offset

LEMMA ClausesAreNine ==
    ASSUME NEW q
    PROVE  \E first, from, joins, where, group, having, order, limit, offset :
              NineParts(q, first, from, joins, where, group, having, order, limit, offset)
<1>1. Clauses(q) = First(q) \o Given1("FROM", q.table, <<>>, ",") \o JoinClauses(q)
                     \o Given1("WHERE", <<>>, q.conditions, "AND")
                     \o Given1("GROUP_BY", q.groupBy, q.groupByExprs, ",")
                     \o Given1("HAVING", <<>>, q.having, "AND")
                     \o Given1("ORDER_BY", q.orderBy, q.orderByExprs, ",")
                     \o Given1("LIMIT", IF q.limit > 0 THEN <<"n">> ELSE <<>>, <<>>, ",")
                     \o Given1("OFFSET", IF q.offset > 0 THEN <<"n">> ELSE <<>>, <<>>, ",")
  BY Zenon DEF Clauses, First, JoinClauses, Given1
<1>2. PICK first, joins, from, where, group, having, order, limit, offset :
          /\ first = First(q) /\ joins = JoinClauses(q)
          /\ from = Given1("FROM", q.table, <<>>, ",")
          /\ where = Given1("WHERE", <<>>, q.conditions, "AND")
          /\ group = Given1("GROUP_BY", q.groupBy, q.groupByExprs, ",")
          /\ having = Given1("HAVING", <<>>, q.having, "AND")
          /\ order = Given1("ORDER_BY", q.orderBy, q.orderByExprs, ",")
          /\ limit = Given1("LIMIT", IF q.limit > 0 THEN <<"n">> ELSE <<>>, <<>>, ",")
          /\ offset = Given1("OFFSET", IF q.offset > 0 THEN <<"n">> ELSE <<>>, <<>>, ",")
  OBVIOUS
<1>3. Clauses(q) = first \o from \o joins \o where \o group \o having \o order \o limit \o offset
  BY Zenon, <1>1, <1>2
<1>4. NineParts(q, first, from, joins, where, group, having, order, limit, offset)
  BY Zenon, <1>2, <1>3 DEF NineParts
<1> QED
  BY ONLY <1>4

LEMMA GivenType ==
    ASSUME NEW T, NEW word \in SelectWords, NEW plain \in Seq(Words), NEW nodes \in Seq(T),
           NEW sep \in Separators
    PROVE  Given1(word, plain, nodes, sep) \in Seq(ClausesOver(T))
BY ClauseType DEF Given1

LEMMA FirstType ==
    ASSUME NEW T, NEW C, NEW q \in BuildersOver(T, C)
    PROVE  First(q) \in Seq(ClausesOver(T))
<1>1. "," \in Separators /\ {"SELECT", "SELECT_DISTINCT"} \subseteq SelectWords /\ "*" \in Words
  <2>1. "*" \in Keywords
    BY Zenon DEF Keywords
  <2> QED
    BY <2>1, WordsAssumption DEF SelectWords, Separators
<1>2. PICK word \in SelectWords : word = IF q.distinct THEN "SELECT_DISTINCT" ELSE "SELECT"
  BY <1>1
<1>3. PICK plain \in Seq(Words) : plain = IF q.columns = <<>> /\ q.exprs = <<>> THEN <<"*">> ELSE q.columns
  <2>1. \A w \in Words : <<w>> \in Seq(Words)
    OBVIOUS
  <2>2. <<"*">> \in Seq(Words) /\ q.columns \in Seq(Words)
    BY <1>1, <2>1, BuilderParts
  <2> QED
    BY Zenon, <2>2
<1>4. PICK nodes \in Seq(T) : nodes = q.exprs
  BY BuilderParts
<1>5. Clause(word, plain, nodes, ",") \in ClausesOver(T)
  BY <1>1, ClauseType
<1>6. First(q) = <<Clause(word, plain, nodes, ",")>>
  BY <1>2, <1>3, <1>4 DEF First
<1>7. \A c \in ClausesOver(T) : <<c>> \in Seq(ClausesOver(T))
  OBVIOUS
<1> QED
  BY <1>5, <1>6, <1>7

LEMMA JoinsType ==
    ASSUME NEW T, NEW C, NEW q \in BuildersOver(T, C)
    PROVE  /\ JoinClauses(q) \in Seq(ClausesOver(T)) /\ Len(JoinClauses(q)) \in Nat
           /\ \A i \in 1..Len(JoinClauses(q)) : JoinClauses(q)[i].word \in JoinWords
<1>1. q.joins \in Seq([type : JoinWords, table : Words, on : Seq(T)])
  BY BuilderParts
<1>2. /\ DOMAIN q.joins = 1..Len(q.joins) /\ Len(q.joins) \in Nat
      /\ \A i \in 1..Len(q.joins) : q.joins[i] \in [type : JoinWords, table : Words, on : Seq(T)]
  BY <1>1, LenProperties, ElementOfSeq
<1>3. ASSUME NEW i \in 1..Len(q.joins)
      PROVE  /\ Clause(q.joins[i].type, <<q.joins[i].table>>, q.joins[i].on, ",") \in ClausesOver(T)
             /\ q.joins[i].type \in JoinWords
  <2>1. /\ q.joins[i].type \in SelectWords /\ <<q.joins[i].table>> \in Seq(Words) /\ q.joins[i].on \in Seq(T)
        /\ "," \in Separators /\ q.joins[i].type \in JoinWords
    BY <1>2 DEF SelectWords, Separators
  <2> QED
    BY <2>1, ClauseType
<1>4. PICK joins : joins = JoinClauses(q)
  OBVIOUS
<1>5. joins \in [1..Len(q.joins) -> ClausesOver(T)]
      /\ \A i \in 1..Len(q.joins) :
            joins[i] = Clause(q.joins[i].type, <<q.joins[i].table>>, q.joins[i].on, ",")
  BY <1>2, <1>3, <1>4 DEF JoinClauses
<1>6. joins \in Seq(ClausesOver(T)) /\ Len(joins) = Len(q.joins)
  BY <1>2, <1>5, AsSeq
<1>7. ASSUME NEW i \in 1..Len(joins)
      PROVE  joins[i].word \in JoinWords
  <2>1. i \in 1..Len(q.joins)
    BY <1>6
  <2>2. PICK type, plain, nodes : type \in JoinWords /\ joins[i] = Clause(type, plain, nodes, ",")
    <3>1. q.joins[i].type \in JoinWords
      BY <1>3, <2>1
    <3>2. joins[i] = Clause(q.joins[i].type, <<q.joins[i].table>>, q.joins[i].on, ",")
      BY <1>5, <2>1
    <3> QED
      BY Zenon, <3>1, <3>2
  <2>3. PICK c : c = joins[i]
    OBVIOUS
  <2>4. c = [word |-> type, plain |-> plain, nodes |-> nodes, sep |-> ","]
    BY Zenon, <2>2, <2>3 DEF Clause
  <2>5. c.word = type
    BY ONLY <2>4
  <2> QED
    BY Zenon, <2>2, <2>3, <2>5
<1> QED
  BY <1>2, <1>4, <1>6, <1>7

LEMMA ClausesType ==
    ASSUME NEW T, NEW C, NEW q \in BuildersOver(T, C)
    PROVE  Clauses(q) \in Seq(ClausesOver(T))
<1> DEFINE K == Seq(ClausesOver(T))
<1>1. "n" \in Words /\ "," \in Separators /\ "AND" \in Separators
      /\ {"FROM", "WHERE", "GROUP_BY", "HAVING", "ORDER_BY", "LIMIT", "OFFSET"} \subseteq SelectWords
  <2>1. "n" \in Keywords
    BY Zenon DEF Keywords
  <2> QED
    BY <2>1, WordsAssumption DEF SelectWords, Separators
<1>2. PICK first, from, joins, where, group, having, order, limit, offset :
          NineParts(q, first, from, joins, where, group, having, order, limit, offset)
  BY ClausesAreNine
<1>3. <<"n">> \in Seq(Words) /\ <<>> \in Seq(Words) /\ <<>> \in Seq(T)
  <2>1. \A w \in Words : <<w>> \in Seq(Words)
    OBVIOUS
  <2>2. <<>> \in Seq(Words) /\ <<>> \in Seq(T)
    OBVIOUS
  <2> QED
    BY <1>1, <2>1, <2>2
<1>4. first \in K /\ joins \in K
  BY <1>2, FirstType, JoinsType DEF NineParts
<1>5. from \in K /\ where \in K /\ group \in K /\ having \in K /\ order \in K
  BY <1>1, <1>2, <1>3, GivenType, BuilderParts DEF NineParts
<1>6. limit \in K /\ offset \in K
  BY <1>1, <1>2, <1>3, GivenType DEF NineParts
<1>7. first \o from \o joins \o where \o group \o having \o order \o limit \o offset \in K
  BY <1>4, <1>5, <1>6, NineTogether
<1>8. Clauses(q) = first \o from \o joins \o where \o group \o having \o order \o limit \o offset
  BY <1>2, Zenon DEF NineParts
<1> QED
  BY Zenon, <1>7, <1>8

\* What SelectBuild gathers, clause by clause.
Fragments == [text : Seq(Token), args : Seq(BoundValues), next : Nat]

ClauseAfter(r, c, acc) == ClauseSQL(c, Chain(r, c.nodes, acc.next))

Written(F, r, clauses_) ==
    /\ F[0] = Fragment(<<>>, <<>>, 1)
    /\ \A i \in 1..Len(clauses_) :
          F[i] = Fragment(F[i - 1].text \o ClauseAfter(r, clauses_[i], F[i - 1]).text,
                          F[i - 1].args \o ClauseAfter(r, clauses_[i], F[i - 1]).args,
                          ClauseAfter(r, clauses_[i], F[i - 1]).next)

LEMMA ClauseAfterRight ==
    ASSUME NEW d \in Dialects, NEW T, NEW r, RendersRight(d, r, T),
           NEW c \in ClausesOver(T), NEW acc \in Fragments
    PROVE  Right(d, ClauseAfter(r, c, acc), acc.next)
<1>1. c.nodes \in Seq(T) /\ acc.next \in Nat
  BY DEF ClausesOver, Fragments
<1>2. ChainRight(d, Chain(r, c.nodes, acc.next), c.nodes, acc.next)
  BY <1>1, ChainNumbers
<1> QED
  BY <1>1, <1>2, ClauseNumbers DEF ClauseAfter

LEMMA SelectLinks ==
    ASSUME NEW d \in Dialects, NEW T, NEW C, NEW q \in BuildersOver(T, C), NEW r,
           RendersRight(d, r, T)
    PROVE  \E F \in [0..Len(Clauses(q)) -> Fragments] :
              /\ Written(F, r, Clauses(q))
              /\ SelectBuild(r, q) =
                    IF q.err \/ HasInvalid(Looked(q)) THEN Refused
                    ELSE [err |-> FALSE, text |-> F[Len(Clauses(q))].text,
                          args |-> F[Len(Clauses(q))].args]
<1> DEFINE clauses_ == Clauses(q)
           n == Len(clauses_)
           base == Fragment(<<>>, <<>>, 1)
           next(i, acc) == Fragment(acc.text \o ClauseAfter(r, clauses_[i], acc).text,
                                    acc.args \o ClauseAfter(r, clauses_[i], acc).args,
                                    ClauseAfter(r, clauses_[i], acc).next)
           step == [i \in 1..n |-> [acc \in Fragments |-> next(i, acc)]]
           Is(f) == f = [i \in 0..n |->
                            IF i = 0 THEN Fragment(<<>>, <<>>, 1)
                            ELSE LET acc == f[i - 1]
                                     f_1 == ClauseSQL(clauses_[i], Chain(r, clauses_[i].nodes, acc.next))
                                 IN Fragment(acc.text \o f_1.text, acc.args \o f_1.args, f_1.next)]
           F == CHOOSE f : Is(f)
<1>1. n \in Nat /\ \A i \in 1..n : clauses_[i] \in ClausesOver(T)
  <2>1. clauses_ \in Seq(ClausesOver(T))
    BY ClausesType
  <2> HIDE DEF clauses_
  <2> QED
    BY <2>1
<1>2. base \in Fragments
  BY DEF Fragments, Fragment
<1>3. \A i \in 1..n, acc \in Fragments : next(i, acc) \in Fragments
  <2> HIDE DEF clauses_, n
  <2> TAKE i \in 1..n, acc \in Fragments
  <2>1. acc.text \in Seq(Token) /\ acc.args \in Seq(BoundValues) /\ acc.next \in Nat
    BY DEF Fragments
  <2>2. PICK g : g = ClauseAfter(r, clauses_[i], acc)
    OBVIOUS
  <2>3. Right(d, g, acc.next)
    BY <1>1, <2>2, ClauseAfterRight
  <2>4. g.text \in Seq(Token) /\ g.args \in Seq(BoundValues) /\ g.next \in Nat
    BY <2>1, <2>3, RightNext
  <2>5. acc.text \o g.text \in Seq(Token) /\ acc.args \o g.args \in Seq(BoundValues)
    BY <2>1, <2>4, ConcatProperties
  <2>6. next(i, acc) = [text |-> acc.text \o g.text, args |-> acc.args \o g.args, next |-> g.next]
    BY <2>2 DEF Fragment
  <2> HIDE DEF next
  <2> QED
    BY <2>4, <2>5, <2>6 DEF Fragments
<1>4. step \in [1..n -> [Fragments -> Fragments]]
  <2> HIDE DEF n, next
  <2> QED
    BY <1>3
<1>5. PICK f \in [0..n -> Fragments] : Ascends(f, n, base, step)
  <2> HIDE DEF step, n, base
  <2> QED
    BY <1>1, <1>2, <1>4, Recursion
<1>6. f[0] = base /\ \A i \in 1..n : i - 1 \in 0..n /\ f[i] = next(i, f[i - 1])
  <2> HIDE DEF n, next, base
  <2>1. \A i \in 1..n : i - 1 \in 0..n /\ f[i - 1] \in Fragments
    BY <1>1
  <2> QED
    BY <1>5, <2>1 DEF Ascends
<1>7. Is(f)
  <2> HIDE DEF n, clauses_
  <2>1. \A i \in 0..n : i = 0 \/ i \in 1..n
    BY <1>1
  <2>2. f = [i \in 0..n |-> IF i = 0 THEN base ELSE next(i, f[i - 1])]
    <3> HIDE DEF next, base
    <3> QED
      BY <1>6, <2>1, Zenon
  <2> QED
    BY <2>2, Zenon DEF ClauseAfter
<1>8. Is(F)
  <2> HIDE DEF Is
  <2> QED
    BY <1>7, Zenon
<1>9. SelectBuild(r, q) = IF q.err \/ HasInvalid(Looked(q)) THEN Refused
                          ELSE [err |-> FALSE, text |-> F[n].text, args |-> F[n].args]
  BY Zenon DEF SelectBuild
<1> HIDE DEF F
<1>10. F[0] = base /\ F = [i \in 0..n |-> F[i]] /\ \A i \in 1..n : F[i] = next(i, F[i - 1])
  <2>2. F = [i \in 0..n |-> IF i = 0 THEN base ELSE next(i, F[i - 1])]
    BY <1>8, Zenon DEF ClauseAfter
  <2> HIDE DEF n, clauses_, next, base, step, Is
  <2>1. 0 \in 0..n /\ \A i \in 1..n : i \in 0..n /\ i # 0
    BY <1>1
  <2> QED
    BY <2>1, <2>2, Zenon
<1> DEFINE P == {i \in 0..n : F[i] = f[i]}
<1> HIDE DEF n, clauses_
<1>11. 0 \in P
  BY <1>1, <1>6, <1>10
<1>12. ASSUME NEW i \in 0..(n - 1), i \in P PROVE i + 1 \in P
  <2>1. i + 1 \in 1..n /\ (i + 1) - 1 = i /\ i + 1 \in 0..n
    BY <1>1
  <2>2. F[i] = f[i]
    BY <1>12
  <2> HIDE DEF next
  <2> QED
    BY <1>6, <1>10, <2>1, <2>2
<1>13. \A i \in 0..n : i \in P
  <2> HIDE DEF P
  <2> QED
    BY <1>1, <1>11, <1>12, Upwards
<1>14. F = f
  BY <1>10, <1>13
<1>15. Written(f, r, clauses_)
  BY <1>6 DEF Written, n
<1> QED
  BY <1>9, <1>14, <1>15 DEF n, clauses_

\* An answer: refused, or a text with its arguments.
Sound(d, ans) ==
    /\ ans \in [err : BOOLEAN, text : Seq(Token), args : Seq(BoundValues)]
    /\ ~ans.err => Numbers(d, ans.text, ans.args, 1)

LEMMA RefusedSound ==
    \A d : Sound(d, Refused)
BY DEF Sound, Refused

LEMMA AnswerSound ==
    ASSUME NEW d, NEW text, NEW args, Numbers(d, text, args, 1)
    PROVE  Sound(d, [err |-> FALSE, text |-> text, args |-> args])
BY DEF Sound, Numbers

LEMMA SelectNumbers ==
    ASSUME NEW d \in Dialects, NEW T, NEW C, NEW q \in BuildersOver(T, C), NEW r,
           RendersRight(d, r, T)
    PROVE  Sound(d, SelectBuild(r, q))
<1> DEFINE clauses_ == Clauses(q)
           n == Len(clauses_)
<1>1. PICK F \in [0..n -> Fragments] :
        /\ Written(F, r, clauses_)
        /\ SelectBuild(r, q) = IF q.err \/ HasInvalid(Looked(q)) THEN Refused
                               ELSE [err |-> FALSE, text |-> F[n].text, args |-> F[n].args]
  BY SelectLinks
<1>2. n \in Nat /\ \A i \in 1..n : clauses_[i] \in ClausesOver(T)
  <2>1. clauses_ \in Seq(ClausesOver(T))
    BY ClausesType
  <2> HIDE DEF clauses_
  <2> QED
    BY <2>1
<1> HIDE DEF n, clauses_
<1> DEFINE P == {i \in 0..n : Right(d, F[i], 1)}
<1>3. 0 \in P
  <2>1. F[0] = Fragment(<<>>, <<>>, 1)
    BY <1>1 DEF Written
  <2> QED
    BY <1>2, <2>1, UnmarkedConcat, RightWords
<1>4. ASSUME NEW i \in 0..(n - 1), i \in P PROVE i + 1 \in P
  <2>1. i + 1 \in 1..n /\ (i + 1) - 1 = i /\ i \in 0..n /\ i + 1 \in 0..n
    BY <1>2
  <2>2. PICK acc \in Fragments : acc = F[i]
    BY <1>1, <2>1
  <2>3. Numbers(d, acc.text, acc.args, 1) /\ acc.next = 1 + Len(acc.args)
    BY <1>4, <2>2 DEF Right
  <2>4. PICK g : g = ClauseAfter(r, clauses_[i + 1], acc)
    OBVIOUS
  <2>5. Right(d, g, acc.next)
    BY <1>2, <2>1, <2>4, ClauseAfterRight
  <2>6. F[i + 1] = Fragment(acc.text \o g.text, acc.args \o g.args, g.next)
    BY <1>1, <2>1, <2>2, <2>4 DEF Written, n
  <2>7. PICK u, t, a, c : u = acc.text /\ t = g.text /\ a = acc.args /\ c = g.args
    OBVIOUS
  <2>8. /\ Numbers(d, u, a, 1) /\ Numbers(d, t, c, 1 + Len(a))
        /\ g.next = (1 + Len(a)) + Len(c)
    <3>1. Numbers(d, t, c, acc.next) /\ g.next = acc.next + Len(c)
      BY <2>5, <2>7 DEF Right
    <3> QED
      BY <2>3, <2>7, <3>1
  <2>9. Numbers(d, u \o t, a \o c, 1) /\ Len(a \o c) = Len(a) + Len(c)
    BY <2>8, NumbersConcat
  <2>10. Len(a) \in Nat /\ Len(c) \in Nat
    BY <2>8, LenProperties DEF Numbers
  <2>11. g.next = 1 + Len(a \o c)
    BY <2>8, <2>9, <2>10
  <2>12. Right(d, Fragment(u \o t, a \o c, g.next), 1)
    BY <2>9, <2>11, RightParts
  <2> QED
    BY <2>1, <2>6, <2>7, <2>12
<1>5. Right(d, F[n], 1)
  <2>1. \A i \in 0..n : i \in P
    <3> HIDE DEF P
    <3> QED
      BY <1>2, <1>3, <1>4, Upwards
  <2>2. n \in 0..n
    BY <1>2
  <2> QED
    BY <2>1, <2>2
<1>6. Sound(d, [err |-> FALSE, text |-> F[n].text, args |-> F[n].args])
  BY <1>5, AnswerSound DEF Right
<1> QED
  BY <1>1, <1>6, RefusedSound

-----------------------------------------------------------------------------
(* Trees                                                                   *)

LEMMA SameNumbers ==
    ASSUME NEW d, NEW s, NEW t \in Seq(Token), NEW a, NEW p, Numbers(d, s, a, p), Marks(t) = Marks(s)
    PROVE  Numbers(d, t, a, p)
BY DEF Numbers

LEMMA BracketedMarks ==
    ASSUME NEW open \in Keywords, NEW close \in Keywords, NEW text \in Seq(Token)
    PROVE  Bracketed(open, text, close) \in Seq(Token) /\ Marks(Bracketed(open, text, close)) = Marks(text)
<1>1. <<Word(open)>> \in Unmarked /\ <<Word(close)>> \in Unmarked
  BY KeywordsUnmarked
<1>2. <<Word(open)>> \o text \in Seq(Token) /\ Marks(<<Word(open)>> \o text) = Marks(text)
  BY <1>1, MarksAround
<1>3. PICK s \in Seq(Token) : s = <<Word(open)>> \o text
  BY <1>2
<1>4. s \o <<Word(close)>> \in Seq(Token) /\ Marks(s \o <<Word(close)>>) = Marks(s)
  BY <1>1, MarksAround
<1> QED
  BY <1>2, <1>3, <1>4 DEF Bracketed

LEMMA BracketedNumbers ==
    ASSUME NEW d \in Dialects, NEW open \in Keywords, NEW close \in Keywords, NEW text, NEW args,
           NEW p \in Nat, Numbers(d, text, args, p)
    PROVE  Numbers(d, Bracketed(open, text, close), args, p)
<1>1. text \in Seq(Token)
  BY DEF Numbers
<1> QED
  BY <1>1, BracketedMarks, SameNumbers

LEMMA JoinedNumbers ==
    ASSUME NEW d \in Dialects, NEW parts \in Seq(Seq(Token)), NEW sep \in Keywords, NEW args,
           NEW p \in Nat, Numbers(d, FlattenSeq(parts), args, p)
    PROVE  Numbers(d, Joined(parts, sep), args, p)
BY JoinedMarks, SameNumbers

LEMMA BracketKeywords ==
    /\ {"[", "]", "(", ")", ",", "AND", "OR", "NOT", "AS", "OVER", "END", "1=1", "1=0", "CASE",
        "WHEN", "THEN", "ELSE"} \subseteq Keywords
    /\ Keywords \subseteq Words
BY WordsAssumption DEF Keywords

LEMMA SubqueryRight ==
    ASSUME NEW d \in Dialects, NEW n, n.name \in Words, NEW p \in Nat, NEW inner, Sound(d, inner)
    PROVE  Right(d, SubquerySQL(d, n, p, inner), p)
<1>1. CASE inner.err
  <2>1. <<Word("1=0")>> \in Unmarked
    BY BracketKeywords, KeywordsUnmarked
  <2>2. SubquerySQL(d, n, p, inner) = Fragment(<<Word("1=0")>>, <<>>, p)
    BY <1>1 DEF SubquerySQL
  <2> QED
    BY <2>1, <2>2, RightWords
<1>2. CASE ~inner.err
  <2>1. PICK text, args : text = inner.text /\ args = inner.args
    OBVIOUS
  <2>2. Numbers(d, text, args, 1)
    BY <1>2, <2>1 DEF Sound
  <2>3. PICK new : new = renumberParameters(d, text, Len(args), p)
    OBVIOUS
  <2>4. Numbers(d, new, args, p)
    BY <2>2, <2>3, Renumbers
  <2>5. Numbers(d, Bracketed("[", new, "]"), args, p)
    BY <2>4, BracketKeywords, BracketedNumbers
  <2>6. Numbers(d, <<Pred(n.name)>> \o Bracketed("[", new, "]"), args, p)
    BY <2>5, PredsUnmarked, NumbersAround
  <2>7. SubquerySQL(d, n, p, inner)
          = Fragment(<<Pred(n.name)>> \o Bracketed("[", new, "]"), args, p + Len(args))
    BY <1>2, <2>1, <2>3 DEF SubquerySQL
  <2> QED
    BY <2>6, <2>7, RightParts
<1> QED
  BY <1>1, <1>2

LEMMA CaseWords ==
    ASSUME NEW n, NEW i
    PROVE  CaseWord(n, i) \in Keywords
BY BracketKeywords DEF CaseWord

LEMMA OnePart ==
    ASSUME NEW parts \in Seq(Seq(Token)), Len(parts) = 1
    PROVE  parts[1] \in Seq(Token) /\ FlattenSeq(parts) = parts[1]
<1>1. PICK x \in Seq(Token) : x = parts[1]
  OBVIOUS
<1>2. parts = <<x>>
  BY <1>1
<1> QED
  BY <1>1, <1>2, FlattenOne

LEMMA FirstAndOthers ==
    ASSUME NEW parts \in Seq(Seq(Token)), Len(parts) # 0
    PROVE  /\ parts[1] \in Seq(Token) /\ Tail(parts) \in Seq(Seq(Token))
           /\ FlattenSeq(parts) = parts[1] \o FlattenSeq(Tail(parts))
<1>1. PICK x \in Seq(Token) : x = parts[1]
  OBVIOUS
<1>2. PICK rest \in Seq(Seq(Token)) : rest = Tail(parts)
  <2>1. parts # <<>>
    OBVIOUS
  <2> QED
    BY <2>1, HeadTailProperties
<1>3. parts = <<x>> \o rest
  BY <1>1, <1>2
<1>4. <<x>> \in Seq(Seq(Token))
  OBVIOUS
<1>5. FlattenSeq(<<x>> \o rest) = FlattenSeq(<<x>>) \o FlattenSeq(rest)
  BY <1>4, FlattenConcat
<1>6. FlattenSeq(<<x>>) = x
  BY FlattenOne
<1> QED
  BY <1>1, <1>2, <1>3, <1>5, <1>6

\* What a node writes around its parts leaves their placeholders alone.
LEMMA ComposedNumbers ==
    ASSUME NEW d \in Dialects, NEW n, n.name \in Words, NEW parts \in Seq(Seq(Token)), NEW args,
           NEW p \in Nat, Numbers(d, FlattenSeq(parts), args, p),
           n.k \in {"and", "or", "not", "call", "as", "over", "case"},
           n.k \in {"not", "as"} => Len(parts) = 1,
           n.k = "over" => Len(parts) # 0
    PROVE  Numbers(d, Composed(n, parts), args, p)
<1>1. CASE n.k \in {"and", "or"} /\ parts = <<>>
  <2>1. Numbers(d, <<>>, args, p)
    BY <1>1, FlattenEmpty
  <2>2. <<Word("1=1")>> \in Unmarked
    BY BracketKeywords, KeywordsUnmarked
  <2>3. Numbers(d, <<Word("1=1")>> \o <<>>, args, p)
    BY <2>1, <2>2, NumbersAround
  <2>4. <<Word("1=1")>> \o <<>> = <<Word("1=1")>>
    BY <2>2, ConcatEmptySeq DEF Unmarked
  <2>5. Composed(n, parts) = <<Word("1=1")>>
    <3>1. PICK x : x = <<Word("1=1")>>
      OBVIOUS
    <3>2. Composed(n, parts) = CASE parts = <<>> -> x
                                 [] Len(parts) = 1 -> parts[1]
                                 [] OTHER -> Bracketed("(", Joined(parts, IF n.k = "and" THEN "AND" ELSE "OR"), ")")
      BY <1>1, <3>1 DEF Composed
    <3>3. Len(parts) # 1
      BY <1>1
    <3> QED
      BY <1>1, <3>1, <3>2, <3>3
  <2> QED
    BY <2>3, <2>4, <2>5
<1>2. CASE n.k \in {"and", "or"} /\ parts # <<>> /\ Len(parts) = 1
  <2>1. Composed(n, parts) = parts[1]
    BY <1>2 DEF Composed
  <2> QED
    BY <1>2, <2>1, OnePart
<1>3. CASE n.k \in {"and", "or"} /\ parts # <<>> /\ Len(parts) # 1
  <2>1. PICK sep \in Keywords : sep = IF n.k = "and" THEN "AND" ELSE "OR"
    BY BracketKeywords
  <2>2. Composed(n, parts) = Bracketed("(", Joined(parts, sep), ")")
    BY <1>3, <2>1 DEF Composed
  <2>3. Numbers(d, Joined(parts, sep), args, p)
    BY JoinedNumbers
  <2> QED
    BY <2>2, <2>3, BracketKeywords, BracketedNumbers
<1>4. CASE n.k = "not"
  <2>1. Numbers(d, parts[1], args, p)
    BY <1>4, OnePart
  <2>2. Numbers(d, Bracketed("(", parts[1], ")"), args, p)
    BY <2>1, BracketKeywords, BracketedNumbers
  <2>3. Composed(n, parts) = <<Word("NOT")>> \o Bracketed("(", parts[1], ")")
    BY <1>4 DEF Composed
  <2>4. <<Word("NOT")>> \in Unmarked
    BY BracketKeywords, KeywordsUnmarked
  <2> QED
    BY <2>2, <2>3, <2>4, NumbersAround
<1>5. CASE n.k = "call"
  <2>1. Numbers(d, Joined(parts, ","), args, p)
    BY BracketKeywords, JoinedNumbers
  <2>2. Numbers(d, Bracketed("[", Joined(parts, ","), "]"), args, p)
    BY <2>1, BracketKeywords, BracketedNumbers
  <2>3. Composed(n, parts) = <<Name(n.name)>> \o Bracketed("[", Joined(parts, ","), "]")
    BY <1>5 DEF Composed
  <2> QED
    BY <2>2, <2>3, NamesUnmarked, NumbersAround
<1>6. CASE n.k = "as"
  <2>1. Numbers(d, parts[1], args, p)
    BY <1>6, OnePart
  <2>2. <<Word("AS")>> \in Unmarked /\ <<Name(n.name)>> \in Unmarked
    BY BracketKeywords, KeywordsUnmarked, NamesUnmarked
  <2>3. <<Word("AS"), Name(n.name)>> \in Unmarked
    <3>1. PICK x \in Token, y \in Token : x = Word("AS") /\ y = Name(n.name)
      BY BracketKeywords, KeywordsUnmarked, NamesUnmarked
    <3>2. x.t # "?" /\ y.t # "?"
      BY <3>1, BracketKeywords, WordsAssumption DEF Word, Name
    <3>3. <<x, y>> \in Unmarked
      BY <3>2 DEF Unmarked
    <3> QED
      BY <3>1, <3>3
  <2>5. Composed(n, parts) = parts[1] \o <<Word("AS"), Name(n.name)>>
    BY <1>6 DEF Composed
  <2> QED
    BY <2>1, <2>3, <2>5, NumbersAround
<1>7. CASE n.k = "over"
  <2>1. PICK x \in Seq(Token), rest \in Seq(Seq(Token)) :
            x = parts[1] /\ rest = Tail(parts) /\ FlattenSeq(parts) = x \o FlattenSeq(rest)
    BY <1>7, FirstAndOthers
  <2>2. PICK text \in Seq(Token) : text = Joined(rest, ",") /\ Marks(text) = Marks(FlattenSeq(rest))
    BY BracketKeywords, JoinedMarks
  <2>3. PICK tail \in Seq(Token) : tail = Bracketed("[", text, "]") /\ Marks(tail) = Marks(text)
    <3>1. "[" \in Keywords /\ "]" \in Keywords
      BY BracketKeywords
    <3> QED
      BY <3>1, BracketedMarks
  <2>4. <<Word("OVER")>> \in Unmarked
    BY BracketKeywords, KeywordsUnmarked
  <2>5. PICK y \in Seq(Token) : y = x \o <<Word("OVER")>> /\ Marks(y) = Marks(x)
    BY <2>4, MarksAround
  <2>6. y \o tail \in Seq(Token) /\ Marks(y \o tail) = Marks(y) \o Marks(tail)
    BY MarksConcat, ConcatProperties
  <2>7. FlattenSeq(rest) \in Seq(Token)
    BY FlattenType
  <2>8. Marks(x \o FlattenSeq(rest)) = Marks(x) \o Marks(FlattenSeq(rest))
    BY <2>7, MarksConcat
  <2>9. Marks(y \o tail) = Marks(FlattenSeq(parts))
    BY <2>1, <2>2, <2>3, <2>5, <2>6, <2>8
  <2>10. Composed(n, parts) = y \o tail
    BY <1>7, <2>1, <2>2, <2>3, <2>5 DEF Composed
  <2> QED
    BY <2>6, <2>9, <2>10, SameNumbers
<1>8. CASE n.k = "case"
  <2>1. PICK worded : worded = [i \in DOMAIN parts |-> <<Word(CaseWord(n, i))>> \o parts[i]]
    OBVIOUS
  <2>2. DOMAIN parts = 1..Len(parts) /\ Len(parts) \in Nat /\ \A i \in 1..Len(parts) : parts[i] \in Seq(Token)
    OBVIOUS
  <2>3. ASSUME NEW i \in 1..Len(parts)
        PROVE  /\ <<Word(CaseWord(n, i))>> \o parts[i] \in Seq(Token)
               /\ Marks(<<Word(CaseWord(n, i))>> \o parts[i]) = Marks(parts[i])
    <3>1. <<Word(CaseWord(n, i))>> \in Unmarked
      BY CaseWords, KeywordsUnmarked
    <3> QED
      BY <2>2, <3>1, MarksAround
  <2>4. worded \in [1..Len(parts) -> Seq(Token)]
    BY <2>1, <2>2, <2>3
  <2>5. worded \in Seq(Seq(Token)) /\ Len(worded) = Len(parts)
    BY <2>2, <2>4, AsSeq
  <2>6. \A i \in 1..Len(worded) : Marks(worded[i]) = Marks(parts[i])
    BY <2>1, <2>2, <2>3, <2>5
  <2>7. Marks(FlattenSeq(worded)) = Marks(FlattenSeq(parts)) /\ FlattenSeq(worded) \in Seq(Token)
    BY <2>5, <2>6, SameMarks, FlattenType
  <2>8. Numbers(d, FlattenSeq(worded), args, p)
    BY <2>7, SameNumbers
  <2>9. <<Word("END")>> \in Unmarked
    BY BracketKeywords, KeywordsUnmarked
  <2>10. Composed(n, parts) = FlattenSeq(worded) \o <<Word("END")>>
    BY <1>8, <2>1 DEF Composed
  <2> QED
    BY <2>8, <2>9, <2>10, NumbersAround
<1> QED
  BY <1>1, <1>2, <1>3, <1>4, <1>5, <1>6, <1>7, <1>8

LEMMA NodeParts ==
    ASSUME NEW T, NEW n \in NodesOver(T)
    PROVE  /\ n.k \in Kinds /\ n.name \in Words /\ n.vals \in Seq(BoundValues) /\ n.subs \in Seq(T)
           /\ n.query \in Seq(BuildersOver(T, {<<>>})) /\ n.text \in Seq(Token)
           /\ n.k = "raw" => Marks(n.text) = Numbered([numbered |-> FALSE], n.vals, 1)
           /\ n.k = "subquery" => Len(n.query) = 1
           /\ n.k \in {"not", "as"} => Len(n.subs) = 1
           /\ n.k = "over" => n.subs # <<>>
BY DEF NodesOver, Fits

\* A node takes up the numbers right if those below it do.
LEMMA NodeRight ==
    ASSUME NEW d \in Dialects, NEW T, NEW r, RendersRight(d, r, T), NEW n \in NodesOver(T),
           NEW p \in Nat
    PROVE  Right(d, NodeSQL(d, r, n, p), p)
<1>1. /\ n.k \in Kinds /\ n.name \in Words /\ n.vals \in Seq(BoundValues) /\ n.subs \in Seq(T)
      /\ n.query \in Seq(BuildersOver(T, {<<>>}))
  BY NodeParts
<1>2. CASE n.k = "invalid" \/ n.k = "column"
  <2>1. <<>> \in Unmarked /\ <<Name(n.name)>> \in Unmarked
    BY <1>1, NamesUnmarked, UnmarkedConcat
  <2>2. NodeSQL(d, r, n, p) \in {Fragment(<<>>, <<>>, p), Fragment(<<Name(n.name)>>, <<>>, p)}
    BY <1>2 DEF NodeSQL
  <2> QED
    BY <2>1, <2>2, RightWords
<1>3. CASE n.k = "pred" \/ n.k \in {"in", "not_in"}
  <2>1. PICK w \in Keywords : w = IF n.k = "in" THEN "1=0" ELSE "1=1"
    BY BracketKeywords
  <2>2. NodeSQL(d, r, n, p) \in {Values(d, <<Pred(n.name)>>, n.vals, p), Fragment(<<Word(w)>>, <<>>, p)}
    BY <1>3, <2>1 DEF NodeSQL
  <2>3. Right(d, Fragment(<<Word(w)>>, <<>>, p), p)
    BY KeywordsUnmarked, RightWords
  <2>4. Right(d, Values(d, <<Pred(n.name)>>, n.vals, p), p)
    BY <1>1, PredsUnmarked, ValuesRight
  <2> QED
    BY <2>2, <2>3, <2>4
<1>4. CASE n.k = "raw"
  <2>1. NodeSQL(d, r, n, p) = RawSQL(d, n, p)
    BY <1>4 DEF NodeSQL
  <2> QED
    BY <1>4, <2>1, NodeParts, RawRight
<1>5. CASE n.k = "subquery"
  <2>1. NodeSQL(d, r, n, p) = SubquerySQL(d, n, p, SelectBuild(r, n.query[1]))
    BY <1>5 DEF NodeSQL
  <2>2. n.query[1] \in BuildersOver(T, {<<>>})
    BY <1>1, <1>5, NodeParts
  <2>3. Sound(d, SelectBuild(r, n.query[1]))
    BY <2>2, SelectNumbers
  <2> QED
    BY <1>1, <2>1, <2>3, SubqueryRight
<1>6. CASE n.k \in {"and", "or", "not", "call", "as", "over", "case"}
  <2>1. PICK c : c = Chain(r, n.subs, p)
    OBVIOUS
  <2>2. ChainRight(d, c, n.subs, p)
    BY <1>1, <2>1, ChainNumbers
  <2>3. PICK parts \in Seq(Seq(Token)), args \in Seq(BoundValues) : parts = c.parts /\ args = c.args
    BY <2>2 DEF ChainRight
  <2>4. Numbers(d, FlattenSeq(parts), args, p) /\ c.next = p + Len(args) /\ Len(parts) = Len(n.subs)
    BY <2>2, <2>3 DEF ChainRight
  <2>5. (n.k \in {"not", "as"} => Len(parts) = 1) /\ (n.k = "over" => Len(parts) # 0)
    <3>1. n.k \in {"not", "as"} => Len(n.subs) = 1
      BY NodeParts
    <3>2. n.k = "over" => n.subs # <<>>
      BY NodeParts
    <3>3. n.subs # <<>> => Len(n.subs) # 0
      BY <1>1, EmptySeq
    <3> QED
      BY <2>4, <3>1, <3>2, <3>3
  <2>6. Numbers(d, Composed(n, parts), args, p)
    BY <1>1, <1>6, <2>4, <2>5, ComposedNumbers
  <2>7. NodeSQL(d, r, n, p) = Fragment(Composed(n, parts), args, p + Len(args))
    BY <1>6, <2>1, <2>3, <2>4 DEF NodeSQL
  <2> QED
    BY <2>6, <2>7, RightParts
<1> QED
  BY <1>1, <1>2, <1>3, <1>4, <1>5, <1>6 DEF Kinds

\* Trees, height by height.
TreesUpTo(m, f) == f = [h \in 0..m |-> IF h = 0 THEN {} ELSE NodesOver(f[h - 1])]

LEMMA TreesHeights ==
    /\ Trees[0] = {}
    /\ \A h \in 0..(MaxHeight - 1) : Trees[h + 1] = NodesOver(Trees[h])
<1>1. MaxHeight \in Nat
  BY WordsAssumption
<1> DEFINE P == {m \in 0..MaxHeight : \E f : TreesUpTo(m, f)}
<1>2. 0 \in P
  <2>1. PICK f : f = [h \in 0..0 |-> {}]
    OBVIOUS
  <2>2. TreesUpTo(0, f)
    <3>1. \A h \in 0..0 : h = 0
      OBVIOUS
    <3> QED
      BY <2>1, <3>1 DEF TreesUpTo
  <2> QED
    BY <1>1, <2>2
<1>3. ASSUME NEW m \in 0..(MaxHeight - 1), m \in P PROVE m + 1 \in P
  <2>1. PICK f : TreesUpTo(m, f)
    BY <1>3
  <2>2. m \in Nat /\ m + 1 \in 0..MaxHeight /\ \A h \in 0..(m + 1) : h \in 0..m \/ h = m + 1
    BY <1>1
  <2>3. PICK g : g = [h \in 0..(m + 1) |-> IF h = m + 1 THEN NodesOver(f[m]) ELSE f[h]]
    OBVIOUS
  <2>4. \A h \in 0..m : h \in 0..(m + 1) /\ h # m + 1 /\ g[h] = f[h]
    BY <2>2, <2>3
  <2>5. g[m + 1] = NodesOver(g[m])
    BY <2>2, <2>3, <2>4
  <2>6. \A h \in 0..(m + 1) : g[h] = IF h = 0 THEN {} ELSE NodesOver(g[h - 1])
    <3> TAKE h \in 0..(m + 1)
    <3>1. CASE h = m + 1
      <4>1. h # 0 /\ h - 1 = m
        BY <2>2, <3>1
      <4> QED
        BY <2>5, <3>1, <4>1
    <3>2. CASE h \in 0..m
      <4>1. f[h] = IF h = 0 THEN {} ELSE NodesOver(f[h - 1])
        BY <2>1, <3>2 DEF TreesUpTo
      <4>2. h # 0 => h - 1 \in 0..m
        BY <2>2, <3>2
      <4>3. h # 0 => g[h - 1] = f[h - 1]
        BY <2>4, <4>2
      <4> QED
        BY <2>4, <3>2, <4>1, <4>3
    <3> QED
      BY <2>2, <3>1, <3>2
  <2>7. TreesUpTo(m + 1, g)
    <3>1. g = [h \in 0..(m + 1) |-> g[h]]
      BY <2>3
    <3> QED
      BY <2>6, <3>1 DEF TreesUpTo
  <2> QED
    BY <2>2, <2>7
<1>4. \E f : TreesUpTo(MaxHeight, f)
  <2>1. \A m \in 0..MaxHeight : m \in P
    <3> HIDE DEF P
    <3> QED
      BY <1>1, <1>2, <1>3, Upwards
  <2> QED
    BY <1>1, <2>1
<1>5. TreesUpTo(MaxHeight, Trees)
  <2>1. Trees = CHOOSE f : TreesUpTo(MaxHeight, f)
    BY Zenon DEF Trees, TreesUpTo
  <2> QED
    BY <1>4, <2>1
<1>6. \A h \in 0..MaxHeight : Trees[h] = IF h = 0 THEN {} ELSE NodesOver(Trees[h - 1])
  BY <1>5 DEF TreesUpTo
<1>7. 0 \in 0..MaxHeight
      /\ \A h \in 0..(MaxHeight - 1) : h + 1 \in 0..MaxHeight /\ h + 1 # 0 /\ (h + 1) - 1 = h
  BY <1>1
<1> QED
  BY <1>6, <1>7

\* The renderings of the trees of each height.
RenderingUpTo(d, m, f) ==
    f = [h \in 0..m |->
            IF h = 0 THEN <<>>
            ELSE [at \in Trees[h] \X Nat |-> NodeSQL(d, f[h - 1], at[1], at[2])]]

LEMMA RenderingHeights ==
    ASSUME NEW d
    PROVE  \A h \in 0..(MaxHeight - 1) :
              Rendering(d)[h + 1] =
                  [at \in Trees[h + 1] \X Nat |-> NodeSQL(d, Rendering(d)[h], at[1], at[2])]
<1>1. MaxHeight \in Nat
  BY WordsAssumption
<1> DEFINE P == {m \in 0..MaxHeight : \E f : RenderingUpTo(d, m, f)}
           level(h, below) == [at \in Trees[h] \X Nat |-> NodeSQL(d, below, at[1], at[2])]
<1>2. 0 \in P
  <2>1. PICK f : f = [h \in 0..0 |-> <<>>]
    OBVIOUS
  <2>2. RenderingUpTo(d, 0, f)
    <3>1. \A h \in 0..0 : h = 0
      OBVIOUS
    <3> QED
      BY <2>1, <3>1 DEF RenderingUpTo
  <2> QED
    BY <1>1, <2>2
<1>3. ASSUME NEW m \in 0..(MaxHeight - 1), m \in P PROVE m + 1 \in P
  <2>1. PICK f : RenderingUpTo(d, m, f)
    BY <1>3
  <2>2. m \in Nat /\ m + 1 \in 0..MaxHeight /\ \A h \in 0..(m + 1) : h \in 0..m \/ h = m + 1
    BY <1>1
  <2>3. \A h \in 0..m : f[h] = IF h = 0 THEN <<>> ELSE level(h, f[h - 1])
    BY <2>1 DEF RenderingUpTo
  <2> HIDE DEF level
  <2>4. PICK g : g = [h \in 0..(m + 1) |-> IF h = m + 1 THEN level(m + 1, f[m]) ELSE f[h]]
    OBVIOUS
  <2>5. \A h \in 0..m : h \in 0..(m + 1) /\ h # m + 1 /\ g[h] = f[h]
    BY <2>2, <2>4
  <2>6. g[m + 1] = level(m + 1, g[m])
    BY <2>2, <2>4, <2>5
  <2>7. \A h \in 0..(m + 1) : g[h] = IF h = 0 THEN <<>> ELSE level(h, g[h - 1])
    <3> TAKE h \in 0..(m + 1)
    <3>1. CASE h = m + 1
      <4>1. h # 0 /\ h - 1 = m
        BY <2>2, <3>1
      <4> QED
        BY <2>6, <3>1, <4>1
    <3>2. CASE h \in 0..m
      <4>1. h # 0 => h - 1 \in 0..m
        BY <2>2, <3>2
      <4>2. h # 0 => g[h - 1] = f[h - 1]
        BY <2>5, <4>1
      <4> QED
        BY <2>3, <2>5, <3>2, <4>2
    <3> QED
      BY <2>2, <3>1, <3>2
  <2>8. g = [h \in 0..(m + 1) |-> IF h = 0 THEN <<>> ELSE level(h, g[h - 1])]
    BY <2>4, <2>7
  <2>9. RenderingUpTo(d, m + 1, g)
    BY Zenon, <2>8 DEF RenderingUpTo, level
  <2> QED
    BY <2>2, <2>9
<1>4. \E f : RenderingUpTo(d, MaxHeight, f)
  <2>1. \A m \in 0..MaxHeight : m \in P
    <3> HIDE DEF P
    <3> QED
      BY <1>1, <1>2, <1>3, Upwards
  <2> QED
    BY <1>1, <2>1
<1>5. RenderingUpTo(d, MaxHeight, Rendering(d))
  <2>1. Rendering(d) = CHOOSE f : RenderingUpTo(d, MaxHeight, f)
    BY Zenon DEF Rendering, RenderingUpTo
  <2> QED
    BY <1>4, <2>1
<1>6. \A h \in 0..MaxHeight : Rendering(d)[h] = IF h = 0 THEN <<>> ELSE level(h, Rendering(d)[h - 1])
  BY <1>5 DEF RenderingUpTo
<1>7. \A h \in 0..(MaxHeight - 1) : h + 1 \in 0..MaxHeight /\ h + 1 # 0 /\ (h + 1) - 1 = h
  BY <1>1
<1>8. \A h \in 0..(MaxHeight - 1) : Rendering(d)[h + 1] = level(h + 1, Rendering(d)[h])
  <2> HIDE DEF level
  <2> QED
    BY <1>6, <1>7
<1> QED
  BY <1>8

\* Every condition and expression, of any shape and height, numbers its
\* placeholders from the one it is told in the order of its arguments, and
\* says which comes next (the ToSQL of query/condition.go, expression.go,
\* case.go, window.go and subquery.go).
THEOREM TreesRight ==
    ASSUME NEW d \in Dialects
    PROVE  \A h \in 0..MaxHeight : RendersRight(d, Rendering(d)[h], Trees[h])
<1>1. MaxHeight \in Nat
  BY WordsAssumption
<1> DEFINE P == {h \in 0..MaxHeight : RendersRight(d, Rendering(d)[h], Trees[h])}
<1>2. 0 \in P
  BY <1>1, TreesHeights DEF RendersRight
<1>3. ASSUME NEW h \in 0..(MaxHeight - 1), h \in P PROVE h + 1 \in P
  <2>1. PICK r, T : r = Rendering(d)[h] /\ T = Trees[h]
    OBVIOUS
  <2>2. RendersRight(d, r, T)
    BY <1>3, <2>1
  <2>3. Trees[h + 1] = NodesOver(T)
    BY <2>1, TreesHeights
  <2>4. PICK s : s = [at \in NodesOver(T) \X Nat |-> NodeSQL(d, r, at[1], at[2])]
    OBVIOUS
  <2>5. Rendering(d)[h + 1] = s
    <3>1. Rendering(d)[h + 1]
            = [at \in Trees[h + 1] \X Nat |-> NodeSQL(d, Rendering(d)[h], at[1], at[2])]
      BY Zenon, RenderingHeights
    <3> QED
      BY Zenon, <2>1, <2>3, <2>4, <3>1
  <2>6. ASSUME NEW n \in NodesOver(T), NEW p \in Nat PROVE Right(d, s[<<n, p>>], p)
    <3>1. s[<<n, p>>] = NodeSQL(d, r, n, p)
      <4>1. <<n, p>> \in NodesOver(T) \X Nat /\ <<n, p>>[1] = n /\ <<n, p>>[2] = p
        OBVIOUS
      <4> QED
        BY <2>4, <4>1
    <3> QED
      BY <2>2, <3>1, NodeRight
  <2>7. h + 1 \in 0..MaxHeight
    BY <1>1
  <2>8. RendersRight(d, s, NodesOver(T))
    BY <2>6 DEF RendersRight
  <2> QED
    BY <2>3, <2>5, <2>7, <2>8
<1>4. \A h \in 0..MaxHeight : h \in P
  <2> HIDE DEF P
  <2> QED
    BY <1>1, <1>2, <1>3, Upwards
<1> QED
  BY <1>4

LEMMA SeqsOver ==
    ASSUME NEW A, NEW B, A \subseteq B
    PROVE  Seq(A) \subseteq Seq(B)
BY SeqMonotonic

\* Parts among more trees.
LEMMA BuildersGrow ==
    ASSUME NEW A, NEW B, A \subseteq B, NEW C, NEW D, C \subseteq D
    PROVE  BuildersOver(A, C) \subseteq BuildersOver(B, D)
<1>1. Seq(A) \subseteq Seq(B)
  BY SeqsOver
<1>2. [type : JoinWords, table : Words, on : Seq(A)] \subseteq [type : JoinWords, table : Words, on : Seq(B)]
  BY <1>1
<1>3. Seq([type : JoinWords, table : Words, on : Seq(A)]) \subseteq Seq([type : JoinWords, table : Words, on : Seq(B)])
  BY <1>2, SeqsOver
<1> QED
  BY <1>1, <1>3 DEF BuildersOver

LEMMA NodesGrow ==
    ASSUME NEW A, NEW B, A \subseteq B
    PROVE  NodesOver(A) \subseteq NodesOver(B)
<1>1. Seq(A) \subseteq Seq(B)
  BY SeqsOver
<1>2. BuildersOver(A, {<<>>}) \subseteq BuildersOver(B, {<<>>})
  BY BuildersGrow
<1>3. Seq(BuildersOver(A, {<<>>})) \subseteq Seq(BuildersOver(B, {<<>>}))
  BY <1>2, SeqsOver
<1> QED
  BY <1>1, <1>3 DEF NodesOver

LEMMA TreesGrow ==
    \A h \in 0..(MaxHeight - 1) : Trees[h] \subseteq Trees[h + 1]
<1>1. MaxHeight \in Nat
  BY WordsAssumption
<1> DEFINE P == {h \in 0..MaxHeight : h + 1 \in 0..MaxHeight => Trees[h] \subseteq Trees[h + 1]}
<1>2. 0 \in P
  BY <1>1, TreesHeights
<1>3. ASSUME NEW h \in 0..(MaxHeight - 1), h \in P PROVE h + 1 \in P
  <2>1. h + 1 \in 0..MaxHeight /\ ((h + 1) + 1 \in 0..MaxHeight => h + 1 \in 0..(MaxHeight - 1))
    BY <1>1
  <2>2. Trees[h] \subseteq Trees[h + 1]
    BY <1>3, <2>1
  <2>3. CASE (h + 1) + 1 \in 0..MaxHeight
    <3>1. Trees[h + 1] = NodesOver(Trees[h]) /\ Trees[(h + 1) + 1] = NodesOver(Trees[h + 1])
      BY <2>1, <2>3, TreesHeights
    <3>2. PICK A, B, C : A = Trees[h] /\ B = Trees[h + 1] /\ C = Trees[(h + 1) + 1]
      OBVIOUS
    <3>3. B = NodesOver(A) /\ C = NodesOver(B) /\ A \subseteq B
      BY <2>2, <3>1, <3>2
    <3>4. B \subseteq C
      BY <3>3, NodesGrow
    <3> QED
      BY <2>1, <3>2, <3>4
  <2> QED
    BY <2>1, <2>3
<1>4. \A h \in 0..MaxHeight : h \in P
  <2> HIDE DEF P
  <2> QED
    BY <1>1, <1>2, <1>3, Upwards
<1> QED
  BY <1>1, <1>4

-----------------------------------------------------------------------------
(* Lists of values                                                         *)

LEMMA BeforeNat ==
    ASSUME NEW lists \in Seq(Seq(BoundValues)), NEW k \in 1..Len(lists)
    PROVE  Before(lists, k) \in Nat
<1>1. SubSeq(lists, 1, k - 1) \in Seq(Seq(BoundValues))
  <2>1. \A i \in 1..(k - 1) : lists[i] \in Seq(BoundValues)
    OBVIOUS
  <2> QED
    BY <2>1, SubSeqProperties
<1>2. FlattenSeq(SubSeq(lists, 1, k - 1)) \in Seq(BoundValues)
  BY <1>1, FlattenType
<1> QED
  BY <1>2, LenProperties DEF Before

\* Elements one by one, flattened, are the sequence.
LEMMA FlattenSingles ==
    ASSUME NEW S, NEW s \in Seq(S), NEW t, t = [i \in DOMAIN s |-> <<s[i]>>]
    PROVE  t \in Seq(Seq(S)) /\ Len(t) = Len(s) /\ FlattenSeq(t) = s
<1>1. Len(s) \in Nat /\ DOMAIN s = 1..Len(s) /\ \A i \in 1..Len(s) : s[i] \in S
  OBVIOUS
<1>2. t \in [1..Len(s) -> Seq(S)] /\ \A i \in 1..Len(s) : t[i] = <<s[i]>>
  <2>1. \A x \in S : <<x>> \in Seq(S)
    OBVIOUS
  <2> QED
    BY <1>1, <2>1
<1>3. t \in Seq(Seq(S)) /\ Len(t) = Len(s)
  BY <1>1, <1>2, AsSeq
<1>4. PICK f \in [0..Len(t) -> Seq(S)] : Flattens(f, t)
  BY <1>3, FlattenPrefixes
<1>5. /\ f[0] = <<>> /\ FlattenSeq(t) = f[Len(s)]
      /\ \A k \in 1..Len(s) : f[k] = f[k - 1] \o t[k]
  BY <1>3, <1>4 DEF Flattens, Gathers
<1> DEFINE P == {k \in 0..Len(s) : Len(f[k]) = k /\ \A j \in 1..k : f[k][j] = s[j]}
<1>6. 0 \in P
  BY <1>1, <1>5
<1>7. ASSUME NEW k \in 0..(Len(s) - 1), k \in P PROVE k + 1 \in P
  <2>1. k + 1 \in 1..Len(s) /\ (k + 1) - 1 = k /\ k + 1 \in 0..Len(s) /\ k \in 0..Len(t) /\ k \in Nat
    BY <1>1, <1>3
  <2>2. PICK u \in Seq(S), x \in S : u = f[k] /\ x = s[k + 1]
    BY <1>1, <1>4, <2>1
  <2>3. f[k + 1] = u \o <<x>>
    BY <1>2, <1>5, <2>1, <2>2
  <2>4. Len(u) = k /\ \A j \in 1..k : u[j] = s[j]
    BY <1>7, <2>2
  <2>5. u \o <<x>> = Append(u, x)
    OBVIOUS
  <2>6. /\ Len(Append(u, x)) = k + 1 /\ Append(u, x)[k + 1] = x
        /\ \A j \in 1..k : Append(u, x)[j] = u[j]
    BY <2>4, AppendProperties
  <2>7. \A j \in 1..(k + 1) : j \in 1..k \/ j = k + 1
    BY <2>1
  <2> QED
    BY <2>1, <2>2, <2>3, <2>4, <2>5, <2>6, <2>7
<1>8. Len(s) \in P
  <2>1. \A k \in 0..Len(s) : k \in P
    <3> HIDE DEF P
    <3> QED
      BY <1>1, <1>6, <1>7, Upwards
  <2>2. Len(s) \in 0..Len(s)
    BY <1>1
  <2> HIDE DEF P
  <2> QED
    BY <2>1, <2>2
<1>9. PICK w \in Seq(S) : w = f[Len(s)]
  <2>1. Len(s) \in 0..Len(t)
    BY <1>1, <1>3
  <2> QED
    BY <1>4, <2>1
<1>10. w = s
  <2>1. Len(w) = Len(s) /\ \A j \in 1..Len(w) : w[j] = s[j]
    BY <1>8, <1>9
  <2> QED
    BY <2>1, SeqEqual
<1> QED
  BY <1>3, <1>5, <1>9, <1>10

\* Numbered from 1 in the order of the arguments, a text is bound to them.
LEMMA NumbersBound ==
    ASSUME NEW d \in Dialects, NEW text, NEW args, Numbers(d, text, args, 1)
    PROVE  BoundTo(d, text, args)
<1>1. args \in Seq(BoundValues) /\ Marks(text) = Numbered(d, args, 1) /\ 1 \in Nat
  BY DEF Numbers
<1>2. PICK marks \in Seq(Token) : /\ marks = Marks(text) /\ Len(marks) = Len(args)
                                  /\ \A i \in 1..Len(args) : marks[i] = Mark(d, 1 + i - 1, args[i])
  BY <1>1, NumberedMarks
<1>3. DOMAIN marks = 1..Len(args) /\ DOMAIN args = 1..Len(args) /\ Len(args) \in Nat
  BY <1>1, <1>2, LenProperties
<1>4. ASSUME NEW k \in 1..Len(args)
      PROVE  /\ (IF d.numbered THEN marks[k].n ELSE k) = k /\ args[k] = marks[k].v
  <2>1. 1 + k - 1 = k
    BY <1>3
  <2>2. marks[k] = Mark(d, k, args[k])
    BY <1>2, <2>1
  <2> QED
    BY <2>2 DEF Mark
<1> QED
  BY <1>2, <1>3, <1>4 DEF BoundTo

-----------------------------------------------------------------------------
(* The statements of the builder                                           *)

LEMMA TreesRise ==
    ASSUME NEW i \in 0..MaxHeight, NEW j \in i..MaxHeight
    PROVE  Trees[i] \subseteq Trees[j]
<1>1. MaxHeight \in Nat
  BY WordsAssumption
<1> DEFINE P == {k \in 0..(MaxHeight - i) : Trees[i] \subseteq Trees[i + k]}
<1>2. 0 \in P
  BY <1>1
<1>3. ASSUME NEW k \in 0..((MaxHeight - i) - 1), k \in P PROVE k + 1 \in P
  <2>1. i + k \in 0..(MaxHeight - 1) /\ i + (k + 1) = (i + k) + 1 /\ k + 1 \in 0..(MaxHeight - i)
    BY <1>1
  <2>2. Trees[i] \subseteq Trees[i + k] /\ Trees[i + k] \subseteq Trees[(i + k) + 1]
    BY <1>3, <2>1, TreesGrow
  <2> QED
    BY <2>1, <2>2
<1>4. MaxHeight - i \in Nat /\ j - i \in 0..(MaxHeight - i) /\ i + (j - i) = j
  BY <1>1
<1>5. \A k \in 0..(MaxHeight - i) : k \in P
  <2> HIDE DEF P
  <2> QED
    BY <1>2, <1>3, <1>4, Upwards
<1> QED
  BY <1>4, <1>5

LEMMA LeafTree ==
    ASSUME NEW T, NEW k \in {"invalid", "pred", "column", "in", "not_in"}, NEW name \in Words,
           NEW vals \in Seq(BoundValues)
    PROVE  Node(k, name, vals, <<>>) \in NodesOver(T)
<1>1. <<>> \in Seq(T) /\ <<>> \in Seq(BuildersOver(T, {<<>>})) /\ <<>> \in Seq(Token)
  BY EmptySeq
<1> HIDE DEF Token
<1> QED
  BY <1>1 DEF Node, NodesOver, Kinds, Fits

LEMMA InnerTree ==
    ASSUME NEW T, NEW k \in {"and", "or"}, NEW conds \in Seq(T)
    PROVE  Node(k, "none", <<>>, conds) \in NodesOver(T)
<1>1. <<>> \in Seq(BoundValues) /\ <<>> \in Seq(BuildersOver(T, {<<>>})) /\ <<>> \in Seq(Token)
  BY EmptySeq
<1>2. "none" \in Words
  BY WordsAssumption DEF Keywords
<1> HIDE DEF Token
<1> QED
  BY <1>1, <1>2 DEF Node, NodesOver, Kinds, Fits

LEMMA OrTree ==
    ASSUME NEW T, NEW x \in T, NEW y \in T
    PROVE  Or(<<x, y>>) \in NodesOver(T)
<1>1. <<x, y>> \in Seq(T)
  OBVIOUS
<1> QED
  BY <1>1, InnerTree DEF Or

\* Trees of the conditions a builder holds after n methods.
Height(n) == MaxHeight - MaxCalls - 1 + n

LEMMA Heights ==
    ASSUME NEW n \in 0..MaxCalls
    PROVE  /\ Height(n) \in 0..(MaxHeight - 1) /\ Given \subseteq Trees[Height(n)]
           /\ Trees[Height(n)] \subseteq Trees[MaxHeight] /\ Trees[Height(n) + 1] \subseteq Trees[MaxHeight]
           /\ Trees[Height(n) + 1] = NodesOver(Trees[Height(n)])
<1>1. MaxHeight \in Nat /\ MaxCalls \in Nat /\ MaxCalls < MaxHeight
  BY WordsAssumption, BuildersAssumption
<1>2. /\ Height(n) \in 0..(MaxHeight - 1) /\ Height(n) \in 0..MaxHeight
      /\ Height(n) + 1 \in 0..MaxHeight /\ Height(0) \in 0..MaxHeight
      /\ Height(n) \in Height(0)..MaxHeight /\ MaxHeight \in Height(n)..MaxHeight
      /\ MaxHeight \in (Height(n) + 1)..MaxHeight
  BY <1>1 DEF Height
<1>3. Given = Trees[Height(0)]
  <2>1. MaxHeight - MaxCalls - 1 = Height(0)
    BY <1>1 DEF Height
  <2> QED
    BY <2>1 DEF Given
<1> QED
  BY <1>2, <1>3, TreesRise, TreesHeights

\* Everything of a WHERE clause.
LEMMA WhereRight ==
    ASSUME dialect \in Dialects, NEW n \in 0..MaxCalls,
           b.conditions \in Seq(Trees[Height(n)]), NEW p \in Nat
    PROVE  Right(dialect, WhereSQL(p), p)
<1>1. CASE b.conditions = <<>>
  <2>1. WhereSQL(p) = Fragment(<<>>, <<>>, p)
    BY <1>1 DEF WhereSQL
  <2> QED
    BY <2>1, UnmarkedConcat, RightWords
<1>2. CASE b.conditions # <<>>
  <2>1. And(b.conditions) \in NodesOver(Trees[Height(n)])
    BY InnerTree DEF And
  <2>2. And(b.conditions) \in Trees[MaxHeight]
    BY <2>1, Heights
  <2>3. MaxHeight \in 0..MaxHeight
    BY WordsAssumption
  <2>4. RendersRight(dialect, Rendering(dialect)[MaxHeight], Trees[MaxHeight])
    BY <2>3, TreesRight
  <2>5. PICK where : where = ToSQL(dialect, And(b.conditions), p)
    OBVIOUS
  <2>6. Right(dialect, where, p)
    BY <2>2, <2>4, <2>5 DEF RendersRight, ToSQL
  <2>7. PICK w : w = WhereSQL(p) /\ w = [where EXCEPT !.text = <<Word("WHERE")>> \o @]
    BY <1>2, <2>5 DEF WhereSQL
  <2>8. <<Word("WHERE")>> \in Unmarked
    <3>1. "WHERE" \in Keywords
      BY DEF Keywords
    <3> QED
      BY <3>1, KeywordsUnmarked
  <2>9. Numbers(dialect, <<Word("WHERE")>> \o where.text, where.args, p) /\ where.next = p + Len(where.args)
    BY <2>6, <2>8, NumbersAround DEF Right
  <2>10. w.text = <<Word("WHERE")>> \o where.text /\ w.args = where.args /\ w.next = where.next
    BY <2>7
  <2> QED
    BY <2>7, <2>9, <2>10 DEF Right
<1> QED
  BY <1>1, <1>2

LEMMA ReturningUnmarked == ReturningSQL \in Unmarked
<1>1. <<Word("RETURNING")>> \in Unmarked
  <2>1. "RETURNING" \in Keywords
    BY DEF Keywords
  <2> QED
    BY <2>1, KeywordsUnmarked
<1> QED
  BY <1>1, UnmarkedConcat DEF ReturningSQL

LEMMA TwoKeywords ==
    ASSUME NEW u \in Keywords, NEW v \in Keywords
    PROVE  <<Word(u), Word(v)>> \in Unmarked
<1>1. PICK x \in Token, y \in Token : x = Word(u) /\ y = Word(v) /\ x.t = u /\ y.t = v
  BY KeywordsUnmarked DEF Word
<1>2. x.t # "?" /\ y.t # "?"
  BY <1>1, WordsAssumption
<1> QED
  BY <1>1, <1>2 DEF Unmarked

LEMMA Pair ==
    ASSUME NEW S, NEW x \in S, NEW y \in S
    PROVE  <<x>> \o <<y>> = <<x, y>> /\ <<x, y>> \in Seq(S) /\ <<y>> \in Seq(S)
<1>1. <<x>> \in Seq(S) /\ <<y>> \in Seq(S) /\ <<x, y>> \in Seq(S)
      /\ Len(<<x>>) = 1 /\ Len(<<y>>) = 1 /\ Len(<<x, y>>) = 2
  OBVIOUS
<1>2. PICK u \in Seq(S), v \in Seq(S), w \in Seq(S) : u = <<x>> /\ v = <<y>> /\ w = <<x, y>>
  BY <1>1
<1>3. /\ u \o v \in Seq(S) /\ Len(u \o v) = Len(u) + Len(v)
      /\ \A i \in 1..(Len(u) + Len(v)) : (u \o v)[i] = IF i <= Len(u) THEN u[i] ELSE v[i - Len(u)]
  BY ConcatProperties
<1>4. Len(u) = 1 /\ Len(v) = 1 /\ Len(w) = 2 /\ u[1] = x /\ v[1] = y /\ w[1] = x /\ w[2] = y
  BY <1>1, <1>2
<1>5. PICK z \in Seq(S) : z = u \o v
  BY <1>3
<1>6. Len(z) = 2 /\ z[1] = x /\ z[2] = y
  BY <1>3, <1>4, <1>5
<1>7. \A i \in 1..Len(z) : z[i] = w[i]
  BY <1>4, <1>6
<1>8. z = w
  BY <1>4, <1>6, <1>7, SeqEqual
<1> QED
  BY <1>1, <1>2, <1>5, <1>8

\* The builder after n methods.
Typed(q, n) == q \in BuildersOver(Trees[Height(n)], Seq(BuildersOver(Given, {<<>>})))

LEMMA UpdateSound ==
    ASSUME dialect \in Dialects, NEW n \in 0..MaxCalls, Typed(b, n)
    PROVE  Sound(dialect, UpdateBuild)
<1>1. PICK s : s = b.sets
  OBVIOUS
<1>2. s \in Seq(Words \X BoundValues) /\ b.conditions \in Seq(Trees[Height(n)])
  BY <1>1, BuilderParts DEF Typed
<1>3. /\ Len(s) \in Nat /\ DOMAIN s = 1..Len(s)
      /\ \A i \in 1..Len(s) : s[i][1] \in Words /\ s[i][2] \in BoundValues
  BY <1>2
<1>4. PICK vals : vals = [i \in DOMAIN s |-> s[i][2]]
  OBVIOUS
<1>5. vals \in Seq(BoundValues) /\ Len(vals) = Len(s) /\ \A i \in 1..Len(s) : vals[i] = s[i][2]
  <2>1. vals \in [1..Len(s) -> BoundValues] /\ \A i \in 1..Len(s) : vals[i] = s[i][2]
    BY <1>3, <1>4
  <2> QED
    BY <1>3, <2>1, AsSeq
<1>6. PICK marks \in Seq(Token) :
        /\ marks = Numbered(dialect, vals, 1) /\ Len(marks) = Len(s)
        /\ \A i \in 1..Len(s) : marks[i] = Mark(dialect, 1 + i - 1, s[i][2])
  BY <1>5, NumberedMarks
<1>7. PICK singles : singles = [i \in DOMAIN marks |-> <<marks[i]>>]
  OBVIOUS
<1>8. singles \in Seq(Seq(Token)) /\ Len(singles) = Len(s) /\ FlattenSeq(singles) = marks
  BY <1>6, <1>7, FlattenSingles
<1>9. PICK sets : sets = [i \in DOMAIN s |-> <<Name(s[i][1]), Mark(dialect, i, s[i][2])>>]
  OBVIOUS
<1>10. ASSUME NEW i \in 1..Len(s)
       PROVE  sets[i] \in Seq(Token) /\ Marks(sets[i]) = Marks(singles[i])
  <2>1. 1 + i - 1 = i /\ i \in DOMAIN marks
    BY <1>3, <1>6
  <2>2. PICK x \in Token, y \in Token : /\ x = Name(s[i][1]) /\ y = marks[i]
                                        /\ <<x>> \in Unmarked
    <3>1. Name(s[i][1]) \in Token /\ <<Name(s[i][1])>> \in Unmarked
      BY <1>3, NamesUnmarked
    <3>2. marks[i] \in Token
      BY <2>1, ElementOfSeq, <1>6
    <3> QED
      BY <3>1, <3>2
  <2>3. sets[i] = <<x, y>> /\ singles[i] = <<y>>
    BY <1>3, <1>6, <1>7, <1>9, <2>1, <2>2
  <2>4. <<y>> \in Seq(Token) /\ <<x>> \o <<y>> = <<x, y>> /\ <<x, y>> \in Seq(Token)
    BY Pair
  <2>5. Marks(<<x>> \o <<y>>) = Marks(<<y>>)
    BY <2>2, <2>4, MarksAround
  <2> QED
    BY <2>3, <2>4, <2>5
<1>11. sets \in Seq(Seq(Token)) /\ Len(sets) = Len(s)
  <2>1. sets \in [1..Len(s) -> Seq(Token)]
    BY <1>3, <1>9, <1>10
  <2> QED
    BY <1>3, <2>1, AsSeq
<1>12. Numbers(dialect, FlattenSeq(sets), vals, 1)
  <2>1. Marks(FlattenSeq(sets)) = Marks(FlattenSeq(singles)) /\ FlattenSeq(sets) \in Seq(Token)
    BY <1>8, <1>10, <1>11, SameMarks, FlattenType
  <2>2. Numbers(dialect, FlattenSeq(singles), vals, 1)
    BY <1>5, <1>6, <1>8, NumbersAlone
  <2> QED
    BY <2>1, <2>2, SameNumbers
<1>13. PICK text : text = Joined(sets, ",")
  OBVIOUS
<1>14. Numbers(dialect, text, vals, 1)
  BY <1>11, <1>12, <1>13, BracketKeywords, JoinedNumbers
<1>15. PICK head : head = <<Word("UPDATE"), Word("SET")>>
  OBVIOUS
<1>16. head \in Unmarked
  <2>1. "UPDATE" \in Keywords /\ "SET" \in Keywords
    BY DEF Keywords
  <2> QED
    BY <1>15, <2>1, TwoKeywords
<1>17. PICK where : where = WhereSQL(Len(s) + 1)
  OBVIOUS
<1>18. Numbers(dialect, where.text, where.args, 1 + Len(vals))
  <2>1. Len(s) + 1 \in Nat /\ Len(s) + 1 = 1 + Len(vals)
    BY <1>3, <1>5
  <2> QED
    BY <1>2, <1>17, <2>1, WhereRight DEF Right
<1>19. PICK t, a, r : t = where.text /\ a = where.args /\ r = ReturningSQL
  OBVIOUS
<1>20. Numbers(dialect, head \o text \o t \o r, vals \o a, 1)
  <2>1. PICK u : u = head \o text
    OBVIOUS
  <2>2. Numbers(dialect, u, vals, 1)
    BY <1>14, <1>16, <2>1, NumbersAround
  <2>3. Numbers(dialect, u \o t, vals \o a, 1)
    BY <1>18, <1>19, <2>2, NumbersConcat
  <2>4. Numbers(dialect, (u \o t) \o r, vals \o a, 1)
    BY <1>19, <2>3, ReturningUnmarked, NumbersAround
  <2> QED
    BY <2>1, <2>4
<1>21. UpdateBuild = IF b.err \/ ~ValidIdentifier(b.table[1]) \/ HasInvalid(b.conditions) THEN Refused
                     ELSE [err |-> FALSE, text |-> head \o text \o t \o r, args |-> vals \o a]
  <2>1. Len([i \in DOMAIN b.sets |-> <<Name(b.sets[i][1]), Mark(dialect, i, b.sets[i][2])>>]) = Len(s)
    BY <1>1, <1>9, <1>11
  <2> QED
    BY Zenon, <1>1, <1>4, <1>9, <1>13, <1>15, <1>17, <1>19, <2>1 DEF UpdateBuild
<1> QED
  BY <1>20, <1>21, AnswerSound, RefusedSound

LEMMA DeleteSound ==
    ASSUME dialect \in Dialects, NEW n \in 0..MaxCalls, Typed(b, n)
    PROVE  Sound(dialect, DeleteBuild)
<1>1. b.conditions \in Seq(Trees[Height(n)])
  BY BuilderParts DEF Typed
<1>2. PICK where, t, a, r : where = WhereSQL(1) /\ t = where.text /\ a = where.args /\ r = ReturningSQL
  OBVIOUS
<1>3. Numbers(dialect, t, a, 1)
  BY <1>1, <1>2, WhereRight DEF Right
<1>4. <<Word("DELETE")>> \in Unmarked
  <2>1. "DELETE" \in Keywords
    BY DEF Keywords
  <2> QED
    BY <2>1, KeywordsUnmarked
<1>5. Numbers(dialect, <<Word("DELETE")>> \o t, a, 1)
  BY <1>3, <1>4, NumbersAround
<1>6. Numbers(dialect, <<Word("DELETE")>> \o t \o r, a, 1)
  BY <1>2, <1>5, ReturningUnmarked, NumbersAround
<1>7. DeleteBuild = IF ~ValidIdentifier(b.table[1]) THEN Refused
                    ELSE [err |-> FALSE, text |-> <<Word("DELETE")>> \o t \o r, args |-> a]
  BY Zenon, <1>2 DEF DeleteBuild
<1> QED
  BY <1>6, <1>7, AnswerSound, RefusedSound

LEMMA InsertSound ==
    ASSUME dialect \in Dialects, NEW n \in 0..MaxCalls, Typed(b, n)
    PROVE  Sound(dialect, InsertBuild)
<1>1. PICK rows, columns : rows = b.rows /\ columns = b.columns
  OBVIOUS
<1>2. rows \in Seq(Seq(BoundValues)) /\ columns \in Seq(Words)
  BY <1>1, BuilderParts DEF Typed
<1>3. /\ Len(rows) \in Nat /\ DOMAIN rows = 1..Len(rows)
      /\ \A k \in 1..Len(rows) : rows[k] \in Seq(BoundValues)
  BY <1>2
<1>4. PICK parts : parts = [k \in DOMAIN rows |->
                               Bracketed("[", Numbered(dialect, rows[k], Before(rows, k) + 1), "]")]
  OBVIOUS
<1>5. ASSUME NEW k \in 1..Len(rows)
      PROVE  parts[k] \in Seq(Token)
             /\ Marks(parts[k]) = Numbered(dialect, rows[k], 1 + Before(rows, k))
  <2>1. Before(rows, k) \in Nat /\ 1 + Before(rows, k) = Before(rows, k) + 1
    BY <1>2, BeforeNat
  <2>2. PICK p \in Nat : p = Before(rows, k) + 1
    BY <2>1
  <2>3. PICK row \in Seq(BoundValues) : row = rows[k]
    BY <1>3
  <2>4. Numbers(dialect, Numbered(dialect, row, p), row, p)
    BY NumbersAlone
  <2>5. Numbers(dialect, Bracketed("[", Numbered(dialect, row, p), "]"), row, p)
    BY <2>4, BracketKeywords, BracketedNumbers
  <2>6. parts[k] = Bracketed("[", Numbered(dialect, row, p), "]")
    BY <1>3, <1>4, <2>2, <2>3
  <2> QED
    BY <2>1, <2>2, <2>3, <2>5, <2>6 DEF Numbers
<1>6. parts \in Seq(Seq(Token)) /\ Len(parts) = Len(rows)
  <2>1. parts \in [1..Len(rows) -> Seq(Token)]
    BY <1>3, <1>4, <1>5
  <2> QED
    BY <1>3, <2>1, AsSeq
<1>7. Numbers(dialect, FlattenSeq(parts), FlattenSeq(rows), 1)
  BY <1>2, <1>5, <1>6, NumbersSpread
<1>8. PICK text, args : text = Joined(parts, ",") /\ args = FlattenSeq(rows)
  OBVIOUS
<1>9. Numbers(dialect, text, args, 1)
  BY <1>6, <1>7, <1>8, BracketKeywords, JoinedNumbers
<1> DEFINE ignored == b.ignore /\ ~dialect.onConflict
<1>10. PICK head, names, mid, conflict, r :
        /\ head = (IF ignored THEN <<Word("INSERT_IGNORE"), Word("INTO")>>
                              ELSE <<Word("INSERT"), Word("INTO")>>)
        /\ names = Bracketed("[", [i \in DOMAIN columns |-> Name(columns[i])], "]")
        /\ mid = <<Word("VALUES")>>
        /\ conflict = (IF b.ignore /\ ~ignored THEN <<Word("ON_CONFLICT")>> ELSE <<>>)
        /\ r = ReturningSQL
  OBVIOUS
<1>11. head \in Unmarked /\ mid \in Unmarked /\ conflict \in Unmarked /\ r \in Unmarked
  <2>1. {"INSERT_IGNORE", "INTO", "INSERT", "VALUES", "ON_CONFLICT"} \subseteq Keywords
    BY DEF Keywords
  <2>2. <<Word("VALUES")>> \in Unmarked /\ <<Word("ON_CONFLICT")>> \in Unmarked
    BY <2>1, KeywordsUnmarked
  <2>3. /\ <<Word("INSERT_IGNORE"), Word("INTO")>> \in Unmarked
        /\ <<Word("INSERT"), Word("INTO")>> \in Unmarked
    BY <2>1, TwoKeywords
  <2> QED
    BY <1>10, <2>2, <2>3, UnmarkedConcat, ReturningUnmarked
<1>12. names \in Unmarked
  <2>1. PICK c : c = [i \in DOMAIN columns |-> Name(columns[i])]
    OBVIOUS
  <2>2. DOMAIN columns = 1..Len(columns) /\ Len(columns) \in Nat
        /\ \A i \in 1..Len(columns) : columns[i] \in Words
    BY <1>2
  <2>3. \A w \in Words : Name(w) \in Token /\ Name(w).t # "?"
    <3>1. \A w \in Words : Name(w).t = "name"
      BY DEF Name
    <3>2. "name" \in Words
      BY WordsAssumption DEF Keywords
    <3> QED
      BY <3>1, <3>2, NamesUnmarked, WordsAssumption
  <2>4. c \in [1..Len(columns) -> Token] /\ \A i \in 1..Len(columns) : c[i].t # "?"
    BY <2>1, <2>2, <2>3
  <2>5. c \in Seq(Token) /\ Len(c) = Len(columns)
    BY <2>2, <2>4, AsSeq
  <2>6. c \in Unmarked
    BY <2>4, <2>5 DEF Unmarked
  <2>7. <<Word("[")>> \in Unmarked /\ <<Word("]")>> \in Unmarked
    BY BracketKeywords, KeywordsUnmarked
  <2>8. <<Word("[")>> \o c \in Unmarked
    BY <2>6, <2>7, UnmarkedConcat
  <2>9. (<<Word("[")>> \o c) \o <<Word("]")>> \in Unmarked
    BY <2>7, <2>8, UnmarkedConcat
  <2> QED
    BY <1>10, <2>1, <2>9 DEF Bracketed
<1>13. Numbers(dialect, head \o names \o mid \o text \o conflict \o r, args, 1)
  <2>1. PICK u \in Unmarked : u = head \o names \o mid
    <3>1. PICK v \in Unmarked : v = head \o names
      BY <1>11, <1>12, UnmarkedConcat
    <3> QED
      BY <1>11, <3>1, UnmarkedConcat
  <2>2. PICK w : w = u \o text
    OBVIOUS
  <2>3. Numbers(dialect, w, args, 1)
    BY <1>9, <2>2, NumbersAround
  <2>4. Numbers(dialect, w \o conflict, args, 1)
    BY <1>11, <2>3, NumbersAround
  <2>5. Numbers(dialect, (w \o conflict) \o r, args, 1)
    BY <1>11, <2>4, NumbersAround
  <2> QED
    BY Zenon, <2>1, <2>2, <2>5
<1>14. InsertBuild = IF ~(\A name \in ToSet(b.table \o b.columns) : ValidIdentifier(name)) THEN Refused
                     ELSE [err |-> FALSE, text |-> head \o names \o mid \o text \o conflict \o r,
                           args |-> args]
  BY Zenon, <1>1, <1>4, <1>8, <1>10 DEF InsertBuild
<1> QED
  BY <1>13, <1>14, AnswerSound, RefusedSound

\* Queries one after the other, each renumbered to follow those before it.
WithParts(d, n, queries, lists, texts, front) ==
    /\ lists = [i \in 1..n |-> queries[i].args]
    /\ texts = [k \in 1..n |-> renumberParameters(d, queries[k].text, Len(lists[k]),
                                                  Before(lists, k) + 1)]
    /\ front = [k \in 1..(n - 1) |-> <<Word("AS")>> \o Bracketed("[", texts[k], "]")]

LEMMA WithSound ==
    ASSUME NEW d \in Dialects, NEW n \in Nat, n # 0, NEW queries,
           \A i \in 1..n : Sound(d, queries[i]) /\ ~queries[i].err,
           NEW lists, NEW texts, NEW front, WithParts(d, n, queries, lists, texts, front)
    PROVE  Numbers(d, <<Word("WITH")>> \o Joined(front, ",") \o texts[n], FlattenSeq(lists), 1)
<1>1. /\ lists \in Seq(Seq(BoundValues)) /\ Len(lists) = n
      /\ \A i \in 1..n : Numbers(d, queries[i].text, lists[i], 1) /\ lists[i] \in Seq(BoundValues)
  <2>1. \A i \in 1..n : Numbers(d, queries[i].text, lists[i], 1) /\ lists[i] \in Seq(BoundValues)
    BY DEF Sound, Numbers, WithParts
  <2>2. lists \in [1..n -> Seq(BoundValues)]
    BY <2>1 DEF WithParts
  <2> QED
    BY <2>1, <2>2, AsSeq
<1>2. ASSUME NEW k \in 1..n
      PROVE  Numbers(d, texts[k], lists[k], 1 + Before(lists, k)) /\ texts[k] \in Seq(Token)
             /\ 1 + Before(lists, k) \in Nat
  <2>1. Before(lists, k) \in Nat
    BY <1>1, BeforeNat
  <2>2. PICK p \in Nat : p = Before(lists, k) + 1 /\ p = 1 + Before(lists, k)
    BY <2>1
  <2>3. PICK text, args : text = queries[k].text /\ args = lists[k]
    OBVIOUS
  <2>4. Numbers(d, text, args, 1)
    BY <1>1, <2>3
  <2>5. Numbers(d, renumberParameters(d, text, Len(args), p), args, p)
    BY <2>4, Renumbers
  <2>6. texts[k] = renumberParameters(d, text, Len(args), p)
    BY <2>2, <2>3 DEF WithParts
  <2> QED
    BY <2>2, <2>3, <2>5, <2>6 DEF Numbers
<1>3. ASSUME NEW k \in 1..(n - 1)
      PROVE  front[k] \in Seq(Token) /\ Marks(front[k]) = Marks(texts[k])
  <2>1. texts[k] \in Seq(Token)
    BY <1>2
  <2>2. PICK text \in Seq(Token) : text = Bracketed("[", texts[k], "]") /\ Marks(text) = Marks(texts[k])
    <3>1. "[" \in Keywords /\ "]" \in Keywords
      BY BracketKeywords
    <3> QED
      BY <2>1, <3>1, BracketedMarks
  <2>3. PICK as \in Unmarked : as = <<Word("AS")>>
    BY BracketKeywords, KeywordsUnmarked
  <2>4. front[k] = <<Word("AS")>> \o Bracketed("[", texts[k], "]")
    BY DEF WithParts
  <2>5. as \o text \in Seq(Token) /\ Marks(as \o text) = Marks(text)
    BY MarksAround
  <2> QED
    BY <2>2, <2>3, <2>4, <2>5, Zenon
<1>4. front \in Seq(Seq(Token)) /\ Len(front) = n - 1 /\ n - 1 \in Nat /\ n \in 1..n
  <2>1. n - 1 \in Nat /\ n \in 1..n
    OBVIOUS
  <2>2. front \in [1..(n - 1) -> Seq(Token)]
    BY <1>3 DEF WithParts
  <2> QED
    BY <2>1, <2>2, AsSeq
<1>5. PICK last \in Seq(Token) : last = texts[n]
  BY <1>2, <1>4
<1>6. PICK parts : parts = Append(front, last)
  OBVIOUS
<1>7. /\ parts \in Seq(Seq(Token)) /\ Len(parts) = Len(lists)
      /\ \A k \in 1..(n - 1) : parts[k] = front[k]
      /\ parts[n] = last
  <2>1. /\ parts \in Seq(Seq(Token)) /\ Len(parts) = Len(front) + 1
        /\ \A k \in 1..Len(front) : parts[k] = front[k]
        /\ parts[Len(front) + 1] = last
    BY <1>4, <1>6, AppendProperties
  <2>2. (n - 1) + 1 = n
    OBVIOUS
  <2> QED
    BY <1>1, <1>4, <2>1, <2>2
<1>8. \A k \in 1..Len(lists) : Marks(parts[k]) = Numbered(d, lists[k], 1 + Before(lists, k))
  <2> TAKE k \in 1..Len(lists)
  <2>1. k \in 1..n /\ (k = n \/ k \in 1..(n - 1))
    BY <1>1
  <2>2. Marks(texts[k]) = Numbered(d, lists[k], 1 + Before(lists, k))
    BY <1>2, <2>1 DEF Numbers
  <2>3. Marks(parts[k]) = Marks(texts[k])
    BY <1>3, <1>5, <1>7, <2>1
  <2> QED
    BY <2>2, <2>3
<1>9. Numbers(d, FlattenSeq(parts), FlattenSeq(lists), 1)
  BY <1>1, <1>7, <1>8, NumbersSpread
<1>10. FlattenSeq(parts) = FlattenSeq(front) \o last /\ FlattenSeq(front) \in Seq(Token)
  BY <1>4, <1>6, FlattenAppend
<1>11. PICK text \in Seq(Token), args \in Seq(BoundValues) : /\ text = Joined(front, ",") /\ args = FlattenSeq(lists)
                                        /\ Marks(text) = Marks(FlattenSeq(front))
  <2>1. "," \in Keywords
    BY BracketKeywords
  <2>2. FlattenSeq(lists) \in Seq(BoundValues)
    BY <1>9 DEF Numbers
  <2>3. Joined(front, ",") \in Seq(Token) /\ Marks(Joined(front, ",")) = Marks(FlattenSeq(front))
    BY <1>4, <2>1, JoinedMarks
  <2> QED
    BY <2>2, <2>3, Zenon
<1>12. text \o last \in Seq(Token) /\ Marks(text \o last) = Marks(FlattenSeq(parts))
  <2>1. text \o last \in Seq(Token) /\ Marks(text \o last) = Marks(text) \o Marks(last)
    BY MarksConcat, ConcatProperties
  <2>2. Marks(FlattenSeq(front) \o last) = Marks(FlattenSeq(front)) \o Marks(last)
    BY <1>10, MarksConcat
  <2> QED
    BY <1>10, <1>11, <2>1, <2>2
<1>13. Numbers(d, text \o last, args, 1)
  BY <1>9, <1>11, <1>12, SameNumbers
<1>14. <<Word("WITH")>> \in Unmarked
  <2>1. "WITH" \in Keywords
    BY DEF Keywords
  <2> QED
    BY <2>1, KeywordsUnmarked
<1>15. PICK with : with = <<Word("WITH")>>
  OBVIOUS
<1>16. with \in Unmarked /\ with \in Seq(Token)
  BY <1>14, <1>15 DEF Unmarked
<1>17. Numbers(d, with \o (text \o last), args, 1)
  BY <1>13, <1>16, NumbersAround
<1>18. (with \o text) \o last = with \o (text \o last)
  <2>1. /\ with \in Seq(Token) /\ text \in Seq(Token) /\ last \in Seq(Token)
    BY <1>5, <1>11, <1>16
  <2> QED
    BY <2>1, Associative
<1>19. Numbers(d, (with \o text) \o last, args, 1)
  BY <1>17, <1>18, Zenon
<1> QED
  BY <1>5, <1>11, <1>15, <1>19, Zenon

LEMMA RenderRight ==
    ASSUME dialect \in Dialects, NEW T, T \subseteq Trees[MaxHeight]
    PROVE  RendersRight(dialect, render, T)
<1>1. MaxHeight \in 0..MaxHeight
  BY WordsAssumption
<1>2. RendersRight(dialect, Rendering(dialect)[MaxHeight], Trees[MaxHeight])
  BY <1>1, TreesRight
<1> QED
  BY <1>2 DEF RendersRight, render

LEMMA SelectSound ==
    ASSUME dialect \in Dialects, NEW n \in 0..MaxCalls, Typed(b, n)
    PROVE  Sound(dialect, SelectBuild(render, b))
<1>1. PICK T, C, r : T = Trees[Height(n)] /\ C = Seq(BuildersOver(Given, {<<>>})) /\ r = render
  OBVIOUS
<1>2. b \in BuildersOver(T, C) /\ RendersRight(dialect, r, T)
  BY <1>1, Heights, RenderRight DEF Typed
<1>3. Sound(dialect, SelectBuild(r, b))
  BY <1>2, SelectNumbers
<1> QED
  BY <1>1, <1>3

LEMMA WithAnswer ==
    ASSUME NEW d \in Dialects, NEW queries, Len(queries) \in Nat, Len(queries) # 0,
           \A i \in 1..Len(queries) : Sound(d, queries[i])
    PROVE  Sound(d, With(d, queries))
<1> DEFINE n == Len(queries)
           lists == [i \in 1..n |-> queries[i].args]
           texts == [k \in 1..n |-> renumberParameters(d, queries[k].text, Len(lists[k]),
                                                       Before(lists, k) + 1)]
           front == [k \in 1..(n - 1) |-> <<Word("AS")>> \o Bracketed("[", texts[k], "]")]
<1>4. WithParts(d, n, queries, lists, texts, front)
  BY Zenon DEF WithParts
<1>5. With(d, queries) = IF \E k \in 1..n : queries[k].err THEN Refused
                         ELSE [err |-> FALSE,
                               text |-> <<Word("WITH")>> \o Joined(front, ",") \o texts[n],
                               args |-> FlattenSeq(lists)]
  BY Zenon DEF With
<1> HIDE DEF lists, texts, front
<1>6. CASE \E k \in 1..n : queries[k].err
  BY <1>5, <1>6, RefusedSound
<1>7. CASE ~\E k \in 1..n : queries[k].err
  <2>1. \A i \in 1..n : Sound(d, queries[i]) /\ ~queries[i].err
    BY <1>7
  <2>2. Numbers(d, <<Word("WITH")>> \o Joined(front, ",") \o texts[n], FlattenSeq(lists), 1)
    <3> HIDE DEF n
    <3>1. n \in Nat /\ n # 0
      BY DEF n
    <3> QED
      BY <1>4, <2>1, <3>1, WithSound
  <2> QED
    BY <1>5, <1>7, <2>2, AnswerSound
<1> QED
  BY <1>6, <1>7

LEMMA CTESound ==
    ASSUME dialect \in Dialects, NEW n \in 0..MaxCalls, Typed(b, n)
    PROVE  Sound(dialect, CTEBuild)
<1>1. PICK ctes, m : ctes = b.ctes /\ m = Len(ctes) + 1
  OBVIOUS
<1>2. ctes \in Seq(BuildersOver(Given, {<<>>}))
  BY <1>1, BuilderParts DEF Typed
<1>3. m \in Nat /\ m # 0 /\ m - 1 \in Nat /\ m - 1 = Len(ctes)
      /\ \A i \in 1..Len(ctes) : ctes[i] \in BuildersOver(Given, {<<>>})
  BY <1>1, <1>2
<1>4. PICK queries : queries = [i \in 1..m |-> SelectBuild(render, IF i <= Len(ctes) THEN ctes[i] ELSE b)]
  OBVIOUS
<1>5. ASSUME NEW i \in 1..m PROVE Sound(dialect, queries[i])
  <2>1. CASE i <= Len(ctes)
    <3>1. PICK T, r, q : T = Given /\ r = render /\ q = ctes[i]
      OBVIOUS
    <3>2. i \in 1..Len(ctes)
      BY <1>3, <2>1
    <3>3. q \in BuildersOver(T, {<<>>})
      BY <1>3, <3>1, <3>2
    <3>4. T \subseteq Trees[MaxHeight]
      BY <3>1, Heights
    <3>5. RendersRight(dialect, r, T)
      BY <3>1, <3>4, RenderRight
    <3>6. Sound(dialect, SelectBuild(r, q))
      BY <3>3, <3>5, SelectNumbers
    <3> QED
      BY <1>4, <2>1, <3>1, <3>6
  <2>2. CASE ~(i <= Len(ctes))
    BY <1>4, <2>2, SelectSound
  <2> QED
    BY <2>1, <2>2
<1>6. Len(queries) = m
  BY <1>3, <1>4
<1>7. CTEBuild = With(dialect, queries)
  BY Zenon, <1>1, <1>4 DEF CTEBuild
<1> QED
  BY <1>3, <1>5, <1>6, <1>7, WithAnswer

-----------------------------------------------------------------------------
(* The methods                                                             *)

Joins(trees) == [type : JoinWords, table : Words, on : Seq(trees)]

\* A builder with one of its parts another.
LEMMA Changed ==
    ASSUME NEW T, NEW C, NEW q \in BuildersOver(T, C)
    PROVE  /\ \A v \in BOOLEAN : [q EXCEPT !.err = v] \in BuildersOver(T, C)
           /\ \A v \in BOOLEAN : [q EXCEPT !.distinct = v] \in BuildersOver(T, C)
           /\ \A v \in Seq(Words) : [q EXCEPT !.table = v] \in BuildersOver(T, C)
           /\ \A v \in Seq(Words) : [q EXCEPT !.columns = v] \in BuildersOver(T, C)
           /\ \A v \in Seq(T) : [q EXCEPT !.exprs = v] \in BuildersOver(T, C)
           /\ \A v \in Seq(Joins(T)) : [q EXCEPT !.joins = v] \in BuildersOver(T, C)
           /\ \A v \in Seq(T) : [q EXCEPT !.conditions = v] \in BuildersOver(T, C)
           /\ \A v \in Seq(Words) : [q EXCEPT !.groupBy = v] \in BuildersOver(T, C)
           /\ \A v \in Seq(T) : [q EXCEPT !.groupByExprs = v] \in BuildersOver(T, C)
           /\ \A v \in Seq(T) : [q EXCEPT !.having = v] \in BuildersOver(T, C)
           /\ \A v \in Seq(Words) : [q EXCEPT !.orderBy = v] \in BuildersOver(T, C)
           /\ \A v \in Seq(T) : [q EXCEPT !.orderByExprs = v] \in BuildersOver(T, C)
           /\ \A v \in Int : [q EXCEPT !.limit = v] \in BuildersOver(T, C)
           /\ \A v \in Int : [q EXCEPT !.offset = v] \in BuildersOver(T, C)
           /\ \A v \in Seq(Words \X BoundValues) : [q EXCEPT !.sets = v] \in BuildersOver(T, C)
           /\ \A v \in Seq(Seq(BoundValues)) : [q EXCEPT !.rows = v] \in BuildersOver(T, C)
           /\ \A v \in C : [q EXCEPT !.ctes = v] \in BuildersOver(T, C)
           /\ \A v \in BOOLEAN : [q EXCEPT !.returning = v] \in BuildersOver(T, C)
           /\ \A v \in BOOLEAN : [q EXCEPT !.ignore = v] \in BuildersOver(T, C)
<1> DEFINE S1 == Seq(Words)
           S2 == Seq(T)
           S3 == Seq(Joins(T))
           S4 == Seq(Words \X BoundValues)
           S5 == Seq(Seq(BoundValues))
           B == [verb : {"select", "update", "delete", "insert", "cte"}, table : S1,
                 err : BOOLEAN, distinct : BOOLEAN, columns : S1, exprs : S2, joins : S3,
                 conditions : S2, groupBy : S1, groupByExprs : S2,
                 having : S2, orderBy : S1, orderByExprs : S2,
                 limit : Int, offset : Int, sets : S4, rows : S5,
                 ctes : C, returning : BOOLEAN, ignore : BOOLEAN]
<1>1. BuildersOver(T, C) = B
  BY Zenon DEF BuildersOver, Joins
<1> SUFFICES ASSUME q \in B
             PROVE /\ \A v \in BOOLEAN : /\ [q EXCEPT !.err = v] \in B
                                         /\ [q EXCEPT !.distinct = v] \in B
                                         /\ [q EXCEPT !.returning = v] \in B
                                         /\ [q EXCEPT !.ignore = v] \in B
                   /\ \A v \in S1 : /\ [q EXCEPT !.table = v] \in B
                                    /\ [q EXCEPT !.columns = v] \in B
                                    /\ [q EXCEPT !.groupBy = v] \in B
                                    /\ [q EXCEPT !.orderBy = v] \in B
                   /\ \A v \in S2 : /\ [q EXCEPT !.exprs = v] \in B
                                    /\ [q EXCEPT !.conditions = v] \in B
                                    /\ [q EXCEPT !.groupByExprs = v] \in B
                                    /\ [q EXCEPT !.having = v] \in B
                                    /\ [q EXCEPT !.orderByExprs = v] \in B
                   /\ \A v \in S3 : [q EXCEPT !.joins = v] \in B
                   /\ \A v \in Int : [q EXCEPT !.limit = v] \in B /\ [q EXCEPT !.offset = v] \in B
                   /\ \A v \in S4 : [q EXCEPT !.sets = v] \in B
                   /\ \A v \in S5 : [q EXCEPT !.rows = v] \in B
                   /\ \A v \in C : [q EXCEPT !.ctes = v] \in B
  <2> HIDE DEF B
  <2> QED
    BY <1>1
<1> HIDE DEF S1, S2, S3, S4, S5
<1> QED
  OBVIOUS

Verbs5 == {"select", "update", "delete", "insert", "cte"}

\* What a builder starts from.
LEMMA BuilderTyped ==
    ASSUME NEW T, NEW C, <<>> \in C, NEW verb \in Verbs5, NEW table \in Seq(Words)
    PROVE  Builder(verb, table) \in BuildersOver(T, C)
<1>1. /\ <<>> \in Seq(Words) /\ <<>> \in Seq(T) /\ <<>> \in Seq(Words \X BoundValues)
      /\ <<>> \in Seq(Seq(BoundValues)) /\ <<>> \in Seq([type : JoinWords, table : Words, on : Seq(T)])
  BY EmptySeq
<1> DEFINE S1 == Seq(Words)
           S2 == Seq(T)
           S3 == Seq([type : JoinWords, table : Words, on : Seq(T)])
           S4 == Seq(Words \X BoundValues)
           S5 == Seq(Seq(BoundValues))
           B == [verb : {"select", "update", "delete", "insert", "cte"}, table : S1,
                 err : BOOLEAN, distinct : BOOLEAN, columns : S1, exprs : S2, joins : S3,
                 conditions : S2, groupBy : S1, groupByExprs : S2,
                 having : S2, orderBy : S1, orderByExprs : S2,
                 limit : Int, offset : Int, sets : S4, rows : S5,
                 ctes : C, returning : BOOLEAN, ignore : BOOLEAN]
<1>2. BuildersOver(T, C) = B
  BY Zenon DEF BuildersOver
<1>3. <<>> \in S1 /\ <<>> \in S2 /\ <<>> \in S3 /\ <<>> \in S4 /\ <<>> \in S5 /\ table \in S1
  BY <1>1
<1> HIDE DEF S1, S2, S3, S4, S5
<1> QED
  BY <1>2, <1>3 DEF Builder, Verbs5

\* The trees a builder holds after n methods, and its common table expressions.
Tree(n) == Trees[Height(n)]
CTEs == Seq(BuildersOver(Given, {<<>>}))

\* Filters, and the clause they wrote last.
Filters ==
    [field : Identifiers \cup References, values : Seq(Searched) \ {<<>>}, op : Operators]

FilterInv ==
    /\ filters \in Seq(Filters) /\ clauses \in Nat
    /\ clauses = 0 => clause.next = 1
    /\ clauses # 0 => filters # <<>>
    /\ clauses = 1 => clause = WhereClause(dialect, filters, 1)

BuildersInv ==
    /\ dialect \in Dialects
    /\ calls \in 0..MaxCalls
    /\ b \in BuildersOver(Tree(calls), CTEs)
    /\ Sound(dialect, built)
    /\ FilterInv

LEMMA NextTyped ==
    ASSUME BuildersInv, calls < MaxCalls
    PROVE  /\ calls + 1 \in 0..MaxCalls /\ b \in BuildersOver(Tree(calls + 1), CTEs)
           /\ b \in BuildersOver(Tree(calls), CTEs)
           /\ Given \subseteq Tree(calls + 1) /\ Tree(calls) \subseteq Tree(calls + 1)
           /\ Given \subseteq Tree(calls)
           /\ Tree(calls + 1) = NodesOver(Tree(calls))
<1>1. calls \in 0..MaxCalls /\ MaxCalls \in Nat /\ MaxHeight \in Nat
  BY WordsAssumption, BuildersAssumption DEF BuildersInv
<1>2. calls + 1 \in 0..MaxCalls /\ Height(calls + 1) = Height(calls) + 1
  BY <1>1, BuildersAssumption DEF Height
<1>3. Given \subseteq Tree(calls + 1) /\ Tree(calls + 1) = NodesOver(Tree(calls)) /\ Given \subseteq Tree(calls)
  BY <1>1, <1>2, Heights DEF Tree
<1>4. Tree(calls) \subseteq Tree(calls + 1)
  <2>1. Height(calls) \in 0..(MaxHeight - 1)
    BY <1>1, Heights
  <2> QED
    BY <1>2, <2>1, TreesGrow DEF Tree
<1>5. b \in BuildersOver(Tree(calls), CTEs)
  BY DEF BuildersInv
<1>6. BuildersOver(Tree(calls), CTEs) \subseteq BuildersOver(Tree(calls + 1), CTEs)
  BY <1>4, BuildersGrow
<1> QED
  BY <1>2, <1>3, <1>4, <1>5, <1>6

LEMMA NotBuiltSound ==
    ASSUME NEW d \in Dialects
    PROVE  Sound(d, NotBuilt)
<1>1. Numbers(d, <<>>, <<>>, 1)
  BY UnmarkedConcat, NumbersNothing
<1> QED
  BY <1>1, AnswerSound DEF NotBuilt

LEMMA MethodKeeps ==
    ASSUME BuildersInv, NEW q, Method(q), q \in BuildersOver(Tree(calls + 1), CTEs)
    PROVE  BuildersInv'
<1>1. /\ calls < MaxCalls /\ calls' = calls + 1 /\ b' = q /\ built' = NotBuilt
      /\ dialect' = dialect /\ filters' = filters /\ clause' = clause /\ clauses' = clauses
  BY DEF Method, filterVars
<1>2. calls' \in 0..MaxCalls /\ dialect' \in Dialects
  BY <1>1, NextTyped DEF BuildersInv
<1>3. b' \in BuildersOver(Tree(calls'), CTEs)
  BY <1>1
<1>4. Sound(dialect', built')
  BY <1>1, <1>2, NotBuiltSound
<1>5. FilterInv'
  BY <1>1 DEF BuildersInv, FilterInv
<1> QED
  BY <1>2, <1>3, <1>4, <1>5 DEF BuildersInv

LEMMA CheckedTyped ==
    ASSUME NEW T, NEW C, b \in BuildersOver(T, C)
    PROVE  /\ \A ok \in BOOLEAN : Checked(ok) \in BuildersOver(T, C)
           /\ \A name : /\ Checked(ValidIdentifier(name)) \in BuildersOver(T, C)
                        /\ Checked(ValidColumnReference(name)) \in BuildersOver(T, C)
                        /\ Checked(ValidLimit(name)) \in BuildersOver(T, C)
                        /\ Checked(ValidOffset(name)) \in BuildersOver(T, C)
<1>1. \A e \in BOOLEAN : [b EXCEPT !.err = e] \in BuildersOver(T, C)
  BY Changed
<1>2. \A ok \in BOOLEAN : Checked(ok) \in BuildersOver(T, C)
  BY <1>1, BuilderParts DEF Checked
<1>3. ASSUME NEW name
      PROVE  /\ Checked(ValidIdentifier(name)) \in BuildersOver(T, C)
             /\ Checked(ValidColumnReference(name)) \in BuildersOver(T, C)
             /\ Checked(ValidLimit(name)) \in BuildersOver(T, C)
             /\ Checked(ValidOffset(name)) \in BuildersOver(T, C)
  <2>1. PICK e \in BOOLEAN : e = (b.err \/ ~ValidIdentifier(name))
    OBVIOUS
  <2>2. PICK f \in BOOLEAN : f = (b.err \/ ~ValidColumnReference(name))
    OBVIOUS
  <2>3. PICK g \in BOOLEAN : g = (b.err \/ ~ValidLimit(name))
    OBVIOUS
  <2>4. PICK h \in BOOLEAN : h = (b.err \/ ~ValidOffset(name))
    OBVIOUS
  <2>5. /\ Checked(ValidIdentifier(name)) = [b EXCEPT !.err = e]
        /\ Checked(ValidColumnReference(name)) = [b EXCEPT !.err = f]
        /\ Checked(ValidLimit(name)) = [b EXCEPT !.err = g]
        /\ Checked(ValidOffset(name)) = [b EXCEPT !.err = h]
    BY <2>1, <2>2, <2>3, <2>4 DEF Checked
  <2> QED
    BY <1>1, <2>5
<1> QED
  BY <1>2, <1>3

LEMMA SelectExprKeeps ==
    ASSUME BuildersInv, NEW expr \in Expressions, SelectExpr(expr)
    PROVE  BuildersInv'
<1>1. Method([b EXCEPT !.exprs = Append(b.exprs, expr)])
  BY DEF SelectExpr
<1>2. b \in BuildersOver(Tree(calls + 1), CTEs) /\ Given \subseteq Tree(calls + 1)
  BY <1>1, NextTyped DEF Method
<1>3. Append(b.exprs, expr) \in Seq(Tree(calls + 1))
  BY <1>2, BuilderParts, BuildersAssumption, AppendProperties
<1>4. [b EXCEPT !.exprs = Append(b.exprs, expr)] \in BuildersOver(Tree(calls + 1), CTEs)
  BY <1>2, <1>3, Changed
<1> QED
  BY <1>1, <1>4, MethodKeeps

LEMMA GroupByExprKeeps ==
    ASSUME BuildersInv, NEW expr \in Expressions, GroupByExpr(expr)
    PROVE  BuildersInv'
<1>1. Method([b EXCEPT !.groupByExprs = Append(b.groupByExprs, expr)])
  BY DEF GroupByExpr
<1>2. b \in BuildersOver(Tree(calls + 1), CTEs) /\ Given \subseteq Tree(calls + 1)
  BY <1>1, NextTyped DEF Method
<1>3. Append(b.groupByExprs, expr) \in Seq(Tree(calls + 1))
  BY <1>2, BuilderParts, BuildersAssumption, AppendProperties
<1>4. [b EXCEPT !.groupByExprs = Append(b.groupByExprs, expr)] \in BuildersOver(Tree(calls + 1), CTEs)
  BY <1>2, <1>3, Changed
<1> QED
  BY <1>1, <1>4, MethodKeeps

LEMMA OrderByExprKeeps ==
    ASSUME BuildersInv, NEW expr \in Expressions, OrderByExpr(expr)
    PROVE  BuildersInv'
<1>1. Method([b EXCEPT !.orderByExprs = Append(b.orderByExprs, expr)])
  BY DEF OrderByExpr
<1>2. b \in BuildersOver(Tree(calls + 1), CTEs) /\ Given \subseteq Tree(calls + 1)
  BY <1>1, NextTyped DEF Method
<1>3. Append(b.orderByExprs, expr) \in Seq(Tree(calls + 1))
  BY <1>2, BuilderParts, BuildersAssumption, AppendProperties
<1>4. [b EXCEPT !.orderByExprs = Append(b.orderByExprs, expr)] \in BuildersOver(Tree(calls + 1), CTEs)
  BY <1>2, <1>3, Changed
<1> QED
  BY <1>1, <1>4, MethodKeeps

LEMMA HavingKeeps ==
    ASSUME BuildersInv, NEW cond \in HavingConditions, Having(cond)
    PROVE  BuildersInv'
<1>1. Method([b EXCEPT !.having = Append(b.having, cond)])
  BY DEF Having
<1>2. b \in BuildersOver(Tree(calls + 1), CTEs) /\ Given \subseteq Tree(calls + 1)
  BY <1>1, NextTyped DEF Method
<1>3. Append(b.having, cond) \in Seq(Tree(calls + 1))
  BY <1>2, BuilderParts, BuildersAssumption, AppendProperties
<1>4. [b EXCEPT !.having = Append(b.having, cond)] \in BuildersOver(Tree(calls + 1), CTEs)
  BY <1>2, <1>3, Changed
<1> QED
  BY <1>1, <1>4, MethodKeeps

LEMMA WhereKeeps ==
    ASSUME BuildersInv, NEW cond \in Conditions, Where(cond)
    PROVE  BuildersInv'
<1>1. Method([b EXCEPT !.conditions = Append(b.conditions, cond)])
  BY DEF Where
<1>2. b \in BuildersOver(Tree(calls + 1), CTEs) /\ Given \subseteq Tree(calls + 1)
  BY <1>1, NextTyped DEF Method
<1>3. Append(b.conditions, cond) \in Seq(Tree(calls + 1))
  BY <1>2, BuilderParts, BuildersAssumption, AppendProperties
<1>4. [b EXCEPT !.conditions = Append(b.conditions, cond)] \in BuildersOver(Tree(calls + 1), CTEs)
  BY <1>2, <1>3, Changed
<1> QED
  BY <1>1, <1>4, MethodKeeps

LEMMA DistinctKeeps ==
    ASSUME BuildersInv, Distinct
    PROVE  BuildersInv'
<1>1. Method([b EXCEPT !.distinct = TRUE])
  BY DEF Distinct
<1>2. b \in BuildersOver(Tree(calls + 1), CTEs) /\ Given \subseteq Tree(calls + 1)
  BY <1>1, NextTyped DEF Method
<1>3. TRUE \in BOOLEAN
  OBVIOUS
<1>4. [b EXCEPT !.distinct = TRUE] \in BuildersOver(Tree(calls + 1), CTEs)
  BY <1>2, <1>3, Changed
<1> QED
  BY <1>1, <1>4, MethodKeeps

LEMMA ReturningKeeps ==
    ASSUME BuildersInv, Returning
    PROVE  BuildersInv'
<1>1. Method([b EXCEPT !.returning = TRUE])
  BY DEF Returning
<1>2. b \in BuildersOver(Tree(calls + 1), CTEs) /\ Given \subseteq Tree(calls + 1)
  BY <1>1, NextTyped DEF Method
<1>3. TRUE \in BOOLEAN
  OBVIOUS
<1>4. [b EXCEPT !.returning = TRUE] \in BuildersOver(Tree(calls + 1), CTEs)
  BY <1>2, <1>3, Changed
<1> QED
  BY <1>1, <1>4, MethodKeeps

LEMMA OnConflictDoNothingKeeps ==
    ASSUME BuildersInv, OnConflictDoNothing
    PROVE  BuildersInv'
<1>1. Method([b EXCEPT !.ignore = TRUE])
  BY DEF OnConflictDoNothing
<1>2. b \in BuildersOver(Tree(calls + 1), CTEs) /\ Given \subseteq Tree(calls + 1)
  BY <1>1, NextTyped DEF Method
<1>3. TRUE \in BOOLEAN
  OBVIOUS
<1>4. [b EXCEPT !.ignore = TRUE] \in BuildersOver(Tree(calls + 1), CTEs)
  BY <1>2, <1>3, Changed
<1> QED
  BY <1>1, <1>4, MethodKeeps

LEMMA InsertColumnsKeeps ==
    ASSUME BuildersInv, NEW columns \in ColumnLists, InsertColumns(columns)
    PROVE  BuildersInv'
<1>1. Method([b EXCEPT !.columns = columns])
  BY DEF InsertColumns
<1>2. b \in BuildersOver(Tree(calls + 1), CTEs) /\ Given \subseteq Tree(calls + 1)
  BY <1>1, NextTyped DEF Method
<1>3. columns \in Seq(Words)
  BY BuildersAssumption
<1>4. [b EXCEPT !.columns = columns] \in BuildersOver(Tree(calls + 1), CTEs)
  BY <1>2, <1>3, Changed
<1> QED
  BY <1>1, <1>4, MethodKeeps

LEMMA InsertValuesKeeps ==
    ASSUME BuildersInv, NEW values \in RowValues, InsertValues(values)
    PROVE  BuildersInv'
<1>1. Method([b EXCEPT !.rows = Append(b.rows, values)])
  BY DEF InsertValues
<1>2. b \in BuildersOver(Tree(calls + 1), CTEs) /\ Given \subseteq Tree(calls + 1)
  BY <1>1, NextTyped DEF Method
<1>3. Append(b.rows, values) \in Seq(Seq(BoundValues))
  BY <1>2, BuilderParts, BuildersAssumption, AppendProperties
<1>4. [b EXCEPT !.rows = Append(b.rows, values)] \in BuildersOver(Tree(calls + 1), CTEs)
  BY <1>2, <1>3, Changed
<1> QED
  BY <1>1, <1>4, MethodKeeps

LEMMA AndCTEKeeps ==
    ASSUME BuildersInv, NEW query \in Selects, AndCTE(query)
    PROVE  BuildersInv'
<1>1. Method([b EXCEPT !.ctes = Append(b.ctes, query)])
  BY DEF AndCTE
<1>2. b \in BuildersOver(Tree(calls + 1), CTEs) /\ Given \subseteq Tree(calls + 1)
  BY <1>1, NextTyped DEF Method
<1>3. Append(b.ctes, query) \in CTEs
  BY <1>2, BuilderParts, BuildersAssumption, AppendProperties DEF CTEs
<1>4. [b EXCEPT !.ctes = Append(b.ctes, query)] \in BuildersOver(Tree(calls + 1), CTEs)
  BY <1>2, <1>3, Changed
<1> QED
  BY <1>1, <1>4, MethodKeeps

LEMMA FromKeeps ==
    ASSUME BuildersInv, NEW table \in Tables, From(table)
    PROVE  BuildersInv'
<1>1. PICK q : q = Checked(b.verb = "cte" \/ ValidIdentifier(table))
  OBVIOUS
<1>2. Method([q EXCEPT !.table = <<table>>])
  BY <1>1 DEF From
<1>3. b \in BuildersOver(Tree(calls + 1), CTEs)
  BY <1>2, NextTyped DEF Method
<1>4. q \in BuildersOver(Tree(calls + 1), CTEs)
  BY <1>1, <1>3, CheckedTyped
<1>5. <<table>> \in Seq(Words)
  BY BuildersAssumption
<1>6. [q EXCEPT !.table = <<table>>] \in BuildersOver(Tree(calls + 1), CTEs)
  BY <1>4, <1>5, Changed
<1> QED
  BY <1>2, <1>6, MethodKeeps

LEMMA SelectColumnKeeps ==
    ASSUME BuildersInv, NEW column \in Columns, SelectColumn(column)
    PROVE  BuildersInv'
<1>1. PICK q : q = Checked(b.verb = "cte" \/ ValidColumnReference(column))
  OBVIOUS
<1>2. Method([q EXCEPT !.columns = <<column>>])
  BY <1>1 DEF SelectColumn
<1>3. b \in BuildersOver(Tree(calls + 1), CTEs)
  BY <1>2, NextTyped DEF Method
<1>4. q \in BuildersOver(Tree(calls + 1), CTEs)
  BY <1>1, <1>3, CheckedTyped
<1>5. <<column>> \in Seq(Words)
  BY BuildersAssumption
<1>6. [q EXCEPT !.columns = <<column>>] \in BuildersOver(Tree(calls + 1), CTEs)
  BY <1>4, <1>5, Changed
<1> QED
  BY <1>2, <1>6, MethodKeeps

LEMMA OrderByKeeps ==
    ASSUME BuildersInv, NEW column \in Columns, OrderBy(column)
    PROVE  BuildersInv'
<1>1. PICK q : q = Checked(ValidColumnReference(column))
  OBVIOUS
<1>2. Method([q EXCEPT !.orderBy = Append(q.orderBy, column)])
  BY <1>1 DEF OrderBy
<1>3. b \in BuildersOver(Tree(calls + 1), CTEs)
  BY <1>2, NextTyped DEF Method
<1>4. q \in BuildersOver(Tree(calls + 1), CTEs)
  BY <1>1, <1>3, CheckedTyped
<1>5. Append(q.orderBy, column) \in Seq(Words)
  BY <1>4, BuilderParts, BuildersAssumption, AppendProperties
<1>6. [q EXCEPT !.orderBy = Append(q.orderBy, column)] \in BuildersOver(Tree(calls + 1), CTEs)
  BY <1>4, <1>5, Changed
<1> QED
  BY <1>2, <1>6, MethodKeeps

LEMMA LimitKeeps ==
    ASSUME BuildersInv, NEW limit \in Limits, Limit(limit)
    PROVE  BuildersInv'
<1>1. PICK q : q = Checked(ValidLimit(limit))
  OBVIOUS
<1>2. Method([q EXCEPT !.limit = limit])
  BY <1>1 DEF Limit
<1>3. b \in BuildersOver(Tree(calls + 1), CTEs)
  BY <1>2, NextTyped DEF Method
<1>4. q \in BuildersOver(Tree(calls + 1), CTEs)
  BY <1>1, <1>3, CheckedTyped
<1>5. limit \in Int
  BY BuildersAssumption
<1>6. [q EXCEPT !.limit = limit] \in BuildersOver(Tree(calls + 1), CTEs)
  BY <1>4, <1>5, Changed
<1> QED
  BY <1>2, <1>6, MethodKeeps

LEMMA OffsetKeeps ==
    ASSUME BuildersInv, NEW offset \in Limits, Offset(offset)
    PROVE  BuildersInv'
<1>1. PICK q : q = Checked(ValidOffset(offset))
  OBVIOUS
<1>2. Method([q EXCEPT !.offset = offset])
  BY <1>1 DEF Offset
<1>3. b \in BuildersOver(Tree(calls + 1), CTEs)
  BY <1>2, NextTyped DEF Method
<1>4. q \in BuildersOver(Tree(calls + 1), CTEs)
  BY <1>1, <1>3, CheckedTyped
<1>5. offset \in Int
  BY BuildersAssumption
<1>6. [q EXCEPT !.offset = offset] \in BuildersOver(Tree(calls + 1), CTEs)
  BY <1>4, <1>5, Changed
<1> QED
  BY <1>2, <1>6, MethodKeeps

LEMMA GroupByKeeps ==
    ASSUME BuildersInv, NEW column \in Columns, GroupBy(column)
    PROVE  BuildersInv'
<1>1. PICK q : q = Checked(ValidColumnReference(column))
  OBVIOUS
<1>2. PICK r : r = [q EXCEPT !.groupBy = Append(q.groupBy, column)]
  OBVIOUS
<1>3. Method(IF q.err THEN q ELSE r)
  BY <1>1, <1>2 DEF GroupBy
<1>4. b \in BuildersOver(Tree(calls + 1), CTEs) /\ Given \subseteq Tree(calls + 1)
  BY <1>3, NextTyped DEF Method
<1>5. q \in BuildersOver(Tree(calls + 1), CTEs)
  BY <1>1, <1>4, CheckedTyped
<1>6. Append(q.groupBy, column) \in Seq(Words)
  BY <1>5, BuilderParts, BuildersAssumption, AppendProperties
<1>7. r \in BuildersOver(Tree(calls + 1), CTEs)
  BY <1>2, <1>5, <1>6, Changed
<1> QED
  BY <1>3, <1>5, <1>7, MethodKeeps

LEMMA JoinKeeps ==
    ASSUME BuildersInv, NEW type \in {"JOIN", "FULL_JOIN"}, NEW table \in Tables,
           NEW cond \in JoinConditions, Join(type, table, cond)
    PROVE  BuildersInv'
<1>1. PICK q : q = Checked(ValidIdentifier(table) /\ (type = "FULL_JOIN" => dialect.fullJoin))
  OBVIOUS
<1>2. PICK r : r = [q EXCEPT !.joins = Append(q.joins, [type |-> type, table |-> table, on |-> <<cond>>])]
  OBVIOUS
<1>3. Method(IF q.err THEN q ELSE r)
  BY <1>1, <1>2 DEF Join
<1>4. b \in BuildersOver(Tree(calls + 1), CTEs) /\ Given \subseteq Tree(calls + 1)
  BY <1>3, NextTyped DEF Method
<1>5. q \in BuildersOver(Tree(calls + 1), CTEs)
  BY <1>1, <1>4, CheckedTyped
<1>6. Append(q.joins, [type |-> type, table |-> table, on |-> <<cond>>]) \in Seq(Joins(Tree(calls + 1)))
  <2>1. q.joins \in Seq(Joins(Tree(calls + 1)))
    BY <1>5, BuilderParts DEF Joins
  <2>2. [type |-> type, table |-> table, on |-> <<cond>>] \in Joins(Tree(calls + 1))
    <3>1. <<cond>> \in Seq(Tree(calls + 1))
      BY <1>4, BuildersAssumption
    <3>2. type \in JoinWords /\ table \in Words
      BY BuildersAssumption DEF JoinWords
    <3> QED
      BY <3>1, <3>2 DEF Joins
  <2> QED
    BY <2>1, <2>2, AppendProperties
<1>7. r \in BuildersOver(Tree(calls + 1), CTEs)
  BY <1>2, <1>5, <1>6, Changed
<1> QED
  BY <1>3, <1>5, <1>7, MethodKeeps

LEMMA CrossJoinKeeps ==
    ASSUME BuildersInv, NEW table \in Tables, CrossJoin(table)
    PROVE  BuildersInv'
<1>1. PICK q : q = Checked(ValidIdentifier(table))
  OBVIOUS
<1>2. PICK r : r = [q EXCEPT !.joins = Append(q.joins, [type |-> "CROSS_JOIN", table |-> table, on |-> <<>>])]
  OBVIOUS
<1>3. Method(IF q.err THEN q ELSE r)
  BY <1>1, <1>2 DEF CrossJoin
<1>4. b \in BuildersOver(Tree(calls + 1), CTEs) /\ Given \subseteq Tree(calls + 1)
  BY <1>3, NextTyped DEF Method
<1>5. q \in BuildersOver(Tree(calls + 1), CTEs)
  BY <1>1, <1>4, CheckedTyped
<1>6. Append(q.joins, [type |-> "CROSS_JOIN", table |-> table, on |-> <<>>]) \in Seq(Joins(Tree(calls + 1)))
  <2>1. q.joins \in Seq(Joins(Tree(calls + 1)))
    BY <1>5, BuilderParts DEF Joins
  <2>2. [type |-> "CROSS_JOIN", table |-> table, on |-> <<>>] \in Joins(Tree(calls + 1))
    <3>1. <<>> \in Seq(Tree(calls + 1))
      BY EmptySeq
    <3>2. "CROSS_JOIN" \in JoinWords /\ table \in Words
      BY BuildersAssumption DEF JoinWords
    <3> QED
      BY <3>1, <3>2 DEF Joins
  <2> QED
    BY <2>1, <2>2, AppendProperties
<1>7. r \in BuildersOver(Tree(calls + 1), CTEs)
  BY <1>2, <1>5, <1>6, Changed
<1> QED
  BY <1>3, <1>5, <1>7, MethodKeeps

\* Or puts the last condition and the new one under an Or.
LEMMA OrWhereKeeps ==
    ASSUME BuildersInv, NEW cond \in Conditions, OrWhere(cond)
    PROVE  BuildersInv'
<1>1. PICK n : n = Len(b.conditions)
  OBVIOUS
<1>2. calls < MaxCalls
  BY DEF OrWhere, Method
<1>3. /\ b \in BuildersOver(Tree(calls + 1), CTEs) /\ b \in BuildersOver(Tree(calls), CTEs)
      /\ Given \subseteq Tree(calls + 1) /\ Given \subseteq Tree(calls)
      /\ Tree(calls + 1) = NodesOver(Tree(calls))
  BY <1>2, NextTyped
<1>4. cond \in Tree(calls) /\ cond \in Tree(calls + 1)
  BY <1>3, BuildersAssumption
<1>5. CASE n = 0
  <2>1. Method([b EXCEPT !.conditions = <<cond>>])
    BY <1>1, <1>5 DEF OrWhere
  <2>2. <<cond>> \in Seq(Tree(calls + 1))
    BY <1>4
  <2>3. [b EXCEPT !.conditions = <<cond>>] \in BuildersOver(Tree(calls + 1), CTEs)
    BY <1>3, <2>2, Changed
  <2> QED
    BY <2>1, <2>3, MethodKeeps
<1>6. CASE n # 0
  <2>1. PICK old, or, new : /\ old = b.conditions /\ or = Or(<<old[n], cond>>)
                            /\ new = [old EXCEPT ![n] = or]
    OBVIOUS
  <2>2. Method([b EXCEPT !.conditions = new])
    BY <1>1, <1>6, <2>1 DEF OrWhere
  <2>3. old \in Seq(Tree(calls)) /\ old \in Seq(Tree(calls + 1))
    BY <1>3, <2>1, BuilderParts
  <2>4. n \in 1..Len(old) /\ old[n] \in Tree(calls)
    BY <1>1, <1>6, <2>1, <2>3
  <2>5. or \in Tree(calls + 1)
    BY <1>3, <1>4, <2>1, <2>4, OrTree
  <2>6. new \in Seq(Tree(calls + 1))
    <3>1. PICK T : T = Tree(calls + 1)
      OBVIOUS
    <3>2. old \in Seq(T) /\ or \in T
      BY <2>3, <2>5, <3>1
    <3>3. new \in Seq(T)
      BY <2>1, <2>4, <3>2
    <3> QED
      BY <3>1, <3>3
  <2>7. [b EXCEPT !.conditions = new] \in BuildersOver(Tree(calls + 1), CTEs)
    BY <1>3, <2>6, Changed
  <2> QED
    BY <2>2, <2>7, MethodKeeps
<1> QED
  BY <1>5, <1>6

LEMMA SetKeeps ==
    ASSUME BuildersInv, NEW column \in Columns, NEW value \in SetValues, Set(column, value)
    PROVE  BuildersInv'
<1>1. PICK q : q = Checked(ValidIdentifier(column))
  OBVIOUS
<1>2. calls < MaxCalls
  BY DEF Set, Method
<1>3. b \in BuildersOver(Tree(calls + 1), CTEs)
  BY <1>2, NextTyped
<1>4. q \in BuildersOver(Tree(calls + 1), CTEs)
  BY <1>1, <1>3, CheckedTyped
<1>5. <<column, value>> \in Words \X BoundValues
  BY BuildersAssumption
<1>6. q.sets \in Seq(Words \X BoundValues) /\ b.sets \in Seq(Words \X BoundValues)
  BY <1>3, <1>4, BuilderParts
<1>7. PICK there : there = {i \in DOMAIN b.sets : b.sets[i][1] = column}
  OBVIOUS
<1>8. q.sets = b.sets
  BY <1>1, <1>3, BuilderParts DEF Checked
<1>9. CASE there = {}
  <2>1. Method([q EXCEPT !.sets = Append(q.sets, <<column, value>>)])
    BY <1>1, <1>7, <1>9 DEF Set
  <2>2. Append(q.sets, <<column, value>>) \in Seq(Words \X BoundValues)
    BY <1>5, <1>6, AppendProperties
  <2>3. [q EXCEPT !.sets = Append(q.sets, <<column, value>>)] \in BuildersOver(Tree(calls + 1), CTEs)
    BY <1>4, <2>2, Changed
  <2> QED
    BY <2>1, <2>3, MethodKeeps
<1>10. CASE there # {}
  <2>1. PICK s, pair, i, new : /\ s = q.sets /\ pair = <<column, value>> /\ i = Min(there)
                               /\ new = [s EXCEPT ![i] = pair]
    OBVIOUS
  <2>2. Method([q EXCEPT !.sets = new])
    BY <1>1, <1>7, <1>10, <2>1 DEF Set
  <2>3. there \subseteq Nat /\ there \subseteq DOMAIN b.sets
    BY <1>6, <1>7
  <2>4. i \in DOMAIN b.sets
    BY <1>10, <2>1, <2>3, LeastOf
  <2>5. new \in Seq(Words \X BoundValues)
    <3>1. PICK P : P = Words \X BoundValues
      OBVIOUS
    <3>2. s \in Seq(P) /\ pair \in P /\ i \in DOMAIN s
      BY <1>5, <1>6, <1>8, <2>1, <2>4, <3>1
    <3>3. new \in Seq(P)
      BY <2>1, <3>2
    <3> QED
      BY <3>1, <3>3
  <2>6. [q EXCEPT !.sets = new] \in BuildersOver(Tree(calls + 1), CTEs)
    BY <1>4, <2>5, Changed
  <2> QED
    BY <2>2, <2>6, MethodKeeps
<1> QED
  BY <1>9, <1>10

\* The sequences of the elements of a finite set.
LEMMA SequencesOfSet ==
    ASSUME NEW S, IsFiniteSet(S), NEW s \in SetToSeqs(S)
    PROVE  s \in Seq(S)
<1>1. Cardinality(S) \in Nat
  BY FS_CardinalityType
<1>2. s \in [1..Cardinality(S) -> S]
  BY DEF SetToSeqs
<1> QED
  BY <1>1, <1>2, AsSeq

LEMMA ValuesMapKeeps ==
    ASSUME BuildersInv, NEW row \in RowMaps, ValuesMap(row)
    PROVE  BuildersInv'
<1>1. PICK columns \in IF b.columns = <<>> THEN SetToSeqs(DOMAIN row) ELSE {b.columns} :
          Method([b EXCEPT !.columns = columns,
                           !.rows = Append(@, [i \in DOMAIN columns |->
                              IF columns[i] \in DOMAIN row THEN row[columns[i]] ELSE "NULL"])])
  BY DEF ValuesMap
<1>2. b \in BuildersOver(Tree(calls + 1), CTEs)
  BY <1>1, NextTyped DEF Method
<1>3. columns \in Seq(Words)
  <2>1. CASE b.columns = <<>>
    <3>1. columns \in SetToSeqs(DOMAIN row)
      BY <1>1, <2>1
    <3>2. IsFiniteSet(DOMAIN row) /\ DOMAIN row \subseteq Words
      BY BuildersAssumption
    <3>3. columns \in Seq(DOMAIN row)
      BY <3>1, <3>2, SequencesOfSet
    <3> QED
      BY <3>2, <3>3, SeqsOver
  <2>2. CASE b.columns # <<>>
    <3>1. b.columns \in Seq(Words)
      BY <1>2, BuilderParts
    <3>2. columns = b.columns
      BY <1>1, <2>2
    <3> QED
      BY <3>1, <3>2
  <2> QED
    BY <2>1, <2>2
<1>4. PICK values : values = [i \in DOMAIN columns |->
                                 IF columns[i] \in DOMAIN row THEN row[columns[i]] ELSE "NULL"]
  OBVIOUS
<1>5. values \in Seq(BoundValues)
  <2>1. DOMAIN columns = 1..Len(columns) /\ Len(columns) \in Nat
    BY <1>3
  <2>2. \A column \in DOMAIN row : row[column] \in BoundValues
    BY BuildersAssumption
  <2>3. "NULL" \in BoundValues
    BY BuildersAssumption
  <2>4. values \in [1..Len(columns) -> BoundValues]
    BY <1>4, <2>1, <2>2, <2>3
  <2> QED
    BY <2>1, <2>4, AsSeq
<1>6. PICK q, rows : /\ q = [b EXCEPT !.columns = columns]
                     /\ rows = Append(b.rows, values)
  OBVIOUS
<1>7. q \in BuildersOver(Tree(calls + 1), CTEs)
  BY <1>2, <1>3, <1>6, Changed
<1>8. rows \in Seq(Seq(BoundValues))
  BY <1>2, <1>5, <1>6, BuilderParts, AppendProperties
<1>9. [q EXCEPT !.rows = rows] \in BuildersOver(Tree(calls + 1), CTEs)
  BY <1>7, <1>8, Changed
<1>10. Method([q EXCEPT !.rows = rows])
  BY <1>1, <1>4, <1>6
<1> QED
  BY <1>9, <1>10, MethodKeeps

LEMMA FilterParts ==
    ASSUME NEW f \in Filters
    PROVE  /\ f.field \in Identifiers \cup References /\ f.op \in Operators
           /\ f.values \in Seq(BoundValues) /\ f.values # <<>>
           /\ f.values[1] \in Searched /\ f.values[1] \in BoundValues
           /\ Pattern[f.values[1]] \in BoundValues
<1>1. /\ f.field \in Identifiers \cup References /\ f.op \in Operators
      /\ f.values \in Seq(Searched) /\ f.values # <<>>
  BY DEF Filters
<1>2. Searched \subseteq BoundValues /\ Pattern \in [Searched -> BoundValues]
  BY FilteringAssumption
<1>3. f.values[1] \in Searched
  BY <1>1
<1>4. f.values \in Seq(BoundValues)
  BY <1>1, <1>2
<1> QED
  BY <1>1, <1>2, <1>3, <1>4

\* What a filter is as a condition.
ColumnOf(f) == <<f.field, Compares(f)>>
KindOf(f) == CASE f.op = "in" -> "in" [] f.op = "nin" -> "not_in" [] OTHER -> "pred"

LEMMA FilterNames ==
    ASSUME NEW f \in Filters
    PROVE  /\ ColumnOf(f) \in DOMAIN Quoted /\ Quoted[ColumnOf(f)] \in Words
           /\ Bare[ColumnOf(f)] \in Words
           /\ Arguments(f) \in Seq(BoundValues) /\ Arguments(f) # <<>>
           /\ KindOf(f) \in {"pred", "in", "not_in"}
<1>1. Compares(f) \in Comparisons
  BY FilterParts DEF Compares, Comparisons, Operators
<1>2. ColumnOf(f) \in (Identifiers \cup References) \X Comparisons
  BY <1>1, FilterParts DEF ColumnOf
<1>3. /\ Quoted \in [(Identifiers \cup References) \X Comparisons -> Words]
      /\ Bare \in [(Identifiers \cup References) \X Comparisons -> Words]
  BY FilteringAssumption
<1>4. \A v \in BoundValues : <<v>> \in Seq(BoundValues) /\ <<v>> # <<>>
  OBVIOUS
<1>5. Arguments(f) \in Seq(BoundValues) /\ Arguments(f) # <<>>
  BY <1>4, FilterParts DEF Arguments
<1>6. KindOf(f) \in {"pred", "in", "not_in"}
  BY DEF KindOf
<1> QED
  BY <1>2, <1>3, <1>5, <1>6

LEMMA ConditionIs ==
    ASSUME NEW f \in Filters
    PROVE  ConditionOf(f) = Node(KindOf(f), Quoted[ColumnOf(f)], Arguments(f), <<>>)
<1>1. ValidColumnReference(f.field) /\ f.op \in Operators
  BY FilterParts DEF ValidColumnReference
<1>2. CASE f.op = "in"
  BY <1>1, <1>2 DEF ConditionOf, In, KindOf, ColumnOf, Arguments, Compares
<1>3. CASE f.op = "nin"
  BY <1>1, <1>3 DEF ConditionOf, NotIn, KindOf, ColumnOf, Arguments, Compares
<1>4. CASE f.op \in {"like", "ilike"}
  BY <1>1, <1>4 DEF ConditionOf, Comparison, KindOf, ColumnOf, Arguments, Compares
<1>5. CASE f.op \in {"eq", "ne", "gt", "gte", "lt", "lte"}
  BY <1>1, <1>5 DEF ConditionOf, Comparison, KindOf, ColumnOf, Arguments, Compares
<1> QED
  BY <1>1, <1>2, <1>3, <1>4, <1>5 DEF Operators

LEMMA FiltersParsed ==
    ASSUME NEW params \in QueryStrings, NEW s \in ParseFilters(params)
    PROVE  s \in Seq(Filters)
<1> DEFINE understood == {p \in params : Understood(p)}
<1>1. IsFiniteSet(understood)
  <2>1. IsFiniteSet(params) /\ understood \subseteq params
    BY BuildersAssumption
  <2> QED
    BY <2>1, FS_Subset
<1>2. PICK seq \in SetToSeqs(understood) : s = [i \in DOMAIN seq |-> FilterOf(seq[i])]
  BY DEF ParseFilters
<1> HIDE DEF understood
<1>3. seq \in Seq(understood)
  BY <1>1, <1>2, SequencesOfSet
<1>4. ASSUME NEW param \in understood PROVE FilterOf(param) \in Filters
  <2>1. /\ param.field \in AllowedFields /\ OperatorOf(param.suffix) \in Operators
        /\ param.values # <<>> /\ param \in params
    BY DEF understood, Understood
  <2>2. param.values \in Seq(Searched)
    BY <2>1, BuildersAssumption
  <2>3. FieldMap[param.field] \in Identifiers \cup References
    BY <2>1, FilteringAssumption
  <2>4. PICK op : op = OperatorOf(param.suffix)
    OBVIOUS
  <2>5. PICK new \in Operators : new = CASE op = "eq" /\ Len(param.values) > 1 -> "in"
                                         [] op = "in" /\ Len(param.values) = 1 -> "eq"
                                         [] OTHER -> op
    BY <2>1, <2>4 DEF Operators
  <2>6. FilterOf(param) = [field |-> FieldMap[param.field], values |-> param.values, op |-> new]
    BY <2>4, <2>5 DEF FilterOf
  <2> QED
    BY <2>1, <2>2, <2>3, <2>6 DEF Filters
<1>5. DOMAIN seq = 1..Len(seq) /\ Len(seq) \in Nat /\ \A i \in 1..Len(seq) : seq[i] \in understood
  BY <1>3
<1>6. s \in [1..Len(seq) -> Filters]
  BY <1>2, <1>4, <1>5
<1> QED
  BY <1>5, <1>6, AsSeq

LEMMA ConditionTree ==
    ASSUME NEW T, NEW f \in Filters
    PROVE  ConditionOf(f) \in NodesOver(T)
<1>1. PICK k \in {"pred", "in", "not_in"}, name \in Words, vals \in Seq(BoundValues) :
          ConditionOf(f) = Node(k, name, vals, <<>>)
  BY FilterNames, ConditionIs
<1> QED
  BY <1>1, LeafTree

LEMMA ConditionHigh ==
    \A f \in Filters : ConditionOf(f) \in Trees[MaxHeight]
<1>1. PICK h \in 0..(MaxHeight - 1) : h + 1 = MaxHeight
  <2>1. MaxHeight - 1 \in 0..(MaxHeight - 1) /\ (MaxHeight - 1) + 1 = MaxHeight
    BY WordsAssumption, BuildersAssumption
  <2> QED
    BY <2>1
<1>2. Trees[h + 1] = NodesOver(Trees[h])
  BY TreesHeights
<1> QED
  BY <1>1, <1>2, ConditionTree

LEMMA OrdersParsed ==
    ASSUME NEW ordering \in Orderings, NEW s \in ParseOrders(ordering, Rank)
    PROVE  s \in Seq(Words)
<1>1. IsFiniteSet(ordering \cap AllowedFields)
  <2>1. IsFiniteSet(ordering)
    BY BuildersAssumption
  <2> QED
    BY <2>1, FS_Subset
<1>2. PICK seq \in SetToSeqs(ordering \cap AllowedFields) : s = [i \in DOMAIN seq |-> FieldMap[seq[i]]]
  BY DEF ParseOrders
<1>3. seq \in Seq(ordering \cap AllowedFields)
  BY <1>1, <1>2, SequencesOfSet
<1>4. DOMAIN seq = 1..Len(seq) /\ Len(seq) \in Nat /\ \A i \in 1..Len(seq) : seq[i] \in AllowedFields
  BY <1>3
<1>5. \A field \in AllowedFields : FieldMap[field] \in Words
  BY FilteringAssumption, WordsAssumption
<1>6. s \in [1..Len(seq) -> Words]
  BY <1>2, <1>4, <1>5
<1> QED
  BY <1>4, <1>6, AsSeq

LEMMA ListKeeps ==
    ASSUME BuildersInv, NEW params \in QueryStrings, NEW ordering \in Orderings, List(params, ordering)
    PROVE  BuildersInv'
<1>1. /\ calls < MaxCalls /\ filters = <<>> /\ filters' \in ParseFilters(params) /\ filters' # <<>>
      /\ calls' = calls + 1 /\ built' = NotBuilt /\ dialect' = dialect
      /\ clause' = clause /\ clauses' = clauses
  BY DEF List
<1>2. PICK orders \in ParseOrders(ordering, Rank) :
          b' = [b EXCEPT !.conditions = @ \o [i \in DOMAIN filters' |-> ConditionOf(filters'[i])],
                         !.orderBy = @ \o orders]
  BY DEF List
<1>3. PICK s : s = filters'
  OBVIOUS
<1>4. s \in Seq(Filters)
  BY <1>1, <1>3, FiltersParsed
<1>5. /\ b \in BuildersOver(Tree(calls + 1), CTEs) /\ calls + 1 \in 0..MaxCalls
      /\ Tree(calls + 1) = NodesOver(Tree(calls))
  BY <1>1, NextTyped
<1>6. PICK conds : conds = [i \in DOMAIN s |-> ConditionOf(s[i])]
  OBVIOUS
<1>7. conds \in Seq(Tree(calls + 1))
  <2>1. DOMAIN s = 1..Len(s) /\ Len(s) \in Nat /\ \A i \in 1..Len(s) : s[i] \in Filters
    BY <1>4
  <2>2. conds \in [1..Len(s) -> Tree(calls + 1)]
    BY <1>5, <1>6, <2>1, ConditionTree
  <2> QED
    BY <2>1, <2>2, AsSeq
<1>8. PICK q, u, v : u = b.conditions \o conds /\ v = b.orderBy \o orders /\ q = [b EXCEPT !.conditions = u]
  OBVIOUS
<1>9. u \in Seq(Tree(calls + 1)) /\ v \in Seq(Words)
  BY <1>2, <1>5, <1>7, <1>8, BuilderParts, OrdersParsed, ConcatProperties
<1>10. q \in BuildersOver(Tree(calls + 1), CTEs)
  BY <1>5, <1>8, <1>9, Changed
<1>11. [q EXCEPT !.orderBy = v] \in BuildersOver(Tree(calls + 1), CTEs)
  BY <1>9, <1>10, Changed
<1>12. b' = [q EXCEPT !.orderBy = v]
  BY <1>2, <1>3, <1>6, <1>8
<1>13. Sound(dialect', built') /\ dialect' \in Dialects
  BY <1>1, NotBuiltSound DEF BuildersInv
<1>14. FilterInv'
  BY <1>1, <1>3, <1>4 DEF BuildersInv, FilterInv
<1> QED
  BY <1>1, <1>5, <1>11, <1>12, <1>13, <1>14 DEF BuildersInv

LEMMA BuildWhereClauseKeeps ==
    ASSUME BuildersInv, BuildWhereClause
    PROVE  BuildersInv'
<1>1. /\ filters # <<>> /\ clauses' = clauses + 1 /\ clause' = WhereClause(dialect, filters, clause.next)
      /\ dialect' = dialect /\ b' = b /\ calls' = calls /\ built' = built /\ filters' = filters
  BY DEF BuildWhereClause
<1>2. FilterInv
  BY DEF BuildersInv
<1>3. clauses \in Nat /\ clauses' \in Nat /\ clauses' # 0 /\ (clauses' = 1 => clauses = 0)
  BY <1>1, <1>2 DEF FilterInv
<1>4. clauses' = 1 => clause' = WhereClause(dialect', filters', 1)
  BY <1>1, <1>2, <1>3 DEF FilterInv
<1>5. FilterInv'
  BY <1>1, <1>2, <1>3, <1>4 DEF FilterInv
<1> QED
  BY <1>1, <1>5 DEF BuildersInv

LEMMA BuildKeeps ==
    ASSUME BuildersInv, Build
    PROVE  BuildersInv'
<1>1. /\ dialect' = dialect /\ b' = b /\ calls' = calls
      /\ filters' = filters /\ clause' = clause /\ clauses' = clauses
  BY DEF Build, filterVars
<1>2. dialect \in Dialects /\ calls \in 0..MaxCalls /\ Typed(b, calls)
  BY DEF BuildersInv, Typed, Tree, CTEs
<1>3. b.verb \in {"select", "update", "delete", "insert", "cte"}
  BY BuilderParts DEF BuildersInv
<1>4. built' \in {SelectBuild(render, b), UpdateBuild, DeleteBuild, InsertBuild, CTEBuild}
  BY <1>3 DEF Build
<1>5. Sound(dialect, built')
  BY <1>2, <1>4, SelectSound, UpdateSound, DeleteSound, InsertSound, CTESound
<1>6. FilterInv'
  BY <1>1 DEF BuildersInv, FilterInv
<1> QED
  BY <1>1, <1>5, <1>6 DEF BuildersInv

LEMMA InitTyped ==
    ASSUME Init
    PROVE  BuildersInv
<1>1. /\ dialect \in Dialects /\ calls = 0 /\ built = NotBuilt
      /\ filters = <<>> /\ clauses = 0 /\ clause = Fragment(<<>>, <<>>, 1)
  BY DEF Init
<1>2. calls \in 0..MaxCalls /\ Sound(dialect, built)
  BY <1>1, NotBuiltSound, BuildersAssumption
<1>3. FilterInv
  BY <1>1, EmptySeq DEF FilterInv, Fragment
<1>4. <<>> \in CTEs /\ <<>> \in Seq(Words)
  BY EmptySeq DEF CTEs
<1>5. b \in BuildersOver(Tree(0), CTEs)
  <2>1. CASE \E verb \in Verbs \ {"cte"}, table \in Tables :
                b = Builder(verb, IF verb = "select" THEN <<>> ELSE <<table>>)
    <3>1. PICK verb \in Verbs \ {"cte"}, table \in Tables :
                b = Builder(verb, IF verb = "select" THEN <<>> ELSE <<table>>)
      BY <2>1
    <3>2. PICK t : t = IF verb = "select" THEN <<>> ELSE <<table>>
      OBVIOUS
    <3>3. t \in Seq(Words)
      <4>1. \A w \in Words : <<w>> \in Seq(Words)
        OBVIOUS
      <4> QED
        BY <1>4, <3>2, <4>1, BuildersAssumption
    <3>4. verb \in Verbs5
      BY BuildersAssumption DEF Verbs5
    <3> QED
      BY <1>4, <3>1, <3>2, <3>3, <3>4, BuilderTyped
  <2>2. CASE \E query \in Selects : /\ "cte" \in Verbs
                                    /\ b = [Builder("cte", <<>>) EXCEPT !.ctes = <<query>>]
    <3>1. PICK query \in Selects : b = [Builder("cte", <<>>) EXCEPT !.ctes = <<query>>]
      BY <2>2
    <3>2. Builder("cte", <<>>) \in BuildersOver(Tree(0), CTEs)
      BY <1>4, BuilderTyped DEF Verbs5
    <3>3. <<query>> \in CTEs
      <4>1. query \in BuildersOver(Given, {<<>>})
        BY BuildersAssumption
      <4>2. PICK S : S = BuildersOver(Given, {<<>>})
        OBVIOUS
      <4>3. query \in S /\ <<query>> \in Seq(S)
        BY <4>1, <4>2
      <4> QED
        BY <4>2, <4>3 DEF CTEs
    <3>4. PICK q : q = Builder("cte", <<>>)
      OBVIOUS
    <3> QED
      BY <3>1, <3>2, <3>3, <3>4, Changed
  <2> QED
    BY <2>1, <2>2 DEF Init
<1> QED
  BY <1>1, <1>2, <1>3, <1>5 DEF BuildersInv

LEMMA BuildersStep ==
    ASSUME BuildersInv, [Next]_vars
    PROVE  BuildersInv'
<1>1. CASE \E table \in Tables : From(table) \/ CrossJoin(table)
  BY <1>1, FromKeeps, CrossJoinKeeps
<1>2. CASE \E column \in Columns : SelectColumn(column) \/ GroupBy(column) \/ OrderBy(column)
  BY <1>2, SelectColumnKeeps, GroupByKeeps, OrderByKeeps
<1>3. CASE \E expr \in Expressions : SelectExpr(expr) \/ GroupByExpr(expr) \/ OrderByExpr(expr)
  BY <1>3, SelectExprKeeps, GroupByExprKeeps, OrderByExprKeeps
<1>4. CASE \E cond \in Conditions : Where(cond) \/ OrWhere(cond)
  BY <1>4, WhereKeeps, OrWhereKeeps
<1>5. CASE \E type \in {"JOIN", "FULL_JOIN"}, table \in Tables, cond \in JoinConditions :
              Join(type, table, cond)
  BY <1>5, JoinKeeps
<1>6. CASE \E cond \in HavingConditions : Having(cond)
  BY <1>6, HavingKeeps
<1>7. CASE \E n \in Limits : Limit(n) \/ Offset(n)
  BY <1>7, LimitKeeps, OffsetKeeps
<1>8. CASE \E query \in Selects : AndCTE(query)
  BY <1>8, AndCTEKeeps
<1>9. CASE \E column \in Columns, value \in SetValues : Set(column, value)
  BY <1>9, SetKeeps
<1>10. CASE \E columns \in ColumnLists : InsertColumns(columns)
  BY <1>10, InsertColumnsKeeps
<1>11. CASE \E row \in RowValues : InsertValues(row)
  BY <1>11, InsertValuesKeeps
<1>12. CASE \E row \in RowMaps : ValuesMap(row)
  BY <1>12, ValuesMapKeeps
<1>13. CASE \E params \in QueryStrings, ordering \in Orderings : List(params, ordering)
  BY <1>13, ListKeeps
<1>14. CASE BuildWhereClause
  BY <1>14, BuildWhereClauseKeeps
<1>15. CASE Distinct \/ Returning \/ OnConflictDoNothing \/ Build
  BY <1>15, DistinctKeeps, ReturningKeeps, OnConflictDoNothingKeeps, BuildKeeps
<1>16. CASE UNCHANGED vars
  BY <1>16 DEF vars, BuildersInv, FilterInv
<1> QED
  BY <1>1, <1>2, <1>3, <1>4, <1>5, <1>6, <1>7, <1>8, <1>9, <1>10, <1>11, <1>12, <1>13, <1>14,
     <1>15, <1>16 DEF Next

LEMMA Invariance == Spec => []BuildersInv
<1>1. Init => BuildersInv
  BY InitTyped
<1>2. BuildersInv /\ [Next]_vars => BuildersInv'
  BY BuildersStep
<1> QED
  BY <1>1, <1>2, PTL DEF Spec

-----------------------------------------------------------------------------
(* Theorems                                                                *)

\* Whatever methods were called, whatever trees they were given: each value
\* of a built statement reaches the database for the placeholder it was
\* written for (query/*.go).
THEOREM PlaceholdersAlwaysBound == Spec => []PlaceholdersBound
<1>1. BuildersInv => PlaceholdersBound
  <2> SUFFICES ASSUME BuildersInv, Answered
               PROVE  BoundTo(dialect, built.text, built.args)
    BY DEF PlaceholdersBound
  <2>1. dialect \in Dialects /\ Sound(dialect, built) /\ ~built.err
    BY DEF BuildersInv, Answered
  <2>2. PICK text, args : text = built.text /\ args = built.args
    OBVIOUS
  <2>3. Numbers(dialect, text, args, 1)
    BY <2>1, <2>2 DEF Sound
  <2> QED
    BY <2>1, <2>2, <2>3, NumbersBound
<1> QED
  BY <1>1, Invariance, PTL

-----------------------------------------------------------------------------
(* Filters: the clause of a FilterSet, and its filters as conditions       *)

FilterSQL(d, name, vals, p) == Values(d, <<Pred(name)>>, vals, p)

LEMMA FilterSQLParts ==
    ASSUME NEW d \in Dialects, NEW name \in Words, NEW vals \in Seq(BoundValues), NEW p \in Nat
    PROVE  /\ FilterSQL(d, name, vals, p).text \in Seq(Token)
           /\ FilterSQL(d, name, vals, p).args = vals
           /\ FilterSQL(d, name, vals, p).next = p + Len(vals)
<1>1. PICK head \in Unmarked : head = <<Pred(name)>>
  BY PredsUnmarked
<1>2. PICK g : g = Values(d, head, vals, p)
  OBVIOUS
<1>3. Right(d, g, p)
  BY <1>2, ValuesRight
<1>4. g.text \in Seq(Token)
  BY <1>3, RightNext
<1>5. g.args = vals /\ g.next = p + Len(vals)
  BY <1>2 DEF Values, Fragment
<1> QED
  BY <1>1, <1>2, <1>4, <1>5 DEF FilterSQL

\* A condition on one column, with values, is its name and its placeholders.
LEMMA FilterRendered ==
    ASSUME dialect \in Dialects, NEW p \in Nat, NEW k \in {"pred", "in", "not_in"},
           NEW name \in Words, NEW vals \in Seq(BoundValues), vals # <<>>
    PROVE  /\ Node(k, name, vals, <<>>) \in Trees[MaxHeight]
           /\ render[<<Node(k, name, vals, <<>>), p>>] = FilterSQL(dialect, name, vals, p)
<1>1. MaxHeight - 1 \in 0..(MaxHeight - 1) /\ (MaxHeight - 1) + 1 = MaxHeight
  BY WordsAssumption, BuildersAssumption
<1>2. PICK r, T, c : /\ r = Rendering(dialect)[MaxHeight - 1] /\ T = Trees[MaxHeight]
                     /\ c = Node(k, name, vals, <<>>)
  OBVIOUS
<1>3. c \in T
  <2>1. T = NodesOver(Trees[MaxHeight - 1])
    BY <1>1, <1>2, TreesHeights
  <2> QED
    BY <1>2, <2>1, LeafTree
<1>4. render = [at \in T \X Nat |-> NodeSQL(dialect, r, at[1], at[2])]
  <2>1. PICK h \in 0..(MaxHeight - 1) : h = MaxHeight - 1 /\ h + 1 = MaxHeight
    BY <1>1
  <2>2. Rendering(dialect)[h + 1] =
            [at \in Trees[h + 1] \X Nat |-> NodeSQL(dialect, Rendering(dialect)[h], at[1], at[2])]
    BY RenderingHeights
  <2>3. h + 1 = MaxHeight /\ Rendering(dialect)[h] = r /\ Trees[h + 1] = T
    BY <1>2, <2>1
  <2>4. Rendering(dialect)[h + 1] = [at \in T \X Nat |-> NodeSQL(dialect, r, at[1], at[2])]
    BY <2>2, <2>3, Zenon
  <2>5. render = Rendering(dialect)[h + 1]
    BY <2>3, Zenon DEF render
  <2> QED
    BY <2>4, <2>5, Zenon
<1>5. render[<<c, p>>] = NodeSQL(dialect, r, c, p)
  <2>1. PICK at : at = <<c, p>>
    OBVIOUS
  <2>2. at \in T \X Nat /\ at[1] = c /\ at[2] = p
    BY <1>3, <2>1
  <2>3. render[at] = NodeSQL(dialect, r, at[1], at[2])
    BY <1>4, <2>2
  <2> QED
    BY <2>1, <2>2, <2>3
<1>6. c.k = k /\ c.name = name /\ c.vals = vals
  BY <1>2 DEF Node
<1>7. NodeSQL(dialect, r, c, p) = Values(dialect, <<Pred(name)>>, vals, p)
  BY <1>6 DEF NodeSQL
<1> QED
  BY <1>2, <1>3, <1>5, <1>7 DEF FilterSQL

\* Filters as nodes of some names: those of their columns quoted, or bare.
Converted(fs, lists, names, nodes) ==
    /\ lists = [i \in DOMAIN fs |-> Arguments(fs[i])]
    /\ names \in [DOMAIN fs -> Words]
    /\ nodes = [i \in DOMAIN fs |-> Node(KindOf(fs[i]), names[i], lists[i], <<>>)]

FiltersWritten(c, names, lists) ==
    /\ c.parts \in Seq(Seq(Token)) /\ Len(c.parts) = Len(lists) /\ c.args = FlattenSeq(lists)
    /\ \A i \in 1..Len(lists) :
          c.parts[i] = FilterSQL(dialect, names[i], lists[i], 1 + Before(lists, i)).text

LEMMA ChainOfFilters ==
    ASSUME dialect \in Dialects, NEW fs \in Seq(Filters),
           NEW lists, NEW names, NEW nodes, Converted(fs, lists, names, nodes)
    PROVE  /\ lists \in Seq(Seq(BoundValues)) /\ Len(lists) = Len(fs)
           /\ nodes \in Seq(Trees[MaxHeight]) /\ Len(nodes) = Len(fs)
           /\ FiltersWritten(Chain(render, nodes, 1), names, lists)
<1> DEFINE n == Len(fs)
<1>1. n \in Nat /\ DOMAIN fs = 1..n /\ \A i \in 1..n : fs[i] \in Filters
  OBVIOUS
<1> HIDE DEF n
<1>2. lists \in Seq(Seq(BoundValues)) /\ Len(lists) = n
  <2>1. \A i \in 1..n : Arguments(fs[i]) \in Seq(BoundValues)
    BY <1>1, FilterNames
  <2>2. lists \in [1..n -> Seq(BoundValues)]
    BY <1>1, <2>1 DEF Converted
  <2> QED
    BY <1>1, <2>2, AsSeq
<1>3. PICK T : T = Trees[MaxHeight]
  OBVIOUS
<1>4. nodes \in Seq(T) /\ Len(nodes) = n
  <2>1. ASSUME NEW i \in 1..n PROVE nodes[i] \in T
    <3>1. /\ nodes[i] = Node(KindOf(fs[i]), names[i], lists[i], <<>>) /\ names[i] \in Words
          /\ lists[i] = Arguments(fs[i])
      BY <1>1 DEF Converted
    <3>2. lists[i] \in Seq(BoundValues) /\ lists[i] # <<>> /\ KindOf(fs[i]) \in {"pred", "in", "not_in"}
      BY <1>1, <3>1, FilterNames
    <3>3. PICK kind \in {"pred", "in", "not_in"}, name \in Words, vals \in Seq(BoundValues) :
              nodes[i] = Node(kind, name, vals, <<>>) /\ vals # <<>>
      BY <3>1, <3>2
    <3>4. Node(kind, name, vals, <<>>) \in Trees[MaxHeight]
      BY <3>3, FilterRendered, 0 \in Nat
    <3> QED
      BY <1>3, <3>3, <3>4
  <2>2. nodes \in [1..n -> T]
    <3>1. nodes = [i \in 1..n |-> nodes[i]]
      BY <1>1 DEF Converted
    <3> QED
      BY <2>1, <3>1
  <2> QED
    BY <1>1, <2>2, AsSeq
<1>5. RendersRight(dialect, render, T)
  BY <1>3, RenderRight
<1>6. PICK F \in [0..n -> Accumulated] :
          Links(F, render, nodes, 1) /\ Chain(render, nodes, 1) = F[n]
  <2>1. PICK r, one : r = render /\ one = 1
    OBVIOUS
  <2>2. RendersRight(dialect, r, T) /\ one \in Nat
    BY <1>5, <2>1
  <2>3. PICK F \in [0..Len(nodes) -> Accumulated] :
            Links(F, r, nodes, one) /\ Chain(r, nodes, one) = F[Len(nodes)]
    BY <1>4, <2>2, ChainLinks
  <2> QED
    BY <1>4, <2>1, <2>2, <2>3, Zenon
<1>7. PICK g \in [0..n -> Seq(BoundValues)] : Flattens(g, lists)
  BY <1>2, FlattenPrefixes
<1> DEFINE Part(i) == FilterSQL(dialect, names[i], lists[i], 1 + Before(lists, i))
           P == {k \in 0..n : /\ F[k].args = g[k] /\ F[k].next = 1 + Len(g[k]) /\ Len(F[k].parts) = k
                              /\ \A j \in 1..k : F[k].parts[j] = Part(j).text}
<1>8. 0 \in P
  <2>1. F[0] = [parts |-> <<>>, args |-> <<>>, next |-> 1]
    BY <1>6 DEF Links
  <2>2. g[0] = <<>>
    BY <1>7 DEF Flattens, Gathers
  <2>3. 0 \in 0..n /\ Len(<<>>) = 0 /\ 1 + 0 = 1
    BY <1>1
  <2> HIDE DEF Part
  <2> QED
    BY <2>1, <2>2, <2>3
<1>9. ASSUME NEW k \in 0..(n - 1), k \in P PROVE k + 1 \in P
  <2>1. k + 1 \in 1..n /\ (k + 1) - 1 = k /\ k \in 0..n /\ k + 1 \in 0..n /\ k \in Nat
    BY <1>1
  <2>2. PICK acc \in Accumulated : acc = F[k]
    BY <1>6, <2>1
  <2>3. /\ acc.parts \in Seq(Seq(Token)) /\ acc.args \in Seq(BoundValues) /\ acc.next \in Nat
        /\ acc.args = g[k] /\ acc.next = 1 + Len(g[k]) /\ Len(acc.parts) = k
        /\ \A j \in 1..k : acc.parts[j] = Part(j).text
    <3> HIDE DEF Part
    <3> QED
      BY <1>9, <2>2 DEF Accumulated
  <2>4. PICK f \in Filters : f = fs[k + 1]
    BY <1>1, <2>1
  <2>5. PICK kind \in {"pred", "in", "not_in"}, name \in Words, vals \in Seq(BoundValues) :
            /\ nodes[k + 1] = Node(kind, name, vals, <<>>) /\ vals # <<>>
            /\ lists[k + 1] = vals /\ names[k + 1] = name
    <3>1. /\ nodes[k + 1] = Node(KindOf(f), names[k + 1], lists[k + 1], <<>>)
          /\ names[k + 1] \in Words /\ lists[k + 1] = Arguments(f)
      BY <1>1, <2>1, <2>4 DEF Converted
    <3> QED
      BY <3>1, FilterNames
  <2>6. PICK s : s = FilterSQL(dialect, name, vals, acc.next)
    OBVIOUS
  <2>7. render[<<nodes[k + 1], acc.next>>] = s
    BY <2>3, <2>5, <2>6, FilterRendered
  <2>8. s.text \in Seq(Token) /\ s.args = lists[k + 1] /\ s.next = acc.next + Len(lists[k + 1])
        /\ lists[k + 1] \in Seq(BoundValues)
    BY <2>3, <2>5, <2>6, FilterSQLParts
  <2>9. F[k + 1] = [parts |-> Append(acc.parts, s.text), args |-> acc.args \o s.args, next |-> s.next]
    BY <1>4, <1>6, <2>1, <2>2, <2>7 DEF Links
  <2>10. g[k + 1] = g[k] \o lists[k + 1] /\ Before(lists, k + 1) = Len(g[k])
    <3>1. \A m \in 1..n : g[m] = g[m - 1] \o lists[m] /\ Before(lists, m) = Len(g[m - 1])
      BY <1>2, <1>7 DEF Flattens, Gathers
    <3> QED
      BY <2>1, <3>1
  <2>11. Part(k + 1) = s
    BY <2>3, <2>5, <2>6, <2>10
  <2> HIDE DEF Part
  <2>12. PICK a, c, t : a = g[k] /\ c = lists[k + 1] /\ t = s.text
    OBVIOUS
  <2>13. a \in Seq(BoundValues) /\ c \in Seq(BoundValues) /\ t \in Seq(Token)
    BY <2>3, <2>8, <2>12
  <2>14. Len(a \o c) = Len(a) + Len(c) /\ Len(a) \in Nat /\ Len(c) \in Nat
    BY <2>13, ConcatProperties, LenProperties
  <2>15. s.next = 1 + Len(a \o c)
    <3>1. s.next = (1 + Len(a)) + Len(c)
      BY <2>3, <2>8, <2>12
    <3> QED
      BY <2>14, <3>1
  <2>16. PICK parts : parts = Append(acc.parts, t)
    OBVIOUS
  <2>17. Len(parts) = k + 1 /\ \A j \in 1..(k + 1) : parts[j] = Part(j).text
    <3>1. /\ Len(parts) = k + 1 /\ parts[k + 1] = t
          /\ \A j \in 1..k : parts[j] = acc.parts[j]
      BY <2>3, <2>13, <2>16, AppendProperties
    <3>2. \A j \in 1..(k + 1) : j = k + 1 \/ j \in 1..k
      BY <2>1
    <3> QED
      BY <2>3, <2>11, <2>12, <3>1, <3>2
  <2>18. F[k + 1].parts = parts /\ F[k + 1].args = a \o c /\ F[k + 1].next = s.next
    <3>1. acc.args = a /\ s.args = c /\ s.text = t
      BY <2>3, <2>8, <2>12
    <3>2. F[k + 1] = [parts |-> parts, args |-> a \o c, next |-> s.next]
      BY <2>9, <2>16, <3>1, Zenon
    <3> QED
      BY <3>2
  <2> QED
    BY <2>1, <2>10, <2>12, <2>15, <2>17, <2>18
<1>10. n \in P
  <2> HIDE DEF P
  <2>1. \A k \in 0..n : k \in P
    BY <1>1, <1>8, <1>9, Upwards
  <2> QED
    BY <1>1, <2>1
<1>11. F[n].args = FlattenSeq(lists)
  <2>1. F[n].args = g[n]
    BY <1>10
  <2> QED
    BY <1>2, <1>7, <2>1 DEF Flattens
<1>12. F[n].parts \in Seq(Seq(Token))
  <2>1. F[n] \in Accumulated
    BY <1>1, <1>6
  <2> QED
    BY <2>1 DEF Accumulated
<1>13. Len(F[n].parts) = n /\ \A i \in 1..n : F[n].parts[i] = Part(i).text
  BY <1>10
<1>14. FiltersWritten(Chain(render, nodes, 1), names, lists)
  BY <1>2, <1>6, <1>11, <1>12, <1>13 DEF FiltersWritten
<1> QED
  BY <1>2, <1>3, <1>4, <1>14 DEF n

LEMMA UnquotedName ==
    ASSUME NEW f \in Filters
    PROVE  Unquoted(Pred(Quoted[ColumnOf(f)])) = Pred(Bare[ColumnOf(f)])
<1>1. PICK at \in DOMAIN Quoted : at = ColumnOf(f)
  BY FilterNames
<1>2. \A x \in DOMAIN Quoted : Quoted[x] = Quoted[at] => x = at
  BY FilteringAssumption DEF IsInjective
<1>3. \A v, w : Pred(v) = Pred(w) => v = w
  BY DEF Pred
<1>4. \A x \in DOMAIN Quoted : Pred(Quoted[x]) = Pred(Quoted[at]) => x = at
  BY <1>2, <1>3
<1>5. at = CHOOSE x \in DOMAIN Quoted : Pred(Quoted[x]) = Pred(Quoted[at])
  BY <1>4
<1> QED
  BY <1>1, <1>5, Zenon DEF Unquoted

\* One test of a clause is that of a condition, the column bare.
LEMMA TestUnquoted ==
    ASSUME dialect \in Dialects, NEW f \in Filters, NEW p \in Nat, NEW vals \in Seq(BoundValues),
           NEW part, part = FilterSQL(dialect, Quoted[ColumnOf(f)], vals, p).text
    PROVE  <<Unquoted(part[1])>> \o Tail(part) = FilterSQL(dialect, Bare[ColumnOf(f)], vals, p).text
<1>1. PICK u, w, rest : /\ u = Pred(Quoted[ColumnOf(f)]) /\ w = Pred(Bare[ColumnOf(f)])
                        /\ rest = Numbered(dialect, vals, p)
  OBVIOUS
<1>2. /\ part = <<u>> \o rest
      /\ FilterSQL(dialect, Bare[ColumnOf(f)], vals, p).text = <<w>> \o rest
  BY <1>1 DEF FilterSQL, Values, Fragment
<1>3. rest \in Seq(Token)
  BY <1>1, NumberedMarks
<1>4. u \in Token
  BY <1>1, FilterNames, PredsUnmarked DEF Unmarked
<1>5. part[1] = u /\ Tail(part) = rest
  BY <1>2, <1>3, <1>4
<1>6. Unquoted(u) = w
  BY <1>1, UnquotedName
<1> QED
  BY <1>2, <1>5, <1>6

\* FilterSet.BuildWhereClause and filterToCondition never disagree on a
\* comparison, a value or a placeholder, whatever filters a query string
\* gives: they differ in the quotes of the columns (filter/filters.go).
THEOREM FilterPathsAlwaysAgree == Spec => []FilterPathsAgree
<1>1. BuildersInv => FilterPathsAgree
  <2> SUFFICES ASSUME BuildersInv, clauses = 1,
                      NEW chain, chain = Chain(render, [i \in DOMAIN filters |-> ConditionOf(filters[i])], 1),
                      NEW plain, plain = [i \in DOMAIN filters |->
                                             <<Unquoted(chain.parts[i][1])>> \o Tail(chain.parts[i])]
               PROVE  /\ clause.text = <<Word("WHERE")>> \o Joined(plain, "AND")
                      /\ clause.args = chain.args
                      /\ BoundTo(dialect, clause.text, clause.args)
    BY DEF FilterPathsAgree
  <2>1. /\ dialect \in Dialects /\ filters \in Seq(Filters) /\ filters # <<>>
        /\ clause = WhereClause(dialect, filters, 1)
    BY DEF BuildersInv, FilterInv
  <2>2. PICK n \in Nat : n = Len(filters) /\ DOMAIN filters = 1..n /\ \A i \in 1..n : filters[i] \in Filters
    BY <2>1
  <2>3. PICK lists, quoted, bare :
            /\ lists = [i \in DOMAIN filters |-> Arguments(filters[i])]
            /\ quoted = [i \in DOMAIN filters |-> Quoted[ColumnOf(filters[i])]]
            /\ bare = [i \in DOMAIN filters |-> Bare[ColumnOf(filters[i])]]
    OBVIOUS
  <2>4. PICK nodes, others :
            /\ nodes = [i \in DOMAIN filters |-> ConditionOf(filters[i])]
            /\ others = [i \in DOMAIN filters |-> Node(KindOf(filters[i]), bare[i], lists[i], <<>>)]
    OBVIOUS
  <2>5. Converted(filters, lists, quoted, nodes)
    <3>1. quoted \in [DOMAIN filters -> Words]
      BY <2>2, <2>3, FilterNames
    <3>2. nodes = [i \in DOMAIN filters |-> Node(KindOf(filters[i]), quoted[i], lists[i], <<>>)]
      BY <2>2, <2>3, <2>4, ConditionIs
    <3> QED
      BY <2>3, <3>1, <3>2 DEF Converted
  <2>6. Converted(filters, lists, bare, others)
    <3>1. bare \in [DOMAIN filters -> Words]
      BY <2>2, <2>3, FilterNames
    <3> QED
      BY <2>3, <2>4, <3>1 DEF Converted
  <2>7. PICK writes : writes = Chain(render, others, 1)
    OBVIOUS
  <2>8. /\ FiltersWritten(chain, quoted, lists) /\ FiltersWritten(writes, bare, lists)
        /\ others \in Seq(Trees[MaxHeight]) /\ Len(lists) = n /\ lists \in Seq(Seq(BoundValues))
    BY <2>1, <2>2, <2>4, <2>5, <2>6, <2>7, ChainOfFilters
  <2>9. ASSUME NEW i \in 1..n
        PROVE  /\ plain[i] = writes.parts[i]
               /\ Values(dialect, <<Test(filters[i])>>, lists[i], 1 + Before(lists, i)).text = writes.parts[i]
    <3>1. PICK f \in Filters, vals \in Seq(BoundValues) : f = filters[i] /\ vals = lists[i]
      BY <2>2, <2>8
    <3>2. PICK p \in Nat : p = 1 + Before(lists, i)
      <4>1. Before(lists, i) \in Nat
        BY <2>8, BeforeNat
      <4> QED
        BY <4>1
    <3>3. /\ chain.parts[i] = FilterSQL(dialect, Quoted[ColumnOf(f)], vals, p).text
          /\ writes.parts[i] = FilterSQL(dialect, Bare[ColumnOf(f)], vals, p).text
      BY <2>2, <2>3, <2>8, <3>1, <3>2 DEF FiltersWritten
    <3>4. plain[i] = writes.parts[i]
      BY <2>1, <2>2, <3>3, TestUnquoted
    <3>5. Values(dialect, <<Test(f)>>, vals, p).text = writes.parts[i]
      BY <3>3 DEF FilterSQL, Test, ColumnOf
    <3> QED
      BY <3>1, <3>2, <3>4, <3>5
  <2>10. PICK wrote : wrote = [i \in DOMAIN filters |->
                          Values(dialect, <<Test(filters[i])>>, lists[i], 1 + Before(lists, i)).text]
    OBVIOUS
  <2>11. wrote = writes.parts /\ plain = writes.parts
    <3>1. writes.parts = [i \in 1..n |-> writes.parts[i]]
      BY <2>8 DEF FiltersWritten
    <3>2. plain = [i \in 1..n |-> plain[i]] /\ wrote = [i \in 1..n |-> wrote[i]]
      BY <2>2, <2>10
    <3>3. \A i \in 1..n : plain[i] = writes.parts[i] /\ wrote[i] = writes.parts[i]
      BY <2>2, <2>9, <2>10
    <3> QED
      BY <3>1, <3>2, <3>3
  <2>12. PICK text, args : text = Joined(writes.parts, "AND") /\ args = writes.args
    OBVIOUS
  <2>13. clause.text = <<Word("WHERE")>> \o Joined(wrote, "AND") /\ clause.args = FlattenSeq(lists)
    BY <2>1, <2>3, <2>10, Zenon DEF WhereClause, Fragment
  <2>14. chain.args = args /\ FlattenSeq(lists) = args
    BY <2>8, <2>12 DEF FiltersWritten
  <2>15. ChainRight(dialect, writes, others, 1)
    <3>1. RendersRight(dialect, render, Trees[MaxHeight])
      BY <2>1, RenderRight
    <3> QED
      BY <2>1, <2>7, <2>8, <3>1, ChainNumbers
  <2>16. "AND" \in Keywords /\ "WHERE" \in Keywords
    BY DEF Keywords
  <2>17. Numbers(dialect, text, args, 1)
    BY <2>1, <2>12, <2>15, <2>16, JoinedNumbers DEF ChainRight
  <2>18. PICK all : all = <<Word("WHERE")>> \o text
    OBVIOUS
  <2>19. Numbers(dialect, all, args, 1)
    BY <2>1, <2>16, <2>17, <2>18, KeywordsUnmarked, NumbersAround
  <2>20. BoundTo(dialect, all, args)
    BY <2>1, <2>19, NumbersBound
  <2> QED
    BY <2>11, <2>12, <2>13, <2>14, <2>18, <2>20
<1> QED
  BY <1>1, Invariance, PTL

-----------------------------------------------------------------------------
(* What was asked for, and how the builder stores it                       *)

Fields ==
    {"verb", "table", "err", "distinct", "columns", "exprs", "joins", "conditions", "groupBy",
     "groupByExprs", "having", "orderBy", "orderByExprs", "limit", "offset", "sets", "rows",
     "ctes", "returning", "ignore"}

\* A builder that stores what the builder q does.
StoresAs(q, r) ==
    /\ DOMAIN r = Fields
    /\ r.verb = q.verb /\ r.sets = q.sets /\ r.rows = q.rows /\ r.columns = q.columns
    /\ r.conditions = q.conditions /\ r.having = q.having

LEMMA BuilderFields ==
    ASSUME NEW T, NEW C, NEW q \in BuildersOver(T, C)
    PROVE  DOMAIN q = Fields /\ StoresAs(q, q)
<1>1. DOMAIN q = Fields
  BY DEF BuildersOver, Fields
<1> QED
  BY <1>1 DEF StoresAs

LEMMA CheckedStores ==
    ASSUME NEW T, NEW C, b \in BuildersOver(T, C), NEW ok
    PROVE  StoresAs(b, Checked(ok))
BY BuilderFields DEF Checked, StoresAs, Fields

AskedTyped ==
    /\ DOMAIN asked = {"where", "having", "sets", "rows", "mixed"}
    /\ asked.where \in Seq(Seq(Trees[MaxHeight])) /\ asked.sets \in Seq(Words \X BoundValues)
    /\ asked.rows \in Seq(RowMaps) /\ asked.mixed \in BOOLEAN

\* Methods about neither conditions, nor sets, nor rows, and Build.
ElsewhereNext ==
    \/ \E table \in Tables : From(table) \/ CrossJoin(table)
    \/ \E column \in Columns : GroupBy(column) \/ OrderBy(column)
    \/ \E expr \in Expressions : SelectExpr(expr) \/ GroupByExpr(expr) \/ OrderByExpr(expr)
    \/ \E type \in {"JOIN", "FULL_JOIN"}, table \in Tables, cond \in JoinConditions :
          Join(type, table, cond)
    \/ \E n \in Limits : Limit(n) \/ Offset(n)
    \/ \E query \in Selects : AndCTE(query)
    \/ BuildWhereClause
    \/ Distinct \/ Returning \/ OnConflictDoNothing \/ Build

LEMMA ElsewhereSteps ==
    ASSUME BuildersInv, ElsewhereNext
    PROVE  StoresAs(b, b') /\ asked' = asked
<1> DEFINE Goal == StoresAs(b, b') /\ asked' = asked
<1>1. StoresAs(b, b) /\ \A ok : StoresAs(b, Checked(ok))
  BY BuilderFields, CheckedStores DEF BuildersInv
<1>2. ASSUME NEW table, From(table) PROVE Goal
  <2>1. PICK q : q = Checked(b.verb = "cte" \/ ValidIdentifier(table))
    OBVIOUS
  <2>2. StoresAs(b, q) /\ b' = [q EXCEPT !.table = <<table>>] /\ asked' = asked
    BY <1>1, <1>2, <2>1 DEF From, Method
  <2>4. StoresAs(b, b')
    BY <2>2 DEF StoresAs, Fields
  <2> QED
    BY <2>2, <2>4
<1>3. ASSUME NEW table, CrossJoin(table) PROVE Goal
  <2>1. PICK q : q = Checked(ValidIdentifier(table))
    OBVIOUS
  <2>2. StoresAs(b, q) /\ (b' = q \/ \E v : b' = [q EXCEPT !.joins = v]) /\ asked' = asked
    BY <1>1, <1>3, <2>1 DEF CrossJoin, Method
  <2>4. StoresAs(b, b')
    BY <2>2 DEF StoresAs, Fields
  <2> QED
    BY <2>2, <2>4
<1>4. ASSUME NEW column, GroupBy(column) PROVE Goal
  <2>1. PICK q : q = Checked(ValidColumnReference(column))
    OBVIOUS
  <2>2. StoresAs(b, q) /\ (b' = q \/ \E v : b' = [q EXCEPT !.groupBy = v]) /\ asked' = asked
    BY <1>1, <1>4, <2>1 DEF GroupBy, Method
  <2>4. StoresAs(b, b')
    BY <2>2 DEF StoresAs, Fields
  <2> QED
    BY <2>2, <2>4
<1>5. ASSUME NEW column, OrderBy(column) PROVE Goal
  <2>1. PICK q : q = Checked(ValidColumnReference(column))
    OBVIOUS
  <2>2. StoresAs(b, q) /\ (\E v : b' = [q EXCEPT !.orderBy = v]) /\ asked' = asked
    BY <1>1, <1>5, <2>1 DEF OrderBy, Method
  <2>4. StoresAs(b, b')
    BY <2>2 DEF StoresAs, Fields
  <2> QED
    BY <2>2, <2>4
<1>6. ASSUME NEW expr, SelectExpr(expr) \/ GroupByExpr(expr) \/ OrderByExpr(expr) PROVE Goal
  <2>1. \E v : b' \in {[b EXCEPT !.exprs = v], [b EXCEPT !.groupByExprs = v], [b EXCEPT !.orderByExprs = v]}
    BY <1>6 DEF SelectExpr, GroupByExpr, OrderByExpr, Method
  <2>2. asked' = asked
    BY <1>6 DEF SelectExpr, GroupByExpr, OrderByExpr
  <2>4. StoresAs(b, b')
    BY <1>1, <2>1, <2>2 DEF StoresAs, Fields
  <2> QED
    BY <2>2, <2>4
<1>7. ASSUME NEW type, NEW table, NEW cond, Join(type, table, cond) PROVE Goal
  <2>1. PICK q : q = Checked(ValidIdentifier(table) /\ (type = "FULL_JOIN" => dialect.fullJoin))
    OBVIOUS
  <2>2. StoresAs(b, q) /\ (b' = q \/ \E v : b' = [q EXCEPT !.joins = v]) /\ asked' = asked
    BY <1>1, <1>7, <2>1 DEF Join, Method
  <2>4. StoresAs(b, b')
    BY <2>2 DEF StoresAs, Fields
  <2> QED
    BY <2>2, <2>4
<1>8. ASSUME NEW n, Limit(n) \/ Offset(n) PROVE Goal
  <2>1. PICK q, r : q = Checked(ValidLimit(n)) /\ r = Checked(ValidOffset(n))
    OBVIOUS
  <2>2. StoresAs(b, q) /\ StoresAs(b, r) /\ asked' = asked
    BY <1>1, <1>8, <2>1 DEF Limit, Offset
  <2>3. b' = [q EXCEPT !.limit = n] \/ b' = [r EXCEPT !.offset = n]
    BY <1>8, <2>1 DEF Limit, Offset, Method
  <2>4. StoresAs(b, b')
    BY <2>2, <2>3 DEF StoresAs, Fields
  <2> QED
    BY <2>2, <2>3, <2>4
<1>9. ASSUME NEW query, AndCTE(query) PROVE Goal
  <2>1. (\E v : b' = [b EXCEPT !.ctes = v]) /\ asked' = asked
    BY <1>9 DEF AndCTE, Method
  <2>4. StoresAs(b, b')
    BY <1>1, <2>1 DEF StoresAs, Fields
  <2> QED
    BY <2>1, <2>4
<1>10. ASSUME BuildWhereClause \/ Build PROVE Goal
  <2>1. b' = b /\ asked' = asked
    BY <1>10 DEF BuildWhereClause, Build
  <2> QED
    BY <1>1, <2>1
<1>11. ASSUME Distinct \/ Returning \/ OnConflictDoNothing PROVE Goal
  <2>1. b' \in {[b EXCEPT !.distinct = TRUE], [b EXCEPT !.returning = TRUE], [b EXCEPT !.ignore = TRUE]}
    BY <1>11 DEF Distinct, Returning, OnConflictDoNothing, Method
  <2>2. asked' = asked
    BY <1>11 DEF Distinct, Returning, OnConflictDoNothing
  <2>4. StoresAs(b, b')
    BY <1>1, <2>1, <2>2 DEF StoresAs, Fields
  <2> QED
    BY <2>2, <2>4
<1> HIDE DEF Goal
<1>12. Goal
  BY <1>2, <1>3, <1>4, <1>5, <1>6, <1>7, <1>8, <1>9, <1>10, <1>11 DEF ElsewhereNext
<1> QED
  BY <1>12 DEF Goal

-----------------------------------------------------------------------------
(* The columns of an UPDATE                                                *)

\* No column is set after m.
NoLater(a, m, column) == \A k \in 1..Len(a) : k > m => a[k][1] # column

\* s has each column of a once, with the value a has last.
Settled(s, a) ==
    /\ \A i, j \in 1..Len(s) : s[i][1] = s[j][1] => i = j
    /\ \A m \in 1..Len(a) : \E i \in 1..Len(s) : s[i][1] = a[m][1]
    /\ \A i \in 1..Len(s) : \E m \in 1..Len(a) : a[m] = s[i] /\ NoLater(a, m, s[i][1])

\* c is a with pair at its end.
Longer(a, c, pair) ==
    /\ Len(c) = Len(a) + 1 /\ c[Len(a) + 1] = pair /\ Len(a) \in Nat
    /\ \A k \in 1..Len(a) : c[k] = a[k]
    /\ NoLater(c, Len(a) + 1, pair[1])
    /\ \A m \in 1..Len(a) : \A column :
          NoLater(a, m, column) /\ column # pair[1] => NoLater(c, m, column)

LEMMA LaterSets ==
    ASSUME NEW P, NEW a \in Seq(P), NEW pair \in P, NEW more, more = Append(a, pair)
    PROVE  Longer(a, more, pair)
<1>2. /\ Len(more) = Len(a) + 1 /\ more[Len(a) + 1] = pair /\ Len(a) \in Nat
      /\ \A k \in 1..Len(a) : more[k] = a[k]
  BY AppendProperties
<1>3. \A k \in 1..Len(more) : k = Len(a) + 1 \/ k \in 1..Len(a)
  BY <1>2
<1>4. NoLater(more, Len(a) + 1, pair[1])
  <2>1. \A k \in 1..Len(more) : ~(k > Len(a) + 1)
    BY <1>2
  <2> QED
    BY <2>1 DEF NoLater
<1>5. ASSUME NEW m \in 1..Len(a), NEW column, NoLater(a, m, column), column # pair[1]
      PROVE  NoLater(more, m, column)
  BY <1>2, <1>3, <1>5 DEF NoLater
<1> QED
  BY <1>2, <1>4, <1>5 DEF Longer

LEMMA SettledAppend ==
    ASSUME NEW P, NEW s \in Seq(P), NEW a \in Seq(P), NEW pair \in P, Settled(s, a),
           \A i \in 1..Len(s) : s[i][1] # pair[1]
    PROVE  Settled(Append(s, pair), Append(a, pair))
<1>1. PICK t, c : t = Append(s, pair) /\ c = Append(a, pair)
  OBVIOUS
<1>2. /\ Len(t) = Len(s) + 1 /\ t[Len(s) + 1] = pair /\ Len(s) \in Nat
      /\ \A k \in 1..Len(s) : t[k] = s[k]
  BY <1>1, AppendProperties
<1>3. /\ Len(c) = Len(a) + 1 /\ c[Len(a) + 1] = pair /\ Len(a) \in Nat
      /\ \A k \in 1..Len(a) : c[k] = a[k]
      /\ NoLater(c, Len(a) + 1, pair[1])
      /\ \A m \in 1..Len(a) : \A column :
            NoLater(a, m, column) /\ column # pair[1] => NoLater(c, m, column)
  <2>1. Longer(a, c, pair)
    BY <1>1, LaterSets
  <2> QED
    BY <2>1 DEF Longer
<1>4. /\ \A k \in 1..Len(t) : k = Len(s) + 1 \/ k \in 1..Len(s)
      /\ \A k \in 1..Len(c) : k = Len(a) + 1 \/ k \in 1..Len(a)
      /\ \A k \in 1..Len(s) : k \in 1..Len(t)
      /\ \A k \in 1..Len(a) : k \in 1..Len(c)
      /\ Len(s) + 1 \in 1..Len(t) /\ Len(a) + 1 \in 1..Len(c)
  BY <1>2, <1>3
<1>5. ASSUME NEW i \in 1..Len(t), NEW j \in 1..Len(t), t[i][1] = t[j][1] PROVE i = j
  <2>1. CASE i \in 1..Len(s) /\ j \in 1..Len(s)
    <3>1. s[i][1] = s[j][1]
      BY <1>2, <1>5, <2>1, Zenon
    <3> QED
      BY <2>1, <3>1 DEF Settled
  <2>2. CASE i \in 1..Len(s) /\ j = Len(s) + 1
    BY <1>2, <1>5, <2>2, Zenon
  <2>3. CASE i = Len(s) + 1 /\ j \in 1..Len(s)
    BY <1>2, <1>5, <2>3, Zenon
  <2>4. CASE i = Len(s) + 1 /\ j = Len(s) + 1
    BY <2>4
  <2> QED
    BY <1>4, <2>1, <2>2, <2>3, <2>4, Zenon
<1>6. \A m \in 1..Len(c) : \E i \in 1..Len(t) : t[i][1] = c[m][1]
  <2> TAKE m \in 1..Len(c)
  <2>1. CASE m = Len(a) + 1
    BY <1>2, <1>3, <1>4, <2>1
  <2>2. CASE m \in 1..Len(a)
    <3>1. PICK i \in 1..Len(s) : s[i][1] = a[m][1]
      BY <2>2 DEF Settled
    <3>2. t[i] = s[i] /\ c[m] = a[m] /\ i \in 1..Len(t)
      BY <1>2, <1>3, <1>4, <2>2
    <3> QED
      BY <3>1, <3>2
  <2> QED
    BY <1>4, <2>1, <2>2
<1>7. \A i \in 1..Len(t) : \E m \in 1..Len(c) : c[m] = t[i] /\ NoLater(c, m, t[i][1])
  <2> TAKE i \in 1..Len(t)
  <2>1. CASE i = Len(s) + 1
    BY <1>2, <1>3, <1>4, <2>1
  <2>2. CASE i \in 1..Len(s)
    <3>1. PICK m \in 1..Len(a) : a[m] = s[i] /\ NoLater(a, m, s[i][1])
      BY <2>2 DEF Settled
    <3>2. s[i][1] # pair[1] /\ t[i] = s[i]
      BY <1>2, <2>2
    <3>3. NoLater(c, m, s[i][1]) /\ c[m] = s[i] /\ m \in 1..Len(c)
      BY <1>3, <1>4, <3>1, <3>2
    <3> QED
      BY <3>2, <3>3
  <2> QED
    BY <1>4, <2>1, <2>2
<1> QED
  BY <1>1, <1>5, <1>6, <1>7 DEF Settled

LEMMA SettledReplace ==
    ASSUME NEW P, NEW s \in Seq(P), NEW a \in Seq(P), NEW pair \in P, Settled(s, a),
           NEW n \in 1..Len(s), s[n][1] = pair[1], NEW t, t = [s EXCEPT ![n] = pair]
    PROVE  Settled(t, Append(a, pair))
<1>1. PICK c : c = Append(a, pair)
  OBVIOUS
<1>2. /\ Len(t) = Len(s) /\ t[n] = pair
      /\ \A k \in 1..Len(s) : k # n => t[k] = s[k]
  BY <1>1
<1>3. /\ Len(c) = Len(a) + 1 /\ c[Len(a) + 1] = pair /\ Len(a) \in Nat
      /\ \A k \in 1..Len(a) : c[k] = a[k]
      /\ NoLater(c, Len(a) + 1, pair[1])
      /\ \A m \in 1..Len(a) : \A column :
            NoLater(a, m, column) /\ column # pair[1] => NoLater(c, m, column)
  <2>1. Longer(a, c, pair)
    BY <1>1, LaterSets
  <2> QED
    BY <2>1 DEF Longer
<1>4. /\ \A k \in 1..Len(c) : k = Len(a) + 1 \/ k \in 1..Len(a)
      /\ \A k \in 1..Len(a) : k \in 1..Len(c)
      /\ Len(a) + 1 \in 1..Len(c)
  BY <1>3
<1>5. \A k \in 1..Len(s) : t[k][1] = s[k][1]
  BY <1>2
<1>6. \A i, j \in 1..Len(t) : t[i][1] = t[j][1] => i = j
  BY <1>2, <1>5 DEF Settled
<1>7. \A m \in 1..Len(c) : \E i \in 1..Len(t) : t[i][1] = c[m][1]
  <2> TAKE m \in 1..Len(c)
  <2>1. CASE m = Len(a) + 1
    BY <1>2, <1>3, <2>1
  <2>2. CASE m \in 1..Len(a)
    <3>1. PICK i \in 1..Len(s) : s[i][1] = a[m][1]
      BY <2>2 DEF Settled
    <3>2. t[i][1] = s[i][1] /\ c[m] = a[m] /\ i \in 1..Len(t)
      BY <1>2, <1>3, <1>5, <2>2
    <3> QED
      BY <3>1, <3>2
  <2> QED
    BY <1>4, <2>1, <2>2
<1>8. \A i \in 1..Len(t) : \E m \in 1..Len(c) : c[m] = t[i] /\ NoLater(c, m, t[i][1])
  <2> TAKE i \in 1..Len(t)
  <2>1. CASE i = n
    BY <1>2, <1>3, <1>4, <2>1
  <2>2. CASE i # n
    <3>1. i \in 1..Len(s) /\ t[i] = s[i]
      BY <1>2, <2>2
    <3>2. PICK m \in 1..Len(a) : a[m] = s[i] /\ NoLater(a, m, s[i][1])
      BY <3>1 DEF Settled
    <3>3. s[i][1] # pair[1]
      BY <2>2, <3>1 DEF Settled
    <3>4. NoLater(c, m, s[i][1]) /\ c[m] = s[i] /\ m \in 1..Len(c)
      BY <1>3, <1>4, <3>2, <3>3
    <3> QED
      BY <3>1, <3>4
  <2> QED
    BY <2>1, <2>2
<1>9. Settled(t, c)
  BY <1>6, <1>7, <1>8, Zenon DEF Settled
<1> QED
  BY <1>1, <1>9, Zenon

\* Set: a column it has keeps its place, one it does not have goes last.
LEMMA SetSettles ==
    ASSUME BuildersInv, AskedTyped, Settled(b.sets, asked.sets),
           NEW column \in Columns, NEW value \in SetValues, Set(column, value)
    PROVE  Settled(b'.sets, asked'.sets)
<1>1. PICK q, P, pair, s, a : /\ q = Checked(ValidIdentifier(column)) /\ P = Words \X BoundValues
                              /\ pair = <<column, value>> /\ s = b.sets /\ a = asked.sets
  OBVIOUS
<1>2. pair \in P /\ pair[1] = column
  BY <1>1, BuildersAssumption
<1>3. s \in Seq(P) /\ a \in Seq(P)
  BY <1>1, BuilderParts DEF BuildersInv, AskedTyped
<1>4. DOMAIN q = Fields /\ q.sets = s
  BY <1>1, CheckedStores DEF BuildersInv, StoresAs
<1>5. asked'.sets = Append(a, pair)
  BY <1>1 DEF Set, AskedTyped
<1>6. PICK there : there = {i \in DOMAIN b.sets : b.sets[i][1] = column}
  OBVIOUS
<1>7. CASE there = {}
  <2>1. b' = [q EXCEPT !.sets = Append(q.sets, pair)]
    BY <1>1, <1>6, <1>7 DEF Set, Method
  <2>2. b'.sets = Append(s, pair)
    BY <1>4, <2>1 DEF Fields
  <2>3. \A i \in 1..Len(s) : s[i][1] # pair[1]
    BY <1>1, <1>2, <1>3, <1>6, <1>7
  <2> QED
    BY <1>1, <1>2, <1>3, <1>5, <2>2, <2>3, SettledAppend
<1>8. CASE there # {}
  <2>1. PICK n : n = Min(there)
    OBVIOUS
  <2>2. there \subseteq Nat /\ there \subseteq 1..Len(s)
    BY <1>1, <1>3, <1>6
  <2>3. n \in there
    BY <1>8, <2>1, <2>2, LeastOf
  <2>4. n \in 1..Len(s) /\ s[n][1] = pair[1]
    BY <1>1, <1>2, <1>6, <2>2, <2>3
  <2>5. PICK new : new = [s EXCEPT ![n] = pair]
    OBVIOUS
  <2>6. b' = [q EXCEPT !.sets = new]
    BY <1>1, <1>4, <1>6, <1>8, <2>1, <2>5 DEF Set, Method
  <2>7. b'.sets = new
    BY <1>4, <2>6 DEF Fields
  <2>8. Settled(s, a)
    BY <1>1
  <2>9. Settled(new, Append(a, pair))
    BY <1>2, <1>3, <2>4, <2>5, <2>8, SettledReplace, Zenon
  <2> QED
    BY <1>5, <2>7, <2>9, Zenon
<1> QED
  BY <1>7, <1>8

-----------------------------------------------------------------------------
(* The rows of an INSERT                                                   *)

\* The values of a map in the order of the columns.
RowOf(row, columns) ==
    [i \in DOMAIN columns |-> IF columns[i] \in DOMAIN row THEN row[columns[i]] ELSE "NULL"]

\* rows are the maps, column for column, as long as each map has a column.
LinesUp(rows, columns, maps) ==
    (\A k \in 1..Len(maps) : DOMAIN maps[k] # {}) =>
      /\ Len(rows) = Len(maps) /\ (Len(rows) # 0 => columns # <<>>)
      /\ \A k \in 1..Len(maps) : rows[k] = RowOf(maps[k], columns)

LEMMA SequenceOfSome ==
    ASSUME NEW S, IsFiniteSet(S), S # {}, NEW s \in SetToSeqs(S)
    PROVE  s # <<>>
<1>1. Cardinality(S) \in Nat /\ Cardinality(S) # 0
  BY FS_CardinalityType, FS_EmptySet
<1>2. s \in [1..Cardinality(S) -> S]
  BY Zenon DEF SetToSeqs
<1>3. DOMAIN s = 1..Cardinality(S) /\ DOMAIN <<>> = {}
  BY <1>2
<1>4. 1 \in DOMAIN s
  BY <1>1, <1>3
<1> QED
  BY <1>3, <1>4

LEMMA LinesUpMore ==
    ASSUME NEW S, NEW M, NEW rows \in Seq(S), NEW maps \in Seq(M), NEW columns, NEW row \in M,
           LinesUp(rows, columns, maps), NEW now, NEW new \in S, new = RowOf(row, now),
           columns # <<>> => now = columns,
           DOMAIN row # {} => now # <<>>
    PROVE  LinesUp(Append(rows, new), now, Append(maps, row))
<1>1. PICK r, m : r = Append(rows, new) /\ m = Append(maps, row)
  OBVIOUS
<1>2. /\ Len(r) = Len(rows) + 1 /\ r[Len(rows) + 1] = new /\ Len(rows) \in Nat
      /\ \A k \in 1..Len(rows) : r[k] = rows[k]
  BY <1>1, AppendProperties
<1>3. /\ Len(m) = Len(maps) + 1 /\ m[Len(maps) + 1] = row /\ Len(maps) \in Nat
      /\ \A k \in 1..Len(maps) : m[k] = maps[k]
  BY <1>1, AppendProperties
<1>4. \A k \in 1..Len(m) : k = Len(maps) + 1 \/ k \in 1..Len(maps)
  BY <1>3
<1>5. \A k \in 1..Len(maps) : k \in 1..Len(m)
  BY <1>3
<1>6. Len(maps) + 1 \in 1..Len(m)
  BY <1>3
<1> SUFFICES ASSUME \A k \in 1..Len(m) : DOMAIN m[k] # {}
             PROVE  /\ Len(r) = Len(m) /\ now # <<>>
                    /\ \A k \in 1..Len(m) : r[k] = RowOf(m[k], now)
  BY <1>1 DEF LinesUp
<1>7. DOMAIN row # {} /\ \A k \in 1..Len(maps) : DOMAIN maps[k] # {}
  BY <1>3, <1>5, <1>6
<1>8. /\ Len(rows) = Len(maps) /\ (Len(rows) # 0 => columns # <<>>)
      /\ \A k \in 1..Len(maps) : rows[k] = RowOf(maps[k], columns)
  BY <1>7 DEF LinesUp
<1>9. Len(r) = Len(m) /\ now # <<>>
  BY <1>2, <1>3, <1>7, <1>8
<1>10. ASSUME NEW k \in 1..Len(m) PROVE r[k] = RowOf(m[k], now)
  <2>1. CASE k = Len(maps) + 1
    BY <1>2, <1>3, <1>8, <2>1
  <2>2. CASE k \in 1..Len(maps)
    <3>1. now = columns
      BY <1>3, <1>8, <2>2
    <3> QED
      BY <1>2, <1>3, <1>8, <2>2, <3>1
  <2> QED
    BY <1>4, <2>1, <2>2
<1> QED
  BY <1>9, <1>10

LEMMA ValuesMapLinesUp ==
    ASSUME BuildersInv, AskedTyped, LinesUp(b.rows, b.columns, asked.rows),
           NEW row \in RowMaps, ValuesMap(row)
    PROVE  LinesUp(b'.rows, b'.columns, asked'.rows)
<1>1. PICK old, names, maps : old = b.rows /\ names = b.columns /\ maps = asked.rows
  OBVIOUS
<1>2. old \in Seq(Seq(BoundValues)) /\ names \in Seq(Words) /\ maps \in Seq(RowMaps)
      /\ DOMAIN b = Fields
  BY <1>1, BuilderParts, BuilderFields DEF BuildersInv, AskedTyped
<1>3. PICK columns \in IF b.columns = <<>> THEN SetToSeqs(DOMAIN row) ELSE {b.columns} :
          Method([b EXCEPT !.columns = columns,
                           !.rows = Append(@, [i \in DOMAIN columns |->
                              IF columns[i] \in DOMAIN row THEN row[columns[i]] ELSE "NULL"])])
  BY DEF ValuesMap
<1>4. PICK new : new = RowOf(row, columns)
  OBVIOUS
<1>5. b'.rows = Append(old, new) /\ b'.columns = columns
  <2>1. b' = [b EXCEPT !.columns = columns, !.rows = Append(@, new)]
    BY <1>3, <1>4, Zenon DEF Method, RowOf
  <2> QED
    BY <1>1, <1>2, <2>1 DEF Fields
<1>6. asked'.rows = Append(maps, row)
  BY <1>1 DEF ValuesMap, AskedTyped
<1>7. IsFiniteSet(DOMAIN row) /\ DOMAIN row \subseteq Words
      /\ \A column \in DOMAIN row : row[column] \in BoundValues
  BY BuildersAssumption
<1>8. names # <<>> => columns = names
  BY <1>1, <1>3
<1>9. columns \in Seq(Words) /\ (DOMAIN row # {} => columns # <<>>)
  <2>1. CASE names = <<>>
    <3>1. columns \in SetToSeqs(DOMAIN row)
      BY <1>1, <1>3, <2>1
    <3>2. PICK S : S = DOMAIN row
      OBVIOUS
    <3>3. columns \in Seq(S) /\ (S # {} => columns # <<>>) /\ S \subseteq Words
      BY <1>7, <3>1, <3>2, SequencesOfSet, SequenceOfSome
    <3>4. columns \in Seq(Words)
      BY <3>3, SeqsOver
    <3> QED
      BY <3>2, <3>3, <3>4
  <2>2. CASE names # <<>>
    BY <1>2, <1>8, <2>2
  <2> QED
    BY <2>1, <2>2
<1>10. new \in Seq(BoundValues)
  <2>1. DOMAIN columns = 1..Len(columns) /\ Len(columns) \in Nat /\ "NULL" \in BoundValues
    BY <1>9, BuildersAssumption
  <2>2. new \in [1..Len(columns) -> BoundValues]
    BY <1>4, <1>7, <2>1 DEF RowOf
  <2> QED
    BY <2>1, <2>2, AsSeq
<1>11. LinesUp(old, names, maps)
  BY <1>1
<1>12. LinesUp(Append(old, new), columns, Append(maps, row))
  BY <1>2, <1>4, <1>8, <1>9, <1>10, <1>11, LinesUpMore, Zenon
<1> QED
  BY <1>5, <1>6, <1>12, Zenon

-----------------------------------------------------------------------------
(* The conditions of a WHERE                                               *)

\* What conditions say of a row, whatever they are: an Or holds when one of
\* its two conditions does.
Valuations ==
    {V \in [Trees[MaxHeight] -> BOOLEAN] :
        \A x, y \in Trees[MaxHeight - 1] : V[Or(<<x, y>>)] <=> (V[x] \/ V[y])}

AnyOf(V, group) == \E j \in 1..Len(group) : V[group[j]]

\* Each condition holds where one of those asked for in its group does.
Follows(V, conds, groups) ==
    /\ Len(conds) = Len(groups)
    /\ \A i \in 1..Len(groups) : V[conds[i]] <=> AnyOf(V, groups[i])

LEMMA AnyOfOne ==
    ASSUME NEW V, NEW x
    PROVE  AnyOf(V, <<x>>) <=> V[x]
<1>1. Len(<<x>>) = 1 /\ <<x>>[1] = x /\ \A j \in 1..1 : j = 1
  OBVIOUS
<1>2. 1 \in 1..1
  OBVIOUS
<1> QED
  BY <1>1, <1>2 DEF AnyOf

LEMMA FollowsSingles ==
    ASSUME NEW V, NEW S, NEW conds \in Seq(S), NEW groups, groups = [i \in DOMAIN conds |-> <<conds[i]>>]
    PROVE  groups \in Seq(Seq(S)) /\ Follows(V, conds, groups)
<1>1. groups \in Seq(Seq(S)) /\ Len(groups) = Len(conds)
  BY FlattenSingles
<1>2. \A i \in 1..Len(conds) : groups[i] = <<conds[i]>>
  OBVIOUS
<1> QED
  BY <1>1, <1>2, AnyOfOne DEF Follows

LEMMA FollowsConcat ==
    ASSUME NEW V, NEW S, NEW c \in Seq(S), NEW e \in Seq(S), NEW w \in Seq(Seq(S)), NEW x \in Seq(Seq(S)),
           Follows(V, c, w), Follows(V, e, x)
    PROVE  Follows(V, c \o e, w \o x)
<1>1. PICK u, v : u = c \o e /\ v = w \o x
  OBVIOUS
<1>2. Len(c) = Len(w) /\ Len(e) = Len(x) /\ Len(c) \in Nat /\ Len(e) \in Nat
  BY DEF Follows
<1>3. /\ Len(u) = Len(c) + Len(e) /\ Len(v) = Len(w) + Len(x)
      /\ \A i \in 1..Len(v) : /\ u[i] = IF i <= Len(c) THEN c[i] ELSE e[i - Len(c)]
                              /\ v[i] = IF i <= Len(w) THEN w[i] ELSE x[i - Len(w)]
  <2>1. Len(u) = Len(c) + Len(e) /\ Len(v) = Len(w) + Len(x)
    BY <1>1, ConcatProperties
  <2>2. \A i \in 1..(Len(c) + Len(e)) : u[i] = IF i <= Len(c) THEN c[i] ELSE e[i - Len(c)]
    BY <1>1, ConcatProperties
  <2>3. \A i \in 1..(Len(w) + Len(x)) : v[i] = IF i <= Len(w) THEN w[i] ELSE x[i - Len(w)]
    BY <1>1, ConcatProperties
  <2>4. Len(w) + Len(x) = Len(c) + Len(e)
    BY <1>2
  <2> QED
    BY <2>1, <2>2, <2>3, <2>4
<1>4. ASSUME NEW i \in 1..Len(v) PROVE V[u[i]] <=> AnyOf(V, v[i])
  <2>1. CASE i <= Len(c)
    <3>1. i \in 1..Len(w) /\ i <= Len(w)
      BY <1>2, <1>3, <2>1
    <3>2. u[i] = c[i]
      BY <1>3, <2>1, Zenon
    <3>3. v[i] = w[i]
      BY <1>3, <3>1, Zenon
    <3>4. V[c[i]] <=> AnyOf(V, w[i])
      BY <3>1 DEF Follows
    <3> QED
      BY <3>2, <3>3, <3>4, Zenon
  <2>2. CASE ~(i <= Len(c))
    <3>1. i - Len(c) \in 1..Len(x) /\ ~(i <= Len(w))
      BY <1>2, <1>3, <2>2
    <3>2. u[i] = e[i - Len(c)]
      BY <1>3, <2>2, Zenon
    <3>3. v[i] = x[i - Len(w)] /\ Len(w) = Len(c)
      BY <1>2, <1>3, <3>1, Zenon
    <3>4. V[e[i - Len(c)]] <=> AnyOf(V, x[i - Len(c)])
      BY <3>1 DEF Follows
    <3> QED
      BY <3>2, <3>3, <3>4, Zenon
  <2> QED
    BY <2>1, <2>2
<1>5. Len(u) = Len(v)
  BY <1>2, <1>3
<1>6. Follows(V, u, v)
  BY <1>4, <1>5 DEF Follows
<1> QED
  BY <1>1, <1>6

\* now is c with its last member, the nth, become or, a condition that holds when
\* that member or cond does; then is w with its last member one longer, by cond.
OrLast(V, c, w, n, or, cond, now, then, group) ==
    /\ n = Len(c) /\ n # 0
    /\ V[or] <=> (V[c[n]] \/ V[cond])
    /\ group = Append(w[n], cond)
    /\ now = [c EXCEPT ![n] = or]
    /\ then = [w EXCEPT ![n] = group]

LEMMA FollowsOr ==
    ASSUME NEW V, NEW S, NEW c \in Seq(S), NEW w \in Seq(Seq(S)), NEW n, NEW or, NEW cond \in S,
           NEW now, NEW then, NEW group, OrLast(V, c, w, n, or, cond, now, then, group),
           Follows(V, c, w)
    PROVE  Follows(V, now, then) /\ then \in Seq(Seq(S))
<1>1. n \in 1..Len(c) /\ Len(w) = Len(c) /\ n \in 1..Len(w) /\ w[n] \in Seq(S)
  BY DEF Follows, OrLast
<1>2. /\ Len(now) = Len(c) /\ now[n] = or /\ Len(then) = Len(c) /\ then[n] = group
      /\ \A i \in 1..Len(c) : i # n => now[i] = c[i] /\ then[i] = w[i]
  BY <1>1 DEF OrLast
<1>3. group \in Seq(S) /\ Len(group) = Len(w[n]) + 1 /\ group[Len(w[n]) + 1] = cond
      /\ Len(w[n]) \in Nat /\ \A j \in 1..Len(w[n]) : group[j] = w[n][j]
  <2>1. group = Append(w[n], cond)
    BY DEF OrLast
  <2>2. w[n] \in Seq(S)
    BY <1>1
  <2> QED
    BY <2>1, <2>2, AppendProperties
<1>4. then \in Seq(Seq(S))
  BY <1>1, <1>3 DEF OrLast
<1>5. AnyOf(V, group) <=> (AnyOf(V, w[n]) \/ V[cond])
  <2>1. \A j \in 1..Len(group) : j = Len(w[n]) + 1 \/ j \in 1..Len(w[n])
    BY <1>3
  <2>2. Len(w[n]) + 1 \in 1..Len(group) /\ \A j \in 1..Len(w[n]) : j \in 1..Len(group)
    BY <1>3
  <2>3. ASSUME AnyOf(V, group) PROVE AnyOf(V, w[n]) \/ V[cond]
    BY <1>3, <2>1, <2>3 DEF AnyOf
  <2>4. ASSUME AnyOf(V, w[n]) \/ V[cond] PROVE AnyOf(V, group)
    <3>1. CASE V[cond]
      BY <1>3, <2>2, <3>1 DEF AnyOf
    <3>2. CASE AnyOf(V, w[n])
      <4>1. PICK j \in 1..Len(w[n]) : V[w[n][j]]
        BY <3>2 DEF AnyOf
      <4>2. j \in 1..Len(group) /\ group[j] = w[n][j]
        BY <1>3, <2>2
      <4> QED
        BY <4>1, <4>2 DEF AnyOf
    <3> QED
      BY <2>4, <3>1, <3>2
  <2> QED
    BY <2>3, <2>4
<1>6. V[c[n]] <=> AnyOf(V, w[n])
  BY <1>1 DEF Follows
<1>7. ASSUME NEW i \in 1..Len(c) PROVE V[now[i]] <=> AnyOf(V, then[i])
  <2>1. CASE i = n
    <3>1. V[or] <=> (V[c[n]] \/ V[cond])
      BY Zenon DEF OrLast
    <3> QED
      BY <1>2, <1>5, <1>6, <2>1, <3>1, Zenon
  <2>2. CASE i # n
    <3>1. now[i] = c[i] /\ then[i] = w[i] /\ i \in 1..Len(w)
      BY <1>1, <1>2, <2>2
    <3> QED
      BY <3>1 DEF Follows
  <2> QED
    BY <2>1, <2>2
<1>8. Follows(V, now, then)
  BY <1>2, <1>7 DEF Follows
<1> QED
  BY <1>4, <1>8

\* The conditions stored and those asked for, for every valuation.
Stored(conds, groups) == Len(conds) = Len(groups) /\ \A V \in Valuations : Follows(V, conds, groups)

\* What the trees of a builder and those it is given are.
LEMMA GivenTrees ==
    ASSUME BuildersInv, AskedTyped
    PROVE  /\ b.conditions \in Seq(Trees[MaxHeight]) /\ asked.where \in Seq(Seq(Trees[MaxHeight]))
           /\ Tree(calls) \subseteq Trees[MaxHeight] /\ Tree(calls) \subseteq Trees[MaxHeight - 1]
           /\ Given \subseteq Tree(calls) /\ b.conditions \in Seq(Tree(calls)) /\ DOMAIN b = Fields
<1>1. calls \in 0..MaxCalls /\ MaxHeight \in Nat /\ MaxCalls \in Nat /\ MaxCalls < MaxHeight
  BY WordsAssumption, BuildersAssumption DEF BuildersInv
<1>2. Given \subseteq Tree(calls) /\ Tree(calls) \subseteq Trees[MaxHeight]
  BY <1>1, Heights DEF Tree
<1>3. Height(calls) \in 0..(MaxHeight - 1)
  BY <1>1, Heights
<1>4. Tree(calls) \subseteq Trees[MaxHeight - 1]
  <2>1. Height(calls) \in 0..MaxHeight /\ MaxHeight - 1 \in Height(calls)..MaxHeight
    BY <1>1, <1>3
  <2> QED
    BY <2>1, TreesRise DEF Tree
<1>5. b.conditions \in Seq(Tree(calls)) /\ DOMAIN b = Fields
  BY BuilderParts, BuilderFields DEF BuildersInv
<1> QED
  BY <1>2, <1>4, <1>5, SeqsOver DEF AskedTyped

LEMMA WhereStored ==
    ASSUME BuildersInv, AskedTyped, Stored(b.conditions, asked.where),
           NEW cond \in Conditions, Where(cond)
    PROVE  Stored(b'.conditions, asked'.where) /\ asked'.where \in Seq(Seq(Trees[MaxHeight]))
<1>1. PICK T, c, w : T = Trees[MaxHeight] /\ c = b.conditions /\ w = asked.where
  OBVIOUS
<1>2. c \in Seq(T) /\ w \in Seq(Seq(T)) /\ cond \in T /\ Stored(c, w)
  BY <1>1, GivenTrees, BuildersAssumption
<1>3. b'.conditions = Append(c, cond)
  BY <1>1, GivenTrees DEF Where, Method, Fields
<1>4. asked'.where = Append(w, <<cond>>)
  BY <1>1 DEF Where, AskedTyped
<1>5. PICK one, group : one = <<cond>> /\ group = [i \in DOMAIN one |-> <<one[i]>>]
  OBVIOUS
<1>6. one \in Seq(T) /\ Len(one) = 1 /\ one[1] = cond
  BY <1>2, <1>5
<1>7. group \in Seq(Seq(T)) /\ \A V : Follows(V, one, group)
  BY <1>5, <1>6, FollowsSingles
<1>8. group = <<one>>
  BY <1>5, <1>6
<1>9. Append(c, cond) = c \o one /\ Append(w, one) = w \o group
  BY <1>2, <1>5, <1>6, <1>7, <1>8, AppendIsConcat
<1>10. \A V \in Valuations : Follows(V, c \o one, w \o group)
  BY <1>2, <1>6, <1>7, FollowsConcat DEF Stored
<1>11. PICK u, v : u = c \o one /\ v = w \o group
  OBVIOUS
<1>12. Len(u) = Len(v) /\ v \in Seq(Seq(T))
  <2>1. Len(c) = Len(w) /\ Len(group) = 1
    BY <1>2, <1>8 DEF Stored
  <2>2. v \in Seq(Seq(T)) /\ Len(v) = Len(w) + Len(group)
    BY <1>2, <1>7, <1>11, ConcatProperties
  <2>3. Len(u) = Len(c) + Len(one)
    BY <1>2, <1>6, <1>11, ConcatProperties
  <2> QED
    BY <1>6, <2>1, <2>2, <2>3
<1>13. Stored(u, v)
  BY <1>10, <1>11, <1>12 DEF Stored
<1> QED
  BY <1>1, <1>3, <1>4, <1>5, <1>9, <1>11, <1>12, <1>13

LEMMA OrWhereStored ==
    ASSUME BuildersInv, AskedTyped, Stored(b.conditions, asked.where),
           NEW cond \in Conditions, OrWhere(cond)
    PROVE  Stored(b'.conditions, asked'.where) /\ asked'.where \in Seq(Seq(Trees[MaxHeight]))
<1>1. PICK T, c, w, n : T = Trees[MaxHeight] /\ c = b.conditions /\ w = asked.where /\ n = Len(c)
  OBVIOUS
<1>2. c \in Seq(T) /\ w \in Seq(Seq(T)) /\ cond \in T /\ Stored(c, w) /\ Len(w) = n /\ n \in Nat
  BY <1>1, GivenTrees, BuildersAssumption DEF Stored
<1>3. CASE n = 0
  <2>1. PICK one, group : one = <<cond>> /\ group = [i \in DOMAIN one |-> <<one[i]>>]
    OBVIOUS
  <2>2. one \in Seq(T) /\ Len(one) = 1 /\ one[1] = cond
    BY <1>2, <2>1
  <2>3. group \in Seq(Seq(T)) /\ \A V : Follows(V, one, group)
    BY <2>1, <2>2, FollowsSingles
  <2>4. group = <<one>> /\ Len(group) = 1
    BY <2>1, <2>2
  <2>5. b'.conditions = one
    BY <1>1, <1>3, <2>1, GivenTrees DEF OrWhere, Method, Fields
  <2>6. asked'.where = <<one>>
    BY <1>1, <1>3, <2>1 DEF OrWhere, AskedTyped
  <2>7. Stored(one, group)
    BY <2>2, <2>3, <2>4 DEF Stored
  <2> QED
    BY <1>1, <2>3, <2>4, <2>5, <2>6, <2>7
<1>4. CASE n # 0
  <2>1. PICK or, group : or = Or(<<c[n], cond>>) /\ group = Append(w[n], cond)
    OBVIOUS
  <2>2. PICK now, then : now = [c EXCEPT ![n] = or] /\ then = [w EXCEPT ![n] = group]
    OBVIOUS
  <2>3. b'.conditions = now
    <3>1. b' = [b EXCEPT !.conditions[n] = or]
      BY <1>1, <1>4, <2>1 DEF OrWhere, Method
    <3> QED
      BY <1>1, <2>2, <3>1, GivenTrees DEF Fields
  <2>4. asked'.where = then
    <3>1. asked' = [asked EXCEPT !.where[n] = group]
      BY <1>1, <1>2, <1>4, <2>1 DEF OrWhere
    <3> QED
      BY <1>1, <2>2, <3>1 DEF AskedTyped
  <2>5. n \in 1..Len(c) /\ n \in 1..Len(w)
    BY <1>1, <1>2, <1>4
  <2>6. c[n] \in Trees[MaxHeight - 1] /\ cond \in Trees[MaxHeight - 1]
    <3>1. PICK S : S = Tree(calls)
      OBVIOUS
    <3>2. c \in Seq(S) /\ cond \in S /\ S \subseteq Trees[MaxHeight - 1]
      BY <1>1, <3>1, GivenTrees, BuildersAssumption
    <3>3. c[n] \in S
      BY <2>5, <3>2
    <3> QED
      BY <3>2, <3>3
  <2>7. ASSUME NEW V \in Valuations PROVE Follows(V, now, then) /\ then \in Seq(Seq(T))
    <3>1. V[or] <=> (V[c[n]] \/ V[cond])
      BY <2>1, <2>6 DEF Valuations
    <3>2. Follows(V, c, w)
      BY <1>2 DEF Stored
    <3>3. n = Len(c) /\ n # 0
      BY <1>1, <1>4, Zenon
    <3>4. group = Append(w[n], cond)
      BY <2>1, Zenon
    <3>5. c \in Seq(T) /\ w \in Seq(Seq(T)) /\ cond \in T
      BY <1>2, Zenon
    <3>6. OrLast(V, c, w, n, or, cond, now, then, group)
      BY <2>2, <3>1, <3>3, <3>4, Zenon DEF OrLast
    <3> QED
      BY <3>2, <3>5, <3>6, FollowsOr, Zenon
  <2>8. then \in Seq(Seq(T)) /\ Len(now) = Len(then)
    <3>1. w[n] \in Seq(T)
      BY <1>2, <2>5
    <3>2. group \in Seq(T)
      BY <1>2, <2>1, <3>1, AppendProperties
    <3>3. then \in Seq(Seq(T)) /\ Len(then) = Len(w)
      BY <1>2, <2>2, <2>5, <3>2
    <3>4. Len(now) = Len(c)
      BY <1>2, <2>2, <2>5
    <3> QED
      BY <1>1, <1>2, <3>3, <3>4
  <2>9. Stored(now, then)
    BY <2>7, <2>8 DEF Stored
  <2> QED
    BY <1>1, <2>3, <2>4, <2>8, <2>9
<1> QED
  BY <1>3, <1>4

LEMMA ListStored ==
    ASSUME BuildersInv, AskedTyped, Stored(b.conditions, asked.where),
           NEW params \in QueryStrings, NEW ordering \in Orderings, List(params, ordering)
    PROVE  /\ Stored(b'.conditions, asked'.where) /\ asked'.where \in Seq(Seq(Trees[MaxHeight]))
           /\ b'.sets = b.sets /\ b'.rows = b.rows /\ b'.columns = b.columns
<1>1. PICK T, c, w, s : T = Trees[MaxHeight] /\ c = b.conditions /\ w = asked.where /\ s = filters'
  OBVIOUS
<1>2. c \in Seq(T) /\ w \in Seq(Seq(T)) /\ Stored(c, w)
  BY <1>1, GivenTrees
<1>3. s \in Seq(Filters)
  BY <1>1, FiltersParsed DEF List
<1>4. PICK conds : conds = [i \in DOMAIN s |-> ConditionOf(s[i])]
  OBVIOUS
<1>5. PICK group : group = [i \in DOMAIN conds |-> <<conds[i]>>]
  OBVIOUS
<1>6. conds \in Seq(T)
  <2>1. DOMAIN s = 1..Len(s) /\ Len(s) \in Nat /\ \A i \in 1..Len(s) : s[i] \in Filters
    BY <1>3
  <2>2. \A f \in Filters : ConditionOf(f) \in T
    BY <1>1, ConditionHigh
  <2>3. conds \in [1..Len(s) -> T]
    BY <1>4, <2>1, <2>2
  <2> QED
    BY <2>1, <2>3, AsSeq
<1>7. group \in Seq(Seq(T)) /\ \A V : Follows(V, conds, group)
  BY <1>5, <1>6, FollowsSingles
<1>8. PICK u, v : u = c \o conds /\ v = w \o group
  OBVIOUS
<1>9. /\ b'.conditions = u /\ b'.sets = b.sets /\ b'.rows = b.rows /\ b'.columns = b.columns
  <2>1. \E orders : b' = [b EXCEPT !.conditions = u, !.orderBy = @ \o orders]
    BY <1>1, <1>4, <1>8 DEF List
  <2> QED
    BY <2>1, GivenTrees DEF Fields
<1>10. asked'.where = v
  <2>1. group = [i \in DOMAIN s |-> <<ConditionOf(s[i])>>]
    BY <1>4, <1>5
  <2>2. asked' = [asked EXCEPT !.where = v]
    BY <1>1, <1>8, <2>1 DEF List
  <2> QED
    BY <2>2 DEF AskedTyped
<1>11. \A V \in Valuations : Follows(V, u, v)
  BY <1>2, <1>6, <1>7, <1>8, FollowsConcat DEF Stored
<1>12. Len(u) = Len(v) /\ v \in Seq(Seq(T))
  <2>1. Len(c) = Len(w) /\ Len(conds) = Len(group)
    BY <1>2, <1>7 DEF Stored, Follows
  <2>2. v \in Seq(Seq(T)) /\ Len(v) = Len(w) + Len(group)
    BY <1>2, <1>7, <1>8, ConcatProperties
  <2>3. Len(u) = Len(c) + Len(conds)
    BY <1>2, <1>6, <1>8, ConcatProperties
  <2> QED
    BY <2>1, <2>2, <2>3
<1>13. Stored(u, v)
  BY <1>11, <1>12 DEF Stored
<1> QED
  BY <1>1, <1>9, <1>10, <1>12, <1>13

-----------------------------------------------------------------------------
(* The invariant about what was asked for                                  *)

AskedInv ==
    /\ AskedTyped
    /\ Settled(b.sets, asked.sets)
    /\ ~asked.mixed => LinesUp(b.rows, b.columns, asked.rows)
    /\ Stored(b.conditions, asked.where)

\* b and asked as before, in all that AskedInv is about.
SameAsked ==
    /\ b'.sets = b.sets /\ asked'.sets = asked.sets
    /\ b'.conditions = b.conditions /\ asked'.where = asked.where
    /\ DOMAIN asked' = DOMAIN asked

LEMMA SameSettled ==
    ASSUME AskedInv, SameAsked, asked'.rows \in Seq(RowMaps), asked'.mixed \in BOOLEAN
    PROVE  AskedTyped' /\ Settled(b'.sets, asked'.sets) /\ Stored(b'.conditions, asked'.where)
<1>1. AskedTyped'
  BY DEF AskedInv, SameAsked, AskedTyped
<1>2. Settled(b'.sets, asked'.sets)
  BY DEF AskedInv, SameAsked
<1>3. Stored(b'.conditions, asked'.where)
  BY DEF AskedInv, SameAsked
<1> QED
  BY <1>1, <1>2, <1>3

LEMMA AskedSteps ==
    ASSUME BuildersInv, AskedInv, [Next]_vars
    PROVE  AskedInv'
<1> DEFINE Other(q) == q.verb = b.verb /\ q.rows = b.rows /\ q.columns = b.columns
<1>1. /\ AskedTyped /\ Settled(b.sets, asked.sets) /\ Stored(b.conditions, asked.where)
      /\ DOMAIN b = Fields /\ asked.rows \in Seq(RowMaps) /\ asked.mixed \in BOOLEAN
  BY BuilderFields DEF AskedInv, AskedTyped, BuildersInv
<1>2. ASSUME ElsewhereNext PROVE AskedInv'
  <2>1. StoresAs(b, b') /\ asked' = asked
    BY <1>2, ElsewhereSteps
  <2>2. SameAsked /\ asked'.rows = asked.rows /\ asked'.mixed = asked.mixed
        /\ b'.rows = b.rows /\ b'.columns = b.columns
    BY <1>1, <2>1 DEF StoresAs, SameAsked, AskedTyped
  <2>3. ~asked'.mixed => LinesUp(b'.rows, b'.columns, asked'.rows)
    BY <2>2 DEF AskedInv
  <2> QED
    BY <1>1, <2>2, <2>3, SameSettled DEF AskedInv
<1>3. ASSUME NEW column \in Columns, SelectColumn(column) PROVE AskedInv'
  <2>1. PICK q : q = Checked(b.verb = "cte" \/ ValidColumnReference(column))
    OBVIOUS
  <2>2. StoresAs(b, q)
    BY <2>1, CheckedStores DEF BuildersInv
  <2>3. b' = [q EXCEPT !.columns = <<column>>] /\ asked' = asked
    BY <1>3, <2>1 DEF SelectColumn, Method
  <2>4. SameAsked /\ b'.rows = b.rows
    BY <2>2, <2>3 DEF StoresAs, Fields, SameAsked
  <2>5. b.columns = <<>>
    BY <1>3 DEF SelectColumn
  <2>6. ~asked'.mixed => LinesUp(b'.rows, b'.columns, asked'.rows)
    <3> SUFFICES ASSUME ~asked.mixed, \A k \in 1..Len(asked.rows) : DOMAIN asked.rows[k] # {}
                 PROVE  /\ Len(b.rows) = Len(asked.rows) /\ Len(b.rows) = 0
      <4>1. \A m : LinesUp(b.rows, m, asked.rows) <=>
                ((\A k \in 1..Len(asked.rows) : DOMAIN asked.rows[k] # {}) =>
                   /\ Len(b.rows) = Len(asked.rows) /\ (Len(b.rows) # 0 => m # <<>>)
                   /\ \A k \in 1..Len(asked.rows) : b.rows[k] = RowOf(asked.rows[k], m))
        BY DEF LinesUp
      <4>2. \A k : k \notin 1..0
        OBVIOUS
      <4> QED
        BY <2>3, <2>4, <4>1, <4>2
    <3> QED
      BY <2>5 DEF AskedInv, LinesUp
  <2> QED
    BY <1>1, <2>3, <2>4, <2>6, SameSettled DEF AskedInv
<1>4. ASSUME NEW cond \in Conditions, Where(cond) \/ OrWhere(cond) PROVE AskedInv'
  <2>1. Stored(b'.conditions, asked'.where) /\ asked'.where \in Seq(Seq(Trees[MaxHeight]))
    BY <1>1, <1>4, WhereStored, OrWhereStored
  <2>2. \E v : asked' = [asked EXCEPT !.where = v]
    <3>1. CASE Where(cond)
      BY <3>1 DEF Where
    <3>2. CASE OrWhere(cond)
      BY <3>2 DEF OrWhere
    <3> QED
      BY <1>4, <3>1, <3>2
  <2>3. \E v : b' = [b EXCEPT !.conditions = v]
    <3>1. CASE Where(cond)
      BY <3>1 DEF Where, Method
    <3>2. CASE OrWhere(cond)
      BY <3>2 DEF OrWhere, Method
    <3> QED
      BY <1>4, <3>1, <3>2
  <2>4. b'.sets = b.sets /\ b'.rows = b.rows /\ b'.columns = b.columns
    BY <1>1, <2>3 DEF Fields
  <2>5. /\ asked'.sets = asked.sets /\ asked'.rows = asked.rows /\ asked'.mixed = asked.mixed
        /\ DOMAIN asked' = DOMAIN asked
    BY <1>1, <2>2 DEF AskedTyped
  <2>6. AskedTyped'
    BY <1>1, <2>1, <2>5 DEF AskedTyped
  <2>7. Settled(b'.sets, asked'.sets) /\ (~asked'.mixed => LinesUp(b'.rows, b'.columns, asked'.rows))
    BY <2>4, <2>5 DEF AskedInv
  <2> QED
    BY <2>1, <2>6, <2>7 DEF AskedInv
<1>5. ASSUME NEW column \in Columns, NEW value \in SetValues, Set(column, value) PROVE AskedInv'
  <2>1. PICK q, pair : q = Checked(ValidIdentifier(column)) /\ pair = <<column, value>>
    OBVIOUS
  <2>2. StoresAs(b, q)
    BY <2>1, CheckedStores DEF BuildersInv
  <2>3. \E v : b' = [q EXCEPT !.sets = v]
    BY <1>5, <2>1 DEF Set, Method
  <2>4. b'.rows = b.rows /\ b'.columns = b.columns /\ b'.conditions = b.conditions
    BY <2>2, <2>3 DEF StoresAs, Fields
  <2>5. asked' = [asked EXCEPT !.sets = Append(@, pair)]
    BY <1>5, <2>1 DEF Set
  <2>6. /\ asked'.where = asked.where /\ asked'.rows = asked.rows /\ asked'.mixed = asked.mixed
        /\ DOMAIN asked' = DOMAIN asked /\ asked'.sets = Append(asked.sets, pair)
    BY <1>1, <2>5 DEF AskedTyped
  <2>7. asked'.sets \in Seq(Words \X BoundValues)
    <3>1. pair \in Words \X BoundValues
      BY <2>1, BuildersAssumption
    <3> QED
      BY <1>1, <2>6, <3>1, AppendProperties DEF AskedTyped
  <2>8. AskedTyped'
    BY <1>1, <2>6, <2>7 DEF AskedTyped
  <2>9. Settled(b'.sets, asked'.sets)
    BY <1>1, <1>5, SetSettles
  <2>10. Stored(b'.conditions, asked'.where) /\ (~asked'.mixed => LinesUp(b'.rows, b'.columns, asked'.rows))
    BY <2>4, <2>6 DEF AskedInv
  <2> QED
    BY <2>8, <2>9, <2>10 DEF AskedInv
<1>6. ASSUME NEW columns \in ColumnLists, InsertColumns(columns) PROVE AskedInv'
  <2>1. b' = [b EXCEPT !.columns = columns] /\ asked' = [asked EXCEPT !.mixed = @ \/ b.rows # <<>>]
    BY <1>6 DEF InsertColumns, Method
  <2>2. SameAsked /\ asked'.rows = asked.rows /\ b'.rows = b.rows
        /\ (asked'.mixed <=> (asked.mixed \/ b.rows # <<>>)) /\ asked'.mixed \in BOOLEAN
    BY <1>1, <2>1 DEF SameAsked, AskedTyped, Fields
  <2>3. ~asked'.mixed => LinesUp(b'.rows, b'.columns, asked'.rows)
    <3> SUFFICES ASSUME ~asked.mixed, b.rows = <<>>,
                        \A k \in 1..Len(asked.rows) : DOMAIN asked.rows[k] # {}
                 PROVE  Len(asked.rows) = 0
      <4>1. Len(<<>>) = 0 /\ \A k : k \notin 1..0
        OBVIOUS
      <4> QED
        BY <2>2, <4>1 DEF LinesUp
    <3>1. Len(b.rows) = 0
      OBVIOUS
    <3> QED
      BY <3>1 DEF AskedInv, LinesUp
  <2> QED
    BY <1>1, <2>2, <2>3, SameSettled DEF AskedInv
<1>7. ASSUME NEW values \in RowValues, InsertValues(values) PROVE AskedInv'
  <2>1. (\E v : b' = [b EXCEPT !.rows = v]) /\ asked' = [asked EXCEPT !.mixed = TRUE]
    BY <1>7 DEF InsertValues, Method
  <2>2. SameAsked /\ asked'.rows = asked.rows /\ asked'.mixed = TRUE
    BY <1>1, <2>1 DEF SameAsked, AskedTyped, Fields
  <2> QED
    BY <1>1, <2>2, SameSettled DEF AskedInv
<1>8. ASSUME NEW row \in RowMaps, ValuesMap(row) PROVE AskedInv'
  <2>1. \E u, v : b' = [b EXCEPT !.columns = u, !.rows = v]
    BY <1>8 DEF ValuesMap, Method
  <2>2. asked' = [asked EXCEPT !.rows = Append(@, row)]
    BY <1>8 DEF ValuesMap
  <2>3. SameAsked /\ asked'.rows = Append(asked.rows, row) /\ asked'.mixed = asked.mixed
    BY <1>1, <2>1, <2>2 DEF SameAsked, AskedTyped, Fields
  <2>4. asked'.rows \in Seq(RowMaps)
    BY <1>1, <2>3, AppendProperties
  <2>5. ~asked'.mixed => LinesUp(b'.rows, b'.columns, asked'.rows)
    BY <1>1, <1>8, <2>3, ValuesMapLinesUp DEF AskedInv
  <2> QED
    BY <1>1, <2>3, <2>4, <2>5, SameSettled DEF AskedInv
<1>9. ASSUME NEW params \in QueryStrings, NEW ordering \in Orderings, List(params, ordering)
      PROVE  AskedInv'
  <2>1. /\ Stored(b'.conditions, asked'.where) /\ asked'.where \in Seq(Seq(Trees[MaxHeight]))
        /\ b'.sets = b.sets /\ b'.rows = b.rows /\ b'.columns = b.columns
    BY <1>1, <1>9, ListStored
  <2>2. \E v : asked' = [asked EXCEPT !.where = v]
    BY <1>9 DEF List
  <2>3. /\ asked'.sets = asked.sets /\ asked'.rows = asked.rows /\ asked'.mixed = asked.mixed
        /\ DOMAIN asked' = DOMAIN asked
    BY <1>1, <2>2 DEF AskedTyped
  <2>4. AskedTyped'
    BY <1>1, <2>1, <2>3 DEF AskedTyped
  <2>5. Settled(b'.sets, asked'.sets) /\ (~asked'.mixed => LinesUp(b'.rows, b'.columns, asked'.rows))
    BY <2>1, <2>3 DEF AskedInv
  <2> QED
    BY <2>1, <2>4, <2>5 DEF AskedInv
<1>10. ASSUME NEW cond \in HavingConditions, Having(cond) PROVE AskedInv'
  <2>1. (\E v : b' = [b EXCEPT !.having = v]) /\ \E v : asked' = [asked EXCEPT !.having = v]
    BY <1>10 DEF Having, Method
  <2>2. SameAsked /\ asked'.rows = asked.rows /\ asked'.mixed = asked.mixed
        /\ b'.rows = b.rows /\ b'.columns = b.columns
    BY <1>1, <2>1 DEF SameAsked, AskedTyped, Fields
  <2>3. ~asked'.mixed => LinesUp(b'.rows, b'.columns, asked'.rows)
    BY <2>2 DEF AskedInv
  <2> QED
    BY <1>1, <2>2, <2>3, SameSettled DEF AskedInv
<1>11. ASSUME UNCHANGED vars PROVE AskedInv'
  <2>1. b' = b /\ asked' = asked
    BY <1>11 DEF vars
  <2> QED
    BY <2>1 DEF AskedInv, AskedTyped
<1> QED
  BY <1>2, <1>3, <1>4, <1>5, <1>6, <1>7, <1>8, <1>9, <1>10, <1>11 DEF Next, ElsewhereNext

LEMMA AskedInit ==
    ASSUME Init
    PROVE  AskedInv
<1>1. asked = [where |-> <<>>, having |-> <<>>, sets |-> <<>>, rows |-> <<>>, mixed |-> FALSE]
  BY DEF Init
<1>2. b.sets = <<>> /\ b.rows = <<>> /\ b.conditions = <<>>
  BY DEF Init, Builder
<1>3. Len(<<>>) = 0 /\ \A i : i \notin 1..0
  OBVIOUS
<1>4. AskedTyped
  BY <1>1, EmptySeq DEF AskedTyped
<1>5. Settled(b.sets, asked.sets)
  BY <1>1, <1>2, <1>3 DEF Settled
<1>6. LinesUp(b.rows, b.columns, asked.rows)
  BY <1>1, <1>2, <1>3 DEF LinesUp
<1>7. Stored(b.conditions, asked.where)
  BY <1>1, <1>2, <1>3 DEF Stored, Follows
<1> QED
  BY <1>4, <1>5, <1>6, <1>7 DEF AskedInv

LEMMA AskedInvariance == Spec => []AskedInv
<1>1. Init => AskedInv
  BY AskedInit
<1>2. BuildersInv /\ AskedInv /\ [Next]_vars => AskedInv'
  BY AskedSteps
<1> QED
  BY <1>1, <1>2, Invariance, PTL DEF Spec

-----------------------------------------------------------------------------
(* Theorems about what the builder stores                                  *)

SetsSettled == Settled(b.sets, asked.sets)
RowsLineUp == ~asked.mixed => LinesUp(b.rows, b.columns, asked.rows)
ConditionsKeptApart == \A V \in Valuations : Follows(V, b.conditions, asked.where)

\* However often an UPDATE sets its columns, and in whatever order: it has
\* each column once, with the value set last (UpdateBuilder.Set).
THEOREM EachColumnOnce == Spec => []SetsSettled
<1>1. AskedInv => SetsSettled
  BY DEF AskedInv, SetsSettled
<1> QED
  BY <1>1, AskedInvariance, PTL

\* Rows given as maps line up with the columns of the first, in whatever
\* order it was ranged over, as long as no map is empty: a first map without
\* columns leaves the next one to choose them (InsertBuilder.ValuesMap).
THEOREM RowsAlwaysLineUp == Spec => []RowsLineUp
<1>1. AskedInv => RowsLineUp
  BY DEF AskedInv, RowsLineUp
<1> QED
  BY <1>1, AskedInvariance, PTL

\* Whatever conditions mean: those a builder stores hold where the groups
\* asked for do.  Where, And and the filters of a listing add a condition; Or
\* widens the one before it and leaves the others alone (query/select.go,
\* update.go, delete.go).
THEOREM ConditionsMeanTheirGroups == Spec => []ConditionsKeptApart
<1>1. AskedInv => ConditionsKeptApart
  BY DEF AskedInv, Stored, ConditionsKeptApart
<1> QED
  BY <1>1, AskedInvariance, PTL
=============================================================================
