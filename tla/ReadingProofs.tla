--------------------------- MODULE ReadingProofs ---------------------------
(***************************************************************************)
(* Theorems about what the statements of the query builders mean: read     *)
(* back as a database reads them, their clauses are the conditions that    *)
(* were asked for, a refused condition leaves a text that does not parse,  *)
(* and every value stands with the column it was given for.                *)
(***************************************************************************)
EXTENDS Reading, BuildersProofs

-----------------------------------------------------------------------------
(* How deep in brackets a token stands                                     *)

Weight(tok) == IF tok.t \in Opening THEN 1 ELSE IF tok.t \in Closing THEN -1 ELSE 0

LEMMA DepthsRise ==
    ASSUME NEW text \in Seq(Token)
    PROVE  /\ Len(text) \in Nat /\ DOMAIN text = 1..Len(text)
           /\ Depths(text) \in [0..Len(text) -> Int]
           /\ Depths(text)[0] = 0
           /\ \A k \in 1..Len(text) : Depths(text)[k] = Depths(text)[k - 1] + Weight(text[k])
<1> PICK n : n = Len(text)
  OBVIOUS
<1> DEFINE step == [k \in 1..n |-> [x \in Int |-> x + Weight(text[k])]]
           body(f) == [i \in 0..n |-> IF i = 0 THEN 0 ELSE f[i - 1] + Weight(text[i])]
<1>1. n = Len(text) /\ n \in Nat /\ DOMAIN text = 1..n /\ \A k \in 1..n : Weight(text[k]) \in Int
  BY DEF Weight
<1>2. step \in [1..n -> [Int -> Int]]
  BY <1>1
<1>3. PICK f \in [0..n -> Int] : Ascends(f, n, 0, step)
  <2>1. PICK Z : Z = Int
    OBVIOUS
  <2> HIDE DEF step
  <2>2. n \in Nat /\ 0 \in Z /\ step \in [1..n -> [Z -> Z]]
    BY <1>1, <1>2, <2>1
  <2>3. \E f \in [0..n -> Z] : Ascends(f, n, 0, step)
    BY <2>2, Recursion
  <2> QED
    BY <2>1, <2>3
<1>4. f[0] = 0 /\ \A k \in 1..n : f[k] = f[k - 1] + Weight(text[k])
  <2>1. \A k \in 1..n : f[k - 1] \in Int
    BY <1>1
  <2> QED
    BY <1>3, <2>1 DEF Ascends
<1>5. f = body(f)
  <2>1. \A i \in 0..n : f[i] = IF i = 0 THEN 0 ELSE f[i - 1] + Weight(text[i])
    BY <1>1, <1>4
  <2> QED
    BY <1>1, <2>1
<1>6. PICK g : g = body(g) /\ Depths(text) = g
  <2>1. Depths(text) = CHOOSE g : g = body(g)
    BY DEF Depths, Weight
  <2> HIDE DEF body
  <2> QED
    BY <1>5, <2>1
<1>7. DOMAIN g = 0..n /\ g[0] = 0 /\ \A k \in 1..n : g[k] = g[k - 1] + Weight(text[k])
  <2>1. 0 \in 0..n /\ \A k \in 1..n : k \in 0..n /\ k # 0
    BY <1>1
  <2>2. g = body(g)
    BY <1>6
  <2>3. DOMAIN g = 0..n /\ \A k \in 0..n : g[k] = IF k = 0 THEN 0 ELSE g[k - 1] + Weight(text[k])
    BY <2>2
  <2> QED
    BY <2>1, <2>3
<1>8. \A k \in 0..n : g[k] = f[k]
  <2> DEFINE P == {k \in 0..n : g[k] = f[k]}
  <2>1. 0 \in P
    BY <1>1, <1>4, <1>7
  <2>2. ASSUME NEW k \in 0..(n - 1), k \in P PROVE k + 1 \in P
    <3>1. k + 1 \in 1..n /\ k + 1 \in 0..n /\ (k + 1) - 1 = k
      BY <1>1
    <3> QED
      BY <1>4, <1>7, <2>2, <3>1
  <2> HIDE DEF P
  <2>3. \A k \in 0..n : k \in P
    BY <1>1, <2>1, <2>2, Upwards
  <2> QED
    BY <2>3 DEF P
<1>9. g \in [0..n -> Int]
  <2>1. g = [k \in 0..n |-> f[k]]
    BY <1>6, <1>8
  <2> QED
    BY <2>1
<1> QED
  BY <1>1, <1>6, <1>7, <1>9

\* A word is at a place no bracket encloses.
LEMMA AtPlaces ==
    ASSUME NEW text \in Seq(Token), NEW W
    PROVE  /\ At(text, W) \subseteq 1..Len(text)
           /\ \A i \in 1..Len(text) :
                 i \in At(text, W) <=> (text[i].t \in W /\ Depths(text)[i - 1] = 0)
BY DepthsRise DEF At

LEMMA DepthsConcat ==
    ASSUME NEW s \in Seq(Token), NEW t \in Seq(Token)
    PROVE  /\ s \o t \in Seq(Token) /\ Len(s \o t) = Len(s) + Len(t)
           /\ \A i \in 0..Len(s) : Depths(s \o t)[i] = Depths(s)[i]
           /\ \A i \in 0..Len(t) :
                 Depths(s \o t)[Len(s) + i] = Depths(s)[Len(s)] + Depths(t)[i]
<1> DEFINE m == Len(s)
           n == Len(t)
           u == s \o t
<1>1. /\ m \in Nat /\ n \in Nat /\ u \in Seq(Token) /\ Len(u) = m + n
      /\ \A i \in 1..m : u[i] = s[i]
      /\ \A i \in 1..n : u[m + i] = t[i]
  <2>1. /\ u \in Seq(Token) /\ Len(u) = m + n /\ m \in Nat /\ n \in Nat
        /\ \A i \in 1..(m + n) : u[i] = IF i <= m THEN s[i] ELSE t[i - m]
    BY ConcatProperties
  <2> HIDE DEF u, m, n
  <2>2. ASSUME NEW i \in 1..n PROVE u[m + i] = t[i]
    <3>1. m + i \in 1..(m + n) /\ ~(m + i <= m) /\ (m + i) - m = i
      BY <2>1
    <3> QED
      BY <2>1, <3>1
  <2> QED
    BY <2>1, <2>2
<1>2. PICK f, g, h : f = Depths(s) /\ g = Depths(t) /\ h = Depths(u)
  OBVIOUS
<1>3. /\ f \in [0..m -> Int] /\ f[0] = 0 /\ \A k \in 1..m : f[k] = f[k - 1] + Weight(s[k])
      /\ g \in [0..n -> Int] /\ g[0] = 0 /\ \A k \in 1..n : g[k] = g[k - 1] + Weight(t[k])
      /\ h[0] = 0 /\ \A k \in 1..(m + n) : h[k] = h[k - 1] + Weight(u[k])
  BY <1>1, <1>2, DepthsRise
<1> HIDE DEF m, n, u
<1>4. \A i \in 0..m : h[i] = f[i]
  <2> DEFINE P == {k \in 0..m : h[k] = f[k]}
  <2>1. 0 \in P
    BY <1>1, <1>3
  <2>2. ASSUME NEW k \in 0..(m - 1), k \in P PROVE k + 1 \in P
    <3>1. k + 1 \in 1..m /\ k + 1 \in 0..m /\ (k + 1) - 1 = k /\ k + 1 \in 1..(m + n)
      BY <1>1
    <3> QED
      BY <1>1, <1>3, <2>2, <3>1
  <2> HIDE DEF P
  <2>3. \A k \in 0..m : k \in P
    BY <1>1, <2>1, <2>2, Upwards
  <2> QED
    BY <2>3 DEF P
<1>5. \A i \in 0..n : h[m + i] = f[m] + g[i]
  <2> DEFINE P == {k \in 0..n : h[m + k] = f[m] + g[k]}
  <2>1. 0 \in P
    <3>1. m \in 0..m /\ 0 \in 0..n /\ m + 0 = m /\ f[m] \in Int /\ f[m] + 0 = f[m]
      BY <1>1, <1>3
    <3> QED
      BY <1>3, <1>4, <3>1
  <2>2. ASSUME NEW k \in 0..(n - 1), k \in P PROVE k + 1 \in P
    <3>1. /\ k + 1 \in 1..n /\ k + 1 \in 0..n /\ (k + 1) - 1 = k
          /\ m + (k + 1) \in 1..(m + n) /\ (m + (k + 1)) - 1 = m + k
      BY <1>1
    <3>2. PICK w : w = Weight(t[k + 1]) /\ w \in Int
      BY DEF Weight
    <3>3. h[m + (k + 1)] = h[m + k] + w /\ g[k + 1] = g[k] + w
      BY <1>1, <1>3, <3>1, <3>2
    <3>4. f[m] \in Int /\ g[k] \in Int /\ h[m + k] = f[m] + g[k]
      BY <1>1, <1>3, <2>2
    <3>5. h[m + (k + 1)] = f[m] + g[k + 1]
      BY <3>2, <3>3, <3>4
    <3> QED
      BY <3>1, <3>5
  <2> HIDE DEF P
  <2>3. \A k \in 0..n : k \in P
    BY <1>1, <2>1, <2>2, Upwards
  <2> QED
    BY <2>3 DEF P
<1> QED
  BY <1>1, <1>2, <1>4, <1>5 DEF m, n, u

LEMMA AtConcat ==
    ASSUME NEW s \in Seq(Token), NEW t \in Seq(Token), Depths(s)[Len(s)] = 0, NEW W
    PROVE  /\ \A i \in 1..Len(s) : i \in At(s \o t, W) <=> i \in At(s, W)
           /\ \A i \in 1..Len(t) : Len(s) + i \in At(s \o t, W) <=> i \in At(t, W)
           /\ \A i \in At(s \o t, W) : i \in At(s, W) \/ i - Len(s) \in At(t, W)
<1> PICK u, m, n : u = s \o t /\ m = Len(s) /\ n = Len(t)
  OBVIOUS
<1>1. /\ m \in Nat /\ n \in Nat /\ u \in Seq(Token) /\ Len(u) = m + n
      /\ \A i \in 1..(m + n) : u[i] = IF i <= m THEN s[i] ELSE t[i - m]
  BY ConcatProperties
<1>2. PICK f, g, h : f = Depths(s) /\ g = Depths(t) /\ h = Depths(u)
  OBVIOUS
<1>3. g \in [0..n -> Int] /\ (\A i \in 0..m : h[i] = f[i]) /\ \A i \in 0..n : h[m + i] = f[m] + g[i]
  BY <1>2, DepthsConcat, DepthsRise
<1>8. /\ \A i \in 1..(m + n) : i \in At(u, W) <=> (u[i].t \in W /\ h[i - 1] = 0)
      /\ At(u, W) \subseteq 1..(m + n)
  <2>1. /\ \A i \in 1..Len(u) : i \in At(u, W) <=> (u[i].t \in W /\ Depths(u)[i - 1] = 0)
        /\ At(u, W) \subseteq 1..Len(u)
    BY <1>1, AtPlaces
  <2> QED
    BY <1>1, <1>2, <2>1
<1>9. \A i \in 1..m : i \in At(s, W) <=> (s[i].t \in W /\ f[i - 1] = 0)
  BY <1>2, AtPlaces
<1>10. \A i \in 1..n : i \in At(t, W) <=> (t[i].t \in W /\ g[i - 1] = 0)
  BY <1>2, AtPlaces
<1>4. ASSUME NEW i \in 1..m PROVE i \in At(u, W) <=> i \in At(s, W)
  <2>1. i \in 1..(m + n) /\ i - 1 \in 0..m /\ u[i] = s[i]
    BY <1>1
  <2> QED
    BY <1>3, <1>8, <1>9, <2>1
<1>5. ASSUME NEW i \in 1..n PROVE m + i \in At(u, W) <=> i \in At(t, W)
  <2>1. /\ m + i \in 1..(m + n) /\ i - 1 \in 0..n /\ (m + i) - 1 = m + (i - 1)
        /\ ~(m + i <= m) /\ (m + i) - m = i
    BY <1>1
  <2>2. u[m + i] = t[i] /\ h[(m + i) - 1] = f[m] + g[i - 1] /\ g[i - 1] \in Int
    BY <1>1, <1>3, <2>1
  <2>3. f[m] = 0
    BY <1>2
  <2>4. h[(m + i) - 1] = g[i - 1]
    BY <2>2, <2>3
  <2> QED
    BY <1>8, <1>10, <2>1, <2>2, <2>4
<1>6. ASSUME NEW i \in At(u, W) PROVE i \in At(s, W) \/ i - m \in At(t, W)
  <2>1. i \in 1..(m + n)
    BY <1>8
  <2>2. CASE i <= m
    BY <1>1, <1>4, <2>1, <2>2
  <2>3. CASE ~(i <= m)
    <3>1. i - m \in 1..n /\ m + (i - m) = i
      BY <1>1, <2>1, <2>3
    <3> QED
      BY <1>5, <3>1
  <2> QED
    BY <2>2, <2>3
<1> QED
  BY <1>4, <1>5, <1>6

\* Texts whose brackets pair; and those of them with no word of W outside.
Closed == {text \in Seq(Token) : /\ Depths(text)[Len(text)] = 0
                                 /\ \A i \in 0..Len(text) : Depths(text)[i] >= 0}
Free(W) == {text \in Closed : At(text, W) = {}}

Brackets == Opening \cup Closing

LEMMA ClosedConcat ==
    ASSUME NEW s \in Closed, NEW t \in Closed
    PROVE  s \o t \in Closed
<1> PICK u, m, n : u = s \o t /\ m = Len(s) /\ n = Len(t)
  OBVIOUS
<1>1. s \in Seq(Token) /\ t \in Seq(Token)
  BY DEF Closed
<1>2. PICK f, g, h : f = Depths(s) /\ g = Depths(t) /\ h = Depths(u)
  OBVIOUS
<1>3. /\ m \in Nat /\ n \in Nat /\ u \in Seq(Token) /\ Len(u) = m + n
      /\ f \in [0..m -> Int] /\ g \in [0..n -> Int]
      /\ \A i \in 0..m : h[i] = f[i]
      /\ \A i \in 0..n : h[m + i] = f[m] + g[i]
  BY <1>1, <1>2, DepthsConcat, DepthsRise
<1>4. /\ f[m] = 0 /\ \A i \in 0..m : f[i] >= 0
      /\ g[n] = 0 /\ \A i \in 0..n : g[i] >= 0
  BY <1>2 DEF Closed
<1>5. ASSUME NEW i \in 0..(m + n) PROVE h[i] >= 0
  <2>1. CASE i <= m
    <3>1. i \in 0..m
      BY <1>3, <2>1
    <3> QED
      BY <1>3, <1>4, <3>1
  <2>2. CASE ~(i <= m)
    <3>1. i - m \in 0..n /\ m + (i - m) = i
      BY <1>3, <2>2
    <3>2. h[i] = f[m] + g[i - m] /\ g[i - m] \in Int /\ g[i - m] >= 0
      BY <1>3, <1>4, <3>1
    <3> QED
      BY <1>4, <3>2
  <2> QED
    BY <2>1, <2>2
<1>6. h[m + n] = 0
  <2>1. n \in 0..n
    BY <1>3
  <2> QED
    BY <1>3, <1>4, <2>1
<1> QED
  BY <1>2, <1>3, <1>5, <1>6 DEF Closed

LEMMA FreeText ==
    ASSUME NEW W, NEW text \in Free(W)
    PROVE  text \in Seq(Token) /\ text \in Closed /\ At(text, W) = {} /\ Depths(text)[Len(text)] = 0
BY DEF Free, Closed

LEMMA FreeConcat ==
    ASSUME NEW W, NEW s \in Free(W), NEW t \in Free(W)
    PROVE  s \o t \in Free(W)
<1>1. At(s \o t, W) = {}
  BY FreeText, AtConcat
<1> QED
  BY <1>1, ClosedConcat, FreeText DEF Free

LEMMA FreeFewer ==
    ASSUME NEW W, NEW V, V \subseteq W, NEW text \in Free(W)
    PROVE  text \in Free(V)
<1>1. At(text, V) \subseteq At(text, W)
  BY FreeText, AtPlaces
<1> QED
  BY <1>1, FreeText DEF Free

\* A text without any bracket.
LEMMA FlatText ==
    ASSUME NEW text \in Seq(Token), NEW W, \A i \in 1..Len(text) : text[i].t \notin Brackets
    PROVE  /\ text \in Closed
           /\ \A i \in 1..Len(text) : i \in At(text, W) <=> text[i].t \in W
           /\ (\A i \in 1..Len(text) : text[i].t \notin W) => text \in Free(W)
<1> PICK n, f : n = Len(text) /\ f = Depths(text)
  OBVIOUS
<1>1. /\ n \in Nat /\ f \in [0..n -> Int] /\ f[0] = 0
      /\ \A k \in 1..n : f[k] = f[k - 1] + Weight(text[k])
  BY DepthsRise
<1>2. \A k \in 1..n : Weight(text[k]) = 0
  BY DEF Weight, Brackets
<1>3. \A k \in 0..n : f[k] = 0
  <2> DEFINE P == {k \in 0..n : f[k] = 0}
  <2>1. 0 \in P
    BY <1>1
  <2>2. ASSUME NEW k \in 0..(n - 1), k \in P PROVE k + 1 \in P
    <3>1. k + 1 \in 1..n /\ k + 1 \in 0..n /\ (k + 1) - 1 = k
      BY <1>1
    <3> QED
      BY <1>1, <1>2, <2>2, <3>1
  <2> HIDE DEF P
  <2>3. \A k \in 0..n : k \in P
    BY <1>1, <2>1, <2>2, Upwards
  <2> QED
    BY <2>3 DEF P
<1>4. text \in Closed
  <2>1. n \in 0..n
    BY <1>1
  <2> QED
    BY <1>3, <2>1 DEF Closed
<1>5. \A i \in 1..n : i \in At(text, W) <=> text[i].t \in W
  <2>1. \A i \in 1..n : i - 1 \in 0..n
    BY <1>1
  <2> QED
    BY <1>3, <2>1, AtPlaces
<1>6. (\A i \in 1..n : text[i].t \notin W) => At(text, W) = {}
  BY <1>5, AtPlaces
<1> QED
  BY <1>4, <1>5, <1>6 DEF Free

LEMMA FreeToken ==
    ASSUME NEW W, NEW tok \in Token, tok.t \notin Brackets, tok.t \notin W
    PROVE  <<tok>> \in Free(W)
<1>1. PICK text : text = <<tok>>
  OBVIOUS
<1>3. text \in Seq(Token) /\ Len(text) = 1 /\ text[1] = tok
  BY <1>1
<1>2. \A i \in 1..Len(text) : text[i] = tok
  BY <1>3
<1> QED
  BY <1>1, <1>2, <1>3, FlatText

LEMMA FreeNothing ==
    ASSUME NEW W
    PROVE  <<>> \in Free(W)
<1>1. PICK text : text = <<>> /\ text \in Seq(Token) /\ Len(text) = 0
  BY EmptySeq
<1>2. 1..Len(text) = {}
  BY <1>1
<1> QED
  BY <1>1, <1>2, FlatText

LEMMA OneToken ==
    ASSUME NEW tok \in Token
    PROVE  /\ <<tok>> \in Seq(Token) /\ Len(<<tok>>) = 1 /\ <<tok>>[1] = tok
           /\ Depths(<<tok>>)[0] = 0 /\ Depths(<<tok>>)[1] = Weight(tok)
<1>1. PICK text : text = <<tok>>
  OBVIOUS
<1>2. text \in Seq(Token) /\ Len(text) = 1 /\ text[1] = tok
  BY <1>1
<1>3. /\ Depths(text)[0] = 0
      /\ \A k \in 1..1 : Depths(text)[k] = Depths(text)[k - 1] + Weight(text[k])
  BY <1>2, DepthsRise
<1>4. 1 \in 1..1 /\ 1 - 1 = 0
  OBVIOUS
<1>5. Depths(text)[1] = 0 + Weight(tok)
  BY <1>2, <1>3, <1>4
<1>6. Weight(tok) \in Int
  BY DEF Weight
<1> QED
  BY <1>1, <1>2, <1>3, <1>5, <1>6

LEMMA BracketWords ==
    /\ \A w \in Brackets : w \in Keywords /\ Word(w) \in Token /\ Word(w).t = w
    /\ Opening \cap Closing = {}
    /\ \A w \in Opening : Weight(Word(w)) = 1
    /\ \A w \in Closing : Weight(Word(w)) = -1
<1>1. Brackets \subseteq Keywords
  BY Zenon DEF Brackets, Opening, Closing, Keywords
<1>2. \A w \in Brackets : Word(w) \in Token /\ Word(w).t = w
  BY <1>1, KeywordsUnmarked DEF Word
<1>3. Opening \cap Closing = {}
  BY DEF Opening, Closing
<1> QED
  BY <1>1, <1>2, <1>3 DEF Weight, Brackets

\* A text between brackets.
Around(open, text, close, u) ==
    /\ u \in Closed /\ Len(u) = Len(text) + 2 /\ Len(text) \in Nat
    /\ u[1] = Word(open) /\ u[Len(u)] = Word(close)
    /\ \A i \in 1..Len(text) : u[i + 1] = text[i]
    /\ \A i \in 1..(Len(u) - 1) : Depths(u)[i] > 0
    /\ \A W : open \notin W => u \in Free(W)

LEMMA BracketedText ==
    ASSUME NEW open \in Opening, NEW close \in Closing, NEW text \in Closed
    PROVE  Around(open, text, close, Bracketed(open, text, close))
<1> PICK u : u = Bracketed(open, text, close)
  OBVIOUS
<1> PICK n, x, y : n = Len(text) /\ x = <<Word(open)>> /\ y = <<Word(close)>>
  OBVIOUS
<1>1. /\ Word(open) \in Token /\ Word(close) \in Token
      /\ Word(open).t = open /\ Weight(Word(open)) = 1 /\ Weight(Word(close)) = -1
  BY BracketWords DEF Brackets
<1>2. /\ x \in Seq(Token) /\ Len(x) = 1 /\ x[1] = Word(open) /\ Depths(x)[0] = 0 /\ Depths(x)[1] = 1
      /\ y \in Seq(Token) /\ Len(y) = 1 /\ y[1] = Word(close) /\ Depths(y)[0] = 0 /\ Depths(y)[1] = -1
  BY <1>1, OneToken
<1>3. text \in Seq(Token) /\ n \in Nat /\ Depths(text) \in [0..n -> Int]
      /\ Depths(text)[n] = 0 /\ \A i \in 0..n : Depths(text)[i] >= 0
  BY DepthsRise DEF Closed
<1>4. PICK v : v = x \o text
  OBVIOUS
<1>5. /\ v \in Seq(Token) /\ Len(v) = n + 1 /\ v[1] = Word(open)
      /\ \A i \in 1..n : v[i + 1] = text[i]
  <2>1. /\ v \in Seq(Token) /\ Len(v) = 1 + n
        /\ \A i \in 1..(1 + n) : v[i] = IF i <= 1 THEN x[i] ELSE text[i - 1]
    BY <1>2, <1>3, <1>4, ConcatProperties
  <2>2. 1 \in 1..(1 + n) /\ \A i \in 1..n : i + 1 \in 1..(1 + n) /\ ~(i + 1 <= 1) /\ (i + 1) - 1 = i
    BY <1>3
  <2> QED
    BY <1>2, <1>3, <2>1, <2>2
<1>6. Depths(v)[0] = 0 /\ \A i \in 0..n : Depths(v)[i + 1] = 1 + Depths(text)[i]
  <2>1. /\ \A i \in 0..1 : Depths(v)[i] = Depths(x)[i]
        /\ \A i \in 0..n : Depths(v)[1 + i] = Depths(x)[1] + Depths(text)[i]
    <3>0. x \in Seq(Token) /\ text \in Seq(Token)
      BY <1>2, <1>3
    <3>1. /\ \A i \in 0..Len(x) : Depths(x \o text)[i] = Depths(x)[i]
          /\ \A i \in 0..Len(text) : Depths(x \o text)[Len(x) + i] = Depths(x)[Len(x)] + Depths(text)[i]
      BY ONLY <3>0, DepthsConcat
    <3>2. Len(x) = 1 /\ Len(text) = n
      BY <1>2
    <3> QED
      BY ONLY <1>4, <3>1, <3>2
  <2>2. 0 \in 0..1 /\ \A i \in 0..n : 1 + i = i + 1
    BY <1>3
  <2> QED
    BY <1>2, <2>1, <2>2
<1>7. u = v \o y
  BY <1>4 DEF Bracketed
<1>8. /\ u \in Seq(Token) /\ Len(u) = n + 2 /\ u[n + 2] = Word(close)
      /\ \A i \in 1..(n + 1) : u[i] = v[i]
  <2>1. /\ u \in Seq(Token) /\ Len(u) = (n + 1) + 1
        /\ \A i \in 1..((n + 1) + 1) : u[i] = IF i <= n + 1 THEN v[i] ELSE y[i - (n + 1)]
    BY <1>2, <1>5, <1>7, ConcatProperties
  <2>2. n + 2 \in 1..((n + 1) + 1) /\ ~(n + 2 <= n + 1) /\ (n + 2) - (n + 1) = 1
    BY <1>3
  <2> QED
    BY <1>2, <1>3, <2>1, <2>2
<1>9. Depths(u)[n + 2] = 0 /\ \A i \in 0..(n + 1) : Depths(u)[i] = Depths(v)[i]
  <2>1. /\ \A i \in 0..(n + 1) : Depths(u)[i] = Depths(v)[i]
        /\ \A i \in 0..1 : Depths(u)[(n + 1) + i] = Depths(v)[n + 1] + Depths(y)[i]
    <3>0. v \in Seq(Token) /\ y \in Seq(Token)
      BY <1>2, <1>5
    <3>1. /\ \A i \in 0..Len(v) : Depths(v \o y)[i] = Depths(v)[i]
          /\ \A i \in 0..Len(y) : Depths(v \o y)[Len(v) + i] = Depths(v)[Len(v)] + Depths(y)[i]
      BY ONLY <3>0, DepthsConcat
    <3>2. Len(v) = n + 1 /\ Len(y) = 1
      BY <1>2, <1>5
    <3> QED
      BY ONLY <1>7, <3>1, <3>2
  <2>2. n \in 0..n /\ 1 \in 0..1 /\ (n + 1) + 1 = n + 2
    BY <1>3
  <2>3. Depths(v)[n + 1] = 1 + 0
    BY <1>3, <1>6, <2>2
  <2> QED
    BY <1>2, <2>1, <2>2, <2>3
<1>10. \A i \in 1..(n + 1) : Depths(u)[i] > 0
  <2> TAKE i \in 1..(n + 1)
  <2>1. i - 1 \in 0..n /\ (i - 1) + 1 = i /\ i \in 0..(n + 1)
    BY <1>3
  <2>2. Depths(u)[i] = 1 + Depths(text)[i - 1]
    BY <1>6, <1>9, <2>1
  <2> QED
    BY <1>3, <2>1, <2>2
<1>11. u \in Closed
  <2>1. Depths(u)[0] = 0
    BY <1>3, <1>6, <1>9
  <2>2. ASSUME NEW i \in 0..Len(u) PROVE Depths(u)[i] >= 0
    <3>1. i = 0 \/ i \in 1..(n + 1) \/ i = n + 2
      BY <1>3, <1>8
    <3>2. CASE i \in 1..(n + 1)
      <4>1. Depths(u)[i] \in Int
        BY <1>8, DepthsRise
      <4> QED
        BY <1>10, <3>2, <4>1
    <3> QED
      BY <1>9, <2>1, <3>1, <3>2
  <2> QED
    BY <1>8, <1>9, <2>2 DEF Closed
<1>12. ASSUME NEW W, open \notin W PROVE u \in Free(W)
  <2>1. ASSUME NEW i \in At(u, W) PROVE FALSE
    <3>1. i \in 1..(n + 2) /\ u[i].t \in W /\ Depths(u)[i - 1] = 0
      BY <1>8, AtPlaces
    <3>2. CASE i = 1
      <4>1. u[1] = Word(open)
        BY <1>3, <1>5, <1>8
      <4> QED
        BY <1>1, <1>12, <3>1, <3>2, <4>1
    <3>3. CASE i # 1
      <4>1. i - 1 \in 1..(n + 1)
        BY <1>3, <3>1, <3>3
      <4> QED
        BY <1>10, <3>1, <4>1
    <3> QED
      BY <3>2, <3>3
  <2> QED
    BY <1>11, <2>1 DEF Free
<1>13. u[1] = Word(open) /\ u[Len(u)] = Word(close) /\ \A i \in 1..n : u[i + 1] = text[i]
  <2>1. 1 \in 1..(n + 1) /\ \A i \in 1..n : i + 1 \in 1..(n + 1)
    BY <1>3
  <2> QED
    BY <1>5, <1>8, <2>1
<1>14. Len(u) - 1 = n + 1
  BY <1>3, <1>8
<1>15. Around(open, text, close, u)
  BY <1>3, <1>8, <1>10, <1>11, <1>12, <1>13, <1>14 DEF Around
<1> QED
  BY ONLY <1>15, u = Bracketed(open, text, close)

\* Two texts that differ only in how their placeholders are numbered.
Alike(s, t) ==
    /\ s \in Seq(Token) /\ t \in Seq(Token) /\ Len(s) = Len(t)
    /\ \A i \in 1..Len(s) : s[i] = t[i] \/ (s[i].t = "?" /\ t[i].t = "?")

LEMMA AlikeDepths ==
    ASSUME NEW s, NEW t, Alike(s, t)
    PROVE  Depths(s) = Depths(t) /\ (\A W : At(s, W) = At(t, W)) /\ (s \in Closed <=> t \in Closed)
<1> PICK n, f, g : n = Len(s) /\ f = Depths(s) /\ g = Depths(t)
  OBVIOUS
<1>1. /\ n \in Nat /\ s \in Seq(Token) /\ t \in Seq(Token) /\ Len(t) = n
      /\ \A i \in 1..n : s[i].t = t[i].t
  BY LenProperties DEF Alike
<1>2. /\ f \in [0..n -> Int] /\ f[0] = 0 /\ \A k \in 1..n : f[k] = f[k - 1] + Weight(s[k])
      /\ g \in [0..n -> Int] /\ g[0] = 0 /\ \A k \in 1..n : g[k] = g[k - 1] + Weight(t[k])
  <2>1. /\ f \in [0..Len(s) -> Int] /\ f[0] = 0
        /\ \A k \in 1..Len(s) : f[k] = f[k - 1] + Weight(s[k])
    BY <1>1, DepthsRise
  <2>2. /\ g \in [0..Len(t) -> Int] /\ g[0] = 0
        /\ \A k \in 1..Len(t) : g[k] = g[k - 1] + Weight(t[k])
    BY <1>1, DepthsRise
  <2> QED
    BY <1>1, <2>1, <2>2
<1>3. \A k \in 1..n : Weight(s[k]) = Weight(t[k])
  BY <1>1 DEF Weight
<1>4. \A k \in 0..n : f[k] = g[k]
  <2> DEFINE P == {k \in 0..n : f[k] = g[k]}
  <2>1. 0 \in P
    BY <1>1, <1>2
  <2>2. ASSUME NEW k \in 0..(n - 1), k \in P PROVE k + 1 \in P
    <3>1. k + 1 \in 1..n /\ k + 1 \in 0..n /\ (k + 1) - 1 = k
      BY <1>1
    <3> QED
      BY <1>2, <1>3, <2>2, <3>1
  <2> HIDE DEF P
  <2>3. \A k \in 0..n : k \in P
    BY <1>1, <2>1, <2>2, Upwards
  <2> QED
    BY <2>3 DEF P
<1>5. f = g
  BY <1>2, <1>4
<1>6. ASSUME NEW W PROVE At(s, W) = At(t, W)
  <2>1. At(s, W) \subseteq 1..n /\ \A i \in 1..n : i \in At(s, W) <=> (s[i].t \in W /\ f[i - 1] = 0)
    BY <1>1, AtPlaces
  <2>2. At(t, W) \subseteq 1..Len(t)
        /\ \A i \in 1..Len(t) : i \in At(t, W) <=> (t[i].t \in W /\ g[i - 1] = 0)
    BY <1>1, AtPlaces
  <2> QED
    BY <1>1, <1>5, <2>1, <2>2
<1> QED
  BY <1>1, <1>5, <1>6 DEF Closed

\* Parts of a text, up to a token and after it.
LEMMA TextAround ==
    ASSUME NEW text \in Seq(Token), NEW m \in 1..Len(text)
    PROVE  \E s \in Seq(Token), t \in Seq(Token) :
              /\ s = SubSeq(text, 1, m - 1) /\ t = SubSeq(text, m + 1, Len(text))
              /\ Len(s) = m - 1 /\ Len(t) = Len(text) - m
              /\ \A i \in 1..(m - 1) : s[i] = text[i]
              /\ \A i \in 1..(Len(text) - m) : t[i] = text[m + i]
<1> PICK n, s, t : n = Len(text) /\ s = SubSeq(text, 1, m - 1) /\ t = SubSeq(text, m + 1, n)
  OBVIOUS
<1>1. n \in Nat /\ m \in 1..n /\ \A i \in 1..n : text[i] \in Token
  BY LenProperties, ElementOfSeq
<1>2. /\ s \in Seq(Token) /\ Len(s) = m - 1 /\ \A i \in 1..(m - 1) : s[i] = text[i]
  <2> PICK k : k = m - 1
    OBVIOUS
  <2>1. k \in Nat /\ 1 \in Int /\ k \in Int /\ \A i \in 1..k : text[i] \in Token
    BY <1>1
  <2>2. /\ SubSeq(text, 1, k) \in Seq(Token)
        /\ Len(SubSeq(text, 1, k)) = IF 1 <= k THEN k - 1 + 1 ELSE 0
        /\ \A i \in 1..(k - 1 + 1) : SubSeq(text, 1, k)[i] = text[1 + i - 1]
    BY ONLY <2>1, text \in Seq(Token), SubSeqProperties
  <2>3. (IF 1 <= k THEN k - 1 + 1 ELSE 0) = k /\ k - 1 + 1 = k /\ \A i \in 1..k : 1 + i - 1 = i
    BY <2>1
  <2>4. s = SubSeq(text, 1, k)
    OBVIOUS
  <2>5. Len(s) = k /\ \A i \in 1..k : s[i] = text[i]
    BY ONLY <2>2, <2>3, <2>4
  <2> QED
    BY <2>2, <2>4, <2>5
<1>3. /\ t \in Seq(Token) /\ Len(t) = n - m /\ \A i \in 1..(n - m) : t[i] = text[m + i]
  <2> PICK k : k = m + 1
    OBVIOUS
  <2>1. k \in Int /\ n \in Int /\ \A i \in k..n : text[i] \in Token
    BY <1>1
  <2>2. /\ SubSeq(text, k, n) \in Seq(Token)
        /\ Len(SubSeq(text, k, n)) = IF k <= n THEN n - k + 1 ELSE 0
        /\ \A i \in 1..(n - k + 1) : SubSeq(text, k, n)[i] = text[k + i - 1]
    BY ONLY <2>1, text \in Seq(Token), SubSeqProperties
  <2>3. /\ (IF k <= n THEN n - k + 1 ELSE 0) = n - m /\ n - k + 1 = n - m
        /\ \A i \in 1..(n - m) : k + i - 1 = m + i
    BY <1>1
  <2>4. t = SubSeq(text, k, n)
    OBVIOUS
  <2>5. Len(t) = n - m /\ \A i \in 1..(n - m) : t[i] = text[m + i]
    BY ONLY <2>2, <2>3, <2>4
  <2> QED
    BY <2>2, <2>4, <2>5
<1> QED
  BY <1>1, <1>2, <1>3

\* A text in three: before a token, the token, after it.
Parted(text, s, tok, t) ==
    /\ text \in Seq(Token) /\ s \in Seq(Token) /\ t \in Seq(Token) /\ tok \in Token
    /\ Len(s) \in Nat /\ Len(t) \in Nat /\ Len(text) = Len(s) + 1 + Len(t)
    /\ \A i \in 1..Len(s) : text[i] = s[i]
    /\ text[Len(s) + 1] = tok
    /\ \A i \in 1..Len(t) : text[Len(s) + 1 + i] = t[i]

LEMMA PartedText ==
    ASSUME NEW s \in Seq(Token), NEW t \in Seq(Token), NEW tok \in Token
    PROVE  Parted((s \o <<tok>>) \o t, s, tok, t)
<1> PICK x, m, n : x = <<tok>> /\ m = Len(s) /\ n = Len(t)
  OBVIOUS
<1>1. x \in Seq(Token) /\ Len(x) = 1 /\ x[1] = tok /\ m \in Nat /\ n \in Nat
  BY LenProperties
<1> PICK v : v = s \o x
  OBVIOUS
<1>2. /\ v \in Seq(Token) /\ Len(v) = m + 1
      /\ \A i \in 1..(m + 1) : v[i] = IF i <= m THEN s[i] ELSE x[i - m]
  BY <1>1, ConcatProperties
<1> PICK u : u = v \o t
  OBVIOUS
<1>3. /\ u \in Seq(Token) /\ Len(u) = (m + 1) + n
      /\ \A i \in 1..((m + 1) + n) : u[i] = IF i <= m + 1 THEN v[i] ELSE t[i - (m + 1)]
  BY <1>1, <1>2, ConcatProperties
<1>4. /\ \A i \in 1..m : i \in 1..(m + 1) /\ i \in 1..((m + 1) + n) /\ i <= m + 1 /\ i <= m
      /\ m + 1 \in 1..(m + 1) /\ m + 1 \in 1..((m + 1) + n) /\ ~(m + 1 <= m) /\ (m + 1) - m = 1
      /\ \A i \in 1..n : /\ m + 1 + i \in 1..((m + 1) + n) /\ ~(m + 1 + i <= m + 1)
                         /\ (m + 1 + i) - (m + 1) = i
      /\ (m + 1) + n = m + 1 + n
  BY <1>1
<1>5. (\A i \in 1..m : u[i] = s[i]) /\ u[m + 1] = tok /\ \A i \in 1..n : u[m + 1 + i] = t[i]
  BY <1>1, <1>2, <1>3, <1>4
<1> QED
  BY <1>1, <1>3, <1>4, <1>5 DEF Parted

LEMMA PartedSides ==
    ASSUME NEW text, NEW s, NEW tok, NEW t, Parted(text, s, tok, t)
    PROVE  /\ SubSeq(text, 1, Len(s)) = s /\ SubSeq(text, Len(s) + 2, Len(text)) = t
           /\ text = (s \o <<tok>>) \o t
           /\ Len(s) + 1 \in 1..Len(text) /\ Len(s) < Len(text) /\ Len(t) < Len(text)
<1> PICK m, n : m = Len(s) /\ n = Len(t)
  OBVIOUS
<1>1. /\ text \in Seq(Token) /\ s \in Seq(Token) /\ t \in Seq(Token) /\ tok \in Token
      /\ m \in Nat /\ n \in Nat /\ Len(text) = m + 1 + n
      /\ \A i \in 1..m : text[i] = s[i]
      /\ text[m + 1] = tok
      /\ \A i \in 1..n : text[m + 1 + i] = t[i]
  BY DEF Parted
<1>2. m + 1 \in 1..Len(text) /\ m < Len(text) /\ n < Len(text)
  BY <1>1
<1>3. PICK x \in Seq(Token), y \in Seq(Token) :
          /\ x = SubSeq(text, 1, (m + 1) - 1) /\ y = SubSeq(text, (m + 1) + 1, Len(text))
          /\ Len(x) = (m + 1) - 1 /\ Len(y) = Len(text) - (m + 1)
          /\ \A i \in 1..((m + 1) - 1) : x[i] = text[i]
          /\ \A i \in 1..(Len(text) - (m + 1)) : y[i] = text[(m + 1) + i]
  BY <1>1, <1>2, TextAround
<1>4. (m + 1) - 1 = m /\ (m + 1) + 1 = m + 2 /\ Len(text) - (m + 1) = n
      /\ \A i \in 1..n : (m + 1) + i = m + 1 + i
  BY <1>1
<1>5. x = SubSeq(text, 1, m) /\ y = SubSeq(text, m + 2, Len(text)) /\ Len(x) = m /\ Len(y) = n
      /\ (\A i \in 1..m : x[i] = text[i]) /\ \A i \in 1..n : y[i] = text[m + 1 + i]
  BY ONLY <1>3, <1>4
<1>6. x = s /\ y = t
  <2>1. Len(x) = Len(s) /\ \A i \in 1..Len(x) : x[i] = s[i]
    BY <1>1, <1>5
  <2>2. Len(y) = Len(t) /\ \A i \in 1..Len(y) : y[i] = t[i]
    BY <1>1, <1>5
  <2> QED
    BY ONLY <1>1, x \in Seq(Token), y \in Seq(Token), <2>1, <2>2, SeqEqual
<1>7. PICK u : u = (s \o <<tok>>) \o t
  OBVIOUS
<1>8. Parted(u, s, tok, t)
  BY <1>1, <1>7, PartedText
<1>9. /\ u \in Seq(Token) /\ Len(u) = m + 1 + n /\ (\A i \in 1..m : u[i] = s[i])
      /\ u[m + 1] = tok /\ \A i \in 1..n : u[m + 1 + i] = t[i]
  BY <1>8 DEF Parted
<1>10. ASSUME NEW i \in 1..Len(text) PROVE text[i] = u[i]
  <2>1. i \in 1..m \/ i = m + 1 \/ (i - (m + 1) \in 1..n /\ m + 1 + (i - (m + 1)) = i)
    BY <1>1
  <2>2. CASE i \in 1..m
    BY ONLY <1>1, <1>9, <2>2
  <2>3. CASE i = m + 1
    BY ONLY <1>1, <1>9, <2>3
  <2>4. CASE i - (m + 1) \in 1..n /\ m + 1 + (i - (m + 1)) = i
    <3>1. PICK j \in 1..n : j = i - (m + 1) /\ m + 1 + j = i
      BY ONLY <2>4
    <3> QED
      BY ONLY <1>1, <1>9, <3>1
  <2> QED
    BY ONLY <2>1, <2>2, <2>3, <2>4
<1>11. text = u
  BY <1>1, <1>9, <1>10, SeqEqual
<1> QED
  BY <1>2, <1>5, <1>6, <1>7, <1>11

LEMMA PartedDepths ==
    ASSUME NEW text, NEW s, NEW tok, NEW t, Parted(text, s, tok, t)
    PROVE  /\ \A i \in 0..Len(s) : Depths(text)[i] = Depths(s)[i]
           /\ \A i \in 0..Len(t) :
                 Depths(text)[Len(s) + 1 + i] = Depths(s)[Len(s)] + Weight(tok) + Depths(t)[i]
<1> PICK m, n, x : m = Len(s) /\ n = Len(t) /\ x = <<tok>>
  OBVIOUS
<1>1. /\ s \in Seq(Token) /\ t \in Seq(Token) /\ tok \in Token /\ m \in Nat /\ n \in Nat
  BY DEF Parted
<1>2. PICK v : v = s \o x
  OBVIOUS
<1>3. text = v \o t
  BY <1>2, PartedSides
<1>4. x \in Seq(Token) /\ Len(x) = 1 /\ Depths(x)[1] = Weight(tok)
  BY <1>1, OneToken
<1>5. /\ v \in Seq(Token) /\ Len(v) = m + 1
      /\ \A i \in 0..m : Depths(v)[i] = Depths(s)[i]
      /\ \A i \in 0..1 : Depths(v)[m + i] = Depths(s)[m] + Depths(x)[i]
  <2>1. /\ s \o x \in Seq(Token) /\ Len(s \o x) = Len(s) + Len(x)
        /\ \A i \in 0..Len(s) : Depths(s \o x)[i] = Depths(s)[i]
        /\ \A i \in 0..Len(x) : Depths(s \o x)[Len(s) + i] = Depths(s)[Len(s)] + Depths(x)[i]
    BY ONLY <1>1, <1>4, DepthsConcat
  <2> QED
    BY ONLY <1>2, <1>4, <2>1, m = Len(s)
<1>6. /\ \A i \in 0..(m + 1) : Depths(text)[i] = Depths(v)[i]
      /\ \A i \in 0..n : Depths(text)[(m + 1) + i] = Depths(v)[m + 1] + Depths(t)[i]
  <2>1. /\ \A i \in 0..Len(v) : Depths(v \o t)[i] = Depths(v)[i]
        /\ \A i \in 0..Len(t) : Depths(v \o t)[Len(v) + i] = Depths(v)[Len(v)] + Depths(t)[i]
    BY ONLY <1>1, <1>5, DepthsConcat
  <2> QED
    BY ONLY <1>3, <1>5, <2>1, n = Len(t)
<1>7. Depths(v)[m + 1] = Depths(s)[m] + Weight(tok)
  BY <1>4, <1>5
<1>8. \A i \in 0..m : i \in 0..(m + 1)
  BY <1>1
<1>9. \A i \in 0..m : Depths(text)[i] = Depths(s)[i]
  BY <1>5, <1>6, <1>8
<1>10. \A i \in 0..n : Depths(text)[m + 1 + i] = Depths(s)[m] + Weight(tok) + Depths(t)[i]
  <2>1. \A i \in 0..n : (m + 1) + i = m + 1 + i
    BY <1>1
  <2> QED
    BY <1>6, <1>7, <2>1
<1> QED
  BY <1>9, <1>10

\* Any token of a text has a text before it and one after it.
LEMMA PartedAt ==
    ASSUME NEW text \in Seq(Token), NEW m \in 1..Len(text)
    PROVE  \E s \in Seq(Token), t \in Seq(Token) :
              /\ Parted(text, s, text[m], t) /\ Len(s) = m - 1 /\ Len(t) = Len(text) - m
              /\ s = SubSeq(text, 1, m - 1) /\ t = SubSeq(text, m + 1, Len(text))
<1> PICK n, tok : n = Len(text) /\ tok = text[m]
  OBVIOUS
<1>1. n \in Nat /\ m \in 1..n /\ tok \in Token
  BY LenProperties, ElementOfSeq
<1>2. PICK s \in Seq(Token), t \in Seq(Token) :
          /\ s = SubSeq(text, 1, m - 1) /\ t = SubSeq(text, m + 1, n)
          /\ Len(s) = m - 1 /\ Len(t) = n - m
          /\ \A i \in 1..(m - 1) : s[i] = text[i]
          /\ \A i \in 1..(n - m) : t[i] = text[m + i]
  BY TextAround
<1>3. /\ m - 1 \in Nat /\ n - m \in Nat /\ n = (m - 1) + 1 + (n - m) /\ (m - 1) + 1 = m
      /\ \A i \in 1..(n - m) : (m - 1) + 1 + i = m + i
  BY <1>1
<1>4. Parted(text, s, tok, t)
  <2>1. \A i \in 1..(n - m) : text[(m - 1) + 1 + i] = t[i]
    BY <1>2, <1>3
  <2>2. text[(m - 1) + 1] = tok
    BY <1>3
  <2>3. \A i \in 1..(m - 1) : text[i] = s[i]
    BY <1>2
  <2> QED
    BY <1>1, <1>2, <1>3, <2>1, <2>2, <2>3 DEF Parted
<1> QED
  BY <1>2, <1>4

\* Where no bracket encloses the token, the brackets of both sides pair.
LEMMA PartedClosed ==
    ASSUME NEW text \in Closed, NEW s, NEW tok, NEW t, Parted(text, s, tok, t),
           NEW W, Len(s) + 1 \in At(text, W), tok.t \notin Brackets
    PROVE  s \in Closed /\ t \in Closed
<1> PICK m, n, f, g, h :
        m = Len(s) /\ n = Len(t) /\ f = Depths(s) /\ g = Depths(t) /\ h = Depths(text)
  OBVIOUS
<1>1. /\ s \in Seq(Token) /\ t \in Seq(Token) /\ m \in Nat /\ n \in Nat /\ text \in Seq(Token)
      /\ Len(text) = m + 1 + n
  BY DEF Parted
<1>2. /\ f \in [0..m -> Int] /\ g \in [0..n -> Int] /\ (\A i \in 0..m : h[i] = f[i])
      /\ \A i \in 0..n : h[m + 1 + i] = f[m] + 0 + g[i]
  <2>1. Weight(tok) = 0
    BY DEF Weight, Brackets
  <2> QED
    BY <1>1, <2>1, DepthsRise, PartedDepths
<1>3. h[m + 1 + n] = 0 /\ \A i \in 0..(m + 1 + n) : h[i] >= 0
  BY <1>1 DEF Closed
<1>4. f[m] = 0
  <2>1. m + 1 \in 1..Len(text) /\ h[(m + 1) - 1] = 0 /\ (m + 1) - 1 = m /\ m \in 0..m
    BY <1>1, AtPlaces
  <2> QED
    BY <1>2, <2>1
<1>5. ASSUME NEW i \in 0..n PROVE h[m + 1 + i] = g[i]
  <2>1. h[m + 1 + i] = f[m] + 0 + g[i] /\ g[i] \in Int
    BY ONLY <1>2
  <2> QED
    BY ONLY <1>4, <2>1
<1>6. s \in Closed
  <2>1. \A i \in 0..m : i \in 0..(m + 1 + n)
    BY <1>1
  <2>2. \A i \in 0..m : f[i] >= 0
    BY <1>2, <1>3, <2>1
  <2> QED
    BY <1>1, <1>4, <2>2 DEF Closed
<1>7. t \in Closed
  <2>1. n \in 0..n /\ \A i \in 0..n : m + 1 + i \in 0..(m + 1 + n)
    BY <1>1
  <2>2. g[n] = 0 /\ \A i \in 0..n : g[i] >= 0
    BY <1>3, <1>5, <2>1
  <2> QED
    BY <1>1, <2>2 DEF Closed
<1> QED
  BY <1>6, <1>7

\* Around a token no bracket encloses, between texts whose brackets pair.
LEMMA PartedAts ==
    ASSUME NEW text, NEW s, NEW tok, NEW t, Parted(text, s, tok, t), s \in Closed,
           tok.t \notin Brackets, NEW W
    PROVE  /\ \A i \in 1..Len(s) : i \in At(text, W) <=> i \in At(s, W)
           /\ Len(s) + 1 \in At(text, W) <=> tok.t \in W
           /\ \A i \in 1..Len(t) : Len(s) + 1 + i \in At(text, W) <=> i \in At(t, W)
           /\ \A i \in At(text, W) : i \in At(s, W) \/ i = Len(s) + 1 \/ i - (Len(s) + 1) \in At(t, W)
<1> PICK m, n, f, g, h :
        m = Len(s) /\ n = Len(t) /\ f = Depths(s) /\ g = Depths(t) /\ h = Depths(text)
  OBVIOUS
<1>2. /\ s \in Seq(Token) /\ t \in Seq(Token) /\ m \in Nat /\ n \in Nat /\ text \in Seq(Token)
      /\ Len(text) = m + 1 + n /\ (\A i \in 1..m : text[i] = s[i]) /\ text[m + 1] = tok
      /\ \A i \in 1..n : text[m + 1 + i] = t[i]
  BY DEF Parted
<1>3. /\ f[m] = 0 /\ g \in [0..n -> Int] /\ (\A i \in 0..m : h[i] = f[i])
      /\ \A i \in 0..n : h[m + 1 + i] = g[i]
  <2>1. Weight(tok) = 0 /\ f[m] = 0
    BY DEF Weight, Brackets, Closed
  <2>2. g \in [0..n -> Int]
    BY <1>2, DepthsRise
  <2>3. (\A i \in 0..m : h[i] = f[i]) /\ \A i \in 0..n : h[m + 1 + i] = f[m] + Weight(tok) + g[i]
    BY PartedDepths
  <2>4. \A i \in 0..n : f[m] + Weight(tok) + g[i] = g[i]
    BY <2>1, <2>2
  <2> QED
    BY <2>1, <2>2, <2>3, <2>4
<1>4. /\ At(text, W) \subseteq 1..(m + 1 + n)
      /\ \A i \in 1..(m + 1 + n) : i \in At(text, W) <=> (text[i].t \in W /\ h[i - 1] = 0)
  <2>1. /\ At(text, W) \subseteq 1..Len(text)
        /\ \A i \in 1..Len(text) : i \in At(text, W) <=> (text[i].t \in W /\ Depths(text)[i - 1] = 0)
    BY <1>2, AtPlaces
  <2> QED
    BY ONLY <1>2, <2>1, h = Depths(text)
<1>5. \A i \in 1..m : i \in At(s, W) <=> (s[i].t \in W /\ f[i - 1] = 0)
  BY <1>2, AtPlaces
<1>6. \A i \in 1..n : i \in At(t, W) <=> (t[i].t \in W /\ g[i - 1] = 0)
  BY <1>2, AtPlaces
<1>7. \A i \in 1..m : i \in At(text, W) <=> i \in At(s, W)
  <2>1. \A i \in 1..m : i \in 1..(m + 1 + n) /\ i - 1 \in 0..m
    BY <1>2
  <2>2. \A i \in 1..m : text[i].t = s[i].t /\ h[i - 1] = f[i - 1]
    BY <1>2, <1>3, <2>1
  <2> QED
    BY ONLY <1>4, <1>5, <2>1, <2>2
<1>8. m + 1 \in At(text, W) <=> tok.t \in W
  <2>1. m + 1 \in 1..(m + 1 + n) /\ (m + 1) - 1 = m /\ m \in 0..m
    BY <1>2
  <2>2. text[m + 1].t = tok.t /\ h[(m + 1) - 1] = 0
    BY <1>2, <1>3, <2>1
  <2> QED
    BY ONLY <1>4, <2>1, <2>2
<1>9. \A i \in 1..n : m + 1 + i \in At(text, W) <=> i \in At(t, W)
  <2>1. \A i \in 1..n : /\ m + 1 + i \in 1..(m + 1 + n) /\ i - 1 \in 0..n
                        /\ (m + 1 + i) - 1 = m + 1 + (i - 1)
    BY <1>2
  <2>2. \A i \in 1..n : text[m + 1 + i].t = t[i].t /\ h[(m + 1 + i) - 1] = g[i - 1]
    BY <1>2, <1>3, <2>1
  <2> QED
    BY ONLY <1>4, <1>6, <2>1, <2>2
<1>10. ASSUME NEW i \in At(text, W)
       PROVE  i \in At(s, W) \/ i = m + 1 \/ i - (m + 1) \in At(t, W)
  <2>1. i \in 1..m \/ i = m + 1 \/ (i - (m + 1) \in 1..n /\ m + 1 + (i - (m + 1)) = i)
    BY <1>2, <1>4
  <2> QED
    BY <1>7, <1>9, <2>1
<1> QED
  BY <1>7, <1>8, <1>9, <1>10

-----------------------------------------------------------------------------
(* Parts joined into one text                                              *)

\* A set with <<>> that leads from each sequence to the longer ones holds all.
LEMMA FromPrefixes ==
    ASSUME NEW S, NEW P, <<>> \in P,
           \A s \in Seq(S) : \A x \in S : s \in P => Append(s, x) \in P
    PROVE  \A s \in Seq(S) : s \in P
<1> TAKE s \in Seq(S)
<1>1. PICK pre \in [0..Len(s) -> Seq(S)] : Grows(pre, s)
  BY PrefixSteps
<1>2. PICK n : n = Len(s) /\ n \in Nat
  BY LenProperties
<1>3. /\ pre[0] = <<>> /\ pre[n] = s
      /\ \A i \in 0..(n - 1) : i \in 0..n /\ i + 1 \in 1..n /\ pre[i + 1] = Append(pre[i], s[i + 1])
  BY <1>1, <1>2 DEF Grows
<1> DEFINE Q == {i \in 0..n : pre[i] \in P}
<1>4. 0 \in Q
  BY <1>2, <1>3
<1>5. ASSUME NEW i \in 0..(n - 1), i \in Q PROVE i + 1 \in Q
  <2>1. s[i + 1] \in S /\ pre[i] \in Seq(S) /\ pre[i] \in P
    BY <1>1, <1>2, <1>3, <1>5, ElementOfSeq
  <2>2. Append(pre[i], s[i + 1]) \in P
    BY <2>1
  <2>3. i + 1 \in 0..n /\ pre[i + 1] = Append(pre[i], s[i + 1])
    BY <1>2, <1>3
  <2> QED
    BY ONLY <2>2, <2>3
<1> HIDE DEF Q
<1>6. \A i \in 0..n : i \in Q
  BY <1>2, <1>4, <1>5, Upwards
<1>7. n \in 0..n
  BY <1>2
<1> QED
  BY <1>3, <1>6, <1>7 DEF Q

LEMMA JoinedMore ==
    ASSUME NEW parts \in Seq(Seq(Token)), NEW x \in Seq(Token), NEW sep \in Keywords
    PROVE  /\ Joined(parts, sep) \in Seq(Token)
           /\ Joined(<<>>, sep) = <<>> /\ Joined(<<x>>, sep) = x
           /\ Append(parts, x) \in Seq(Seq(Token))
           /\ parts # <<>> =>
                 Joined(Append(parts, x), sep) = (Joined(parts, sep) \o <<Word(sep)>>) \o x
<1> PICK n, w, more : n = Len(parts) /\ w = <<Word(sep)>> /\ more = Append(parts, x)
  OBVIOUS
<1>1. /\ n \in Nat /\ DOMAIN parts = 1..n /\ w \in Seq(Token)
      /\ \A i \in 1..n : parts[i] \in Seq(Token)
  BY KeywordsUnmarked DEF Unmarked
<1>2. /\ more \in Seq(Seq(Token)) /\ Len(more) = n + 1 /\ DOMAIN more = 1..(n + 1)
      /\ more[n + 1] = x /\ \A i \in 1..n : more[i] = parts[i]
  BY AppendProperties
<1> DEFINE piece(s, i) == (IF i = 1 THEN <<>> ELSE w) \o s[i]
<1>3. PICK f, g : f = Separated(parts, sep) /\ g = Separated(more, sep)
  OBVIOUS
<1>4. f = [i \in 1..n |-> piece(parts, i)] /\ g = [i \in 1..(n + 1) |-> piece(more, i)]
  BY <1>1, <1>2, <1>3 DEF Separated
<1>5. \A i : \A u \in Seq(Token) : (IF i = 1 THEN <<>> ELSE w) \o u \in Seq(Token)
  BY <1>1, EmptySeq, ConcatProperties
<1>6. f \in Seq(Seq(Token)) /\ Len(f) = n
  <2>1. \A i \in 1..n : piece(parts, i) \in Seq(Token)
    BY <1>1, <1>5
  <2>2. f \in [1..n -> Seq(Token)]
    BY <1>4, <2>1
  <2> QED
    BY <1>1, <2>2, AsSeq
<1>7. g = Append(f, piece(more, n + 1))
  <2>1. \A i \in 1..(n + 1) : more[i] \in Seq(Token)
    BY <1>1, <1>2
  <2>2. \A i \in 1..(n + 1) : piece(more, i) \in Seq(Token)
    BY <1>5, <2>1
  <2>3. g \in Seq(Seq(Token)) /\ Len(g) = n + 1
    <3>1. g \in [1..(n + 1) -> Seq(Token)] /\ n + 1 \in Nat
      BY <1>1, <1>4, <2>2
    <3> QED
      BY <3>1, AsSeq
  <2>4. PICK y : y = piece(more, n + 1)
    OBVIOUS
  <2>5. y \in Seq(Token) /\ g[n + 1] = y
    <3>1. n + 1 \in 1..(n + 1)
      BY <1>1
    <3> HIDE DEF piece
    <3> QED
      BY ONLY <1>4, <2>2, <2>4, <3>1
  <2>6. \A i \in 1..n : g[i] = f[i]
    <3>1. ASSUME NEW i \in 1..n PROVE piece(more, i) = piece(parts, i) /\ i \in 1..(n + 1)
      <4>1. more[i] = parts[i] /\ i \in 1..(n + 1)
        BY <1>1, <1>2
      <4> QED
        BY ONLY <4>1
    <3> HIDE DEF piece
    <3> QED
      BY <1>4, <3>1
  <2>7. PICK h : h = Append(f, y)
    OBVIOUS
  <2>8. /\ h \in Seq(Seq(Token)) /\ Len(h) = n + 1 /\ h[n + 1] = y
        /\ \A i \in 1..n : h[i] = f[i]
    BY <1>6, <2>5, <2>7, AppendProperties
  <2>9. \A i \in 1..(n + 1) : g[i] = h[i]
    <3>1. \A i \in 1..(n + 1) : i = n + 1 \/ i \in 1..n
      BY <1>1
    <3> QED
      BY <2>5, <2>6, <2>8, <3>1
  <2>10. g = h
    BY <2>3, <2>8, <2>9, SeqEqual
  <2> QED
    BY <2>4, <2>7, <2>10
<1>8. PICK y : y = piece(more, n + 1) /\ y \in Seq(Token)
  BY <1>2, <1>5
<1>9. FlattenSeq(f) \in Seq(Token) /\ FlattenSeq(g) = FlattenSeq(f) \o y
  BY <1>6, <1>7, <1>8, FlattenAppend
<1>10. Joined(parts, sep) = FlattenSeq(f) /\ Joined(more, sep) = FlattenSeq(g)
  BY <1>3 DEF Joined
<1>11. Joined(<<>>, sep) = <<>> /\ Joined(<<x>>, sep) = x
  <2>1. Separated(<<>>, sep) = <<>> /\ Separated(<<x>>, sep) = <<x>>
    <3>1. <<>> \o x = x
      BY ConcatEmptySeq
    <3> QED
      BY <3>1 DEF Separated
  <2> QED
    BY <2>1, FlattenEmpty, FlattenOne DEF Joined
<1>12. parts # <<>> => Joined(more, sep) = (Joined(parts, sep) \o w) \o x
  <2> SUFFICES ASSUME parts # <<>> PROVE FlattenSeq(g) = (FlattenSeq(f) \o w) \o x
    BY <1>10
  <2>1. n # 0
    BY <1>1, EmptySeq
  <2>2. y = w \o x
    BY <1>1, <1>2, <1>8, <2>1
  <2>3. PICK u \in Seq(Token) : u = FlattenSeq(f)
    BY <1>9
  <2>4. w \in Seq(Token)
    BY <1>1
  <2>5. (u \o w) \o x = u \o (w \o x)
    BY ONLY <2>4, u \in Seq(Token), x \in Seq(Token), Associative
  <2> QED
    BY ONLY <1>9, <2>2, <2>3, <2>5
<1> QED
  BY <1>2, <1>9, <1>10, <1>11, <1>12

LEMMA FreeSequences ==
    ASSUME NEW W
    PROVE  Free(W) \subseteq Seq(Token) /\ Seq(Free(W)) \subseteq Seq(Seq(Token))
<1>1. Free(W) \subseteq Seq(Token)
  BY DEF Free, Closed
<1> QED
  BY <1>1, SeqsOver

LEMMA FreeFlatten ==
    ASSUME NEW W, NEW parts \in Seq(Free(W))
    PROVE  FlattenSeq(parts) \in Free(W)
<1> DEFINE P == {s \in Seq(Free(W)) : FlattenSeq(s) \in Free(W)}
<1>1. <<>> \in P
  BY FlattenEmpty, FreeNothing, EmptySeq
<1>2. ASSUME NEW s \in Seq(Free(W)), NEW x \in Free(W), s \in P PROVE Append(s, x) \in P
  <2>1. s \in Seq(Seq(Token)) /\ x \in Seq(Token)
    BY FreeSequences
  <2>2. FlattenSeq(Append(s, x)) = FlattenSeq(s) \o x
    BY <2>1, FlattenAppend
  <2>3. FlattenSeq(s) \o x \in Free(W)
    BY <1>2, FreeConcat
  <2> QED
    BY <2>2, <2>3, AppendProperties
<1> HIDE DEF P
<1>3. parts \in P
  BY <1>1, <1>2, FromPrefixes
<1> QED
  BY <1>3 DEF P

LEMMA FreeKeyword ==
    ASSUME NEW W, NEW w \in Keywords, w \notin Brackets, w \notin W
    PROVE  <<Word(w)>> \in Free(W) /\ Word(w) \in Token
<1>1. Word(w) \in Token /\ Word(w).t = w
  BY KeywordsUnmarked DEF Word
<1> QED
  BY <1>1, FreeToken

LEMMA FreeJoined ==
    ASSUME NEW W, NEW parts \in Seq(Free(W)), NEW sep \in Keywords, sep \notin Brackets, sep \notin W
    PROVE  Joined(parts, sep) \in Free(W)
<1> DEFINE P == {s \in Seq(Free(W)) : Joined(s, sep) \in Free(W)}
<1>1. <<>> \in P
  <2>1. <<>> \in Seq(Seq(Token)) /\ <<>> \in Seq(Token)
    BY EmptySeq
  <2>2. Joined(<<>>, sep) = <<>>
    BY <2>1, JoinedMore
  <2> QED
    BY <2>2, FreeNothing, EmptySeq
<1>2. ASSUME NEW s \in Seq(Free(W)), NEW x \in Free(W), s \in P PROVE Append(s, x) \in P
  <2>1. s \in Seq(Seq(Token)) /\ x \in Seq(Token)
    BY FreeSequences
  <2>2. Append(s, x) \in Seq(Free(W))
    BY AppendProperties
  <2>3. CASE s = <<>>
    <3>1. Append(s, x) = <<x>>
      BY <2>3
    <3>2. Joined(<<x>>, sep) = x
      BY <2>1, JoinedMore
    <3> QED
      BY <2>2, <3>1, <3>2
  <2>4. CASE s # <<>>
    <3>1. Joined(Append(s, x), sep) = (Joined(s, sep) \o <<Word(sep)>>) \o x
      BY <2>1, <2>4, JoinedMore
    <3>2. Joined(s, sep) \o <<Word(sep)>> \in Free(W)
      BY <1>2, FreeKeyword, FreeConcat
    <3>3. (Joined(s, sep) \o <<Word(sep)>>) \o x \in Free(W)
      BY <3>2, FreeConcat
    <3> QED
      BY <2>2, <3>1, <3>3
  <2> QED
    BY <2>3, <2>4
<1> HIDE DEF P
<1>3. parts \in P
  BY <1>1, <1>2, FromPrefixes
<1> QED
  BY <1>3 DEF P

\* A run of placeholders.
LEMMA FreeMarks ==
    ASSUME NEW W, "?" \notin W, NEW d \in Dialects, NEW vals \in Seq(BoundValues), NEW p \in Nat
    PROVE  Numbered(d, vals, p) \in Free(W)
<1>1. PICK text : text = Numbered(d, vals, p)
  OBVIOUS
<1>2. text \in Seq(Token) /\ Len(text) = Len(vals) /\ \A i \in 1..Len(vals) : text[i].t = "?"
  BY <1>1, NumberedMarks
<1>3. "?" \notin Brackets
  BY DEF Brackets, Opening, Closing
<1> QED
  BY <1>1, <1>2, <1>3, FlatText

-----------------------------------------------------------------------------
(* The reading of a text from the readings of its parts                    *)

LEMMA GreatestOf ==
    ASSUME NEW n \in Nat, NEW S, S \subseteq 1..n, S # {}
    PROVE  Max(S) \in S /\ \A y \in S : y <= Max(S)
<1> DEFINE T == {k \in 0..n : n - k \in S}
<1>1. T \subseteq Nat /\ T # {}
  <2>1. PICK y \in S : TRUE
    OBVIOUS
  <2>2. y \in 1..n /\ n - y \in 0..n /\ n - (n - y) = y
    BY <2>1
  <2>3. n - y \in T
    BY <2>2
  <2>4. T \subseteq Nat
    OBVIOUS
  <2> HIDE DEF T
  <2> QED
    BY <2>3, <2>4
<1>2. Min(T) \in T /\ \A k \in T : Min(T) <= k
  <2> HIDE DEF T
  <2> QED
    BY <1>1, LeastOf
<1>3. PICK m : m = n - Min(T)
  OBVIOUS
<1>4. m \in S /\ \A y \in S : m >= y
  <2>1. m \in S /\ Min(T) \in 0..n
    BY <1>2, <1>3
  <2>2. ASSUME NEW y \in S PROVE m >= y
    <3>1. n - y \in T /\ y \in 1..n
      BY <2>1
    <3>2. Min(T) <= n - y
      BY <1>2, <3>1
    <3> HIDE DEF T
    <3> QED
      BY <1>3, <2>1, <3>1, <3>2
  <2> QED
    BY <2>1, <2>2
<1>5. Max(S) \in S /\ \A y \in S : Max(S) >= y
  <2> HIDE DEF T
  <2>1. Max(S) = CHOOSE x \in S : \A y \in S : x >= y
    BY DEF Max
  <2> QED
    BY <1>4, <2>1, Zenon
<1> QED
  BY <1>5

\* What is on the two sides of the last w.
LastCut(text, w, s, tok, t) ==
    /\ Parted(text, s, tok, t) /\ tok.t = w /\ Len(s) + 1 \in At(text, {w})
    /\ Len(s) < Len(text) /\ Len(t) < Len(text)
    /\ \A i \in At(text, {w}) : i <= Len(s) + 1
    /\ \A read : Cut(read, text, w) = Joining(w, read[s], read[t])

LEMMA LastAt ==
    ASSUME NEW text \in Seq(Token), NEW w, At(text, {w}) # {}
    PROVE  \E s \in Seq(Token), tok \in Token, t \in Seq(Token) : LastCut(text, w, s, tok, t)
<1>1. At(text, {w}) \subseteq 1..Len(text) /\ Len(text) \in Nat
      /\ \A i \in At(text, {w}) : text[i].t = w
  BY AtPlaces, LenProperties
<1>2. PICK m : m = Max(At(text, {w})) /\ m \in At(text, {w}) /\ \A i \in At(text, {w}) : i <= m
  BY <1>1, GreatestOf
<1>3. PICK s \in Seq(Token), t \in Seq(Token) :
          /\ Parted(text, s, text[m], t) /\ Len(s) = m - 1 /\ Len(t) = Len(text) - m
          /\ s = SubSeq(text, 1, m - 1) /\ t = SubSeq(text, m + 1, Len(text))
  BY <1>1, <1>2, PartedAt
<1>4. Len(s) + 1 = m /\ Len(s) < Len(text) /\ Len(t) < Len(text)
  <2>1. PICK n : n = Len(text) /\ n \in Nat /\ m \in 1..n
    BY <1>1, <1>2
  <2>2. Len(s) = m - 1 /\ Len(t) = n - m
    BY <1>3, <2>1
  <2> QED
    BY ONLY <2>1, <2>2
<1>5. text[m] \in Token /\ text[m].t = w
  BY <1>1, <1>2, <1>3 DEF Parted
<1>6. \A read : Cut(read, text, w) = Joining(w, read[s], read[t])
  BY ONLY <1>2, <1>3 DEF Cut
<1>7. LastCut(text, w, s, text[m], t)
  BY <1>2, <1>3, <1>4, <1>5, <1>6 DEF LastCut
<1> QED
  BY <1>5, <1>7

LEMMA InsideText ==
    ASSUME NEW text \in Seq(Token), text # <<>>
    PROVE  /\ Len(text) \in Nat /\ Len(text) # 0
           /\ Tail(text) \in Seq(Token) /\ Len(Tail(text)) < Len(text)
           /\ Len(text) >= 2 => /\ SubSeq(text, 2, Len(text) - 1) \in Seq(Token)
                                /\ Len(SubSeq(text, 2, Len(text) - 1)) < Len(text)
<1> PICK n : n = Len(text)
  OBVIOUS
<1>1. n \in Nat /\ n # 0 /\ \A i \in 1..n : text[i] \in Token
  BY LenProperties, EmptySeq, ElementOfSeq
<1>2. Tail(text) \in Seq(Token) /\ Len(Tail(text)) = n - 1
  BY HeadTailProperties
<1>3. ASSUME n >= 2
      PROVE  SubSeq(text, 2, n - 1) \in Seq(Token) /\ Len(SubSeq(text, 2, n - 1)) < n
  <2> PICK k : k = n - 1
    OBVIOUS
  <2>1. k \in Int /\ 2 \in Int /\ \A i \in 2..k : text[i] \in Token
    BY <1>1
  <2>2. /\ SubSeq(text, 2, k) \in Seq(Token)
        /\ Len(SubSeq(text, 2, k)) = IF 2 <= k THEN k - 2 + 1 ELSE 0
    BY ONLY <2>1, SubSeqProperties
  <2>3. (IF 2 <= k THEN k - 2 + 1 ELSE 0) < n
    BY <1>1, <1>3
  <2> QED
    BY <2>2, <2>3
<1> QED
  BY <1>1, <1>2, <1>3

\* What a reading answers.
Answers(rows) == [ok : BOOLEAN, rows : SUBSET rows]

LEMMA AnswerTypes ==
    ASSUME NEW rows, NEW one \in Answers(rows), NEW other \in Answers(rows), NEW w
    PROVE  /\ Unreadable \in Answers(rows) /\ ~Unreadable.ok
           /\ \A some \in SUBSET rows : /\ Readable(some) \in Answers(rows)
                                        /\ Readable(some).ok /\ Readable(some).rows = some
           /\ Joining(w, one, other) \in Answers(rows) /\ Opposite(rows, one) \in Answers(rows)
           /\ one.ok \in BOOLEAN /\ one.rows \in SUBSET rows /\ (one.ok => one = Readable(one.rows))
           /\ Joining(w, one, other).ok <=> (one.ok /\ other.ok)
           /\ Opposite(rows, one).ok <=> one.ok
BY DEF Answers, Unreadable, Readable, Joining, Opposite

LEMMA ReadType ==
    ASSUME NEW rows, NEW read \in [Seq(Token) -> Answers(rows)], NEW text \in Seq(Token)
    PROVE  Read(rows, read, text) \in Answers(rows)
<1>1. \A u \in Seq(Token) : read[u] \in Answers(rows)
  OBVIOUS
<1>2. ASSUME NEW w, At(text, {w}) # {} PROVE Cut(read, text, w) \in Answers(rows)
  <2>1. PICK s \in Seq(Token), tok \in Token, t \in Seq(Token) : LastCut(text, w, s, tok, t)
    BY <1>2, LastAt
  <2>3. Cut(read, text, w) = Joining(w, read[s], read[t])
    BY <2>1 DEF LastCut
  <2>2. Joining(w, read[s], read[t]) \in Answers(rows)
    BY <1>1, AnswerTypes
  <2> QED
    BY <2>2, <2>3
<1>3. ASSUME text # <<>> PROVE ReadUnit(rows, read, text) \in Answers(rows)
  <2>1. read[Tail(text)] \in Answers(rows)
    BY <1>1, <1>3, InsideText
  <2>2. Enclosed(text, "(", ")") => read[SubSeq(text, 2, Len(text) - 1)] \in Answers(rows)
    BY <1>1, <1>3, InsideText DEF Enclosed
  <2>3. /\ Opposite(rows, read[Tail(text)]) \in Answers(rows) /\ Unreadable \in Answers(rows)
        /\ Readable(rows) \in Answers(rows) /\ Readable({}) \in Answers(rows)
        /\ Readable({row \in rows : text[1].v \in row}) \in Answers(rows)
    BY <2>1, AnswerTypes
  <2> QED
    BY <2>2, <2>3 DEF ReadUnit
<1>4. Unreadable \in Answers(rows)
  BY DEF Unreadable, Answers
<1> QED
  BY <1>2, <1>3, <1>4 DEF Read

\* It depends on the readings of shorter texts only.
LEMMA ReadLocal ==
    ASSUME NEW rows, NEW f, NEW g, NEW text \in Seq(Token),
           \A u \in Seq(Token) : Len(u) < Len(text) => f[u] = g[u]
    PROVE  Read(rows, f, text) = Read(rows, g, text)
<1>1. ASSUME NEW w, At(text, {w}) # {} PROVE Cut(f, text, w) = Cut(g, text, w)
  <2>1. PICK s \in Seq(Token), tok \in Token, t \in Seq(Token) : LastCut(text, w, s, tok, t)
    BY <1>1, LastAt
  <2>2. f[s] = g[s] /\ f[t] = g[t]
    BY <2>1 DEF LastCut
  <2> QED
    BY <2>1, <2>2 DEF LastCut
<1>2. ASSUME text # <<>> PROVE ReadUnit(rows, f, text) = ReadUnit(rows, g, text)
  <2>1. f[Tail(text)] = g[Tail(text)]
    BY <1>2, InsideText
  <2>2. Enclosed(text, "(", ")") =>
            f[SubSeq(text, 2, Len(text) - 1)] = g[SubSeq(text, 2, Len(text) - 1)]
    BY <1>2, InsideText DEF Enclosed
  <2> QED
    BY <2>1, <2>2 DEF ReadUnit
<1> QED
  BY <1>1, <1>2 DEF Read

\* A function on the naturals defined from its value one below.
LEMMA Unbounded ==
    ASSUME NEW S, NEW base \in S, NEW step \in [S -> S]
    PROVE  \E f \in [Nat -> S] : f[0] = base /\ \A n \in Nat : f[n + 1] = step[f[n]]
<1> DEFINE Is(g, n) == g \in [0..n -> S] /\ g[0] = base /\ \A k \in 0..(n - 1) : g[k + 1] = step[g[k]]
           G(n) == CHOOSE g : Is(g, n)
<1>1. ASSUME NEW n \in Nat PROVE \E g : Is(g, n)
  <2>1. PICK steps : steps = [k \in 1..n |-> step]
    OBVIOUS
  <2>2. steps \in [1..n -> [S -> S]] /\ \A k \in 1..n : steps[k] = step
    BY <2>1
  <2>3. PICK g \in [0..n -> S] : Ascends(g, n, base, steps)
    BY <2>2, Recursion
  <2>4. ASSUME NEW k \in 0..(n - 1) PROVE g[k + 1] = step[g[k]]
    <3>1. k + 1 \in 1..n /\ (k + 1) - 1 = k
      OBVIOUS
    <3> QED
      BY <2>2, <2>3, <3>1 DEF Ascends
  <2> QED
    BY <2>3, <2>4 DEF Ascends
<1>2. ASSUME NEW n \in Nat PROVE Is(G(n), n)
  <2> HIDE DEF Is
  <2> QED
    BY <1>1
<1> HIDE DEF G
<1>3. ASSUME NEW n \in Nat PROVE \A k \in 0..n : G(n + 1)[k] = G(n)[k]
  <2> PICK g, h : g = G(n) /\ h = G(n + 1)
    OBVIOUS
  <2>1. /\ g[0] = base /\ \A k \in 0..(n - 1) : g[k + 1] = step[g[k]]
        /\ h[0] = base /\ \A k \in 0..n : h[k + 1] = step[h[k]]
    <3>1. n + 1 \in Nat /\ (n + 1) - 1 = n
      OBVIOUS
    <3> QED
      BY <1>2, <3>1
  <2> DEFINE P == {k \in 0..n : h[k] = g[k]}
  <2>2. 0 \in P
    BY <2>1
  <2>3. ASSUME NEW k \in 0..(n - 1), k \in P PROVE k + 1 \in P
    BY <2>1, <2>3
  <2> HIDE DEF P
  <2>4. \A k \in 0..n : k \in P
    BY <2>2, <2>3, Upwards
  <2> QED
    BY <2>4 DEF P
<1>4. PICK f : f = [n \in Nat |-> G(n)[n]]
  OBVIOUS
<1>5. f \in [Nat -> S]
  <2>1. \A n \in Nat : n \in 0..n /\ G(n) \in [0..n -> S]
    BY <1>2
  <2> QED
    BY <1>4, <2>1
<1>6. f[0] = base
  BY <1>2, <1>4
<1>7. ASSUME NEW n \in Nat PROVE f[n + 1] = step[f[n]]
  <2>1. n + 1 \in Nat /\ n \in 0..((n + 1) - 1) /\ n \in 0..n
    OBVIOUS
  <2>2. G(n + 1)[n + 1] = step[G(n + 1)[n]]
    BY <1>2, <2>1
  <2>3. G(n + 1)[n] = G(n)[n]
    BY <1>3, <2>1
  <2> HIDE DEF Is
  <2> QED
    BY <1>4, <2>1, <2>2, <2>3
<1> QED
  BY <1>5, <1>6, <1>7

LEMMA ReadingsRise ==
    ASSUME NEW rows
    PROVE  /\ Readings(rows) \in [Nat -> [Seq(Token) -> Answers(rows)]]
           /\ \A text \in Seq(Token) : Readings(rows)[0][text] = Unreadable
           /\ \A n \in Nat : \A text \in Seq(Token) :
                 Readings(rows)[n + 1][text] = Read(rows, Readings(rows)[n], text)
<1> DEFINE S == [Seq(Token) -> Answers(rows)]
           next(read) == [text \in Seq(Token) |-> Read(rows, read, text)]
           base == [text \in Seq(Token) |-> Unreadable]
           body(f) == [n \in Nat |-> [text \in Seq(Token) |->
                          IF n = 0 THEN Unreadable ELSE Read(rows, f[n - 1], text)]]
<1>1. PICK step : step = [read \in S |-> next(read)]
  OBVIOUS
<1>2. step \in [S -> S]
  <2>1. \A read \in S : next(read) \in S
    BY ReadType
  <2> HIDE DEF next, S
  <2> QED
    BY <1>1, <2>1
<1>3. base \in S
  BY DEF Unreadable, Answers
<1>4. PICK f \in [Nat -> S] : f[0] = base /\ \A n \in Nat : f[n + 1] = step[f[n]]
  <2> HIDE DEF S, base
  <2> QED
    BY <1>2, <1>3, Unbounded
<1>5. f = body(f)
  <2>1. ASSUME NEW n \in Nat
        PROVE  f[n] = [text \in Seq(Token) |-> IF n = 0 THEN Unreadable ELSE Read(rows, f[n - 1], text)]
    <3>1. CASE n = 0
      BY <1>4, <3>1
    <3>2. CASE n # 0
      <4>1. n - 1 \in Nat /\ (n - 1) + 1 = n
        BY <3>2
      <4>2. f[n] = next(f[n - 1])
        <5>1. f[n - 1] \in S
          BY <1>4, <4>1
        <5>2. f[n] = step[f[n - 1]]
          BY <1>4, <4>1
        <5> HIDE DEF next, S
        <5> QED
          BY <1>1, <5>1, <5>2
      <4> QED
        BY <3>2, <4>2
    <3> QED
      BY <3>1, <3>2
  <2> HIDE DEF S
  <2> QED
    BY <1>4, <2>1
<1>6. PICK g : g = body(g) /\ Readings(rows) = g
  <2>1. Readings(rows) = CHOOSE g : g = body(g)
    BY DEF Readings
  <2> HIDE DEF body
  <2> QED
    BY <1>5, <2>1
<1>7. \A n \in Nat : g[n] = [text \in Seq(Token) |-> IF n = 0 THEN Unreadable ELSE Read(rows, g[n - 1], text)]
  <2>1. g = body(g)
    BY <1>6
  <2> QED
    BY <2>1
<1>8. \A text \in Seq(Token) : g[0][text] = Unreadable
  BY <1>7
<1>9. \A n \in Nat : \A text \in Seq(Token) : g[n + 1][text] = Read(rows, g[n], text)
  <2> TAKE n \in Nat
  <2>1. n + 1 \in Nat /\ n + 1 # 0 /\ (n + 1) - 1 = n
    OBVIOUS
  <2>2. g[n + 1] = [text \in Seq(Token) |-> IF n + 1 = 0 THEN Unreadable ELSE Read(rows, g[(n + 1) - 1], text)]
    BY <1>7, <2>1
  <2> QED
    BY <2>1, <2>2
<1>10. g \in [Nat -> S]
  <2>1. g[0] \in S
    BY <1>3, <1>7
  <2>2. ASSUME NEW n \in Nat, g[n] \in S PROVE g[n + 1] \in S
    <3>1. g[n + 1] = next(g[n])
      <4>1. n + 1 \in Nat /\ n + 1 # 0 /\ (n + 1) - 1 = n
        OBVIOUS
      <4> QED
        BY <1>7, <4>1
    <3> QED
      BY <2>2, <3>1, ReadType
  <2>3. ASSUME NEW n \in Nat PROVE g[n] \in S
    <3> DEFINE P == {k \in 0..n : g[k] \in S}
    <3> HIDE DEF S
    <3>1. 0 \in P
      BY <2>1
    <3>2. ASSUME NEW k \in 0..(n - 1), k \in P PROVE k + 1 \in P
      BY <2>2, <3>2
    <3> HIDE DEF P
    <3>3. \A k \in 0..n : k \in P
      BY <3>1, <3>2, Upwards
    <3> QED
      BY <3>3, n \in 0..n DEF P
  <2>4. DOMAIN g = Nat /\ g = [n \in Nat |-> g[n]]
    <3>1. g = body(g)
      BY <1>6
    <3> QED
      BY <3>1
  <2> HIDE DEF S
  <2> QED
    BY <2>3, <2>4
<1> QED
  BY <1>6, <1>8, <1>9, <1>10

\* More steps than a text has tokens change nothing.
LEMMA ReadingsSettle ==
    ASSUME NEW rows, NEW text \in Seq(Token), NEW n \in Nat, Len(text) <= n
    PROVE  Readings(rows)[n][text] = Reads(rows, text)
<1> PICK U : U = Readings(rows)
  OBVIOUS
<1>1. /\ \A u \in Seq(Token) : U[0][u] = Unreadable
      /\ \A k \in Nat : \A u \in Seq(Token) : U[k + 1][u] = Read(rows, U[k], u)
  BY ReadingsRise
<1>2. ASSUME NEW m \in Nat PROVE \A u \in Seq(Token) : Len(u) <= m => U[m + 1][u] = U[m][u]
  <2> DEFINE P == {k \in 0..m : \A u \in Seq(Token) : Len(u) <= k => U[k + 1][u] = U[k][u]}
  <2>1. 0 \in P
    <3>1. ASSUME NEW u \in Seq(Token), Len(u) <= 0 PROVE U[0 + 1][u] = U[0][u]
      <4>1. u = <<>>
        BY <3>1, LenProperties, EmptySeq
      <4>2. U[0 + 1][u] = Read(rows, U[0], u) /\ U[0][u] = Unreadable
        BY <1>1
      <4> QED
        BY <4>1, <4>2 DEF Read
    <3> QED
      BY <3>1
  <2>2. ASSUME NEW k \in 0..(m - 1), k \in P PROVE k + 1 \in P
    <3>1. k \in Nat /\ k + 1 \in Nat /\ k + 1 \in 0..m
      OBVIOUS
    <3>2. ASSUME NEW u \in Seq(Token), Len(u) <= k + 1 PROVE U[(k + 1) + 1][u] = U[k + 1][u]
      <4>1. U[(k + 1) + 1][u] = Read(rows, U[k + 1], u) /\ U[k + 1][u] = Read(rows, U[k], u)
        BY <1>1, <3>1
      <4>2. ASSUME NEW v \in Seq(Token), Len(v) < Len(u) PROVE U[k + 1][v] = U[k][v]
        <5>1. Len(v) <= k
          BY <3>1, <3>2, <4>2, LenProperties
        <5> QED
          BY <2>2, <5>1
      <4>3. Read(rows, U[k + 1], u) = Read(rows, U[k], u)
        BY ONLY <4>2, u \in Seq(Token), ReadLocal
      <4> QED
        BY <4>1, <4>3
    <3> QED
      BY <3>1, <3>2
  <2> HIDE DEF P
  <2>3. \A k \in 0..m : k \in P
    BY <2>1, <2>2, Upwards
  <2> QED
    BY <2>3, m \in 0..m DEF P
<1>3. PICK k : k = Len(text) /\ k \in Nat /\ k <= n
  BY LenProperties
<1> DEFINE P == {j \in 0..(n - k) : U[k + j][text] = U[k][text]}
<1>4. 0 \in P
  BY <1>3
<1>5. ASSUME NEW j \in 0..((n - k) - 1), j \in P PROVE j + 1 \in P
  <2>1. k + j \in Nat /\ Len(text) <= k + j /\ (k + j) + 1 = k + (j + 1) /\ j + 1 \in 0..(n - k)
    BY <1>3
  <2>2. U[(k + j) + 1][text] = U[k + j][text]
    BY <1>2, <2>1
  <2> QED
    BY <1>5, <2>1, <2>2
<1> HIDE DEF P
<1>6. n - k \in Nat /\ n - k \in 0..(n - k) /\ k + (n - k) = n
  BY <1>3
<1>7. n - k \in P
  BY <1>4, <1>5, <1>6, Upwards
<1>8. U[n][text] = U[k][text]
  BY <1>6, <1>7 DEF P
<1> QED
  BY <1>3, <1>8 DEF Reads

\* The reading of every text there is.
Reader(rows) == [text \in Seq(Token) |-> Reads(rows, text)]

LEMMA ReadsParts ==
    ASSUME NEW rows, NEW text \in Seq(Token)
    PROVE  /\ Reads(rows, text) = Read(rows, Reader(rows), text)
           /\ Reads(rows, text) \in Answers(rows)
<1> PICK n, U : n = Len(text) /\ U = Readings(rows)
  OBVIOUS
<1>1. n \in Nat /\ U \in [Nat -> [Seq(Token) -> Answers(rows)]]
  BY LenProperties, ReadingsRise
<1>2. Reads(rows, text) \in Answers(rows)
  BY <1>1 DEF Reads
<1>3. U[n + 1][text] = Read(rows, U[n], text) /\ U[n + 1][text] = Reads(rows, text)
  <2>1. n + 1 \in Nat /\ Len(text) <= n + 1
    BY <1>1
  <2> QED
    BY <1>1, <2>1, ReadingsRise, ReadingsSettle
<1>4. ASSUME NEW v \in Seq(Token), Len(v) < Len(text) PROVE U[n][v] = Reader(rows)[v]
  <2>1. Len(v) <= n
    BY <1>1, <1>4, LenProperties
  <2>2. U[n][v] = Reads(rows, v)
    BY <1>1, <2>1, ReadingsSettle
  <2> QED
    BY <2>2 DEF Reader
<1>5. Read(rows, U[n], text) = Read(rows, Reader(rows), text)
  BY ONLY <1>4, text \in Seq(Token), ReadLocal
<1> QED
  BY <1>2, <1>3, <1>5

-----------------------------------------------------------------------------
(* Neither the numbers of the placeholders nor the rows there are decide   *)
(* whether a text can be read                                              *)

LEMMA AlikeTokens ==
    ASSUME NEW s, NEW t, Alike(s, t)
    PROVE  /\ s \in Seq(Token) /\ t \in Seq(Token) /\ Len(s) = Len(t) /\ Len(s) \in Nat
           /\ \A i \in 1..Len(s) : s[i].t = t[i].t /\ (s[i].t # "?" => s[i] = t[i])
           /\ Alike(t, s)
<1>1. s \in Seq(Token) /\ t \in Seq(Token) /\ Len(s) = Len(t) /\ Len(s) \in Nat
  BY LenProperties DEF Alike
<1>2. \A i \in 1..Len(s) : s[i].t = t[i].t /\ (s[i].t # "?" => s[i] = t[i])
  BY DEF Alike
<1>3. Alike(t, s)
  BY <1>1 DEF Alike
<1> QED
  BY <1>1, <1>2, <1>3

LEMMA AlikeSides ==
    ASSUME NEW s, NEW t, Alike(s, t), NEW x, NEW tok, NEW y, Parted(s, x, tok, y),
           NEW u, NEW other, NEW v, Parted(t, u, other, v), Len(x) = Len(u)
    PROVE  Alike(x, u) /\ Alike(y, v)
<1> PICK m, n : m = Len(x) /\ n = Len(y)
  OBVIOUS
<1>1. /\ m \in Nat /\ n \in Nat /\ Len(s) = m + 1 + n /\ x \in Seq(Token) /\ y \in Seq(Token)
      /\ (\A i \in 1..m : s[i] = x[i]) /\ \A i \in 1..n : s[m + 1 + i] = y[i]
  BY DEF Parted
<1>2. /\ Len(u) = m /\ Len(v) \in Nat /\ Len(t) = m + 1 + Len(v) /\ u \in Seq(Token) /\ v \in Seq(Token)
      /\ (\A i \in 1..m : t[i] = u[i]) /\ \A i \in 1..Len(v) : t[m + 1 + i] = v[i]
  <2>1. /\ Len(v) \in Nat /\ Len(t) = Len(u) + 1 + Len(v) /\ u \in Seq(Token) /\ v \in Seq(Token)
        /\ (\A i \in 1..Len(u) : t[i] = u[i]) /\ \A i \in 1..Len(v) : t[Len(u) + 1 + i] = v[i]
    BY DEF Parted
  <2>2. Len(u) = m
    OBVIOUS
  <2> QED
    BY ONLY <2>1, <2>2
<1>3. Len(s) = Len(t) /\ \A i \in 1..Len(s) : s[i] = t[i] \/ (s[i].t = "?" /\ t[i].t = "?")
  BY DEF Alike
<1>4. Len(v) = n
  BY <1>1, <1>2, <1>3
<1>5. \A i \in 1..m : x[i] = u[i] \/ (x[i].t = "?" /\ u[i].t = "?")
  <2>1. \A i \in 1..m : i \in 1..Len(s)
    BY <1>1
  <2> QED
    BY <1>1, <1>2, <1>3, <2>1
<1>6. \A i \in 1..n : y[i] = v[i] \/ (y[i].t = "?" /\ v[i].t = "?")
  <2>1. \A i \in 1..n : m + 1 + i \in 1..Len(s)
    BY <1>1
  <2> QED
    BY <1>1, <1>2, <1>3, <1>4, <2>1
<1> QED
  BY <1>1, <1>2, <1>4, <1>5, <1>6 DEF Alike

LEMMA AlikeInside ==
    ASSUME NEW s, NEW t, Alike(s, t), s # <<>>
    PROVE  /\ t # <<>> /\ s[1].t = t[1].t /\ (s[1].t # "?" => s[1] = t[1])
           /\ Alike(Tail(s), Tail(t))
           /\ Len(s) >= 2 => Alike(SubSeq(s, 2, Len(s) - 1), SubSeq(t, 2, Len(t) - 1))
<1> PICK n : n = Len(s)
  OBVIOUS
<1>1. /\ s \in Seq(Token) /\ t \in Seq(Token) /\ Len(t) = n /\ n \in Nat
      /\ \A i \in 1..n : s[i] = t[i] \/ (s[i].t = "?" /\ t[i].t = "?")
      /\ \A i \in 1..n : s[i].t = t[i].t /\ (s[i].t # "?" => s[i] = t[i])
  BY AlikeTokens DEF Alike
<1>2. n # 0 /\ t # <<>> /\ 1 \in 1..n
  <2>1. n # 0
    BY <1>1, EmptySeq
  <2> QED
    BY <1>1, <2>1, EmptySeq
<1>3. Alike(Tail(s), Tail(t))
  <2>1. PICK x, y : x = Tail(s) /\ y = Tail(t)
    OBVIOUS
  <2>2. /\ x \in Seq(Token) /\ Len(x) = n - 1 /\ \A i \in 1..(n - 1) : x[i] = s[i + 1]
    <3>1. /\ Tail(s) \in Seq(Token) /\ Len(Tail(s)) = Len(s) - 1
          /\ \A i \in 1..Len(Tail(s)) : Tail(s)[i] = s[i + 1]
      BY <1>1, HeadTailProperties
    <3> QED
      BY ONLY <2>1, <3>1, n = Len(s)
  <2>3. /\ y \in Seq(Token) /\ Len(y) = n - 1 /\ \A i \in 1..(n - 1) : y[i] = t[i + 1]
    <3>1. /\ Tail(t) \in Seq(Token) /\ Len(Tail(t)) = Len(t) - 1
          /\ \A i \in 1..Len(Tail(t)) : Tail(t)[i] = t[i + 1]
      BY <1>1, <1>2, HeadTailProperties
    <3> QED
      BY ONLY <1>1, <2>1, <3>1
  <2>4. \A i \in 1..(n - 1) : i + 1 \in 1..n
    BY <1>1
  <2>5. \A i \in 1..(n - 1) : x[i] = y[i] \/ (x[i].t = "?" /\ y[i].t = "?")
    BY ONLY <1>1, <2>2, <2>3, <2>4
  <2>6. Alike(x, y)
    BY ONLY <2>2, <2>3, <2>5 DEF Alike
  <2> QED
    BY ONLY <2>1, <2>6
<1>4. ASSUME n >= 2 PROVE Alike(SubSeq(s, 2, n - 1), SubSeq(t, 2, n - 1))
  <2> PICK k, x, y : k = n - 1 /\ x = SubSeq(s, 2, k) /\ y = SubSeq(t, 2, k)
    OBVIOUS
  <2>1. /\ k \in Int /\ 2 \in Int /\ (\A i \in 2..k : s[i] \in Token) /\ (\A i \in 2..k : t[i] \in Token)
    BY <1>1, ElementOfSeq
  <2>2. /\ SubSeq(s, 2, k) \in Seq(Token)
        /\ Len(SubSeq(s, 2, k)) = IF 2 <= k THEN k - 2 + 1 ELSE 0
        /\ \A i \in 1..(k - 2 + 1) : SubSeq(s, 2, k)[i] = s[2 + i - 1]
    BY ONLY <2>1, SubSeqProperties
  <2>3. /\ SubSeq(t, 2, k) \in Seq(Token)
        /\ Len(SubSeq(t, 2, k)) = IF 2 <= k THEN k - 2 + 1 ELSE 0
        /\ \A i \in 1..(k - 2 + 1) : SubSeq(t, 2, k)[i] = t[2 + i - 1]
    BY ONLY <2>1, SubSeqProperties
  <2>4. (IF 2 <= k THEN k - 2 + 1 ELSE 0) = k - 2 + 1 /\ \A i \in 1..(k - 2 + 1) : 2 + i - 1 \in 1..n
    BY <1>1, <1>4
  <2>5. \A i \in 1..(k - 2 + 1) : x[i] = y[i] \/ (x[i].t = "?" /\ y[i].t = "?")
    BY <1>1, <2>2, <2>3, <2>4
  <2>6. x \in Seq(Token) /\ y \in Seq(Token) /\ Len(x) = k - 2 + 1 /\ Len(y) = k - 2 + 1
    BY <2>2, <2>3, <2>4
  <2>7. Alike(x, y)
    BY ONLY <2>5, <2>6 DEF Alike
  <2> QED
    BY <2>7
<1> QED
  BY <1>1, <1>2, <1>3, <1>4

LEMMA AlikeEnclosed ==
    ASSUME NEW s, NEW t, Alike(s, t), NEW open, NEW close
    PROVE  Enclosed(s, open, close) <=> Enclosed(t, open, close)
<1> PICK n : n = Len(s)
  OBVIOUS
<1>1. Len(t) = n /\ n \in Nat /\ (\A i \in 1..n : s[i].t = t[i].t) /\ Depths(s) = Depths(t)
  BY AlikeTokens, AlikeDepths
<1>2. n >= 2 => 1 \in 1..n /\ n \in 1..n
  BY <1>1
<1> QED
  BY <1>1, <1>2 DEF Enclosed

LEMMA AlikeWord ==
    ASSUME NEW s, NEW t, Alike(s, t), NEW w \in Keywords
    PROVE  s = <<Word(w)>> <=> t = <<Word(w)>>
<1>1. ASSUME NEW x, NEW y, Alike(x, y), x = <<Word(w)>> PROVE y = <<Word(w)>>
  <2>1. Word(w).t # "?" /\ Word(w) \in Token
    <3>1. w # "?"
      BY KeywordsUnmarked, WordsAssumption
    <3> QED
      BY <3>1, KeywordsUnmarked DEF Word
  <2>2. Len(x) = 1 /\ x[1] = Word(w) /\ x \in Seq(Token)
    BY <1>1, <2>1
  <2>3. y \in Seq(Token) /\ Len(y) = 1 /\ y[1] = Word(w)
    BY <1>1, <2>1, <2>2, AlikeTokens
  <2> PICK z : z = <<Word(w)>>
    OBVIOUS
  <2>4. z \in Seq(Token) /\ Len(z) = 1 /\ z[1] = Word(w)
    BY <2>1
  <2>5. \A i \in 1..1 : y[i] = z[i]
    BY <2>3, <2>4
  <2>6. y = z
    BY ONLY <2>3, <2>4, <2>5, SeqEqual
  <2> QED
    BY <2>6
<1> QED
  BY <1>1, AlikeTokens

LEMMA AlikePredicate ==
    ASSUME NEW s, NEW t, Alike(s, t), s # <<>>
    PROVE  (IsPredicate(s) <=> IsPredicate(t)) /\ (IsPredicate(s) => s[1].v = t[1].v)
<1> PICK n : n = Len(s)
  OBVIOUS
<1>1. /\ Len(t) = n /\ n \in Nat /\ (\A i \in 1..n : s[i].t = t[i].t)
      /\ s[1].t = t[1].t /\ (s[1].t # "?" => s[1] = t[1]) /\ Alike(Tail(s), Tail(t))
  BY AlikeTokens, AlikeInside
<1>2. Enclosed(Tail(s), "[", "]") <=> Enclosed(Tail(t), "[", "]")
  BY <1>1, AlikeEnclosed
<1>3. \A i \in 2..n : i \in 1..n
  BY <1>1
<1> QED
  BY <1>1, <1>2, <1>3 DEF IsPredicate

\* Both can be read or neither; with the same rows to the same answer.
SameAnswer(some, others, one, other) == (one.ok <=> other.ok) /\ (some = others => one = other)

LEMMA SameJoining ==
    ASSUME NEW some, NEW others, NEW w, NEW one \in Answers(some), NEW other \in Answers(others),
           NEW next \in Answers(some), NEW last \in Answers(others),
           SameAnswer(some, others, one, other), SameAnswer(some, others, next, last)
    PROVE  SameAnswer(some, others, Joining(w, one, next), Joining(w, other, last))
BY DEF SameAnswer, Joining, Readable, Unreadable

LEMMA SameUnit ==
    ASSUME NEW some, NEW others, NEW s, NEW t, Alike(s, t), s # <<>>,
           \A u, v : Alike(u, v) /\ Len(u) < Len(s) =>
                        SameAnswer(some, others, Reads(some, u), Reads(others, v))
    PROVE  SameAnswer(some, others, ReadUnit(some, Reader(some), s), ReadUnit(others, Reader(others), t))
<1> DEFINE Same(one, other) == SameAnswer(some, others, one, other)
<1>1. /\ s \in Seq(Token) /\ t \in Seq(Token) /\ t # <<>> /\ Len(s) = Len(t)
      /\ s[1].t = t[1].t /\ Alike(Tail(s), Tail(t))
      /\ Len(s) >= 2 => Alike(SubSeq(s, 2, Len(s) - 1), SubSeq(t, 2, Len(t) - 1))
  BY AlikeTokens, AlikeInside
<1>2. /\ Tail(s) \in Seq(Token) /\ Len(Tail(s)) < Len(s) /\ Tail(t) \in Seq(Token)
      /\ Len(s) >= 2 => /\ SubSeq(s, 2, Len(s) - 1) \in Seq(Token)
                        /\ Len(SubSeq(s, 2, Len(s) - 1)) < Len(s)
                        /\ SubSeq(t, 2, Len(t) - 1) \in Seq(Token)
  BY <1>1, InsideText
<1>3. Same(Reads(some, Tail(s)), Reads(others, Tail(t)))
  BY <1>1, <1>2
<1>4. Len(s) >= 2 => Same(Reads(some, SubSeq(s, 2, Len(s) - 1)), Reads(others, SubSeq(t, 2, Len(t) - 1)))
  BY <1>1, <1>2
<1>5. Enclosed(s, "(", ")") <=> Enclosed(t, "(", ")")
  BY AlikeEnclosed
<1>6. /\ s = <<Word("1=1")>> <=> t = <<Word("1=1")>>
      /\ s = <<Word("1=0")>> <=> t = <<Word("1=0")>>
  BY AlikeWord, BracketKeywords
<1>7. (IsPredicate(s) <=> IsPredicate(t)) /\ (IsPredicate(s) => s[1].v = t[1].v)
  BY AlikePredicate
<1>8. Same(Opposite(some, Reader(some)[Tail(s)]), Opposite(others, Reader(others)[Tail(t)]))
  BY <1>2, <1>3 DEF SameAnswer, Opposite, Readable, Unreadable, Reader
<1>9. Enclosed(s, "(", ")") => Same(Reader(some)[SubSeq(s, 2, Len(s) - 1)],
                                    Reader(others)[SubSeq(t, 2, Len(t) - 1)])
  <2> SUFFICES ASSUME Len(s) >= 2
               PROVE  Same(Reader(some)[SubSeq(s, 2, Len(s) - 1)], Reader(others)[SubSeq(t, 2, Len(t) - 1)])
    BY DEF Enclosed
  <2> HIDE DEF Same
  <2> QED
    BY <1>2, <1>4 DEF Reader
<1>10. Same(Readable(some), Readable(others)) /\ Same(Readable({}), Readable({}))
       /\ Same(Unreadable, Unreadable)
       /\ \A v : Same(Readable({row \in some : v \in row}), Readable({row \in others : v \in row}))
  BY DEF SameAnswer, Readable, Unreadable
<1> HIDE DEF Same
<1>11. Same(ReadUnit(some, Reader(some), s), ReadUnit(others, Reader(others), t))
  BY <1>1, <1>5, <1>6, <1>7, <1>8, <1>9, <1>10 DEF ReadUnit
<1> QED
  BY <1>11 DEF Same

LEMMA SameCut ==
    ASSUME NEW some, NEW others, NEW s, NEW t, Alike(s, t), NEW w, At(s, {w}) # {},
           \A u, v : Alike(u, v) /\ Len(u) < Len(s) =>
                        SameAnswer(some, others, Reads(some, u), Reads(others, v))
    PROVE  SameAnswer(some, others, Cut(Reader(some), s, w), Cut(Reader(others), t, w))
<1>1. s \in Seq(Token) /\ t \in Seq(Token) /\ At(t, {w}) = At(s, {w})
  BY AlikeTokens, AlikeDepths
<1>2. PICK x \in Seq(Token), tok \in Token, y \in Seq(Token) : LastCut(s, w, x, tok, y)
  BY <1>1, LastAt
<1>3. PICK u \in Seq(Token), other \in Token, v \in Seq(Token) : LastCut(t, w, u, other, v)
  BY <1>1, LastAt
<1>4. Len(x) = Len(u)
  <2>1. Len(x) + 1 <= Len(u) + 1 /\ Len(u) + 1 <= Len(x) + 1 /\ Len(x) \in Nat /\ Len(u) \in Nat
    BY <1>1, <1>2, <1>3, LenProperties DEF LastCut
  <2> QED
    BY ONLY <2>1
<1>5. Alike(x, u) /\ Alike(y, v)
  BY <1>2, <1>3, <1>4, AlikeSides DEF LastCut
<1>6. SameAnswer(some, others, Reads(some, x), Reads(others, u))
      /\ SameAnswer(some, others, Reads(some, y), Reads(others, v))
  BY <1>2, <1>5 DEF LastCut
<1>7. /\ Reads(some, x) \in Answers(some) /\ Reads(some, y) \in Answers(some)
      /\ Reads(others, u) \in Answers(others) /\ Reads(others, v) \in Answers(others)
  BY ReadsParts
<1>8. /\ Cut(Reader(some), s, w) = Joining(w, Reads(some, x), Reads(some, y))
      /\ Cut(Reader(others), t, w) = Joining(w, Reads(others, u), Reads(others, v))
  BY <1>2, <1>3 DEF LastCut, Reader
<1> QED
  BY <1>6, <1>7, <1>8, SameJoining

LEMMA SameReading ==
    ASSUME NEW some, NEW others, NEW s, NEW t, Alike(s, t)
    PROVE  SameAnswer(some, others, Reads(some, s), Reads(others, t))
<1> DEFINE Same(u, v) == SameAnswer(some, others, Reads(some, u), Reads(others, v))
           P == {k \in 0..Len(s) : \A u, v : Alike(u, v) /\ Len(u) <= k => Same(u, v)}
<1>1. ASSUME NEW u, NEW v, Alike(u, v), \A x, y : Alike(x, y) /\ Len(x) < Len(u) => Same(x, y)
      PROVE  Same(u, v)
  <2>1. /\ u \in Seq(Token) /\ v \in Seq(Token) /\ \A W : At(u, W) = At(v, W)
    BY <1>1, AlikeTokens, AlikeDepths
  <2>2. /\ Reads(some, u) = Read(some, Reader(some), u)
        /\ Reads(others, v) = Read(others, Reader(others), v)
    BY <2>1, ReadsParts
  <2>3. u = <<>> <=> v = <<>>
    BY <1>1, AlikeTokens, EmptySeq
  <2>4. CASE u = <<>>
    BY <2>2, <2>3, <2>4 DEF Read, SameAnswer
  <2>5. CASE u # <<>> /\ At(u, {"OR"}) # {}
    <3>1. SameAnswer(some, others, Cut(Reader(some), u, "OR"), Cut(Reader(others), v, "OR"))
      BY <1>1, <2>5, SameCut
    <3> QED
      BY <2>1, <2>2, <2>3, <2>5, <3>1 DEF Read
  <2>6. CASE u # <<>> /\ At(u, {"OR"}) = {} /\ At(u, {"AND"}) # {}
    <3>1. SameAnswer(some, others, Cut(Reader(some), u, "AND"), Cut(Reader(others), v, "AND"))
      BY <1>1, <2>6, SameCut
    <3> QED
      BY <2>1, <2>2, <2>3, <2>6, <3>1 DEF Read
  <2>7. CASE u # <<>> /\ At(u, {"OR"}) = {} /\ At(u, {"AND"}) = {}
    <3>1. SameAnswer(some, others, ReadUnit(some, Reader(some), u), ReadUnit(others, Reader(others), v))
      BY <1>1, <2>7, SameUnit
    <3> QED
      BY <2>1, <2>2, <2>3, <2>7, <3>1 DEF Read
  <2> QED
    BY <2>4, <2>5, <2>6, <2>7
<1> HIDE DEF Same
<1>2. 0 \in P
  <2>1. ASSUME NEW u, NEW v, Alike(u, v), Len(u) <= 0 PROVE Same(u, v)
    <3>1. ASSUME NEW x, NEW y, Alike(x, y), Len(x) < Len(u) PROVE FALSE
      BY <2>1, <3>1, AlikeTokens
    <3> QED
      BY <1>1, <2>1, <3>1
  <2> QED
    BY <2>1, AlikeTokens
<1>3. ASSUME NEW k \in 0..(Len(s) - 1), k \in P PROVE k + 1 \in P
  <2>1. ASSUME NEW u, NEW v, Alike(u, v), Len(u) <= k + 1 PROVE Same(u, v)
    <3>1. ASSUME NEW x, NEW y, Alike(x, y), Len(x) < Len(u) PROVE Same(x, y)
      <4>1. Len(x) <= k
        BY <2>1, <3>1, AlikeTokens
      <4> QED
        BY <1>3, <3>1, <4>1
    <3> QED
      BY <1>1, <2>1, <3>1
  <2>2. k + 1 \in 0..Len(s)
    BY AlikeTokens
  <2> QED
    BY <2>1, <2>2
<1>4. Len(s) \in P
  <2> HIDE DEF P
  <2>1. Len(s) \in Nat /\ Len(s) \in 0..Len(s)
    BY AlikeTokens
  <2> QED
    BY <1>2, <1>3, <2>1, Upwards
<1>5. Len(s) <= Len(s)
  BY AlikeTokens
<1>6. Same(s, t)
  BY <1>4, <1>5
<1> QED
  BY <1>6 DEF Same

-----------------------------------------------------------------------------
(* Reading around AND and OR                                               *)

\* The texts that may stand on the two sides of w.
Sides(w) == IF w = "AND" THEN Free({"OR"}) ELSE Closed

LEMMA SidesTexts ==
    ASSUME NEW w \in {"AND", "OR"}
    PROVE  /\ Sides(w) \subseteq Closed /\ Sides(w) \subseteq Seq(Token) /\ w \notin Brackets
           /\ \A text \in Sides(w) : w = "AND" => At(text, {"OR"}) = {}
           /\ Free({"OR"}) \subseteq Sides(w)
<1>1. w \notin Brackets
  BY DEF Brackets, Opening, Closing
<1> QED
  BY <1>1 DEF Sides, Free, Closed

LEMMA SidesTogether ==
    ASSUME NEW w \in {"AND", "OR"}, NEW tok \in Token, tok.t = w, NEW s \in Sides(w), NEW t \in Sides(w)
    PROVE  (s \o <<tok>>) \o t \in Sides(w)
<1>1. CASE w = "AND"
  <2>1. <<tok>> \in Free({"OR"})
    BY <1>1, SidesTexts, FreeToken
  <2>2. s \in Free({"OR"}) /\ t \in Free({"OR"})
    BY <1>1 DEF Sides
  <2>3. s \o <<tok>> \in Free({"OR"})
    BY <2>1, <2>2, FreeConcat
  <2>4. (s \o <<tok>>) \o t \in Free({"OR"})
    BY <2>2, <2>3, FreeConcat
  <2> QED
    BY <1>1, <2>4 DEF Sides
<1>2. CASE w = "OR"
  <2>1. <<tok>> \in Free({"AND"})
    BY <1>2, SidesTexts, FreeToken
  <2>2. s \in Closed /\ t \in Closed /\ <<tok>> \in Closed
    BY <2>1, SidesTexts DEF Free
  <2>3. s \o <<tok>> \in Closed
    BY <2>2, ClosedConcat
  <2>4. (s \o <<tok>>) \o t \in Closed
    BY <2>2, <2>3, ClosedConcat
  <2> QED
    BY <1>2, <2>4 DEF Sides
<1> QED
  BY <1>1, <1>2

LEMMA SidesApart ==
    ASSUME NEW w \in {"AND", "OR"}, NEW text \in Sides(w), NEW s, NEW tok, NEW t, Parted(text, s, tok, t),
           tok.t = w, Len(s) + 1 \in At(text, {w})
    PROVE  s \in Sides(w) /\ t \in Sides(w)
<1>1. text \in Closed /\ tok.t \notin Brackets
  BY SidesTexts
<1>2. s \in Closed /\ t \in Closed
  BY <1>1, PartedClosed
<1>3. w = "AND" => At(s, {"OR"}) = {} /\ At(t, {"OR"}) = {}
  <2> SUFFICES ASSUME w = "AND" PROVE At(s, {"OR"}) = {} /\ At(t, {"OR"}) = {}
    OBVIOUS
  <2>1. At(text, {"OR"}) = {}
    BY SidesTexts
  <2>2. At(s, {"OR"}) \subseteq 1..Len(s) /\ At(t, {"OR"}) \subseteq 1..Len(t)
    BY <1>2, AtPlaces DEF Closed
  <2>3. /\ \A i \in 1..Len(s) : i \in At(text, {"OR"}) <=> i \in At(s, {"OR"})
        /\ \A i \in 1..Len(t) : Len(s) + 1 + i \in At(text, {"OR"}) <=> i \in At(t, {"OR"})
    BY <1>1, <1>2, PartedAts
  <2> QED
    BY ONLY <2>1, <2>2, <2>3
<1> QED
  BY <1>2, <1>3 DEF Sides, Free

\* The reading around one w is of the two sides.
ReadApart(rows, w, s, tok, t) ==
    Reads(rows, (s \o <<tok>>) \o t) = Joining(w, Reads(rows, s), Reads(rows, t))

LEMMA CutLast ==
    ASSUME NEW rows, NEW w \in {"AND", "OR"}, NEW tok \in Token, tok.t = w,
           NEW s \in Sides(w), NEW t \in Sides(w), At(t, {w}) = {}
    PROVE  ReadApart(rows, w, s, tok, t)
<1> PICK text : text = (s \o <<tok>>) \o t
  OBVIOUS
<1>1. Parted(text, s, tok, t) /\ text \in Sides(w) /\ s \in Closed /\ tok.t \notin Brackets
      /\ text \in Seq(Token)
  <2>1. s \in Seq(Token) /\ t \in Seq(Token) /\ s \in Closed /\ tok.t \notin Brackets
    BY SidesTexts
  <2>2. Parted(text, s, tok, t)
    BY <2>1, PartedText
  <2>3. text \in Sides(w)
    BY SidesTogether
  <2> QED
    BY <2>1, <2>2, <2>3, SidesTexts
<1>2. PICK m : m = Len(s) /\ m \in Nat
  BY <1>1 DEF Parted
<1>3. m + 1 \in At(text, {w}) /\ At(text, {w}) # {}
  <2>1. Len(s) + 1 \in At(text, {w}) <=> tok.t \in {w}
    BY ONLY <1>1, PartedAts
  <2> QED
    BY <1>2, <2>1
<1>4. \A i \in At(text, {w}) : i <= m + 1
  <2>1. \A i \in At(text, {w}) : i \in At(s, {w}) \/ i = Len(s) + 1 \/ i - (Len(s) + 1) \in At(t, {w})
    BY ONLY <1>1, PartedAts
  <2>2. At(s, {w}) \subseteq 1..Len(s)
    BY <1>1, AtPlaces DEF Closed
  <2> SUFFICES ASSUME NEW i \in At(text, {w}) PROVE i <= m + 1
    OBVIOUS
  <2>3. CASE i \in At(s, {w})
    <3>1. i \in 1..m
      BY ONLY <1>2, <2>2, <2>3
    <3> QED
      BY ONLY <1>2, <3>1
  <2>4. CASE i = Len(s) + 1
    BY ONLY <1>2, <2>4
  <2>5. CASE i - (Len(s) + 1) \in At(t, {w})
    BY <2>5
  <2> QED
    BY <2>1, <2>3, <2>4, <2>5
<1>5. w = "AND" => At(text, {"OR"}) = {}
  BY <1>1, SidesTexts
<1>6. text # <<>>
  <2>1. At(text, {w}) \subseteq 1..Len(text)
    BY <1>1, AtPlaces
  <2>2. Len(<<>>) = 0 /\ \A i : i \notin 1..0
    OBVIOUS
  <2> QED
    BY <1>3, <2>1, <2>2
<1>7. Reads(rows, text) = Cut(Reader(rows), text, w)
  <2>1. Reads(rows, text) = Read(rows, Reader(rows), text)
    BY <1>1, ReadsParts
  <2> QED
    BY <1>3, <1>5, <1>6, <2>1 DEF Read
<1>8. PICK x \in Seq(Token), other \in Token, y \in Seq(Token) : LastCut(text, w, x, other, y)
  BY <1>1, <1>3, LastAt
<1>9. x = s /\ y = t
  <2>1. Len(x) + 1 \in At(text, {w}) /\ (\A i \in At(text, {w}) : i <= Len(x) + 1) /\ Len(x) \in Nat
        /\ Parted(text, x, other, y)
    BY <1>8, LenProperties DEF LastCut
  <2>2. Len(x) + 1 <= m + 1 /\ m + 1 <= Len(x) + 1
    BY <1>3, <1>4, <2>1
  <2>3. Len(x) = Len(s)
    BY ONLY <1>2, <2>1, <2>2
  <2>4. /\ SubSeq(text, 1, Len(x)) = x /\ SubSeq(text, Len(x) + 2, Len(text)) = y
        /\ SubSeq(text, 1, Len(s)) = s /\ SubSeq(text, Len(s) + 2, Len(text)) = t
    <3>1. Parted(text, x, other, y) /\ Parted(text, s, tok, t)
      BY ONLY <1>1, <2>1
    <3>2. SubSeq(text, 1, Len(x)) = x /\ SubSeq(text, Len(x) + 2, Len(text)) = y
      BY ONLY <3>1, PartedSides, Zenon
    <3>3. SubSeq(text, 1, Len(s)) = s /\ SubSeq(text, Len(s) + 2, Len(text)) = t
      BY ONLY <3>1, PartedSides, Zenon
    <3> QED
      BY ONLY <3>2, <3>3
  <2>5. x = SubSeq(text, 1, Len(s)) /\ y = SubSeq(text, Len(s) + 2, Len(text))
    BY ONLY <2>3, <2>4
  <2> QED
    BY ONLY <2>4, <2>5
<1>10. Cut(Reader(rows), text, w) = Joining(w, Reader(rows)[s], Reader(rows)[t])
  BY <1>8, <1>9 DEF LastCut
<1>11. Reader(rows)[s] = Reads(rows, s) /\ Reader(rows)[t] = Reads(rows, t)
  BY SidesTexts DEF Reader
<1> QED
  BY <1>7, <1>10, <1>11 DEF ReadApart

LEMMA JoiningTogether ==
    ASSUME NEW w, NEW rows, NEW x \in Answers(rows), NEW y \in Answers(rows), NEW z \in Answers(rows)
    PROVE  Joining(w, Joining(w, x, y), z) = Joining(w, x, Joining(w, y, z))
BY DEF Joining, Answers, Readable, Unreadable

\* Which of three texts are put together first is all the same.
EitherWay(s, t, u) == (s \o t) \o u = s \o (t \o u)

LEMMA ThreeTogether ==
    ASSUME NEW S, NEW s \in Seq(S), NEW t \in Seq(S), NEW u \in Seq(S)
    PROVE  EitherWay(s, t, u)
BY Associative DEF EitherWay

\* The same of five, the first two together.
FiveWays(a, p, c, e, g) == (a \o p) \o ((c \o e) \o g) = (((a \o p) \o c) \o e) \o g

LEMMA FiveTogether ==
    ASSUME NEW S, NEW a \in Seq(S), NEW p \in Seq(S), NEW c \in Seq(S), NEW e \in Seq(S), NEW g \in Seq(S)
    PROVE  FiveWays(a, p, c, e, g)
<1>1. PICK ap \in Seq(S), ce \in Seq(S) : ap = a \o p /\ ce = c \o e
  BY ConcatProperties
<1>2. ap \in Seq(S) /\ ce \in Seq(S)
  BY <1>1
<1>3. EitherWay(ap, ce, g)
  BY <1>2, ThreeTogether
<1>4. EitherWay(ap, c, e)
  BY <1>2, ThreeTogether
<1> QED
  BY ONLY <1>1, <1>3, <1>4 DEF EitherWay, FiveWays

LEMMA ReadsCut ==
    ASSUME NEW rows, NEW w \in {"AND", "OR"}, NEW tok \in Token, tok.t = w,
           NEW s \in Sides(w), NEW t \in Sides(w)
    PROVE  ReadApart(rows, w, s, tok, t)
<1> DEFINE Cuts(u) == ReadApart(rows, w, s, tok, u)
           P == {k \in 0..Len(t) : \A u \in Sides(w) : Len(u) <= k => Cuts(u)}
<1>0. Sides(w) \subseteq Seq(Token) /\ Sides(w) \subseteq Closed /\ w \notin Brackets
  BY SidesTexts
<1>1. ASSUME NEW u \in Sides(w), \A v \in Sides(w) : Len(v) < Len(u) => Cuts(v)
      PROVE  Cuts(u)
  <2>1. CASE At(u, {w}) = {}
    <3> QED
      BY <2>1, CutLast
  <2>2. CASE At(u, {w}) # {}
    <3>1. PICK x \in Seq(Token), other \in Token, y \in Seq(Token) : LastCut(u, w, x, other, y)
      BY <1>0, <2>2, LastAt
    <3>2. /\ Parted(u, x, other, y) /\ other.t = w /\ Len(x) + 1 \in At(u, {w}) /\ Len(x) < Len(u)
          /\ \A i \in At(u, {w}) : i <= Len(x) + 1
      BY <3>1 DEF LastCut
    <3>3. x \in Sides(w) /\ y \in Sides(w)
      BY <3>2, SidesApart
    <3>4. At(y, {w}) = {}
      <4>1. At(y, {w}) \subseteq 1..Len(y) /\ Len(x) \in Nat
        BY AtPlaces, LenProperties
      <4>2. \A i \in 1..Len(y) : Len(x) + 1 + i \in At(u, {w}) <=> i \in At(y, {w})
        <5>1. x \in Closed /\ other.t \notin Brackets
          BY <1>0, <3>2, <3>3
        <5> QED
          BY ONLY <3>2, <5>1, PartedAts
      <4> SUFFICES ASSUME NEW i \in At(y, {w}) PROVE FALSE
        OBVIOUS
      <4>3. i \in 1..Len(y) /\ Len(x) + 1 + i <= Len(x) + 1
        BY <3>2, <4>1, <4>2
      <4> QED
        BY ONLY <4>1, <4>3
    <3>5. u = (x \o <<other>>) \o y
      BY <3>2, PartedSides
    <3>6. PICK v : v = (s \o <<tok>>) \o x
      OBVIOUS
    <3>7. v \in Sides(w) /\ Cuts(x)
      BY <1>1, <3>2, <3>3, <3>6, SidesTogether
    <3>8. (s \o <<tok>>) \o u = (v \o <<other>>) \o y
      <4>1. /\ s \in Seq(Token) /\ <<tok>> \in Seq(Token) /\ x \in Seq(Token) /\ <<other>> \in Seq(Token)
            /\ y \in Seq(Token)
        BY <1>0, OneToken
      <4>2. PICK one, two : one = <<tok>> /\ two = <<other>>
        OBVIOUS
      <4>3. one \in Seq(Token) /\ two \in Seq(Token)
        BY <4>1, <4>2
      <4>4. /\ s \in Seq(Token) /\ one \in Seq(Token) /\ x \in Seq(Token) /\ two \in Seq(Token)
            /\ y \in Seq(Token)
        BY ONLY <4>1, <4>3
      <4>5. FiveWays(s, one, x, two, y)
        BY ONLY <4>4, FiveTogether
      <4> QED
        BY ONLY <3>5, <3>6, <4>2, <4>5 DEF FiveWays
    <3>9. Reads(rows, (v \o <<other>>) \o y) = Joining(w, Reads(rows, v), Reads(rows, y))
      <4>1. w \in {"AND", "OR"} /\ other \in Token /\ other.t = w /\ v \in Sides(w) /\ y \in Sides(w)
            /\ At(y, {w}) = {}
        BY <3>1, <3>2, <3>3, <3>4, <3>7
      <4>2. ReadApart(rows, w, v, other, y)
        BY ONLY <4>1, CutLast
      <4> QED
        BY ONLY <4>2 DEF ReadApart
    <3>10. Reads(rows, u) = Joining(w, Reads(rows, x), Reads(rows, y))
      <4>1. w \in {"AND", "OR"} /\ other \in Token /\ other.t = w /\ x \in Sides(w) /\ y \in Sides(w)
            /\ At(y, {w}) = {}
        BY <3>1, <3>2, <3>3, <3>4
      <4>2. ReadApart(rows, w, x, other, y)
        BY ONLY <4>1, CutLast
      <4> QED
        BY ONLY <3>5, <4>2 DEF ReadApart
    <3>11. Reads(rows, v) = Joining(w, Reads(rows, s), Reads(rows, x))
      BY ONLY <3>6, <3>7 DEF Cuts, ReadApart
    <3>12. /\ Reads(rows, s) \in Answers(rows) /\ Reads(rows, x) \in Answers(rows)
           /\ Reads(rows, y) \in Answers(rows)
      BY <1>0, ReadsParts
    <3>13. Joining(w, Joining(w, Reads(rows, s), Reads(rows, x)), Reads(rows, y))
              = Joining(w, Reads(rows, s), Joining(w, Reads(rows, x), Reads(rows, y)))
      BY ONLY <3>12, JoiningTogether
    <3> QED
      BY ONLY <3>8, <3>9, <3>10, <3>11, <3>13 DEF Cuts, ReadApart
  <2> QED
    BY <2>1, <2>2
<1>2. Len(t) \in Nat /\ \A u \in Sides(w) : Len(u) \in Nat
  BY <1>0, LenProperties
<1> HIDE DEF Cuts
<1>3. 0 \in P
  BY <1>1, <1>2
<1>4. ASSUME NEW k \in 0..(Len(t) - 1), k \in P PROVE k + 1 \in P
  <2>1. ASSUME NEW u \in Sides(w), Len(u) <= k + 1 PROVE Cuts(u)
    <3>1. ASSUME NEW v \in Sides(w), Len(v) < Len(u) PROVE Cuts(v)
      <4>1. Len(v) <= k
        BY <1>2, <2>1, <3>1
      <4> QED
        BY <1>4, <4>1
    <3> QED
      BY <1>1, <3>1
  <2> QED
    BY <1>2, <2>1
<1>5. Len(t) \in P
  <2> HIDE DEF P
  <2>1. Len(t) \in 0..Len(t)
    BY <1>2
  <2> QED
    BY <1>2, <1>3, <1>4, <2>1, Upwards
<1>6. Cuts(t)
  BY <1>2, <1>5
<1> QED
  BY <1>6 DEF Cuts

\* Parts with AND or OR between them are read one by one.
ReadsTogether(rows, w, parts) ==
    /\ Reads(rows, Joined(parts, w)).ok <=> \A i \in DOMAIN parts : Reads(rows, parts[i]).ok
    /\ Reads(rows, Joined(parts, w)).ok =>
          Reads(rows, Joined(parts, w)).rows =
             {row \in rows : IF w = "OR" THEN \E i \in DOMAIN parts : row \in Reads(rows, parts[i]).rows
                                         ELSE \A i \in DOMAIN parts : row \in Reads(rows, parts[i]).rows}

LEMMA SepWords ==
    ASSUME NEW w \in {"AND", "OR"}
    PROVE  w \in Keywords /\ Word(w) \in Token /\ Word(w).t = w /\ w \notin Brackets
BY FreeKeyword, SidesTexts DEF Keywords, Word

LEMMA JoinedSides ==
    ASSUME NEW w \in {"AND", "OR"}, NEW parts \in Seq(Free({"OR"}))
    PROVE  Joined(parts, w) \in Sides(w)
<1>1. CASE w = "AND"
  <2>1. Joined(parts, w) \in Free({"OR"})
    BY <1>1, SepWords, FreeJoined
  <2> QED
    BY <1>1, <2>1 DEF Sides
<1>2. CASE w = "OR"
  <2>1. \A i \in DOMAIN parts : parts[i] \in Free({})
    BY FreeFewer
  <2>2. parts \in Seq(Free({}))
    BY <2>1
  <2>3. Joined(parts, w) \in Free({})
    BY <1>2, <2>2, SepWords, FreeJoined
  <2> QED
    BY <1>2, <2>3 DEF Sides, Free
<1> QED
  BY <1>1, <1>2

LEMMA ReadsJoined ==
    ASSUME NEW rows, NEW w \in {"AND", "OR"}
    PROVE  \A parts \in Seq(Free({"OR"})) : parts # <<>> => ReadsTogether(rows, w, parts)
<1> DEFINE P == {parts \in Seq(Free({"OR"})) : parts # <<>> => ReadsTogether(rows, w, parts)}
<1>1. <<>> \in P
  OBVIOUS
<1>2. ASSUME NEW parts \in Seq(Free({"OR"})), NEW x \in Free({"OR"}), parts \in P
      PROVE  Append(parts, x) \in P
  <2>1. /\ Append(parts, x) \in Seq(Free({"OR"})) /\ Len(parts) \in Nat
        /\ DOMAIN parts = 1..Len(parts) /\ DOMAIN Append(parts, x) = 1..(Len(parts) + 1)
        /\ \A i \in 1..Len(parts) : Append(parts, x)[i] = parts[i]
        /\ Append(parts, x)[Len(parts) + 1] = x
    OBVIOUS
  <2>2. parts \in Seq(Seq(Token)) /\ x \in Seq(Token) /\ \A i \in 1..Len(parts) : parts[i] \in Seq(Token)
    BY FreeSequences
  <2>3. w \in Keywords
    BY SepWords
  <2>4. Reads(rows, x) \in Answers(rows)
    BY <2>2, ReadsParts
  <2>5. CASE parts = <<>>
    <3>1. Append(parts, x) = <<x>> /\ DOMAIN <<x>> = 1..1 /\ <<x>>[1] = x
      BY <2>5
    <3>2. Joined(<<x>>, w) = x
      BY <2>2, <2>3, JoinedMore
    <3>3. Reads(rows, x).rows \subseteq rows
      BY <2>4 DEF Answers
    <3>4. ReadsTogether(rows, w, <<x>>)
      BY <3>1, <3>2, <3>3 DEF ReadsTogether
    <3> QED
      BY <2>1, <3>1, <3>4
  <2>6. CASE parts # <<>>
    <3>1. ReadsTogether(rows, w, parts)
      BY <1>2, <2>6
    <3> PICK s : s = Joined(parts, w)
      OBVIOUS
    <3>2. Joined(Append(parts, x), w) = (s \o <<Word(w)>>) \o x
      BY <2>2, <2>3, <2>6, JoinedMore
    <3>3. s \in Sides(w) /\ x \in Sides(w)
      BY JoinedSides, SidesTexts
    <3>4. ReadApart(rows, w, s, Word(w), x)
      BY <3>3, SepWords, ReadsCut
    <3>5. Reads(rows, Joined(Append(parts, x), w)) = Joining(w, Reads(rows, s), Reads(rows, x))
      BY ONLY <3>2, <3>4 DEF ReadApart
    <3>6. Reads(rows, s) \in Answers(rows)
      BY <3>3, SidesTexts, ReadsParts
    <3> PICK all : all = Append(parts, x)
      OBVIOUS
    <3> PICK n : n = Len(parts)
      OBVIOUS
    <3>7. /\ n \in Nat /\ DOMAIN parts = 1..n /\ DOMAIN all = 1..(n + 1)
          /\ \A i \in 1..n : all[i] = parts[i]
          /\ all[n + 1] = x
      BY <2>1
    <3>8. ReadsTogether(rows, w, all)
      <4> PICK one : one = Reads(rows, s)
        OBVIOUS
      <4> PICK other : other = Reads(rows, x)
        OBVIOUS
      <4>1. one \in Answers(rows) /\ other \in Answers(rows)
        BY <2>4, <3>6
      <4>2. Reads(rows, Joined(all, w)) = Joining(w, one, other)
        BY <3>5
      <4>3. /\ one.ok <=> \A i \in 1..n : Reads(rows, all[i]).ok
            /\ one.ok => one.rows =
                 {row \in rows : IF w = "OR" THEN \E i \in 1..n : row \in Reads(rows, all[i]).rows
                                         ELSE \A i \in 1..n : row \in Reads(rows, all[i]).rows}
        BY <3>1, <3>7 DEF ReadsTogether
      <4>4. Reads(rows, all[n + 1]) = other
        BY <3>7
      <4>5. \A i : i \in 1..(n + 1) <=> (i \in 1..n \/ i = n + 1)
        BY <3>7
      <4>6. PICK both : both = Joining(w, one, other)
        OBVIOUS
      <4>7. /\ both.ok <=> (one.ok /\ other.ok)
            /\ both.ok => both.rows = IF w = "OR" THEN one.rows \cup other.rows
                                                  ELSE one.rows \cap other.rows
        BY ONLY <4>1, <4>6 DEF Joining, Answers, Readable, Unreadable
      <4>8. both.ok <=> \A i \in 1..(n + 1) : Reads(rows, all[i]).ok
        BY ONLY <4>3, <4>4, <4>5, <4>7
      <4>9. ASSUME both.ok
            PROVE  both.rows =
                 {row \in rows : IF w = "OR" THEN \E i \in 1..(n + 1) : row \in Reads(rows, all[i]).rows
                                         ELSE \A i \in 1..(n + 1) : row \in Reads(rows, all[i]).rows}
        <5>1. other.rows \subseteq rows
          BY <4>1 DEF Answers
        <5>2. CASE w = "OR"
          <6>1. one.rows = {row \in rows : \E i \in 1..n : row \in Reads(rows, all[i]).rows}
                /\ both.rows = one.rows \cup other.rows
            BY ONLY <4>3, <4>7, <4>9, <5>2
          <6> QED
            BY ONLY <4>4, <4>5, <5>1, <5>2, <6>1
        <5>3. CASE w # "OR"
          <6>1. one.rows = {row \in rows : \A i \in 1..n : row \in Reads(rows, all[i]).rows}
                /\ both.rows = one.rows \cap other.rows
            BY ONLY <4>3, <4>7, <4>9, <5>3
          <6> QED
            BY ONLY <4>4, <4>5, <5>1, <5>3, <6>1
        <5> QED
          BY <5>2, <5>3
      <4> QED
        BY ONLY <4>2, <4>6, <4>8, <4>9, <3>7 DEF ReadsTogether
    <3> QED
      BY <2>1, <3>8
  <2> QED
    BY <2>5, <2>6
<1> HIDE DEF P
<1>3. \A parts \in Seq(Free({"OR"})) : parts \in P
  BY <1>1, <1>2, FromPrefixes
<1> QED
  BY <1>3 DEF P

\* A text no AND and no OR divides is read as one unit.
LEMMA ReadsUnit ==
    ASSUME NEW rows, NEW text \in Free({"AND", "OR"}), text # <<>>
    PROVE  Reads(rows, text) = ReadUnit(rows, Reader(rows), text)
<1>1. text \in Free({"OR"}) /\ text \in Free({"AND"})
  BY FreeFewer
<1>2. text \in Seq(Token) /\ At(text, {"OR"}) = {} /\ At(text, {"AND"}) = {}
  BY <1>1, FreeText
<1>3. Reads(rows, text) = Read(rows, Reader(rows), text)
  BY <1>2, ReadsParts
<1> QED
  BY <1>2, <1>3 DEF Read

\* A text between brackets is one unit.
UnitAround(open, text, close, u) ==
    /\ u \in Free({"AND", "OR"}) /\ u \in Seq(Token) /\ u # <<>> /\ u[1].t = open
    /\ Enclosed(u, open, close) /\ SubSeq(u, 2, Len(u) - 1) = text /\ Len(u) = Len(text) + 2
    /\ \A W : open \notin W => u \in Free(W)

LEMMA BracketedUnit ==
    ASSUME NEW text \in Closed, NEW open \in Opening, NEW close \in Closing
    PROVE  UnitAround(open, text, close, Bracketed(open, text, close))
<1> PICK u : u = Bracketed(open, text, close)
  OBVIOUS
<1>1. /\ u \in Closed /\ Len(u) = Len(text) + 2 /\ Len(text) \in Nat
      /\ u[1] = Word(open) /\ u[Len(u)] = Word(close)
      /\ \A i \in 1..Len(text) : u[i + 1] = text[i]
      /\ \A i \in 1..(Len(u) - 1) : Depths(u)[i] > 0
      /\ \A W : open \notin W => u \in Free(W)
  <2>1. Around(open, text, close, u)
    BY BracketedText
  <2> QED
    BY ONLY <2>1 DEF Around
<1>2. open \notin {"AND", "OR"}
  BY DEF Opening
<1>3. u \in Free({"AND", "OR"}) /\ u \in Seq(Token) /\ text \in Seq(Token)
  BY <1>1, <1>2 DEF Closed
<1>4. u # <<>> /\ u[1].t = open /\ u[Len(u)].t = close
  BY <1>1, <1>3, BracketWords DEF Brackets
<1>5. Enclosed(u, open, close)
  BY <1>1, <1>4 DEF Enclosed
<1>6. SubSeq(u, 2, Len(u) - 1) = text
  BY ONLY <1>1, <1>3
<1>7. UnitAround(open, text, close, u)
  BY <1>1, <1>3, <1>4, <1>5, <1>6 DEF UnitAround
<1> QED
  BY ONLY <1>7, u = Bracketed(open, text, close)

LEMMA ReadsBracketed ==
    ASSUME NEW rows, NEW text \in Closed
    PROVE  Reads(rows, Bracketed("(", text, ")")) = Reads(rows, text)
<1> PICK u : u = Bracketed("(", text, ")")
  OBVIOUS
<1>1. /\ u \in Free({"AND", "OR"}) /\ u # <<>> /\ u[1].t = "(" /\ Enclosed(u, "(", ")")
      /\ SubSeq(u, 2, Len(u) - 1) = text
  <2>1. UnitAround("(", text, ")", u)
    BY BracketedUnit DEF Opening, Closing
  <2> QED
    BY ONLY <2>1 DEF UnitAround
<1>2. Reads(rows, u) = ReadUnit(rows, Reader(rows), u)
  BY <1>1, ReadsUnit
<1>3. ReadUnit(rows, Reader(rows), u) = Reader(rows)[text]
  BY <1>1 DEF ReadUnit
<1>4. Reader(rows)[text] = Reads(rows, text)
  BY DEF Reader, Closed
<1> QED
  BY <1>2, <1>3, <1>4

LEMMA ReadsNot ==
    ASSUME NEW rows, NEW text \in Closed, NEW u, u = <<Word("NOT")>> \o Bracketed("(", text, ")")
    PROVE  /\ Reads(rows, u) = Opposite(rows, Reads(rows, text))
           /\ \A W : W \cap {"NOT", "("} = {} => u \in Free(W)
<1> PICK inside : inside = Bracketed("(", text, ")")
  OBVIOUS
<1>1. inside \in Free({"AND", "OR"}) /\ inside \in Seq(Token) /\ \A W : "(" \notin W => inside \in Free(W)
  <2>1. UnitAround("(", text, ")", inside)
    BY BracketedUnit DEF Opening, Closing
  <2> QED
    BY ONLY <2>1 DEF UnitAround
<1>2. Word("NOT") \in Token /\ Word("NOT").t = "NOT"
  <2>1. "NOT" \in Keywords /\ "NOT" \notin Brackets /\ "NOT" \notin {}
    BY DEF Keywords, Brackets, Opening, Closing
  <2>2. Word("NOT") \in Token
    BY ONLY <2>1, FreeKeyword
  <2> QED
    BY <2>2 DEF Word
<1>3. u = <<Word("NOT")>> \o inside
  OBVIOUS
<1>4. ASSUME NEW W, W \cap {"NOT", "("} = {} PROVE u \in Free(W)
  <2>1. <<Word("NOT")>> \in Free(W)
    BY <1>4, FreeKeyword DEF Keywords, Brackets, Opening, Closing
  <2>2. inside \in Free(W)
    BY <1>1, <1>4
  <2> QED
    BY <1>3, <2>1, <2>2, FreeConcat
<1>5. u \in Free({"AND", "OR"})
  BY <1>4
<1>6. u # <<>> /\ u[1].t = "NOT" /\ Tail(u) = inside
  BY ONLY <1>1, <1>2, <1>3
<1>7. Reads(rows, u) = ReadUnit(rows, Reader(rows), u)
  BY <1>5, <1>6, ReadsUnit
<1>8. ReadUnit(rows, Reader(rows), u) = Opposite(rows, Reader(rows)[inside])
  BY <1>6 DEF ReadUnit
<1>9. Reader(rows)[inside] = Reads(rows, inside)
  BY <1>1 DEF Reader
<1>10. Reads(rows, inside) = Reads(rows, text)
  BY ReadsBracketed
<1> QED
  BY <1>4, <1>7, <1>8, <1>9, <1>10

\* A predicate with its placeholders or its subquery after it.
LEMMA ReadsPredicate ==
    ASSUME NEW rows, NEW name \in Words, NEW rest \in Free({"AND", "OR"}), NEW u, u = <<Pred(name)>> \o rest,
           (\A i \in 1..Len(rest) : rest[i].t = "?") \/ Enclosed(rest, "[", "]")
    PROVE  Reads(rows, u) = Readable({row \in rows : name \in row})
<1>1. Pred(name) \in Token /\ Pred(name).t = "pred" /\ Pred(name).v = name
  BY WordsAssumption DEF Pred, Token, Keywords
<1>2. <<Pred(name)>> \in Free({"AND", "OR"})
  BY <1>1, FreeToken DEF Brackets, Opening, Closing
<1>3. u \in Free({"AND", "OR"}) /\ rest \in Seq(Token)
  BY <1>2, FreeConcat, FreeText
<1>4. /\ u # <<>> /\ u[1] = Pred(name) /\ Tail(u) = rest /\ Len(u) = Len(rest) + 1 /\ Len(rest) \in Nat
      /\ \A i \in 1..Len(rest) : u[i + 1] = rest[i]
  <2>1. PICK tok : tok = Pred(name) /\ tok \in Token
    BY <1>1
  <2>2. u = <<tok>> \o rest
    BY <2>1
  <2>3. u # <<>> /\ u[1] = tok /\ Tail(u) = rest
    BY ONLY <1>3, <2>1, <2>2
  <2>4. Len(u) = Len(rest) + 1 /\ Len(rest) \in Nat /\ \A i \in 1..Len(rest) : u[i + 1] = rest[i]
    BY ONLY <1>3, <2>1, <2>2
  <2> QED
    BY <2>1, <2>3, <2>4
<1>5. u[1].t = "pred" /\ u[1].v = name
  BY <1>1, <1>4
<1>6. Reads(rows, u) = ReadUnit(rows, Reader(rows), u)
  BY <1>3, <1>4, ReadsUnit
<1>7. ~Enclosed(u, "(", ")") /\ u # <<Word("1=1")>> /\ u # <<Word("1=0")>>
  <2>1. ~Enclosed(u, "(", ")")
    BY ONLY <1>5 DEF Enclosed
  <2>2. ASSUME NEW w \in {"1=1", "1=0"} PROVE u # <<Word(w)>>
    <3>1. <<Word(w)>>[1].t = w
      BY DEF Word
    <3> QED
      BY <1>5, <3>1
  <2> QED
    BY <2>1, <2>2
<1>8. IsPredicate(u)
  <2>1. CASE \A i \in 1..Len(rest) : rest[i].t = "?"
    <3>1. \A i \in 2..Len(u) : u[i].t = "?"
      <4> SUFFICES ASSUME NEW i \in 2..Len(u) PROVE u[i].t = "?"
        OBVIOUS
      <4>1. i - 1 \in 1..Len(rest) /\ u[(i - 1) + 1] = rest[i - 1] /\ (i - 1) + 1 = i
        BY ONLY <1>4
      <4> QED
        BY <2>1, <4>1
    <3> QED
      BY <1>5, <3>1 DEF IsPredicate
  <2>2. CASE Enclosed(rest, "[", "]")
    BY <1>4, <1>5, <2>2 DEF IsPredicate
  <2> QED
    BY <2>1, <2>2
<1> QED
  BY <1>5, <1>6, <1>7, <1>8 DEF ReadUnit

LEMMA ReadsWords ==
    ASSUME NEW rows
    PROVE  /\ Reads(rows, <<Word("1=1")>>) = Readable(rows)
           /\ Reads(rows, <<Word("1=0")>>) = Readable({})
           /\ Reads(rows, <<>>) = Unreadable
<1>1. ASSUME NEW w \in {"1=1", "1=0"}
      PROVE  Reads(rows, <<Word(w)>>) = IF w = "1=1" THEN Readable(rows) ELSE Readable({})
  <2>1. <<Word(w)>> \in Free({"AND", "OR"})
    BY FreeKeyword DEF Keywords, Brackets, Opening, Closing
  <2>2. Reads(rows, <<Word(w)>>) = ReadUnit(rows, Reader(rows), <<Word(w)>>)
    BY <2>1, ReadsUnit
  <2>3. <<Word(w)>>[1] = Word(w) /\ Word(w).t = w /\ Len(<<Word(w)>>) = 1
    BY DEF Word
  <2>4. ~Enclosed(<<Word(w)>>, "(", ")")
    BY <2>3 DEF Enclosed
  <2>5. <<Word("1=0")>> # <<Word("1=1")>>
    BY DEF Word
  <2> QED
    BY <2>2, <2>3, <2>4, <2>5 DEF ReadUnit
<1>2. <<>> \in Seq(Token)
  OBVIOUS
<1>3. Reads(rows, <<>>) = Unreadable
  BY <1>2, ReadsParts DEF Read
<1> QED
  BY <1>1, <1>3

-----------------------------------------------------------------------------
(* Trees are texts whose brackets pair                                     *)

\* Each part is the text of its node, from some placeholder on.
PartsOf(parts, r, nodes) ==
    /\ parts \in Seq(Seq(Token)) /\ Len(nodes) \in Nat /\ Len(parts) = Len(nodes)
    /\ DOMAIN parts = 1..Len(nodes)
    /\ \A i \in 1..Len(nodes) : \E q \in Nat : parts[i] = r[<<nodes[i], q>>].text

LEMMA ChainParts ==
    ASSUME NEW d \in Dialects, NEW T, NEW nodes \in Seq(T), NEW p \in Nat, NEW r,
           RendersRight(d, r, T)
    PROVE  PartsOf(Chain(r, nodes, p).parts, r, nodes)
<1>1. PICK F \in [0..Len(nodes) -> Accumulated] :
              Links(F, r, nodes, p) /\ Chain(r, nodes, p) = F[Len(nodes)]
  BY ChainLinks
<1>2. PICK n : n = Len(nodes) /\ n \in Nat
  BY LenProperties
<1> DEFINE Each(k) == /\ Len(F[k].parts) = k
                      /\ \A i \in 1..k : \E q \in Nat : F[k].parts[i] = r[<<nodes[i], q>>].text
           P == {k \in 0..n : Each(k)}
<1>3. \A k \in 0..n : F[k].parts \in Seq(Seq(Token)) /\ F[k].next \in Nat
  BY <1>1, <1>2 DEF Accumulated
<1>4. 0 \in P
  <2>1. F[0].parts = <<>>
    BY <1>1 DEF Links
  <2> QED
    BY <1>2, <2>1
<1>5. ASSUME NEW k \in 0..(n - 1), k \in P PROVE k + 1 \in P
  <2>1. k \in 0..n /\ k + 1 \in 1..n /\ k + 1 \in 0..n /\ (k + 1) - 1 = k
    BY <1>2
  <2>2. F[k + 1].parts = Append(F[k].parts, r[<<nodes[k + 1], F[k].next>>].text)
    <3>1. PICK acc : acc = F[k]
      OBVIOUS
    <3>2. PICK g : g = r[<<nodes[k + 1], acc.next>>]
      OBVIOUS
    <3>3. F[k + 1] = [parts |-> Append(acc.parts, g.text), args |-> acc.args \o g.args, next |-> g.next]
      BY <1>1, <1>2, <2>1, <3>1, <3>2 DEF Links
    <3> QED
      BY <3>1, <3>2, <3>3
  <2> PICK old, new, x, q : /\ old = F[k].parts /\ new = F[k + 1].parts
                            /\ x = r[<<nodes[k + 1], F[k].next>>].text /\ q = F[k].next
    OBVIOUS
  <2>3. /\ old \in Seq(Seq(Token)) /\ Len(old) = k /\ new = Append(old, x)
        /\ \A i \in 1..k : \E m \in Nat : old[i] = r[<<nodes[i], m>>].text
    BY <1>3, <1>5, <2>1, <2>2
  <2>4. Len(new) = k + 1 /\ (\A i \in 1..k : new[i] = old[i]) /\ new[k + 1] = x
    BY <2>1, <2>3
  <2>5. q \in Nat /\ x = r[<<nodes[k + 1], q>>].text
    BY <1>3, <2>1
  <2>6. ASSUME NEW i \in 1..(k + 1) PROVE \E m \in Nat : new[i] = r[<<nodes[i], m>>].text
    <3>1. CASE i = k + 1
      BY <2>4, <2>5, <3>1
    <3>2. CASE i # k + 1
      <4>1. i \in 1..k
        BY <2>1, <3>2
      <4> QED
        BY <2>3, <2>4, <4>1
    <3> QED
      BY <3>1, <3>2
  <2> QED
    BY <2>1, <2>4, <2>6
<1> HIDE DEF P
<1>6. n \in P
  <2>1. n \in 0..n
    BY <1>2
  <2>2. \A k \in 0..n : k \in P
    BY <1>2, <1>4, <1>5, Upwards
  <2> QED
    BY <2>1, <2>2
<1>7. Len(F[n].parts) = n /\ F[n].parts \in Seq(Seq(Token))
      /\ \A i \in 1..n : \E q \in Nat : F[n].parts[i] = r[<<nodes[i], q>>].text
  BY <1>2, <1>3, <1>6 DEF P
<1>8. DOMAIN F[n].parts = 1..n
  BY <1>7
<1> QED
  BY <1>1, <1>2, <1>7, <1>8 DEF PartsOf

\* A condition or an expression has brackets that pair, no OR outside of them
\* and no clause of its own.
Outside == ClauseWords \cup {"OR"}

RendersFree(r, trees) == \A n \in trees, p \in Nat : r[<<n, p>>].text \in Free(Outside)

LEMMA OutsideWords ==
    /\ {"?", "pred", "name", "[", "(", ",", "AND", "NOT", "AS", "OVER", "CASE", "WHEN", "THEN", "ELSE",
        "END", "1=1", "1=0", "literal"} \cap Outside = {}
    /\ Brackets \cap Outside = {}
    /\ ClauseWords \subseteq Keywords /\ ClauseWords \cap Brackets = {} /\ Outside \subseteq Keywords
    /\ "?" \notin Brackets /\ "pred" \notin Brackets /\ "name" \notin Brackets
BY DEF Outside, ClauseWords, Brackets, Opening, Closing, Keywords

LEMMA FreeParts ==
    ASSUME NEW T, NEW nodes \in Seq(T), NEW r, RendersFree(r, T), NEW parts, PartsOf(parts, r, nodes)
    PROVE  parts \in Seq(Free(Outside))
<1>1. \A i \in 1..Len(nodes) : nodes[i] \in T
  OBVIOUS
<1>2. \A i \in 1..Len(parts) : parts[i] \in Free(Outside)
  BY <1>1 DEF PartsOf, RendersFree
<1> QED
  BY <1>2 DEF PartsOf

\* Names and predicates.
LEMMA FreeNames ==
    ASSUME NEW name \in Words
    PROVE  /\ <<Name(name)>> \in Free(Outside) /\ <<Pred(name)>> \in Free(Outside)
           /\ <<Name(name)>> \in Free(ClauseWords)
<1>1. Name(name) \in Token /\ Pred(name) \in Token
  BY NamesUnmarked, PredsUnmarked
<1>2. Name(name).t = "name" /\ Pred(name).t = "pred"
  BY DEF Name, Pred
<1>3. <<Name(name)>> \in Free(Outside) /\ <<Pred(name)>> \in Free(Outside)
  BY <1>1, <1>2, OutsideWords, FreeToken
<1> QED
  BY <1>3, FreeFewer DEF Outside

\* A placeholder with another number.
LEMMA AlikeReplaced ==
    ASSUME NEW text \in Seq(Token), NEW k \in 1..Len(text), text[k].t = "?", NEW x \in Nat
    PROVE  Alike([text EXCEPT ![k] = Renumbered(text[k], x)], text)
<1>1. PICK tok : tok = Renumbered(text[k], x)
  OBVIOUS
<1>2. tok \in Token /\ tok.t = "?"
  <2>1. text[k] \in Token
    OBVIOUS
  <2> QED
    BY <1>1, <2>1, RenumberedToken
<1>3. PICK new : new = [text EXCEPT ![k] = tok]
  OBVIOUS
<1>4. new \in Seq(Token) /\ Len(new) = Len(text)
      /\ \A i \in 1..Len(text) : new[i] = IF i = k THEN tok ELSE text[i]
  BY <1>2, <1>3, ExceptSeq
<1>5. Alike(new, text)
  BY <1>2, <1>4 DEF Alike
<1> QED
  BY <1>1, <1>3, <1>5

LEMMA AlikeTrans ==
    ASSUME NEW s, NEW t, NEW u, Alike(s, t), Alike(t, u)
    PROVE  Alike(s, u)
BY DEF Alike

LEMMA AlikeSelf ==
    ASSUME NEW s \in Seq(Token)
    PROVE  Alike(s, s)
BY DEF Alike

LEMMA AlikeReplace ==
    ASSUME NEW text \in Seq(Token), NEW i \in Nat, NEW new \in Nat
    PROVE  Alike(ReplaceMark(text, i, new), text)
<1> DEFINE found == {k \in DOMAIN text : text[k].t = "?" /\ BeginsWith(text[k].n, i)}
<1>1. CASE found = {}
  <2>1. ReplaceMark(text, i, new) = text
    BY <1>1 DEF ReplaceMark
  <2> QED
    BY <2>1, AlikeSelf
<1>2. CASE found # {}
  <2>1. DOMAIN text = 1..Len(text) /\ Len(text) \in Nat
    OBVIOUS
  <2>2. found \subseteq Nat
    BY <2>1
  <2>3. PICK k : k = Min(found)
    OBVIOUS
  <2>4. k \in found
    <3> HIDE DEF found
    <3> QED
      BY <1>2, <2>2, <2>3, LeastOf
  <2>5. k \in 1..Len(text) /\ text[k] \in Token /\ text[k].t = "?" /\ BeginsWith(text[k].n, i)
    BY <2>1, <2>4
  <2>6. text[k].n \in Nat
    BY <2>5 DEF Token
  <2>7. Spliced(text[k].n, i, new) \in Nat
    BY <2>5, <2>6, SplicedMark
  <2>8. ReplaceMark(text, i, new) = [text EXCEPT ![k] = Renumbered(text[k], Spliced(text[k].n, i, new))]
    BY <1>2, <2>3, <2>5 DEF ReplaceMark, Renumbered
  <2>9. PICK x \in Nat : x = Spliced(text[k].n, i, new)
    BY <2>7
  <2>10. Alike([text EXCEPT ![k] = Renumbered(text[k], x)], text)
    BY <2>5, AlikeReplaced
  <2> QED
    BY <2>8, <2>9, <2>10
<1> QED
  BY <1>1, <1>2

\* renumberParameters changes nothing but the numbers of placeholders.
LEMMA AlikeRenumbered ==
    ASSUME NEW d \in Dialects, NEW text \in Seq(Token), NEW n \in Nat, NEW p \in Nat
    PROVE  Alike(renumberParameters(d, text, n, p), text)
<1>1. CASE ~d.numbered
  <2>1. renumberParameters(d, text, n, p) = text
    BY <1>1 DEF renumberParameters
  <2> QED
    BY <2>1, AlikeSelf
<1>2. CASE d.numbered
  <2>1. PICK F \in [0..n -> Seq(Token)] :
            Replacing(F, text, n, p) /\ renumberParameters(d, text, n, p) = F[n]
    BY <1>2, RenumberSteps
  <2> DEFINE P == {k \in 0..n : Alike(F[k], text)}
  <2>2. 0 \in P
    <3>1. F[0] = text
      BY <2>1 DEF Replacing
    <3> QED
      BY <3>1, AlikeSelf
  <2>3. ASSUME NEW k \in 0..(n - 1), k \in P PROVE k + 1 \in P
    <3>1. k + 1 \in 1..n /\ (k + 1) - 1 = k /\ k \in 0..n /\ n - k \in Nat /\ p + (n - k) - 1 \in Nat
          /\ n - (k + 1) + 1 = n - k
      OBVIOUS
    <3>2. F[k + 1] = ReplaceMark(F[k], n - k, p + (n - k) - 1)
      BY <2>1, <3>1 DEF Replacing
    <3>3. PICK t \in Seq(Token), i \in Nat, x \in Nat : t = F[k] /\ i = n - k /\ x = p + (n - k) - 1
      BY <3>1
    <3>4. Alike(ReplaceMark(t, i, x), t)
      BY AlikeReplace
    <3>5. Alike(F[k + 1], F[k])
      BY <3>2, <3>3, <3>4
    <3>6. Alike(F[k], text)
      BY <2>3
    <3> QED
      BY <3>1, <3>5, <3>6, AlikeTrans
  <2> HIDE DEF P
  <2>4. n \in P
    <3>1. \A k \in 0..n : k \in P
      BY <2>2, <2>3, Upwards
    <3>2. n \in 0..n
      OBVIOUS
    <3> QED
      BY <3>1, <3>2
  <2> QED
    BY <2>1, <2>4 DEF P
<1> QED
  BY <1>1, <1>2

\* So does Raw.
LEMMA AlikeRaw ==
    ASSUME NEW d \in Dialects, NEW p \in Nat, NEW n,
           n.text \in Seq(Token), n.vals \in Seq(BoundValues),
           Marks(n.text) = Numbered([numbered |-> FALSE], n.vals, 1)
    PROVE  Alike(RawSQL(d, n, p).text, n.text)
<1>1. PICK text \in Seq(Token), vals \in Seq(BoundValues) : text = n.text /\ vals = n.vals
  OBVIOUS
<1> DEFINE tok(k) == IF text[k].t = "?" /\ Place(text, k) <= Len(vals) /\ d.numbered
                     THEN [text[k] EXCEPT !.n = p + Place(text, k) - 1] ELSE text[k]
<1>2. PICK new : new = RawSQL(d, n, p).text
  OBVIOUS
<1>3. new \in Seq(Token)
  <2>1. Right(d, RawSQL(d, n, p), p)
    BY RawRight
  <2> QED
    BY <1>2, <2>1, RightNext
<1>4. new = [k \in DOMAIN text |-> tok(k)]
  BY <1>1, <1>2 DEF RawSQL, Fragment
<1>5. DOMAIN text = 1..Len(text) /\ Len(text) \in Nat /\ \A k \in 1..Len(text) : text[k] \in Token
  OBVIOUS
<1>6. Len(new) = Len(text)
  <2>1. DOMAIN new = 1..Len(text)
    BY <1>4, <1>5
  <2> QED
    BY <1>3, <1>5, <2>1, LenProperties
<1>7. ASSUME NEW k \in 1..Len(text) PROVE new[k] = text[k] \/ (new[k].t = "?" /\ text[k].t = "?")
  <2>1. new[k] = tok(k)
    BY <1>4, <1>5
  <2>2. CASE text[k].t = "?" /\ Place(text, k) <= Len(vals) /\ d.numbered
    <3>1. PICK z : z = text[k]
      OBVIOUS
    <3>2. z \in Token /\ z.t = "?"
      BY <1>5, <2>2, <3>1
    <3>3. [z EXCEPT !.n = p + Place(text, k) - 1].t = "?"
      BY <3>2 DEF Token
    <3> QED
      BY <2>1, <2>2, <3>1, <3>3
  <2>3. CASE ~(text[k].t = "?" /\ Place(text, k) <= Len(vals) /\ d.numbered)
    <3>1. tok(k) = text[k]
      BY <2>3
    <3> QED
      BY <2>1, <3>1
  <2> QED
    BY <2>2, <2>3
<1>8. Alike(new, text)
  BY <1>3, <1>6, <1>7 DEF Alike
<1> QED
  BY <1>1, <1>2, <1>8

LEMMA AlikeFree ==
    ASSUME NEW s, NEW t, Alike(s, t), NEW W
    PROVE  s \in Free(W) <=> t \in Free(W)
BY AlikeDepths DEF Free

-----------------------------------------------------------------------------
(* What every tree writes stands among others                              *)

\* What a clause says after its word.
ClauseBody(r, c, p) ==
    Joined([i \in DOMAIN c.plain |-> <<Name(c.plain[i])>>] \o Chain(r, c.nodes, p).parts, c.sep)

LEMMA ClauseFree ==
    ASSUME NEW d \in Dialects, NEW T, NEW r, RendersRight(d, r, T), RendersFree(r, T),
           NEW c \in ClausesOver(T), NEW p \in Nat
    PROVE  ClauseBody(r, c, p) \in Free(ClauseWords)
<1>1. /\ c.nodes \in Seq(T) /\ c.plain \in Seq(Words) /\ c.sep \in Separators
      /\ DOMAIN c.plain = 1..Len(c.plain) /\ Len(c.plain) \in Nat
      /\ \A i \in 1..Len(c.plain) : c.plain[i] \in Words
  BY DEF ClausesOver
<1>2. PICK names : names = [i \in DOMAIN c.plain |-> <<Name(c.plain[i])>>]
  OBVIOUS
<1>3. names \in Seq(Free(ClauseWords))
  <2>1. \A i \in 1..Len(c.plain) : <<Name(c.plain[i])>> \in Free(ClauseWords)
    BY <1>1, FreeNames
  <2>2. names \in [1..Len(c.plain) -> Free(ClauseWords)]
    BY <1>1, <1>2, <2>1
  <2> QED
    BY <1>1, <2>2, AsSeq
<1>4. PICK parts : parts = Chain(r, c.nodes, p).parts
  OBVIOUS
<1>5. parts \in Seq(Free(Outside))
  <2>1. PartsOf(parts, r, c.nodes)
    BY <1>1, <1>4, ChainParts
  <2> QED
    BY <1>1, <2>1, FreeParts
<1>6. parts \in Seq(Free(ClauseWords))
  <2>1. \A x \in Free(Outside) : x \in Free(ClauseWords)
    BY FreeFewer DEF Outside
  <2>2. PICK A, B : A = Free(Outside) /\ B = Free(ClauseWords)
    OBVIOUS
  <2>3. \A s \in Seq(A) : s \in Seq(B)
    BY <2>1, <2>2
  <2> QED
    BY <1>5, <2>2, <2>3
<1>7. names \o parts \in Seq(Free(ClauseWords))
  BY <1>3, <1>6, ConcatProperties
<1>8. c.sep \in Keywords /\ c.sep \notin Brackets /\ c.sep \notin ClauseWords
  BY <1>1, SelectKeywords DEF Separators, Brackets, Opening, Closing, ClauseWords
<1>9. Joined(names \o parts, c.sep) \in Free(ClauseWords)
  BY <1>7, <1>8, FreeJoined
<1> QED
  BY Zenon, <1>2, <1>4, <1>9 DEF ClauseBody

LEMMA ClauseText ==
    ASSUME NEW T, NEW r, NEW c \in ClausesOver(T), NEW acc
    PROVE  /\ ClauseAfter(r, c, acc).text = <<Word(c.word)>> \o ClauseBody(r, c, acc.next)
           /\ c.word \in ClauseWords /\ <<Word(c.word)>> \in Closed /\ <<Word(c.word)>> \in Seq(Token)
<1>1. c.word \in SelectWords
  BY DEF ClausesOver
<1>2. c.word \in ClauseWords
  BY <1>1 DEF SelectWords, JoinWords, ClauseWords
<1>3. <<Word(c.word)>> \in Free({}) /\ c.word \in Keywords /\ c.word \notin Brackets
  <2>1. c.word \in Keywords /\ c.word \notin Brackets
    BY <1>2, OutsideWords
  <2> QED
    BY <2>1, FreeKeyword
<1>4. <<Word(c.word)>> \in Closed /\ <<Word(c.word)>> \in Seq(Token)
  BY <1>3, FreeText
<1>5. PICK f : f = Chain(r, c.nodes, acc.next)
  OBVIOUS
<1>6. ClauseAfter(r, c, acc).text = <<Word(c.word)>> \o ClauseBody(r, c, acc.next)
  <2>1. ClauseAfter(r, c, acc) = Fragment(<<Word(c.word)>> \o ClauseBody(r, c, acc.next), f.args, f.next)
    BY Zenon, <1>5 DEF ClauseAfter, ClauseSQL, ClauseBody
  <2> QED
    BY <2>1 DEF Fragment
<1> QED
  BY <1>2, <1>4, <1>6

\* A statement, clause after clause.
LEMMA WrittenClosed ==
    ASSUME NEW d \in Dialects, NEW T, NEW r, RendersRight(d, r, T), RendersFree(r, T),
           NEW clauses_ \in Seq(ClausesOver(T)), NEW F \in [0..Len(clauses_) -> Fragments],
           Written(F, r, clauses_)
    PROVE  \A i \in 0..Len(clauses_) : F[i].text \in Closed
<1>1. PICK n \in Nat : n = Len(clauses_)
  BY LenProperties
<1>2. \A i \in 1..n : clauses_[i] \in ClausesOver(T)
  BY <1>1
<1> DEFINE P == {i \in 0..n : F[i].text \in Closed}
<1>3. 0 \in P
  <2>1. F[0].text = <<>>
    BY DEF Written, Fragment
  <2>2. <<>> \in Closed
    BY FreeNothing DEF Free
  <2> QED
    BY <1>1, <2>1, <2>2
<1>4. ASSUME NEW i \in 0..(n - 1), i \in P PROVE i + 1 \in P
  <2>1. i + 1 \in 1..n /\ (i + 1) - 1 = i /\ i \in 0..n /\ i + 1 \in 0..n
    BY <1>1
  <2>2. PICK acc \in Fragments : acc = F[i]
    BY <1>1, <2>1
  <2>3. PICK c \in ClausesOver(T) : c = clauses_[i + 1]
    BY <1>2, <2>1
  <2>4. PICK g : g = ClauseAfter(r, c, acc)
    OBVIOUS
  <2>5. F[i + 1] = Fragment(acc.text \o g.text, acc.args \o g.args, g.next)
    BY <1>1, <2>1, <2>2, <2>3, <2>4 DEF Written
  <2>6. g.text \in Closed
    <3>1. acc.next \in Nat
      BY DEF Fragments
    <3>2. ClauseBody(r, c, acc.next) \in Free(ClauseWords)
      BY <3>1, ClauseFree
    <3>3. ClauseBody(r, c, acc.next) \in Closed
      BY <3>2, FreeText
    <3> QED
      BY <2>4, <3>3, ClauseText, ClosedConcat
  <2>7. acc.text \in Closed
    BY <1>4, <2>2
  <2>8. acc.text \o g.text \in Closed
    BY <2>6, <2>7, ClosedConcat
  <2>9. F[i + 1].text = acc.text \o g.text
    <3>1. PICK x, t, a, k : x = F[i + 1] /\ t = acc.text \o g.text /\ a = acc.args \o g.args /\ k = g.next
      OBVIOUS
    <3>2. x = [text |-> t, args |-> a, next |-> k]
      BY Zenon, <2>5, <3>1 DEF Fragment
    <3>3. x.text = t
      BY ONLY <3>2
    <3> QED
      BY Zenon, <3>1, <3>3
  <2> QED
    BY <2>1, <2>8, <2>9
<1>5. \A i \in 0..n : i \in P
  <2> HIDE DEF P
  <2> QED
    BY <1>1, <1>3, <1>4, Upwards
<1> QED
  BY <1>1, <1>5

LEMMA SelectClosed ==
    ASSUME NEW d \in Dialects, NEW T, NEW r, RendersRight(d, r, T), RendersFree(r, T),
           NEW C, NEW q \in BuildersOver(T, C)
    PROVE  SelectBuild(r, q).text \in Closed
<1>1. PICK F \in [0..Len(Clauses(q)) -> Fragments] :
              /\ Written(F, r, Clauses(q))
              /\ SelectBuild(r, q) =
                    IF q.err \/ HasInvalid(Looked(q)) THEN Refused
                    ELSE [err |-> FALSE, text |-> F[Len(Clauses(q))].text,
                          args |-> F[Len(Clauses(q))].args]
  BY SelectLinks
<1>2. PICK clauses_ \in Seq(ClausesOver(T)) : clauses_ = Clauses(q)
  BY ClausesType
<1>3. \A i \in 0..Len(clauses_) : F[i].text \in Closed
  BY <1>1, <1>2, WrittenClosed
<1>4. Len(clauses_) \in 0..Len(clauses_)
  BY LenProperties
<1>5. F[Len(clauses_)].text \in Closed /\ <<>> \in Closed
  BY <1>3, <1>4, FreeNothing, FreeText
<1>6. PICK text : text = F[Len(clauses_)].text
  OBVIOUS
<1>7. SelectBuild(r, q).text = IF q.err \/ HasInvalid(Looked(q)) THEN <<>> ELSE text
  BY <1>1, <1>2, <1>6 DEF Refused
<1> QED
  BY <1>5, <1>6, <1>7

LEMMA ComposedFree ==
    ASSUME NEW n, n.name \in Words, NEW parts \in Seq(Free(Outside)),
           n.k \in {"and", "or", "not", "call", "as", "over", "case"},
           n.k \in {"not", "as"} => Len(parts) = 1,
           n.k = "over" => Len(parts) # 0
    PROVE  Composed(n, parts) \in Free(Outside)
<1>1. /\ DOMAIN parts = 1..Len(parts) /\ Len(parts) \in Nat
      /\ \A i \in 1..Len(parts) : parts[i] \in Free(Outside)
  OBVIOUS
<1>2. \A w \in {",", "AND", "NOT", "AS", "OVER", "END", "CASE", "WHEN", "THEN", "ELSE", "1=1"} :
          /\ w \in Keywords /\ w \notin Brackets /\ w \notin Outside /\ <<Word(w)>> \in Free(Outside)
  <2> TAKE w \in {",", "AND", "NOT", "AS", "OVER", "END", "CASE", "WHEN", "THEN", "ELSE", "1=1"}
  <2>1. w \in Keywords /\ w \notin Brackets /\ w \notin Outside
    BY BracketKeywords, OutsideWords DEF Brackets, Opening, Closing
  <2> QED
    BY <2>1, FreeKeyword
<1>3. \A text \in Closed : /\ Bracketed("(", text, ")") \in Free(Outside)
                           /\ Bracketed("[", text, "]") \in Free(Outside)
  <2> TAKE text \in Closed
  <2>1. "(" \in Opening /\ ")" \in Closing /\ "[" \in Opening /\ "]" \in Closing
    BY DEF Opening, Closing
  <2>2. /\ UnitAround("(", text, ")", Bracketed("(", text, ")"))
        /\ UnitAround("[", text, "]", Bracketed("[", text, "]"))
    BY <2>1, BracketedUnit
  <2>3. "(" \notin Outside /\ "[" \notin Outside
    BY OutsideWords
  <2> QED
    BY <2>2, <2>3 DEF UnitAround
<1>4. \A text \in Free(Outside) : text \in Closed
  BY FreeText
<1>5. CASE n.k \in {"and", "or"} /\ parts = <<>>
  <2>1. PICK x : x = <<Word("1=1")>>
    OBVIOUS
  <2>2. Composed(n, parts) = CASE parts = <<>> -> x
                               [] Len(parts) = 1 -> parts[1]
                               [] OTHER -> Bracketed("(", Joined(parts, IF n.k = "and" THEN "AND" ELSE "OR"), ")")
    BY <1>5, <2>1 DEF Composed
  <2>3. Len(parts) # 1
    BY <1>5
  <2>4. Composed(n, parts) = x
    BY <1>5, <2>2, <2>3
  <2> QED
    BY <1>2, <2>1, <2>4
<1>6. CASE n.k \in {"and", "or"} /\ parts # <<>> /\ Len(parts) = 1
  <2>1. Composed(n, parts) = parts[1]
    BY <1>6 DEF Composed
  <2> QED
    BY <1>1, <1>6, <2>1
<1>7. CASE n.k \in {"and", "or"} /\ parts # <<>> /\ Len(parts) # 1
  <2>1. PICK w \in {"AND", "OR"} : w = IF n.k = "and" THEN "AND" ELSE "OR"
    OBVIOUS
  <2>2. Composed(n, parts) = Bracketed("(", Joined(parts, w), ")")
    BY <1>7, <2>1 DEF Composed
  <2>3. parts \in Seq(Free({"OR"}))
    <3>1. \A x \in Free(Outside) : x \in Free({"OR"})
      BY FreeFewer DEF Outside
    <3>2. PICK A, B : A = Free(Outside) /\ B = Free({"OR"})
      OBVIOUS
    <3>3. \A s \in Seq(A) : s \in Seq(B)
      BY <3>1, <3>2
    <3> QED
      BY <3>2, <3>3
  <2>4. Joined(parts, w) \in Closed
    BY <2>3, JoinedSides, SidesTexts
  <2> QED
    BY <1>3, <2>2, <2>4
<1>8. CASE n.k = "not"
  <2>1. Composed(n, parts) = <<Word("NOT")>> \o Bracketed("(", parts[1], ")")
    BY <1>8 DEF Composed
  <2>2. parts[1] \in Closed
    BY <1>1, <1>4, <1>8
  <2> QED
    BY <1>2, <1>3, <2>1, <2>2, FreeConcat
<1>9. CASE n.k = "call"
  <2>1. Joined(parts, ",") \in Closed
    BY <1>2, FreeJoined, FreeText
  <2>2. Composed(n, parts) = <<Name(n.name)>> \o Bracketed("[", Joined(parts, ","), "]")
    BY <1>9 DEF Composed
  <2> QED
    BY <1>3, <2>1, <2>2, FreeNames, FreeConcat
<1>10. CASE n.k = "as"
  <2>1. Composed(n, parts) = parts[1] \o <<Word("AS"), Name(n.name)>>
    BY <1>10 DEF Composed
  <2>2. <<Word("AS")>> \o <<Name(n.name)>> \in Free(Outside)
    BY <1>2, FreeNames, FreeConcat
  <2>3. PICK x \in Token, y \in Token : x = Word("AS") /\ y = Name(n.name)
    BY BracketKeywords, KeywordsUnmarked, NamesUnmarked
  <2>4. <<x>> \o <<y>> = <<x, y>>
    BY Pair
  <2>5. <<x, y>> \in Free(Outside)
    BY <2>2, <2>3, <2>4
  <2>6. parts[1] \in Free(Outside)
    BY <1>1, <1>10
  <2> QED
    BY <2>1, <2>3, <2>5, <2>6, FreeConcat
<1>11. CASE n.k = "over"
  <2>1. parts[1] \in Free(Outside)
    BY <1>1, <1>11
  <2>2. Tail(parts) \in Seq(Free(Outside))
    <3>1. parts # <<>>
      BY <1>11
    <3> QED
      BY <3>1, HeadTailProperties
  <2>3. PICK rest : rest = Tail(parts)
    OBVIOUS
  <2>4. Joined(rest, ",") \in Closed
    BY <1>2, <2>2, <2>3, FreeJoined, FreeText
  <2>5. parts[1] \o <<Word("OVER")>> \in Free(Outside)
    BY <1>2, <2>1, FreeConcat
  <2>6. Composed(n, parts) = parts[1] \o <<Word("OVER")>> \o Bracketed("[", Joined(rest, ","), "]")
    BY <1>11, <2>3 DEF Composed
  <2> QED
    BY <1>3, <2>4, <2>5, <2>6, FreeConcat
<1>12. CASE n.k = "case"
  <2>1. PICK worded : worded = [i \in DOMAIN parts |-> <<Word(CaseWord(n, i))>> \o parts[i]]
    OBVIOUS
  <2>2. ASSUME NEW i \in 1..Len(parts)
        PROVE  <<Word(CaseWord(n, i))>> \o parts[i] \in Free(Outside)
    <3>1. CaseWord(n, i) \in {"CASE", "THEN", "ELSE", "WHEN"}
      BY DEF CaseWord
    <3>2. <<Word(CaseWord(n, i))>> \in Free(Outside)
      BY <1>2, <3>1
    <3> QED
      BY <1>1, <3>2, FreeConcat
  <2>3. worded \in [1..Len(parts) -> Free(Outside)]
    BY <1>1, <2>1, <2>2
  <2>4. worded \in Seq(Free(Outside))
    BY <1>1, <2>3, AsSeq
  <2>5. FlattenSeq(worded) \in Free(Outside)
    BY <2>4, FreeFlatten
  <2>6. Composed(n, parts) = FlattenSeq(worded) \o <<Word("END")>>
    BY <1>12, <2>1 DEF Composed
  <2> QED
    BY <1>2, <2>5, <2>6, FreeConcat
<1> QED
  BY <1>5, <1>6, <1>7, <1>8, <1>9, <1>10, <1>11, <1>12

LEMMA SubqueryFree ==
    ASSUME NEW d \in Dialects, NEW n, n.name \in Words, NEW p \in Nat, NEW inner, Sound(d, inner),
           inner.text \in Closed
    PROVE  SubquerySQL(d, n, p, inner).text \in Free(Outside)
<1>1. CASE inner.err
  <2>1. <<Word("1=0")>> \in Free(Outside)
    <3>1. "1=0" \in Keywords /\ "1=0" \notin Brackets /\ "1=0" \notin Outside
      BY BracketKeywords, OutsideWords DEF Brackets, Opening, Closing
    <3> QED
      BY <3>1, FreeKeyword
  <2>2. SubquerySQL(d, n, p, inner).text = <<Word("1=0")>>
    BY <1>1 DEF SubquerySQL, Fragment
  <2> QED
    BY <2>1, <2>2
<1>2. CASE ~inner.err
  <2>1. PICK text \in Closed, args \in Seq(BoundValues) : text = inner.text /\ args = inner.args
    BY DEF Sound
  <2>2. PICK new : new = renumberParameters(d, text, Len(args), p)
    OBVIOUS
  <2>3. Alike(new, text)
    <3>1. text \in Seq(Token) /\ Len(args) \in Nat
      BY LenProperties DEF Closed
    <3> QED
      BY <2>2, <3>1, AlikeRenumbered
  <2>4. new \in Closed
    BY <2>3, AlikeDepths
  <2>5. Bracketed("[", new, "]") \in Free(Outside)
    <3>1. "[" \in Opening /\ "]" \in Closing /\ "[" \notin Outside
      BY OutsideWords DEF Opening, Closing
    <3> QED
      BY <2>4, <3>1, BracketedUnit DEF UnitAround
  <2>6. SubquerySQL(d, n, p, inner).text = <<Pred(n.name)>> \o Bracketed("[", new, "]")
    <3>1. SubquerySQL(d, n, p, inner)
            = Fragment(<<Pred(n.name)>> \o Bracketed("[", new, "]"), args, p + Len(args))
      BY <1>2, <2>1, <2>2 DEF SubquerySQL
    <3> QED
      BY <3>1 DEF Fragment
  <2> QED
    BY <2>5, <2>6, FreeNames, FreeConcat
<1> QED
  BY <1>1, <1>2

\* A text given to Raw divides nothing around it.
LEMMA RawFree ==
    ASSUME NEW T, NEW n \in NodesOver(T), n.k = "raw", NEW d \in Dialects, NEW p \in Nat
    PROVE  /\ Alike(RawSQL(d, n, p).text, n.text) /\ n.text \in Free(Outside)
           /\ RawSQL(d, n, p).text \in Free(Outside)
           /\ n.text \in RawTexts
<1>1. n.text \in Seq(Token) /\ n.vals \in Seq(BoundValues) /\ n.text \in RawTexts
  BY DEF NodesOver, Fits
<1>2. Marks(n.text) = Numbered([numbered |-> FALSE], n.vals, 1)
  BY NodeParts
<1>3. Alike(RawSQL(d, n, p).text, n.text)
  BY <1>1, <1>2, AlikeRaw
<1>4. n.text \in Free(Outside)
  <2>1. PICK text : text = n.text
    OBVIOUS
  <2>2. /\ \A i \in 0..Len(text) : Depths(text)[i] >= 0
        /\ Depths(text)[Len(text)] = 0
        /\ At(text, ClauseWords \cup {"OR"}) = {}
    BY <1>1, <2>1, ReadingAssumption
  <2>3. At(text, Outside) = {}
    BY <2>2 DEF Outside
  <2>4. text \in Closed
    BY <1>1, <2>1, <2>2 DEF Closed
  <2> QED
    BY <2>1, <2>3, <2>4 DEF Free
<1> QED
  BY <1>1, <1>3, <1>4, AlikeFree

LEMMA NodeFree ==
    ASSUME NEW d \in Dialects, NEW T, NEW r, RendersRight(d, r, T), RendersFree(r, T),
           NEW n \in NodesOver(T), NEW p \in Nat
    PROVE  NodeSQL(d, r, n, p).text \in Free(Outside)
<1>1. /\ n.k \in Kinds /\ n.name \in Words /\ n.vals \in Seq(BoundValues) /\ n.subs \in Seq(T)
      /\ n.query \in Seq(BuildersOver(T, {<<>>}))
  BY NodeParts
<1>2. CASE n.k = "invalid" \/ n.k = "column"
  <2>1. <<>> \in Free(Outside) /\ <<Name(n.name)>> \in Free(Outside)
    BY <1>1, FreeNames, FreeNothing
  <2>2. NodeSQL(d, r, n, p) \in {Fragment(<<>>, <<>>, p), Fragment(<<Name(n.name)>>, <<>>, p)}
    BY <1>2 DEF NodeSQL
  <2>3. \A text, args, next : Fragment(text, args, next).text = text
    BY DEF Fragment
  <2> QED
    BY <2>1, <2>2, <2>3
<1>3. CASE n.k = "pred" \/ n.k \in {"in", "not_in"}
  <2>1. PICK w \in {"1=0", "1=1"} : w = IF n.k = "in" THEN "1=0" ELSE "1=1"
    OBVIOUS
  <2>2. NodeSQL(d, r, n, p) \in {Values(d, <<Pred(n.name)>>, n.vals, p), Fragment(<<Word(w)>>, <<>>, p)}
    BY <1>3, <2>1 DEF NodeSQL
  <2>3. <<Word(w)>> \in Free(Outside)
    <3>1. w \in Keywords /\ w \notin Brackets /\ w \notin Outside
      BY BracketKeywords, OutsideWords DEF Brackets, Opening, Closing
    <3> QED
      BY <3>1, FreeKeyword
  <2>4. <<Pred(n.name)>> \o Numbered(d, n.vals, p) \in Free(Outside)
    <3>1. "?" \notin Outside
      BY OutsideWords
    <3> QED
      BY <1>1, <3>1, FreeMarks, FreeNames, FreeConcat
  <2>5. Values(d, <<Pred(n.name)>>, n.vals, p).text = <<Pred(n.name)>> \o Numbered(d, n.vals, p)
    BY DEF Values, Fragment
  <2>6. Fragment(<<Word(w)>>, <<>>, p).text = <<Word(w)>>
    BY DEF Fragment
  <2> QED
    BY <2>2, <2>3, <2>4, <2>5, <2>6
<1>4. CASE n.k = "raw"
  <2>1. NodeSQL(d, r, n, p) = RawSQL(d, n, p)
    BY <1>4 DEF NodeSQL
  <2> QED
    BY <1>4, <2>1, RawFree
<1>5. CASE n.k = "subquery"
  <2>1. NodeSQL(d, r, n, p) = SubquerySQL(d, n, p, SelectBuild(r, n.query[1]))
    BY <1>5 DEF NodeSQL
  <2>2. n.query[1] \in BuildersOver(T, {<<>>})
    BY <1>1, <1>5, NodeParts
  <2>3. Sound(d, SelectBuild(r, n.query[1])) /\ SelectBuild(r, n.query[1]).text \in Closed
    BY <2>2, SelectNumbers, SelectClosed
  <2> QED
    BY <1>1, <2>1, <2>3, SubqueryFree
<1>6. CASE n.k \in {"and", "or", "not", "call", "as", "over", "case"}
  <2>1. PICK c : c = Chain(r, n.subs, p)
    OBVIOUS
  <2>2. PICK parts : parts = c.parts
    OBVIOUS
  <2>3. PartsOf(parts, r, n.subs)
    BY <1>1, <2>1, <2>2, ChainParts
  <2>4. parts \in Seq(Free(Outside)) /\ Len(parts) = Len(n.subs)
    <3>1. parts \in Seq(Free(Outside))
      BY <1>1, <2>3, FreeParts
    <3> QED
      BY <2>3, <3>1 DEF PartsOf
  <2>5. (n.k \in {"not", "as"} => Len(parts) = 1) /\ (n.k = "over" => Len(parts) # 0)
    <3>1. n.k \in {"not", "as"} => Len(n.subs) = 1
      BY NodeParts
    <3>2. n.k = "over" => n.subs # <<>>
      BY NodeParts
    <3>3. n.subs # <<>> => Len(n.subs) # 0
      BY <1>1, EmptySeq
    <3> QED
      BY <2>4, <3>1, <3>2, <3>3
  <2>6. Composed(n, parts) \in Free(Outside)
    BY <1>1, <1>6, <2>4, <2>5, ComposedFree
  <2>7. NodeSQL(d, r, n, p) = Fragment(Composed(n, parts), c.args, c.next)
    BY <1>6, <2>1, <2>2 DEF NodeSQL
  <2>8. NodeSQL(d, r, n, p).text = Composed(n, parts)
    BY <2>7 DEF Fragment
  <2> QED
    BY <2>6, <2>8
<1> QED
  BY <1>1, <1>2, <1>3, <1>4, <1>5, <1>6 DEF Kinds

\* The text of every tree, of any shape and height, can stand between others.
LEMMA TreesFree ==
    ASSUME NEW d \in Dialects
    PROVE  \A h \in 0..MaxHeight : RendersFree(Rendering(d)[h], Trees[h])
<1>1. MaxHeight \in Nat
  BY WordsAssumption
<1> DEFINE P == {h \in 0..MaxHeight : RendersFree(Rendering(d)[h], Trees[h])}
<1>2. 0 \in P
  BY <1>1, TreesHeights DEF RendersFree
<1>3. ASSUME NEW h \in 0..(MaxHeight - 1), h \in P PROVE h + 1 \in P
  <2>1. PICK r, T : r = Rendering(d)[h] /\ T = Trees[h]
    OBVIOUS
  <2>2. RendersRight(d, r, T) /\ RendersFree(r, T)
    <3>1. h \in 0..MaxHeight
      BY <1>1
    <3> QED
      BY <1>3, <2>1, <3>1, TreesRight
  <2>3. Trees[h + 1] = NodesOver(T)
    BY <2>1, TreesHeights
  <2>4. PICK s : s = [at \in NodesOver(T) \X Nat |-> NodeSQL(d, r, at[1], at[2])]
    OBVIOUS
  <2>5. Rendering(d)[h + 1] = s
    <3>1. Rendering(d)[h + 1]
            = [at \in Trees[h + 1] \X Nat |-> NodeSQL(d, Rendering(d)[h], at[1], at[2])]
      BY Zenon, RenderingHeights
    <3> QED
      BY Zenon, <2>1, <2>3, <2>4, <3>1
  <2>6. ASSUME NEW n \in NodesOver(T), NEW p \in Nat PROVE s[<<n, p>>].text \in Free(Outside)
    <3>1. s[<<n, p>>] = NodeSQL(d, r, n, p)
      <4>1. <<n, p>> \in NodesOver(T) \X Nat /\ <<n, p>>[1] = n /\ <<n, p>>[2] = p
        OBVIOUS
      <4> QED
        BY <2>4, <4>1
    <3> QED
      BY <2>2, <3>1, NodeFree
  <2>7. h + 1 \in 0..MaxHeight
    BY <1>1
  <2>8. RendersFree(s, NodesOver(T))
    BY <2>6 DEF RendersFree
  <2> QED
    BY <2>3, <2>5, <2>7, <2>8
<1>4. \A h \in 0..MaxHeight : h \in P
  <2> HIDE DEF P
  <2> QED
    BY <1>1, <1>2, <1>3, Upwards
<1> QED
  BY <1>4

-----------------------------------------------------------------------------
(* What a condition means is what its text is read as                      *)

SensesUpTo(rows, m, f) ==
    f = [h \in 0..m |-> IF h = 0 THEN <<>> ELSE [n \in Trees[h] |-> Sense(rows, f[h - 1], n)]]

LEMMA SensesHeights ==
    ASSUME NEW rows
    PROVE  \A h \in 0..(MaxHeight - 1) :
              Senses(rows)[h + 1] = [n \in Trees[h + 1] |-> Sense(rows, Senses(rows)[h], n)]
<1>1. MaxHeight \in Nat
  BY WordsAssumption
<1> DEFINE P == {m \in 0..MaxHeight : \E f : SensesUpTo(rows, m, f)}
           level(h, below) == [n \in Trees[h] |-> Sense(rows, below, n)]
<1>2. 0 \in P
  <2>1. PICK f : f = [h \in 0..0 |-> <<>>]
    OBVIOUS
  <2>2. SensesUpTo(rows, 0, f)
    <3>1. \A h \in 0..0 : h = 0
      OBVIOUS
    <3> QED
      BY <2>1, <3>1 DEF SensesUpTo
  <2> QED
    BY <1>1, <2>2
<1>3. ASSUME NEW m \in 0..(MaxHeight - 1), m \in P PROVE m + 1 \in P
  <2>1. PICK f : SensesUpTo(rows, m, f)
    BY <1>3
  <2>2. m \in Nat /\ m + 1 \in 0..MaxHeight /\ \A h \in 0..(m + 1) : h \in 0..m \/ h = m + 1
    BY <1>1
  <2>3. \A h \in 0..m : f[h] = IF h = 0 THEN <<>> ELSE level(h, f[h - 1])
    BY <2>1 DEF SensesUpTo
  <2> HIDE DEF level
  <2>4. PICK g : g = [h \in 0..(m + 1) |-> IF h = m + 1 THEN level(m + 1, f[m]) ELSE f[h]]
    OBVIOUS
  <2>5. \A h \in 0..m : h \in 0..(m + 1) /\ h # m + 1 /\ g[h] = f[h]
    BY <2>2, <2>4
  <2>6. g[m + 1] = level(m + 1, g[m])
    BY <2>2, <2>4, <2>5
  <2>7. \A h \in 0..(m + 1) : g[h] = IF h = 0 THEN <<>> ELSE level(h, g[h - 1])
    <3> TAKE h \in 0..(m + 1)
    <3>1. CASE h = m + 1
      <4>1. h # 0 /\ h - 1 = m
        BY <2>2, <3>1
      <4> QED
        BY <2>6, <3>1, <4>1
    <3>2. CASE h \in 0..m
      <4>1. h # 0 => h - 1 \in 0..m
        BY <2>2, <3>2
      <4>2. h # 0 => g[h - 1] = f[h - 1]
        BY <2>5, <4>1
      <4> QED
        BY <2>3, <2>5, <3>2, <4>2
    <3> QED
      BY <2>2, <3>1, <3>2
  <2>8. g = [h \in 0..(m + 1) |-> IF h = 0 THEN <<>> ELSE level(h, g[h - 1])]
    BY <2>4, <2>7
  <2>9. SensesUpTo(rows, m + 1, g)
    BY Zenon, <2>8 DEF SensesUpTo, level
  <2> QED
    BY <2>2, <2>9
<1>4. \E f : SensesUpTo(rows, MaxHeight, f)
  <2>1. \A m \in 0..MaxHeight : m \in P
    <3> HIDE DEF P
    <3> QED
      BY <1>1, <1>2, <1>3, Upwards
  <2> QED
    BY <1>1, <2>1
<1>5. SensesUpTo(rows, MaxHeight, Senses(rows))
  <2>1. Senses(rows) = CHOOSE f : SensesUpTo(rows, MaxHeight, f)
    BY Zenon DEF Senses, SensesUpTo
  <2> QED
    BY <1>4, <2>1
<1>6. \A h \in 0..MaxHeight : Senses(rows)[h] = IF h = 0 THEN <<>> ELSE level(h, Senses(rows)[h - 1])
  BY <1>5 DEF SensesUpTo
<1>7. \A h \in 0..(MaxHeight - 1) : h + 1 \in 0..MaxHeight /\ h + 1 # 0 /\ (h + 1) - 1 = h
  BY <1>1
<1>8. \A h \in 0..(MaxHeight - 1) : Senses(rows)[h + 1] = level(h + 1, Senses(rows)[h])
  <2> HIDE DEF level
  <2> QED
    BY <1>6, <1>7
<1> QED
  BY <1>8

Joiners == {"and", "or", "not"}
SenseParts(below, n) == IF n.k \in Joiners THEN [i \in DOMAIN n.subs |-> below[n.subs[i]]] ELSE <<>>

IsSense(rows, n, parts, sense) ==
    /\ sense.condition <=> /\ n.k \in Joiners \cup {"invalid", "pred", "in", "not_in", "raw", "subquery"}
                           /\ \A i \in DOMAIN parts : parts[i].condition
    /\ sense.hollow <=> (n.k = "invalid" \/ \E i \in DOMAIN parts : parts[i].hollow)
    /\ sense.rows = Meaning(rows, n, parts)

LEMMA SenseFields ==
    ASSUME NEW rows, NEW below, NEW n
    PROVE  IsSense(rows, n, SenseParts(below, n), Sense(rows, below, n))
<1>1. PICK parts : parts = SenseParts(below, n)
  OBVIOUS
<1>2. PICK sense : sense = Sense(rows, below, n)
  OBVIOUS
<1>3. /\ sense.condition <=> /\ n.k \in Joiners \cup {"invalid", "pred", "in", "not_in", "raw", "subquery"}
                             /\ \A i \in DOMAIN parts : parts[i].condition
      /\ sense.hollow <=> (n.k = "invalid" \/ \E i \in DOMAIN parts : parts[i].hollow)
      /\ sense.rows = Meaning(rows, n, parts)
  BY <1>1, <1>2 DEF Sense, SenseParts, Joiners
<1> QED
  BY Zenon, <1>1, <1>2, <1>3 DEF IsSense

LEMMA SenseLocal ==
    ASSUME NEW rows, NEW T, NEW n \in NodesOver(T), NEW f, NEW g, \A x \in T : f[x] = g[x]
    PROVE  Sense(rows, f, n) = Sense(rows, g, n)
<1>1. n.subs \in Seq(T)
  BY NodeParts
<1>2. \A i \in DOMAIN n.subs : n.subs[i] \in T
  BY <1>1
<1>3. SenseParts(f, n) = SenseParts(g, n)
  <2>1. [i \in DOMAIN n.subs |-> f[n.subs[i]]] = [i \in DOMAIN n.subs |-> g[n.subs[i]]]
    BY <1>2
  <2> QED
    BY Zenon, <2>1 DEF SenseParts
<1> DEFINE With_(parts) ==
        [condition |-> /\ n.k \in {"and", "or", "not"}
                             \/ n.k \in {"invalid", "pred", "in", "not_in", "raw", "subquery"}
                       /\ \A i \in DOMAIN parts : parts[i].condition,
         hollow    |-> n.k = "invalid" \/ \E i \in DOMAIN parts : parts[i].hollow,
         preds     |-> (IF n.k \in {"pred", "in", "not_in", "subquery"} THEN {n.name} ELSE PredsIn(n.text))
                          \cup UNION {parts[i].preds : i \in DOMAIN parts},
         rows      |-> Meaning(rows, n, parts)]
<1>4. Sense(rows, f, n) = With_(SenseParts(f, n)) /\ Sense(rows, g, n) = With_(SenseParts(g, n))
  BY Zenon DEF Sense, SenseParts, Joiners
<1> HIDE DEF With_
<1> QED
  BY Zenon, <1>3, <1>4

\* What a tree means does not depend on the height it is taken to have.
LEMMA SensesSettle ==
    ASSUME NEW rows
    PROVE  \A h \in 0..(MaxHeight - 1) : \A n \in Trees[h] : Senses(rows)[h + 1][n] = Senses(rows)[h][n]
<1>1. MaxHeight \in Nat /\ MaxHeight - 1 \in Nat
  BY WordsAssumption, BuildersAssumption
<1>2. PICK last \in Nat : last = MaxHeight - 1
  BY <1>1
<1> DEFINE P == {h \in 0..last : \A n \in Trees[h] : Senses(rows)[h + 1][n] = Senses(rows)[h][n]}
<1>3. 0 \in P
  BY <1>2, TreesHeights
<1>4. ASSUME NEW h \in 0..(last - 1), h \in P PROVE h + 1 \in P
  <2>1. h \in 0..(MaxHeight - 1) /\ h + 1 \in 0..(MaxHeight - 1) /\ h + 1 \in 0..last
    BY <1>2
  <2>2. PICK f, g, k : f = Senses(rows)[h] /\ g = Senses(rows)[h + 1] /\ k = Senses(rows)[(h + 1) + 1]
    OBVIOUS
  <2>3. PICK T, S : T = Trees[h] /\ S = Trees[h + 1]
    OBVIOUS
  <2>4. S = NodesOver(T) /\ S \subseteq Trees[(h + 1) + 1]
    BY <2>1, <2>3, TreesHeights, TreesGrow
  <2>5. g = [n \in S |-> Sense(rows, f, n)]
    <3>1. Senses(rows)[h + 1] = [n \in Trees[h + 1] |-> Sense(rows, Senses(rows)[h], n)]
      BY Zenon, <2>1, SensesHeights
    <3> QED
      BY Zenon, <2>2, <2>3, <3>1
  <2>6. k = [n \in Trees[(h + 1) + 1] |-> Sense(rows, g, n)]
    <3>1. Senses(rows)[(h + 1) + 1] = [n \in Trees[(h + 1) + 1] |-> Sense(rows, Senses(rows)[h + 1], n)]
      BY Zenon, <2>1, SensesHeights
    <3> QED
      BY Zenon, <2>2, <3>1
  <2>7. \A x \in T : g[x] = f[x]
    BY <1>4, <2>2, <2>3
  <2>8. ASSUME NEW n \in S PROVE k[n] = g[n]
    <3>1. k[n] = Sense(rows, g, n) /\ g[n] = Sense(rows, f, n)
      BY <2>4, <2>5, <2>6
    <3>2. Sense(rows, g, n) = Sense(rows, f, n)
      BY <2>4, <2>7, SenseLocal
    <3> QED
      BY <3>1, <3>2
  <2> QED
    BY <2>1, <2>2, <2>3, <2>8
<1>5. \A h \in 0..last : h \in P
  <2> HIDE DEF P
  <2> QED
    BY <1>2, <1>3, <1>4, Upwards
<1> QED
  BY <1>2, <1>5

\* A text that means what a condition does: it does not parse where something
\* was refused, and is the rows of the condition where nothing was.
TextMeans(rows, text, sense, wanted) ==
    sense.condition =>
        /\ sense.hollow => ~Reads(rows, text).ok
        /\ ~sense.hollow => Reads(rows, text) = Readable(wanted)

MeansRight(rows, r, trees, first, senses) ==
    \A n \in trees, p \in Nat : TextMeans(rows, r[<<n, p>>].text, first[n], senses[n].rows)

LEMMA LeafMeans ==
    ASSUME NEW d \in Dialects, NEW T, NEW n \in NodesOver(T), NEW p \in Nat, NEW r, NEW rows,
           n.k \in {"invalid", "pred", "in", "not_in"}
    PROVE  /\ n.k = "invalid" => ~Reads(rows, NodeSQL(d, r, n, p).text).ok
           /\ n.k # "invalid" => Reads(rows, NodeSQL(d, r, n, p).text) = Readable(Meaning(rows, n, <<>>))
<1>1. n.name \in Words /\ n.vals \in Seq(BoundValues)
  BY NodeParts
<1>2. \A text, args, next : Fragment(text, args, next).text = text
  BY DEF Fragment
<1>3. CASE n.k = "invalid"
  <2>1. NodeSQL(d, r, n, p) = Fragment(<<>>, <<>>, p)
    BY <1>3 DEF NodeSQL
  <2> QED
    BY <1>2, <1>3, <2>1, ReadsWords, AnswerTypes DEF Unreadable
<1>4. CASE n.k = "pred" \/ (n.k \in {"in", "not_in"} /\ n.vals # <<>>)
  <2>1. NodeSQL(d, r, n, p) = Values(d, <<Pred(n.name)>>, n.vals, p)
    BY <1>4 DEF NodeSQL
  <2>2. PICK rest : rest = Numbered(d, n.vals, p)
    OBVIOUS
  <2>3. NodeSQL(d, r, n, p).text = <<Pred(n.name)>> \o rest
    BY <2>1, <2>2 DEF Values, Fragment
  <2>4. rest \in Free({"AND", "OR"})
    <3>1. "?" \notin {"AND", "OR"}
      OBVIOUS
    <3> QED
      BY <1>1, <2>2, <3>1, FreeMarks
  <2>5. \A i \in 1..Len(rest) : rest[i].t = "?"
    BY <1>1, <2>2, NumberedMarks, LenProperties
  <2>6. Reads(rows, <<Pred(n.name)>> \o rest) = Readable({row \in rows : n.name \in row})
    <3>1. PICK name \in Words : name = n.name
      BY <1>1
    <3>2. PICK u : u = <<Pred(name)>> \o rest
      OBVIOUS
    <3>3. Reads(rows, u) = Readable({row \in rows : name \in row})
      BY ONLY <2>4, <2>5, <3>1, <3>2, ReadsPredicate
    <3> QED
      BY Zenon, <3>1, <3>2, <3>3
  <2>7. Meaning(rows, n, <<>>) = {row \in rows : n.name \in row}
    BY <1>4 DEF Meaning
  <2> QED
    BY <1>4, <2>3, <2>6, <2>7
<1>5. CASE n.k \in {"in", "not_in"} /\ n.vals = <<>>
  <2>1. PICK w : w = IF n.k = "in" THEN "1=0" ELSE "1=1"
    OBVIOUS
  <2>2. NodeSQL(d, r, n, p) = Fragment(<<Word(w)>>, <<>>, p)
    BY <1>5, <2>1 DEF NodeSQL
  <2>3. Meaning(rows, n, <<>>) = IF n.k = "in" THEN {} ELSE rows
    BY <1>5 DEF Meaning
  <2>4. NodeSQL(d, r, n, p).text = <<Word(w)>>
    BY <1>2, <2>2
  <2> QED
    BY <1>5, <2>1, <2>3, <2>4, ReadsWords
<1> QED
  BY <1>3, <1>4, <1>5

LEMMA RawMeans ==
    ASSUME NEW T, NEW n \in NodesOver(T), n.k = "raw", NEW d \in Dialects, NEW p \in Nat, NEW rows
    PROVE  Reads(rows, RawSQL(d, n, p).text) = Readable(Reads(rows, n.text).rows)
<1>1. PICK s, t : s = RawSQL(d, n, p).text /\ t = n.text
  OBVIOUS
<1>2. Alike(s, t) /\ t \in RawTexts
  BY <1>1, RawFree
<1>3. t \in Seq(Token) /\ Alike(t, t)
  BY <1>2, AlikeTokens, AlikeSelf
<1>4. Reads({}, t).ok
  BY <1>2, ReadingAssumption
<1>5. Reads(rows, t).ok
  <2>1. SameAnswer({}, rows, Reads({}, t), Reads(rows, t))
    BY <1>3, SameReading
  <2> QED
    BY <1>4, <2>1 DEF SameAnswer
<1>6. Reads(rows, s) = Reads(rows, t)
  <2>1. SameAnswer(rows, rows, Reads(rows, s), Reads(rows, t))
    BY <1>2, SameReading
  <2> QED
    BY <2>1 DEF SameAnswer
<1>7. Reads(rows, t) = Readable(Reads(rows, t).rows)
  <2>1. Reads(rows, t) \in Answers(rows)
    BY <1>3, ReadsParts
  <2> QED
    BY <1>5, <2>1, AnswerTypes
<1> QED
  BY <1>1, <1>6, <1>7

Holding(rows, name) == {row \in rows : name \in row}

LEMMA SubqueryMeans ==
    ASSUME NEW d \in Dialects, NEW n, n.name \in Words, NEW p \in Nat, NEW inner, Sound(d, inner),
           inner.text \in Closed, ~inner.err, NEW rows
    PROVE  Reads(rows, SubquerySQL(d, n, p, inner).text) = Readable(Holding(rows, n.name))
<1>1. PICK text \in Closed, args \in Seq(BoundValues) : text = inner.text /\ args = inner.args
  BY DEF Sound
<1>2. PICK new : new = renumberParameters(d, text, Len(args), p)
  OBVIOUS
<1>3. Alike(new, text)
  <2>1. text \in Seq(Token) /\ Len(args) \in Nat
    BY LenProperties DEF Closed
  <2> QED
    BY <1>2, <2>1, AlikeRenumbered
<1>4. new \in Closed
  BY <1>3, AlikeDepths
<1>5. PICK rest : rest = Bracketed("[", new, "]")
  OBVIOUS
<1>6. rest \in Free({"AND", "OR"}) /\ Enclosed(rest, "[", "]")
  <2>1. "[" \in Opening /\ "]" \in Closing
    BY DEF Opening, Closing
  <2> QED
    BY <1>4, <1>5, <2>1, BracketedUnit DEF UnitAround
<1>7. PICK name \in Words : name = n.name
  OBVIOUS
<1>8. PICK u : u = <<Pred(name)>> \o rest
  OBVIOUS
<1>9. Reads(rows, u) = Readable({row \in rows : name \in row})
  BY ONLY <1>6, <1>7, <1>8, ReadsPredicate
<1>10. SubquerySQL(d, n, p, inner).text = u
  <2>1. SubquerySQL(d, n, p, inner)
          = Fragment(<<Pred(n.name)>> \o Bracketed("[", new, "]"), args, p + Len(args))
    BY <1>1, <1>2 DEF SubquerySQL
  <2> QED
    BY <1>5, <1>7, <1>8, <2>1 DEF Fragment
<1> QED
  BY Zenon, <1>7, <1>9, <1>10 DEF Holding

\* The rows that what is joined lets through.
PartsMean(rows, parts, first, senses) ==
    /\ DOMAIN senses = 1..Len(parts) /\ (senses = <<>> <=> parts = <<>>)
    /\ \A i \in 1..Len(parts) : /\ TextMeans(rows, parts[i], first[i], senses[i].rows)
                                /\ first[i].condition

ComposedMeans(rows, n, parts, first, senses) ==
    /\ (\E i \in 1..Len(parts) : first[i].hollow) => ~Reads(rows, Composed(n, parts)).ok
    /\ (\A i \in 1..Len(parts) : ~first[i].hollow) =>
          Reads(rows, Composed(n, parts)) = Readable(Meaning(rows, n, senses))

LEMMA JoinedMeans ==
    ASSUME NEW rows, NEW n, n.k \in {"and", "or"}, NEW parts \in Seq(Free(Outside)),
           NEW first, NEW senses, PartsMean(rows, parts, first, senses)
    PROVE  ComposedMeans(rows, n, parts, first, senses)
<1> SUFFICES /\ (\E i \in 1..Len(parts) : first[i].hollow) => ~Reads(rows, Composed(n, parts)).ok
             /\ (\A i \in 1..Len(parts) : ~first[i].hollow) =>
                   Reads(rows, Composed(n, parts)) = Readable(Meaning(rows, n, senses))
  BY DEF ComposedMeans
<1>1. /\ DOMAIN parts = 1..Len(parts) /\ Len(parts) \in Nat
      /\ \A i \in 1..Len(parts) : parts[i] \in Free(Outside) /\ parts[i] \in Seq(Token)
  <2>1. \A text \in Free(Outside) : text \in Seq(Token)
    BY FreeText
  <2> QED
    BY <2>1
<1>2. /\ \A i \in 1..Len(parts) : first[i].hollow => ~Reads(rows, parts[i]).ok
      /\ \A i \in 1..Len(parts) : ~first[i].hollow =>
            Reads(rows, parts[i]) = Readable(senses[i].rows)
      /\ DOMAIN senses = 1..Len(parts) /\ (senses = <<>> <=> parts = <<>>)
  BY DEF TextMeans, PartsMean
<1>3. ASSUME NEW i \in 1..Len(parts)
      PROVE  /\ Reads(rows, parts[i]).rows \subseteq rows
             /\ Reads(rows, parts[i]) = Readable(senses[i].rows) =>
                   /\ Reads(rows, parts[i]).ok /\ Reads(rows, parts[i]).rows = senses[i].rows
  <2>1. PICK one \in Answers(rows) : one = Reads(rows, parts[i])
    BY <1>1, ReadsParts
  <2>2. one.rows \subseteq rows
    BY DEF Answers
  <2>3. \A x : Readable(x).ok /\ Readable(x).rows = x
    BY DEF Readable
  <2> QED
    BY <2>1, <2>2, <2>3
<1>4. PICK text : text = Composed(n, parts)
  OBVIOUS
<1>5. Meaning(rows, n, senses) =
         IF n.k = "and" THEN {row \in rows : \A i \in DOMAIN senses : row \in senses[i].rows}
         ELSE {row \in rows : senses = <<>> \/ \E i \in DOMAIN senses : row \in senses[i].rows}
  BY DEF Meaning
<1>6. CASE parts = <<>>
  <2>1. text = <<Word("1=1")>>
    <3>1. PICK x : x = <<Word("1=1")>>
      OBVIOUS
    <3>2. text = CASE parts = <<>> -> x
                   [] Len(parts) = 1 -> parts[1]
                   [] OTHER -> Bracketed("(", Joined(parts, IF n.k = "and" THEN "AND" ELSE "OR"), ")")
      BY <1>4, <3>1 DEF Composed
    <3>3. Len(parts) # 1
      BY <1>6
    <3> QED
      BY <1>6, <3>1, <3>2, <3>3
  <2>2. Reads(rows, text) = Readable(rows)
    BY <2>1, ReadsWords
  <2>3. Meaning(rows, n, senses) = rows
    BY <1>2, <1>5, <1>6
  <2>4. Len(parts) = 0
    BY <1>6
  <2> QED
    BY <1>4, <2>2, <2>3, <2>4
<1>7. CASE parts # <<>> /\ Len(parts) = 1
  <2>1. text = parts[1]
    BY <1>4, <1>7 DEF Composed
  <2>2. DOMAIN senses = 1..1 /\ senses # <<>> /\ 1 \in 1..1 /\ \A i \in 1..1 : i = 1
    BY <1>2, <1>7
  <2>3. Reads(rows, parts[1]) = Readable(senses[1].rows) => Meaning(rows, n, senses) = senses[1].rows
    <3>1. senses[1].rows \subseteq rows => Meaning(rows, n, senses) = senses[1].rows
      BY <1>5, <2>2
    <3>2. Reads(rows, parts[1]) = Readable(senses[1].rows) => senses[1].rows \subseteq rows
      BY <1>3, <1>7, <2>2
    <3> QED
      BY <3>1, <3>2
  <2> QED
    BY <1>2, <1>4, <1>7, <2>1, <2>2, <2>3
<1>8. CASE parts # <<>> /\ Len(parts) # 1
  <2>1. PICK w \in {"AND", "OR"} : w = IF n.k = "and" THEN "AND" ELSE "OR"
    OBVIOUS
  <2>2. parts \in Seq(Free({"OR"}))
    <3>1. \A x \in Free(Outside) : x \in Free({"OR"})
      BY FreeFewer DEF Outside
    <3>2. PICK A, B : A = Free(Outside) /\ B = Free({"OR"})
      OBVIOUS
    <3>3. \A s \in Seq(A) : s \in Seq(B)
      BY <3>1, <3>2
    <3> QED
      BY <3>2, <3>3
  <2>3. PICK inside \in Closed : inside = Joined(parts, w)
    BY <2>2, JoinedSides, SidesTexts
  <2>4. text = Bracketed("(", inside, ")")
    BY <1>4, <1>8, <2>1, <2>3 DEF Composed
  <2>5. Reads(rows, text) = Reads(rows, inside)
    BY <2>4, ReadsBracketed
  <2>6. ReadsTogether(rows, w, parts)
    BY <1>8, <2>2, ReadsJoined
  <2>7. /\ Reads(rows, inside).ok <=> \A i \in 1..Len(parts) : Reads(rows, parts[i]).ok
        /\ Reads(rows, inside).ok =>
              Reads(rows, inside).rows =
                 {row \in rows : IF w = "OR" THEN \E i \in 1..Len(parts) : row \in Reads(rows, parts[i]).rows
                                 ELSE \A i \in 1..Len(parts) : row \in Reads(rows, parts[i]).rows}
    BY <1>1, <2>3, <2>6 DEF ReadsTogether
  <2>8. Reads(rows, inside).ok => Reads(rows, inside) = Readable(Reads(rows, inside).rows)
    <3>1. inside \in Seq(Token)
      BY DEF Closed
    <3>2. Reads(rows, inside) \in Answers(rows)
      BY <3>1, ReadsParts
    <3> QED
      BY <3>2, AnswerTypes
  <2>9. ASSUME \A i \in 1..Len(parts) : ~first[i].hollow
        PROVE  Reads(rows, inside) = Readable(Meaning(rows, n, senses))
    <3>1. \A i \in 1..Len(parts) : Reads(rows, parts[i]).ok /\ Reads(rows, parts[i]).rows = senses[i].rows
      BY <1>2, <1>3, <2>9
    <3>2. Reads(rows, inside).rows = Meaning(rows, n, senses)
      <4>1. DOMAIN senses = 1..Len(parts) /\ senses # <<>>
        BY <1>2, <1>8
      <4>2. CASE n.k = "and"
        <5>1. Meaning(rows, n, senses) = {row \in rows : \A i \in 1..Len(parts) : row \in senses[i].rows}
          BY <1>5, <4>1, <4>2
        <5>2. Reads(rows, inside).rows
                = {row \in rows : \A i \in 1..Len(parts) : row \in Reads(rows, parts[i]).rows}
          BY <2>1, <2>7, <3>1, <4>2
        <5> QED
          BY <3>1, <5>1, <5>2
      <4>3. CASE n.k = "or"
        <5>1. Meaning(rows, n, senses) = {row \in rows : \E i \in 1..Len(parts) : row \in senses[i].rows}
          BY <1>5, <4>1, <4>3
        <5>2. Reads(rows, inside).rows
                = {row \in rows : \E i \in 1..Len(parts) : row \in Reads(rows, parts[i]).rows}
          BY <2>1, <2>7, <3>1, <4>3
        <5> QED
          BY <3>1, <5>1, <5>2
      <4> QED
        BY <4>2, <4>3
    <3> QED
      BY <2>7, <2>8, <3>1, <3>2
  <2> QED
    BY <1>2, <1>4, <2>5, <2>7, <2>9
<1> QED
  BY <1>6, <1>7, <1>8

LEMMA NotMeans ==
    ASSUME NEW rows, NEW n, n.k = "not", NEW parts \in Seq(Free(Outside)), Len(parts) = 1,
           NEW first, NEW senses, TextMeans(rows, parts[1], first[1], senses[1].rows), first[1].condition
    PROVE  /\ first[1].hollow => ~Reads(rows, Composed(n, parts)).ok
           /\ ~first[1].hollow =>
                 Reads(rows, Composed(n, parts)) = Readable(Meaning(rows, n, senses))
<1>1. PICK part \in Closed : part = parts[1]
  <2>1. parts[1] \in Free(Outside)
    OBVIOUS
  <2> QED
    BY <2>1, FreeText
<1>2. PICK u : u = <<Word("NOT")>> \o Bracketed("(", part, ")")
  OBVIOUS
<1>3. Composed(n, parts) = u
  BY <1>1, <1>2 DEF Composed
<1>4. Reads(rows, u) = Opposite(rows, Reads(rows, part))
  BY <1>2, ReadsNot
<1>5. Meaning(rows, n, senses) = rows \ senses[1].rows
  BY DEF Meaning
<1>6. \A x : Readable(x).ok /\ Readable(x).rows = x /\ ~Unreadable.ok
  BY DEF Readable, Unreadable
<1>7. /\ first[1].hollow => ~Reads(rows, part).ok
      /\ ~first[1].hollow => Reads(rows, part) = Readable(senses[1].rows)
  BY <1>1 DEF TextMeans
<1>8. /\ ~Reads(rows, part).ok => Reads(rows, u) = Unreadable
      /\ Reads(rows, part) = Readable(senses[1].rows) => Reads(rows, u) = Readable(rows \ senses[1].rows)
  BY <1>4, <1>6 DEF Opposite
<1> QED
  BY <1>3, <1>5, <1>6, <1>7, <1>8

LEMMA NodeMeans ==
    ASSUME NEW d \in Dialects, NEW T, NEW r, RendersRight(d, r, T), RendersFree(r, T),
           NEW n \in NodesOver(T), NEW p \in Nat, NEW rows, NEW f, NEW g, MeansRight(rows, r, T, f, g)
    PROVE  TextMeans(rows, NodeSQL(d, r, n, p).text, Sense({}, f, n), Sense(rows, g, n).rows)
<1>1. /\ n.k \in Kinds /\ n.name \in Words /\ n.vals \in Seq(BoundValues) /\ n.subs \in Seq(T)
      /\ n.query \in Seq(BuildersOver(T, {<<>>}))
  BY NodeParts
<1>2. PICK text, sense, wanted : text = NodeSQL(d, r, n, p).text /\ sense = Sense({}, f, n)
                                 /\ wanted = Sense(rows, g, n).rows
  OBVIOUS
<1>3. PICK first, senses : first = SenseParts(f, n) /\ senses = SenseParts(g, n)
  OBVIOUS
<1>4. IsSense({}, n, first, sense) /\ wanted = Meaning(rows, n, senses)
  <2>1. IsSense({}, n, first, sense)
    BY Zenon, <1>2, <1>3, SenseFields
  <2>2. IsSense(rows, n, senses, Sense(rows, g, n))
    BY Zenon, <1>3, SenseFields
  <2> QED
    BY Zenon, <1>2, <2>1, <2>2 DEF IsSense
<1>5. SUFFICES ASSUME sense.condition
               PROVE  /\ sense.hollow => ~Reads(rows, text).ok
                      /\ ~sense.hollow => Reads(rows, text) = Readable(wanted)
  BY <1>2 DEF TextMeans
<1>6. n.k \in Joiners \cup {"invalid", "pred", "in", "not_in", "raw", "subquery"}
  BY <1>4, <1>5 DEF IsSense
<1>7. CASE n.k \notin Joiners
  <2>1. first = <<>> /\ senses = <<>>
    BY <1>3, <1>7 DEF SenseParts
  <2>2. ~\E i \in DOMAIN first : TRUE
    BY <2>1
  <2>3. sense.hollow <=> n.k = "invalid"
    BY <1>4, <2>2 DEF IsSense
  <2>4. CASE n.k \in {"invalid", "pred", "in", "not_in"}
    BY <1>2, <1>4, <2>1, <2>3, <2>4, LeafMeans
  <2>5. CASE n.k = "raw"
    <3>1. text = RawSQL(d, n, p).text
      BY <1>2, <2>5 DEF NodeSQL
    <3>2. wanted = Reads(rows, n.text).rows
      BY <1>4, <2>5 DEF Meaning
    <3> QED
      BY <2>3, <2>5, <3>1, <3>2, RawMeans
  <2>6. CASE n.k = "subquery"
    <3>1. PICK inner : inner = SelectBuild(r, n.query[1])
      OBVIOUS
    <3>2. n.query[1] \in BuildersOver(T, {<<>>})
      BY <1>1, <2>6, NodeParts
    <3>3. Sound(d, inner) /\ inner.text \in Closed
      BY <3>1, <3>2, SelectNumbers, SelectClosed
    <3>4. Unbuilt(n) <=> inner.err
      <4>1. Unbuilt(n) <=> (n.query[1].err \/ HasInvalid(Looked(n.query[1])))
        BY <2>6 DEF Unbuilt
      <4>2. PICK q \in BuildersOver(T, {<<>>}) : q = n.query[1]
        BY <3>2
      <4>3. PICK a, s : SelectBuild(r, q) = IF q.err \/ HasInvalid(Looked(q)) THEN Refused
                                            ELSE [err |-> FALSE, text |-> s, args |-> a]
        <5>1. PICK F : SelectBuild(r, q) = IF q.err \/ HasInvalid(Looked(q)) THEN Refused
                                           ELSE [err |-> FALSE, text |-> F[Len(Clauses(q))].text,
                                                 args |-> F[Len(Clauses(q))].args]
          BY SelectLinks
        <5> QED
          BY Zenon, <5>1
      <4>4. Refused.err
        BY DEF Refused
      <4> QED
        BY <3>1, <4>1, <4>2, <4>3, <4>4
    <3>5. text = SubquerySQL(d, n, p, inner).text
      BY <1>2, <2>6, <3>1 DEF NodeSQL
    <3>6. wanted = IF Unbuilt(n) THEN {} ELSE {row \in rows : n.name \in row}
      BY <1>4, <2>6 DEF Meaning
    <3>7. ASSUME ~inner.err
          PROVE  Reads(rows, text) = Readable(wanted)
      <4>1. Reads(rows, SubquerySQL(d, n, p, inner).text) = Readable(Holding(rows, n.name))
        <5>1. n.name \in Words /\ d \in Dialects /\ p \in Nat
          BY <1>1
        <5>2. Sound(d, inner) /\ inner.text \in Closed /\ ~inner.err
          BY <3>3, <3>7
        <5> QED
          BY ONLY <5>1, <5>2, SubqueryMeans
      <4> QED
        BY Zenon, <3>4, <3>5, <3>6, <3>7, <4>1 DEF Holding
    <3>8. ASSUME inner.err
          PROVE  Reads(rows, text) = Readable(wanted)
      <4>1. text = <<Word("1=0")>>
        BY <3>5, <3>8 DEF SubquerySQL, Fragment
      <4>2. Reads(rows, <<Word("1=0")>>) = Readable({})
        BY ReadsWords
      <4> QED
        BY <3>4, <3>6, <3>8, <4>1, <4>2
    <3> QED
      BY <2>3, <2>6, <3>7, <3>8
  <2> QED
    BY <1>6, <1>7, <2>4, <2>5, <2>6
<1>8. CASE n.k \in Joiners
  <2>1. PICK c : c = Chain(r, n.subs, p)
    OBVIOUS
  <2>2. PICK parts : parts = c.parts
    OBVIOUS
  <2>3. PartsOf(parts, r, n.subs)
    BY <1>1, <2>1, <2>2, ChainParts
  <2>4. parts \in Seq(Free(Outside))
    BY <1>1, <2>3, FreeParts
  <2>5. text = Composed(n, parts)
    <3>1. NodeSQL(d, r, n, p) = Fragment(Composed(n, parts), c.args, c.next)
      BY <1>8, <2>1, <2>2 DEF NodeSQL, Joiners
    <3> QED
      BY <1>2, <3>1 DEF Fragment
  <2>6. /\ DOMAIN n.subs = 1..Len(parts) /\ Len(parts) \in Nat /\ Len(parts) = Len(n.subs)
        /\ \A i \in 1..Len(parts) : n.subs[i] \in T
    BY <1>1, <2>3 DEF PartsOf
  <2>7. /\ DOMAIN first = 1..Len(parts) /\ DOMAIN senses = 1..Len(parts)
        /\ \A i \in 1..Len(parts) : first[i] = f[n.subs[i]] /\ senses[i] = g[n.subs[i]]
    BY <1>3, <1>8, <2>6 DEF SenseParts
  <2>8. \A i \in 1..Len(parts) : TextMeans(rows, parts[i], first[i], senses[i].rows)
    <3> TAKE i \in 1..Len(parts)
    <3>1. PICK q \in Nat : parts[i] = r[<<n.subs[i], q>>].text
      BY <2>3, <2>6 DEF PartsOf
    <3>2. PICK x \in T : x = n.subs[i]
      BY <2>6
    <3>3. TextMeans(rows, r[<<x, q>>].text, f[x], g[x].rows)
      BY DEF MeansRight
    <3> QED
      BY <2>7, <3>1, <3>2, <3>3
  <2>9. /\ \A i \in 1..Len(parts) : first[i].condition
        /\ sense.hollow <=> \E i \in 1..Len(parts) : first[i].hollow
        /\ ~sense.hollow => \A i \in 1..Len(parts) : ~first[i].hollow
    <3>1. n.k # "invalid"
      BY <1>8 DEF Joiners
    <3> QED
      BY <1>4, <1>5, <2>7, <3>1 DEF IsSense
  <2>10. CASE n.k \in {"and", "or"}
    <3>1. senses = <<>> <=> parts = <<>>
      <4>1. parts = <<>> <=> Len(parts) = 0
        BY <2>4
      <4>2. n.subs = <<>> <=> Len(n.subs) = 0
        BY <1>1
      <4>3. senses \in Seq({senses[i] : i \in 1..Len(parts)}) /\ Len(senses) = Len(parts)
        <5>1. senses = [i \in DOMAIN n.subs |-> g[n.subs[i]]]
          BY <1>3, <1>8 DEF SenseParts
        <5>2. senses \in [1..Len(parts) -> {senses[i] : i \in 1..Len(parts)}]
          BY <2>6, <5>1
        <5> QED
          BY <2>6, <5>2, AsSeq
      <4> QED
        BY <4>1, <4>3, EmptySeq
    <3>2. ComposedMeans(rows, n, parts, first, senses)
      <4>1. PartsMean(rows, parts, first, senses)
        BY <2>7, <2>8, <2>9, <3>1 DEF PartsMean
      <4> QED
        BY ONLY <2>4, <2>10, <4>1, JoinedMeans
    <3> QED
      BY <1>4, <2>5, <2>9, <3>2 DEF ComposedMeans
  <2>11. CASE n.k = "not"
    <3>1. Len(parts) = 1 /\ 1 \in 1..1 /\ \A i \in 1..1 : i = 1
      BY <2>6, <2>11, NodeParts
    <3>2. TextMeans(rows, parts[1], first[1], senses[1].rows) /\ first[1].condition
      BY <2>8, <2>9, <3>1
    <3>3. /\ first[1].hollow => ~Reads(rows, Composed(n, parts)).ok
          /\ ~first[1].hollow =>
                Reads(rows, Composed(n, parts)) = Readable(Meaning(rows, n, senses))
      BY <2>4, <2>11, <3>1, <3>2, NotMeans
    <3> QED
      BY <1>4, <2>5, <2>9, <3>1, <3>3
  <2> QED
    BY <1>8, <2>10, <2>11 DEF Joiners
<1> QED
  BY <1>7, <1>8

\* Every condition, of any shape and height, is written so that a database
\* reads it as what it means, with the same two readings of subqueries that do
\* not build and of Raw texts as ClausesAlwaysMeanWhatWasAsked.
THEOREM TreesMean ==
    ASSUME NEW d \in Dialects, NEW rows
    PROVE  \A h \in 0..MaxHeight :
              MeansRight(rows, Rendering(d)[h], Trees[h], Senses({})[h], Senses(rows)[h])
<1>1. MaxHeight \in Nat
  BY WordsAssumption
<1> DEFINE P == {h \in 0..MaxHeight :
                    MeansRight(rows, Rendering(d)[h], Trees[h], Senses({})[h], Senses(rows)[h])}
<1>2. 0 \in P
  BY <1>1, TreesHeights DEF MeansRight
<1>3. ASSUME NEW h \in 0..(MaxHeight - 1), h \in P PROVE h + 1 \in P
  <2>1. PICK r, T, f, g : r = Rendering(d)[h] /\ T = Trees[h] /\ f = Senses({})[h] /\ g = Senses(rows)[h]
    OBVIOUS
  <2>2. RendersRight(d, r, T) /\ RendersFree(r, T) /\ MeansRight(rows, r, T, f, g)
    <3>1. h \in 0..MaxHeight
      BY <1>1
    <3>2. MeansRight(rows, r, T, f, g)
      BY <1>3, <2>1
    <3> QED
      BY <2>1, <3>1, <3>2, TreesRight, TreesFree
  <2>3. Trees[h + 1] = NodesOver(T)
    BY <2>1, TreesHeights
  <2>4. PICK s : s = [at \in NodesOver(T) \X Nat |-> NodeSQL(d, r, at[1], at[2])]
    OBVIOUS
  <2>5. Rendering(d)[h + 1] = s
    <3>1. Rendering(d)[h + 1]
            = [at \in Trees[h + 1] \X Nat |-> NodeSQL(d, Rendering(d)[h], at[1], at[2])]
      BY Zenon, RenderingHeights
    <3> QED
      BY Zenon, <2>1, <2>3, <2>4, <3>1
  <2>6. PICK u, v : u = [n \in NodesOver(T) |-> Sense({}, f, n)] /\ v = [n \in NodesOver(T) |-> Sense(rows, g, n)]
    OBVIOUS
  <2>7. Senses({})[h + 1] = u /\ Senses(rows)[h + 1] = v
    <3>1. /\ Senses({})[h + 1] = [n \in Trees[h + 1] |-> Sense({}, Senses({})[h], n)]
          /\ Senses(rows)[h + 1] = [n \in Trees[h + 1] |-> Sense(rows, Senses(rows)[h], n)]
      BY Zenon, SensesHeights
    <3> QED
      BY Zenon, <2>1, <2>3, <2>6, <3>1
  <2>8. ASSUME NEW n \in NodesOver(T), NEW p \in Nat PROVE TextMeans(rows, s[<<n, p>>].text, u[n], v[n].rows)
    <3>1. s[<<n, p>>] = NodeSQL(d, r, n, p)
      <4>1. <<n, p>> \in NodesOver(T) \X Nat /\ <<n, p>>[1] = n /\ <<n, p>>[2] = p
        OBVIOUS
      <4> QED
        BY <2>4, <4>1
    <3>2. u[n] = Sense({}, f, n) /\ v[n] = Sense(rows, g, n)
      BY <2>6
    <3>3. TextMeans(rows, NodeSQL(d, r, n, p).text, Sense({}, f, n), Sense(rows, g, n).rows)
      BY <2>2, NodeMeans
    <3> QED
      BY Zenon, <3>1, <3>2, <3>3
  <2>9. h + 1 \in 0..MaxHeight
    BY <1>1
  <2>10. MeansRight(rows, s, NodesOver(T), u, v)
    BY <2>8 DEF MeansRight
  <2> QED
    BY <2>3, <2>5, <2>7, <2>9, <2>10
<1>4. \A h \in 0..MaxHeight : h \in P
  <2> HIDE DEF P
  <2> QED
    BY <1>1, <1>2, <1>3, Upwards
<1> QED
  BY <1>4

Lower == Trees[MaxHeight - 1]

\* What a tree means, from what its parts do.
LEMMA SenseOfParts ==
    ASSUME NEW rows
    PROVE  /\ Lower \subseteq Trees[MaxHeight] /\ Trees[MaxHeight] = NodesOver(Lower)
           /\ \A n \in Lower : Senses(rows)[MaxHeight - 1][n] = SenseOf(rows, n)
           /\ \A n \in Trees[MaxHeight] :
                 SenseOf(rows, n) = Sense(rows, Senses(rows)[MaxHeight - 1], n)
<1>1. PICK h : h = MaxHeight - 1
  OBVIOUS
<1>2. h \in 0..(MaxHeight - 1) /\ h + 1 = MaxHeight
  BY <1>1, WordsAssumption, BuildersAssumption
<1>3. Trees[h] \subseteq Trees[MaxHeight] /\ Trees[MaxHeight] = NodesOver(Trees[h])
  BY <1>2, TreesHeights, TreesGrow
<1>4. \A n \in Trees[h] : Senses(rows)[h][n] = SenseOf(rows, n)
  BY <1>2, SensesSettle DEF SenseOf
<1>5. PICK f, g : f = Senses(rows)[h] /\ g = Senses(rows)[MaxHeight]
  OBVIOUS
<1>6. g = [n \in Trees[MaxHeight] |-> Sense(rows, f, n)]
  <2>1. Senses(rows)[h + 1] = [n \in Trees[h + 1] |-> Sense(rows, Senses(rows)[h], n)]
    BY Zenon, <1>2, SensesHeights
  <2> QED
    BY Zenon, <1>2, <1>5, <2>1
<1>7. \A n \in Trees[MaxHeight] : SenseOf(rows, n) = Sense(rows, f, n)
  BY <1>5, <1>6 DEF SenseOf
<1> QED
  BY <1>1, <1>3, <1>4, <1>5, <1>7 DEF Lower

-----------------------------------------------------------------------------
(* Several conditions, one after the other                                 *)

\* The rows that all of them let through.
Narrowed(rows, conds) == {row \in rows : \A i \in 1..Len(conds) : row \in SenseOf(rows, conds[i]).rows}

ConditionsMean(rows, text, conds) ==
    /\ (\E i \in 1..Len(conds) : SenseOf({}, conds[i]).hollow) => ~Reads(rows, text).ok
    /\ (\A i \in 1..Len(conds) : ~SenseOf({}, conds[i]).hollow) =>
          Reads(rows, text) = Readable(Narrowed(rows, conds))

LEMMA SensesAt ==
    ASSUME NEW rows, NEW h \in {MaxHeight - 1, MaxHeight}
    PROVE  h \in 0..MaxHeight /\ \A n \in Trees[h] : Senses(rows)[h][n] = SenseOf(rows, n)
<1>1. h \in 0..MaxHeight
  BY WordsAssumption, BuildersAssumption
<1>2. CASE h = MaxHeight - 1
  BY <1>1, <1>2, SenseOfParts DEF Lower
<1>3. CASE h = MaxHeight
  BY <1>1, <1>3 DEF SenseOf
<1> QED
  BY <1>2, <1>3

LEMMA AllConditions ==
    ASSUME NEW d \in Dialects, NEW rows, NEW h \in {MaxHeight - 1, MaxHeight}, NEW conds \in Seq(Trees[h]),
           conds # <<>>, \A i \in 1..Len(conds) : SenseOf({}, conds[i]).condition, NEW p \in Nat,
           NEW parts, parts = Chain(Rendering(d)[h], conds, p).parts
    PROVE  /\ parts \in Seq(Free(Outside))
           /\ ConditionsMean(rows, Joined(parts, "AND"), conds)
           /\ ConditionsMean(rows, Composed(And(conds), parts), conds)
<1>1. PICK r, T : r = Rendering(d)[h] /\ T = Trees[h]
  OBVIOUS
<1>2. PICK f, g : f = Senses({})[h] /\ g = Senses(rows)[h]
  OBVIOUS
<1>3. /\ RendersRight(d, r, T) /\ RendersFree(r, T) /\ MeansRight(rows, r, T, f, g)
      /\ \A n \in T : f[n] = SenseOf({}, n) /\ g[n] = SenseOf(rows, n)
  <2>1. h \in 0..MaxHeight
    BY SensesAt
  <2>2. RendersRight(d, r, T) /\ RendersFree(r, T)
    BY <1>1, <2>1, TreesRight, TreesFree
  <2>3. MeansRight(rows, r, T, f, g)
    BY <1>1, <1>2, <2>1, TreesMean
  <2> QED
    BY <1>1, <1>2, <2>2, <2>3, SensesAt
<1>4. PICK n : n = And(conds)
  OBVIOUS
<1>5. n.k = "and"
  BY <1>4 DEF And, Node
<1>6. PartsOf(parts, r, conds)
  BY <1>1, <1>3, ChainParts
<1>7. parts \in Seq(Free(Outside))
  BY <1>1, <1>3, <1>6, FreeParts
<1>8. /\ DOMAIN parts = 1..Len(parts) /\ Len(parts) \in Nat /\ Len(parts) = Len(conds) /\ Len(parts) # 0
      /\ \A i \in 1..Len(parts) : conds[i] \in T /\ \E q \in Nat : parts[i] = r[<<conds[i], q>>].text
  <2>1. Len(conds) # 0 /\ \A i \in 1..Len(conds) : conds[i] \in T
    BY <1>1
  <2> QED
    BY <1>6, <2>1 DEF PartsOf
<1>9. PICK first, senses : /\ first = [i \in 1..Len(parts) |-> f[conds[i]]]
                           /\ senses = [i \in 1..Len(parts) |-> g[conds[i]]]
  OBVIOUS
<1>10. PartsMean(rows, parts, first, senses)
  <2>1. DOMAIN senses = 1..Len(parts)
    BY <1>9
  <2>2. senses # <<>> /\ parts # <<>>
    <3>1. 1 \in 1..Len(parts)
      BY <1>8
    <3>2. 1 \in DOMAIN senses /\ 1 \in DOMAIN parts /\ ~(1 \in DOMAIN <<>>)
      BY <1>8, <2>1, <3>1
    <3> QED
      BY <3>2
  <2>3. ASSUME NEW i \in 1..Len(parts)
        PROVE  TextMeans(rows, parts[i], first[i], senses[i].rows) /\ first[i].condition
    <3>1. PICK q \in Nat, x \in T : x = conds[i] /\ parts[i] = r[<<x, q>>].text
      BY <1>8
    <3>2. TextMeans(rows, r[<<x, q>>].text, f[x], g[x].rows)
      BY <1>3 DEF MeansRight
    <3>3. first[i] = f[x] /\ senses[i] = g[x]
      BY <1>9, <3>1
    <3>4. f[x].condition
      BY <1>3, <1>8, <3>1
    <3> QED
      BY <3>1, <3>2, <3>3, <3>4
  <2> QED
    BY <2>1, <2>2, <2>3 DEF PartsMean
<1>11. ComposedMeans(rows, n, parts, first, senses)
  <2>1. n.k \in {"and", "or"}
    BY <1>5
  <2> QED
    BY ONLY <1>7, <1>10, <2>1, JoinedMeans
<1>12. Meaning(rows, n, senses) = Narrowed(rows, conds)
  <2>1. Meaning(rows, n, senses) = {row \in rows : \A i \in DOMAIN senses : row \in senses[i].rows}
    BY <1>5 DEF Meaning
  <2>2. DOMAIN senses = 1..Len(conds) /\ \A i \in 1..Len(conds) : senses[i] = SenseOf(rows, conds[i])
    BY <1>3, <1>8, <1>9
  <2> QED
    BY <2>1, <2>2 DEF Narrowed
<1>13. \A i \in 1..Len(parts) : first[i] = SenseOf({}, conds[i])
  BY <1>3, <1>8, <1>9
<1>14. ConditionsMean(rows, Composed(n, parts), conds)
  BY <1>8, <1>11, <1>12, <1>13 DEF ConditionsMean, ComposedMeans
<1>15. Reads(rows, Composed(n, parts)) = Reads(rows, Joined(parts, "AND"))
  <2>1. CASE Len(parts) = 1
    <3>1. PICK x : x = parts[1]
      OBVIOUS
    <3>2. x \in Seq(Token) /\ parts = <<x>>
      <4>1. x \in Free(Outside)
        BY <1>7, <1>8, <2>1, <3>1
      <4> QED
        BY <1>7, <2>1, <3>1, <4>1, FreeText
    <3>3. Joined(<<x>>, "AND") = x
      <4>1. "AND" \in Keywords
        BY BracketKeywords
      <4>2. <<>> \in Seq(Seq(Token))
        OBVIOUS
      <4> QED
        BY ONLY <3>2, <4>1, <4>2, JoinedMore
    <3>4. Composed(n, parts) = parts[1]
      <4>1. parts # <<>>
        BY <1>8
      <4> QED
        BY <1>5, <2>1, <4>1 DEF Composed
    <3> QED
      BY <3>1, <3>2, <3>3, <3>4
  <2>2. CASE Len(parts) # 1
    <3>1. parts \in Seq(Free({"OR"}))
      <4>1. \A x \in Free(Outside) : x \in Free({"OR"})
        BY FreeFewer DEF Outside
      <4>2. PICK A, B : A = Free(Outside) /\ B = Free({"OR"})
        OBVIOUS
      <4>3. \A s \in Seq(A) : s \in Seq(B)
        BY <4>1, <4>2
      <4> QED
        BY <1>7, <4>2, <4>3
    <3>2. PICK inside \in Closed : inside = Joined(parts, "AND")
      BY <3>1, JoinedSides, SidesTexts
    <3>3. Composed(n, parts) = Bracketed("(", inside, ")")
      <4>1. parts # <<>>
        BY <1>8
      <4> QED
        BY <1>5, <2>2, <3>2, <4>1 DEF Composed
    <3> QED
      BY <3>2, <3>3, ReadsBracketed
  <2> QED
    BY <2>1, <2>2
<1> QED
  BY <1>4, <1>7, <1>14, <1>15 DEF ConditionsMean

\* What Or puts together: refused where either is, true where either is.
LEMMA OrSense ==
    ASSUME NEW x \in Lower, NEW y \in Lower, NEW rows
    PROVE  /\ Or(<<x, y>>) \in Trees[MaxHeight] /\ x \in Trees[MaxHeight] /\ y \in Trees[MaxHeight]
           /\ SenseOf(rows, Or(<<x, y>>)).condition
                 <=> (SenseOf(rows, x).condition /\ SenseOf(rows, y).condition)
           /\ SenseOf(rows, Or(<<x, y>>)).hollow <=> (SenseOf(rows, x).hollow \/ SenseOf(rows, y).hollow)
           /\ \A row \in rows : row \in SenseOf(rows, Or(<<x, y>>)).rows
                 <=> (row \in SenseOf(rows, x).rows \/ row \in SenseOf(rows, y).rows)
<1>1. PICK n : n = Or(<<x, y>>)
  OBVIOUS
<1>2. n \in Trees[MaxHeight] /\ x \in Trees[MaxHeight] /\ y \in Trees[MaxHeight]
  BY <1>1, SenseOfParts, OrTree
<1>3. n.k = "or" /\ n.subs = <<x, y>>
  BY <1>1 DEF Or, Node
<1>4. PICK f, sense : f = Senses(rows)[MaxHeight - 1] /\ sense = SenseOf(rows, n)
  OBVIOUS
<1>5. f[x] = SenseOf(rows, x) /\ f[y] = SenseOf(rows, y) /\ sense = Sense(rows, f, n)
  BY <1>2, <1>4, SenseOfParts
<1>6. PICK parts : parts = SenseParts(f, n)
  OBVIOUS
<1>7. DOMAIN parts = 1..2 /\ parts[1] = f[x] /\ parts[2] = f[y] /\ parts # <<>>
  <2>1. PICK subs : subs = <<x, y>>
    OBVIOUS
  <2>2. DOMAIN subs = 1..2 /\ subs[1] = x /\ subs[2] = y
    BY <2>1
  <2>3. parts = [i \in 1..2 |-> f[subs[i]]]
    BY <1>3, <1>6, <2>1, <2>2 DEF SenseParts, Joiners
  <2> QED
    BY <2>2, <2>3
<1>8. \A i \in 1..2 : i = 1 \/ i = 2
  OBVIOUS
<1>9. 1 \in 1..2 /\ 2 \in 1..2
  OBVIOUS
<1>10. IsSense(rows, n, parts, sense)
  BY Zenon, <1>5, <1>6, SenseFields
<1>11. n.k # "invalid" /\ n.k \in Joiners
  BY <1>3 DEF Joiners
<1>12. /\ sense.condition <=> (f[x].condition /\ f[y].condition)
       /\ sense.hollow <=> (f[x].hollow \/ f[y].hollow)
  BY <1>7, <1>8, <1>9, <1>10, <1>11 DEF IsSense
<1>13. sense.rows = {row \in rows : \E i \in 1..2 : row \in parts[i].rows}
  <2>1. sense.rows = Meaning(rows, n, parts)
    BY <1>10 DEF IsSense
  <2>2. Meaning(rows, n, parts) = {row \in rows : parts = <<>> \/ \E i \in DOMAIN parts : row \in parts[i].rows}
    BY <1>3 DEF Meaning
  <2> QED
    BY <1>7, <2>1, <2>2
<1>14. \A row \in rows : row \in sense.rows <=> (row \in f[x].rows \/ row \in f[y].rows)
  BY <1>7, <1>8, <1>9, <1>13
<1> QED
  BY <1>1, <1>2, <1>4, <1>5, <1>12, <1>14

\* Whether something was refused in a condition, and which rows it lets
\* through, are valuations.
LEMMA SenseValuations ==
    ASSUME NEW rows
    PROVE  /\ [n \in Trees[MaxHeight] |-> ~SenseOf(rows, n).condition] \in Valuations
           /\ [n \in Trees[MaxHeight] |-> SenseOf(rows, n).hollow <=> TRUE] \in Valuations
           /\ \A row \in rows : [n \in Trees[MaxHeight] |-> row \in SenseOf(rows, n).rows] \in Valuations
<1>1. \A x, y \in Lower : Or(<<x, y>>) \in Trees[MaxHeight] /\ x \in Trees[MaxHeight] /\ y \in Trees[MaxHeight]
  BY OrSense
<1>2. [n \in Trees[MaxHeight] |-> ~SenseOf(rows, n).condition] \in Valuations
  <2>1. PICK V : V = [n \in Trees[MaxHeight] |-> ~SenseOf(rows, n).condition]
    OBVIOUS
  <2>2. V \in [Trees[MaxHeight] -> BOOLEAN]
    BY <2>1
  <2>3. ASSUME NEW x \in Lower, NEW y \in Lower PROVE V[Or(<<x, y>>)] <=> (V[x] \/ V[y])
    BY <1>1, <2>1, OrSense
  <2> QED
    BY <2>1, <2>2, <2>3 DEF Valuations, Lower
<1>3. [n \in Trees[MaxHeight] |-> SenseOf(rows, n).hollow <=> TRUE] \in Valuations
  <2>1. PICK V : V = [n \in Trees[MaxHeight] |-> SenseOf(rows, n).hollow <=> TRUE]
    OBVIOUS
  <2>2. V \in [Trees[MaxHeight] -> BOOLEAN]
    BY <2>1
  <2>3. ASSUME NEW x \in Lower, NEW y \in Lower PROVE V[Or(<<x, y>>)] <=> (V[x] \/ V[y])
    BY <1>1, <2>1, OrSense
  <2> QED
    BY <2>1, <2>2, <2>3 DEF Valuations, Lower
<1>4. ASSUME NEW row \in rows
      PROVE  [n \in Trees[MaxHeight] |-> row \in SenseOf(rows, n).rows] \in Valuations
  <2>1. PICK V : V = [n \in Trees[MaxHeight] |-> row \in SenseOf(rows, n).rows]
    OBVIOUS
  <2>2. V \in [Trees[MaxHeight] -> BOOLEAN]
    BY <2>1
  <2>3. ASSUME NEW x \in Lower, NEW y \in Lower PROVE V[Or(<<x, y>>)] <=> (V[x] \/ V[y])
    BY <1>1, <2>1, OrSense
  <2> QED
    BY <2>1, <2>2, <2>3 DEF Valuations, Lower
<1> QED
  BY <1>2, <1>3, <1>4

\* The conditions a builder stores mean what the groups asked for do.
GroupsMean(rows, conds, groups) ==
    /\ Len(conds) = Len(groups)
    /\ \A i \in 1..Len(conds) :
          /\ SenseOf({}, conds[i]).condition
          /\ SenseOf({}, conds[i]).hollow <=> \E j \in 1..Len(groups[i]) : SenseOf({}, groups[i][j]).hollow
    /\ Narrowed(rows, conds) = Wanted(rows, groups)

LEMMA GroupsFollow ==
    ASSUME NEW conds \in Seq(Trees[MaxHeight]), NEW groups \in Seq(Seq(Trees[MaxHeight])),
           Stored(conds, groups), NEW rows,
           \A i \in 1..Len(groups) : \A j \in 1..Len(groups[i]) : SenseOf({}, groups[i][j]).condition
    PROVE  GroupsMean(rows, conds, groups)
<1>1. Len(conds) = Len(groups) /\ Len(groups) \in Nat /\ DOMAIN groups = 1..Len(groups)
  BY DEF Stored
<1>2. \A i \in 1..Len(groups) :
          /\ conds[i] \in Trees[MaxHeight] /\ DOMAIN groups[i] = 1..Len(groups[i])
          /\ \A j \in 1..Len(groups[i]) : groups[i][j] \in Trees[MaxHeight]
  <2> TAKE i \in 1..Len(groups)
  <2>1. conds[i] \in Trees[MaxHeight]
    BY <1>1
  <2>2. PICK group \in Seq(Trees[MaxHeight]) : group = groups[i]
    BY <1>1
  <2>3. DOMAIN group = 1..Len(group) /\ \A j \in 1..Len(group) : group[j] \in Trees[MaxHeight]
    OBVIOUS
  <2> QED
    BY <2>1, <2>2, <2>3
<1>3. \A V \in Valuations : \A i \in 1..Len(groups) :
          V[conds[i]] <=> \E j \in 1..Len(groups[i]) : V[groups[i][j]]
  BY DEF Stored, Follows, AnyOf
<1>4. \A i \in 1..Len(groups) : SenseOf({}, conds[i]).condition
  <2>1. PICK V \in Valuations : V = [n \in Trees[MaxHeight] |-> ~SenseOf({}, n).condition]
    BY SenseValuations
  <2> TAKE i \in 1..Len(groups)
  <2>2. V[conds[i]] <=> \E j \in 1..Len(groups[i]) : V[groups[i][j]]
    BY <1>3
  <2>3. /\ V[conds[i]] <=> ~SenseOf({}, conds[i]).condition
        /\ \A j \in 1..Len(groups[i]) : V[groups[i][j]] <=> ~SenseOf({}, groups[i][j]).condition
    BY <1>2, <2>1
  <2> QED
    BY <2>2, <2>3
<1>5. \A i \in 1..Len(groups) :
          SenseOf({}, conds[i]).hollow <=> \E j \in 1..Len(groups[i]) : SenseOf({}, groups[i][j]).hollow
  <2>1. PICK V \in Valuations : V = [n \in Trees[MaxHeight] |-> SenseOf({}, n).hollow <=> TRUE]
    BY SenseValuations
  <2> TAKE i \in 1..Len(groups)
  <2>2. V[conds[i]] <=> \E j \in 1..Len(groups[i]) : V[groups[i][j]]
    BY <1>3
  <2>3. /\ V[conds[i]] <=> SenseOf({}, conds[i]).hollow
        /\ \A j \in 1..Len(groups[i]) : V[groups[i][j]] <=> SenseOf({}, groups[i][j]).hollow
    BY <1>2, <2>1
  <2> QED
    BY <2>2, <2>3
<1>7. ASSUME NEW row \in rows, NEW i \in 1..Len(groups)
      PROVE  row \in SenseOf(rows, conds[i]).rows
                <=> \E j \in 1..Len(groups[i]) : row \in SenseOf(rows, groups[i][j]).rows
  <2>1. PICK V \in Valuations : V = [n \in Trees[MaxHeight] |-> row \in SenseOf(rows, n).rows]
    BY SenseValuations
  <2>2. V[conds[i]] <=> \E j \in 1..Len(groups[i]) : V[groups[i][j]]
    BY <1>3
  <2>3. /\ V[conds[i]] <=> row \in SenseOf(rows, conds[i]).rows
        /\ \A j \in 1..Len(groups[i]) : V[groups[i][j]] <=> row \in SenseOf(rows, groups[i][j]).rows
    BY <1>2, <2>1
  <2> QED
    BY <2>2, <2>3
<1>8. Narrowed(rows, conds) = Wanted(rows, groups)
  <2>1. PICK let : let = [i \in DOMAIN groups |-> [j \in DOMAIN groups[i] |-> SenseOf(rows, groups[i][j]).rows]]
    OBVIOUS
  <2>2. Wanted(rows, groups)
          = {row \in rows : \A i \in DOMAIN groups : \E j \in DOMAIN groups[i] : row \in let[i][j]}
    BY Zenon, <2>1 DEF Wanted
  <2>3. \A i \in 1..Len(groups) : \A j \in 1..Len(groups[i]) : let[i][j] = SenseOf(rows, groups[i][j]).rows
    BY <1>1, <1>2, <2>1
  <2>4. ASSUME NEW row \in rows
        PROVE  (\A i \in 1..Len(conds) : row \in SenseOf(rows, conds[i]).rows)
                 <=> (\A i \in DOMAIN groups : \E j \in DOMAIN groups[i] : row \in let[i][j])
    <3>1. \A i \in 1..Len(groups) :
              row \in SenseOf(rows, conds[i]).rows <=> \E j \in DOMAIN groups[i] : row \in let[i][j]
      <4> TAKE i \in 1..Len(groups)
      <4>1. row \in SenseOf(rows, conds[i]).rows
               <=> \E j \in 1..Len(groups[i]) : row \in SenseOf(rows, groups[i][j]).rows
        BY <1>7
      <4>2. DOMAIN groups[i] = 1..Len(groups[i])
        BY <1>2
      <4>3. \A j \in 1..Len(groups[i]) : let[i][j] = SenseOf(rows, groups[i][j]).rows
        BY <2>3
      <4> QED
        BY Zenon, <4>1, <4>2, <4>3
    <3> QED
      BY <1>1, <3>1
  <2> QED
    BY <2>2, <2>4 DEF Narrowed
<1> QED
  BY <1>1, <1>4, <1>5, <1>8 DEF GroupsMean

-----------------------------------------------------------------------------
(* Clauses                                                                 *)

\* A text may end a clause: nothing, or a clause of its own.
Ends(rest) == rest \in Closed /\ (rest = <<>> \/ rest[1].t \in ClauseWords)

\* What a clause word begins in a text, and where it ends.
ClauseIn(text, w, pre, body, rest) ==
    /\ pre \in Free({w}) /\ body \in Free(ClauseWords) /\ Ends(rest)
    /\ text = (pre \o <<Word(w)>>) \o (body \o rest)

ClauseAt(text, w, body) == \E pre, rest : ClauseIn(text, w, pre, body, rest)

LEMMA ClauseWord ==
    ASSUME NEW w \in ClauseWords
    PROVE  w \in Keywords /\ w \notin Brackets /\ Word(w) \in Token /\ Word(w).t = w
           /\ <<Word(w)>> \in Closed /\ \A W : w \notin W => <<Word(w)>> \in Free(W)
<1>1. w \in Keywords /\ w \notin Brackets
  BY OutsideWords
<1>2. Word(w).t = w
  BY DEF Word
<1>3. Word(w) \in Token /\ <<Word(w)>> \in Free({})
  BY <1>1, FreeKeyword
<1>4. \A W : w \notin W => <<Word(w)>> \in Free(W)
  BY <1>1, FreeKeyword
<1> QED
  BY <1>1, <1>2, <1>3, <1>4, FreeText

LEMMA ClauseFound ==
    ASSUME NEW text, NEW w \in ClauseWords, NEW body, ClauseAt(text, w, body)
    PROVE  text \in Closed /\ At(text, {w}) # {} /\ ClauseOf(text, w) = body
<1>1. PICK pre, rest : ClauseIn(text, w, pre, body, rest)
  BY DEF ClauseAt
<1>2. /\ pre \in Closed /\ pre \in Seq(Token) /\ At(pre, {w}) = {} /\ pre \in Free({w})
      /\ body \in Closed /\ body \in Seq(Token) /\ At(body, ClauseWords) = {} /\ Depths(body)[Len(body)] = 0
      /\ rest \in Closed /\ rest \in Seq(Token) /\ (rest = <<>> \/ rest[1].t \in ClauseWords)
  <2>1. pre \in Free({w}) /\ body \in Free(ClauseWords) /\ Ends(rest)
    BY <1>1 DEF ClauseIn
  <2>2. rest \in Closed /\ rest \in Seq(Token) /\ (rest = <<>> \/ rest[1].t \in ClauseWords)
    BY <2>1 DEF Ends, Closed
  <2> QED
    BY <2>1, <2>2, FreeText
<1>3. PICK after \in Closed : after = body \o rest
  BY <1>2, ClosedConcat
<1>4. after \in Seq(Token)
  BY DEF Closed
<1>5. PICK tok \in Token : tok = Word(w) /\ tok.t = w /\ tok.t \notin Brackets /\ <<tok>> \in Closed
  BY ClauseWord
<1>6. PICK k \in Nat, m \in Nat, n \in Nat : k = Len(pre) /\ m = Len(body) /\ n = Len(rest)
  BY <1>2, LenProperties
<1>7. Parted(text, pre, tok, after)
  <2>1. text = (pre \o <<tok>>) \o after
    BY <1>1, <1>3, <1>5 DEF ClauseIn
  <2>2. Parted((pre \o <<tok>>) \o after, pre, tok, after)
    BY <1>2, <1>4, PartedText
  <2> QED
    BY ONLY <2>1, <2>2
<1>8. /\ Len(after) = m + n /\ Len(text) = k + 1 + (m + n)
      /\ \A i \in 1..m : after[i] = body[i] /\ text[k + 1 + i] = body[i]
  <2>1. Len(after) = m + n /\ \A i \in 1..m : after[i] = body[i]
    BY <1>2, <1>3, <1>6, ConcatProperties
  <2> QED
    BY <1>6, <1>7, <2>1 DEF Parted
<1>9. /\ \A i \in At(text, {w}) : i = k + 1 \/ i > k + 1
      /\ k + 1 \in At(text, {w})
      /\ \A i \in 1..(m + n) : k + 1 + i \in At(text, ClauseWords) <=> i \in At(after, ClauseWords)
  <2>1. /\ \A i \in 1..k : i \in At(text, {w}) <=> i \in At(pre, {w})
        /\ k + 1 \in At(text, {w}) <=> tok.t \in {w}
        /\ \A i \in At(text, {w}) : i \in At(pre, {w}) \/ i = k + 1 \/ i - (k + 1) \in At(after, {w})
    BY <1>2, <1>5, <1>6, <1>7, PartedAts
  <2>2. \A i \in 1..Len(after) : k + 1 + i \in At(text, ClauseWords) <=> i \in At(after, ClauseWords)
    BY <1>2, <1>5, <1>6, <1>7, PartedAts
  <2>3. At(after, {w}) \subseteq 1..Len(after) /\ At(text, {w}) \subseteq 1..Len(text) /\ text \in Seq(Token)
    BY <1>4, <1>7, AtPlaces DEF Parted
  <2>4. k + 1 \in At(text, {w})
    BY <1>5, <2>1
  <2>5. \A i \in At(text, {w}) : i = k + 1 \/ i > k + 1
    <3> SUFFICES ASSUME NEW i \in At(text, {w})
                 PROVE  i = k + 1 \/ i > k + 1
      OBVIOUS
    <3>1. i = k + 1 \/ i - (k + 1) \in At(after, {w})
      BY <1>2, <2>1
    <3>3. i \in 1..(k + 1 + (m + n)) /\ (i - (k + 1) \in At(after, {w}) => i - (k + 1) \in 1..(m + n))
      BY ONLY <1>8, <2>3, i \in At(text, {w})
    <3>2. i \in Nat /\ (i - (k + 1) \in At(after, {w}) => i - (k + 1) >= 1)
      BY <3>3
    <3> QED
      BY <3>1, <3>2
  <2>6. \A i \in 1..(m + n) : k + 1 + i \in At(text, ClauseWords) <=> i \in At(after, ClauseWords)
    BY ONLY <1>8, <2>2
  <2> QED
    BY ONLY <2>4, <2>5, <2>6
<1>10. /\ \A i \in 1..m : i \notin At(after, ClauseWords)
       /\ n # 0 => m + 1 \in At(after, ClauseWords)
  <2>1. /\ \A i \in 1..m : i \in At(after, ClauseWords) <=> i \in At(body, ClauseWords)
        /\ \A i \in 1..n : m + i \in At(after, ClauseWords) <=> i \in At(rest, ClauseWords)
    BY <1>2, <1>3, <1>6, AtConcat
  <2>2. n # 0 => 1 \in At(rest, ClauseWords)
    <3>1. n # 0 => 1 \in 1..n /\ rest # <<>>
      BY <1>6
    <3>2. Depths(rest)[0] = 0
      BY <1>2, DepthsRise
    <3>3. \A i \in 1..n : i \in At(rest, ClauseWords) <=> (rest[i].t \in ClauseWords /\ Depths(rest)[i - 1] = 0)
      BY <1>2, <1>6, AtPlaces
    <3>4. 1 - 1 = 0
      OBVIOUS
    <3> QED
      BY <1>2, <3>1, <3>2, <3>3, <3>4
  <2>3. n # 0 => 1 \in 1..n
    OBVIOUS
  <2> QED
    BY <1>2, <2>1, <2>2, <2>3
<1>11. Min(At(text, {w})) = k + 1
  <2>1. At(text, {w}) \subseteq 1..Len(text) /\ Len(text) \in Nat
    BY <1>7, <1>8, AtPlaces DEF Parted
  <2>6. PICK l, places : l \in Nat /\ l = Len(text) /\ places = At(text, {w})
    BY <2>1
  <2>7. places \subseteq 1..l /\ k + 1 \in places
    BY <1>9, <2>1, <2>6
  <2>8. places \subseteq Nat /\ places # {}
    BY <2>7
  <2>2. At(text, {w}) \subseteq Nat /\ At(text, {w}) # {}
    BY <2>6, <2>8
  <2>3. PICK x : x = Min(At(text, {w}))
    OBVIOUS
  <2>4. x \in At(text, {w}) /\ \A y \in At(text, {w}) : x <= y
    BY <2>2, <2>3, LeastOf
  <2>5. x \in Nat
    BY <2>2, <2>4
  <2> QED
    BY <1>9, <2>3, <2>4, <2>5
<1>12. PICK ends : ends = {Len(text) + 1} \cup {i \in At(text, ClauseWords) : i > k + 1}
  OBVIOUS
<1>13. Min(ends) = k + 1 + m + 1
  <2>1. At(text, ClauseWords) \subseteq 1..Len(text) /\ Len(text) \in Nat
    BY <1>7, <1>8, AtPlaces DEF Parted
  <2>2. ends \subseteq 1..(Len(text) + 1) /\ ends # {} /\ Len(text) + 1 \in Nat
    BY <1>12, <2>1
  <2>7. ends \subseteq Nat
    BY <2>2
  <2>8. PICK x : x = Min(ends)
    OBVIOUS
  <2>3. x \in ends /\ \A y \in ends : x <= y
    BY <2>2, <2>7, <2>8, LeastOf
  <2>4. k + 1 + m + 1 \in ends
    <3>1. CASE n = 0
      BY <1>8, <1>12, <3>1
    <3>2. CASE n # 0
      <4>1. m + 1 \in 1..(m + n)
        BY <3>2
      <4>2. k + 1 + (m + 1) \in At(text, ClauseWords)
        BY <1>9, <1>10, <3>2, <4>1
      <4> QED
        BY <1>12, <4>2
    <3> QED
      BY <3>1, <3>2
  <2>5. \A y \in ends : y >= k + 1 + m + 1
    <3> SUFFICES ASSUME NEW y \in ends, y < k + 1 + m + 1
                 PROVE  FALSE
      BY <2>2
    <3>1. y \in 1..(Len(text) + 1)
      BY <2>2
    <3>2. y # Len(text) + 1
      BY <1>8
    <3>3. y \in At(text, ClauseWords) /\ y > k + 1
      BY <1>12, <3>2
    <3>4. PICK i \in 1..m : y = k + 1 + i
      <4>1. y - (k + 1) \in 1..m /\ y = k + 1 + (y - (k + 1))
        BY <3>1, <3>3
      <4> QED
        BY <4>1
    <3>5. i \in 1..(m + n)
      OBVIOUS
    <3> QED
      BY <1>9, <1>10, <3>3, <3>4, <3>5
  <2>6. x \in Nat
    BY <2>3, <2>7
  <2> QED
    BY <2>8, <2>3, <2>4, <2>5, <2>6
<1>14. ClauseOf(text, w) = SubSeq(text, (k + 1) + 1, (k + 1 + m + 1) - 1)
  <2>1. ClauseOf(text, w)
          = LET from == Min(At(text, {w}))
                ends_1 == {Len(text) + 1} \cup {i \in At(text, ClauseWords) : i > from}
            IN SubSeq(text, from + 1, Min(ends_1) - 1)
    BY Zenon DEF ClauseOf
  <2> QED
    BY Zenon, <1>11, <1>12, <1>13, <2>1
<1>15. SubSeq(text, (k + 1) + 1, (k + 1 + m + 1) - 1) = body
  <2>1. (k + 1) + 1 = k + 2 /\ (k + 1 + m + 1) - 1 = k + 1 + m
    OBVIOUS
  <2>2. text \in Seq(Token) /\ Len(text) = k + 1 + (m + n)
    BY <1>7, <1>8 DEF Parted
  <2>3. PICK u : u = SubSeq(text, k + 2, k + 1 + m)
    OBVIOUS
  <2>4. u \in Seq(Token) /\ Len(u) = m /\ \A i \in 1..m : u[i] = text[k + 1 + i]
    <3>1. u = [i \in 1..m |-> text[k + 1 + i]]
      <4>1. (k + 1 + m) - (k + 2) + 1 = m /\ \A i \in 1..m : (i + (k + 2)) - 1 = k + 1 + i
        OBVIOUS
      <4> QED
        BY <2>3, <4>1
    <3>2. \A i \in 1..m : text[k + 1 + i] \in Token
      BY <2>2
    <3> QED
      BY <3>1, <3>2, AsSeq
  <2>5. Len(body) = m /\ body \in Seq(Token)
    BY <1>2, <1>6
  <2> QED
    BY <1>8, <2>1, <2>3, <2>4, <2>5
<1>16. text \in Closed
  <2>1. pre \o <<tok>> \in Closed
    BY <1>2, <1>5, ClosedConcat
  <2>2. (pre \o <<tok>>) \o after \in Closed
    BY <2>1, ClosedConcat
  <2>3. text = (pre \o <<tok>>) \o after
    BY <1>1, <1>3, <1>5 DEF ClauseIn
  <2> QED
    BY ONLY <2>2, <2>3
<1> QED
  BY <1>9, <1>14, <1>15, <1>16

\* A clause: its word, and what follows.
Segment(v, body) == <<Word(v)>> \o body

LEMMA SegmentText ==
    ASSUME NEW v \in ClauseWords, NEW body \in Free(ClauseWords)
    PROVE  /\ Ends(Segment(v, body)) /\ Segment(v, body) \in Closed /\ Segment(v, body) \in Seq(Token)
           /\ body \in Seq(Token) /\ body \in Closed /\ \A w \in ClauseWords : body \in Free({w})
           /\ \A w \in ClauseWords : w # v => Segment(v, body) \in Free({w})
<1>1. body \in Seq(Token) /\ body \in Closed
  BY FreeText
<1>2. PICK u : u = Segment(v, body)
  OBVIOUS
<1>3. u \in Closed
  BY <1>1, <1>2, ClauseWord, ClosedConcat DEF Segment
<1>4. u \in Seq(Token) /\ u # <<>> /\ u[1] = Word(v)
  <2>1. PICK one \in Seq(Token) : one = <<Word(v)>> /\ Len(one) = 1 /\ one[1] = Word(v)
    BY ClauseWord, OneToken
  <2>2. Len(one \o body) = 1 + Len(body) /\ Len(body) \in Nat /\ (one \o body)[1] = one[1]
    BY <1>1, <2>1, ConcatProperties, LenProperties
  <2>3. u = one \o body
    BY <1>2, <2>1 DEF Segment
  <2>4. Len(u) # 0
    BY <2>2, <2>3
  <2> QED
    BY <1>3, <2>1, <2>2, <2>3, <2>4 DEF Closed
<1>5. Ends(u)
  BY <1>3, <1>4, ClauseWord DEF Ends
<1>6. ASSUME NEW w \in ClauseWords PROVE body \in Free({w})
  BY FreeFewer
<1>7. ASSUME NEW w \in ClauseWords, w # v PROVE u \in Free({w})
  <2>1. <<Word(v)>> \in Free({w})
    BY <1>7, ClauseWord
  <2> QED
    BY <1>2, <1>6, <2>1, FreeConcat DEF Segment
<1> QED
  BY <1>1, <1>2, <1>3, <1>4, <1>5, <1>6, <1>7

\* After a text that may end one, a clause is where it was.
LEMMA ClauseStays ==
    ASSUME NEW text, NEW w \in ClauseWords, NEW body, ClauseAt(text, w, body), NEW more, Ends(more)
    PROVE  ClauseAt(text \o more, w, body)
<1>1. PICK pre, rest : ClauseIn(text, w, pre, body, rest)
  BY DEF ClauseAt
<1>2. /\ pre \in Seq(Token) /\ body \in Seq(Token)
      /\ rest \in Closed /\ rest \in Seq(Token) /\ (rest = <<>> \/ rest[1].t \in ClauseWords)
      /\ more \in Closed /\ more \in Seq(Token) /\ (more = <<>> \/ more[1].t \in ClauseWords)
  <2>1. pre \in Free({w}) /\ body \in Free(ClauseWords) /\ Ends(rest)
    BY <1>1 DEF ClauseIn
  <2> QED
    BY <2>1, FreeText DEF Ends, Closed
<1>3. PICK after \in Closed : after = rest \o more
  BY <1>2, ClosedConcat
<1>4. Ends(after)
  <2>1. CASE rest = <<>>
    <3>1. after = more
      BY <1>2, <1>3, <2>1, ConcatProperties
    <3> QED
      BY <3>1
  <2>2. CASE rest # <<>>
    <3>1. Len(rest) \in Nat /\ Len(rest) # 0
      BY <1>2, <2>2, LenProperties
    <3>2. after[1] = rest[1] /\ after \in Seq(Token) /\ Len(after) = Len(rest) + Len(more) /\ Len(more) \in Nat
      BY <1>2, <1>3, <3>1, ConcatProperties, LenProperties
    <3> QED
      BY <1>2, <1>3, <2>2, <3>1, <3>2 DEF Ends
  <2> QED
    BY <2>1, <2>2
<1>5. text \o more = (pre \o <<Word(w)>>) \o (body \o after)
  <2>1. PICK x \in Seq(Token) : x = pre \o <<Word(w)>>
    <3>1. <<Word(w)>> \in Seq(Token)
      BY ClauseWord, OneToken
    <3> QED
      BY <1>2, <3>1, ConcatProperties
  <2>2. PICK y \in Seq(Token) : y = body \o rest
    BY <1>2, ConcatProperties
  <2>3. EitherWay(x, y, more) /\ EitherWay(body, rest, more)
    BY <1>2, ThreeTogether
  <2>4. text = x \o y
    BY Zenon, <1>1, <2>1, <2>2 DEF ClauseIn
  <2> QED
    BY Zenon, <1>3, <2>1, <2>2, <2>3, <2>4 DEF EitherWay
<1>6. pre \in Free({w}) /\ body \in Free(ClauseWords)
  BY <1>1 DEF ClauseIn
<1>7. ClauseIn(text \o more, w, pre, body, after)
  BY <1>4, <1>5, <1>6 DEF ClauseIn
<1> QED
  BY <1>7 DEF ClauseAt

\* Before it, a text without the word.
LEMMA ClauseMoves ==
    ASSUME NEW text, NEW w \in ClauseWords, NEW body, ClauseAt(text, w, body), NEW u \in Free({w})
    PROVE  ClauseAt(u \o text, w, body)
<1>1. PICK pre, rest : ClauseIn(text, w, pre, body, rest)
  BY DEF ClauseAt
<1>2. pre \in Free({w}) /\ body \in Free(ClauseWords) /\ Ends(rest)
  BY <1>1 DEF ClauseIn
<1>3. pre \in Seq(Token) /\ body \in Seq(Token) /\ rest \in Seq(Token) /\ u \in Seq(Token)
  BY <1>2, FreeText DEF Ends, Closed
<1>4. PICK x \in Free({w}) : x = u \o pre
  BY <1>2, FreeConcat
<1>5. u \o text = (x \o <<Word(w)>>) \o (body \o rest)
  <2>1. <<Word(w)>> \in Seq(Token)
    BY ClauseWord, OneToken
  <2>2. PICK y \in Seq(Token), z \in Seq(Token) : y = body \o rest /\ z = pre \o <<Word(w)>>
    BY <1>3, <2>1, ConcatProperties
  <2>3. EitherWay(u, z, y) /\ EitherWay(u, pre, <<Word(w)>>)
    BY <1>3, <2>1, ThreeTogether
  <2>4. text = z \o y
    BY Zenon, <1>1, <2>2 DEF ClauseIn
  <2> QED
    BY Zenon, <1>4, <2>2, <2>3, <2>4 DEF EitherWay
<1>6. ClauseIn(u \o text, w, x, body, rest)
  BY <1>2, <1>5 DEF ClauseIn
<1> QED
  BY <1>6 DEF ClauseAt

\* A text with one more clause.
LEMMA ClauseBegins ==
    ASSUME NEW w \in ClauseWords, NEW u \in Free({w}), NEW body \in Free(ClauseWords)
    PROVE  ClauseAt(u \o Segment(w, body), w, body)
<1>1. u \in Seq(Token) /\ body \in Seq(Token) /\ <<Word(w)>> \in Seq(Token)
  BY FreeText, ClauseWord, OneToken
<1>2. u \o Segment(w, body) = (u \o <<Word(w)>>) \o (body \o <<>>)
  <2>1. (u \o <<Word(w)>>) \o body = u \o (<<Word(w)>> \o body)
    BY <1>1, Associative
  <2>2. body \o <<>> = body
    BY <1>1, ConcatProperties
  <2> QED
    BY Zenon, <2>1, <2>2 DEF Segment
<1>3. Ends(<<>>)
  <2>1. <<>> \in Closed
    BY FreeNothing DEF Free
  <2> QED
    BY <2>1 DEF Ends
<1>4. ClauseIn(u \o Segment(w, body), w, u, body, <<>>)
  BY <1>2, <1>3 DEF ClauseIn
<1> QED
  BY <1>4 DEF ClauseAt

LEMMA AlikeClause ==
    ASSUME NEW s, NEW t, Alike(s, t), NEW w \in ClauseWords, NEW body, ClauseAt(t, w, body)
    PROVE  At(s, {w}) # {} /\ Alike(ClauseOf(s, w), ClauseOf(t, w))
<1>1. t \in Closed /\ At(t, {w}) # {} /\ ClauseOf(t, w) = body
  BY ClauseFound
<1>2. At(s, {w}) = At(t, {w}) /\ At(s, ClauseWords) = At(t, ClauseWords)
  BY AlikeDepths
<1>3. s \in Seq(Token) /\ t \in Seq(Token) /\ Len(s) = Len(t) /\ Len(s) \in Nat
  BY AlikeTokens
<1>4. PICK from, to : /\ ClauseOf(s, w) = SubSeq(s, from, to) /\ ClauseOf(t, w) = SubSeq(t, from, to)
                      /\ from = Min(At(t, {w})) + 1
                      /\ to = Min({Len(t) + 1} \cup {i \in At(t, ClauseWords) : i > Min(At(t, {w}))}) - 1
  <2>1. ClauseOf(s, w) = SubSeq(s, Min(At(s, {w})) + 1,
                   Min({Len(s) + 1} \cup {i \in At(s, ClauseWords) : i > Min(At(s, {w}))}) - 1)
    BY Zenon DEF ClauseOf
  <2>2. ClauseOf(t, w) = SubSeq(t, Min(At(t, {w})) + 1,
                   Min({Len(t) + 1} \cup {i \in At(t, ClauseWords) : i > Min(At(t, {w}))}) - 1)
    BY Zenon DEF ClauseOf
  <2> QED
    BY Zenon, <1>2, <1>3, <2>1, <2>2
<1>4a. PICK k, e : /\ k = Min(At(t, {w}))
                   /\ e = Min({Len(t) + 1} \cup {i \in At(t, ClauseWords) : i > k})
  OBVIOUS
<1>5. PICK l \in Nat : /\ l = Len(t) /\ k = Min(At(t, {w}))
                       /\ e = Min({Len(t) + 1} \cup {i \in At(t, ClauseWords) : i > k})
  BY <1>3, <1>4a
<1>6. k \in 1..l
  <2>1. PICK places : places = At(t, {w})
    OBVIOUS
  <2>2. places \subseteq 1..l /\ places # {}
    BY <1>1, <1>3, <1>5, <2>1, AtPlaces
  <2>3. places \subseteq Nat
    BY <2>2
  <2>4. k \in places
    BY <1>5, <2>1, <2>2, <2>3, LeastOf
  <2> QED
    BY <2>2, <2>4
<1>7. e \in (k + 1)..(l + 1)
  <2>1. PICK ends : ends = {l + 1} \cup {i \in At(t, ClauseWords) : i > k}
    OBVIOUS
  <2>2. At(t, ClauseWords) \subseteq 1..l
    BY <1>3, <1>5, AtPlaces
  <2>3. ends \subseteq (k + 1)..(l + 1) /\ ends # {}
    BY <1>6, <2>1, <2>2
  <2>4. ends \subseteq Nat
    BY <1>6, <2>3
  <2>5. e = Min(ends)
    BY <1>5, <2>1
  <2>6. e \in ends
    BY <2>3, <2>4, <2>5, LeastOf
  <2> QED
    BY <2>3, <2>6
<1>8. PICK n \in Nat : n = to - from + 1 /\ from = k + 1 /\ to = k + n /\ k + n <= l
  <2>1. from = k + 1 /\ to = e - 1
    BY <1>4, <1>5
  <2>2. to - from + 1 \in Nat /\ to = k + (to - from + 1) /\ to <= l
    BY <1>6, <1>7, <2>1
  <2> QED
    BY <2>1, <2>2
<1>9. ASSUME NEW x \in Seq(Token), Len(x) = l
      PROVE  /\ SubSeq(x, from, to) \in Seq(Token) /\ Len(SubSeq(x, from, to)) = n
             /\ \A i \in 1..n : SubSeq(x, from, to)[i] = x[k + i] /\ k + i \in 1..l
  <2>1. \A i \in 1..n : k + i \in 1..l /\ (i + from) - 1 = k + i /\ x[k + i] \in Token
    BY <1>6, <1>8, <1>9
  <2>2. PICK u : u = SubSeq(x, from, to)
    OBVIOUS
  <2>3. u = [i \in 1..n |-> x[k + i]]
    <3>1. k \in Nat
      BY <1>6
    <3>2. (k + n) - (k + 1) + 1 = n /\ \A i \in 1..n : (i + (k + 1)) - 1 = k + i
      BY <3>1
    <3>3. u = SubSeq(x, k + 1, k + n)
      BY <1>8, <2>2
    <3> QED
      BY <3>1, <3>2, <3>3
  <2> QED
    BY <2>1, <2>2, <2>3, AsSeq
<1>10. \A i \in 1..l : s[i] = t[i] \/ (s[i].t = "?" /\ t[i].t = "?")
  BY <1>3, <1>5 DEF Alike
<1>11. PICK x, y : x = SubSeq(s, from, to) /\ y = SubSeq(t, from, to)
  OBVIOUS
<1>12. /\ x \in Seq(Token) /\ y \in Seq(Token) /\ Len(x) = n /\ Len(y) = n
       /\ \A i \in 1..n : x[i] = s[k + i] /\ y[i] = t[k + i] /\ k + i \in 1..l
  BY <1>3, <1>5, <1>9, <1>11
<1>13. Alike(x, y)
  BY <1>10, <1>12 DEF Alike
<1> QED
  BY <1>1, <1>2, <1>4, <1>11, <1>13

\* Clauses among which none has the word w, and among which c alone has it.
Lacks(cs, w) == \A i \in 1..Len(cs) : cs[i].word # w
Alone(cs, w, c) ==
    \E m \in 1..Len(cs) : cs[m] = c /\ c.word = w /\ \A i \in 1..Len(cs) : i # m => cs[i].word # w

LEMMA LacksConcat ==
    ASSUME NEW S, NEW cs \in Seq(S), NEW es \in Seq(S), NEW w, Lacks(cs, w), Lacks(es, w)
    PROVE  Lacks(cs \o es, w)
<1>a. PICK all : all = cs \o es
  OBVIOUS
<1>1. PICK m \in Nat, n \in Nat : m = Len(cs) /\ n = Len(es) /\ all = cs \o es
  BY <1>a, LenProperties
<1>2. /\ Len(all) = m + n
      /\ \A i \in 1..m : all[i] = cs[i]
      /\ \A i \in 1..n : all[m + i] = es[i]
  BY <1>1, ConcatProperties
<1>3. ASSUME NEW i \in 1..(m + n) PROVE all[i].word # w
  <2>1. CASE i <= m
    BY <1>1, <1>2, <2>1 DEF Lacks
  <2>2. CASE i > m
    <3>1. PICK k \in 1..n : i = m + k
      <4>1. i - m \in 1..n /\ i = m + (i - m)
        BY <2>2
      <4> QED
        BY <4>1
    <3> QED
      BY <1>1, <1>2, <3>1 DEF Lacks
  <2> QED
    BY <2>1, <2>2
<1> QED
  BY <1>1, <1>2, <1>3 DEF Lacks

LEMMA AloneConcat ==
    ASSUME NEW S, NEW cs \in Seq(S), NEW es \in Seq(S), NEW w, NEW c,
           (Alone(cs, w, c) /\ Lacks(es, w)) \/ (Lacks(cs, w) /\ Alone(es, w, c))
    PROVE  Alone(cs \o es, w, c)
<1>a. PICK all : all = cs \o es
  OBVIOUS
<1>1. PICK m \in Nat, n \in Nat : m = Len(cs) /\ n = Len(es) /\ all = cs \o es
  BY <1>a, LenProperties
<1>2. /\ Len(all) = m + n
      /\ \A i \in 1..m : all[i] = cs[i]
      /\ \A i \in 1..n : all[m + i] = es[i]
  BY <1>1, ConcatProperties
<1>3. \A i \in 1..(m + n) : i \in 1..m \/ \E k \in 1..n : i = m + k
  <2> SUFFICES ASSUME NEW i \in 1..(m + n), i \notin 1..m PROVE \E k \in 1..n : i = m + k
    OBVIOUS
  <2>1. i - m \in 1..n /\ i = m + (i - m)
    OBVIOUS
  <2> QED
    BY <2>1
<1>4. CASE Alone(cs, w, c) /\ Lacks(es, w)
  <2>1. PICK j \in 1..m : cs[j] = c /\ c.word = w /\ \A i \in 1..m : i # j => cs[i].word # w
    BY <1>1, <1>4 DEF Alone
  <2>2. \A k \in 1..n : es[k].word # w
    BY <1>1, <1>4 DEF Lacks
  <2>3. j \in 1..(m + n) /\ all[j] = c
    BY <1>2, <2>1
  <2>4. \A i \in 1..(m + n) : i # j => all[i].word # w
    BY <1>2, <1>3, <2>1, <2>2
  <2> QED
    BY <1>1, <1>2, <2>1, <2>3, <2>4 DEF Alone
<1>5. CASE Lacks(cs, w) /\ Alone(es, w, c)
  <2>1. PICK j \in 1..n : es[j] = c /\ c.word = w /\ \A i \in 1..n : i # j => es[i].word # w
    BY <1>1, <1>5 DEF Alone
  <2>2. \A k \in 1..m : cs[k].word # w
    BY <1>1, <1>5 DEF Lacks
  <2>3. m + j \in 1..(m + n) /\ all[m + j] = c
    BY <1>2, <2>1
  <2>4. \A i \in 1..(m + n) : i # m + j => all[i].word # w
    BY <1>2, <1>3, <2>1, <2>2
  <2> QED
    BY <1>1, <1>2, <2>1, <2>3, <2>4 DEF Alone
<1> QED
  BY <1>4, <1>5

LEMMA GivenWord ==
    ASSUME NEW word, NEW plain, NEW nodes, NEW sep
    PROVE  /\ \A w : w # word => Lacks(Given1(word, plain, nodes, sep), w)
           /\ plain = <<>> /\ nodes = <<>> => \A w : Lacks(Given1(word, plain, nodes, sep), w)
           /\ nodes # <<>> => Alone(Given1(word, plain, nodes, sep), word, Clause(word, plain, nodes, sep))
<1>1. PICK c, cs : c = Clause(word, plain, nodes, sep) /\ cs = Given1(word, plain, nodes, sep)
  OBVIOUS
<1>2. c.word = word
  <2>1. c = [word |-> word, plain |-> plain, nodes |-> nodes, sep |-> sep]
    BY <1>1 DEF Clause
  <2> QED
    BY ONLY <2>1
<1>3. (cs = <<>> /\ plain = <<>> /\ nodes = <<>>) \/ (cs = <<c>> /\ ~(plain = <<>> /\ nodes = <<>>))
  BY Zenon, <1>1 DEF Given1
<1>4. Len(<<c>>) = 1 /\ <<c>>[1] = c /\ Len(<<>>) = 0
  OBVIOUS
<1>5. cs = <<>> => \A w : Lacks(cs, w)
  BY <1>4 DEF Lacks
<1>6. cs = <<c>> => (\A w : w # word => Lacks(cs, w)) /\ Alone(cs, word, c)
  BY <1>2, <1>4 DEF Lacks, Alone
<1> QED
  BY Zenon, <1>1, <1>3, <1>5, <1>6

\* The nodes of a clause alone with its word, if there are any.
OnlyIn(cs, w, nodes) ==
    IF nodes = <<>> THEN Lacks(cs, w) ELSE Alone(cs, w, Clause(w, <<>>, nodes, "AND"))

LEMMA OnlyInConcat ==
    ASSUME NEW S, NEW cs \in Seq(S), NEW es \in Seq(S), NEW w, NEW nodes,
           (OnlyIn(cs, w, nodes) /\ Lacks(es, w)) \/ (Lacks(cs, w) /\ OnlyIn(es, w, nodes))
    PROVE  OnlyIn(cs \o es, w, nodes) /\ cs \o es \in Seq(S)
<1>1. cs \o es \in Seq(S)
  BY ConcatProperties
<1>2. CASE nodes = <<>>
  BY <1>1, <1>2, LacksConcat DEF OnlyIn
<1>3. CASE nodes # <<>>
  BY <1>1, <1>3, AloneConcat DEF OnlyIn
<1> QED
  BY <1>2, <1>3

\* WHERE and HAVING are in a SELECT once at most, with its conditions.
LEMMA SelectHolds ==
    ASSUME NEW T, NEW C, NEW q \in BuildersOver(T, C)
    PROVE  OnlyIn(Clauses(q), "WHERE", q.conditions) /\ OnlyIn(Clauses(q), "HAVING", q.having)
<1>1. PICK first, from, joins, where, group, having, order, limit, offset :
          NineParts(q, first, from, joins, where, group, having, order, limit, offset)
  BY ClausesAreNine
<1> DEFINE K == Seq(ClausesOver(T))
<1>2. "n" \in Words /\ "," \in Separators /\ "AND" \in Separators
      /\ {"FROM", "WHERE", "GROUP_BY", "HAVING", "ORDER_BY", "LIMIT", "OFFSET"} \subseteq SelectWords
  <2>1. "n" \in Keywords
    BY Zenon DEF Keywords
  <2> QED
    BY <2>1, WordsAssumption DEF SelectWords, Separators
<1>3. <<"n">> \in Seq(Words) /\ <<>> \in Seq(Words) /\ <<>> \in Seq(T)
  <2>1. \A w \in Words : <<w>> \in Seq(Words)
    OBVIOUS
  <2>2. <<>> \in Seq(Words) /\ <<>> \in Seq(T)
    OBVIOUS
  <2> QED
    BY <1>2, <2>1, <2>2
<1>4. /\ first \in K /\ joins \in K /\ from \in K /\ where \in K /\ group \in K
      /\ having \in K /\ order \in K /\ limit \in K /\ offset \in K
  <2>1. first \in K /\ joins \in K
    BY <1>1, FirstType, JoinsType DEF NineParts
  <2>2. from \in K /\ where \in K /\ group \in K /\ having \in K /\ order \in K
    BY <1>1, <1>2, <1>3, GivenType, BuilderParts DEF NineParts
  <2>3. limit \in K /\ offset \in K
    BY <1>1, <1>2, <1>3, GivenType DEF NineParts
  <2> QED
    BY <2>1, <2>2, <2>3
<1>5. ASSUME NEW w \in {"WHERE", "HAVING"}
      PROVE  /\ Lacks(first, w) /\ Lacks(from, w) /\ Lacks(joins, w) /\ Lacks(group, w)
             /\ Lacks(order, w) /\ Lacks(limit, w) /\ Lacks(offset, w)
             /\ w # "WHERE" => Lacks(where, w)
             /\ w # "HAVING" => Lacks(having, w)
  <2>1. /\ Lacks(from, w) /\ Lacks(group, w) /\ Lacks(order, w) /\ Lacks(limit, w) /\ Lacks(offset, w)
        /\ w # "WHERE" => Lacks(where, w)
        /\ w # "HAVING" => Lacks(having, w)
    BY <1>1, GivenWord DEF NineParts
  <2>2. Lacks(joins, w)
    <3>1. joins = JoinClauses(q)
      BY <1>1, Zenon DEF NineParts
    <3>2. \A i \in 1..Len(joins) : joins[i].word \in JoinWords
      BY <3>1, JoinsType
    <3>3. w \notin JoinWords
      BY DEF JoinWords
    <3> QED
      BY <3>2, <3>3 DEF Lacks
  <2>3. Lacks(first, w)
    <3>1. PICK word, c :
              /\ word \in {"SELECT", "SELECT_DISTINCT"} /\ first = <<c>>
              /\ \E plain, nodes, sep : c = Clause(word, plain, nodes, sep)
      BY <1>1 DEF NineParts, First
    <3>2. c.word = word
      <4>1. PICK plain, nodes, sep : c = [word |-> word, plain |-> plain, nodes |-> nodes, sep |-> sep]
        BY <3>1 DEF Clause
      <4> QED
        BY ONLY <4>1
    <3> QED
      BY <3>1, <3>2 DEF Lacks
  <2> QED
    BY <2>1, <2>2, <2>3
<1>6. OnlyIn(where, "WHERE", q.conditions) /\ OnlyIn(having, "HAVING", q.having)
  BY <1>1, GivenWord DEF NineParts, OnlyIn
<1>7. PICK three \in K : three = first \o from \o joins
                         /\ Lacks(three, "WHERE") /\ Lacks(three, "HAVING")
  <2>1. PICK two \in K : two = first \o from /\ Lacks(two, "WHERE") /\ Lacks(two, "HAVING")
    <3>1. first \o from \in K
      BY <1>4, ConcatProperties
    <3> QED
      BY <1>4, <1>5, <3>1, LacksConcat
  <2>2. two \o joins \in K
    BY <1>4, ConcatProperties
  <2> QED
    BY <1>4, <1>5, <2>1, <2>2, LacksConcat
<1>8. PICK five \in K : five = three \o where \o group
                        /\ OnlyIn(five, "WHERE", q.conditions) /\ Lacks(five, "HAVING")
  <2>1. PICK four \in K : four = three \o where
                          /\ OnlyIn(four, "WHERE", q.conditions) /\ Lacks(four, "HAVING")
    <3>1. OnlyIn(three \o where, "WHERE", q.conditions) /\ three \o where \in K
      BY <1>4, <1>6, <1>7, OnlyInConcat
    <3>2. Lacks(three \o where, "HAVING")
      BY <1>4, <1>5, <1>7, LacksConcat
    <3> QED
      BY <3>1, <3>2
  <2>2. OnlyIn(four \o group, "WHERE", q.conditions) /\ four \o group \in K
    BY <1>4, <1>5, <2>1, OnlyInConcat
  <2>3. Lacks(four \o group, "HAVING")
    BY <1>4, <1>5, <2>1, LacksConcat
  <2> QED
    BY <2>1, <2>2, <2>3
<1>9. PICK six \in K : six = five \o having
                       /\ OnlyIn(six, "WHERE", q.conditions) /\ OnlyIn(six, "HAVING", q.having)
  <2>1. OnlyIn(five \o having, "WHERE", q.conditions) /\ five \o having \in K
    BY <1>4, <1>5, <1>8, OnlyInConcat
  <2>2. OnlyIn(five \o having, "HAVING", q.having)
    BY <1>4, <1>6, <1>8, OnlyInConcat
  <2> QED
    BY <2>1, <2>2
<1>10. PICK nine : nine = six \o order \o limit \o offset
                   /\ OnlyIn(nine, "WHERE", q.conditions) /\ OnlyIn(nine, "HAVING", q.having)
  <2>4. ASSUME NEW u \in K, OnlyIn(u, "WHERE", q.conditions), OnlyIn(u, "HAVING", q.having),
               NEW v \in K, Lacks(v, "WHERE"), Lacks(v, "HAVING")
        PROVE  u \o v \in K /\ OnlyIn(u \o v, "WHERE", q.conditions) /\ OnlyIn(u \o v, "HAVING", q.having)
    <3>1. OnlyIn(u \o v, "WHERE", q.conditions) /\ u \o v \in K
      BY <2>4, OnlyInConcat
    <3>2. OnlyIn(u \o v, "HAVING", q.having)
      BY <2>4, OnlyInConcat
    <3> QED
      BY <3>1, <3>2
  <2>5. /\ Lacks(order, "WHERE") /\ Lacks(order, "HAVING") /\ Lacks(limit, "WHERE")
        /\ Lacks(limit, "HAVING") /\ Lacks(offset, "WHERE") /\ Lacks(offset, "HAVING")
    BY <1>5
  <2>1. PICK seven \in K : seven = six \o order
                           /\ OnlyIn(seven, "WHERE", q.conditions) /\ OnlyIn(seven, "HAVING", q.having)
    BY <1>4, <1>9, <2>4, <2>5
  <2>2. PICK eight \in K : eight = seven \o limit
                           /\ OnlyIn(eight, "WHERE", q.conditions) /\ OnlyIn(eight, "HAVING", q.having)
    BY <1>4, <2>1, <2>4, <2>5
  <2>3. OnlyIn(eight \o offset, "WHERE", q.conditions) /\ OnlyIn(eight \o offset, "HAVING", q.having)
    BY <1>4, <2>2, <2>4, <2>5
  <2> QED
    BY <2>1, <2>2, <2>3
<1>11. Clauses(q) = nine
  <2>1. Clauses(q) = first \o from \o joins \o where \o group \o having \o order \o limit \o offset
    BY <1>1, Zenon DEF NineParts
  <2> QED
    BY Zenon, <1>7, <1>8, <1>9, <1>10, <2>1
<1> QED
  BY Zenon, <1>10, <1>11

\* The i-th clause of a statement.
WrittenAt(F, r, cs, i, c, p) ==
    /\ c = cs[i] /\ p \in Nat /\ c.word \in ClauseWords
    /\ ClauseBody(r, c, p) \in Free(ClauseWords)
    /\ F[i].text = F[i - 1].text \o Segment(c.word, ClauseBody(r, c, p))

LEMMA WrittenStep ==
    ASSUME NEW d \in Dialects, NEW T, NEW r, RendersRight(d, r, T), RendersFree(r, T),
           NEW cs \in Seq(ClausesOver(T)), NEW F \in [0..Len(cs) -> Fragments],
           Written(F, r, cs), NEW i \in 1..Len(cs)
    PROVE  \E c, p : WrittenAt(F, r, cs, i, c, p)
<1>1. i - 1 \in 0..Len(cs) /\ i \in 0..Len(cs)
  OBVIOUS
<1>2. PICK acc \in Fragments : acc = F[i - 1]
  BY <1>1
<1>3. PICK c \in ClausesOver(T) : c = cs[i]
  OBVIOUS
<1>4. PICK g : g = ClauseAfter(r, c, acc)
  OBVIOUS
<1>5. PICK p \in Nat : p = acc.next
  BY DEF Fragments
<1>6. ClauseBody(r, c, p) \in Free(ClauseWords)
  BY ClauseFree
<1>7. g.text = Segment(c.word, ClauseBody(r, c, p)) /\ c.word \in ClauseWords
  BY <1>4, <1>5, ClauseText DEF Segment
<1>8. F[i].text = acc.text \o g.text
  <2>1. PICK x, t, a, k : x = F[i] /\ t = acc.text \o g.text /\ a = acc.args \o g.args /\ k = g.next
    OBVIOUS
  <2>2. F[i] = Fragment(acc.text \o g.text, acc.args \o g.args, g.next)
    BY <1>2, <1>3, <1>4 DEF Written
  <2>3. x = [text |-> t, args |-> a, next |-> k]
    BY Zenon, <2>1, <2>2 DEF Fragment
  <2>4. x.text = t
    BY ONLY <2>3
  <2> QED
    BY Zenon, <2>1, <2>4
<1>9. WrittenAt(F, r, cs, i, c, p)
  BY Zenon, <1>2, <1>3, <1>6, <1>7, <1>8 DEF WrittenAt
<1> QED
  BY <1>9

\* A word that no clause has is not in the text; before the clause that alone
\* has it, it is not either, and from that clause on it is there.
LEMMA WrittenUpTo ==
    ASSUME NEW d \in Dialects, NEW T, NEW r, RendersRight(d, r, T), RendersFree(r, T),
           NEW cs \in Seq(ClausesOver(T)), NEW F \in [0..Len(cs) -> Fragments],
           Written(F, r, cs), NEW w \in ClauseWords, NEW m \in Nat, m <= Len(cs),
           \A i \in 1..m : cs[i].word # w
    PROVE  F[m].text \in Free({w})
<1> DEFINE P == {i \in 0..m : F[i].text \in Free({w})}
<1>1. 0 \in P
  <2>1. F[0].text = <<>>
    BY DEF Written, Fragment
  <2> QED
    BY <2>1, FreeNothing
<1>2. ASSUME NEW i \in 0..(m - 1), i \in P PROVE i + 1 \in P
  <2>1. i + 1 \in 1..Len(cs) /\ i + 1 \in 1..m /\ (i + 1) - 1 = i
    OBVIOUS
  <2>2. PICK c, p : WrittenAt(F, r, cs, i + 1, c, p)
    BY <2>1, WrittenStep
  <2>3. /\ c.word \in ClauseWords /\ c.word # w /\ ClauseBody(r, c, p) \in Free(ClauseWords)
        /\ F[i + 1].text = F[i].text \o Segment(c.word, ClauseBody(r, c, p))
    BY <2>1, <2>2 DEF WrittenAt
  <2>4. Segment(c.word, ClauseBody(r, c, p)) \in Free({w})
    BY <2>3, SegmentText
  <2>5. F[i + 1].text \in Free({w})
    BY <1>2, <2>3, <2>4, FreeConcat
  <2> QED
    BY <2>1, <2>5
<1>3. \A i \in 0..m : i \in P
  <2> HIDE DEF P
  <2> QED
    BY <1>1, <1>2, Upwards
<1>4. m \in 0..m
  OBVIOUS
<1> QED
  BY <1>3, <1>4

LEMMA WrittenHolds ==
    ASSUME NEW d \in Dialects, NEW T, NEW r, RendersRight(d, r, T), RendersFree(r, T),
           NEW cs \in Seq(ClausesOver(T)), NEW F \in [0..Len(cs) -> Fragments],
           Written(F, r, cs), NEW w \in ClauseWords, NEW c, Alone(cs, w, c)
    PROVE  \E p \in Nat : ClauseAt(F[Len(cs)].text, w, ClauseBody(r, c, p))
<1>1. PICK n \in Nat : n = Len(cs)
  BY LenProperties
<1>2. PICK m \in 1..n : cs[m] = c /\ c.word = w /\ \A i \in 1..n : i # m => cs[i].word # w
  BY <1>1 DEF Alone
<1>3. PICK k \in Nat : k = m - 1 /\ k <= n
  BY <1>2
<1>4. F[k].text \in Free({w})
  <2>1. \A i \in 1..k : cs[i].word # w
    BY <1>2, <1>3
  <2> QED
    BY <1>1, <1>3, <2>1, WrittenUpTo
<1>5. PICK g, p : WrittenAt(F, r, cs, m, g, p)
  BY <1>1, WrittenStep
<1>6. PICK body \in Free(ClauseWords) : body = ClauseBody(r, c, p) /\ p \in Nat
                                        /\ F[m].text = F[k].text \o Segment(w, body)
  BY <1>2, <1>3, <1>5 DEF WrittenAt
<1> DEFINE P == {j \in 0..(n - m) : ClauseAt(F[m + j].text, w, body)}
<1>7. 0 \in P
  <2>1. ClauseAt(F[m].text, w, body)
    BY <1>4, <1>6, ClauseBegins
  <2>2. m + 0 = m /\ 0 \in 0..(n - m)
    BY <1>2
  <2> QED
    BY <2>1, <2>2
<1>8. ASSUME NEW j \in 0..((n - m) - 1), j \in P PROVE j + 1 \in P
  <2>1. m + (j + 1) \in 1..n /\ (m + (j + 1)) - 1 = m + j /\ m + (j + 1) # m /\ j + 1 \in 0..(n - m)
    OBVIOUS
  <2>2. PICK e, q : WrittenAt(F, r, cs, m + (j + 1), e, q)
    BY <1>1, <2>1, WrittenStep
  <2>3. /\ e.word \in ClauseWords /\ ClauseBody(r, e, q) \in Free(ClauseWords)
        /\ F[m + (j + 1)].text = F[m + j].text \o Segment(e.word, ClauseBody(r, e, q))
    BY <2>1, <2>2 DEF WrittenAt
  <2>4. Ends(Segment(e.word, ClauseBody(r, e, q)))
    BY <2>3, SegmentText
  <2>5. ClauseAt(F[m + (j + 1)].text, w, body)
    BY <1>8, <2>3, <2>4, ClauseStays
  <2> QED
    BY <2>1, <2>5
<1>9. n - m \in Nat
  BY <1>2
<1>10. \A j \in 0..(n - m) : j \in P
  <2> HIDE DEF P
  <2> QED
    BY <1>7, <1>8, <1>9, Upwards
<1>11. m + (n - m) = n /\ n - m \in 0..(n - m)
  BY <1>2, <1>9
<1> QED
  BY <1>1, <1>6, <1>10, <1>11

\* A text has a clause that means these conditions, or no such clause when
\* there are none.
Stands(text, w, rows, conds) ==
    /\ text \in Closed
    /\ conds = <<>> => text \in Free({w})
    /\ conds # <<>> => \E body : ClauseAt(text, w, body) /\ ConditionsMean(rows, body, conds)

LEMMA SelectStands ==
    ASSUME NEW d \in Dialects, NEW C, NEW q \in BuildersOver(Trees[MaxHeight], C), NEW rows,
           ~SelectBuild(Rendering(d)[MaxHeight], q).err,
           NEW w \in {"WHERE", "HAVING"}, NEW conds,
           conds = IF w = "WHERE" THEN q.conditions ELSE q.having,
           \A i \in 1..Len(conds) : SenseOf({}, conds[i]).condition
    PROVE  Stands(SelectBuild(Rendering(d)[MaxHeight], q).text, w, rows, conds)
<1>1. PICK r, T : r = Rendering(d)[MaxHeight] /\ T = Trees[MaxHeight]
  OBVIOUS
<1>2. MaxHeight \in 0..MaxHeight /\ w \in ClauseWords
  BY WordsAssumption DEF ClauseWords
<1>3. RendersRight(d, r, T) /\ RendersFree(r, T)
  BY <1>1, <1>2, TreesRight, TreesFree
<1>4. PICK cs \in Seq(ClausesOver(T)) : cs = Clauses(q)
  BY <1>1, ClausesType
<1>5. PICK F \in [0..Len(cs) -> Fragments] :
          /\ Written(F, r, cs)
          /\ SelectBuild(r, q) =
                IF q.err \/ HasInvalid(Looked(q)) THEN Refused
                ELSE [err |-> FALSE, text |-> F[Len(cs)].text, args |-> F[Len(cs)].args]
  <2>1. q \in BuildersOver(T, C)
    BY <1>1
  <2> QED
    BY ONLY <1>3, <1>4, <2>1, d \in Dialects, SelectLinks
<1>6. PICK n, text : n \in Nat /\ n = Len(cs) /\ text = F[n].text /\ SelectBuild(r, q).text = text
  <2>1. PICK built_ : built_ = SelectBuild(r, q)
    OBVIOUS
  <2>2. built_.err # TRUE /\ Refused.err = TRUE
    BY <1>1, <2>1 DEF Refused
  <2>3. built_ = [err |-> FALSE, text |-> F[Len(cs)].text, args |-> F[Len(cs)].args]
    BY <1>5, <2>1, <2>2
  <2>4. built_.text = F[Len(cs)].text /\ Len(cs) \in Nat
    BY <2>3, LenProperties
  <2> QED
    BY <2>1, <2>4
<1>7. OnlyIn(cs, w, conds)
  BY <1>1, <1>4, SelectHolds
<1>8. text \in Closed
  BY <1>3, <1>5, <1>6, WrittenClosed
<1>9. CASE conds = <<>>
  <2>1. \A i \in 1..n : cs[i].word # w
    BY <1>6, <1>7, <1>9 DEF OnlyIn, Lacks
  <2>2. text \in Free({w})
    <3>1. n <= Len(cs) /\ n \in Nat
      BY <1>6
    <3>2. F[n].text \in Free({w})
      BY <1>2, <1>3, <1>5, <2>1, <3>1, WrittenUpTo
    <3> QED
      BY <1>6, <3>2
  <2> QED
    BY <1>1, <1>6, <1>8, <1>9, <2>2 DEF Stands
<1>10. CASE conds # <<>>
  <2>1. PICK c : c = Clause(w, <<>>, conds, "AND")
    OBVIOUS
  <2>1a. PICK p \in Nat : \E body : body = ClauseBody(r, c, p) /\ ClauseAt(text, w, body)
    <3>1. Alone(cs, w, c)
      BY <1>7, <1>10, <2>1 DEF OnlyIn
    <3> QED
      BY <1>2, <1>3, <1>5, <1>6, <3>1, WrittenHolds
  <2>2. PICK body : body = ClauseBody(r, c, p) /\ ClauseAt(text, w, body)
    BY <2>1a
  <2>3. conds \in Seq(T)
    BY <1>1, BuilderParts
  <2>4. PICK parts : parts = Chain(r, conds, p).parts
    OBVIOUS
  <2>5. parts \in Seq(Free(Outside)) /\ ConditionsMean(rows, Joined(parts, "AND"), conds)
    BY <1>1, <1>10, <2>3, <2>4, AllConditions
  <2>6. body = Joined(parts, "AND")
    <3>1. c = [word |-> w, plain |-> <<>>, nodes |-> conds, sep |-> "AND"]
      BY <2>1 DEF Clause
    <3>2. c.plain = <<>> /\ c.nodes = conds /\ c.sep = "AND"
      BY ONLY <3>1
    <3>3. [i \in DOMAIN <<>> |-> <<Name(<<>>[i])>>] = <<>>
      OBVIOUS
    <3>4. <<>> \o parts = parts
      BY <2>5, ConcatProperties
    <3>5. body = Joined([i \in DOMAIN c.plain |-> <<Name(c.plain[i])>>] \o Chain(r, c.nodes, p).parts, c.sep)
      BY Zenon, <2>2 DEF ClauseBody
    <3> QED
      BY Zenon, <2>4, <3>2, <3>3, <3>4, <3>5
  <2>7. ConditionsMean(rows, body, conds)
    BY ONLY <2>5, <2>6
  <2> QED
    BY <1>1, <1>6, <1>8, <1>10, <2>2, <2>7 DEF Stands
<1> QED
  BY <1>9, <1>10

-----------------------------------------------------------------------------
(* Statements                                                              *)

\* What a clause of a text says: Stands, by what is read there.
Says(text, w, rows, conds) ==
    /\ conds = <<>> => At(text, {w}) = {}
    /\ conds # <<>> => At(text, {w}) # {} /\ ConditionsMean(rows, ClauseOf(text, w), conds)

LEMMA StandsSays ==
    ASSUME NEW w \in ClauseWords, NEW rows, NEW conds, NEW text, Stands(text, w, rows, conds),
           NEW other, Alike(other, text)
    PROVE  Says(other, w, rows, conds)
<1>1. CASE conds = <<>>
  <2>1. At(text, {w}) = {}
    BY <1>1, FreeText DEF Stands
  <2> QED
    BY <1>1, <2>1, AlikeDepths DEF Says
<1>2. CASE conds # <<>>
  <2>1. PICK body : ClauseAt(text, w, body) /\ ConditionsMean(rows, body, conds)
    BY <1>2 DEF Stands
  <2>2. ClauseOf(text, w) = body
    BY <2>1, ClauseFound
  <2>3. At(other, {w}) # {} /\ Alike(ClauseOf(other, w), ClauseOf(text, w))
    BY <2>1, AlikeClause
  <2>4. PICK read : read = ClauseOf(other, w) /\ Alike(read, body)
    BY <2>2, <2>3
  <2>5. (Reads(rows, read).ok <=> Reads(rows, body).ok) /\ Reads(rows, read) = Reads(rows, body)
    BY <2>4, SameReading DEF SameAnswer
  <2>6. ConditionsMean(rows, read, conds)
    BY <2>1, <2>5 DEF ConditionsMean
  <2> QED
    BY <1>2, <2>3, <2>4, <2>6 DEF Says
<1> QED
  BY <1>1, <1>2

\* What WhereSQL writes.
WhereSays(text, rows, conds) ==
    /\ conds = <<>> => text = <<>>
    /\ conds # <<>> => \E body \in Free(ClauseWords) :
                          text = Segment("WHERE", body) /\ ConditionsMean(rows, body, conds)

LEMMA AndRenders ==
    ASSUME NEW d \in Dialects, NEW conds \in Seq(Trees[MaxHeight - 1]), NEW p \in Nat
    PROVE  \E args, next :
              ToSQL(d, And(conds), p)
                = Fragment(Composed(And(conds), Chain(Rendering(d)[MaxHeight - 1], conds, p).parts), args, next)
<1>1. MaxHeight \in Nat /\ MaxHeight - 1 \in 0..(MaxHeight - 1) /\ (MaxHeight - 1) + 1 = MaxHeight
  BY WordsAssumption, BuildersAssumption
<1>2. PICK n, r : n = And(conds) /\ r = Rendering(d)[MaxHeight - 1]
  OBVIOUS
<1>3. n \in Trees[MaxHeight]
  <2>1. n \in NodesOver(Trees[MaxHeight - 1])
    BY <1>2, InnerTree DEF And
  <2>2. Trees[(MaxHeight - 1) + 1] = NodesOver(Trees[MaxHeight - 1])
    BY <1>1, TreesHeights
  <2> QED
    BY <1>1, <2>1, <2>2
<1>4. n.k = "and" /\ n.subs = conds
  BY <1>2 DEF And, Node
<1>5. Rendering(d)[MaxHeight][<<n, p>>] = NodeSQL(d, r, n, p)
  <2>1. Rendering(d)[(MaxHeight - 1) + 1] =
            [at \in Trees[(MaxHeight - 1) + 1] \X Nat |-> NodeSQL(d, Rendering(d)[MaxHeight - 1], at[1], at[2])]
    BY <1>1, Zenon, RenderingHeights
  <2>2. Rendering(d)[MaxHeight] = [at \in Trees[MaxHeight] \X Nat |-> NodeSQL(d, r, at[1], at[2])]
    BY Zenon, <1>1, <1>2, <2>1
  <2>3. <<n, p>> \in Trees[MaxHeight] \X Nat /\ <<n, p>>[1] = n /\ <<n, p>>[2] = p
    BY <1>3
  <2> QED
    BY <2>2, <2>3
<1>6. NodeSQL(d, r, n, p) = Fragment(Composed(n, Chain(r, n.subs, p).parts), Chain(r, n.subs, p).args,
                                     Chain(r, n.subs, p).next)
  BY <1>4 DEF NodeSQL
<1>7. ToSQL(d, And(conds), p) = Fragment(Composed(And(conds), Chain(r, conds, p).parts),
                                         Chain(r, n.subs, p).args, Chain(r, n.subs, p).next)
  BY Zenon, <1>2, <1>4, <1>5, <1>6 DEF ToSQL
<1> QED
  BY Zenon, <1>2, <1>7

LEMMA WhereText ==
    ASSUME dialect \in Dialects, b.conditions \in Seq(Trees[MaxHeight - 1]), NEW rows, NEW p \in Nat,
           \A i \in 1..Len(b.conditions) : SenseOf({}, b.conditions[i]).condition
    PROVE  WhereSays(WhereSQL(p).text, rows, b.conditions)
<1>1. PICK conds, h : conds = b.conditions /\ h = MaxHeight - 1
  OBVIOUS
<1>2. CASE conds = <<>>
  <2>1. WhereSQL(p) = Fragment(<<>>, <<>>, p)
    BY <1>1, <1>2 DEF WhereSQL
  <2>2. WhereSQL(p).text = <<>>
    BY <2>1 DEF Fragment
  <2> QED
    BY <1>1, <1>2, <2>2 DEF WhereSays
<1>3. CASE conds # <<>>
  <2>1. PICK parts : parts = Chain(Rendering(dialect)[h], conds, p).parts
    OBVIOUS
  <2>2. /\ parts \in Seq(Free(Outside))
        /\ ConditionsMean(rows, Composed(And(conds), parts), conds)
    BY <1>1, <1>3, <2>1, AllConditions
  <2>3. PICK body : body = Composed(And(conds), parts)
    OBVIOUS
  <2>4. body \in Free(ClauseWords)
    <3>1. PICK n : n = And(conds)
      OBVIOUS
    <3>4. n.k = "and" /\ n.name = "none"
      BY <3>1 DEF And, Node
    <3>2. "none" \in Words
      <4>1. "none" \in Keywords
        BY DEF Keywords
      <4> QED
        BY <4>1, WordsAssumption
    <3>3. body \in Free(Outside)
      BY <2>2, <2>3, <3>1, <3>2, <3>4, ComposedFree
    <3> QED
      BY <3>3, FreeFewer DEF Outside
  <2>5. PICK args, next : ToSQL(dialect, And(conds), p) = Fragment(body, args, next)
    BY <1>1, <2>1, <2>3, AndRenders
  <2>6. WhereSQL(p).text = Segment("WHERE", body)
    <3>1. PICK where : where = ToSQL(dialect, And(conds), p)
      OBVIOUS
    <3>2. where = [text |-> body, args |-> args, next |-> next]
      BY Zenon, <2>5, <3>1 DEF Fragment
    <3>3. WhereSQL(p) = [where EXCEPT !.text = <<Word("WHERE")>> \o @]
      BY <1>1, <1>3, <3>1 DEF WhereSQL
    <3>4. WhereSQL(p).text = <<Word("WHERE")>> \o body
      BY <3>2, <3>3
    <3> QED
      BY Zenon, <3>4 DEF Segment
  <2> QED
    BY <1>1, <1>3, <2>2, <2>3, <2>4, <2>6 DEF WhereSays
<1> QED
  BY <1>2, <1>3

\* A word of its own ends what is before it.
LEMMA WordEnds ==
    ASSUME NEW v \in ClauseWords, NEW text, text = <<>> \/ text = <<Word(v)>>
    PROVE  Ends(text) /\ \A w \in ClauseWords : w # v => text \in Free({w})
<1>1. CASE text = <<>>
  <2>1. \A W : <<>> \in Free(W)
    BY FreeNothing
  <2>2. <<>> \in Closed
    BY <2>1, FreeText
  <2> QED
    BY <1>1, <2>1, <2>2 DEF Ends
<1>2. CASE text = <<Word(v)>>
  <2>1. PICK tok : tok = Word(v) /\ text = <<tok>>
    BY <1>2
  <2>2. text[1] = tok
    BY <2>1
  <2>3. tok.t = v /\ text \in Closed /\ \A W : v \notin W => text \in Free(W)
    BY <2>1, ClauseWord
  <2> QED
    BY <2>2, <2>3 DEF Ends
<1> QED
  BY <1>1, <1>2

LEMMA ReturningText ==
    /\ Ends(ReturningSQL)
    /\ \A w \in ClauseWords : w # "RETURNING" => ReturningSQL \in Free({w})
<1>1. "RETURNING" \in ClauseWords
  BY DEF ClauseWords
<1>2. ReturningSQL = <<>> \/ ReturningSQL = <<Word("RETURNING")>>
  BY DEF ReturningSQL
<1> QED
  BY <1>1, <1>2, WordEnds

\* A statement with a WHERE clause between others.
LEMMA StatementStands ==
    ASSUME NEW u \in Free({"WHERE"}), NEW where, NEW rows, NEW conds, WhereSays(where, rows, conds),
           NEW v \in Free({"WHERE"}), Ends(v)
    PROVE  Stands((u \o where) \o v, "WHERE", rows, conds) /\ Ends(where) /\ where \in Seq(Token)
<1>1. "WHERE" \in ClauseWords
  BY DEF ClauseWords
<1>2. CASE conds = <<>>
  <2>1. where = <<>> /\ <<>> \in Free({"WHERE"})
    BY <1>2, FreeNothing DEF WhereSays
  <2>2. (u \o where) \o v \in Free({"WHERE"})
    BY <2>1, FreeConcat
  <2> QED
    BY <1>2, <2>1, <2>2, FreeText DEF Stands, Ends
<1>3. CASE conds # <<>>
  <2>1. PICK body \in Free(ClauseWords) : where = Segment("WHERE", body) /\ ConditionsMean(rows, body, conds)
    BY <1>3 DEF WhereSays
  <2>2. ClauseAt(u \o where, "WHERE", body)
    BY <1>1, <2>1, ClauseBegins
  <2>3. ClauseAt((u \o where) \o v, "WHERE", body)
    BY <1>1, <2>2, ClauseStays
  <2>4. (u \o where) \o v \in Closed
    BY <1>1, <2>3, ClauseFound
  <2>5. Ends(where) /\ where \in Seq(Token)
    BY <1>1, <2>1, SegmentText
  <2> QED
    BY <1>3, <2>1, <2>3, <2>4, <2>5 DEF Stands
<1> QED
  BY <1>2, <1>3

\* And no HAVING.
LEMMA StatementLacks ==
    ASSUME NEW u \in Free({"HAVING"}), NEW where, NEW rows, NEW conds, WhereSays(where, rows, conds),
           NEW v \in Free({"HAVING"})
    PROVE  Stands((u \o where) \o v, "HAVING", rows, <<>>)
<1>1. "WHERE" \in ClauseWords /\ "HAVING" \in ClauseWords
  BY DEF ClauseWords
<1>2. where \in Free({"HAVING"})
  <2>1. CASE conds = <<>>
    BY <2>1, FreeNothing DEF WhereSays
  <2>2. CASE conds # <<>>
    <3>1. PICK body \in Free(ClauseWords) : where = Segment("WHERE", body)
      BY <2>2 DEF WhereSays
    <3> QED
      BY <1>1, <3>1, SegmentText
  <2> QED
    BY <2>1, <2>2
<1>3. (u \o where) \o v \in Free({"HAVING"})
  BY <1>2, FreeConcat
<1> QED
  BY <1>3, FreeText DEF Stands

\* The assignments of an UPDATE.
Assignments == [i \in DOMAIN b.sets |-> <<Name(b.sets[i][1]), Mark(dialect, i, b.sets[i][2])>>]

LEMMA AssignmentsText ==
    ASSUME dialect \in Dialects, b.sets \in Seq(Words \X BoundValues)
    PROVE  /\ Assignments \in Seq(Free(ClauseWords)) /\ Len(Assignments) = Len(b.sets)
           /\ \A i \in 1..Len(b.sets) :
                 /\ Assignments[i] = <<Name(b.sets[i][1]), Mark(dialect, i, b.sets[i][2])>>
                 /\ Name(b.sets[i][1]) \in Token /\ Mark(dialect, i, b.sets[i][2]) \in Token
           /\ Joined(Assignments, ",") \in Free(ClauseWords)
<1>1. PICK s : s = b.sets
  OBVIOUS
<1>2. /\ Len(s) \in Nat /\ DOMAIN s = 1..Len(s)
      /\ \A i \in 1..Len(s) : s[i][1] \in Words /\ s[i][2] \in BoundValues
  BY <1>1
<1>3. ASSUME NEW i \in 1..Len(s)
      PROVE  /\ <<Name(s[i][1]), Mark(dialect, i, s[i][2])>> \in Free(ClauseWords)
             /\ Name(s[i][1]) \in Token /\ Mark(dialect, i, s[i][2]) \in Token
  <2>1. PICK name \in Words, value \in BoundValues : name = s[i][1] /\ value = s[i][2]
    BY <1>2
  <2>2. Name(name) \in Token /\ <<Name(name)>> \in Free(ClauseWords)
    BY FreeNames, NamesUnmarked
  <2>3. i \in Nat
    OBVIOUS
  <2>4. PICK tok \in Token : tok = Mark(dialect, i, value) /\ tok.t = "?"
    BY <2>3, MarkTokens
  <2>5. "?" \notin Brackets /\ "?" \notin ClauseWords
    BY OutsideWords DEF Outside
  <2>6. <<tok>> \in Free(ClauseWords)
    BY <2>4, <2>5, FreeToken
  <2>7. <<Name(name)>> \o <<tok>> = <<Name(name), tok>>
    BY <2>2, Pair
  <2>8. <<Name(name)>> \o <<tok>> \in Free(ClauseWords)
    BY <2>2, <2>6, FreeConcat
  <2> QED
    BY <2>1, <2>2, <2>4, <2>7, <2>8
<1>4. PICK sets : sets = Assignments
  OBVIOUS
<1>5. /\ sets \in [1..Len(s) -> Free(ClauseWords)]
      /\ \A i \in 1..Len(s) : sets[i] = <<Name(s[i][1]), Mark(dialect, i, s[i][2])>>
  BY <1>1, <1>2, <1>3, <1>4 DEF Assignments
<1>6. sets \in Seq(Free(ClauseWords)) /\ Len(sets) = Len(s)
  BY <1>2, <1>5, AsSeq
<1>7. "," \in Keywords /\ "," \notin Brackets /\ "," \notin ClauseWords
  BY BracketKeywords, OutsideWords DEF Outside, Brackets, Opening, Closing
<1>8. Joined(sets, ",") \in Free(ClauseWords)
  BY <1>6, <1>7, FreeJoined
<1> QED
  BY <1>1, <1>3, <1>4, <1>5, <1>6, <1>8

LEMMA UpdateReads ==
    ASSUME dialect \in Dialects, b.sets \in Seq(Words \X BoundValues),
           b.conditions \in Seq(Trees[MaxHeight - 1]), NEW rows,
           \A i \in 1..Len(b.conditions) : SenseOf({}, b.conditions[i]).condition,
           ~UpdateBuild.err
    PROVE  /\ Stands(UpdateBuild.text, "WHERE", rows, b.conditions)
           /\ Stands(UpdateBuild.text, "HAVING", rows, <<>>)
           /\ ClauseAt(UpdateBuild.text, "SET", Joined(Assignments, ","))
<1>1. PICK n \in Nat : n = Len(Assignments) + 1
  <2>1. Len(b.sets) \in Nat
    BY LenProperties
  <2>2. Len(Assignments) = Len(b.sets)
    BY AssignmentsText
  <2>3. Len(Assignments) + 1 \in Nat
    BY <2>1, <2>2
  <2> QED
    BY <2>3
<1>2. PICK where, v : where = WhereSQL(n).text /\ v = ReturningSQL
  OBVIOUS
<1>3. PICK sets \in Free(ClauseWords) : sets = Joined(Assignments, ",")
  BY AssignmentsText
<1>4. UpdateBuild.text = <<Word("UPDATE"), Word("SET")>> \o sets \o where \o v
  <2>1. UpdateBuild = IF b.err \/ ~ValidIdentifier(b.table[1]) \/ HasInvalid(b.conditions) THEN Refused
                      ELSE [err |-> FALSE,
                            text |-> <<Word("UPDATE"), Word("SET")>> \o Joined(Assignments, ",")
                                       \o WhereSQL(Len(Assignments) + 1).text \o ReturningSQL,
                            args |-> [i \in DOMAIN b.sets |-> b.sets[i][2]]
                                       \o WhereSQL(Len(Assignments) + 1).args]
    BY Zenon DEF UpdateBuild, Assignments
  <2>2. PICK up, text, args : /\ up = UpdateBuild
                              /\ text = <<Word("UPDATE"), Word("SET")>> \o sets \o where \o v
                              /\ args = [i \in DOMAIN b.sets |-> b.sets[i][2]] \o WhereSQL(n).args
    OBVIOUS
  <2>3. up # Refused
    BY <2>2 DEF Refused
  <2>4. up = [err |-> FALSE, text |-> text, args |-> args]
    BY Zenon, <1>1, <1>2, <1>3, <2>1, <2>2, <2>3
  <2>5. up.text = text
    BY ONLY <2>4
  <2> QED
    BY Zenon, <2>2, <2>5
<1>5. {"WHERE", "HAVING", "SET", "UPDATE"} \subseteq ClauseWords
  BY DEF ClauseWords
<1>6. /\ <<Word("UPDATE")>> \in Free({"WHERE"}) /\ <<Word("UPDATE")>> \in Free({"SET"})
      /\ <<Word("SET")>> \in Free({"WHERE"}) /\ <<Word("UPDATE")>> \in Free({"HAVING"})
      /\ Word("UPDATE") \in Token /\ Word("SET") \in Token
  BY <1>5, ClauseWord
<1>7. PICK u : u = <<Word("UPDATE"), Word("SET")>> \o sets
  OBVIOUS
<1>8. u = <<Word("UPDATE")>> \o Segment("SET", sets)
  <2>1. <<Word("UPDATE")>> \in Seq(Token) /\ <<Word("SET")>> \in Seq(Token) /\ sets \in Seq(Token)
    BY <1>6, FreeText
  <2>2. <<Word("UPDATE")>> \o <<Word("SET")>> = <<Word("UPDATE"), Word("SET")>>
    BY <1>6, Pair
  <2>3. EitherWay(<<Word("UPDATE")>>, <<Word("SET")>>, sets)
    BY <2>1, ThreeTogether
  <2> QED
    BY Zenon, <1>7, <2>2, <2>3 DEF EitherWay, Segment
<1>9. u \in Free({"WHERE"}) /\ u \in Free({"HAVING"})
  <2>1. Segment("SET", sets) \in Free({"WHERE"}) /\ Segment("SET", sets) \in Free({"HAVING"})
    BY <1>5, SegmentText
  <2> QED
    BY <1>6, <1>8, <2>1, FreeConcat
<1>10. ClauseAt(u, "SET", sets)
  BY <1>5, <1>6, <1>8, ClauseBegins
<1>11. Ends(v) /\ v \in Free({"WHERE"}) /\ v \in Free({"HAVING"})
  BY <1>2, <1>5, ReturningText
<1>12. WhereSays(where, rows, b.conditions)
  BY <1>2, WhereText
<1>13. Stands((u \o where) \o v, "WHERE", rows, b.conditions) /\ Ends(where)
       /\ Stands((u \o where) \o v, "HAVING", rows, <<>>)
  BY <1>9, <1>11, <1>12, StatementStands, StatementLacks
<1>14. ClauseAt((u \o where) \o v, "SET", sets)
  <2>1. ClauseAt(u \o where, "SET", sets)
    BY <1>5, <1>10, <1>13, ClauseStays
  <2> QED
    BY <1>5, <1>11, <2>1, ClauseStays
<1>15. UpdateBuild.text = (u \o where) \o v
  BY Zenon, <1>4, <1>7
<1> QED
  BY Zenon, <1>3, <1>13, <1>14, <1>15

LEMMA DeleteReads ==
    ASSUME dialect \in Dialects, b.conditions \in Seq(Trees[MaxHeight - 1]), NEW rows,
           \A i \in 1..Len(b.conditions) : SenseOf({}, b.conditions[i]).condition,
           ~DeleteBuild.err
    PROVE  /\ Stands(DeleteBuild.text, "WHERE", rows, b.conditions)
           /\ Stands(DeleteBuild.text, "HAVING", rows, <<>>)
<1>1. PICK where, v : where = WhereSQL(1).text /\ v = ReturningSQL
  OBVIOUS
<1>2. DeleteBuild.text = <<Word("DELETE")>> \o where \o v
  <2>1. DeleteBuild = IF ~ValidIdentifier(b.table[1]) THEN Refused
                      ELSE [err |-> FALSE, text |-> <<Word("DELETE")>> \o WhereSQL(1).text \o ReturningSQL,
                            args |-> WhereSQL(1).args]
    BY Zenon DEF DeleteBuild
  <2>2. PICK del, text, args : /\ del = DeleteBuild /\ args = WhereSQL(1).args
                               /\ text = <<Word("DELETE")>> \o where \o v
    OBVIOUS
  <2>3. del # Refused
    BY <2>2 DEF Refused
  <2>4. del = [err |-> FALSE, text |-> text, args |-> args]
    BY Zenon, <1>1, <2>1, <2>2, <2>3
  <2>5. del.text = text
    BY ONLY <2>4
  <2> QED
    BY Zenon, <2>2, <2>5
<1>3. {"WHERE", "HAVING", "DELETE"} \subseteq ClauseWords
  BY DEF ClauseWords
<1>4. <<Word("DELETE")>> \in Free({"WHERE"}) /\ <<Word("DELETE")>> \in Free({"HAVING"})
  BY <1>3, ClauseWord
<1>5. Ends(v) /\ v \in Free({"WHERE"}) /\ v \in Free({"HAVING"})
  BY <1>1, <1>3, ReturningText
<1>6. WhereSays(where, rows, b.conditions)
  BY <1>1, WhereText
<1>7. /\ Stands((<<Word("DELETE")>> \o where) \o v, "WHERE", rows, b.conditions)
      /\ Stands((<<Word("DELETE")>> \o where) \o v, "HAVING", rows, <<>>)
  BY <1>4, <1>5, <1>6, StatementStands, StatementLacks
<1> QED
  BY Zenon, <1>2, <1>7

\* The columns and the rows of an INSERT.
ColumnsText == [i \in DOMAIN b.columns |-> Name(b.columns[i])]
RowTexts ==
    [k \in DOMAIN b.rows |-> Bracketed("[", Numbered(dialect, b.rows[k], Before(b.rows, k) + 1), "]")]

LEMMA ColumnsFlat ==
    ASSUME b.columns \in Seq(Words)
    PROVE  /\ ColumnsText \in Closed /\ Len(ColumnsText) = Len(b.columns)
           /\ \A i \in 1..Len(b.columns) : ColumnsText[i] = Name(b.columns[i])
           /\ Bracketed("[", ColumnsText, "]") \in Free(ClauseWords)
<1>1. PICK columns, c : columns = b.columns /\ c = ColumnsText
  OBVIOUS
<1>2. DOMAIN columns = 1..Len(columns) /\ Len(columns) \in Nat
      /\ \A i \in 1..Len(columns) : columns[i] \in Words
  BY <1>1
<1>3. \A w \in Words : Name(w) \in Token /\ Name(w).t = "name"
  BY NamesUnmarked DEF Name
<1>4. c \in [1..Len(columns) -> Token] /\ \A i \in 1..Len(columns) : c[i] = Name(columns[i])
  BY <1>1, <1>2, <1>3 DEF ColumnsText
<1>5. c \in Seq(Token) /\ Len(c) = Len(columns)
  BY <1>2, <1>4, AsSeq
<1>6. c \in Closed
  <2>1. \A i \in 1..Len(c) : c[i].t \notin Brackets
    BY <1>2, <1>3, <1>4, <1>5, OutsideWords
  <2> QED
    BY <1>5, <2>1, FlatText
<1>7. Bracketed("[", c, "]") \in Free(ClauseWords)
  <2>1. "[" \in Opening /\ "]" \in Closing /\ "[" \notin ClauseWords
    BY OutsideWords DEF Opening, Closing, Outside
  <2> QED
    BY <1>6, <2>1, BracketedText DEF Around
<1> QED
  BY <1>1, <1>4, <1>5, <1>6, <1>7

LEMMA RowsFlat ==
    ASSUME dialect \in Dialects, b.rows \in Seq(Seq(BoundValues))
    PROVE  /\ RowTexts \in Seq(Free(ClauseWords)) /\ RowTexts \in Seq(Seq(Token))
           /\ Len(RowTexts) = Len(b.rows) /\ Joined(RowTexts, ",") \in Free(ClauseWords)
           /\ \A k \in 1..Len(b.rows) : Marks(RowTexts[k]) = Numbered(dialect, b.rows[k], 1 + Before(b.rows, k))
<1>1. PICK rows, parts : rows = b.rows /\ parts = RowTexts
  OBVIOUS
<1>2. /\ Len(rows) \in Nat /\ DOMAIN rows = 1..Len(rows)
      /\ \A k \in 1..Len(rows) : rows[k] \in Seq(BoundValues)
  BY <1>1
<1>3. ASSUME NEW k \in 1..Len(rows)
      PROVE  /\ Bracketed("[", Numbered(dialect, rows[k], Before(rows, k) + 1), "]") \in Free(ClauseWords)
             /\ Marks(Bracketed("[", Numbered(dialect, rows[k], Before(rows, k) + 1), "]"))
                  = Numbered(dialect, rows[k], 1 + Before(rows, k))
  <2>1. Before(rows, k) \in Nat /\ 1 + Before(rows, k) = Before(rows, k) + 1
    BY <1>1, BeforeNat
  <2>2. PICK p \in Nat : p = Before(rows, k) + 1
    BY <2>1
  <2>3. PICK row \in Seq(BoundValues) : row = rows[k]
    BY <1>2
  <2>4. Numbers(dialect, Bracketed("[", Numbered(dialect, row, p), "]"), row, p)
    BY NumbersAlone, BracketKeywords, BracketedNumbers
  <2>5. "[" \in Opening /\ "]" \in Closing /\ "[" \notin ClauseWords /\ "?" \notin ClauseWords
    BY OutsideWords DEF Opening, Closing, Outside
  <2>6. Numbered(dialect, row, p) \in Closed
    BY <2>5, FreeMarks, FreeText
  <2>7. Bracketed("[", Numbered(dialect, row, p), "]") \in Free(ClauseWords)
    BY <2>5, <2>6, BracketedText DEF Around
  <2> QED
    BY <2>1, <2>2, <2>3, <2>4, <2>7 DEF Numbers
<1>4. /\ parts \in [1..Len(rows) -> Free(ClauseWords)]
      /\ \A k \in 1..Len(rows) : Marks(parts[k]) = Numbered(dialect, rows[k], 1 + Before(rows, k))
  BY <1>1, <1>2, <1>3 DEF RowTexts
<1>5. parts \in Seq(Free(ClauseWords)) /\ Len(parts) = Len(rows)
  BY <1>2, <1>4, AsSeq
<1>6. parts \in Seq(Seq(Token))
  <2>1. Free(ClauseWords) \subseteq Seq(Token)
    BY FreeText
  <2>2. parts \in [1..Len(rows) -> Seq(Token)]
    BY <1>4, <2>1
  <2> QED
    BY <1>2, <2>2, AsSeq
<1>7. "," \in Keywords /\ "," \notin Brackets /\ "," \notin ClauseWords
  BY BracketKeywords, OutsideWords DEF Outside, Brackets, Opening, Closing
<1>8. Joined(parts, ",") \in Free(ClauseWords)
  BY <1>5, <1>7, FreeJoined
<1> QED
  BY <1>1, <1>4, <1>5, <1>6, <1>8

LEMMA InsertReads ==
    ASSUME dialect \in Dialects, b.columns \in Seq(Words), b.rows \in Seq(Seq(BoundValues)),
           ~InsertBuild.err, NEW rows
    PROVE  /\ Stands(InsertBuild.text, "WHERE", rows, <<>>) /\ Stands(InsertBuild.text, "HAVING", rows, <<>>)
           /\ ClauseAt(InsertBuild.text, "INTO", Bracketed("[", ColumnsText, "]"))
           /\ ClauseAt(InsertBuild.text, "VALUES", Joined(RowTexts, ","))
<1> DEFINE ignored == b.ignore /\ ~dialect.onConflict
<1>1. PICK names, vals, conflict, r :
        /\ names = Bracketed("[", ColumnsText, "]") /\ vals = Joined(RowTexts, ",")
        /\ conflict = (IF b.ignore /\ ~ignored THEN <<Word("ON_CONFLICT")>> ELSE <<>>)
        /\ r = ReturningSQL
  OBVIOUS
<1>2. PICK first \in {"INSERT", "INSERT_IGNORE"} : first = IF ignored THEN "INSERT_IGNORE" ELSE "INSERT"
  OBVIOUS
<1>3. PICK head : head = <<Word(first), Word("INTO")>>
  OBVIOUS
<1>4. InsertBuild.text = head \o names \o <<Word("VALUES")>> \o vals \o conflict \o r
  <2>1. head = IF ignored THEN <<Word("INSERT_IGNORE"), Word("INTO")>> ELSE <<Word("INSERT"), Word("INTO")>>
    BY <1>2, <1>3
  <2>2. PICK text, args, x : /\ text = head \o names \o <<Word("VALUES")>> \o vals \o conflict \o r
                             /\ args = FlattenSeq(b.rows) /\ x = InsertBuild
    OBVIOUS
  <2>3. x = IF ~(\A name \in ToSet(b.table \o b.columns) : ValidIdentifier(name)) THEN Refused
            ELSE [err |-> FALSE, text |-> text, args |-> args]
    BY Zenon, <1>1, <2>1, <2>2 DEF InsertBuild, ColumnsText, RowTexts
  <2>4. x # Refused
    BY <2>2 DEF Refused
  <2>5. x = [err |-> FALSE, text |-> text, args |-> args]
    BY <2>3, <2>4
  <2>6. x.text = text
    BY ONLY <2>5
  <2> QED
    BY Zenon, <2>2, <2>6
<1>5. {first, "INTO", "VALUES", "ON_CONFLICT", "WHERE", "HAVING", "RETURNING"} \subseteq ClauseWords
  BY DEF ClauseWords
<1>6. names \in Free(ClauseWords) /\ vals \in Free(ClauseWords)
  BY <1>1, ColumnsFlat, RowsFlat
<1>7. \A w \in ClauseWords : names \in Free({w}) /\ vals \in Free({w})
  BY <1>5, <1>6, SegmentText
<1>8. PICK u : u = head \o names
  OBVIOUS
<1>9. u = <<Word(first)>> \o Segment("INTO", names)
  <2>1. <<Word(first)>> \in Seq(Token) /\ <<Word("INTO")>> \in Seq(Token) /\ names \in Seq(Token)
        /\ Word(first) \in Token /\ Word("INTO") \in Token
    BY <1>5, <1>6, FreeText, ClauseWord, OneToken
  <2>2. <<Word(first)>> \o <<Word("INTO")>> = <<Word(first), Word("INTO")>>
    BY <2>1, Pair
  <2>3. EitherWay(<<Word(first)>>, <<Word("INTO")>>, names)
    BY <2>1, ThreeTogether
  <2> QED
    BY Zenon, <1>3, <1>8, <2>2, <2>3 DEF EitherWay, Segment
<1>10. /\ <<Word(first)>> \in Free({"INTO"}) /\ <<Word(first)>> \in Free({"VALUES"})
       /\ <<Word(first)>> \in Free({"WHERE"}) /\ <<Word(first)>> \in Free({"HAVING"})
  BY <1>5, ClauseWord
<1>11. ClauseAt(u, "INTO", names)
  BY <1>5, <1>6, <1>9, <1>10, ClauseBegins
<1>12. u \in Free({"VALUES"}) /\ u \in Free({"WHERE"}) /\ u \in Free({"HAVING"})
  <2>1. /\ Segment("INTO", names) \in Free({"VALUES"}) /\ Segment("INTO", names) \in Free({"WHERE"})
        /\ Segment("INTO", names) \in Free({"HAVING"})
    BY <1>5, <1>6, SegmentText
  <2> QED
    BY <1>9, <1>10, <2>1, FreeConcat
<1>13. PICK v : v = (u \o <<Word("VALUES")>>) \o vals
  OBVIOUS
<1>14. PICK seg : seg = Segment("VALUES", vals) /\ v = u \o seg
  <2>1. u \in Seq(Token) /\ <<Word("VALUES")>> \in Seq(Token) /\ vals \in Seq(Token)
    BY <1>5, <1>6, <1>12, FreeText, ClauseWord, OneToken
  <2>2. EitherWay(u, <<Word("VALUES")>>, vals)
    BY <2>1, ThreeTogether
  <2> QED
    BY Zenon, <1>13, <2>2 DEF EitherWay, Segment
<1>15. Ends(seg) /\ seg \in Free({"WHERE"}) /\ seg \in Free({"HAVING"})
  BY <1>5, <1>6, <1>14, SegmentText
<1>16. ClauseAt(v, "INTO", names)
  BY <1>5, <1>11, <1>14, <1>15, ClauseStays
<1>17. ClauseAt(v, "VALUES", vals)
  BY <1>5, <1>6, <1>12, <1>14, ClauseBegins
<1>18. v \in Free({"WHERE"}) /\ v \in Free({"HAVING"})
  BY <1>12, <1>14, <1>15, FreeConcat
<1>19. Ends(conflict) /\ conflict \in Free({"WHERE"}) /\ conflict \in Free({"HAVING"})
  <2>1. conflict = <<>> \/ conflict = <<Word("ON_CONFLICT")>>
    BY <1>1
  <2> QED
    BY <1>5, <2>1, WordEnds
<1>20. Ends(r) /\ r \in Free({"WHERE"}) /\ r \in Free({"HAVING"})
  BY <1>1, <1>5, ReturningText
<1>21. PICK text : text = (v \o conflict) \o r
  OBVIOUS
<1>22. ClauseAt(text, "INTO", names) /\ ClauseAt(text, "VALUES", vals)
  <2>1. ClauseAt(v \o conflict, "INTO", names) /\ ClauseAt(v \o conflict, "VALUES", vals)
    BY <1>5, <1>16, <1>17, <1>19, ClauseStays
  <2> QED
    BY <1>5, <1>20, <1>21, <2>1, ClauseStays
<1>23. text \in Free({"WHERE"}) /\ text \in Free({"HAVING"}) /\ text \in Closed
  <2>1. v \o conflict \in Free({"WHERE"}) /\ v \o conflict \in Free({"HAVING"})
    BY <1>18, <1>19, FreeConcat
  <2> QED
    BY <1>20, <1>21, <2>1, FreeConcat, FreeText
<1>24. Stands(text, "WHERE", rows, <<>>) /\ Stands(text, "HAVING", rows, <<>>)
  BY <1>23 DEF Stands
<1>25. InsertBuild.text = text
  BY Zenon, <1>4, <1>8, <1>13, <1>21
<1> QED
  BY Zenon, <1>1, <1>22, <1>24, <1>25

LEMMA AlikeConcat ==
    ASSUME NEW u \in Seq(Token), NEW s, NEW t, Alike(s, t)
    PROVE  Alike(u \o s, u \o t)
<1>1. PICK k \in Nat, n \in Nat : k = Len(u) /\ n = Len(s) /\ n = Len(t) /\ s \in Seq(Token) /\ t \in Seq(Token)
  BY LenProperties, AlikeTokens
<1>2. PICK x, y : x = u \o s /\ y = u \o t
  OBVIOUS
<1>3. /\ x \in Seq(Token) /\ y \in Seq(Token) /\ Len(x) = k + n /\ Len(y) = k + n
      /\ \A i \in 1..k : x[i] = u[i] /\ y[i] = u[i]
      /\ \A i \in 1..n : x[k + i] = s[i] /\ y[k + i] = t[i]
  <2>1. ASSUME NEW z \in Seq(Token), Len(z) = n
        PROVE  /\ u \o z \in Seq(Token) /\ Len(u \o z) = k + n
               /\ \A i \in 1..k : (u \o z)[i] = u[i]
               /\ \A i \in 1..n : (u \o z)[k + i] = z[i]
    <3>1. PICK v : v = u \o z
      OBVIOUS
    <3>2. v \in Seq(Token) /\ Len(v) = Len(u) + Len(z)
      BY <3>1, ConcatProperties
    <3>3. \A i \in 1..(Len(u) + Len(z)) : v[i] = IF i <= Len(u) THEN u[i] ELSE z[i - Len(u)]
      BY <3>1, ConcatProperties
    <3>4. \A i \in 1..k : v[i] = u[i]
      BY <1>1, <2>1, <3>3
    <3>5. ASSUME NEW i \in 1..n PROVE v[k + i] = z[i]
      <4>1. k + i \in 1..(k + n) /\ ~(k + i <= k) /\ (k + i) - k = i
        OBVIOUS
      <4> QED
        BY <1>1, <2>1, <3>3, <4>1
    <3> QED
      BY <1>1, <2>1, <3>1, <3>2, <3>4, <3>5
  <2> QED
    BY <1>1, <1>2, <2>1
<1>4. ASSUME NEW i \in 1..(k + n) PROVE x[i] = y[i] \/ (x[i].t = "?" /\ y[i].t = "?")
  <2>1. CASE i <= k
    BY <1>3, <2>1
  <2>2. CASE i > k
    <3>1. PICK j \in 1..n : i = k + j
      <4>1. i - k \in 1..n /\ i = k + (i - k)
        BY <2>2
      <4> QED
        BY <4>1
    <3>2. s[j] = t[j] \/ (s[j].t = "?" /\ t[j].t = "?")
      BY <1>1 DEF Alike
    <3> QED
      BY <1>3, <3>1, <3>2
  <2> QED
    BY <2>1, <2>2
<1> QED
  BY <1>2, <1>3, <1>4 DEF Alike

LEMMA StandsMoves ==
    ASSUME NEW w \in ClauseWords, NEW rows, NEW conds, NEW text, Stands(text, w, rows, conds),
           NEW u \in Free({w})
    PROVE  Stands(u \o text, w, rows, conds)
<1>1. u \o text \in Closed
  BY FreeText, ClosedConcat DEF Stands
<1>2. conds = <<>> => u \o text \in Free({w})
  BY FreeConcat DEF Stands
<1>3. conds # <<>> => \E body : ClauseAt(u \o text, w, body) /\ ConditionsMean(rows, body, conds)
  BY ClauseMoves DEF Stands
<1> QED
  BY <1>1, <1>2, <1>3 DEF Stands

\* The last of the queries of a WITH says what it said.
LEMMA WithReads ==
    ASSUME NEW d \in Dialects, NEW n \in Nat, n # 0, NEW queries,
           \A i \in 1..n : queries[i].text \in Closed /\ queries[i].args \in Seq(BoundValues),
           NEW lists, NEW texts, NEW front, WithParts(d, n, queries, lists, texts, front),
           NEW w \in ClauseWords, w # "WITH", NEW rows, NEW conds, Stands(queries[n].text, w, rows, conds)
    PROVE  Says(<<Word("WITH")>> \o Joined(front, ",") \o texts[n], w, rows, conds)
<1>1. lists \in Seq(Seq(BoundValues)) /\ Len(lists) = n
  <2>1. lists \in [1..n -> Seq(BoundValues)]
    BY DEF WithParts
  <2> QED
    BY <2>1, AsSeq
<1>2. ASSUME NEW k \in 1..n
      PROVE  Alike(texts[k], queries[k].text) /\ texts[k] \in Closed
  <2>1. Before(lists, k) \in Nat /\ lists[k] \in Seq(BoundValues)
    BY <1>1, BeforeNat
  <2>2. PICK p \in Nat, m \in Nat : p = Before(lists, k) + 1 /\ m = Len(lists[k])
    BY <2>1
  <2>3. PICK text \in Closed : text = queries[k].text
    OBVIOUS
  <2>4. Alike(renumberParameters(d, text, m, p), text)
    BY AlikeRenumbered DEF Closed
  <2>5. texts[k] = renumberParameters(d, text, m, p)
    BY <2>2, <2>3 DEF WithParts
  <2> QED
    BY <2>3, <2>4, <2>5, AlikeDepths
<1>3. /\ "WITH" \in ClauseWords /\ "AS" \in Keywords /\ "AS" \notin Brackets /\ "AS" \notin ClauseWords
      /\ "[" \in Opening /\ "]" \in Closing /\ "[" \notin ClauseWords
      /\ "," \in Keywords /\ "," \notin Brackets /\ "," \notin ClauseWords
  <2>1. "WITH" \in ClauseWords
    BY DEF ClauseWords
  <2>2. "AS" \in Keywords /\ "," \in Keywords
    BY BracketKeywords
  <2>3. "AS" \notin ClauseWords /\ "[" \notin ClauseWords /\ "," \notin ClauseWords
    BY OutsideWords DEF Outside
  <2> QED
    BY <2>1, <2>2, <2>3 DEF Brackets, Opening, Closing
<1>4. ASSUME NEW k \in 1..(n - 1) PROVE front[k] \in Free(ClauseWords)
  <2>1. texts[k] \in Closed
    BY <1>2
  <2>2. Bracketed("[", texts[k], "]") \in Free(ClauseWords)
    BY <1>3, <2>1, BracketedText DEF Around
  <2>3. <<Word("AS")>> \in Free(ClauseWords)
    BY <1>3, FreeKeyword
  <2>4. <<Word("AS")>> \o Bracketed("[", texts[k], "]") \in Free(ClauseWords)
    BY <2>2, <2>3, FreeConcat
  <2> QED
    BY <2>4 DEF WithParts
<1>5. front \in Seq(Free(ClauseWords))
  <2>1. n - 1 \in Nat
    OBVIOUS
  <2>2. front \in [1..(n - 1) -> Free(ClauseWords)]
    BY <1>4 DEF WithParts
  <2> QED
    BY <2>1, <2>2, AsSeq
<1>6. PICK u : u = Segment("WITH", Joined(front, ","))
  OBVIOUS
<1>7. u \in Free({w}) /\ u \in Seq(Token)
  <2>1. Joined(front, ",") \in Free(ClauseWords)
    BY <1>3, <1>5, FreeJoined
  <2> QED
    BY <1>3, <1>6, <2>1, SegmentText
<1>8. n \in 1..n
  OBVIOUS
<1>9. PICK last, text : last = texts[n] /\ text = queries[n].text /\ Alike(last, text)
  BY <1>2, <1>8
<1>10. Stands(u \o text, w, rows, conds)
  BY <1>7, <1>9, StandsMoves
<1>11. Alike(u \o last, u \o text)
  BY <1>7, <1>9, AlikeConcat
<1>12. Says(u \o last, w, rows, conds)
  BY <1>10, <1>11, StandsSays
<1> QED
  BY Zenon, <1>6, <1>9, <1>12 DEF Segment

LEMMA BuilderTrees ==
    ASSUME BuildersInv, AskedTyped
    PROVE  /\ b \in BuildersOver(Trees[MaxHeight], CTEs)
           /\ b.conditions \in Seq(Trees[MaxHeight - 1]) /\ b.having \in Seq(Trees[MaxHeight])
           /\ b.columns \in Seq(Words) /\ b.sets \in Seq(Words \X BoundValues)
           /\ b.rows \in Seq(Seq(BoundValues))
           /\ b.ctes \in CTEs /\ Given \subseteq Trees[MaxHeight]
<1>1. PICK T, S, U : T = Tree(calls) /\ S = Trees[MaxHeight] /\ U = Trees[MaxHeight - 1]
  OBVIOUS
<1>2. T \subseteq S /\ T \subseteq U /\ Given \subseteq T /\ b \in BuildersOver(T, CTEs)
  BY <1>1, GivenTrees DEF BuildersInv
<1>3. b \in BuildersOver(S, CTEs)
  <2>1. BuildersOver(T, CTEs) \subseteq BuildersOver(S, CTEs)
    BY <1>2, BuildersGrow
  <2> QED
    BY <1>2, <2>1
<1>4. b.conditions \in Seq(T)
  BY ONLY <1>2, BuilderParts
<1>5. Seq(T) \subseteq Seq(U)
  BY <1>2, SeqsOver
<1>6. /\ b.having \in Seq(S) /\ b.columns \in Seq(Words) /\ b.sets \in Seq(Words \X BoundValues)
      /\ b.rows \in Seq(Seq(BoundValues)) /\ b.ctes \in CTEs
  BY ONLY <1>3, BuilderParts
<1> QED
  BY <1>1, <1>2, <1>3, <1>4, <1>5, <1>6

LEMMA SelectReads ==
    ASSUME BuildersInv, AskedTyped, ~SelectBuild(render, b).err, NEW rows,
           NEW w \in {"WHERE", "HAVING"}, NEW conds,
           conds = IF w = "WHERE" THEN b.conditions ELSE b.having,
           \A i \in 1..Len(conds) : SenseOf({}, conds[i]).condition
    PROVE  Stands(SelectBuild(render, b).text, w, rows, conds)
<1>1. dialect \in Dialects /\ b \in BuildersOver(Trees[MaxHeight], CTEs)
  BY BuilderTrees DEF BuildersInv
<1> QED
  BY <1>1, SelectStands DEF render

LEMMA WithRefused ==
    ASSUME NEW d, NEW queries, ~With(d, queries).err
    PROVE  \A i \in 1..Len(queries) : ~queries[i].err
<1> SUFFICES ASSUME NEW i \in 1..Len(queries), queries[i].err PROVE With(d, queries) = Refused
  BY DEF Refused
<1> QED
  BY Zenon DEF With

LEMMA WithSays ==
    ASSUME NEW d \in Dialects, NEW queries, Len(queries) \in Nat, Len(queries) # 0,
           \A i \in 1..Len(queries) : queries[i].text \in Closed /\ queries[i].args \in Seq(BoundValues),
           NEW w \in ClauseWords, w # "WITH", NEW rows, NEW conds,
           Stands(queries[Len(queries)].text, w, rows, conds), ~With(d, queries).err
    PROVE  Says(With(d, queries).text, w, rows, conds)
<1> DEFINE n == Len(queries)
           lists == [i \in 1..n |-> queries[i].args]
           texts == [k \in 1..n |-> renumberParameters(d, queries[k].text, Len(lists[k]),
                                                       Before(lists, k) + 1)]
           front == [k \in 1..(n - 1) |-> <<Word("AS")>> \o Bracketed("[", texts[k], "]")]
<1>1. WithParts(d, n, queries, lists, texts, front)
  BY Zenon DEF WithParts
<1>2. With(d, queries) = IF \E k \in 1..n : queries[k].err THEN Refused
                         ELSE [err |-> FALSE,
                               text |-> <<Word("WITH")>> \o Joined(front, ",") \o texts[n],
                               args |-> FlattenSeq(lists)]
  BY Zenon DEF With
<1> HIDE DEF lists, texts, front
<1>3. With(d, queries).text = <<Word("WITH")>> \o Joined(front, ",") \o texts[n]
  <2>1. \A i \in 1..n : ~queries[i].err
    BY WithRefused
  <2>2. PICK v : v = <<Word("WITH")>> \o Joined(front, ",") \o texts[n]
    OBVIOUS
  <2>3. With(d, queries) = [err |-> FALSE, text |-> v, args |-> FlattenSeq(lists)]
    BY <1>2, <2>1, <2>2
  <2>4. With(d, queries).text = v
    BY ONLY <2>3
  <2> QED
    BY <2>2, <2>4
<1>4. Says(<<Word("WITH")>> \o Joined(front, ",") \o texts[n], w, rows, conds)
  <2> HIDE DEF n
  <2>1. /\ n \in Nat /\ n # 0 /\ Stands(queries[n].text, w, rows, conds)
        /\ \A i \in 1..n : queries[i].text \in Closed /\ queries[i].args \in Seq(BoundValues)
    BY DEF n
  <2> QED
    BY <1>1, <2>1, WithReads
<1> QED
  BY <1>3, <1>4, Zenon

LEMMA CTEReads ==
    ASSUME BuildersInv, AskedTyped, ~CTEBuild.err, NEW rows,
           NEW w \in {"WHERE", "HAVING"}, NEW conds,
           conds = IF w = "WHERE" THEN b.conditions ELSE b.having,
           \A i \in 1..Len(conds) : SenseOf({}, conds[i]).condition
    PROVE  Says(CTEBuild.text, w, rows, conds)
<1>1. PICK ctes, m : ctes = b.ctes /\ m = Len(ctes) + 1
  OBVIOUS
<1>2. ctes \in Seq(BuildersOver(Given, {<<>>})) /\ dialect \in Dialects
  BY <1>1, BuilderTrees DEF CTEs, BuildersInv
<1>3. /\ m \in Nat /\ m # 0 /\ m \in 1..m /\ ~(m <= Len(ctes))
      /\ \A i \in 1..Len(ctes) : ctes[i] \in BuildersOver(Given, {<<>>})
      /\ Len(ctes) \in Nat /\ DOMAIN ctes = 1..Len(ctes)
  BY <1>1, <1>2
<1>4. PICK queries : queries = [i \in 1..m |-> SelectBuild(render, IF i <= Len(ctes) THEN ctes[i] ELSE b)]
  OBVIOUS
<1>5. PICK T : T = Trees[MaxHeight]
  OBVIOUS
<1>6. RendersRight(dialect, render, T) /\ RendersFree(render, T)
  <2>1. MaxHeight \in 0..MaxHeight
    BY WordsAssumption
  <2> QED
    BY <1>2, <1>5, <2>1, RenderRight, TreesFree DEF render
<1>7. ASSUME NEW q, NEW C, q \in BuildersOver(T, C)
      PROVE  SelectBuild(render, q).text \in Closed /\ SelectBuild(render, q).args \in Seq(BoundValues)
  <2>1. Sound(dialect, SelectBuild(render, q)) /\ SelectBuild(render, q).text \in Closed
    BY <1>2, <1>6, <1>7, SelectNumbers, SelectClosed
  <2> QED
    BY <2>1 DEF Sound
<1>8. ASSUME NEW i \in 1..m PROVE queries[i].text \in Closed /\ queries[i].args \in Seq(BoundValues)
  <2>1. CASE i <= Len(ctes)
    <3>1. i \in 1..Len(ctes) /\ queries[i] = SelectBuild(render, ctes[i])
      BY <1>3, <1>4, <2>1
    <3>2. BuildersOver(Given, {<<>>}) \subseteq BuildersOver(T, {<<>>})
      BY <1>5, BuilderTrees, BuildersGrow
    <3>3. ctes[i] \in BuildersOver(T, {<<>>})
      BY <1>3, <3>1, <3>2
    <3> QED
      BY <1>7, <3>1, <3>3
  <2>2. CASE ~(i <= Len(ctes))
    <3>1. queries[i] = SelectBuild(render, b)
      BY <1>4, <2>2
    <3> QED
      BY <1>5, <1>7, <3>1, BuilderTrees
  <2> QED
    BY <2>1, <2>2
<1>10. Len(queries) = m
  BY <1>3, <1>4
<1>11. CTEBuild = With(dialect, queries)
  BY Zenon, <1>1, <1>4 DEF CTEBuild
<1>12. ~queries[m].err
  <2>1. ~With(dialect, queries).err
    BY <1>11
  <2> QED
    BY <1>3, <1>10, <2>1, WithRefused
<1>13. queries[m] = SelectBuild(render, b)
  BY <1>3, <1>4
<1>14. Stands(queries[m].text, w, rows, conds)
  <2>1. ~SelectBuild(render, b).err
    BY <1>12, <1>13
  <2> QED
    BY <1>13, <2>1, SelectReads
<1>15. w \in ClauseWords /\ w # "WITH"
  BY DEF ClauseWords
<1>16. Says(With(dialect, queries).text, w, rows, conds)
  <2>1. Len(queries) \in Nat /\ Len(queries) # 0 /\ Stands(queries[Len(queries)].text, w, rows, conds)
    BY <1>3, <1>10, <1>14
  <2>2. ~With(dialect, queries).err
    BY <1>11
  <2>3. \A i \in 1..Len(queries) : queries[i].text \in Closed /\ queries[i].args \in Seq(BoundValues)
    BY <1>8, <1>10
  <2> QED
    BY ONLY <1>2, <1>15, <2>1, <2>2, <2>3, WithSays
<1> QED
  BY <1>11, <1>16, Zenon

-----------------------------------------------------------------------------
(* What a builder answers, and what it was given                           *)

BuildAnswer ==
    CASE b.verb = "select" -> SelectBuild(render, b)
      [] b.verb = "update" -> UpdateBuild
      [] b.verb = "delete" -> DeleteBuild
      [] b.verb = "insert" -> InsertBuild
      [] b.verb = "cte"    -> CTEBuild

\* Callers ask for conditions, in the clauses a builder has; the HAVING is
\* kept as it was asked for.
GivenInv ==
    /\ \A i \in 1..Len(asked.where) : \A j \in 1..Len(asked.where[i]) :
          SenseOf({}, asked.where[i][j]).condition
    /\ \A i \in 1..Len(b.having) : SenseOf({}, b.having[i]).condition
    /\ asked.having = [i \in DOMAIN b.having |-> <<b.having[i]>>]
    /\ b.verb = "insert" => asked.where = <<>>
    /\ ~Selecting => b.having = <<>>

AnswerInv == built # NotBuilt => built = BuildAnswer

ReadInv == GivenInv /\ AnswerInv

LEMMA AnswerSays ==
    ASSUME BuildersInv, AskedInv, GivenInv, ~BuildAnswer.err, NEW rows
    PROVE  /\ Says(BuildAnswer.text, "WHERE", rows, b.conditions)
           /\ Says(BuildAnswer.text, "HAVING", rows, b.having)
<1>1. /\ AskedTyped /\ Stored(b.conditions, asked.where) /\ dialect \in Dialects
      /\ b.verb \in {"select", "update", "delete", "insert", "cte"}
      /\ "WHERE" \in ClauseWords /\ "HAVING" \in ClauseWords
  BY BuilderParts DEF AskedInv, BuildersInv, ClauseWords
<1>2. /\ b.conditions \in Seq(Trees[MaxHeight - 1]) /\ b.conditions \in Seq(Trees[MaxHeight])
      /\ asked.where \in Seq(Seq(Trees[MaxHeight]))
      /\ b.columns \in Seq(Words) /\ b.sets \in Seq(Words \X BoundValues)
      /\ b.rows \in Seq(Seq(BoundValues))
  BY <1>1, BuilderTrees, GivenTrees
<1>3. /\ \A i \in 1..Len(b.conditions) : SenseOf({}, b.conditions[i]).condition
      /\ \A i \in 1..Len(b.having) : SenseOf({}, b.having[i]).condition
  <2>1. GroupsMean({}, b.conditions, asked.where)
    BY <1>1, <1>2, GroupsFollow DEF GivenInv
  <2> QED
    BY <2>1 DEF GroupsMean, GivenInv
<1>4. CASE b.verb = "select"
  <2>1. BuildAnswer = SelectBuild(render, b)
    BY <1>4 DEF BuildAnswer
  <2>2. PICK text : text = SelectBuild(render, b).text
    OBVIOUS
  <2>3. Stands(text, "WHERE", rows, b.conditions) /\ Stands(text, "HAVING", rows, b.having)
    <3>1. ~SelectBuild(render, b).err
      BY <2>1
    <3> QED
      BY <1>1, <1>3, <2>2, <3>1, SelectReads
  <2>4. Alike(text, text)
    BY <2>3, AlikeSelf DEF Stands, Closed
  <2> QED
    BY <1>1, <2>1, <2>2, <2>3, <2>4, StandsSays
<1>5. CASE b.verb = "cte"
  <2>1. BuildAnswer = CTEBuild
    BY <1>5 DEF BuildAnswer
  <2>2. ~CTEBuild.err
    BY <2>1
  <2>3. Says(CTEBuild.text, "WHERE", rows, b.conditions) /\ Says(CTEBuild.text, "HAVING", rows, b.having)
    BY <1>1, <1>3, <2>2, CTEReads
  <2> QED
    BY <2>1, <2>3
<1>6. CASE b.verb \in {"update", "delete", "insert"}
  <2>1. BuildAnswer = CASE b.verb = "update" -> UpdateBuild [] b.verb = "delete" -> DeleteBuild
                        [] b.verb = "insert" -> InsertBuild
    BY <1>6 DEF BuildAnswer
  <2>2. b.having = <<>> /\ (b.verb = "insert" => b.conditions = <<>>)
    <3>1. b.having = <<>>
      BY <1>6 DEF GivenInv, Selecting
    <3>2. ASSUME b.verb = "insert" PROVE b.conditions = <<>>
      <4>1. asked.where = <<>> /\ Len(b.conditions) = Len(asked.where)
        BY <1>1, <3>2 DEF GivenInv, Stored
      <4>2. Len(b.conditions) = 0
        BY <4>1
      <4> QED
        BY <1>2, <4>2
    <3> QED
      BY <3>1, <3>2
  <2>3. PICK text : text = BuildAnswer.text
    OBVIOUS
  <2>4. Stands(text, "WHERE", rows, b.conditions) /\ Stands(text, "HAVING", rows, <<>>)
    <3>1. CASE b.verb = "update"
      <4>1. BuildAnswer = UpdateBuild
        BY <3>1, <2>1
      <4>2. ~UpdateBuild.err
        BY <4>1
      <4> QED
        BY <1>1, <1>2, <1>3, <2>3, <4>1, <4>2, UpdateReads
    <3>2. CASE b.verb = "delete"
      <4>1. BuildAnswer = DeleteBuild
        BY <3>2, <2>1
      <4>2. ~DeleteBuild.err
        BY <4>1
      <4> QED
        BY <1>1, <1>2, <1>3, <2>3, <4>1, <4>2, DeleteReads
    <3>3. CASE b.verb = "insert"
      <4>1. BuildAnswer = InsertBuild
        BY <3>3, <2>1
      <4>2. ~InsertBuild.err
        BY <4>1
      <4>3. Stands(InsertBuild.text, "WHERE", rows, <<>>) /\ Stands(InsertBuild.text, "HAVING", rows, <<>>)
        BY <1>1, <1>2, <4>2, InsertReads
      <4> QED
        BY <2>2, <2>3, <3>3, <4>1, <4>3
    <3> QED
      BY <1>6, <3>1, <3>2, <3>3
  <2>5. Alike(text, text)
    BY <2>4, AlikeSelf DEF Stands, Closed
  <2>6. Says(text, "WHERE", rows, b.conditions) /\ Says(text, "HAVING", rows, <<>>)
    BY <1>1, <2>4, <2>5, StandsSays
  <2> QED
    BY <2>2, <2>3, <2>6
<1> QED
  BY <1>1, <1>4, <1>5, <1>6

-----------------------------------------------------------------------------
(* The steps                                                               *)

\* What is asked of the WHERE is asked of a condition.
WhereGiven(groups) ==
    \A i \in 1..Len(groups) : \A j \in 1..Len(groups[i]) : SenseOf({}, groups[i][j]).condition

LEMMA GivenConditions ==
    /\ \A n \in Conditions \cup HavingConditions : SenseOf({}, n).condition
    /\ dialect \in Dialects => \A f \in Filters : SenseOf({}, ConditionOf(f)).condition
<1>1. ASSUME dialect \in Dialects, NEW f \in Filters PROVE SenseOf({}, ConditionOf(f)).condition
  <2>1. PICK n \in Trees[MaxHeight] : n = ConditionOf(f)
    BY ConditionHigh
  <2>2. n.k \in {"pred", "in", "not_in"}
    BY <2>1, FilterNames, ConditionIs DEF Node
  <2>3. SenseOf({}, n) = Sense({}, Senses({})[MaxHeight - 1], n)
    BY SenseOfParts
  <2>4. PICK parts, below : below = Senses({})[MaxHeight - 1] /\ parts = SenseParts(below, n)
    OBVIOUS
  <2>5. parts = <<>>
    BY <2>2, <2>4 DEF SenseParts, Joiners
  <2>6. DOMAIN parts = {}
    BY <2>5
  <2>7. IsSense({}, n, parts, SenseOf({}, n))
    BY <2>3, <2>4, SenseFields
  <2> QED
    BY <2>1, <2>2, <2>6, <2>7 DEF IsSense
<1> QED
  BY <1>1, ReadingAssumption

LEMMA OneGiven ==
    ASSUME NEW S, NEW cond \in S, SenseOf({}, cond).condition
    PROVE  <<<<cond>>>> \in Seq(Seq(S)) /\ WhereGiven(<<<<cond>>>>)
<1>1. PICK one, group : one = <<cond>> /\ group = <<one>>
  OBVIOUS
<1>2. one \in Seq(S) /\ Len(one) = 1 /\ one[1] = cond
  BY <1>1
<1>3. group \in Seq(Seq(S)) /\ Len(group) = 1 /\ group[1] = one
  BY <1>1, <1>2
<1>4. \A i \in 1..Len(group) : \A j \in 1..Len(group[i]) : SenseOf({}, group[i][j]).condition
  BY <1>2, <1>3
<1> QED
  BY <1>1, <1>3, <1>4 DEF WhereGiven

LEMMA MoreGiven ==
    ASSUME NEW S, NEW groups \in Seq(Seq(S)), NEW others \in Seq(Seq(S)),
           WhereGiven(groups), WhereGiven(others)
    PROVE  WhereGiven(groups \o others)
<1>1. PICK m \in Nat, n \in Nat : m = Len(groups) /\ n = Len(others)
  OBVIOUS
<1>2. PICK all : all = groups \o others
  OBVIOUS
<1>3. /\ Len(all) = m + n
      /\ \A i \in 1..(m + n) : all[i] = IF i <= m THEN groups[i] ELSE others[i - m]
  BY <1>1, <1>2, ConcatProperties
<1>4. ASSUME NEW i \in 1..Len(all) PROVE \A j \in 1..Len(all[i]) : SenseOf({}, all[i][j]).condition
  <2>1. CASE i <= m
    <3>1. i \in 1..Len(groups) /\ all[i] = groups[i]
      BY <1>1, <1>3, <2>1
    <3> QED
      BY <3>1 DEF WhereGiven
  <2>2. CASE ~(i <= m)
    <3>1. i - m \in 1..Len(others) /\ all[i] = others[i - m]
      BY <1>1, <1>3, <2>2
    <3> QED
      BY <3>1 DEF WhereGiven
  <2> QED
    BY <2>1, <2>2
<1> QED
  BY <1>2, <1>4 DEF WhereGiven

LEMMA SinglesGiven ==
    ASSUME NEW S, NEW conds \in Seq(S), \A i \in 1..Len(conds) : SenseOf({}, conds[i]).condition,
           NEW groups, groups = [i \in DOMAIN conds |-> <<conds[i]>>]
    PROVE  groups \in Seq(Seq(S)) /\ WhereGiven(groups)
<1>1. groups \in Seq(Seq(S)) /\ Len(groups) = Len(conds)
  <2>1. groups \in Seq(Seq(S))
    BY FollowsSingles
  <2> QED
    BY <2>1
<1>2. ASSUME NEW i \in 1..Len(groups) PROVE \A j \in 1..Len(groups[i]) : SenseOf({}, groups[i][j]).condition
  <2>1. i \in 1..Len(conds) /\ i \in DOMAIN conds
    BY <1>1
  <2>2. groups[i] = <<conds[i]>>
    BY <2>1
  <2>3. Len(groups[i]) = 1 /\ groups[i][1] = conds[i]
    BY <2>2
  <2> QED
    BY <2>1, <2>3
<1> QED
  BY <1>1, <1>2 DEF WhereGiven

\* Or widens the last group asked for.
LEMMA WidenedGiven ==
    ASSUME NEW S, NEW groups \in Seq(Seq(S)), WhereGiven(groups), Len(groups) # 0,
           NEW cond \in S, SenseOf({}, cond).condition, NEW last, last = groups[Len(groups)]
    PROVE  WhereGiven([groups EXCEPT ![Len(groups)] = Append(last, cond)])
<1>1. PICK n, wide, all : /\ n \in Nat /\ n = Len(groups) /\ wide = Append(last, cond)
                         /\ all = [groups EXCEPT ![n] = wide]
  <2>1. Len(groups) \in Nat
    OBVIOUS
  <2> QED
    BY <2>1, Zenon
<1>2. last \in Seq(S) /\ n \in 1..Len(groups)
  BY <1>1
<1>3. /\ Len(wide) = Len(last) + 1 /\ Len(last) \in Nat /\ wide[Len(last) + 1] = cond
      /\ \A j \in 1..Len(last) : wide[j] = last[j]
  BY <1>1, <1>2, AppendProperties
<1>4. Len(all) = n /\ all[n] = wide /\ \A i \in 1..n : i # n => all[i] = groups[i]
  BY <1>1, <1>2
<1>5. \A j \in 1..Len(wide) : SenseOf({}, wide[j]).condition
  <2> TAKE j \in 1..Len(wide)
  <2>1. j \in 1..Len(last) \/ j = Len(last) + 1
    BY <1>3
  <2>2. \A i \in 1..Len(last) : SenseOf({}, last[i]).condition
    BY <1>1, <1>2 DEF WhereGiven
  <2> QED
    BY <1>3, <2>1, <2>2
<1>6. ASSUME NEW i \in 1..Len(all) PROVE \A j \in 1..Len(all[i]) : SenseOf({}, all[i][j]).condition
  <2>1. CASE i = n
    BY <1>4, <1>5, <2>1
  <2>2. CASE i # n
    <3>1. i \in 1..Len(groups) /\ all[i] = groups[i]
      BY <1>1, <1>4, <2>2
    <3> QED
      BY <3>1 DEF WhereGiven
  <2> QED
    BY <2>1, <2>2
<1>7. WhereGiven(all)
  BY <1>6 DEF WhereGiven
<1> QED
  BY <1>1, <1>7

LEMMA BuiltSteps ==
    ASSUME [Next]_vars
    PROVE  \/ built' = NotBuilt
           \/ b' = b /\ dialect' = dialect /\ (built' = built \/ built' = BuildAnswer)
<1> DEFINE Goal == \/ built' = NotBuilt
                   \/ b' = b /\ dialect' = dialect /\ (built' = built \/ built' = BuildAnswer)
<1>1. ASSUME NEW next, Method(next) PROVE Goal
  BY <1>1 DEF Method
<1>2. ASSUME Build PROVE Goal
  BY <1>2 DEF Build, BuildAnswer
<1>3. ASSUME BuildWhereClause \/ UNCHANGED vars PROVE Goal
  BY <1>3 DEF BuildWhereClause, vars
<1>4. ASSUME NEW params, NEW ordering, List(params, ordering) PROVE Goal
  BY <1>4 DEF List
<1>5. ASSUME NEW cond, OrWhere(cond) PROVE Goal
  <2>1. \E next : Method(next)
    BY <1>5 DEF OrWhere
  <2> QED
    BY <1>1, <2>1
<1> HIDE DEF Goal
<1>6. ASSUME NEW table, From(table) \/ CrossJoin(table) PROVE Goal
  BY <1>1, <1>6 DEF From, CrossJoin
<1>7. ASSUME NEW column, SelectColumn(column) \/ GroupBy(column) \/ OrderBy(column) PROVE Goal
  BY <1>1, <1>7 DEF SelectColumn, GroupBy, OrderBy
<1>8. ASSUME NEW expr, SelectExpr(expr) \/ GroupByExpr(expr) \/ OrderByExpr(expr) PROVE Goal
  BY <1>1, <1>8 DEF SelectExpr, GroupByExpr, OrderByExpr
<1>9. ASSUME NEW cond, Where(cond) \/ Having(cond) PROVE Goal
  BY <1>1, <1>9 DEF Where, Having
<1>10. ASSUME NEW type, NEW table, NEW cond, Join(type, table, cond) PROVE Goal
  BY <1>1, <1>10 DEF Join
<1>11. ASSUME NEW n, Limit(n) \/ Offset(n) PROVE Goal
  BY <1>1, <1>11 DEF Limit, Offset
<1>12. ASSUME NEW query, AndCTE(query) PROVE Goal
  BY <1>1, <1>12 DEF AndCTE
<1>13. ASSUME NEW column, NEW value, Set(column, value) PROVE Goal
  BY <1>1, <1>13 DEF Set
<1>14. ASSUME NEW v, InsertColumns(v) \/ InsertValues(v) PROVE Goal
  BY <1>1, <1>14 DEF InsertColumns, InsertValues
<1>15. ASSUME NEW row, ValuesMap(row) PROVE Goal
  BY <1>1, <1>15 DEF ValuesMap
<1>16. ASSUME Distinct \/ Returning \/ OnConflictDoNothing PROVE Goal
  BY <1>1, <1>16 DEF Distinct, Returning, OnConflictDoNothing
<1>17. Goal
  BY <1>2, <1>3, <1>4, <1>5, <1>6, <1>7, <1>8, <1>9, <1>10, <1>11, <1>12, <1>13, <1>14, <1>15, <1>16
     DEF Next
<1> QED
  BY <1>17 DEF Goal

\* An answer depends on the builder alone.
LEMMA AnswerStays ==
    ASSUME b' = b, dialect' = dialect
    PROVE  BuildAnswer' = BuildAnswer
BY DEF BuildAnswer, render, UpdateBuild, WhereSQL, ReturningSQL, DeleteBuild, InsertBuild, CTEBuild

LEMMA AnswerSteps ==
    ASSUME AnswerInv, [Next]_vars
    PROVE  AnswerInv'
<1>1. CASE built' = NotBuilt
  BY <1>1 DEF AnswerInv, NotBuilt
<1>2. CASE b' = b /\ dialect' = dialect /\ (built' = built \/ built' = BuildAnswer)
  <2>1. BuildAnswer' = BuildAnswer
    BY <1>2, AnswerStays
  <2>2. NotBuilt' = NotBuilt
    BY DEF NotBuilt
  <2> QED
    BY <1>2, <2>1, <2>2 DEF AnswerInv
<1> QED
  BY <1>1, <1>2, BuiltSteps

SameGiven ==
    /\ b'.verb = b.verb /\ b'.having = b.having
    /\ asked'.where = asked.where /\ asked'.having = asked.having

LEMMA GivenKept ==
    ASSUME GivenInv, SameGiven
    PROVE  GivenInv'
BY DEF GivenInv, SameGiven, Selecting

\* A HAVING is asked for as it is kept.
LEMMA HavingGiven ==
    ASSUME NEW S, NEW having \in Seq(S), NEW groups, groups = [i \in DOMAIN having |-> <<having[i]>>],
           NEW cond \in S, SenseOf({}, cond).condition,
           \A i \in 1..Len(having) : SenseOf({}, having[i]).condition,
           NEW more, more = Append(having, cond)
    PROVE  /\ Append(groups, <<cond>>) = [i \in DOMAIN more |-> <<more[i]>>]
           /\ \A i \in 1..Len(more) : SenseOf({}, more[i]).condition
<1>1. PICK n \in Nat : n = Len(having)
  OBVIOUS
<1>2. /\ Len(more) = n + 1 /\ DOMAIN more = 1..(n + 1) /\ more[n + 1] = cond
      /\ \A i \in 1..n : more[i] = having[i]
  <2>1. more \in Seq(S) /\ Len(more) = n + 1 /\ more[n + 1] = cond /\ \A i \in 1..n : more[i] = having[i]
    BY <1>1, AppendProperties
  <2> QED
    BY <2>1
<1>3. groups \in Seq(Seq(S)) /\ Len(groups) = n /\ \A i \in 1..n : groups[i] = <<having[i]>>
  <2>1. groups \in Seq(Seq(S))
    BY FollowsSingles
  <2> QED
    BY <1>1, <2>1
<1>4. PICK all, one : all = Append(groups, one) /\ one = <<cond>>
  OBVIOUS
<1>5. /\ all \in Seq(Seq(S)) /\ Len(all) = n + 1 /\ all[n + 1] = one
      /\ \A i \in 1..n : all[i] = groups[i]
  <2>1. one \in Seq(S)
    BY <1>4
  <2> QED
    BY <1>3, <1>4, <2>1, AppendProperties
<1>6. DOMAIN all = 1..(n + 1)
  BY <1>5
<1>7. \A i \in 1..(n + 1) : all[i] = <<more[i]>>
  <2> TAKE i \in 1..(n + 1)
  <2>1. i = n + 1 \/ i \in 1..n
    OBVIOUS
  <2> QED
    BY <1>2, <1>3, <1>4, <1>5, <2>1
<1>8. all = [i \in DOMAIN more |-> <<more[i]>>]
  <2>1. all = [i \in DOMAIN all |-> all[i]]
    BY <1>5
  <2> QED
    BY <1>2, <1>6, <1>7, <2>1
<1>9. \A i \in 1..Len(more) : SenseOf({}, more[i]).condition
  <2> TAKE i \in 1..Len(more)
  <2>1. i = n + 1 \/ i \in 1..n
    BY <1>2
  <2> QED
    BY <1>1, <1>2, <2>1
<1> QED
  BY <1>4, <1>8, <1>9

LEMMA GivenSteps ==
    ASSUME BuildersInv, AskedInv, GivenInv, [Next]_vars
    PROVE  GivenInv'
<1>1. /\ AskedTyped /\ DOMAIN b = Fields /\ StoresAs(b, b)
      /\ DOMAIN asked = {"where", "having", "sets", "rows", "mixed"}
  BY BuilderFields DEF AskedInv, AskedTyped, BuildersInv
<1>2. PICK T : T = Trees[MaxHeight]
  OBVIOUS
<1>3. /\ asked.where \in Seq(Seq(T)) /\ WhereGiven(asked.where) /\ b.having \in Seq(T)
      /\ Conditions \cup HavingConditions \subseteq T /\ dialect \in Dialects
  <2>1. Conditions \cup HavingConditions \subseteq Given /\ Given \subseteq Trees[MaxHeight]
    BY <1>1, BuilderTrees, BuildersAssumption
  <2>2. b.having \in Seq(T) /\ asked.where \in Seq(Seq(T))
    BY <1>1, <1>2, BuilderTrees, GivenTrees
  <2> QED
    BY <1>2, <2>1, <2>2 DEF GivenInv, WhereGiven, BuildersInv
<1>4. ASSUME ElsewhereNext PROVE GivenInv'
  <2>1. StoresAs(b, b') /\ asked' = asked
    BY <1>4, ElsewhereSteps
  <2> QED
    BY <2>1, GivenKept DEF StoresAs, SameGiven
<1>5. ASSUME NEW column, SelectColumn(column) PROVE GivenInv'
  <2>1. PICK q : q = Checked(b.verb = "cte" \/ ValidColumnReference(column))
    OBVIOUS
  <2>2. StoresAs(b, q)
    BY <2>1, CheckedStores DEF BuildersInv
  <2>3. b' = [q EXCEPT !.columns = <<column>>] /\ asked' = asked
    BY <1>5, <2>1 DEF SelectColumn, Method
  <2>4. SameGiven
    BY <2>2, <2>3 DEF StoresAs, Fields, SameGiven
  <2> QED
    BY <2>4, GivenKept
<1>6. ASSUME NEW column, NEW value, Set(column, value) PROVE GivenInv'
  <2>1. PICK q : q = Checked(ValidIdentifier(column))
    OBVIOUS
  <2>2. StoresAs(b, q)
    BY <2>1, CheckedStores DEF BuildersInv
  <2>3. \E v : b' = [q EXCEPT !.sets = v]
    BY <1>6, <2>1 DEF Set, Method
  <2>4. \E v : asked' = [asked EXCEPT !.sets = v]
    BY <1>6 DEF Set
  <2>5. b'.verb = b.verb /\ b'.having = b.having
    BY <2>2, <2>3 DEF StoresAs, Fields
  <2>6. asked'.where = asked.where /\ asked'.having = asked.having
    BY <1>1, <2>4
  <2> QED
    BY <2>5, <2>6, GivenKept DEF SameGiven
<1>7. ASSUME NEW x, InsertColumns(x) \/ InsertValues(x) \/ ValuesMap(x) PROVE GivenInv'
  <2>1. \E u, v : b' = [b EXCEPT !.columns = u] \/ b' = [b EXCEPT !.rows = v]
                  \/ b' = [b EXCEPT !.columns = u, !.rows = v]
    BY <1>7 DEF InsertColumns, InsertValues, ValuesMap, Method
  <2>2. \E v : asked' = [asked EXCEPT !.mixed = v] \/ asked' = [asked EXCEPT !.rows = v]
    BY <1>7 DEF InsertColumns, InsertValues, ValuesMap
  <2>3. b'.verb = b.verb /\ b'.having = b.having
    BY <1>1, <2>1 DEF Fields
  <2>4. asked'.where = asked.where /\ asked'.having = asked.having
    BY <1>1, <2>2
  <2> QED
    BY <2>3, <2>4, GivenKept DEF SameGiven
<1>8. ASSUME b'.verb = b.verb, b'.having = b.having, asked'.having = asked.having,
             b.verb # "insert", WhereGiven(asked'.where)
      PROVE  GivenInv'
  BY <1>8 DEF GivenInv, WhereGiven, Selecting
<1>9. ASSUME NEW cond \in Conditions, Where(cond) PROVE GivenInv'
  <2>1. /\ b' = [b EXCEPT !.conditions = Append(@, cond)] /\ b.verb # "insert"
        /\ asked' = [asked EXCEPT !.where = Append(@, <<cond>>)]
    BY <1>9 DEF Where, Method, Conditional
  <2>2. /\ b'.verb = b.verb /\ b'.having = b.having /\ asked'.having = asked.having
        /\ asked'.where = Append(asked.where, <<cond>>)
    BY <1>1, <2>1 DEF Fields
  <2>3. PICK one, group, w : one = <<cond>> /\ group = <<one>> /\ w = asked.where
    OBVIOUS
  <2>4. one \in Seq(T) /\ w \in Seq(Seq(T)) /\ SenseOf({}, cond).condition /\ cond \in T
    BY <1>3, <2>3, GivenConditions
  <2>5. group \in Seq(Seq(T)) /\ WhereGiven(group)
    BY <2>3, <2>4, OneGiven
  <2>6. Append(w, one) = w \o group
    BY <2>3, <2>4, AppendIsConcat
  <2>7. asked'.where = asked.where \o group
    BY <2>2, <2>3, <2>6
  <2>8. WhereGiven(asked.where \o group)
    BY <1>3, <2>5, MoreGiven
  <2> QED
    BY <1>8, <2>1, <2>2, <2>7, <2>8
<1>10. ASSUME NEW cond \in Conditions, OrWhere(cond) PROVE GivenInv'
  <2>1. b.verb # "insert" /\ \E v : b' = [b EXCEPT !.conditions = v]
    BY <1>10 DEF OrWhere, Method
  <2>2. b'.verb = b.verb /\ b'.having = b.having
    BY <1>1, <2>1 DEF Fields
  <2>3. SenseOf({}, cond).condition /\ cond \in T
    BY <1>3, GivenConditions
  <2>4. Len(b.conditions) = Len(asked.where)
    BY DEF AskedInv, Stored
  <2>5. CASE Len(b.conditions) = 0
    <3>1. asked' = [asked EXCEPT !.where = <<<<cond>>>>]
      BY <1>10, <2>5 DEF OrWhere
    <3>2. asked'.where = <<<<cond>>>> /\ asked'.having = asked.having
      BY <1>1, <3>1
    <3> QED
      BY <1>8, <2>1, <2>2, <2>3, <3>2, OneGiven
  <2>6. CASE Len(b.conditions) # 0
    <3>1. PICK w, n, last : w = asked.where /\ n = Len(w) /\ last = w[n]
      OBVIOUS
    <3>2. asked' = [asked EXCEPT !.where[n] = Append(@, cond)]
      BY <1>10, <2>6, <3>1 DEF OrWhere
    <3>3. asked'.where = [w EXCEPT ![n] = Append(last, cond)] /\ asked'.having = asked.having
      BY <1>1, <3>1, <3>2
    <3>4. w \in Seq(Seq(T)) /\ WhereGiven(w) /\ Len(w) # 0
      BY <1>3, <2>4, <2>6, <3>1
    <3>5. WhereGiven([w EXCEPT ![Len(w)] = Append(last, cond)])
      <4>1. last = w[Len(w)]
        BY <3>1
      <4> QED
        BY ONLY <2>3, <3>4, <4>1, WidenedGiven
    <3> QED
      BY <1>8, <2>1, <2>2, <3>1, <3>3, <3>5
  <2> QED
    BY <2>5, <2>6
<1>11. ASSUME NEW params \in QueryStrings, NEW ordering, List(params, ordering) PROVE GivenInv'
  <2>1. PICK s : s = filters'
    OBVIOUS
  <2>2. s \in Seq(Filters)
    BY <1>11, <2>1, FiltersParsed DEF List
  <2>3. PICK conds : conds = [i \in DOMAIN s |-> ConditionOf(s[i])]
    OBVIOUS
  <2>4. DOMAIN s = 1..Len(s) /\ Len(s) \in Nat /\ \A i \in 1..Len(s) : s[i] \in Filters
    BY <2>2
  <2>5. conds \in Seq(T) /\ Len(conds) = Len(s)
    <3>1. \A f \in Filters : ConditionOf(f) \in T
      BY <1>2, <1>3, ConditionHigh
    <3>2. conds \in [1..Len(s) -> T]
      BY <2>3, <2>4, <3>1
    <3> QED
      BY <2>4, <3>2, AsSeq
  <2>6. \A i \in 1..Len(conds) : SenseOf({}, conds[i]).condition
    BY <1>3, <2>3, <2>4, <2>5, GivenConditions
  <2>7. PICK group : group = [i \in DOMAIN conds |-> <<conds[i]>>]
    OBVIOUS
  <2>8. group \in Seq(Seq(T)) /\ WhereGiven(group)
    BY <2>5, <2>6, <2>7, SinglesGiven
  <2>9. WhereGiven(asked.where \o group)
    BY <1>3, <2>8, MoreGiven
  <2>10. group = [i \in DOMAIN s |-> <<ConditionOf(s[i])>>]
    BY <2>3, <2>7
  <2>11. asked'.where = asked.where \o group /\ asked'.having = asked.having
    <3>1. asked' = [asked EXCEPT !.where = @ \o group]
      BY <1>11, <2>1, <2>10 DEF List
    <3> QED
      BY <1>1, <3>1
  <2>12. b'.verb = b.verb /\ b'.having = b.having /\ b.verb # "insert"
    <3>1. b.verb # "insert" /\ \E u, v : b' = [b EXCEPT !.conditions = u, !.orderBy = v]
      BY <1>11 DEF List
    <3> QED
      BY <1>1, <3>1 DEF Fields
  <2> QED
    BY <1>8, <2>9, <2>11, <2>12
<1>12. ASSUME NEW cond \in HavingConditions, Having(cond) PROVE GivenInv'
  <2>1. /\ b' = [b EXCEPT !.having = Append(@, cond)] /\ Selecting
        /\ asked' = [asked EXCEPT !.having = Append(@, <<cond>>)]
    BY <1>12 DEF Having, Method
  <2>2. PICK having, groups, more : having = b.having /\ groups = asked.having /\ more = Append(having, cond)
    OBVIOUS
  <2>3. /\ b'.verb = b.verb /\ b'.having = more
        /\ asked'.having = Append(groups, <<cond>>) /\ asked'.where = asked.where
    BY <1>1, <2>1, <2>2 DEF Fields
  <2>4. /\ Append(groups, <<cond>>) = [i \in DOMAIN more |-> <<more[i]>>]
        /\ \A i \in 1..Len(more) : SenseOf({}, more[i]).condition
    <3>1. having \in Seq(T) /\ cond \in T /\ SenseOf({}, cond).condition
      BY <1>3, <2>2, GivenConditions
    <3>2. /\ groups = [i \in DOMAIN having |-> <<having[i]>>]
          /\ \A i \in 1..Len(having) : SenseOf({}, having[i]).condition
      BY <2>2 DEF GivenInv
    <3> QED
      BY ONLY <2>2, <3>1, <3>2, HavingGiven
  <2> QED
    BY <2>1, <2>3, <2>4 DEF GivenInv, Selecting
<1>13. ASSUME UNCHANGED vars PROVE GivenInv'
  <2>1. b' = b /\ asked' = asked
    BY <1>13 DEF vars
  <2> QED
    BY <2>1, GivenKept DEF SameGiven
<1> QED
  BY <1>4, <1>5, <1>6, <1>7, <1>9, <1>10, <1>11, <1>12, <1>13 DEF Next, ElsewhereNext

LEMMA ReadInit ==
    ASSUME Init
    PROVE  ReadInv
<1>1. asked.where = <<>> /\ asked.having = <<>> /\ built = NotBuilt /\ b.having = <<>>
  BY DEF Init, Builder
<1>2. Len(<<>>) = 0 /\ DOMAIN <<>> = {} /\ \A i : i \notin 1..0
  OBVIOUS
<1>3. asked.having = [i \in DOMAIN b.having |-> <<b.having[i]>>]
  BY <1>1
<1> QED
  BY <1>1, <1>2, <1>3 DEF ReadInv, GivenInv, AnswerInv

LEMMA ReadInvariance == Spec => [](BuildersInv /\ AskedInv /\ ReadInv)
<1>1. Init => ReadInv
  BY ReadInit
<1>2. BuildersInv /\ AskedInv /\ ReadInv /\ [Next]_vars => ReadInv'
  BY GivenSteps, AnswerSteps DEF ReadInv
<1> QED
  BY <1>1, <1>2, Invariance, AskedInvariance, PTL DEF Spec

-----------------------------------------------------------------------------
(* What the statements mean                                                *)

LEMMA AnsweredSays ==
    ASSUME BuildersInv, AskedInv, ReadInv, Answered, NEW rows
    PROVE  /\ Says(built.text, "WHERE", rows, b.conditions)
           /\ Says(built.text, "HAVING", rows, b.having)
<1>1. built = BuildAnswer
  BY DEF ReadInv, AnswerInv, Answered
<1>2. ~BuildAnswer.err
  BY <1>1 DEF Answered
<1> QED
  BY <1>1, <1>2, AnswerSays DEF ReadInv

LEMMA ClauseMeans ==
    ASSUME NEW conds \in Seq(Trees[MaxHeight]), NEW groups \in Seq(Seq(Trees[MaxHeight])),
           Stored(conds, groups), WhereGiven(groups), Senseful({}, groups),
           NEW word, \A rows : Says(built.text, word, rows, conds)
    PROVE  Means(word, groups)
<1>1. PICK text, rows : /\ text = ClauseOf(built.text, word) /\ rows = Rows(text, groups)
  OBVIOUS
<1>2. Says(built.text, word, rows, conds)
  OBVIOUS
<1>3. GroupsMean(rows, conds, groups)
  BY GroupsFollow DEF WhereGiven
<1>4. CASE groups = <<>>
  <2>1. conds = <<>>
    <3>1. Len(conds) = 0
      BY <1>4 DEF Stored
    <3> QED
      BY <3>1
  <2>2. At(built.text, {word}) = {}
    BY <1>2, <2>1 DEF Says
  <2> QED
    BY <1>4, <2>2 DEF Means
<1>5. CASE groups # <<>>
  <2>1. conds # <<>>
    <3>1. Len(groups) # 0 /\ Len(conds) = Len(groups)
      BY <1>5 DEF Stored
    <3> QED
      BY <3>1
  <2>2. At(built.text, {word}) # {} /\ ConditionsMean(rows, text, conds)
    BY <1>1, <1>2, <2>1 DEF Says
  <2>3. \A i \in 1..Len(conds) : ~SenseOf({}, conds[i]).hollow
    <3>1. ASSUME NEW i \in 1..Len(groups), NEW j \in 1..Len(groups[i])
          PROVE  ~SenseOf({}, groups[i][j]).hollow
      <4>1. i \in DOMAIN groups /\ j \in DOMAIN groups[i]
        OBVIOUS
      <4> QED
        BY <4>1 DEF Senseful
    <3>2. Len(conds) = Len(groups)
      BY DEF Stored
    <3> QED
      BY <1>3, <3>1, <3>2 DEF GroupsMean
  <2>4. Reads(rows, text) = Readable(Narrowed(rows, conds))
    BY <2>2, <2>3 DEF ConditionsMean
  <2>5. Reads(rows, text) = Readable(Wanted(rows, groups))
    BY <1>3, <2>4 DEF GroupsMean
  <2> QED
    BY <1>1, <1>5, <2>2, <2>5, Zenon DEF Means
<1> QED
  BY <1>4, <1>5

LEMMA HavingStored ==
    ASSUME BuildersInv, AskedInv, ReadInv
    PROVE  /\ b.having \in Seq(Trees[MaxHeight]) /\ asked.having \in Seq(Seq(Trees[MaxHeight]))
           /\ Stored(b.having, asked.having) /\ WhereGiven(asked.having)
<1>1. PICK T, having, groups : T = Trees[MaxHeight] /\ having = b.having /\ groups = asked.having
  OBVIOUS
<1>2. having \in Seq(T)
  BY <1>1, BuilderTrees DEF AskedInv
<1>3. /\ groups = [i \in DOMAIN having |-> <<having[i]>>]
      /\ \A i \in 1..Len(having) : SenseOf({}, having[i]).condition
  BY <1>1 DEF ReadInv, GivenInv
<1>4. groups \in Seq(Seq(T)) /\ WhereGiven(groups)
  BY <1>2, <1>3, SinglesGiven
<1>5. \A V : Follows(V, having, groups)
  BY <1>2, <1>3, FollowsSingles
<1>6. Len(having) = Len(groups)
  BY <1>2, <1>3
<1>7. Stored(having, groups)
  BY <1>5, <1>6 DEF Stored
<1> QED
  BY <1>1, <1>2, <1>4, <1>7

\* The WHERE and the HAVING of a statement Build answers whose conditions were
\* all accepted, read with SQL's precedence, let the rows through that the calls
\* asked for: Where and And narrow, Or widens the condition before it and no
\* other (query/select.go, update.go, delete.go, cte.go, condition.go).  A
\* subquery that does not build is read as no row, under Not as every row, and
\* a Raw text as one that no OR divides.
THEOREM ClausesAlwaysMeanWhatWasAsked == Spec => []ClausesMeanWhatWasAsked
<1>1. ASSUME BuildersInv, AskedInv, ReadInv PROVE ClausesMeanWhatWasAsked
  <2> SUFFICES ASSUME Answered
               PROVE  /\ Senseful({}, asked.where) => Means("WHERE", asked.where)
                      /\ Senseful({}, asked.having) => Means("HAVING", asked.having)
    BY DEF ClausesMeanWhatWasAsked
  <2>1. \A rows : /\ Says(built.text, "WHERE", rows, b.conditions)
                  /\ Says(built.text, "HAVING", rows, b.having)
    BY <1>1, AnsweredSays
  <2>2. ASSUME Senseful({}, asked.where) PROVE Means("WHERE", asked.where)
    <3>1. PICK conds, groups : conds = b.conditions /\ groups = asked.where
      OBVIOUS
    <3>2. /\ conds \in Seq(Trees[MaxHeight]) /\ groups \in Seq(Seq(Trees[MaxHeight]))
          /\ Stored(conds, groups) /\ WhereGiven(groups)
      BY <1>1, <3>1, GivenTrees DEF AskedInv, ReadInv, GivenInv, WhereGiven
    <3>3. Means("WHERE", groups)
      BY <2>1, <2>2, <3>1, <3>2, ClauseMeans
    <3> QED
      BY <3>1, <3>3
  <2>3. ASSUME Senseful({}, asked.having) PROVE Means("HAVING", asked.having)
    <3>1. PICK conds, groups : conds = b.having /\ groups = asked.having
      OBVIOUS
    <3>2. /\ conds \in Seq(Trees[MaxHeight]) /\ groups \in Seq(Seq(Trees[MaxHeight]))
          /\ Stored(conds, groups) /\ WhereGiven(groups)
      BY <1>1, <3>1, HavingStored
    <3>3. Means("HAVING", groups)
      BY <2>1, <2>3, <3>1, <3>2, ClauseMeans
    <3> QED
      BY <3>1, <3>3
  <2> QED
    BY <2>2, <2>3
<1> QED
  BY <1>1, ReadInvariance, PTL

\* A statement with a refused condition anywhere in its WHERE does not parse,
\* though Build looks for it at the top only (hasInvalidCondition,
\* query/condition.go) and DeleteBuilder.Build does not look at all.
THEOREM HolesNeverRun == Spec => []HolesDoNotRun
<1>1. ASSUME BuildersInv, AskedInv, ReadInv PROVE HolesDoNotRun
  <2> SUFFICES ASSUME Answered,
                      \E i \in DOMAIN asked.where : \E j \in DOMAIN asked.where[i] :
                          SenseOf({}, asked.where[i][j]).hollow
               PROVE  ~Reads({}, ClauseOf(built.text, "WHERE")).ok
    BY DEF HolesDoNotRun
  <2>1. PICK conds, groups, T : conds = b.conditions /\ groups = asked.where /\ T = Trees[MaxHeight]
    OBVIOUS
  <2>2. /\ conds \in Seq(T) /\ groups \in Seq(Seq(T))
        /\ Stored(conds, groups) /\ WhereGiven(groups)
    BY <1>1, <2>1, GivenTrees DEF AskedInv, ReadInv, GivenInv, WhereGiven
  <2>3. PICK i \in DOMAIN groups : \E j \in DOMAIN groups[i] : SenseOf({}, groups[i][j]).hollow
    BY <2>1
  <2>4. i \in 1..Len(groups) /\ groups[i] \in Seq(T)
    BY <2>2, <2>3
  <2>5. \E j \in 1..Len(groups[i]) : SenseOf({}, groups[i][j]).hollow
    BY <2>3, <2>4
  <2>6. i \in 1..Len(conds) /\ SenseOf({}, conds[i]).hollow
    <3>1. GroupsMean({}, conds, groups)
      BY <2>1, <2>2, GroupsFollow DEF WhereGiven
    <3> QED
      BY <2>4, <2>5, <3>1 DEF GroupsMean
  <2>7. conds # <<>>
    BY <2>6
  <2>8. Says(built.text, "WHERE", {}, conds)
    BY <1>1, <2>1, AnsweredSays
  <2> QED
    BY <2>6, <2>7, <2>8 DEF Says, ConditionsMean
<1> QED
  BY <1>1, ReadInvariance, PTL

-----------------------------------------------------------------------------
(* The values of an UPDATE and of an INSERT                                *)

\* Parts of two tokens each, with sep between them.
PairsIn(parts, sep, text) ==
    /\ text \in Seq(Token)
    /\ Len(text) = IF parts = <<>> THEN 0 ELSE 3 * Len(parts) - 1
    /\ \A k \in 1..Len(parts) : text[3 * k - 2] = parts[k][1] /\ text[3 * k - 1] = parts[k][2]
    /\ \A k \in 1..(Len(parts) - 1) : text[3 * k] = Word(sep)

Appended(u, w, x, n, text) ==
    /\ text \in Seq(Token) /\ Len(text) = n + 1 + Len(x)
    /\ \A i \in 1..n : text[i] = u[i]
    /\ text[n + 1] = w
    /\ \A i \in 1..Len(x) : text[n + 1 + i] = x[i]

LEMMA AppendedTokens ==
    ASSUME NEW u \in Seq(Token), NEW w \in Token, NEW x \in Seq(Token)
    PROVE  Appended(u, w, x, Len(u), (u \o <<w>>) \o x)
<1>a. PICK text : text = (u \o <<w>>) \o x
  OBVIOUS
<1>0. PICK n \in Nat : n = Len(u) /\ text = (u \o <<w>>) \o x
  <2>1. Len(u) \in Nat
    OBVIOUS
  <2> QED
    BY <1>a, <2>1, Zenon
<1>1. PICK v : v = u \o <<w>>
  OBVIOUS
<1>2. v = Append(u, w)
  BY <1>1, AppendIsConcat
<1>3. /\ v \in Seq(Token) /\ Len(v) = n + 1 /\ v[n + 1] = w
      /\ \A i \in 1..n : v[i] = u[i]
  BY <1>0, <1>2, AppendProperties
<1>4. text = v \o x
  BY <1>0, <1>1
<1>5. PICK m \in Nat : m = Len(x)
  OBVIOUS
<1>6. text \in Seq(Token) /\ Len(text) = (n + 1) + m
  BY <1>3, <1>4, <1>5, ConcatProperties
<1>7. \A i \in 1..((n + 1) + m) : text[i] = IF i <= n + 1 THEN v[i] ELSE x[i - (n + 1)]
  <2>1. \A i \in 1..(Len(v) + Len(x)) : (v \o x)[i] = IF i <= Len(v) THEN v[i] ELSE x[i - Len(v)]
    BY ONLY <1>3, x \in Seq(Token), ConcatProperties
  <2>2. Len(v) = n + 1 /\ Len(x) = m
    BY ONLY <1>3, <1>5
  <2> QED
    BY ONLY <1>4, <2>1, <2>2
<1>8. \A i \in 1..(n + 1) : text[i] = v[i]
  BY <1>7
<1>9. \A i \in 1..m : text[n + 1 + i] = x[i]
  <2> TAKE i \in 1..m
  <2>1. n + 1 + i \in 1..((n + 1) + m) /\ ~(n + 1 + i <= n + 1) /\ (n + 1 + i) - (n + 1) = i
    OBVIOUS
  <2> QED
    BY <1>7, <2>1
<1>10. Appended(u, w, x, n, text)
  BY <1>3, <1>5, <1>6, <1>8, <1>9 DEF Appended
<1> QED
  BY <1>0, <1>10, Zenon

LEMMA JoinedPairs ==
    ASSUME NEW sep \in Keywords, NEW Pairs, Pairs = {x \in Seq(Token) : Len(x) = 2},
           NEW parts \in Seq(Pairs)
    PROVE  PairsIn(parts, sep, Joined(parts, sep))
<1> DEFINE P == {s \in Seq(Pairs) : PairsIn(s, sep, Joined(s, sep))}
<1>1. <<>> \in P
  <2>1. <<>> \in Seq(Seq(Token)) /\ <<>> \in Seq(Token) /\ Len(<<>>) = 0
    BY EmptySeq
  <2>2. Joined(<<>>, sep) = <<>>
    BY <2>1, JoinedMore
  <2>3. \A k : k \notin 1..0 /\ k \notin 1..(0 - 1)
    OBVIOUS
  <2>4. PairsIn(<<>>, sep, <<>>)
    BY <2>1, <2>3 DEF PairsIn
  <2> QED
    BY <2>2, <2>4, EmptySeq
<1>2. ASSUME NEW s \in Seq(Pairs), NEW x \in Pairs, s \in P PROVE Append(s, x) \in P
  <2>1. x \in Seq(Token) /\ Len(x) = 2
    OBVIOUS
  <2>2. s \in Seq(Seq(Token))
    <3>1. Pairs \subseteq Seq(Token)
      OBVIOUS
    <3>2. Seq(Pairs) \subseteq Seq(Seq(Token))
      BY <3>1, SeqsOver
    <3> QED
      BY <3>2
  <2>2a. PICK more : more = Append(s, x)
    OBVIOUS
  <2>3. PICK m \in Nat : m = Len(s) /\ more = Append(s, x)
    <3>1. Len(s) \in Nat
      OBVIOUS
    <3> QED
      BY <2>2a, <3>1, Zenon
  <2>4. /\ more \in Seq(Pairs) /\ Len(more) = m + 1 /\ more[m + 1] = x /\ more # <<>>
        /\ \A i \in 1..m : more[i] = s[i]
    <3>1. /\ more \in Seq(Pairs) /\ Len(more) = m + 1 /\ more[m + 1] = x
          /\ \A i \in 1..m : more[i] = s[i]
      BY ONLY <2>3, s \in Seq(Pairs), x \in Pairs, AppendProperties
    <3>2. m + 1 # 0
      BY <2>3
    <3> QED
      BY <3>1, <3>2
  <2>5. PICK text, u : text = Joined(more, sep) /\ u = Joined(s, sep)
    OBVIOUS
  <2>6. CASE s = <<>>
    <3>1. more = <<x>>
      BY <2>3, <2>6
    <3>2. text = x
      BY <2>1, <2>2, <2>5, <3>1, JoinedMore
    <3>3. m = 0 /\ Len(more) = 1 /\ more[1] = x
      BY <2>3, <2>4, <2>6
    <3>4. PairsIn(more, sep, text)
      BY <2>1, <2>4, <3>2, <3>3 DEF PairsIn
    <3> QED
      BY <2>3, <2>4, <2>5, <3>4
  <2>7. CASE s # <<>>
    <3>1. m # 0
      BY <2>3, <2>7
    <3>2. text = (u \o <<Word(sep)>>) \o x
      BY <2>1, <2>2, <2>3, <2>5, <2>7, JoinedMore
    <3>3. PairsIn(s, sep, u)
      BY <1>2, <2>5
    <3>4. u \in Seq(Token) /\ Len(u) = 3 * m - 1 /\ 3 * m - 1 \in Nat
      BY <2>3, <2>7, <3>1, <3>3 DEF PairsIn
    <3>5. Word(sep) \in Token
      BY KeywordsUnmarked DEF Word
    <3>6. /\ text \in Seq(Token) /\ Len(text) = 3 * m + 2
          /\ \A i \in 1..(3 * m - 1) : text[i] = u[i]
          /\ text[3 * m] = Word(sep) /\ text[3 * m + 1] = x[1] /\ text[3 * m + 2] = x[2]
      <4>1. PICK n \in Nat : n = 3 * m - 1
        BY <3>4
      <4>2. /\ text \in Seq(Token) /\ Len(text) = n + 1 + Len(x)
            /\ \A i \in 1..n : text[i] = u[i]
            /\ text[n + 1] = Word(sep)
            /\ \A i \in 1..Len(x) : text[n + 1 + i] = x[i]
        <5>1. PICK tok \in Token : tok = Word(sep)
          BY <3>5
        <5>2. text = (u \o <<tok>>) \o x
          BY ONLY <3>2, <5>1
        <5>3. n = Len(u) /\ u \in Seq(Token) /\ x \in Seq(Token)
          BY <2>1, <3>4, <4>1
        <5>4. Appended(u, tok, x, Len(u), (u \o <<tok>>) \o x)
          BY <5>3, AppendedTokens
        <5>5. Appended(u, tok, x, n, text)
          BY <5>2, <5>3, <5>4, Zenon
        <5> QED
          BY <5>1, <5>5 DEF Appended
      <4>3. text[n + 1 + 1] = x[1] /\ text[n + 1 + 2] = x[2]
        BY <2>1, <4>2
      <4>4. n + 1 = 3 * m /\ n + 1 + 1 = 3 * m + 1 /\ n + 1 + 2 = 3 * m + 2
        BY <4>1
      <4> QED
        BY <2>1, <4>1, <4>2, <4>3, <4>4
    <3>7. ASSUME NEW k \in 1..(m + 1)
          PROVE  text[3 * k - 2] = more[k][1] /\ text[3 * k - 1] = more[k][2]
      <4>1. CASE k = m + 1
        <5>1. 3 * k - 2 = 3 * m + 1 /\ 3 * k - 1 = 3 * m + 2
          BY <4>1
        <5> QED
          BY <2>4, <3>6, <4>1, <5>1
      <4>2. CASE k # m + 1
        <5>1. k \in 1..m /\ 3 * k - 2 \in 1..(3 * m - 1) /\ 3 * k - 1 \in 1..(3 * m - 1)
          BY <4>2
        <5>2. u[3 * k - 2] = s[k][1] /\ u[3 * k - 1] = s[k][2]
          BY <2>3, <3>3, <5>1 DEF PairsIn
        <5> QED
          BY <2>4, <3>6, <5>1, <5>2
      <4> QED
        BY <4>1, <4>2
    <3>8. ASSUME NEW k \in 1..m PROVE text[3 * k] = Word(sep)
      <4>1. CASE k = m
        BY <3>6, <4>1
      <4>2. CASE k # m
        <5>1. k \in 1..(m - 1) /\ 3 * k \in 1..(3 * m - 1)
          BY <4>2
        <5>2. u[3 * k] = Word(sep)
          BY <2>3, <3>3, <5>1 DEF PairsIn
        <5> QED
          BY <3>6, <5>1, <5>2
      <4> QED
        BY <4>1, <4>2
    <3>9. 3 * (m + 1) - 1 = 3 * m + 2 /\ (m + 1) - 1 = m
      OBVIOUS
    <3>10. PairsIn(more, sep, text)
      BY <2>4, <3>6, <3>7, <3>8, <3>9 DEF PairsIn
    <3> QED
      BY <2>3, <2>4, <2>5, <3>10
  <2> QED
    BY <2>6, <2>7
<1> HIDE DEF P
<1>3. parts \in P
  BY <1>1, <1>2, FromPrefixes
<1> QED
  BY <1>3 DEF P

LEMMA MarkParts ==
    ASSUME NEW d, NEW n, NEW v
    PROVE  Mark(d, n, v).t = "?" /\ Mark(d, n, v).v = v
BY DEF Mark

LEMMA NamesDiffer ==
    ASSUME NEW x, NEW y, Name(x) = Name(y)
    PROVE  x = y
<1>1. Name(x).v = x /\ Name(y).v = y
  BY DEF Name
<1> QED
  BY <1>1

LEMMA NameOrMark ==
    ASSUME NEW x, NEW d, NEW n, NEW v
    PROVE  Name(x) # Mark(d, n, v)
<1>1. Name(x).t = "name"
  BY DEF Name
<1>2. Name(x).t # Mark(d, n, v).t
  BY <1>1, MarkParts
<1> QED
  BY <1>2

LEMMA NameOrComma ==
    ASSUME NEW x
    PROVE  Name(x) # Word(",")
<1>1. Name(x).t = "name" /\ Word(",").t = ","
  BY DEF Name, Word
<1>2. Name(x).t # Word(",").t
  BY <1>1
<1> QED
  BY <1>2

\* The parts of a SET.
SetParts(d, s, parts) ==
    /\ Len(parts) = Len(s)
    /\ \A i \in 1..Len(s) : parts[i] = <<Name(s[i][1]), Mark(d, i, s[i][2])>>

OnceIn(text, c, v) ==
    \E i \in 1..(Len(text) - 1) :
       /\ text[i + 1].t = "?" /\ text[i + 1].v = v
       /\ \A j \in 1..Len(text) : text[j] = Name(c) <=> j = i

LEMMA PairPlaces ==
    ASSUME NEW n \in Nat, NEW i \in 1..n
    PROVE  /\ n # 0 /\ 3 * n - 1 \in Nat /\ 3 * i - 2 \in Nat /\ (3 * i - 2) + 1 = 3 * i - 1
           /\ 3 * i - 2 \in 1..((3 * n - 1) - 1) /\ 3 * i - 2 \in 1..(3 * n - 1)
           /\ \A j \in 1..(3 * n - 1) :
                 \E q \in 1..n : j = 3 * q - 2 \/ j = 3 * q - 1 \/ (j = 3 * q /\ q \in 1..(n - 1))
<1>1. ASSUME NEW j \in 1..(3 * n - 1)
      PROVE  \E q \in 1..n : j = 3 * q - 2 \/ j = 3 * q - 1 \/ (j = 3 * q /\ q \in 1..(n - 1))
  <2>1. PICK q \in Int : q = (j + 2) \div 3
    OBVIOUS
  <2>2. 3 * q <= j + 2 /\ j + 2 < 3 * q + 3
    BY <2>1
  <2>3. q \in 1..n
    BY <2>2
  <2>4. j = 3 * q - 2 \/ j = 3 * q - 1 \/ (j = 3 * q /\ q \in 1..(n - 1))
    BY <2>2, <2>3
  <2> QED
    BY <2>3, <2>4
<1> QED
  BY <1>1

\* A column is there once, with the value it was given last.
LEMMA PairsSettle ==
    ASSUME NEW d, NEW S, NEW s \in Seq(S), NEW a \in Seq(S),
           Settled(s, a), NEW parts, SetParts(d, s, parts),
           NEW text, PairsIn(parts, ",", text), NEW k \in 1..Len(a),
           NEW c, NEW v, c = a[k][1], v = a[k][2], NoLater(a, k, c)
    PROVE  OnceIn(text, c, v)
<1>1. PICK n \in Nat : n = Len(s)
  BY ONLY s \in Seq(S)
<1>2. PICK i \in 1..n : s[i][1] = c
  BY <1>1 DEF Settled
<1>3. PICK m \in 1..Len(a) : a[m] = s[i] /\ NoLater(a, m, s[i][1])
  BY <1>1, <1>2 DEF Settled
<1>4. m = k
  <2>1. a[m][1] = c /\ a[k][1] = c
    BY <1>1, <1>2, <1>3
  <2>2. ~(k > m) /\ ~(m > k)
    BY <1>1, <1>2, <1>3, <2>1 DEF NoLater
  <2>3. Len(a) \in Nat
    BY ONLY a \in Seq(S)
  <2> QED
    BY ONLY <2>2, <2>3, k \in 1..Len(a), m \in 1..Len(a)
<1>5. s[i][1] = c /\ s[i][2] = v
  BY <1>1, <1>2, <1>3, <1>4
<1>6. PICK at \in Nat, l \in Nat : /\ at = 3 * i - 2 /\ at + 1 = 3 * i - 1 /\ l = 3 * n - 1
                                 /\ at \in 1..(l - 1) /\ at \in 1..l /\ n # 0
  BY ONLY n \in Nat, i \in 1..n
<1>7. /\ Len(text) = l
      /\ \A q \in 1..n : text[3 * q - 2] = parts[q][1] /\ text[3 * q - 1] = parts[q][2]
      /\ \A q \in 1..(n - 1) : text[3 * q] = Word(",")
  <2>1. Len(parts) = n
    BY <1>1 DEF SetParts
  <2>2. parts # <<>>
    BY ONLY <1>6, <2>1
  <2> QED
    BY <1>6, <2>1, <2>2, Zenon DEF PairsIn
<1>8. ASSUME NEW q \in 1..n
      PROVE  text[3 * q - 2] = Name(s[q][1]) /\ text[3 * q - 1] = Mark(d, q, s[q][2])
  <2>1. parts[q] = <<Name(s[q][1]), Mark(d, q, s[q][2])>>
    BY <1>1 DEF SetParts
  <2>2. parts[q][1] = Name(s[q][1]) /\ parts[q][2] = Mark(d, q, s[q][2])
    BY ONLY <2>1
  <2> QED
    BY <1>7, <2>2
<1>9. text[at] = Name(c) /\ text[at + 1] = Mark(d, i, v)
  BY <1>5, <1>6, <1>8
<1>10. at \in 1..(Len(text) - 1) /\ at \in 1..Len(text)
  BY <1>6, <1>7, Zenon
<1>11. ASSUME NEW j \in 1..Len(text), text[j] = Name(c) PROVE j = at
  <2>1. PICK q \in 1..n : j = 3 * q - 2 \/ j = 3 * q - 1 \/ (j = 3 * q /\ q \in 1..(n - 1))
    <3>1. j \in 1..(3 * n - 1)
      BY <1>6, <1>7, Zenon
    <3> QED
      BY <3>1, PairPlaces, Zenon
  <2>2. CASE j = 3 * q - 2
    <3>1. Name(s[q][1]) = Name(c)
      BY <1>8, <1>11, <2>2
    <3>2. s[q][1] = c
      BY <3>1, NamesDiffer
    <3>3. q = i
      BY <1>1, <1>2, <3>2 DEF Settled
    <3> QED
      BY <1>6, <2>2, <3>3
  <2>3. CASE j = 3 * q - 1
    <3>1. Name(c) = Mark(d, q, s[q][2])
      BY <1>8, <1>11, <2>3
    <3>2. Name(c) # Mark(d, q, s[q][2])
      BY NameOrMark
    <3> QED
      BY <3>1, <3>2
  <2>4. CASE j = 3 * q /\ q \in 1..(n - 1)
    <3>1. Name(c) = Word(",")
      BY <1>7, <1>11, <2>4
    <3> QED
      BY <3>1, NameOrComma
  <2> QED
    BY <2>1, <2>2, <2>3, <2>4
<1>12. text[at + 1].t = "?" /\ text[at + 1].v = v
  <2>1. Mark(d, i, v).t = "?" /\ Mark(d, i, v).v = v
    BY ONLY MarkParts
  <2> QED
    BY <1>9, <2>1, Zenon
<1>13. \A j \in 1..Len(text) : text[j] = Name(c) <=> j = at
  BY <1>9, <1>10, <1>11
<1> QED
  BY <1>10, <1>12, <1>13 DEF OnceIn

LEMMA UpdateSets ==
    ASSUME BuildersInv, AskedInv, ReadInv, Answered, b.verb = "update"
    PROVE  SetsOnce
<1>1. built = UpdateBuild /\ ~UpdateBuild.err
  <2>1. built = BuildAnswer /\ BuildAnswer = UpdateBuild
    BY DEF ReadInv, AnswerInv, Answered, BuildAnswer
  <2> QED
    BY <2>1 DEF Answered
<1>2. /\ AskedTyped /\ dialect \in Dialects /\ b.sets \in Seq(Words \X BoundValues)
      /\ b.conditions \in Seq(Trees[MaxHeight - 1]) /\ b.conditions \in Seq(Trees[MaxHeight])
      /\ asked.where \in Seq(Seq(Trees[MaxHeight])) /\ asked.sets \in Seq(Words \X BoundValues)
      /\ Stored(b.conditions, asked.where) /\ Settled(b.sets, asked.sets)
  <2>1. AskedTyped /\ Stored(b.conditions, asked.where) /\ Settled(b.sets, asked.sets)
    BY DEF AskedInv
  <2> QED
    BY <2>1, BuilderTrees, GivenTrees DEF AskedTyped, BuildersInv
<1>3. \A i \in 1..Len(b.conditions) : SenseOf({}, b.conditions[i]).condition
  <2>1. GroupsMean({}, b.conditions, asked.where)
    BY <1>2, GroupsFollow DEF ReadInv, GivenInv
  <2> QED
    BY <2>1 DEF GroupsMean
<1>4. ClauseAt(built.text, "SET", Joined(Assignments, ","))
  BY <1>1, <1>2, <1>3, UpdateReads
<1>5. PICK text : text = ClauseOf(built.text, "SET")
  OBVIOUS
<1>6. text = Joined(Assignments, ",")
  <2>1. "SET" \in ClauseWords
    BY DEF ClauseWords
  <2> QED
    BY <1>4, <1>5, <2>1, ClauseFound
<1>7. PICK parts, d, s, a : parts = Assignments /\ d = dialect /\ s = b.sets /\ a = asked.sets
  OBVIOUS
<1>8. /\ Len(parts) = Len(s) /\ parts \in Seq(Free(ClauseWords))
      /\ \A i \in 1..Len(s) :
            /\ parts[i] = <<Name(s[i][1]), Mark(d, i, s[i][2])>>
            /\ Name(s[i][1]) \in Token /\ Mark(d, i, s[i][2]) \in Token
  BY <1>2, <1>7, AssignmentsText
<1>9. PICK Pairs : Pairs = {x \in Seq(Token) : Len(x) = 2}
  OBVIOUS
<1>10. parts \in Seq(Pairs)
  <2>1. \A i \in 1..Len(s) : parts[i] \in Pairs
    <3> TAKE i \in 1..Len(s)
    <3>1. PICK x \in Token, y \in Token : parts[i] = <<x, y>>
      BY <1>8
    <3>2. <<x, y>> \in Seq(Token) /\ Len(<<x, y>>) = 2
      OBVIOUS
    <3> QED
      BY <1>9, <3>1, <3>2
  <2>2. parts = [i \in 1..Len(s) |-> parts[i]] /\ Len(s) \in Nat
    BY <1>2, <1>7, <1>8
  <2>3. parts \in [1..Len(s) -> Pairs]
    BY <2>1, <2>2
  <2> QED
    BY <2>2, <2>3, AsSeq
<1>11. PairsIn(parts, ",", text)
  <2>1. "," \in Keywords
    BY BracketKeywords
  <2> QED
    BY <1>6, <1>7, <1>9, <1>10, <2>1, JoinedPairs
<1>12. s \in Seq(Words \X BoundValues) /\ a \in Seq(Words \X BoundValues) /\ Settled(s, a)
  BY <1>2, <1>7
<1>13. ASSUME NEW k \in DOMAIN a, ~\E j \in DOMAIN a : j > k /\ a[j][1] = a[k][1]
       PROVE  \E i \in 1..(Len(text) - 1) :
                 /\ text[i + 1].t = "?" /\ text[i + 1].v = a[k][2]
                 /\ \A j \in DOMAIN text : text[j] = Name(a[k][1]) <=> j = i
  <2>1. k \in 1..Len(a) /\ NoLater(a, k, a[k][1])
    <3>1. DOMAIN a = 1..Len(a)
      BY <1>12
    <3> QED
      BY <1>13, <3>1 DEF NoLater
  <2>2. PICK i \in 1..(Len(text) - 1) :
              /\ text[i + 1].t = "?" /\ text[i + 1].v = a[k][2]
              /\ \A j \in 1..Len(text) : text[j] = Name(a[k][1]) <=> j = i
    <3>1. SetParts(d, s, parts)
      BY <1>8 DEF SetParts
    <3>2. PICK c, v : c = a[k][1] /\ v = a[k][2]
      OBVIOUS
    <3>3. OnceIn(text, c, v)
      <4>1. k \in 1..Len(a) /\ NoLater(a, k, c)
        BY <2>1, <3>2
      <4> QED
        <5>1. PICK S : s \in Seq(S) /\ a \in Seq(S)
          BY <1>12
        <5>2. Settled(s, a) /\ PairsIn(parts, ",", text)
          BY <1>11, <1>12
        <5> QED
          BY ONLY <3>1, <3>2, <4>1, <5>1, <5>2, PairsSettle, Zenon
    <3> QED
      BY <3>2, <3>3 DEF OnceIn
  <2>3. DOMAIN text = 1..Len(text)
    <3>1. text \in Seq(Token)
      BY <1>11 DEF PairsIn
    <3> QED
      BY <3>1
  <2> QED
    BY <2>2, <2>3
<1> QED
  BY <1>5, <1>7, <1>13 DEF SetsOnce

\* Rows of n values, one after the other.
EvenIn(rows, n, flat) ==
    /\ Len(flat) = Len(rows) * n
    /\ \A k \in 1..Len(rows) : \A i \in 1..n : flat[(k - 1) * n + i] = rows[k][i]

LEMMA EvenPlaces ==
    ASSUME NEW n \in Nat, NEW m \in Nat
    PROVE  /\ m * n \in Nat /\ (m + 1) * n = m * n + n /\ ((m + 1) - 1) * n = m * n /\ 0 * n = 0
           /\ \A k \in 1..m : \A i \in 1..n : (k - 1) * n + i \in 1..(m * n)
<1>1. m * n \in Nat
  OBVIOUS
<1>2. (m + 1) * n = m * n + n
  OBVIOUS
<1>3. ASSUME NEW k \in 1..m, NEW i \in 1..n PROVE (k - 1) * n + i \in 1..(m * n)
  <2>1. PICK r \in Nat : m = k + r
    <3>1. m - k \in Nat /\ m = k + (m - k)
      OBVIOUS
    <3> QED
      BY <3>1
  <2>2. PICK h \in Nat : h = k - 1
    OBVIOUS
  <2>3. m = h + 1 + r
    BY <2>1, <2>2
  <2>4. m * n = (h * n) + n + (r * n) /\ h * n \in Nat /\ r * n \in Nat
    BY <2>3
  <2>5. (h * n) + i \in 1..(m * n)
    BY <2>4
  <2> QED
    BY <2>2, <2>5
<1> QED
  BY <1>1, <1>2, <1>3

LEMMA FlattenEven ==
    ASSUME NEW S, NEW n \in Nat, NEW Rows_, Rows_ = {x \in Seq(S) : Len(x) = n}, NEW rows \in Seq(Rows_)
    PROVE  EvenIn(rows, n, FlattenSeq(rows))
<1> DEFINE P == {s \in Seq(Rows_) : EvenIn(s, n, FlattenSeq(s))}
<1>0. Seq(Rows_) \subseteq Seq(Seq(S))
  <2>1. Rows_ \subseteq Seq(S)
    OBVIOUS
  <2> QED
    BY <2>1, SeqsOver
<1>1. <<>> \in P
  <2>1. Len(<<>>) = 0 /\ 0 * n = 0 /\ FlattenSeq(<<>>) = <<>> /\ \A k : k \notin 1..0
    BY FlattenEmpty
  <2>2. EvenIn(<<>>, n, <<>>)
    BY <2>1 DEF EvenIn
  <2> QED
    BY <2>1, <2>2, EmptySeq
<1>2. ASSUME NEW s \in Seq(Rows_), NEW x \in Rows_, s \in P PROVE Append(s, x) \in P
  <2>a. PICK more : more = Append(s, x)
    OBVIOUS
  <2>1. PICK m \in Nat : m = Len(s) /\ more = Append(s, x)
    <3>1. Len(s) \in Nat
      BY ONLY s \in Seq(Rows_)
    <3> QED
      BY <2>a, <3>1, Zenon
  <2>2. /\ more \in Seq(Rows_) /\ Len(more) = m + 1 /\ more[m + 1] = x
        /\ \A i \in 1..m : more[i] = s[i]
    BY ONLY <2>1, s \in Seq(Rows_), x \in Rows_, AppendProperties
  <2>3. PICK u, flat : u = FlattenSeq(s) /\ flat = FlattenSeq(more)
    OBVIOUS
  <2>4. x \in Seq(S) /\ Len(x) = n /\ s \in Seq(Seq(S))
    BY <1>0
  <2>5. flat = u \o x /\ u \in Seq(S)
    BY <2>1, <2>3, <2>4, FlattenAppend
  <2>6. EvenIn(s, n, u)
    BY <1>2, <2>3
  <2>7. PICK l \in Nat : l = Len(u) /\ l = m * n
    <3>1. Len(u) \in Nat /\ Len(u) = m * n
      BY <2>1, <2>5, <2>6 DEF EvenIn
    <3> QED
      BY <3>1, Zenon
  <2>8. /\ Len(flat) = l + n
        /\ \A i \in 1..l : flat[i] = u[i]
        /\ \A i \in 1..n : flat[l + i] = x[i]
    <3>1. /\ Len(flat) = l + n
          /\ \A i \in 1..(l + n) : flat[i] = IF i <= l THEN u[i] ELSE x[i - l]
      <4>1. u \in Seq(S) /\ x \in Seq(S) /\ Len(x) = n /\ Len(u) = l
        BY <2>4, <2>5, <2>7
      <4>2. Len(u \o x) = l + n
        BY ONLY <4>1, ConcatProperties
      <4>3. \A i \in 1..(l + n) : (u \o x)[i] = IF i <= l THEN u[i] ELSE x[i - l]
        BY ONLY <4>1, ConcatProperties
      <4> QED
        BY ONLY <2>5, <4>2, <4>3
    <3>2. \A i \in 1..n : l + i \in 1..(l + n) /\ ~(l + i <= l) /\ (l + i) - l = i
      BY ONLY n \in Nat, l \in Nat
    <3>3. \A i \in 1..l : i \in 1..(l + n) /\ i <= l
      BY ONLY n \in Nat, l \in Nat
    <3> QED
      BY <3>1, <3>2, <3>3
  <2>9. ASSUME NEW k \in 1..(m + 1), NEW i \in 1..n PROVE flat[(k - 1) * n + i] = more[k][i]
    <3>1. CASE k = m + 1
      <4>1. (k - 1) * n = l
        BY <2>7, <3>1, EvenPlaces
      <4> QED
        BY <2>2, <2>8, <3>1, <4>1
    <3>2. CASE k # m + 1
      <4>1. k \in 1..m
        BY <3>2
      <4>2. (k - 1) * n + i \in 1..l
        BY <2>7, <4>1, EvenPlaces
      <4>3. u[(k - 1) * n + i] = s[k][i]
        BY <2>1, <2>6, <4>1 DEF EvenIn
      <4> QED
        BY <2>2, <2>8, <4>1, <4>2, <4>3
    <3> QED
      BY <3>1, <3>2
  <2>10. (m + 1) * n = l + n
    BY <2>7, EvenPlaces
  <2>11. EvenIn(more, n, flat)
    BY <2>2, <2>8, <2>9, <2>10 DEF EvenIn
  <2> QED
    BY <2>1, <2>2, <2>3, <2>11
<1> HIDE DEF P
<1>3. rows \in P
  BY <1>1, <1>2, FromPrefixes
<1> QED
  BY <1>3 DEF P

LEMMA InsertText ==
    ASSUME BuildersInv, AskedInv, ReadInv, Answered, b.verb = "insert"
    PROVE  /\ Around("[", ColumnsText, "]", ClauseOf(built.text, "INTO"))
           /\ ClauseOf(built.text, "VALUES") = Joined(RowTexts, ",")
           /\ dialect \in Dialects /\ b.columns \in Seq(Words) /\ b.rows \in Seq(Seq(BoundValues))
<1>1. built = InsertBuild /\ ~InsertBuild.err
  <2>1. built = BuildAnswer /\ BuildAnswer = InsertBuild
    BY DEF ReadInv, AnswerInv, Answered, BuildAnswer
  <2> QED
    BY <2>1 DEF Answered
<1>2. dialect \in Dialects /\ b.columns \in Seq(Words) /\ b.rows \in Seq(Seq(BoundValues))
  BY BuilderTrees DEF AskedInv, BuildersInv
<1>3. /\ ClauseAt(built.text, "INTO", Bracketed("[", ColumnsText, "]"))
      /\ ClauseAt(built.text, "VALUES", Joined(RowTexts, ","))
  BY <1>1, <1>2, InsertReads
<1>4. /\ ClauseOf(built.text, "INTO") = Bracketed("[", ColumnsText, "]")
      /\ ClauseOf(built.text, "VALUES") = Joined(RowTexts, ",")
  <2>1. "INTO" \in ClauseWords /\ "VALUES" \in ClauseWords
    BY DEF ClauseWords
  <2> QED
    BY <1>3, <2>1, ClauseFound
<1>5. Around("[", ColumnsText, "]", Bracketed("[", ColumnsText, "]"))
  <2>1. ColumnsText \in Closed /\ "[" \in Opening /\ "]" \in Closing
    BY <1>2, ColumnsFlat DEF Opening, Closing
  <2> QED
    BY <2>1, BracketedText
<1> QED
  BY <1>2, <1>4, <1>5

LEMMA InsertMarks ==
    ASSUME BuildersInv, AskedInv, ReadInv, Answered, b.verb = "insert",
           NEW marks, marks = Marks(ClauseOf(built.text, "VALUES")), NEW flat, flat = FlattenSeq(b.rows)
    PROVE  /\ Len(marks) = Len(flat) /\ Len(flat) \in Nat
           /\ \A i \in 1..Len(flat) : marks[i].v = flat[i]
<1>1. PICK d, rows, parts : d = dialect /\ rows = b.rows /\ parts = RowTexts
  OBVIOUS
<1>2. d \in Dialects /\ rows \in Seq(Seq(BoundValues))
  BY <1>1, InsertText
<1>3. /\ parts \in Seq(Seq(Token)) /\ Len(parts) = Len(rows)
      /\ \A k \in 1..Len(rows) : Marks(parts[k]) = Numbered(d, rows[k], 1 + Before(rows, k))
  BY <1>1, InsertText, RowsFlat
<1>4. Numbers(d, FlattenSeq(parts), FlattenSeq(rows), 1)
  BY <1>2, <1>3, NumbersSpread
<1>5. Numbers(d, Joined(parts, ","), FlattenSeq(rows), 1)
  BY <1>2, <1>3, <1>4, BracketKeywords, JoinedNumbers
<1>6. flat \in Seq(BoundValues) /\ marks = Numbered(d, flat, 1)
  BY <1>1, <1>5, InsertText DEF Numbers
<1>7. /\ Len(marks) = Len(flat)
      /\ \A i \in 1..Len(flat) : marks[i] = Mark(d, 1 + i - 1, flat[i])
  BY <1>2, <1>6, NumberedMarks
<1>8. ASSUME NEW i \in 1..Len(flat) PROVE marks[i].v = flat[i]
  <2>1. PICK n, v : n = 1 + i - 1 /\ v = flat[i]
    OBVIOUS
  <2>2. marks[i] = Mark(d, n, v)
    BY <1>7, <2>1
  <2>3. Mark(d, n, v).v = v
    BY ONLY MarkParts
  <2> QED
    BY <2>1, <2>2, <2>3
<1> QED
  BY <1>6, <1>7, <1>8

LEMMA InsertRows ==
    ASSUME BuildersInv, AskedInv, ReadInv, Answered, b.verb = "insert", ~asked.mixed,
           {} \notin {DOMAIN row : row \in ToSet(asked.rows)}
    PROVE  RowsLined
<1>1. PICK into, marks, columns, rows, maps, flat :
          /\ into = ClauseOf(built.text, "INTO") /\ marks = Marks(ClauseOf(built.text, "VALUES"))
          /\ columns = b.columns /\ rows = b.rows /\ maps = asked.rows /\ flat = FlattenSeq(rows)
  OBVIOUS
<1>2. /\ columns \in Seq(Words) /\ rows \in Seq(Seq(BoundValues)) /\ maps \in Seq(RowMaps)
      /\ LinesUp(rows, columns, maps)
  BY <1>1, InsertText DEF AskedInv, AskedTyped
<1>3. PICK n \in Nat : n = Len(columns)
  BY <1>2
<1>4. Len(into) - 2 = n /\ \A i \in 1..n : into[i + 1].v = columns[i]
  <2>1. /\ Len(ColumnsText) = n /\ \A i \in 1..n : ColumnsText[i] = Name(columns[i])
    BY <1>1, <1>3, InsertText, ColumnsFlat
  <2>2. Len(into) = n + 2 /\ \A i \in 1..n : into[i + 1] = Name(columns[i])
    BY <1>1, <2>1, InsertText DEF Around
  <2>3. \A x : Name(x).v = x
    BY DEF Name
  <2> QED
    BY <2>2, <2>3
<1>5. \A k \in 1..Len(maps) : DOMAIN maps[k] # {}
  <2> TAKE k \in 1..Len(maps)
  <2>1. maps[k] \in ToSet(maps)
    <3>1. DOMAIN maps = 1..Len(maps)
      BY <1>2
    <3> QED
      BY <3>1 DEF ToSet
  <2> QED
    BY <1>1, <2>1
<1>6. Len(rows) = Len(maps) /\ \A k \in 1..Len(maps) : rows[k] = RowOf(maps[k], columns)
  BY <1>2, <1>5 DEF LinesUp
<1>7. DOMAIN columns = 1..n
  BY <1>2, <1>3
<1>8. ASSUME NEW k \in 1..Len(maps)
      PROVE  /\ rows[k] \in Seq(BoundValues) /\ Len(rows[k]) = n
             /\ \A i \in 1..n : rows[k][i] = IF columns[i] \in DOMAIN maps[k] THEN maps[k][columns[i]] ELSE "NULL"
  <2>1. rows[k] = [i \in 1..n |-> IF columns[i] \in DOMAIN maps[k] THEN maps[k][columns[i]] ELSE "NULL"]
    BY <1>6, <1>7 DEF RowOf
  <2>2. rows[k] \in Seq(BoundValues)
    BY <1>2, <1>6
  <2> QED
    BY <2>1, <2>2
<1>9. EvenIn(rows, n, flat)
  <2>1. PICK S, R : S = BoundValues /\ R = {x \in Seq(S) : Len(x) = n}
    OBVIOUS
  <2>2. \A k \in 1..Len(rows) : rows[k] \in R
    BY <1>6, <1>8, <2>1
  <2>3. rows \in [1..Len(rows) -> R] /\ Len(rows) \in Nat
    BY <1>2, <2>2
  <2>4. rows \in Seq(R)
    BY <2>3, AsSeq
  <2>5. n \in Nat
    OBVIOUS
  <2> QED
    BY ONLY <1>1, <2>1, <2>4, <2>5, FlattenEven
<1>10. /\ Len(marks) = Len(flat) /\ Len(flat) \in Nat /\ \A i \in 1..Len(flat) : marks[i].v = flat[i]
  BY <1>1, InsertMarks
<1>11. Len(marks) = Len(maps) * n
  BY <1>6, <1>9, <1>10 DEF EvenIn
<1>12. ASSUME NEW k \in 1..Len(maps), NEW i \in 1..n
       PROVE  marks[(k - 1) * n + i].v = IF columns[i] \in DOMAIN maps[k] THEN maps[k][columns[i]] ELSE "NULL"
  <2>1. PICK m \in Nat : m = Len(maps)
    BY <1>2
  <2>2. (k - 1) * n + i \in 1..Len(flat)
    <3>1. (k - 1) * n + i \in 1..(m * n)
      BY <2>1, EvenPlaces
    <3> QED
      BY <1>10, <1>11, <2>1, <3>1
  <2>3. flat[(k - 1) * n + i] = rows[k][i]
    BY <1>6, <1>9 DEF EvenIn
  <2> QED
    BY <1>8, <1>10, <2>2, <2>3
<1>13. DOMAIN maps = 1..Len(maps)
  BY <1>2
<1>14. \A k \in DOMAIN maps : \A i \in 1..n :
          marks[(k - 1) * n + i].v =
             IF into[i + 1].v \in DOMAIN maps[k] THEN maps[k][into[i + 1].v] ELSE "NULL"
  BY <1>4, <1>12, <1>13
<1> QED
  BY <1>1, <1>4, <1>11, <1>14 DEF RowsLined

\* Each value goes to the column it was given for, whatever the columns and
\* the order of the calls: a column an UPDATE sets twice is there once, with
\* the later value (UpdateBuilder.Set); the rows an INSERT was given as maps
\* line up with the columns of the first (InsertBuilder.ValuesMap), as long as
\* no map is empty: a first map without columns leaves the next to choose them.
THEOREM ValuesAlwaysGoToTheirColumns == Spec => []ValuesGoToTheirColumns
<1>1. ASSUME BuildersInv, AskedInv, ReadInv PROVE ValuesGoToTheirColumns
  BY <1>1, UpdateSets, InsertRows DEF ValuesGoToTheirColumns
<1> QED
  BY <1>1, ReadInvariance, PTL

=============================================================================
