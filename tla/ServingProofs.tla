---------------------------- MODULE ServingProofs ----------------------------
(***************************************************************************)
(* The safety of Serving for any number of requests, rows and connections. *)
(*                                                                         *)
(* The pool can only be exhausted for good by users that own a connection  *)
(* and wait for another.  Those are requests whose hook queries, and each  *)
(* owns one connection: so there must be as many of them as connections.   *)
(***************************************************************************)
EXTENDS Serving, FiniteSetTheorems, TLAPS

LEMMA Names == Sweep \notin Requests /\ None \notin Users /\ Sweep \in Users /\ Requests \subseteq Users
               /\ Querying \subseteq Requests
BY ServingAssumption DEF Users

-----------------------------------------------------------------------------
(* The queue                                                               *)

In(q) == {q[i] : i \in 1..Len(q)}
Distinct(q) == \A i, j \in 1..Len(q) : q[i] = q[j] => i = j

LEMMA Joins ==
    ASSUME NEW q \in Seq(Users), NEW u \in Users, Distinct(q), u \notin In(q)
    PROVE  /\ Append(q, u) \in Seq(Users) /\ Distinct(Append(q, u))
           /\ In(Append(q, u)) = In(q) \cup {u}
<1>1. /\ Len(Append(q, u)) = Len(q) + 1
      /\ \A i \in 1..Len(q) : Append(q, u)[i] = q[i]
      /\ Append(q, u)[Len(q) + 1] = u
  OBVIOUS
<1>2. Distinct(Append(q, u))
  BY <1>1 DEF Distinct, In
<1>3. In(Append(q, u)) = In(q) \cup {u}
  BY <1>1 DEF In
<1> QED
  BY <1>2, <1>3

LEMMA Joined ==
    ASSUME NEW a \in Seq(Users), NEW b \in Seq(Users)
    PROVE  /\ a \o b \in Seq(Users) /\ Len(a \o b) = Len(a) + Len(b)
           /\ \A j \in 1..Len(a \o b) :
                (a \o b)[j] = IF j <= Len(a) THEN a[j] ELSE b[j - Len(a)]
OBVIOUS

LEMMA Leaves ==
    ASSUME NEW q \in Seq(Users), Distinct(q), NEW i \in 1..Len(q)
    PROVE  /\ q[i] \in In(q) /\ q[i] \in Users
           /\ RemoveAt(q, i) \in Seq(Users) /\ Distinct(RemoveAt(q, i))
           /\ In(RemoveAt(q, i)) = In(q) \ {q[i]}
<1> DEFINE r == RemoveAt(q, i)
<1>1. q[i] \in In(q) /\ q[i] \in Users
  BY DEF In
<1>2. /\ SubSeq(q, 1, i - 1) \in Seq(Users) /\ Len(SubSeq(q, 1, i - 1)) = i - 1
      /\ \A j \in 1..(i - 1) : SubSeq(q, 1, i - 1)[j] = q[j]
  OBVIOUS
<1>3. /\ SubSeq(q, i + 1, Len(q)) \in Seq(Users) /\ Len(SubSeq(q, i + 1, Len(q))) = Len(q) - i
      /\ \A j \in 1..(Len(q) - i) : SubSeq(q, i + 1, Len(q))[j] = q[i + j]
  OBVIOUS
<1> DEFINE front == SubSeq(q, 1, i - 1)
           rest == SubSeq(q, i + 1, Len(q))
<1>4. r = front \o rest
  BY DEF RemoveAt
<1>5. Len(q) \in Nat /\ i \in Nat /\ i > 0
  OBVIOUS
<1> HIDE DEF r, front, rest
<1>6. /\ front \in Seq(Users) /\ Len(front) = i - 1
      /\ rest \in Seq(Users) /\ Len(rest) = Len(q) - i
  BY <1>2, <1>3 DEF front, rest
<1>7. /\ r \in Seq(Users) /\ Len(r) = Len(front) + Len(rest)
      /\ \A j \in 1..Len(r) : r[j] = IF j <= Len(front) THEN front[j] ELSE rest[j - Len(front)]
  BY <1>4, <1>6, Joined
<1>8. r \in Seq(Users) /\ Len(r) = Len(q) - 1
  BY <1>7, <1>6, <1>5
<1>9. \A j \in 1..(i - 1) : r[j] = q[j]
  BY <1>2, <1>7, <1>8, <1>5 DEF front
<1>10. \A j \in i..(Len(q) - 1) : r[j] = q[j + 1]
  <2> SUFFICES ASSUME NEW j \in i..(Len(q) - 1) PROVE r[j] = q[j + 1]
    OBVIOUS
  <2>1. /\ j \in 1..Len(r) /\ ~(j <= Len(front)) /\ j - Len(front) = j - i + 1
        /\ j - i + 1 \in 1..(Len(q) - i) /\ i + (j - i + 1) = j + 1
    BY <1>2, <1>8, <1>5 DEF front
  <2>2. r[j] = rest[j - i + 1]
    BY <1>7, <2>1
  <2>3. rest[j - i + 1] = q[i + (j - i + 1)]
    BY <1>3, <2>1 DEF rest
  <2> QED
    BY <2>1, <2>2, <2>3
<1> DEFINE Old(j) == IF j < i THEN j ELSE j + 1
<1>11. \A j \in 1..Len(r) : Old(j) \in 1..Len(q) /\ Old(j) # i /\ r[j] = q[Old(j)]
  BY <1>8, <1>9, <1>10
<1>12. \A j, k \in 1..Len(r) : Old(j) = Old(k) => j = k
  BY <1>8
<1>13. Distinct(r)
  <2> HIDE DEF r, Old
  <2> QED
    BY <1>11, <1>12 DEF Distinct
<1>14. In(r) \subseteq In(q) \ {q[i]}
  <2> HIDE DEF r, Old
  <2> QED
    BY <1>11 DEF In, Distinct
<1>15. ASSUME NEW k \in 1..Len(q), q[k] # q[i] PROVE q[k] \in In(r)
  <2>1. CASE k < i
    BY <1>8, <1>9, <2>1 DEF In
  <2>2. CASE k > i
    <3>1. k - 1 \in i..(Len(q) - 1) /\ k - 1 \in 1..Len(r) /\ (k - 1) + 1 = k
      BY <1>8, <2>2
    <3>2. r[k - 1] = q[k]
      BY <1>10, <3>1
    <3> HIDE DEF r
    <3> QED
      BY <3>1, <3>2 DEF In
  <2> QED
    BY <1>15, <2>1, <2>2
<1>16. In(q) \ {q[i]} \subseteq In(r)
  <2> HIDE DEF r
  <2> QED
    BY <1>15 DEF In
<1> QED
  BY <1>1, <1>8, <1>13, <1>14, <1>16 DEF r

-----------------------------------------------------------------------------
(* The invariant                                                           *)

\* Who waits is in the queue, once.
Queued == Distinct(queue) /\ \A u \in Users : Waits(u) <=> u \in In(queue)

\* What a user owns, by where it is.
Holding(u) ==
    /\ pc[u] \in {"rows", "hook", "last"} => \E c \in Conns : Owns(u) = {c}
    /\ pc[u] = "nested" => \E c, d \in Conns : c # d /\ Owns(u) = {c, d}
    /\ pc[u] \notin {"rows", "hook", "last", "nested"} => Owns(u) = {}

\* Where a request, and the cleanup, may be.
Placed ==
    /\ pc[Sweep] \in {"idle", "asks", "rows"}
    /\ \A p \in Requests : pc[p] # "idle" /\ (pc[p] \in {"hook", "nested"} => p \in hooked)

\* The pool is closed after the requests have ended, or they were given up.
Orderly ==
    /\ closed => stage \in {"closing", "exited"}
    /\ closed /\ ~forced => \A p \in Requests : pc[p] = "away" \/ Ended(p)
    /\ forced => closed

IInv ==
    /\ TypeOK /\ Queued
    /\ \A u \in Users : Holding(u)
    /\ Placed /\ Orderly /\ RefusedOnlyWhenForced

LEMMA InitInv == Init => IInv
<1> SUFFICES ASSUME Init PROVE IInv
  OBVIOUS
<1> USE Names DEF Init
<1>1. TypeOK
  <2>1. pc \in [Users -> Places]
    BY DEF Places
  <2>2. queue \in Seq(Users)
    OBVIOUS
  <2>3. left \in [Requests -> 0..Rows]
    BY ServingAssumption
  <2> QED
    BY <2>1, <2>2, <2>3 DEF TypeOK
<1>2. Queued
  <2>1. Len(queue) = 0
    OBVIOUS
  <2>2. Distinct(queue) /\ In(queue) = {}
    BY <2>1 DEF Distinct, In
  <2>3. \A u \in Users : ~Waits(u)
    BY DEF Waits
  <2> QED
    BY <2>2, <2>3 DEF Queued
<1>3. \A u \in Users : Holding(u)
  BY DEF Holding, Owns
<1>4. Placed /\ Orderly /\ RefusedOnlyWhenForced
  BY DEF Placed, Orderly, RefusedOnlyWhenForced
<1> QED
  BY <1>1, <1>2, <1>3, <1>4 DEF IInv

\* Asking puts who asks at the end of the queue.
LEMMA AskQueues ==
    ASSUME IInv, NEW u \in Users, ~Waits(u), NEW place \in {"asks", "hook", "further"},
           Ask(u, place)
    PROVE  /\ Queued' /\ queue' \in Seq(Users) /\ pc' \in [Users -> Places]
           /\ pc'[u] = place /\ \A v \in Users : v # u => pc'[v] = pc[v]
<1>1. u \notin In(queue) /\ queue \in Seq(Users) /\ Distinct(queue)
  BY DEF IInv, TypeOK, Queued
<1>2. queue' \in Seq(Users) /\ Distinct(queue') /\ In(queue') = In(queue) \cup {u}
  BY <1>1, Joins DEF Ask
<1>3. pc' \in [Users -> Places] /\ pc' = [pc EXCEPT ![u] = place]
  BY DEF IInv, TypeOK, Ask, Goto, Places
<1>4. pc'[u] = place /\ \A v \in Users : v # u => pc'[v] = pc[v]
  BY <1>3 DEF IInv, TypeOK
<1>5. \A v \in Users : Waits(v)' <=> v \in In(queue')
  BY <1>2, <1>4 DEF IInv, Queued, Waits
<1> QED
  BY <1>2, <1>3, <1>4, <1>5 DEF Queued, Distinct, In

\* One who waits leaves the queue.
LEMMA OneLeaves ==
    ASSUME IInv, NEW i \in DOMAIN queue, queue' = RemoveAt(queue, i), NEW place \in Places,
           place \notin {"asks", "hook", "further"}, Goto(queue[i], place)
    PROVE  /\ Queued' /\ queue' \in Seq(Users) /\ pc' \in [Users -> Places]
           /\ queue[i] \in Users /\ Waits(queue[i])
           /\ pc'[queue[i]] = place /\ \A v \in Users : v # queue[i] => pc'[v] = pc[v]
<1> DEFINE u == queue[i]
<1>1. queue \in Seq(Users) /\ Distinct(queue) /\ i \in 1..Len(queue)
  BY DEF IInv, TypeOK, Queued
<1>2. /\ u \in In(queue) /\ u \in Users /\ queue' \in Seq(Users) /\ Distinct(queue')
      /\ In(queue') = In(queue) \ {u}
  BY <1>1, Leaves
<1>3. Waits(u)
  BY <1>2 DEF IInv, Queued
<1>4. pc' \in [Users -> Places] /\ pc'[u] = place /\ \A v \in Users : v # u => pc'[v] = pc[v]
  BY <1>2 DEF IInv, TypeOK, Goto
<1>5. \A v \in Users : Waits(v)' <=> v \in In(queue')
  BY <1>2, <1>4 DEF IInv, Queued, Waits
<1> QED
  BY <1>2, <1>3, <1>4, <1>5 DEF Queued, Distinct, In

\* Going where one waits for nothing changes nothing in the queue.
LEMMA GotoQueues ==
    ASSUME IInv, NEW u \in Users, ~Waits(u), NEW place \in Places,
           place \notin {"asks", "hook", "further"}, Goto(u, place), queue' = queue
    PROVE  /\ Queued' /\ pc' \in [Users -> Places]
           /\ pc'[u] = place /\ \A v \in Users : v # u => pc'[v] = pc[v]
<1>1. pc' \in [Users -> Places] /\ pc'[u] = place /\ \A v \in Users : v # u => pc'[v] = pc[v]
  BY DEF IInv, TypeOK, Goto
<1>2. \A v \in Users : Waits(v)' <=> v \in In(queue)
  BY <1>1 DEF IInv, Queued, Waits
<1> QED
  BY <1>1, <1>2 DEF Queued, IInv

\* Who neither moves nor gains or loses a connection holds what it must.
LEMMA HoldingKept ==
    ASSUME NEW v \in Users, Holding(v), pc'[v] = pc[v], Owns(v)' = Owns(v)
    PROVE  Holding(v)'
BY DEF Holding

\* Returning leaves u with nothing and the others with what they had.
LEMMA ReturnOwns ==
    ASSUME IInv, NEW u \in Users, Return(u)
    PROVE  /\ owner' \in [Conns -> Users \cup {None}] /\ Owns(u)' = {}
           /\ \A v \in Users : v # u => Owns(v)' = Owns(v)
BY Names DEF IInv, TypeOK, Return, Owns

\* What the parts say of the users other than u stays true of them.
LEMMA PlacedOthers ==
    ASSUME IInv, NEW u \in Users, hooked' = hooked, \A v \in Users : v # u => pc'[v] = pc[v],
           u = Sweep => pc'[u] \in {"idle", "asks", "rows"},
           u \in Requests => pc'[u] # "idle" /\ (pc'[u] \in {"hook", "nested"} => u \in hooked)
    PROVE  Placed'
BY Names DEF IInv, Placed

\* A handler goes on only before the pool is closed, or when it was given up.
LEMMA OrderlyStep ==
    ASSUME IInv, NEW u \in Users, UNCHANGED <<main, closed>>,
           u \in Requests => pc[u] # "away" /\ ~Ended(u),
           pc'[u] = "refused" => closed /\ u # Sweep,
           \A v \in Users : v # u => pc'[v] = pc[v]
    PROVE  Orderly' /\ RefusedOnlyWhenForced'
<1> USE Names DEF main
<1>1. u \in Requests /\ closed => forced
  BY DEF IInv, Orderly
<1>2. u \in Requests \/ u = Sweep
  BY DEF Users
<1>3. \A p \in Requests : p # u => (Ended(p)' <=> Ended(p)) /\ pc'[p] = pc[p]
  BY DEF Ended
<1>4. Orderly'
  BY <1>1, <1>2, <1>3 DEF IInv, Orderly
<1>5. ASSUME NEW p \in Requests, pc'[p] = "refused" PROVE forced'
  <2>1. CASE p = u
    BY <1>1, <1>5, <2>1
  <2>2. CASE p # u
    BY <1>3, <1>5, <2>2 DEF IInv, RefusedOnlyWhenForced
  <2> QED
    BY <2>1, <2>2
<1> QED
  BY <1>4, <1>5 DEF RefusedOnlyWhenForced

-----------------------------------------------------------------------------
(* The steps                                                               *)

LEMMA ServeStep == ASSUME IInv, Serve PROVE IInv'
<1> USE Names
<1>1. PICK i \in Turns :
        /\ owner' = [owner EXCEPT ![One(Free)] = queue[i]]
        /\ \E place \in {"rows", "nested", "last"} :
              /\ pc[queue[i]] = CASE place = "rows" -> "asks"
                                  [] place = "nested" -> "hook"
                                  [] place = "last" -> "further"
              /\ Goto(queue[i], place)
        /\ queue' = RemoveAt(queue, i)
  BY DEF Serve
<1>2. i \in DOMAIN queue
  BY DEF Turns
<1>3. PICK u : u = queue[i]
  OBVIOUS
<1>4. UNCHANGED <<chosen, closed, left, main>> /\ Free # {}
  BY DEF Serve
<1>5. PICK place \in {"rows", "nested", "last"} :
        /\ pc[u] = CASE place = "rows" -> "asks"
                     [] place = "nested" -> "hook"
                     [] place = "last" -> "further"
        /\ Goto(u, place)
  BY <1>1, <1>3
<1>6. place \in Places /\ place \notin {"asks", "hook", "further"}
  BY DEF Places
<1>7. /\ Queued' /\ queue' \in Seq(Users) /\ pc' \in [Users -> Places]
      /\ u \in Users /\ Waits(u)
      /\ pc'[u] = place /\ \A v \in Users : v # u => pc'[v] = pc[v]
  BY <1>1, <1>3, <1>2, <1>5, <1>6, OneLeaves
<1>8. PICK c \in Free : owner' = [owner EXCEPT ![c] = u]
  BY <1>1, <1>3, <1>4 DEF One
<1>9. c \in Conns /\ owner[c] = None /\ owner \in [Conns -> Users \cup {None}]
  BY <1>8 DEF Free, IInv, TypeOK
<1>10. /\ owner' \in [Conns -> Users \cup {None}] /\ Owns(u)' = Owns(u) \cup {c}
      /\ c \notin Owns(u) /\ \A v \in Users : v # u => Owns(v)' = Owns(v)
  BY <1>7, <1>8, <1>9 DEF Owns
<1>11. TypeOK'
  BY <1>7, <1>10, <1>4 DEF IInv, TypeOK, chosen, main
<1>12. Holding(u)'
  <2>1. CASE place = "rows"
    BY <1>5, <1>7, <1>9, <1>10, <2>1 DEF IInv, Holding
  <2>2. CASE place = "last"
    BY <1>5, <1>7, <1>9, <1>10, <2>2 DEF IInv, Holding
  <2>3. CASE place = "nested"
    <3>1. PICK d \in Conns : Owns(u) = {d}
      BY <1>5, <1>7, <2>3 DEF IInv, Holding
    <3>2. Owns(u)' = {c, d} /\ c # d
      BY <1>10, <3>1
    <3> QED
      BY <1>7, <1>9, <2>3, <3>2 DEF Holding
  <2> QED
    BY <2>1, <2>2, <2>3
<1>13. ASSUME NEW v \in Users PROVE Holding(v)'
  BY <1>7, <1>10, <1>12, HoldingKept DEF IInv
<1>14. Placed'
  <2>1. u = Sweep => place = "rows"
    BY <1>5 DEF IInv, Placed
  <2>2. u \in Requests => (place = "nested" => u \in hooked)
    BY <1>5 DEF IInv, Placed
  <2> QED
    BY <1>7, <2>1, <2>2, <1>4, PlacedOthers DEF chosen
<1>15. Orderly' /\ RefusedOnlyWhenForced'
  BY <1>7, <1>4, OrderlyStep DEF Waits, Ended, main
<1> QED
  BY <1>7, <1>11, <1>13, <1>14, <1>15 DEF IInv

LEMMA RefuseStep == ASSUME IInv, Refuse PROVE IInv'
<1> USE Names
<1>1. PICK i \in Turns :
        /\ Goto(queue[i], CASE pc[queue[i]] = "hook" -> "rows"
                             [] queue[i] = Sweep -> "idle"
                             [] OTHER -> "refused")
        /\ queue' = RemoveAt(queue, i)
  BY DEF Refuse
<1>2. i \in DOMAIN queue
  BY DEF Turns
<1>3. PICK u : u = queue[i]
  OBVIOUS
<1>4. PICK place : place = CASE pc[u] = "hook" -> "rows" [] u = Sweep -> "idle" [] OTHER -> "refused"
  OBVIOUS
<1>5. UNCHANGED <<chosen, owner, closed, left, main>> /\ closed
  BY DEF Refuse
<1>6. Goto(u, place) /\ place \in Places /\ place \notin {"asks", "hook", "further"}
  BY <1>1, <1>3, <1>4 DEF Places
<1>7. /\ Queued' /\ queue' \in Seq(Users) /\ pc' \in [Users -> Places]
      /\ u \in Users /\ Waits(u)
      /\ pc'[u] = place /\ \A v \in Users : v # u => pc'[v] = pc[v]
  BY <1>1, <1>3, <1>2, <1>6, OneLeaves
<1>8. TypeOK'
  BY <1>7, <1>5 DEF IInv, TypeOK, chosen, main
<1>9. \A v \in Users : Owns(v)' = Owns(v)
  BY <1>5 DEF Owns
<1>10. Holding(u)'
  <2>1. CASE pc[u] = "hook"
    <3>1. u # Sweep /\ \E c \in Conns : Owns(u) = {c}
      BY <1>7, <2>1 DEF IInv, Holding, Placed
    <3>2. place = "rows"
      BY <1>4, <2>1, <3>1
    <3> QED
      BY <1>7, <1>9, <3>1, <3>2 DEF Holding
  <2>2. CASE pc[u] # "hook"
    <3>1. Owns(u) = {}
      BY <1>7, <2>2 DEF IInv, Holding, Waits
    <3>2. place \in {"idle", "refused"}
      BY <1>4, <2>2
    <3> QED
      BY <1>7, <1>9, <3>1, <3>2 DEF Holding
  <2> QED
    BY <2>1, <2>2
<1>11. ASSUME NEW v \in Users PROVE Holding(v)'
  BY <1>7, <1>9, <1>10, HoldingKept DEF IInv
<1>12. u = Sweep => place = "idle"
  BY <1>4 DEF IInv, Placed
<1>13. u \in Requests => place \in {"rows", "refused"}
  BY <1>4
<1>14. Placed'
  BY <1>7, <1>12, <1>13, <1>5, PlacedOthers DEF chosen
<1>15. Orderly' /\ RefusedOnlyWhenForced'
  BY <1>7, <1>12, <1>5, OrderlyStep DEF Waits, Ended, main
<1> QED
  BY <1>7, <1>8, <1>11, <1>14, <1>15 DEF IInv

\* Asking, with what the asker owns as it was.
LEMMA AskStep ==
    ASSUME IInv, NEW u \in Users, ~Waits(u), NEW place \in {"asks", "hook", "further"},
           Ask(u, place), UNCHANGED <<chosen, owner, closed, main>>,
           left' \in [Requests -> 0..Rows],
           place = "asks" => Owns(u) = {}, place = "further" => u \in Requests /\ Owns(u) = {},
           place = "hook" => u \in hooked /\ \E c \in Conns : Owns(u) = {c}
    PROVE  /\ TypeOK' /\ Queued' /\ Placed' /\ \A v \in Users : Holding(v)'
           /\ \A v \in Users : v # u => pc'[v] = pc[v]
           /\ pc'[u] = place
<1> USE Names
<1>1. /\ Queued' /\ queue' \in Seq(Users) /\ pc' \in [Users -> Places]
      /\ pc'[u] = place /\ \A v \in Users : v # u => pc'[v] = pc[v]
  BY AskQueues
<1>2. TypeOK'
  BY <1>1 DEF IInv, TypeOK, chosen, main
<1>3. \A v \in Users : Owns(v)' = Owns(v)
  BY DEF Owns
<1>4. Holding(u)'
  BY <1>1, <1>3 DEF Holding
<1>5. ASSUME NEW v \in Users PROVE Holding(v)'
  BY <1>1, <1>3, <1>4, HoldingKept DEF IInv
<1>6. hooked \subseteq Requests
  BY DEF IInv, TypeOK
<1>7. Placed'
  BY <1>1, <1>6, PlacedOthers DEF chosen
<1> QED
  BY <1>1, <1>2, <1>5, <1>7

\* Returning everything, and going where nothing is held.
LEMMA ReturnStep ==
    ASSUME IInv, NEW u \in Users, ~Waits(u), NEW place \in {"answered", "failed", "idle"},
           Return(u), Goto(u, place), UNCHANGED <<chosen, queue, closed, left, main>>,
           u = Sweep => place = "idle", u \in Requests => place # "idle" /\ pc[u] # "away" /\ ~Ended(u)
    PROVE  IInv'
<1> USE Names
<1>1. place \in Places /\ place \notin {"asks", "hook", "further"}
  BY DEF Places
<1>2. /\ Queued' /\ pc' \in [Users -> Places]
      /\ pc'[u] = place /\ \A v \in Users : v # u => pc'[v] = pc[v]
  BY <1>1, GotoQueues
<1>3. /\ owner' \in [Conns -> Users \cup {None}] /\ Owns(u)' = {}
      /\ \A v \in Users : v # u => Owns(v)' = Owns(v)
  BY ReturnOwns
<1>4. TypeOK'
  BY <1>2, <1>3 DEF IInv, TypeOK, chosen, main
<1>5. Holding(u)'
  BY <1>2, <1>3 DEF Holding
<1>6. ASSUME NEW v \in Users PROVE Holding(v)'
  BY <1>2, <1>3, <1>5, HoldingKept DEF IInv
<1>7. Placed'
  BY <1>2, PlacedOthers DEF chosen
<1>8. Orderly' /\ RefusedOnlyWhenForced'
  BY <1>2, OrderlyStep
<1> QED
  BY <1>2, <1>4, <1>6, <1>7, <1>8 DEF IInv

LEMMA ArriveStep == ASSUME IInv, NEW p \in Requests, Arrive(p) PROVE IInv'
<1> USE Names DEF Arrive
<1>1. ~Waits(p) /\ Owns(p) = {}
  BY DEF Waits, IInv, Holding
<1>2. left' \in [Requests -> 0..Rows]
  BY DEF IInv, TypeOK
<1>3. /\ TypeOK' /\ Queued' /\ Placed' /\ \A v \in Users : Holding(v)'
      /\ \A v \in Users : v # p => pc'[v] = pc[v]
      /\ pc'[p] = "asks"
  BY <1>1, <1>2, AskStep
<1>4. ~closed
  BY DEF IInv, Orderly
<1>5. Orderly'
  BY <1>4 DEF IInv, Orderly, main
<1>6. RefusedOnlyWhenForced'
  BY <1>3 DEF IInv, RefusedOnlyWhenForced, main
<1> QED
  BY <1>3, <1>5, <1>6 DEF IInv

LEMMA NextRowStep == ASSUME IInv, NEW p \in Requests, NextRow(p) PROVE IInv'
<1> USE Names DEF NextRow
<1>1. ~Waits(p) /\ (\E c \in Conns : Owns(p) = {c}) /\ pc[p] # "away" /\ ~Ended(p)
  BY DEF Waits, Ended, IInv, Holding
<1>2. left' \in [Requests -> 0..Rows]
  BY ServingAssumption DEF IInv, TypeOK
<1>3. CASE p \in hooked /\ Ask(p, "hook")
  <2>1. /\ TypeOK' /\ Queued' /\ Placed' /\ \A v \in Users : Holding(v)'
        /\ \A v \in Users : v # p => pc'[v] = pc[v]
        /\ pc'[p] = "hook"
    BY <1>1, <1>2, <1>3, AskStep
  <2>2. Orderly' /\ RefusedOnlyWhenForced'
    BY <1>1, <2>1, OrderlyStep
  <2> QED
    BY <2>1, <2>2 DEF IInv
<1>4. CASE UNCHANGED <<queue, pc>>
  <2> USE <1>4
  <2>1. TypeOK'
    BY <1>2 DEF IInv, TypeOK, chosen, main
  <2>2. Queued'
    BY DEF IInv, Queued, Waits
  <2>3. \A v \in Users : Holding(v)'
    BY HoldingKept DEF IInv, Owns
  <2>4. Placed' /\ Orderly' /\ RefusedOnlyWhenForced'
    BY DEF IInv, Placed, Orderly, RefusedOnlyWhenForced, Ended, chosen, main
  <2> QED
    BY <2>1, <2>2, <2>3, <2>4 DEF IInv
<1> QED
  BY <1>3, <1>4

LEMMA HookDoneStep == ASSUME IInv, NEW p \in Requests, HookDone(p) PROVE IInv'
<1> USE Names DEF HookDone
<1>1. ~Waits(p) /\ pc[p] # "away" /\ ~Ended(p) /\ "rows" \in Places
  BY DEF Waits, Ended, Places
<1>2. /\ Queued' /\ pc' \in [Users -> Places]
      /\ pc'[p] = "rows" /\ \A v \in Users : v # p => pc'[v] = pc[v]
  BY <1>1, GotoQueues
<1>3. PICK c \in Owns(p) : owner' = [owner EXCEPT ![c] = None]
  <2>1. Owns(p) # {}
    BY DEF IInv, Holding
  <2>2. One(Owns(p)) \in Owns(p)
    BY <2>1 DEF One
  <2> QED
    BY <2>2
<1>4. \E d \in Conns : d # c /\ Owns(p) = {c, d}
  BY <1>3 DEF IInv, Holding
<1>5. /\ owner' \in [Conns -> Users \cup {None}] /\ Owns(p)' = Owns(p) \ {c}
      /\ \A v \in Users : v # p => Owns(v)' = Owns(v)
  BY <1>3 DEF IInv, TypeOK, Owns
<1>6. TypeOK'
  BY <1>2, <1>5 DEF IInv, TypeOK, chosen, main
<1>7. Holding(p)'
  <2>1. PICK d \in Conns : d # c /\ Owns(p) = {c, d}
    BY <1>4
  <2>2. Owns(p)' = {d}
    BY <1>5, <2>1
  <2> QED
    BY <1>2, <2>2 DEF Holding
<1>8. ASSUME NEW v \in Users PROVE Holding(v)'
  BY <1>2, <1>5, <1>7, HoldingKept DEF IInv
<1>9. Placed'
  BY <1>2, PlacedOthers DEF chosen
<1>10. Orderly' /\ RefusedOnlyWhenForced'
  BY <1>1, <1>2, OrderlyStep
<1> QED
  BY <1>2, <1>6, <1>8, <1>9, <1>10 DEF IInv

LEMMA RowsDoneStep == ASSUME IInv, NEW p \in Requests, RowsDone(p) PROVE IInv'
<1> USE Names DEF RowsDone
<1>1. ~Waits(p) /\ pc[p] # "away" /\ ~Ended(p)
  BY DEF Waits, Ended
<1>2. CASE Goto(p, "answered") /\ UNCHANGED queue
  BY <1>1, <1>2, ReturnStep
<1>3. CASE Ask(p, "further")
  <2>1. /\ Queued' /\ queue' \in Seq(Users) /\ pc' \in [Users -> Places]
        /\ pc'[p] = "further" /\ \A v \in Users : v # p => pc'[v] = pc[v]
    BY <1>1, <1>3, AskQueues
  <2>2. /\ owner' \in [Conns -> Users \cup {None}] /\ Owns(p)' = {}
        /\ \A v \in Users : v # p => Owns(v)' = Owns(v)
    BY ReturnOwns
  <2>3. TypeOK'
    BY <2>1, <2>2 DEF IInv, TypeOK, chosen, main
  <2>4. Holding(p)'
    BY <2>1, <2>2 DEF Holding
  <2>5. ASSUME NEW v \in Users PROVE Holding(v)'
    BY <2>1, <2>2, <2>4, HoldingKept DEF IInv
  <2>6. Placed'
    BY <2>1, PlacedOthers DEF chosen
  <2>7. Orderly' /\ RefusedOnlyWhenForced'
    BY <1>1, <2>1, OrderlyStep
  <2> QED
    BY <2>1, <2>3, <2>5, <2>6, <2>7 DEF IInv
<1> QED
  BY <1>2, <1>3

LEMMA EndStep ==
    ASSUME IInv, NEW p \in Requests, Abort(p) \/ LastDone(p)
    PROVE  IInv'
<1>1. ~Waits(p) /\ pc[p] # "away" /\ ~Ended(p)
  BY DEF Waits, Ended, Abort, LastDone
<1>2. CASE Abort(p)
  BY <1>1, <1>2, Names, ReturnStep DEF Abort
<1>3. CASE LastDone(p)
  BY <1>1, <1>3, Names, ReturnStep DEF LastDone
<1> QED
  BY <1>2, <1>3

LEMMA SweepStep == ASSUME IInv, Tick \/ Swept PROVE IInv'
<1> USE Names
<1>1. CASE Tick
  <2> USE <1>1 DEF Tick
  <2>1. ~Waits(Sweep) /\ Owns(Sweep) = {}
    BY DEF Waits, IInv, Holding
  <2>2. left' \in [Requests -> 0..Rows]
    BY DEF IInv, TypeOK
  <2>3. /\ TypeOK' /\ Queued' /\ Placed' /\ \A v \in Users : Holding(v)'
        /\ \A v \in Users : v # Sweep => pc'[v] = pc[v]
        /\ pc'[Sweep] = "asks"
    BY <2>1, <2>2, AskStep
  <2>4. Orderly' /\ RefusedOnlyWhenForced'
    BY <2>3, OrderlyStep
  <2> QED
    BY <2>3, <2>4 DEF IInv
<1>2. CASE Swept
  <2>1. ~Waits(Sweep)
    BY <1>2 DEF Swept, Waits
  <2> QED
    BY <1>2, <2>1, ReturnStep DEF Swept
<1> QED
  BY <1>1, <1>2

\* Of main(), only closing the pool touches what the others rely on.
LEMMA MainStep ==
    ASSUME IInv, Listen \/ Signal \/ Drained \/ TimedOut \/ Exit
    PROVE  IInv'
<1> USE DEF Listen, Signal, Drained, TimedOut, Exit, pool, chosen
<1>1. UNCHANGED <<chosen, owner, queue, pc, left>>
  OBVIOUS
<1>2. TypeOK'
  BY DEF IInv, TypeOK
<1>3. Queued'
  BY <1>1 DEF IInv, Queued, Waits
<1>4. \A v \in Users : Holding(v)'
  BY <1>1, HoldingKept DEF IInv, Owns
<1>5. Placed'
  BY <1>1 DEF IInv, Placed
<1>6. Orderly'
  <2>1. CASE Listen \/ Signal \/ Exit
    BY <2>1 DEF IInv, Orderly, Ended
  <2>2. CASE Drained
    BY <2>2 DEF IInv, Orderly, Ended
  <2>3. CASE TimedOut
    BY <2>3 DEF IInv, Orderly, Ended
  <2> QED
    BY <2>1, <2>2, <2>3
<1>7. RefusedOnlyWhenForced'
  BY DEF IInv, RefusedOnlyWhenForced
<1> QED
  BY <1>2, <1>3, <1>4, <1>5, <1>6, <1>7 DEF IInv

LEMMA StutterStep == ASSUME IInv, UNCHANGED vars PROVE IInv'
<1> USE DEF vars
<1>1. TypeOK' /\ Placed' /\ Orderly' /\ RefusedOnlyWhenForced'
  BY DEF IInv, TypeOK, Placed, Orderly, RefusedOnlyWhenForced, Ended
<1>2. Queued'
  BY DEF IInv, Queued, Waits
<1>3. \A v \in Users : Holding(v)'
  BY HoldingKept DEF IInv, Owns
<1> QED
  BY <1>1, <1>2, <1>3 DEF IInv

\* However requests, the cleanup and the shutdown interleave, it holds.
THEOREM ServingInv == Spec => []IInv
<1>1. ASSUME IInv, [Next]_vars PROVE IInv'
  <2>1. CASE Serve
    BY <1>1, <2>1, ServeStep
  <2>2. CASE Refuse
    BY <1>1, <2>2, RefuseStep
  <2>3. CASE \E p \in Requests : Arrive(p) \/ Handle(p)
    BY <1>1, <2>3, ArriveStep, NextRowStep, HookDoneStep, RowsDoneStep, EndStep DEF Handle
  <2>4. CASE Tick \/ Swept
    BY <1>1, <2>4, SweepStep
  <2>5. CASE Listen \/ Signal \/ Drained \/ TimedOut \/ Exit
    BY <1>1, <2>5, MainStep
  <2>6. CASE UNCHANGED vars
    BY <1>1, <2>6, StutterStep
  <2> QED
    BY <1>1, <2>1, <2>2, <2>3, <2>4, <2>5, <2>6 DEF Next
<1> QED
  BY InitInv, <1>1, PTL DEF Spec

-----------------------------------------------------------------------------
(* What follows                                                            *)

\* Every variable keeps to its type.
THEOREM TypesHold == Spec => []TypeOK
<1>1. IInv => TypeOK
  BY DEF IInv
<1> QED
  BY ServingInv, <1>1, PTL

\* Nobody who was accepted before the signal, and was given the time, finds
\* the pool closed.
THEOREM DrainsBeforeClosing == Spec => []RefusedOnlyWhenForced
<1>1. IInv => RefusedOnlyWhenForced
  BY DEF IInv
<1> QED
  BY ServingInv, <1>1, PTL

\* A user holds as many connections as the place where it is needs.
THEOREM ConnectionsReturned == Spec => []NothingLeaks
<1>1. IInv => NothingLeaks
  <2> SUFFICES ASSUME IInv, NEW u \in Users
               PROVE  Cardinality(Owns(u)) = CASE pc[u] \in {"rows", "hook", "last"} -> 1
                                               [] pc[u] = "nested" -> 2
                                               [] OTHER -> 0
    BY DEF NothingLeaks
  <2> USE DEF IInv, Holding
  <2>1. CASE pc[u] \in {"rows", "hook", "last"}
    <3>1. PICK c \in Conns : Owns(u) = {c}
      BY <2>1
    <3> QED
      BY <2>1, <3>1, FS_Singleton
  <2>2. CASE pc[u] = "nested"
    <3>1. PICK c, d \in Conns : c # d /\ Owns(u) = {c, d}
      BY <2>2
    <3>2. IsFiniteSet({c}) /\ Cardinality({c}) = 1
      BY FS_Singleton
    <3>3. d \notin {c} /\ {c} \cup {d} = Owns(u)
      BY <3>1
    <3>4. Cardinality({c} \cup {d}) = Cardinality({c}) + 1
      BY <3>2, <3>3, FS_AddElement
    <3>5. Cardinality(Owns(u)) = 2
      BY <3>2, <3>3, <3>4
    <3> QED
      BY <2>2, <3>5
  <2>3. CASE pc[u] \notin {"rows", "hook", "last", "nested"}
    BY <2>3, FS_EmptySet
  <2> QED
    BY <2>1, <2>2, <2>3
<1> QED
  BY ServingInv, <1>1, PTL

\* As long as fewer requests have hooks that query than there are connections,
\* an exhausted pool always has an owner that can go on.
THEOREM PoolNeverGridlocks == Spec => []NoGridlock
<1>1. IInv => NoGridlock
  <2> SUFFICES ASSUME IInv, Free = {}, \A c \in Conns : Waits(owner[c])
               PROVE  ~FewHooks
    BY DEF NoGridlock
  <2>1. \A c \in Conns : owner[c] \in Users
    BY DEF Free, IInv, TypeOK
  <2>2. \A c \in Conns : c \in Owns(owner[c])
    BY DEF Owns
  <2>3. \A c \in Conns : pc[owner[c]] = "hook"
    BY <2>1, <2>2 DEF Waits, IInv, Holding
  <2>4. \A c \in Conns : owner[c] \in hooked
    BY <2>1, <2>3, Names DEF Users, IInv, Placed
  <2>5. \A c, d \in Conns : owner[c] = owner[d] => c = d
    <3> SUFFICES ASSUME NEW c \in Conns, NEW d \in Conns, owner[c] = owner[d] PROVE c = d
      OBVIOUS
    <3>1. PICK e \in Conns : Owns(owner[c]) = {e}
      BY <2>1, <2>3 DEF IInv, Holding
    <3> QED
      BY <2>2, <3>1
  <2>6. [c \in Conns |-> owner[c]] \in Injection(Conns, hooked)
    BY <2>4, <2>5 DEF Injection, IsInjective
  <2>7. IsFiniteSet(hooked)
    BY ServingAssumption, FS_Subset DEF IInv, TypeOK
  <2>8. Cardinality(Conns) <= Cardinality(hooked)
    BY <2>6, <2>7, FS_Injection
  <2>9. Cardinality(Conns) \in Nat /\ Cardinality(hooked) \in Nat
    BY <2>7, ServingAssumption, FS_CardinalityType
  <2> QED
    BY <2>8, <2>9 DEF FewHooks
<1> QED
  BY ServingInv, <1>1, PTL
=============================================================================
