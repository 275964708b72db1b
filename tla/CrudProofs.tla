----------------------------- MODULE CrudProofs -----------------------------
(***************************************************************************)
(* Theorems about Crud, for every table, every set of callers and tags,    *)
(* and whatever the application's hooks decide; and about its listings:    *)
(* what a page holds, what a total counts, and what a client sees that     *)
(* follows the links to the last page.                                     *)
(***************************************************************************)
EXTENDS Crud, FiniteSetTheorems, TLAPS

Assumed == RbacAssumption /\ CrudAssumption

\* The constants are as the modules assume.
LEMMA Assumptions == Assumed
BY RbacAssumption, CrudAssumption DEF Assumed

-----------------------------------------------------------------------------
(* Roles                                                                   *)

\* Expanding roles adds what they inherit and never takes one away.
THEOREM RolesExpand ==
    ASSUME RbacAssumption, NEW held \in SUBSET Roles
    PROVE  /\ held \subseteq ResolveRoles(held)
           /\ \A r \in ResolveRoles(held) : Hierarchy[r] \subseteq ResolveRoles(held)
<1>1. held \subseteq ResolveRoles(held)
  BY DEF ResolveRoles
<1>2. ASSUME NEW r \in ResolveRoles(held), NEW h \in Hierarchy[r]
      PROVE  h \in ResolveRoles(held)
  <2>1. h \in Roles
    BY <1>2 DEF RbacAssumption, ResolveRoles
  <2>2. ASSUME NEW S \in SUBSET Roles,
               held \subseteq S, \A s \in S : Hierarchy[s] \subseteq S
        PROVE  h \in S
    BY <1>2, <2>2 DEF ResolveRoles
  <2> QED
    BY <2>1, <2>2 DEF ResolveRoles
<1> QED
  BY <1>1, <1>2

\* Whoever holds more roles has the rights of whoever holds fewer, "any"
\* included: an added role never takes a right away.
THEOREM MoreRolesMoreRights ==
    ASSUME RbacAssumption, NEW T, NEW tag \in Seq(T),
           NEW held \in SUBSET Roles, NEW more \in SUBSET Roles, held \subseteq more,
           HasPermission(tag, ResolveRoles(held))
    PROVE  HasPermission(tag, ResolveRoles(more))
<1>1. ResolveRoles(held) \subseteq ResolveRoles(more)
  BY DEF ResolveRoles
<1> QED
  BY <1>1 DEF HasPermission

-----------------------------------------------------------------------------
(* What the operators of the model return                                  *)

\* FilterRead leaves a model, without what the caller may not read.
LEMMA Filtered ==
    ASSUME NEW u, NEW row \in Row
    PROVE  /\ FilterRead(u, row) \in Row
           /\ \A f \in Fields : FilterRead(u, row)[f] = Zero \/ Reads(u, f)
BY DEF FilterRead, Row

\* So does scanRows, for every row it answers.
LEMMA Scanned ==
    ASSUME TypeOK, NEW u, NEW ids \in SUBSET Stored
    PROVE  /\ Scan(u, ids) \in SUBSET Item
           /\ \A i \in Scan(u, ids) : \A f \in Fields : i.row[f] = Zero \/ Reads(u, f)
<1> SUFFICES ASSUME NEW i \in Scan(u, ids)
             PROVE  i \in Item /\ \A f \in Fields : i.row[f] = Zero \/ Reads(u, f)
  OBVIOUS
<1>1. PICK j \in ids : i = [key |-> j, row |-> FilterRead(u, rows[j])]
  BY DEF Scan
<1>2. j \in Ids /\ rows[j] \in Row
  BY DEF TypeOK, Table, Stored
<1> QED
  BY <1>1, <1>2, Filtered DEF Item

\* Sets of keys can be counted.
LEMMA Finite ==
    ASSUME CrudAssumption
    PROVE  /\ IsFiniteSet(Ids)
           /\ \A S \in SUBSET Ids : IsFiniteSet(S) /\ Cardinality(S) \in Nat
<1>1. IsFiniteSet(Ids)
  BY FS_Interval DEF CrudAssumption, Ids
<1> QED
  BY <1>1, FS_Subset, FS_CardinalityType

\* Whatever the query string says, limit, page and offset are numbers, and no
\* page comes before the first.
LEMMA Numbers ==
    ASSUME CrudAssumption, NEW c \in Call
    PROVE  Limit(c) \in Nat /\ Page(c) \in Nat \ {0} /\ Offset(c) \in Nat
<1>1. Limit(c) \in Nat /\ Page(c) \in Nat \ {0}
  BY DEF CrudAssumption, Call, Limit, Page, ParseInt
<1>2. \A l \in Nat, p \in Nat \ {0} : (p - 1) * l \in Nat
  OBVIOUS
<1> QED
  BY <1>1, <1>2 DEF Offset

\* An error of CRUD is answered as an error.
LEMMA Handled == \A e : HandleError(e) \in {400, 404, 500}
BY DEF HandleError

\* An error that is not one of CRUD's own is the server's.
LEMMA Failure == HandleError("failure") = 500
BY DEF HandleError

\* So is a refused authorisation.
LEMMA Forbidden == HandleError("not_authorized") = 500
BY DEF HandleError

\* What cannot be read is the client's error.
LEMMA BadRequest == HandleError("bad_request") = 400
BY DEF HandleError

\* What is not there is not found.
LEMMA NotFound == HandleError("not_found") = 404
BY DEF HandleError

\* An answer by Status carries nothing.
LEMMA Statuses ==
    \A s \in {0, 200, 201, 204, 400, 404, 500} :
        /\ Status(s) \in Reply
        /\ Status(s) = [status |-> s, items |-> {}, total |-> {}, next |-> {}, basis |-> "none"]
BY DEF Status, NoReply, Reply

\* Every statement leaves a table.
LEMMA Tabled ==
    ASSUME Assumed, TypeOK, NEW r \in Reqs, NEW table \in Effects(r)
    PROVE  table \in Table
<1>1. rows \in Table /\ draft[r] \in Row /\ Inserted(draft[r]) \in Row
  BY DEF Assumed, TypeOK, CrudAssumption, Inserted, Row
<1>2. \A row \in Row : Updated(row, draft[r]) \in Row
  BY <1>1 DEF Updated, Row
<1>3. CASE call[r].op = "create"
  <2>1. PICK i \in FreeKeys(call[r]) : table = [rows EXCEPT ![i] = Inserted(draft[r])]
    BY <1>3 DEF Effects
  <2> QED
    BY <1>1, <2>1 DEF Table
<1>4. CASE call[r].op = "update"
  <2>1. table = [i \in Ids |-> IF i = call[r].id /\ i \in Visible(User(r))
                               THEN Updated(rows[i], draft[r]) ELSE rows[i]]
    BY <1>4 DEF Effects, User
  <2>2. \A i \in Visible(User(r)) : rows[i] \in Row
    BY <1>1 DEF Visible, Stored, Table
  <2> QED
    BY <1>1, <1>2, <2>1, <2>2 DEF Table
<1>5. CASE call[r].op \notin {"create", "update"}
  <2>1. table = [i \in Ids |-> IF i = call[r].id /\ i \in Visible(User(r))
                               THEN NoRow ELSE rows[i]]
    BY <1>5 DEF Effects, User
  <2> QED
    BY <1>1, <2>1 DEF Table
<1> QED
  BY <1>3, <1>4, <1>5

\* The links of a listing name at most one page.
LEMMA Paged ==
    ASSUME CrudAssumption, NEW c \in Call, NEW total, NEW items
    PROVE  NextPage(c, total, items) \in SUBSET Nat
<1>1. Page(c) + 1 \in Nat
  BY Numbers
<1> QED
  BY <1>1 DEF NextPage

-----------------------------------------------------------------------------
(* Type correctness                                                        *)

\* An answer is one, and changes no more than the request's own part.
LEMMA Answered ==
    ASSUME TypeOK, NEW r \in Reqs, NEW rep \in Reply, Answer(r, rep)
    PROVE  /\ pc' \in [Reqs -> Pcs]
           /\ reply' \in [Reqs -> Reply]
BY DEF TypeOK, Answer, Goto, Pcs

\* An error is an answer too.
LEMMA Refused == \A e : Status(HandleError(e)) \in Reply
<1> SUFFICES ASSUME NEW e
             PROVE  Status(HandleError(e)) \in Reply
  OBVIOUS
<1>1. HandleError(e) \in {400, 404, 500}
  BY Handled
<1>2. \A code \in {400, 404, 500} : Status(code) \in Reply
  BY Statuses
<1> QED
  BY <1>1, <1>2

\* A request that goes on is somewhere.
LEMMA Moved ==
    ASSUME TypeOK, NEW r \in Reqs, NEW label \in Pcs, Goto(r, label)
    PROVE  pc' \in [Reqs -> Pcs]
BY DEF TypeOK, Goto

\* A page is an answer.
LEMMA PageAnswered ==
    ASSUME TypeOK, NEW r \in Reqs, NEW items \in SUBSET Item,
           NEW total \in SUBSET Nat, NEW basis \in {"none", "inferred", "counted", "estimated"},
           AnswerPage(r, items, total, basis)
    PROVE  /\ pc' \in [Reqs -> Pcs]
           /\ reply' \in [Reqs -> Reply]
           /\ walk' \in [Reqs -> Walk]
<1>1. NextPage(call[r], total, Cardinality(items)) \in SUBSET Nat
  BY Paged, Assumptions DEF Assumed, TypeOK
<1>2. [status |-> 200, items |-> items, total |-> total, basis |-> basis,
       next |-> NextPage(call[r], total, Cardinality(items))] \in Reply
  BY <1>1 DEF Reply
<1>3. walk' \in [Reqs -> Walk]
  <2>1. {i.key : i \in items} \subseteq Ids \cup {0}
    BY DEF Item
  <2>2. (basis = "estimated") \in BOOLEAN
    OBVIOUS
  <2> DEFINE w == walk[r]
             after == [seen |-> w.seen \cup {i.key : i \in items}, quiet |-> w.quiet,
                       whole |-> w.whole, guessed |-> w.guessed \/ basis = "estimated"]
  <2>3. w \in Walk /\ walk \in [Reqs -> Walk]
    BY DEF TypeOK
  <2>4. after \in Walk
    <3> HIDE DEF w
    <3>1. w.seen \cup {i.key : i \in items} \in SUBSET (Ids \cup {0})
      BY <2>1, <2>3 DEF Walk
    <3>2. (w.guessed \/ basis = "estimated") \in BOOLEAN
      OBVIOUS
    <3> QED
      BY <3>1, <3>2, <2>3 DEF Walk
  <2>5. walk' = [walk EXCEPT ![r] = after]
    BY DEF AnswerPage
  <2> QED
    <3> HIDE DEF after
    <3> QED
      BY <2>3, <2>4, <2>5
<1> QED
  BY <1>2, <1>3, Answered DEF AnswerPage

\* A statement leaves a table and everybody's history.
LEMMA WriteTyped ==
    ASSUME Assumed, TypeOK, NEW r \in Reqs, NEW table \in Table, Write(r, table)
    PROVE  /\ rows' \in Table
           /\ wrote' \in [Reqs -> SUBSET Ids]
           /\ walk' \in [Reqs -> Walk]
<1>1. rows' \in Table
  BY DEF Write
<1>2. wrote' \in [Reqs -> SUBSET Ids]
  <2>1. {i \in Ids : table[i] # rows[i]} \in SUBSET Ids
    OBVIOUS
  <2> QED
    BY <2>1 DEF Write, TypeOK
<1>3. walk' \in [Reqs -> Walk]
  <2>1. \A w \in Walk, b \in BOOLEAN : [w EXCEPT !.quiet = w.quiet /\ b] \in Walk
    BY DEF Walk
  <2>2. (table = rows) \in BOOLEAN
    OBVIOUS
  <2>3. \A q \in Reqs : [walk[q] EXCEPT !.quiet = walk[q].quiet /\ table = rows] \in Walk
    BY <2>1, <2>2 DEF TypeOK
  <2> QED
    BY <2>3 DEF Write
<1> QED
  BY <1>1, <1>2, <1>3

\* Every step of every request keeps the types.
LEMMA TypeStep ==
    ASSUME Assumed, TypeOK, [Next]_vars
    PROVE  TypeOK'
<1> USE DEF Assumed
<1>0. CASE UNCHANGED vars
  BY <1>0 DEF TypeOK, vars
<1>1. ASSUME NEW r \in Reqs, Submit(r)
      PROVE  TypeOK'
  <2>1. PICK c \in Calls : /\ call' = [call EXCEPT ![r] = c]
                           /\ Goto(r, FirstStep(c.op))
                           /\ walk' = [walk EXCEPT ![r] = [seen |-> {}, quiet |-> TRUE,
                                          whole |-> c.page <= 1, guessed |-> FALSE]]
    BY <1>1 DEF Submit
  <2>2. c \in Call /\ (c.page <= 1) \in BOOLEAN
    BY DEF CrudAssumption
  <2>3. call' \in [Reqs -> Call]
    BY <2>1, <2>2 DEF TypeOK
  <2>4. pc' \in [Reqs -> Pcs]
    <3>1. FirstStep(c.op) \in Pcs
      BY DEF FirstStep, Pcs
    <3> QED
      BY <2>1, <3>1, Moved
  <2>5. walk' \in [Reqs -> Walk]
    <3>1. [seen |-> {}, quiet |-> TRUE, whole |-> c.page <= 1, guessed |-> FALSE] \in Walk
      BY <2>2 DEF Walk
    <3> QED
      BY <2>1, <3>1 DEF TypeOK
  <2>6. draft' \in [Reqs -> Row] /\ found' \in [Reqs -> [items : SUBSET Item, scanned : Nat]]
    BY <1>1 DEF Submit, TypeOK, Blank, Row, NothingFound
  <2>7. reply' \in [Reqs -> Reply]
    BY <1>1 DEF Submit, TypeOK, NoReply, Reply
  <2>8. rows' \in Table /\ calls' \in Nat /\ wrote' \in [Reqs -> SUBSET Ids]
    BY <1>1 DEF Submit, TypeOK
  <2> QED
    BY <2>3, <2>4, <2>5, <2>6, <2>7, <2>8 DEF TypeOK
<1>2. ASSUME NEW r \in Reqs, Reject(r) \/ Fail(r) \/ RefuseIdentifier(r) \/ OffsetTooLarge(r)
      PROVE  TypeOK'
  <2>1. \/ Answer(r, Status(HandleError("bad_request")))
        \/ Answer(r, Status(HandleError("failure")))
        \/ Answer(r, Status(HandleError(IF call[r].op \in {"create", "getAll"} THEN "bad_request"
                                        ELSE "not_found")))
    BY <1>2 DEF Reject, Fail, RefuseIdentifier, OffsetTooLarge
  <2>2. pc' \in [Reqs -> Pcs] /\ reply' \in [Reqs -> Reply]
    BY <2>1, Refused, Answered
  <2>3. UNCHANGED <<rows, wrote, call, draft, found, calls, walk>>
    BY <1>2 DEF Reject, Fail, RefuseIdentifier, OffsetTooLarge, NoWrite
  <2> QED
    BY <2>2, <2>3 DEF TypeOK
<1>3. ASSUME NEW r \in Reqs, CheckCall(r)
      PROVE  TypeOK'
  <2>1. UNCHANGED <<rows, wrote, call, found, calls, walk>>
    BY <1>3 DEF CheckCall, NoWrite
  <2>2. CASE /\ UNCHANGED draft
             /\ \/ Answer(r, Status(HandleError("not_found")))
                \/ Answer(r, Status(HandleError("not_authorized")))
    <3>1. pc' \in [Reqs -> Pcs] /\ reply' \in [Reqs -> Reply]
      BY <2>2, Refused, Answered
    <3> QED
      BY <2>1, <2>2, <3>1 DEF TypeOK
  <2>3. CASE /\ \E m \in Enriched(call[r].body) : draft' = [draft EXCEPT ![r] = m]
             /\ Goto(r, "write")
             /\ UNCHANGED reply
    <3>1. pc' \in [Reqs -> Pcs]
      BY <2>3, Moved DEF Pcs
    <3>2. Enriched(call[r].body) \subseteq Row
      BY DEF TypeOK, CrudAssumption, Call
    <3>3. draft' \in [Reqs -> Row]
      BY <2>3, <3>2 DEF TypeOK
    <3> QED
      BY <2>1, <2>3, <3>1, <3>3 DEF TypeOK
  <2> QED
    BY <1>3, <2>2, <2>3 DEF CheckCall
<1>4. ASSUME NEW r \in Reqs, Execute(r)
      PROVE  TypeOK'
  <2>1. rows' \in Table /\ wrote' \in [Reqs -> SUBSET Ids] /\ walk' \in [Reqs -> Walk]
    BY <1>4, Tabled, WriteTyped DEF Execute
  <2>2. pc' \in [Reqs -> Pcs] /\ reply' \in [Reqs -> Reply]
    <3>1. CASE Goto(r, "after") /\ UNCHANGED reply
      BY <3>1, Moved DEF Pcs, TypeOK
    <3>2. CASE Answer(r, Status(HandleError("failure")))
      BY <3>2, Refused, Answered
    <3> QED
      BY <1>4, <3>1, <3>2 DEF Execute
  <2> QED
    BY <1>4, <2>1, <2>2 DEF Execute, TypeOK
<1>5. ASSUME NEW r \in Reqs, Written(r) \/ Reread(r) \/ Get(r)
      PROVE  TypeOK'
  <2>1. UNCHANGED <<rows, wrote, call, draft, found, calls, walk>>
    BY <1>5 DEF Written, Reread, Get, NoWrite
  <2>2. Echo(r) \in SUBSET Item
    BY DEF Echo, Item, TypeOK, Call
  <2>3. \A u, ids : Scan(u, Visible(u) \cap ids) \in SUBSET Item
    BY Scanned DEF Visible
  <2>4. \A s \in {200, 201}, items \in SUBSET Item : [Status(s) EXCEPT !.items = items] \in Reply
    BY DEF Status, NoReply, Reply
  <2>5. pc' \in [Reqs -> Pcs] /\ reply' \in [Reqs -> Reply]
    <3>1. CASE Goto(r, "reread") /\ UNCHANGED reply
      BY <3>1, Moved DEF Pcs, TypeOK
    <3>2. CASE Answer(r, Status(204))
      <4>1. Status(204) \in Reply
        BY Statuses
      <4> QED
        BY <3>2, <4>1, Answered
    <3>3. CASE \E s \in {200, 201}, items \in SUBSET Item :
                  Answer(r, [Status(s) EXCEPT !.items = items])
      BY <3>3, <2>4, Answered DEF Answer
    <3>4. CASE Written(r)
      BY <3>1, <3>2, <3>3, <3>4, <2>2 DEF Answer, Written
    <3>5. CASE Reread(r)
      BY <3>3, <3>5, <2>2, <2>3 DEF Reread
    <3>6. CASE Get(r)
      <4>1. CASE Answer(r, Status(HandleError("not_found")))
        BY <4>1, Refused, Answered
      <4> QED
        BY <3>3, <3>6, <4>1, <2>3 DEF Get
    <3> QED
      BY <1>5, <3>4, <3>5, <3>6
  <2> QED
    BY <2>1, <2>5 DEF TypeOK
<1>6. ASSUME NEW r \in Reqs, FetchPage(r) \/ Count(r) \/ Estimate(r)
      PROVE  TypeOK'
  <2> DEFINE page == Window(call[r], Visible(User(r)))
             items == Scan(User(r), page)
  <2>1. UNCHANGED <<rows, wrote, call, draft, calls>>
    BY <1>6 DEF FetchPage, Count, Estimate, NoWrite
  <2>2. page \in SUBSET Stored /\ Stored \in SUBSET Ids /\ Visible(User(r)) \in SUBSET Ids
    BY DEF Window, Visible, Stored
  <2>3. Cardinality(page) \in Nat /\ Cardinality(Visible(User(r))) \in Nat
    BY <2>2, Finite
  <2>4. items \in SUBSET Item
    BY <2>2, Scanned
  <2>5. found' \in [Reqs -> [items : SUBSET Item, scanned : Nat]]
    <3> HIDE DEF items, page
    <3>1. [items |-> items, scanned |-> Cardinality(page)] \in [items : SUBSET Item, scanned : Nat]
      BY <2>3, <2>4
    <3>2. \/ UNCHANGED found
          \/ found' = [found EXCEPT ![r] = [items |-> items, scanned |-> Cardinality(page)]]
      BY <1>6 DEF FetchPage, Count, Estimate, User, items, page
    <3> QED
      BY <3>1, <3>2 DEF TypeOK
  <2>6. found[r].items \in SUBSET Item
    BY DEF TypeOK
  <2>7. \/ UNCHANGED <<reply, walk>> /\ Goto(r, "count")
        \/ \E shown \in SUBSET Item, total \in SUBSET Nat,
              basis \in {"none", "inferred", "counted", "estimated"} :
              AnswerPage(r, shown, total, basis)
    <3>1. CASE FetchPage(r)
      <4>1. {Offset(call[r]) + Cardinality(page)} \in SUBSET Nat /\ {} \in SUBSET Nat
        BY <2>3, Numbers DEF TypeOK
      <4> QED
        BY <2>4, <3>1, <4>1 DEF FetchPage, User
    <3>2. CASE Count(r)
      BY <2>3, <2>6, <3>2 DEF Count
    <3>3. CASE Estimate(r)
      <4>1. \A n \in 0..MaxEstimate : {n} \in SUBSET Nat
        BY DEF CrudAssumption
      <4> QED
        BY <2>6, <3>3, <4>1 DEF Estimate
    <3> QED
      BY <1>6, <3>1, <3>2, <3>3
  <2>8. pc' \in [Reqs -> Pcs] /\ reply' \in [Reqs -> Reply] /\ walk' \in [Reqs -> Walk]
    <3>1. CASE UNCHANGED <<reply, walk>> /\ Goto(r, "count")
      BY <3>1, Moved DEF Pcs, TypeOK
    <3>2. CASE \E shown \in SUBSET Item, total \in SUBSET Nat,
                  basis \in {"none", "inferred", "counted", "estimated"} :
                  AnswerPage(r, shown, total, basis)
      <4>1. PICK shown \in SUBSET Item, total \in SUBSET Nat,
                 basis \in {"none", "inferred", "counted", "estimated"} :
                 AnswerPage(r, shown, total, basis)
        BY <3>2
      <4>2. /\ TypeOK /\ r \in Reqs
            /\ shown \in SUBSET Item /\ total \in SUBSET Nat
            /\ basis \in {"none", "inferred", "counted", "estimated"}
        OBVIOUS
      <4> QED
        BY ONLY <4>1, <4>2, PageAnswered, Zenon
    <3> QED
      BY <2>7, <3>1, <3>2
  <2> QED
    BY <2>1, <2>5, <2>8 DEF TypeOK
<1>7. ASSUME NEW r \in Reqs, FollowNext(r)
      PROVE  TypeOK'
  <2> DEFINE limit == IF Limit(call[r]) = DefaultLimit THEN -1 ELSE Limit(call[r])
  <2>1. PICK n \in reply[r].next :
          call' = [call EXCEPT ![r] = [@ EXCEPT !.page = n, !.limit = limit]]
    BY <1>7 DEF FollowNext
  <2>2. n \in Int /\ limit \in Int
    BY Numbers DEF TypeOK, Reply
  <2>3. call' \in [Reqs -> Call]
    <3> HIDE DEF limit
    <3>1. \A c \in Call : [c EXCEPT !.page = n, !.limit = limit] \in Call
      BY <2>2 DEF Call
    <3> QED
      BY <2>1, <3>1 DEF TypeOK
  <2>4. pc' \in [Reqs -> Pcs]
    BY <1>7, Moved DEF FollowNext, Pcs
  <2>5. found' \in [Reqs -> [items : SUBSET Item, scanned : Nat]] /\ reply' \in [Reqs -> Reply]
    BY <1>7 DEF FollowNext, TypeOK, NothingFound, NoReply, Reply
  <2> QED
    BY <1>7, <2>3, <2>4, <2>5 DEF FollowNext, NoWrite, TypeOK
<1> QED
  BY <1>0, <1>1, <1>2, <1>3, <1>4, <1>5, <1>6, <1>7 DEF Next

\* The types hold at first.
LEMMA InitTyped == Init => TypeOK
<1>1. (CHOOSE c \in Calls : TRUE) \in Call
  BY Assumptions DEF Assumed, CrudAssumption
<1> QED
  BY <1>1, Assumptions DEF Assumed, CrudAssumption, Init, TypeOK, Pcs, Blank, Row,
                           NothingFound, NoReply, Reply, Walk

\* Every state holds a table, a request in each slot and an answer that can be
\* sent, for any number of requests and whatever the query strings say.
THEOREM TypeCorrect == Spec => []TypeOK
<1>1. TypeOK /\ [Next]_vars => TypeOK'
  BY Assumptions, TypeStep
<1> QED
  BY <1>1, InitTyped, PTL DEF Spec

-----------------------------------------------------------------------------
(* What answers say, and what calls do                                     *)

Writing == {"create", "update", "delete"}

\* Where a request is tells what it asked for and what it has done so far.
Staged(r) ==
    /\ pc[r] \in {"idle", "check", "write", "get", "list", "count"} => wrote[r] = {}
    /\ pc[r] # "done" => reply[r] = NoReply
    /\ pc[r] \in {"check", "write", "after"} => call[r].op \in Writing
    /\ pc[r] = "write" => Authorized(call[r])
    /\ pc[r] \in {"list", "count"} => call[r].op = "getAll"
    /\ pc[r] = "reread" => call[r].op = "create"
    /\ pc[r] \in {"after", "reread"} /\ call[r].op = "create" => Cardinality(wrote[r]) = 1
    /\ reply[r].next # {} => call[r].op = "getAll"
    /\ \A i \in found[r].items : \A f \in Fields : i.row[f] = Zero \/ Reads(User(r), f)

\* The part of NothingForbiddenServed that is about one request.
Served(r) ==
    \A i \in reply[r].items : \A f \in Fields :
        \/ i.row[f] = Zero
        \/ Reads(User(r), f)
        \/ call[r].op \in {"create", "update"} /\ i.row[f] = call[r].body[f]

\* The part of EffectsMatchAnswers that is.
Matched(r) ==
    /\ reply[r].status \in {400, 404} => wrote[r] = {}
    /\ reply[r].status = 201 => Cardinality(wrote[r]) = 1
    /\ wrote[r] # {} => call[r].op \in Writing
    /\ call[r].id # 0 => wrote[r] \subseteq {call[r].id}

Lawful(r) == Staged(r) /\ Served(r) /\ Matched(r)

IInv == TypeOK /\ \A r \in Reqs : Lawful(r)

\* What another request does is none of this one's business, but for the table.
LEMMA Unaffected ==
    ASSUME NEW q \in Reqs, Lawful(q),
           pc'[q] = pc[q], call'[q] = call[q], found'[q] = found[q],
           reply'[q] = reply[q], wrote'[q] = wrote[q]
    PROVE  Lawful(q)'
BY DEF Lawful, Staged, Served, Matched, User

\* A request that ends in an error was lawful and stays so.
LEMMA ErrorLawful ==
    ASSUME TypeOK, NEW r \in Reqs, Lawful(r), NEW code \in {400, 404, 500},
           pc'[r] = "done", reply'[r] = Status(code), UNCHANGED <<call, found, wrote>>,
           code = 500 \/ wrote[r] = {}
    PROVE  Lawful(r)'
<1>1. reply'[r].items = {} /\ reply'[r].next = {} /\ reply'[r].status = code
  BY Statuses
<1> QED
  BY <1>1 DEF Lawful, Staged, Served, Matched, User

\* One step of a request.
Step(r) == \/ Submit(r) \/ Reject(r) \/ Fail(r) \/ RefuseIdentifier(r)
           \/ CheckCall(r) \/ Execute(r) \/ Written(r) \/ Reread(r)
           \/ Get(r) \/ OffsetTooLarge(r) \/ FetchPage(r) \/ Count(r) \/ Estimate(r)
           \/ FollowNext(r)

\* A step of a request changes nothing of another one.
LEMMA Apart ==
    ASSUME TypeOK, NEW r \in Reqs, NEW q \in Reqs, q # r,
           Step(r)
    PROVE  /\ pc'[q] = pc[q] /\ call'[q] = call[q] /\ found'[q] = found[q]
           /\ reply'[q] = reply[q] /\ wrote'[q] = wrote[q] /\ draft'[q] = draft[q]
<1> USE DEF TypeOK, Answer, Goto, NoWrite
<1>1. CASE Submit(r)
  BY <1>1 DEF Submit
<1>2. CASE Reject(r) \/ Fail(r) \/ RefuseIdentifier(r) \/ OffsetTooLarge(r)
  BY <1>2 DEF Reject, Fail, RefuseIdentifier, OffsetTooLarge
<1>3. CASE CheckCall(r)
  BY <1>3 DEF CheckCall
<1>4. CASE Execute(r)
  BY <1>4 DEF Execute, Write
<1>5. CASE Written(r) \/ Reread(r) \/ Get(r)
  BY <1>5 DEF Written, Reread, Get
<1>6. CASE FetchPage(r)
  BY <1>6 DEF FetchPage, AnswerPage
<1>7. CASE Count(r) \/ Estimate(r)
  BY <1>7 DEF Count, Estimate, AnswerPage
<1>8. CASE FollowNext(r)
  BY <1>8 DEF FollowNext
<1> QED
  BY <1>1, <1>2, <1>3, <1>4, <1>5, <1>6, <1>7, <1>8 DEF Step

\* What a statement does of the table to the keys its call names.
LEMMA Effective ==
    ASSUME IInv, NEW r \in Reqs, pc[r] = "write", NEW table \in Effects(r)
    PROVE  LET changed == {i \in Ids : table[i] # rows[i]} IN
           /\ call[r].id # 0 => changed \subseteq {call[r].id}
           /\ call[r].op = "create" => Cardinality(changed) = 1
<1> DEFINE changed == {i \in Ids : table[i] # rows[i]}
<1>0. TypeOK /\ Assumed /\ call[r].op \in Writing
  BY Assumptions DEF IInv, Lawful, Staged
<1>1. CASE call[r].op = "create"
  <2>1. PICK i \in FreeKeys(call[r]) : table = [rows EXCEPT ![i] = Inserted(draft[r])]
    BY <1>1 DEF Effects
  <2>2. i \in Ids /\ rows[i] = NoRow /\ call[r].id \in {0, i}
    BY DEF FreeKeys, Stored
  <2>3. Inserted(draft[r]) # NoRow
    <3>1. Inserted(draft[r]) \in Row
      BY <1>0 DEF Assumed, TypeOK, CrudAssumption, Inserted, Row
    <3> QED
      BY <1>0, <3>1 DEF Assumed, CrudAssumption
  <2>4. changed = {i}
    BY <1>0, <2>1, <2>2, <2>3 DEF TypeOK, Table
  <2> QED
    BY <1>1, <2>2, <2>4, FS_Singleton
<1>2. CASE call[r].op = "update"
  <2>1. table = [i \in Ids |-> IF i = call[r].id /\ i \in Visible(User(r))
                               THEN Updated(rows[i], draft[r]) ELSE rows[i]]
    BY <1>2 DEF Effects, User
  <2> QED
    BY <1>2, <2>1
<1>3. CASE call[r].op = "delete"
  <2>1. table = [i \in Ids |-> IF i = call[r].id /\ i \in Visible(User(r))
                               THEN NoRow ELSE rows[i]]
    BY <1>3 DEF Effects, User
  <2> QED
    BY <1>3, <2>1
<1> QED
  BY <1>0, <1>1, <1>2, <1>3 DEF Writing

\* Every step keeps every request lawful.
LEMMA LawStep ==
    ASSUME IInv, NEW r \in Reqs,
           Step(r)
    PROVE  Lawful(r)'
<1>0. TypeOK /\ Lawful(r) /\ Assumed
  BY Assumptions DEF IInv
<1> USE DEF TypeOK, Answer, Goto, NoWrite
<1>1. CASE Submit(r)
  <2>1. PICK c \in Calls : call' = [call EXCEPT ![r] = c] /\ Goto(r, FirstStep(c.op))
    BY <1>1 DEF Submit
  <2>2. call'[r] = c /\ c \in Call /\ pc'[r] = FirstStep(c.op)
    BY <1>0, <2>1 DEF Assumed, CrudAssumption
  <2>3. wrote'[r] = {} /\ found'[r] = NothingFound /\ reply'[r] = NoReply
    BY <1>0, <1>1 DEF Submit
  <2>4. /\ pc'[r] \in {"check", "list", "get"}
        /\ pc'[r] = "check" => c.op \in Writing
        /\ pc'[r] = "list" => c.op = "getAll"
    BY <2>2 DEF FirstStep, Writing
  <2> QED
    BY <2>2, <2>3, <2>4 DEF Lawful, Staged, Served, Matched, User, NothingFound, NoReply
<1>2. CASE Reject(r) \/ Fail(r) \/ RefuseIdentifier(r) \/ OffsetTooLarge(r)
  <2>1. UNCHANGED <<call, found, wrote>>
    BY <1>2 DEF Reject, Fail, RefuseIdentifier, OffsetTooLarge
  <2>2. PICK code \in {400, 404, 500} :
             /\ pc'[r] = "done" /\ reply'[r] = Status(code)
             /\ code = 500 \/ Reject(r) \/ RefuseIdentifier(r)
    <3>1. CASE Fail(r) \/ OffsetTooLarge(r)
      <4>1. pc'[r] = "done" /\ reply'[r] = Status(500)
        BY <1>0, <3>1, Failure DEF Fail, OffsetTooLarge
      <4> QED
        BY <4>1
    <3>2. CASE Reject(r)
      <4>1. pc'[r] = "done" /\ reply'[r] = Status(400)
        BY <1>0, <3>2, BadRequest DEF Reject
      <4> QED
        BY <3>2, <4>1
    <3>3. CASE RefuseIdentifier(r)
      <4>1. pc'[r] = "done" /\ (reply'[r] = Status(400) \/ reply'[r] = Status(404))
        BY <1>0, <3>3, BadRequest, NotFound DEF RefuseIdentifier
      <4> QED
        BY <3>3, <4>1
    <3> QED
      BY <1>2, <3>1, <3>2, <3>3
  <2>3. Reject(r) \/ RefuseIdentifier(r) => wrote[r] = {}
    BY <1>0 DEF Reject, RefuseIdentifier, Lawful, Staged
  <2> QED
    BY <1>0, <2>1, <2>2, <2>3, ErrorLawful
<1>3. CASE CheckCall(r)
  <2>1. /\ UNCHANGED <<call, found, wrote>>
        /\ wrote[r] = {} /\ reply[r] = NoReply /\ call[r].op \in Writing
    BY <1>0, <1>3 DEF CheckCall, Lawful, Staged
  <2>2. CASE \/ Answer(r, Status(HandleError("not_found")))
             \/ Answer(r, Status(HandleError("not_authorized")))
    <3>1. pc'[r] = "done" /\ (reply'[r] = Status(404) \/ reply'[r] = Status(500))
      BY <1>0, <2>2, NotFound, Forbidden
    <3> QED
      BY <1>0, <2>1, <3>1, ErrorLawful
  <2>3. CASE Authorized(call[r]) /\ Goto(r, "write") /\ UNCHANGED reply
    <3>1. pc'[r] = "write"
      BY <1>0, <2>3
    <3> QED
      BY <1>0, <2>1, <2>3, <3>1 DEF Lawful, Staged, Served, Matched, User, NoReply
  <2> QED
    BY <1>3, <2>2, <2>3 DEF CheckCall
<1>4. CASE Execute(r)
  <2>1. PICK table \in Effects(r) : Write(r, table)
    BY <1>4 DEF Execute
  <2> DEFINE changed == {i \in Ids : table[i] # rows[i]}
  <2>2. /\ call[r].id # 0 => changed \subseteq {call[r].id}
        /\ call[r].op = "create" => Cardinality(changed) = 1
    BY <1>4, Effective DEF Execute
  <2>3. wrote[r] = {} /\ call[r].op \in Writing
    BY <1>0, <1>4 DEF Execute, Lawful, Staged
  <2>4. wrote'[r] = changed
    BY <1>0, <2>1, <2>3 DEF Write
  <2> HIDE DEF changed
  <2>5. UNCHANGED <<call, found>>
    BY <1>4 DEF Execute
  <2>6. CASE Goto(r, "after") /\ UNCHANGED reply
    <3>1. pc'[r] = "after"
      BY <1>0, <2>6
    <3>2. reply'[r] = NoReply
      BY <1>0, <1>4, <2>6 DEF Execute, Lawful, Staged
    <3> QED
      BY <1>0, <2>2, <2>3, <2>4, <2>5, <3>1, <3>2 DEF Lawful, Staged, Served, Matched, User, NoReply
  <2>7. CASE Answer(r, Status(HandleError("failure")))
    <3>2. pc'[r] = "done" /\ reply'[r] = Status(500)
      BY <1>0, <2>7, Failure
    <3>3. reply'[r].items = {} /\ reply'[r].next = {} /\ reply'[r].status = 500
      BY <3>2, Statuses
    <3> QED
      BY <1>0, <2>2, <2>3, <2>4, <2>5, <3>2, <3>3 DEF Lawful, Staged, Served, Matched, User
  <2> QED
    BY <1>4, <2>6, <2>7 DEF Execute
<1>5. CASE Written(r) \/ Reread(r) \/ Get(r)
  <2>1. UNCHANGED <<call, found, wrote>> /\ call'[r] = call[r]
    BY <1>5 DEF Written, Reread, Get
  <2> DEFINE mine == {i \in Item : \A f \in Fields :
                        \/ i.row[f] = Zero
                        \/ Reads(User(r), f)
                        \/ call[r].op \in {"create", "update"} /\ i.row[f] = call[r].body[f]}
  <2>2. call[r].op \in {"create", "update"} => Echo(r) \subseteq mine
    BY <1>0 DEF Echo, Item, Call
  <2>3. \A ids : Scan(User(r), Visible(User(r)) \cap ids) \subseteq mine
    BY <1>0, Scanned DEF Visible
  <2>4. CASE Goto(r, "reread") /\ UNCHANGED reply /\ Written(r) /\ call[r].op = "create"
    <3>1. pc'[r] = "reread" /\ Cardinality(wrote[r]) = 1 /\ reply[r] = NoReply
      BY <1>0, <2>4 DEF Written, Lawful, Staged
    <3> QED
      BY <1>0, <2>1, <2>4, <3>1 DEF Lawful, Staged, Served, Matched, User, NoReply
  <2>5. CASE \/ Answer(r, Status(204)) /\ Written(r)
             \/ Answer(r, Status(HandleError("not_found"))) /\ Get(r)
    <3>1. pc'[r] = "done" /\ (reply'[r] = Status(204) \/ reply'[r] = Status(404))
      BY <1>0, <2>5, NotFound
    <3>2. PICK code \in {204, 404} : reply'[r] = Status(code)
      BY <3>1
    <3>4. code = 404 => wrote[r] = {}
      <4>1. CASE Get(r)
        BY <1>0, <4>1 DEF Lawful, Staged, Get
      <4>2. CASE Answer(r, Status(204))
        <5>1. reply'[r].status = 204 /\ reply'[r].status = code
          BY <1>0, <3>2, <4>2, Statuses
        <5> QED
          BY <5>1
      <4> QED
        BY <2>5, <4>1, <4>2
    <3>3. reply'[r].items = {} /\ reply'[r].next = {} /\ reply'[r].status = code
      BY <3>2, Statuses
    <3> QED
      BY <1>0, <2>1, <3>1, <3>3, <3>4 DEF Lawful, Staged, Served, Matched, User
  <2>6. ASSUME NEW s \in {200, 201}, NEW items \in SUBSET mine,
               pc'[r] = "done", reply'[r] = [Status(s) EXCEPT !.items = items],
               s = 201 => Cardinality(wrote[r]) = 1
        PROVE  Lawful(r)'
    <3> HIDE DEF mine
    <3>3. reply'[r].items = items /\ reply'[r].next = {} /\ reply'[r].status = s
      BY <2>6, Statuses
    <3>4. Served(r)'
      BY <2>1, <3>3 DEF Served, User, mine
    <3> QED
      BY <1>0, <2>1, <2>6, <3>3, <3>4 DEF Lawful, Staged, Matched, User
  <2> HIDE DEF mine
  <2>7. CASE Written(r)
    <3>1. CASE Answer(r, [Status(200) EXCEPT !.items = Echo(r)]) /\ call[r].op = "update"
      <4>1. Echo(r) \in SUBSET mine
        BY <2>2, <3>1
      <4>2. pc'[r] = "done" /\ reply'[r] = [Status(200) EXCEPT !.items = Echo(r)]
        BY <1>0, <3>1
      <4> QED
        BY <2>6, <4>1, <4>2
    <3> QED
      BY <2>4, <2>5, <2>7, <3>1 DEF Written
  <2>8. CASE Reread(r)
    <3>1. Cardinality(wrote[r]) = 1 /\ call[r].op = "create"
      BY <1>0, <2>8 DEF Reread, Lawful, Staged
    <3>2. PICK items \in {Echo(r), Scan(User(r), Visible(User(r)) \cap {call[r].id})} \ {{}} :
            Answer(r, [Status(201) EXCEPT !.items = items])
      BY <2>8 DEF Reread
    <3> QED
      <4>1. items \in SUBSET mine
        BY <2>2, <2>3, <3>1
      <4>2. pc'[r] = "done" /\ reply'[r] = [Status(201) EXCEPT !.items = items]
        BY <1>0, <3>2
      <4> QED
        BY <2>6, <3>1, <4>1, <4>2
  <2>9. CASE Get(r)
    <3>1. CASE Answer(r, Status(HandleError("not_found")))
      BY <2>5, <2>9, <3>1
    <3>2. PICK ids : \/ Answer(r, Status(HandleError("not_found")))
                     \/ Answer(r, [Status(200) EXCEPT !.items =
                                      Scan(User(r), Visible(User(r)) \cap ids)])
      BY <2>9 DEF Get, User
    <3> QED
      <4> DEFINE items == Scan(User(r), Visible(User(r)) \cap ids)
      <4>1. items \in SUBSET mine
        BY <2>3
      <4> HIDE DEF items
      <4>2. CASE Answer(r, [Status(200) EXCEPT !.items = items])
        <5>1. pc'[r] = "done" /\ reply'[r] = [Status(200) EXCEPT !.items = items]
          BY <1>0, <4>2
        <5> QED
          BY <2>6, <4>1, <5>1
      <4> QED
        BY <3>1, <3>2, <4>2 DEF items
  <2> QED
    BY <1>5, <2>7, <2>8, <2>9
<1>6. CASE FetchPage(r) \/ Count(r) \/ Estimate(r)
  <2> DEFINE readable == {i \in Item : \A f \in Fields : i.row[f] = Zero \/ Reads(User(r), f)}
             page == Window(call[r], Visible(User(r)))
  <2>1. /\ UNCHANGED <<call, wrote>>
        /\ wrote[r] = {} /\ reply[r] = NoReply /\ call[r].op = "getAll"
    BY <1>0, <1>6 DEF FetchPage, Count, Estimate, Lawful, Staged
  <2>2. Scan(User(r), page) \subseteq readable
    BY <1>0, Scanned DEF Window, Visible
  <2>3. found[r].items \subseteq readable
    BY <1>0 DEF Lawful, Staged
  <2>4. found'[r].items \subseteq readable
    <3>1. CASE FetchPage(r)
      <4>1. found'[r].items = Scan(User(r), page)
        BY <1>0, <3>1 DEF FetchPage, User
      <4> QED
        BY <2>2, <4>1
    <3>2. CASE Count(r) \/ Estimate(r)
      BY <2>3, <3>2 DEF Count, Estimate
    <3> QED
      BY <1>6, <3>1, <3>2
  <2>5. \/ UNCHANGED reply /\ pc'[r] = "count"
        \/ /\ pc'[r] = "done" /\ reply'[r].status = 200
           /\ reply'[r].items \subseteq readable
    <3>1. CASE FetchPage(r)
      <4> HIDE DEF readable
      <4> QED
        BY <1>0, <2>2, <3>1 DEF FetchPage, AnswerPage, User
    <3>2. CASE Count(r)
      BY <1>0, <2>3, <3>2 DEF Count, AnswerPage
    <3>3. CASE Estimate(r)
      BY <1>0, <2>3, <3>3 DEF Estimate, AnswerPage
    <3> QED
      BY <1>6, <3>1, <3>2, <3>3
  <2> QED
    BY <2>1, <2>4, <2>5 DEF Lawful, Staged, Served, Matched, User, NoReply
<1>7. CASE FollowNext(r)
  <2>1. /\ call[r].op = "getAll" /\ wrote'[r] = {}
        /\ found'[r] = NothingFound /\ reply'[r] = NoReply /\ pc'[r] = "list"
    BY <1>0, <1>7 DEF FollowNext, Lawful, Staged, Matched, Writing
  <2>2. call'[r].op = call[r].op
    <3>1. PICK n, l : call' = [call EXCEPT ![r] = [@ EXCEPT !.page = n, !.limit = l]]
      BY <1>7 DEF FollowNext
    <3> QED
      BY <1>0, <3>1 DEF Call
  <2> QED
    BY <2>1, <2>2 DEF Lawful, Staged, Served, Matched, User, NothingFound, NoReply
<1> QED
  BY <1>1, <1>2, <1>3, <1>4, <1>5, <1>6, <1>7 DEF Step

\* The invariant: types, and every request lawful.
LEMMA Invariance == Spec => []IInv
<1>1. Init => IInv
  <2> SUFFICES ASSUME Init
               PROVE  IInv
    OBVIOUS
  <2>1. ASSUME NEW r \in Reqs
        PROVE  Lawful(r)
    BY DEF Init, Lawful, Staged, Served, Matched, NothingFound, NoReply
  <2> QED
    BY <2>1, InitTyped DEF IInv
<1>2. IInv /\ [Next]_vars => IInv'
  <2> SUFFICES ASSUME IInv, [Next]_vars
               PROVE  IInv'
    OBVIOUS
  <2>1. TypeOK'
    BY Assumptions, TypeStep DEF IInv
  <2>2. ASSUME NEW q \in Reqs
        PROVE  Lawful(q)'
    <3>1. CASE UNCHANGED vars
      BY <3>1, Unaffected DEF IInv, vars
    <3>2. CASE Next
      <4>1. PICK r \in Reqs : Step(r)
        BY <3>2 DEF Next, Step
      <4>2. CASE q = r
        BY <4>1, <4>2, LawStep
      <4>3. CASE q # r
        BY <4>1, <4>3, Apart, Unaffected DEF IInv
      <4> QED
        BY <4>2, <4>3
    <3> QED
      BY <3>1, <3>2
  <2> QED
    BY <2>1, <2>2 DEF IInv
<1> QED
  BY <1>1, <1>2, PTL DEF Spec

\* No answer carries a value of a field its caller cannot read, but for what
\* the caller sent: whatever the tags, the hierarchy and the hooks are, however
\* many requests run.
THEOREM NothingLeaks == Spec => []NothingForbiddenServed
<1>1. IInv => NothingForbiddenServed
  BY DEF IInv, Lawful, Served, NothingForbiddenServed
<1> QED
  BY <1>1, Invariance, PTL

\* Calls answered by 400 or 404 changed nothing, those answered by 201 stored
\* one row, and none reaches another row than the one it names.
THEOREM AnswersTell == Spec => []EffectsMatchAnswers
<1>1. IInv => EffectsMatchAnswers
  BY DEF IInv, Lawful, Matched, EffectsMatchAnswers, Writing
<1> QED
  BY <1>1, Invariance, PTL

\* What a statement changes of a row, its caller may write.
LEMMA StatementAllowed ==
    ASSUME IInv, NEW r \in Reqs, Execute(r), NEW i \in wrote'[r] \ wrote[r], NEW f \in Fields
    PROVE  ChangeAllowed(r, i, f)
<1> USE DEF ChangeAllowed
<1>0. TypeOK /\ Lawful(r) /\ pc[r] = "write" /\ Authorized(call[r])
  BY DEF IInv, Lawful, Staged, Execute
<1>1. PICK table \in Effects(r) : Write(r, table)
  BY DEF Execute
<1>2. rows' = table /\ i \in Ids
  BY <1>0, <1>1 DEF Write, TypeOK
<1>3. table[i] # rows[i]
  BY <1>0, <1>1 DEF Write, TypeOK
<1>4. call[r].op # "delete" =>
         \/ ~StrictValidation /\ call[r].body[f] = Zero
         \/ Writes(User(r), f)
  BY <1>0 DEF Authorized, ValidateWrite, User
<1>5. CASE call[r].op = "create"
  <2>1. PICK j \in FreeKeys(call[r]) : table = [rows EXCEPT ![j] = Inserted(draft[r])]
    BY <1>5 DEF Effects
  <2>2. i = j /\ rows[i] = NoRow /\ rows'[i] = Inserted(draft[r])
    BY <1>0, <1>2, <1>3, <2>1 DEF FreeKeys, Stored, TypeOK, Table
  <2>3. f \in InsertFields => rows'[i][f] = draft[r][f]
    BY <2>2 DEF Inserted
  <2> QED
    BY <1>4, <1>5, <2>2, <2>3
<1>6. CASE call[r].op = "update"
  <2>1. table = [k \in Ids |-> IF k = call[r].id /\ k \in Visible(User(r))
                               THEN Updated(rows[k], draft[r]) ELSE rows[k]]
    BY <1>6 DEF Effects, User
  <2>2. rows[i] # NoRow /\ rows'[i] = Updated(rows[i], draft[r])
    BY <1>2, <1>3, <2>1 DEF Visible, Stored
  <2>3. rows'[i][f] = IF f \in UpdateFields THEN draft[r][f] ELSE rows[i][f]
    BY <2>2 DEF Updated
  <2> QED
    BY <1>4, <1>6, <2>2, <2>3
<1>7. CASE call[r].op \notin {"create", "update"}
  <2>1. table = [k \in Ids |-> IF k = call[r].id /\ k \in Visible(User(r))
                               THEN NoRow ELSE rows[k]]
    BY <1>7 DEF Effects, User
  <2> QED
    BY <1>2, <1>3, <2>1
<1> QED
  BY <1>5, <1>6, <1>7

\* A field is changed by who may write it or by StateProcessor, however the
\* steps of requests interleave.
THEOREM WritersOnly == Spec => OnlyWritersChange
<1>1. ASSUME IInv, [Next]_vars, NEW r \in Reqs, NEW i \in wrote'[r] \ wrote[r], NEW f \in Fields
      PROVE  ChangeAllowed(r, i, f)
  <2>1. Next
    BY <1>1 DEF vars
  <2>2. PICK q \in Reqs : Step(q)
    BY <2>1 DEF Next, Step
  <2>3. q = r
    BY <1>1, <2>2, Apart DEF IInv
  <2>4. Execute(r)
    <3>1. ~Submit(r)
      BY <1>1 DEF Submit, IInv, TypeOK
    <3>2. wrote' # wrote
      BY <1>1
    <3> QED
      BY <2>2, <2>3, <3>1, <3>2
         DEF Step, Reject, Fail, RefuseIdentifier, CheckCall, Written, Reread, Get, OffsetTooLarge,
             FetchPage, Count, Estimate, FollowNext, NoWrite
  <2> QED
    BY <1>1, <2>4, StatementAllowed
<1>2. IInv /\ [Next]_vars =>
         [\A r \in Reqs : \A i \in wrote'[r] \ wrote[r] : \A f \in Fields :
             ChangeAllowed(r, i, f)]_vars
  BY <1>1
<1> QED
  BY <1>2, Invariance, PTL DEF Spec, OnlyWritersChange

-----------------------------------------------------------------------------
(* Pages                                                                   *)

\* How many numbers there are from a to b.
LEMMA Interval ==
    ASSUME NEW a \in Int, NEW b \in Int
    PROVE  /\ IsFiniteSet(a..b)
           /\ a > b => Cardinality(a..b) = 0
           /\ a <= b => Cardinality(a..b) = b - a + 1
<1>1. IsFiniteSet(a..b) /\ Cardinality(a..b) = IF a > b THEN 0 ELSE b - a + 1
  BY FS_Interval, Zenon
<1> QED
  BY <1>1

\* ORDER BY numbers the rows of a listing from 1 without gaps: positions are
\* a bijection between keys and numbers.
LEMMA Positions ==
    ASSUME CrudAssumption, NEW ids \in SUBSET Ids
    PROVE  [i \in ids |-> Position(i, ids)] \in Bijection(ids, 1..Cardinality(ids))
<1> DEFINE upTo(i) == {j \in ids : j <= i}
           n == Cardinality(ids)
           rank == [i \in ids |-> Position(i, ids)]
<1>1. IsFiniteSet(ids) /\ n \in Nat /\ ids \subseteq Int
  BY Finite DEF CrudAssumption, Ids
<1>2. \A i \in ids : /\ IsFiniteSet(upTo(i)) /\ upTo(i) \subseteq ids
                     /\ Position(i, ids) = Cardinality(upTo(i))
                     /\ Position(i, ids) \in 1..n
  <2> SUFFICES ASSUME NEW i \in ids
               PROVE  /\ IsFiniteSet(upTo(i)) /\ upTo(i) \subseteq ids
                      /\ Position(i, ids) = Cardinality(upTo(i))
                      /\ Position(i, ids) \in 1..n
    OBVIOUS
  <2>1. upTo(i) \in SUBSET ids /\ i \in upTo(i) /\ Position(i, ids) = Cardinality(upTo(i))
    BY <1>1 DEF Position
  <2> HIDE DEF upTo, n
  <2>2. IsFiniteSet(upTo(i)) /\ Cardinality(upTo(i)) <= Cardinality(ids)
    BY <1>1, <2>1, FS_Subset
  <2>3. Cardinality(upTo(i)) \in Nat /\ Cardinality(upTo(i)) # 0
    BY <2>1, <2>2, FS_CardinalityType, FS_EmptySet
  <2> QED
    BY <1>1, <2>1, <2>2, <2>3 DEF n
<1>3. ASSUME NEW i \in ids, NEW k \in ids, i < k
      PROVE  Position(i, ids) # Position(k, ids)
  <2>1. \A j \in ids : j <= i => j <= k
    BY <1>1, <1>3
  <2>2. upTo(i) \in SUBSET upTo(k)
    BY <2>1
  <2>3. k \in upTo(k) /\ k \notin upTo(i)
    BY <1>1, <1>3
  <2> HIDE DEF upTo
  <2>4. IsFiniteSet(upTo(k)) /\ upTo(i) # upTo(k)
    BY <1>2, <2>3
  <2>5. Cardinality(upTo(i)) # Cardinality(upTo(k))
    BY <2>2, <2>4, FS_Subset
  <2> QED
    BY <1>2, <2>5
<1>4. rank \in Injection(ids, 1..n)
  <2>1. rank \in [ids -> 1..n]
    BY <1>2
  <2>2. ASSUME NEW i \in ids, NEW k \in ids, rank[i] = rank[k]
        PROVE  i = k
    <3>1. i < k \/ k < i \/ i = k
      BY <1>1
    <3>2. Position(i, ids) = Position(k, ids)
      BY <2>2
    <3> QED
      BY <1>3, <3>1, <3>2
  <2> HIDE DEF rank, n
  <2> QED
    BY <2>1, <2>2 DEF Injection, IsInjective
<1>5. IsFiniteSet(1..n) /\ Cardinality(1..n) = n
  <2>1. n \in Nat
    BY <1>1
  <2> HIDE DEF n
  <2>2. 1 \in Int /\ n \in Int
    BY <2>1
  <2>3. /\ IsFiniteSet(1..n)
        /\ 1 > n => Cardinality(1..n) = 0
        /\ 1 <= n => Cardinality(1..n) = n - 1 + 1
    BY <2>2, Interval, Zenon
  <2> QED
    BY <2>1, <2>3
<1>6. rank \in Surjection(ids, 1..n)
  <2> HIDE DEF rank
  <2> QED
    BY <1>4, <1>5, FS_Injection DEF n
<1> QED
  BY <1>4, <1>6 DEF Bijection

\* The last position on a page of n rows.
PageEnd(c, n) == IF Limit(c) > 0 /\ Offset(c) + Limit(c) < n THEN Offset(c) + Limit(c) ELSE n

\* A page holds as many rows as LIMIT allows and OFFSET leaves: none is
\* dropped and none fetched twice, whatever keys are missing.
THEOREM PageSize ==
    ASSUME CrudAssumption, NEW c \in Call, NEW ids \in SUBSET Ids
    PROVE  LET end == PageEnd(c, Cardinality(ids)) IN
           Cardinality(Window(c, ids)) = IF Offset(c) < end THEN end - Offset(c) ELSE 0
<1> DEFINE n == Cardinality(ids)
           rank == [i \in ids |-> Position(i, ids)]
           page == Window(c, ids)
           end == PageEnd(c, n)
           span == (Offset(c) + 1)..end
           place == [i \in page |-> Position(i, ids)]
<1>1. n \in Nat /\ IsFiniteSet(ids)
  BY Finite
<1>2. Limit(c) \in Nat /\ Offset(c) \in Nat
  BY Numbers
<1>3. end \in Nat
  <2> HIDE DEF n
  <2> QED
    BY <1>1, <1>2 DEF PageEnd
<1>4. rank \in Bijection(ids, 1..n)
  BY Positions
<1>5. /\ \A i \in ids : Position(i, ids) \in 1..n
      /\ \A i, k \in ids : Position(i, ids) = Position(k, ids) => i = k
      /\ \A p \in 1..n : \E i \in ids : Position(i, ids) = p
  <2>1. /\ rank \in [ids -> 1..n]
        /\ \A i, k \in ids : rank[i] = rank[k] => i = k
        /\ \A p \in 1..n : \E i \in ids : rank[i] = p
    <3> HIDE DEF rank, n
    <3> QED
      BY <1>4 DEF Bijection, Injection, Surjection, IsInjective
  <2>2. \A i \in ids : rank[i] = Position(i, ids)
    OBVIOUS
  <2> HIDE DEF rank, n
  <2> QED
    BY <2>1, <2>2
<1>6. page = {i \in ids : Position(i, ids) \in span}
  <2> HIDE DEF n
  <2>1. \A i \in ids : Position(i, ids) \in span <=>
             /\ Position(i, ids) > Offset(c)
             /\ Limit(c) > 0 => Position(i, ids) <= Offset(c) + Limit(c)
    BY <1>1, <1>2, <1>5 DEF PageEnd
  <2> QED
    BY <2>1 DEF Window
<1>7. span \subseteq 1..n
  <2> HIDE DEF n
  <2> QED
    BY <1>1, <1>2 DEF PageEnd
<1>8. place \in Bijection(page, span)
  <2>1. page \subseteq ids
    BY <1>6
  <2>2. place \in [page -> span] /\ \A i \in page : place[i] = Position(i, ids)
    BY <1>6
  <2> HIDE DEF place, page, span, n
  <2>3. \A i, k \in page : place[i] = place[k] => i = k
    BY <1>5, <2>1, <2>2
  <2>4. \A p \in span : \E i \in page : place[i] = p
    BY <1>5, <1>6, <1>7, <2>2
  <2>5. place \in Injection(page, span)
    BY <2>2, <2>3 DEF Injection, IsInjective
  <2>6. place \in Surjection(page, span)
    BY <2>2, <2>4 DEF Surjection
  <2> QED
    BY <2>5, <2>6 DEF Bijection
<1>9. page \in SUBSET ids /\ IsFiniteSet(page)
  BY <1>1, <1>6, FS_Subset
<1>10. Cardinality(span) = Cardinality(page)
  <2> HIDE DEF place, page, span
  <2> QED
    BY <1>8, <1>9, FS_Bijection DEF ExistsBijection
<1>11. Cardinality(span) = IF Offset(c) < end THEN end - Offset(c) ELSE 0
  <2> HIDE DEF end
  <2>1. Offset(c) + 1 \in Int /\ end \in Int
    BY <1>2, <1>3
  <2>2. /\ Offset(c) + 1 > end => Cardinality(span) = 0
        /\ Offset(c) + 1 <= end => Cardinality(span) = end - (Offset(c) + 1) + 1
    BY <2>1, Interval
  <2> HIDE DEF span
  <2> QED
    BY <1>2, <1>3, <2>2
<1> QED
  BY <1>10, <1>11

\* A page that is not full is the last one: no row comes after it.
LEMMA ShortIsLast ==
    ASSUME CrudAssumption, NEW c \in Call, NEW ids \in SUBSET Ids,
           ShortPage(c, Cardinality(Window(c, ids)))
    PROVE  /\ Limit(c) = 0 \/ Cardinality(ids) <= Offset(c) + Limit(c)
           /\ \/ Cardinality(Window(c, ids)) = 0
              \/ Offset(c) + Cardinality(Window(c, ids)) = Cardinality(ids)
<1> DEFINE n == Cardinality(ids)
           scanned == Cardinality(Window(c, ids))
<1>1. n \in Nat /\ Limit(c) \in Nat /\ Offset(c) \in Nat
  BY Finite, Numbers
<1>2. scanned = IF Offset(c) < PageEnd(c, n) THEN PageEnd(c, n) - Offset(c) ELSE 0
  BY PageSize
<1>3. Limit(c) = 0 \/ scanned < Limit(c)
  BY DEF ShortPage
<1> HIDE DEF n, scanned
<1>4. Limit(c) = 0 \/ n <= Offset(c) + Limit(c)
  BY <1>1, <1>2, <1>3 DEF PageEnd
<1>5. scanned = 0 \/ Offset(c) + scanned = n
  BY <1>1, <1>2, <1>4 DEF PageEnd
<1> QED
  BY <1>4, <1>5 DEF n, scanned

\* The pages up to the last one that is counted hold every row: a total that
\* does not divide by the limit is rounded up.
LEMMA LastIsEnough ==
    ASSUME CrudAssumption, NEW c \in Call, NEW n \in Nat,
           Limit(c) > 0, ~(Page(c) < LastPage(n, Limit(c)))
    PROVE  n <= Offset(c) + Limit(c)
<1>1. Limit(c) \in Nat /\ Page(c) \in Nat \ {0} /\ Offset(c) = (Page(c) - 1) * Limit(c)
  BY Numbers DEF Offset
<1>2. \A m, l, p \in Nat : l > 0 /\ ~(p < m \div l) => m < (p + 1) * l
  OBVIOUS
<1>3. n + Limit(c) - 1 < (Page(c) + 1) * Limit(c)
  <2>1. n + Limit(c) - 1 \in Nat
    BY <1>1
  <2> QED
    BY <1>1, <1>2, <2>1 DEF LastPage
<1>4. \A l, p \in Nat : (p + 1) * l = (p - 1) * l + l + l
  OBVIOUS
<1>5. (Page(c) + 1) * Limit(c) = Offset(c) + Limit(c) + Limit(c)
  BY <1>1, <1>4
<1> QED
  BY <1>1, <1>3, <1>5, Numbers

\* The first page skips nothing, whatever number under 2 asks for it.
LEMMA FirstPage ==
    ASSUME CrudAssumption, NEW c \in Call, c.page <= 1
    PROVE  Offset(c) = 0
<1>1. Page(c) = 1
  BY DEF CrudAssumption, Call, Page, ParseInt
<1>2. \A l \in Nat : (1 - 1) * l = 0
  OBVIOUS
<1> QED
  BY <1>1, <1>2, Numbers DEF Offset

\* The call behind a link.
Linked(c, n) == [c EXCEPT !.page = n,
                          !.limit = IF Limit(c) = DefaultLimit THEN -1 ELSE Limit(c)]

\* A link asks for the same rows by the same limit and skips none between its
\* page and the one it was on: pages may repeat at the highest number, but
\* never leave a gap.
LEMMA LinkMeets ==
    ASSUME CrudAssumption, NEW c \in Call, Limit(c) > 0
    PROVE  LET d == Linked(c, Page(c) + 1) IN
           /\ d \in Call /\ d.op = c.op /\ d.user = c.user
           /\ Limit(d) = Limit(c)
           /\ Offset(d) <= Offset(c) + Limit(c)
<1> DEFINE d == Linked(c, Page(c) + 1)
<1>1. Limit(c) \in Nat /\ Page(c) \in Nat \ {0}
  BY Numbers
<1>2. /\ d \in Call /\ d.op = c.op /\ d.user = c.user
      /\ d.page = Page(c) + 1
      /\ d.limit = IF Limit(c) = DefaultLimit THEN -1 ELSE Limit(c)
  <2> DEFINE l == IF Limit(c) = DefaultLimit THEN -1 ELSE Limit(c)
  <2>1. l \in Int /\ Page(c) + 1 \in Int
    BY <1>1
  <2>2. d = [c EXCEPT !.page = Page(c) + 1, !.limit = l]
    BY DEF Linked
  <2> HIDE DEF d, l
  <2>3. PICK p \in Int, m \in Int : p = Page(c) + 1 /\ m = l
    BY <2>1
  <2>4. d = [c EXCEPT !.page = p, !.limit = m]
    BY <2>2, <2>3
  <2>5. d \in Call /\ d.op = c.op /\ d.user = c.user /\ d.page = p /\ d.limit = m
    BY <2>4 DEF Call
  <2> QED
    BY <2>3, <2>5 DEF l
<1> HIDE DEF d
<1>3. Limit(d) = Limit(c)
  <2>1. DefaultLimit \in Nat /\ MaxLimit \in Nat /\ c.limit \in Int
    BY DEF CrudAssumption, Call
  <2>2. Limit(c) = DefaultLimit \/ Limit(c) <= MaxLimit
    BY <2>1 DEF Limit, ParseInt
  <2>3. Limit(d) = ParseInt(d.limit, DefaultLimit, MaxLimit)
    BY DEF Limit
  <2>4. CASE Limit(c) = DefaultLimit
    BY <1>2, <2>3, <2>4 DEF ParseInt
  <2>5. CASE Limit(c) # DefaultLimit
    BY <1>1, <1>2, <2>1, <2>2, <2>3, <2>5 DEF ParseInt
  <2> QED
    BY <2>4, <2>5
<1>4. Page(d) \in Nat \ {0} /\ Page(d) <= Page(c) + 1
  BY <1>1, <1>2 DEF CrudAssumption, Page, ParseInt
<1>5. \A l, p, q \in Nat : q <= p + 1 => (q - 1) * l <= (p - 1) * l + l
  OBVIOUS
<1>6. Offset(d) <= Offset(c) + Limit(c)
  BY <1>1, <1>3, <1>4, <1>5 DEF Offset
<1> QED
  BY <1>2, <1>3, <1>6 DEF d

\* scanRows answers one item for every row the caller may read.
LEMMA ScanKeeps ==
    ASSUME NEW u, NEW ids, IsFiniteSet(ids), \A i \in ids : CheckRead(u, rows[i])
    PROVE  Cardinality(Scan(u, ids)) = Cardinality(ids)
<1> DEFINE item(i) == [key |-> i, row |-> FilterRead(u, rows[i])]
           items == Scan(u, ids)
           as == [i \in ids |-> item(i)]
<1>1. items = {item(i) : i \in ids}
  BY DEF Scan
<1>2. \A i, k \in ids : item(i) = item(k) => i = k
  OBVIOUS
<1>3. as \in [ids -> items] /\ \A i \in ids : as[i] = item(i)
  BY <1>1
<1> HIDE DEF item, items, as
<1>4. as \in Injection(ids, items)
  BY <1>2, <1>3 DEF Injection, IsInjective
<1>5. as \in Surjection(ids, items)
  BY <1>1, <1>3 DEF Surjection
<1>6. ExistsBijection(ids, items)
  BY <1>4, <1>5 DEF Bijection, ExistsBijection
<1> QED
  BY <1>6, FS_Bijection DEF items

-----------------------------------------------------------------------------
(* What a listing has shown                                                *)

Readable(u) == {i \in Visible(u) : CheckRead(u, rows[i])}

\* Rows of the pages before that of c, and with its own.
Before(c, ids) == {i \in ids : Position(i, ids) <= Offset(c)}
Through(c, ids) == {i \in ids : Limit(c) > 0 => Position(i, ids) <= Offset(c) + Limit(c)}

\* Nothing seen that may not be, and nothing missed of the rows so far.
Seen(r, sofar) == /\ walk[r].seen \subseteq Readable(User(r))
                  /\ sofar \cap Readable(User(r)) \subseteq walk[r].seen

\* A listing on its way: the pages before this one are seen, and what the page
\* query found is still what it would find.
Underway(r) ==
    LET c == call[r]
        ids == Visible(User(r)) IN
    /\ pc[r] \in {"list", "count"} /\ walk[r].whole => Seen(r, Before(c, ids))
    /\ pc[r] = "count" => found[r].items = Scan(User(r), Window(c, ids))

\* A listing that is answered: its page is seen too; if it links to no other,
\* there is none; and what it counted is what there is.
Listed(r) ==
    LET c == call[r]
        ids == Visible(User(r)) IN
    pc[r] = "done" /\ reply[r].status = 200 =>
        /\ walk[r].whole => Seen(r, Through(c, ids))
        /\ reply[r].next = {} /\ ~walk[r].guessed =>
              \/ ids \subseteq Through(c, ids)
              \/ reply[r].total = {} /\ Readable(User(r)) # ids
        /\ reply[r].basis \in {"inferred", "counted"} =>
              \/ reply[r].total = {Cardinality(ids)}
              \/ found[r].scanned = 0 /\ reply[r].total = {Offset(c)}

\* Only a listing answers with a total and a link, which is to the next page.
Linking(r) ==
    /\ reply[r].basis # "none" => call[r].op = "getAll"
    /\ reply[r].next # {} => /\ call[r].op = "getAll" /\ pc[r] = "done"
                             /\ reply[r].status = 200 /\ Limit(call[r]) > 0
                             /\ reply[r].next = {Page(call[r]) + 1}

Paging(r) == /\ pc[r] = "get" => call[r].op # "getAll"
             /\ Linking(r)
             /\ walk[r].quiet /\ call[r].op = "getAll" => Underway(r) /\ Listed(r)

PagesInv == \A r \in Reqs : Paging(r)

\* Keys a caller is shown are keys.
LEMMA Keys == \A u : Readable(u) \subseteq Visible(u) /\ Visible(u) \in SUBSET Ids
BY DEF Readable, Visible, Stored

\* Positions are numbers from 1 to the size of the listing.
LEMMA InOrder ==
    ASSUME CrudAssumption, NEW ids \in SUBSET Ids, NEW i \in ids
    PROVE  Position(i, ids) \in 1..Cardinality(ids)
<1> DEFINE rank == [j \in ids |-> Position(j, ids)]
<1>1. rank[i] = Position(i, ids)
  OBVIOUS
<1>2. rank \in [ids -> 1..Cardinality(ids)]
  <2>1. rank \in Bijection(ids, 1..Cardinality(ids))
    BY Positions
  <2> HIDE DEF rank
  <2> QED
    BY <2>1 DEF Bijection, Injection
<1> HIDE DEF rank
<1> QED
  BY <1>1, <1>2

\* The first page has none before it.
LEMMA NoneBefore ==
    ASSUME CrudAssumption, NEW c \in Call, c.page <= 1, NEW ids \in SUBSET Ids
    PROVE  Before(c, ids) = {}
<1>1. \A i \in ids : Position(i, ids) \in Nat /\ Position(i, ids) > 0
  BY InOrder, Finite
<1>2. Offset(c) = 0
  BY FirstPage
<1> QED
  BY <1>1, <1>2 DEF Before

\* A page lies between the rows before it and those through it.
LEMMA Between ==
    ASSUME CrudAssumption, NEW c \in Call, NEW ids \in SUBSET Ids
    PROVE  Through(c, ids) \subseteq Before(c, ids) \cup Window(c, ids)
<1>1. \A i \in ids : Position(i, ids) \in Int
  BY InOrder, Finite
<1>2. Offset(c) \in Int /\ Limit(c) \in Int
  BY Numbers
<1> QED
  BY <1>1, <1>2 DEF Through, Before, Window

\* Nothing comes after a page that reaches the last row.
LEMMA AllThrough ==
    ASSUME CrudAssumption, NEW c \in Call, NEW ids \in SUBSET Ids,
           Limit(c) = 0 \/ Cardinality(ids) <= Offset(c) + Limit(c)
    PROVE  ids \subseteq Through(c, ids)
<1>1. \A i \in ids : Position(i, ids) \in Nat /\ Position(i, ids) <= Cardinality(ids)
  BY InOrder, Finite
<1>2. Offset(c) \in Nat /\ Limit(c) \in Nat /\ Cardinality(ids) \in Nat
  BY Numbers, Finite
<1> QED
  BY <1>1, <1>2 DEF Through

\* A page that links to no other reaches the last row, if its total is the
\* number of rows; without a total, if CheckRead withheld none.
LEMMA LastReached ==
    ASSUME Assumed, TypeOK, NEW c \in Call, NEW u, NEW total,
           NextPage(c, total, Cardinality(Scan(u, Window(c, Visible(u))))) = {},
           \/ total = {Cardinality(Visible(u))}
           \/ ShortPage(c, Cardinality(Window(c, Visible(u))))
           \/ total = {} /\ Readable(u) = Visible(u)
    PROVE  Visible(u) \subseteq Through(c, Visible(u))
<1> DEFINE ids == Visible(u)
           page == Window(c, ids)
<1>1. /\ CrudAssumption /\ ids \in SUBSET Ids /\ Cardinality(ids) \in Nat
      /\ Limit(c) \in Nat /\ page \in SUBSET ids
  BY Keys, Finite, Numbers DEF Assumed, Window
<1>2. CASE ShortPage(c, Cardinality(page))
  BY <1>1, <1>2, ShortIsLast, AllThrough
<1>3. CASE total = {Cardinality(ids)}
  <2>1. Limit(c) = 0 \/ ~(Page(c) < LastPage(Cardinality(ids), Limit(c)))
    BY <1>1, <1>3 DEF NextPage
  <2>2. Limit(c) = 0 \/ Cardinality(ids) <= Offset(c) + Limit(c)
    BY <1>1, <2>1, LastIsEnough
  <2> QED
    BY <1>1, <2>2, AllThrough
<1>4. CASE total = {} /\ Readable(u) = ids
  <2>1. \A i \in page : CheckRead(u, rows[i])
    BY <1>1, <1>4 DEF Readable
  <2>2. IsFiniteSet(page) /\ Cardinality(page) \in Nat
    BY <1>1, Finite
  <2>3. Cardinality(Scan(u, page)) = Cardinality(page)
    BY <2>1, <2>2, ScanKeeps
  <2>4. ShortPage(c, Cardinality(page))
    <3>1. Limit(c) = 0 \/ ~(Cardinality(Scan(u, page)) >= Limit(c))
      BY <1>1, <1>4 DEF NextPage
    <3> HIDE DEF page
    <3> QED
      BY <1>1, <2>2, <2>3, <3>1 DEF ShortPage
  <2> QED
    BY <1>2, <2>4
<1> QED
  BY <1>2, <1>3, <1>4

-----------------------------------------------------------------------------
(* Every step keeps it                                                     *)

\* Another request takes a listing's rows away only by changing the table,
\* and then the listing is quiet no more.
LEMMA OthersStep ==
    ASSUME TypeOK, NEW r \in Reqs, NEW q \in Reqs, q # r, Step(r), walk'[q].quiet
    PROVE  rows' = rows /\ walk'[q] = walk[q]
<1> USE DEF TypeOK
<1>1. CASE Execute(r)
  <2>1. PICK table \in Effects(r) : Write(r, table)
    BY <1>1 DEF Execute
  <2>2. /\ rows' = table
        /\ walk'[q] = [walk[q] EXCEPT !.quiet = walk[q].quiet /\ table = rows]
    BY <2>1 DEF Write
  <2>3. walk[q] \in Walk
    OBVIOUS
  <2>4. walk'[q].quiet = (walk[q].quiet /\ table = rows)
    BY <2>2, <2>3 DEF Walk
  <2>5. walk[q].quiet /\ table = rows
    BY <2>4
  <2>6. walk'[q] = walk[q]
    BY <2>2, <2>3, <2>5 DEF Walk
  <2> QED
    BY <2>2, <2>5, <2>6
<1>2. CASE Submit(r)
  BY <1>2 DEF Submit
<1>3. CASE Reject(r) \/ Fail(r) \/ RefuseIdentifier(r) \/ CheckCall(r) \/ OffsetTooLarge(r)
  BY <1>3 DEF Reject, Fail, RefuseIdentifier, CheckCall, OffsetTooLarge, NoWrite
<1>4. CASE Written(r) \/ Reread(r) \/ Get(r) \/ FollowNext(r)
  BY <1>4 DEF Written, Reread, Get, FollowNext, NoWrite
<1>5. CASE FetchPage(r)
  BY <1>5 DEF FetchPage, AnswerPage, NoWrite
<1>6. CASE Count(r) \/ Estimate(r)
  BY <1>6 DEF Count, Estimate, AnswerPage, NoWrite
<1> QED
  BY <1>1, <1>2, <1>3, <1>4, <1>5, <1>6 DEF Step

\* So a listing stays what it was through the steps of others.
LEMMA Undisturbed ==
    ASSUME NEW q \in Reqs, Paging(q),
           pc'[q] = pc[q], call'[q] = call[q], found'[q] = found[q], reply'[q] = reply[q],
           walk'[q].quiet => rows' = rows /\ walk'[q] = walk[q]
    PROVE  Paging(q)'
<1>1. Linking(q)' /\ (pc'[q] = "get" => call'[q].op # "getAll")
  BY DEF Paging, Linking
<1>2. ASSUME walk'[q].quiet, call'[q].op = "getAll"
      PROVE  (Underway(q) /\ Listed(q))'
  <2>1. rows' = rows /\ walk'[q] = walk[q] /\ Underway(q) /\ Listed(q)
    BY <1>2 DEF Paging
  <2>2. /\ User(q)' = User(q)
        /\ \A u : Visible(u)' = Visible(u) /\ Readable(u)' = Readable(u)
        /\ \A u, ids : Scan(u, ids)' = Scan(u, ids)
    BY <2>1 DEF User, Visible, Stored, Readable, Scan
  <2>3. \A sofar : Seen(q, sofar)' <=> Seen(q, sofar)
    BY <2>1, <2>2 DEF Seen
  <2>4. Underway(q)'
    BY <2>1, <2>2, <2>3 DEF Underway
  <2>5. Listed(q)'
    BY <2>1, <2>2, <2>3 DEF Listed
  <2> QED
    BY <2>4, <2>5
<1> QED
  BY <1>1, <1>2 DEF Paging

\* What is not an answer with a page keeps it trivially.
LEMMA NoPage ==
    ASSUME NEW r \in Reqs, reply'[r].next = {}, reply'[r].basis = "none",
           pc'[r] = "get" => call'[r].op # "getAll",
           \/ call'[r].op # "getAll"
           \/ pc'[r] \notin {"list", "count"} /\ reply'[r].status # 200
    PROVE  Paging(r)'
BY DEF Paging, Linking, Underway, Listed

\* An answered page: its total and its links are what Listed asks.
LEMMA PageListed ==
    ASSUME Assumed, TypeOK, NEW r \in Reqs, NEW total, NEW basis,
           NEW items, items = Scan(User(r), Window(call[r], Visible(User(r)))),
           AnswerPage(r, items, total, basis), UNCHANGED <<rows, call>>,
           walk[r].whole => Seen(r, Before(call[r], Visible(User(r)))),
           \/ basis = "none" /\ total = {}
           \/ /\ basis = "inferred"
              /\ ShortPage(call[r], Cardinality(Window(call[r], Visible(User(r)))))
              /\ total = {Offset(call[r]) + Cardinality(Window(call[r], Visible(User(r))))}
              /\ found'[r].scanned = Cardinality(Window(call[r], Visible(User(r))))
           \/ basis = "counted" /\ total = {Cardinality(Visible(User(r)))}
           \/ basis = "estimated"
    PROVE  Listed(r)'
<1> DEFINE c == call[r]
           u == User(r)
           ids == Visible(u)
           page == Window(c, ids)
<1>0. CrudAssumption /\ c \in Call /\ ids \in SUBSET Ids
  BY Keys DEF Assumed, TypeOK
<1>1. /\ call'[r] = c /\ User(r)' = u
      /\ Visible(u)' = ids /\ Readable(u)' = Readable(u)
  BY DEF User, Visible, Stored, Readable
<1>2. /\ pc'[r] = "done" /\ reply'[r].total = total /\ reply'[r].basis = basis
      /\ reply'[r].next = NextPage(c, total, Cardinality(items))
  BY DEF TypeOK, AnswerPage, Answer, Goto
<1>3. /\ walk'[r].seen = walk[r].seen \cup {i.key : i \in items}
      /\ walk'[r].whole = walk[r].whole
      /\ walk'[r].guessed = (walk[r].guessed \/ basis = "estimated")
  BY DEF TypeOK, AnswerPage
<1>4. {i.key : i \in items} = page \cap Readable(u)
  <2>1. page \subseteq ids
    BY DEF Window
  <2> DEFINE shown == {i \in page : CheckRead(u, rows[i])}
             item(i) == [key |-> i, row |-> FilterRead(u, rows[i])]
  <2>2. items = {item(i) : i \in shown}
    BY DEF Scan
  <2>3. \A i : item(i).key = i
    OBVIOUS
  <2>4. shown = page \cap Readable(u)
    BY <2>1 DEF Readable
  <2> HIDE DEF shown, item, page
  <2>5. {i.key : i \in items} = shown
    BY <2>2, <2>3
  <2> QED
    BY <2>4, <2>5
<1>5. ASSUME walk'[r].whole
      PROVE  Seen(r, Through(c, ids))'
  <2>1. Seen(r, Before(c, ids))
    BY <1>3, <1>5
  <2>2. Through(c, ids) \subseteq Before(c, ids) \cup page
    BY <1>0, Between
  <2>3. walk'[r].seen \subseteq Readable(u)
    BY <1>3, <1>4, <2>1 DEF Seen
  <2>4. Through(c, ids) \cap Readable(u) \subseteq walk'[r].seen
    BY <1>3, <1>4, <2>1, <2>2 DEF Seen
  <2>5. Through(c, ids)' = Through(c, ids)
    BY <1>1 DEF Through, Position, Limit, Offset, Page
  <2> QED
    BY <1>1, <2>3, <2>4, <2>5 DEF Seen
<1>6. ASSUME reply'[r].next = {}, ~walk'[r].guessed
      PROVE  \/ ids \subseteq Through(c, ids)
             \/ total = {} /\ Readable(u) # ids
  <2>1. basis # "estimated"
    BY <1>3, <1>6
  <2>2. NextPage(c, total, Cardinality(Scan(u, page))) = {}
    BY <1>2, <1>6
  <2>3. \/ total = {Cardinality(ids)}
        \/ ShortPage(c, Cardinality(page))
        \/ total = {}
    BY <2>1
  <2> HIDE DEF ids, u, c
  <2>4. \/ ids \subseteq Through(c, ids)
        \/ total = {} /\ Readable(u) # ids
    BY <1>0, <2>2, <2>3, LastReached DEF ids
  <2> QED
    BY <2>4
<1>7. ASSUME basis \in {"inferred", "counted"}
      PROVE  \/ total = {Cardinality(ids)}
             \/ found'[r].scanned = 0 /\ total = {Offset(c)}
  <2>1. CASE basis = "counted"
    BY <2>1
  <2>2. CASE basis = "inferred"
    <3>1. /\ ShortPage(c, Cardinality(page))
          /\ total = {Offset(c) + Cardinality(page)}
          /\ found'[r].scanned = Cardinality(page)
      BY <2>2
    <3>2. Cardinality(page) = 0 \/ Offset(c) + Cardinality(page) = Cardinality(ids)
      BY <1>0, <3>1, ShortIsLast
    <3>3. Offset(c) \in Nat
      BY <1>0, Numbers
    <3> QED
      BY <3>1, <3>2, <3>3
  <2> QED
    BY <1>7, <2>1, <2>2
<1> QED
  <2>1. Through(call[r], Visible(User(r)))' = Through(c, ids)
    BY <1>1 DEF Through, Position, Limit, Offset, Page
  <2> HIDE DEF c, u, ids, page
  <2> QED
    BY <1>1, <1>2, <1>5, <1>6, <1>7, <2>1 DEF Listed, u, ids, c

\* A page that is answered or goes on to be counted keeps the listing as it
\* should be.
LEMMA PageStep ==
    ASSUME IInv, NEW r \in Reqs, Paging(r), FetchPage(r) \/ Count(r) \/ Estimate(r)
    PROVE  Paging(r)'
<1> DEFINE c == call[r]
           ids == Visible(User(r))
           page == Window(c, ids)
<1>0. Assumed /\ TypeOK /\ c \in Call
  BY Assumptions DEF IInv, TypeOK
<1>1. /\ pc[r] \in {"list", "count"} /\ c.op = "getAll" /\ reply[r] = NoReply
      /\ UNCHANGED <<rows, call>>
  BY <1>0 DEF IInv, Lawful, Staged, FetchPage, Count, Estimate, NoWrite
<1>2. PICK items, total, basis :
         \/ AnswerPage(r, items, total, basis)
         \/ FetchPage(r) /\ Goto(r, "count") /\ UNCHANGED <<reply, walk>>
  BY DEF FetchPage, Count, Estimate
<1>3. walk'[r].quiet = walk[r].quiet
  BY <1>0, <1>2 DEF TypeOK, AnswerPage
<1>4. pc'[r] \in {"count", "done"}
  BY <1>0, <1>2 DEF TypeOK, AnswerPage, Answer, Goto
<1>5. Linking(r)'
  <2>1. CASE UNCHANGED reply
    BY <1>1, <2>1 DEF Linking, NoReply
  <2>2. CASE AnswerPage(r, items, total, basis)
    <3>1. /\ pc'[r] = "done" /\ reply'[r].status = 200
          /\ reply'[r].next = NextPage(c, total, Cardinality(items))
      BY <1>0, <2>2 DEF TypeOK, AnswerPage, Answer, Goto
    <3>2. reply'[r].next # {} => Limit(c) > 0 /\ reply'[r].next = {Page(c) + 1}
      BY <3>1 DEF NextPage
    <3> QED
      BY <1>1, <3>1, <3>2 DEF Linking
  <2> QED
    BY <1>2, <2>1, <2>2
<1>6. ASSUME walk[r].quiet
      PROVE  (Underway(r) /\ Listed(r))'
  <2>1. /\ walk[r].whole => Seen(r, Before(c, ids))
        /\ pc[r] = "count" => found[r].items = Scan(User(r), page)
    BY <1>1, <1>6 DEF Paging, Underway
  <2>2. CASE FetchPage(r) /\ Goto(r, "count") /\ UNCHANGED <<reply, walk>>
    <3>1. /\ pc'[r] = "count" /\ call'[r] = c
          /\ User(r)' = User(r) /\ ids' = ids /\ Readable(User(r))' = Readable(User(r))
          /\ Scan(User(r), page)' = Scan(User(r), page)
      BY <1>0, <1>1, <2>2 DEF TypeOK, Goto, User, Visible, Stored, Readable, Scan, Window
    <3>2. found'[r].items = Scan(User(r), page)
      BY <1>0, <2>2 DEF TypeOK, FetchPage, User
    <3>3. walk'[r].whole => Seen(r, Before(c, ids))'
      BY <1>1, <2>1, <2>2, <3>1 DEF Seen, Before
    <3> QED
      BY <3>1, <3>2, <3>3 DEF Underway, Listed
  <2>3. CASE \E shown, n, b : AnswerPage(r, shown, n, b)
    <3>1. pc'[r] = "done"
      BY <1>0, <2>3 DEF TypeOK, AnswerPage, Answer, Goto
    <3>2. Listed(r)'
      <4>1. CASE FetchPage(r) /\ AnswerPage(r, Scan(User(r), page), {}, "none")
        BY <1>0, <1>1, <2>1, <4>1, PageListed
      <4>2. CASE /\ FetchPage(r)
                 /\ ShortPage(c, Cardinality(page))
                 /\ AnswerPage(r, Scan(User(r), page), {Offset(c) + Cardinality(page)}, "inferred")
        <5>1. found'[r].scanned = Cardinality(page)
          BY <1>0, <4>2 DEF TypeOK, FetchPage, User
        <5> QED
          BY <1>0, <1>1, <2>1, <4>2, <5>1, PageListed
      <4>3. CASE Count(r)
        <5>1. AnswerPage(r, Scan(User(r), page), {Cardinality(ids)}, "counted")
          BY <2>1, <4>3 DEF Count
        <5> QED
          BY <1>0, <1>1, <2>1, <5>1, PageListed
      <4>4. CASE Estimate(r)
        <5>1. PICK n \in 0..MaxEstimate :
                AnswerPage(r, Scan(User(r), page), {n}, "estimated")
          BY <2>1, <4>4 DEF Estimate
        <5> QED
          BY <1>0, <1>1, <2>1, <5>1, PageListed
      <4>5. CASE FetchPage(r) /\ Goto(r, "count")
        BY <1>0, <3>1, <4>5 DEF TypeOK, Goto
      <4> QED
        BY <4>1, <4>2, <4>3, <4>4, <4>5 DEF FetchPage, User
    <3> QED
      BY <3>1, <3>2 DEF Underway
  <2> QED
    BY <1>2, <2>2, <2>3
<1> QED
  BY <1>3, <1>4, <1>5, <1>6 DEF Paging

\* A link goes on with the listing where it is.
LEMMA LinkStep ==
    ASSUME IInv, NEW r \in Reqs, Paging(r), FollowNext(r)
    PROVE  Paging(r)'
<1> DEFINE c == call[r]
           d == Linked(c, Page(c) + 1)
           ids == Visible(User(r))
<1>0. Assumed /\ TypeOK /\ CrudAssumption /\ c \in Call
  BY Assumptions DEF IInv, TypeOK, Assumed
<1>1. /\ c.op = "getAll" /\ pc[r] = "done" /\ reply[r].status = 200 /\ Limit(c) > 0
      /\ reply[r].next = {Page(c) + 1}
  BY DEF FollowNext, Paging, Linking
<1>2. call'[r] = d
  BY <1>0, <1>1 DEF TypeOK, FollowNext, Linked
<1>3. /\ d \in Call /\ d.op = c.op /\ d.user = c.user
      /\ Limit(d) = Limit(c) /\ Offset(d) <= Offset(c) + Limit(c)
  BY <1>0, <1>1, LinkMeets
<1> HIDE DEF d
<1>4. /\ pc'[r] = "list" /\ reply'[r] = NoReply /\ walk' = walk /\ rows' = rows
  BY <1>0 DEF TypeOK, FollowNext, Goto, NoWrite
<1>5. /\ User(r)' = User(r) /\ ids' = ids
      /\ Readable(User(r))' = Readable(User(r)) /\ ids \in SUBSET Ids
  BY <1>2, <1>3, <1>4, Keys DEF User, Visible, Stored, Readable
<1>6. Before(d, ids) \subseteq Through(c, ids)
  <2>1. \A i \in ids : Position(i, ids) \in Int
    BY <1>0, <1>5, InOrder, Finite
  <2>2. Offset(c) \in Int /\ Offset(d) \in Int /\ Limit(c) \in Int
    BY <1>0, <1>3, Numbers
  <2> HIDE DEF ids, c
  <2> QED
    BY <1>3, <2>1, <2>2 DEF Before, Through
<1>7. ASSUME walk[r].quiet, walk[r].whole
      PROVE  Seen(r, Before(call[r], Visible(User(r))))'
  <2>1. Seen(r, Through(c, ids))
    BY <1>1, <1>7 DEF Paging, Listed
  <2>2. Seen(r, Before(d, ids))
    BY <1>6, <2>1 DEF Seen
  <2>3. Before(call[r], Visible(User(r)))' = Before(d, ids)
    BY <1>2, <1>5
  <2> QED
    BY <1>4, <1>5, <2>2, <2>3 DEF Seen
<1> QED
  BY <1>2, <1>4, <1>5, <1>7 DEF Paging, Linking, Underway, Listed, NoReply

\* A call starts with nothing seen, at its own page.
LEMMA SubmitStep ==
    ASSUME IInv, NEW r \in Reqs, Submit(r)
    PROVE  Paging(r)'
<1>0. Assumed /\ TypeOK /\ CrudAssumption
  BY Assumptions DEF IInv, Assumed
<1>1. PICK c \in Calls : /\ call' = [call EXCEPT ![r] = c]
                         /\ Goto(r, FirstStep(c.op))
                         /\ walk' = [walk EXCEPT ![r] = [seen |-> {}, quiet |-> TRUE,
                                        whole |-> c.page <= 1, guessed |-> FALSE]]
  BY DEF Submit
<1>2. c \in Call /\ call'[r] = c /\ pc'[r] = FirstStep(c.op) /\ rows' = rows
  BY <1>0, <1>1 DEF CrudAssumption, TypeOK, Goto, Submit
<1>3. reply'[r] = NoReply
  BY <1>0 DEF TypeOK, Submit
<1>4. CASE c.op # "getAll"
  BY <1>2, <1>3, <1>4, NoPage DEF NoReply
<1>5. CASE c.op = "getAll"
  <2>1. pc'[r] = "list"
    BY <1>2, <1>5 DEF FirstStep
  <2>2. ASSUME walk'[r].whole
        PROVE  Seen(r, Before(call[r], Visible(User(r))))'
    <3>1. c.page <= 1 /\ walk'[r].seen = {}
      BY <1>0, <1>1, <2>2 DEF TypeOK
    <3>2. Visible(User(r))' \in SUBSET Ids
      BY DEF Visible, Stored
    <3>3. Before(call[r], Visible(User(r)))' = {}
      BY <1>0, <1>2, <3>1, <3>2, NoneBefore
    <3> QED
      BY <3>1, <3>3 DEF Seen
  <2> QED
    BY <1>2, <1>3, <1>5, <2>1, <2>2 DEF Paging, Linking, Underway, Listed, NoReply
<1> QED
  BY <1>4, <1>5

\* Every step of a request keeps its listing as it should be.
LEMMA OwnStep ==
    ASSUME IInv, NEW r \in Reqs, Paging(r), Step(r)
    PROVE  Paging(r)'
<1>0. TypeOK /\ Lawful(r)
  BY DEF IInv
<1>1. CASE Reject(r) \/ Fail(r) \/ RefuseIdentifier(r) \/ OffsetTooLarge(r)
  <2>1. PICK e : Answer(r, Status(HandleError(e)))
    BY <1>1 DEF Reject, Fail, RefuseIdentifier, OffsetTooLarge
  <2>2. PICK code \in {400, 404, 500} : pc'[r] = "done" /\ reply'[r] = Status(code)
    BY <1>0, <2>1, Handled DEF TypeOK, Answer, Goto
  <2>3. /\ reply'[r].next = {} /\ reply'[r].basis = "none" /\ reply'[r].status # 200
    BY <2>2, Statuses
  <2> QED
    BY <2>2, <2>3, NoPage
<1>2. CASE CheckCall(r) \/ Execute(r) \/ Written(r) \/ Reread(r) \/ Get(r)
  <2>1. call' = call /\ call[r].op # "getAll"
    BY <1>0, <1>2 DEF CheckCall, Execute, Written, Reread, Get, Lawful, Staged, Writing, Paging
  <2>2. /\ \A s : Status(s).next = {} /\ Status(s).basis = "none"
        /\ \A s, shown : /\ [Status(s) EXCEPT !.items = shown].next = {}
                         /\ [Status(s) EXCEPT !.items = shown].basis = "none"
    BY DEF Status, NoReply
  <2>3. \/ UNCHANGED reply /\ pc[r] # "done"
        \/ \E s : Answer(r, Status(s))
        \/ \E s, shown : Answer(r, [Status(s) EXCEPT !.items = shown])
    <3>1. CASE CheckCall(r)
      BY <3>1 DEF CheckCall
    <3>2. CASE Execute(r)
      BY <3>2 DEF Execute
    <3>3. CASE Written(r)
      BY <3>3 DEF Written
    <3>4. CASE Reread(r)
      BY <3>4 DEF Reread
    <3>5. CASE Get(r)
      BY <3>5 DEF Get
    <3> QED
      BY <1>2, <3>1, <3>2, <3>3, <3>4, <3>5
  <2>4. \A rep : Answer(r, rep) => reply'[r] = rep
    BY <1>0 DEF TypeOK, Answer
  <2>5. reply'[r].next = {} /\ reply'[r].basis = "none"
    <3>1. CASE UNCHANGED reply /\ pc[r] # "done"
      BY <1>0, <3>1 DEF Lawful, Staged, NoReply
    <3>2. CASE \E s : Answer(r, Status(s))
      BY <2>2, <2>4, <3>2
    <3>3. CASE \E s, shown : Answer(r, [Status(s) EXCEPT !.items = shown])
      <4>1. PICK s, shown : Answer(r, [Status(s) EXCEPT !.items = shown])
        BY <3>3
      <4>2. reply'[r] = [Status(s) EXCEPT !.items = shown]
        BY <2>4, <4>1
      <4> QED
        BY <2>2, <4>2
    <3> QED
      BY <2>3, <3>1, <3>2, <3>3
  <2> QED
    BY <2>1, <2>5, NoPage
<1>3. CASE FetchPage(r) \/ Count(r) \/ Estimate(r)
  BY <1>3, PageStep
<1> QED
  BY <1>1, <1>2, <1>3, SubmitStep, LinkStep DEF Step

\* The invariant: every listing is as it should be.
LEMMA PagesInvariance == Spec => []PagesInv
<1>1. Init => PagesInv
  BY DEF Init, PagesInv, Paging, Linking, Underway, Listed, NoReply
<1>2. IInv /\ PagesInv /\ [Next]_vars => PagesInv'
  <2> SUFFICES ASSUME IInv, PagesInv, [Next]_vars, NEW q \in Reqs
               PROVE  Paging(q)'
    BY DEF PagesInv
  <2>0. Paging(q) /\ TypeOK
    BY DEF PagesInv, IInv
  <2>1. CASE UNCHANGED vars
    BY <2>0, <2>1, Undisturbed DEF vars
  <2>2. CASE Next
    <3>1. PICK r \in Reqs : Step(r)
      BY <2>2 DEF Next, Step
    <3>2. CASE q = r
      BY <2>0, <3>1, <3>2, OwnStep
    <3>3. CASE q # r
      <4>1. /\ pc'[q] = pc[q] /\ call'[q] = call[q] /\ found'[q] = found[q]
            /\ reply'[q] = reply[q]
        BY <2>0, <3>1, <3>3, Apart
      <4>2. walk'[q].quiet => rows' = rows /\ walk'[q] = walk[q]
        BY <2>0, <3>1, <3>3, OthersStep
      <4> QED
        BY <2>0, <4>1, <4>2, Undisturbed
    <3> QED
      BY <3>2, <3>3
  <2> QED
    BY <2>1, <2>2
<1> QED
  BY <1>1, <1>2, Invariance, PTL DEF Spec

\* While the table stays as it is, whoever follows the links of a listing from
\* its first page to its last sees every row the caller may read and no other,
\* for every limit, scope and CheckRead, and however many requests run: no link
\* leaves a gap between two pages, and none is missing before the last row.
THEOREM WalksComplete == Spec => []WalkComplete
<1>1. PagesInv => WalkComplete
  <2> SUFFICES ASSUME PagesInv, NEW r \in Reqs,
                      Quiet(r), call[r].op = "getAll", reply[r].next = {},
                      walk[r].whole, ~walk[r].guessed
               PROVE  \/ walk[r].seen = Readable(User(r))
                      \/ reply[r].total = {} /\ Readable(User(r)) # Visible(User(r))
    BY DEF WalkComplete, Readable
  <2>1. Listed(r) /\ pc[r] = "done" /\ reply[r].status = 200
    BY DEF PagesInv, Paging, Quiet
  <2>2. CASE Visible(User(r)) \subseteq Through(call[r], Visible(User(r)))
    <3>1. Seen(r, Through(call[r], Visible(User(r))))
      BY <2>1 DEF Listed
    <3> QED
      BY <2>2, <3>1, Keys DEF Seen
  <2> QED
    BY <2>1, <2>2 DEF Listed
<1> QED
  BY <1>1, PagesInvariance, PTL

\* While the table stays as it is, a total that is counted, or inferred from a
\* page that is not full, is the number of rows in the caller's scope, but for
\* a page beyond the end.
THEOREM TotalsExact == Spec => []TotalIsExact
<1>1. PagesInv => TotalIsExact
  BY DEF PagesInv, Paging, Linking, Listed, TotalIsExact, Quiet
<1> QED
  BY <1>1, PagesInvariance, PTL

=============================================================================
