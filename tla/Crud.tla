-------------------------------- MODULE Crud --------------------------------
(***************************************************************************)
(* One generated resource: the five handlers of processor.go, the CRUD     *)
(* calls below them with the hooks around every statement, and the links   *)
(* a listing answers with.  Requests run concurrently over one table; a    *)
(* step is at most one statement, and nothing spans two of them.           *)
(*                                                                         *)
(* Hooks are the application's (external): what they decide by is a        *)
(* constant, and any of them may fail.  The key is not among Fields; its   *)
(* zero value 0 also stands for an identifier that cannot be parsed.       *)
(***************************************************************************)
EXTENDS Rbac, Integers, FiniteSets

CONSTANTS
    MaxId,             \* bound: keys are 1..MaxId
    Reqs,              \* requests in flight, and the clients behind them
    MaxCalls,          \* bound: calls submitted, links followed apart
    Calls,             \* the calls clients make
    Tables,            \* what the table may hold at first
    NoRow,
    InsertFields,      \* columns an INSERT sets: not created_at, updated_at
    UpdateFields,      \* columns an UPDATE sets: not created_at
    Default,           \* what the database puts in the others
    MayRead(_, _),     \* what an overridden CheckRead asks of user and row
    InScope(_, _),     \* the condition Modify...Query adds for a user
    Scoped,            \* users it adds one for
    Enriched(_),       \* what StateProcessor may make of a model
    DefaultLimit, MaxLimit, MaxPage,  \* of the page query parameters
    MaxOffset,         \* MaxOffsetValue of the query builder
    CountMode,         \* "exact", "estimate" or "none"
    MaxEstimate        \* bound: what table statistics say

Ids == 1..MaxId
Table == [Ids -> Row \cup {NoRow}]

Ops == {"create", "getAll", "getByID", "getByIDs", "update", "delete"}

\* A call.  limit and page are the numbers in the query string, negative when
\* absent or not a number; id 0 in a create leaves the key to the database.
Call == [op : Ops, user : Users, id : Ids \cup {0}, ids : SUBSET Ids, body : Row,
         limit : Int, page : Int, count : BOOLEAN]

ASSUME CrudAssumption ==
    /\ MaxId \in Nat
    /\ Calls \subseteq Call /\ Calls # {}
    /\ Tables \subseteq Table
    /\ NoRow \notin Row
    /\ InsertFields \subseteq Fields /\ UpdateFields \subseteq Fields
    /\ Default \in Row
    /\ \A u \in Users, row \in Row : /\ MayRead(u, row) \in BOOLEAN
                                     /\ InScope(u, row) \in BOOLEAN
                                     /\ u \notin Scoped => InScope(u, row)
    /\ \A row \in Row : Enriched(row) \subseteq Row
    /\ {MaxCalls, MaxEstimate, MaxOffset} \subseteq Nat
    /\ {DefaultLimit, MaxLimit, MaxPage} \subseteq Nat \ {0}
    /\ CountMode \in {"exact", "estimate", "none"}

VARIABLES
    rows,    \* the table
    pc,      \* where each request is
    call,    \* what it asks for
    draft,   \* the copy of the model CRUD writes, after the hooks
    found,   \* what the page query found
    reply,   \* the answer
    calls,   \* calls submitted so far
    wrote,   \* history: keys the call inserted, changed or removed
    walk     \* history: what a client saw that follows the links of a listing

vars == <<rows, pc, call, draft, found, reply, calls, wrote, walk>>

Pcs == {"idle", "check", "write", "after", "reread", "get", "list", "count", "done"}

Item == [key : Ids \cup {0}, row : Row]

\* total and next hold at most one number: none is a nil pointer.  basis is
\* how the total was come by.
Reply == [status : {0, 200, 201, 204, 400, 404, 500}, items : SUBSET Item,
          total : SUBSET Nat, next : SUBSET Nat,
          basis : {"none", "inferred", "counted", "estimated"}]

Walk == [seen : SUBSET (Ids \cup {0}), quiet : BOOLEAN, whole : BOOLEAN, guessed : BOOLEAN]

TypeOK == /\ rows \in Table
          /\ pc \in [Reqs -> Pcs]
          /\ call \in [Reqs -> Call]
          /\ draft \in [Reqs -> Row]
          /\ found \in [Reqs -> [items : SUBSET Item, scanned : Nat]]
          /\ reply \in [Reqs -> Reply]
          /\ calls \in Nat
          /\ wrote \in [Reqs -> SUBSET Ids]
          /\ walk \in [Reqs -> Walk]

Blank == [f \in Fields |-> Zero]
NothingFound == [items |-> {}, scanned |-> 0]
NoReply == [status |-> 0, items |-> {}, total |-> {}, next |-> {}, basis |-> "none"]
Status(s) == [NoReply EXCEPT !.status = s]

Init == /\ rows \in Tables
        /\ pc = [r \in Reqs |-> "idle"]
        /\ call \in [Reqs -> {CHOOSE c \in Calls : TRUE}]
        /\ draft = [r \in Reqs |-> Blank]
        /\ found = [r \in Reqs |-> NothingFound]
        /\ reply = [r \in Reqs |-> NoReply]
        /\ calls = 0
        /\ wrote = [r \in Reqs |-> {}]
        /\ walk = [r \in Reqs |-> [seen |-> {}, quiet |-> TRUE, whole |-> FALSE,
                                 guessed |-> FALSE]]

-----------------------------------------------------------------------------
(* Shared by the operations                                                *)

User(r) == call[r].user

Stored == {i \in Ids : rows[i] # NoRow}
Visible(u) == {i \in Stored : InScope(u, rows[i])}

CheckRead(u, row) == DefaultCheck(u) /\ MayRead(u, row)

\* scanRows: rows CheckRead refuses are dropped, the others filtered.
Scan(u, ids) ==
    {[key |-> i, row |-> FilterRead(u, rows[i])] : i \in {j \in ids : CheckRead(u, rows[j])}}

Goto(r, label) == pc' = [pc EXCEPT ![r] = label]

Answer(r, rep) == Goto(r, "done") /\ reply' = [reply EXCEPT ![r] = rep]

\* The table is left alone.
NoWrite == UNCHANGED <<rows, wrote>>

\* A statement of r that leaves the table as given.
Write(r, table) ==
    /\ rows' = table
    /\ wrote' = [wrote EXCEPT ![r] = @ \cup {i \in Ids : table[i] # rows[i]}]
    /\ walk' = [q \in Reqs |-> [walk[q] EXCEPT !.quiet = @ /\ table = rows]]

\* HandleError: the status of an error of CRUD.  A refused authorisation is
\* none of the errors it knows and ends as any other.  A hook that names its
\* own status, by a fiber.Error, answers for it: hooks here fail plainly.
HandleError(error) == CASE error = "bad_request" -> 400
                        [] error = "not_found" -> 404
                        [] OTHER -> 500

FirstStep(op) == CASE op \in {"create", "update", "delete"} -> "check"
                   [] op = "getAll" -> "list"
                   [] OTHER -> "get"

\* A request arrives with its parameters; model and key are read from it.
Submit(r) ==
    /\ pc[r] \in {"idle", "done"}
    /\ calls < MaxCalls
    /\ calls' = calls + 1
    /\ \E c \in Calls :
          /\ call' = [call EXCEPT ![r] = c]
          /\ Goto(r, FirstStep(c.op))
          /\ walk' = [walk EXCEPT ![r] = [seen |-> {}, quiet |-> TRUE,
                                          whole |-> c.page <= 1, guessed |-> FALSE]]
    /\ draft' = [draft EXCEPT ![r] = Blank]
    /\ found' = [found EXCEPT ![r] = NothingFound]
    /\ reply' = [reply EXCEPT ![r] = NoReply]
    /\ wrote' = [wrote EXCEPT ![r] = {}]
    /\ UNCHANGED rows

\* The body or the filters do not parse, or the application's validation
\* refuses them.
Reject(r) ==
    /\ pc[r] \in {"check", "list"}
    /\ call[r].op # "delete"
    /\ Answer(r, Status(HandleError("bad_request")))
    /\ NoWrite /\ UNCHANGED <<call, draft, found, calls, walk>>

\* A hook or a statement fails without effect.  After a write, this is
\* AfterQuery or SerializeOne: what was written stays.
Fail(r) ==
    /\ pc[r] \in {"check", "write", "after", "get", "list", "count"}
    /\ Answer(r, Status(HandleError("failure")))
    /\ NoWrite /\ UNCHANGED <<call, draft, found, calls, walk>>

\* The driver refuses an identifier the statement carries: one in the path is
\* answered as checkID would, one in a body or a filter as a bad request.
RefuseIdentifier(r) ==
    /\ pc[r] \in {"write", "get", "list"}
    /\ Answer(r, Status(HandleError(IF call[r].op \in {"create", "getAll"} THEN "bad_request"
                                    ELSE "not_found")))
    /\ NoWrite /\ UNCHANGED <<call, draft, found, calls, walk>>

-----------------------------------------------------------------------------
(* Create, Update, Delete                                                  *)

BadId(c) == c.op \in {"update", "delete"} /\ c.id = 0

Authorized(c) == /\ c.op # "delete" => ValidateWrite(c.user, c.body)
                 /\ DefaultCheck(c.user)

\* checkID, ValidateWrite, CheckCreate and its kin, then StateProcessor, whose
\* changes to the model are not checked again.
CheckCall(r) ==
    /\ pc[r] = "check"
    /\ \/ /\ BadId(call[r])
          /\ Answer(r, Status(HandleError("not_found")))
          /\ UNCHANGED draft
       \/ /\ ~BadId(call[r]) /\ ~Authorized(call[r])
          /\ Answer(r, Status(HandleError("not_authorized")))
          /\ UNCHANGED draft
       \/ /\ ~BadId(call[r]) /\ Authorized(call[r])
          /\ \E m \in Enriched(call[r].body) : draft' = [draft EXCEPT ![r] = m]
          /\ Goto(r, "write")
          /\ UNCHANGED reply
    /\ NoWrite /\ UNCHANGED <<call, found, calls, walk>>

Inserted(m) == [f \in Fields |-> IF f \in InsertFields THEN m[f] ELSE Default[f]]

Updated(row, m) == [f \in Fields |-> IF f \in UpdateFields THEN m[f] ELSE row[f]]

\* Keys a create can get: the one in the model, or one the database draws.
FreeKeys(c) == {i \in Ids \ Stored : c.id \in {0, i}}

\* Mutant of Effects: a DELETE loses its condition on the key.
BugEffects(r) ==
    LET c == call[r] IN
    CASE c.op = "create" -> {[rows EXCEPT ![i] = Inserted(draft[r])] : i \in FreeKeys(c)}
      [] c.op = "update" -> {[i \in Ids |-> IF i = c.id /\ i \in Visible(c.user)
                                            THEN Updated(rows[i], draft[r]) ELSE rows[i]]}
      [] OTHER -> {[i \in Ids |-> IF i \in Visible(c.user) THEN NoRow ELSE rows[i]]}

\* What the statement may make of the table; nothing if it must fail.  An
\* UPDATE or a DELETE that addresses no row succeeds.
Effects(r) ==
    LET c == call[r] IN
    CASE c.op = "create" -> {[rows EXCEPT ![i] = Inserted(draft[r])] : i \in FreeKeys(c)}
      [] c.op = "update" -> {[i \in Ids |-> IF i = c.id /\ i \in Visible(c.user)
                                            THEN Updated(rows[i], draft[r]) ELSE rows[i]]}
      [] OTHER -> {[i \in Ids |-> IF i = c.id /\ i \in Visible(c.user)
                                  THEN NoRow ELSE rows[i]]}

\* The statement; or its effect without its answer, the connection being lost.
Execute(r) ==
    /\ pc[r] = "write"
    /\ \E table \in Effects(r) : Write(r, table)
    /\ \/ Goto(r, "after") /\ UNCHANGED reply
       \/ Answer(r, Status(HandleError("failure")))
    /\ UNCHANGED <<call, draft, found, calls>>

\* The handler's own copy of the model, which is not the one CRUD wrote.
Echo(r) == {[key |-> call[r].id, row |-> call[r].body]}

\* AfterQuery and SerializeOne passed.
Written(r) ==
    /\ pc[r] = "after"
    /\ \/ call[r].op = "create" /\ Goto(r, "reread") /\ UNCHANGED reply
       \/ call[r].op = "update" /\ Answer(r, [Status(200) EXCEPT !.items = Echo(r)])
       \/ call[r].op = "delete" /\ Answer(r, Status(204))
    /\ NoWrite /\ UNCHANGED <<call, draft, found, calls, walk>>

\* GetByID of the row just created, by the key in the handler's copy of the
\* model: zero unless it was in the call.  Any error is answered by that copy.
Reread(r) ==
    /\ pc[r] = "reread"
    /\ \E items \in {Echo(r), Scan(User(r), Visible(User(r)) \cap {call[r].id})} \ {{}} :
          Answer(r, [Status(201) EXCEPT !.items = items])
    /\ NoWrite /\ UNCHANGED <<call, draft, found, calls, walk>>

-----------------------------------------------------------------------------
(* Reads                                                                   *)

\* GetByID, and GetByIDs for the expansion of relations.  A row the caller may
\* not read is answered as one that is not there.
Get(r) ==
    /\ pc[r] = "get"
    /\ LET c == call[r]
           ids == IF c.op = "getByID" THEN {c.id} ELSE c.ids
           items == Scan(c.user, Visible(c.user) \cap ids) IN
       Answer(r, IF c.op = "getByID" /\ items = {} THEN Status(HandleError("not_found"))
                 ELSE [Status(200) EXCEPT !.items = items])
    /\ NoWrite /\ UNCHANGED <<call, draft, found, calls, walk>>

\* ParseIntQuery.
ParseInt(raw, default, max) ==
    IF raw < 0 THEN default ELSE IF raw > max THEN max ELSE raw

Limit(c) == ParseInt(c.limit, DefaultLimit, MaxLimit)

Page(c) == IF ParseInt(c.page, 1, MaxPage) < 1 THEN 1 ELSE ParseInt(c.page, 1, MaxPage)

Offset(c) == (Page(c) - 1) * Limit(c)

Position(i, ids) == Cardinality({j \in ids : j <= i})

\* ORDER BY the key, LIMIT and OFFSET; LIMIT 0 is left out.
Window(c, ids) ==
    {i \in ids : /\ Position(i, ids) > Offset(c)
                 /\ Limit(c) > 0 => Position(i, ids) <= Offset(c) + Limit(c)}

LastPage(total, limit) == (total + limit - 1) \div limit

\* Mutant of NextPage: the number of rows left is not rounded up to a page.
BugNextPage(c, total, items) ==
    LET more == IF total = {} THEN items >= Limit(c)
                ELSE \E n \in total : Page(c) < n \div Limit(c) IN
    IF Limit(c) > 0 /\ more THEN {Page(c) + 1} ELSE {}

\* setNavigation: the page hydra:next points to, none if it is left out.
\* items counts what is answered, after CheckRead.
NextPage(c, total, items) ==
    LET more == IF total = {} THEN items >= Limit(c)
                ELSE \E n \in total : Page(c) < LastPage(n, Limit(c)) IN
    IF Limit(c) > 0 /\ more THEN {Page(c) + 1} ELSE {}

\* SendHydraCollection.
AnswerPage(r, items, total, basis) ==
    /\ Answer(r, [status |-> 200, items |-> items, total |-> total, basis |-> basis,
                  next |-> NextPage(call[r], total, Cardinality(items))])
    /\ walk' = [walk EXCEPT ![r] =
                    [seen |-> @.seen \cup {i.key : i \in items}, quiet |-> @.quiet,
                     whole |-> @.whole, guessed |-> @.guessed \/ basis = "estimated"]]

\* A page that is not full is the last.
ShortPage(c, scanned) == Limit(c) = 0 \/ scanned < Limit(c)

\* The query builder refuses the offset.
OffsetTooLarge(r) ==
    /\ pc[r] = "list"
    /\ Offset(call[r]) > MaxOffset
    /\ Answer(r, Status(HandleError("failure")))
    /\ NoWrite /\ UNCHANGED <<call, draft, found, calls, walk>>

\* The page query and what countTotal decides without a statement of its own.
FetchPage(r) ==
    /\ pc[r] = "list"
    /\ Offset(call[r]) <= MaxOffset
    /\ LET c == call[r]
           page == Window(c, Visible(c.user))
           items == Scan(c.user, page)
           scanned == Cardinality(page)
           counts == c.count /\ CountMode # "none" IN
       /\ found' = [found EXCEPT ![r] = [items |-> items, scanned |-> scanned]]
       /\ \/ ~counts /\ AnswerPage(r, items, {}, "none")
          \/ /\ counts /\ ShortPage(c, scanned)
             /\ AnswerPage(r, items, {Offset(c) + scanned}, "inferred")
          \/ counts /\ ~ShortPage(c, scanned) /\ Goto(r, "count") /\ UNCHANGED <<reply, walk>>
    /\ NoWrite /\ UNCHANGED <<call, draft, calls>>

\* Mutant of Count: the table is counted instead of what the caller's scope
\* leaves of it.
BugCount(r) ==
    /\ pc[r] = "count"
    /\ AnswerPage(r, found[r].items, {Cardinality(Stored)}, "counted")
    /\ NoWrite /\ UNCHANGED <<call, draft, found, calls>>

\* exactTotal.
Count(r) ==
    /\ pc[r] = "count"
    /\ AnswerPage(r, found[r].items, {Cardinality(Visible(User(r)))}, "counted")
    /\ NoWrite /\ UNCHANGED <<call, draft, found, calls>>

\* estimateTotal: for a listing nothing narrows.  Statistics that are missing
\* leave it to Count.
Estimate(r) ==
    /\ pc[r] = "count"
    /\ CountMode = "estimate" /\ User(r) \notin Scoped
    /\ \E n \in 0..MaxEstimate : AnswerPage(r, found[r].items, {n}, "estimated")
    /\ NoWrite /\ UNCHANGED <<call, draft, found, calls>>

\* A client follows hydra:next.  The link names the limit unless it is the
\* default one, and the page.
FollowNext(r) ==
    /\ pc[r] = "done"
    /\ \E n \in reply[r].next :
          call' = [call EXCEPT ![r] =
                      [@ EXCEPT !.page = n,
                                !.limit = IF Limit(call[r]) = DefaultLimit THEN -1
                                          ELSE Limit(call[r])]]
    /\ Goto(r, "list")
    /\ found' = [found EXCEPT ![r] = NothingFound]
    /\ reply' = [reply EXCEPT ![r] = NoReply]
    /\ NoWrite /\ UNCHANGED <<draft, calls, walk>>

-----------------------------------------------------------------------------

Next == \E r \in Reqs :
           \/ Submit(r) \/ Reject(r) \/ Fail(r) \/ RefuseIdentifier(r)
           \/ CheckCall(r) \/ Execute(r) \/ Written(r) \/ Reread(r)
           \/ Get(r) \/ OffsetTooLarge(r) \/ FetchPage(r) \/ Count(r) \/ Estimate(r) \/ FollowNext(r)

Spec == Init /\ [][Next]_vars
-----------------------------------------------------------------------------
(* Properties                                                              *)

\* What no answer may carry: a value of a field the caller cannot read, unless
\* it is the caller's own, handed back by Create or Update.
NothingForbiddenServed ==
    \A r \in Reqs : \A i \in reply[r].items : \A f \in Fields :
        \/ i.row[f] = Zero
        \/ Reads(User(r), f)
        \/ call[r].op \in {"create", "update"} /\ i.row[f] = call[r].body[f]

\* What may happen to a field of a row that a statement of r touches.
ChangeAllowed(r, i, f) ==
    \/ rows'[i] = NoRow
    \/ rows[i] # NoRow /\ rows'[i][f] = rows[i][f]
    \/ Writes(User(r), f)
    \/ ~StrictValidation /\ rows'[i][f] = Zero
    \/ rows'[i][f] = draft[r][f] /\ draft[r][f] # call[r].body[f]
    \/ rows[i] = NoRow /\ f \notin InsertFields

\* A value gets into a column by the hands of someone who may write that
\* field, or of StateProcessor.  Without StrictValidation zero is no value: an
\* update erases what its caller left out.
OnlyWritersChange ==
    [][\A r \in Reqs : \A i \in wrote'[r] \ wrote[r] : \A f \in Fields :
          ChangeAllowed(r, i, f)]_vars

\* A 4xx answer is about a call that changed nothing, 201 about one that
\* stored its row, and no call reaches another row than the one it names.
EffectsMatchAnswers ==
    \A r \in Reqs :
        /\ reply[r].status \in {400, 404} => wrote[r] = {}
        /\ reply[r].status = 201 => Cardinality(wrote[r]) = 1
        /\ wrote[r] # {} => call[r].op \in {"create", "update", "delete"}
        /\ call[r].id # 0 => wrote[r] \subseteq {call[r].id}

Quiet(r) == pc[r] = "done" /\ reply[r].status = 200 /\ walk[r].quiet

\* While the table stays as it is, a client that follows hydra:next from the
\* first page to the last link sees every row it may read, and no other.  A
\* listing without a total only promises it when CheckRead withholds nothing,
\* one by estimates promises nothing.
WalkComplete ==
    \A r \in Reqs :
        LET u == User(r)
            readable == {i \in Visible(u) : CheckRead(u, rows[i])} IN
        /\ Quiet(r) /\ call[r].op = "getAll" /\ reply[r].next = {}
        /\ walk[r].whole /\ ~walk[r].guessed
        =>
            \/ walk[r].seen = readable
            \/ reply[r].total = {} /\ readable # Visible(u)

\* While the table stays as it is, a total that is not an estimate is the
\* number of rows the listing ranges over.  An empty page beyond the end is
\* taken for the last page and excepted here: its total is its offset.
TotalIsExact ==
    \A r \in Reqs :
        Quiet(r) /\ reply[r].basis \in {"inferred", "counted"} =>
            \/ reply[r].total = {Cardinality(Visible(User(r)))}
            \/ found[r].scanned = 0 /\ reply[r].total = {Offset(call[r])}
=============================================================================
