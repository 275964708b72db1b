------------------------------- MODULE Serving -------------------------------
(***************************************************************************)
(* The running server of gorest.go: requests that share the connection     *)
(* pool with each other and with the token cleanup, and the shutdown.      *)
(*                                                                         *)
(* A request reads rows that hold a connection until they are closed;      *)
(* CheckRead runs between two rows, and a hook that queries asks for a     *)
(* second connection meanwhile.  pgxpool serves who waits in order,        *)
(* database/sql gives a connection to any of them.  When it is closed,     *)
(* database/sql refuses who waits at once and does not wait for who reads; *)
(* pgxpool waits until every connection is back, and refuses a waiter only *)
(* when one is.                                                            *)
(***************************************************************************)
EXTENDS Naturals, FiniteSets, SequencesExt

CONSTANTS
    Requests,
    Sweep,      \* the goroutine that deletes expired tokens
    Conns,      \* the connections the pool may open: MaxOpen of them
    None,
    Querying,   \* the requests whose CheckRead may query
    Rows        \* the most rows of a result

Users == Requests \cup {Sweep}

ASSUME ServingAssumption ==
    /\ IsFiniteSet(Conns) /\ Conns # {}
    /\ IsFiniteSet(Requests) /\ Querying \subseteq Requests
    /\ Sweep \notin Requests /\ None \notin Users
    /\ Rows \in Nat

VARIABLES
    driver,     \* "pgx" or "sql"
    hooked,     \* the requests whose CheckRead does query
    owner,      \* who has each connection
    queue,      \* who waits for one
    pc,         \* where each user is
    left,       \* the rows a request has still to read
    stage,      \* where main() is
    listening,
    closed,     \* the pool is
    forced      \* the 30 seconds for the requests have passed

pool == <<owner, queue, closed>>
main == <<stage, listening, forced>>
chosen == <<driver, hooked>>
vars == <<driver, hooked, owner, queue, pc, left, stage, listening, closed, forced>>

Init ==
    /\ driver \in {"pgx", "sql"} /\ hooked \in SUBSET Querying
    /\ owner = [c \in Conns |-> None]
    /\ queue = <<>>
    /\ pc = [u \in Users |-> IF u = Sweep THEN "idle" ELSE "away"]
    /\ left = [p \in Requests |-> 0]
    /\ stage = "serving" /\ listening = FALSE
    /\ closed = FALSE /\ forced = FALSE

Running == stage # "exited"
Free == {c \in Conns : owner[c] = None}
Owns(u) == {c \in Conns : owner[c] = u}
Waits(u) == pc[u] \in {"asks", "hook", "further"}
Ended(p) == pc[p] \in {"answered", "failed", "refused"}
-----------------------------------------------------------------------------
(* The pool                                                                *)

Goto(u, place) == pc' = [pc EXCEPT ![u] = place]

Ask(u, place) == queue' = Append(queue, u) /\ Goto(u, place)

\* Every connection of u goes back.
Return(u) == owner' = [c \in Conns |-> IF owner[c] = u THEN None ELSE owner[c]]

\* One of those connections; nobody can tell which.
One(conns) == CHOOSE c \in conns : TRUE

\* Whose turn it is, by the places in the queue.
Turns == IF driver = "pgx" THEN DOMAIN queue \cap {1} ELSE DOMAIN queue

\* One who waits has its connection.
Serve ==
    /\ Running /\ ~closed
    /\ Free # {}
    /\ \E i \in Turns :
          /\ owner' = [owner EXCEPT ![One(Free)] = queue[i]]
          /\ \E place \in {"rows", "nested", "last"} :
                /\ pc[queue[i]] = CASE place = "rows" -> "asks"
                                     [] place = "nested" -> "hook"
                                     [] place = "last" -> "further"
                /\ Goto(queue[i], place)
          /\ queue' = RemoveAt(queue, i)
    /\ UNCHANGED <<chosen, closed, left, main>>

\* The pool is closed.  A hook whose query fails refuses its row.
Refuse ==
    /\ Running /\ closed
    /\ driver = "sql" \/ Free # {}
    /\ \E i \in Turns :
          /\ Goto(queue[i], CASE pc[queue[i]] = "hook" -> "rows"
                               [] queue[i] = Sweep -> "idle"
                               [] OTHER -> "refused")
          /\ queue' = RemoveAt(queue, i)
    /\ UNCHANGED <<chosen, owner, closed, left, main>>
-----------------------------------------------------------------------------
(* Requests and the cleanup                                                *)

Arrive(p) ==
    /\ stage = "serving" /\ listening /\ pc[p] = "away"
    /\ Ask(p, "asks")
    /\ left' \in {[left EXCEPT ![p] = n] : n \in 0..Rows}
    /\ UNCHANGED <<chosen, owner, closed, main>>

\* rows.Next and CheckRead: the next row waits for the hook.
NextRow(p) ==
    /\ Running /\ pc[p] = "rows" /\ left[p] > 0
    /\ left' = [left EXCEPT ![p] = @ - 1]
    /\ \/ p \in hooked /\ Ask(p, "hook")
       \/ p \notin hooked /\ UNCHANGED <<queue, pc>>
    /\ UNCHANGED <<chosen, owner, closed, main>>

\* Mutant of HookDone: the hook's rows are not closed.
BugHookKeeps(p) ==
    /\ Running /\ pc[p] = "nested"
    /\ Goto(p, "rows")
    /\ UNCHANGED <<chosen, pool, left, main>>

\* The hook has its answer: one of the two connections goes back.
HookDone(p) ==
    /\ Running /\ pc[p] = "nested"
    /\ owner' = [owner EXCEPT ![One(Owns(p))] = None]
    /\ Goto(p, "rows")
    /\ UNCHANGED <<chosen, queue, closed, left, main>>

\* Mutant of RowsDone: the count is taken while the rows are open.
BugCountFirst(p) ==
    /\ Running /\ pc[p] = "rows" /\ left[p] = 0
    /\ Ask(p, "further")
    /\ UNCHANGED <<chosen, owner, closed, left, main>>

\* The last row closes the rows; the count of a page, or what the hooks after
\* the query ask, is a statement of its own.
RowsDone(p) ==
    /\ Running /\ pc[p] = "rows" /\ left[p] = 0
    /\ Return(p)
    /\ \/ Ask(p, "further")
       \/ Goto(p, "answered") /\ UNCHANGED queue
    /\ UNCHANGED <<chosen, closed, left, main>>

\* Mutant of Abort: no deferred rows.Close().
BugLeak(p) ==
    /\ Running /\ pc[p] \in {"rows", "last"}
    /\ Goto(p, "failed")
    /\ UNCHANGED <<chosen, pool, left, main>>

\* A row that cannot be scanned, a hook that refuses or panics: the deferred
\* Close returns the connection and the recover middleware answers.
Abort(p) ==
    /\ Running /\ pc[p] \in {"rows", "last"}
    /\ Return(p) /\ Goto(p, "failed")
    /\ UNCHANGED <<chosen, queue, closed, left, main>>

LastDone(p) ==
    /\ Running /\ pc[p] = "last"
    /\ Return(p) /\ Goto(p, "answered")
    /\ UNCHANGED <<chosen, queue, closed, left, main>>

Tick ==
    /\ Running /\ pc[Sweep] = "idle"
    /\ Ask(Sweep, "asks")
    /\ UNCHANGED <<chosen, owner, closed, left, main>>

Swept ==
    /\ Running /\ pc[Sweep] = "rows"
    /\ Return(Sweep) /\ Goto(Sweep, "idle")
    /\ UNCHANGED <<chosen, queue, closed, left, main>>
-----------------------------------------------------------------------------
(* main()                                                                  *)

\* The goroutine that listens; when it cannot, it ends the process.
Listen ==
    /\ stage = "serving" /\ ~listening
    /\ \/ listening' = TRUE /\ UNCHANGED stage
       \/ stage' = "exited" /\ UNCHANGED listening
    /\ UNCHANGED <<chosen, pool, pc, left, forced>>

\* SIGINT or SIGTERM: no connection is accepted from here on.
Signal ==
    /\ stage = "serving" /\ stage' = "draining"
    /\ UNCHANGED <<chosen, pool, pc, left, listening, forced>>

\* Mutant of Drained: db.Close() without ShutdownWithContext.
BugNoDrain ==
    /\ stage = "draining" /\ stage' = "closing" /\ closed' = TRUE
    /\ UNCHANGED <<chosen, owner, queue, pc, left, listening, forced>>

\* ShutdownWithContext returns when no request is left ...
Drained ==
    /\ stage = "draining" /\ \A p \in Requests : pc[p] = "away" \/ Ended(p)
    /\ stage' = "closing" /\ closed' = TRUE
    /\ UNCHANGED <<chosen, owner, queue, pc, left, listening, forced>>

\* Mutant of TimedOut: a context without the 30 seconds.
BugPatient == FALSE /\ UNCHANGED vars

\* ... or after 30 seconds; the requests go on.
TimedOut ==
    /\ stage = "draining" /\ \E p \in Requests : pc[p] # "away" /\ ~Ended(p)
    /\ stage' = "closing" /\ closed' = TRUE /\ forced' = TRUE
    /\ UNCHANGED <<chosen, owner, queue, pc, left, listening>>

\* db.Close() has returned.  The cleanup is stopped by a deferred call only
\* now, and whatever still runs ends with the process.
Exit ==
    /\ stage = "closing" /\ (driver = "sql" \/ Free = Conns)
    /\ stage' = "exited"
    /\ UNCHANGED <<chosen, pool, pc, left, listening, forced>>
-----------------------------------------------------------------------------
Handle(p) == NextRow(p) \/ HookDone(p) \/ RowsDone(p) \/ Abort(p) \/ LastDone(p)

Next ==
    \/ Serve \/ Refuse
    \/ \E p \in Requests : Arrive(p) \/ Handle(p)
    \/ Tick \/ Swept
    \/ Listen \/ Signal \/ Drained \/ TimedOut \/ Exit

\* Statements end, the pool serves somebody while it can, handlers that can go
\* on do, the timer fires and main() runs.  No request, tick or signal has to
\* come.
Fairness ==
    /\ WF_vars(Serve) /\ WF_vars(Refuse)
    /\ \A p \in Requests : WF_vars(Handle(p))
    /\ WF_vars(Swept)
    /\ WF_vars(Drained \/ TimedOut) /\ WF_vars(Exit)

Spec == Init /\ [][Next]_vars
FairSpec == Spec /\ Fairness
-----------------------------------------------------------------------------
(* Properties.                                                             *)

Places == {"idle", "away", "asks", "rows", "hook", "nested", "further", "last",
           "answered", "failed", "refused"}

TypeOK ==
    /\ driver \in {"pgx", "sql"} /\ hooked \subseteq Querying
    /\ owner \in [Conns -> Users \cup {None}]
    /\ queue \in Seq(Users)
    /\ pc \in [Users -> Places]
    /\ left \in [Requests -> 0..Rows]
    /\ stage \in {"serving", "draining", "closing", "exited"}
    /\ listening \in BOOLEAN /\ closed \in BOOLEAN /\ forced \in BOOLEAN

\* Hooks that query cannot take every connection at once.
FewHooks == Cardinality(hooked) < Cardinality(Conns)

\* With fewer requests whose hooks query than connections, the pool is never
\* exhausted by requests that all wait for another connection.  With as many
\* it can be, and then nothing ever gets one again.
NoGridlock ==
    FewHooks /\ Free = {} => \E c \in Conns : ~Waits(owner[c])

\* A request that was accepted before the signal loses its database only when
\* it took longer than the 30 seconds.
RefusedOnlyWhenForced ==
    (\E p \in Requests : pc[p] = "refused") => forced

\* A handler that has ended holds no connection, one that reads holds one, and
\* one whose hook reads two: nothing leaks, whichever way it ended.
NothingLeaks ==
    \A u \in Users :
        Cardinality(Owns(u)) = CASE pc[u] \in {"rows", "hook", "last"} -> 1
                                 [] pc[u] = "nested" -> 2
                                 [] OTHER -> 0

\* Every request that was accepted ends, unless the server was forced down.
\* With database/sql, which gives a connection to whichever waiter it likes, a
\* request can also be passed over for ever, but only while others are served
\* for ever: here the cleanup, which alone comes back.
EveryRequestEnds ==
    <>[](driver = "sql" => pc[Sweep] # "rows")
        => \A p \in Requests : (FewHooks /\ pc[p] = "asks") ~> (Ended(p) \/ forced)

\* A signal ends the process, though requests may be stuck for ever: with
\* pgxpool only while hooks that query are few, as its Close waits for them.
ShutdownEnds ==
    (stage = "draining" /\ (driver = "sql" \/ FewHooks)) ~> (stage = "exited")
=============================================================================
