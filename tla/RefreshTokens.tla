--------------------------- MODULE RefreshTokens ---------------------------
(***************************************************************************)
(* The refresh-token store of auth/refresh/service.go together with the    *)
(* HTTP handlers of auth/handlers/auth.go that call it concurrently and    *)
(* the cleanup goroutine of auth/auth.go.                                  *)
(*                                                                         *)
(* One row of the refresh_tokens table is one element of Tokens: a token's *)
(* plaintext, its hash and its row id are drawn together, never repeat,    *)
(* and are therefore one model value.  A statement is atomic, and so is    *)
(* what a transaction makes visible when it commits; everything a handler  *)
(* does between two statements interleaves with the other handlers.        *)
(***************************************************************************)
EXTENDS Naturals

CONSTANTS
    Users,           \* accounts
    Tokens,          \* the pool of tokens the random generator can still draw
    Reqs,            \* handler goroutines that can be in flight at once
    TicksPerSecond,  \* resolution of time.Now(); rows hold whole seconds
    TTL,             \* refresh_ttl, in ticks
    MaxTime,         \* bound: the clock stops here
    MaxFaults,       \* bound: failed statements, lost replies and crashes
    NoToken, NoRow

ASSUME SentinelAssumption == NoToken \notin Tokens

ASSUME TimeAssumption == /\ TicksPerSecond \in Nat \ {0}
                         /\ TTL \in Nat \ {0}
                         /\ MaxTime \in Nat
                         /\ MaxFaults \in Nat

Row == [user : Users, expires : Nat, revoked : BOOLEAN,
        replacedBy : Tokens \cup {NoToken}]

ASSUME NoRowAssumption == NoRow \notin Row

VARIABLES
    now,      \* the clock
    rows,     \* the refresh_tokens table
    pc,       \* where each handler goroutine is
    arg,      \* the token the handler was sent
    seen,     \* the row the handler read for it
    fresh,    \* the token the handler drew
    draft,    \* the row the handler will insert for it
    out,      \* the answer the handler is about to send
    held,     \* tokens that reached a client, hence can be sent back
    sweeper,  \* the cleanup goroutine: "waiting", "sweeping" or "stopped"
    cutoff,   \* the time it passed to DeleteExpired
    faults,   \* faults so far
    \* History, read by the properties only.
    stored,   \* tokens that were ever in the table
    parent,   \* the token each stored one replaced, NoToken after a login
    dead,     \* the token the handler was sent was refusable when it arrived
    known,    \* tokens in the table when the handler read its own
    burned,   \* tokens some family revocation has met
    contended \* tokens of which two refreshes were in flight at once

request == <<pc, arg, seen, fresh, draft, out>>
cleanup == <<sweeper, cutoff>>
history == <<stored, parent, dead, known, burned, contended>>
vars == <<now, rows, request, held, cleanup, faults, history>>

PCs == {"idle", "issue", "lookup", "check", "burn", "rotate", "reply"}
Outs == {"none", "granted", "reuse", "refused", "error"}

TypeOK == /\ now \in Nat
          /\ rows \in [Tokens -> Row \cup {NoRow}]
          /\ pc \in [Reqs -> PCs]
          /\ arg \in [Reqs -> Tokens \cup {NoToken}]
          /\ seen \in [Reqs -> Row \cup {NoRow}]
          /\ fresh \in [Reqs -> Tokens \cup {NoToken}]
          /\ draft \in [Reqs -> Row \cup {NoRow}]
          /\ out \in [Reqs -> Outs]
          /\ held \subseteq Tokens
          /\ sweeper \in {"waiting", "sweeping", "stopped"}
          /\ cutoff \in Nat
          /\ faults \in Nat
          /\ stored \subseteq Tokens
          /\ parent \in [Tokens -> Tokens \cup {NoToken}]
          /\ dead \in [Reqs -> BOOLEAN]
          /\ known \in [Reqs -> SUBSET Tokens]
          /\ burned \subseteq Tokens
          /\ contended \subseteq Tokens

-----------------------------------------------------------------------------
(* Time and the table                                                      *)

Unix(t) == t \div TicksPerSecond

\* time.Now().After(time.Unix(e, 0))
After(t, e) == t > e * TicksPerSecond

Live(t) == rows[t] # NoRow /\ ~rows[t].revoked

TokensOf(u) == {t \in Tokens : rows[t] # NoRow /\ rows[t].user = u}

\* Mutant of NewRow: the lifetime is subtracted.
BugNewRow(u) == [user |-> u, expires |-> Unix(now) - TTL,
                 revoked |-> FALSE, replacedBy |-> NoToken]

NewRow(u) == [user |-> u, expires |-> Unix(now + TTL),
              revoked |-> FALSE, replacedBy |-> NoToken]

\* Plaintexts are random, so a handler never draws one that was ever stored
\* nor one that another handler is about to store.
Taken == stored \cup {fresh[r] : r \in {q \in Reqs : pc[q] \in {"issue", "rotate"}}}

\* UPDATE refresh_tokens SET revoked_at = ... WHERE ... AND revoked_at IS NULL
Revoked(S) == [t \in Tokens |->
                  IF t \in S /\ rows[t] # NoRow
                  THEN [rows[t] EXCEPT !.revoked = TRUE]
                  ELSE rows[t]]

\* Mutant of Rotated: replaced_by is forgotten.
BugRotatedUnchained(r) ==
    [t \in Tokens |->
        IF t = fresh[r] THEN draft[r]
        ELSE IF t = arg[r] /\ rows[t] # NoRow
             THEN [rows[t] EXCEPT !.revoked = TRUE]
             ELSE rows[t]]

\* Mutant of Rotated: the UPDATE is addressed by user instead of by id.
BugRotatedFamily(r) ==
    [t \in Tokens |->
        IF t = fresh[r] THEN draft[r]
        ELSE IF t \in TokensOf(seen[r].user)
             THEN [rows[t] EXCEPT !.revoked = TRUE, !.replacedBy = fresh[r]]
             ELSE rows[t]]

\* The rotation transaction: the INSERT of the replacement, and an UPDATE that
\* addresses the old row by id alone and does not look at the rows affected.
Rotated(r) == [t \in Tokens |->
                  IF t = fresh[r] THEN draft[r]
                  ELSE IF t = arg[r] /\ rows[t] # NoRow
                       THEN [rows[t] EXCEPT !.revoked = TRUE,
                                            !.replacedBy = fresh[r]]
                       ELSE rows[t]]

\* Mutant of Swept: rows go in the very second they expire.
BugSwept(before) == [t \in Tokens |->
                        IF rows[t] # NoRow /\ rows[t].expires <= Unix(before)
                        THEN NoRow
                        ELSE rows[t]]

\* DELETE FROM refresh_tokens WHERE expires_at < before
Swept(before) == [t \in Tokens |->
                     IF rows[t] # NoRow /\ rows[t].expires < Unix(before)
                     THEN NoRow
                     ELSE rows[t]]

Refreshing(r) == pc[r] \in {"lookup", "check", "burn", "rotate"}

Goto(r, l) == pc' = [pc EXCEPT ![r] = l]

Answer(r, o) == /\ Goto(r, "reply")
                /\ out' = [out EXCEPT ![r] = o]

Fault == /\ faults < MaxFaults
         /\ faults' = faults + 1

-----------------------------------------------------------------------------
Init == /\ now = 0
        /\ rows = [t \in Tokens |-> NoRow]
        /\ pc = [r \in Reqs |-> "idle"]
        /\ arg = [r \in Reqs |-> NoToken]
        /\ seen = [r \in Reqs |-> NoRow]
        /\ fresh = [r \in Reqs |-> NoToken]
        /\ draft = [r \in Reqs |-> NoRow]
        /\ out = [r \in Reqs |-> "none"]
        /\ held = {}
        /\ sweeper = "waiting"
        /\ cutoff = 0
        /\ faults = 0
        /\ stored = {}
        /\ parent = [t \in Tokens |-> NoToken]
        /\ dead = [r \in Reqs |-> FALSE]
        /\ known = [r \in Reqs |-> {}]
        /\ burned = {}
        /\ contended = {}

Tick == /\ now < MaxTime
        /\ now' = now + 1
        /\ UNCHANGED <<rows, request, held, cleanup, faults, history>>

-----------------------------------------------------------------------------
(* Login and registration: Issue                                           *)

StartIssue(r, u) ==
    /\ pc[r] = "idle"
    /\ \E t \in Tokens \ Taken :
          /\ fresh' = [fresh EXCEPT ![r] = t]
          /\ draft' = [draft EXCEPT ![r] = NewRow(u)]
    /\ arg' = [arg EXCEPT ![r] = NoToken]
    /\ Goto(r, "issue")
    /\ UNCHANGED <<now, rows, seen, out, held, cleanup, faults, history>>

StoreIssued(r) == /\ rows' = [rows EXCEPT ![fresh[r]] = draft[r]]
                  /\ stored' = stored \cup {fresh[r]}

InsertIssued(r) ==
    /\ pc[r] = "issue"
    /\ StoreIssued(r)
    /\ Answer(r, "granted")
    /\ UNCHANGED <<now, arg, seen, fresh, draft, held, cleanup, faults,
                   parent, dead, known, burned, contended>>

\* The INSERT reports an error; the row may be in the table all the same.
IssueFails(r) ==
    /\ pc[r] = "issue"
    /\ Fault
    /\ StoreIssued(r) \/ UNCHANGED <<rows, stored>>
    /\ Answer(r, "error")
    /\ UNCHANGED <<now, arg, seen, fresh, draft, held, cleanup,
                   parent, dead, known, burned, contended>>

-----------------------------------------------------------------------------
(* POST /auth/refresh: Rotate, and the Validate it starts with             *)

StartRefresh(r, t) ==
    /\ pc[r] = "idle"
    /\ t \in held
    /\ arg' = [arg EXCEPT ![r] = t]
    /\ dead' = [dead EXCEPT ![r] = ~Live(t) \/ After(now, rows[t].expires)]
    /\ contended' = IF \E q \in Reqs : Refreshing(q) /\ arg[q] = t
                    THEN contended \cup {t} ELSE contended
    /\ Goto(r, "lookup")
    /\ UNCHANGED <<now, rows, seen, fresh, draft, out, held, cleanup, faults,
                   stored, parent, known, burned>>

Lookup(r) ==
    /\ pc[r] = "lookup"
    /\ seen' = [seen EXCEPT ![r] = rows[arg[r]]]
    /\ known' = [known EXCEPT ![r] = {t \in Tokens : rows[t] # NoRow}]
    /\ Goto(r, "check")
    /\ UNCHANGED <<now, rows, arg, fresh, draft, out, held, cleanup, faults,
                   stored, parent, dead, burned, contended>>

LookupFails(r) ==
    /\ pc[r] = "lookup"
    /\ Fault
    /\ Answer(r, "error")
    /\ UNCHANGED <<now, rows, arg, seen, fresh, draft, held, cleanup, history>>

\* Validate decides on the row it read, by now possibly out of date.
Reused(r) == seen[r] # NoRow /\ seen[r].revoked
\* Mutant of Usable: the expiry is not looked at.
BugUsable(r) == seen[r] # NoRow /\ ~seen[r].revoked

Usable(r) == seen[r] # NoRow /\ ~seen[r].revoked /\ ~After(now, seen[r].expires)

Refuse(r) ==
    /\ pc[r] = "check"
    /\ ~Reused(r) /\ ~Usable(r)
    /\ Answer(r, "refused")
    /\ UNCHANGED <<now, rows, arg, seen, fresh, draft, held, cleanup, faults, history>>

DetectReuse(r) ==
    /\ pc[r] = "check"
    /\ Reused(r)
    /\ Goto(r, "burn")
    /\ UNCHANGED <<now, rows, arg, seen, fresh, draft, out, held, cleanup, faults, history>>

Accept(r) ==
    /\ pc[r] = "check"
    /\ Usable(r)
    /\ \E t \in Tokens \ Taken :
          /\ fresh' = [fresh EXCEPT ![r] = t]
          /\ draft' = [draft EXCEPT ![r] = NewRow(seen[r].user)]
    /\ Goto(r, "rotate")
    /\ UNCHANGED <<now, rows, arg, seen, out, held, cleanup, faults, history>>

\* rand.Read fails; the bounded pool running dry looks the same.
GenerateFails(r) ==
    /\ pc[r] = "check"
    /\ Usable(r)
    /\ Tokens = Taken
    /\ Answer(r, "error")
    /\ UNCHANGED <<now, rows, arg, seen, fresh, draft, held, cleanup, faults, history>>

BurnFamily(r) == /\ rows' = Revoked(TokensOf(seen[r].user))
                 /\ burned' = burned \cup TokensOf(seen[r].user)

RevokeFamily(r) ==
    /\ pc[r] = "burn"
    /\ BurnFamily(r)
    /\ Answer(r, "reuse")
    /\ UNCHANGED <<now, arg, seen, fresh, draft, held, cleanup, faults,
                   stored, parent, dead, known, contended>>

\* Mutant of RevokeFamilyFails: the error of RevokeAllForUser is dropped.
BugRevokeFamilyFails(r) ==
    /\ pc[r] = "burn"
    /\ Fault
    /\ Answer(r, "reuse")
    /\ UNCHANGED <<now, rows, arg, seen, fresh, draft, held, cleanup, history>>

RevokeFamilyFails(r) ==
    /\ pc[r] = "burn"
    /\ Fault
    /\ BurnFamily(r) \/ UNCHANGED <<rows, burned>>
    /\ Answer(r, "error")
    /\ UNCHANGED <<now, arg, seen, fresh, draft, held, cleanup,
                   stored, parent, dead, known, contended>>

StoreRotation(r) == /\ rows' = Rotated(r)
                    /\ stored' = stored \cup {fresh[r]}
                    /\ parent' = [parent EXCEPT ![fresh[r]] = arg[r]]

CommitRotation(r) ==
    /\ pc[r] = "rotate"
    /\ StoreRotation(r)
    /\ Answer(r, "granted")
    /\ UNCHANGED <<now, arg, seen, fresh, draft, held, cleanup, faults,
                   dead, known, burned, contended>>

\* Mutant of RotationFails: the statements run outside a transaction.
BugRotationFails(r) ==
    /\ pc[r] = "rotate"
    /\ Fault
    /\ StoreIssued(r)
    /\ parent' = [parent EXCEPT ![fresh[r]] = arg[r]]
    /\ Answer(r, "error")
    /\ UNCHANGED <<now, arg, seen, fresh, draft, held, cleanup,
                   dead, known, burned, contended>>

\* Begin or a statement fails and the deferred Rollback undoes the rest, or
\* the commit is applied and only its acknowledgement is lost.
RotationFails(r) ==
    /\ pc[r] = "rotate"
    /\ Fault
    /\ StoreRotation(r) \/ UNCHANGED <<rows, stored, parent>>
    /\ Answer(r, "error")
    /\ UNCHANGED <<now, arg, seen, fresh, draft, held, cleanup,
                   dead, known, burned, contended>>

-----------------------------------------------------------------------------
(* Answers, logout, revocation by the application, crashes                 *)

\* The goroutine's locals die with it.
EndRequests(R) ==
    /\ pc' = [r \in Reqs |-> IF r \in R THEN "idle" ELSE pc[r]]
    /\ arg' = [r \in Reqs |-> IF r \in R THEN NoToken ELSE arg[r]]
    /\ seen' = [r \in Reqs |-> IF r \in R THEN NoRow ELSE seen[r]]
    /\ fresh' = [r \in Reqs |-> IF r \in R THEN NoToken ELSE fresh[r]]
    /\ draft' = [r \in Reqs |-> IF r \in R THEN NoRow ELSE draft[r]]
    /\ out' = [r \in Reqs |-> IF r \in R THEN "none" ELSE out[r]]
    /\ dead' = [r \in Reqs |-> r \notin R /\ dead[r]]
    /\ known' = [r \in Reqs |-> IF r \in R THEN {} ELSE known[r]]
    /\ UNCHANGED <<stored, parent, burned, contended>>

Deliver(r) ==
    /\ pc[r] = "reply"
    /\ held' = IF out[r] = "granted" THEN held \cup {fresh[r]} ELSE held
    /\ EndRequests({r})
    /\ UNCHANGED <<now, rows, cleanup, faults>>

\* GenerateToken fails after Rotate, or the connection drops: the client is
\* left with the token it sent.
LoseReply(r) ==
    /\ pc[r] = "reply"
    /\ Fault
    /\ EndRequests({r})
    /\ UNCHANGED <<now, rows, held, cleanup>>

Logout(t) ==
    /\ t \in held
    /\ rows' = Revoked({t})
    /\ UNCHANGED <<now, request, held, cleanup, faults, history>>

RevokeAllForUser(u) ==
    /\ rows' = Revoked(TokensOf(u))
    /\ UNCHANGED <<now, request, held, cleanup, faults, history>>

\* The server dies: open transactions roll back, answers are never sent.
Crash ==
    /\ Fault
    /\ EndRequests(Reqs)
    /\ sweeper' = "waiting"
    /\ UNCHANGED <<now, rows, held, cutoff>>

-----------------------------------------------------------------------------
(* StartRefreshTokenCleanup and DeleteExpired                              *)

\* The ticker's first tick comes one interval after the start.
SweeperFires ==
    /\ sweeper = "waiting"
    /\ now > 0
    /\ sweeper' = "sweeping"
    /\ cutoff' = now
    /\ UNCHANGED <<now, rows, request, held, faults, history>>

DeleteExpired ==
    /\ sweeper = "sweeping"
    /\ rows' = Swept(cutoff)
    /\ sweeper' = "waiting"
    /\ UNCHANGED <<now, request, held, cutoff, faults, history>>

\* Mutant of DeleteExpiredFails: the goroutine returns instead of continuing.
BugDeleteExpiredFails ==
    /\ sweeper = "sweeping"
    /\ Fault
    /\ sweeper' = "returned"
    /\ UNCHANGED <<now, rows, request, held, cutoff, history>>

\* The error is logged and the loop continues.
DeleteExpiredFails ==
    /\ sweeper = "sweeping"
    /\ Fault
    /\ sweeper' = "waiting"
    /\ UNCHANGED <<now, rows, request, held, cutoff, history>>

SweeperStops ==
    /\ sweeper = "waiting"
    /\ sweeper' = "stopped"
    /\ UNCHANGED <<now, rows, request, held, cutoff, faults, history>>

-----------------------------------------------------------------------------
Handler(r) ==
    \/ InsertIssued(r) \/ IssueFails(r)
    \/ Lookup(r) \/ LookupFails(r)
    \/ Refuse(r) \/ DetectReuse(r) \/ Accept(r) \/ GenerateFails(r)
    \/ RevokeFamily(r) \/ RevokeFamilyFails(r)
    \/ CommitRotation(r) \/ RotationFails(r)
    \/ Deliver(r) \/ LoseReply(r)

Sweeper == SweeperFires \/ DeleteExpired \/ DeleteExpiredFails

Next ==
    \/ Tick
    \/ \E r \in Reqs, u \in Users : StartIssue(r, u)
    \/ \E r \in Reqs, t \in Tokens : StartRefresh(r, t)
    \/ \E r \in Reqs : Handler(r)
    \/ \E t \in Tokens : Logout(t)
    \/ \E u \in Users : RevokeAllForUser(u)
    \/ Crash
    \/ Sweeper
    \/ SweeperStops

Spec == Init /\ [][Next]_vars

\* A goroutine that can run does run, the ticker keeps firing, time passes.
Fairness == /\ \A r \in Reqs : WF_vars(Handler(r))
            /\ WF_vars(Sweeper)
            /\ WF_vars(Tick)

FairSpec == Spec /\ Fairness

-----------------------------------------------------------------------------
(* Properties                                                              *)

\* Rotate inserts the replacement and revokes the old token in one
\* transaction: whatever fails, crashes or interleaves, a token whose
\* replacement reached the table is revoked, and the two share their user.
RotationIsAtomic ==
    \A c \in Tokens : LET p == parent[c] IN
        p # NoToken /\ rows[p] # NoRow =>
            /\ rows[p].revoked
            /\ rows[c] # NoRow => rows[c].user = rows[p].user

\* "The old token is revoked and chained to its replacement via replaced_by":
\* from a token born of a refresh the chain leads back to it, unless the
\* client had two refreshes of the old token in flight at once.
EveryReplacementChained ==
    \A c \in Tokens : LET p == parent[c] IN
        p \notin {NoToken} \cup contended /\ rows[p] # NoRow => rows[p].replacedBy = c

\* A token is exchanged once, whatever is lost, retried or crashes, unless the
\* client had two refreshes of it in flight at once.
RotatedOnce ==
    \A c, d \in Tokens :
        parent[c] \notin {NoToken} \cup contended /\ parent[c] = parent[d] => c = d

\* A token that was revoked, expired or deleted before it was sent is never
\* exchanged, however the check interleaves with other handlers and the sweep.
DeadTokenNotExchanged ==
    \A r \in Reqs : pc[r] = "rotate" => ~dead[r]

\* Validate reports ErrTokenReuse only after the family is revoked: every
\* token of the user that was stored when the handler read the reused one is
\* unusable by the time the client is told "all sessions revoked".
ReuseReportedAfterRevocation ==
    \A r \in Reqs : out[r] = "reuse" =>
        \A t \in known[r] : Live(t) => rows[t].user # seen[r].user

\* "The user's whole token family is revoked when this is returned": no
\* session descends from a token that a family revocation has met.
RevokedFamilyStaysEnded ==
    \A t \in Tokens : Live(t) /\ parent[t] # NoToken => parent[t] \notin burned

\* DeleteExpired compares whole seconds and keeps a row until no clock reading
\* accepts it, so reuse detection has something to match until then.
KeptUntilExpired ==
    [][\A t \in Tokens :
          rows[t] # NoRow /\ rows'[t] = NoRow => After(now, rows[t].expires)]_vars

\* The table does not grow without bound: an expired row goes away unless the
\* cleanup was stopped, even when some sweeps fail.
ExpiredRowsSwept ==
    \A t \in Tokens :
        rows[t] # NoRow /\ rows[t].expires < Unix(now)
            ~> rows[t] = NoRow \/ sweeper = "stopped"

Status == [t \in Tokens |->
              IF rows[t] # NoRow
              THEN IF rows[t].revoked THEN "revoked" ELSE "live"
              ELSE IF t \in stored THEN "purged" ELSE "unissued"]

Lifecycle == INSTANCE TokenLifecycle WITH status <- Status, origin <- parent

\* Insert, rotation transaction, revocations and sweep, however they interleave
\* and fail, are steps of the life TokenLifecycle promises each token.
ImplementsLifecycle == Lifecycle!Spec
=============================================================================
