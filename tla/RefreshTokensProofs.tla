------------------------ MODULE RefreshTokensProofs ------------------------
(***************************************************************************)
(* Proofs about RefreshTokens for every set of accounts, tokens and        *)
(* handlers, every clock resolution and lifetime, and every number of      *)
(* faults.                                                                 *)
(***************************************************************************)
EXTENDS RefreshTokens, TLAPS

-----------------------------------------------------------------------------
(* The inductive invariant                                                 *)

Drafting(r) == pc[r] \in {"issue", "rotate"}

\* Tokens enter the table once, and only from the handler that drew them.
TableInv ==
    \A t \in Tokens : /\ rows[t] # NoRow => t \in stored
                      /\ parent[t] # NoToken => t \in stored /\ parent[t] \in stored

DraftInv ==
    /\ \A r \in Reqs : Drafting(r) => /\ fresh[r] \in Tokens \ stored
                                      /\ draft[r] \in Row
                                      /\ ~draft[r].revoked
    /\ \A q, r \in Reqs : Drafting(q) /\ Drafting(r) /\ fresh[q] = fresh[r] => q = r

\* What a client was given, or is about to be given, or sent, was stored.
ClientInv ==
    /\ held \subseteq stored
    /\ \A r \in Reqs : /\ Refreshing(r) => arg[r] \in stored
                       /\ out[r] = "granted" => fresh[r] \in stored
                       /\ out[r] # "none" => pc[r] = "reply"

PoolInv == TableInv /\ DraftInv /\ ClientInv

\* What a handler read stays true of its row, except that the row ages.
SnapshotInv ==
    \A r \in Reqs :
        /\ pc[r] \in {"burn", "rotate"} => seen[r] # NoRow
        /\ pc[r] = "rotate" => draft[r].user = seen[r].user
        /\ pc[r] \in {"check", "burn", "rotate"} /\ rows[arg[r]] # NoRow =>
               seen[r] # NoRow /\ rows[arg[r]].user = seen[r].user

\* A token that was refusable when it arrived still is.
Refusable(row) == row # NoRow /\ ~row.revoked => After(now, row.expires)

DeadInv ==
    \A r \in Reqs : dead[r] => /\ pc[r] = "lookup" => Refusable(rows[arg[r]])
                               /\ pc[r] = "check" => Refusable(seen[r])
                               /\ pc[r] # "rotate"

KnownInv == \A r \in Reqs : known[r] \subseteq stored

\* A usable snapshot is the only claim to a token that is not contended.
Claims(r) == \/ pc[r] = "rotate"
             \/ pc[r] = "check" /\ seen[r] # NoRow /\ ~seen[r].revoked

SerialInv ==
    /\ \A q, r \in Reqs : Refreshing(q) /\ Refreshing(r) /\ arg[q] = arg[r] =>
                              q = r \/ arg[r] \in contended
    /\ \A r \in Reqs : Claims(r) /\ arg[r] \notin contended =>
                          \A c \in Tokens : parent[c] # arg[r]

IInv == TypeOK /\ PoolInv /\ SnapshotInv /\ RotationIsAtomic

-----------------------------------------------------------------------------
(* Types                                                                   *)

LEMMA UnixType == ASSUME NEW t \in Nat PROVE Unix(t) \in Nat
<1> TicksPerSecond \in Nat \ {0}
    BY TimeAssumption
<1> QED BY DEF Unix

LEMMA NewRowType == TypeOK => \A u \in Users : NewRow(u) \in Row /\ ~NewRow(u).revoked
                                               /\ NewRow(u).user = u
BY TimeAssumption, UnixType DEF TypeOK, NewRow, Row

LEMMA InitType == Init => TypeOK
BY TimeAssumption DEF Init, TypeOK, PCs, Outs

LEMMA RevokedType ==
    TypeOK => \A S : Revoked(S) \in [Tokens -> Row \cup {NoRow}]
<1> SUFFICES ASSUME TypeOK, NEW S, NEW t \in Tokens
             PROVE  (IF t \in S /\ rows[t] # NoRow
                     THEN [rows[t] EXCEPT !.revoked = TRUE] ELSE rows[t]) \in Row \cup {NoRow}
    BY DEF Revoked
<1>1. rows[t] \in Row \cup {NoRow}
    BY DEF TypeOK
<1>2. rows[t] \in Row => [rows[t] EXCEPT !.revoked = TRUE] \in Row
    BY DEF Row
<1> QED BY <1>1, <1>2

LEMMA RotatedType ==
    ASSUME TypeOK, NEW r \in Reqs, fresh[r] \in Tokens
    PROVE  Rotated(r) \in [Tokens -> Row \cup {NoRow}]
<1>1. draft[r] \in Row \cup {NoRow}
    BY DEF TypeOK
<1>2. ASSUME NEW t \in Tokens, rows[t] # NoRow
      PROVE  [rows[t] EXCEPT !.revoked = TRUE, !.replacedBy = fresh[r]] \in Row
  <2>1. rows[t] \in Row
      BY <1>2 DEF TypeOK
  <2> QED BY <2>1 DEF Row
<1>3. \A t \in Tokens : rows[t] \in Row \cup {NoRow}
    BY DEF TypeOK
<1> QED BY <1>1, <1>2, <1>3 DEF Rotated

LEMMA SweptType ==
    TypeOK => \A t : Swept(t) \in [Tokens -> Row \cup {NoRow}]
BY NoRowAssumption DEF TypeOK, Swept

LEMMA NextType == TypeOK /\ PoolInv /\ [Next]_vars => TypeOK'
<1> SUFFICES ASSUME TypeOK, PoolInv, [Next]_vars PROVE TypeOK'
    OBVIOUS
<1>1. CASE Tick
    BY <1>1 DEF Tick, TypeOK, request, cleanup, history
<1>2. ASSUME NEW r \in Reqs, NEW u \in Users, StartIssue(r, u) PROVE TypeOK'
    BY <1>2, NewRowType DEF StartIssue, Goto, TypeOK, PCs, cleanup, history
<1>3. ASSUME NEW r \in Reqs, NEW t \in Tokens, StartRefresh(r, t) PROVE TypeOK'
    BY <1>3 DEF StartRefresh, Goto, TypeOK, PCs, cleanup
<1>4. ASSUME NEW r \in Reqs, Handler(r) PROVE TypeOK'
  <2>1. CASE InsertIssued(r)
      BY <2>1 DEF InsertIssued, StoreIssued, Answer, Goto, TypeOK, PCs, Outs,
                  cleanup, PoolInv, DraftInv, Drafting
  <2>2. CASE IssueFails(r)
      BY <2>2 DEF IssueFails, StoreIssued, Fault, Answer, Goto, TypeOK, PCs, Outs,
                  cleanup, PoolInv, DraftInv, Drafting
  <2>3. CASE Lookup(r)
      BY <2>3 DEF Lookup, Goto, TypeOK, PCs, cleanup, PoolInv, ClientInv, Refreshing
  <2>4. CASE LookupFails(r)
      BY <2>4 DEF LookupFails, Fault, Answer, Goto, TypeOK, PCs, Outs, cleanup, history
  <2>5. CASE Refuse(r)
      BY <2>5 DEF Refuse, Answer, Goto, TypeOK, PCs, Outs, cleanup, history
  <2>6. CASE DetectReuse(r)
      BY <2>6 DEF DetectReuse, Goto, TypeOK, PCs, cleanup, history
  <2>7. CASE Accept(r)
      <3>1. seen[r].user \in Users
          BY <2>7 DEF Accept, Usable, TypeOK, Row
      <3>2. NewRow(seen[r].user) \in Row
          BY <3>1, NewRowType
      <3> QED BY <2>7, <3>2 DEF Accept, Goto, TypeOK, PCs, cleanup, history
  <2>8. CASE GenerateFails(r)
      BY <2>8 DEF GenerateFails, Answer, Goto, TypeOK, PCs, Outs, cleanup, history
  <2>9. CASE RevokeFamily(r)
      BY <2>9, RevokedType DEF RevokeFamily, BurnFamily, TokensOf, Answer, Goto,
                               TypeOK, PCs, Outs, cleanup
  <2>10. CASE RevokeFamilyFails(r)
      BY <2>10, RevokedType DEF RevokeFamilyFails, BurnFamily, TokensOf, Fault, Answer,
                                Goto, TypeOK, PCs, Outs, cleanup
  <2>11. CASE CommitRotation(r)
      <3>1. fresh[r] \in Tokens
          BY <2>11 DEF CommitRotation, PoolInv, DraftInv, Drafting
      <3> QED BY <2>11, <3>1, RotatedType DEF CommitRotation, StoreRotation, Answer, Goto,
                                              TypeOK, PCs, Outs, cleanup
  <2>12. CASE RotationFails(r)
      <3>1. StoreRotation(r) => /\ rows' \in [Tokens -> Row \cup {NoRow}]
                                /\ stored' \subseteq Tokens
                                /\ parent' \in [Tokens -> Tokens \cup {NoToken}]
          <4>1. fresh[r] \in Tokens
              BY <2>12 DEF RotationFails, PoolInv, DraftInv, Drafting
          <4> QED BY <4>1, RotatedType DEF StoreRotation, TypeOK
      <3> QED BY <2>12, <3>1 DEF RotationFails, Fault, Answer, Goto, TypeOK,
                                 PCs, Outs, cleanup
  <2>13. CASE Deliver(r)
      BY <2>13 DEF Deliver, EndRequests, TypeOK, PCs, Outs, cleanup, PoolInv, ClientInv
  <2>14. CASE LoseReply(r)
      BY <2>14 DEF LoseReply, Fault, EndRequests, TypeOK, PCs, Outs, cleanup
  <2> QED BY <1>4, <2>1, <2>2, <2>3, <2>4, <2>5, <2>6, <2>7, <2>8, <2>9,
             <2>10, <2>11, <2>12, <2>13, <2>14 DEF Handler
<1>5. ASSUME NEW t \in Tokens, Logout(t) PROVE TypeOK'
    BY <1>5, RevokedType DEF Logout, TypeOK, request, cleanup, history
<1>6. ASSUME NEW u \in Users, RevokeAllForUser(u) PROVE TypeOK'
    BY <1>6, RevokedType DEF RevokeAllForUser, TypeOK, request, cleanup, history
<1>7. CASE Crash
    BY <1>7 DEF Crash, Fault, EndRequests, TypeOK, PCs, Outs
<1>8. CASE Sweeper
    BY <1>8, SweptType DEF Sweeper, SweeperFires, DeleteExpired, DeleteExpiredFails, Fault,
                           TypeOK, request, cleanup, history
<1>9. CASE SweeperStops
    BY <1>9 DEF SweeperStops, TypeOK, request, history
<1>10. CASE UNCHANGED vars
    BY <1>10 DEF vars, TypeOK, request, cleanup, history
<1> QED BY <1>1, <1>2, <1>3, <1>4, <1>5, <1>6, <1>7, <1>8, <1>9, <1>10 DEF Next

-----------------------------------------------------------------------------
(* How the table changes                                                   *)

\* A step leaves the table alone, stores a login's token, commits a rotation,
\* revokes rows or sweeps them.
TableStep ==
    \/ UNCHANGED <<rows, stored, parent>>
    \/ \E r \in Reqs : pc[r] = "issue" /\ StoreIssued(r) /\ UNCHANGED parent
    \/ \E r \in Reqs : pc[r] = "rotate" /\ StoreRotation(r) /\ Goto(r, "reply")
    \/ \E S \in SUBSET Tokens : rows' = Revoked(S) /\ UNCHANGED <<stored, parent>>
    \/ rows' = Swept(cutoff) /\ UNCHANGED <<stored, parent>>

LEMMA NextTableStep == [Next]_vars => TableStep
<1> SUFFICES ASSUME [Next]_vars PROVE TableStep
    OBVIOUS
<1> USE DEF history
<1>1. ASSUME NEW r \in Reqs, Handler(r) PROVE TableStep
  <2>1. CASE InsertIssued(r) \/ IssueFails(r)
      BY <2>1 DEF InsertIssued, IssueFails, TableStep
  <2>2. CASE RevokeFamily(r) \/ RevokeFamilyFails(r)
    <3>1. TokensOf(seen[r].user) \in SUBSET Tokens
        BY DEF TokensOf
    <3> QED BY <2>2, <3>1 DEF RevokeFamily, RevokeFamilyFails, BurnFamily, TableStep
  <2>3. CASE CommitRotation(r) \/ RotationFails(r)
      BY <2>3 DEF CommitRotation, RotationFails, Answer, TableStep
  <2>4. CASE Lookup(r) \/ LookupFails(r) \/ Refuse(r) \/ DetectReuse(r) \/ Accept(r)
              \/ GenerateFails(r)
      BY <2>4 DEF Lookup, LookupFails, Refuse, DetectReuse, Accept, GenerateFails, TableStep
  <2>5. CASE Deliver(r) \/ LoseReply(r)
      BY <2>5 DEF Deliver, LoseReply, EndRequests, TableStep
  <2> QED BY <1>1, <2>1, <2>2, <2>3, <2>4, <2>5 DEF Handler
<1>2. ASSUME NEW t \in Tokens, Logout(t) PROVE TableStep
  <2>1. {t} \in SUBSET Tokens
      OBVIOUS
  <2> QED BY <1>2, <2>1 DEF Logout, TableStep
<1>3. ASSUME NEW u \in Users, RevokeAllForUser(u) PROVE TableStep
  <2>1. TokensOf(u) \in SUBSET Tokens
      BY DEF TokensOf
  <2> QED BY <1>3, <2>1 DEF RevokeAllForUser, TableStep
<1>4. CASE Sweeper \/ SweeperStops
    BY <1>4 DEF Sweeper, SweeperFires, DeleteExpired, DeleteExpiredFails, SweeperStops, TableStep
<1>5. ASSUME \/ Tick \/ Crash \/ UNCHANGED vars
             \/ \E r \in Reqs, u \in Users : StartIssue(r, u)
             \/ \E r \in Reqs, t \in Tokens : StartRefresh(r, t)
      PROVE TableStep
    BY <1>5 DEF Tick, Crash, EndRequests, StartIssue, StartRefresh, vars, TableStep
<1> QED BY <1>1, <1>2, <1>3, <1>4, <1>5 DEF Next

\* A stored token's row keeps its user and its expiry, stays revoked once it
\* is, and does not come back once it is gone.
RowAges(t) ==
    rows'[t] # NoRow => /\ rows[t] # NoRow
                        /\ rows'[t].user = rows[t].user
                        /\ rows'[t].expires = rows[t].expires
                        /\ rows[t].revoked => rows'[t].revoked

LEMMA RowsAge ==
    ASSUME TypeOK, PoolInv, [Next]_vars
    PROVE  \A t \in stored : RowAges(t)
<1> SUFFICES ASSUME NEW t \in stored PROVE RowAges(t)
    OBVIOUS
<1>1. t \in Tokens /\ rows \in [Tokens -> Row \cup {NoRow}] /\ rows[t] \in Row \cup {NoRow}
    BY DEF TypeOK
<1>2. CASE UNCHANGED rows
    BY <1>2 DEF RowAges
<1>3. ASSUME NEW r \in Reqs, pc[r] = "issue", StoreIssued(r) PROVE RowAges(t)
  <2>1. fresh[r] # t
      BY <1>3 DEF PoolInv, DraftInv, Drafting
  <2> QED BY <1>1, <1>3, <2>1 DEF StoreIssued, RowAges
<1>4. ASSUME NEW r \in Reqs, pc[r] = "rotate", StoreRotation(r) PROVE RowAges(t)
  <2>1. fresh[r] # t
      BY <1>4 DEF PoolInv, DraftInv, Drafting
  <2> QED BY <1>1, <1>4, <2>1 DEF StoreRotation, Rotated, RowAges, Row
<1>5. ASSUME NEW S \in SUBSET Tokens, rows' = Revoked(S) PROVE RowAges(t)
    BY <1>1, <1>5 DEF Revoked, RowAges, Row
<1>6. ASSUME rows' = Swept(cutoff) PROVE RowAges(t)
    BY <1>1, <1>6 DEF Swept, RowAges
<1> QED BY <1>2, <1>3, <1>4, <1>5, <1>6, NextTableStep DEF TableStep

-----------------------------------------------------------------------------
(* The pool                                                                *)

LEMMA InitPool == Init => PoolInv /\ SnapshotInv /\ RotationIsAtomic
BY DEF Init, PoolInv, TableInv, DraftInv, ClientInv, SnapshotInv, RotationIsAtomic,
       Drafting, Refreshing

LEMMA NextTable == TypeOK /\ PoolInv /\ [Next]_vars => TableInv'
<1> SUFFICES ASSUME TypeOK, PoolInv, [Next]_vars PROVE TableInv'
    OBVIOUS
<1> USE DEF PoolInv, TableInv
<1>1. CASE UNCHANGED <<rows, stored, parent>>
    BY <1>1
<1>2. ASSUME NEW r \in Reqs, pc[r] = "issue", StoreIssued(r), UNCHANGED parent PROVE TableInv'
    BY <1>2 DEF StoreIssued, TypeOK
<1>3. ASSUME NEW r \in Reqs, pc[r] = "rotate", StoreRotation(r) PROVE TableInv'
  <2>1. arg[r] \in stored
      BY <1>3 DEF ClientInv, Refreshing
  <2> QED BY <1>3, <2>1 DEF StoreRotation, Rotated, TypeOK
<1>4. ASSUME NEW S \in SUBSET Tokens, rows' = Revoked(S), UNCHANGED <<stored, parent>>
      PROVE  TableInv'
    BY <1>4 DEF Revoked
<1>5. ASSUME rows' = Swept(cutoff), UNCHANGED <<stored, parent>> PROVE TableInv'
    BY <1>5 DEF Swept
<1> QED BY <1>1, <1>2, <1>3, <1>4, <1>5, NextTableStep DEF TableStep

LEMMA NextPool == TypeOK /\ PoolInv /\ [Next]_vars => DraftInv' /\ ClientInv'
<1> SUFFICES ASSUME TypeOK, PoolInv, [Next]_vars PROVE DraftInv' /\ ClientInv'
    OBVIOUS
<1> USE DEF PoolInv, DraftInv, ClientInv, Drafting, Refreshing
<1>1. CASE Tick
    BY <1>1 DEF Tick, request, cleanup, history
<1>2. ASSUME NEW r \in Reqs, NEW u \in Users, StartIssue(r, u) PROVE DraftInv' /\ ClientInv'
    BY <1>2, NewRowType DEF StartIssue, Goto, TypeOK, Taken, history
<1>3. ASSUME NEW r \in Reqs, NEW t \in Tokens, StartRefresh(r, t) PROVE DraftInv' /\ ClientInv'
    BY <1>3 DEF StartRefresh, Goto, TypeOK
<1>4. ASSUME NEW r \in Reqs, Handler(r) PROVE DraftInv' /\ ClientInv'
  <2>1. CASE InsertIssued(r)
      <3>1. DraftInv'
          BY <2>1 DEF InsertIssued, TypeOK, Goto, StoreIssued, Answer
      <3>2. ClientInv'
          BY <2>1 DEF InsertIssued, TypeOK, Goto, StoreIssued, Answer
      <3> QED BY <3>1, <3>2
  <2>2. CASE IssueFails(r)
      <3>1. DraftInv'
          BY <2>2 DEF IssueFails, TypeOK, Goto, StoreIssued, Answer
      <3>2. ClientInv'
          BY <2>2 DEF IssueFails, TypeOK, Goto, StoreIssued, Answer
      <3> QED BY <3>1, <3>2
  <2>3. CASE Lookup(r)
      BY <2>3 DEF Lookup, TypeOK, Goto
  <2>4. CASE LookupFails(r)
      BY <2>4 DEF LookupFails, TypeOK, Goto, Answer, history
  <2>5. CASE Refuse(r)
      BY <2>5 DEF Refuse, TypeOK, Goto, Answer, history
  <2>6. CASE DetectReuse(r)
      BY <2>6 DEF DetectReuse, TypeOK, Goto, history
  <2>7. CASE Accept(r)
      <3>1. seen[r].user \in Users
          BY <2>7 DEF Accept, Usable, TypeOK, Row
      <3>2. NewRow(seen[r].user) \in Row /\ ~NewRow(seen[r].user).revoked
          BY <3>1, NewRowType
      <3>3. DraftInv'
          BY <2>7, <3>2 DEF Accept, TypeOK, Goto, Taken, history
      <3>4. ClientInv'
          BY <2>7 DEF Accept, TypeOK, Goto, history
      <3> QED BY <3>3, <3>4
  <2>8. CASE GenerateFails(r)
      BY <2>8 DEF GenerateFails, TypeOK, Goto, Answer, history
  <2>9. CASE RevokeFamily(r)
      <3>1. DraftInv'
          BY <2>9 DEF RevokeFamily, TypeOK, Goto, Answer
      <3>2. ClientInv'
          BY <2>9 DEF RevokeFamily, TypeOK, Goto, Answer
      <3> QED BY <3>1, <3>2
  <2>10. CASE RevokeFamilyFails(r)
      <3>1. DraftInv'
          BY <2>10 DEF RevokeFamilyFails, TypeOK, Goto, Answer
      <3>2. ClientInv'
          BY <2>10 DEF RevokeFamilyFails, TypeOK, Goto, Answer
      <3> QED BY <3>1, <3>2
  <2>11. CASE CommitRotation(r)
      <3>1. DraftInv'
          BY <2>11 DEF CommitRotation, TypeOK, Goto, StoreRotation, Answer
      <3>2. ClientInv'
          BY <2>11 DEF CommitRotation, TypeOK, Goto, StoreRotation, Answer
      <3> QED BY <3>1, <3>2
  <2>12. CASE RotationFails(r)
      <3>1. DraftInv'
          BY <2>12 DEF RotationFails, TypeOK, Goto, StoreRotation, Answer
      <3>2. ClientInv'
          BY <2>12 DEF RotationFails, TypeOK, Goto, StoreRotation, Answer
      <3> QED BY <3>1, <3>2
  <2>13. CASE Deliver(r)
      <3>1. DraftInv'
          BY <2>13 DEF Deliver, TypeOK, EndRequests
      <3>2. ClientInv'
          BY <2>13 DEF Deliver, TypeOK, EndRequests
      <3> QED BY <3>1, <3>2
  <2>14. CASE LoseReply(r)
      <3>1. DraftInv'
          BY <2>14 DEF LoseReply, TypeOK, EndRequests
      <3>2. ClientInv'
          BY <2>14 DEF LoseReply, TypeOK, EndRequests
      <3> QED BY <3>1, <3>2
  <2> QED BY <1>4, <2>1, <2>2, <2>3, <2>4, <2>5, <2>6, <2>7, <2>8, <2>9, <2>10, <2>11, <2>12, <2>13, <2>14 DEF Handler
<1>5. ASSUME \/ \E t \in Tokens : Logout(t)
             \/ \E u \in Users : RevokeAllForUser(u)
             \/ Sweeper \/ SweeperStops \/ UNCHANGED vars
      PROVE  DraftInv' /\ ClientInv'
  <2>1. UNCHANGED <<pc, arg, fresh, draft, out, held, stored>>
      BY <1>5 DEF Logout, RevokeAllForUser, Sweeper, SweeperFires, DeleteExpired,
                  DeleteExpiredFails, SweeperStops, vars, request, history
  <2> QED BY <2>1
<1>6. CASE Crash
    BY <1>6 DEF Crash, EndRequests, TypeOK
<1> QED BY <1>1, <1>2, <1>3, <1>4, <1>5, <1>6 DEF Next

THEOREM TypeCorrect == Spec => [](TypeOK /\ PoolInv)
<1>1. Init => TypeOK /\ PoolInv
    BY InitType, InitPool
<1>2. TypeOK /\ PoolInv /\ [Next]_vars => (TypeOK /\ PoolInv)'
    BY NextType, NextTable, NextPool DEF PoolInv
<1> QED BY <1>1, <1>2, PTL DEF Spec

-----------------------------------------------------------------------------
(* How the locals of one handler change                                    *)

Locals(r) == <<pc[r], arg[r], seen[r], fresh[r], draft[r], out[r], dead[r], known[r]>>

Ended(r) == pc'[r] = "idle" /\ out'[r] = "none" /\ ~dead'[r] /\ known'[r] = {}

LEMMA LocalStep ==
    ASSUME TypeOK, [Next]_vars, NEW r \in Reqs
    PROVE  \/ UNCHANGED Locals(r)
           \/ Handler(r) /\ ~Deliver(r) /\ ~LoseReply(r)
           \/ \E u \in Users : StartIssue(r, u)
           \/ \E t \in Tokens : StartRefresh(r, t)
           \/ Ended(r)
<1> DEFINE Goal == \/ UNCHANGED Locals(r)
                   \/ Handler(r) /\ ~Deliver(r) /\ ~LoseReply(r)
                   \/ \E u \in Users : StartIssue(r, u)
                   \/ \E t \in Tokens : StartRefresh(r, t)
                   \/ Ended(r)
<1>1. ASSUME NEW q \in Reqs, q # r, Handler(q) PROVE UNCHANGED Locals(r)
  <2>1. CASE Deliver(q) \/ LoseReply(q)
      BY <1>1, <2>1 DEF Deliver, LoseReply, EndRequests, Locals, TypeOK
  <2>2. CASE \/ InsertIssued(q) \/ IssueFails(q) \/ RevokeFamily(q) \/ RevokeFamilyFails(q)
             \/ CommitRotation(q) \/ RotationFails(q)
      BY <1>1, <2>2 DEF InsertIssued, IssueFails, RevokeFamily, RevokeFamilyFails,
                        CommitRotation, RotationFails, Answer, Goto, Locals, TypeOK
  <2>3. CASE \/ Lookup(q) \/ LookupFails(q) \/ Refuse(q) \/ DetectReuse(q)
             \/ Accept(q) \/ GenerateFails(q)
      BY <1>1, <2>3 DEF Lookup, LookupFails, Refuse, DetectReuse, Accept, GenerateFails,
                        Answer, Goto, Locals, TypeOK, history
  <2> QED BY <1>1, <2>1, <2>2, <2>3 DEF Handler
<1>2. ASSUME NEW q \in Reqs, q # r,
             \/ \E u \in Users : StartIssue(q, u)
             \/ \E t \in Tokens : StartRefresh(q, t)
      PROVE  UNCHANGED Locals(r)
    BY <1>2 DEF StartIssue, StartRefresh, Goto, Locals, TypeOK, history
<1>3. ASSUME Deliver(r) \/ LoseReply(r) \/ Crash PROVE Ended(r)
    BY <1>3 DEF Deliver, LoseReply, Crash, EndRequests, Ended
<1>4. ASSUME \/ \E t \in Tokens : Logout(t)
             \/ \E u \in Users : RevokeAllForUser(u)
             \/ Tick \/ Sweeper \/ SweeperStops \/ UNCHANGED vars
      PROVE  UNCHANGED Locals(r)
    BY <1>4 DEF Logout, RevokeAllForUser, Tick, Sweeper, SweeperFires, DeleteExpired,
                DeleteExpiredFails, SweeperStops, vars, request, history, Locals
<1>5. ASSUME NEW q \in Reqs, Handler(q) PROVE Goal
    BY <1>1, <1>3, <1>5
<1>6. ASSUME NEW q \in Reqs, \/ \E u \in Users : StartIssue(q, u)
                             \/ \E t \in Tokens : StartRefresh(q, t)
      PROVE  Goal
    BY <1>2, <1>6
<1> HIDE DEF Goal
<1>7. Goal
  <2>1. (UNCHANGED Locals(r) \/ Ended(r)) => Goal
      BY DEF Goal
  <2> QED BY <2>1, <1>3, <1>4, <1>5, <1>6 DEF Next
<1> QED BY <1>7 DEF Goal

-----------------------------------------------------------------------------
(* What a handler read                                                     *)

LEMMA NextSnapshot ==
    ASSUME TypeOK, PoolInv, SnapshotInv, [Next]_vars
    PROVE  SnapshotInv'
<1> SUFFICES ASSUME NEW r \in Reqs
             PROVE  /\ pc'[r] \in {"burn", "rotate"} => seen'[r] # NoRow
                    /\ pc'[r] = "rotate" => draft'[r].user = seen'[r].user
                    /\ pc'[r] \in {"check", "burn", "rotate"} /\ rows'[arg'[r]] # NoRow =>
                          seen'[r] # NoRow /\ rows'[arg'[r]].user = seen'[r].user
    BY DEF SnapshotInv
<1>1. Refreshing(r) => RowAges(arg[r])
    BY RowsAge DEF PoolInv, ClientInv
<1>2. CASE UNCHANGED Locals(r)
    BY <1>1, <1>2 DEF Locals, SnapshotInv, Refreshing, RowAges
<1>3. CASE (\E u \in Users : StartIssue(r, u)) \/ (\E t \in Tokens : StartRefresh(r, t)) \/ Ended(r)
    BY <1>3 DEF StartIssue, StartRefresh, Ended, Goto, TypeOK
<1>4. CASE Lookup(r)
    BY <1>4 DEF Lookup, Goto, TypeOK
<1>5. CASE DetectReuse(r)
    BY <1>5 DEF DetectReuse, Reused, Goto, TypeOK, SnapshotInv
<1>6. CASE Accept(r)
    BY <1>6, NewRowType DEF Accept, Usable, Goto, TypeOK, SnapshotInv, Row
<1>7. CASE \/ InsertIssued(r) \/ IssueFails(r) \/ LookupFails(r) \/ Refuse(r) \/ GenerateFails(r)
           \/ RevokeFamily(r) \/ RevokeFamilyFails(r) \/ CommitRotation(r) \/ RotationFails(r)
  <2>1. pc'[r] = "reply"
      BY <1>7 DEF InsertIssued, IssueFails, LookupFails, Refuse, GenerateFails, RevokeFamily,
                  RevokeFamilyFails, CommitRotation, RotationFails, Answer, Goto, TypeOK
  <2> QED BY <2>1
<1> QED BY <1>2, <1>3, <1>4, <1>5, <1>6, <1>7, LocalStep DEF Handler

-----------------------------------------------------------------------------
(* Rotation                                                                *)

LEMMA NextRotation ==
    ASSUME TypeOK, PoolInv, SnapshotInv, RotationIsAtomic, [Next]_vars
    PROVE  RotationIsAtomic'
<1> SUFFICES ASSUME NEW c \in Tokens, parent'[c] # NoToken, rows'[parent'[c]] # NoRow
             PROVE  /\ rows'[parent'[c]].revoked
                    /\ rows'[c] # NoRow => rows'[c].user = rows'[parent'[c]].user
    BY DEF RotationIsAtomic
<1>1. CASE parent'[c] = parent[c]
  <2>1. c \in stored /\ parent[c] \in stored
      BY <1>1 DEF PoolInv, TableInv
  <2>2. RowAges(c) /\ RowAges(parent[c])
      BY <2>1, RowsAge
  <2> QED BY <1>1, <2>2 DEF RotationIsAtomic, RowAges
<1>2. ASSUME NEW r \in Reqs, pc[r] = "rotate", StoreRotation(r), parent'[c] # parent[c]
      PROVE  /\ rows'[parent'[c]].revoked
             /\ rows'[c] # NoRow => rows'[c].user = rows'[parent'[c]].user
  <2>1. c = fresh[r] /\ parent'[c] = arg[r]
      BY <1>2 DEF StoreRotation, TypeOK
  <2>2. arg[r] \in stored /\ arg[r] # fresh[r] /\ arg[r] \in Tokens /\ fresh[r] \in Tokens
      BY <1>2 DEF PoolInv, ClientInv, DraftInv, Refreshing, Drafting, TypeOK
  <2>3. rows'[c] = draft[r]
      BY <1>2, <2>1, <2>2 DEF StoreRotation, Rotated
  <2>4. rows[arg[r]] # NoRow /\ rows[arg[r]] \in Row
      BY <1>2, <2>1, <2>2 DEF StoreRotation, Rotated, TypeOK
  <2>5. rows'[arg[r]] = [rows[arg[r]] EXCEPT !.revoked = TRUE, !.replacedBy = fresh[r]]
      BY <1>2, <2>2, <2>4 DEF StoreRotation, Rotated
  <2>6. rows'[arg[r]].revoked /\ rows'[arg[r]].user = rows[arg[r]].user
      BY <2>4, <2>5 DEF Row
  <2>7. draft[r].user = rows[arg[r]].user
      BY <1>2, <2>4 DEF SnapshotInv
  <2> QED BY <2>1, <2>3, <2>6, <2>7
<1> QED BY <1>1, <1>2, NextTableStep DEF TableStep

\* Whatever fails, crashes or interleaves, a token whose replacement reached
\* the table is revoked (RotationIsAtomic of RefreshTokens).
THEOREM RotationAtomicity == Spec => []RotationIsAtomic
<1>1. Init => IInv
    BY InitType, InitPool DEF IInv
<1>2. IInv /\ [Next]_vars => IInv'
    BY NextType, NextTable, NextPool, NextSnapshot, NextRotation DEF IInv, PoolInv
<1>3. IInv => RotationIsAtomic
    BY DEF IInv
<1> QED BY <1>1, <1>2, <1>3, PTL DEF Spec

-----------------------------------------------------------------------------
(* Dead tokens                                                             *)

LEMMA ClockAdvances == TypeOK /\ [Next]_vars => now' \in Nat /\ now' >= now
<1> SUFFICES ASSUME TypeOK, [Next]_vars PROVE now' \in Nat /\ now' >= now
    OBVIOUS
<1>1. now \in Nat
    BY DEF TypeOK
<1>2. CASE Tick
    BY <1>1, <1>2 DEF Tick
<1>3. ASSUME ~Tick PROVE now' = now
    BY <1>3 DEF Next, vars, StartIssue, StartRefresh, Logout, RevokeAllForUser, Crash, Sweeper,
                SweeperFires, DeleteExpired, DeleteExpiredFails, SweeperStops, Handler,
                InsertIssued, IssueFails, Lookup, LookupFails, Refuse, DetectReuse, Accept,
                GenerateFails, RevokeFamily, RevokeFamilyFails, CommitRotation, RotationFails,
                Deliver, LoseReply
<1> QED BY <1>1, <1>2, <1>3

LEMMA ExpiryIsFinal ==
    ASSUME TypeOK, [Next]_vars, NEW e \in Nat, After(now, e)
    PROVE  After(now', e)
<1> DEFINE limit == e * TicksPerSecond
<1>1. limit \in Nat
    BY TimeAssumption
<1>2. now \in Nat /\ now' \in Nat /\ now' >= now
    BY ClockAdvances DEF TypeOK
<1>3. now > limit
    BY DEF After
<1> HIDE DEF limit
<1>4. now' > limit
    BY <1>1, <1>2, <1>3
<1> QED BY <1>4 DEF After, limit

LEMMA NextDead ==
    ASSUME TypeOK, PoolInv, DeadInv, [Next]_vars
    PROVE  DeadInv'
<1> SUFFICES ASSUME NEW r \in Reqs, dead'[r]
             PROVE  /\ pc'[r] = "lookup" => Refusable(rows[arg[r]])'
                    /\ pc'[r] = "check" => Refusable(seen[r])'
                    /\ pc'[r] # "rotate"
    BY DEF DeadInv
<1>1. ASSUME NEW row \in Row \cup {NoRow}, Refusable(row) PROVE Refusable(row)'
    BY <1>1, ExpiryIsFinal DEF Refusable, Row
<1>2. CASE UNCHANGED Locals(r)
  <2>1. ASSUME pc[r] = "lookup" PROVE Refusable(rows[arg[r]])'
    <3>1. arg[r] \in stored /\ arg[r] \in Tokens /\ arg'[r] = arg[r]
        BY <1>2, <2>1 DEF PoolInv, ClientInv, Refreshing, TypeOK, Locals
    <3>2. rows[arg[r]] \in Row \cup {NoRow} /\ RowAges(arg[r])
        BY <3>1, RowsAge DEF TypeOK
    <3>3. Refusable(rows[arg[r]])
        BY <1>2, <2>1 DEF DeadInv, Locals
    <3>4. rows[arg[r]] # NoRow /\ ~rows[arg[r]].revoked => After(now', rows[arg[r]].expires)
        BY <1>1, <3>2, <3>3 DEF Refusable
    <3> QED BY <3>1, <3>2, <3>4 DEF Refusable, RowAges
  <2>2. ASSUME pc[r] = "check" PROVE Refusable(seen[r])'
    <3>1. Refusable(seen[r]) /\ seen[r] \in Row \cup {NoRow} /\ seen'[r] = seen[r]
        BY <1>2, <2>2 DEF DeadInv, Locals, TypeOK
    <3> QED BY <1>1, <3>1 DEF Refusable
  <2> QED BY <1>2, <2>1, <2>2 DEF Locals, DeadInv
<1>3. ASSUME NEW t \in Tokens, StartRefresh(r, t) PROVE Refusable(rows[t])' /\ arg'[r] = t /\ pc'[r] = "lookup"
    BY <1>3 DEF StartRefresh, Goto, TypeOK, Refusable, Live, After
<1>4. CASE Lookup(r)
  <2>1. seen'[r] = rows[arg[r]] /\ pc'[r] = "check" /\ UNCHANGED <<now, dead>>
      BY <1>4 DEF Lookup, Goto, TypeOK
  <2> QED BY <1>4, <2>1 DEF Lookup, DeadInv, Refusable
<1>5. ASSUME Accept(r) PROVE FALSE
    BY <1>5 DEF Accept, Usable, DeadInv, Refusable, history
<1>6. ASSUME \/ InsertIssued(r) \/ IssueFails(r) \/ LookupFails(r) \/ Refuse(r) \/ DetectReuse(r)
             \/ GenerateFails(r) \/ RevokeFamily(r) \/ RevokeFamilyFails(r) \/ CommitRotation(r)
             \/ RotationFails(r) \/ Ended(r) \/ \E u \in Users : StartIssue(r, u)
      PROVE  pc'[r] \in {"idle", "issue", "burn", "reply"}
    BY <1>6 DEF InsertIssued, IssueFails, LookupFails, Refuse, DetectReuse, GenerateFails,
                RevokeFamily, RevokeFamilyFails, CommitRotation, RotationFails, Ended,
                StartIssue, Answer, Goto, TypeOK
<1> QED BY <1>2, <1>3, <1>4, <1>5, <1>6, LocalStep DEF Handler

\* DeadTokenNotExchanged of RefreshTokens.
THEOREM DeadTokens == Spec => []DeadTokenNotExchanged
<1>1. Init => DeadInv
    BY DEF Init, DeadInv
<1>2. TypeOK /\ PoolInv /\ DeadInv /\ [Next]_vars => DeadInv'
    BY NextDead
<1>3. DeadInv => DeadTokenNotExchanged
    BY DEF DeadInv, DeadTokenNotExchanged
<1> QED BY <1>1, <1>2, <1>3, TypeCorrect, PTL DEF Spec

-----------------------------------------------------------------------------
(* Reuse                                                                   *)

ReuseInv == KnownInv /\ ReuseReportedAfterRevocation

LEMMA NextReuse ==
    ASSUME TypeOK, PoolInv, ReuseInv, [Next]_vars
    PROVE  ReuseInv'
<1> SUFFICES ASSUME NEW r \in Reqs
             PROVE  /\ known'[r] \subseteq stored'
                    /\ out'[r] = "reuse" =>
                         \A t \in known'[r] : Live(t)' => rows'[t].user # seen'[r].user
    BY DEF ReuseInv, KnownInv, ReuseReportedAfterRevocation
<1>1. stored \subseteq stored'
    BY NextTableStep DEF TableStep, StoreIssued, StoreRotation
<1>2. known[r] \subseteq stored
    BY DEF ReuseInv, KnownInv
<1>3. CASE UNCHANGED Locals(r)
  <2>1. \A t \in known[r] : Live(t)' => Live(t) /\ rows'[t].user = rows[t].user
      BY <1>2, RowsAge DEF RowAges, Live
  <2> QED BY <1>1, <1>2, <1>3, <2>1 DEF Locals, ReuseInv, ReuseReportedAfterRevocation
<1>4. CASE Lookup(r)
  <2>1. known'[r] \subseteq stored /\ out'[r] = out[r] /\ pc[r] = "lookup"
      BY <1>4 DEF Lookup, TypeOK, PoolInv, TableInv
  <2> QED BY <1>1, <2>1 DEF PoolInv, ClientInv
<1>5. CASE RevokeFamily(r)
  <2>1. known'[r] = known[r] /\ seen'[r] = seen[r] /\ rows' = Revoked(TokensOf(seen[r].user))
      BY <1>5 DEF RevokeFamily, BurnFamily
  <2>2. ASSUME NEW t \in known[r], Live(t)', rows'[t].user = seen[r].user PROVE FALSE
    <3>1. t \in Tokens /\ RowAges(t) /\ rows[t] \in Row \cup {NoRow}
        BY <1>2, RowsAge DEF TypeOK
    <3>2. rows[t] # NoRow /\ rows[t].user = seen[r].user
        BY <2>2, <3>1 DEF RowAges, Live
    <3>3. t \in TokensOf(seen[r].user)
        BY <3>1, <3>2 DEF TokensOf
    <3>4. rows'[t].revoked
        BY <2>1, <3>1, <3>2, <3>3 DEF Revoked, Row
    <3> QED BY <2>2, <3>4 DEF Live
  <2> QED BY <1>1, <1>2, <2>1, <2>2
<1>6. CASE Ended(r)
    BY <1>6 DEF Ended
<1>7. ASSUME \/ InsertIssued(r) \/ IssueFails(r) \/ LookupFails(r) \/ Refuse(r) \/ DetectReuse(r)
             \/ Accept(r) \/ GenerateFails(r) \/ RevokeFamilyFails(r) \/ CommitRotation(r)
             \/ RotationFails(r) \/ (\E u \in Users : StartIssue(r, u))
             \/ \E t \in Tokens : StartRefresh(r, t)
      PROVE  known'[r] = known[r] /\ out'[r] # "reuse"
  <2>1. out[r] # "none" => pc[r] = "reply"
      BY DEF PoolInv, ClientInv
  <2> QED BY <1>7, <2>1 DEF InsertIssued, IssueFails, LookupFails, Refuse, DetectReuse, Accept,
              GenerateFails, RevokeFamilyFails, CommitRotation, RotationFails,
              StartIssue, StartRefresh, Answer, Goto, TypeOK, history
<1> QED BY <1>1, <1>2, <1>3, <1>4, <1>5, <1>6, <1>7, LocalStep DEF Handler

\* ReuseReportedAfterRevocation of RefreshTokens.
THEOREM ReuseReported == Spec => []ReuseReportedAfterRevocation
<1>1. Init => ReuseInv
    BY DEF Init, ReuseInv, KnownInv, ReuseReportedAfterRevocation
<1>2. TypeOK /\ PoolInv /\ ReuseInv /\ [Next]_vars => ReuseInv'
    BY NextReuse
<1>3. ReuseInv => ReuseReportedAfterRevocation
    BY DEF ReuseInv
<1> QED BY <1>1, <1>2, <1>3, TypeCorrect, PTL DEF Spec

-----------------------------------------------------------------------------
(* Serial clients                                                          *)

SerialIInv == SerialInv /\ RotatedOnce /\ EveryReplacementChained

LEMMA RefreshingBefore ==
    ASSUME TypeOK, [Next]_vars, NEW r \in Reqs, Refreshing(r)'
    PROVE  (Refreshing(r) /\ arg'[r] = arg[r]) \/ \E t \in Tokens : StartRefresh(r, t)
<1>1. CASE UNCHANGED Locals(r)
    BY <1>1 DEF Locals, Refreshing
<1>2. CASE Handler(r) /\ ~Deliver(r) /\ ~LoseReply(r)
  <2>1. Lookup(r) \/ DetectReuse(r) \/ Accept(r)
      BY <1>2 DEF Handler, InsertIssued, IssueFails, LookupFails, Refuse, GenerateFails,
                  RevokeFamily, RevokeFamilyFails, CommitRotation, RotationFails,
                  Answer, Goto, TypeOK, Refreshing
  <2> QED BY <2>1 DEF Lookup, DetectReuse, Accept, Refreshing
<1>3. CASE Ended(r) \/ \E u \in Users : StartIssue(r, u)
    BY <1>3 DEF Ended, StartIssue, Goto, TypeOK, Refreshing
<1> QED BY <1>1, <1>2, <1>3, LocalStep

LEMMA ContendedGrows == [Next]_vars => contended \subseteq contended'
BY DEF Next, vars, history, Tick, StartIssue, StartRefresh, Logout, RevokeAllForUser, Crash,
       Sweeper, SweeperFires, DeleteExpired, DeleteExpiredFails, SweeperStops, Handler,
       InsertIssued, IssueFails, Lookup, LookupFails, Refuse, DetectReuse, Accept,
       GenerateFails, RevokeFamily, RevokeFamilyFails, CommitRotation, RotationFails,
       Deliver, LoseReply, EndRequests

LEMMA NextOneRefresh ==
    ASSUME TypeOK, SerialInv, [Next]_vars
    PROVE  \A q, r \in Reqs : Refreshing(q)' /\ Refreshing(r)' /\ arg'[q] = arg'[r] =>
                                  q = r \/ arg'[r] \in contended'
<1> SUFFICES ASSUME NEW q \in Reqs, NEW r \in Reqs, Refreshing(q)', Refreshing(r)',
                    arg'[q] = arg'[r], q # r
             PROVE  arg'[r] \in contended'
    OBVIOUS
<1>1. ASSUME NEW a \in Reqs, NEW b \in Reqs, a # b, NEW t \in Tokens, StartRefresh(a, t),
             Refreshing(b)', arg'[a] = arg'[b]
      PROVE  arg'[a] \in contended'
  <2>1. arg'[a] = t /\ arg'[b] = arg[b] /\ pc'[b] = pc[b]
      BY <1>1 DEF StartRefresh, Goto, TypeOK
  <2> QED BY <1>1, <2>1 DEF StartRefresh, Refreshing
<1>2. CASE (Refreshing(q) /\ arg'[q] = arg[q]) /\ (Refreshing(r) /\ arg'[r] = arg[r])
    BY <1>2, ContendedGrows DEF SerialInv
<1>3. ASSUME NEW t \in Tokens, StartRefresh(q, t) \/ StartRefresh(r, t)
      PROVE  arg'[r] \in contended'
    BY <1>1, <1>3
<1> QED BY <1>2, <1>3, RefreshingBefore

LEMMA NextClaims ==
    ASSUME TypeOK, PoolInv, RotationIsAtomic, SerialInv, [Next]_vars,
           NEW r \in Reqs, Claims(r)', arg'[r] \notin contended', NEW c \in Tokens
    PROVE  parent'[c] # arg'[r]
<1> arg'[r] \notin contended
    BY ContendedGrows
<1>1. CASE Lookup(r)
  <2>1. /\ seen'[r] = rows[arg[r]] /\ arg'[r] = arg[r] /\ parent' = parent /\ pc'[r] = "check"
        /\ arg[r] \in stored
      BY <1>1 DEF Lookup, Goto, TypeOK, PoolInv, ClientInv, Refreshing
  <2>2. rows[arg[r]] # NoRow /\ ~rows[arg[r]].revoked /\ arg[r] # NoToken
      BY <2>1, SentinelAssumption DEF Claims, TypeOK
  <2> QED BY <2>1, <2>2 DEF RotationIsAtomic
<1>2. CASE Accept(r)
    BY <1>2 DEF Accept, Usable, SerialInv, Claims, history
<1>3. CASE UNCHANGED Locals(r)
  <2>1. Claims(r) /\ arg'[r] = arg[r] /\ pc'[r] = pc[r] /\ Refreshing(r)
      BY <1>3 DEF Claims, Locals, Refreshing
  <2>2. ASSUME NEW q \in Reqs, pc[q] = "rotate", StoreRotation(q), Goto(q, "reply")
        PROVE  parent'[c] # arg'[r]
    <3>1. q # r
        BY <2>1, <2>2 DEF Goto, TypeOK
    <3>2. arg[q] # arg[r]
        BY <2>1, <2>2, <3>1 DEF SerialInv, Refreshing
    <3> QED BY <2>1, <2>2, <3>2 DEF StoreRotation, SerialInv, TypeOK
  <2>3. CASE parent' = parent
      BY <2>1, <2>3 DEF SerialInv
  <2> QED BY <2>2, <2>3, NextTableStep DEF TableStep
<1>4. ASSUME \/ InsertIssued(r) \/ IssueFails(r) \/ LookupFails(r) \/ Refuse(r) \/ DetectReuse(r)
             \/ GenerateFails(r) \/ RevokeFamily(r) \/ RevokeFamilyFails(r) \/ CommitRotation(r)
             \/ RotationFails(r) \/ Ended(r) \/ (\E u \in Users : StartIssue(r, u))
             \/ \E t \in Tokens : StartRefresh(r, t)
      PROVE  pc'[r] \in {"idle", "issue", "lookup", "burn", "reply"}
    BY <1>4 DEF InsertIssued, IssueFails, LookupFails, Refuse, DetectReuse, GenerateFails,
                RevokeFamily, RevokeFamilyFails, CommitRotation, RotationFails, Ended,
                StartIssue, StartRefresh, Answer, Goto, TypeOK
<1> QED BY <1>1, <1>2, <1>3, <1>4, LocalStep DEF Handler, Claims

LEMMA NextChained ==
    ASSUME TypeOK, PoolInv, SerialIInv, [Next]_vars
    PROVE  RotatedOnce' /\ EveryReplacementChained'
<1> USE DEF SerialIInv, RotatedOnce, EveryReplacementChained
<1> contended \subseteq contended'
    BY ContendedGrows
<1>1. CASE UNCHANGED <<rows, stored, parent>>
    BY <1>1
<1>2. ASSUME NEW r \in Reqs, pc[r] = "issue", StoreIssued(r), UNCHANGED parent
      PROVE  RotatedOnce' /\ EveryReplacementChained'
  <2>1. \A c \in Tokens : parent[c] # fresh[r]
      BY <1>2, SentinelAssumption DEF PoolInv, TableInv, DraftInv, Drafting
  <2>2. \A c \in Tokens : parent[c] # NoToken => rows'[parent[c]] = rows[parent[c]]
      BY <1>2, <2>1 DEF StoreIssued, TypeOK
  <2> QED BY <1>2, <2>2
<1>3. ASSUME NEW r \in Reqs, pc[r] = "rotate", StoreRotation(r)
      PROVE  RotatedOnce' /\ EveryReplacementChained'
  <2>1. /\ fresh[r] \in Tokens \ stored /\ arg[r] \in stored /\ arg[r] \in Tokens
        /\ \A c \in Tokens : parent[c] # fresh[r]
        /\ arg[r] \notin contended => \A c \in Tokens : parent[c] # arg[r]
      BY <1>3, SentinelAssumption DEF PoolInv, TableInv, DraftInv, ClientInv, Drafting,
                                      Refreshing, SerialInv, Claims, TypeOK
  <2>2. RotatedOnce'
      BY <1>3, <2>1 DEF StoreRotation, TypeOK
  <2>3. ASSUME NEW c \in Tokens, parent'[c] \notin {NoToken} \cup contended',
               rows'[parent'[c]] # NoRow
        PROVE  rows'[parent'[c]].replacedBy = c
    <3>1. CASE c = fresh[r]
      <4>1. parent'[c] = arg[r]
          BY <1>3, <2>1, <3>1 DEF StoreRotation, TypeOK
      <4>2. rows[arg[r]] \in Row
          BY <1>3, <2>1, <2>3, <4>1 DEF StoreRotation, Rotated, TypeOK
      <4> QED BY <1>3, <2>1, <2>3, <3>1, <4>1, <4>2 DEF StoreRotation, Rotated, Row
    <3>2. CASE c # fresh[r]
      <4>1. parent'[c] = parent[c] /\ parent[c] \in Tokens
          BY <1>3, <2>3, <3>2 DEF StoreRotation, TypeOK
      <4>2. parent[c] \notin {NoToken} \cup contended /\ parent[c] \notin {arg[r], fresh[r]}
          BY <2>1, <2>3, <4>1
      <4>3. rows'[parent[c]] = rows[parent[c]]
          BY <1>3, <4>1, <4>2 DEF StoreRotation, Rotated
      <4> QED BY <2>3, <4>1, <4>2, <4>3
    <3> QED BY <3>1, <3>2
  <2> QED BY <2>2, <2>3
<1>4. ASSUME UNCHANGED parent,
             \A t \in Tokens : rows'[t] # NoRow => /\ rows[t] # NoRow
                                                  /\ rows'[t].replacedBy = rows[t].replacedBy
      PROVE  RotatedOnce' /\ EveryReplacementChained'
    BY <1>4 DEF TypeOK
<1>5. ASSUME NEW S \in SUBSET Tokens, rows' = Revoked(S), NEW t \in Tokens, rows'[t] # NoRow
      PROVE  rows[t] # NoRow /\ rows'[t].replacedBy = rows[t].replacedBy
    BY <1>5 DEF Revoked, TypeOK, Row
<1>6. ASSUME rows' = Swept(cutoff), NEW t \in Tokens, rows'[t] # NoRow
      PROVE  rows[t] # NoRow /\ rows'[t].replacedBy = rows[t].replacedBy
    BY <1>6 DEF Swept
<1> QED BY <1>1, <1>2, <1>3, <1>4, <1>5, <1>6, NextTableStep DEF TableStep

\* A token of which no two refreshes were in flight at once is exchanged once,
\* and the chain leads from its replacement back to it (RotatedOnce and
\* EveryReplacementChained of RefreshTokens).
THEOREM SerialRotation == Spec => [](RotatedOnce /\ EveryReplacementChained)
<1>1. Init => IInv /\ SerialIInv
    BY InitType, InitPool DEF IInv, SerialIInv, Init, SerialInv, RotatedOnce,
                              EveryReplacementChained, Refreshing, Claims
<1>2. IInv /\ SerialIInv /\ [Next]_vars => (IInv /\ SerialIInv)'
  <2> SUFFICES ASSUME IInv, SerialIInv, [Next]_vars PROVE IInv' /\ SerialIInv'
      OBVIOUS
  <2>1. IInv'
      BY NextType, NextTable, NextPool, NextSnapshot, NextRotation DEF IInv, PoolInv
  <2>2. SerialInv'
      BY NextOneRefresh, NextClaims DEF IInv, SerialIInv, SerialInv
  <2> QED BY <2>1, <2>2, NextChained DEF IInv, SerialIInv
<1>3. SerialIInv => RotatedOnce /\ EveryReplacementChained
    BY DEF SerialIInv
<1> QED BY <1>1, <1>2, <1>3, PTL DEF Spec

-----------------------------------------------------------------------------
(* Cleanup                                                                 *)

CutoffInv == cutoff <= now

LEMMA NextCutoff == TypeOK /\ CutoffInv /\ [Next]_vars => CutoffInv'
<1> SUFFICES ASSUME TypeOK, CutoffInv, [Next]_vars PROVE CutoffInv'
    OBVIOUS
<1>1. /\ now \in Nat /\ cutoff \in Nat /\ now' \in Nat /\ now' >= now /\ cutoff <= now
    BY ClockAdvances DEF TypeOK, CutoffInv
<1>2. cutoff' = cutoff \/ (cutoff' = now /\ now' = now)
    BY DEF Next, vars, cleanup, Tick, StartIssue, StartRefresh, Logout, RevokeAllForUser, Crash,
           Sweeper, SweeperFires, DeleteExpired, DeleteExpiredFails, SweeperStops, Handler,
           InsertIssued, IssueFails, Lookup, LookupFails, Refuse, DetectReuse, Accept,
           GenerateFails, RevokeFamily, RevokeFamilyFails, CommitRotation, RotationFails,
           Deliver, LoseReply
<1> QED BY <1>1, <1>2 DEF CutoffInv

\* A row whose second is past the cutoff's second is refused at the cutoff.
LEMMA SecondsRoundDown ==
    ASSUME NEW e \in Nat, NEW c \in Nat, NEW t \in Nat, c <= t, e < Unix(c)
    PROVE  After(t, e)
<1> DEFINE k == TicksPerSecond
<1>1. k \in Nat \ {0}
    BY TimeAssumption
<1>2. e < c \div k
    BY DEF Unix
<1> HIDE DEF k
<1>3. c > e * k
    BY <1>1, <1>2
<1>4. e * k \in Nat
    BY <1>1
<1>5. t > e * k
    BY <1>3, <1>4
<1> QED BY <1>5 DEF After, k

\* DeleteExpired removes only rows that no handler would accept any more
\* (KeptUntilExpired of RefreshTokens).
THEOREM ExpiryBeforeDeletion == Spec => KeptUntilExpired
<1> DEFINE Kept == \A t \in Tokens :
                      rows[t] # NoRow /\ rows'[t] = NoRow => After(now, rows[t].expires)
<1>1. TypeOK /\ PoolInv /\ CutoffInv /\ [Next]_vars => [Kept]_vars
  <2> SUFFICES ASSUME TypeOK, PoolInv, CutoffInv, [Next]_vars,
                      NEW t \in Tokens, rows[t] # NoRow, rows'[t] = NoRow
               PROVE  After(now, rows[t].expires)
      OBVIOUS
  <2>1. t \in stored /\ rows[t] \in Row
      BY DEF PoolInv, TableInv, TypeOK
  <2>2. rows' = Swept(cutoff)
    <3>1. CASE UNCHANGED rows
        BY <3>1
    <3>2. ASSUME NEW r \in Reqs, pc[r] = "issue", StoreIssued(r) PROVE FALSE
        BY <2>1, <3>2 DEF StoreIssued, TypeOK, PoolInv, DraftInv, Drafting
    <3>3. ASSUME NEW r \in Reqs, pc[r] = "rotate", StoreRotation(r) PROVE FALSE
      <4>1. t # fresh[r]
          BY <2>1, <3>3 DEF PoolInv, DraftInv, Drafting
      <4>2. [rows[t] EXCEPT !.revoked = TRUE, !.replacedBy = fresh[r]] # NoRow
          BY <2>1, <3>3, NoRowAssumption DEF Row, PoolInv, DraftInv, Drafting
      <4> QED BY <3>3, <4>1, <4>2 DEF StoreRotation, Rotated
    <3>4. ASSUME NEW S \in SUBSET Tokens, rows' = Revoked(S) PROVE FALSE
      <4>1. [rows[t] EXCEPT !.revoked = TRUE] # NoRow
          BY <2>1, NoRowAssumption DEF Row
      <4> QED BY <3>4, <4>1 DEF Revoked
    <3> QED BY <3>1, <3>2, <3>3, <3>4, NextTableStep DEF TableStep
  <2>3. rows[t].expires < Unix(cutoff)
      BY <2>2 DEF Swept
  <2>4. rows[t].expires \in Nat /\ cutoff \in Nat /\ now \in Nat /\ cutoff <= now
      BY <2>1 DEF Row, TypeOK, CutoffInv
  <2> QED BY <2>3, <2>4, SecondsRoundDown
<1>2. Init => CutoffInv
    BY DEF Init, CutoffInv
<1> QED BY <1>1, <1>2, NextCutoff, TypeCorrect, PTL DEF Spec, KeptUntilExpired

-----------------------------------------------------------------------------
(* Refinement                                                              *)

LEMMA NextLifecycle ==
    ASSUME TypeOK, PoolInv, [Next]_vars
    PROVE  Lifecycle!Next \/ UNCHANGED Lifecycle!vars
<1>1. Status \in [Tokens -> {"unissued", "live", "revoked", "purged"}]
    BY DEF Status
<1>2. CASE UNCHANGED <<rows, stored, parent>>
    BY <1>2 DEF Lifecycle!vars, Status
<1>3. ASSUME NEW r \in Reqs, pc[r] = "issue", StoreIssued(r), UNCHANGED parent
      PROVE  Lifecycle!Next
  <2>1. fresh[r] \in Tokens \ stored /\ draft[r] \in Row /\ ~draft[r].revoked
        /\ rows[fresh[r]] = NoRow
      BY <1>3 DEF PoolInv, TableInv, DraftInv, Drafting
  <2>2. Status[fresh[r]] = "unissued"
      BY <2>1 DEF Status
  <2>3. Status' = [Status EXCEPT ![fresh[r]] = "live"]
      BY <1>3, <2>1, NoRowAssumption DEF StoreIssued, Status, TypeOK
  <2>4. Lifecycle!Issue(fresh[r])
      BY <1>3, <2>2, <2>3 DEF Lifecycle!Issue
  <2> QED BY <2>1, <2>4 DEF Lifecycle!Next
<1>4. ASSUME NEW r \in Reqs, pc[r] = "rotate", StoreRotation(r)
      PROVE  Lifecycle!Next
  <2> DEFINE p == arg[r]
             c == fresh[r]
  <2>1. /\ c \in Tokens \ stored /\ draft[r] \in Row /\ ~draft[r].revoked
        /\ rows[c] = NoRow /\ p \in Tokens /\ p \in stored
      BY <1>4 DEF PoolInv, TableInv, DraftInv, ClientInv, Drafting, Refreshing, TypeOK
  <2>2. Status[c] = "unissued" /\ Status[p] # "unissued"
      BY <2>1 DEF Status
  <2>3. Status'[c] = "live"
      BY <1>4, <2>1, NoRowAssumption DEF StoreRotation, Rotated, Status
  <2>4. Status'[p] = IF Status[p] = "purged" THEN "purged" ELSE "revoked"
    <3>1. CASE rows[p] = NoRow
        BY <1>4, <2>1, <3>1 DEF StoreRotation, Rotated, Status
    <3>2. CASE rows[p] # NoRow
      <4>1. rows[p] \in Row
          BY <2>1, <3>2 DEF TypeOK
      <4>2. rows'[p] = [rows[p] EXCEPT !.revoked = TRUE, !.replacedBy = c]
          BY <1>4, <2>1, <3>2 DEF StoreRotation, Rotated
      <4>3. rows'[p] \in Row /\ rows'[p].revoked
          BY <2>1, <4>1, <4>2 DEF Row
      <4> QED BY <2>1, <3>2, <4>3, NoRowAssumption DEF Status
    <3> QED BY <3>1, <3>2
  <2>5. ASSUME NEW t \in Tokens, t # c, t # p PROVE Status'[t] = Status[t]
    <3>1. rows'[t] = rows[t] /\ (t \in stored' <=> t \in stored)
        BY <1>4, <2>5 DEF StoreRotation, Rotated
    <3> QED BY <3>1 DEF Status
  <2>6. Status' = [Status EXCEPT ![c] = "live",
                                 ![p] = IF @ = "purged" THEN @ ELSE "revoked"]
    <3>1. Status' \in [Tokens -> {"unissued", "live", "revoked", "purged"}]
        BY DEF Status
    <3> HIDE DEF p, c
    <3> QED BY <1>1, <2>1, <2>3, <2>4, <2>5, <3>1
  <2>7. Lifecycle!Replace(p, c)
      BY <1>4, <2>2, <2>6 DEF Lifecycle!Replace, StoreRotation
  <2> QED BY <2>1, <2>7 DEF Lifecycle!Next
<1>5. ASSUME NEW S \in SUBSET Tokens, rows' = Revoked(S), UNCHANGED <<stored, parent>>
      PROVE  Lifecycle!Next
  <2> DEFINE L == {t \in S : Status[t] = "live"}
  <2>1. ASSUME NEW t \in Tokens
        PROVE  Status'[t] = IF t \in L THEN "revoked" ELSE Status[t]
    <3>1. CASE rows[t] = NoRow
        BY <1>5, <3>1 DEF Revoked, Status
    <3>2. CASE rows[t] # NoRow
      <4>1. rows[t] \in Row
          BY <3>2 DEF TypeOK
      <4>2. [rows[t] EXCEPT !.revoked = TRUE] \in Row /\ [rows[t] EXCEPT !.revoked = TRUE].revoked
          BY <4>1 DEF Row
      <4> QED BY <1>5, <3>2, <4>2, NoRowAssumption DEF Revoked, Status
    <3> QED BY <3>1, <3>2
  <2>2. Status' = [t \in Tokens |-> IF t \in L THEN "revoked" ELSE Status[t]]
    <3> HIDE DEF L
    <3> QED BY <2>1 DEF Status
  <2>3. Lifecycle!Revoke(L)
      BY <1>5, <2>2 DEF Lifecycle!Revoke
  <2> QED BY <2>3 DEF Lifecycle!Next
<1>6. ASSUME rows' = Swept(cutoff), UNCHANGED <<stored, parent>> PROVE Lifecycle!Next
  <2> DEFINE G == {t \in Tokens : rows[t] # NoRow /\ rows'[t] = NoRow}
  <2>1. \A t \in Tokens : t \in G => Status[t] \in {"live", "revoked"}
      BY DEF Status
  <2>2. ASSUME NEW t \in Tokens
        PROVE  Status'[t] = IF t \in G THEN "purged" ELSE Status[t]
    <3>1. rows[t] # NoRow => t \in stored
        BY DEF PoolInv, TableInv
    <3> QED BY <1>6, <3>1 DEF Swept, Status
  <2>3. Status' = [t \in Tokens |-> IF t \in G THEN "purged" ELSE Status[t]]
    <3> HIDE DEF G
    <3> QED BY <2>2 DEF Status
  <2>4. Lifecycle!Purge(G)
      BY <1>6, <2>1, <2>3 DEF Lifecycle!Purge
  <2> QED BY <2>4 DEF Lifecycle!Next
<1> QED BY <1>2, <1>3, <1>4, <1>5, <1>6, NextTableStep DEF TableStep

\* RefreshTokens implements TokenLifecycle.
THEOREM LifecycleRefinement == Spec => ImplementsLifecycle
<1>1. Init => Lifecycle!Init
    BY DEF Init, Lifecycle!Init, Status
<1>2. TypeOK /\ PoolInv /\ [Next]_vars => [Lifecycle!Next]_(Lifecycle!vars)
    BY NextLifecycle
<1> QED BY <1>1, <1>2, TypeCorrect, PTL DEF Spec, ImplementsLifecycle, Lifecycle!Spec
-----------------------------------------------------------------------------
(* Chains                                                                  *)

\* Among any tokens there is one that replaced none of them.
ChainsGrounded == \A S \in SUBSET Tokens : S # {} => \E t \in S : parent[t] \notin S

LEMMA ChainGrows ==
    ASSUME TypeOK, PoolInv, ChainsGrounded, NEW c \in Tokens \ stored, NEW p \in stored,
           parent' = [parent EXCEPT ![c] = p]
    PROVE  ChainsGrounded'
<1>1. parent'[c] = p /\ \A t \in Tokens : t # c => parent'[t] = parent[t]
    BY DEF TypeOK
<1>2. p # c /\ c # NoToken /\ \A t \in Tokens : parent[t] # c
    BY SentinelAssumption DEF PoolInv, TableInv
<1>3. ASSUME NEW S \in SUBSET Tokens, S # {} PROVE \E t \in S : parent'[t] \notin S
  <2>1. CASE S \subseteq {c}
      BY <1>1, <1>2, <1>3, <2>1
  <2>2. CASE ~(S \subseteq {c})
    <3>1. PICK t \in S \ {c} : parent[t] \notin S \ {c}
        BY <2>2 DEF ChainsGrounded
    <3> QED BY <1>1, <1>2, <3>1
  <2> QED BY <2>1, <2>2
<1> QED BY <1>3 DEF ChainsGrounded

\* Whatever is retried, lost or interleaved, the chain of replacements of every
\* token leads back to a login: no token comes to be, by however many refreshes,
\* its own replacement (Rotate, auth/refresh/service.go).
THEOREM ChainsLeadToLogins == Spec => []ChainsGrounded
<1>1. Init => ChainsGrounded
    BY SentinelAssumption DEF Init, ChainsGrounded
<1>2. ASSUME TypeOK, PoolInv, ChainsGrounded, [Next]_vars PROVE ChainsGrounded'
  <2>1. CASE UNCHANGED parent
      BY <1>2, <2>1 DEF ChainsGrounded
  <2>2. ASSUME NEW r \in Reqs, pc[r] = "rotate", StoreRotation(r) PROVE ChainsGrounded'
    <3>1. fresh[r] \in Tokens \ stored /\ arg[r] \in stored
        BY <1>2, <2>2 DEF PoolInv, DraftInv, ClientInv, Drafting, Refreshing
    <3> QED BY <1>2, <2>2, <3>1, ChainGrows DEF StoreRotation
  <2> QED BY <1>2, <2>1, <2>2, NextTableStep DEF TableStep
<1> QED BY <1>1, <1>2, TypeCorrect, PTL DEF Spec

\* No step gives a token back a row that is not revoked.
NoTokenReturns == [][\A t \in Tokens : t \in stored /\ ~Live(t) => ~Live(t)']_vars

\* A token that was revoked or deleted never comes back: no insert, no rotation,
\* nor a statement that takes effect though it reports an error, writes over its
\* row (auth/refresh/service.go).
THEOREM EndedForGood == Spec => NoTokenReturns
<1>1. ASSUME TypeOK, PoolInv, [Next]_vars, NEW t \in Tokens, t \in stored, ~Live(t)
      PROVE  ~Live(t)'
  <2> USE NoRowAssumption DEF Live
  <2>1. CASE UNCHANGED <<rows, stored, parent>>
      BY <1>1, <2>1
  <2>2. ASSUME NEW r \in Reqs, pc[r] = "issue", StoreIssued(r) PROVE ~Live(t)'
    <3>1. fresh[r] # t
        BY <1>1, <2>2 DEF PoolInv, DraftInv, Drafting
    <3> QED BY <1>1, <2>2, <3>1 DEF StoreIssued, TypeOK
  <2>3. ASSUME NEW r \in Reqs, pc[r] = "rotate", StoreRotation(r) PROVE ~Live(t)'
    <3>1. fresh[r] # t
        BY <1>1, <2>3 DEF PoolInv, DraftInv, Drafting
    <3>2. CASE t = arg[r] /\ rows[t] # NoRow
      <4>1. rows'[t] = [rows[t] EXCEPT !.revoked = TRUE, !.replacedBy = fresh[r]]
          BY <2>3, <3>1, <3>2 DEF StoreRotation, Rotated
      <4>2. rows[t] \in Row
          BY <1>1, <3>2 DEF TypeOK
      <4>3. rows'[t].revoked
          BY <4>1, <4>2 DEF Row
      <4> QED BY <4>3
    <3>3. CASE ~(t = arg[r] /\ rows[t] # NoRow)
      <4>1. rows'[t] = rows[t]
          BY <2>3, <3>1, <3>3 DEF StoreRotation, Rotated
      <4> QED BY <1>1, <4>1
    <3> QED BY <3>2, <3>3
  <2>4. ASSUME NEW S \in SUBSET Tokens, rows' = Revoked(S) PROVE ~Live(t)'
      BY <1>1, <2>4 DEF Revoked, TypeOK, Row
  <2>5. CASE rows' = Swept(cutoff)
      BY <1>1, <2>5 DEF Swept
  <2> QED BY <1>1, <2>1, <2>2, <2>3, <2>4, <2>5, NextTableStep DEF TableStep
<1>2. TypeOK /\ PoolInv /\ [Next]_vars
        => [\A t \in Tokens : t \in stored /\ ~Live(t) => ~Live(t)']_vars
    BY <1>1
<1> QED BY <1>2, TypeCorrect, PTL DEF Spec, NoTokenReturns
=============================================================================
