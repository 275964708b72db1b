------------------------------- MODULE MCCrud -------------------------------
(* A resource with drafts, trashed rows and private notes, and three kinds *)
(* of callers.                                                             *)
EXTENDS Crud, TLC

Symmetry == Permutations(Reqs)

Article(status, notes) ==
    [f \in Fields |-> CASE f = "status" -> status [] f = "notes" -> notes [] OTHER -> Zero]

Saved(status, notes) == [Article(status, notes) EXCEPT !["created"] = "now"]

MCRolesOf == [u \in Users |-> CASE u = "reader" -> {"reader"}
                                [] u = "editor" -> {"editor"}
                                [] u = "admin" -> {"admin"}
                                [] OTHER -> {}]
MCHierarchy == [r \in Roles |-> CASE r = "admin" -> {"editor"}
                                  [] r = "editor" -> {"reader"}
                                  [] OTHER -> {}]
MCReadTag == [f \in Tagged |-> IF f = "notes" THEN <<"none", "editor">> ELSE <<"*">>]
MCWriteTag == [f \in Tagged |-> IF f = "notes" THEN <<"any">> ELSE <<"editor">>]

\* Drafts are for those who may read notes; only they see what is trashed.
MCMayRead(u, row) == row["status"] # Zero \/ Reads(u, "notes")
MCInScope(u, row) == row["status"] # "trashed" \/ u \notin Scoped
MCEnriched(row) == {row, [row EXCEPT !["status"] = "trashed"]}

MCDefault == [f \in Fields |-> IF f = "created" THEN "now" ELSE Zero]

MCTables == {[i \in Ids |-> NoRow],
             [i \in Ids |-> IF i = 2 THEN Saved(Zero, "n") ELSE Saved("public", "n")],
             [i \in Ids |-> IF i = 1 THEN Saved("trashed", Zero) ELSE Saved("public", "n")]}

Anything == [op |-> "getAll", user |-> "reader", id |-> 0, ids |-> {}, body |-> Blank,
             limit |-> -1, page |-> -1, count |-> TRUE]

Writers == Users \ {"guest"}
Readers == Users \ {"admin"}

MCCalls ==
    UNION {
      {[Anything EXCEPT !.op = "create", !.user = u, !.id = i, !.body = b] :
          u \in Users, i \in {0, 3}, b \in {Article(Zero, "n"), Article("public", "n")}},
      {[Anything EXCEPT !.op = "update", !.user = u, !.id = i, !.body = b] :
          u \in Writers, i \in {0, 2}, b \in {Article(Zero, "n"), Article("public", Zero)}},
      {[Anything EXCEPT !.op = "delete", !.user = u, !.id = 1] : u \in Writers},
      {[Anything EXCEPT !.op = "getByID", !.user = u, !.id = i] : u \in Readers, i \in {1, 2}},
      {[Anything EXCEPT !.op = "getByIDs", !.user = u, !.ids = {1, 2}] : u \in Readers},
      {[Anything EXCEPT !.user = u, !.limit = l, !.page = p, !.count = k] :
          u \in Readers, l \in {-1, 0, 1}, p \in {0, 3}, k \in BOOLEAN}}
=============================================================================
