----------------------------- MODULE MCAccounts -----------------------------
(* One old account, two addresses, three passwords of which the policy     *)
(* takes one and the command two, and a role that inherits another.        *)
EXTENDS Accounts, TLC

Symmetry == Permutations(Procs)

MCInitialUsers == [i \in Old |-> [email |-> "e1", password |-> "secret"]]
MCHierarchy == [r \in Roles |-> IF r = "editor" THEN {"reader"} ELSE {}]

Someone == CHOOSE i \in Old : TRUE
C(kind, email, password, id, role) ==
    [kind |-> kind, email |-> email, password |-> password, id |-> id, role |-> role]

MCCalls ==
    {C("register", e, "long secret", Someone, "admin") : e \in Emails}
    \cup {C("register", "e2", "secret", Someone, "admin")}
    \cup {C("create", "e2", w, Someone, "admin") : w \in {"pw", "secret"}}
    \cup {C("login", "e1", w, Someone, "admin") : w \in {"long secret", "secret"}}
    \cup {C("resetByID", "e1", "long secret", Someone, "admin")}
    \cup {C("resetByEmail", "e2", w, Someone, "admin") : w \in {"long secret", "pw"}}
    \cup {C("promote", "e1", "pw", Someone, r) : r \in {"editor", "ghost"}}
    \cup {C("promote", "e1", "pw", Malformed, "editor")}
    \cup {C("demote", "e1", "pw", Someone, "editor")}
    \cup {C("request", "e1", "pw", Someone, "admin")}
=============================================================================
