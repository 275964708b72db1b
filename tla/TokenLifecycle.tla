--------------------------- MODULE TokenLifecycle ---------------------------
(***************************************************************************)
(* What auth/refresh promises about a refresh token, without handlers,     *)
(* statements or clocks: a token is issued once, becomes revoked at the    *)
(* same instant its replacement appears, and never comes back.             *)
(***************************************************************************)
CONSTANTS Tokens, NoToken

VARIABLES status,  \* the life of each token
          origin   \* the token each one replaced, NoToken after a login

vars == <<status, origin>>

Init == /\ status = [t \in Tokens |-> "unissued"]
        /\ origin = [t \in Tokens |-> NoToken]

\* A login or a registration.
Issue(t) == /\ status[t] = "unissued"
            /\ status' = [status EXCEPT ![t] = "live"]
            /\ UNCHANGED origin

\* A refresh.  The old token may have been revoked or deleted since it was
\* checked; it cannot still be live afterwards.
Replace(p, c) ==
    /\ status[c] = "unissued"
    /\ status[p] # "unissued"
    /\ status' = [status EXCEPT ![c] = "live",
                                ![p] = IF @ = "purged" THEN @ ELSE "revoked"]
    /\ origin' = [origin EXCEPT ![c] = p]

\* A logout, a detected reuse, a revocation by the application.
Revoke(S) == /\ \A t \in S : status[t] = "live"
             /\ status' = [t \in Tokens |-> IF t \in S THEN "revoked" ELSE status[t]]
             /\ UNCHANGED origin

\* The cleanup of expired rows.
Purge(S) == /\ \A t \in S : status[t] \in {"live", "revoked"}
            /\ status' = [t \in Tokens |-> IF t \in S THEN "purged" ELSE status[t]]
            /\ UNCHANGED origin

Next == \/ \E t \in Tokens : Issue(t)
        \/ \E p, c \in Tokens : Replace(p, c)
        \/ \E S \in SUBSET Tokens : Revoke(S) \/ Purge(S)

Spec == Init /\ [][Next]_vars
=============================================================================
