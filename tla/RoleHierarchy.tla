--------------------------- MODULE RoleHierarchy ---------------------------
(***************************************************************************)
(* Roles that inherit roles, as rbac/hierarchy.go expands them.            *)
(***************************************************************************)

CONSTANTS
    Roles,
    Hierarchy   \* the roles a role inherits

\* Every role reached from the given ones: the least set that holds them and
\* what each of its members inherits.  A cycle ends the expansion quietly.
ResolveRoles(roles) ==
    {r \in Roles : \A S \in SUBSET Roles :
        (roles \subseteq S /\ \A s \in S : Hierarchy[s] \subseteq S) => r \in S}

HasAnyRole(roles, required) == ResolveRoles(roles) \cap required # {}
=============================================================================
