-------------------------------- MODULE Rbac --------------------------------
(***************************************************************************)
(* The rights of a caller, as the voter of rbac/ and DefaultAuthorization  *)
(* of hooks/ work them out: the roles of the request's context, expanded   *)
(* by the role hierarchy, against the rbac tags of a model's fields.       *)
(***************************************************************************)
EXTENDS RoleHierarchy, Naturals, Sequences

CONSTANTS
    Users, Fields, Values,
    Zero,              \* the zero value of a field's type
    RolesOf,           \* the roles in the context of each caller's requests
    SuperuserRole,
    AllowAll,          \* DefaultPolicy is allow_all
    Tagged,            \* fields with an rbac tag
    ReadTag, WriteTag, \* the entries of their tags, in order
    AllowUntagged,     \* DefaultFieldPolicy is allow
    StrictValidation

\* Entries of a tag that are not names of roles.
Special == {"*", "any", "none"}

ASSUME RbacAssumption ==
    /\ Zero \notin Values
    /\ RolesOf \in [Users -> SUBSET Roles]
    /\ Hierarchy \in [Roles -> SUBSET Roles]
    /\ SuperuserRole \in Roles
    /\ Roles \cap Special = {}
    /\ Tagged \subseteq Fields
    /\ ReadTag \in [Tagged -> Seq(Roles \cup Special)]
    /\ WriteTag \in [Tagged -> Seq(Roles \cup Special)]
    /\ {AllowAll, AllowUntagged, StrictValidation} \subseteq BOOLEAN

\* A model: a value for each of its fields.
Row == [Fields -> Values \cup {Zero}]

EffectiveRoles(u) == ResolveRoles(RolesOf[u])

IsSuperuser(u) == SuperuserRole \in EffectiveRoles(u)

\* The first entry that decides: "*" grants, "any" grants to whoever has a
\* role and refuses the others, a role grants to its holders.
HasPermission(tag, roles) ==
    \E i \in DOMAIN tag :
        /\ \/ tag[i] = "*"
           \/ tag[i] = "any" /\ roles # {}
           \/ tag[i] \in roles
        /\ roles = {} => \A j \in 1..(i - 1) : tag[j] # "any"

CanReadField(u, f) ==
    IF f \in Tagged THEN HasPermission(ReadTag[f], EffectiveRoles(u)) ELSE AllowUntagged

CanWriteField(u, f) ==
    IF f \in Tagged THEN HasPermission(WriteTag[f], EffectiveRoles(u)) ELSE AllowUntagged

Reads(u, f) == IsSuperuser(u) \/ CanReadField(u, f)

Writes(u, f) == IsSuperuser(u) \/ AllowAll \/ CanWriteField(u, f)

\* Mutant of FilterRead: fields without a tag are the only ones looked at.
BugFilterRead(u, row) ==
    [f \in Fields |-> IF Reads(u, f) \/ f \in Tagged THEN row[f] ELSE Zero]

\* What is left of a row for a caller.
FilterRead(u, row) == [f \in Fields |-> IF Reads(u, f) THEN row[f] ELSE Zero]

\* Mutant of ValidateWrite: the right to read a field is taken for the right
\* to write it.
BugValidateWrite(u, row) ==
    \A f \in Fields : row[f] = Zero \/ Writes(u, f) \/ Reads(u, f)

\* Fields left at zero pass, unless validation is strict.
ValidateWrite(u, row) ==
    \A f \in Fields : (~StrictValidation /\ row[f] = Zero) \/ Writes(u, f)

\* CheckCreate, CheckRead, CheckUpdate and CheckDelete of
\* DefaultAuthorization: whoever has a role.
DefaultCheck(u) == AllowAll \/ RolesOf[u] # {}
=============================================================================
