CONSTANTS
    Users = {"guest", "reader", "editor", "admin"}
    Roles = {"reader", "editor", "admin"}
    Fields = {"status", "notes", "created"}
    Values = {"public", "trashed", "n", "now"}
    Zero = Zero
    NoRow = NoRow
    RolesOf <- MCRolesOf
    Hierarchy <- MCHierarchy
    SuperuserRole = "admin"
    AllowAll = FALSE
    Tagged = {"status", "notes"}
    ReadTag <- MCReadTag
    WriteTag <- MCWriteTag
    AllowUntagged = TRUE
    StrictValidation = FALSE
    MaxId = 3
    Reqs = {r1, r2}
    r1 = r1
    r2 = r2
    MaxCalls = 2
    Calls <- MCCalls
    Tables <- MCTables
    InsertFields = {"status", "notes"}
    UpdateFields = {"status", "notes"}
    Default <- MCDefault
    MayRead <- MCMayRead
    InScope <- MCInScope
    Scoped = {"guest", "reader"}
    Enriched <- MCEnriched
    DefaultLimit = 2
    MaxLimit = 3
    MaxPage = 4
    MaxOffset = 3
    CountMode = "estimate"
    MaxEstimate = 1
SYMMETRY Symmetry
SPECIFICATION Spec
INVARIANTS NothingForbiddenServed EffectsMatchAnswers WalkComplete TotalIsExact
PROPERTIES OnlyWritersChange
\* Clients may stop calling.
CHECK_DEADLOCK FALSE
