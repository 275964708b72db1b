CONSTANTS
    Dialects <- MCDialects
    Identifiers = {"t", "a", "c", "d"}
    References = {"t.c"}
    Words <- MCWords
    BoundValues <- MCValues
    RawTexts <- MCRawTexts
    MaxLimitValue = 2
    MaxOffsetValue = 2
    MaxHeight = 10
    Verbs = {"select", "update", "delete", "insert", "cte"}
    Tables = {"t", "1t"}
    Columns = {"c", "1c"}
    Conditions <- MCConditions
    JoinConditions <- MCJoinConditions
    HavingConditions <- MCHavingConditions
    Expressions <- MCExpressions
    Selects <- MCSelects
    Limits = {2, 3}
    ColumnLists <- MCColumnLists
    RowValues <- MCRowValues
    RowMaps <- MCRowMaps
    SetValues = {"s1", "s2"}
    AllowedFields = {"status", "age", "page"}
    FieldMap <- MCFieldMap
    Bare <- MCBare
    Quoted <- MCQuoted
    Searched <- MCSearched
    Pattern <- MCPattern
    QueryStrings <- MCQueryStrings
    Orderings = {{}, {"status", "age", "name"}}
    Rank <- MCRank
    MaxCalls = 3
SPECIFICATION Spec
INVARIANTS PlaceholdersBound ClausesMeanWhatWasAsked HolesDoNotRun ValuesGoToTheirColumns FilterPathsAgree
CHECK_DEADLOCK FALSE
