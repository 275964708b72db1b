CONSTANTS
    commentable = commentable
    likeable = likeable
    openapi = openapi
    unregistered = unregistered
    auth = "c"
    Names = {commentable, likeable, openapi, unregistered}
    Factories = {commentable, likeable, openapi}
    SourceNames = {"a", "c", "m", "y", "z"}
    CoreSources = {"c"}
    Rank <- MCRank
    SourceOf <- MCSourceOf
    Setups <- MCSetups
    OpenAPI = openapi
SPECIFICATION FairSpec
INVARIANTS DependenciesInjected OrderedUnlessCyclic PluginMigrationsFollow OpenAPIDocumentsAll
PROPERTIES PluginsInOrder SourcesInOrder StartEnds
\* Start ends: it serves or exits.
CHECK_DEADLOCK FALSE
