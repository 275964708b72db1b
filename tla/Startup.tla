------------------------------ MODULE Startup ------------------------------
(***************************************************************************)
(* Start of gorest.go up to the moment it serves: LoadPlugins, then        *)
(* runMigrations, which turns what plugins declare into sources and        *)
(* dependencies for the migrator, then the second initialisation of the    *)
(* openapi plugin and the endpoints.  Any error ends the process.          *)
(*                                                                         *)
(* Migrations models the migrator's run; here it is one step, given the    *)
(* order of the sources.                                                   *)
(***************************************************************************)
EXTENDS PluginLoading, SourceResolver

CONSTANTS SourceOf,   \* the name of each plugin's migration source
          CoreSources,\* the sources of auth and rbac
          OpenAPI     \* the openapi plugin

ASSUME SourceAssumption ==
    /\ SourceOf \in [Names -> SourceNames \ CoreSources]
    /\ \A m, n \in Names : SourceOf[m] = SourceOf[n] => m = n
    /\ CoreSources \subseteq SourceNames
    /\ OpenAPI \in Names

ASSUME MigratingAssumption ==
    \A s \in Setups : /\ s.core \subseteq CoreSources
                      /\ s.migrating \subseteq Names
                      /\ s.requires \in [Names -> SUBSET (Names \cup CoreSources)]

VARIABLES
    stage,      \* where Start is
    core,       \* core sources in use: auth and rbac as configured
    migrating,  \* plugins with a migration source that is enabled
    requires,   \* what MigrationDependencies() of each plugin returns
    migrated,   \* sources in the order the migrator executed them
    documented  \* plugins in the registry openapi was initialised with last

settings == <<core, migrating, requires>>
vars == <<loadVars, resolveVars, stage, settings, migrated, documented>>

Stages == {"plugins", "migrations", "openapi", "endpoints", "serving", "exited"}

TypeOK == /\ LoadTypeOK
          /\ ResolveTypeOK
          /\ stage \in Stages
          /\ core \subseteq CoreSources
          /\ migrating \subseteq Names
          /\ requires \in [Names -> SUBSET (Names \cup CoreSources)]
          /\ migrated \in Seq(SourceNames)
          /\ documented \subseteq Names

Init == /\ ResolveInit
        /\ stage = "plugins"
        /\ \E s \in Setups : /\ LoadInit(s)
                             /\ core = s.core
                             /\ migrating = s.migrating
                             /\ requires = s.requires
        /\ migrated = <<>>
        /\ documented = {}

Enter(s) == stage' = s

-----------------------------------------------------------------------------
LoadPlugins ==
    /\ stage = "plugins"
    /\ LoadStep
    /\ UNCHANGED <<resolveVars, stage, settings, migrated, documented>>

PluginFails ==
    /\ stage = "plugins"
    /\ InitializeFails
    /\ UNCHANGED <<resolveVars, stage, settings, migrated, documented>>

LoadingFails ==
    /\ stage = "plugins"
    /\ phase \in Failures
    /\ Enter("exited")
    /\ UNCHANGED <<loadVars, resolveVars, settings, migrated, documented>>

-----------------------------------------------------------------------------
(* runMigrations                                                           *)

Providers == Loaded \cap migrating

RegisteredSources == core \cup {SourceOf[n] : n \in Providers}

\* Mutant of MappedDependencies: the names are taken as they are.
BugMappedDependencies ==
    [s \in SourceNames |-> UNION {requires[n] \cap SourceNames : n \in {p \in Providers : SourceOf[p] = s}}]

\* Dependencies are looked up among the plugins that registered a source and
\* are dropped when they are not found there.
MappedDependencies ==
    [s \in SourceNames |->
        UNION {{SourceOf[d] : d \in requires[n] \cap Providers} :
               n \in {p \in Providers : SourceOf[p] = s}}]

RegisterSources ==
    /\ stage = "plugins"
    /\ phase = "done"
    /\ RegisteredSources # {}
    /\ Resolve(RegisteredSources, MappedDependencies)
    /\ Enter("migrations")
    /\ UNCHANGED <<loadVars, settings, migrated, documented>>

\* No source at all, or no migration pending: nothing is ordered.
NothingToMigrate ==
    /\ stage = "plugins"
    /\ phase = "done"
    /\ Enter("openapi")
    /\ UNCHANGED <<loadVars, resolveVars, settings, migrated, documented>>

ResolveSources ==
    /\ stage = "migrations"
    /\ ResolveStep
    /\ UNCHANGED <<loadVars, stage, settings, migrated, documented>>

\* The migrator executes source after source.
Migrate ==
    /\ stage = "migrations"
    /\ resolver = "ordered"
    /\ migrated' = sourceOrder
    /\ Enter("openapi")
    /\ UNCHANGED <<loadVars, resolveVars, settings, documented>>

CycleFound ==
    /\ stage = "migrations"
    /\ resolver = "circular"
    /\ Enter("exited")
    /\ UNCHANGED <<loadVars, resolveVars, settings, migrated, documented>>

\* Any other error of the migrator.
MigrationFails ==
    /\ stage = "migrations"
    /\ Enter("exited")
    /\ UNCHANGED <<loadVars, resolveVars, settings, migrated, documented>>

-----------------------------------------------------------------------------
(* openapi and the endpoints                                               *)

\* Mutant of ReinitializeOpenAPI: only what it depends on is passed on.
BugReinitializeOpenAPI ==
    /\ stage = "openapi"
    /\ OpenAPI \in Loaded
    /\ documented' = injected[OpenAPI]
    /\ Enter("endpoints")
    /\ UNCHANGED <<loadVars, resolveVars, settings, migrated>>

\* Its first initialisation, inside LoadPlugins, had no registry.
ReinitializeOpenAPI ==
    /\ stage = "openapi"
    /\ OpenAPI \in Loaded
    /\ documented' = Loaded
    /\ Enter("endpoints")
    /\ UNCHANGED <<loadVars, resolveVars, settings, migrated>>

ReinitializationFails ==
    /\ stage = "openapi"
    /\ OpenAPI \in Loaded
    /\ Enter("exited")
    /\ UNCHANGED <<loadVars, resolveVars, settings, migrated, documented>>

NoOpenAPI ==
    /\ stage = "openapi"
    /\ OpenAPI \notin Loaded
    /\ Enter("endpoints")
    /\ UNCHANGED <<loadVars, resolveVars, settings, migrated, documented>>

\* Global middleware, plugin endpoints, auth routes, the cleanup goroutine and
\* the application's own routes; only SetupEndpoints can fail.
SetupEndpoints ==
    /\ stage = "endpoints"
    /\ Enter("serving")
    /\ UNCHANGED <<loadVars, resolveVars, settings, migrated, documented>>

SetupFails ==
    /\ stage = "endpoints"
    /\ Loaded # {}
    /\ Enter("exited")
    /\ UNCHANGED <<loadVars, resolveVars, settings, migrated, documented>>

Step == \/ LoadPlugins \/ LoadingFails
        \/ RegisterSources \/ NothingToMigrate \/ ResolveSources \/ CycleFound \/ Migrate
        \/ ReinitializeOpenAPI \/ NoOpenAPI
        \/ SetupEndpoints

Mishap == PluginFails \/ MigrationFails \/ ReinitializationFails \/ SetupFails

Next == Step \/ Mishap

Spec == Init /\ [][Next]_vars

\* Start runs on one goroutine and waits for nobody.
FairSpec == Spec /\ WF_vars(Step)

-----------------------------------------------------------------------------
(* Properties                                                              *)

Before(s, t) == \E i, j \in DOMAIN migrated : i < j /\ migrated[i] = s /\ migrated[j] = t

\* The source a declared dependency stands for.
Declared(d) == IF d \in Names THEN SourceOf[d] ELSE d

\* "Ensures migrations run in correct order": when a plugin's migrations have
\* been executed, those of every plugin with migrations it requires have been
\* executed before them, whatever order plugins were loaded in.
PluginMigrationsFollow ==
    migrated # <<>> =>
        \A n \in Providers : \A d \in requires[n] \cap Providers :
            Before(SourceOf[d], SourceOf[n])

\* Both sorts Start runs, over plugins and over sources, come to an order
\* unless there is a cycle, and end the process when there is one.
OrderedUnlessCyclic == CyclesAndOnlyCycles /\ ResolvesOrReports

\* PluginMigrationsFollow for every dependency a plugin declares on a source
\* that is there, those of the core included.
DeclaredMigrationsFollow ==
    migrated # <<>> =>
        \A n \in Providers : \A d \in requires[n] :
            Declared(d) \in RegisteredSources => Before(Declared(d), SourceOf[n])

\* The server does not serve before openapi has seen every enabled plugin,
\* whichever was initialised first.
OpenAPIDocumentsAll ==
    stage = "serving" /\ OpenAPI \in Enabled => documented = Enabled

\* Start does not hang: it serves or exits, whatever the dependencies.
StartEnds == <>(stage \in {"serving", "exited"})
=============================================================================
