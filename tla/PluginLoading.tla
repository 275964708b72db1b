--------------------------- MODULE PluginLoading ---------------------------
(***************************************************************************)
(* LoadPlugins of pluginloader/loader.go with the dependency sort of       *)
(* pluginloader/dependency.go.  The loader is sequential; what makes it    *)
(* hard to test is that its sort starts from an iteration over a Go map,   *)
(* whose order is random, and that any plugin may refuse to initialise.    *)
(*                                                                         *)
(* A plugin is its name: the one it is configured under, registered under  *)
(* and reports itself.                                                     *)
(***************************************************************************)
EXTENDS Naturals, Sequences, FiniteSets, SequencesExt

CONSTANTS Names,      \* names a configuration or a dependency can mention
          Factories,  \* names RegisterPluginFactory was called with
          Setups      \* what an application may configure and its plugins ask for

Entry == [name : Names, enabled : BOOLEAN]

ASSUME NamesAssumption == IsFiniteSet(Names) /\ Factories \subseteq Names
ASSUME SetupsAssumption == \A s \in Setups : /\ s.configs \in Seq(Entry)
                                            /\ s.deps \in [Names -> SUBSET Names]

VARIABLES
    configs,   \* the plugins section of the configuration
    deps,      \* what Dependencies() of each plugin returns
    phase,     \* where LoadPlugins is
    inDegree,  \* dependencies each plugin still waits for
    queue,     \* plugins that wait for none
    sorted,    \* the initialisation order
    loaded,    \* plugins in the registry, in the order they came
    injected   \* what each was given under ConfigKeyDependencies

input == <<configs, deps>>
sort == <<inDegree, queue, sorted>>
registry == <<loaded, injected>>
loadVars == <<input, phase, sort, registry>>

Failures == {"unknown", "disabled", "missing", "circular", "initialize"}
Phases == {"collect", "validate", "resolve", "load", "done"} \cup Failures

Entries(enabled) == {e \in ToSet(configs) : e.enabled = enabled}
Enabled == {e.name : e \in Entries(TRUE)}
Disabled == {e.name : e \in Entries(FALSE)}

\* Entries, not names: one plugin may be configured twice.
EnabledEntries == Cardinality({i \in DOMAIN configs : configs[i].enabled})

Sorted == {sorted[i] : i \in 1..Len(sorted)}
Loaded == {loaded[i] : i \in 1..Len(loaded)}

LoadTypeOK == /\ configs \in Seq(Entry)
              /\ deps \in [Names -> SUBSET Names]
              /\ phase \in Phases
              /\ inDegree \in [Names -> Nat]
              /\ queue \in Seq(Names)
              /\ sorted \in Seq(Names)
              /\ loaded \in Seq(Names)
              /\ injected \in [Names -> SUBSET Names]

LoadInit(s) == /\ configs = s.configs
               /\ deps = s.deps
               /\ phase = "collect"
               /\ inDegree = [n \in Names |-> 0]
               /\ queue = <<>>
               /\ sorted = <<>>
               /\ loaded = <<>>
               /\ injected = [n \in Names |-> {}]

Goto(p) == phase' = p

-----------------------------------------------------------------------------
\* Every enabled plugin needs a factory.
CollectPluginDependencies ==
    /\ phase = "collect"
    /\ Goto(IF Enabled \subseteq Factories THEN "validate" ELSE "unknown")
    /\ UNCHANGED <<input, sort, registry>>

Unmet == (UNION {deps[n] : n \in Enabled}) \ Enabled

\* The first unmet dependency decides the message.
ValidateDependencies ==
    /\ phase = "validate"
    /\ Unmet # {}
    /\ \/ Unmet \cap Disabled # {} /\ Goto("disabled")
       \/ ~(Unmet \subseteq Disabled) /\ Goto("missing")
    /\ UNCHANGED <<input, sort, registry>>

\* The queue starts in the order of a map iteration.
StartSort ==
    /\ phase = "validate"
    /\ Unmet = {}
    /\ inDegree' = [n \in Names |-> IF n \in Enabled THEN Cardinality(deps[n]) ELSE 0]
    /\ queue' \in SetToSeqs({n \in Enabled : deps[n] = {}})
    /\ Goto("resolve")
    /\ UNCHANGED <<input, sorted, registry>>

Dependents(n) == {d \in Enabled : n \in deps[d]}

\* Mutant of Visit: the first dependency to come releases a plugin.
BugVisit ==
    /\ phase = "resolve"
    /\ queue # <<>>
    /\ LET n == Head(queue) IN
         /\ sorted' = Append(sorted, n)
         /\ inDegree' = [d \in Names |-> IF d \in Dependents(n) THEN 0 ELSE inDegree[d]]
         /\ \E released \in SetToSeqs({d \in Dependents(n) : inDegree[d] # 0}) :
               queue' = Tail(queue) \o released
    /\ UNCHANGED <<input, phase, registry>>

\* One round of Kahn's algorithm.  Dependents that are released join the queue
\* in an order the configuration fixes and this model leaves open.
Visit ==
    /\ phase = "resolve"
    /\ queue # <<>>
    /\ LET n == Head(queue) IN
         /\ sorted' = Append(sorted, n)
         /\ inDegree' = [d \in Names |-> IF d \in Dependents(n) THEN inDegree[d] - 1
                                         ELSE inDegree[d]]
         /\ \E released \in SetToSeqs({d \in Dependents(n) : inDegree[d] = 1}) :
               queue' = Tail(queue) \o released
    /\ UNCHANGED <<input, phase, registry>>

\* Mutant of FinishSort: nothing is counted.
BugFinishSort ==
    /\ phase = "resolve"
    /\ queue = <<>>
    /\ Goto("load")
    /\ UNCHANGED <<input, sort, registry>>

\* The names visited are counted against the entries collected; the search for
\* the cycle to report ends in an error whatever it finds.
FinishSort ==
    /\ phase = "resolve"
    /\ queue = <<>>
    /\ Goto(IF Len(sorted) = EnabledEntries THEN "load" ELSE "circular")
    /\ UNCHANGED <<input, sort, registry>>

Upcoming == sorted[Len(loaded) + 1]

\* The dependencies are looked up in the registry; one that is not there is
\* left out in silence.
Initialize ==
    /\ phase = "load"
    /\ Len(loaded) < Len(sorted)
    /\ injected' = [injected EXCEPT ![Upcoming] = deps[Upcoming] \cap Loaded]
    /\ loaded' = Append(loaded, Upcoming)
    /\ UNCHANGED <<input, phase, sort>>

\* The error ends LoadPlugins; plugins already initialised stay as they are.
InitializeFails ==
    /\ phase = "load"
    /\ Len(loaded) < Len(sorted)
    /\ Goto("initialize")
    /\ UNCHANGED <<input, sort, registry>>

Finish ==
    /\ phase = "load"
    /\ Len(loaded) = Len(sorted)
    /\ Goto("done")
    /\ UNCHANGED <<input, sort, registry>>

LoadStep == \/ CollectPluginDependencies \/ ValidateDependencies
            \/ StartSort \/ Visit \/ FinishSort
            \/ Initialize \/ Finish

LoadNext == LoadStep \/ InitializeFails

LoadSpec == (\E s \in Setups : LoadInit(s)) /\ [][LoadNext]_loadVars

-----------------------------------------------------------------------------
(* Properties                                                              *)

\* "Dependencies are injected via Initialize() config": each plugin in the
\* registry was given all it declares, although the lookup skips in silence
\* what is not there yet.
DependenciesInjected == \A n \in Loaded : injected[n] = deps[n]

\* A set of plugins that wait for one another.
Cyclic(S) == S # {} /\ \A n \in S : deps[n] \cap S # {}

\* "Circular dependencies are detected and rejected": no plugin of a cycle is
\* initialised, and a configuration that names no plugin twice is called
\* circular only when it is.
CyclesAndOnlyCycles ==
    LET cycle == \E S \in SUBSET Enabled : Cyclic(S) IN
    /\ phase \in {"load", "done"} => ~cycle
    /\ phase = "circular" /\ EnabledEntries = Cardinality(Enabled) => cycle

\* The order in which plugins are initialised is one DependencyOrder allows.
PluginOrder == INSTANCE DependencyOrder WITH Items <- Names, order <- loaded, needs <- deps

PluginsInOrder == PluginOrder!Spec
=============================================================================
