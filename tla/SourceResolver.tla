--------------------------- MODULE SourceResolver ---------------------------
(***************************************************************************)
(* Resolve of migrations/dependency.go: the order of migration sources, by *)
(* dependency and, among sources that are ready, by name.  Go map iteration*)
(* leaves no trace in it, so that servers that start on one database agree *)
(* on the order.                                                           *)
(***************************************************************************)
EXTENDS Naturals, Sequences, FiniteSets

CONSTANTS SourceNames, \* names a source can have
          Rank         \* their alphabetical order

ASSUME RankAssumption == /\ IsFiniteSet(SourceNames)
                         /\ Rank \in [SourceNames -> Nat]
                         /\ \A s, t \in SourceNames : Rank[s] = Rank[t] => s = t

VARIABLES
    resolver,     \* where Resolve is
    sources,      \* the sources AddSource was called with
    sourceDeps,   \* and their dependencies
    pending,      \* dependencies each source still waits for
    sourceOrder   \* the result so far

resolveVars == <<resolver, sources, sourceDeps, pending, sourceOrder>>

ResolveTypeOK == /\ resolver \in {"idle", "sorting", "ordered", "circular"}
                 /\ sources \subseteq SourceNames
                 /\ sourceDeps \in [SourceNames -> SUBSET SourceNames]
                 /\ pending \in [SourceNames -> Nat]
                 /\ sourceOrder \in Seq(SourceNames)

ResolveInit == /\ resolver = "idle"
               /\ sources = {}
               /\ sourceDeps = [s \in SourceNames |-> {}]
               /\ pending = [s \in SourceNames |-> 0]
               /\ sourceOrder = <<>>

Ordered == {sourceOrder[i] : i \in 1..Len(sourceOrder)}

\* A dependency on a source that is not there is skipped.
Needs(s) == sourceDeps[s] \cap sources

\* AddSource for each source, and the in-degrees.
Resolve(S, D) ==
    /\ resolver = "idle"
    /\ resolver' = "sorting"
    /\ sources' = S
    /\ sourceDeps' = D
    /\ pending' = [s \in SourceNames |-> IF s \in S THEN Cardinality(D[s] \cap S) ELSE 0]
    /\ UNCHANGED sourceOrder

Ready == {s \in sources \ Ordered : pending[s] = 0}

\* Mutant of NextSource: the queue is taken by name before anything is ready.
BugNextSource(s) == /\ s \in sources \ Ordered
                    /\ \A t \in sources \ Ordered : Rank[s] <= Rank[t]

\* The queue is sorted whenever it changes: its head is the first by name.
NextSource(s) == s \in Ready /\ \A t \in Ready : Rank[s] <= Rank[t]

EmitSource(s) ==
    /\ resolver = "sorting"
    /\ NextSource(s)
    /\ sourceOrder' = Append(sourceOrder, s)
    /\ pending' = [t \in SourceNames |-> IF t \in sources /\ s \in Needs(t) THEN pending[t] - 1
                                         ELSE pending[t]]
    /\ UNCHANGED <<resolver, sources, sourceDeps>>

\* Mutant of FinishResolve: it waits until every source came out.
BugFinishResolve ==
    /\ resolver = "sorting"
    /\ Ready = {} /\ Ordered = sources
    /\ resolver' = "ordered"
    /\ UNCHANGED <<sources, sourceDeps, pending, sourceOrder>>

\* Fewer sources came out than went in: a cycle.
FinishResolve ==
    /\ resolver = "sorting"
    /\ Ready = {}
    /\ resolver' = IF Len(sourceOrder) = Cardinality(sources) THEN "ordered" ELSE "circular"
    /\ UNCHANGED <<sources, sourceDeps, pending, sourceOrder>>

ResolveStep == (\E s \in SourceNames : EmitSource(s)) \/ FinishResolve

ResolveNext == \/ \E S \in SUBSET SourceNames, D \in [SourceNames -> SUBSET SourceNames] :
                     Resolve(S, D)
               \/ ResolveStep

ResolveSpec == ResolveInit /\ [][ResolveNext]_resolveVars

-----------------------------------------------------------------------------
(* Properties                                                              *)

\* An order is returned when there is no cycle, ErrCircularDependency when
\* there is one.
ResolvesOrReports ==
    LET cycle == \E S \in SUBSET sources : S # {} /\ \A s \in S : sourceDeps[s] \cap S # {} IN
    /\ resolver = "ordered" => ~cycle /\ Ordered = sources
    /\ resolver = "circular" => cycle

\* The order of the sources is one DependencyOrder allows.
SourceSorting == INSTANCE DependencyOrder WITH
                     Items <- SourceNames,
                     order <- sourceOrder,
                     needs <- [s \in SourceNames |-> Needs(s)]

SourcesInOrder == SourceSorting!Spec
=============================================================================
