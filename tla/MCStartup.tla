----------------------------- MODULE MCStartup -----------------------------
(***************************************************************************)
(* Startup on small instances.  The sources of the plugins are the letters *)
(* a, m and z, so that the core source c lies between them by name.        *)
(***************************************************************************)
EXTENDS Startup, TLC

CONSTANTS commentable, likeable, openapi,  \* plugins
          unregistered,                    \* a name without a factory
          auth                             \* the core source

Plugins == {commentable, likeable, openapi}

On(n) == [name |-> n, enabled |-> TRUE]
Off(n) == [name |-> n, enabled |-> FALSE]

Nothing == [n \in Names |-> {}]

MCSourceOf == (commentable :> "a") @@ (openapi :> "m") @@ (likeable :> "z")
                  @@ (unregistered :> "y")
MCRank == ("a" :> 1) @@ (auth :> 2) @@ ("m" :> 3) @@ ("y" :> 4) @@ ("z" :> 5)

\* What each plugin may need of the others: any graph over the plugins, and a
\* plugin without a factory for one of them.
Graphs3 == {[n \in Names |-> IF n \in Plugins THEN f[n] ELSE {}] : f \in [Plugins -> SUBSET Plugins]}

Setup(cs, ds) == [configs |-> cs, deps |-> ds, core |-> {}, migrating |-> {}, requires |-> Nothing]

AllOn == <<On(commentable), On(likeable), On(openapi)>>

\* Every graph of dependencies with every plugin enabled, and configurations
\* with one disabled, missing, unknown or named twice.
LoadSetups ==
    {Setup(AllOn, g) : g \in Graphs3}
    \cup {Setup(cs, [Nothing EXCEPT ![commentable] = S]) :
              cs \in {<<>>,
                      <<On(commentable), On(likeable)>>,
                      <<On(commentable), Off(likeable)>>,
                      <<On(commentable), Off(likeable), On(likeable)>>,
                      <<On(commentable), On(unregistered)>>,
                      <<On(commentable), On(commentable), On(likeable)>>},
              S \in SUBSET {commentable, likeable, unregistered}}

\* Every graph of migration dependencies between the plugins, and every choice
\* among two plugins and the core.
MigrationSetups ==
    {[Setup(AllOn, Nothing) EXCEPT !.migrating = Plugins, !.requires = g] : g \in Graphs3}
    \cup {[Setup(<<On(commentable), On(likeable)>>, Nothing)
              EXCEPT !.core = c, !.migrating = m,
                     !.requires = [Nothing EXCEPT ![commentable] = S, ![likeable] = T]] :
              c \in SUBSET {auth},
              m \in SUBSET {commentable, likeable},
              S, T \in SUBSET {commentable, likeable, auth}}

MCSetups == LoadSetups \cup MigrationSetups
=============================================================================
