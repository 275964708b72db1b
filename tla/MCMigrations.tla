---------------------------- MODULE MCMigrations ----------------------------
(***************************************************************************)
(* Migrations with two sources of one migration each.  Source b depends on *)
(* source a, but its migration has the older version: the order of         *)
(* execution and the order of versions differ.                             *)
(***************************************************************************)
EXTENDS Migrations, TLC

CONSTANTS a1, b1, p1, p2

MCRank == (a1 :> 1) @@ (b1 :> 2)
MCVersion == (a1 :> 2) @@ (b1 :> 1)
MCSources == {{a1}, {b1}}
MCBuildOf == (p1 :> 0) @@ (p2 :> 1)
=============================================================================
