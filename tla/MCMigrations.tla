---------------------------- MODULE MCMigrations ----------------------------
(***************************************************************************)
(* Small instances of Migrations for TLC.                                  *)
(***************************************************************************)
EXTENDS Migrations, TLC

\* Callers differ in nothing but their name.
Callers == Permutations(Jobs)
=============================================================================
