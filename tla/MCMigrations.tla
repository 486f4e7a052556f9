---------------------------- MODULE MCMigrations ----------------------------
(***************************************************************************)
(* Three scripts for TLC: one with a single statement, a rebuild of        *)
(* several statements, and one that can be left half done.                 *)
(***************************************************************************)
EXTENDS Migrations

MCStatements == <<1, 3, 2>>
=============================================================================
