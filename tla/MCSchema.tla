------------------------------ MODULE MCSchema ------------------------------
(***************************************************************************)
(* Two servers on one database, new or from before the runner: a crash and *)
(* a rollback at any point, on every back end.                             *)
(***************************************************************************)
EXTENDS Schema

MCBackends == {"sqlite", "mysql", "mssql", "mongodb"}
MCLegacy == {0, 1}
MCTargets == {13, 16}
=============================================================================
