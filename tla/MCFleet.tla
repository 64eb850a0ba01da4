------------------------------- MODULE MCFleet -------------------------------
(***************************************************************************)
(* Two screens and a group with one or two schedules; two or three rules;  *)
(* telemetry with a short window; logs fetched from either screen: two     *)
(* requests at a time.                                                     *)
(***************************************************************************)
EXTENDS Fleet

CONSTANTS c1, c2, g1, p1, h1, h2

\* MySQL does what SQL Server does, but that it knows the ids of new rows, as
\* SQLite and MongoDB do; on SQL Server every event ends at its first rule
All == {"sqlite", "mssql", "mysql", "mongodb"}
Parts ==
  ({"definitions"} \X {"sqlite", "mssql", "mongodb"})
    \cup ({"notifications"} \X {"sqlite", "mysql", "mongodb"})
    \cup {<<"telemetry", "sqlite">>, <<"logs", "sqlite">>}
OnlyTelemetry == {<<"telemetry", "sqlite">>}
First == {<<{<<g1, c1>>}, {c1, c2}, g1>>}
=============================================================================
