------------------------------- MODULE MCContent -------------------------------
(***************************************************************************)
(* Two editors and two requests on each part of the library, on each back  *)
(* end; a page with a small and a large file and one slot.                 *)
(***************************************************************************)
EXTENDS Content

CONSTANTS m1, m2, p1, h1, h2

\* no property tells the media apart
Alike == Permutations({m1, m2})

All == {"sqlite", "mysql", "mssql", "mongodb"}
\* SQL Server does to playlists and approvals what MySQL does; it stores a track
\* and answers an error; the page's uploads do not know the back end
Everywhere ==
  ({"playlists", "approvals"} \X {"sqlite", "mysql", "mongodb"}) \cup ({"folders"} \X All)
    \cup ({"subtitles"} \X {"sqlite", "mysql", "mongodb"}) \cup {<<"uploads", "sqlite">>}
Probes == {<<[stream |-> 1, def |-> TRUE], [stream |-> 2, def |-> d]>> : d \in BOOLEAN}
=============================================================================
