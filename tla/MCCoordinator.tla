--------------------------- MODULE MCCoordinator ---------------------------
(***************************************************************************)
(* An instance of Coordinator for TLC: lists of one and two items, one     *)
(* media shared by both playlists, and an empty list.                      *)
(***************************************************************************)
EXTENDS Coordinator

CONSTANTS a, b, p1, p2

TwoMedia == {a, b}
MCPlaylists == {p1, p2}

\* The lists the server may send for each playlist, before and after an edit.
Emptied == (p1 :> {<<a, b>>, <<>>}) @@ (p2 :> {<<b>>})
=============================================================================
