-------------------------- MODULE MCClientPlayback --------------------------
(***************************************************************************)
(* Instances of ClientPlayback for TLC: a playlist of two videos and an    *)
(* image, a playlist of one video, and two playlists that share one.       *)
(***************************************************************************)
EXTENDS ClientPlayback

CONSTANTS v, w, i, p1, p2

Mixed == {v, w, i}
TwoMedia == {v, i}
OneVideo == {v}
OneImage == {i}
NoImage == {}
OnePlaylist == {p1}
TwoPlaylists == {p1, p2}

MixedList == p1 :> {<<v, w, i>>}
VideoList == p1 :> {<<v>>}
ShortList == p1 :> {<<v, i>>}
BothLists == (p1 :> {<<v, i>>}) @@ (p2 :> {<<i>>})
=============================================================================
