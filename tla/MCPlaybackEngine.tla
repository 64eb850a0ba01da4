-------------------------- MODULE MCPlaybackEngine --------------------------
(***************************************************************************)
(* An instance of PlaybackEngine for TLC: two videos and an image, with    *)
(* commands submitted in any order.                                        *)
(***************************************************************************)
EXTENDS PlaybackEngine

CONSTANTS v, w, i

MCMedia == {v, w, i}
MCImages == {i}
=============================================================================
