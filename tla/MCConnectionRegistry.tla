------------------------ MODULE MCConnectionRegistry ------------------------
(***************************************************************************)
(* An instance of ConnectionRegistry for TLC: a client that may have two   *)
(* sockets at a time, each used again for its next connections.            *)
(***************************************************************************)
EXTENDS ConnectionRegistry, TLC

CONSTANTS c1, s1, s2

OneClient == {c1}
TwoSockets == {s1, s2}
MCOwner == (s1 :> c1) @@ (s2 :> c1)
=============================================================================
