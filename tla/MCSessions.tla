----------------------------- MODULE MCSessions -----------------------------
(* Two browsers, one of them with two connections.                         *)
EXTENDS Sessions, TLC

CONSTANTS b1, b2, c1, c2, c3

MCOwner == (c1 :> b1) @@ (c2 :> b1) @@ (c3 :> b2)
=============================================================================
