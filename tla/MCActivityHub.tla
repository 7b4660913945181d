---------------------------- MODULE MCActivityHub ----------------------------
(* A small instance of ActivityHub for TLC. *)
EXTENDS ActivityHub, TLC

CONSTANTS e1, e2, e3, c1, c2, k1, k2

MCKeyOf   == (e1 :> Public) @@ (e2 :> k1) @@ (e3 :> k2)
MCScopeOf == (c1 :> k1) @@ (c2 :> All)
=============================================================================
