---------------------------- MODULE MCGatewayChat ----------------------------
(***************************************************************************)
(* Small instances of GatewayChat.                                         *)
(***************************************************************************)
EXTENDS GatewayChat

CONSTANTS r1, r2, r3

Symmetry == Permutations({r1, r2, r3})
=============================================================================
