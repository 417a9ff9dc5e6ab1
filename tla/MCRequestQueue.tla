--------------------------- MODULE MCRequestQueue ---------------------------
(***************************************************************************)
(* Small instances of RequestQueue.                                        *)
(***************************************************************************)
EXTENDS RequestQueue

CONSTANTS r1, r2, r3, r4
=============================================================================
