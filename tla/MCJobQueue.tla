----------------------------- MODULE MCJobQueue -----------------------------
(***************************************************************************)
(* Small instances of JobQueue.                                            *)
(***************************************************************************)
EXTENDS JobQueue

CONSTANTS w1, w2, k1, k2

EveryMode == AllModes
=============================================================================
