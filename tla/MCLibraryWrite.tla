--------------------------- MODULE MCLibraryWrite ---------------------------
(***************************************************************************)
(* Small instances of LibraryWrite.                                        *)
(***************************************************************************)
EXTENDS LibraryWrite, TLC

CONSTANTS w1, w2, p1, p2, b1

Symmetry == Permutations(Writers) \cup Permutations(Paths)
=============================================================================
