--------------------------- MODULE MCSearchIndex ---------------------------
(* The search index, small enough to check.                                *)
EXTENDS SearchIndex
=============================================================================
