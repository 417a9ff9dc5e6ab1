---------------------------- MODULE MCRunControl ----------------------------
(***************************************************************************)
(* Small instances of RunControl.                                          *)
(***************************************************************************)
EXTENDS RunControl
=============================================================================
