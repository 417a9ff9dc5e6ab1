----------------------------- MODULE MCChatLanes -----------------------------
(***************************************************************************)
(* Small instances of ChatLanes.                                           *)
(***************************************************************************)
EXTENDS ChatLanes

CONSTANTS p1, g, u1, u2
=============================================================================
