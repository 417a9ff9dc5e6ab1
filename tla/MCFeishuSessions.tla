-------------------------- MODULE MCFeishuSessions --------------------------
(* The sessions of a chat, small enough to check.                          *)
EXTENDS FeishuSessions, TLC

Sym == Permutations(Sessions)
=============================================================================
