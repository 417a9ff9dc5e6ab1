----------------------------- MODULE MCReminders -----------------------------
(***************************************************************************)
(* Small instances of Reminders.                                           *)
(***************************************************************************)
EXTENDS Reminders

(* One that is due at once, one that repeats, and one that is due later.   *)
SomePlans == {<<0, "none">>, <<0, "each">>, <<1, "none">>}
=============================================================================
