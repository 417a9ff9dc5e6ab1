---------------------------- MODULE MCConfigStore ----------------------------
(* The configuration store with two clients and one value per field: a     *)
(* field is set or unset.  The clients and their requests are alike.       *)
EXTENDS ConfigStore, TLC

Symmetric == Permutations(Clients)
=============================================================================
