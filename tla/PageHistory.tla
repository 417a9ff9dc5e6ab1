---------------------------- MODULE PageHistory ----------------------------
(***************************************************************************)
(* What the write verbs of packages/brain-library promise for every page,  *)
(* however they are interrupted: a text is kept before another one takes   *)
(* its place, and what is kept is kept for good.  There is no lock: of a   *)
(* page that two applies share they promise only that it does not vanish.  *)
(***************************************************************************)
CONSTANTS Paths, NoText

VARIABLES page, kept, shared

hvars == <<page, kept, shared>>

Init == kept = [p \in Paths |-> {}] /\ shared = {}

(* The text of a page goes into the history ...                            *)
Keep(p) ==
  /\ p \notin shared /\ page[p] # NoText
  /\ kept' = [kept EXCEPT ![p] = @ \cup {page[p]}]
  /\ UNCHANGED <<page, shared>>

(* ... and only then may another one replace it; new pages replace none.   *)
Put(p) ==
  /\ p \notin shared /\ page[p] \in kept[p] \cup {NoText}
  /\ page'[p] # NoText
  /\ page' = [page EXCEPT ![p] = page'[p]]
  /\ UNCHANGED <<kept, shared>>

(* A second apply comes to pages another one is in the middle of ...       *)
Share ==
  /\ shared \subseteq shared' /\ shared' \subseteq Paths
  /\ UNCHANGED <<page, kept>>

(* ... and from then on they overwrite each other's texts and snapshots,   *)
(* but nobody else's.                                                      *)
Clash(p) ==
  /\ p \in shared
  /\ page[p] # NoText => page'[p] # NoText
  /\ page' = [page EXCEPT ![p] = page'[p]]
  /\ kept' = [kept EXCEPT ![p] = kept'[p]]
  /\ UNCHANGED shared

Next == Share \/ \E p \in Paths : Keep(p) \/ Put(p) \/ Clash(p)

Spec == Init /\ [][Next]_hvars
=============================================================================
