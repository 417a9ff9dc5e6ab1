--------------------------- MODULE ConfigRegister ---------------------------
(***************************************************************************)
(* What the configuration store of the admin API promises to those who     *)
(* edit it: one content, replaced whole, only by somebody who has seen the *)
(* content that is being replaced (no lost update), and only after a       *)
(* snapshot of it was kept (every edit can be undone).                     *)
(***************************************************************************)
CONSTANTS Clients, Content, Start, None

VARIABLES
  content,   \* the configuration
  newest,    \* the newest snapshot, or None
  seen       \* what each client was shown last, and holds a tag of

vars == <<content, newest, seen>>

Init == content = Start /\ newest = None /\ seen = [c \in Clients |-> Start]

Learn(c) == seen' = [seen EXCEPT ![c] = content] /\ UNCHANGED <<content, newest>>

Keep == newest' = content /\ UNCHANGED <<content, seen>>

Update(c) ==
  /\ seen[c] = content
  /\ newest = content
  /\ content' \in Content
  /\ UNCHANGED <<newest, seen>>

Next == Keep \/ \E c \in Clients : Learn(c) \/ Update(c)

Spec == Init /\ [][Next]_vars
=============================================================================
