----------------------------- MODULE Turnstile -----------------------------
(***************************************************************************)
(* What apps/assistant-gateway/gateway_queue.py promises, with no locks,   *)
(* no condition variable and no clocks: one client inside, the others in   *)
(* a line of bounded length, served in the order they joined it; a client  *)
(* may give up its place at any time before its turn.                      *)
(***************************************************************************)
EXTENDS Naturals, Sequences

CONSTANTS Clients, MaxWaiting

VARIABLES inside, line

tvars == <<inside, line>>

Init == inside = {} /\ line = <<>>

(* An empty house is entered at once ...                                   *)
WalkIn(c) ==
  /\ inside = {} /\ line = <<>>
  /\ inside' = {c}
  /\ UNCHANGED line

(* ... a busy one by its line, while there is room in it.                  *)
Join(c) ==
  /\ inside # {} \/ line # <<>>
  /\ c \notin inside /\ \A i \in DOMAIN line : line[i] # c
  /\ Len(line) < MaxWaiting
  /\ line' = Append(line, c)
  /\ UNCHANGED inside

Admit ==
  /\ inside = {} /\ line # <<>>
  /\ inside' = {Head(line)}
  /\ line' = Tail(line)

GiveUp(c) ==
  /\ \E i \in DOMAIN line :
       /\ line[i] = c
       /\ line' = SubSeq(line, 1, i - 1) \o SubSeq(line, i + 1, Len(line))
  /\ UNCHANGED inside

GoOut ==
  /\ inside # {}
  /\ inside' = {}
  /\ UNCHANGED line

Next == Admit \/ GoOut \/ \E c \in Clients : WalkIn(c) \/ Join(c) \/ GiveUp(c)

Spec == Init /\ [][Next]_tvars
=============================================================================
