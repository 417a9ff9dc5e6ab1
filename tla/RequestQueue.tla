---------------------------- MODULE RequestQueue ----------------------------
(***************************************************************************)
(* apps/assistant-gateway/gateway_queue.py: one running request and a      *)
(* short FIFO wait line, built on one threading.Condition.                 *)
(*                                                                         *)
(* A block under `with self._cond` is one action.  A thread in wait_turn   *)
(* is about to take the lock ("check"), asleep in cond.wait ("asleep"),    *)
(* writing a heartbeat with the lock released ("beat"), or back from a     *)
(* failed one and about to drop its ticket ("drop").  cond.wait always has *)
(* a timeout here; Condition has no spurious wakeups.                      *)
(*                                                                         *)
(* A thread waits for one ticket at a time, so the thread stands for the   *)
(* ticket.  Clocks are left out: due[r] says that the deadline (a "plain"  *)
(* caller) or the next heartbeat (a "stream" caller) has been reached.     *)
(***************************************************************************)
EXTENDS Naturals, SequencesExt

CONSTANTS
  Requests,    \* request threads (a thread is reused for a later request)
  MaxWaiting   \* cfg["queue_max"]

ASSUME QueueAssumption == MaxWaiting \in Nat

VARIABLES
  active,      \* self._active
  waiting,     \* self._waiting
  pc,          \* where each thread is with respect to the queue
  style,       \* which arguments wait_turn gets: a timeout or a heartbeat
  due          \* the deadline or heartbeat instant of a waiter has passed

qvars == <<active, waiting, pc, style, due>>

Styles  == {"plain", "stream"}
Outside == {"out", "full", "dropped"}   \* ... and what the last call told it
InLine  == {"check", "asleep", "beat", "drop"}
PCs     == Outside \cup InLine \cup {"in"}

QueueTypeOK ==
  /\ active \in BOOLEAN
  /\ waiting \in Seq(Requests) /\ Len(waiting) <= MaxWaiting
  /\ pc \in [Requests -> PCs]
  /\ style \in [Requests -> Styles]
  /\ due \in [Requests -> BOOLEAN]

QueueInit ==
  /\ active = FALSE
  /\ waiting = <<>>
  /\ pc = [r \in Requests |-> "out"]
  /\ style = [r \in Requests |-> "plain"]
  /\ due = [r \in Requests |-> FALSE]

-----------------------------------------------------------------------------
(* cond.notify_all: every sleeper goes for the lock.  Wrong variant: only  *)
(* one is told, as cond.notify would.                                      *)
NotifyOne(p) ==
  IF \E r \in Requests : p[r] = "asleep"
  THEN [p EXCEPT ![CHOOSE r \in Requests : p[r] = "asleep"] = "check"]
  ELSE p

Woken(p) == [r \in Requests |-> IF p[r] = "asleep" THEN "check" ELSE p[r]]

(* The test at the top of try_enter.  Wrong variant: a newcomer  *)
(* barges in between a release and the head of the line waking up.         *)
BargesIn == ~active

MayWalkIn == ~active /\ waiting = <<>>

LineFull == Len(waiting) >= MaxWaiting

TryEnter(r, s) ==
  /\ pc[r] \in Outside
  /\ style' = [style EXCEPT ![r] = s]
  /\ due' = [due EXCEPT ![r] = FALSE]
  /\ \/ /\ MayWalkIn
        /\ active' = TRUE
        /\ pc' = [pc EXCEPT ![r] = "in"]
        /\ UNCHANGED waiting
     \/ /\ ~MayWalkIn /\ LineFull
        /\ pc' = [pc EXCEPT ![r] = "full"]
        /\ UNCHANGED <<active, waiting>>
     \/ /\ ~MayWalkIn /\ ~LineFull
        /\ waiting' = Append(waiting, r)
        /\ pc' = [pc EXCEPT ![r] = "check"]
        /\ UNCHANGED active

(* The test for one's turn.                                                *)
MyTurn(r) == ~active /\ waiting # <<>> /\ Head(waiting) = r

TakeTurn(r) ==
  /\ pc[r] = "check" /\ MyTurn(r)
  /\ waiting' = RemoveFirst(waiting, r)
  /\ active' = TRUE
  /\ pc' = [pc EXCEPT ![r] = "in"]
  /\ due' = [due EXCEPT ![r] = FALSE]
  /\ UNCHANGED style

(* _drop_locked.  Wrong variant: the ticket stays in the line.             *)
DropKeepsTicket(r) ==
  /\ waiting' = waiting
  /\ pc' = Woken([pc EXCEPT ![r] = "dropped"])

DropLocked(r) ==
  /\ waiting' = RemoveFirst(waiting, r)
  /\ pc' = Woken([pc EXCEPT ![r] = "dropped"])

(* The deadline is looked at only when it is not this thread's turn.       *)
GiveUp(r) ==
  /\ pc[r] = "check" /\ ~MyTurn(r)
  /\ style[r] = "plain" /\ due[r]
  /\ DropLocked(r)
  /\ UNCHANGED <<active, style, due>>

(* Neither its turn nor its time: cond.wait.  The lock is let go of        *)
(* atomically with going to sleep.                                         *)
Sleep(r) ==
  /\ pc[r] = "check" /\ ~MyTurn(r) /\ ~due[r]
  /\ pc' = [pc EXCEPT ![r] = "asleep"]
  /\ UNCHANGED <<active, waiting, style, due>>

WaitTimesOut(r) ==
  /\ pc[r] = "asleep" /\ due[r]
  /\ pc' = [pc EXCEPT ![r] = "check"]
  /\ UNCHANGED <<active, waiting, style, due>>

Tick(r) ==
  /\ pc[r] \in InLine /\ ~due[r]
  /\ due' = [due EXCEPT ![r] = TRUE]
  /\ UNCHANGED <<active, waiting, pc, style>>

StartBeat(r) ==
  /\ pc[r] = "check" /\ ~MyTurn(r)
  /\ style[r] = "stream" /\ due[r]
  /\ pc' = [pc EXCEPT ![r] = "beat"]
  /\ UNCHANGED <<active, waiting, style, due>>

(* The heartbeat is written, or raises OSError.                            *)
BeatGoesOut(r) ==
  /\ pc[r] = "beat"
  /\ pc' = [pc EXCEPT ![r] = "check"]
  /\ due' = [due EXCEPT ![r] = FALSE]
  /\ UNCHANGED <<active, waiting, style>>

BeatFails(r) ==
  /\ pc[r] = "beat"
  /\ pc' = [pc EXCEPT ![r] = "drop"]
  /\ UNCHANGED <<active, waiting, style, due>>

DropTicket(r) ==
  /\ pc[r] = "drop"
  /\ DropLocked(r)
  /\ UNCHANGED <<active, style, due>>

Release(r) ==
  /\ pc[r] = "in"
  /\ active' = FALSE
  /\ pc' = Woken([pc EXCEPT ![r] = "out"])
  /\ UNCHANGED <<waiting, style, due>>

-----------------------------------------------------------------------------
(* The queue with callers that use it as its docstrings say.               *)

Step(r) ==
  \/ TakeTurn(r) \/ GiveUp(r) \/ Sleep(r) \/ WaitTimesOut(r)
  \/ StartBeat(r) \/ BeatGoesOut(r) \/ BeatFails(r) \/ DropTicket(r)

QueueNext ==
  \E r \in Requests :
    \/ \E s \in Styles : TryEnter(r, s)
    \/ Step(r) \/ Tick(r) \/ Release(r)

QueueSpec == QueueInit /\ [][QueueNext]_qvars

(* Threads run, clocks advance and whoever is inside leaves again.  Nobody *)
(* is obliged to come, and a heartbeat need not ever fail.                 *)
FairQueueSpec ==
  /\ QueueSpec
  /\ \A r \in Requests : WF_qvars(Step(r)) /\ WF_qvars(Tick(r)) /\ WF_qvars(Release(r))

-----------------------------------------------------------------------------
(* Properties.                                                             *)

(* At most one request holds the run slot, and _active says whether one    *)
(* does (gateway_queue.py "one running request").                          *)
OneInside ==
  /\ \A r, s \in Requests : pc[r] = "in" /\ pc[s] = "in" => r = s
  /\ active <=> \E r \in Requests : pc[r] = "in"

(* A ticket is in the line exactly as long as its thread is in wait_turn,  *)
(* once: a caller that was told to go away (timeout, failed heartbeat) has *)
(* left nothing behind that would block the head of the line.              *)
TicketsAreWaiters ==
  /\ \A r \in Requests : Contains(waiting, r) <=> pc[r] \in InLine
  /\ \A i, j \in DOMAIN waiting : waiting[i] = waiting[j] => i = j

(* No lost wakeup: when the slot is free, the thread whose turn it is is   *)
(* not asleep (it has the lock, is going for it, or is about to).          *)
HeadIsAwake ==
  ~active /\ waiting # <<>> => pc[Head(waiting)] # "asleep"

(* The queue is a bounded FIFO turnstile: it implements Turnstile.         *)
Abstract == INSTANCE Turnstile WITH
  Clients <- Requests, inside <- {r \in Requests : pc[r] = "in"}, line <- waiting

TurnstileSpec == Abstract!Spec

(* A request in the line ends up inside or is sent away; it never waits    *)
(* forever while others come and go.                                       *)
NobodyStarves ==
  \A r \in Requests : pc[r] \in InLine ~> pc[r] \notin InLine
=============================================================================
