----------------------------- MODULE RunControl -----------------------------
(***************************************************************************)
(* Stopping a model run: packages/rtime-chat-runtime run_control.py        *)
(* (ActiveRunRegistry, stop_run), model_runner.py (run_claude and its      *)
(* retry) and feishu-bridge's use of them: bridge_runner.run_and_display   *)
(* and main._handle_stop_command.                                          *)
(*                                                                         *)
(* The registry has one entry per user, so this is the life of one user,   *)
(* who talks to the bot in several chats.  Runs of one chat follow each    *)
(* other (the chat lock, see ChatLanes), so at most as many runs overlap   *)
(* as there are chats.  All tasks share one event loop: an action is what  *)
(* a task does between two awaits.                                         *)
(*                                                                         *)
(* A run has at most two children, the second when resuming the session    *)
(* failed without a word; child <<r, t>> is the t-th child of run r.       *)
(*                                                                         *)
(* Left out: the text, tools, attachments, buttons, the session store and  *)
(* Feishu calls that fail.                                                 *)
(***************************************************************************)
EXTENDS Naturals, FiniteSets

CONSTANTS
  NChats,     \* chats the user writes in
  MaxRuns,    \* bound: runs that are ever started
  MaxStops    \* bound: /stop commands ever sent

ASSUME RunAssumption == NChats \in Nat /\ MaxRuns \in Nat /\ MaxStops \in Nat

Runs     == 1 .. MaxRuns
Stops    == 1 .. MaxStops
Children == Runs \X (1 .. 2)
NoChild  == <<0, 0>>

VARIABLES
  started,     \* runs so far
  stage,       \* how far its run_and_display is
  try,         \* its current child
  card,        \* what its card shows
  registered,  \* _runs[user_id], 0 when there is none
  proc, stopRequested, announced,    \* the fields of its ActiveRun
  child,       \* "none", "live", "told" (SIGTERM sent), "dead"
  stopper,     \* how far a /stop is
  target,      \* the ActiveRun it took, 0 for none
  victim,      \* and its process
  crowd        \* history: runs that had another run next to them

active == <<registered, proc, stopRequested, announced>>
stops  == <<stopper, target, victim>>
vars   == <<started, stage, try, card, active, child, stops, crowd>>

RunStages  == {"none", "spawn", "model", "failing", "finally", "finally_ok",
               "closing", "over"}
StopStages == {"idle", "wait", "announce", "done"}

TypeOK ==
  /\ started \in 0 .. MaxRuns
  /\ stage \in [Runs -> RunStages]
  /\ try \in [Runs -> 1 .. 2]
  /\ card \in [Runs -> {"none", "progress", "stopped", "answer", "error"}]
  /\ registered \in 0 .. started
  /\ proc \in [Runs -> Children \cup {NoChild}]
  /\ stopRequested \in [Runs -> BOOLEAN]
  /\ announced \in [Runs -> BOOLEAN]
  /\ child \in [Children -> {"none", "live", "told", "dead"}]
  /\ stopper \in [Stops -> StopStages]
  /\ target \in [Stops -> 0 .. started]
  /\ victim \in [Stops -> Children \cup {NoChild}]
  /\ crowd \subseteq Runs

Init ==
  /\ started = 0
  /\ stage = [r \in Runs |-> "none"]
  /\ try = [r \in Runs |-> 1]
  /\ card = [r \in Runs |-> "none"]
  /\ registered = 0
  /\ proc = [r \in Runs |-> NoChild]
  /\ stopRequested = [r \in Runs |-> FALSE]
  /\ announced = [r \in Runs |-> FALSE]
  /\ child = [c \in Children |-> "none"]
  /\ stopper = [s \in Stops |-> "idle"]
  /\ target = [s \in Stops |-> 0]
  /\ victim = [s \in Stops |-> NoChild]
  /\ crowd = {}

-----------------------------------------------------------------------------
(* The run.                                                                *)

InProgress == {r \in Runs : stage[r] \notin {"none", "over"}}

(* run_and_display: a card is up, the run is registered, its child on the  *)
(* way.                                                                    *)
Start ==
  LET r == started + 1
  IN /\ r \in Runs
     /\ Cardinality(InProgress) < NChats
     /\ started' = r
     /\ stage' = [stage EXCEPT ![r] = "spawn"]
     /\ card' = [card EXCEPT ![r] = "progress"]
     /\ registered' = r
     /\ crowd' = IF InProgress = {} THEN crowd ELSE crowd \cup InProgress \cup {r}
     /\ UNCHANGED <<try, proc, stopRequested, announced, child, stops>>

(* attach_process: is the new child terminated at once?  Wrong variant:    *)
(* a stop that came before it is forgotten.                                *)
AttachForgets(a) == FALSE

AttachTerminates(a) == stopRequested[a]

(* The child is there; attach_process gives it to whatever run is          *)
(* registered for the user.                                                *)
Spawn(r) ==
  LET a == registered
  IN /\ stage[r] = "spawn"
     /\ stage' = [stage EXCEPT ![r] = "model"]
     /\ \/ /\ a = 0
           /\ child' = [child EXCEPT ![<<r, try[r]>>] = "live"]
           /\ UNCHANGED proc
        \/ /\ a # 0
           /\ proc' = [proc EXCEPT ![a] = <<r, try[r]>>]
           /\ child' = [child EXCEPT ![<<r, try[r]>>] =
                          IF AttachTerminates(a) THEN "told" ELSE "live"]
     /\ UNCHANGED <<started, try, card, registered, stopRequested, announced, stops, crowd>>

(* A failure reaches the except clause of run_and_display: silence for a   *)
(* stopped run, else an error on its card.                                 *)
Failed(r) == IF stopRequested[r] THEN "finally" ELSE "failing"

SpawnFails(r) ==
  /\ stage[r] = "spawn"
  /\ stage' = [stage EXCEPT ![r] = Failed(r)]
  /\ UNCHANGED <<started, try, card, active, child, stops, crowd>>

(* Is a resumed session that failed tried afresh?                          *)
MayRetry(r) == try[r] = 1

(* The child has ended: its text is an answer whatever its exit code, a    *)
(* resumed session that failed without a word is tried once more afresh,   *)
(* any other bad exit is a failure.                                        *)
ModelEnds(r) ==
  /\ stage[r] = "model"
  /\ child[<<r, try[r]>>] = "dead"
  /\ \/ stage' = [stage EXCEPT ![r] = "finally_ok"] /\ UNCHANGED try
     \/ /\ MayRetry(r)
        /\ try' = [try EXCEPT ![r] = @ + 1]
        /\ stage' = [stage EXCEPT ![r] = "spawn"]
     \/ stage' = [stage EXCEPT ![r] = Failed(r)] /\ UNCHANGED try
  /\ UNCHANGED <<started, card, active, child, stops, crowd>>

(* Nothing read for IDLE_TIMEOUT and no grandchildren: the child is killed.*)
IdleTimeout(r) ==
  /\ stage[r] = "model"
  /\ child[<<r, try[r]>>] \in {"live", "told"}
  /\ child' = [child EXCEPT ![<<r, try[r]>>] = "dead"]
  /\ stage' = [stage EXCEPT ![r] = Failed(r)]
  /\ UNCHANGED <<started, try, card, active, stops, crowd>>

(* Streamed text or a heartbeat, put on the card until the run has ended.  *)
Push(r) ==
  /\ stage[r] \in {"spawn", "model"}
  /\ card[r] = "stopped"
  /\ card' = [card EXCEPT ![r] = "progress"]
  /\ UNCHANGED <<started, stage, try, active, child, stops, crowd>>

ShowError(r) ==
  /\ stage[r] = "failing"
  /\ card' = [card EXCEPT ![r] = "error"]
  /\ stage' = [stage EXCEPT ![r] = "finally"]
  /\ UNCHANGED <<started, try, active, child, stops, crowd>>

(* clear_run: what is registered once run r is over.  Wrong variant:       *)
(* whoever is registered goes.                                             *)
NobodyAfter(r) == 0

RegisteredAfter(r) == IF registered = r THEN 0 ELSE registered

(* The finally of run_and_display, after the heartbeat task is gone.       *)
Clear(r) ==
  /\ stage[r] \in {"finally", "finally_ok"}
  /\ registered' = RegisteredAfter(r)
  /\ stage' = [stage EXCEPT ![r] = IF @ = "finally_ok" THEN "closing" ELSE "over"]
  /\ UNCHANGED <<started, try, card, proc, stopRequested, announced, child, stops, crowd>>

Close(r) ==
  /\ stage[r] = "closing"
  /\ card' = [card EXCEPT ![r] = "answer"]
  /\ stage' = [stage EXCEPT ![r] = "over"]
  /\ UNCHANGED <<started, try, active, child, stops, crowd>>

-----------------------------------------------------------------------------
(* /stop, handled outside the chat lock.                                   *)

Stoppable == {r \in Runs : ~stopRequested[r]}

(* _handle_stop_command up to the first await.                             *)
Stop(s) ==
  LET a == registered
  IN /\ stopper[s] = "idle" /\ \A u \in 1 .. s - 1 : stopper[u] # "idle"
     /\ \/ /\ a \notin Stoppable    \* "nothing runs", "wait a moment"
           /\ stopper' = [stopper EXCEPT ![s] = "done"]
           /\ UNCHANGED <<stopRequested, child, target, victim>>
        \/ /\ a \in Stoppable
           /\ stopRequested' = [stopRequested EXCEPT ![a] = TRUE]
           /\ target' = [target EXCEPT ![s] = a]
           /\ victim' = [victim EXCEPT ![s] = proc[a]]
           /\ \/ /\ proc[a] # NoChild /\ child[proc[a]] \in {"live", "told"}
                 /\ child' = [child EXCEPT ![proc[a]] = "told"]
                 /\ stopper' = [stopper EXCEPT ![s] = "wait"]
              \/ /\ proc[a] # NoChild => child[proc[a]] = "dead"
                 /\ stopper' = [stopper EXCEPT ![s] = "announce"]
                 /\ UNCHANGED child
     /\ UNCHANGED <<started, stage, try, card, registered, proc, announced, crowd>>

VictimGone(s) ==
  /\ stopper[s] = "wait"
  /\ child[victim[s]] = "dead"
  /\ stopper' = [stopper EXCEPT ![s] = "announce"]
  /\ UNCHANGED <<started, stage, try, card, active, child, target, victim, crowd>>

(* What the signal that follows the grace period makes of the child.       *)
(* Wrong variant: it is SIGTERM again.                                     *)
TerminatedAgain == "told"

Killed == "dead"

(* grace_seconds have passed.                                              *)
GraceOver(s) ==
  /\ stopper[s] = "wait"
  /\ child[victim[s]] = "told"
  /\ child' = [child EXCEPT ![victim[s]] = Killed]
  /\ UNCHANGED <<started, stage, try, card, active, stops, crowd>>

(* on_stopped: the card says stopped.                                      *)
Announce(s) ==
  LET a == target[s]
  IN /\ stopper[s] = "announce"
     /\ stopper' = [stopper EXCEPT ![s] = "done"]
     /\ card' = IF announced[a] THEN card ELSE [card EXCEPT ![a] = "stopped"]
     /\ announced' = [announced EXCEPT ![a] = TRUE]
     /\ UNCHANGED <<started, stage, try, registered, proc, stopRequested,
                    child, target, victim, crowd>>

-----------------------------------------------------------------------------
(* The children.                                                           *)

Exit(c) ==
  /\ child[c] \in {"live", "told"}
  /\ child' = [child EXCEPT ![c] = "dead"]
  /\ UNCHANGED <<started, stage, try, card, active, stops, crowd>>

RunStep(r) ==
  \/ Spawn(r) \/ SpawnFails(r) \/ ModelEnds(r)
  \/ ShowError(r) \/ Clear(r) \/ Close(r)

Done ==
  /\ started = MaxRuns /\ InProgress = {}
  /\ \A s \in Stops : stopper[s] = "done"
  /\ UNCHANGED vars

StopStep(s) == VictimGone(s) \/ GraceOver(s) \/ Announce(s)

Next ==
  \/ Start
  \/ \E r \in Runs : RunStep(r) \/ IdleTimeout(r) \/ Push(r)
  \/ \E s \in Stops : Stop(s) \/ StopStep(s)
  \/ \E c \in Children : Exit(c)
  \/ Done

Spec == Init /\ [][Next]_vars

(* The event loop runs every task and every timer.  Children owe nothing.  *)
FairSpec == Spec /\ (\A r \in Runs : WF_vars(RunStep(r)))
                 /\ (\A s \in Stops : WF_vars(StopStep(s)))

(* What a well-behaved child does: it ends when it gets a SIGTERM.         *)
ObeysSigterm ==
  \A c \in Children : WF_vars(child[c] = "told" /\ Exit(c))

-----------------------------------------------------------------------------
(* Properties.                                                             *)

(* /stop is for the task the user started last: until that run is over, it *)
(* is the registered one, whatever older runs end meanwhile (the identity  *)
(* test of clear_run).                                                     *)
NewestIsRegistered ==
  \A r \in Runs : r = started /\ stage[r] \in {"spawn", "model", "failing"}
                    => registered = r

(* A stop is not lost between two children: a run that had no other run    *)
(* next to it and was asked to stop has no child that was not told to end, *)
(* not even one spawned after the stop.                                    *)
StoppedIsTold ==
  \A r \in Runs \ crowd :
    stopRequested[r] => \A t \in 1 .. 2 : child[<<r, t>>] # "live"

(* README "/stop": such a run comes to its end if its children obey.       *)
StopEndsRun ==
  ObeysSigterm =>
    \A r \in Runs : stopRequested[r] ~> stage[r] = "over" \/ r \in crowd

(* Whoever asked for a stop sees it announced, obedient children or not.   *)
StopIsAnnounced == \A r \in Runs : stopRequested[r] ~> announced[r]

(* README: "/stop" stops the task that is running.  It can only find one   *)
(* in the registry: as long as a child of a run that never had another one *)
(* next to it runs, even one that was told to end, the registry names that *)
(* run.  (With two runs it may be empty: the one that ends last of the two *)
(* need not be the one registered last.)                                   *)
StopFindsRun ==
  \A r \in Runs \ crowd, t \in 1 .. 2 :
    child[<<r, t>>] \in {"live", "told"} => registered = r

(* What keeps StoppedIsTold: whoever is registered has not been cleared,   *)
(* two runs in progress know of each other, a run that is alone is the     *)
(* registered one and its ActiveRun has its child.                         *)
Uncleared == {"spawn", "model", "failing", "finally", "finally_ok"}

NotYetStarted == \A r \in Runs : r > started => stage[r] = "none"

RegisteredIsUncleared == \A r \in Runs : registered = r => stage[r] \in Uncleared

NeighboursAreInCrowd == \A q, r \in InProgress : q # r => q \in crowd

LonerIsRegistered ==
  \A r \in Runs \ crowd :
    stage[r] \in {"spawn", "model", "failing"} => registered = r

RunningIsCurrent ==
  \A r \in Runs, t \in 1 .. 2 :
    child[<<r, t>>] \in {"live", "told"} => stage[r] = "model" /\ t = try[r]

LonerIsAttached ==
  \A r \in Runs \ crowd, t \in 1 .. 2 :
    child[<<r, t>>] = "live" => proc[r] = <<r, t>>

StopInv ==
  /\ NotYetStarted /\ RegisteredIsUncleared /\ NeighboursAreInCrowd
  /\ LonerIsRegistered /\ RunningIsCurrent /\ LonerIsAttached
  /\ StoppedIsTold
=============================================================================
