---------------------------- MODULE FeishuProofs ----------------------------
(***************************************************************************)
(* Proofs about the two parts of feishu-bridge: RunControl, for every      *)
(* number of chats, runs and stops, and FeishuSessions, for any sessions   *)
(* and any length of the history.                                          *)
(***************************************************************************)
EXTENDS RunControl, FeishuSessions, SequenceTheorems, FiniteSetTheorems, TLAPS

(* A step is one of these.                                                 *)
LEMMA NextCases ==
  ASSUME Next
  PROVE  \/ Start
         \/ \E r \in Runs : Spawn(r) \/ SpawnFails(r) \/ ModelEnds(r) \/ IdleTimeout(r)
         \/ \E r \in Runs : Push(r) \/ ShowError(r) \/ Clear(r) \/ Close(r)
         \/ \E s \in Stops : Stop(s) \/ VictimGone(s) \/ GraceOver(s) \/ Announce(s)
         \/ \E c \in Children : Exit(c)
         \/ UNCHANGED vars
BY DEF Next, RunStep, StopStep, Done

-----------------------------------------------------------------------------
(* Type correctness.                                                       *)

LEMMA InitTypeOK == Init => TypeOK
BY RunAssumption DEF Init, TypeOK, Runs, Stops, Children, NoChild, RunStages, StopStages

LEMMA StartTypeOK == TypeOK /\ Start => TypeOK'
<1> SUFFICES ASSUME TypeOK, Start PROVE TypeOK'
  OBVIOUS
<1> USE RunAssumption DEF TypeOK, Start, stops
<1>1. started + 1 \in Runs /\ started' = started + 1 /\ registered' = started'
  OBVIOUS
<1>2. started' \in 0 .. MaxRuns /\ registered' \in 0 .. started'
  BY <1>1 DEF Runs
<1>3. stage' \in [Runs -> RunStages]
  BY DEF RunStages
<1>4. card' \in [Runs -> {"none", "progress", "stopped", "answer", "error"}]
  OBVIOUS
<1>5. crowd' \subseteq Runs
  <2>1. crowd' \subseteq crowd \cup InProgress \cup {started + 1}
    OBVIOUS
  <2>2. InProgress \subseteq Runs
    BY DEF InProgress
  <2> QED BY <1>1, <2>1, <2>2
<1>6. target' \in [Stops -> 0 .. started']
  <2>1. 0 .. started \subseteq 0 .. started'
    BY <1>1
  <2>2. target' = target /\ target \in [Stops -> 0 .. started]
    OBVIOUS
  <2> QED BY <2>1, <2>2
<1>7. /\ try' \in [Runs -> 1 .. 2]
      /\ proc' \in [Runs -> Children \cup {NoChild}]
      /\ stopRequested' \in [Runs -> BOOLEAN]
      /\ announced' \in [Runs -> BOOLEAN]
      /\ child' \in [Children -> {"none", "live", "told", "dead"}]
      /\ stopper' \in [Stops -> StopStages]
      /\ victim' \in [Stops -> Children \cup {NoChild}]
  OBVIOUS
<1> QED BY <1>2, <1>3, <1>4, <1>5, <1>6, <1>7

LEMMA RunTypeOK ==
  ASSUME TypeOK, NEW r \in Runs
  PROVE  /\ Spawn(r) => TypeOK'
         /\ SpawnFails(r) => TypeOK'
         /\ ModelEnds(r) => TypeOK'
         /\ IdleTimeout(r) => TypeOK'
         /\ Push(r) => TypeOK'
         /\ ShowError(r) => TypeOK'
         /\ Clear(r) => TypeOK'
         /\ Close(r) => TypeOK'
<1> USE RunAssumption DEF TypeOK, RunStages
<1>1. ASSUME Spawn(r) PROVE TypeOK'
  <2>1. <<r, try[r]>> \in Children
    BY DEF Children
  <2>2. registered # 0 => registered \in Runs
    BY DEF Runs
  <2>3. stage' \in [Runs -> RunStages]
    BY <1>1 DEF Spawn
  <2>4. proc' \in [Runs -> Children \cup {NoChild}]
    BY <1>1, <2>1 DEF Spawn
  <2>5. child' \in [Children -> {"none", "live", "told", "dead"}]
    BY <1>1, <2>1 DEF Spawn
  <2> QED BY <1>1, <2>3, <2>4, <2>5 DEF Spawn, stops
<1>2. SpawnFails(r) => TypeOK'
  BY DEF SpawnFails, Failed, active, stops
<1>3. ModelEnds(r) => TypeOK'
  BY DEF ModelEnds, MayRetry, Failed, active, stops
<1>4. IdleTimeout(r) => TypeOK'
  BY DEF IdleTimeout, Failed, active, stops
<1>5. Push(r) => TypeOK'
  BY DEF Push, active, stops
<1>6. ShowError(r) => TypeOK'
  BY DEF ShowError, active, stops
<1>7. Clear(r) => TypeOK'
  BY DEF Clear, RegisteredAfter, stops
<1>8. Close(r) => TypeOK'
  BY DEF Close, active, stops
<1> QED BY <1>1, <1>2, <1>3, <1>4, <1>5, <1>6, <1>7, <1>8

LEMMA StopTypeOK ==
  ASSUME TypeOK, NEW s \in Stops
  PROVE  /\ Stop(s) => TypeOK'
         /\ VictimGone(s) => TypeOK'
         /\ GraceOver(s) => TypeOK'
         /\ Announce(s) => TypeOK'
<1> USE RunAssumption DEF TypeOK, StopStages
<1>1. ASSUME Stop(s) PROVE TypeOK'
  <2>1. stopRequested' \in [Runs -> BOOLEAN]
    BY <1>1 DEF Stop
  <2>2. child' \in [Children -> {"none", "live", "told", "dead"}]
    BY <1>1 DEF Stop
  <2>3. stopper' \in [Stops -> StopStages]
    BY <1>1 DEF Stop
  <2>4. target' \in [Stops -> 0 .. started]
    BY <1>1 DEF Stop
  <2>5. victim' \in [Stops -> Children \cup {NoChild}]
    BY <1>1 DEF Stop, Stoppable
  <2> QED BY <1>1, <2>1, <2>2, <2>3, <2>4, <2>5 DEF Stop
<1>2. VictimGone(s) => TypeOK'
  BY DEF VictimGone, active
<1>3. ASSUME GraceOver(s) PROVE TypeOK'
  <2>1. child' \in [Children -> {"none", "live", "told", "dead"}]
    BY <1>3 DEF GraceOver, Killed
  <2>2. stopper' \in [Stops -> StopStages]
    BY <1>3 DEF GraceOver, stops
  <2> QED BY <1>3, <2>1, <2>2 DEF GraceOver, active, stops
<1>4. Announce(s) => TypeOK'
  BY DEF Announce
<1> QED BY <1>1, <1>2, <1>3, <1>4

LEMMA ExitTypeOK ==
  ASSUME TypeOK, NEW c \in Children
  PROVE  Exit(c) => TypeOK'
BY DEF TypeOK, Exit, active, stops

LEMMA NextTypeOK == TypeOK /\ [Next]_vars => TypeOK'
<1> SUFFICES ASSUME TypeOK, [Next]_vars PROVE TypeOK'
  OBVIOUS
<1>1. CASE UNCHANGED vars
  BY <1>1 DEF TypeOK, vars, active, stops
<1>2. CASE Next
  BY <1>1, <1>2, NextCases, StartTypeOK, RunTypeOK, StopTypeOK, ExitTypeOK
<1> QED BY <1>1, <1>2

(* Type correctness of run_control.py's state and the tasks that use it.   *)
THEOREM TypeCorrect == Spec => []TypeOK
BY InitTypeOK, NextTypeOK, PTL DEF Spec

-----------------------------------------------------------------------------
(* The registry.                                                           *)

LEMMA NextNewest == TypeOK /\ NewestIsRegistered /\ [Next]_vars => NewestIsRegistered'
<1> SUFFICES ASSUME TypeOK, NewestIsRegistered, [Next]_vars PROVE NewestIsRegistered'
  OBVIOUS
<1> USE DEF NewestIsRegistered, TypeOK
<1>1. CASE UNCHANGED vars
  BY <1>1 DEF vars, active
<1>2. CASE Start
  BY <1>2 DEF Start, Runs
<1>3. ASSUME NEW r \in Runs, Spawn(r) \/ SpawnFails(r) \/ ModelEnds(r) \/ IdleTimeout(r)
      PROVE  NewestIsRegistered'
  BY <1>3 DEF Spawn, SpawnFails, ModelEnds, IdleTimeout, active
<1>4. ASSUME NEW r \in Runs, Push(r) \/ ShowError(r) \/ Close(r)
      PROVE  NewestIsRegistered'
  BY <1>4 DEF Push, ShowError, Close, active
<1>5. ASSUME NEW r \in Runs, Clear(r)
      PROVE  NewestIsRegistered'
  BY <1>5 DEF Clear, RegisteredAfter
<1>6. ASSUME NEW s \in Stops, Stop(s) \/ VictimGone(s) \/ GraceOver(s) \/ Announce(s)
      PROVE  NewestIsRegistered'
  BY <1>6 DEF Stop, VictimGone, GraceOver, Announce, active
<1>7. ASSUME NEW c \in Children, Exit(c)
      PROVE  NewestIsRegistered'
  BY <1>7 DEF Exit, active
<1> QED BY <1>1, <1>2, <1>3, <1>4, <1>5, <1>6, <1>7, NextCases

(* The identity test of clear_run: whatever older runs of the user end,    *)
(* the one started last stays registered until it is over itself.          *)
THEOREM NewestStaysRegistered == Spec => []NewestIsRegistered
<1>1. Init => NewestIsRegistered
  BY DEF Init, NewestIsRegistered
<1> QED BY <1>1, TypeCorrect, NextNewest, PTL DEF Spec

-----------------------------------------------------------------------------
(* Stops that reach every child of a run that is alone.                    *)

LEMMA InitStopInv == Init => StopInv
BY DEF Init, StopInv, NotYetStarted, RegisteredIsUncleared, NeighboursAreInCrowd,
       LonerIsRegistered, RunningIsCurrent, LonerIsAttached, StoppedIsTold,
       InProgress, Runs, Children

(* A run that starts finds the others and is known to them.                *)
LEMMA StartStopInv == TypeOK /\ StopInv /\ Start => StopInv'
<1> SUFFICES ASSUME TypeOK, StopInv, Start PROVE StopInv'
  OBVIOUS
<1> DEFINE n == started + 1
<1>1. /\ n \in Runs /\ started' = n /\ registered' = n
      /\ stage' = [stage EXCEPT ![n] = "spawn"]
      /\ UNCHANGED <<try, proc, child, stopRequested>>
  BY DEF Start
<1>2. crowd' = IF InProgress = {} THEN crowd ELSE crowd \cup InProgress \cup {n}
  BY DEF Start
<1>3. stage[n] = "none" /\ stage'[n] = "spawn" /\ \A r \in Runs \ {n} : stage'[r] = stage[r]
  BY <1>1 DEF StopInv, NotYetStarted, TypeOK, Runs
<1>4. \A t \in 1 .. 2 : child[<<n, t>>] \notin {"live", "told"}
  BY <1>1, <1>3 DEF StopInv, RunningIsCurrent
<1>5. crowd \subseteq crowd'
  BY <1>2
<1> HIDE DEF n
<1>6. NotYetStarted'
  <2>1. ASSUME NEW r \in Runs, r > started' PROVE stage'[r] = "none"
    <3>1. r # n /\ r > started
      BY <1>1, <2>1 DEF Runs, TypeOK, n
    <3> QED BY <1>3, <3>1 DEF StopInv, NotYetStarted
  <2> QED BY <2>1 DEF NotYetStarted
<1>7. RegisteredIsUncleared'
  BY <1>1, <1>3 DEF RegisteredIsUncleared, Uncleared
<1>8. InProgress' = InProgress \cup {n}
  BY <1>1, <1>3 DEF InProgress
<1>9. NeighboursAreInCrowd'
  BY <1>2, <1>8 DEF NeighboursAreInCrowd
<1>10. LonerIsRegistered'
  BY <1>1, <1>2, <1>3 DEF LonerIsRegistered, InProgress
<1>11. RunningIsCurrent'
  BY <1>1, <1>3, <1>4 DEF StopInv, RunningIsCurrent
<1>12. LonerIsAttached'
  BY <1>1, <1>5 DEF StopInv, LonerIsAttached
<1>13. StoppedIsTold'
  BY <1>1, <1>5 DEF StopInv, StoppedIsTold
<1> QED BY <1>6, <1>7, <1>9, <1>10, <1>11, <1>12, <1>13 DEF StopInv

(* Steps that do not touch runs, registry and children, or only end a      *)
(* child.                                                                  *)
LEMMA QuietStopInv ==
  ASSUME TypeOK, StopInv,
         UNCHANGED <<started, stage, try, registered, proc, stopRequested, crowd>>,
         child' \in [Children -> {"none", "live", "told", "dead"}],
         \A c \in Children : child'[c] \in {child[c], "dead"}
  PROVE  StopInv'
<1>1. \A r \in Runs, t \in 1 .. 2 : child'[<<r, t>>] \in {child[<<r, t>>], "dead"}
  BY DEF Children
<1>2. NotYetStarted' /\ RegisteredIsUncleared' /\ NeighboursAreInCrowd' /\ LonerIsRegistered'
  BY DEF StopInv, NotYetStarted, RegisteredIsUncleared, NeighboursAreInCrowd,
         LonerIsRegistered, InProgress
<1>3. RunningIsCurrent'
  BY <1>1 DEF StopInv, RunningIsCurrent
<1>4. LonerIsAttached'
  <2>1. ASSUME NEW r \in Runs \ crowd, NEW t \in 1 .. 2, child'[<<r, t>>] = "live"
        PROVE  proc'[r] = <<r, t>>
    <3>1. child[<<r, t>>] = "live"
      BY <1>1, <2>1
    <3> QED BY <3>1 DEF StopInv, LonerIsAttached
  <2> QED BY <2>1 DEF LonerIsAttached
<1>5. StoppedIsTold'
  BY <1>1 DEF StopInv, StoppedIsTold
<1> QED BY <1>2, <1>3, <1>4, <1>5 DEF StopInv

(* The new child of a run that is alone is attached to that run, and told  *)
(* to end when the run was to stop; the process of a run in a crowd may be *)
(* replaced.                                                               *)
LEMMA SpawnStopInv ==
  ASSUME TypeOK, StopInv, NEW r \in Runs, Spawn(r)
  PROVE  StopInv'
<1> DEFINE c == <<r, try[r]>>
<1>1. c \in Children
  BY DEF TypeOK, Children
<1>2. stage[r] = "spawn" /\ stage'[r] = "model" /\ \A q \in Runs \ {r} : stage'[q] = stage[q]
  BY DEF Spawn, TypeOK
<1>3. UNCHANGED <<started, try, registered, stopRequested, crowd>>
  BY DEF Spawn
<1>4. registered # 0 => /\ registered \in Runs
                        /\ proc' = [proc EXCEPT ![registered] = c]
                        /\ child' = [child EXCEPT ![c] =
                             IF stopRequested[registered] THEN "told" ELSE "live"]
  <2>1. registered # 0 => registered \in Runs
    BY RunAssumption DEF TypeOK, Runs
  <2> QED BY <2>1 DEF Spawn, AttachTerminates
<1>5. registered = 0 => proc' = proc /\ child' = [child EXCEPT ![c] = "live"]
  BY DEF Spawn
<1>6. r \notin crowd => registered = r /\ registered # 0
  BY <1>2 DEF StopInv, LonerIsRegistered, Runs
<1>7. \A q \in Runs, t \in 1 .. 2 : <<q, t>> # c => child'[<<q, t>>] = child[<<q, t>>]
  BY <1>1, <1>4, <1>5 DEF TypeOK, Children
<1> HIDE DEF c
<1>8. InProgress' = InProgress /\ r \in InProgress
  BY <1>2 DEF InProgress
<1>9. NotYetStarted' /\ RegisteredIsUncleared' /\ NeighboursAreInCrowd' /\ LonerIsRegistered'
  BY <1>2, <1>3, <1>8
     DEF StopInv, NotYetStarted, RegisteredIsUncleared, Uncleared, NeighboursAreInCrowd,
         LonerIsRegistered
<1>10. RunningIsCurrent'
  BY <1>2, <1>3, <1>7 DEF StopInv, RunningIsCurrent, c
<1>11. ASSUME NEW q \in Runs \ crowd, NEW t \in 1 .. 2, child'[<<q, t>>] = "live"
       PROVE  q = r /\ t = try[r]
  <2>1. ASSUME q # r PROVE FALSE
    <3>1. <<q, t>> # c
      BY <2>1 DEF c
    <3>2. child[<<q, t>>] = "live"
      BY <1>7, <1>11, <3>1
    <3>3. stage[q] = "model"
      BY <3>2 DEF StopInv, RunningIsCurrent
    <3>4. q \in InProgress
      BY <3>3 DEF InProgress
    <3> QED BY <1>8, <2>1, <3>4 DEF StopInv, NeighboursAreInCrowd
  <2>2. ASSUME q = r, t # try[r] PROVE FALSE
    <3>1. <<q, t>> # c
      BY <2>2 DEF c
    <3>2. child[<<q, t>>] = "live"
      BY <1>7, <1>11, <3>1
    <3> QED BY <1>2, <2>2, <3>2 DEF StopInv, RunningIsCurrent
  <2> QED BY <2>1, <2>2
<1>12. LonerIsAttached'
  <2>1. r \notin crowd => proc'[r] = c
    BY <1>4, <1>6 DEF TypeOK
  <2> QED BY <1>3, <1>11, <2>1 DEF LonerIsAttached, c
<1>13. StoppedIsTold'
  <2>1. r \notin crowd /\ stopRequested[r] => child'[c] = "told"
    BY <1>1, <1>4, <1>6 DEF TypeOK
  <2> QED BY <1>3, <1>11, <2>1 DEF StoppedIsTold, c
<1> QED BY <1>9, <1>10, <1>12, <1>13 DEF StopInv

(* A child that did not come up, and a child that has ended: the run has   *)
(* no living child, and none of its records change.                        *)
LEMMA FailStopInv ==
  ASSUME TypeOK, StopInv, NEW r \in Runs, SpawnFails(r) \/ ModelEnds(r)
  PROVE  StopInv'
<1>1. \A t \in 1 .. 2 : child[<<r, t>>] \notin {"live", "told"}
  BY DEF SpawnFails, ModelEnds, StopInv, RunningIsCurrent
<1>2. /\ stage[r] \in {"spawn", "model"}
      /\ stage'[r] \in Uncleared
      /\ \A q \in Runs \ {r} : stage'[q] = stage[q] /\ try'[q] = try[q]
  BY DEF SpawnFails, ModelEnds, Failed, Uncleared, TypeOK
<1>3. UNCHANGED <<started, registered, proc, stopRequested, child, crowd>>
  BY DEF SpawnFails, ModelEnds, active
<1>4. InProgress' = InProgress
  BY <1>2 DEF InProgress, Uncleared
<1>5. NotYetStarted' /\ RegisteredIsUncleared' /\ NeighboursAreInCrowd' /\ LonerIsRegistered'
  BY <1>2, <1>3, <1>4
     DEF StopInv, NotYetStarted, RegisteredIsUncleared, NeighboursAreInCrowd, LonerIsRegistered
<1>6. RunningIsCurrent'
  BY <1>1, <1>2, <1>3 DEF StopInv, RunningIsCurrent
<1>7. LonerIsAttached' /\ StoppedIsTold'
  BY <1>3 DEF StopInv, LonerIsAttached, StoppedIsTold
<1> QED BY <1>5, <1>6, <1>7 DEF StopInv

(* A silent child is killed and its run fails.                             *)
LEMMA IdleStopInv ==
  ASSUME TypeOK, StopInv, NEW r \in Runs, IdleTimeout(r)
  PROVE  StopInv'
<1> DEFINE c == <<r, try[r]>>
<1>1. c \in Children /\ child' = [child EXCEPT ![c] = "dead"]
  BY DEF TypeOK, Children, IdleTimeout
<1>2. /\ \A q \in Runs, t \in 1 .. 2 : <<q, t>> # c => child'[<<q, t>>] = child[<<q, t>>]
      /\ child'[c] = "dead"
  BY <1>1 DEF TypeOK, Children
<1> HIDE DEF c
<1>3. /\ stage[r] = "model"
      /\ stage'[r] \in {"failing", "finally"}
      /\ \A q \in Runs \ {r} : stage'[q] = stage[q]
  BY DEF IdleTimeout, Failed, TypeOK
<1>4. UNCHANGED <<started, try, registered, proc, stopRequested, crowd>>
  BY DEF IdleTimeout, active
<1>5. InProgress' = InProgress
  BY <1>3 DEF InProgress
<1>6. NotYetStarted' /\ RegisteredIsUncleared' /\ NeighboursAreInCrowd' /\ LonerIsRegistered'
  BY <1>3, <1>4, <1>5
     DEF StopInv, NotYetStarted, RegisteredIsUncleared, Uncleared, NeighboursAreInCrowd,
         LonerIsRegistered
<1>7. ASSUME NEW q \in Runs, NEW t \in 1 .. 2, child'[<<q, t>>] \in {"live", "told"}
      PROVE  q # r /\ child'[<<q, t>>] = child[<<q, t>>]
  <2>1. <<q, t>> # c /\ child'[<<q, t>>] = child[<<q, t>>]
    BY <1>2, <1>7
  <2>2. q = r => t = try[r]
    BY <1>7, <2>1 DEF StopInv, RunningIsCurrent
  <2> QED BY <2>1, <2>2 DEF c
<1>8. RunningIsCurrent'
  BY <1>3, <1>4, <1>7 DEF StopInv, RunningIsCurrent
<1>9. LonerIsAttached'
  BY <1>4, <1>7 DEF StopInv, LonerIsAttached
<1>10. StoppedIsTold'
  BY <1>4, <1>7 DEF StopInv, StoppedIsTold
<1> QED BY <1>6, <1>8, <1>9, <1>10 DEF StopInv

(* The steps of a run after its model.                                     *)
LEMMA EndStopInv ==
  ASSUME TypeOK, StopInv, NEW r \in Runs, ShowError(r) \/ Clear(r) \/ Close(r)
  PROVE  StopInv'
<1>1. /\ stage[r] \in {"failing", "finally", "finally_ok", "closing"}
      /\ stage'[r] \in {"finally", "closing", "over"}
      /\ \A q \in Runs \ {r} : stage'[q] = stage[q]
  BY DEF ShowError, Clear, Close, TypeOK
<1>2. UNCHANGED <<started, try, proc, stopRequested, child, crowd>>
  BY DEF ShowError, Clear, Close, active
<1>3. InProgress' \subseteq InProgress
  BY <1>1 DEF InProgress
<1>4. NotYetStarted'
  BY <1>1, <1>2 DEF StopInv, NotYetStarted
<1>5. NeighboursAreInCrowd'
  BY <1>2, <1>3 DEF StopInv, NeighboursAreInCrowd
<1>6. \A q \in Runs \ {r} : registered = q <=> registered' = q
  BY DEF ShowError, Clear, Close, RegisteredAfter, active, Runs, TypeOK
<1>7. RegisteredIsUncleared'
  <2>1. registered' = r => stage'[r] \in Uncleared
    <3>1. CASE ShowError(r)
      BY <3>1 DEF ShowError, TypeOK, Uncleared
    <3>2. CASE Clear(r)
      BY <3>2 DEF Clear, RegisteredAfter, Runs
    <3>3. CASE Close(r)
      BY <3>3 DEF Close, active, StopInv, RegisteredIsUncleared, Uncleared
    <3> QED BY <3>1, <3>2, <3>3
  <2> QED BY <1>1, <1>6, <2>1 DEF StopInv, RegisteredIsUncleared
<1>8. LonerIsRegistered'
  BY <1>1, <1>2, <1>6 DEF StopInv, LonerIsRegistered
<1>9. RunningIsCurrent'
  BY <1>1, <1>2 DEF StopInv, RunningIsCurrent
<1>10. LonerIsAttached' /\ StoppedIsTold'
  BY <1>2 DEF StopInv, LonerIsAttached, StoppedIsTold
<1> QED BY <1>4, <1>5, <1>7, <1>8, <1>9, <1>10 DEF StopInv

(* /stop: the registered run has its child on record if it is alone, so    *)
(* that child gets the SIGTERM.                                            *)
LEMMA AskStopInv ==
  ASSUME TypeOK, StopInv, NEW s \in Stops, Stop(s)
  PROVE  StopInv'
<1> DEFINE a == registered
<1>1. UNCHANGED <<started, stage, try, registered, proc, crowd>>
  BY DEF Stop
<1>2. NotYetStarted' /\ RegisteredIsUncleared' /\ NeighboursAreInCrowd' /\ LonerIsRegistered'
  BY <1>1 DEF StopInv, NotYetStarted, RegisteredIsUncleared, NeighboursAreInCrowd,
              LonerIsRegistered, InProgress
<1>3. \A q \in Runs, t \in 1 .. 2 :
         \/ child'[<<q, t>>] = child[<<q, t>>]
         \/ child[<<q, t>>] \in {"live", "told"} /\ child'[<<q, t>>] = "told"
  BY DEF Stop, TypeOK, Children
<1>4. RunningIsCurrent'
  BY <1>1, <1>3 DEF StopInv, RunningIsCurrent
<1>5. LonerIsAttached'
  <2>1. ASSUME NEW q \in Runs \ crowd, NEW t \in 1 .. 2, child'[<<q, t>>] = "live"
        PROVE  proc'[q] = <<q, t>>
    <3>1. child[<<q, t>>] = "live"
      BY <1>3, <2>1
    <3> QED BY <1>1, <3>1 DEF StopInv, LonerIsAttached
  <2> QED BY <1>1, <2>1 DEF LonerIsAttached
<1>6. StoppedIsTold'
  <2>1. ASSUME NEW q \in Runs \ crowd, stopRequested'[q], NEW t \in 1 .. 2,
               child'[<<q, t>>] = "live"
        PROVE  FALSE
    <3>1. child[<<q, t>>] = "live"
      BY <1>3, <2>1
    <3>2. ~stopRequested[q]
      BY <3>1 DEF StopInv, StoppedIsTold
    <3>3. q = a /\ a \in Stoppable /\ stopRequested' = [stopRequested EXCEPT ![a] = TRUE]
      BY <2>1, <3>2 DEF Stop, TypeOK
    <3>4. proc[a] = <<q, t>>
      BY <3>1, <3>3 DEF StopInv, LonerIsAttached
    <3>5. <<q, t>> \in Children /\ proc[a] # NoChild
      BY <3>4 DEF Children, NoChild, Runs
    <3>6. child' = [child EXCEPT ![proc[a]] = "told"]
      BY <3>1, <3>3, <3>4, <3>5 DEF Stop
    <3> QED BY <2>1, <3>4, <3>5, <3>6 DEF TypeOK
  <2> QED BY <1>1, <2>1 DEF StoppedIsTold
<1> QED BY <1>2, <1>4, <1>5, <1>6 DEF StopInv

LEMMA NextStopInv == TypeOK /\ StopInv /\ [Next]_vars => StopInv'
<1> SUFFICES ASSUME TypeOK, StopInv, [Next]_vars PROVE StopInv'
  OBVIOUS
<1>1. TypeOK'
  BY NextTypeOK
<1>2. CASE UNCHANGED vars
  BY <1>1, <1>2, QuietStopInv DEF vars, active, TypeOK
<1>3. ASSUME NEW r \in Runs, Push(r)
      PROVE  StopInv'
  BY <1>1, <1>3, QuietStopInv DEF Push, active, TypeOK
<1>4. ASSUME NEW s \in Stops, VictimGone(s) \/ Announce(s)
      PROVE  StopInv'
  BY <1>1, <1>4, QuietStopInv DEF VictimGone, Announce, active, TypeOK
<1>5. ASSUME NEW s \in Stops, GraceOver(s)
      PROVE  StopInv'
  <2>1. \A c \in Children : child'[c] \in {child[c], "dead"}
    BY <1>5 DEF GraceOver, Killed, TypeOK
  <2> QED BY <1>1, <1>5, <2>1, QuietStopInv DEF GraceOver, active, TypeOK
<1>6. ASSUME NEW c \in Children, Exit(c)
      PROVE  StopInv'
  <2>1. \A d \in Children : child'[d] \in {child[d], "dead"}
    BY <1>6 DEF Exit, TypeOK
  <2> QED BY <1>1, <1>6, <2>1, QuietStopInv DEF Exit, active, TypeOK
<1> QED BY <1>2, <1>3, <1>4, <1>5, <1>6, NextCases, StartStopInv, SpawnStopInv,
           FailStopInv, IdleStopInv, EndStopInv, AskStopInv

(* attach_process and stop_run together: a /stop reaches every child of a  *)
(* run that is alone, the one that is spawned after it included.           *)
THEOREM StopReachesChildren == Spec => []StoppedIsTold
<1>1. StopInv => StoppedIsTold
  BY DEF StopInv
<1> QED BY <1>1, InitStopInv, TypeCorrect, NextStopInv, PTL DEF Spec

(* start_run and clear_run together: as long as a child of a run that is   *)
(* alone runs, told to end or not, the registry leads a /stop to that run. *)
THEOREM LonersAreFound == Spec => []StopFindsRun
<1>1. StopInv => StopFindsRun
  BY DEF StopInv, StopFindsRun, LonerIsRegistered, RunningIsCurrent
<1> QED BY <1>1, InitStopInv, TypeCorrect, NextStopInv, PTL DEF Spec

-----------------------------------------------------------------------------
(***************************************************************************)
(* FeishuSessions.                                                         *)
(*                                                                         *)
(* A session that is owed is looked for twice: in memory, and in the file  *)
(* a restart would read.  In both it is the current one, or in the history *)
(* with nothing behind it but what was put away after it.  What is behind  *)
(* it in the file is therefore less than a full history, so that no later  *)
(* save pushes it out before its time.  The file is only spoken of when no *)
(* saves have overlapped, and then each stage of the one save under way    *)
(* says what its temporary file holds.                                     *)
(***************************************************************************)

(* s is in h, and only sessions of F follow it there.                      *)
Listed(h, s, F) == \E i \in DOMAIN h : h[i] = s /\ \A j \in DOMAIN h : j > i => h[j] \in F

Found(cur, h, s) == s = cur \/ (s # current /\ Listed(h, s, newer[s]))

(* A file that is open by its name is there.                               *)
OpenOK ==
  \A w \in Writers :
    /\ holds[w] = "none" <=> saving[w] \in {"idle", "open"}
    /\ holds[w] = "tmp" => tmp # NoFile
    /\ holds[w] = "file" => file # NoFile

OwedOK ==
  /\ \A s \in Sessions : IsFiniteSet(newer[s])
  /\ \A s \in owed : Cardinality(newer[s]) < MaxHistory /\ Found(current, history, s)

(* What the save of a writer is to bring into the file: the loop saves     *)
(* what it has just changed.                                               *)
Due(w) == IF w = "loop" THEN owed ELSE owed \ unsaved

(* A save that no other has overlapped.                                    *)
AloneOK(w) ==
  /\ holds[w] = "tmp"
  /\ \A o \in Others(w) : holds[o] = "none"
  /\ saving[w] = "first" => tmp = Truncated
  /\ saving[w] = "rest" =>
       /\ tmp.current # Blank /\ tmp.history = Blank
       /\ \A s \in Due(w) : s = tmp.current \/ s # current
  /\ saving[w] = "rename" =>
       /\ Whole(tmp)
       /\ \A s \in Due(w) : Found(tmp.current, tmp.history, s)

FileOK ==
  ~ mixed =>
    /\ \A w \in Writers : holds[w] # "none" => w \in alone
    /\ file = NoFile \/ Whole(file)
    /\ \A s \in owed \ unsaved : file # NoFile /\ Found(file.current, file.history, s)

SessionsInv ==
  /\ SessionsTypeOK /\ OpenOK /\ OwedOK /\ FileOK
  /\ \A w \in alone : AloneOK(w)

-----------------------------------------------------------------------------
(* Histories.                                                              *)

(* h lists no session twice.                                               *)
Once(h) == \A i, j \in 1 .. Len(h) : h[i] = h[j] => i = j

LEMMA HistoryIsSeq ==
  ASSUME NEW h
  PROVE  h \in Histories <=> h \in Seq(Sessions) /\ Len(h) <= MaxHistory /\ Once(h)
<1>1. MaxHistory \in Nat
  BY SessionsAssumption
<1>2. ASSUME h \in Histories
      PROVE  h \in Seq(Sessions) /\ Len(h) <= MaxHistory /\ Once(h)
  <2>1. PICK n \in 0 .. MaxHistory : h \in [1 .. n -> Sessions]
    BY <1>2 DEF Histories
  <2>2. h \in Seq(Sessions)
    BY <1>1, <2>1, SeqDef
  <2>3. Len(h) = n /\ DOMAIN h = 1 .. n
    BY <1>1, <2>1, <2>2, LenProperties
  <2> QED BY <1>1, <1>2, <2>2, <2>3 DEF Histories, Once
<1>3. ASSUME h \in Seq(Sessions), Len(h) <= MaxHistory, Once(h)
      PROVE  h \in Histories
  <2>1. Len(h) \in 0 .. MaxHistory /\ h \in [1 .. Len(h) -> Sessions] /\ DOMAIN h = 1 .. Len(h)
    BY <1>1, <1>3, LenProperties
  <2> QED BY <1>3, <2>1 DEF Histories, Once
<1> QED BY <1>2, <1>3

(* The list without s keeps the others, in their order.                    *)
LEMMA WithoutProperties ==
  ASSUME NEW h \in Seq(Sessions), Once(h), NEW s \in Sessions
  PROVE  LET r == Without(h, s)
         IN /\ r \in Seq(Sessions) /\ Len(r) <= Len(h) /\ Once(r)
            /\ \A i \in 1 .. Len(r) : r[i] # s
            /\ \A i \in 1 .. Len(h) : h[i] # s =>
                 \E k \in 1 .. Len(r) :
                   /\ r[k] = h[i]
                   /\ \A m \in 1 .. Len(r) : m > k => \E j \in 1 .. Len(h) : j > i /\ h[j] = r[m]
<1> DEFINE r == Without(h, s)
<1>0. Len(h) \in Nat /\ DOMAIN h = 1 .. Len(h) /\ \A i \in 1 .. Len(h) : h[i] \in Sessions
  BY LenProperties, ElementOfSeq
<1>1. CASE \A i \in DOMAIN h : h[i] # s
  <2>1. r = h
    BY <1>1 DEF Without
  <2> QED BY <1>0, <1>1, <2>1
<1>2. CASE \E i \in DOMAIN h : h[i] = s
  <2> DEFINE p == CHOOSE j \in DOMAIN h : h[j] = s
             a == SubSeq(h, 1, p - 1)
             b == SubSeq(h, p + 1, Len(h))
  <2>1. p \in 1 .. Len(h) /\ h[p] = s
    BY <1>0, <1>2
  <2>2. r = a \o b
    BY <1>2 DEF Without
  <2> HIDE DEF r, p
  <2>3. a \in Seq(Sessions) /\ Len(a) = p - 1 /\ \A i \in 1 .. p - 1 : a[i] = h[i]
    BY <1>0, <2>1, SubSeqProperties
  <2>4. b \in Seq(Sessions) /\ Len(b) = Len(h) - p /\ \A i \in 1 .. Len(h) - p : b[i] = h[p + i]
    <3>1. p + 1 \in Int /\ Len(h) \in Int /\ \A i \in p + 1 .. Len(h) : h[i] \in Sessions
      BY <1>0, <2>1
    <3>2. /\ b \in Seq(Sessions)
          /\ Len(b) = IF p + 1 <= Len(h) THEN Len(h) - (p + 1) + 1 ELSE 0
          /\ \A i \in 1 .. Len(h) - (p + 1) + 1 : b[i] = h[p + 1 + i - 1]
      BY <3>1, SubSeqProperties
    <3> HIDE DEF b
    <3>3. Len(b) = Len(h) - p
      <4>1. Len(b) = IF p + 1 <= Len(h) THEN Len(h) - (p + 1) + 1 ELSE 0
        BY <3>2
      <4>2. Len(h) \in Int /\ p \in Int /\ p <= Len(h)
        BY <1>0, <2>1
      <4>3. CASE p + 1 <= Len(h)
        BY <4>1, <4>2, <4>3
      <4>4. CASE ~ (p + 1 <= Len(h))
        BY <4>1, <4>2, <4>4
      <4> QED BY <4>3, <4>4
    <3>4. ASSUME NEW i \in 1 .. Len(h) - p PROVE b[i] = h[p + i]
      <4>1. i \in 1 .. Len(h) - (p + 1) + 1 /\ p + 1 + i - 1 = p + i
        BY <1>0, <2>1
      <4> QED BY <3>2, <4>1
    <3> QED BY <3>2, <3>3, <3>4
  <2> HIDE DEF a, b
  <2>5. /\ r \in Seq(Sessions) /\ Len(r) = Len(h) - 1
        /\ \A i \in 1 .. Len(r) : r[i] = IF i < p THEN h[i] ELSE h[i + 1]
    <3>1. r \in Seq(Sessions) /\ Len(r) = Len(a) + Len(b)
      BY <2>2, <2>3, <2>4, ConcatProperties
    <3>2. \A i \in 1 .. Len(a) + Len(b) : r[i] = IF i <= Len(a) THEN a[i] ELSE b[i - Len(a)]
      BY <2>2, <2>3, <2>4, ConcatProperties
    <3>3. Len(r) = Len(h) - 1
      BY <1>0, <2>1, <2>3, <2>4, <3>1
    <3>4. ASSUME NEW i \in 1 .. Len(r) PROVE r[i] = IF i < p THEN h[i] ELSE h[i + 1]
      <4>1. CASE i < p
        BY <1>0, <2>1, <2>3, <2>4, <3>1, <3>2, <4>1
      <4>2. CASE ~ (i < p)
        <5>1. i - (p - 1) \in 1 .. Len(h) - p
          BY <1>0, <2>1, <3>3, <4>2
        <5>2. r[i] = b[i - (p - 1)]
          BY <1>0, <2>1, <2>3, <2>4, <3>1, <3>2, <4>2
        <5>3. r[i] = h[p + (i - (p - 1))]
          BY <2>4, <5>1, <5>2
        <5>4. p + (i - (p - 1)) = i + 1
          BY <1>0, <2>1
        <5> QED BY <4>2, <5>3, <5>4
      <4> QED BY <4>1, <4>2
    <3> QED BY <3>1, <3>3, <3>4
  <2>6. Once(r) /\ \A i \in 1 .. Len(r) : r[i] # s
    BY <1>0, <2>1, <2>5 DEF Once
  <2>7. ASSUME NEW i \in 1 .. Len(h), h[i] # s
        PROVE  \E k \in 1 .. Len(r) :
                 /\ r[k] = h[i]
                 /\ \A m \in 1 .. Len(r) : m > k => \E j \in 1 .. Len(h) : j > i /\ h[j] = r[m]
    <3> DEFINE k == IF i < p THEN i ELSE i - 1
    <3>1. k \in 1 .. Len(r) /\ r[k] = h[i]
      BY <1>0, <2>1, <2>5, <2>7
    <3>2. ASSUME NEW m \in 1 .. Len(r), m > k PROVE \E j \in 1 .. Len(h) : j > i /\ h[j] = r[m]
      <4>1. CASE m < p
        BY <1>0, <2>1, <2>5, <3>2, <4>1
      <4>2. CASE ~ (m < p)
        <5>1. m + 1 \in 1 .. Len(h) /\ m + 1 > i /\ h[m + 1] = r[m]
          BY <1>0, <2>1, <2>5, <2>7, <3>2, <4>2
        <5> QED BY <5>1
      <4> QED BY <4>1, <4>2
    <3> QED BY <3>1, <3>2
  <2>8. r \in Seq(Sessions) /\ Len(r) <= Len(h)
    BY <1>0, <2>5
  <2> QED BY <2>6, <2>7, <2>8 DEF r
<1> QED BY <1>0, <1>1, <1>2

(* What follows a session in a list is no more than there is to follow it. *)
LEMMA FollowersBounded ==
  ASSUME NEW q \in Seq(Sessions), Once(q), NEW k \in 1 .. Len(q),
         NEW F, IsFiniteSet(F), \A m \in 1 .. Len(q) : m > k => q[m] \in F
  PROVE  Len(q) - k <= Cardinality(F)
<1> DEFINE D == k + 1 .. Len(q)
           f == [m \in D |-> q[m]]
<1>1. Len(q) \in Nat /\ D \subseteq 1 .. Len(q) /\ \A m \in D : m > k
  BY LenProperties
<1>2. f \in [D -> F]
  BY <1>1
<1>3. \A i, j \in D : f[i] = f[j] => i = j
  BY <1>1 DEF Once
<1>4. f \in Injection(D, F)
  BY <1>2, <1>3 DEF Injection, IsInjective
<1>5. Cardinality(D) <= Cardinality(F)
  BY <1>4, FS_Injection
<1>6. Cardinality(D) = Len(q) - k
  BY <1>1, FS_Interval
<1> QED BY <1>5, <1>6

(* A session that is put away comes last; of the others those stay that    *)
(* fewer than MaxHistory have followed.                                    *)
LEMMA ArchivedProperties ==
  ASSUME history \in Histories, NEW s \in Sessions
  PROVE  LET a == Archived(s)
         IN /\ a \in Histories
            /\ \E k \in 1 .. Len(a) : a[k] = s /\ \A m \in 1 .. Len(a) : ~ (m > k)
            /\ \A t \in Sessions \ {s}, F \in SUBSET Sessions :
                 /\ IsFiniteSet(F) /\ s \in F /\ Cardinality(F) < MaxHistory
                 /\ \E i \in 1 .. Len(history) :
                      history[i] = t /\ \A j \in 1 .. Len(history) : j > i => history[j] \in F
                 => \E k \in 1 .. Len(a) : a[k] = t /\ \A m \in 1 .. Len(a) : m > k => a[m] \in F
<1> DEFINE r == Without(history, s)
           q == Append(r, s)
           a == Newest(q)
           n == Len(q)
           d == IF n <= MaxHistory THEN 0 ELSE n - MaxHistory
<1>0. MaxHistory \in Nat /\ MaxHistory > 0
  BY SessionsAssumption
<1>1. history \in Seq(Sessions) /\ Len(history) \in Nat /\ Once(history)
  BY HistoryIsSeq, LenProperties
<1>2. /\ r \in Seq(Sessions) /\ Len(r) \in Nat /\ Once(r) /\ \A i \in 1 .. Len(r) : r[i] # s
      /\ \A i \in 1 .. Len(history) : history[i] # s =>
           \E k \in 1 .. Len(r) :
             /\ r[k] = history[i]
             /\ \A m \in 1 .. Len(r) : m > k =>
                  \E j \in 1 .. Len(history) : j > i /\ history[j] = r[m]
  BY <1>1, WithoutProperties, LenProperties
<1> HIDE DEF r
<1>3. /\ q \in Seq(Sessions) /\ n = Len(r) + 1 /\ q[n] = s
      /\ \A i \in 1 .. Len(r) : q[i] = r[i]
  BY <1>2, AppendProperties
<1> HIDE DEF q
<1>3a. Len(r) \in Nat /\ n \in Nat /\ n = Len(r) + 1
  BY <1>2, <1>3
<1>4. Once(q)
  BY <1>2, <1>3 DEF Once
<1>5. /\ a \in Seq(Sessions) /\ Len(a) = n - d /\ Len(a) <= MaxHistory
      /\ \A i \in 1 .. Len(a) : a[i] = q[i + d]
      /\ d \in Nat /\ d < n
  <2>0. \A i \in 1 .. n : q[i] \in Sessions
    BY <1>3, ElementOfSeq
  <2>1. CASE n <= MaxHistory
    <3>1. a = q /\ d = 0
      BY <2>1 DEF Newest
    <3> HIDE DEF a, d
    <3>2. \A i \in 1 .. n : i + d = i
      BY <3>1
    <3> QED BY <1>2, <1>3, <2>1, <3>1, <3>2
  <2>2. CASE ~ (n <= MaxHistory)
    <3>1. a = SubSeq(q, d + 1, n) /\ d \in Nat /\ d < n
      <4>1. d = n - MaxHistory
        BY <2>2
      <4>2. a = SubSeq(q, n - MaxHistory + 1, n)
        BY <2>2 DEF Newest
      <4> HIDE DEF a, d, n
      <4> QED BY <1>0, <1>3a, <2>2, <4>1, <4>2
    <3>2. /\ a \in Seq(Sessions) /\ Len(a) = n - d
          /\ \A i \in 1 .. n - d : a[i] = q[d + 1 + i - 1]
      <4>1. d + 1 \in Int /\ n \in Int /\ \A i \in d + 1 .. n : q[i] \in Sessions
        BY <1>3a, <2>0, <3>1
      <4> HIDE DEF d, n
      <4>2. /\ SubSeq(q, d + 1, n) \in Seq(Sessions)
            /\ Len(SubSeq(q, d + 1, n)) = IF d + 1 <= n THEN n - (d + 1) + 1 ELSE 0
            /\ \A i \in 1 .. n - (d + 1) + 1 : SubSeq(q, d + 1, n)[i] = q[d + 1 + i - 1]
        BY <4>1, SubSeqProperties
      <4>3. n - (d + 1) + 1 = n - d /\ d + 1 <= n
        BY <1>3a, <3>1
      <4> HIDE DEF a
      <4> QED BY <3>1, <4>2, <4>3
    <3>3. n - d = MaxHistory
      BY <1>0, <1>3a, <2>2
    <3> HIDE DEF a, d, n
    <3>4. \A i \in 1 .. n - d : d + 1 + i - 1 = i + d
      BY <3>1
    <3> QED BY <1>0, <3>1, <3>2, <3>3, <3>4
  <2> QED BY <2>1, <2>2
<1> HIDE DEF a, d, n
<1>5a. n \in Nat /\ Len(a) \in Nat /\ n = Len(a) + d
  BY <1>3a, <1>5 DEF n
<1>6. a \in Histories
  <2>1. ASSUME NEW i \in 1 .. Len(a), NEW j \in 1 .. Len(a), a[i] = a[j] PROVE i = j
    <3>1. i + d \in 1 .. n /\ j + d \in 1 .. n /\ q[i + d] = q[j + d]
      BY <1>5, <1>5a, <2>1
    <3>2. i + d = j + d
      BY <1>4, <3>1 DEF Once, n
    <3> QED BY <1>5, <3>2
  <2> QED BY <1>5, <2>1, HistoryIsSeq DEF Once
<1>7. \E k \in 1 .. Len(a) : a[k] = s /\ \A m \in 1 .. Len(a) : ~ (m > k)
  <2>1. Len(a) \in 1 .. Len(a) /\ a[Len(a)] = s
    BY <1>3, <1>5, <1>5a
  <2> QED BY <2>1, <1>5a
<1>8. ASSUME NEW t \in Sessions \ {s}, NEW F \in SUBSET Sessions,
             IsFiniteSet(F), s \in F, Cardinality(F) < MaxHistory,
             NEW i \in 1 .. Len(history), history[i] = t,
             \A j \in 1 .. Len(history) : j > i => history[j] \in F
      PROVE  \E k \in 1 .. Len(a) : a[k] = t /\ \A m \in 1 .. Len(a) : m > k => a[m] \in F
  <2>1. PICK k \in 1 .. Len(r) :
          /\ r[k] = t
          /\ \A m \in 1 .. Len(r) : m > k => \E j \in 1 .. Len(history) : j > i /\ history[j] = r[m]
    <3>1. history[i] # s
      BY <1>8
    <3> QED BY <1>2, <1>8, <3>1
  <2>2. k \in 1 .. n /\ q[k] = t
    BY <1>3, <1>3a, <2>1
  <2>3. \A m \in 1 .. n : m > k => q[m] \in F
    <3> SUFFICES ASSUME NEW m \in 1 .. n, m > k PROVE q[m] \in F
      OBVIOUS
    <3>1. CASE m = n
      BY <1>3, <1>8, <3>1
    <3>2. CASE m # n
      <4>1. m \in 1 .. Len(r) /\ q[m] = r[m]
        BY <1>3, <1>3a, <3>2
      <4>2. PICK j \in 1 .. Len(history) : j > i /\ history[j] = r[m]
        BY <2>1, <4>1
      <4> QED BY <1>8, <4>1, <4>2
    <3> QED BY <3>1, <3>2
  <2>4. n - k <= Cardinality(F)
    BY <1>3, <1>4, <1>8, <2>2, <2>3, FollowersBounded DEF n
  <2>5. Cardinality(F) \in Nat /\ n \in Nat
    BY <1>2, <1>3, <1>8, FS_CardinalityType
  <2>6. k - d \in 1 .. Len(a)
    <3>1. n - k < MaxHistory
      BY <1>0, <1>8, <2>2, <2>4, <2>5
    <3> QED BY <1>0, <1>5a, <2>2, <2>5, <3>1 DEF d
  <2>7. a[k - d] = t
    BY <1>5, <2>2, <2>5, <2>6
  <2>8. ASSUME NEW m \in 1 .. Len(a), m > k - d PROVE a[m] \in F
    <3>1. m + d \in 1 .. n /\ m + d > k
      BY <1>5, <1>5a, <2>2, <2>8
    <3> QED BY <1>5, <2>3, <3>1
  <2> QED BY <2>6, <2>7, <2>8
<1>9. a = Archived(s)
  BY DEF a, q, r, Archived
<1> QED BY <1>6, <1>7, <1>8, <1>9

-----------------------------------------------------------------------------
(* Types.                                                                  *)

LEMMA EmptyHistory == <<>> \in Histories
<1>1. MaxHistory \in Nat
  BY SessionsAssumption
<1>2. <<>> \in Seq(Sessions) /\ Len(<<>>) = 0
  BY EmptySeq
<1>3. \A i \in 1 .. Len(<<>>) : FALSE
  BY <1>2
<1>4. Once(<<>>)
  BY <1>3 DEF Once
<1>5. Len(<<>>) <= MaxHistory
  BY <1>1, <1>2
<1> QED BY <1>2, <1>4, <1>5, HistoryIsSeq

LEMMA SessionsInitTypeOK == SessionsInit => SessionsTypeOK /\ OpenOK
<1> SUFFICES ASSUME SessionsInit PROVE SessionsTypeOK /\ OpenOK
  OBVIOUS
<1>1. Cardinality(asked) <= 1
  BY FS_EmptySet DEF SessionsInit
<1> QED BY <1>1, EmptyHistory DEF SessionsInit, SessionsTypeOK, OpenOK

LEMMA SwitchTypeOK ==
  ASSUME SessionsTypeOK, OpenOK, NEW s \in Sessions \cup {NoSession}, Switch(s),
         asked' \subseteq Sessions \cup {NoSession}, Cardinality(asked') <= 1,
         used' \subseteq Sessions
  PROVE  SessionsTypeOK' /\ OpenOK'
<1> DEFINE leaves == {current} \ {s, NoSession}
<1>1. history' \in Histories
  <2>1. CASE leaves = {}
    BY <2>1 DEF Switch, SessionsTypeOK
  <2>2. CASE leaves # {}
    <3>1. current \in Sessions
      BY <2>2 DEF SessionsTypeOK
    <3>2. history' = Archived(current) /\ history \in Histories
      BY <2>2 DEF Switch, SessionsTypeOK
    <3> QED BY <3>1, <3>2, ArchivedProperties
  <2> QED BY <2>1, <2>2
<1>2. newer' \in [Sessions -> SUBSET Sessions]
  <2>1. leaves \subseteq Sessions
    BY DEF SessionsTypeOK
  <2>2. newer' = [t \in Sessions |-> IF t \in owed \ {s, current} THEN newer[t] \cup leaves ELSE {}]
    BY DEF Switch
  <2>3. \A t \in Sessions : newer[t] \subseteq Sessions
    BY DEF SessionsTypeOK
  <2> HIDE DEF leaves
  <2> QED BY <2>1, <2>2, <2>3
<1>3. owed' \subseteq Sessions
  <2>1. owed' \subseteq owed \cup ({s} \ {NoSession})
    BY DEF Switch
  <2> QED BY <2>1 DEF SessionsTypeOK
<1>4. current' = s /\ unsaved' \subseteq Sessions
  BY DEF Switch, SessionsTypeOK
<1>5. saving' = [saving EXCEPT !["loop"] = "open"] /\ saving["loop"] = "idle"
  BY DEF Switch
<1>6. UNCHANGED <<holds, tmp, file, alone, mixed>>
  BY DEF Switch
<1>7. SessionsTypeOK'
  <2>1. saving' \in [Writers -> {"idle", "open", "first", "rest", "rename"}]
    BY <1>5 DEF SessionsTypeOK
  <2> QED BY <1>1, <1>2, <1>3, <1>4, <1>6, <2>1 DEF SessionsTypeOK
<1>8. OpenOK'
  BY <1>5, <1>6 DEF OpenOK, SessionsTypeOK, Writers
<1> QED BY <1>7, <1>8

(* Whatever changes the record goes through Switch.                        *)
LEMMA CommandTypeOK ==
  ASSUME SessionsTypeOK, OpenOK,
         Ask \/ RunFails \/ NewSession \/ \E s \in Sessions : Answer(s) \/ Resume(s) \/ Handover(s)
  PROVE  SessionsTypeOK' /\ OpenOK'
<1>1. CASE Ask \/ RunFails
  <2>1. asked' \subseteq Sessions \cup {NoSession} /\ Cardinality(asked') <= 1
    <3>1. asked' = {current} \/ asked' = {}
      BY <1>1 DEF Ask, RunFails
    <3>2. Cardinality({}) = 0 /\ Cardinality({current}) = 1
      BY FS_EmptySet, FS_Singleton
    <3>3. current \in Sessions \cup {NoSession}
      BY DEF SessionsTypeOK
    <3>4. CASE asked' = {current}
      BY <3>2, <3>3, <3>4
    <3>5. CASE asked' = {}
      BY <3>2, <3>5
    <3> QED BY <3>1, <3>4, <3>5
  <2>2. UNCHANGED <<memory, used, disk, ghosts>>
    BY <1>1 DEF Ask, RunFails
  <2> QED BY <2>1, <2>2 DEF SessionsTypeOK, OpenOK, memory, disk, ghosts
<1>2. CASE NewSession
  BY <1>2, SwitchTypeOK DEF NewSession, SessionsTypeOK
<1>3. ASSUME NEW s \in Sessions, Answer(s) PROVE SessionsTypeOK' /\ OpenOK'
  <2>1. asked' \subseteq Sessions \cup {NoSession} /\ Cardinality(asked') <= 1
    BY <1>3, FS_EmptySet DEF Answer
  <2>2. used' \subseteq Sessions /\ Switch(s)
    BY <1>3 DEF Answer, SessionsTypeOK
  <2> QED BY <2>1, <2>2, SwitchTypeOK
<1>4. ASSUME NEW s \in Sessions, Resume(s) \/ Handover(s) PROVE SessionsTypeOK' /\ OpenOK'
  <2>1. UNCHANGED asked /\ used' \subseteq Sessions /\ Switch(s)
    BY <1>4 DEF Resume, Handover, SessionsTypeOK
  <2> QED BY <2>1, SwitchTypeOK DEF SessionsTypeOK
<1> QED BY <1>1, <1>2, <1>3, <1>4

LEMMA BytesTypes ==
  /\ Truncated \in Bytes
  /\ \A b \in Bytes : /\ b.current \in Sessions \cup {NoSession, Blank}
                      /\ b.history \in Histories \cup {Blank}
                      /\ \A x \in Sessions \cup {NoSession, Blank} : [b EXCEPT !.current = x] \in Bytes
                      /\ \A x \in Histories \cup {Blank} : [b EXCEPT !.history = x] \in Bytes
BY DEF Bytes, Truncated

LEMMA WriteTypeOK ==
  ASSUME SessionsTypeOK, OpenOK, NEW w \in Writers, WriteCurrent(w) \/ WriteHistory(w)
  PROVE  SessionsTypeOK' /\ OpenOK'
<1>1. /\ UNCHANGED <<current, history, asked, used, holds, owed, newer, unsaved, alone, mixed>>
      /\ saving' = [saving EXCEPT ![w] = IF saving[w] = "first" THEN "rest" ELSE "rename"]
      /\ saving[w] \in {"first", "rest"}
  BY DEF WriteCurrent, WriteHistory, Write, Goes, memory, ghosts
<1>2. tmp' \in Bytes \cup {NoFile} /\ file' \in Bytes \cup {NoFile}
      /\ (holds[w] = "tmp" => tmp' \in Bytes) /\ (holds[w] = "file" => file' \in Bytes)
      /\ (tmp # NoFile => tmp' # NoFile) /\ (file # NoFile => file' # NoFile)
  <2>1. tmp # NoFile => tmp \in Bytes
    BY DEF SessionsTypeOK
  <2>2. file # NoFile => file \in Bytes
    BY DEF SessionsTypeOK
  <2>3. current \in Sessions \cup {NoSession, Blank} /\ history \in Histories \cup {Blank}
    BY DEF SessionsTypeOK
  <2>4. CASE WriteCurrent(w)
    <3>1. \/ /\ holds[w] = "tmp" /\ UNCHANGED file
             /\ \E x \in {current, Blank} : tmp' = [tmp EXCEPT !.current = x]
          \/ /\ holds[w] = "file" /\ UNCHANGED tmp
             /\ \E x \in {current, Blank} : file' = [file EXCEPT !.current = x]
          \/ /\ holds[w] = "gone" /\ UNCHANGED <<tmp, file>>
      BY <2>4 DEF WriteCurrent, Write, Written
    <3> QED BY <2>1, <2>2, <2>3, <3>1, BytesTypes, FileAssumption DEF OpenOK
  <2>5. CASE WriteHistory(w)
    <3>1. \/ /\ holds[w] = "tmp" /\ UNCHANGED file
             /\ \E x \in {history, Blank} : tmp' = [tmp EXCEPT !.history = x]
          \/ /\ holds[w] = "file" /\ UNCHANGED tmp
             /\ \E x \in {history, Blank} : file' = [file EXCEPT !.history = x]
          \/ /\ holds[w] = "gone" /\ UNCHANGED <<tmp, file>>
      BY <2>5 DEF WriteHistory, Write, Written
    <3> QED BY <2>1, <2>2, <2>3, <3>1, BytesTypes, FileAssumption DEF OpenOK
  <2> QED BY <2>4, <2>5
<1>3. saving' \in [Writers -> {"idle", "open", "first", "rest", "rename"}]
  BY <1>1 DEF SessionsTypeOK
<1>4. OpenOK'
  BY <1>1, <1>2 DEF OpenOK, SessionsTypeOK
<1> QED BY <1>1, <1>2, <1>3, <1>4 DEF SessionsTypeOK

LEMMA OpenTypeOK ==
  ASSUME SessionsTypeOK, OpenOK, NEW w \in Writers, OpenTmp(w)
  PROVE  SessionsTypeOK' /\ OpenOK'
<1>1. /\ UNCHANGED <<current, history, asked, used, file, owed, newer, unsaved>>
      /\ saving' = [saving EXCEPT ![w] = "first"]
      /\ holds' = [holds EXCEPT ![w] = "tmp"]
      /\ tmp' = Truncated
      /\ alone' \subseteq Writers
  BY DEF OpenTmp, Goes, memory
<1>2. mixed' \in BOOLEAN
  BY DEF OpenTmp, SessionsTypeOK
<1>3. tmp' \in Bytes /\ tmp' # NoFile
  BY <1>1, BytesTypes, FileAssumption
<1> QED BY <1>1, <1>2, <1>3 DEF SessionsTypeOK, OpenOK

LEMMA CloseTypeOK ==
  ASSUME SessionsTypeOK, OpenOK, NEW w \in Writers, Rename(w) \/ SaveFails(w)
  PROVE  SessionsTypeOK' /\ OpenOK'
<1>1. /\ UNCHANGED <<current, history, asked, used, owed, newer>>
      /\ saving' = [saving EXCEPT ![w] = "idle"]
      /\ alone' \subseteq alone
      /\ unsaved' \subseteq unsaved
  BY DEF Rename, SaveFails, Goes, memory
<1>2. mixed' \in BOOLEAN
  BY DEF Rename, SaveFails, SessionsTypeOK
<1>3. tmp' \in Bytes \cup {NoFile} /\ file' \in Bytes \cup {NoFile}
  BY DEF Rename, SaveFails, SessionsTypeOK
<1>4. saving' \in [Writers -> {"idle", "open", "first", "rest", "rename"}]
  BY <1>1 DEF SessionsTypeOK
<1>5. CASE Rename(w) /\ tmp # NoFile
  <2>1. /\ file' = tmp
        /\ holds' = [o \in Writers |->
                       IF o = w THEN "none"
                       ELSE CASE holds[o] = "tmp" -> "file"
                              [] holds[o] = "file" -> "gone"
                              [] OTHER -> holds[o]]
    BY <1>5 DEF Rename
  <2>2. \A o \in Writers : holds'[o] = IF o = w THEN "none"
                                       ELSE IF holds[o] = "tmp" THEN "file"
                                       ELSE IF holds[o] = "file" THEN "gone" ELSE holds[o]
    BY <2>1
  <2>3. holds' \in [Writers -> {"none", "tmp", "file", "gone"}]
    <3>1. \A o \in Writers : holds'[o] \in {"none", "tmp", "file", "gone"}
      BY <2>2 DEF SessionsTypeOK
    <3>2. DOMAIN holds' = Writers /\ holds' = [o \in Writers |-> holds'[o]]
      BY <2>1
    <3> QED BY <3>1, <3>2
  <2>4. OpenOK'
    BY <1>1, <1>5, <2>1, <2>2 DEF OpenOK, SessionsTypeOK
  <2> QED BY <1>1, <1>2, <1>3, <1>4, <2>3, <2>4 DEF SessionsTypeOK
<1>6. CASE ~ (Rename(w) /\ tmp # NoFile)
  <2>1. holds' = [holds EXCEPT ![w] = "none"] /\ UNCHANGED <<tmp, file>>
    BY <1>6 DEF Rename, SaveFails
  <2>2. OpenOK'
    BY <1>1, <2>1 DEF OpenOK, SessionsTypeOK
  <2> QED BY <1>1, <1>2, <1>3, <1>4, <2>1, <2>2 DEF SessionsTypeOK
<1> QED BY <1>5, <1>6

LEMMA WholeTypes ==
  ASSUME NEW b \in Bytes \cup {NoFile}, Whole(b)
  PROVE  b \in Bytes /\ b.current \in Sessions \cup {NoSession} /\ b.history \in Histories
BY BytesTypes DEF Whole

LEMMA RestartTypeOK == SessionsTypeOK /\ Restart => SessionsTypeOK' /\ OpenOK'
<1> SUFFICES ASSUME SessionsTypeOK, Restart PROVE SessionsTypeOK' /\ OpenOK'
  OBVIOUS
<1>1. current' \in Sessions \cup {NoSession} /\ history' \in Histories
  BY WholeTypes, EmptyHistory DEF Restart, SessionsTypeOK
<1>2. Cardinality(asked') <= 1 /\ asked' = {}
  BY FS_EmptySet DEF Restart
<1>3. owed' \subseteq Sessions
  BY DEF Restart, SessionsTypeOK
<1>4. newer' \in [Sessions -> SUBSET Sessions]
  <2>1. newer' = [s \in Sessions |-> IF s \in owed' THEN newer[s] ELSE {}]
    BY DEF Restart
  <2> QED BY <2>1 DEF SessionsTypeOK
<1>5. /\ saving' = [w \in Writers |-> "idle"] /\ holds' = [w \in Writers |-> "none"]
      /\ unsaved' = {} /\ alone' = {}
      /\ UNCHANGED <<used, tmp, file, mixed>>
  BY DEF Restart
<1> QED BY <1>1, <1>2, <1>3, <1>4, <1>5 DEF SessionsTypeOK, OpenOK

LEMMA SessionsNextTypeOK ==
  SessionsTypeOK /\ OpenOK /\ [SessionsNext]_svars => SessionsTypeOK' /\ OpenOK'
<1>1. SessionsTypeOK /\ OpenOK /\ UNCHANGED svars => SessionsTypeOK' /\ OpenOK'
  BY DEF svars, memory, disk, ghosts, SessionsTypeOK, OpenOK
<1> QED BY <1>1, CommandTypeOK, WriteTypeOK, OpenTypeOK, CloseTypeOK, RestartTypeOK
        DEF SessionsNext, Save

-----------------------------------------------------------------------------
(* What is owed is found in memory, and what a switch does to the files.   *)

LEMMA ListedMore ==
  ASSUME NEW h, NEW s, NEW F, NEW G, F \subseteq G, Listed(h, s, F)
  PROVE  Listed(h, s, G)
BY DEF Listed

LEMMA SwitchMovesOn ==
  ASSUME SessionsTypeOK, NEW s \in Sessions \cup {NoSession}, Switch(s)
  PROVE  /\ owed' \ {s} \subseteq owed
         /\ \A t \in owed' \ unsaved' : t # s /\ t \notin unsaved
         /\ \A t \in owed \ {s, current} : newer'[t] = newer[t] \cup ({current} \ {s, NoSession})
         /\ \A t \in Sessions \ (owed \ {s, current}) : newer'[t] = {}
         /\ \A t \in owed' \ {s} : ~ (Cardinality(newer'[t]) >= MaxHistory)
<1>1. newer' = [t \in Sessions |-> IF t \in owed \ {s, current}
                                   THEN newer[t] \cup ({current} \ {s, NoSession}) ELSE {}]
  BY DEF Switch
<1>2. owed' = (owed \ {t \in owed : Cardinality(newer'[t]) >= MaxHistory}) \cup ({s} \ {NoSession})
  BY DEF Switch
<1>3. owed \subseteq Sessions
  BY DEF SessionsTypeOK
<1>4. \A t \in owed' \ unsaved' : t # s /\ t \notin unsaved
  BY DEF Switch
<1>5. \A t \in Sessions : newer'[t] = IF t \in owed \ {s, current}
                                      THEN newer[t] \cup ({current} \ {s, NoSession}) ELSE {}
  BY <1>1
<1>6. owed' \ {s} \subseteq owed /\ \A t \in owed' \ {s} : ~ (Cardinality(newer'[t]) >= MaxHistory)
  BY <1>2
<1> QED BY <1>3, <1>4, <1>5, <1>6

LEMMA SwitchOwedOK ==
  ASSUME SessionsTypeOK, OwedOK, NEW s \in Sessions \cup {NoSession}, Switch(s)
  PROVE  OwedOK'
<1> DEFINE leaves == {current} \ {s, NoSession}
<1>0. /\ owed \subseteq Sessions /\ history \in Histories /\ current' = s
      /\ MaxHistory \in Nat /\ MaxHistory > 0 /\ NoSession \notin Sessions
      /\ owed' \subseteq Sessions \cup {s}
  BY SwitchMovesOn, SessionsAssumption DEF SessionsTypeOK, Switch
<1>1. ASSUME NEW t \in Sessions PROVE IsFiniteSet(newer'[t])
  <2>1. IsFiniteSet({})
    BY FS_EmptySet
  <2>2. IsFiniteSet(leaves)
    BY FS_Singleton, FS_Subset
  <2>3. IsFiniteSet(newer[t])
    BY DEF OwedOK
  <2>4. IsFiniteSet(newer[t] \cup leaves)
    BY <2>2, <2>3, FS_Union
  <2> QED BY <2>1, <2>4, SwitchMovesOn
<1>2. owed' \subseteq Sessions
  BY <1>0, SwitchMovesOn DEF Switch
<1>3. ASSUME NEW t \in owed' PROVE Cardinality(newer'[t]) < MaxHistory
  <2>1. Cardinality(newer'[t]) \in Nat
    BY <1>1, <1>2, <1>3, FS_CardinalityType
  <2>2. CASE t = s
    <3>1. newer'[t] = {}
      BY <1>2, <2>2, SwitchMovesOn
    <3> QED BY <1>0, <3>1, FS_EmptySet
  <2>3. CASE t # s
    BY <1>0, <2>1, <2>3, SwitchMovesOn
  <2> QED BY <2>2, <2>3
<1>4. ASSUME NEW t \in owed', t # s PROVE Listed(history', t, newer'[t])
  <2>1. t \in owed /\ t \in Sessions /\ Found(current, history, t)
    BY <1>0, <1>4, SwitchMovesOn DEF OwedOK
  <2>2. CASE leaves = {}
    <3>1. t # current
      BY <1>0, <1>4, <2>1, <2>2
    <3>2. newer'[t] = newer[t] \cup leaves /\ Listed(history, t, newer[t])
      BY <1>4, <2>1, <3>1, SwitchMovesOn DEF Found
    <3>3. history' = history
      BY <2>2 DEF Switch
    <3> QED BY <3>2, <3>3, ListedMore
  <2>3. CASE leaves # {}
    <3>0. current \in Sessions /\ current # s /\ leaves = {current}
      BY <2>3 DEF SessionsTypeOK
    <3> DEFINE a == Archived(current)
    <3>1. history' = a
      BY <2>3 DEF Switch
    <3>2. a \in Histories /\ DOMAIN a = 1 .. Len(a) /\ DOMAIN history = 1 .. Len(history)
      BY <1>0, <3>0, ArchivedProperties, HistoryIsSeq, LenProperties
    <3>3. CASE t = current
      <4>1. \E k \in 1 .. Len(a) : a[k] = current /\ \A m \in 1 .. Len(a) : ~ (m > k)
        BY <1>0, <3>0, ArchivedProperties
      <4> HIDE DEF a
      <4> QED BY <3>1, <3>2, <3>3, <4>1 DEF Listed
    <3>4. CASE t # current
      <4> DEFINE F == newer'[t]
      <4>1. F = newer[t] \cup {current} /\ newer[t] \subseteq Sessions
        BY <1>4, <2>1, <3>0, <3>4, SwitchMovesOn DEF SessionsTypeOK
      <4>2. IsFiniteSet(F) /\ Cardinality(F) < MaxHistory
        BY <1>1, <1>3, <1>4, <2>1
      <4> HIDE DEF F
      <4>3. Listed(history, t, F)
        BY <2>1, <3>4, <4>1, ListedMore DEF Found
      <4>4. \E i \in 1 .. Len(history) :
              history[i] = t /\ \A j \in 1 .. Len(history) : j > i => history[j] \in F
        BY <3>2, <4>3 DEF Listed
      <4>5. F \in SUBSET Sessions /\ current \in F /\ t \in Sessions \ {current}
        BY <2>1, <3>0, <3>4, <4>1
      <4>6. \E k \in 1 .. Len(a) : a[k] = t /\ \A m \in 1 .. Len(a) : m > k => a[m] \in F
        BY <1>0, <3>0, <4>2, <4>4, <4>5, ArchivedProperties
      <4> HIDE DEF a
      <4>7. Listed(a, t, F)
        BY <3>2, <4>6 DEF Listed
      <4> QED BY <3>1, <4>7 DEF F
    <3> QED BY <3>3, <3>4
  <2> QED BY <2>2, <2>3
<1>5. ASSUME NEW t \in owed' PROVE Found(current, history, t)'
  BY <1>0, <1>4, <1>5 DEF Found
<1> QED BY <1>1, <1>3, <1>5 DEF OwedOK

(* What a file holds is found there after a switch as before.              *)
LEMMA SwitchKeepsFound ==
  ASSUME SessionsTypeOK, NEW s \in Sessions \cup {NoSession}, Switch(s),
         NEW t \in owed' \ unsaved', NEW cur, NEW h,
         t = cur \/ (t # current /\ Listed(h, t, newer[t]))
  PROVE  t = cur \/ (t # current' /\ Listed(h, t, newer'[t]))
<1>1. t # s /\ t \in owed /\ current' = s
  <2>1. NoSession \notin Sessions /\ owed \subseteq Sessions
    BY SessionsAssumption DEF SessionsTypeOK
  <2>2. s = NoSession => t # s
    BY <2>1, SwitchMovesOn DEF Switch
  <2> QED BY <2>2, SwitchMovesOn DEF Switch
<1>2. CASE t = cur
  BY <1>2
<1>3. CASE t # cur
  <2>1. t \in owed \ {s, current}
    BY <1>1, <1>3
  <2>2. newer[t] \subseteq newer'[t]
    BY <2>1, SwitchMovesOn
  <2> QED BY <1>1, <1>3, <2>2, ListedMore
<1> QED BY <1>2, <1>3

LEMMA SwitchKeepsFiles ==
  ASSUME SessionsInv, NEW s \in Sessions \cup {NoSession}, Switch(s)
  PROVE  FileOK' /\ (\A w \in alone : AloneOK(w))'
<1>0. /\ SessionsTypeOK /\ OpenOK /\ FileOK /\ \A w \in alone : AloneOK(w)
      /\ UNCHANGED <<holds, tmp, file, alone, mixed>>
      /\ saving["loop"] = "idle" /\ saving' = [saving EXCEPT !["loop"] = "open"]
      /\ current' = s
  BY DEF SessionsInv, Switch
<1>1. \A t \in owed' \ unsaved' : t \in owed \ unsaved /\ t # s
  <2>1. NoSession \notin Sessions /\ owed \subseteq Sessions
    BY <1>0, SessionsAssumption DEF SessionsTypeOK
  <2>2. NoSession \notin owed'
    BY <2>1 DEF Switch
  <2> QED BY <1>0, <2>2, SwitchMovesOn
<1>2. ASSUME NEW t \in owed' \ unsaved'
      PROVE  \A cur, h : Found(cur, h, t) =>
               t = cur \/ (t # current' /\ Listed(h, t, newer'[t]))
  BY <1>0, SwitchKeepsFound DEF Found
<1>3. FileOK'
  <2> SUFFICES ASSUME ~ mixed
               PROVE  /\ \A w \in Writers : holds[w] # "none" => w \in alone
                      /\ file = NoFile \/ Whole(file)
                      /\ \A t \in owed' \ unsaved' :
                           /\ file # NoFile
                           /\ \/ t = file.current
                              \/ t # current' /\ Listed(file.history, t, newer'[t])
    BY <1>0 DEF FileOK, Found, Whole
  <2>1. /\ \A w \in Writers : holds[w] # "none" => w \in alone
        /\ file = NoFile \/ Whole(file)
    BY <1>0 DEF FileOK
  <2>2. ASSUME NEW t \in owed' \ unsaved'
        PROVE  file # NoFile /\ Found(file.current, file.history, t)
    BY <1>0, <1>1 DEF FileOK
  <2> QED BY <1>2, <2>1, <2>2
<1>4. ASSUME NEW w \in alone PROVE AloneOK(w)'
  <2>1. AloneOK(w) /\ w \in Writers
    BY <1>0 DEF SessionsTypeOK
  <2>2. w # "loop"
    BY <1>0, <2>1 DEF AloneOK, OpenOK
  <2>3. saving'[w] = saving[w] /\ Due(w) = owed \ unsaved /\ Due(w)' = owed' \ unsaved'
    BY <1>0, <2>1, <2>2 DEF Due, SessionsTypeOK
  <2>4. holds'[w] = "tmp" /\ \A o \in Others(w) : holds'[o] = "none"
    BY <1>0, <2>1 DEF AloneOK
  <2>5. saving[w] = "rest" => /\ tmp.current # Blank /\ tmp.history = Blank
                              /\ \A t \in Due(w)' : t = tmp.current \/ t # current'
    BY <1>0, <1>1, <2>1, <2>3 DEF AloneOK
  <2>6. saving[w] = "rename" =>
          /\ Whole(tmp)
          /\ \A t \in Due(w)' : \/ t = tmp.current
                                \/ t # current' /\ Listed(tmp.history, t, newer'[t])
    BY <1>1, <1>2, <2>1, <2>3 DEF AloneOK
  <2> QED BY <1>0, <2>1, <2>3, <2>4, <2>5, <2>6 DEF AloneOK, Found, Whole, Others
<1> QED BY <1>0, <1>3, <1>4

LEMMA CommandInv ==
  ASSUME SessionsInv,
         Ask \/ RunFails \/ NewSession \/ \E s \in Sessions : Answer(s) \/ Resume(s) \/ Handover(s)
  PROVE  OwedOK' /\ FileOK' /\ (\A w \in alone : AloneOK(w))'
<1>1. CASE Ask \/ RunFails
  BY <1>1 DEF Ask, RunFails, SessionsInv, OwedOK, FileOK, AloneOK, Found, Due, Whole, Others,
              memory, disk, ghosts
<1>2. ASSUME NEW s \in Sessions \cup {NoSession}, Switch(s)
      PROVE  OwedOK' /\ FileOK' /\ (\A w \in alone : AloneOK(w))'
  BY <1>2, SwitchOwedOK, SwitchKeepsFiles DEF SessionsInv
<1> QED BY <1>1, <1>2 DEF NewSession, Answer, Resume, Handover

-----------------------------------------------------------------------------
(* A save leaves the record alone; if no other overlaps it, it brings the  *)
(* record into the file.                                                   *)

LEMMA OpenInv ==
  ASSUME SessionsInv, NEW w \in Writers, OpenTmp(w)
  PROVE  OwedOK' /\ FileOK' /\ (\A o \in alone : AloneOK(o))'
<1>0. /\ SessionsTypeOK /\ OpenOK /\ OwedOK /\ FileOK /\ \A o \in alone : AloneOK(o)
      /\ alone \subseteq Writers
  BY DEF SessionsInv, SessionsTypeOK
<1>1. UNCHANGED <<current, history, owed, newer, unsaved, file>>
  BY DEF OpenTmp, memory
<1>2. OwedOK'
  BY <1>0, <1>1 DEF OwedOK, Found
<1> DEFINE overlaps == \E o \in Others(w) : holds[o] # "none"
<1>3. /\ saving'[w] = "first" /\ holds'[w] = "tmp" /\ tmp' = Truncated
      /\ \A o \in Others(w) : holds'[o] = holds[o]
  BY <1>0 DEF OpenTmp, Goes, SessionsTypeOK, Others
<1>4. CASE overlaps
  <2>1. alone' = {} /\ mixed'
    BY <1>4 DEF OpenTmp
  <2> QED BY <1>2, <2>1 DEF FileOK
<1>5. CASE ~ overlaps
  <2>1. alone' = {w} /\ mixed' = mixed
    BY <1>0, <1>5 DEF OpenTmp, SessionsTypeOK
  <2>2. \A o \in Others(w) : holds'[o] = "none"
    BY <1>3, <1>5
  <2>3. AloneOK(w)'
    BY <1>3, <2>2 DEF AloneOK, Others
  <2>4. FileOK'
    BY <1>0, <1>1, <2>1, <2>2 DEF FileOK, Found, Whole, Others
  <2> QED BY <1>2, <2>1, <2>3, <2>4
<1> QED BY <1>4, <1>5

(* Only the one save is writing, or the file is not spoken of.             *)
LEMMA WriterIsAlone ==
  ASSUME SessionsInv, NEW w \in Writers, saving[w] \in {"first", "rest", "rename"}
  PROVE  /\ holds[w] # "none"
         /\ alone \subseteq {w}
         /\ w \notin alone => mixed
<1>1. holds[w] # "none"
  BY DEF SessionsInv, OpenOK
<1>2. ASSUME NEW o \in alone, o # w PROVE FALSE
  BY <1>1, <1>2 DEF SessionsInv, AloneOK, Others
<1> QED BY <1>1, <1>2 DEF SessionsInv, FileOK

LEMMA WriteInv ==
  ASSUME SessionsInv, NEW w \in Writers, WriteCurrent(w) \/ WriteHistory(w)
  PROVE  OwedOK' /\ FileOK' /\ (\A o \in alone : AloneOK(o))'
<1>0. SessionsTypeOK /\ OpenOK /\ OwedOK /\ FileOK /\ \A o \in alone : AloneOK(o)
  BY DEF SessionsInv
<1>1. /\ UNCHANGED <<current, history, holds, owed, newer, unsaved, alone, mixed>>
      /\ saving[w] \in {"first", "rest"}
      /\ saving'[w] = IF saving[w] = "first" THEN "rest" ELSE "rename"
  BY <1>0 DEF WriteCurrent, WriteHistory, Write, Goes, memory, ghosts, SessionsTypeOK
<1>2. OwedOK'
  BY <1>0, <1>1 DEF OwedOK, Found
<1>3. CASE w \notin alone
  <2>1. alone' = {} /\ mixed'
    BY <1>1, <1>3, WriterIsAlone
  <2> QED BY <1>2, <2>1 DEF FileOK
<1>4. CASE w \in alone
  <2>1. /\ alone = {w} /\ AloneOK(w) /\ holds[w] = "tmp"
        /\ \A o \in Others(w) : holds[o] = "none"
    BY <1>0, <1>1, <1>4, WriterIsAlone DEF AloneOK
  <2>2. tmp \in Bytes
    BY <1>0, <2>1 DEF OpenOK, SessionsTypeOK
  <2>3. CASE WriteCurrent(w)
    <3>1. saving[w] = "first" /\ saving'[w] = "rest" /\ tmp.current = Blank /\ tmp.history = Blank
      BY <1>1, <2>1, <2>3 DEF WriteCurrent, AloneOK, Truncated
    <3>2. file' = file /\ tmp' = [tmp EXCEPT !.current = current]
      BY <2>1, <2>3, <3>1 DEF WriteCurrent, Write, Written
    <3>3. tmp'.current = current /\ tmp'.history = Blank /\ current # Blank
      BY <1>0, <2>2, <3>1, <3>2, FileAssumption DEF Bytes, SessionsTypeOK
    <3>4. AloneOK(w)'
      BY <1>1, <2>1, <3>1, <3>3 DEF AloneOK, Others
    <3>5. FileOK'
      BY <1>0, <1>1, <3>2 DEF FileOK, Found, Whole
    <3> QED BY <1>1, <1>2, <2>1, <3>4, <3>5
  <2>4. CASE WriteHistory(w)
    <3>1. /\ saving[w] = "rest" /\ saving'[w] = "rename"
          /\ tmp.current # Blank /\ tmp.history = Blank
          /\ \A s \in Due(w) : s = tmp.current \/ s # current
      BY <1>1, <2>1, <2>4 DEF WriteHistory, AloneOK
    <3>2. file' = file /\ tmp' = [tmp EXCEPT !.history = history]
      BY <2>1, <2>4, <3>1 DEF WriteHistory, Write, Written
    <3>3. tmp'.current = tmp.current /\ tmp'.history = history /\ history # Blank /\ tmp' # NoFile
      <4>1. history # Blank /\ history \in Histories
        BY <1>0, FileAssumption DEF SessionsTypeOK
      <4>2. tmp' \in Bytes
        BY <2>2, <3>2, <4>1, BytesTypes
      <4> QED BY <2>2, <3>2, <4>1, <4>2, FileAssumption DEF Bytes
    <3>4. Whole(tmp')
      BY <3>1, <3>3 DEF Whole
    <3>5. ASSUME NEW s \in Due(w) PROVE s = tmp.current \/ (s # current /\ Listed(history, s, newer[s]))
      <4>1. s \in owed
        BY DEF Due
      <4> QED BY <1>0, <3>1, <4>1 DEF OwedOK, Found
    <3>6. Due(w)' = Due(w)
      BY <1>1 DEF Due
    <3>7. AloneOK(w)'
      BY <1>1, <2>1, <3>1, <3>3, <3>4, <3>5, <3>6 DEF AloneOK, Found, Others
    <3>8. FileOK'
      BY <1>0, <1>1, <3>2 DEF FileOK, Found, Whole
    <3> QED BY <1>1, <1>2, <2>1, <3>7, <3>8
  <2> QED BY <2>3, <2>4
<1> QED BY <1>3, <1>4

LEMMA CloseInv ==
  ASSUME SessionsInv, NEW w \in Writers, Rename(w) \/ SaveFails(w)
  PROVE  OwedOK' /\ FileOK' /\ (\A o \in alone : AloneOK(o))'
<1>0. /\ SessionsTypeOK /\ OpenOK /\ OwedOK /\ FileOK /\ \A o \in alone : AloneOK(o)
      /\ alone \subseteq Writers
  BY DEF SessionsInv, SessionsTypeOK
<1>1. /\ UNCHANGED <<current, history, owed, newer>>
      /\ saving[w] # "idle" /\ alone' = alone \ {w}
      /\ saving' = [saving EXCEPT ![w] = "idle"]
  BY DEF Rename, SaveFails, Goes, memory
<1>2. OwedOK'
  BY <1>0, <1>1 DEF OwedOK, Found
<1>3. CASE SaveFails(w) \/ (Rename(w) /\ tmp = NoFile)
  <2>1. holds' = [holds EXCEPT ![w] = "none"] /\ UNCHANGED <<tmp, file, unsaved, mixed>>
    BY <1>3 DEF Rename, SaveFails
  <2>2. FileOK'
    BY <1>0, <1>1, <2>1 DEF FileOK, Found, Whole, SessionsTypeOK
  <2>3. ASSUME NEW o \in alone' PROVE AloneOK(o)'
    <3>1. o \in Writers \ {w} /\ AloneOK(o)
      BY <1>0, <1>1
    <3>2. saving'[o] = saving[o] /\ holds'[o] = holds[o]
          /\ \A x \in Others(o) : holds[x] = "none" => holds'[x] = "none"
      BY <1>0, <1>1, <2>1, <3>1 DEF SessionsTypeOK, Others
    <3> QED BY <1>1, <2>1, <3>1, <3>2 DEF AloneOK, Found, Due, Whole, Others
  <2> QED BY <1>2, <2>2, <2>3
<1>4. CASE Rename(w) /\ tmp # NoFile
  <2>1. /\ saving[w] = "rename" /\ file' = tmp
        /\ mixed' = (mixed /\ w \notin alone)
        /\ unsaved' = IF w = "loop" THEN {} ELSE unsaved
        /\ \A o \in Writers : o = w \/ holds[o] = "none" => holds'[o] = "none"
    BY <1>4 DEF Rename
  <2>2. alone' = {}
    BY <1>1, <2>1, WriterIsAlone
  <2>3. CASE w \notin alone
    BY <1>2, <2>1, <2>2, <2>3, WriterIsAlone DEF FileOK
  <2>4. CASE w \in alone
    <3>1. AloneOK(w)
      BY <1>0, <2>4
    <3>2. ~ mixed'
      BY <2>1, <2>4
    <3>3. \A o \in Writers : holds'[o] = "none"
      BY <2>1, <3>1 DEF AloneOK, Others
    <3>4. Whole(tmp) /\ \A s \in Due(w) : Found(tmp.current, tmp.history, s)
      BY <2>1, <3>1 DEF AloneOK
    <3>5. Due(w) = owed' \ unsaved'
      BY <1>1, <2>1 DEF Due
    <3>6. FileOK'
      BY <1>1, <1>4, <2>1, <3>3, <3>4, <3>5 DEF FileOK, Found, Whole
    <3> QED BY <1>2, <2>2, <3>6
  <2> QED BY <2>3, <2>4
<1> QED BY <1>3, <1>4

LEMMA RestartInv ==
  ASSUME SessionsInv, Restart
  PROVE  OwedOK' /\ FileOK' /\ (\A o \in alone : AloneOK(o))'
<1>0. SessionsTypeOK /\ OwedOK /\ FileOK
  BY DEF SessionsInv
<1>1. /\ alone' = {} /\ unsaved' = {} /\ UNCHANGED <<file, mixed>>
      /\ \A w \in Writers : holds'[w] = "none"
      /\ owed' = IF mixed THEN {} ELSE owed \ unsaved
      /\ \A s \in Sessions : newer'[s] = IF s \in owed' THEN newer[s] ELSE {}
      /\ Whole(file) => current' = file.current /\ history' = file.history
  BY DEF Restart
<1>2. owed' \subseteq owed /\ owed \subseteq Sessions
  BY <1>0, <1>1 DEF SessionsTypeOK
<1>3. \A s \in Sessions : IsFiniteSet(newer'[s])
  BY <1>0, <1>1, FS_EmptySet DEF OwedOK
<1>4. ASSUME NEW s \in owed'
      PROVE  /\ Whole(file) /\ file # NoFile
             /\ s = file.current \/ Listed(file.history, s, newer'[s])
  <2>1. ~ mixed /\ s \in owed \ unsaved
    BY <1>1
  <2>2. Whole(file) /\ file # NoFile /\ Found(file.current, file.history, s)
    BY <1>0, <2>1 DEF FileOK
  <2> QED BY <1>1, <1>2, <1>4, <2>2 DEF Found
<1>5. ASSUME NEW s \in owed' PROVE Found(current, history, s)' /\ Cardinality(newer'[s]) < MaxHistory
  <2>1. newer'[s] = newer[s] /\ Cardinality(newer[s]) < MaxHistory
    BY <1>0, <1>1, <1>2, <1>5 DEF OwedOK
  <2> QED BY <1>1, <1>4, <1>5, <2>1 DEF Found
<1>6. OwedOK'
  BY <1>3, <1>5 DEF OwedOK
<1>7. FileOK'
  <2>1. ~ mixed => file = NoFile \/ Whole(file)
    BY <1>0 DEF FileOK
  <2>2. ASSUME NEW s \in owed' PROVE file # NoFile /\ Found(file.current, file.history, s)'
    BY <1>1, <1>4, <2>2 DEF Found
  <2> QED BY <1>1, <2>1, <2>2 DEF FileOK, Whole
<1> QED BY <1>1, <1>6, <1>7

-----------------------------------------------------------------------------
(* The invariant, and what follows.                                        *)

LEMMA SessionsInitInv == SessionsInit => SessionsInv
<1> SUFFICES ASSUME SessionsInit PROVE SessionsInv
  OBVIOUS
<1>1. OwedOK
  BY FS_EmptySet DEF SessionsInit, OwedOK
<1>2. FileOK /\ \A w \in alone : AloneOK(w)
  BY DEF SessionsInit, FileOK
<1> QED BY <1>1, <1>2, SessionsInitTypeOK DEF SessionsInv

LEMMA SessionsNextInv == SessionsInv /\ [SessionsNext]_svars => SessionsInv'
<1> SUFFICES ASSUME SessionsInv, [SessionsNext]_svars PROVE SessionsInv'
  OBVIOUS
<1>1. SessionsTypeOK' /\ OpenOK'
  BY SessionsNextTypeOK DEF SessionsInv
<1>2. OwedOK' /\ FileOK' /\ (\A w \in alone : AloneOK(w))'
  <2>1. CASE UNCHANGED svars
    BY <2>1 DEF svars, memory, disk, ghosts, SessionsInv, OwedOK, FileOK, AloneOK, Found, Due, Whole, Others
  <2> QED BY <2>1, CommandInv, OpenInv, WriteInv, CloseInv, RestartInv DEF SessionsNext, Save
<1> QED BY <1>1, <1>2 DEF SessionsInv

LEMMA SessionsInvariance == SessionsSpec => []SessionsInv
BY SessionsInitInv, SessionsNextInv, PTL DEF SessionsSpec

(* The record and the file stay readable as what they are, and no history  *)
(* is longer than MaxHistory or lists a session twice, whatever is resumed *)
(* and handed over.                                                        *)
THEOREM SessionsTypeCorrect == SessionsSpec => []SessionsTypeOK
<1>1. SessionsInv => SessionsTypeOK
  BY DEF SessionsInv
<1> QED BY <1>1, SessionsInvariance, PTL

(* No order of answers, commands, saves of both kinds, errors and restarts *)
(* loses a session that the history has room for and a save has reached.   *)
THEOREM NothingIsForgotten == SessionsSpec => []NothingForgotten
<1>1. SessionsInv => NothingForgotten
  BY DEF SessionsInv, OwedOK, Found, Listed, NothingForgotten
<1> QED BY <1>1, SessionsInvariance, PTL

(* What session_store.py:311 says of os.replace holds as long as no save   *)
(* of the thread overlaps one of the loop, and again after a save that     *)
(* none has overlapped.                                                    *)
THEOREM WholeUnlessMixed == SessionsSpec => [](~ mixed => FileIsWhole)
<1>1. SessionsInv => (~ mixed => FileIsWhole)
  BY DEF SessionsInv, FileOK, FileIsWhole
<1> QED BY <1>1, SessionsInvariance, PTL
=============================================================================
