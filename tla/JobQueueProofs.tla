--------------------------- MODULE JobQueueProofs ---------------------------
(***************************************************************************)
(* Proofs about JobQueue, for every number of workers, kinds and jobs and  *)
(* every attempt limit.                                                    *)
(***************************************************************************)
EXTENDS JobQueue, TLAPS

-----------------------------------------------------------------------------
(* What each UPDATE makes of a row.                                        *)

(* A claim is a running row of the worker, with one more attempt.          *)
LEMMA ClaimedRow ==
  ASSUME NEW r \in Row, NEW w \in Workers
  PROVE  /\ Claimed(r, w) \in Row
         /\ Claimed(r, w).status = "running"
         /\ Claimed(r, w).worker = w
         /\ Claimed(r, w).kind = r.kind
         /\ Claimed(r, w).attempts = r.attempts + 1
         /\ Claimed(r, w).result = r.result
         /\ Claimed(r, w).error = r.error
<1>1. r.attempts + 1 \in Nat /\ "running" \in Statuses
  BY DEF Row, Statuses
<1>2. Claimed(r, w) \in Row
  BY <1>1 DEF Claimed, Row
<1>3. /\ Claimed(r, w).status = "running"
      /\ Claimed(r, w).worker = w
      /\ Claimed(r, w).kind = r.kind
  BY DEF Claimed, Row
<1>4. /\ Claimed(r, w).attempts = r.attempts + 1
      /\ Claimed(r, w).result = r.result
      /\ Claimed(r, w).error = r.error
  BY DEF Claimed, Row
<1> QED BY <1>2, <1>3, <1>4

(* A finished row is terminal and has exactly one of result and error.     *)
LEMMA FinishedRow ==
  ASSUME NEW r \in Row, NEW s \in Terminal
  PROVE  /\ Finished(r, s) \in Row
         /\ Finished(r, s).status = s
         /\ Finished(r, s).kind = r.kind
         /\ Finished(r, s).attempts = r.attempts
         /\ Finished(r, s).result # Finished(r, s).error
  BY DEF Finished, Row, Statuses, Terminal, Column

(* A rescued row is pending with a try left, or failed with its error set. *)
LEMMA RescuedRow ==
  ASSUME NEW r \in Row
  PROVE  /\ Rescued(r) \in Row
         /\ Rescued(r).kind = r.kind
         /\ Rescued(r).attempts = r.attempts
         /\ Rescued(r).result = r.result
         /\ r.attempts < MaxAttempts => /\ Rescued(r).status = "pending"
                                        /\ Rescued(r).error = r.error
         /\ ~(r.attempts < MaxAttempts) => /\ Rescued(r).status = "failed"
                                           /\ Rescued(r).error = "set"
  BY DEF Rescued, Row, Statuses, Column

(* Ageing touches started_at only.                                         *)
LEMMA AgedRow ==
  ASSUME NEW r \in Row
  PROVE  /\ Aged(r) \in Row
         /\ Aged(r).status = r.status
         /\ Aged(r).kind = r.kind
         /\ Aged(r).attempts = r.attempts
         /\ Aged(r).worker = r.worker
         /\ Aged(r).result = r.result
         /\ Aged(r).error = r.error
  BY DEF Aged, Row

(* A submitted row is pending, untried and empty.                          *)
LEMMA FreshRow ==
  ASSUME NEW k \in Kinds
  PROVE  /\ Fresh(k) \in Row
         /\ Fresh(k).status = "pending"
         /\ Fresh(k).kind = k
         /\ Fresh(k).attempts = 0
         /\ Fresh(k).result = "null"
         /\ Fresh(k).error = "null"
  BY DEF Fresh, NoRow, Row, Statuses, Column

-----------------------------------------------------------------------------
(* Every step keeps the types.                                             *)
LEMMA TypeStep ==
  ASSUME TypeOK, [Next]_vars
  PROVE  TypeOK'
<1> USE JobAssumption DEF TypeOK, Ids
<1>1. ASSUME NEW k \in Kinds, Submit(k) PROVE TypeOK'
  BY <1>1, FreshRow DEF Submit
<1>2. ASSUME NEW w \in Workers, NEW m \in Modes, Start(w, m) PROVE TypeOK'
  <2>1. rows' \in [Ids -> Row]
    BY <1>2, RescuedRow DEF Start, Recover
  <2>2. loops' \subseteq Workers /\ contested' \subseteq Ids
    BY <1>2 DEF Start, Disputable
  <2> QED BY <1>2, <2>1, <2>2 DEF Start, PCs, Busy
<1>3. ASSUME NEW w \in Workers, Claim(w) PROVE TypeOK'
  <2>1. PICK j \in Ids : /\ rows' = [rows EXCEPT ![j] = Claimed(@, w)]
                         /\ held' = [held EXCEPT ![w] = j]
    BY <1>3 DEF Claim
  <2>2. rows' \in [Ids -> Row]
    BY <2>1, ClaimedRow
  <2>3. held' \in [Workers -> 0 .. MaxJobs]
    BY <2>1
  <2> QED BY <1>3, <2>2, <2>3 DEF Claim, PCs, Busy
<1>4. ASSUME NEW w \in Workers, Exit(w) PROVE TypeOK'
  BY <1>4 DEF Exit, PCs, Busy
<1>5. ASSUME NEW w \in Workers, HandlerReturns(w) \/ HandlerRaises(w)
      PROVE  TypeOK'
  BY <1>5 DEF HandlerReturns, HandlerRaises, PCs, Busy
<1>6. ASSUME NEW w \in Workers, Complete(w) \/ Fail(w) PROVE TypeOK'
  <2>1. PICK s \in Terminal : Finish(held[w], s)
    BY <1>6 DEF Complete, Fail, Terminal
  <2>2. rows' \in [Ids -> Row]
    BY <2>1, FinishedRow DEF Finish
  <2>3. contested' \subseteq Ids
    BY <1>6 DEF Complete, Fail, LetGo
  <2>4. CASE Complete(w)
    BY <2>2, <2>3, <2>4 DEF Complete, PCs, Busy
  <2>5. CASE Fail(w)
    BY <2>2, <2>3, <2>5 DEF Fail, PCs, Busy
  <2> QED BY <1>6, <2>4, <2>5
<1>7. ASSUME NEW w \in Workers, CompleteRaises(w) PROVE TypeOK'
  BY <1>7 DEF CompleteRaises, PCs, Busy
<1>8. ASSUME NEW w \in Workers, Crash(w) PROVE TypeOK'
  <2>1. contested' \subseteq Ids
    BY <1>8 DEF Crash, LetGo
  <2> QED BY <1>8, <2>1 DEF Crash, PCs, Busy
<1>9. ASSUME NEW j \in Ids, Age(j) PROVE TypeOK'
  <2>1. rows' \in [Ids -> Row]
    BY <1>9, AgedRow DEF Age
  <2> QED BY <1>9, <2>1 DEF Age
<1>10. CASE UNCHANGED vars
  BY <1>10 DEF vars
<1> QED
  BY <1>1, <1>2, <1>3, <1>4, <1>5, <1>6, <1>7, <1>8, <1>9, <1>10
     DEF Next, WorkerStep


-----------------------------------------------------------------------------
(* What one step can do to row j; every invariant below follows from it.   *)
Submitted(j) ==
  /\ last' = last + 1 /\ j = last'
  /\ \E k \in Kinds : /\ ~ \E i \in With("pending") : rows[i].kind = k
                      /\ rows'[j] = Fresh(k)

Change(j) ==
  /\ last' = last \/ (last' = last + 1 /\ last < MaxJobs /\ j # last')
  /\ \/ rows'[j] = rows[j]
     \/ \E w \in Workers : /\ IsFirst(j, With("pending"))
                           /\ rows'[j] = Claimed(rows[j], w)
     \/ \E w \in Workers, s \in Terminal : /\ held[w] = j
                                           /\ rows'[j] = Finished(rows[j], s)
     \/ rows[j].status = "running" /\ rows'[j] = Rescued(rows[j])
     \/ rows[j].status = "running" /\ rows'[j] = Aged(rows[j])

(* Every step changes every row in one of these ways.                      *)
LEMMA RowChange ==
  ASSUME TypeOK, [Next]_vars, NEW j \in Ids
  PROVE  Submitted(j) \/ Change(j)
<1> USE DEF TypeOK
<1>1. ASSUME NEW k \in Kinds, Submit(k) PROVE Submitted(j) \/ Change(j)
  <2>1. CASE j = last + 1
    BY <1>1, <2>1 DEF Submit, Submitted
  <2>2. CASE j # last + 1
    BY <1>1, <2>2 DEF Submit, Change
  <2> QED BY <2>1, <2>2
<1>2. ASSUME NEW w \in Workers, NEW m \in Modes, Start(w, m) PROVE Change(j)
  <2>1. Orphans(m) \subseteq With("running")
    BY DEF Orphans
  <2> QED BY <1>2, <2>1 DEF Start, Recover, With, Change
<1>3. ASSUME NEW w \in Workers, Claim(w) PROVE Change(j)
  <2>1. PICK i \in Ids : /\ IsFirst(i, With("pending"))
                         /\ rows' = [rows EXCEPT ![i] = Claimed(@, w)]
    BY <1>3 DEF Claim
  <2> QED BY <1>3, <2>1 DEF Claim, Change
<1>4. ASSUME NEW w \in Workers, Complete(w) \/ Fail(w) PROVE Change(j)
  <2>1. PICK s \in Terminal : Finish(held[w], s)
    BY <1>4 DEF Complete, Fail, Terminal
  <2>2. last' = last
    BY <1>4 DEF Complete, Fail
  <2> QED BY <2>1, <2>2 DEF Finish, Change
<1>5. ASSUME NEW i \in Ids, Age(i) PROVE Change(j)
  BY <1>5 DEF Age, Change
<1>6. ASSUME UNCHANGED <<rows, last>> PROVE Change(j)
  BY <1>6 DEF Change
<1> QED
  BY <1>1, <1>2, <1>3, <1>4, <1>5, <1>6
     DEF Next, WorkerStep, Exit, HandlerReturns, HandlerRaises,
         CompleteRaises, Crash, vars

-----------------------------------------------------------------------------
(* The part of the ledger that one row shows.                              *)
RowLedger(j) ==
  /\ rows[j].status = "absent" <=> j > last
  /\ rows[j].status = "absent" => rows[j].attempts = 0
  /\ rows[j].status \notin {"absent", "pending"} => rows[j].attempts > 0

(* A step keeps it, never removes a row and never lowers its attempts.     *)
LEMMA RowLedgerStep ==
  ASSUME TypeOK, LedgerInv, [Next]_vars, NEW j \in Ids
  PROVE  /\ RowLedger(j)'
         /\ rows[j].status # "absent" => rows'[j].status # "absent"
         /\ rows'[j].attempts >= rows[j].attempts
<1>1. /\ rows[j] \in Row /\ rows[j].attempts \in Nat
      /\ last \in Nat /\ j \in Nat /\ RowLedger(j)
  BY JobAssumption DEF TypeOK, Row, Ids, LedgerInv, RowLedger
<1>2. CASE Submitted(j)
  BY <1>1, <1>2, FreshRow DEF Submitted, RowLedger
<1>3. CASE Change(j)
  <2>1. rows'[j].status = "absent" <=> j > last
        => (rows'[j].status = "absent" <=> j > last')
    BY <1>1, <1>3 DEF Change
  <2>2. CASE rows'[j] = rows[j]
    BY <1>1, <2>1, <2>2 DEF RowLedger
  <2>3. ASSUME NEW w \in Workers, IsFirst(j, With("pending")),
               rows'[j] = Claimed(rows[j], w)
        PROVE  rows[j].status = "pending" /\ rows'[j].status = "running"
               /\ rows'[j].attempts = rows[j].attempts + 1
    BY <1>1, <2>3, ClaimedRow DEF IsFirst, With
  <2>4. ASSUME NEW w \in Workers, NEW s \in Terminal, held[w] = j,
               rows'[j] = Finished(rows[j], s)
        PROVE  rows[j].status # "absent" /\ rows'[j].status = s
               /\ rows[j].attempts > 0 /\ rows'[j].attempts = rows[j].attempts
    <3>1. j # 0
      BY DEF Ids
    <3> QED BY <1>1, <2>4, <3>1, FinishedRow DEF LedgerInv
  <2>5. ASSUME rows[j].status = "running",
               rows'[j] = Rescued(rows[j]) \/ rows'[j] = Aged(rows[j])
        PROVE  rows'[j].status \in {"pending", "failed", "running"}
               /\ rows'[j].attempts = rows[j].attempts
    BY <1>1, <2>5, RescuedRow, AgedRow
  <2> QED
    BY <1>1, <1>3, <2>1, <2>2, <2>3, <2>4, <2>5
       DEF Change, RowLedger, Terminal
<1> QED BY <1>2, <1>3, RowChange

(* The ledger is kept by every step.                                       *)
LEMMA LedgerStep ==
  ASSUME TypeOK, LedgerInv, [Next]_vars
  PROVE  LedgerInv'
<1>1. \A j \in Ids : RowLedger(j)'
  BY RowLedgerStep
<1>2. ASSUME NEW w \in Workers
      PROVE  /\ held'[w] # 0 <=> pc'[w] \in Busy
             /\ held'[w] # 0 => /\ rows'[held'[w]].status # "absent"
                                /\ rows'[held'[w]].attempts > 0
  <2>1. /\ held[w] # 0 <=> pc[w] \in Busy
        /\ held[w] # 0 => /\ held[w] \in Ids
                          /\ rows[held[w]].attempts \in Nat
                          /\ rows[held[w]].status # "absent"
                          /\ rows[held[w]].attempts > 0
    BY JobAssumption DEF LedgerInv, TypeOK, Ids, Row
  <2>2. ASSUME held[w] # 0
        PROVE  /\ rows'[held[w]].status # "absent"
               /\ rows'[held[w]].attempts >= rows[held[w]].attempts
    BY <2>1, <2>2, RowLedgerStep
  <2>3. rows' \in [Ids -> Row]
    BY TypeStep DEF TypeOK
  <2>4. held[w] # 0 => rows'[held[w]].attempts > 0
    BY <2>1, <2>2, <2>3 DEF Row
  <2> DEFINE OK == /\ held'[w] # 0 <=> pc'[w] \in Busy
                   /\ held'[w] # 0 => /\ rows'[held'[w]].status # "absent"
                                      /\ rows'[held'[w]].attempts > 0
  <2>5. ASSUME held'[w] = held[w], pc'[w] \in Busy <=> pc[w] \in Busy
        PROVE  OK
    BY <2>1, <2>2, <2>4, <2>5
  <2>6. ASSUME NEW v \in Workers, held' = [held EXCEPT ![v] = 0],
               pc' = [pc EXCEPT ![v] = "drain"] \/ pc' = [pc EXCEPT ![v] = "off"]
        PROVE  OK
    BY <2>5, <2>6 DEF Busy, TypeOK
  <2>7. ASSUME NEW v \in Workers, Claim(v) PROVE OK
    <3>1. PICK j \in Ids : /\ IsFirst(j, With("pending"))
                           /\ rows' = [rows EXCEPT ![j] = Claimed(@, v)]
                           /\ held' = [held EXCEPT ![v] = j]
      BY <2>7 DEF Claim
    <3>2. rows'[j] = Claimed(rows[j], v) /\ rows[j] \in Row /\ j # 0
      BY <3>1 DEF TypeOK, Ids
    <3>3. rows'[j].status = "running" /\ rows'[j].attempts > 0
      BY <3>2, ClaimedRow DEF Row
    <3>4. pc' = [pc EXCEPT ![v] = "run"]
      BY <2>7 DEF Claim
    <3> QED BY <2>5, <3>1, <3>2, <3>3, <3>4 DEF Busy, TypeOK
  <2>8. ASSUME NEW v \in Workers, NEW p \in PCs, held' = held,
               pc' = [pc EXCEPT ![v] = p], p \in Busy <=> pc[v] \in Busy
        PROVE  OK
    BY <2>5, <2>8 DEF TypeOK
  <2> HIDE DEF OK
  <2>9. ASSUME NEW v \in Workers, WorkerStep(v) PROVE OK
    <3>1. CASE Complete(v) \/ Fail(v) \/ Crash(v)
      BY <3>1, <2>6 DEF Complete, Fail, Crash
    <3>2. CASE \E m \in Modes : Start(v, m)
      BY <3>2, <2>8 DEF Start, Busy, PCs
    <3>3. CASE Exit(v)
      BY <3>3, <2>8 DEF Exit, Busy, PCs
    <3>4. CASE HandlerReturns(v)
      BY <3>4, <2>8 DEF HandlerReturns, Busy, PCs
    <3>5. CASE HandlerRaises(v) \/ CompleteRaises(v)
      BY <3>5, <2>8 DEF HandlerRaises, CompleteRaises, Busy, PCs
    <3> QED BY <2>7, <2>9, <3>1, <3>2, <3>3, <3>4, <3>5 DEF WorkerStep
  <2>10. ASSUME UNCHANGED <<pc, held>> PROVE OK
    BY <2>5, <2>10
  <2>11. OK
    <3>1. (\E v \in Workers : WorkerStep(v)) \/ UNCHANGED <<pc, held>>
      BY DEF Next, Submit, Age, vars
    <3> QED BY <3>1, <2>9, <2>10
  <2> QED BY <2>11 DEF OK
<1> QED BY <1>1, <1>2 DEF LedgerInv, RowLedger

-----------------------------------------------------------------------------
(* Every variable keeps its type, in every deployment.                     *)
THEOREM TypeCorrect == Spec => []TypeOK
<1>1. Init => TypeOK
  BY JobAssumption
     DEF Init, TypeOK, NoRow, Row, Ids, Statuses, PCs, AllModes, Column
<1>2. TypeOK /\ [Next]_vars => TypeOK'
  BY TypeStep
<1> QED BY <1>1, <1>2, PTL DEF Spec

(* Rowids are handed out in order, a claim leaves its mark for ever and a  *)
(* worker holds a job exactly while it works, in every deployment.         *)
THEOREM LedgerKept == Spec => []LedgerInv
<1>1. Init => LedgerInv
  BY JobAssumption DEF Init, LedgerInv, NoRow, Ids, Busy
<1>2. TypeOK /\ LedgerInv /\ [Next]_vars => LedgerInv'
  BY LedgerStep
<1> QED BY <1>1, <1>2, TypeCorrect, PTL DEF Spec

(* However many workers start, crash and recover, no job is tried more     *)
(* than MaxAttempts times (recover_stale_running: "can never loop          *)
(* forever").                                                              *)
THEOREM NoPoisonLoop == Spec => []AttemptsBounded
<1>1. Init => AttemptsBounded
  BY JobAssumption DEF Init, AttemptsBounded, NoRow
<1>2. ASSUME TypeOK, LedgerInv, AttemptsBounded, [Next]_vars
      PROVE  AttemptsBounded'
  <2> SUFFICES ASSUME NEW j \in Ids
               PROVE  /\ rows'[j].attempts <= MaxAttempts
                      /\ rows'[j].status = "pending"
                           => rows'[j].attempts < MaxAttempts
    BY DEF AttemptsBounded
  <2>1. /\ rows[j] \in Row /\ rows[j].attempts \in Nat /\ MaxAttempts \in Nat \ {0}
        /\ rows[j].attempts <= MaxAttempts
        /\ rows[j].status = "pending" => rows[j].attempts < MaxAttempts
    BY <1>2, JobAssumption DEF TypeOK, Row, AttemptsBounded
  <2>2. CASE Submitted(j)
    BY <2>1, <2>2, FreshRow DEF Submitted
  <2>3. CASE Change(j)
    <3>1. ASSUME NEW w \in Workers, IsFirst(j, With("pending")),
                 rows'[j] = Claimed(rows[j], w)
          PROVE  rows[j].status = "pending" /\ rows'[j].status = "running"
                 /\ rows'[j].attempts = rows[j].attempts + 1
      BY <2>1, <3>1, ClaimedRow DEF IsFirst, With
    <3>2. ASSUME NEW s \in Terminal, rows'[j] = Finished(rows[j], s)
          PROVE  rows'[j].status = s /\ rows'[j].attempts = rows[j].attempts
      BY <2>1, <3>2, FinishedRow
    <3> QED
      BY <2>1, <2>3, <3>1, <3>2, RescuedRow, AgedRow DEF Change, Terminal
  <2> QED BY <1>2, <2>2, <2>3, RowChange
<1> QED BY <1>1, <1>2, TypeCorrect, LedgerKept, PTL DEF Spec

(* A terminal row has exactly one of result and error, every other row has *)
(* neither (the contract of schema.py's Job), in every deployment.         *)
THEOREM OutcomeContract == Spec => []OneOutcome
<1>1. Init => OneOutcome
  BY DEF Init, OneOutcome, NoRow, Terminal
<1>2. ASSUME TypeOK, OneOutcome, [Next]_vars
      PROVE  OneOutcome'
  <2> SUFFICES ASSUME NEW j \in Ids
               PROVE  IF rows'[j].status \in Terminal
                      THEN rows'[j].result # rows'[j].error
                      ELSE rows'[j].result = "null" /\ rows'[j].error = "null"
    BY DEF OneOutcome
  <2>1. /\ rows[j] \in Row
        /\ IF rows[j].status \in Terminal
           THEN rows[j].result # rows[j].error
           ELSE rows[j].result = "null" /\ rows[j].error = "null"
    BY <1>2 DEF TypeOK, OneOutcome
  <2>2. CASE Submitted(j)
    BY <2>2, FreshRow DEF Submitted, Terminal
  <2>3. CASE Change(j)
    <3>1. ASSUME NEW w \in Workers, IsFirst(j, With("pending")),
                 rows'[j] = Claimed(rows[j], w)
          PROVE  rows[j].status = "pending" /\ rows'[j].status = "running"
                 /\ rows'[j].result = rows[j].result
                 /\ rows'[j].error = rows[j].error
      BY <2>1, <3>1, ClaimedRow DEF IsFirst, With
    <3>2. ASSUME NEW s \in Terminal, rows'[j] = Finished(rows[j], s)
          PROVE  rows'[j].status = s /\ rows'[j].result # rows'[j].error
      BY <2>1, <3>2, FinishedRow
    <3>3. ASSUME rows[j].status = "running", rows'[j] = Rescued(rows[j])
          PROVE  /\ rows'[j].result = "null"
                 /\ \/ rows'[j].status = "pending" /\ rows'[j].error = "null"
                    \/ rows'[j].status = "failed" /\ rows'[j].error = "set"
      BY <2>1, <3>3, RescuedRow DEF Terminal
    <3> QED
      BY <2>1, <2>3, <3>1, <3>2, <3>3, AgedRow DEF Change, Terminal
  <2> QED BY <1>2, <2>2, <2>3, RowChange
<1> QED BY <1>1, <1>2, TypeCorrect, PTL DEF Spec

(* A terminal row stays terminal, in every deployment.                     *)
THEOREM TerminalForGood == Spec => NeverReopened
<1>1. ASSUME TypeOK, LedgerInv, [Next]_vars, NEW j \in Ids,
             rows[j].status \in Terminal
      PROVE  rows'[j].status \in Terminal
  <2>1. rows[j] \in Row /\ j <= last /\ last \in Nat
    BY <1>1, JobAssumption DEF TypeOK, LedgerInv, Terminal, Ids
  <2>2. ~Submitted(j)
    BY <2>1 DEF Submitted, Ids
  <2>3. ~IsFirst(j, With("pending"))
    BY <1>1 DEF IsFirst, With, Terminal
  <2> QED
    BY <1>1, <2>1, <2>2, <2>3, RowChange, FinishedRow DEF Change, Terminal
<1>2. TypeOK /\ LedgerInv /\ [Next]_vars
        => [\A j \in Ids : rows[j].status \in Terminal
                            => rows'[j].status \in Terminal]_vars
  BY <1>1
<1> QED BY <1>2, TypeCorrect, LedgerKept, PTL DEF Spec, NeverReopened

(* First tries happen in the order of submission, in every deployment.     *)
THEOREM FifoFirstTries == Spec => []FirstTriesInOrder
<1>1. Init => FirstTriesInOrder
  BY DEF Init, FirstTriesInOrder, NoRow
<1>2. ASSUME TypeOK, LedgerInv, FirstTriesInOrder, [Next]_vars
      PROVE  FirstTriesInOrder'
  <2> SUFFICES ASSUME NEW i \in Ids, NEW j \in Ids, i < j,
                      rows'[j].attempts > 0
               PROVE  rows'[i].attempts > 0
    BY DEF FirstTriesInOrder
  <2>1. /\ rows[i] \in Row /\ rows[j] \in Row /\ rows'[i] \in Row
        /\ rows[i].attempts \in Nat /\ rows[j].attempts \in Nat
        /\ rows'[i].attempts \in Nat
        /\ rows'[i].attempts >= rows[i].attempts
        /\ i \in Nat /\ j \in Nat /\ last \in Nat
    <3>1. TypeOK'
      BY <1>2, TypeStep
    <3>2. rows[i] \in Row /\ rows[j] \in Row /\ rows'[i] \in Row
      BY <1>2, <3>1 DEF TypeOK
    <3>3. /\ rows[i].attempts \in Nat /\ rows[j].attempts \in Nat
          /\ rows'[i].attempts \in Nat
      BY <3>2 DEF Row
    <3>4. rows'[i].attempts >= rows[i].attempts
      BY <1>2, RowLedgerStep
    <3>5. i \in Nat /\ j \in Nat /\ last \in Nat
      BY <1>2, JobAssumption DEF TypeOK, Ids
    <3> QED BY <3>2, <3>3, <3>4, <3>5
  <2>2. SUFFICES rows[i].attempts > 0
    BY <2>1
  <2>3. CASE rows[j].attempts > 0
    BY <1>2, <2>3 DEF FirstTriesInOrder
  <2>4. CASE ~(rows[j].attempts > 0)
    <3>1. ~Submitted(j)
      BY FreshRow DEF Submitted
    <3>2. IsFirst(j, With("pending"))
      <4>1. /\ rows'[j] # rows[j]
            /\ \A w \in Workers, t \in Terminal : rows'[j] # Finished(rows[j], t)
            /\ rows'[j] # Rescued(rows[j]) /\ rows'[j] # Aged(rows[j])
        BY <2>1, <2>4, FinishedRow, RescuedRow, AgedRow
      <4>2. Change(j)
        BY <1>2, <3>1, RowChange
      <4> QED BY <4>1, <4>2 DEF Change
    <3>3. rows[i].status # "pending"
      BY <2>1, <3>2 DEF IsFirst, With
    <3>4. rows[j].status = "pending"
      BY <3>2 DEF IsFirst, With
    <3>5. j <= last
      BY <1>2, <2>1, <3>4 DEF LedgerInv
    <3> QED BY <1>2, <2>1, <3>3, <3>5 DEF LedgerInv
  <2> QED BY <2>3, <2>4
<1> QED BY <1>1, <1>2, TypeCorrect, LedgerKept, PTL DEF Spec

(* No row behind an untried pending row asks for the same work, in every   *)
(* deployment (the dedup of submit).                                       *)
THEOREM DedupKept == Spec => []DedupHolds
<1>1. Init => DedupHolds
  BY DEF Init, DedupHolds, NoRow
<1>2. ASSUME TypeOK, LedgerInv, DedupHolds, [Next]_vars
      PROVE  DedupHolds'
  <2> SUFFICES ASSUME NEW i \in Ids, NEW j \in Ids, i < j,
                      rows'[i].status = "pending", rows'[i].attempts = 0,
                      rows'[j].status # "absent"
               PROVE  rows'[i].kind # rows'[j].kind
    BY DEF DedupHolds
  <2>1. /\ rows[i] \in Row /\ rows[j] \in Row
        /\ rows[i].attempts \in Nat /\ rows[j].attempts \in Nat
        /\ i \in Nat /\ j \in Nat /\ last \in Nat /\ last' \in Nat
        /\ j <= last'
    <3>1. TypeOK' /\ LedgerInv'
      BY <1>2, TypeStep, LedgerStep
    <3>2. last' \in Nat /\ j \in Nat /\ j <= last'
      BY <3>1, JobAssumption DEF TypeOK, LedgerInv, Ids
    <3>3. rows[i] \in Row /\ rows[j] \in Row /\ i \in Nat /\ last \in Nat
      BY <1>2, JobAssumption DEF TypeOK, Ids
    <3>4. rows[i].attempts \in Nat /\ rows[j].attempts \in Nat
      BY <3>3 DEF Row
    <3> QED BY <3>2, <3>3, <3>4
  <2>2. ~Submitted(i)
    BY <2>1 DEF Submitted
  <2>3. rows'[i] = rows[i]
    <3>1. Change(i)
      BY <1>2, <2>2, RowChange
    <3>2. \A w \in Workers : rows'[i] # Claimed(rows[i], w)
      BY <2>1, ClaimedRow
    <3>3. \A s \in Terminal : rows'[i] # Finished(rows[i], s)
      BY <2>1, FinishedRow DEF Terminal
    <3>4. rows[i].status = "running" => rows[i].attempts > 0
      BY <1>2 DEF LedgerInv
    <3>5. rows[i].status = "running" =>
            rows'[i] # Rescued(rows[i]) /\ rows'[i] # Aged(rows[i])
      BY <2>1, <3>4, RescuedRow, AgedRow
    <3> QED BY <3>1, <3>2, <3>3, <3>5 DEF Change
  <2>4. CASE Submitted(j)
    <3>1. PICK k \in Kinds : /\ ~ \E h \in With("pending") : rows[h].kind = k
                             /\ rows'[j] = Fresh(k)
      BY <2>4 DEF Submitted
    <3>2. i \in With("pending")
      BY <2>3 DEF With
    <3> QED BY <2>3, <3>1, <3>2, FreshRow
  <2>5. CASE Change(j)
    <3>1. rows'[j].kind = rows[j].kind
      BY <2>1, <2>5, ClaimedRow, FinishedRow, RescuedRow, AgedRow DEF Change
    <3>2. rows[j].status # "absent"
      BY <1>2, <2>1, <2>5 DEF LedgerInv, Change
    <3> QED BY <1>2, <2>3, <3>1, <3>2 DEF DedupHolds
  <2> QED BY <1>2, <2>4, <2>5, RowChange
<1> QED BY <1>1, <1>2, TypeCorrect, LedgerKept, PTL DEF Spec

-----------------------------------------------------------------------------
(* Recovery under a living worker.                                         *)

(* A contested job is in somebody's memory.                                *)
ContestInv == \A j \in contested : InMemory(j)

(* Every step keeps that.                                                  *)
LEMMA ContestStep ==
  ASSUME TypeOK, LedgerInv, ContestInv, [Next]_vars
  PROVE  ContestInv'
<1>1. CASE LetGo
  BY <1>1 DEF LetGo, ContestInv
<1>2. ASSUME NEW w \in Workers, NEW m \in Modes, Start(w, m) PROVE ContestInv'
  <2>1. held' = held /\ contested' = contested \cup Disputable(m)
    BY <1>2 DEF Start
  <2> QED BY <2>1 DEF ContestInv, Disputable, InMemory
<1>3. ASSUME NEW w \in Workers, Claim(w) PROVE ContestInv'
  <2>1. contested' = contested /\ \E j \in Ids : held' = [held EXCEPT ![w] = j]
    BY <1>3 DEF Claim
  <2>2. held[w] = 0
    BY <1>3 DEF Claim, LedgerInv, Busy
  <2>3. \A j \in contested : j # 0
    BY DEF TypeOK, Ids
  <2> QED BY <2>1, <2>2, <2>3 DEF ContestInv, InMemory, TypeOK
<1>4. ASSUME UNCHANGED <<held, contested>> PROVE ContestInv'
  BY <1>4 DEF ContestInv, InMemory
<1> QED
  BY <1>1, <1>2, <1>3, <1>4
     DEF Next, WorkerStep, Submit, Exit, HandlerReturns, HandlerRaises,
         Complete, CompleteRaises, Fail, Crash, Age, vars

(* Two workers with the same job share a contested one.                    *)
LEMMA OwnersDiffer == HeldIsOwned => OneRunner
BY DEF HeldIsOwned, OneRunner

(* A start that takes a job from somebody's memory makes it contested.     *)
LEMMA RecoveryDisputes ==
  ASSUME NEW m \in Modes, NEW j \in Ids, InMemory(j), j \notin Disputable(m)
  PROVE  j \notin Orphans(m)
BY JobAssumption DEF Disputable, Orphans, With, AllModes

(* A step keeps every uncontested held job owned by its holder.            *)
LEMMA OwnedStep ==
  ASSUME TypeOK, LedgerInv, HeldIsOwned, [Next]_vars
  PROVE  HeldIsOwned'
<1> SUFFICES ASSUME NEW w \in Workers, held'[w] # 0, held'[w] \notin contested'
             PROVE  /\ rows'[held'[w]].status = "running"
                    /\ rows'[held'[w]].worker = w
  BY DEF HeldIsOwned
<1> USE DEF TypeOK
<1>1. held[w] # 0 => /\ held[w] \in Ids
                     /\ rows[held[w]] \in Row
                     /\ rows[held[w]].status # "absent"
                     /\ InMemory(held[w])
  BY JobAssumption DEF LedgerInv, Ids, InMemory
<1>2. held[w] # 0 /\ held[w] \notin contested
        => rows[held[w]].status = "running" /\ rows[held[w]].worker = w
  BY DEF HeldIsOwned
<1> DEFINE OK == /\ rows'[held'[w]].status = "running"
                 /\ rows'[held'[w]].worker = w
<1>3. ASSUME held'[w] = held[w], held[w] \notin contested,
             rows'[held[w]] = rows[held[w]]
      PROVE  OK
  BY <1>2, <1>3
<1>4. ASSUME LetGo, held'[w] = held[w] PROVE held[w] \notin contested
  BY <1>4 DEF LetGo, InMemory
<1>5. ASSUME NEW k \in Kinds, Submit(k) PROVE OK
  <2>1. held[w] # last + 1
    BY <1>5, <1>1, JobAssumption DEF Submit, LedgerInv, Ids
  <2> QED BY <1>1, <1>3, <1>5, <2>1 DEF Submit
<1>6. ASSUME NEW v \in Workers, NEW m \in Modes, Start(v, m) PROVE OK
  <2>1. held' = held /\ contested' = contested \cup Disputable(m)
    BY <1>6 DEF Start
  <2>2. held[w] \notin contested /\ held[w] \notin Orphans(m)
    BY <1>1, <2>1, RecoveryDisputes
  <2>3. rows'[held[w]] = rows[held[w]]
    BY <1>1, <1>6, <2>1, <2>2 DEF Start, Recover
  <2> QED BY <1>3, <2>1, <2>2, <2>3
<1>7. ASSUME NEW v \in Workers, Claim(v) PROVE OK
  <2>1. PICK j \in Ids : /\ IsFirst(j, With("pending"))
                         /\ rows' = [rows EXCEPT ![j] = Claimed(@, v)]
                         /\ held' = [held EXCEPT ![v] = j]
    BY <1>7 DEF Claim
  <2>2. rows[j].status = "pending" /\ contested' = contested
    BY <1>7, <2>1 DEF Claim, IsFirst, With
  <2>3. CASE v = w
    BY <2>1, <2>3, ClaimedRow
  <2>4. CASE v # w
    BY <1>1, <1>2, <1>3, <2>1, <2>2, <2>4
  <2> QED BY <2>3, <2>4
<1>8. ASSUME NEW v \in Workers, Complete(v) \/ Fail(v) PROVE OK
  <2>1. PICK s \in Terminal : Finish(held[v], s)
    BY <1>8 DEF Complete, Fail, Terminal
  <2>2. held' = [held EXCEPT ![v] = 0] /\ held[v] # 0 /\ LetGo
    BY <1>8 DEF Complete, Fail, LedgerInv, Busy
  <2>3. v # w /\ held'[w] = held[w]
    BY <2>2
  <2>4. held[w] \notin contested
    BY <1>4, <2>2, <2>3
  <2>5. held[v] # held[w]
    BY <2>2, <2>3, <2>4, OwnersDiffer DEF OneRunner
  <2>6. rows'[held[w]] = rows[held[w]]
    BY <1>1, <2>1, <2>3, <2>5 DEF Finish
  <2> QED BY <1>3, <2>3, <2>4, <2>6
<1>9. ASSUME NEW v \in Workers, Crash(v) PROVE OK
  <2>1. held'[w] = held[w] /\ LetGo /\ rows' = rows
    BY <1>9 DEF Crash
  <2> QED BY <1>3, <1>4, <2>1
<1>10. ASSUME NEW j \in Ids, Age(j) PROVE OK
  <2>1. held' = held /\ contested' = contested
    BY <1>10 DEF Age
  <2>2. rows[held[w]].status = "running" /\ rows[held[w]].worker = w
    BY <1>2, <2>1
  <2> QED BY <1>1, <1>10, <2>1, <2>2, AgedRow DEF Age
<1>11. ASSUME UNCHANGED <<rows, held, contested>> PROVE OK
  BY <1>3, <1>11
<1> QED
  BY <1>5, <1>6, <1>7, <1>8, <1>9, <1>10, <1>11
     DEF Next, WorkerStep, Exit, HandlerReturns, HandlerRaises,
         CompleteRaises, vars

(* Whatever starts beside whatever, a held job that no recovery has taken  *)
(* from its worker is a running row that names its holder.                 *)
THEOREM OwnedKept == Spec => []HeldIsOwned
<1>1. Init => HeldIsOwned
  BY DEF Init, HeldIsOwned
<1>2. TypeOK /\ LedgerInv /\ HeldIsOwned /\ [Next]_vars => HeldIsOwned'
  BY OwnedStep
<1> QED BY <1>1, <1>2, TypeCorrect, LedgerKept, PTL DEF Spec

(* Two worker processes never run the same job (store.py's module          *)
(* docstring), but for a job that a loop start, or a recovery past the     *)
(* grace window, took from a living worker and that is still held.         *)
THEOREM MutualExclusion == Spec => []OneRunner
<1>1. HeldIsOwned => OneRunner
  BY OwnersDiffer
<1> QED BY <1>1, OwnedKept, PTL

(* The row of a finished job never changes, unless it was taken from a     *)
(* living worker and is still in somebody's memory.                        *)
THEOREM FinalVerdict == Spec => VerdictIsFinal
<1>1. ASSUME TypeOK, LedgerInv, HeldIsOwned, [Next]_vars,
             NEW j \in Ids \ contested, rows[j].status \in Terminal
      PROVE  rows'[j] = rows[j]
  <2>1. /\ j <= last /\ last \in Nat /\ j \in Nat /\ j # 0
    BY <1>1, JobAssumption DEF TypeOK, LedgerInv, Terminal, Ids
  <2>2. ~Submitted(j)
    BY <2>1 DEF Submitted
  <2>3. ~IsFirst(j, With("pending")) /\ rows[j].status # "running"
    BY <1>1 DEF IsFirst, With, Terminal
  <2>4. \A w \in Workers : held[w] # j
    BY <1>1, <2>1, <2>3 DEF HeldIsOwned
  <2> QED BY <1>1, <2>2, <2>3, <2>4, RowChange DEF Change
<1>2. TypeOK /\ LedgerInv /\ HeldIsOwned /\ [Next]_vars
        => [\A j \in Ids \ contested : rows[j].status \in Terminal
                                          => rows'[j] = rows[j]]_vars
  BY <1>1
<1> QED
  BY <1>2, TypeCorrect, LedgerKept, OwnedKept, PTL DEF Spec, VerdictIsFinal

-----------------------------------------------------------------------------
(* The queue implements JobBoard.                                          *)

(* The phases, one by one.                                                 *)
LEMMA Phase ==
  ASSUME NEW j
  PROVE  /\ j \in contested => PhaseOf(j) = "disputed"
         /\ j \notin contested =>
              /\ rows[j].status = "absent" => PhaseOf(j) = "blank"
              /\ rows[j].status = "pending" => PhaseOf(j) = "waiting"
              /\ rows[j].status \in Terminal => PhaseOf(j) = "ended"
              /\ rows[j].status = "running" =>
                   PhaseOf(j) = IF InMemory(j) THEN "working" ELSE "lost"
BY DEF PhaseOf, Terminal

(* The same after a step.                                                  *)
LEMMA PhasePrimed ==
  ASSUME NEW j
  PROVE  /\ j \in contested' => PhaseOf(j)' = "disputed"
         /\ j \notin contested' =>
              /\ rows'[j].status = "absent" => PhaseOf(j)' = "blank"
              /\ rows'[j].status = "pending" => PhaseOf(j)' = "waiting"
              /\ rows'[j].status \in Terminal => PhaseOf(j)' = "ended"
              /\ rows'[j].status = "running" =>
                   PhaseOf(j)' = IF InMemory(j)' THEN "working" ELSE "lost"
BY DEF PhaseOf, Terminal

(* What makes a card the same before and after a step.                     *)
LEMMA SameCard ==
  ASSUME NEW j \in Ids, rows[j].status \in Statuses,
         rows'[j].status = rows[j].status, rows'[j].attempts = rows[j].attempts,
         j \in contested' <=> j \in contested, InMemory(j)' <=> InMemory(j)
  PROVE  cardBar'[j] = cardBar[j]
<1>1. PhaseOf(j)' = PhaseOf(j)
  BY Phase, PhasePrimed DEF Statuses, Terminal
<1> QED BY <1>1 DEF cardBar

(* A step that changes one card.                                           *)
LEMMA OneCard ==
  ASSUME NEW i \in Ids, NEW c, cardBar'[i] = c,
         \A j \in Ids \ {i} : cardBar'[j] = cardBar[j]
  PROVE  cardBar' = [cardBar EXCEPT ![i] = c]
<1>1. /\ cardBar' = [j \in Ids |-> cardBar'[j]]
      /\ cardBar = [j \in Ids |-> cardBar[j]]
  BY DEF cardBar
<1> QED BY <1>1

(* A worker drops the job it has in memory, and its row may change: only   *)
(* that card may.                                                          *)
LEMMA DropCard ==
  ASSUME TypeOK, ContestInv, NEW w \in Workers, NEW i \in Ids, held[w] = i,
         held' = [held EXCEPT ![w] = 0], LetGo,
         \A j \in Ids \ {i} : rows'[j] = rows[j]
  PROVE  /\ \A j \in Ids \ {i} : cardBar'[j] = cardBar[j]
         /\ i \in contested' <=> i \in contested /\ InMemory(i)'
<1>1. ASSUME NEW j \in Ids \ {i} PROVE cardBar'[j] = cardBar[j]
  <2>1. j # 0 /\ rows[j].status \in Statuses
    BY DEF Ids, TypeOK, Row
  <2>2. InMemory(j)' <=> InMemory(j)
    BY <2>1 DEF InMemory, TypeOK
  <2>3. j \in contested' <=> j \in contested
    BY <2>2 DEF LetGo, ContestInv
  <2> QED BY <2>1, <2>2, <2>3, SameCard
<1>2. i \in contested' <=> i \in contested /\ InMemory(i)'
  BY DEF LetGo
<1> QED BY <1>1, <1>2

(* Every step of the queue is a step of the board or a stutter.            *)
LEMMA BoardStep ==
  ASSUME TypeOK, LedgerInv, AttemptsBounded, HeldIsOwned, ContestInv, [Next]_vars
  PROVE  [Board!Next]_cardBar
<1>0. /\ cardBar = [j \in Ids |-> cardBar[j]]
      /\ cardBar' = [j \in Ids |-> cardBar'[j]]
      /\ \A j \in Ids : rows[j].status \in Statuses
      /\ \A j \in Ids : cardBar[j] = [phase |-> PhaseOf(j),
                                      tries |-> rows[j].attempts]
      /\ \A j \in Ids : cardBar'[j] = [phase |-> PhaseOf(j)',
                                       tries |-> rows'[j].attempts]
  BY DEF cardBar, TypeOK, Row
<1>1. ASSUME NEW k \in Kinds, Submit(k) PROVE Board!Next
  <2>0. PICK i \in Ids : i = last + 1
    BY <1>1, JobAssumption DEF Submit, Ids, TypeOK
  <2>1. /\ rows[i].status = "absent" /\ rows[i].attempts = 0
        /\ rows'[i] = Fresh(k) /\ held' = held /\ contested' = contested
        /\ \A j \in Ids \ {i} : rows'[j] = rows[j]
    BY <1>1, <2>0, JobAssumption DEF Submit, LedgerInv, Ids, TypeOK
  <2>2. ~ InMemory(i)
    BY <2>1 DEF InMemory, LedgerInv, Ids
  <2>3. i \notin contested
    BY <2>2 DEF ContestInv
  <2>4. cardBar[i].phase = "blank" /\ cardBar[i].tries = 0
    BY <1>0, <2>1, <2>3, Phase, PhasePrimed
  <2>5. cardBar'[i] = [cardBar[i] EXCEPT !.phase = "waiting"]
    <3>1. PhaseOf(i)' = "waiting" /\ rows'[i].attempts = 0
      BY <2>1, <2>3, FreshRow, Phase, PhasePrimed
    <3> QED BY <1>0, <2>1, <3>1
  <2>6. \A j \in Ids \ {i} : cardBar'[j] = cardBar[j]
    BY <2>1, <1>0, SameCard DEF InMemory
  <2>7. Board!Post(i)
    BY <2>1, <2>4, <2>5, <2>6, OneCard DEF Board!Post
  <2> QED BY <2>1, <2>7 DEF Board!Next
<1>2. ASSUME NEW w \in Workers, NEW m \in Modes, Start(w, m) PROVE Board!Next
  <2> DEFINE S == Orphans(m)
  <2>1. /\ S \subseteq Ids /\ \A j \in S : rows[j].status = "running"
    BY DEF Orphans, With
  <2>2. /\ rows' = [j \in Ids |-> IF j \in S THEN Rescued(rows[j]) ELSE rows[j]]
        /\ held' = held /\ contested' = contested \cup Disputable(m)
    BY <1>2 DEF Start, Recover
  <2>3. \A j \in Ids : InMemory(j)' <=> InMemory(j)
    BY <2>2 DEF InMemory
  <2> HIDE DEF S
  <2>4. ASSUME NEW j \in S
        PROVE  /\ cardBar[j].phase \in {"working", "lost", "disputed"}
               /\ cardBar'[j] = Board!Swept(cardBar[j])
    <3>1. /\ j \in Ids /\ rows[j] \in Row /\ rows[j].status = "running"
          /\ rows'[j] = Rescued(rows[j])
      BY <2>1, <2>2 DEF TypeOK
    <3>2. /\ rows'[j].attempts = rows[j].attempts
          /\ rows[j].attempts < MaxAttempts => rows'[j].status = "pending"
          /\ ~(rows[j].attempts < MaxAttempts) => rows'[j].status = "failed"
      BY <3>1, RescuedRow
    <3>3. CASE InMemory(j)
      <4>1. j \in contested'
        BY <2>2, <3>1, <3>3, RecoveryDisputes DEF S
      <4>2. PhaseOf(j) \in {"working", "disputed"}
        BY <3>1, <3>3, Phase, PhasePrimed DEF Terminal
      <4>3. PhaseOf(j)' = "disputed"
        BY <4>1, Phase, PhasePrimed
      <4> QED BY <1>0, <3>1, <3>2, <4>2, <4>3 DEF Board!Swept, Board!Returned
    <3>4. CASE ~ InMemory(j)
      <4>1. j \notin contested /\ j \notin contested'
        BY <2>2, <3>4 DEF ContestInv, Disputable
      <4>2. PhaseOf(j) = "lost"
        BY <3>1, <3>4, <4>1, Phase, PhasePrimed DEF Terminal
      <4>3. PhaseOf(j)' = IF rows[j].attempts < MaxAttempts THEN "waiting"
                                                           ELSE "ended"
        BY <3>2, <4>1, Phase, PhasePrimed DEF Terminal
      <4> QED BY <1>0, <3>1, <3>2, <4>2, <4>3 DEF Board!Swept, Board!Returned
    <3> QED BY <3>3, <3>4
  <2>5. ASSUME NEW j \in Ids \ S PROVE cardBar'[j] = cardBar[j]
    <3>1. rows'[j] = rows[j]
      BY <2>2
    <3>2. j \in Disputable(m) => j \in contested
      <4>1. SUFFICES ASSUME j \in Disputable(m), j \notin contested PROVE FALSE
        OBVIOUS
      <4>2. PICK v \in Workers : held[v] = j
        BY <4>1 DEF Disputable, InMemory
      <4>3. rows[j].status = "running"
        BY <4>1, <4>2 DEF HeldIsOwned, Ids
      <4>4. m = "loop" \/ (m = "once_recover" /\ rows[j].started = "stale")
        BY <4>1 DEF Disputable
      <4> QED BY <4>3, <4>4 DEF Orphans, With, S
    <3> QED BY <2>2, <2>3, <3>1, <3>2, <1>0, SameCard
  <2>6. Board!Sweep(S)
    <3>1. \A j \in Ids : cardBar'[j] = IF j \in S THEN Board!Swept(cardBar[j])
                                                  ELSE cardBar[j]
      BY <2>4, <2>5
    <3>2. cardBar' = [j \in Ids |-> IF j \in S THEN Board!Swept(cardBar[j])
                                               ELSE cardBar[j]]
      BY <1>0, <3>1
    <3> QED BY <2>4, <3>2 DEF Board!Sweep
  <2> QED BY <2>1, <2>6 DEF Board!Next, S
<1>3. ASSUME NEW w \in Workers, Claim(w) PROVE Board!Next
  <2>1. PICK i \in Ids : /\ IsFirst(i, With("pending"))
                         /\ rows' = [rows EXCEPT ![i] = Claimed(@, w)]
                         /\ held' = [held EXCEPT ![w] = i]
    BY <1>3 DEF Claim
  <2>2. /\ rows[i] \in Row /\ rows[i].status = "pending"
        /\ rows[i].attempts < MaxAttempts /\ contested' = contested
    BY <1>3, <2>1 DEF Claim, IsFirst, With, TypeOK, AttemptsBounded
  <2>3. /\ rows'[i].status = "running"
        /\ rows'[i].attempts = rows[i].attempts + 1 /\ InMemory(i)'
    BY <2>1, <2>2, ClaimedRow DEF TypeOK, InMemory
  <2>4. ASSUME NEW j \in Ids \ {i} PROVE cardBar'[j] = cardBar[j]
    <3>1. held[w] = 0 /\ j # 0
      BY <1>3 DEF Claim, LedgerInv, Busy, Ids
    <3>2. InMemory(j)' <=> InMemory(j)
      BY <2>1, <3>1 DEF InMemory, TypeOK
    <3> QED BY <2>1, <2>2, <3>2, <1>0, SameCard DEF TypeOK
  <2>5. CASE i \in contested
    <3>1. PhaseOf(i) = "disputed" /\ PhaseOf(i)' = "disputed"
      BY <2>2, <2>5, Phase, PhasePrimed
    <3>2. cardBar'[i] = Board!Try(cardBar[i], "disputed")
      BY <1>0, <2>3, <3>1 DEF Board!Try
    <3>3. Board!Join(i)
      BY <1>0, <2>2, <2>4, <3>1, <3>2, OneCard DEF Board!Join
    <3> QED BY <3>3 DEF Board!Next
  <2>6. CASE i \notin contested
    <3>1. PhaseOf(i) = "waiting" /\ PhaseOf(i)' = "working"
      BY <2>2, <2>3, <2>6, Phase, PhasePrimed DEF Terminal
    <3>2. cardBar'[i] = Board!Try(cardBar[i], "working")
      BY <1>0, <2>3, <3>1 DEF Board!Try
    <3>3. Board!Begin(i)
      BY <1>0, <2>2, <2>4, <3>1, <3>2, OneCard DEF Board!Begin
    <3> QED BY <3>3 DEF Board!Next
  <2> QED BY <2>5, <2>6
<1>4. ASSUME NEW i \in Ids, i \in contested, cardBar'[i].tries = cardBar[i].tries,
             \/ i \in contested'
             \/ PhaseOf(i)' \in {"waiting", "lost", "ended"},
             \A j \in Ids \ {i} : cardBar'[j] = cardBar[j]
      PROVE  [Board!Next]_cardBar
  <2>1. PhaseOf(i) = "disputed" /\ cardBar[i].phase = "disputed"
    BY <1>0, <1>4, Phase, PhasePrimed
  <2>2. cardBar'[i] = [cardBar[i] EXCEPT !.phase = PhaseOf(i)']
    BY <1>0, <1>4
  <2>3. CASE i \in contested'
    <3>1. PhaseOf(i)' = "disputed"
      BY <2>3, Phase, PhasePrimed
    <3>2. cardBar'[i] = cardBar[i]
      BY <1>0, <1>4, <2>1, <3>1
    <3> QED BY <1>0, <1>4, <3>2
  <2>4. CASE PhaseOf(i)' \in {"waiting", "lost", "ended"}
    <3>1. Board!Settle(i)
      BY <1>4, <2>1, <2>2, <2>4, OneCard DEF Board!Settle
    <3> QED BY <3>1 DEF Board!Next
  <2> QED BY <1>4, <2>3, <2>4
<1>5. ASSUME NEW w \in Workers, Complete(w) \/ Fail(w)
      PROVE  [Board!Next]_cardBar
  <2>1. PICK s \in Terminal : Finish(held[w], s)
    BY <1>5 DEF Complete, Fail, Terminal
  <2>2. held' = [held EXCEPT ![w] = 0] /\ held[w] # 0 /\ LetGo
    BY <1>5 DEF Complete, Fail, LedgerInv, Busy
  <2>3. PICK i \in Ids : i = held[w]
    BY <2>2, JobAssumption DEF TypeOK, Ids
  <2>4. /\ rows[i] \in Row /\ rows'[i] = Finished(rows[i], s)
        /\ \A j \in Ids \ {i} : rows'[j] = rows[j]
    BY <2>1, <2>3 DEF Finish, TypeOK
  <2>5. rows'[i].status \in Terminal /\ rows'[i].attempts = rows[i].attempts
    BY <2>4, FinishedRow
  <2>6. /\ \A j \in Ids \ {i} : cardBar'[j] = cardBar[j]
        /\ i \in contested' => i \in contested
    BY <2>2, <2>3, <2>4, DropCard
  <2>7. i \notin contested' => PhaseOf(i)' = "ended"
    BY <2>5, Phase, PhasePrimed DEF Terminal
  <2>8. CASE i \in contested
    BY <1>0, <1>4, <2>5, <2>6, <2>7, <2>8
  <2>9. CASE i \notin contested
    <3>1. rows[i].status = "running" /\ InMemory(i)
      BY <2>2, <2>3, <2>9 DEF HeldIsOwned, InMemory
    <3>2. PhaseOf(i) = "working" /\ PhaseOf(i)' = "ended"
      BY <2>6, <2>7, <2>9, <3>1, Phase, PhasePrimed DEF Terminal
    <3>3. cardBar'[i] = [cardBar[i] EXCEPT !.phase = "ended"]
      BY <1>0, <2>5, <3>2
    <3>4. Board!End(i)
      BY <1>0, <2>6, <3>2, <3>3, OneCard DEF Board!End
    <3> QED BY <3>4 DEF Board!Next
  <2> QED BY <2>8, <2>9
<1>6. ASSUME NEW w \in Workers, Crash(w), held[w] # 0
      PROVE  [Board!Next]_cardBar
  <2>1. held' = [held EXCEPT ![w] = 0] /\ LetGo /\ rows' = rows
    BY <1>6 DEF Crash
  <2>2. PICK i \in Ids : i = held[w]
    BY <1>6, JobAssumption DEF TypeOK, Ids
  <2>3. rows[i] \in Row /\ rows[i].status \in {"pending", "running"} \cup Terminal
    BY <1>0, <1>6, <2>2 DEF TypeOK, LedgerInv, Statuses, Terminal
  <2>4. /\ \A j \in Ids \ {i} : cardBar'[j] = cardBar[j]
        /\ i \in contested' <=> i \in contested /\ InMemory(i)'
    BY <1>6, <2>1, <2>2, DropCard
  <2>5. CASE i \in contested
    <3>1. i \notin contested' => PhaseOf(i)' \in {"waiting", "lost", "ended"}
      BY <2>1, <2>3, <2>4, <2>5, Phase, PhasePrimed
    <3> QED BY <1>0, <1>4, <2>1, <2>4, <2>5, <3>1
  <2>6. CASE i \notin contested
    <3>1. rows[i].status = "running" /\ InMemory(i)
      BY <1>6, <2>2, <2>6 DEF HeldIsOwned, InMemory
    <3>2. ~ InMemory(i)'
      <4>1. \A v \in Workers : v # w => held[v] # i
        BY <1>6, <2>2, <2>6, OwnersDiffer DEF OneRunner
      <4>2. i # 0
        BY <1>6, <2>2
      <4> QED BY <2>1, <4>1, <4>2 DEF InMemory, TypeOK
    <3>3. PhaseOf(i) = "working" /\ PhaseOf(i)' = "lost"
      BY <2>1, <2>4, <2>6, <3>1, <3>2, Phase, PhasePrimed DEF Terminal
    <3>4. cardBar'[i] = [cardBar[i] EXCEPT !.phase = "lost"]
      BY <1>0, <2>1, <3>3
    <3>5. Board!Lose(i)
      BY <1>0, <2>4, <3>3, <3>4, OneCard DEF Board!Lose
    <3> QED BY <3>5 DEF Board!Next
  <2> QED BY <2>5, <2>6
<1>7. ASSUME NEW j \in Ids, Age(j) PROVE UNCHANGED cardBar
  <2>1. /\ held' = held /\ contested' = contested
        /\ rows' = [rows EXCEPT ![j] = Aged(@)]
    BY <1>7 DEF Age
  <2>2. \A i \in Ids : rows'[i].status = rows[i].status
                       /\ rows'[i].attempts = rows[i].attempts
    BY <2>1, AgedRow DEF TypeOK
  <2>3. \A i \in Ids : cardBar'[i] = cardBar[i]
    BY <2>1, <2>2, <1>0, SameCard DEF InMemory
  <2> QED BY <1>0, <2>3
<1>8. ASSUME UNCHANGED rows, \A v \in Workers : held'[v] = held[v],
             contested' = contested
      PROVE  UNCHANGED cardBar
  <2>1. \A i \in Ids : cardBar'[i] = cardBar[i]
    BY <1>8, <1>0, SameCard DEF InMemory
  <2> QED BY <1>0, <2>1
<1>9. ASSUME NEW w \in Workers, Crash(w), held[w] = 0
      PROVE  UNCHANGED cardBar
  <2>1. rows' = rows /\ \A v \in Workers : held'[v] = held[v]
    BY <1>9 DEF Crash, TypeOK
  <2>2. contested' = contested
    BY <1>9, <2>1 DEF Crash, LetGo, ContestInv, InMemory
  <2> QED BY <1>8, <2>1, <2>2
<1> QED
  BY <1>1, <1>2, <1>3, <1>5, <1>6, <1>7, <1>8, <1>9
     DEF Next, WorkerStep, Exit, HandlerReturns, HandlerRaises,
         CompleteRaises, vars

(* What a poller sees of the queue is a JobBoard, whatever starts beside   *)
(* whatever: one party at a time per job, an end that is final, work that  *)
(* is lost with its worker back in the line while it has tries left, and   *)
(* a dispute only over work that a sweep took from a living worker.        *)
THEOREM ImplementsBoard == Spec => BoardSpec
<1>1. Init => Board!Init /\ ContestInv
  BY DEF Init, Board!Init, Board!Blank, cardBar, PhaseOf, NoRow, ContestInv
<1>2. TypeOK /\ LedgerInv /\ ContestInv /\ [Next]_vars => ContestInv'
  BY ContestStep
<1>3. TypeOK /\ LedgerInv /\ AttemptsBounded /\ HeldIsOwned /\ ContestInv
        /\ [Next]_vars => [Board!Next]_cardBar
  BY BoardStep
<1> QED
  BY <1>1, <1>2, <1>3, TypeCorrect, LedgerKept, NoPoisonLoop, OwnedKept, PTL
     DEF Spec, BoardSpec, Board!Spec
=============================================================================
