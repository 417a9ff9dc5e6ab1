------------------------------ MODULE JobQueue ------------------------------
(***************************************************************************)
(* packages/rtime-jobs: the SQLite job queue (store.py), the worker that   *)
(* drains it (runner.py) and the processes that run the worker             *)
(* (cli.py `worker`, deploy/bin/rtime-jobs-worker).                        *)
(*                                                                         *)
(* Every store method is one BEGIN IMMEDIATE transaction or one autocommit *)
(* UPDATE, so each is one action.  Between two of them a worker process    *)
(* only has memory: the job it claimed and how far it is with it.          *)
(*                                                                         *)
(* Nothing keeps a recovering worker from starting beside a living one (a  *)
(* cron --once beside the systemd loop, a second loop), and recovery knows *)
(* the table, not the processes.  contested is a history variable that     *)
(* says which jobs this has made two parties' business.                    *)
(*                                                                         *)
(* Left out: params beyond their identity, results and messages beyond     *)
(* "the column is set", created_at and finished_at, and clock values:      *)
(* a row's started_at is only "recent" or "stale" relative to the grace    *)
(* window of --recover-stale-seconds.                                      *)
(***************************************************************************)
EXTENDS Naturals, FiniteSets

CONSTANTS
  Workers,      \* worker processes (process slots: a restart reuses one)
  Kinds,        \* distinct (type, canonical params) pairs
  MaxJobs,      \* bound: rows ever inserted
  MaxAttempts,  \* --max-attempts, the same for every worker
  Modes,        \* ways workers are launched: subset of AllModes
  NoWorker      \* SQL NULL in the worker column

(* "loop" is worker_loop, "once" is --once, and "once_recover" is --once   *)
(* with --recover-stale-seconds.                                           *)
AllModes == {"loop", "once", "once_recover"}

ASSUME JobAssumption ==
  /\ MaxJobs \in Nat
  /\ MaxAttempts \in Nat \ {0}
  /\ Modes \subseteq AllModes
  /\ NoWorker \notin Workers

Ids      == 1 .. MaxJobs
Statuses == {"absent", "pending", "running", "succeeded", "failed"}
Terminal == {"succeeded", "failed"}

VARIABLES
  rows,     \* the jobs table, by rowid ("absent": not inserted yet)
  last,     \* the greatest rowid handed out
  pc,       \* where each worker process is
  loops,    \* the living worker processes that run worker_loop
  held,     \* the job a worker has in memory, 0 when none
  contested \* history: jobs that recovery took from a living worker, until
            \* the last worker that has such a job in memory lets go of it

vars == <<rows, last, pc, loops, held, contested>>

(* A nullable column, as far as it matters.                                *)
Column == {"null", "set"}

Row == [status : Statuses, kind : Kinds \cup {"none"}, attempts : Nat,
        worker : Workers \cup {NoWorker},
        started : {"null", "recent", "stale"},
        result : Column, error : Column]

NoRow == [status |-> "absent", kind |-> "none", attempts |-> 0,
          worker |-> NoWorker, started |-> "null",
          result |-> "null", error |-> "null"]

Busy == {"run", "complete", "fail"}
PCs  == Busy \cup {"off", "drain"}

TypeOK ==
  /\ rows \in [Ids -> Row]
  /\ last \in 0 .. MaxJobs
  /\ pc \in [Workers -> PCs]
  /\ loops \subseteq Workers
  /\ held \in [Workers -> 0 .. MaxJobs]
  /\ contested \subseteq Ids

Init ==
  /\ rows = [j \in Ids |-> NoRow]
  /\ last = 0
  /\ pc = [w \in Workers |-> "off"]
  /\ loops = {}
  /\ held = [w \in Workers |-> 0]
  /\ contested = {}

With(s) == {j \in Ids : rows[j].status = s}

(* Wrong variant: LIFO.                                                    *)
IsNewest(j, S) == j \in S /\ \A i \in S : j >= i

IsFirst(j, S) == j \in S /\ \A i \in S : j <= i

-----------------------------------------------------------------------------
(* The store.                                                              *)

Fresh(k) == [NoRow EXCEPT !.status = "pending", !.kind = k]

(* Wrong variant of Submit: no look for an identical pending row.          *)
SubmitNoDedup(k) ==
  /\ last < MaxJobs
  /\ last' = last + 1
  /\ rows' = [rows EXCEPT ![last + 1] = Fresh(k)]
  /\ UNCHANGED <<pc, loops, held, contested>>

(* submit: a pending row of the same type and params is returned as it is, *)
(* otherwise a fresh row is appended.                                      *)
Submit(k) ==
  /\ ~ \E j \in With("pending") : rows[j].kind = k
  /\ last < MaxJobs
  /\ last' = last + 1
  /\ rows' = [rows EXCEPT ![last + 1] = Fresh(k)]
  /\ UNCHANGED <<pc, loops, held, contested>>

(* Wrong variants of Orphans: recovery on every start, by worker column    *)
(* instead of status, and never.                                           *)
OrphansAlways(m)    == With("running")
OrphansByWorker(m)  == {j \in Ids : rows[j].worker # NoWorker}
OrphansNever(m)     == {}

(* recover_stale_running: which running rows a launch mode rescues, and    *)
(* what a rescued row becomes.                                             *)
Orphans(m) ==
  CASE m = "loop"         -> With("running")
    [] m = "once_recover" -> {j \in With("running") : rows[j].started = "stale"}
    [] OTHER              -> {}

(* Wrong variant of Rescued: one try too many.                             *)
RescuedOffByOne(r) ==
  IF r.attempts <= MaxAttempts
  THEN [r EXCEPT !.status = "pending", !.worker = NoWorker, !.started = "null"]
  ELSE [r EXCEPT !.status = "failed", !.error = "set"]

Rescued(r) ==
  IF r.attempts < MaxAttempts
  THEN [r EXCEPT !.status = "pending", !.worker = NoWorker, !.started = "null"]
  ELSE [r EXCEPT !.status = "failed", !.error = "set"]

Recover(m) ==
  rows' = [j \in Ids |-> IF j \in Orphans(m) THEN Rescued(rows[j]) ELSE rows[j]]

(* _finish: UPDATE ... WHERE id=?, whatever the row's status and worker.   *)
Finished(r, s) ==
  IF s = "succeeded"
  THEN [r EXCEPT !.status = s, !.result = "set", !.error = "null"]
  ELSE [r EXCEPT !.status = s, !.result = "null", !.error = "set"]

Finish(j, s) == rows' = [rows EXCEPT ![j] = Finished(@, s)]

(* The UPDATE of claim_next.                                               *)
Claimed(r, w) ==
  [r EXCEPT !.status = "running", !.started = "recent", !.attempts = @ + 1,
            !.worker = w]

-----------------------------------------------------------------------------
(* A worker process.                                                       *)

Alive(w) == pc[w] # "off"

InMemory(j) == \E v \in Workers : held[v] = j

(* What a launch may take from a living worker: a loop start everything, a *)
(* --once run with --recover-stale-seconds what has outlived the grace     *)
(* window ("a job a concurrent worker is genuinely running is left         *)
(* alone"), a plain --once run nothing.                                    *)
Disputable(m) ==
  {j \in Ids : /\ InMemory(j)
               /\ m = "loop" \/ (m = "once_recover" /\ rows[j].started = "stale")}

(* A contest lasts as long as someone has the job in memory.               *)
LetGo == contested' = {j \in contested : InMemory(j)'}

(* The process starts; its first store call is the recovery.               *)
Start(w, m) ==
  /\ pc[w] = "off"
  /\ Recover(m)
  /\ contested' = contested \cup Disputable(m)
  /\ pc' = [pc EXCEPT ![w] = "drain"]
  /\ loops' = IF m = "loop" THEN loops \cup {w} ELSE loops
  /\ UNCHANGED <<last, held>>

(* claim_next: the oldest pending row becomes this worker's.               *)
Claim(w) ==
  /\ pc[w] = "drain"
  /\ \E j \in Ids :
       /\ IsFirst(j, With("pending"))
       /\ rows' = [rows EXCEPT ![j] = Claimed(@, w)]
       /\ held' = [held EXCEPT ![w] = j]
  /\ pc' = [pc EXCEPT ![w] = "run"]
  /\ UNCHANGED <<last, loops, contested>>

(* The process leaves between two jobs: the queue is empty (a drain ends,  *)
(* a loop has idled out) or a --once run reached --max.                    *)
Exit(w) ==
  /\ pc[w] = "drain"
  /\ w \in loops => With("pending") = {}
  /\ pc' = [pc EXCEPT ![w] = "off"]
  /\ loops' = loops \ {w}
  /\ UNCHANGED <<rows, last, held, contested>>

(* The handler returns, or raises, or there is none for the type.          *)
HandlerReturns(w) ==
  /\ pc[w] = "run"
  /\ pc' = [pc EXCEPT ![w] = "complete"]
  /\ UNCHANGED <<rows, last, loops, held, contested>>

HandlerRaises(w) ==
  /\ pc[w] = "run"
  /\ pc' = [pc EXCEPT ![w] = "fail"]
  /\ UNCHANGED <<rows, last, loops, held, contested>>

(* store.complete succeeds, or raises into the handler's except clause.    *)
Complete(w) ==
  /\ pc[w] = "complete"
  /\ Finish(held[w], "succeeded")
  /\ held' = [held EXCEPT ![w] = 0]
  /\ LetGo
  /\ pc' = [pc EXCEPT ![w] = "drain"]
  /\ UNCHANGED <<last, loops>>

CompleteRaises(w) ==
  /\ pc[w] = "complete"
  /\ pc' = [pc EXCEPT ![w] = "fail"]
  /\ UNCHANGED <<rows, last, loops, held, contested>>

Fail(w) ==
  /\ pc[w] = "fail"
  /\ Finish(held[w], "failed")
  /\ held' = [held EXCEPT ![w] = 0]
  /\ LetGo
  /\ pc' = [pc EXCEPT ![w] = "drain"]
  /\ UNCHANGED <<last, loops>>

(* The process dies anywhere (kill, OOM, or store.fail raising): its       *)
(* memory is gone, the table stays.                                        *)
Crash(w) ==
  /\ Alive(w)
  /\ pc' = [pc EXCEPT ![w] = "off"]
  /\ held' = [held EXCEPT ![w] = 0]
  /\ loops' = loops \ {w}
  /\ LetGo
  /\ UNCHANGED <<rows, last>>

Aged(r) == [r EXCEPT !.started = "stale"]

(* Time passes: a running row gets older than the grace window, whether or *)
(* not its worker is still busy with it.                                   *)
Age(j) ==
  /\ rows[j].status = "running"
  /\ rows[j].started = "recent"
  /\ rows' = [rows EXCEPT ![j] = Aged(@)]
  /\ UNCHANGED <<last, pc, loops, held, contested>>

WorkerStep(w) ==
  \/ \E m \in Modes : Start(w, m)
  \/ Claim(w) \/ Exit(w)
  \/ HandlerReturns(w) \/ HandlerRaises(w)
  \/ Complete(w) \/ CompleteRaises(w) \/ Fail(w)
  \/ Crash(w)

Next ==
  \/ \E k \in Kinds : Submit(k)
  \/ \E w \in Workers : WorkerStep(w)
  \/ \E j \in Ids : Age(j)

Spec == Init /\ [][Next]_vars

(* The loop worker leaves when it has been idle for --idle-exit and is     *)
(* restarted when it is gone (systemd), a one-shot run ends, handlers      *)
(* return (their subprocesses have timeouts) and a process that is not     *)
(* killed runs on.  Claims get strong fairness: a worker may die before    *)
(* its first claim, but not every worker for ever.                         *)
Fairness ==
  /\ WF_vars(loops = {} /\ \E w \in Workers : Start(w, "loop"))
  /\ SF_vars(\E w \in Workers : Claim(w))
  /\ \A w \in Workers :
       /\ WF_vars(Exit(w))
       /\ WF_vars(HandlerReturns(w) \/ HandlerRaises(w))
       /\ WF_vars(Complete(w) \/ CompleteRaises(w))
       /\ WF_vars(Fail(w))

FairSpec == Spec /\ Fairness

-----------------------------------------------------------------------------
(* Properties.                                                             *)

(* Two worker processes are at work on the same job only if a recovering   *)
(* start took it from a living worker, and only until they have let go of  *)
(* it: never through the claim (store.py:4, "two worker processes never    *)
(* run the same job"), never by a plain --once run, and never inside the   *)
(* grace window of --recover-stale-seconds.                                *)
OneRunner ==
  \A v, w \in Workers :
    v # w /\ held[v] # 0 /\ held[v] = held[w] => held[v] \in contested

(* What keeps OneRunner: an uncontested job in a worker's memory is a      *)
(* running row that names this worker.                                     *)
HeldIsOwned ==
  \A w \in Workers : held[w] # 0 /\ held[w] \notin contested =>
                       /\ rows[held[w]].status = "running"
                       /\ rows[held[w]].worker = w

(* A poison job cannot loop: crash after crash, a job is never tried more  *)
(* than MaxAttempts times, and a pending one has a try left.               *)
AttemptsBounded ==
  \A j \in Ids : /\ rows[j].attempts <= MaxAttempts
                 /\ rows[j].status = "pending" => rows[j].attempts < MaxAttempts

(* Dedup: behind a row that waits for its first try, no later row asks for *)
(* the same work.  (A requeued row may: submit does not look at running.)  *)
DedupHolds ==
  \A i, j \in Ids :
    /\ i < j
    /\ rows[i].status = "pending" /\ rows[i].attempts = 0
    /\ rows[j].status # "absent"
    => rows[i].kind # rows[j].kind

(* FIFO over the whole history: a job is never tried before every earlier  *)
(* job has been tried.                                                     *)
FirstTriesInOrder ==
  \A i, j \in Ids : i < j /\ rows[j].attempts > 0 => rows[i].attempts > 0

(* "Exactly one of result and error is set once the job reaches a terminal *)
(* status" (schema.py), and neither before, through requeues, give-ups and *)
(* late finishers.                                                         *)
OneOutcome ==
  \A j \in Ids : IF rows[j].status \in Terminal
                 THEN rows[j].result # rows[j].error
                 ELSE rows[j].result = "null" /\ rows[j].error = "null"

(* A finished job is never queued or run again.                            *)
NeverReopened ==
  [][\A j \in Ids : rows[j].status \in Terminal => rows'[j].status \in Terminal]_vars

(* The verdict a poller has read for a finished job is final, unless the   *)
(* job was taken from a living worker and someone still has it in memory,  *)
(* who may overwrite it.                                                   *)
VerdictIsFinal ==
  [][\A j \in Ids \ contested : rows[j].status \in Terminal
                                  => rows'[j] = rows[j]]_vars

(* Once the one-shot runs cease, so that only loop workers live, every     *)
(* submitted job reaches a terminal status, however often a loop dies      *)
(* inside its handler and however often two loops take each other's job.   *)
(* (What a one-shot run left behind waits for the loop's next start;       *)
(* without --idle-exit it may wait for ever.)                              *)
OnlyLoops == \A w \in Workers : Alive(w) => w \in loops

EveryJobEnds ==
  <>[]OnlyLoops =>
    \A j \in Ids : rows[j].status = "pending" ~> rows[j].status \in Terminal

(* The strengthening behind the invariants above: rowids are handed out in *)
(* order and never reused, a row that was ever claimed shows it in its     *)
(* attempts, and a worker has a job in memory exactly while it works.      *)
LedgerInv ==
  /\ \A j \in Ids :
       /\ rows[j].status = "absent" <=> j > last
       /\ rows[j].status = "absent" => rows[j].attempts = 0
       /\ rows[j].status \notin {"absent", "pending"} => rows[j].attempts > 0
  /\ \A w \in Workers :
       /\ held[w] # 0 <=> pc[w] \in Busy
       /\ held[w] # 0 => /\ rows[held[w]].status # "absent"
                         /\ rows[held[w]].attempts > 0

(* The queue implements the board.                                         *)
PhaseOf(j) ==
  IF j \in contested THEN "disputed"
  ELSE CASE rows[j].status = "absent"  -> "blank"
         [] rows[j].status = "pending" -> "waiting"
         [] rows[j].status = "running" -> IF InMemory(j) THEN "working" ELSE "lost"
         [] OTHER                      -> "ended"

cardBar == [j \in Ids |-> [phase |-> PhaseOf(j), tries |-> rows[j].attempts]]

Board == INSTANCE JobBoard WITH card <- cardBar, MaxTries <- MaxAttempts

BoardSpec == Board!Spec
=============================================================================
