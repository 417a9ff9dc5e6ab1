------------------------------ MODULE JobBoard ------------------------------
(***************************************************************************)
(* What the job queue promises a submitter, with the claims and the        *)
(* database left out: the life of each job                                 *)
(*                                                                         *)
(*     waiting -> working -> ended          (schema.py, "Status lifecycle")*)
(*                                                                         *)
(* with two exceptions.  Work is lost with its worker; a sweep puts lost   *)
(* work back to waiting while the job has tries left and ends it           *)
(* otherwise.  And a sweep may take work from a worker that lives: then    *)
(* the job is disputed until all who work on it are through, and only its  *)
(* tries are certain.                                                      *)
(***************************************************************************)
EXTENDS Naturals

CONSTANTS Ids,        \* identities of the jobs
          MaxTries    \* tries a job has before a sweep ends it

VARIABLE card         \* card[j] is the public state of job j

Blank   == [phase |-> "blank", tries |-> 0]
Phases  == {"blank", "waiting", "working", "lost", "disputed", "ended"}

BoardTypeOK == card \in [Ids -> [phase : Phases, tries : Nat]]

Init == card = [j \in Ids |-> Blank]

(* A submitter posts a job.                                                *)
Post(j) == /\ card[j].phase = "blank"
           /\ card' = [card EXCEPT ![j].phase = "waiting"]

Try(c, p) == [phase |-> p, tries |-> c.tries + 1]

(* Exactly one party takes a waiting job, which costs one try.             *)
Begin(j) == /\ card[j].phase = "waiting"
            /\ card[j].tries < MaxTries
            /\ card' = [card EXCEPT ![j] = Try(@, "working")]

(* The work ends, well or badly; an ended job is never touched again.      *)
End(j) == /\ card[j].phase = "working"
          /\ card' = [card EXCEPT ![j].phase = "ended"]

(* The worker is gone and nobody knows.                                    *)
Lose(j) == /\ card[j].phase = "working"
           /\ card' = [card EXCEPT ![j].phase = "lost"]

(* Lost work goes back to waiting, or ends out of tries; work that is      *)
(* under way becomes disputed, and what is disputed stays so.              *)
Returned(c) == IF c.tries < MaxTries THEN "waiting" ELSE "ended"

Swept(c) == [c EXCEPT !.phase = IF @ = "lost" THEN Returned(c) ELSE "disputed"]

Sweep(S) == /\ \A j \in S : card[j].phase \in {"working", "lost", "disputed"}
            /\ card' = [j \in Ids |-> IF j \in S THEN Swept(card[j])
                                                 ELSE card[j]]

(* Another party takes a disputed job as well.                             *)
Join(j) == /\ card[j].phase = "disputed"
           /\ card[j].tries < MaxTries
           /\ card' = [card EXCEPT ![j] = Try(@, "disputed")]

(* The last party is through with a disputed job, or dead.                 *)
Settle(j) == /\ card[j].phase = "disputed"
             /\ \E p \in {"waiting", "lost", "ended"} :
                  card' = [card EXCEPT ![j].phase = p]

Next == \/ \E j \in Ids : \/ Post(j) \/ Begin(j) \/ End(j) \/ Lose(j)
                          \/ Join(j) \/ Settle(j)
        \/ \E S \in SUBSET Ids : Sweep(S)

Spec == Init /\ [][Next]_card
=============================================================================
