------------------------------ MODULE Reminders ------------------------------
(***************************************************************************)
(* Reminders: the file brain/_system/reminders.jsonl, the sender that a    *)
(* timer starts (apps/reminder-sender/reminder-sender.js) and the commands *)
(* that register and cancel (deploy/bin/rtime-reminder-register).          *)
(*                                                                         *)
(* Nothing locks the file.  `add` appends one line; the sender and         *)
(* `cancel` read it whole, change their copy and write it whole: the file  *)
(* is truncated first and written next, and anybody may come in between.   *)
(* Such a process is one of Writers, with the file as it last saw it       *)
(* (seen) and its copy (mem).                                              *)
(*                                                                         *)
(* A record is known by its place in the order of registration.  Times are *)
(* numbers, a repeating reminder is due once per unit.  Left out: texts,   *)
(* targets, the wake runner beyond its success, a written file cut short   *)
(* by a power failure, and lines that are no JSON.                         *)
(***************************************************************************)
EXTENDS Naturals, FiniteSets

CONSTANTS
  MaxIds,      \* bound: reminders ever registered
  MaxTime,     \* bound: the clock
  Plans,       \* how reminders are registered: pairs of due time and repeat
  MaxFaults    \* bound: crashes and rejected requests together

ASSUME ReminderAssumption ==
  /\ MaxIds \in Nat
  /\ MaxTime \in Nat
  /\ Plans \subseteq (0 .. MaxTime) \X {"none", "each"}
  /\ MaxFaults \in Nat

Ids     == 1 .. MaxIds
Times   == 0 .. MaxTime
Writers == {"sender", "cancel"}

VARIABLES
  file,       \* the record of each id
  clock,
  at,         \* where each writer is
  seen, mem,  \* the file as it read or wrote it last, and its copy
  todo,       \* what it has yet to send
  one,        \* the id a cancel command was given
  (* What happened, for the properties. *)
  count,      \* ids registered so far
  sent,       \* how often each occurrence was delivered
  told,       \* the ids whose cancellation was reported
  unsaved,    \* delivered, but not yet in the file
  harm,       \* what befell the record of each id
  faults

disk    == <<file, clock>>
procs   == <<at, seen, mem, todo, one>>
history == <<count, sent, told, unsaved, harm, faults>>
vars    == <<disk, procs, history>>

Statuses == {"absent", "pending", "done", "failed", "cancelled"}
Record   == [status : Statuses, due : 0 .. MaxTime + 1, repeat : {"none", "each"}]
Absent   == [status |-> "absent", due |-> 0, repeat |-> "none"]
NoFile   == [i \in Ids |-> Absent]

(* "unrecorded": delivered by a run that ended before it could say so;     *)
(* "overwritten": replaced by a copy older than the record; "torn": lost   *)
(* with a process that had truncated the file.                             *)
Harms == {"unrecorded", "overwritten", "torn"}

PCs == {"off", "token", "item", "save", "write"}

TypeOK ==
  /\ file \in [Ids -> Record]
  /\ clock \in Times
  /\ at \in [Writers -> PCs] /\ at["cancel"] \notin {"token", "item"}
  /\ seen \in [Writers -> [Ids -> Record]]
  /\ mem \in [Writers -> [Ids -> Record]]
  /\ todo \subseteq Ids
  /\ one \in Ids \cup {0}
  /\ count \in 0 .. MaxIds
  /\ sent \in [Ids -> [0 .. MaxTime + 1 -> Nat]]
  /\ told \subseteq Ids
  /\ unsaved \subseteq Ids
  /\ harm \in [Ids -> SUBSET Harms]
  /\ faults \in 0 .. MaxFaults

Init ==
  /\ file = NoFile
  /\ clock = 0
  /\ at = [p \in Writers |-> "off"]
  /\ seen = [p \in Writers |-> NoFile]
  /\ mem = [p \in Writers |-> NoFile]
  /\ todo = {}
  /\ one = 0
  /\ count = 0
  /\ sent = [i \in Ids |-> [t \in 0 .. MaxTime + 1 |-> 0]]
  /\ told = {}
  /\ unsaved = {}
  /\ harm = [i \in Ids |-> {}]
  /\ faults = 0

Suffer(S, h) == harm' = [i \in Ids |-> IF i \in S THEN harm[i] \cup {h} ELSE harm[i]]

(* The memory of a process that ends is gone.                              *)
Ends(p) ==
  /\ at' = [at EXCEPT ![p] = "off"]
  /\ seen' = [seen EXCEPT ![p] = NoFile]
  /\ mem' = [mem EXCEPT ![p] = NoFile]
  /\ todo' = IF p = "sender" THEN {} ELSE todo
  /\ one' = IF p = "cancel" THEN 0 ELSE one

-----------------------------------------------------------------------------
(* Registering.                                                            *)

(* add: one line at the end of the file, due at any time.                  *)
Add(d, r) ==
  /\ count < MaxIds
  /\ count' = count + 1
  /\ file' = [file EXCEPT ![count + 1] = [status |-> "pending", due |-> d, repeat |-> r]]
  /\ UNCHANGED <<clock, procs, sent, told, unsaved, harm, faults>>

(* cancel: the copy it will write has the record cancelled; an id that is  *)
(* not there, or is cancelled already, changes nothing.                    *)
Cancel(i) ==
  /\ at["cancel"] = "off"
  /\ file[i].status \notin {"absent", "cancelled"}
  /\ seen' = [seen EXCEPT !["cancel"] = file]
  /\ mem' = [mem EXCEPT !["cancel"] = [file EXCEPT ![i].status = "cancelled"]]
  /\ one' = i
  /\ at' = [at EXCEPT !["cancel"] = "save"]
  /\ UNCHANGED <<disk, todo, history>>

-----------------------------------------------------------------------------
(* Writing the file.                                                       *)

Truncate(p) ==
  /\ at[p] = "save"
  /\ file' = NoFile
  /\ at' = [at EXCEPT ![p] = "write"]
  /\ Suffer({i \in Ids : file[i] # seen[p][i]}, "overwritten")
  /\ UNCHANGED <<clock, seen, mem, todo, one, count, sent, told, unsaved, faults>>

(* The sender then goes on with its batch, if there is more of it.         *)
Write(p) ==
  /\ at[p] = "write"
  /\ file' = mem[p]
  /\ \/ /\ p = "sender" /\ todo # {}
        /\ at' = [at EXCEPT !["sender"] = "item"]
        /\ seen' = [seen EXCEPT !["sender"] = mem["sender"]]
        /\ UNCHANGED <<mem, todo, one>>
     \/ /\ p = "cancel" \/ todo = {}
        /\ Ends(p)
  /\ told' = IF p = "cancel" THEN told \cup {one} ELSE told
  /\ unsaved' = IF p = "sender" THEN {} ELSE unsaved
  /\ Suffer({i \in Ids : file[i] \notin {Absent, mem[p][i]}}, "overwritten")
  /\ UNCHANGED <<clock, count, sent, faults>>

-----------------------------------------------------------------------------
(* A run of the sender.                                                    *)

(* What loadReminders makes of the file.  Wrong variant: what is not       *)
(* pending is dropped.                                                     *)
OnlyPending(f) == [i \in Ids |-> IF f[i].status = "pending" THEN f[i] ELSE Absent]

Items(f) == f

(* Wrong variants of Due: whatever its status; later than due.             *)
DueAnyway(f, now) == {i \in Ids : f[i].status # "absent" /\ f[i].due <= now}

Overdue(f, now) == {i \in Ids : f[i].status = "pending" /\ f[i].due < now}

Due(f, now) == {i \in Ids : f[i].status = "pending" /\ f[i].due <= now}

(* The timer starts it; without anything due it returns at once.           *)
Load ==
  /\ at["sender"] = "off"
  /\ Due(file, clock) # {}
  /\ seen' = [seen EXCEPT !["sender"] = file]
  /\ mem' = [mem EXCEPT !["sender"] = Items(file)]
  /\ todo' = Due(file, clock)
  /\ at' = [at EXCEPT !["sender"] = "token"]
  /\ UNCHANGED <<disk, one, history>>

(* The access token does not come and the run is over.                     *)
NoToken ==
  /\ at["sender"] = "token"
  /\ Ends("sender")
  /\ UNCHANGED <<disk, history>>

(* The items of a batch are taken in the order of the file, the first one  *)
(* when the token has come.                                                *)
Current(i) == at["sender"] \in {"token", "item"} /\ i \in todo /\ \A j \in todo : i <= j

(* advanceOrComplete.  Wrong variant: a repeating one is not advanced.     *)
Kept(r) == IF r.repeat = "each" THEN r ELSE [r EXCEPT !.status = "done"]

Advanced(r) ==
  IF r.repeat = "each" THEN [r EXCEPT !.due = @ + 1] ELSE [r EXCEPT !.status = "done"]

Deliver(i) ==
  LET t == mem["sender"][i].due
  IN /\ sent' = [sent EXCEPT ![i][t] = @ + 1]
     /\ unsaved' = unsaved \cup {i}

(* The finally: whatever the outcome, the file is written next.            *)
ToSave(i) ==
  /\ todo' = todo \ {i}
  /\ at' = [at EXCEPT !["sender"] = "save"]

(* The message is sent and the answer says so.                             *)
Send(i) ==
  /\ Current(i)
  /\ Deliver(i)
  /\ mem' = [mem EXCEPT !["sender"][i] = Advanced(@)]
  /\ ToSave(i)
  /\ UNCHANGED <<disk, seen, one, count, told, harm, faults>>

(* No target, a wake run that fails, or a bad answer: the item is failed   *)
(* and stays so.                                                           *)
Refuse(i) ==
  /\ Current(i)
  /\ mem' = [mem EXCEPT !["sender"][i].status = "failed"]
  /\ ToSave(i)
  /\ UNCHANGED <<disk, seen, one, history>>

(* The request is rejected (network), before or after the message went     *)
(* out: the exception passes the finally and ends the run.                 *)
Reject(i) ==
  /\ Current(i)
  /\ faults < MaxFaults
  /\ faults' = faults + 1
  /\ todo' = {}
  /\ at' = [at EXCEPT !["sender"] = "save"]
  /\ \/ UNCHANGED <<sent, unsaved, harm>>
     \/ Deliver(i) /\ Suffer({i}, "unrecorded")
  /\ UNCHANGED <<disk, seen, mem, one, count, told>>

(* A writer is killed.                                                     *)
Crash(p) ==
  /\ at[p] # "off"
  /\ faults < MaxFaults
  /\ faults' = faults + 1
  /\ Ends(p)
  /\ unsaved' = IF p = "sender" THEN {} ELSE unsaved
  /\ LET torn == {i \in Ids : at[p] = "write" /\ mem[p][i] # Absent}
         lost == IF p = "sender" THEN unsaved ELSE {}
     IN harm' = [i \in Ids |-> harm[i] \cup (IF i \in torn THEN {"torn"} ELSE {})
                                       \cup (IF i \in lost THEN {"unrecorded"} ELSE {})]
  /\ UNCHANGED <<disk, count, sent, told>>

Tick ==
  /\ clock < MaxTime
  /\ clock' = clock + 1
  /\ UNCHANGED <<file, procs, history>>

-----------------------------------------------------------------------------
Run == \E i \in Ids : Send(i) \/ Refuse(i) \/ Reject(i)

Next ==
  \/ \E x \in Plans : Add(x[1], x[2])
  \/ \E i \in Ids : Cancel(i)
  \/ Load \/ NoToken \/ Run
  \/ \E p \in Writers : Truncate(p) \/ Write(p) \/ Crash(p)
  \/ Tick

Spec == Init /\ [][Next]_vars

(* The timer starts the sender again and again, a process that is not      *)
(* killed runs on, and a token that is asked for again and again comes (the *)
(* strong fairness of Run).                                                *)
FairSpec ==
  /\ Spec
  /\ WF_vars(Load) /\ SF_vars(Run)
  /\ \A p \in Writers : WF_vars(Truncate(p)) /\ WF_vars(Write(p))

-----------------------------------------------------------------------------
(* Properties.                                                             *)

Whole == \A p \in Writers : at[p] # "write"

(* reminder-sender.js:283, "an interrupted batch can never replay an       *)
(* already-sent reminder", as far as it goes: an occurrence is delivered   *)
(* twice only if its delivery was not recorded (the run was killed, or the *)
(* answer lost, between the delivery and the save), or if somebody put an  *)
(* older copy of the record back.                                          *)
SentOnce ==
  \A i \in Ids : \A t \in Times :
    sent[i][t] > 1 => harm[i] \cap {"unrecorded", "overwritten"} # {}

(* A registered reminder is in the file, unless a process replaced the     *)
(* file that had read it before, or died with the file truncated.          *)
NoneLost ==
  Whole => \A i \in 1 .. count :
             file[i] = Absent => harm[i] \cap {"overwritten", "torn"} # {}

(* A cancellation that was reported holds: only an older copy revives it.  *)
CancelHolds ==
  Whole => \A i \in told :
             file[i].status \in {"cancelled", "absent"} \/ "overwritten" \in harm[i]

(* What is due does not wait for ever: with finitely many faults, it is    *)
(* delivered, refused or cancelled, unless its record was lost.  A request *)
(* that is rejected ends the whole batch, but only that batch.             *)
DueIsSettled ==
  \A i \in Ids : \A t \in Times :
    file[i].status = "pending" /\ file[i].due = t /\ t <= clock
      ~> \/ sent[i][t] > 0
         \/ file[i].status \in {"failed", "cancelled", "done"}
         \/ harm[i] \cap {"overwritten", "torn"} # {}
=============================================================================
