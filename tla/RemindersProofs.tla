--------------------------- MODULE RemindersProofs ---------------------------
(***************************************************************************)
(* The safety properties of Reminders, for any number of reminders and     *)
(* faults, any times and any plans.                                        *)
(*                                                                         *)
(* What goes wrong with the unlocked file is prepared in the copies the    *)
(* writers hold; the invariant says what these may be, and that a record   *)
(* cannot be in the hands of two writers that have both truncated the file *)
(* unless that was noticed as an overwriting.                              *)
(***************************************************************************)
EXTENDS Reminders, TLAPS

Overwritten(i) == "overwritten" \in harm[i]
Clean(i)       == "overwritten" \notin harm[i] /\ "unrecorded" \notin harm[i]
Instants       == 0 .. MaxTime + 1

(* The record does not call for a delivery at t.                           *)
Settled(r, t) == r.status # "pending" \/ r.due > t

(* What a writer may make of a record it has read.                         *)
Follows(new, old) ==
  /\ new.status = "absent" <=> old.status = "absent"
  /\ old.status = "cancelled" => new.status = "cancelled"
  /\ \A t \in Instants : Settled(old, t) => Settled(new, t)

(* Ids that were not given out yet are nowhere.                            *)
FreshOK ==
  /\ \A i \in Ids : i > count =>
       /\ file[i].status = "absent"
       /\ \A p \in Writers : seen[p][i].status = "absent" /\ mem[p][i].status = "absent"
       /\ \A t \in Instants : sent[i][t] = 0
  /\ \A i \in told : i <= count

(* What the writers hold.                                                  *)
CopiesOK ==
  /\ \A p \in Writers : \A i \in Ids : Follows(mem[p][i], seen[p][i])
  /\ \A i \in todo : /\ mem["sender"][i].status = "pending"
                     /\ mem["sender"][i].due <= clock
  /\ \A i \in unsaved : /\ mem["sender"][i].status # "absent"
                        /\ at["sender"] \in {"save", "write"}
  /\ at["cancel"] # "off" =>
       one \in Ids /\ one <= count /\ mem["cancel"][one].status = "cancelled"

(* A record that a writer has in its hands after truncating the file is    *)
(* nowhere else, as long as it was not overwritten.                        *)
InOneHand ==
  \A p \in Writers : \A i \in Ids :
    at[p] = "write" /\ mem[p][i].status # "absent" /\ ~Overwritten(i) =>
      /\ file[i].status = "absent"
      /\ \A q \in Writers \ {p} : at[q] = "write" => mem[q][i].status = "absent"

(* What was registered is in the file, or in such a hand.                  *)
KeptOK ==
  \A i \in Ids : i <= count /\ ~Overwritten(i) /\ "torn" \notin harm[i] =>
    \/ file[i].status # "absent"
    \/ \E p \in Writers : at[p] = "write" /\ mem[p][i].status # "absent"

CancelledOK ==
  \A i \in told : ~Overwritten(i) =>
    /\ file[i].status \in {"cancelled", "absent"}
    /\ \A p \in Writers : at[p] = "write" => mem[p][i].status \in {"cancelled", "absent"}

(* An occurrence that was delivered calls for no other delivery: not in    *)
(* the sender's copy, not in the file once the delivery is saved, and not  *)
(* in what a cancel command is about to write.                             *)
SentOK ==
  \A i \in Ids : Clean(i) => \A t \in Instants :
    /\ sent[i][t] <= 1
    /\ sent[i][t] > 0 =>
         /\ at["sender"] # "off" => Settled(mem["sender"][i], t)
         /\ i \notin unsaved =>
              /\ Settled(file[i], t)
              /\ at["cancel"] = "write" => Settled(mem["cancel"][i], t)

RemindersInv ==
  /\ TypeOK /\ FreshOK /\ CopiesOK /\ InOneHand /\ KeptOK /\ CancelledOK /\ SentOK

-----------------------------------------------------------------------------
(* Records.                                                                *)

LEMMA NoFileIsEmpty ==
  NoFile \in [Ids -> Record] /\ \A i \in Ids : NoFile[i].status = "absent"
BY ReminderAssumption DEF NoFile, Absent, Record, Statuses, ReminderAssumption

LEMMA FollowsSelf == \A r : Follows(r, r)
BY DEF Follows

LEMMA Advances ==
  ASSUME NEW r \in Record, r.status = "pending", r.due <= MaxTime
  PROVE  /\ Advanced(r) \in Record /\ Advanced(r).status \in {"pending", "done"}
         /\ \A t \in Instants : Settled(r, t) => Settled(Advanced(r), t)
         /\ Settled(Advanced(r), r.due)
<1>1. r.due \in 0 .. MaxTime + 1 /\ MaxTime \in Nat
  BY ReminderAssumption DEF Record, ReminderAssumption
<1>2. CASE r.repeat = "each"
  <2>1. Advanced(r) = [r EXCEPT !.due = r.due + 1]
    BY <1>2 DEF Advanced
  <2>2. Advanced(r).status = "pending" /\ Advanced(r).due = r.due + 1 /\ Advanced(r) \in Record
    BY <1>1, <2>1 DEF Record
  <2> QED BY <1>1, <2>2 DEF Settled, Instants
<1>3. CASE r.repeat # "each"
  <2>1. Advanced(r) = [r EXCEPT !.status = "done"]
    BY <1>3 DEF Advanced
  <2>2. Advanced(r).status = "done" /\ Advanced(r) \in Record
    BY <2>1 DEF Record, Statuses
  <2> QED BY <2>2 DEF Settled
<1> QED BY <1>2, <1>3

-----------------------------------------------------------------------------
(* Every step keeps the invariant.                                         *)

LEMMA InitHolds == Init => RemindersInv
<1> SUFFICES ASSUME Init PROVE RemindersInv
  OBVIOUS
<1>1. /\ file = NoFile /\ at = [p \in Writers |-> "off"] /\ todo = {} /\ unsaved = {} /\ told = {}
      /\ seen = [p \in Writers |-> NoFile] /\ mem = [p \in Writers |-> NoFile] /\ count = 0
      /\ sent = [i \in Ids |-> [t \in Instants |-> 0]] /\ harm = [i \in Ids |-> {}]
  BY DEF Init, Instants
<1>2. TypeOK
  BY <1>1, NoFileIsEmpty, ReminderAssumption
     DEF Init, TypeOK, Writers, PCs, Times, Instants, ReminderAssumption
<1>3. FreshOK
  BY <1>1, NoFileIsEmpty DEF FreshOK
<1>4. CopiesOK
  BY <1>1, FollowsSelf DEF CopiesOK, Writers
<1>5. InOneHand /\ CancelledOK
  BY <1>1 DEF InOneHand, CancelledOK
<1>6. KeptOK
  BY <1>1 DEF KeptOK, Ids
<1>7. SentOK
  BY <1>1 DEF SentOK
<1> QED BY <1>2, <1>3, <1>4, <1>5, <1>6, <1>7 DEF RemindersInv

LEMMA AddKeeps ==
  ASSUME RemindersInv, NEW x \in Plans, Add(x[1], x[2])
  PROVE  RemindersInv'
<1>0. count \in Nat /\ count < MaxIds /\ MaxIds \in Nat /\ MaxTime \in Nat
  BY ReminderAssumption DEF RemindersInv, TypeOK, Add, ReminderAssumption
<1> PICK new \in Ids : new = count + 1
  BY <1>0 DEF Ids
<1> DEFINE r == [status |-> "pending", due |-> x[1], repeat |-> x[2]]
<1>1. /\ count' = new /\ file' = [file EXCEPT ![new] = r]
      /\ UNCHANGED <<clock, procs, sent, told, unsaved, harm, faults>>
  BY DEF Add
<1>2. TypeOK /\ FreshOK /\ CopiesOK /\ InOneHand /\ KeptOK /\ CancelledOK /\ SentOK
  BY DEF RemindersInv
<1>3. r \in Record /\ r.status = "pending"
  BY <1>0, ReminderAssumption DEF Record, Statuses, ReminderAssumption
<1> HIDE DEF r
<1>4. /\ file'[new] = r /\ \A i \in Ids \ {new} : file'[i] = file[i]
      /\ file' \in [Ids -> Record]
  BY <1>1, <1>2, <1>3 DEF TypeOK
<1>5. TypeOK'
  <2>1. count' \in 0 .. MaxIds
    BY <1>0, <1>1
  <2> QED BY <1>1, <1>2, <1>4, <2>1 DEF TypeOK, procs
<1>6. FreshOK'
  <2>1. \A i \in Ids : i > new => i > count /\ i # new
    BY <1>0 DEF Ids
  <2>2. \A i \in told : i <= new
    BY <1>0, <1>2 DEF FreshOK, TypeOK, Ids
  <2> QED BY <1>1, <1>2, <1>4, <2>1, <2>2 DEF FreshOK, procs
<1>7. CopiesOK'
  <2>1. one \in Ids /\ one <= count => one <= new
    BY <1>0 DEF Ids
  <2> QED BY <1>1, <1>2, <2>1 DEF CopiesOK, procs
<1>8. \A p \in Writers : mem[p][new].status = "absent"
  BY <1>0, <1>2 DEF FreshOK
<1>9. InOneHand'
  BY <1>1, <1>2, <1>4, <1>8 DEF InOneHand, procs, Overwritten
<1>10. KeptOK'
  <2>1. \A i \in Ids \ {new} : i <= new => i <= count
    BY <1>0 DEF Ids
  <2> QED BY <1>1, <1>2, <1>3, <1>4, <2>1 DEF KeptOK, procs, Overwritten
<1>11. CancelledOK'
  <2>1. \A i \in told : i \in Ids \ {new}
    BY <1>0, <1>2 DEF FreshOK, TypeOK
  <2> QED BY <1>1, <1>2, <1>4, <2>1 DEF CancelledOK, procs, Overwritten
<1>12. SentOK'
  <2>1. \A t \in Instants : sent[new][t] = 0
    BY <1>0, <1>2 DEF FreshOK
  <2> QED BY <1>1, <1>2, <1>4, <2>1 DEF SentOK, procs, Clean
<1> QED BY <1>5, <1>6, <1>7, <1>9, <1>10, <1>11, <1>12 DEF RemindersInv

LEMMA CancelKeeps ==
  ASSUME RemindersInv, NEW i \in Ids, Cancel(i)
  PROVE  RemindersInv'
<1> DEFINE f == [file EXCEPT ![i].status = "cancelled"]
<1>1. /\ at["cancel"] = "off" /\ file[i].status \notin {"absent", "cancelled"}
      /\ seen' = [seen EXCEPT !["cancel"] = file] /\ mem' = [mem EXCEPT !["cancel"] = f]
      /\ one' = i /\ at' = [at EXCEPT !["cancel"] = "save"]
      /\ UNCHANGED <<disk, todo, history>>
  BY DEF Cancel
<1>2. TypeOK /\ FreshOK /\ CopiesOK /\ InOneHand /\ KeptOK /\ CancelledOK /\ SentOK
  BY DEF RemindersInv
<1>3. /\ f \in [Ids -> Record] /\ f[i].status = "cancelled"
      /\ \A j \in Ids \ {i} : f[j] = file[j]
  BY <1>2 DEF TypeOK, Record, Statuses
<1>4. i <= count
  BY <1>1, <1>2 DEF FreshOK, TypeOK, Ids
<1> HIDE DEF f
<1>5. /\ seen'["cancel"] = file /\ mem'["cancel"] = f
      /\ seen'["sender"] = seen["sender"] /\ mem'["sender"] = mem["sender"]
      /\ at'["cancel"] = "save" /\ at'["sender"] = at["sender"]
      /\ seen' \in [Writers -> [Ids -> Record]] /\ mem' \in [Writers -> [Ids -> Record]]
      /\ at' \in [Writers -> PCs]
  BY <1>1, <1>2, <1>3 DEF TypeOK, Writers, PCs
<1>6. TypeOK'
  BY <1>1, <1>2, <1>5 DEF TypeOK, disk, history
<1>7. FreshOK'
  BY <1>1, <1>2, <1>3, <1>4, <1>5 DEF FreshOK, disk, history, Writers
<1>8. CopiesOK'
  <2>1. \A j \in Ids : Follows(f[j], file[j])
    BY <1>1, <1>3, FollowsSelf DEF Follows, Settled
  <2> QED BY <1>1, <1>2, <1>3, <1>4, <1>5, <2>1 DEF CopiesOK, disk, history, Writers
<1>9. InOneHand'
  BY <1>1, <1>2, <1>5 DEF InOneHand, disk, history, Writers, Overwritten
<1>10. KeptOK'
  BY <1>1, <1>2, <1>5 DEF KeptOK, disk, history, Writers, Overwritten
<1>11. CancelledOK'
  BY <1>1, <1>2, <1>5 DEF CancelledOK, disk, history, Writers, Overwritten
<1>12. SentOK'
  BY <1>1, <1>2, <1>5 DEF SentOK, disk, history, Clean
<1> QED BY <1>6, <1>7, <1>8, <1>9, <1>10, <1>11, <1>12 DEF RemindersInv

LEMMA LoadKeeps ==
  ASSUME RemindersInv, Load
  PROVE  RemindersInv'
<1>1. /\ at["sender"] = "off"
      /\ seen' = [seen EXCEPT !["sender"] = file] /\ mem' = [mem EXCEPT !["sender"] = file]
      /\ todo' = Due(file, clock) /\ at' = [at EXCEPT !["sender"] = "token"]
      /\ UNCHANGED <<disk, one, history>>
  BY DEF Load, Items
<1>2. TypeOK /\ FreshOK /\ CopiesOK /\ InOneHand /\ KeptOK /\ CancelledOK /\ SentOK
  BY DEF RemindersInv
<1>3. /\ seen'["sender"] = file /\ mem'["sender"] = file
      /\ seen'["cancel"] = seen["cancel"] /\ mem'["cancel"] = mem["cancel"]
      /\ at'["sender"] = "token" /\ at'["cancel"] = at["cancel"]
      /\ seen' \in [Writers -> [Ids -> Record]] /\ mem' \in [Writers -> [Ids -> Record]]
      /\ at' \in [Writers -> PCs]
  BY <1>1, <1>2 DEF TypeOK, Writers, PCs
<1>4. unsaved = {}
  BY <1>1, <1>2 DEF CopiesOK
<1>5. TypeOK'
  BY <1>1, <1>2, <1>3 DEF TypeOK, disk, history, Due
<1>6. FreshOK'
  BY <1>1, <1>2, <1>3 DEF FreshOK, disk, history, Writers
<1>7. CopiesOK'
  <2>1. \A j \in Ids : Follows(file[j], file[j])
    BY FollowsSelf
  <2>2. \A j \in todo' : file[j].status = "pending" /\ file[j].due <= clock
    BY <1>1 DEF Due
  <2> QED BY <1>1, <1>2, <1>3, <1>4, <2>1, <2>2 DEF CopiesOK, disk, history, Writers
<1>8. InOneHand'
  BY <1>1, <1>2, <1>3 DEF InOneHand, disk, history, Writers, Overwritten
<1>9. KeptOK'
  BY <1>1, <1>2, <1>3 DEF KeptOK, disk, history, Writers, Overwritten
<1>10. CancelledOK'
  BY <1>1, <1>2, <1>3 DEF CancelledOK, disk, history, Writers, Overwritten
<1>11. SentOK'
  BY <1>1, <1>2, <1>3, <1>4 DEF SentOK, disk, history, Clean
<1> QED BY <1>5, <1>6, <1>7, <1>8, <1>9, <1>10, <1>11 DEF RemindersInv

LEMMA NoTokenKeeps ==
  ASSUME RemindersInv, NoToken
  PROVE  RemindersInv'
<1>1. /\ at["sender"] = "token" /\ at' = [at EXCEPT !["sender"] = "off"]
      /\ seen' = [seen EXCEPT !["sender"] = NoFile] /\ mem' = [mem EXCEPT !["sender"] = NoFile]
      /\ todo' = {} /\ one' = one
      /\ UNCHANGED <<disk, history>>
  BY DEF NoToken, Ends
<1>2. TypeOK /\ FreshOK /\ CopiesOK /\ InOneHand /\ KeptOK /\ CancelledOK /\ SentOK
  BY DEF RemindersInv
<1>3. /\ seen'["sender"] = NoFile /\ mem'["sender"] = NoFile
      /\ seen'["cancel"] = seen["cancel"] /\ mem'["cancel"] = mem["cancel"]
      /\ at'["sender"] = "off" /\ at'["cancel"] = at["cancel"]
      /\ seen' \in [Writers -> [Ids -> Record]] /\ mem' \in [Writers -> [Ids -> Record]]
      /\ at' \in [Writers -> PCs]
  BY <1>1, <1>2, NoFileIsEmpty DEF TypeOK, Writers, PCs
<1>4. unsaved = {}
  BY <1>1, <1>2 DEF CopiesOK
<1>5. TypeOK'
  BY <1>1, <1>2, <1>3 DEF TypeOK, disk, history
<1>6. FreshOK'
  BY <1>1, <1>2, <1>3, NoFileIsEmpty DEF FreshOK, disk, history, Writers
<1>7. CopiesOK'
  BY <1>1, <1>2, <1>3, <1>4, FollowsSelf DEF CopiesOK, disk, history, Writers
<1>8. InOneHand'
  BY <1>1, <1>2, <1>3 DEF InOneHand, disk, history, Writers, Overwritten
<1>9. KeptOK'
  BY <1>1, <1>2, <1>3 DEF KeptOK, disk, history, Writers, Overwritten
<1>10. CancelledOK'
  BY <1>1, <1>2, <1>3 DEF CancelledOK, disk, history, Writers, Overwritten
<1>11. SentOK'
  BY <1>1, <1>2, <1>3, <1>4 DEF SentOK, disk, history, Clean
<1> QED BY <1>5, <1>6, <1>7, <1>8, <1>9, <1>10, <1>11 DEF RemindersInv

(* The sender has dealt with an item: its copy of the record has become r. *)
LEMMA ItemKeeps ==
  ASSUME RemindersInv, NEW i \in Ids, NEW r \in Record, Current(i),
         mem' = [mem EXCEPT !["sender"][i] = r], at' = [at EXCEPT !["sender"] = "save"],
         todo' \subseteq todo \ {i}, r.status # "absent", Follows(r, mem["sender"][i]),
         UNCHANGED <<disk, seen, one, count, told>>
  PROVE  /\ unsaved = {}
         /\ mem["sender"][i] \in Record /\ mem["sender"][i].status = "pending"
         /\ mem["sender"][i].due <= MaxTime
         /\ mem'["sender"][i] = r /\ mem'["cancel"] = mem["cancel"]
         /\ \A j \in Ids \ {i} : mem'["sender"][j] = mem["sender"][j]
         /\ mem' \in [Writers -> [Ids -> Record]]
         /\ at' \in [Writers -> PCs] /\ at'["sender"] = "save" /\ at'["cancel"] = at["cancel"]
         /\ i <= count
         /\ \A p \in Writers : \A j \in Ids : Follows(mem'[p][j], seen'[p][j])
         /\ \A j \in todo' : mem'["sender"][j].status = "pending" /\ mem'["sender"][j].due <= clock'
         /\ at'["cancel"] # "off" =>
              one' \in Ids /\ one' <= count' /\ mem'["cancel"][one'].status = "cancelled"
         /\ (\A j \in Ids : harm'[j] \ {"unrecorded"} = harm[j] \ {"unrecorded"})
              => InOneHand' /\ KeptOK' /\ CancelledOK'
<1>1. TypeOK /\ FreshOK /\ CopiesOK /\ InOneHand /\ KeptOK /\ CancelledOK
  BY DEF RemindersInv
<1>2. at["sender"] \in {"token", "item"} /\ i \in todo
  BY DEF Current
<1>3. /\ mem'["sender"][i] = r /\ mem'["cancel"] = mem["cancel"]
      /\ \A j \in Ids \ {i} : mem'["sender"][j] = mem["sender"][j]
      /\ mem' \in [Writers -> [Ids -> Record]]
      /\ at' \in [Writers -> PCs] /\ at'["sender"] = "save" /\ at'["cancel"] = at["cancel"]
  BY <1>1 DEF TypeOK, Writers, PCs
<1>4. /\ mem["sender"][i] \in Record /\ mem["sender"][i].status = "pending"
      /\ mem["sender"][i].due <= clock
  BY <1>1, <1>2 DEF CopiesOK, TypeOK, Writers
<1>5. mem["sender"][i].due <= MaxTime
  BY <1>1, <1>4, ReminderAssumption DEF TypeOK, Times, Record, ReminderAssumption
<1>6. i <= count
  BY <1>1, <1>4 DEF FreshOK, TypeOK, Ids, Writers
<1>7. unsaved = {}
  BY <1>1, <1>2 DEF CopiesOK
<1>8. \A p \in Writers : \A j \in Ids : Follows(mem'[p][j], seen'[p][j])
  <2>1. Follows(r, seen["sender"][i])
    BY <1>1, <1>4 DEF CopiesOK, Follows, Writers
  <2> QED BY <1>1, <1>3, <2>1 DEF CopiesOK, Writers
<1>9. /\ \A j \in todo' : mem'["sender"][j].status = "pending" /\ mem'["sender"][j].due <= clock'
      /\ at'["cancel"] # "off" =>
           one' \in Ids /\ one' <= count' /\ mem'["cancel"][one'].status = "cancelled"
  BY <1>1, <1>3 DEF CopiesOK, disk, TypeOK
<1>10. ASSUME \A j \in Ids : harm'[j] \ {"unrecorded"} = harm[j] \ {"unrecorded"}
       PROVE  InOneHand' /\ KeptOK' /\ CancelledOK'
  <2>0. \A j \in Ids : /\ Overwritten(j)' <=> Overwritten(j)
                       /\ "torn" \in harm'[j] <=> "torn" \in harm[j]
    BY <1>10 DEF Overwritten
  <2>1. InOneHand'
    BY <1>1, <1>3, <2>0 DEF InOneHand, disk, Writers
  <2>2. KeptOK'
    BY <1>1, <1>2, <1>3, <2>0 DEF KeptOK, disk, Writers
  <2>3. CancelledOK'
    BY <1>1, <1>3, <2>0 DEF CancelledOK, disk, Writers, TypeOK
  <2> QED BY <2>1, <2>2, <2>3
<1> QED BY <1>3, <1>4, <1>5, <1>6, <1>7, <1>8, <1>9, <1>10

(* A delivery at an instant that the record had not been delivered for.    *)
LEMMA DeliverOnce ==
  ASSUME TypeOK, SentOK, NEW i \in Ids, at["sender"] # "off",
         mem["sender"][i].status = "pending", mem["sender"][i] \in Record, Deliver(i)
  PROVE  /\ sent' \in [Ids -> [Instants -> Nat]]
         /\ \A j \in Ids \ {i} : sent'[j] = sent[j]
         /\ \A t \in Instants : t # mem["sender"][i].due => sent'[i][t] = sent[i][t]
         /\ Clean(i) => sent'[i][mem["sender"][i].due] = 1
         /\ unsaved' = unsaved \cup {i}
<1> DEFINE d == mem["sender"][i].due
<1>1. d \in Instants /\ sent \in [Ids -> [Instants -> Nat]]
  BY DEF Record, Instants, TypeOK
<1>2. sent' = [sent EXCEPT ![i][d] = sent[i][d] + 1] /\ unsaved' = unsaved \cup {i}
  BY DEF Deliver
<1>3. sent'[i][d] = sent[i][d] + 1 /\ \A t \in Instants : t # d => sent'[i][t] = sent[i][t]
  BY <1>1, <1>2
<1>4. sent' \in [Ids -> [Instants -> Nat]] /\ \A j \in Ids \ {i} : sent'[j] = sent[j]
  BY <1>1, <1>2
<1>5. ~Settled(mem["sender"][i], d)
  BY <1>1 DEF Settled, Instants
<1>6. Clean(i) => sent[i][d] = 0
  <2>1. sent[i][d] \in Nat
    BY <1>1
  <2> QED BY <1>1, <1>5, <2>1 DEF SentOK
<1> QED BY <1>2, <1>3, <1>4, <1>6

LEMMA SendKeeps ==
  ASSUME RemindersInv, NEW i \in Ids, Send(i)
  PROVE  RemindersInv'
<1> DEFINE m == mem["sender"][i]
           r == Advanced(m)
<1>1. /\ Current(i) /\ Deliver(i) /\ mem' = [mem EXCEPT !["sender"][i] = r]
      /\ todo' = todo \ {i} /\ at' = [at EXCEPT !["sender"] = "save"]
      /\ UNCHANGED <<disk, seen, one, count, told, harm, faults>>
  BY DEF Send, ToSave
<1>2. TypeOK /\ FreshOK /\ CopiesOK /\ InOneHand /\ KeptOK /\ CancelledOK /\ SentOK
  BY DEF RemindersInv
<1>3. m \in Record /\ m.status = "pending" /\ m.due <= MaxTime
  <2>1. m \in Record /\ m.status = "pending" /\ m.due <= clock
    BY <1>1, <1>2 DEF CopiesOK, TypeOK, Writers, Current
  <2> QED BY <2>1, <1>2, ReminderAssumption DEF TypeOK, Times, Record, ReminderAssumption
<1>4. /\ r \in Record /\ r.status \in {"pending", "done"}
      /\ \A t \in Instants : Settled(m, t) => Settled(r, t)
      /\ Settled(r, m.due)
  BY <1>3, Advances
<1>5. /\ r.status # "absent" /\ Follows(r, m)
  BY <1>3, <1>4 DEF Follows
<1>6. /\ unsaved = {} /\ i <= count
      /\ mem'["sender"][i] = r /\ mem'["cancel"] = mem["cancel"]
      /\ \A j \in Ids \ {i} : mem'["sender"][j] = mem["sender"][j]
      /\ mem' \in [Writers -> [Ids -> Record]]
      /\ at' \in [Writers -> PCs] /\ at'["sender"] = "save" /\ at'["cancel"] = at["cancel"]
      /\ \A p \in Writers : \A j \in Ids : Follows(mem'[p][j], seen'[p][j])
      /\ \A j \in todo' : mem'["sender"][j].status = "pending" /\ mem'["sender"][j].due <= clock'
      /\ at'["cancel"] # "off" =>
           one' \in Ids /\ one' <= count' /\ mem'["cancel"][one'].status = "cancelled"
  BY <1>1, <1>4, <1>5, ItemKeeps
<1>7. InOneHand' /\ KeptOK' /\ CancelledOK'
  BY <1>1, <1>4, <1>5, ItemKeeps
<1>8. at["sender"] # "off"
  BY <1>1 DEF Current
<1>9. /\ sent' \in [Ids -> [Instants -> Nat]]
      /\ \A j \in Ids \ {i} : sent'[j] = sent[j]
      /\ \A t \in Instants : t # m.due => sent'[i][t] = sent[i][t]
      /\ Clean(i) => sent'[i][m.due] = 1
      /\ unsaved' = {i}
  BY <1>1, <1>2, <1>3, <1>6, <1>8, DeliverOnce
<1> HIDE DEF m, r
<1>10. TypeOK'
  BY <1>1, <1>2, <1>6, <1>9 DEF TypeOK, disk, Instants
<1>11. FreshOK'
  <2>1. \A j \in Ids : j > count => j # i
    BY <1>2, <1>6 DEF TypeOK, Ids
  <2> QED BY <1>1, <1>2, <1>6, <1>9, <2>1 DEF FreshOK, Writers, disk
<1>12. CopiesOK'
  BY <1>5, <1>6, <1>9 DEF CopiesOK
<1>13. SentOK'
  <2>1. ASSUME NEW j \in Ids, NEW t \in Instants, Clean(j)
        PROVE  /\ sent'[j][t] <= 1
               /\ sent'[j][t] > 0 =>
                    /\ Settled(mem'["sender"][j], t)
                    /\ j \notin unsaved' =>
                         Settled(file[j], t) /\ (at["cancel"] = "write" => Settled(mem["cancel"][j], t))
    <3>1. CASE j # i
      BY <1>2, <1>6, <1>8, <1>9, <2>1, <3>1 DEF SentOK
    <3>2. CASE j = i /\ t = m.due
      BY <1>4, <1>6, <1>9, <2>1, <3>2
    <3>3. CASE j = i /\ t # m.due
      <4>1. sent'[j][t] = sent[i][t] /\ Clean(i)
        BY <1>9, <2>1, <3>3
      <4>2. sent[i][t] <= 1 /\ (sent[i][t] > 0 => Settled(m, t))
        BY <1>2, <1>8, <4>1 DEF SentOK, m
      <4> QED BY <1>4, <1>6, <1>9, <3>3, <4>1, <4>2
    <3> QED BY <3>1, <3>2, <3>3
  <2> QED BY <1>1, <1>6, <2>1 DEF SentOK, disk, Clean
<1> QED BY <1>7, <1>10, <1>11, <1>12, <1>13 DEF RemindersInv

LEMMA RefuseKeeps ==
  ASSUME RemindersInv, NEW i \in Ids, Refuse(i)
  PROVE  RemindersInv'
<1> DEFINE m == mem["sender"][i]
           r == [m EXCEPT !.status = "failed"]
<1>1. /\ Current(i) /\ mem' = [mem EXCEPT !["sender"][i] = r]
      /\ todo' = todo \ {i} /\ at' = [at EXCEPT !["sender"] = "save"]
      /\ UNCHANGED <<disk, seen, one, history>>
  BY DEF Refuse, ToSave
<1>2. TypeOK /\ FreshOK /\ CopiesOK /\ InOneHand /\ KeptOK /\ CancelledOK /\ SentOK
  BY DEF RemindersInv
<1>3. m \in Record /\ m.status = "pending"
  BY <1>1, <1>2 DEF CopiesOK, TypeOK, Writers, Current
<1>4. r \in Record /\ r.status = "failed"
  BY <1>3 DEF Record, Statuses
<1>5. r.status # "absent" /\ Follows(r, m) /\ \A t \in Instants : Settled(r, t)
  BY <1>3, <1>4 DEF Follows, Settled
<1>6. /\ unsaved = {} /\ i <= count
      /\ mem'["sender"][i] = r /\ mem'["cancel"] = mem["cancel"]
      /\ \A j \in Ids \ {i} : mem'["sender"][j] = mem["sender"][j]
      /\ mem' \in [Writers -> [Ids -> Record]]
      /\ at' \in [Writers -> PCs] /\ at'["sender"] = "save" /\ at'["cancel"] = at["cancel"]
      /\ \A p \in Writers : \A j \in Ids : Follows(mem'[p][j], seen'[p][j])
      /\ \A j \in todo' : mem'["sender"][j].status = "pending" /\ mem'["sender"][j].due <= clock'
      /\ at'["cancel"] # "off" =>
           one' \in Ids /\ one' <= count' /\ mem'["cancel"][one'].status = "cancelled"
  BY <1>1, <1>4, <1>5, ItemKeeps DEF history
<1>7. InOneHand' /\ KeptOK' /\ CancelledOK'
  BY <1>1, <1>4, <1>5, ItemKeeps DEF history
<1> HIDE DEF m, r
<1>8. TypeOK'
  BY <1>1, <1>2, <1>6 DEF TypeOK, disk, history
<1>9. FreshOK'
  <2>1. \A j \in Ids : j > count => j # i
    BY <1>2, <1>6 DEF TypeOK, Ids
  <2> QED BY <1>1, <1>2, <1>6, <2>1 DEF FreshOK, Writers, disk, history
<1>10. CopiesOK'
  BY <1>1, <1>6 DEF CopiesOK, history
<1>11. SentOK'
  <2>1. at["sender"] # "off"
    BY <1>1 DEF Current
  <2>2. \A j \in Ids : \A t \in Instants : Settled(mem["sender"][j], t) => Settled(mem'["sender"][j], t)
    BY <1>5, <1>6
  <2> QED BY <1>1, <1>2, <1>6, <2>1, <2>2 DEF SentOK, disk, history, Clean
<1> QED BY <1>7, <1>8, <1>9, <1>10, <1>11 DEF RemindersInv

LEMMA RejectKeeps ==
  ASSUME RemindersInv, NEW i \in Ids, Reject(i)
  PROVE  RemindersInv'
<1> DEFINE m == mem["sender"][i]
<1>1. /\ Current(i) /\ faults < MaxFaults /\ faults' = faults + 1
      /\ todo' = {} /\ at' = [at EXCEPT !["sender"] = "save"]
      /\ UNCHANGED <<disk, seen, mem, one, count, told>>
      /\ \/ UNCHANGED <<sent, unsaved, harm>>
         \/ Deliver(i) /\ Suffer({i}, "unrecorded")
  BY DEF Reject
<1>2. TypeOK /\ FreshOK /\ CopiesOK /\ InOneHand /\ KeptOK /\ CancelledOK /\ SentOK
  BY DEF RemindersInv
<1>3. m \in Record /\ m.status = "pending" /\ mem' = [mem EXCEPT !["sender"][i] = m]
  BY <1>1, <1>2 DEF CopiesOK, TypeOK, Writers, Current
<1>4. /\ harm' \in [Ids -> SUBSET Harms]
      /\ \A j \in Ids : harm'[j] \ {"unrecorded"} = harm[j] \ {"unrecorded"}
      /\ \A j \in Ids : harm[j] \subseteq harm'[j]
  BY <1>1, <1>2 DEF Suffer, TypeOK, Harms
<1>5. /\ unsaved = {} /\ i <= count
      /\ at' \in [Writers -> PCs] /\ at'["sender"] = "save" /\ at'["cancel"] = at["cancel"]
      /\ \A p \in Writers : \A j \in Ids : Follows(mem'[p][j], seen'[p][j])
      /\ at'["cancel"] # "off" =>
           one' \in Ids /\ one' <= count' /\ mem'["cancel"][one'].status = "cancelled"
  BY <1>1, <1>3, FollowsSelf, ItemKeeps
<1>6. InOneHand' /\ KeptOK' /\ CancelledOK'
  BY <1>1, <1>3, <1>4, FollowsSelf, ItemKeeps
<1>7. at["sender"] # "off"
  BY <1>1 DEF Current
<1>8. /\ sent' \in [Ids -> [Instants -> Nat]] /\ unsaved' \subseteq {i}
      /\ \A j \in Ids \ {i} : sent'[j] = sent[j]
      /\ \A t \in Instants : Clean(i)' => sent'[i][t] = sent[i][t]
  <2>1. CASE UNCHANGED <<sent, unsaved, harm>>
    BY <1>2, <1>5, <2>1 DEF TypeOK, Instants
  <2>2. CASE Deliver(i) /\ Suffer({i}, "unrecorded")
    <3>1. ~Clean(i)'
      BY <1>2, <2>2 DEF Clean, Suffer, TypeOK
    <3> QED BY <1>2, <1>3, <1>5, <1>7, <2>2, <3>1, DeliverOnce
  <2> QED BY <1>1, <2>1, <2>2
<1> HIDE DEF m
<1>9. TypeOK'
  <2>1. faults' \in 0 .. MaxFaults
    BY <1>1, <1>2, ReminderAssumption DEF TypeOK, ReminderAssumption
  <2> QED BY <1>1, <1>2, <1>4, <1>5, <1>8, <2>1 DEF TypeOK, disk, Instants
<1>10. FreshOK'
  <2>1. \A j \in Ids : j > count => j # i
    BY <1>2, <1>5 DEF TypeOK, Ids
  <2> QED BY <1>1, <1>2, <1>8, <2>1 DEF FreshOK, disk
<1>11. CopiesOK'
  BY <1>1, <1>3, <1>5, <1>8 DEF CopiesOK, m
<1>12. SentOK'
  <2>1. \A j \in Ids : Clean(j)' => Clean(j) /\ \A t \in Instants : sent'[j][t] = sent[j][t]
    BY <1>4, <1>8 DEF Clean
  <2> QED BY <1>1, <1>2, <1>5, <1>7, <2>1 DEF SentOK, disk
<1> QED BY <1>6, <1>9, <1>10, <1>11, <1>12 DEF RemindersInv

LEMMA TruncateKeeps ==
  ASSUME RemindersInv, NEW p \in Writers, Truncate(p)
  PROVE  RemindersInv'
<1>1. /\ at[p] = "save" /\ file' = NoFile /\ at' = [at EXCEPT ![p] = "write"]
      /\ Suffer({i \in Ids : file[i] # seen[p][i]}, "overwritten")
      /\ UNCHANGED <<clock, seen, mem, todo, one, count, sent, told, unsaved, faults>>
  BY DEF Truncate
<1>2. TypeOK /\ FreshOK /\ CopiesOK /\ InOneHand /\ KeptOK /\ CancelledOK /\ SentOK
  BY DEF RemindersInv
<1>3. /\ harm' \in [Ids -> SUBSET Harms]
      /\ \A i \in Ids : harm[i] \subseteq harm'[i]
      /\ \A i \in Ids : ~Overwritten(i)' => harm'[i] = harm[i] /\ file[i] = seen[p][i]
  BY <1>1, <1>2 DEF Suffer, TypeOK, Harms, Overwritten
<1>4. /\ at'[p] = "write" /\ \A q \in Writers \ {p} : at'[q] = at[q]
      /\ at' \in [Writers -> PCs] /\ at'["cancel"] \notin {"token", "item"}
      /\ file' \in [Ids -> Record] /\ \A i \in Ids : file'[i].status = "absent"
  BY <1>1, <1>2, NoFileIsEmpty DEF TypeOK, PCs, Writers
<1>5. \A i \in Ids : Follows(mem[p][i], seen[p][i])
  BY <1>2 DEF CopiesOK
<1>6. TypeOK'
  BY <1>1, <1>2, <1>3, <1>4 DEF TypeOK
<1>7. FreshOK'
  BY <1>1, <1>2, <1>4 DEF FreshOK
<1>8. CopiesOK'
  BY <1>1, <1>2, <1>4 DEF CopiesOK, Writers
<1>9. InOneHand'
  <2>1. ASSUME NEW q \in Writers, NEW i \in Ids, at'[q] = "write",
               mem[q][i].status # "absent", ~Overwritten(i)', NEW o \in Writers \ {q}, at'[o] = "write"
        PROVE  mem[o][i].status = "absent"
    <3>1. ~Overwritten(i) /\ file[i] = seen[p][i]
      BY <1>3, <2>1 DEF Overwritten
    <3>2. CASE q = p
      <4>1. file[i].status # "absent" /\ at[o] = "write"
        BY <1>4, <1>5, <2>1, <3>1, <3>2 DEF Follows
      <4> QED BY <1>2, <3>1, <4>1 DEF InOneHand
    <3>3. CASE q # p
      <4>1. at[q] = "write" /\ file[i].status = "absent"
        BY <1>2, <1>4, <2>1, <3>1, <3>3 DEF InOneHand
      <4>2. CASE o = p
        BY <1>5, <3>1, <4>1, <4>2 DEF Follows
      <4>3. CASE o # p
        BY <1>2, <1>4, <2>1, <3>1, <4>1, <4>3 DEF InOneHand
      <4> QED BY <4>2, <4>3
    <3> QED BY <3>2, <3>3
  <2> QED BY <1>1, <1>4, <2>1 DEF InOneHand
<1>10. KeptOK'
  <2>1. ASSUME NEW i \in Ids, i <= count, ~Overwritten(i)', "torn" \notin harm'[i]
        PROVE  \E q \in Writers : at'[q] = "write" /\ mem[q][i].status # "absent"
    <3>1. ~Overwritten(i) /\ "torn" \notin harm[i] /\ file[i] = seen[p][i]
      BY <1>3, <2>1 DEF Overwritten
    <3>2. CASE file[i].status # "absent"
      BY <1>4, <1>5, <3>1, <3>2 DEF Follows
    <3>3. CASE file[i].status = "absent"
      BY <1>2, <1>4, <2>1, <3>1, <3>3 DEF KeptOK
    <3> QED BY <3>2, <3>3
  <2> QED BY <1>1, <2>1 DEF KeptOK
<1>11. CancelledOK'
  <2>1. ASSUME NEW i \in told, ~Overwritten(i)', NEW q \in Writers, at'[q] = "write"
        PROVE  mem[q][i].status \in {"cancelled", "absent"}
    <3>1. i \in Ids /\ ~Overwritten(i) /\ file[i] = seen[p][i]
      BY <1>2, <1>3, <2>1 DEF Overwritten, TypeOK
    <3>2. CASE q = p
      <4>1. seen[p][i].status \in {"cancelled", "absent"}
        BY <1>2, <3>1 DEF CancelledOK
      <4> QED BY <1>5, <3>1, <3>2, <4>1 DEF Follows
    <3>3. CASE q # p
      BY <1>2, <1>4, <2>1, <3>1, <3>3 DEF CancelledOK
    <3> QED BY <3>2, <3>3
  <2> QED BY <1>1, <1>2, <1>4, <2>1 DEF CancelledOK, TypeOK
<1>12. SentOK'
  <2>1. ASSUME NEW i \in Ids, NEW t \in Instants, Clean(i)', sent[i][t] > 0, i \notin unsaved,
               at'["cancel"] = "write"
        PROVE  Settled(mem["cancel"][i], t)
    <3>1. Clean(i) /\ file[i] = seen[p][i]
      BY <1>3, <2>1 DEF Clean, Overwritten
    <3>2. CASE p = "cancel"
      <4>1. Settled(seen["cancel"][i], t)
        BY <1>2, <2>1, <3>1, <3>2 DEF SentOK
      <4> QED BY <1>5, <3>2, <4>1 DEF Follows
    <3>3. CASE p # "cancel"
      BY <1>2, <1>4, <2>1, <3>1, <3>3 DEF SentOK, Writers
    <3> QED BY <3>2, <3>3
  <2>2. \A i \in Ids : Clean(i)' => Clean(i)
    BY <1>3 DEF Clean
  <2>3. at'["sender"] # "off" => at["sender"] # "off"
    BY <1>1, <1>4 DEF Writers
  <2>4. \A i \in Ids : \A t : Settled(file'[i], t)
    BY <1>4 DEF Settled
  <2> QED BY <1>1, <1>2, <2>1, <2>2, <2>3, <2>4 DEF SentOK
<1> QED BY <1>6, <1>7, <1>8, <1>9, <1>10, <1>11, <1>12 DEF RemindersInv

LEMMA WriteKeeps ==
  ASSUME RemindersInv, NEW p \in Writers, Write(p)
  PROVE  RemindersInv'
<1>1. /\ at[p] = "write" /\ file' = mem[p]
      /\ told' = IF p = "cancel" THEN told \cup {one} ELSE told
      /\ unsaved' = IF p = "sender" THEN {} ELSE unsaved
      /\ Suffer({i \in Ids : file[i] \notin {Absent, mem[p][i]}}, "overwritten")
      /\ UNCHANGED <<clock, count, sent, faults>>
  BY DEF Write
<1>2. TypeOK /\ FreshOK /\ CopiesOK /\ InOneHand /\ KeptOK /\ CancelledOK /\ SentOK
  BY DEF RemindersInv
<1>3. /\ harm' \in [Ids -> SUBSET Harms]
      /\ \A i \in Ids : harm[i] \subseteq harm'[i]
      /\ \A i \in Ids : ~Overwritten(i)' => harm'[i] = harm[i] /\ file[i] \in {Absent, mem[p][i]}
  BY <1>1, <1>2 DEF Suffer, TypeOK, Harms, Overwritten
<1>4. /\ \A q \in Writers \ {p} : at'[q] = at[q] /\ seen'[q] = seen[q] /\ mem'[q] = mem[q]
      /\ at'[p] \in {"item", "off"} /\ (at'[p] = "item" => p = "sender" /\ mem'[p] = mem[p])
      /\ mem'[p] \in {mem[p], NoFile} /\ seen'[p] = mem'[p]
      /\ at' \in [Writers -> PCs] /\ at'["cancel"] \notin {"token", "item"}
      /\ seen' \in [Writers -> [Ids -> Record]] /\ mem' \in [Writers -> [Ids -> Record]]
      /\ todo' \subseteq todo /\ \A j \in todo' : mem'["sender"] = mem["sender"]
      /\ p # "cancel" => one' = one
      /\ one' \in Ids \cup {0}
  <2>1. CASE /\ p = "sender" /\ at' = [at EXCEPT !["sender"] = "item"]
             /\ seen' = [seen EXCEPT !["sender"] = mem["sender"]]
             /\ UNCHANGED <<mem, todo, one>>
    BY <1>2, <2>1 DEF TypeOK, PCs, Writers
  <2>2. CASE Ends(p)
    BY <1>2, <2>2, NoFileIsEmpty DEF Ends, TypeOK, PCs, Writers
  <2> QED BY <2>1, <2>2 DEF Write
<1>5. mem[p] \in [Ids -> Record] /\ one \in Ids \cup {0} /\ (p = "cancel" => one \in Ids /\ one <= count)
  BY <1>1, <1>2 DEF TypeOK, CopiesOK
<1>6. TypeOK'
  BY <1>1, <1>2, <1>3, <1>4, <1>5 DEF TypeOK
<1>7. FreshOK'
  <2>1. \A i \in Ids : i > count => \A q \in Writers : mem'[q][i].status = "absent" /\ seen'[q][i].status = "absent"
    BY <1>2, <1>4, NoFileIsEmpty DEF FreshOK
  <2>2. \A i \in told' : i <= count
    BY <1>1, <1>2, <1>5 DEF FreshOK
  <2> QED BY <1>1, <1>2, <2>1, <2>2 DEF FreshOK
<1>8. CopiesOK'
  <2>1. \A q \in Writers : \A i \in Ids : Follows(mem'[q][i], seen'[q][i])
    BY <1>2, <1>4, FollowsSelf DEF CopiesOK
  <2>2. \A i \in todo' : mem'["sender"][i].status = "pending" /\ mem'["sender"][i].due <= clock
    BY <1>2, <1>4 DEF CopiesOK
  <2>3. \A i \in unsaved' : mem'["sender"][i].status # "absent" /\ at'["sender"] \in {"save", "write"}
    <3>1. p # "sender" => mem'["sender"] = mem["sender"] /\ at'["sender"] = at["sender"]
      BY <1>4 DEF Writers
    <3> QED BY <1>1, <1>2, <3>1 DEF CopiesOK
  <2>4. at'["cancel"] # "off" => one' \in Ids /\ one' <= count /\ mem'["cancel"][one'].status = "cancelled"
    <3>1. p = "cancel" => at'["cancel"] = "off"
      BY <1>4
    <3>2. p # "cancel" => mem'["cancel"] = mem["cancel"] /\ at'["cancel"] = at["cancel"] /\ one' = one
      BY <1>4 DEF Writers
    <3> QED BY <1>2, <3>1, <3>2 DEF CopiesOK
  <2> QED BY <1>1, <2>1, <2>2, <2>3, <2>4 DEF CopiesOK
<1>9. \A q \in Writers : at'[q] = "write" => q # p /\ at[q] = "write" /\ mem'[q] = mem[q]
  BY <1>4
<1>10. \A q \in Writers \ {p} : \A i \in Ids :
         at[q] = "write" /\ ~Overwritten(i) => mem[q][i].status = "absent" \/ mem[p][i].status = "absent"
  BY <1>1, <1>2 DEF InOneHand
<1>11. InOneHand'
  <2>1. ASSUME NEW q \in Writers, NEW i \in Ids, at'[q] = "write", mem'[q][i].status # "absent",
               ~Overwritten(i)'
        PROVE  /\ file'[i].status = "absent"
               /\ \A o \in Writers \ {q} : at'[o] = "write" => mem'[o][i].status = "absent"
    <3>1. ~Overwritten(i)
      BY <1>3, <2>1 DEF Overwritten
    <3>2. mem[p][i].status = "absent"
      BY <1>9, <1>10, <2>1, <3>1
    <3>3. \A o \in Writers \ {q} : at'[o] = "write" => mem'[o][i].status = "absent"
      BY <1>2, <1>9, <2>1, <3>1 DEF InOneHand
    <3> QED BY <1>1, <3>2, <3>3
  <2> QED BY <2>1 DEF InOneHand
<1>12. KeptOK'
  <2>1. ASSUME NEW i \in Ids, i <= count, ~Overwritten(i)', "torn" \notin harm'[i], mem[p][i].status = "absent"
        PROVE  \E q \in Writers : at'[q] = "write" /\ mem'[q][i].status # "absent"
    <3>1. ~Overwritten(i) /\ "torn" \notin harm[i] /\ file[i] \in {Absent, mem[p][i]}
      BY <1>3, <2>1 DEF Overwritten
    <3>2. file[i].status = "absent"
      BY <2>1, <3>1 DEF Absent
    <3>3. PICK q \in Writers : at[q] = "write" /\ mem[q][i].status # "absent"
      BY <1>2, <2>1, <3>1, <3>2 DEF KeptOK
    <3>4. q # p
      BY <2>1, <3>3
    <3> QED BY <1>4, <3>3, <3>4
  <2> QED BY <1>1, <2>1 DEF KeptOK
<1>13. CancelledOK'
  <2>1. ASSUME NEW i \in told', ~Overwritten(i)'
        PROVE  /\ file'[i].status \in {"cancelled", "absent"}
               /\ \A q \in Writers : at'[q] = "write" => mem'[q][i].status \in {"cancelled", "absent"}
    <3>1. i \in Ids /\ ~Overwritten(i)
      BY <1>1, <1>2, <1>3, <1>5, <2>1 DEF Overwritten, TypeOK
    <3>2. CASE i \in told
      <4>1. \A q \in Writers : at[q] = "write" => mem[q][i].status \in {"cancelled", "absent"}
        BY <1>2, <3>1, <3>2 DEF CancelledOK
      <4> QED BY <1>1, <1>9, <4>1
    <3>3. CASE p = "cancel" /\ i = one
      <4>1. mem["cancel"][i].status = "cancelled"
        BY <1>1, <1>2, <3>3 DEF CopiesOK
      <4>2. \A q \in Writers \ {p} : at[q] = "write" => mem[q][i].status = "absent"
        BY <1>10, <3>1, <3>3, <4>1
      <4> QED BY <1>1, <1>9, <3>3, <4>1, <4>2
    <3> QED BY <1>1, <2>1, <3>2, <3>3
  <2> QED BY <2>1 DEF CancelledOK
<1>14. SentOK'
  <2>1. \A i \in Ids : Clean(i)' => Clean(i) /\ ~Overwritten(i)
    BY <1>3 DEF Clean, Overwritten
  <2>2. CASE p = "sender"
    <3>1. at'["cancel"] = at["cancel"] /\ mem'["cancel"] = mem["cancel"] /\ unsaved' = {}
      BY <1>1, <1>4, <2>2 DEF Writers
    <3>2. at'["sender"] # "off" => mem'["sender"] = mem["sender"]
      BY <1>4, <2>2
    <3>3. at["sender"] = "write" /\ file' = mem["sender"]
      BY <1>1, <2>2
    <3>4. ASSUME NEW i \in unsaved, Clean(i)', at["cancel"] = "write"
          PROVE  mem["cancel"][i].status = "absent"
      <4>1. i \in Ids /\ mem["sender"][i].status # "absent" /\ ~Overwritten(i)
        BY <1>2, <2>1, <3>4 DEF CopiesOK, TypeOK
      <4> QED BY <1>10, <2>2, <3>4, <4>1 DEF Writers
    <3>5. ASSUME NEW i \in Ids, NEW t \in Instants, Clean(i)'
          PROVE  /\ sent[i][t] <= 1
                 /\ sent[i][t] > 0 =>
                      /\ Settled(mem["sender"][i], t)
                      /\ at["cancel"] = "write" => Settled(mem["cancel"][i], t)
      <4>1. /\ sent[i][t] <= 1
            /\ sent[i][t] > 0 => /\ Settled(mem["sender"][i], t)
                                 /\ i \notin unsaved /\ at["cancel"] = "write" => Settled(mem["cancel"][i], t)
        BY <1>2, <2>1, <3>3, <3>5 DEF SentOK
      <4>2. i \in unsaved /\ at["cancel"] = "write" => Settled(mem["cancel"][i], t)
        BY <3>4, <3>5 DEF Settled
      <4> QED BY <4>1, <4>2
    <3> QED BY <1>1, <3>1, <3>2, <3>3, <3>5 DEF SentOK
  <2>3. CASE p = "cancel"
    <3>1. /\ at'["sender"] = at["sender"] /\ mem'["sender"] = mem["sender"] /\ unsaved' = unsaved
          /\ at'["cancel"] # "write" /\ at["cancel"] = "write" /\ file' = mem["cancel"]
      BY <1>1, <1>4, <2>3 DEF Writers
    <3> QED BY <1>1, <1>2, <2>1, <3>1 DEF SentOK
  <2> QED BY <2>2, <2>3 DEF Writers
<1> QED BY <1>6, <1>7, <1>8, <1>11, <1>12, <1>13, <1>14 DEF RemindersInv

LEMMA CrashKeeps ==
  ASSUME RemindersInv, NEW p \in Writers, Crash(p)
  PROVE  RemindersInv'
<1> DEFINE torn == {i \in Ids : at[p] = "write" /\ mem[p][i] # Absent}
           lost == IF p = "sender" THEN unsaved ELSE {}
<1>1. /\ faults < MaxFaults /\ faults' = faults + 1 /\ Ends(p)
      /\ unsaved' = IF p = "sender" THEN {} ELSE unsaved
      /\ harm' = [i \in Ids |-> harm[i] \cup (IF i \in torn THEN {"torn"} ELSE {})
                                        \cup (IF i \in lost THEN {"unrecorded"} ELSE {})]
      /\ UNCHANGED <<disk, count, sent, told>>
  BY DEF Crash
<1>2. TypeOK /\ FreshOK /\ CopiesOK /\ InOneHand /\ KeptOK /\ CancelledOK /\ SentOK
  BY DEF RemindersInv
<1>3. /\ harm' \in [Ids -> SUBSET Harms]
      /\ \A i \in Ids : Overwritten(i)' <=> Overwritten(i)
      /\ \A i \in Ids : "torn" \notin harm'[i] =>
           "torn" \notin harm[i] /\ (at[p] = "write" => mem[p][i].status = "absent")
      /\ \A i \in Ids : Clean(i)' => Clean(i) /\ (p = "sender" => i \notin unsaved)
  BY <1>1, <1>2 DEF TypeOK, Harms, Overwritten, Clean, Absent
<1> HIDE DEF torn, lost
<1>4. /\ \A q \in Writers \ {p} : at'[q] = at[q] /\ seen'[q] = seen[q] /\ mem'[q] = mem[q]
      /\ at'[p] = "off" /\ mem'[p] = NoFile /\ seen'[p] = NoFile
      /\ at' \in [Writers -> PCs] /\ at'["cancel"] \notin {"token", "item"}
      /\ seen' \in [Writers -> [Ids -> Record]] /\ mem' \in [Writers -> [Ids -> Record]]
      /\ todo' \subseteq todo /\ \A j \in todo' : p # "sender"
      /\ p # "cancel" => one' = one
      /\ one' \in Ids \cup {0}
  BY <1>1, <1>2, NoFileIsEmpty DEF Ends, TypeOK, PCs, Writers
<1>5. \A q \in Writers : at'[q] # "off" => q # p /\ at'[q] = at[q] /\ mem'[q] = mem[q]
  BY <1>4
<1>6. TypeOK'
  <2>1. faults' \in 0 .. MaxFaults
    BY <1>1, <1>2, ReminderAssumption DEF TypeOK, ReminderAssumption
  <2>2. todo' \subseteq Ids /\ unsaved' \subseteq Ids
    BY <1>1, <1>2, <1>4 DEF TypeOK
  <2> QED BY <1>1, <1>2, <1>3, <1>4, <2>1, <2>2 DEF TypeOK, disk
<1>7. FreshOK'
  <2>1. \A i \in Ids : i > count => \A q \in Writers : mem'[q][i].status = "absent" /\ seen'[q][i].status = "absent"
    BY <1>2, <1>4, NoFileIsEmpty DEF FreshOK
  <2> QED BY <1>1, <1>2, <2>1 DEF FreshOK, disk
<1>8. CopiesOK'
  <2>1. \A q \in Writers : \A i \in Ids : Follows(mem'[q][i], seen'[q][i])
    BY <1>2, <1>4, FollowsSelf DEF CopiesOK
  <2>2. \A i \in todo' : mem'["sender"][i].status = "pending" /\ mem'["sender"][i].due <= clock
    <3>1. p # "sender" => mem'["sender"] = mem["sender"]
      BY <1>4 DEF Writers
    <3> QED BY <1>2, <1>4, <3>1 DEF CopiesOK
  <2>3. \A i \in unsaved' : mem'["sender"][i].status # "absent" /\ at'["sender"] \in {"save", "write"}
    <3>1. p # "sender" => mem'["sender"] = mem["sender"] /\ at'["sender"] = at["sender"]
      BY <1>4 DEF Writers
    <3> QED BY <1>1, <1>2, <3>1 DEF CopiesOK
  <2>4. at'["cancel"] # "off" => one' \in Ids /\ one' <= count /\ mem'["cancel"][one'].status = "cancelled"
    <3>1. at'["cancel"] # "off" => p # "cancel" /\ at["cancel"] # "off" /\ mem'["cancel"] = mem["cancel"] /\ one' = one
      BY <1>4, <1>5 DEF Writers
    <3> QED BY <1>2, <3>1 DEF CopiesOK
  <2> QED BY <1>1, <2>1, <2>2, <2>3, <2>4 DEF CopiesOK, disk
<1>9. InOneHand'
  BY <1>1, <1>2, <1>3, <1>5 DEF InOneHand, disk
<1>10. KeptOK'
  <2>1. ASSUME NEW i \in Ids, i <= count, ~Overwritten(i), "torn" \notin harm'[i], file[i].status = "absent"
        PROVE  \E q \in Writers : at'[q] = "write" /\ mem'[q][i].status # "absent"
    <3>1. PICK q \in Writers : at[q] = "write" /\ mem[q][i].status # "absent"
      BY <1>2, <1>3, <2>1 DEF KeptOK
    <3>2. q # p
      BY <1>3, <2>1, <3>1
    <3> QED BY <1>4, <3>1, <3>2
  <2> QED BY <1>1, <1>3, <2>1 DEF KeptOK, disk
<1>11. CancelledOK'
  <2>1. told \subseteq Ids
    BY <1>2 DEF TypeOK
  <2> QED BY <1>1, <1>2, <1>3, <1>5, <2>1 DEF CancelledOK, disk
<1>12. SentOK'
  <2>1. ASSUME NEW i \in Ids, NEW t \in Instants, Clean(i)'
        PROVE  /\ sent[i][t] <= 1
               /\ sent[i][t] > 0 =>
                    /\ at'["sender"] # "off" => Settled(mem'["sender"][i], t)
                    /\ i \notin unsaved' =>
                         /\ Settled(file[i], t)
                         /\ at'["cancel"] = "write" => Settled(mem'["cancel"][i], t)
    <3>1. Clean(i) /\ (i \notin unsaved' => i \notin unsaved)
      BY <1>1, <1>3, <2>1
    <3>2. /\ at'["sender"] # "off" => at["sender"] # "off" /\ mem'["sender"] = mem["sender"]
          /\ at'["cancel"] = "write" => at["cancel"] = "write" /\ mem'["cancel"] = mem["cancel"]
      BY <1>5 DEF Writers
    <3> QED BY <1>2, <3>1, <3>2 DEF SentOK
  <2> QED BY <1>1, <2>1 DEF SentOK, disk
<1> QED BY <1>6, <1>7, <1>8, <1>9, <1>10, <1>11, <1>12 DEF RemindersInv

LEMMA StepKeeps == RemindersInv /\ [Next]_vars => RemindersInv'
<1> SUFFICES ASSUME RemindersInv, [Next]_vars PROVE RemindersInv'
  OBVIOUS
<1>1. CASE Tick
  <2>1. /\ clock < MaxTime /\ clock' = clock + 1
        /\ UNCHANGED <<file, procs, history>>
    BY <1>1 DEF Tick
  <2>2. clock' \in Times /\ \A n \in 0 .. MaxTime + 1 : n <= clock => n <= clock'
    BY <2>1, ReminderAssumption DEF RemindersInv, TypeOK, Times, ReminderAssumption
  <2>3. TypeOK'
    BY <2>1, <2>2 DEF RemindersInv, TypeOK, procs, history
  <2>4. CopiesOK'
    <3>1. \A i \in todo : mem["sender"][i].due \in 0 .. MaxTime + 1
      BY DEF RemindersInv, TypeOK, Record, Writers
    <3> QED BY <2>1, <2>2, <3>1 DEF RemindersInv, CopiesOK, procs, history
  <2>5. FreshOK' /\ InOneHand' /\ KeptOK' /\ CancelledOK'
    BY <2>1 DEF RemindersInv, FreshOK, InOneHand, KeptOK, CancelledOK, procs, history, Overwritten
  <2>6. SentOK'
    BY <2>1 DEF RemindersInv, SentOK, procs, history, Clean
  <2> QED BY <2>3, <2>4, <2>5, <2>6 DEF RemindersInv
<1>2. CASE UNCHANGED vars
  <2>1. UNCHANGED <<file, clock, procs, history>>
    BY <1>2 DEF vars, disk
  <2>2. TypeOK' /\ CopiesOK' /\ FreshOK'
    BY <2>1 DEF RemindersInv, TypeOK, CopiesOK, FreshOK, procs, history
  <2>3. InOneHand' /\ KeptOK' /\ CancelledOK'
    BY <2>1 DEF RemindersInv, InOneHand, KeptOK, CancelledOK, procs, history, Overwritten
  <2>4. SentOK'
    BY <2>1 DEF RemindersInv, SentOK, procs, history, Clean
  <2> QED BY <2>2, <2>3, <2>4 DEF RemindersInv
<1>3. ASSUME NEW x \in Plans, Add(x[1], x[2])
      PROVE  RemindersInv'
  BY <1>3, AddKeeps
<1>4. ASSUME NEW i \in Ids, Cancel(i) \/ Send(i) \/ Refuse(i) \/ Reject(i)
      PROVE  RemindersInv'
  BY <1>4, CancelKeeps, SendKeeps, RefuseKeeps, RejectKeeps
<1>5. CASE Load \/ NoToken
  BY <1>5, LoadKeeps, NoTokenKeeps
<1>6. ASSUME NEW p \in Writers, Truncate(p) \/ Write(p) \/ Crash(p)
      PROVE  RemindersInv'
  BY <1>6, TruncateKeeps, WriteKeeps, CrashKeeps
<1> QED BY <1>1, <1>2, <1>3, <1>4, <1>5, <1>6 DEF Next, Run

LEMMA Invariance == Spec => []RemindersInv
BY InitHolds, StepKeeps, PTL DEF Spec

-----------------------------------------------------------------------------
(* The theorems.                                                           *)

(* The file, the copies and the history keep their types.                  *)
THEOREM TypeCorrect == Spec => []TypeOK
<1>1. RemindersInv => TypeOK
  BY DEF RemindersInv
<1> QED BY <1>1, Invariance, PTL

(* No occurrence of a reminder is delivered twice, unless its delivery was *)
(* not recorded or an older copy was put back.                             *)
THEOREM DeliveredOnce == Spec => []SentOnce
<1>1. RemindersInv => SentOnce
  <2> SUFFICES ASSUME RemindersInv, NEW i \in Ids, NEW t \in Times, Clean(i)
               PROVE  ~(sent[i][t] > 1)
    BY DEF SentOnce, Clean
  <2>1. t \in Instants
    BY ReminderAssumption DEF Times, Instants, ReminderAssumption
  <2>2. sent[i][t] \in Nat
    <3>1. sent \in [Ids -> [0 .. MaxTime + 1 -> Nat]] /\ t \in 0 .. MaxTime + 1
      BY <2>1 DEF RemindersInv, TypeOK, Instants
    <3> QED BY <3>1
  <2>3. sent[i][t] <= 1
    BY <2>1 DEF RemindersInv, SentOK
  <2> QED BY <2>2, <2>3
<1> QED BY <1>1, Invariance, PTL

(* No registered reminder disappears, unless an older copy was put back or *)
(* a writer died with the file truncated.                                  *)
THEOREM RegisteredIsKept == Spec => []NoneLost
<1>1. RemindersInv => NoneLost
  <2> SUFFICES ASSUME RemindersInv, Whole, NEW i \in 1 .. count, file[i] = Absent,
                      ~Overwritten(i), "torn" \notin harm[i]
               PROVE  FALSE
    BY DEF NoneLost, Overwritten
  <2>1. i \in Ids /\ i <= count
    BY ReminderAssumption DEF RemindersInv, TypeOK, Ids, ReminderAssumption
  <2>2. file[i].status = "absent"
    BY DEF Absent
  <2> QED BY <2>1, <2>2 DEF RemindersInv, KeptOK, Whole
<1> QED BY <1>1, Invariance, PTL

(* A cancellation that was reported is undone only by an older copy.       *)
THEOREM CancelledIsCancelled == Spec => []CancelHolds
<1>1. RemindersInv => CancelHolds
  BY DEF RemindersInv, CancelledOK, CancelHolds, Overwritten
<1> QED BY <1>1, Invariance, PTL
=============================================================================
