---------------------------- MODULE ConfigStore ----------------------------
(***************************************************************************)
(* The writes of the admin API (packages/rtime-admin-api, app.py) and the  *)
(* transactions behind them (packages/rtime-admin-core, store.py).         *)
(*                                                                         *)
(* The configuration is two files: config.json for plain fields and        *)
(* secrets.json.  Each is replaced atomically, the pair is not.  A write   *)
(* holds the mutation guard (a thread lock and a lock on a file) from the  *)
(* comparison of the client's ETag to the answer: it takes a snapshot into *)
(* the history, cuts the history to MaxHistory, saves the files, appends   *)
(* to the audit log.  Each of these can fail, and the process can die.     *)
(*                                                                         *)
(* A client is a request at a time with the ETag it got last.  The ETag is *)
(* a digest of the content (142-160), so it is the content here.           *)
(* A field stands for all fields of its file.  Left out: validation of     *)
(* values, scopes, redaction, environment variables, the layer a reloaded  *)
(* profile puts below the files, and the round trip in which the deletion  *)
(* of a secret is confirmed (under the same ETag).                         *)
(***************************************************************************)
EXTENDS Integers, Sequences

CONSTANTS
  Clients,
  Values,      \* what a field can be set to
  Unset,       \* no value in the file: a layer below decides
  NoOne,
  MaxHistory,  \* max_history, at least 1
  MaxFaults    \* bound: failing writes and crashes together

ASSUME ConfigAssumption ==
  /\ Unset \notin Values
  /\ NoOne \notin Clients
  /\ MaxHistory \in Nat \ {0}
  /\ MaxFaults \in Nat

Fields  == {"plain", "secret"}
Content == [Fields -> Values \cup {Unset}]
Empty   == [f \in Fields |-> Unset]

VARIABLES
  disk,     \* the two files
  history,  \* the snapshots, oldest first
  broken,   \* one of them was cut short: no later snapshot can be added
  guard,    \* who holds the mutation guard
  at,       \* where each client's request is
  op, pre, goal,  \* of the request: its verb, the content it found and the
                  \* one it wants,
  named, left,    \* the fields its audit line names, the files to be written
  tag,      \* the ETag each client holds
  reply,    \* the last answer to each client
  (* What the audit log says, and what it cannot say. *)
  trail,    \* each field as of the last successful line that names it
  blame,    \* fields that a fault may have set apart from their line
  faults

files   == <<disk, history, broken>>
request == <<op, pre, goal, named, left>>
vars    == <<files, guard, at, request, tag, reply, trail, blame, faults>>

Verbs  == {"patch", "unset", "rollback", "reload"}
Stages == {"idle", "snap", "prune", "save", "undo", "audit", "audit_error"}
Files  == {{}, {"plain"}, {"secret"}, Fields}

TypeOK ==
  /\ disk \in Content
  /\ history \in Seq(Content)
  /\ broken \in BOOLEAN
  /\ guard \in Clients \cup {NoOne}
  /\ at \in [Clients -> Stages]
  /\ op \in [Clients -> Verbs]
  /\ pre \in [Clients -> Content]
  /\ goal \in [Clients -> Content]
  /\ named \in [Clients -> Files]
  /\ left \in [Clients -> Files]
  /\ tag \in [Clients -> Content]
  /\ reply \in [Clients -> {"none", "ok", "error"}]
  /\ trail \in Content
  /\ blame \in Files
  /\ faults \in 0 .. MaxFaults

Init ==
  /\ disk = Empty
  /\ history = <<>>
  /\ broken = FALSE
  /\ guard = NoOne
  /\ at = [c \in Clients |-> "idle"]
  /\ op = [c \in Clients |-> "reload"]
  /\ pre = [c \in Clients |-> Empty]
  /\ goal = [c \in Clients |-> Empty]
  /\ named = [c \in Clients |-> {}]
  /\ left = [c \in Clients |-> {}]
  /\ tag = [c \in Clients |-> Empty]
  /\ reply = [c \in Clients |-> "none"]
  /\ trail = Empty
  /\ blame = {}
  /\ faults = 0

-----------------------------------------------------------------------------
(* Reading.                                                                *)

(* GET /v1/config: the values and their ETag, under the guard.             *)
Look(c) ==
  /\ at[c] = "idle"
  /\ guard = NoOne
  /\ tag' = [tag EXCEPT ![c] = disk]
  /\ UNCHANGED <<files, guard, at, request, reply, trail, blame, faults>>

-----------------------------------------------------------------------------
(* A write begins: the guard, then the ETag.                               *)

(* Wrong variant of MayEnter: no lock.                                     *)
Unguarded == TRUE

MayEnter == guard = NoOne

(* Wrong variant of EtagMatches: If-Match: *.                              *)
AnyTag(c) == TRUE

EtagMatches(c) == tag[c] = disk

Enter(c, verb, wanted, names, writes) ==
  /\ at[c] = "idle"
  /\ MayEnter
  /\ guard' = c
  /\ at' = [at EXCEPT ![c] = "snap"]
  /\ op' = [op EXCEPT ![c] = verb]
  /\ pre' = [pre EXCEPT ![c] = disk]
  /\ goal' = [goal EXCEPT ![c] = wanted]
  /\ named' = [named EXCEPT ![c] = names]
  /\ left' = [left EXCEPT ![c] = writes]
  /\ reply' = [reply EXCEPT ![c] = "none"]
  /\ UNCHANGED <<files, tag, trail, blame, faults>>

(* PATCH: some fields to some values.                                      *)
Patch(c, S, v) ==
  /\ S # {}
  /\ EtagMatches(c)
  /\ Enter(c, "patch", [f \in Fields |-> IF f \in S THEN v[f] ELSE disk[f]], S, S)

(* DELETE: a field that is not stored is left alone, on the record.        *)
Delete(c, f) ==
  /\ EtagMatches(c)
  /\ Enter(c, "unset", [disk EXCEPT ![f] = Unset], {f},
           IF disk[f] = Unset THEN {} ELSE {f})

(* POST rollback: both files, from a snapshot read before the next one is  *)
(* taken.                                                                  *)
Rollback(c, k) ==
  /\ EtagMatches(c)
  /\ Enter(c, "rollback", history[k], {f \in Fields : history[k][f] # disk[f]}, Fields)

(* POST reload of a profile: no If-Match, and no file changes.             *)
Reload(c) == Enter(c, "reload", disk, {}, {})

-----------------------------------------------------------------------------
(* The transaction.                                                        *)

(* The end of a request, answered or not: the guard is free.               *)
Release(c, answer) ==
  /\ guard' = NoOne
  /\ at' = [at EXCEPT ![c] = "idle"]
  /\ op' = [op EXCEPT ![c] = "reload"]
  /\ pre' = [pre EXCEPT ![c] = Empty]
  /\ goal' = [goal EXCEPT ![c] = Empty]
  /\ named' = [named EXCEPT ![c] = {}]
  /\ left' = [left EXCEPT ![c] = {}]
  /\ reply' = [reply EXCEPT ![c] = answer]

Fault == faults < MaxFaults /\ faults' = faults + 1

GoTo(c, stage) == at' = [at EXCEPT ![c] = stage]

(* FileHistory.add reads every snapshot first (is the id a new one?).      *)
AddSnapshot(c) ==
  /\ at[c] = "snap"
  /\ ~broken
  /\ history' = Append(history, disk)
  /\ GoTo(c, "prune")
  /\ UNCHANGED <<disk, broken, guard, request, tag, reply, trail, blame, faults>>

(* Only the newest MaxHistory of them stay.                                *)
Newest(h) == IF Len(h) > MaxHistory THEN SubSeq(h, Len(h) - MaxHistory + 1, Len(h)) ELSE h

Prune(c) ==
  /\ at[c] = "prune"
  /\ history' = Newest(history)
  /\ GoTo(c, IF left[c] = {} THEN "audit" ELSE "save")
  /\ UNCHANGED <<disk, broken, guard, request, tag, reply, trail, blame, faults>>

(* Adding or pruning raises; the file of the new snapshot may be left cut  *)
(* short.  patch and unset put the failure on record; rollback, reload and *)
(* an unset with nothing to do do not.                                     *)
SnapshotFails(c) ==
  /\ \/ at[c] = "snap" /\ broken /\ UNCHANGED <<broken, faults>>
     \/ at[c] = "snap" /\ Fault /\ broken' \in {broken, TRUE}
     \/ at[c] = "prune" /\ Fault /\ UNCHANGED broken
  /\ IF op[c] \in {"patch", "unset"} /\ left[c] # {}
     THEN GoTo(c, "audit_error") /\ UNCHANGED <<guard, request, reply>>
     ELSE Release(c, "error")
  /\ UNCHANGED <<disk, history, tag, trail, blame>>

(* config.json is written before secrets.json.                             *)
Current(c) == IF "plain" \in left[c] THEN "plain" ELSE "secret"

Save(c) ==
  /\ at[c] = "save"
  /\ disk' = [disk EXCEPT ![Current(c)] = goal[c][Current(c)]]
  /\ left' = [left EXCEPT ![c] = @ \ {Current(c)}]
  /\ GoTo(c, IF left[c] = {Current(c)} THEN "audit" ELSE "save")
  /\ UNCHANGED <<history, broken, guard, op, pre, goal, named, tag, reply, trail, blame, faults>>

(* patch and unset write back what they found; rollback just raises.       *)
SaveFails(c) ==
  /\ at[c] = "save"
  /\ Fault
  /\ IF op[c] = "rollback"
     THEN Release(c, "error") /\ blame' = blame \cup named[c]
     ELSE /\ GoTo(c, "undo")
          /\ left' = [left EXCEPT ![c] = Fields]
          /\ UNCHANGED <<guard, op, pre, goal, named, reply, blame>>
  /\ UNCHANGED <<files, tag, trail>>

(* _restore_persisted: a write that fails is passed over.  Wrong variant   *)
(* of Restored: only secrets.json is written back.                         *)
SecretOnly(c, f) == IF f = "secret" THEN pre[c][f] ELSE disk[f]

Restored(c, f) == pre[c][f]

Undo(c) ==
  /\ at[c] = "undo"
  /\ \/ /\ disk' = [disk EXCEPT ![Current(c)] = Restored(c, Current(c))]
        /\ UNCHANGED <<blame, faults>>
     \/ /\ Fault
        /\ blame' = blame \cup {Current(c)}
        /\ UNCHANGED disk
  /\ left' = [left EXCEPT ![c] = @ \ {Current(c)}]
  /\ GoTo(c, IF left[c] = {Current(c)} THEN "audit_error" ELSE "undo")
  /\ UNCHANGED <<history, broken, guard, op, pre, goal, named, tag, reply, trail>>

(* The line that ends a write that went well, and the answer with its ETag. *)
Audit(c) ==
  /\ at[c] = "audit"
  /\ trail' = [f \in Fields |-> IF f \in named[c] THEN goal[c][f] ELSE trail[f]]
  /\ blame' = blame \ named[c]
  /\ Release(c, "ok")
  /\ tag' = [tag EXCEPT ![c] = disk]
  /\ UNCHANGED <<files, faults>>

AuditError(c) ==
  /\ at[c] = "audit_error"
  /\ Release(c, "error")
  /\ UNCHANGED <<files, tag, trail, blame, faults>>

(* The line cannot be written: the answer is an error, whatever was done.  *)
AuditFails(c) ==
  /\ at[c] \in {"audit", "audit_error"}
  /\ Fault
  /\ Release(c, "error")
  /\ blame' = IF at[c] = "audit" THEN blame \cup named[c] ELSE blame
  /\ UNCHANGED <<files, tag, trail>>

(* The process dies; the lock goes with it.                                *)
Crash(c) ==
  /\ at[c] # "idle"
  /\ Fault
  /\ Release(c, "none")
  /\ broken' \in IF at[c] = "snap" THEN {broken, TRUE} ELSE {broken}
  /\ blame' = IF at[c] \in {"save", "undo", "audit"} THEN blame \cup named[c] ELSE blame
  /\ UNCHANGED <<disk, history, tag, trail>>

-----------------------------------------------------------------------------
Begin(c) ==
  \/ \E S \in Files : \E v \in [Fields -> Values] : Patch(c, S, v)
  \/ \E f \in Fields : Delete(c, f)
  \/ \E k \in 1 .. Len(history) : Rollback(c, k)
  \/ Reload(c)

Step(c) ==
  \/ AddSnapshot(c) \/ Prune(c) \/ SnapshotFails(c)
  \/ Save(c) \/ SaveFails(c) \/ Undo(c)
  \/ Audit(c) \/ AuditError(c) \/ AuditFails(c) \/ Crash(c)

Next == \E c \in Clients : Look(c) \/ Begin(c) \/ Step(c)

Spec == Init /\ [][Next]_vars

-----------------------------------------------------------------------------
(* Properties.                                                             *)

(* What an answer says is so.  "ok": the content is what was asked for,    *)
(* and a snapshot of what it replaced is the newest of the history.  An    *)
(* error: the content is what it was, except in fields on which a rollback *)
(* broke off, a compensation failed or the audit log could not be written. *)
OutcomeIsTrue ==
  [][\A c \in Clients : at[c] # "idle" /\ at'[c] = "idle" =>
       /\ reply'[c] = "ok" => /\ disk' = goal[c]
                              /\ history'[Len(history')] = pre[c]
       /\ reply'[c] = "error" => \A f \in Fields \ blame' : disk'[f] = pre[c][f]]_vars

(* The audit log tells the whole story: between requests each field is     *)
(* what the last successful line that names it says, except after one of   *)
(* those faults or a crash.                                                *)
AuditTellsAll == guard = NoOne => \A f \in Fields \ blame : disk[f] = trail[f]

(* Until a write is over, readers of the promise see the content it found. *)
InWrite == guard # NoOne /\ at[guard] \in {"save", "undo"}

Register == INSTANCE ConfigRegister WITH
  Start   <- Empty,
  None    <- NoOne,
  content <- IF InWrite THEN pre[guard] ELSE disk,
  newest  <- IF history = <<>> THEN NoOne ELSE history[Len(history)],
  seen    <- tag

(* No update is lost, and none is made that cannot be undone, whatever     *)
(* fails and wherever the process dies: the store implements the register. *)
RegisterSpec == Register!Spec
=============================================================================
