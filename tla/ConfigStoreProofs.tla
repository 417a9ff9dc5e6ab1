------------------------- MODULE ConfigStoreProofs -------------------------
(***************************************************************************)
(* Proofs about the configuration store, for any clients, any values, any  *)
(* length of the history and any number of faults.                         *)
(*                                                                         *)
(* StoreInv says what the holder of the guard can rely on at each stage:   *)
(* how far the files are from what it found and what it wants, and that    *)
(* the newest snapshot is what it found.                                   *)
(***************************************************************************)
EXTENDS ConfigStore, TLAPS

(* Who is not idle holds the guard.                                        *)
OneHolder == \A c \in Clients : at[c] # "idle" <=> guard = c

(* Only a reload comes without an ETag, and it changes nothing.            *)
Entitled(c) ==
  /\ op[c] # "reload" => tag[c] = pre[c]
  /\ op[c] = "reload" => left[c] = {}
  /\ at[c] \in {"save", "undo"} => op[c] # "reload"
  /\ \A f \in Fields : f \notin named[c] => goal[c][f] = pre[c][f]

(* The files at each stage.                                                *)
InFiles(c) ==
  /\ at[c] \in {"snap", "prune"} =>
       \A f \in Fields : /\ disk[f] = pre[c][f]
                         /\ f \notin left[c] => goal[c][f] = pre[c][f]
  /\ at[c] \in {"save", "undo"} => left[c] # {}
  /\ at[c] = "save" =>
       \A f \in Fields : disk[f] = IF f \in left[c] THEN pre[c][f] ELSE goal[c][f]
  /\ at[c] = "audit" => disk = goal[c]
  /\ at[c] = "undo" =>
       \A f \in Fields : /\ f \notin left[c] \cup blame => disk[f] = pre[c][f]
                         /\ f \notin named[c] => disk[f] = pre[c][f]
  /\ at[c] = "audit_error" => \A f \in Fields \ blame : disk[f] = pre[c][f]

(* What is replaced can be had back.                                       *)
KeptIt(c) ==
  at[c] \in {"prune", "save", "undo", "audit"} =>
    Len(history) > 0 /\ history[Len(history)] = pre[c]

(* The audit log, up to the request that is under way.                     *)
Story ==
  /\ guard = NoOne => \A f \in Fields \ blame : disk[f] = trail[f]
  /\ guard # NoOne => \A f \in Fields \ blame : pre[guard][f] = trail[f]

StoreInv ==
  /\ OneHolder
  /\ \A c \in Clients : at[c] # "idle" => Entitled(c) /\ InFiles(c) /\ KeptIt(c)
  /\ Story

-----------------------------------------------------------------------------
LEMMA NewestKeepsLast ==
  ASSUME NEW h \in Seq(Content), Len(h) > 0
  PROVE  /\ Newest(h) \in Seq(Content)
         /\ Len(Newest(h)) > 0
         /\ Newest(h)[Len(Newest(h))] = h[Len(h)]
<1> USE ConfigAssumption
<1>1. CASE Len(h) > MaxHistory
  <2> DEFINE m == Len(h) - MaxHistory + 1
  <2>1. m \in 1 .. Len(h) /\ Newest(h) = SubSeq(h, m, Len(h))
    BY <1>1 DEF Newest
  <2> HIDE DEF m
  <2>2. SubSeq(h, m, Len(h)) \in Seq(Content)
    BY <2>1
  <2>3. Len(SubSeq(h, m, Len(h))) = Len(h) - m + 1
    BY <2>1
  <2>4. SubSeq(h, m, Len(h))[Len(h) - m + 1] = h[m + (Len(h) - m + 1) - 1]
    BY <2>1
  <2> QED
    BY <2>1, <2>2, <2>3, <2>4
<1>2. CASE ~ (Len(h) > MaxHistory)
  BY <1>2 DEF Newest
<1> QED
  BY <1>1, <1>2

LEMMA FirstOfLeft ==
  ASSUME NEW c \in Clients, left \in [Clients -> Files], left[c] # {}
  PROVE  /\ Current(c) \in left[c]
         /\ Current(c) \in Fields
         /\ left[c] \ {Current(c)} \in Files
         /\ left[c] \subseteq Fields
BY DEF Files, Fields, Current

(* Type correctness.                                                       *)
LEMMA InitType == Init => TypeOK
<1>1. Empty \in Content /\ {} \in Files /\ "idle" \in Stages /\ "reload" \in Verbs
  BY DEF Empty, Content, Files, Stages, Verbs
<1>2. <<>> \in Seq(Content) /\ 0 \in 0 .. MaxFaults
  BY ConfigAssumption
<1> SUFFICES ASSUME Init PROVE TypeOK
  OBVIOUS
<1>3. /\ disk \in Content /\ history \in Seq(Content) /\ trail \in Content /\ blame \in Files
      /\ broken \in BOOLEAN /\ guard \in Clients \cup {NoOne} /\ faults \in 0 .. MaxFaults
  BY <1>1, <1>2 DEF Init
<1>4. /\ at \in [Clients -> Stages] /\ op \in [Clients -> Verbs]
      /\ pre \in [Clients -> Content] /\ goal \in [Clients -> Content]
  BY <1>1 DEF Init
<1>5. /\ named \in [Clients -> Files] /\ left \in [Clients -> Files]
      /\ tag \in [Clients -> Content]
      /\ reply \in [Clients -> {"none", "ok", "error"}]
  BY <1>1 DEF Init
<1> QED
  BY <1>3, <1>4, <1>5 DEF TypeOK

LEMMA ReleaseType ==
  ASSUME TypeOK, NEW c \in Clients, NEW a \in {"none", "ok", "error"}, Release(c, a)
  PROVE  /\ guard' \in Clients \cup {NoOne}
         /\ at' \in [Clients -> Stages]
         /\ op' \in [Clients -> Verbs]
         /\ pre' \in [Clients -> Content]
         /\ goal' \in [Clients -> Content]
         /\ named' \in [Clients -> Files]
         /\ left' \in [Clients -> Files]
         /\ reply' \in [Clients -> {"none", "ok", "error"}]
<1>1. Empty \in Content /\ {} \in Files /\ "idle" \in Stages /\ "reload" \in Verbs
  BY DEF Empty, Content, Files, Stages, Verbs
<1> QED
  BY <1>1 DEF TypeOK, Release

LEMMA EnterType ==
  ASSUME TypeOK, NEW c \in Clients, NEW verb \in Verbs, NEW wanted \in Content,
         NEW names \in Files, NEW writes \in Files, Enter(c, verb, wanted, names, writes)
  PROVE  TypeOK'
<1>1. "snap" \in Stages
  BY DEF Stages
<1> QED
  BY <1>1 DEF TypeOK, Enter, files

LEMMA BeginIsEnter ==
  ASSUME TypeOK, NEW c \in Clients, Begin(c)
  PROVE  \E verb \in Verbs, wanted \in Content, names \in Files, writes \in Files :
           /\ Enter(c, verb, wanted, names, writes)
           /\ verb # "reload" => tag[c] = disk
           /\ verb = "reload" => writes = {}
           /\ \A f \in Fields : f \notin names => wanted[f] = disk[f]
           /\ \A f \in Fields : f \notin writes => wanted[f] = disk[f]
<1>1. ASSUME NEW S \in Files, NEW v \in [Fields -> Values], Patch(c, S, v)
      PROVE  Enter(c, "patch", [f \in Fields |-> IF f \in S THEN v[f] ELSE disk[f]], S, S)
             /\ [f \in Fields |-> IF f \in S THEN v[f] ELSE disk[f]] \in Content
             /\ tag[c] = disk
  BY <1>1 DEF Patch, EtagMatches, Content, TypeOK
<1>2. ASSUME NEW f \in Fields, Delete(c, f)
      PROVE  /\ Enter(c, "unset", [disk EXCEPT ![f] = Unset], {f},
                      IF disk[f] = Unset THEN {} ELSE {f})
             /\ [disk EXCEPT ![f] = Unset] \in Content
             /\ {f} \in Files /\ {} \in Files
             /\ \A g \in Fields : g \notin (IF disk[f] = Unset THEN {} ELSE {f}) =>
                  [disk EXCEPT ![f] = Unset][g] = disk[g]
             /\ tag[c] = disk
  BY <1>2 DEF Delete, EtagMatches, Content, TypeOK, Fields, Files
<1>3. ASSUME NEW k \in 1 .. Len(history), Rollback(c, k)
      PROVE  /\ Enter(c, "rollback", history[k], {f \in Fields : history[k][f] # disk[f]}, Fields)
             /\ history[k] \in Content
             /\ {f \in Fields : history[k][f] # disk[f]} \in Files /\ Fields \in Files
             /\ tag[c] = disk
  <2>1. history[k] \in Content
    BY <1>3 DEF TypeOK
  <2>2. \A T \in SUBSET Fields : T \in Files
    BY DEF Fields, Files
  <2> QED
    BY <1>3, <2>1, <2>2 DEF Rollback, EtagMatches
<1>4. ASSUME Reload(c)
      PROVE  Enter(c, "reload", disk, {}, {}) /\ disk \in Content /\ {} \in Files
  BY <1>4 DEF Reload, TypeOK, Files
<1>5. "patch" \in Verbs /\ "unset" \in Verbs /\ "rollback" \in Verbs /\ "reload" \in Verbs
  BY DEF Verbs
<1>6. CASE \E S \in Files : \E v \in [Fields -> Values] : Patch(c, S, v)
  <2>1. PICK S \in Files, v \in [Fields -> Values] : Patch(c, S, v)
    BY <1>6
  <2> DEFINE w == [f \in Fields |-> IF f \in S THEN v[f] ELSE disk[f]]
  <2>2. w \in Content /\ Enter(c, "patch", w, S, S) /\ tag[c] = disk
    BY <1>1, <2>1
  <2>3. \A f \in Fields : f \notin S => w[f] = disk[f]
    OBVIOUS
  <2> HIDE DEF w
  <2> QED
    BY <1>5, <2>2, <2>3
<1>7. CASE \E f \in Fields : Delete(c, f)
  <2>1. PICK f \in Fields : Delete(c, f)
    BY <1>7
  <2> DEFINE w == [disk EXCEPT ![f] = Unset]
             s == IF disk[f] = Unset THEN {} ELSE {f}
  <2>2. /\ w \in Content /\ s \in Files /\ {f} \in Files
        /\ Enter(c, "unset", w, {f}, s) /\ tag[c] = disk
    BY <1>2, <2>1
  <2>3. /\ \A g \in Fields : g \notin {f} => w[g] = disk[g]
        /\ \A g \in Fields : g \notin s => w[g] = disk[g]
    BY <1>2, <2>1 DEF TypeOK, Content
  <2> HIDE DEF w, s
  <2> QED
    BY <1>5, <2>2, <2>3
<1>8. CASE \E k \in 1 .. Len(history) : Rollback(c, k)
  <2>1. PICK k \in 1 .. Len(history) : Rollback(c, k)
    BY <1>8
  <2> DEFINE n == {f \in Fields : history[k][f] # disk[f]}
  <2>2. /\ history[k] \in Content /\ n \in Files /\ Fields \in Files
        /\ Enter(c, "rollback", history[k], n, Fields) /\ tag[c] = disk
    BY <1>3, <2>1
  <2>3. \A f \in Fields : f \notin n => history[k][f] = disk[f]
    OBVIOUS
  <2> HIDE DEF n
  <2> QED
    BY <1>5, <2>2, <2>3
<1>9. CASE Reload(c)
  BY <1>4, <1>5, <1>9
<1> QED
  BY <1>6, <1>7, <1>8, <1>9 DEF Begin

LEMMA StepType ==
  ASSUME TypeOK, NEW c \in Clients, Step(c)
  PROVE  TypeOK'
<1>1. "prune" \in Stages /\ "audit" \in Stages /\ "save" \in Stages
      /\ "undo" \in Stages /\ "audit_error" \in Stages /\ Fields \in Files
  BY DEF Stages, Files
<1>2. \A S \in Files : \A T \in Files : S \cup T \in Files /\ S \ T \in Files
  BY DEF Files, Fields
<1>3. ASSUME Fault PROVE faults' \in 0 .. MaxFaults
  BY <1>3, ConfigAssumption DEF Fault, TypeOK
<1>4. ASSUME AddSnapshot(c) PROVE TypeOK'
  BY <1>1, <1>4 DEF AddSnapshot, GoTo, TypeOK, request
<1>5. ASSUME Prune(c) PROVE TypeOK'
  <2>1. Newest(history) \in Seq(Content)
    <3>1. CASE Len(history) > 0
      BY <3>1, NewestKeepsLast DEF TypeOK
    <3>2. CASE ~ (Len(history) > 0)
      BY <3>2, ConfigAssumption DEF Newest, TypeOK
    <3> QED
      BY <3>1, <3>2
  <2> QED
    BY <1>1, <1>5, <2>1 DEF Prune, GoTo, TypeOK, request
<1>6. ASSUME SnapshotFails(c) PROVE TypeOK'
  <2>1. broken' \in BOOLEAN /\ faults' \in 0 .. MaxFaults
    BY <1>3, <1>6 DEF SnapshotFails, TypeOK
  <2>2. CASE GoTo(c, "audit_error") /\ UNCHANGED <<guard, request, reply>>
    BY <1>1, <1>6, <2>1, <2>2 DEF SnapshotFails, GoTo, TypeOK, request
  <2>3. CASE Release(c, "error")
    BY <1>6, <2>1, <2>3, ReleaseType DEF SnapshotFails, TypeOK
  <2> QED
    BY <1>6, <2>2, <2>3 DEF SnapshotFails
<1>7. ASSUME NEW f \in Fields, NEW x \in Content PROVE [disk EXCEPT ![f] = x[f]] \in Content
  BY DEF TypeOK, Content
<1>8. Current(c) \in Fields /\ {Current(c)} \in Files /\ pre[c] \in Content /\ goal[c] \in Content
  BY DEF Current, Fields, Files, TypeOK
<1>9. ASSUME Save(c) PROVE TypeOK'
  <2>1. disk' \in Content
    BY <1>7, <1>8, <1>9 DEF Save
  <2>2. left' \in [Clients -> Files]
    BY <1>2, <1>8, <1>9 DEF Save, TypeOK
  <2> QED
    BY <1>1, <1>9, <2>1, <2>2 DEF Save, GoTo, TypeOK
<1>10. ASSUME SaveFails(c) PROVE TypeOK'
  <2>1. CASE Release(c, "error") /\ blame' = blame \cup named[c]
    <3>1. blame' \in Files
      BY <1>2, <2>1 DEF TypeOK
    <3> QED
      BY <1>3, <1>10, <2>1, <3>1, ReleaseType DEF SaveFails, TypeOK, files
  <2>2. CASE GoTo(c, "undo") /\ left' = [left EXCEPT ![c] = Fields]
             /\ UNCHANGED <<guard, op, pre, goal, named, reply, blame>>
    BY <1>1, <1>3, <1>10, <2>2 DEF SaveFails, GoTo, TypeOK, files
  <2> QED
    BY <1>10, <2>1, <2>2 DEF SaveFails
<1>11. ASSUME Undo(c) PROVE TypeOK'
  <2>1. disk' \in Content
    BY <1>7, <1>8, <1>11 DEF Undo, Restored, TypeOK
  <2>2. left' \in [Clients -> Files] /\ blame' \in Files /\ faults' \in 0 .. MaxFaults
    BY <1>2, <1>3, <1>8, <1>11 DEF Undo, TypeOK
  <2> QED
    BY <1>1, <1>11, <2>1, <2>2 DEF Undo, GoTo, TypeOK
<1>12. ASSUME Audit(c) PROVE TypeOK'
  <2>1. trail' \in Content
    BY <1>8, <1>12 DEF Audit, TypeOK, Content
  <2>2. blame' \in Files /\ tag' \in [Clients -> Content]
    BY <1>2, <1>12 DEF Audit, TypeOK
  <2> QED
    BY <1>12, <2>1, <2>2, ReleaseType DEF Audit, TypeOK, files
<1>13. ASSUME AuditError(c) PROVE TypeOK'
  BY <1>13, ReleaseType DEF AuditError, TypeOK, files
<1>14. ASSUME AuditFails(c) PROVE TypeOK'
  <2>1. blame' \in Files
    BY <1>2, <1>14 DEF AuditFails, TypeOK
  <2> QED
    BY <1>3, <1>14, <2>1, ReleaseType DEF AuditFails, TypeOK, files
<1>15. ASSUME Crash(c) PROVE TypeOK'
  <2>1. blame' \in Files /\ broken' \in BOOLEAN
    BY <1>2, <1>15 DEF Crash, TypeOK
  <2> QED
    BY <1>3, <1>15, <2>1, ReleaseType DEF Crash, TypeOK
<1> QED
  BY <1>4, <1>5, <1>6, <1>9, <1>10, <1>11, <1>12, <1>13, <1>14, <1>15 DEF Step

LEMMA NextType == TypeOK /\ [Next]_vars => TypeOK'
<1> SUFFICES ASSUME TypeOK, [Next]_vars PROVE TypeOK'
  OBVIOUS
<1>1. CASE UNCHANGED vars
  BY <1>1 DEF vars, files, request, TypeOK
<1>2. ASSUME NEW c \in Clients, Look(c) PROVE TypeOK'
  BY <1>2 DEF Look, TypeOK, files, request
<1>3. ASSUME NEW c \in Clients, Begin(c) PROVE TypeOK'
  BY <1>3, BeginIsEnter, EnterType
<1> QED
  BY <1>1, <1>2, <1>3, StepType DEF Next

(* The store's variables keep their types (packages/rtime-admin-core,      *)
(* store.py), whatever fails.                                              *)
THEOREM StoreTypeOK == Spec => []TypeOK
BY InitType, NextType, PTL DEF Spec

-----------------------------------------------------------------------------
(* The invariant.                                                          *)

LEMMA InitInv == Init => StoreInv
BY ConfigAssumption DEF Init, StoreInv, OneHolder, Story, Empty

LEMMA HeldByOne ==
  ASSUME OneHolder, NEW c \in Clients, at[c] # "idle"
  PROVE  guard = c /\ guard # NoOne /\ \A d \in Clients : d # c => at[d] = "idle"
BY ConfigAssumption DEF OneHolder

(* The invariant while c goes on, and when it has let go.                  *)
LEMMA GoesOn ==
  ASSUME NEW c \in Clients, guard' = c, at'[c] # "idle",
         \A d \in Clients : d # c => at'[d] = "idle",
         Entitled(c)', InFiles(c)', KeptIt(c)',
         \A f \in Fields \ blame' : pre'[c][f] = trail'[f]
  PROVE  StoreInv'
BY ConfigAssumption DEF StoreInv, OneHolder, Story

LEMMA LetsGo ==
  ASSUME guard' = NoOne, \A d \in Clients : at'[d] = "idle",
         \A f \in Fields \ blame' : disk'[f] = trail'[f]
  PROVE  StoreInv'
BY ConfigAssumption DEF StoreInv, OneHolder, Story

LEMMA ReleaseFrees ==
  ASSUME TypeOK, OneHolder, NEW c \in Clients, at[c] # "idle", NEW a, Release(c, a)
  PROVE  guard' = NoOne /\ \A d \in Clients : at'[d] = "idle"
BY HeldByOne DEF Release, TypeOK

LEMMA EnterInv ==
  ASSUME TypeOK, StoreInv, NEW c \in Clients, Begin(c)
  PROVE  StoreInv'
<1>1. PICK verb \in Verbs, wanted \in Content, names \in Files, writes \in Files :
        /\ Enter(c, verb, wanted, names, writes)
        /\ verb # "reload" => tag[c] = disk
        /\ verb = "reload" => writes = {}
        /\ \A f \in Fields : f \notin names => wanted[f] = disk[f]
        /\ \A f \in Fields : f \notin writes => wanted[f] = disk[f]
  BY BeginIsEnter
<1>2. guard = NoOne /\ \A d \in Clients : at[d] = "idle"
  BY <1>1, ConfigAssumption DEF Enter, MayEnter, StoreInv, OneHolder
<1>3. /\ guard' = c /\ at'[c] = "snap" /\ op'[c] = verb /\ pre'[c] = disk
      /\ goal'[c] = wanted /\ named'[c] = names /\ left'[c] = writes
      /\ disk' = disk /\ tag' = tag /\ trail' = trail /\ blame' = blame
      /\ \A d \in Clients : d # c => at'[d] = at[d]
  BY <1>1 DEF Enter, TypeOK, files
<1>4. Entitled(c)' /\ InFiles(c)' /\ KeptIt(c)'
  BY <1>1, <1>3 DEF Entitled, InFiles, KeptIt
<1>5. \A f \in Fields \ blame' : pre'[c][f] = trail'[f]
  BY <1>2, <1>3 DEF StoreInv, Story
<1> QED
  BY <1>2, <1>3, <1>4, <1>5, GoesOn

(* What the invariant says of the client that holds the guard.             *)
LEMMA Holding ==
  ASSUME StoreInv, NEW c \in Clients, at[c] # "idle"
  PROVE  /\ OneHolder /\ guard = c /\ \A d \in Clients : d # c => at[d] = "idle"
         /\ Entitled(c) /\ InFiles(c) /\ KeptIt(c)
         /\ \A f \in Fields \ blame : pre[c][f] = trail[f]
BY HeldByOne DEF StoreInv, Story

LEMMA AddSnapshotInv ==
  ASSUME TypeOK, StoreInv, NEW c \in Clients, AddSnapshot(c)
  PROVE  StoreInv'
<1>1. at[c] = "snap" /\ at'[c] = "prune" /\ \A d \in Clients : d # c => at'[d] = at[d]
  BY DEF AddSnapshot, GoTo, TypeOK
<1>2. /\ disk' = disk /\ guard' = guard /\ tag' = tag /\ trail' = trail /\ blame' = blame
      /\ op' = op /\ pre' = pre /\ goal' = goal /\ named' = named /\ left' = left
  BY DEF AddSnapshot, request
<1>3. Len(history') > 0 /\ history'[Len(history')] = disk
  BY DEF AddSnapshot, TypeOK
<1>4. disk = pre[c]
  <2>1. \A f \in Fields : disk[f] = pre[c][f]
    BY <1>1, Holding DEF InFiles
  <2> QED
    BY <2>1 DEF TypeOK, Content
<1>5. Entitled(c)' /\ InFiles(c)' /\ KeptIt(c)'
  BY <1>1, <1>2, <1>3, <1>4, Holding DEF Entitled, InFiles, KeptIt
<1> QED
  BY <1>1, <1>2, <1>5, Holding, GoesOn

LEMMA PruneInv ==
  ASSUME TypeOK, StoreInv, NEW c \in Clients, Prune(c)
  PROVE  StoreInv'
<1>1. /\ at[c] = "prune" /\ at'[c] = IF left[c] = {} THEN "audit" ELSE "save"
      /\ \A d \in Clients : d # c => at'[d] = at[d]
  BY DEF Prune, GoTo, TypeOK
<1>2. /\ disk' = disk /\ guard' = guard /\ tag' = tag /\ trail' = trail /\ blame' = blame
      /\ op' = op /\ pre' = pre /\ goal' = goal /\ named' = named /\ left' = left
  BY DEF Prune, request
<1>3. Len(history) > 0 /\ history[Len(history)] = pre[c]
  BY <1>1, Holding DEF KeptIt
<1>4. Len(history') > 0 /\ history'[Len(history')] = pre[c]
  BY <1>3, NewestKeepsLast DEF Prune, TypeOK
<1>5. \A f \in Fields : disk[f] = pre[c][f] /\ (f \notin left[c] => goal[c][f] = pre[c][f])
  BY <1>1, Holding DEF InFiles
<1>6. left[c] = {} => disk = goal[c]
  BY <1>5 DEF TypeOK, Content
<1>7. Entitled(c)' /\ KeptIt(c)'
  BY <1>1, <1>2, <1>4, Holding DEF Entitled, KeptIt
<1>8. InFiles(c)'
  BY <1>1, <1>2, <1>5, <1>6 DEF InFiles
<1> QED
  BY <1>1, <1>2, <1>7, <1>8, Holding, GoesOn

LEMMA SnapshotFailsInv ==
  ASSUME TypeOK, StoreInv, NEW c \in Clients, SnapshotFails(c)
  PROVE  StoreInv'
<1>1. at[c] \in {"snap", "prune"}
  BY DEF SnapshotFails
<1>2. /\ disk' = disk /\ history' = history /\ tag' = tag /\ trail' = trail /\ blame' = blame
  BY DEF SnapshotFails
<1>3. \A f \in Fields : disk[f] = pre[c][f]
  BY <1>1, Holding DEF InFiles
<1>4. CASE GoTo(c, "audit_error") /\ UNCHANGED <<guard, request, reply>>
  <2>1. /\ at'[c] = "audit_error" /\ \A d \in Clients : d # c => at'[d] = at[d]
        /\ guard' = guard /\ op' = op /\ pre' = pre /\ goal' = goal
        /\ named' = named /\ left' = left
    BY <1>4 DEF GoTo, TypeOK, request
  <2>2. Entitled(c)' /\ InFiles(c)' /\ KeptIt(c)'
    BY <1>1, <1>2, <1>3, <2>1, Holding DEF Entitled, InFiles, KeptIt
  <2> QED
    BY <1>1, <1>2, <2>1, <2>2, Holding, GoesOn
<1>5. CASE Release(c, "error")
  <2>1. guard' = NoOne /\ \A d \in Clients : at'[d] = "idle"
    BY <1>1, <1>5, Holding, ReleaseFrees
  <2>2. \A f \in Fields \ blame' : disk'[f] = trail'[f]
    BY <1>1, <1>2, <1>3, Holding
  <2> QED
    BY <2>1, <2>2, LetsGo
<1> QED
  BY <1>4, <1>5 DEF SnapshotFails

LEMMA SaveInv ==
  ASSUME TypeOK, StoreInv, NEW c \in Clients, Save(c)
  PROVE  StoreInv'
<1> DEFINE now == Current(c)
<1>1. at[c] = "save" /\ left[c] # {}
  BY Holding DEF Save, InFiles
<1>2. now \in Fields /\ now \in left[c]
  BY <1>1, FirstOfLeft DEF TypeOK
<1>3. /\ at'[c] = IF left[c] = {now} THEN "audit" ELSE "save"
      /\ \A d \in Clients : d # c => at'[d] = at[d]
      /\ left'[c] = left[c] \ {now}
  BY DEF Save, GoTo, TypeOK
<1>4. /\ guard' = guard /\ tag' = tag /\ trail' = trail /\ blame' = blame /\ history' = history
      /\ op' = op /\ pre' = pre /\ goal' = goal /\ named' = named
  BY DEF Save
<1>5. disk' = [disk EXCEPT ![now] = goal[c][now]]
  BY DEF Save
<1> HIDE DEF now
<1>6. \A f \in Fields : disk'[f] = IF f \in left'[c] THEN pre[c][f] ELSE goal[c][f]
  <2>1. \A f \in Fields : disk[f] = IF f \in left[c] THEN pre[c][f] ELSE goal[c][f]
    BY <1>1, Holding DEF InFiles
  <2>2. disk'[now] = goal[c][now] /\ \A f \in Fields : f # now => disk'[f] = disk[f]
    BY <1>2, <1>5 DEF TypeOK, Content
  <2> QED
    BY <1>2, <1>3, <2>1, <2>2
<1>7. left[c] = {now} => disk' = goal[c]
  BY <1>2, <1>3, <1>5, <1>6 DEF TypeOK, Content
<1>8. left[c] # {now} => left'[c] # {}
  BY <1>2, <1>3
<1>9. op[c] # "reload"
  BY <1>1, Holding DEF Entitled
<1>10. Entitled(c)' /\ KeptIt(c)'
  BY <1>1, <1>3, <1>4, <1>9, Holding DEF Entitled, KeptIt
<1>11. InFiles(c)'
  BY <1>3, <1>4, <1>6, <1>7, <1>8 DEF InFiles
<1> QED
  BY <1>1, <1>3, <1>4, <1>10, <1>11, Holding, GoesOn

(* A field the request does not name is as it was, wherever it breaks off. *)
LEMMA UnnamedUnchanged ==
  ASSUME TypeOK, StoreInv, NEW c \in Clients, at[c] \in {"save", "undo", "audit"}
  PROVE  \A f \in Fields \ named[c] : disk[f] = pre[c][f]
BY Holding DEF Entitled, InFiles

LEMMA SaveFailsInv ==
  ASSUME TypeOK, StoreInv, NEW c \in Clients, SaveFails(c)
  PROVE  StoreInv'
<1>1. at[c] = "save" /\ disk' = disk /\ tag' = tag /\ trail' = trail /\ history' = history
  BY DEF SaveFails, files
<1>2. op[c] # "reload"
  BY <1>1, Holding DEF Entitled
<1>3. CASE Release(c, "error") /\ blame' = blame \cup named[c]
  <2>1. guard' = NoOne /\ \A d \in Clients : at'[d] = "idle"
    BY <1>1, <1>3, Holding, ReleaseFrees
  <2>2. \A f \in Fields \ blame' : disk'[f] = trail'[f]
    BY <1>1, <1>3, Holding, UnnamedUnchanged
  <2> QED
    BY <2>1, <2>2, LetsGo
<1>4. CASE GoTo(c, "undo") /\ left' = [left EXCEPT ![c] = Fields]
           /\ UNCHANGED <<guard, op, pre, goal, named, reply, blame>>
  <2>1. /\ at'[c] = "undo" /\ \A d \in Clients : d # c => at'[d] = at[d]
        /\ left'[c] = Fields /\ Fields # {}
    BY <1>4 DEF GoTo, TypeOK, Fields
  <2>2. \A f \in Fields \ named[c] : disk[f] = pre[c][f]
    BY <1>1, UnnamedUnchanged
  <2>3. Entitled(c)' /\ InFiles(c)' /\ KeptIt(c)'
    BY <1>1, <1>2, <1>4, <2>1, <2>2, Holding DEF Entitled, InFiles, KeptIt
  <2> QED
    BY <1>1, <1>4, <2>1, <2>3, Holding, GoesOn
<1> QED
  BY <1>3, <1>4 DEF SaveFails

LEMMA UndoInv ==
  ASSUME TypeOK, StoreInv, NEW c \in Clients, Undo(c)
  PROVE  StoreInv'
<1> DEFINE now == Current(c)
<1>1. at[c] = "undo" /\ left[c] # {}
  BY Holding DEF Undo, InFiles
<1>2. now \in Fields /\ now \in left[c]
  BY <1>1, FirstOfLeft DEF TypeOK
<1>3. /\ at'[c] = IF left[c] = {now} THEN "audit_error" ELSE "undo"
      /\ \A d \in Clients : d # c => at'[d] = at[d]
      /\ left'[c] = left[c] \ {now}
  BY DEF Undo, GoTo, TypeOK
<1>4. /\ guard' = guard /\ tag' = tag /\ trail' = trail /\ history' = history
      /\ op' = op /\ pre' = pre /\ goal' = goal /\ named' = named
  BY DEF Undo
<1>5. \/ disk' = [disk EXCEPT ![now] = pre[c][now]] /\ blame' = blame
      \/ disk' = disk /\ blame' = blame \cup {now}
  BY DEF Undo, Restored
<1> HIDE DEF now
<1>6. \A f \in Fields : /\ f \notin left[c] \cup blame => disk[f] = pre[c][f]
                        /\ f \notin named[c] => disk[f] = pre[c][f]
  BY <1>1, Holding DEF InFiles
<1>7. \A f \in Fields : /\ f \notin left'[c] \cup blame' => disk'[f] = pre[c][f]
                        /\ f \notin named[c] => disk'[f] = pre[c][f]
  BY <1>2, <1>3, <1>5, <1>6 DEF TypeOK, Content
<1>8. left[c] # {now} => left'[c] # {}
  BY <1>2, <1>3
<1>9. left[c] = {now} => left'[c] = {}
  BY <1>3
<1>10. op[c] # "reload"
  BY <1>1, Holding DEF Entitled
<1>11. Entitled(c)' /\ KeptIt(c)'
  BY <1>1, <1>3, <1>4, <1>10, Holding DEF Entitled, KeptIt
<1>12. InFiles(c)'
  BY <1>3, <1>4, <1>7, <1>8, <1>9 DEF InFiles
<1>13. \A f \in Fields \ blame' : pre'[c][f] = trail'[f]
  BY <1>1, <1>4, <1>5, Holding
<1> QED
  BY <1>1, <1>3, <1>4, <1>11, <1>12, <1>13, Holding, GoesOn

LEMMA AuditInv ==
  ASSUME TypeOK, StoreInv, NEW c \in Clients, Audit(c)
  PROVE  StoreInv'
<1>1. at[c] = "audit" /\ disk' = disk /\ blame' = blame \ named[c]
  BY DEF Audit, files
<1>2. trail' = [f \in Fields |-> IF f \in named[c] THEN goal[c][f] ELSE trail[f]]
  BY DEF Audit
<1>3. guard' = NoOne /\ \A d \in Clients : at'[d] = "idle"
  BY <1>1, Holding, ReleaseFrees DEF Audit
<1>4. disk = goal[c]
  BY <1>1, Holding DEF InFiles
<1>5. \A f \in Fields \ blame' : disk'[f] = trail'[f]
  BY <1>1, <1>2, <1>4, Holding, UnnamedUnchanged
<1> QED
  BY <1>3, <1>5, LetsGo

LEMMA AuditErrorInv ==
  ASSUME TypeOK, StoreInv, NEW c \in Clients, AuditError(c)
  PROVE  StoreInv'
<1>1. at[c] = "audit_error" /\ disk' = disk /\ blame' = blame /\ trail' = trail
  BY DEF AuditError, files
<1>2. guard' = NoOne /\ \A d \in Clients : at'[d] = "idle"
  BY <1>1, Holding, ReleaseFrees DEF AuditError
<1>3. \A f \in Fields \ blame' : disk'[f] = trail'[f]
  BY <1>1, Holding DEF InFiles
<1> QED
  BY <1>2, <1>3, LetsGo

LEMMA AuditFailsInv ==
  ASSUME TypeOK, StoreInv, NEW c \in Clients, AuditFails(c)
  PROVE  StoreInv'
<1>1. /\ at[c] \in {"audit", "audit_error"} /\ disk' = disk /\ trail' = trail
      /\ blame' = IF at[c] = "audit" THEN blame \cup named[c] ELSE blame
  BY DEF AuditFails, files
<1>2. guard' = NoOne /\ \A d \in Clients : at'[d] = "idle"
  BY <1>1, Holding, ReleaseFrees DEF AuditFails
<1>3. at[c] = "audit" => \A f \in Fields \ named[c] : disk[f] = pre[c][f]
  BY UnnamedUnchanged
<1>4. at[c] = "audit_error" => \A f \in Fields \ blame : disk[f] = pre[c][f]
  BY <1>1, Holding DEF InFiles
<1>5. \A f \in Fields \ blame' : disk'[f] = trail'[f]
  BY <1>1, <1>3, <1>4, Holding
<1> QED
  BY <1>2, <1>5, LetsGo

LEMMA CrashInv ==
  ASSUME TypeOK, StoreInv, NEW c \in Clients, Crash(c)
  PROVE  StoreInv'
<1>1. /\ at[c] # "idle" /\ at[c] \in Stages /\ disk' = disk /\ trail' = trail
      /\ blame' = IF at[c] \in {"save", "undo", "audit"} THEN blame \cup named[c] ELSE blame
  BY DEF Crash, TypeOK
<1>2. guard' = NoOne /\ \A d \in Clients : at'[d] = "idle"
  BY <1>1, Holding, ReleaseFrees DEF Crash
<1>3. at[c] \in {"save", "undo", "audit"} => \A f \in Fields \ named[c] : disk[f] = pre[c][f]
  BY UnnamedUnchanged
<1>4. at[c] \in {"snap", "prune", "audit_error"} => \A f \in Fields \ blame : disk[f] = pre[c][f]
  BY <1>1, Holding DEF InFiles
<1>5. \A f \in Fields \ blame' : disk'[f] = trail'[f]
  BY <1>1, <1>3, <1>4, Holding DEF Stages
<1> QED
  BY <1>2, <1>5, LetsGo

LEMMA LookInv ==
  ASSUME TypeOK, StoreInv, NEW c \in Clients, Look(c)
  PROVE  StoreInv'
<1>1. guard = NoOne /\ \A d \in Clients : at[d] = "idle"
  BY ConfigAssumption DEF Look, StoreInv, OneHolder
<1> QED
  BY <1>1, LetsGo DEF Look, files, StoreInv, Story

LEMMA NextInv == TypeOK /\ StoreInv /\ [Next]_vars => StoreInv'
<1> SUFFICES ASSUME TypeOK, StoreInv, [Next]_vars PROVE StoreInv'
  OBVIOUS
<1>1. CASE UNCHANGED vars
  BY <1>1 DEF vars, files, request, StoreInv, OneHolder, Entitled, InFiles, KeptIt, Story
<1>2. ASSUME NEW c \in Clients, Step(c) PROVE StoreInv'
  BY <1>2, AddSnapshotInv, PruneInv, SnapshotFailsInv, SaveInv, SaveFailsInv, UndoInv,
     AuditInv, AuditErrorInv, AuditFailsInv, CrashInv DEF Step
<1> QED
  BY <1>1, <1>2, LookInv, EnterInv DEF Next

LEMMA StoreInvariance == Spec => [](TypeOK /\ StoreInv)
BY InitType, InitInv, NextType, NextInv, PTL DEF Spec

(* The audit log tells the whole story (audit.py, store.py:726): between   *)
(* requests every field is what the last successful line that names it     *)
(* says, unless a fault is to blame for that field.                        *)
THEOREM AuditLogIsComplete == Spec => []AuditTellsAll
<1>1. StoreInv => AuditTellsAll
  BY DEF StoreInv, Story, AuditTellsAll
<1> QED
  BY <1>1, StoreInvariance, PTL

(* An answer is true (app.py:676-814): "ok" means the content that was     *)
(* asked for, with what it replaced as the newest snapshot; an error means *)
(* the content that was there, but for the fields a fault is to blame for. *)
THEOREM AnswersAreTrue == Spec => OutcomeIsTrue
<1> DEFINE Told ==
      \A c \in Clients : at[c] # "idle" /\ at'[c] = "idle" =>
        /\ reply'[c] = "ok" => /\ disk' = goal[c]
                               /\ history'[Len(history')] = pre[c]
        /\ reply'[c] = "error" => \A f \in Fields \ blame' : disk'[f] = pre[c][f]
<1>1. TypeOK /\ StoreInv /\ [Next]_vars => [Told]_vars
  <2> SUFFICES ASSUME TypeOK, StoreInv, Next,
                      NEW c \in Clients, at[c] # "idle", at'[c] = "idle"
               PROVE  /\ reply'[c] = "ok" => disk' = goal[c] /\ history'[Len(history')] = pre[c]
                      /\ reply'[c] = "error" => \A f \in Fields \ blame' : disk'[f] = pre[c][f]
    OBVIOUS
  <2>1. ASSUME NEW d \in Clients, Look(d) \/ Begin(d) PROVE FALSE
    <3>1. CASE Look(d)
      BY <3>1 DEF Look
    <3>2. CASE Begin(d)
      <4>1. at[d] = "idle" /\ guard = NoOne
        BY <3>2, BeginIsEnter DEF Enter, MayEnter
      <4> QED
        BY <4>1, Holding, ConfigAssumption
    <3> QED
      BY <2>1, <3>1, <3>2
  <2>2. PICK d \in Clients : Step(d)
    BY <2>1 DEF Next
  <2>3. ASSUME Release(d, reply'[d]) PROVE d = c
    BY <2>3 DEF Release, TypeOK
  <2>4. CASE AddSnapshot(d) \/ Prune(d) \/ Save(d) \/ Undo(d)
    BY <2>4 DEF AddSnapshot, Prune, Save, Undo, GoTo, TypeOK
  <2>5. CASE SnapshotFails(d)
    <3>1. /\ at[d] \in {"snap", "prune"} /\ disk' = disk
          /\ GoTo(d, "audit_error") \/ Release(d, "error")
      BY <2>5 DEF SnapshotFails
    <3>2. d = c /\ reply'[c] = "error"
      BY <3>1 DEF GoTo, Release, TypeOK
    <3>3. \A f \in Fields : disk[f] = pre[c][f]
      BY <3>1, <3>2, Holding DEF InFiles
    <3> QED
      BY <3>1, <3>2, <3>3
  <2>6. CASE SaveFails(d)
    <3>1. /\ at[d] = "save" /\ disk' = disk
          /\ GoTo(d, "undo") \/ (Release(d, "error") /\ blame' = blame \cup named[d])
      BY <2>6 DEF SaveFails, files
    <3>2. d = c /\ reply'[c] = "error" /\ blame' = blame \cup named[c]
      BY <3>1 DEF GoTo, Release, TypeOK
    <3>3. \A f \in Fields \ named[c] : disk[f] = pre[c][f]
      BY <3>1, <3>2, UnnamedUnchanged
    <3> QED
      BY <3>1, <3>2, <3>3
  <2>7. CASE Audit(d)
    <3>1. at[d] = "audit" /\ Release(d, "ok") /\ UNCHANGED files
      BY <2>7 DEF Audit
    <3>2. d = c /\ reply'[c] = "ok" /\ disk' = disk /\ history' = history
      BY <3>1 DEF Release, TypeOK, files
    <3>3. disk = goal[c] /\ history[Len(history)] = pre[c]
      BY <3>1, <3>2, Holding DEF InFiles, KeptIt
    <3> QED
      BY <3>2, <3>3
  <2>8. CASE AuditError(d)
    <3>1. at[d] = "audit_error" /\ Release(d, "error") /\ disk' = disk /\ blame' = blame
      BY <2>8 DEF AuditError, files
    <3>2. d = c /\ reply'[c] = "error"
      BY <3>1 DEF Release, TypeOK
    <3> QED
      BY <3>1, <3>2, Holding DEF InFiles
  <2>9. CASE AuditFails(d)
    <3>1. /\ at[d] \in {"audit", "audit_error"} /\ Release(d, "error") /\ disk' = disk
          /\ blame' = IF at[d] = "audit" THEN blame \cup named[d] ELSE blame
      BY <2>9 DEF AuditFails, files
    <3>2. d = c /\ reply'[c] = "error"
      BY <3>1 DEF Release, TypeOK
    <3>3. at[c] = "audit" => \A f \in Fields \ named[c] : disk[f] = pre[c][f]
      BY UnnamedUnchanged
    <3>4. at[c] = "audit_error" => \A f \in Fields \ blame : disk[f] = pre[c][f]
      BY Holding DEF InFiles
    <3> QED
      BY <3>1, <3>2, <3>3, <3>4
  <2>10. CASE Crash(d)
    <3>1. Release(d, "none")
      BY <2>10 DEF Crash
    <3>2. d = c /\ reply'[c] = "none"
      BY <3>1 DEF Release, TypeOK
    <3> QED
      BY <3>2
  <2> QED
    BY <2>2, <2>4, <2>5, <2>6, <2>7, <2>8, <2>9, <2>10 DEF Step
<1> QED
  BY <1>1, StoreInvariance, PTL DEF Spec, OutcomeIsTrue

-----------------------------------------------------------------------------
(* The refinement.                                                         *)

Shown == IF InWrite THEN pre[guard] ELSE disk
Last  == IF history = <<>> THEN NoOne ELSE history[Len(history)]

LEMMA ShownIdle == guard = NoOne => Shown = disk
BY DEF Shown, InWrite

LEMMA ShownHeld ==
  ASSUME NEW c \in Clients, guard = c
  PROVE  Shown = IF at[c] \in {"save", "undo"} THEN pre[c] ELSE disk
BY ConfigAssumption DEF Shown, InWrite

LEMMA ShownHeldNext ==
  ASSUME NEW c \in Clients, guard' = c
  PROVE  Shown' = IF at'[c] \in {"save", "undo"} THEN pre'[c] ELSE disk'
BY ConfigAssumption DEF Shown, InWrite

LEMMA ShownIdleNext == guard' = NoOne => Shown' = disk'
BY DEF Shown, InWrite

(* A step that lets go of the files, or goes on, by a client that replaces *)
(* what it found.                                                          *)
LEMMA HolderUpdates ==
  ASSUME TypeOK, TypeOK', StoreInv, NEW c \in Clients, at[c] \in {"save", "undo"},
         tag' = tag, history' = history
  PROVE  Register!Update(c)
<1>1. guard = c /\ Shown = pre[c]
  BY Holding, ShownHeld
<1>2. tag[c] = pre[c] /\ Len(history) > 0 /\ history[Len(history)] = pre[c]
  BY Holding DEF Entitled, KeptIt
<1>3. Last = pre[c] /\ Last' = Last
  BY <1>2 DEF Last, TypeOK
<1>4. Shown' \in Content
  <2>1. disk' \in Content /\ \A d \in Clients : pre'[d] \in Content
    BY DEF TypeOK
  <2>2. InWrite' => guard' \in Clients
    BY DEF InWrite, TypeOK
  <2> QED
    BY <2>1, <2>2 DEF Shown
<1> QED
  BY <1>1, <1>2, <1>3, <1>4 DEF Register!Update, Shown, Last

(* No update is lost, and none is made that cannot be undone (app.py:420,  *)
(* store.py:635): the store implements ConfigRegister.                     *)
THEOREM ImplementsRegister == Spec => RegisterSpec
<1>1. Init => Register!Init
  <2> SUFFICES ASSUME Init PROVE Register!Init
    OBVIOUS
  <2>1. guard = NoOne /\ disk = Empty /\ history = <<>> /\ tag = [c \in Clients |-> Empty]
    BY DEF Init
  <2>2. Shown = Empty /\ Last = NoOne
    BY <2>1, ShownIdle DEF Last
  <2> QED
    BY <2>1, <2>2 DEF Register!Init, Shown, Last
<1>2. TypeOK /\ TypeOK' /\ StoreInv /\ [Next]_vars => [Register!Next]_Register!vars
  <2> SUFFICES ASSUME TypeOK, TypeOK', StoreInv, [Next]_vars
               PROVE  [Register!Next]_Register!vars
    OBVIOUS
  <2> DEFINE Stutter == Shown' = Shown /\ Last' = Last /\ tag' = tag
  <2>0. ASSUME Stutter PROVE [Register!Next]_Register!vars
    BY <2>0 DEF Register!vars, Shown, Last
  <2>1. ASSUME NEW c \in Clients, Register!Update(c) PROVE [Register!Next]_Register!vars
    BY <2>1 DEF Register!Next
  <2>2. ASSUME NEW c \in Clients, tag' = [tag EXCEPT ![c] = Shown], Shown' = Shown, Last' = Last
        PROVE  [Register!Next]_Register!vars
    <3>1. Register!Learn(c)
      BY <2>2 DEF Register!Learn, Shown, Last
    <3> QED
      BY <3>1 DEF Register!Next
  <2>3. ASSUME Last' = Shown, Shown' = Shown, tag' = tag
        PROVE  [Register!Next]_Register!vars
    <3>1. Register!Keep
      BY <2>3 DEF Register!Keep, Shown, Last
    <3> QED
      BY <3>1 DEF Register!Next
  <2> HIDE DEF Stutter
  <2>4. CASE UNCHANGED vars
    <3>1. Stutter
      BY <2>4 DEF Stutter, vars, files, request, Shown, Last, InWrite
    <3> QED
      BY <2>0, <3>1
  <2>5. ASSUME NEW c \in Clients, Look(c) PROVE [Register!Next]_Register!vars
    <3>1. guard = NoOne /\ guard' = guard /\ disk' = disk /\ history' = history
      BY <2>5 DEF Look, files
    <3>2. Shown = disk /\ Shown' = disk' /\ Last' = Last
      BY <3>1, ShownIdle, ShownIdleNext DEF Last
    <3> QED
      BY <2>2, <2>5, <3>1, <3>2 DEF Look
  <2>6. ASSUME NEW c \in Clients, Begin(c) PROVE [Register!Next]_Register!vars
    <3>1. /\ guard = NoOne /\ guard' = c /\ at'[c] = "snap" /\ disk' = disk
          /\ history' = history /\ tag' = tag
      BY <2>6, BeginIsEnter DEF Enter, MayEnter, files, TypeOK
    <3>2. Stutter
      BY <3>1, ShownIdle, ShownHeldNext DEF Stutter, Last
    <3> QED
      BY <2>0, <3>2
  <2>7. ASSUME NEW c \in Clients, Step(c) PROVE [Register!Next]_Register!vars
    <3>1. CASE AddSnapshot(c)
      <4>1. /\ at[c] = "snap" /\ at'[c] = "prune" /\ guard' = guard /\ disk' = disk
            /\ tag' = tag /\ history' = Append(history, disk)
        BY <3>1 DEF AddSnapshot, GoTo, TypeOK
      <4>2. guard = c
        BY <4>1, Holding
      <4>3. Shown = disk /\ Shown' = disk'
        BY <4>1, <4>2, ShownHeld, ShownHeldNext
      <4>4. Last' = disk
        BY <4>1 DEF Last, TypeOK
      <4> QED
        BY <2>3, <4>1, <4>3, <4>4
    <3>2. CASE Prune(c)
      <4>1. /\ at[c] = "prune" /\ guard' = guard /\ disk' = disk /\ pre' = pre
            /\ tag' = tag /\ history' = Newest(history)
        BY <3>2 DEF Prune, request
      <4>2. guard = c /\ Len(history) > 0 /\ \A f \in Fields : disk[f] = pre[c][f]
        BY <4>1, Holding DEF KeptIt, InFiles
      <4>3. disk = pre[c]
        BY <4>2 DEF TypeOK, Content
      <4>4. Shown = disk /\ Shown' = disk
        BY <4>1, <4>2, <4>3, ShownHeld, ShownHeldNext
      <4>5. Last' = Last
        <5>1. /\ Newest(history) \in Seq(Content) /\ Len(Newest(history)) > 0
              /\ Newest(history)[Len(Newest(history))] = history[Len(history)]
          BY <4>2, NewestKeepsLast DEF TypeOK
        <5>2. Newest(history) # <<>> /\ history # <<>>
          BY <4>2, <5>1
        <5> QED
          BY <4>1, <5>1, <5>2 DEF Last
      <4>6. Stutter
        BY <4>1, <4>4, <4>5 DEF Stutter
      <4> QED
        BY <2>0, <4>6
    <3>3. CASE Save(c) \/ SaveFails(c) \/ Undo(c)
      <4>1. at[c] \in {"save", "undo"} /\ tag' = tag /\ history' = history
        BY <3>3 DEF Save, SaveFails, Undo, files
      <4>2. Register!Update(c)
        BY <4>1, HolderUpdates
      <4> QED
        BY <2>1, <4>2
    <3>4. CASE Crash(c) /\ at[c] \in {"save", "undo"}
      <4>1. tag' = tag /\ history' = history
        BY <3>4 DEF Crash
      <4>2. Register!Update(c)
        BY <3>4, <4>1, HolderUpdates
      <4> QED
        BY <2>1, <4>2
    <3>5. CASE \/ SnapshotFails(c) \/ AuditError(c) \/ AuditFails(c)
               \/ Crash(c) /\ at[c] \notin {"save", "undo"}
      <4>1. /\ at[c] # "idle" /\ at[c] \notin {"save", "undo"}
            /\ disk' = disk /\ history' = history /\ tag' = tag
        BY <3>5 DEF SnapshotFails, AuditError, AuditFails, Crash, files
      <4>2. \/ guard' = NoOne
            \/ guard' = guard /\ at'[c] = "audit_error"
        BY <3>5 DEF SnapshotFails, AuditError, AuditFails, Crash, Release, GoTo, TypeOK
      <4>3. guard = c
        BY <4>1, Holding
      <4>4. Shown = disk /\ Shown' = disk
        BY <4>1, <4>2, <4>3, ShownHeld, ShownHeldNext, ShownIdleNext
      <4>5. Stutter
        BY <4>1, <4>4 DEF Stutter, Last
      <4> QED
        BY <2>0, <4>5
    <3>6. CASE Audit(c)
      <4>1. /\ at[c] = "audit" /\ disk' = disk /\ history' = history
            /\ tag' = [tag EXCEPT ![c] = disk] /\ guard' = NoOne
        BY <3>6 DEF Audit, Release, files
      <4>2. guard = c
        BY <4>1, Holding
      <4>3. Shown = disk /\ Shown' = disk /\ Last' = Last
        BY <4>1, <4>2, ShownHeld, ShownIdleNext DEF Last
      <4> QED
        BY <2>2, <4>1, <4>3
    <3> QED
      BY <2>7, <3>1, <3>2, <3>3, <3>4, <3>5, <3>6 DEF Step
  <2> QED
    BY <2>4, <2>5, <2>6, <2>7 DEF Next
<1>3. TypeOK /\ StoreInv /\ [Next]_vars => [Register!Next]_Register!vars
  BY <1>2, NextType
<1> QED
  BY <1>1, <1>3, StoreInvariance, PTL DEF Spec, RegisterSpec, Register!Spec
=============================================================================
