-------------------------- MODULE ChatLanesProofs --------------------------
(***************************************************************************)
(* The safety properties of ChatLanes, for any chats, users, limits and    *)
(* numbers of messages.                                                    *)
(*                                                                         *)
(* The inductive invariant has a part for each mechanism: the messages,    *)
(* the locks (who holds one, who waits for it, who was woken), the map of  *)
(* locks while it has room, the texts on their way, and the workers.       *)
(***************************************************************************)
EXTENDS ChatLanes, FiniteSetTheorems, SequenceTheorems, TLAPS

AtLock(m) == pc[m] \in {"wait", "woken", "run"}
Active(m) == AtLock(m) \/ pc[m] = "sleep"
Texts     == {m \in 1 .. arrived : IsText(m)}

MessagesOK ==
  /\ \A m \in Msgs : pc[m] # "none" => m <= arrived
  /\ \A m \in Msgs : pc[m] = "sleep" => m \in Texts
  /\ \A m \in 1 .. arrived : msg[m].chat \notin Groups => msg[m].author = msg[m].chat

(* Whoever runs holds a lock of its own; whoever was woken is the first    *)
(* waiter of a lock that is free; waiters wait once, and for that lock.    *)
LocksOK ==
  /\ \A m \in Msgs : AtLock(m) => mine[m] \in Locks
  /\ \A m \in Msgs : pc[m] = "run" => mine[m] \in held
  /\ \A m, n \in Msgs : pc[m] = "run" /\ pc[n] = "run" /\ mine[m] = mine[n] => m = n
  /\ \A m \in Msgs : pc[m] = "woken" =>
       mine[m] \notin held /\ waiters[mine[m]] # <<>> /\ waiters[mine[m]][1] = m
  /\ \A l \in Locks : \A i \in 1 .. Len(waiters[l]) :
       mine[waiters[l][i]] = l /\ pc[waiters[l][i]] \in {"wait", "woken"}
  /\ \A l \in Locks : \A i, j \in 1 .. Len(waiters[l]) :
       waiters[l][i] = waiters[l][j] => i = j

Roomy == Cardinality(Chats) <= maxLocks

MapOK == Roomy => \A m \in Msgs : AtLock(m) => mine[m] = lockMap[msg[m].chat]

(* A buffer holds texts of its chat in the order of their arrival, all     *)
(* later than those its worker has in hand; a batch is made of such texts, *)
(* or is a single other message.                                           *)
TextsOK ==
  /\ \A c \in Chats : \A i \in 1 .. Len(pending[c]) :
       pending[c][i] \in Texts /\ msg[pending[c][i]].chat = c
  /\ \A c \in Chats : \A i, j \in 1 .. Len(pending[c]) :
       i < j => pending[c][i] < pending[c][j]
  /\ \A t \in Msgs : batch[t] # <<>> => AtLock(t)
  /\ \A t \in Msgs : \A i \in 1 .. Len(batch[t]) :
       \/ t \in Texts /\ batch[t][i] \in Texts /\ msg[batch[t][i]].chat = msg[t].chat
       \/ t \notin Texts /\ batch[t] = <<t>>
  /\ \A t \in Msgs : t \in Texts =>
       \A i \in 1 .. Len(batch[t]), j \in 1 .. Len(pending[msg[t].chat]) :
         batch[t][i] < pending[msg[t].chat][j]

(* worker_active says that there is exactly one worker.                    *)
WorkersOK ==
  /\ \A c \in Chats : pending[c] # <<>> => c \in stranded \/ c \in working
  /\ \A c \in working : \E m \in Msgs : m \in Texts /\ msg[m].chat = c /\ Active(m)
  /\ \A m \in Msgs : m \in Texts /\ Active(m) => msg[m].chat \in working
  /\ \A m, n \in Msgs : m \in Texts /\ n \in Texts /\ Active(m) /\ Active(n) /\ msg[m].chat = msg[n].chat
                          => m = n

LanesInv == TypeOK /\ MessagesOK /\ LocksOK /\ MapOK /\ TextsOK /\ WorkersOK

-----------------------------------------------------------------------------
(* Sequences.                                                              *)

(* drain cuts the buffer in two: the batch is its first k texts.           *)
LEMMA DrainCuts ==
  ASSUME LanesAssumption, NEW s \in Seq(Msgs), s # <<>>
  PROVE  /\ Drain(s)[1] \in Batches /\ Drain(s)[1] # <<>>
         /\ Drain(s)[2] \in Seq(Msgs)
         /\ \E k \in 1 .. Len(s) :
              /\ Len(Drain(s)[1]) = k
              /\ Len(Drain(s)[2]) = Len(s) - k
              /\ \A i \in 1 .. k : Drain(s)[1][i] = s[i]
              /\ \A i \in 1 .. Len(s) - k : Drain(s)[2][i] = s[k + i]
<1>0. Len(s) \in Nat \ {0} /\ MaxBatch \in Nat \ {0}
  BY EmptySeq DEF LanesAssumption
<1>1. CASE Len(s) <= MaxBatch
  <2>1. Drain(s)[1] = s /\ Drain(s)[2] = <<>>
    BY <1>1 DEF Drain
  <2>2. Drain(s)[1] \in Batches
    BY <2>1, <1>1 DEF Batches
  <2>3. Drain(s)[2] \in Seq(Msgs) /\ Len(Drain(s)[2]) = 0
    BY <2>1, EmptySeq
  <2>4. Len(s) \in 1 .. Len(s)
    BY <1>0
  <2> QED BY <1>0, <2>1, <2>2, <2>3, <2>4
<1>2. CASE ~(Len(s) <= MaxBatch)
  <2> DEFINE a == SubSeq(s, 1, MaxBatch)
             b == SubSeq(s, MaxBatch + 1, Len(s))
  <2>1. Drain(s)[1] = a /\ Drain(s)[2] = b
    BY <1>2 DEF Drain
  <2>2. /\ a \in Seq(Msgs) /\ Len(a) = MaxBatch
        /\ \A i \in 1 .. MaxBatch : a[i] = s[i]
    <3>1. 1 \in Int /\ MaxBatch \in Int /\ \A i \in 1 .. MaxBatch : s[i] \in Msgs
      BY <1>0, <1>2
    <3>2. /\ a \in Seq(Msgs)
          /\ Len(a) = IF 1 <= MaxBatch THEN MaxBatch - 1 + 1 ELSE 0
          /\ \A i \in 1 .. MaxBatch - 1 + 1 : a[i] = s[1 + i - 1]
      BY <3>1, SubSeqProperties
    <3> QED BY <3>2, <1>0
  <2>3. /\ b \in Seq(Msgs) /\ Len(b) = Len(s) - MaxBatch
        /\ \A i \in 1 .. Len(s) - MaxBatch : b[i] = s[MaxBatch + i]
    <3>1. /\ MaxBatch + 1 \in Int /\ Len(s) \in Int
          /\ \A i \in MaxBatch + 1 .. Len(s) : s[i] \in Msgs
      BY <1>0
    <3>2. /\ b \in Seq(Msgs)
          /\ Len(b) = IF MaxBatch + 1 <= Len(s) THEN Len(s) - (MaxBatch + 1) + 1 ELSE 0
          /\ \A i \in 1 .. Len(s) - (MaxBatch + 1) + 1 : b[i] = s[(MaxBatch + 1) + i - 1]
      BY <3>1, SubSeqProperties
    <3>3. Len(s) - (MaxBatch + 1) + 1 = Len(s) - MaxBatch /\ MaxBatch + 1 <= Len(s)
      BY <1>0, <1>2
    <3>4. \A i \in 1 .. Len(s) - MaxBatch : (MaxBatch + 1) + i - 1 = MaxBatch + i
      BY <1>0
    <3> QED BY <3>2, <3>3, <3>4
  <2> HIDE DEF a, b
  <2>4. a \in Batches /\ a # <<>>
    <3>1. a # <<>>
      BY <2>2, <1>0, EmptySeq
    <3> QED BY <2>2, <3>1, <1>0 DEF Batches
  <2>5. MaxBatch \in 1 .. Len(s)
    BY <1>0, <1>2
  <2> QED BY <2>1, <2>2, <2>3, <2>4, <2>5
<1> QED BY <1>1, <1>2

-----------------------------------------------------------------------------
(* Acquiring a lock.                                                       *)

LEMMA AcquireTypes ==
  ASSUME TypeOK, NEW m \in Msgs, NEW c \in Chats, NEW b \in Batches, b # <<>>,
         Acquire(m, c, b)
  PROVE  /\ lockMap' \in [Chats -> Locks \cup {0}]
         /\ lockMap'[c] = mine'[m]
         /\ mine' = [mine EXCEPT ![m] = lockMap'[c]]
         /\ lockMap'[c] \in Locks
         /\ held' \subseteq Locks
         /\ waiters' \in [Locks -> Seq(Msgs)]
         /\ pc' \in [Msgs -> PCs]
         /\ mine' \in [Msgs -> Locks \cup {0}]
         /\ batch' = [batch EXCEPT ![m] = b]
         /\ batch' \in [Msgs -> Batches]
         /\ \/ /\ Free(mine'[m])
               /\ held' = held \cup {mine'[m]}
               /\ pc' = [pc EXCEPT ![m] = "run"]
               /\ waiters' = waiters
            \/ /\ ~Free(mine'[m])
               /\ waiters' = [waiters EXCEPT ![mine'[m]] = Append(@, m)]
               /\ pc' = [pc EXCEPT ![m] = "wait"]
               /\ held' = held
<1> DEFINE l == IF lockMap[c] = 0 THEN b[1] ELSE lockMap[c]
<1>1. b[1] \in Msgs
  BY EmptySeq DEF Batches
<1>2. l \in Locks
  BY <1>1 DEF TypeOK, Locks
<1>3. /\ lockMap' = [x \in Chats |-> IF x = c THEN l
                                  ELSE IF lockMap[c] = 0 /\ x \in Forgotten THEN 0 ELSE lockMap[x]]
      /\ mine' = [mine EXCEPT ![m] = l]
      /\ batch' = [batch EXCEPT ![m] = b]
      /\ \/ /\ Free(l)
            /\ held' = held \cup {l}
            /\ pc' = [pc EXCEPT ![m] = "run"]
            /\ UNCHANGED waiters
         \/ /\ ~Free(l)
            /\ waiters' = [waiters EXCEPT ![l] = Append(@, m)]
            /\ pc' = [pc EXCEPT ![m] = "wait"]
            /\ UNCHANGED held
  BY DEF Acquire
<1> HIDE DEF l
<1>4. lockMap'[c] = l /\ mine'[m] = l /\ lockMap' \in [Chats -> Locks \cup {0}]
  BY <1>2, <1>3 DEF TypeOK
<1>5. mine' \in [Msgs -> Locks \cup {0}] /\ batch' \in [Msgs -> Batches]
  BY <1>2, <1>3 DEF TypeOK
<1>6. held' \subseteq Locks /\ waiters' \in [Locks -> Seq(Msgs)] /\ pc' \in [Msgs -> PCs]
  <2>1. Append(waiters[l], m) \in Seq(Msgs)
    BY <1>2, AppendProperties DEF TypeOK
  <2> QED BY <1>2, <1>3, <2>1 DEF TypeOK, PCs
<1> QED BY <1>2, <1>3, <1>4, <1>5, <1>6

LEMMA AcquireKeepsLocks ==
  ASSUME TypeOK, LocksOK, NEW m \in Msgs, NEW c \in Chats, NEW b \in Batches, b # <<>>,
         ~AtLock(m), Acquire(m, c, b)
  PROVE  LocksOK'
<1> DEFINE l == mine'[m]
<1>1. /\ l \in Locks /\ mine' = [mine EXCEPT ![m] = l]
      /\ \/ /\ Free(l) /\ held' = held \cup {l}
            /\ pc' = [pc EXCEPT ![m] = "run"] /\ waiters' = waiters
         \/ /\ ~Free(l) /\ waiters' = [waiters EXCEPT ![l] = Append(@, m)]
            /\ pc' = [pc EXCEPT ![m] = "wait"] /\ held' = held
  BY AcquireTypes
<1> HIDE DEF l
<1>2. /\ mine \in [Msgs -> Locks \cup {0}] /\ pc \in [Msgs -> PCs]
      /\ waiters \in [Locks -> Seq(Msgs)] /\ held \subseteq Locks
  BY DEF TypeOK
<1>3. \A k \in Locks : \A i \in 1 .. Len(waiters[k]) : waiters[k][i] \in Msgs \ {m}
  BY <1>2 DEF LocksOK, AtLock
<1>4. CASE Free(l) /\ held' = held \cup {l} /\ pc' = [pc EXCEPT ![m] = "run"] /\ waiters' = waiters
  <2>1. \A n \in Msgs : AtLock(n)' => mine'[n] \in Locks
    BY <1>1, <1>2, <1>4 DEF LocksOK, AtLock
  <2>2. \A n \in Msgs : pc'[n] = "run" => mine'[n] \in held'
    BY <1>1, <1>2, <1>4 DEF LocksOK
  <2>3. \A n, k \in Msgs : pc'[n] = "run" /\ pc'[k] = "run" /\ mine'[n] = mine'[k] => n = k
    BY <1>1, <1>2, <1>4 DEF LocksOK, Free
  <2>4. \A n \in Msgs : pc'[n] = "woken" =>
          mine'[n] \notin held' /\ waiters'[mine'[n]] # <<>> /\ waiters'[mine'[n]][1] = n
    BY <1>1, <1>2, <1>4 DEF LocksOK, Free
  <2>5. \A k \in Locks : \A i \in 1 .. Len(waiters'[k]) :
          mine'[waiters'[k][i]] = k /\ pc'[waiters'[k][i]] \in {"wait", "woken"}
    BY <1>1, <1>2, <1>3, <1>4 DEF LocksOK
  <2>6. \A k \in Locks : \A i, j \in 1 .. Len(waiters'[k]) : waiters'[k][i] = waiters'[k][j] => i = j
    BY <1>4 DEF LocksOK
  <2> QED BY <2>1, <2>2, <2>3, <2>4, <2>5, <2>6 DEF LocksOK
<1>5. CASE ~Free(l) /\ waiters' = [waiters EXCEPT ![l] = Append(@, m)]
             /\ pc' = [pc EXCEPT ![m] = "wait"] /\ held' = held
  <2>0. /\ \A k \in Locks \ {l} : waiters'[k] = waiters[k]
        /\ waiters'[l] # <<>>
        /\ Len(waiters'[l]) = Len(waiters[l]) + 1 /\ Len(waiters[l]) \in Nat
        /\ \A i \in 1 .. Len(waiters[l]) : waiters'[l][i] = waiters[l][i]
        /\ waiters'[l][Len(waiters[l]) + 1] = m
    <3> DEFINE w == waiters[l]
    <3>1. w \in Seq(Msgs) /\ Len(w) \in Nat
      BY <1>1, <1>2
    <3>2. waiters'[l] = Append(w, m) /\ \A k \in Locks \ {l} : waiters'[k] = waiters[k]
      BY <1>1, <1>2, <1>5
    <3> HIDE DEF w
    <3>3. /\ Append(w, m) # <<>> /\ Len(Append(w, m)) = Len(w) + 1
          /\ \A i \in 1 .. Len(w) : Append(w, m)[i] = w[i]
          /\ Append(w, m)[Len(w) + 1] = m
      BY <3>1, AppendProperties
    <3> QED BY <3>1, <3>2, <3>3 DEF w
  <2>1. \A n \in Msgs : AtLock(n)' => mine'[n] \in Locks
    BY <1>1, <1>2, <1>5 DEF LocksOK, AtLock
  <2>2. \A n \in Msgs : pc'[n] = "run" => mine'[n] \in held'
    BY <1>1, <1>2, <1>5 DEF LocksOK
  <2>3. \A n, k \in Msgs : pc'[n] = "run" /\ pc'[k] = "run" /\ mine'[n] = mine'[k] => n = k
    BY <1>1, <1>2, <1>5 DEF LocksOK
  <2>4. ASSUME NEW n \in Msgs, pc'[n] = "woken"
        PROVE  mine'[n] \notin held' /\ waiters'[mine'[n]] # <<>> /\ waiters'[mine'[n]][1] = n
    <3>1. n # m /\ pc[n] = "woken" /\ mine'[n] = mine[n] /\ mine[n] \in Locks
      BY <2>4, <1>1, <1>2, <1>5 DEF LocksOK, AtLock
    <3>2. mine[n] \notin held /\ waiters[mine[n]] # <<>> /\ waiters[mine[n]][1] = n
      BY <3>1 DEF LocksOK
    <3>3. 1 \in 1 .. Len(waiters[mine[n]])
      BY <3>1, <3>2, <1>2, EmptySeq
    <3> QED BY <2>0, <3>1, <3>2, <3>3, <1>5
  <2>5. ASSUME NEW k \in Locks, NEW i \in 1 .. Len(waiters'[k])
        PROVE  mine'[waiters'[k][i]] = k /\ pc'[waiters'[k][i]] \in {"wait", "woken"}
    <3>1. CASE waiters'[k][i] = m /\ k = l
      BY <1>1, <1>2, <1>5, <3>1
    <3>2. CASE i \in 1 .. Len(waiters[k]) /\ waiters'[k][i] = waiters[k][i]
      BY <1>1, <1>2, <1>3, <1>5, <3>2 DEF LocksOK
    <3> QED BY <2>0, <3>1, <3>2
  <2>6. ASSUME NEW k \in Locks, NEW i \in 1 .. Len(waiters'[k]), NEW j \in 1 .. Len(waiters'[k]),
               waiters'[k][i] = waiters'[k][j]
        PROVE  i = j
    <3>1. CASE k # l
      BY <2>0, <2>6, <3>1 DEF LocksOK
    <3>2. CASE k = l
      <4>1. /\ i \in 1 .. Len(waiters[l]) => waiters'[l][i] \in Msgs \ {m}
            /\ j \in 1 .. Len(waiters[l]) => waiters'[l][j] \in Msgs \ {m}
        BY <2>0, <1>1, <1>3
      <4>2. /\ i \in 1 .. Len(waiters[l]) \/ i = Len(waiters[l]) + 1
            /\ j \in 1 .. Len(waiters[l]) \/ j = Len(waiters[l]) + 1
        BY <2>0, <3>2
      <4>3. CASE i \in 1 .. Len(waiters[l]) /\ j \in 1 .. Len(waiters[l])
        <5>1. waiters[l][i] = waiters[l][j]
          BY <2>0, <2>6, <3>2, <4>3
        <5> QED BY <5>1, <4>3, <1>1 DEF LocksOK
      <4> QED BY <4>1, <4>2, <4>3, <2>0, <2>6, <3>2
    <3> QED BY <3>1, <3>2
  <2> QED BY <2>1, <2>2, <2>3, <2>4, <2>5, <2>6 DEF LocksOK
<1> QED BY <1>1, <1>4, <1>5

-----------------------------------------------------------------------------
(* What the messages say does not change.                                  *)

LEMMA SameTexts ==
  ASSUME UNCHANGED <<setup, arrived, msg>>
  PROVE  Texts' = Texts
BY DEF setup, Texts, IsText, Buffered, GroupsBuffered

LEMMA Arrival ==
  ASSUME TypeOK, NEW c \in Chats, NEW a \in Authors, NEW k \in Kinds, LanesAssumption,
         NEW m, m = arrived + 1, arrived < MaxMsgs, UNCHANGED setup, arrived' = m,
         msg' = Append(msg, [chat |-> c, author |-> a, kind |-> k])
  PROVE  /\ arrived' \in 0 .. MaxMsgs /\ m \in Msgs
         /\ msg' \in [1 .. arrived' -> Message]
         /\ m \notin 1 .. arrived /\ 1 .. arrived' = (1 .. arrived) \cup {m}
         /\ msg'[m] = [chat |-> c, author |-> a, kind |-> k]
         /\ \A n \in 1 .. arrived : msg'[n] = msg[n]
         /\ Texts' \cap (1 .. arrived) = Texts
         /\ m \in Texts' <=> Buffered(c, k)
<1>1. arrived \in Nat /\ MaxMsgs \in Nat /\ m \in Msgs /\ arrived' \in 0 .. MaxMsgs
  BY DEF TypeOK, LanesAssumption, Msgs
<1>2. msg \in Seq(Message) /\ Len(msg) = arrived
  <2>1. msg \in [1 .. arrived -> Message]
    BY DEF TypeOK
  <2> QED BY <1>1, <2>1, SeqDef, LenProperties
<1>3. [chat |-> c, author |-> a, kind |-> k] \in Message
  BY DEF Message
<1> DEFINE r == [chat |-> c, author |-> a, kind |-> k]
<1> HIDE DEF r
<1>4. /\ Append(msg, r) \in Seq(Message) /\ Len(Append(msg, r)) = arrived + 1
      /\ \A i \in 1 .. arrived : Append(msg, r)[i] = msg[i]
      /\ Append(msg, r)[arrived + 1] = r
  BY <1>2, <1>3, AppendProperties DEF r
<1>5. msg' = Append(msg, r) /\ r.chat = c /\ r.kind = k
  BY DEF r
<1>6. msg' \in [1 .. arrived' -> Message]
  BY <1>1, <1>4, <1>5, LenProperties
<1>7. Texts' \cap (1 .. arrived) = Texts
  BY <1>1, <1>4, <1>5 DEF setup, Texts, IsText, Buffered, GroupsBuffered
<1>8. m \in Texts' <=> Buffered(c, k)
  BY <1>1, <1>4, <1>5 DEF setup, Texts, IsText, Buffered, GroupsBuffered
<1>9. msg'[m] = r /\ \A n \in 1 .. arrived : msg'[n] = msg[n]
  BY <1>4, <1>5
<1>10. m \notin 1 .. arrived /\ 1 .. arrived' = (1 .. arrived) \cup {m}
  BY <1>1
<1> QED BY <1>1, <1>10, <1>6, <1>7, <1>8, <1>9 DEF r

-----------------------------------------------------------------------------
(* Releasing a lock, and taking it after a wait.                           *)

LEMMA ReleaseKeepsLocks ==
  ASSUME TypeOK, LocksOK, NEW m \in Msgs, pc[m] = "run", NEW after \in {"sleep", "done"},
         Release(m, after)
  PROVE  /\ LocksOK'
         /\ pc' \in [Msgs -> PCs] /\ pc'[m] = after
         /\ \A n \in Msgs \ {m} : mine'[n] = mine[n] /\ batch'[n] = batch[n]
         /\ \A n \in Msgs \ {m} : pc'[n] = pc[n] \/ (pc[n] \in {"wait", "woken"} /\ pc'[n] = "woken")
         /\ mine' \in [Msgs -> Locks \cup {0}] /\ batch' \in [Msgs -> Batches] /\ batch'[m] = <<>>
         /\ held' \subseteq Locks
<1> DEFINE l == mine[m]
           w == waiters[l]
           next == IF w = <<>> THEN {} ELSE {w[1]}
<1>1. /\ held' = held \ {l} /\ waiters' = waiters
      /\ pc' = [t \in Msgs |-> IF t \in next THEN "woken" ELSE IF t = m THEN after ELSE pc[t]]
      /\ mine' = [mine EXCEPT ![m] = 0] /\ batch' = [batch EXCEPT ![m] = <<>>]
  BY DEF Release
<1>2. /\ mine \in [Msgs -> Locks \cup {0}] /\ pc \in [Msgs -> PCs] /\ batch \in [Msgs -> Batches]
      /\ waiters \in [Locks -> Seq(Msgs)] /\ held \subseteq Locks
  BY DEF TypeOK
<1>3. l \in Locks /\ l \in held /\ w \in Seq(Msgs)
  BY <1>2 DEF LocksOK
<1>4. \A k \in Locks : \A i \in 1 .. Len(waiters[k]) : waiters[k][i] \in Msgs \ {m}
  BY <1>2 DEF LocksOK
<1>5. \A n \in next : n \in Msgs \ {m} /\ mine[n] = l /\ pc[n] \in {"wait", "woken"} /\ w # <<>> /\ w[1] = n
  <2>1. SUFFICES ASSUME w # <<>>
                 PROVE  w[1] \in Msgs \ {m} /\ mine[w[1]] = l /\ pc[w[1]] \in {"wait", "woken"}
    OBVIOUS
  <2>2. 1 \in 1 .. Len(w)
    BY <1>3, <2>1, EmptySeq
  <2> QED BY <1>3, <1>4, <2>2 DEF LocksOK
<1> HIDE DEF next
<1>6. /\ pc'[m] = after /\ mine'[m] = 0
      /\ \A n \in next : pc'[n] = "woken" /\ mine'[n] = l
      /\ \A n \in Msgs \ {m} : n \notin next => pc'[n] = pc[n]
      /\ \A n \in Msgs \ {m} : mine'[n] = mine[n] /\ batch'[n] = batch[n]
  BY <1>1, <1>2, <1>5
<1>7. <<>> \in Batches
  BY EmptySeq, LanesAssumption DEF Batches, LanesAssumption
<1>8. pc' \in [Msgs -> PCs] /\ mine' \in [Msgs -> Locks \cup {0}]
      /\ batch' \in [Msgs -> Batches] /\ batch'[m] = <<>> /\ held' \subseteq Locks
  BY <1>1, <1>2, <1>7 DEF PCs
<1>9. LocksOK'
  <2>1. \A n \in Msgs : AtLock(n)' => mine'[n] \in Locks
    BY <1>3, <1>5, <1>6 DEF LocksOK, AtLock
  <2>2. \A n \in Msgs : pc'[n] = "run" => n # m /\ n \notin next /\ pc[n] = "run"
    BY <1>6
  <2>3. \A n \in Msgs : pc'[n] = "run" => mine'[n] \in held'
    BY <1>1, <1>3, <1>6, <2>2 DEF LocksOK
  <2>4. \A n, k \in Msgs : pc'[n] = "run" /\ pc'[k] = "run" /\ mine'[n] = mine'[k] => n = k
    BY <1>6, <2>2 DEF LocksOK
  <2>5. ASSUME NEW n \in Msgs, pc'[n] = "woken"
        PROVE  mine'[n] \notin held' /\ waiters'[mine'[n]] # <<>> /\ waiters'[mine'[n]][1] = n
    <3>1. CASE n \in next
      BY <1>1, <1>3, <1>5, <1>6, <3>1
    <3>2. CASE n \notin next
      BY <1>1, <1>6, <2>5, <3>2 DEF LocksOK
    <3> QED BY <3>1, <3>2
  <2>6. ASSUME NEW k \in Locks, NEW i \in 1 .. Len(waiters'[k])
        PROVE  mine'[waiters'[k][i]] = k /\ pc'[waiters'[k][i]] \in {"wait", "woken"}
    <3>1. /\ waiters'[k][i] \in Msgs \ {m} /\ mine[waiters'[k][i]] = k
          /\ pc[waiters'[k][i]] \in {"wait", "woken"}
      BY <1>1, <1>4 DEF LocksOK
    <3> QED BY <1>6, <3>1
  <2>7. \A k \in Locks : \A i, j \in 1 .. Len(waiters'[k]) : waiters'[k][i] = waiters'[k][j] => i = j
    BY <1>1 DEF LocksOK
  <2> QED BY <2>1, <2>3, <2>4, <2>5, <2>6, <2>7 DEF LocksOK
<1>10. \A n \in Msgs \ {m} : pc'[n] = pc[n] \/ (pc[n] \in {"wait", "woken"} /\ pc'[n] = "woken")
  BY <1>5, <1>6
<1> QED BY <1>6, <1>8, <1>9, <1>10

LEMMA ResumeKeepsLocks ==
  ASSUME TypeOK, LocksOK, NEW m \in Msgs, Resume(m)
  PROVE  LocksOK' /\ waiters' \in [Locks -> Seq(Msgs)] /\ held' \subseteq Locks
<1> DEFINE l == mine[m]
           w == waiters[l]
<1>1. /\ pc[m] = "woken" /\ waiters' = [waiters EXCEPT ![l] = Tail(w)]
      /\ held' = held \cup {l} /\ pc' = [pc EXCEPT ![m] = "run"] /\ mine' = mine
  BY DEF Resume
<1>2. /\ mine \in [Msgs -> Locks \cup {0}] /\ pc \in [Msgs -> PCs]
      /\ waiters \in [Locks -> Seq(Msgs)] /\ held \subseteq Locks
  BY DEF TypeOK
<1>3. l \in Locks /\ l \notin held /\ w \in Seq(Msgs) /\ w # <<>> /\ w[1] = m
  BY <1>1, <1>2 DEF LocksOK, AtLock
<1>4. /\ Tail(w) \in Seq(Msgs) /\ Len(Tail(w)) = Len(w) - 1 /\ Len(w) \in Nat \ {0}
      /\ \A i \in 1 .. Len(w) - 1 : Tail(w)[i] = w[i + 1]
  BY <1>3, HeadTailProperties, EmptySeq
<1>5. /\ waiters'[l] = Tail(w) /\ \A k \in Locks \ {l} : waiters'[k] = waiters[k]
      /\ waiters' \in [Locks -> Seq(Msgs)]
  BY <1>1, <1>2, <1>3, <1>4
<1>6. pc'[m] = "run" /\ \A n \in Msgs \ {m} : pc'[n] = pc[n]
  BY <1>1, <1>2
<1>7. \A i \in 1 .. Len(w) - 1 :
        w[i + 1] # m /\ w[i + 1] \in Msgs /\ mine[w[i + 1]] = l /\ pc[w[i + 1]] \in {"wait", "woken"}
  <2>1. \A i \in 1 .. Len(w) - 1 : i + 1 \in 1 .. Len(w) /\ i + 1 # 1 /\ 1 \in 1 .. Len(w)
    BY <1>4
  <2> QED BY <1>3, <2>1 DEF LocksOK
<1> HIDE DEF w, l
<1>8. LocksOK'
  <2>1. \A n \in Msgs : AtLock(n)' => mine'[n] \in Locks
    BY <1>1, <1>3, <1>6 DEF LocksOK, AtLock, l
  <2>2. \A n \in Msgs : pc'[n] = "run" => mine'[n] \in held'
    BY <1>1, <1>6 DEF LocksOK, l
  <2>3. \A n, k \in Msgs : pc'[n] = "run" /\ pc'[k] = "run" /\ mine'[n] = mine'[k] => n = k
    BY <1>1, <1>3, <1>6 DEF LocksOK, l
  <2>4. ASSUME NEW n \in Msgs, pc'[n] = "woken"
        PROVE  mine'[n] \notin held' /\ waiters'[mine'[n]] # <<>> /\ waiters'[mine'[n]][1] = n
    <3>1. n # m /\ pc[n] = "woken" /\ mine'[n] = mine[n]
      BY <1>1, <1>6, <2>4
    <3>2. /\ mine[n] \notin held /\ waiters[mine[n]] # <<>> /\ waiters[mine[n]][1] = n
          /\ mine[n] \in Locks
      BY <3>1 DEF LocksOK, AtLock
    <3>3. mine[n] # l
      BY <1>3, <3>1, <3>2 DEF w
    <3> QED BY <1>1, <1>5, <3>1, <3>2, <3>3
  <2>5. ASSUME NEW k \in Locks, NEW i \in 1 .. Len(waiters'[k])
        PROVE  mine'[waiters'[k][i]] = k /\ pc'[waiters'[k][i]] \in {"wait", "woken"}
    <3>1. CASE k = l
      <4>1. i \in 1 .. Len(w) - 1 /\ waiters'[k][i] = w[i + 1]
        BY <1>4, <1>5, <3>1
      <4> QED BY <1>1, <1>6, <1>7, <3>1, <4>1
    <3>2. CASE k # l
      <4>1. /\ waiters'[k][i] = waiters[k][i] /\ i \in 1 .. Len(waiters[k]) /\ waiters[k] \in Seq(Msgs)
            /\ waiters[k][i] \in Msgs
        BY <1>2, <1>5, <3>2
      <4>2. mine[waiters[k][i]] = k /\ pc[waiters[k][i]] \in {"wait", "woken"}
        BY <4>1 DEF LocksOK
      <4>3. waiters[k][i] # m
        BY <4>2, <3>2 DEF l
      <4> QED BY <1>1, <1>6, <4>1, <4>2, <4>3
    <3> QED BY <3>1, <3>2
  <2>6. ASSUME NEW k \in Locks, NEW i \in 1 .. Len(waiters'[k]), NEW j \in 1 .. Len(waiters'[k]),
               waiters'[k][i] = waiters'[k][j]
        PROVE  i = j
    <3>1. CASE k = l
      <4>1. /\ i \in 1 .. Len(w) - 1 /\ waiters'[k][i] = w[i + 1]
            /\ j \in 1 .. Len(w) - 1 /\ waiters'[k][j] = w[j + 1]
        BY <1>4, <1>5, <3>1
      <4>2. i + 1 \in 1 .. Len(w) /\ j + 1 \in 1 .. Len(w)
        BY <1>4, <4>1
      <4>3. i + 1 = j + 1
        <5>1. w[i + 1] = w[j + 1]
          BY <2>6, <4>1
        <5> QED BY <5>1, <1>3, <4>2 DEF LocksOK, w
      <4> QED BY <4>1, <4>3
    <3>2. CASE k # l
      <4>1. waiters'[k] = waiters[k]
        BY <1>5, <3>2
      <4> QED BY <2>6, <4>1 DEF LocksOK
    <3> QED BY <3>1, <3>2
  <2> QED BY <2>1, <2>2, <2>3, <2>4, <2>5, <2>6 DEF LocksOK
<1> QED BY <1>1, <1>2, <1>3, <1>5, <1>8

-----------------------------------------------------------------------------
(* What acquiring does to the rest.                                        *)

LEMMA AcquireKeepsMap ==
  ASSUME LanesAssumption, TypeOK, LocksOK, MapOK,
         NEW m \in Msgs, NEW c \in Chats, NEW b \in Batches, b # <<>>, Roomy,
         Acquire(m, c, b), NEW n \in Msgs \ {m}, AtLock(n), msg[n].chat \in Chats
  PROVE  mine'[n] = lockMap'[msg[n].chat]
<1>1. mine'[n] = mine[n] /\ mine[n] = lockMap[msg[n].chat] /\ mine[n] # 0
  <2>1. mine'[n] = mine[n]
    BY AcquireTypes DEF TypeOK
  <2> QED BY <2>1 DEF MapOK, LocksOK, Locks, Msgs
<1>2. lockMap' = [x \in Chats |-> IF x = c THEN (IF lockMap[c] = 0 THEN b[1] ELSE lockMap[c])
                                  ELSE IF lockMap[c] = 0 /\ x \in Forgotten THEN 0 ELSE lockMap[x]]
  BY DEF Acquire
<1>3. ASSUME lockMap[c] = 0
      PROVE  Forgotten = {}
  <2>1. c \notin Chatting /\ Chatting \subseteq Chats
    BY <1>3 DEF Chatting
  <2>2. IsFiniteSet(Chats)
    BY DEF LanesAssumption
  <2>3. IsFiniteSet(Chatting) /\ Cardinality(Chatting) <= Cardinality(Chats)
        /\ Cardinality(Chatting) # Cardinality(Chats)
    BY <2>1, <2>2, FS_Subset
  <2>4. Cardinality(Chatting) \in Nat /\ Cardinality(Chats) \in Nat /\ maxLocks \in Nat
    BY <2>2, <2>3, FS_CardinalityType DEF TypeOK, LanesAssumption
  <2>5. Cardinality(Chatting) < maxLocks
    BY <2>3, <2>4 DEF Roomy
  <2> QED BY <2>5 DEF Forgotten
<1>4. CASE msg[n].chat = c
  BY <1>1, <1>2, <1>4
<1>5. CASE msg[n].chat # c
  BY <1>1, <1>2, <1>3, <1>5
<1> QED BY <1>4, <1>5

-----------------------------------------------------------------------------
(* Every step keeps the invariant.                                         *)

LEMMA InitHolds == LanesAssumption /\ Init => LanesInv
<1> SUFFICES ASSUME LanesAssumption, Init PROVE LanesInv
  OBVIOUS
<1>1. /\ arrived = 0 /\ 1 .. arrived = {} /\ pc = [m \in Msgs |-> "none"]
      /\ pending = [c \in Chats |-> <<>>] /\ batch = [m \in Msgs |-> <<>>]
      /\ waiters = [l \in Locks |-> <<>>] /\ working = {}
  BY DEF Init
<1>2. <<>> \in Batches /\ \A S : <<>> \in Seq(S) /\ Len(<<>>) = 0
  BY EmptySeq DEF Batches, LanesAssumption
<1>3. TypeOK
  <2>1. msg \in [1 .. arrived -> Message] /\ arrived \in 0 .. MaxMsgs
    BY <1>1 DEF Init, LanesAssumption
  <2>2. /\ waiters \in [Locks -> Seq(Msgs)] /\ pending \in [Chats -> Seq(Msgs)]
        /\ batch \in [Msgs -> Batches]
    BY <1>1, <1>2
  <2> QED BY <2>1, <2>2 DEF Init, TypeOK, PCs
<1>4. MessagesOK
  BY <1>1 DEF MessagesOK
<1>5. LocksOK
  BY <1>1, <1>2 DEF LocksOK, AtLock
<1>6. MapOK
  BY <1>1 DEF MapOK, AtLock
<1>7. TextsOK
  BY <1>1, <1>2 DEF TextsOK, Texts
<1>8. WorkersOK
  BY <1>1 DEF WorkersOK, Texts
<1> QED BY <1>3, <1>4, <1>5, <1>6, <1>7, <1>8 DEF LanesInv

LEMMA ReleaseKeeps ==
  ASSUME LanesInv, NEW m \in Msgs, pc[m] = "run", NEW after \in {"sleep", "done"},
         Release(m, after), working' \subseteq Chats, stranded' \subseteq Chats,
         after = "sleep" => m \in Texts /\ working' = working /\ stranded' = stranded,
         after = "done" /\ m \in Texts =>
           /\ working' = working \ {msg[m].chat}
           /\ stranded' = IF pending[msg[m].chat] = <<>> THEN stranded
                          ELSE stranded \cup {msg[m].chat},
         m \notin Texts => working' = working /\ stranded' = stranded
  PROVE  LanesInv'
<1>1. UNCHANGED <<setup, arrived, msg, lockMap, waiters, bufMap, pending>>
  BY DEF Release
<1>2. TypeOK /\ MessagesOK /\ LocksOK /\ MapOK /\ TextsOK /\ WorkersOK
  BY DEF LanesInv
<1>3. /\ LocksOK'
      /\ pc' \in [Msgs -> PCs] /\ pc'[m] = after
      /\ \A n \in Msgs \ {m} : mine'[n] = mine[n] /\ batch'[n] = batch[n]
      /\ \A n \in Msgs \ {m} : pc'[n] = pc[n] \/ (pc[n] \in {"wait", "woken"} /\ pc'[n] = "woken")
      /\ mine' \in [Msgs -> Locks \cup {0}] /\ batch' \in [Msgs -> Batches] /\ batch'[m] = <<>>
      /\ held' \subseteq Locks
  BY <1>2, ReleaseKeepsLocks
<1>4. Texts' = Texts
  BY <1>1, SameTexts
<1>5. /\ \A n \in Msgs \ {m} : (AtLock(n)' <=> AtLock(n)) /\ (Active(n)' <=> Active(n))
      /\ ~AtLock(m)' /\ AtLock(m) /\ (Active(m)' <=> after = "sleep")
  BY <1>3 DEF AtLock, Active
<1>6. m \in 1 .. arrived /\ 1 .. arrived \subseteq Msgs
  BY <1>2, LanesAssumption DEF TypeOK, MessagesOK, Msgs, LanesAssumption
<1>7. TypeOK'
  BY <1>1, <1>2, <1>3 DEF TypeOK, setup
<1>8. MessagesOK'
  BY <1>1, <1>2, <1>3, <1>4, <1>6 DEF MessagesOK
<1>9. MapOK'
  BY <1>1, <1>2, <1>5, <1>3 DEF MapOK, Roomy, setup
<1>10. TextsOK'
  <2>0. pending' = pending /\ msg' = msg
    BY <1>1
  <2>1. /\ \A c \in Chats : \A i \in 1 .. Len(pending'[c]) :
             pending'[c][i] \in Texts' /\ msg'[pending'[c][i]].chat = c
        /\ \A c \in Chats : \A i, j \in 1 .. Len(pending'[c]) :
             i < j => pending'[c][i] < pending'[c][j]
    BY <2>0, <1>2, <1>4 DEF TextsOK
  <2>2. \A t \in Msgs : batch'[t] # <<>> => t # m /\ batch'[t] = batch[t]
    BY <1>3
  <2>3. \A t \in Msgs : batch'[t] # <<>> => AtLock(t)'
    BY <2>2, <1>2, <1>5 DEF TextsOK
  <2>4. ASSUME NEW t \in Msgs, NEW i \in 1 .. Len(batch'[t])
        PROVE  \/ t \in Texts' /\ batch'[t][i] \in Texts' /\ msg'[batch'[t][i]].chat = msg'[t].chat
               \/ t \notin Texts' /\ batch'[t] = <<t>>
    <3>1. batch'[t] # <<>>
      BY EmptySeq
    <3> QED BY <3>1, <2>0, <2>2, <1>2, <1>4 DEF TextsOK
  <2>5. ASSUME NEW t \in Msgs, t \in Texts', NEW i \in 1 .. Len(batch'[t]),
               NEW j \in 1 .. Len(pending'[msg'[t].chat])
        PROVE  batch'[t][i] < pending'[msg'[t].chat][j]
    <3>1. batch'[t] # <<>>
      BY EmptySeq
    <3> QED BY <3>1, <2>0, <2>2, <2>5, <1>2, <1>4 DEF TextsOK
  <2> QED BY <2>1, <2>3, <2>4, <2>5 DEF TextsOK
<1>11. WorkersOK'
  <2>0. /\ pending' = pending /\ msg' = msg /\ msg[m].chat \in Chats
        /\ \A c \in Chats : pending[c] # <<>> => c \in stranded \/ c \in working
        /\ \A c \in working : \E n \in Msgs : n \in Texts /\ msg[n].chat = c /\ Active(n)
        /\ \A n \in Msgs : n \in Texts /\ Active(n) => msg[n].chat \in working
        /\ \A n, k \in Msgs : n \in Texts /\ k \in Texts /\ Active(n) /\ Active(k)
                                /\ msg[n].chat = msg[k].chat => n = k
    BY <1>1, <1>2, <1>6 DEF WorkersOK, TypeOK, Message
  <2>1. CASE after = "done" /\ m \in Texts
    <3>1. /\ working' = working \ {msg[m].chat}
          /\ stranded' = IF pending[msg[m].chat] = <<>> THEN stranded
                         ELSE stranded \cup {msg[m].chat}
      BY <2>1
    <3>2. Active(m) /\ \A n \in Msgs : n \in Texts' /\ Active(n)' => n \in Texts /\ Active(n) /\ n # m
      BY <2>1, <1>4, <1>5 DEF Active
    <3>3. \A c \in Chats : pending'[c] # <<>> => c \in stranded' \/ c \in working'
      BY <2>0, <3>1
    <3>4. \A c \in working' : \E n \in Msgs : n \in Texts' /\ msg'[n].chat = c /\ Active(n)'
      BY <2>0, <3>1, <1>4, <1>5
    <3>5. \A n \in Msgs : n \in Texts' /\ Active(n)' => msg'[n].chat \in working'
      BY <2>0, <2>1, <3>1, <3>2
    <3>6. \A n, k \in Msgs : n \in Texts' /\ k \in Texts' /\ Active(n)' /\ Active(k)'
                                /\ msg'[n].chat = msg'[k].chat => n = k
      BY <2>0, <3>2
    <3> QED BY <3>3, <3>4, <3>5, <3>6 DEF WorkersOK
  <2>2. CASE after = "sleep" \/ m \notin Texts
    <3>1. working' = working /\ stranded' = stranded
      BY <2>2
    <3>2. \A n \in Msgs : n \in Texts' /\ Active(n)' <=> n \in Texts /\ Active(n)
      BY <2>2, <1>4, <1>5 DEF Active
    <3>3. \A c \in Chats : pending'[c] # <<>> => c \in stranded' \/ c \in working'
      BY <2>0, <3>1
    <3>4. \A c \in working' : \E n \in Msgs : n \in Texts' /\ msg'[n].chat = c /\ Active(n)'
      BY <2>0, <3>1, <3>2
    <3>5. \A n \in Msgs : n \in Texts' /\ Active(n)' => msg'[n].chat \in working'
      BY <2>0, <3>1, <3>2
    <3>6. \A n, k \in Msgs : n \in Texts' /\ k \in Texts' /\ Active(n)' /\ Active(k)'
                                /\ msg'[n].chat = msg'[k].chat => n = k
      BY <2>0, <3>2
    <3> QED BY <3>3, <3>4, <3>5, <3>6 DEF WorkersOK
  <2> QED BY <2>1, <2>2
<1> QED BY <1>3, <1>7, <1>8, <1>9, <1>10, <1>11 DEF LanesInv

LEMMA ResumeKeeps ==
  ASSUME LanesInv, NEW m \in Msgs, Resume(m)
  PROVE  LanesInv'
<1>1. /\ UNCHANGED <<setup, arrived, msg, lockMap, bufVars, mine, batch, stranded>>
      /\ pc[m] = "woken" /\ pc' = [pc EXCEPT ![m] = "run"]
  BY DEF Resume
<1>2. TypeOK /\ MessagesOK /\ LocksOK /\ MapOK /\ TextsOK /\ WorkersOK
  BY DEF LanesInv
<1>3. LocksOK' /\ waiters' \in [Locks -> Seq(Msgs)] /\ held' \subseteq Locks
  BY <1>2, ResumeKeepsLocks
<1>4. Texts' = Texts
  BY <1>1, SameTexts
<1>5. \A n \in Msgs : (AtLock(n)' <=> AtLock(n)) /\ (Active(n)' <=> Active(n))
  BY <1>1, <1>2 DEF AtLock, Active, TypeOK
<1>6. \A n \in Msgs : pc'[n] = IF n = m THEN "run" ELSE pc[n]
  BY <1>1, <1>2 DEF TypeOK
<1>7. TypeOK'
  BY <1>1, <1>2, <1>3 DEF TypeOK, PCs, setup, bufVars
<1>8. MessagesOK'
  BY <1>1, <1>2, <1>4, <1>6 DEF MessagesOK
<1>9. MapOK'
  BY <1>1, <1>2, <1>5 DEF MapOK, Roomy, setup
<1>10. TextsOK'
  BY <1>1, <1>2, <1>4, <1>5 DEF TextsOK, bufVars
<1>11. WorkersOK'
  <2>1. pending' = pending /\ working' = working /\ msg' = msg /\ stranded' = stranded
    BY <1>1 DEF bufVars
  <2> QED BY <2>1, <1>2, <1>4, <1>5 DEF WorkersOK, TypeOK
<1> QED BY <1>3, <1>7, <1>8, <1>9, <1>10, <1>11 DEF LanesInv

LEMMA WakeKeeps ==
  ASSUME LanesInv, NEW m \in Msgs, WorkerWakes(m)
  PROVE  LanesInv'
<1> DEFINE c == msg[m].chat
<1>1. /\ pc[m] = "sleep"
      /\ UNCHANGED <<setup, arrived, msg, bufMap, stranded>>
  BY DEF WorkerWakes
<1>2. TypeOK /\ MessagesOK /\ LocksOK /\ MapOK /\ TextsOK /\ WorkersOK
  BY DEF LanesInv
<1>3. Texts' = Texts
  BY <1>1, SameTexts
<1>4. 1 .. arrived \subseteq Msgs /\ \A n \in 1 .. arrived : msg[n].chat \in Chats
  BY <1>2, LanesAssumption DEF TypeOK, Msgs, LanesAssumption, Message
<1>5. m \in Texts /\ m \in 1 .. arrived /\ c \in Chats /\ Texts \subseteq 1 .. arrived
  BY <1>1, <1>2, <1>4 DEF MessagesOK, Texts
<1>6. ~AtLock(m) /\ Active(m)
  BY <1>1 DEF AtLock, Active
<1>7. \A n \in Msgs \ {m} : ~(n \in Texts /\ Active(n) /\ msg[n].chat = c)
  BY <1>2, <1>5, <1>6 DEF WorkersOK
<1>8. CASE pending[c] = <<>>
  <2>1. /\ working' = working \ {c} /\ pc' = [pc EXCEPT ![m] = "done"]
        /\ UNCHANGED <<lockVars, pending, mine, batch>>
    BY <1>8 DEF WorkerWakes
  <2>2. /\ \A n \in Msgs \ {m} : (AtLock(n)' <=> AtLock(n)) /\ (Active(n)' <=> Active(n)) /\ pc'[n] = pc[n]
        /\ pc'[m] = "done" /\ ~AtLock(m)' /\ ~Active(m)'
    BY <2>1, <1>2 DEF AtLock, Active, TypeOK
  <2>3. TypeOK'
    BY <1>1, <1>2, <2>1 DEF TypeOK, PCs, setup, lockVars
  <2>4. MessagesOK'
    BY <1>1, <1>2, <1>3, <1>5, <2>2 DEF MessagesOK
  <2>5. LocksOK'
    <3>1. waiters' = waiters /\ held' = held /\ mine' = mine
      BY <2>1 DEF lockVars
    <3>2. \A l \in Locks : \A i \in 1 .. Len(waiters[l]) : waiters[l][i] \in Msgs \ {m}
      BY <1>1, <1>2 DEF LocksOK, TypeOK
    <3> QED BY <3>1, <3>2, <1>2, <2>2 DEF LocksOK
  <2>6. MapOK'
    BY <1>1, <1>2, <1>6, <2>1, <2>2 DEF MapOK, Roomy, setup, lockVars
  <2>7. TextsOK'
    <3>1. \A t \in Msgs : batch[t] # <<>> => AtLock(t)'
      BY <1>2, <1>6, <2>2 DEF TextsOK
    <3> QED BY <1>1, <1>2, <1>3, <2>1, <3>1 DEF TextsOK
  <2>8. WorkersOK'
    <3>0. pending' = pending /\ msg' = msg /\ stranded' = stranded
      BY <1>1, <2>1
    <3>1. \A x \in Chats : pending'[x] # <<>> => x \in stranded' \/ x \in working'
      BY <1>2, <1>8, <2>1, <3>0 DEF WorkersOK
    <3>2. \A x \in working' : \E n \in Msgs : n \in Texts' /\ msg'[n].chat = x /\ Active(n)'
      BY <1>2, <1>3, <2>1, <2>2, <3>0 DEF WorkersOK
    <3>3. \A n \in Msgs : n \in Texts' /\ Active(n)' => msg'[n].chat \in working'
      BY <1>2, <1>3, <1>7, <2>1, <2>2, <3>0 DEF WorkersOK
    <3>4. \A n, k \in Msgs : n \in Texts' /\ k \in Texts' /\ Active(n)' /\ Active(k)'
                               /\ msg'[n].chat = msg'[k].chat => n = k
      BY <1>2, <1>3, <2>2, <3>0 DEF WorkersOK
    <3> QED BY <3>1, <3>2, <3>3, <3>4 DEF WorkersOK
  <2> QED BY <2>3, <2>4, <2>5, <2>6, <2>7, <2>8 DEF LanesInv
<1>9. CASE pending[c] # <<>>
  <2> DEFINE s == pending[c]
             b == Drain(s)[1]
             r == Drain(s)[2]
  <2>1. working' = working /\ pending' = [pending EXCEPT ![c] = r] /\ Acquire(m, c, b)
    BY <1>9 DEF WorkerWakes
  <2>2. s \in Seq(Msgs) /\ s # <<>> /\ Len(s) \in Nat
    BY <1>2, <1>5, <1>9 DEF TypeOK
  <2> HIDE DEF s
  <2>3. b \in Batches /\ b # <<>> /\ r \in Seq(Msgs)
    BY <2>2, DrainCuts, LanesAssumption
  <2>4. PICK k \in 1 .. Len(s) :
          /\ Len(b) = k /\ Len(r) = Len(s) - k
          /\ \A i \in 1 .. k : b[i] = s[i]
          /\ \A i \in 1 .. Len(s) - k : r[i] = s[k + i]
    BY <2>2, DrainCuts, LanesAssumption
  <2> HIDE DEF b, r
  <2>5. /\ lockMap' \in [Chats -> Locks \cup {0}] /\ lockMap'[c] = mine'[m]
        /\ mine' = [mine EXCEPT ![m] = lockMap'[c]] /\ held' \subseteq Locks
        /\ waiters' \in [Locks -> Seq(Msgs)] /\ pc' \in [Msgs -> PCs]
        /\ mine' \in [Msgs -> Locks \cup {0}]
        /\ batch' = [batch EXCEPT ![m] = b] /\ batch' \in [Msgs -> Batches]
        /\ (pc' = [pc EXCEPT ![m] = "run"] \/ pc' = [pc EXCEPT ![m] = "wait"])
    BY <1>2, <1>5, <2>1, <2>3, AcquireTypes
  <2>6. /\ \A n \in Msgs \ {m} : /\ AtLock(n)' <=> AtLock(n)
                                 /\ Active(n)' <=> Active(n)
                                 /\ pc'[n] = pc[n] /\ batch'[n] = batch[n]
        /\ pc'[m] \in {"run", "wait"} /\ AtLock(m)' /\ Active(m)' /\ batch'[m] = b
    BY <2>5, <1>2 DEF AtLock, Active, TypeOK
  <2>7. /\ pending'[c] = r /\ \A x \in Chats \ {c} : pending'[x] = pending[x]
        /\ pending' \in [Chats -> Seq(Msgs)]
    BY <2>1, <2>3, <1>2, <1>5 DEF TypeOK
  <2>8. TypeOK'
    BY <1>1, <1>2, <2>1, <2>5, <2>7 DEF TypeOK, setup
  <2>9. MessagesOK'
    BY <1>1, <1>2, <1>3, <1>5, <2>6 DEF MessagesOK
  <2>10. LocksOK'
    BY <1>2, <1>5, <1>6, <2>1, <2>3, AcquireKeepsLocks
  <2>11. MapOK'
    <3>1. SUFFICES ASSUME Roomy, NEW n \in Msgs, AtLock(n)' PROVE mine'[n] = lockMap'[msg[n].chat]
      BY <1>1 DEF MapOK, Roomy, setup
    <3>2. CASE n = m
      BY <2>5, <3>2
    <3>3. CASE n # m
      <4>1. AtLock(n) /\ n \in 1 .. arrived
        BY <1>2, <1>4, <2>6, <3>1, <3>3 DEF MessagesOK, AtLock, TypeOK, Msgs
      <4> QED BY <1>2, <1>4, <1>5, <2>1, <2>3, <3>1, <3>3, <4>1, LanesAssumption, AcquireKeepsMap
    <3> QED BY <3>2, <3>3
  <2>12. TextsOK'
    <3>0. /\ \A i \in 1 .. Len(s) : s[i] \in Texts /\ msg[s[i]].chat = c
          /\ \A i, j \in 1 .. Len(s) : i < j => s[i] < s[j]
          /\ msg' = msg
      BY <1>1, <1>2, <1>5 DEF TextsOK, s
    <3>1. ASSUME NEW x \in Chats, NEW i \in 1 .. Len(pending'[x])
          PROVE  pending'[x][i] \in Texts' /\ msg'[pending'[x][i]].chat = x
      <4>1. CASE x = c
        <5>1. i \in 1 .. Len(s) - k /\ k + i \in 1 .. Len(s) /\ pending'[x][i] = s[k + i]
          BY <2>2, <2>4, <2>7, <4>1
        <5> QED BY <5>1, <3>0, <1>3, <4>1
      <4>2. CASE x # c
        BY <1>1, <1>2, <1>3, <2>7, <4>2 DEF TextsOK
      <4> QED BY <4>1, <4>2
    <3>2. ASSUME NEW x \in Chats, NEW i \in 1 .. Len(pending'[x]), NEW j \in 1 .. Len(pending'[x]), i < j
          PROVE  pending'[x][i] < pending'[x][j]
      <4>1. CASE x = c
        <5>1. pending'[x] = r /\ i \in 1 .. Len(s) - k /\ j \in 1 .. Len(s) - k
          BY <2>4, <2>7, <4>1
        <5>2. k + i \in 1 .. Len(s) /\ k + j \in 1 .. Len(s) /\ k + i < k + j
          BY <2>2, <3>2, <5>1
        <5>3. r[i] = s[k + i] /\ r[j] = s[k + j]
          BY <2>4, <5>1
        <5> QED BY <5>1, <5>2, <5>3, <3>0
      <4>2. CASE x # c
        BY <1>2, <2>7, <3>2, <4>2 DEF TextsOK
      <4> QED BY <4>1, <4>2
    <3>3. \A t \in Msgs : batch'[t] # <<>> => AtLock(t)'
      BY <1>2, <2>6 DEF TextsOK
    <3>4. ASSUME NEW t \in Msgs, NEW i \in 1 .. Len(batch'[t])
          PROVE  \/ t \in Texts' /\ batch'[t][i] \in Texts' /\ msg'[batch'[t][i]].chat = msg'[t].chat
                 \/ t \notin Texts' /\ batch'[t] = <<t>>
      <4>1. CASE t = m
        <5>1. batch'[t][i] = s[i] /\ i \in 1 .. Len(s)
          BY <2>2, <2>4, <2>6, <4>1
        <5> QED BY <5>1, <3>0, <1>3, <1>5, <4>1
      <4>2. CASE t # m
        BY <1>1, <1>2, <1>3, <2>6, <4>2 DEF TextsOK
      <4> QED BY <4>1, <4>2
    <3>5. ASSUME NEW t \in Msgs, t \in Texts', NEW i \in 1 .. Len(batch'[t]),
                 NEW j \in 1 .. Len(pending'[msg'[t].chat])
          PROVE  batch'[t][i] < pending'[msg'[t].chat][j]
      <4>1. CASE t = m
        <5>1. batch'[t][i] = s[i] /\ i \in 1 .. Len(s) /\ i <= k
          BY <2>2, <2>4, <2>6, <4>1
        <5>2. pending'[msg'[t].chat][j] = s[k + j] /\ k + j \in 1 .. Len(s) /\ i < k + j
          BY <2>2, <2>4, <2>7, <4>1, <3>0, <5>1
        <5> QED BY <5>1, <5>2, <3>0
      <4>2. CASE t # m
        <5>1. batch[t] # <<>> /\ batch'[t] = batch[t] /\ t \in Texts
          BY <1>3, <2>6, <3>5, <4>2, EmptySeq
        <5>2. msg[t].chat # c
          BY <1>2, <1>7, <4>2, <5>1 DEF TextsOK, Active
        <5>3. pending'[msg'[t].chat] = pending[msg[t].chat]
          BY <1>4, <1>5, <2>7, <3>0, <5>1, <5>2
        <5> QED BY <1>2, <5>1, <5>3 DEF TextsOK
      <4> QED BY <4>1, <4>2
    <3> QED BY <3>1, <3>2, <3>3, <3>4, <3>5 DEF TextsOK
  <2>13. WorkersOK'
    <3>0. msg' = msg /\ stranded' = stranded /\ \A n \in Msgs : Active(n)' <=> Active(n)
      BY <1>1, <1>6, <2>6
    <3>1. \A x \in Chats : pending'[x] # <<>> => x \in stranded' \/ x \in working'
      BY <1>2, <1>9, <2>1, <2>7, <3>0 DEF WorkersOK
    <3> QED BY <1>2, <1>3, <2>1, <3>0, <3>1 DEF WorkersOK
  <2> QED BY <2>8, <2>9, <2>10, <2>11, <2>12, <2>13 DEF LanesInv
<1> QED BY <1>8, <1>9

LEMMA ArriveKeeps ==
  ASSUME LanesInv, NEW c \in Chats, NEW a \in Authors, NEW k \in Kinds, Arrive(c, a, k)
  PROVE  LanesInv'
<1>0. arrived \in Nat /\ MaxMsgs \in Nat /\ arrived < MaxMsgs
  BY LanesAssumption DEF LanesInv, TypeOK, LanesAssumption, Arrive
<1> PICK m \in Msgs : m = arrived + 1
  BY <1>0 DEF Msgs
<1>1. /\ UNCHANGED setup /\ arrived < MaxMsgs /\ arrived' = m
      /\ msg' = Append(msg, [chat |-> c, author |-> a, kind |-> k])
      /\ c \notin Groups => a = c
  BY DEF Arrive
<1>2. TypeOK /\ MessagesOK /\ LocksOK /\ MapOK /\ TextsOK /\ WorkersOK
  BY DEF LanesInv
<1>3. /\ arrived' \in 0 .. MaxMsgs
      /\ msg' \in [1 .. arrived' -> Message]
      /\ m \notin 1 .. arrived /\ 1 .. arrived' = (1 .. arrived) \cup {m}
      /\ msg'[m] = [chat |-> c, author |-> a, kind |-> k]
      /\ \A n \in 1 .. arrived : msg'[n] = msg[n]
      /\ Texts' \cap (1 .. arrived) = Texts
      /\ m \in Texts' <=> Buffered(c, k)
  BY <1>1, <1>2, LanesAssumption, Arrival
<1>4. 1 .. arrived \subseteq Msgs /\ \A n \in 1 .. arrived : msg[n].chat \in Chats
  BY <1>0, <1>2 DEF TypeOK, Msgs, Message
<1>5. Texts \subseteq 1 .. arrived /\ Texts' \subseteq (1 .. arrived) \cup {m} /\ m \notin Texts
  BY <1>3 DEF Texts
<1>6. pc[m] = "none" /\ \A n \in Msgs : pc[n] # "none" => n \in 1 .. arrived
  BY <1>0, <1>2 DEF MessagesOK, TypeOK, Msgs, PCs
<1>7. batch[m] = <<>> /\ ~AtLock(m) /\ ~Active(m)
  BY <1>2, <1>6 DEF TextsOK, AtLock, Active
<1>8. msg'[m].chat = c /\ msg'[m].author = a
  BY <1>3
<1>9. \A n \in 1 .. arrived' : msg'[n].chat \notin Groups => msg'[n].author = msg'[n].chat
  BY <1>1, <1>2, <1>3, <1>8 DEF MessagesOK
<1>10. /\ \A x \in Chats : \A i \in 1 .. Len(pending[x]) :
            pending[x][i] \in 1 .. arrived /\ pending[x][i] \in Texts' /\ msg'[pending[x][i]].chat = x
       /\ \A t \in Msgs : \A i \in 1 .. Len(batch[t]) :
            batch[t] # <<>> /\ t # m /\ t \in 1 .. arrived /\ batch[t][i] \in 1 .. arrived
  <2>1. ASSUME NEW x \in Chats, NEW i \in 1 .. Len(pending[x])
        PROVE  pending[x][i] \in 1 .. arrived /\ pending[x][i] \in Texts' /\ msg'[pending[x][i]].chat = x
    <3>1. pending[x][i] \in Texts /\ msg[pending[x][i]].chat = x
      BY <1>2 DEF TextsOK
    <3> QED BY <3>1, <1>3, <1>5
  <2>2. ASSUME NEW t \in Msgs, NEW i \in 1 .. Len(batch[t])
        PROVE  batch[t] # <<>> /\ t # m /\ t \in 1 .. arrived /\ batch[t][i] \in 1 .. arrived
    <3>1. batch[t] # <<>>
      BY EmptySeq
    <3>2. t # m /\ t \in 1 .. arrived
      BY <3>1, <1>2, <1>6, <1>7 DEF TextsOK, AtLock
    <3>3. batch[t][i] \in Texts \/ batch[t] = <<t>>
      BY <1>2 DEF TextsOK
    <3>4. batch[t] = <<t>> => batch[t][i] = t
      BY <1>2 DEF TypeOK, Batches
    <3> QED BY <3>1, <3>2, <3>3, <3>4, <1>5
  <2> QED BY <2>1, <2>2
<1>11. ASSUME NEW t \in Msgs, NEW i \in 1 .. Len(batch[t])
       PROVE  \/ t \in Texts' /\ batch[t][i] \in Texts' /\ msg'[batch[t][i]].chat = msg'[t].chat
              \/ t \notin Texts' /\ batch[t] = <<t>>
  <2>1. /\ batch[t] # <<>> /\ t \in 1 .. arrived /\ batch[t][i] \in 1 .. arrived
        /\ msg'[t] = msg[t] /\ msg'[batch[t][i]] = msg[batch[t][i]]
    BY <1>3, <1>10
  <2>2. \/ t \in Texts /\ batch[t][i] \in Texts /\ msg[batch[t][i]].chat = msg[t].chat
        \/ t \notin Texts /\ batch[t] = <<t>>
    BY <1>2 DEF TextsOK
  <2> QED BY <2>1, <2>2, <1>3
<1>12. CASE Buffered(c, k)
  <2> DEFINE gone == IF c \in bufMap THEN {} ELSE Discarded
             p == pending[c]
  <2>1. /\ bufMap' = (bufMap \ gone) \cup {c}
        /\ pending' = [x \in Chats |-> IF x = c THEN Append(p, m)
                                       ELSE IF x \in gone THEN <<>> ELSE pending[x]]
        /\ working' = (working \ gone) \cup {c}
        /\ pc' = [pc EXCEPT ![m] = IF c \notin working THEN "sleep" ELSE "done"]
        /\ stranded' = stranded \ {c}
        /\ UNCHANGED <<lockVars, mine, batch>>
    BY <1>12 DEF Arrive, Buffer, StartsWorker
  <2>2. c \notin gone /\ \A x \in gone : x \notin working /\ pending[x] = <<>>
    BY DEF Discarded
  <2> HIDE DEF gone
  <2>3. p \in Seq(Msgs) /\ Len(p) \in Nat
    BY <1>2 DEF TypeOK
  <2> HIDE DEF p
  <2>4. /\ Append(p, m) \in Seq(Msgs) /\ Len(Append(p, m)) = Len(p) + 1
        /\ \A i \in 1 .. Len(p) : Append(p, m)[i] = p[i]
        /\ Append(p, m)[Len(p) + 1] = m
    BY <2>3, AppendProperties
  <2>5. pending'[c] = Append(p, m) /\ \A x \in Chats \ {c} : pending'[x] = pending[x]
    BY <2>1, <2>2
  <2>6. pending' \in [Chats -> Seq(Msgs)]
    BY <1>2, <2>1, <2>4, <2>5 DEF TypeOK
  <2>7. working' = working \cup {c}
    BY <2>1, <2>2
  <2>8. /\ \A n \in Msgs \ {m} : pc'[n] = pc[n] /\ (AtLock(n)' <=> AtLock(n)) /\ (Active(n)' <=> Active(n))
        /\ pc'[m] = (IF c \notin working THEN "sleep" ELSE "done")
        /\ ~AtLock(m)' /\ (Active(m)' <=> c \notin working)
    BY <1>2, <2>1 DEF TypeOK, AtLock, Active
  <2>9. TypeOK'
    BY <1>1, <1>2, <1>3, <2>1, <2>6, <2>7 DEF TypeOK, PCs, setup, lockVars
  <2>10. MessagesOK'
    <3>1. \A n \in Msgs : pc'[n] # "none" => n <= arrived'
      BY <1>0, <1>1, <1>2, <2>8 DEF MessagesOK, Msgs
    <3>2. \A n \in Msgs : pc'[n] = "sleep" => n \in Texts'
      BY <1>2, <1>3, <1>12, <2>8 DEF MessagesOK
    <3> QED BY <1>9, <3>1, <3>2 DEF MessagesOK
  <2>11. LocksOK'
    <3>1. waiters' = waiters /\ held' = held /\ mine' = mine
      BY <2>1 DEF lockVars
    <3>2. \A l \in Locks : \A i \in 1 .. Len(waiters[l]) : waiters[l][i] \in Msgs \ {m}
      <4>1. pc[m] = "none"
        BY <1>6
      <4> QED BY <4>1, <1>2 DEF LocksOK, TypeOK
    <3>3. pc'[m] \notin {"wait", "woken", "run"} /\ ~AtLock(m)'
      BY <2>8
    <3>4. \A n \in Msgs \ {m} : pc'[n] = pc[n] /\ (AtLock(n)' <=> AtLock(n))
      BY <2>8
    <3>5. \A n \in Msgs : AtLock(n)' => mine'[n] \in Locks
      BY <3>1, <3>3, <3>4, <1>2 DEF LocksOK
    <3>6. \A n \in Msgs : pc'[n] \in {"run", "woken"} => n # m /\ pc'[n] = pc[n]
      BY <3>3, <3>4
    <3>7. \A l \in Locks : \A i \in 1 .. Len(waiters[l]) :
            mine[waiters[l][i]] = l /\ pc'[waiters[l][i]] \in {"wait", "woken"}
      BY <3>2, <3>4, <1>2 DEF LocksOK
    <3> QED BY <3>1, <3>5, <3>6, <3>7, <1>2 DEF LocksOK
  <2>12. MapOK'
    <3>1. SUFFICES ASSUME Roomy, NEW n \in Msgs, AtLock(n)' PROVE mine[n] = lockMap[msg'[n].chat]
      BY <1>1, <2>1 DEF MapOK, Roomy, setup, lockVars
    <3>2. n # m /\ AtLock(n)
      BY <2>8, <3>1
    <3>3. n \in 1 .. arrived
      BY <1>6, <3>2 DEF AtLock
    <3> QED BY <1>2, <1>3, <3>1, <3>2, <3>3 DEF MapOK
  <2>13. TextsOK'
    <3>0. batch' = batch
      BY <2>1
    <3>1. ASSUME NEW x \in Chats, NEW i \in 1 .. Len(pending'[x])
          PROVE  pending'[x][i] \in Texts' /\ msg'[pending'[x][i]].chat = x
      <4>1. CASE x = c /\ i \in 1 .. Len(p)
        <5>1. pending'[x][i] = pending[c][i] /\ i \in 1 .. Len(pending[c])
          BY <2>4, <2>5, <4>1 DEF p
        <5> QED BY <5>1, <4>1, <1>10
      <4>2. CASE x = c /\ i = Len(p) + 1
        BY <1>3, <1>8, <1>12, <2>4, <2>5, <4>2
      <4>3. CASE x # c
        BY <1>10, <2>5, <4>3
      <4> QED BY <2>3, <2>4, <2>5, <4>1, <4>2, <4>3
    <3>2. ASSUME NEW x \in Chats, NEW i \in 1 .. Len(pending'[x]), NEW j \in 1 .. Len(pending'[x]), i < j
          PROVE  pending'[x][i] < pending'[x][j]
      <4>1. CASE x # c
        BY <1>2, <2>5, <3>2, <4>1 DEF TextsOK
      <4>2. CASE x = c
        <5>1. i \in 1 .. Len(p) /\ pending'[x][i] = p[i] /\ p[i] \in 1 .. arrived
          <6>1. pending'[x] = Append(p, m)
            BY <2>5, <4>2
          <6>2. i \in 1 .. Len(p)
            BY <2>3, <2>4, <3>2, <6>1
          <6>3. p[i] \in 1 .. arrived
            BY <1>10, <6>2 DEF p
          <6> QED BY <2>4, <6>1, <6>2, <6>3
        <5>2. CASE j \in 1 .. Len(p)
          <6>1. pending'[x][j] = p[j]
            BY <2>4, <2>5, <4>2, <5>2
          <6> QED BY <1>2, <3>2, <5>1, <5>2, <6>1 DEF TextsOK, p
        <5>3. CASE j = Len(p) + 1
          <6>1. pending'[x][j] = m
            BY <2>4, <2>5, <4>2, <5>3
          <6> QED BY <1>0, <5>1, <6>1
        <5> QED BY <2>3, <2>4, <2>5, <4>2, <5>2, <5>3
      <4> QED BY <4>1, <4>2
    <3>3. \A t \in Msgs : batch'[t] # <<>> => AtLock(t)'
      BY <1>2, <1>7, <2>8, <3>0 DEF TextsOK
    <3>4. ASSUME NEW t \in Msgs, t \in Texts', NEW i \in 1 .. Len(batch[t]),
                 NEW j \in 1 .. Len(pending'[msg'[t].chat])
          PROVE  batch[t][i] < pending'[msg'[t].chat][j]
      <4>1. /\ t \in Texts /\ t \in 1 .. arrived /\ msg'[t] = msg[t] /\ msg[t].chat \in Chats
            /\ batch[t][i] \in 1 .. arrived
        BY <1>3, <1>4, <1>10, <3>4
      <4>2. CASE msg[t].chat # c
        <5>1. pending'[msg'[t].chat] = pending[msg[t].chat]
          BY <2>5, <4>1, <4>2
        <5> QED BY <1>2, <4>1, <5>1 DEF TextsOK
      <4>3. CASE msg[t].chat = c /\ j \in 1 .. Len(p)
        <5>1. pending'[c][j] = p[j]
          BY <2>4, <2>5, <4>3
        <5>2. batch[t][i] < p[j]
          BY <1>2, <4>1, <4>3 DEF TextsOK, p
        <5> QED BY <4>1, <4>3, <5>1, <5>2
      <4>4. CASE msg[t].chat = c /\ j = Len(p) + 1
        <5>1. pending'[c][j] = m
          BY <2>4, <2>5, <4>4
        <5> QED BY <1>0, <4>1, <4>4, <5>1
      <4> QED BY <2>3, <2>4, <2>5, <4>1, <4>2, <4>3, <4>4
    <3> QED BY <1>11, <3>0, <3>1, <3>2, <3>3, <3>4 DEF TextsOK
  <2>14. WorkersOK'
    <3>1. \A x \in Chats : pending'[x] # <<>> => x \in stranded' \/ x \in working'
      BY <1>2, <2>1, <2>5, <2>7 DEF WorkersOK
    <3>2. \A n \in Msgs : n \in Texts' /\ Active(n)' =>
            \/ n = m /\ c \notin working
            \/ n # m /\ n \in Texts /\ Active(n) /\ msg'[n] = msg[n] /\ msg[n].chat \in working
      BY <1>2, <1>3, <1>5, <2>8 DEF WorkersOK
    <3>3. \A x \in working' : \E n \in Msgs : n \in Texts' /\ msg'[n].chat = x /\ Active(n)'
      <4>1. ASSUME NEW x \in working
            PROVE  \E n \in Msgs : n \in Texts' /\ msg'[n].chat = x /\ Active(n)'
        <5>1. PICK n \in Msgs : n \in Texts /\ msg[n].chat = x /\ Active(n)
          BY <1>2 DEF WorkersOK
        <5> QED BY <5>1, <1>3, <1>5, <2>8
      <4>2. c \notin working => m \in Texts' /\ msg'[m].chat = c /\ Active(m)'
        BY <1>3, <1>8, <1>12, <2>8
      <4> QED BY <4>1, <4>2, <2>7
    <3>4. \A n \in Msgs : n \in Texts' /\ Active(n)' => msg'[n].chat \in working'
      BY <1>8, <2>7, <3>2
    <3>5. \A n, t \in Msgs : n \in Texts' /\ t \in Texts' /\ Active(n)' /\ Active(t)'
                               /\ msg'[n].chat = msg'[t].chat => n = t
      BY <1>2, <1>8, <3>2 DEF WorkersOK
    <3> QED BY <3>1, <3>3, <3>4, <3>5 DEF WorkersOK
  <2> QED BY <2>9, <2>10, <2>11, <2>12, <2>13, <2>14 DEF LanesInv
<1>13. CASE ~Buffered(c, k)
  <2> DEFINE b == <<m>>
  <2>1. Acquire(m, c, b) /\ UNCHANGED <<bufVars, stranded>>
    BY <1>13 DEF Arrive
  <2>2. b \in Batches /\ b # <<>> /\ Len(b) = 1 /\ b[1] = m
    BY LanesAssumption DEF Batches, LanesAssumption
  <2> HIDE DEF b
  <2>3. /\ lockMap' \in [Chats -> Locks \cup {0}] /\ lockMap'[c] = mine'[m]
        /\ mine' = [mine EXCEPT ![m] = lockMap'[c]] /\ held' \subseteq Locks
        /\ waiters' \in [Locks -> Seq(Msgs)] /\ pc' \in [Msgs -> PCs]
        /\ mine' \in [Msgs -> Locks \cup {0}]
        /\ batch' = [batch EXCEPT ![m] = b] /\ batch' \in [Msgs -> Batches]
        /\ (pc' = [pc EXCEPT ![m] = "run"] \/ pc' = [pc EXCEPT ![m] = "wait"])
    BY <1>2, <2>1, <2>2, AcquireTypes
  <2>4. /\ \A n \in Msgs \ {m} : /\ AtLock(n)' <=> AtLock(n)
                                 /\ Active(n)' <=> Active(n)
                                 /\ pc'[n] = pc[n] /\ batch'[n] = batch[n]
        /\ pc'[m] \in {"run", "wait"} /\ AtLock(m)' /\ batch'[m] = b
    BY <2>3, <1>2 DEF AtLock, Active, TypeOK
  <2>5. Texts' = Texts /\ pending' = pending /\ working' = working /\ stranded' = stranded
    BY <1>3, <1>5, <1>13, <2>1 DEF bufVars
  <2>6. TypeOK'
    BY <1>1, <1>2, <1>3, <2>1, <2>3 DEF TypeOK, setup, bufVars
  <2>7. MessagesOK'
    <3>1. \A n \in Msgs : pc'[n] # "none" => n <= arrived'
      BY <1>0, <1>1, <1>2, <2>4 DEF MessagesOK, Msgs
    <3>2. \A n \in Msgs : pc'[n] = "sleep" => n \in Texts'
      BY <1>2, <2>4, <2>5 DEF MessagesOK
    <3> QED BY <1>9, <3>1, <3>2 DEF MessagesOK
  <2>8. LocksOK'
    BY <1>2, <1>7, <2>1, <2>2, AcquireKeepsLocks
  <2>9. MapOK'
    <3>1. SUFFICES ASSUME Roomy, NEW n \in Msgs, AtLock(n)' PROVE mine'[n] = lockMap'[msg'[n].chat]
      BY <1>1 DEF MapOK, Roomy, setup
    <3>2. CASE n = m
      BY <1>8, <2>3, <3>2
    <3>3. CASE n # m
      <4>1. AtLock(n) /\ n \in 1 .. arrived /\ msg'[n] = msg[n]
        BY <1>3, <1>6, <2>4, <3>1, <3>3 DEF AtLock
      <4> QED BY <1>2, <1>4, <2>1, <2>2, <3>1, <3>3, <4>1, LanesAssumption, AcquireKeepsMap
    <3> QED BY <3>2, <3>3
  <2>10. TextsOK'
    <3>1. \A t \in Msgs : batch'[t] # <<>> => AtLock(t)'
      BY <1>2, <2>4 DEF TextsOK
    <3>2. ASSUME NEW t \in Msgs, NEW i \in 1 .. Len(batch'[t])
          PROVE  \/ t \in Texts' /\ batch'[t][i] \in Texts' /\ msg'[batch'[t][i]].chat = msg'[t].chat
                 \/ t \notin Texts' /\ batch'[t] = <<t>>
      <4>1. CASE t = m
        BY <1>5, <2>4, <2>5, <4>1 DEF b
      <4>2. CASE t # m
        BY <1>11, <2>4, <4>2
      <4> QED BY <4>1, <4>2
    <3>3. \A x \in Chats : \A i, j \in 1 .. Len(pending'[x]) : i < j => pending'[x][i] < pending'[x][j]
      BY <1>2, <2>5 DEF TextsOK
    <3>4. ASSUME NEW t \in Msgs, t \in Texts', NEW i \in 1 .. Len(batch'[t]),
                 NEW j \in 1 .. Len(pending'[msg'[t].chat])
          PROVE  batch'[t][i] < pending'[msg'[t].chat][j]
      <4>1. t \in Texts /\ t # m /\ msg'[t] = msg[t] /\ batch'[t] = batch[t]
        BY <1>3, <1>5, <2>4, <2>5, <3>4
      <4> QED BY <1>2, <2>5, <4>1 DEF TextsOK
    <3> QED BY <1>10, <2>5, <3>1, <3>2, <3>3, <3>4 DEF TextsOK
  <2>11. WorkersOK'
    <3>1. \A n \in Msgs : n \in Texts => (Active(n)' <=> Active(n)) /\ msg'[n] = msg[n]
      BY <1>3, <1>5, <2>4
    <3>2. \A x \in working' : \E n \in Msgs : n \in Texts' /\ msg'[n].chat = x /\ Active(n)'
      <4> SUFFICES ASSUME NEW x \in working
                   PROVE  \E n \in Msgs : n \in Texts' /\ msg'[n].chat = x /\ Active(n)'
        BY <2>5
      <4>1. PICK n \in Msgs : n \in Texts /\ msg[n].chat = x /\ Active(n)
        BY <1>2 DEF WorkersOK
      <4> QED BY <4>1, <3>1, <2>5
    <3>3. \A n \in Msgs : n \in Texts' /\ Active(n)' => msg'[n].chat \in working'
      BY <1>2, <2>5, <3>1 DEF WorkersOK
    <3>4. \A n, t \in Msgs : n \in Texts' /\ t \in Texts' /\ Active(n)' /\ Active(t)'
                               /\ msg'[n].chat = msg'[t].chat => n = t
      BY <1>2, <2>5, <3>1 DEF WorkersOK
    <3> QED BY <1>2, <2>5, <3>2, <3>3, <3>4 DEF WorkersOK
  <2> QED BY <2>6, <2>7, <2>8, <2>9, <2>10, <2>11 DEF LanesInv
<1> QED BY <1>12, <1>13

LEMMA StepKeeps == LanesInv /\ [Next]_vars => LanesInv'
<1> SUFFICES ASSUME LanesInv, [Next]_vars PROVE LanesInv'
  OBVIOUS
<1>1. ASSUME NEW c \in Chats, NEW a \in Authors, NEW k \in Kinds, Arrive(c, a, k)
      PROVE  LanesInv'
  BY <1>1, ArriveKeeps
<1>2. ASSUME NEW m \in Msgs, WorkerWakes(m)
      PROVE  LanesInv'
  BY <1>2, WakeKeeps
<1>3. ASSUME NEW m \in Msgs, Resume(m)
      PROVE  LanesInv'
  BY <1>3, ResumeKeeps
<1>4. ASSUME NEW m \in Msgs, pc[m] = "run"
      PROVE  /\ m \in Texts <=> IsText(m)
             /\ working \subseteq Chats /\ stranded \subseteq Chats /\ msg[m].chat \in Chats
  <2>1. m \in 1 .. arrived /\ msg \in [1 .. arrived -> Message]
    BY <1>4 DEF LanesInv, TypeOK, MessagesOK, Msgs
  <2> QED BY <2>1 DEF LanesInv, TypeOK, Texts, Message
<1>5. ASSUME NEW m \in Msgs, Finish(m)
      PROVE  LanesInv'
  <2>1. /\ pc[m] = "run" /\ Release(m, IF IsText(m) THEN "sleep" ELSE "done")
        /\ working' = working /\ stranded' = stranded
    BY <1>5 DEF Finish, IsText
  <2> DEFINE after == IF IsText(m) THEN "sleep" ELSE "done"
  <2>2. /\ after \in {"sleep", "done"} /\ Release(m, after)
        /\ after = "sleep" => m \in Texts
        /\ ~(after = "done" /\ m \in Texts)
    BY <2>1, <1>4
  <2> HIDE DEF after
  <2> QED BY <2>1, <2>2, <1>4, ReleaseKeeps
<1>6. ASSUME NEW m \in Msgs, WorkerDies(m)
      PROVE  LanesInv'
  <2>1. /\ pc[m] = "run" /\ IsText(m) /\ Release(m, "done")
        /\ working' = working \ {msg[m].chat}
        /\ stranded' = IF pending[msg[m].chat] = <<>> THEN stranded
                       ELSE stranded \cup {msg[m].chat}
    BY <1>6 DEF WorkerDies, IsText
  <2>2. m \in Texts /\ working' \subseteq Chats /\ stranded' \subseteq Chats
    BY <2>1, <1>4
  <2> QED BY <2>1, <2>2, ReleaseKeeps
<1>7. CASE UNCHANGED vars
  <2>1. /\ UNCHANGED <<setup, arrived, msg, lockMap, held, waiters, bufMap, pending, working>>
        /\ UNCHANGED <<pc, mine, batch, stranded>>
    BY <1>7 DEF vars, lockVars, bufVars
  <2>2. Texts' = Texts /\ \A n \in Msgs : (AtLock(n)' <=> AtLock(n)) /\ (Active(n)' <=> Active(n))
    BY <2>1, SameTexts DEF AtLock, Active
  <2>3. TypeOK' /\ MessagesOK' /\ LocksOK'
    BY <2>1, <2>2 DEF LanesInv, TypeOK, MessagesOK, LocksOK, setup
  <2>4. MapOK'
    BY <2>1, <2>2 DEF LanesInv, MapOK, Roomy, setup
  <2>5. TextsOK' /\ WorkersOK'
    BY <2>1, <2>2 DEF LanesInv, TextsOK, WorkersOK
  <2> QED BY <2>3, <2>4, <2>5 DEF LanesInv
<1> QED BY <1>1, <1>2, <1>3, <1>5, <1>6, <1>7 DEF Next, TaskStep, Done

LEMMA Invariance == Spec => []LanesInv
<1>1. Init => LanesInv
  BY InitHolds, LanesAssumption
<1> QED BY <1>1, StepKeeps, PTL DEF Spec

-----------------------------------------------------------------------------
(* The theorems.                                                           *)

(* The variables keep their types, whatever the limits and the messages.   *)
THEOREM TypeCorrect == Spec => []TypeOK
<1>1. LanesInv => TypeOK
  BY DEF LanesInv
<1> QED BY <1>1, Invariance, PTL

(* Two tasks never run with one lock, and never in one chat while the map  *)
(* of locks has room for every chat.                                       *)
THEOREM ChatsAreSerial == Spec => []OneRunPerChat
<1>1. LanesInv => OneRunPerChat
  <2> SUFFICES ASSUME LanesInv, NEW c \in Chats, NEW m \in Running(c), NEW n \in Running(c), m # n
               PROVE  mine[m] # mine[n] /\ maxLocks < Cardinality(Chats)
    BY DEF OneRunPerChat
  <2>1. /\ m \in Msgs /\ n \in Msgs /\ pc[m] = "run" /\ pc[n] = "run"
        /\ msg[m].chat = c /\ msg[n].chat = c
    BY LanesAssumption DEF Running, LanesInv, TypeOK, Msgs, LanesAssumption
  <2>2. mine[m] # mine[n]
    BY <2>1 DEF LanesInv, LocksOK
  <2>3. ~Roomy
    BY <2>1, <2>2 DEF LanesInv, MapOK, AtLock
  <2>4. Cardinality(Chats) \in Nat /\ maxLocks \in Nat
    BY LanesAssumption, FS_CardinalityType DEF LanesInv, TypeOK, LanesAssumption
  <2> QED BY <2>2, <2>3, <2>4 DEF Roomy
<1> QED BY <1>1, Invariance, PTL

(* Texts never lie in a buffer that no worker will look into, except after *)
(* the worker has died.                                                    *)
THEOREM BuffersAreServed == Spec => []BufferHasWorker
<1>1. LanesInv => BufferHasWorker
  <2> SUFFICES ASSUME LanesInv, NEW c \in Chats, pending[c] # <<>>, c \notin stranded
               PROVE  \E m \in 1 .. arrived :
                        msg[m].chat = c /\ IsText(m) /\ pc[m] \notin {"none", "done"}
    BY DEF BufferHasWorker
  <2>1. PICK m \in Msgs : m \in Texts /\ msg[m].chat = c /\ Active(m)
    BY DEF LanesInv, WorkersOK
  <2> QED BY <2>1 DEF Texts, Active, AtLock
<1> QED BY <1>1, Invariance, PTL

(* The texts of a chat are answered in the order of their arrival.         *)
THEOREM TextsKeepOrder == Spec => []TextsInOrder
<1>1. LanesInv => TextsInOrder
  <2> SUFFICES ASSUME LanesInv, NEW t \in Msgs, pc[t] = "run", IsText(t),
                      NEW m \in 1 .. arrived, NEW n \in 1 .. arrived, m < n,
                      msg[m].chat = msg[t].chat, IsText(m),
                      NEW i \in DOMAIN batch[t], n = batch[t][i]
               PROVE  ~InBuffer(m) /\ InBatch(m) \subseteq {t}
    BY DEF TextsInOrder
  <2>0. TypeOK /\ MessagesOK /\ TextsOK /\ WorkersOK
    BY DEF LanesInv
  <2>1. t \in Texts /\ m \in Texts /\ Active(t) /\ m \in Msgs /\ arrived \in Nat
    BY <2>0, LanesAssumption DEF MessagesOK, Texts, Active, AtLock, TypeOK, Msgs, LanesAssumption
  <2>2. \A u \in Msgs : DOMAIN batch[u] = 1 .. Len(batch[u]) /\ batch[u] \in Seq(Msgs)
    BY <2>0 DEF TypeOK, Batches
  <2>3. ASSUME NEW c \in Chats, NEW j \in DOMAIN pending[c], pending[c][j] = m
        PROVE  FALSE
    <3>1. j \in 1 .. Len(pending[c])
      BY <2>0 DEF TypeOK
    <3>2. c = msg[t].chat
      BY <2>0, <2>3, <3>1 DEF TextsOK
    <3>3. n < m
      <4>1. i \in 1 .. Len(batch[t]) /\ j \in 1 .. Len(pending[msg[t].chat])
        BY <2>2, <3>1, <3>2
      <4>2. batch[t][i] < pending[msg[t].chat][j]
        BY <2>0, <2>1, <4>1 DEF TextsOK
      <4> QED BY <2>3, <3>2, <4>2
    <3> QED BY <2>1, <3>3
  <2>4. ASSUME NEW u \in Msgs, NEW j \in DOMAIN batch[u], batch[u][j] = m
        PROVE  u = t
    <3>1. j \in 1 .. Len(batch[u]) /\ batch[u] # <<>>
      BY <2>2, EmptySeq
    <3>2. Active(u)
      BY <2>0, <3>1 DEF TextsOK, Active
    <3>3. \/ u \in Texts /\ msg[m].chat = msg[u].chat
          \/ u \notin Texts /\ batch[u] = <<u>>
      BY <2>0, <2>4, <3>1 DEF TextsOK
    <3>4. batch[u] = <<u>> => u = m
      BY <2>4, <3>1
    <3>5. u \in Texts /\ msg[u].chat = msg[t].chat
      BY <2>1, <3>3, <3>4
    <3> QED BY <2>0, <2>1, <3>2, <3>5 DEF WorkersOK
  <2> QED BY <2>3, <2>4 DEF InBuffer, InBatch
<1> QED BY <1>1, Invariance, PTL

(* The messages of a batch have one author, except in groups whose texts   *)
(* are buffered.                                                           *)
THEOREM BatchesHaveOneAuthor == Spec => []OneAuthor
<1>1. LanesInv => OneAuthor
  <2> SUFFICES ASSUME LanesInv, NEW t \in Msgs, NEW i \in DOMAIN batch[t], NEW j \in DOMAIN batch[t],
                      ~(GroupsBuffered /\ msg[t].chat \in Groups)
               PROVE  msg[batch[t][i]].author = msg[batch[t][j]].author
    BY DEF OneAuthor
  <2>0. TypeOK /\ MessagesOK /\ TextsOK
    BY DEF LanesInv
  <2>1. DOMAIN batch[t] = 1 .. Len(batch[t])
    BY <2>0 DEF TypeOK, Batches
  <2>2. CASE t \notin Texts /\ batch[t] = <<t>>
    BY <2>1, <2>2
  <2>3. CASE t \in Texts
    <3>1. \A k \in DOMAIN batch[t] : batch[t][k] \in Texts /\ msg[batch[t][k]].chat = msg[t].chat
      BY <2>0, <2>1, <2>3 DEF TextsOK
    <3>2. msg[t].chat \notin Groups
      BY <2>3 DEF Texts, IsText, Buffered
    <3>3. \A k \in DOMAIN batch[t] : msg[batch[t][k]].author = msg[t].chat
      BY <2>0, <3>1, <3>2 DEF MessagesOK, Texts
    <3> QED BY <3>3
  <2> QED BY <2>0, <2>1, <2>2, <2>3 DEF TextsOK
<1> QED BY <1>1, Invariance, PTL

-----------------------------------------------------------------------------
(* No text is lost and none is answered twice.                             *)

(* A step that moves no text.                                              *)
LEMMA QuietHandsOn ==
  ASSUME UNCHANGED <<arrived, pending, batch>>
  PROVE  HandedOn
BY DEF HandedOn, InBuffer, InBatch

(* The end of a run, or of a worker: its batch is answered.                *)
LEMMA ReleaseHandsOn ==
  ASSUME TypeOK, NEW m \in Msgs, pc[m] = "run", NEW after, Release(m, after), arrived' = arrived
  PROVE  HandedOn
<1>1. /\ pending' = pending /\ batch'[m] = <<>>
      /\ \A t \in Msgs \ {m} : batch'[t] = batch[t]
  BY DEF Release, TypeOK
<1>2. DOMAIN batch'[m] = {}
  BY <1>1
<1>3. \A n : (InBuffer(n)' <=> InBuffer(n))
  BY <1>1 DEF InBuffer
<1>4. \A n : InBatch(n)' = InBatch(n) \ {m}
  BY <1>1, <1>2 DEF InBatch
<1> QED BY <1>3, <1>4 DEF HandedOn

(* Who is in a sequence.                                                   *)
Has(s, n) == \E i \in DOMAIN s : s[i] = n

(* drain drops nothing and adds nothing.                                   *)
LEMMA DrainKeepsAll ==
  ASSUME NEW s \in Seq(Msgs), s # <<>>, NEW n
  PROVE  Has(s, n) <=> Has(Drain(s)[1], n) \/ Has(Drain(s)[2], n)
<1> DEFINE x == Drain(s)[1]
           y == Drain(s)[2]
<1>1. /\ x \in Seq(Msgs) /\ y \in Seq(Msgs)
      /\ \E k \in 1 .. Len(s) :
           /\ Len(x) = k /\ Len(y) = Len(s) - k
           /\ \A i \in 1 .. k : x[i] = s[i]
           /\ \A i \in 1 .. Len(s) - k : y[i] = s[k + i]
  BY DrainCuts, LanesAssumption DEF Batches
<1> HIDE DEF x, y
<1>2. PICK k \in 1 .. Len(s) :
        /\ Len(x) = k /\ Len(y) = Len(s) - k
        /\ \A i \in 1 .. k : x[i] = s[i]
        /\ \A i \in 1 .. Len(s) - k : y[i] = s[k + i]
  BY <1>1
<1>3. /\ DOMAIN s = 1 .. Len(s) /\ DOMAIN x = 1 .. k /\ DOMAIN y = 1 .. Len(s) - k
      /\ Len(s) \in Nat /\ k \in Nat
  BY <1>1, <1>2
<1>4. ASSUME Has(s, n)
      PROVE  Has(x, n) \/ Has(y, n)
  <2>1. PICK i \in 1 .. Len(s) : s[i] = n
    BY <1>3, <1>4 DEF Has
  <2>2. CASE i <= k
    <3>1. i \in 1 .. k
      BY <1>3, <2>2
    <3> QED BY <1>2, <1>3, <2>1, <3>1 DEF Has
  <2>3. CASE ~(i <= k)
    <3>1. i - k \in 1 .. Len(s) - k /\ k + (i - k) = i
      BY <1>3, <2>3
    <3>2. y[i - k] = s[i]
      BY <1>2, <3>1
    <3> QED BY <1>3, <2>1, <3>1, <3>2 DEF Has
  <2> QED BY <2>2, <2>3
<1>5. Has(x, n) => Has(s, n)
  <2>1. \A i \in 1 .. k : i \in 1 .. Len(s)
    BY <1>3
  <2> QED BY <1>2, <1>3, <2>1 DEF Has
<1>6. Has(y, n) => Has(s, n)
  <2>1. \A i \in 1 .. Len(s) - k : k + i \in 1 .. Len(s)
    BY <1>3
  <2> QED BY <1>2, <1>3, <2>1 DEF Has
<1> QED BY <1>4, <1>5, <1>6 DEF x, y

(* A worker takes a batch: what it leaves in the buffer and what it takes  *)
(* is what was in the buffer.                                              *)
LEMMA WakeHandsOn ==
  ASSUME LanesInv, NEW m \in Msgs, WorkerWakes(m)
  PROVE  HandedOn
<1>0. TypeOK /\ TextsOK /\ arrived' = arrived /\ pc[m] = "sleep"
  BY DEF LanesInv, WorkerWakes
<1>1. PICK c \in Chats : c = msg[m].chat
  <2>1. m \in 1 .. arrived /\ msg \in [1 .. arrived -> Message]
    BY <1>0 DEF LanesInv, MessagesOK, TypeOK, Texts
  <2> QED BY <2>1 DEF Message
<1>2. CASE pending[c] = <<>>
  BY <1>0, <1>1, <1>2, QuietHandsOn DEF WorkerWakes, lockVars
<1>3. CASE pending[c] # <<>>
  <2>1. PICK s \in Seq(Msgs) : s = pending[c] /\ s # <<>>
    BY <1>0, <1>3 DEF TypeOK
  <2>2. /\ pending'[c] = Drain(s)[2] /\ \A x \in Chats \ {c} : pending'[x] = pending[x]
        /\ batch'[m] = Drain(s)[1] /\ \A t \in Msgs \ {m} : batch'[t] = batch[t]
    BY <1>0, <1>1, <2>1 DEF WorkerWakes, Acquire, TypeOK
  <2>3. \A n : Has(pending[c], n) <=> Has(batch'[m], n) \/ Has(pending'[c], n)
    BY <2>1, <2>2, DrainKeepsAll
  <2>4. \A n : ~Has(batch[m], n)
    <3>1. batch[m] = <<>>
      BY <1>0 DEF TextsOK, AtLock
    <3> QED BY <3>1 DEF Has
  <2>5. /\ \A n : InBuffer(n) <=> \E x \in Chats : Has(pending[x], n)
        /\ \A n : InBuffer(n)' <=> \E x \in Chats : Has(pending'[x], n)
        /\ \A n : InBatch(n) = {t \in Msgs : Has(batch[t], n)}
        /\ \A n : InBatch(n)' = {t \in Msgs : Has(batch'[t], n)}
    BY DEF InBuffer, InBatch, Has
  <2>6. \A n : InBuffer(n) => InBuffer(n)' \/ m \in InBatch(n)'
    BY <2>2, <2>3, <2>5
  <2>7. \A n : InBuffer(n)' => InBuffer(n)
    BY <2>2, <2>3, <2>5
  <2>8. \A n : ~InBuffer(n) => InBatch(n)' \subseteq InBatch(n)
    BY <2>2, <2>3, <2>5
  <2>9. \A n : InBatch(n) \subseteq InBatch(n)'
    BY <2>2, <2>4, <2>5
  <2> QED BY <1>0, <2>6, <2>7, <2>8, <2>9 DEF HandedOn
<1> QED BY <1>2, <1>3

LEMMA AppendHas ==
  ASSUME NEW s \in Seq(Msgs), NEW m \in Msgs, NEW n
  PROVE  Has(Append(s, m), n) <=> n = m \/ Has(s, n)
<1> DEFINE a == Append(s, m)
<1>1. /\ DOMAIN s = 1 .. Len(s) /\ Len(s) \in Nat
      /\ a \in Seq(Msgs) /\ Len(a) = Len(s) + 1
      /\ \A i \in 1 .. Len(s) : a[i] = s[i]
      /\ a[Len(s) + 1] = m
  BY AppendProperties
<1>2. DOMAIN a = 1 .. Len(s) + 1
  BY <1>1
<1> HIDE DEF a
<1>3. \A i : i \in 1 .. Len(s) + 1 <=> i \in 1 .. Len(s) \/ i = Len(s) + 1
  BY <1>1
<1>4. Has(a, n) <=> n = m \/ Has(s, n)
  BY <1>1, <1>2, <1>3 DEF Has
<1> QED BY <1>4 DEF a

(* A message arrives: the clean-up of the buffers discards none that has   *)
(* texts in it.                                                            *)
LEMMA ArriveHandsOn ==
  ASSUME LanesInv, NEW c \in Chats, NEW a \in Authors, NEW k \in Kinds, Arrive(c, a, k)
  PROVE  HandedOn
<1> DEFINE m == arrived + 1
<1>1. TypeOK /\ MessagesOK /\ TextsOK /\ arrived' = m /\ arrived < MaxMsgs
  BY DEF LanesInv, Arrive
<1>2. m \in Msgs /\ m \notin 1 .. arrived /\ arrived \in Nat
  BY <1>1, LanesAssumption DEF TypeOK, Msgs, LanesAssumption
<1>3. CASE Buffered(c, k)
  <2>1. batch' = batch /\ Buffer(m, c)
    BY <1>3 DEF Arrive
  <2>2. /\ pending'[c] = Append(pending[c], m)
        /\ \A x \in Chats \ {c} : pending'[x] = pending[x]
    <3>1. \A x \in Discarded : pending[x] = <<>>
      BY DEF Discarded
    <3> QED BY <2>1, <3>1 DEF Buffer
  <2>3. PICK s \in Seq(Msgs) : s = pending[c]
    BY <1>1 DEF TypeOK
  <2>4. \A n : Has(Append(s, m), n) <=> n = m \/ Has(s, n)
    BY <1>2, AppendHas
  <2>5. \A n : (\E i \in DOMAIN pending'[c] : pending'[c][i] = n)
               <=> n = m \/ \E i \in DOMAIN pending[c] : pending[c][i] = n
    BY <2>2, <2>3, <2>4 DEF Has
  <2>6. \A n : InBuffer(n)' <=> n = m \/ InBuffer(n)
    BY <2>2, <2>5 DEF InBuffer
  <2>7. \A n : InBatch(n)' = InBatch(n)
    BY <2>1 DEF InBatch
  <2>8. InBuffer(arrived)'
    BY <1>1, <2>2, <2>5 DEF InBuffer
  <2> QED BY <1>2, <2>6, <2>7, <2>8 DEF HandedOn
<1>4. CASE ~Buffered(c, k)
  <2>1. pending' = pending /\ batch' = [batch EXCEPT ![m] = <<m>>]
    BY <1>4 DEF Arrive, Acquire, bufVars
  <2>2. DOMAIN batch[m] = {}
    <3>1. pc[m] = "none"
      BY <1>1, <1>2 DEF MessagesOK
    <3>2. batch[m] = <<>>
      BY <1>1, <1>2, <3>1 DEF TextsOK, AtLock
    <3> QED BY <3>2
  <2>3. /\ batch'[m] = <<m>> /\ DOMAIN <<m>> = {1} /\ <<m>>[1] = m
        /\ \A t \in Msgs \ {m} : batch'[t] = batch[t]
    BY <1>1, <1>2, <2>1 DEF TypeOK
  <2>4. \A n : InBuffer(n)' <=> InBuffer(n)
    BY <2>1 DEF InBuffer
  <2>5. \A n \in 1 .. arrived : InBatch(n)' = InBatch(n)
    BY <1>2, <2>2, <2>3 DEF InBatch
  <2>6. InBatch(arrived)' # {}
    BY <1>1, <1>2, <2>3 DEF InBatch
  <2> QED BY <2>4, <2>5, <2>6 DEF HandedOn
<1> QED BY <1>3, <1>4

(* No text is lost on its way and none is answered twice, whatever the     *)
(* clean-ups of locks and buffers forget and whichever worker dies.        *)
THEOREM NoTextIsLost == Spec => AnsweredOnce
<1>1. LanesInv /\ [Next]_vars => [HandedOn]_vars
  <2> SUFFICES ASSUME LanesInv, Next PROVE HandedOn \/ UNCHANGED vars
    OBVIOUS
  <2>0. TypeOK
    BY DEF LanesInv
  <2>1. ASSUME NEW c \in Chats, NEW a \in Authors, NEW k \in Kinds, Arrive(c, a, k)
        PROVE  HandedOn
    BY <2>1, ArriveHandsOn
  <2>2. ASSUME NEW m \in Msgs, WorkerWakes(m)
        PROVE  HandedOn
    BY <2>2, WakeHandsOn
  <2>3. ASSUME NEW m \in Msgs, Resume(m)
        PROVE  HandedOn
    BY <2>3, QuietHandsOn DEF Resume, bufVars
  <2>4. ASSUME NEW m \in Msgs, Finish(m)
        PROVE  HandedOn
    BY <2>0, <2>4, ReleaseHandsOn DEF Finish, Release
  <2>5. ASSUME NEW m \in Msgs, WorkerDies(m)
        PROVE  HandedOn
    BY <2>0, <2>5, ReleaseHandsOn DEF WorkerDies, Release
  <2> QED BY <2>1, <2>2, <2>3, <2>4, <2>5 DEF Next, TaskStep, Done
<1> QED BY <1>1, Invariance, PTL DEF Spec, AnsweredOnce
=============================================================================
