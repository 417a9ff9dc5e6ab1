-------------------------- MODULE GatewayChatProofs --------------------------
(***************************************************************************)
(* Proofs about the assistant gateway, for every number of concurrent      *)
(* requests, every length of the line, and with or without failing headers *)
(* where the theorem does not say.  First RequestQueue by itself, then     *)
(* GatewayChat, which uses it.                                             *)
(***************************************************************************)
EXTENDS GatewayChat, SequenceTheorems, TLAPS

-----------------------------------------------------------------------------
(* list.remove on a list without duplicates.                               *)

NoDups(s) == \A i, j \in DOMAIN s : s[i] = s[j] => i = j

(* The first place of r in s is the one RemoveFirst takes out.             *)
LEMMA RemoveFirstIsRemoveAt ==
  ASSUME NEW S, NEW s \in Seq(S), NEW k \in 1 .. Len(s), NoDups(s)
  PROVE  RemoveFirst(s, s[k]) = RemoveAt(s, k)
<1> DEFINE I == {i \in 1 .. Len(s) : s[i] = s[k]}
<1>1. I = {k}
  BY DEF NoDups
<1>2. Min(I) = k
  BY <1>1 DEF Min
<1>3. SelectInSeq(s, LAMBDA v : v = s[k]) = IF I # {} THEN Min(I) ELSE 0
  BY DEF SelectInSeq
<1>4. SelectInSeq(s, LAMBDA v : v = s[k]) = k
  BY <1>1, <1>2, <1>3
<1> QED BY <1>4 DEF RemoveFirst

(* What is left after taking out place k.                                  *)
LEMMA RemoveAtElements ==
  ASSUME NEW S, NEW s \in Seq(S), NEW k \in 1 .. Len(s)
  PROVE  /\ RemoveAt(s, k) \in Seq(S)
         /\ Len(RemoveAt(s, k)) = Len(s) - 1
         /\ \A i \in 1 .. Len(s) - 1 :
              RemoveAt(s, k)[i] = IF i < k THEN s[i] ELSE s[i + 1]
<1> DEFINE a == SubSeq(s, 1, k - 1)
           b == SubSeq(s, k + 1, Len(s))
<1>1. /\ a \in Seq(S) /\ Len(a) = k - 1
      /\ \A i \in 1 .. k - 1 : a[i] = s[i]
  BY SubSeqProperties
<1>2. /\ b \in Seq(S) /\ Len(b) = Len(s) - k
      /\ \A i \in 1 .. Len(s) - k : b[i] = s[k + i]
  <2>1. \A i \in k + 1 .. Len(s) : s[i] \in S
    OBVIOUS
  <2>2. /\ SubSeq(s, k + 1, Len(s)) \in Seq(S)
        /\ Len(SubSeq(s, k + 1, Len(s))) = IF k + 1 <= Len(s) THEN Len(s) - (k + 1) + 1 ELSE 0
        /\ \A i \in 1 .. Len(s) - (k + 1) + 1 :
             SubSeq(s, k + 1, Len(s))[i] = s[(k + 1) + i - 1]
    BY <2>1, SubSeqProperties
  <2> QED BY <2>2
<1> HIDE DEF a, b
<1>3. /\ a \o b \in Seq(S)
      /\ Len(a \o b) = Len(s) - 1
      /\ \A i \in 1 .. Len(a) + Len(b) :
           (a \o b)[i] = IF i <= Len(a) THEN a[i] ELSE b[i - Len(a)]
  <2>1. a \in Seq(S) /\ b \in Seq(S)
    BY <1>1, <1>2
  <2>2. /\ a \o b \in Seq(S)
        /\ Len(a \o b) = Len(a) + Len(b)
        /\ \A i \in 1 .. Len(a) + Len(b) :
             (a \o b)[i] = IF i <= Len(a) THEN a[i] ELSE b[i - Len(a)]
    BY <2>1, ConcatProperties
  <2>3. Len(a) + Len(b) = Len(s) - 1
    BY <1>1, <1>2
  <2> QED BY <2>2, <2>3
<1>4. ASSUME NEW i \in 1 .. Len(s) - 1
      PROVE  (a \o b)[i] = IF i < k THEN s[i] ELSE s[i + 1]
  <2>1. CASE i < k
    BY <1>1, <1>2, <1>3, <2>1
  <2>2. CASE ~(i < k)
    <3>1. i - (k - 1) \in 1 .. Len(s) - k
      BY <2>2
    <3>2. b[i - (k - 1)] = s[k + (i - (k - 1))]
      BY <1>2, <3>1
    <3>3. Len(a) = k - 1 /\ Len(b) = Len(s) - k
      BY <1>1, <1>2
    <3>4. k + (i - (k - 1)) = i + 1
      OBVIOUS
    <3>5. (a \o b)[i] = b[i - (k - 1)]
      BY <1>3, <2>2, <3>3
    <3> QED BY <2>2, <3>2, <3>4, <3>5
  <2> QED BY <2>1, <2>2
<1>5. RemoveAt(s, k) = a \o b
  BY DEF RemoveAt, a, b
<1> QED BY <1>3, <1>4, <1>5

(* Taking out the ticket of r from a line without duplicates: r is gone,   *)
(* everyone else stays, and no duplicate appears.                          *)
LEMMA RemoveFirstElements ==
  ASSUME NEW S, NEW s \in Seq(S), NEW r, Contains(s, r), NoDups(s)
  PROVE  /\ RemoveFirst(s, r) \in Seq(S)
         /\ Len(RemoveFirst(s, r)) = Len(s) - 1
         /\ NoDups(RemoveFirst(s, r))
         /\ \A x : Contains(RemoveFirst(s, r), x) <=> Contains(s, x) /\ x # r
<1>1. PICK k \in 1 .. Len(s) : s[k] = r
  BY DEF Contains
<1> DEFINE t == RemoveAt(s, k)
<1>2. RemoveFirst(s, r) = t
  BY <1>1, RemoveFirstIsRemoveAt
<1>3. /\ t \in Seq(S) /\ Len(t) = Len(s) - 1
      /\ \A i \in 1 .. Len(s) - 1 : t[i] = IF i < k THEN s[i] ELSE s[i + 1]
  BY RemoveAtElements
<1> HIDE DEF t
<1>4. \A i, j \in 1 .. Len(s) : s[i] = s[j] => i = j
  BY DEF NoDups
<1>5. NoDups(t)
  <2>1. DOMAIN t = 1 .. Len(s) - 1
    BY <1>3
  <2>2. ASSUME NEW i \in 1 .. Len(s) - 1, NEW j \in 1 .. Len(s) - 1, t[i] = t[j]
        PROVE  i = j
    <3>1. PICK m \in 1 .. Len(s) : m = (IF i < k THEN i ELSE i + 1)
      OBVIOUS
    <3>2. PICK n \in 1 .. Len(s) : n = (IF j < k THEN j ELSE j + 1)
      OBVIOUS
    <3>3. t[i] = s[m] /\ t[j] = s[n]
      BY <1>3, <3>1, <3>2
    <3>4. m = n
      BY <1>4, <2>2, <3>3
    <3> QED BY <3>1, <3>2, <3>4
  <2> QED BY <2>1, <2>2 DEF NoDups
<1>6. ASSUME NEW x
      PROVE  Contains(t, x) <=> Contains(s, x) /\ x # r
  <2>1. ASSUME Contains(t, x)
        PROVE  Contains(s, x) /\ x # r
    <3>1. PICK i \in 1 .. Len(s) - 1 : t[i] = x
      BY <1>3, <2>1 DEF Contains
    <3>2. i \in 1 .. Len(s) /\ i + 1 \in 1 .. Len(s)
      OBVIOUS
    <3>3. t[i] = IF i < k THEN s[i] ELSE s[i + 1]
      BY <1>3
    <3>4. PICK j \in 1 .. Len(s) : j # k /\ s[j] = x
      BY <3>1, <3>2, <3>3
    <3> QED BY <1>1, <1>4, <3>4 DEF Contains
  <2>2. ASSUME Contains(s, x), x # r
        PROVE  Contains(t, x)
    <3>1. PICK j \in 1 .. Len(s) : s[j] = x
      BY <2>2 DEF Contains
    <3>2. CASE j < k
      <4>1. j \in 1 .. Len(s) - 1
        BY <3>2
      <4> QED BY <1>3, <3>1, <3>2, <4>1 DEF Contains
    <3>3. CASE k < j
      <4>1. j - 1 \in 1 .. Len(s) - 1 /\ ~(j - 1 < k) /\ (j - 1) + 1 = j
        BY <3>3
      <4>2. t[j - 1] = s[j]
        BY <1>3, <4>1
      <4> QED BY <1>3, <3>1, <4>1, <4>2 DEF Contains
    <3> QED BY <1>1, <2>2, <3>1, <3>2, <3>3
  <2> QED BY <2>1, <2>2
<1> QED BY <1>2, <1>3, <1>5, <1>6

(* Taking out the head leaves the tail.                                    *)
LEMMA RemoveFirstHead ==
  ASSUME NEW S, NEW s \in Seq(S), s # <<>>, NoDups(s)
  PROVE  RemoveFirst(s, Head(s)) = Tail(s)
<1>1. 1 \in 1 .. Len(s) /\ s[1] = Head(s)
  BY HeadTailProperties
<1>2. RemoveFirst(s, Head(s)) = RemoveAt(s, 1)
  BY <1>1, RemoveFirstIsRemoveAt
<1>3. RemoveAt(s, 1) = SubSeq(s, 1, 0) \o SubSeq(s, 2, Len(s))
  BY DEF RemoveAt
<1>4. SubSeq(s, 1, 0) = <<>> /\ SubSeq(s, 2, Len(s)) = Tail(s)
  BY SubSeqEmpty, TailIsSubSeq
<1>5. Tail(s) \in Seq(S)
  BY HeadTailProperties
<1> QED BY <1>2, <1>3, <1>4, <1>5, ConcatEmptySeq

(* A newcomer at the end of the line.                                      *)
LEMMA AppendElements ==
  ASSUME NEW S, NEW s \in Seq(S), NEW r \in S, ~Contains(s, r), NoDups(s)
  PROVE  /\ Append(s, r) \in Seq(S)
         /\ Len(Append(s, r)) = Len(s) + 1
         /\ NoDups(Append(s, r))
         /\ \A x : Contains(Append(s, r), x) <=> Contains(s, x) \/ x = r
<1> DEFINE t == Append(s, r)
<1>1. /\ t \in Seq(S) /\ Len(t) = Len(s) + 1
      /\ \A i \in 1 .. Len(s) : t[i] = s[i]
      /\ t[Len(s) + 1] = r
  BY AppendProperties
<1> HIDE DEF t
<1>2. \A i \in 1 .. Len(s) : s[i] # r
  BY DEF Contains
<1>3. \A i, j \in 1 .. Len(s) : s[i] = s[j] => i = j
  BY DEF NoDups
<1>4. NoDups(t)
  <2>1. DOMAIN t = 1 .. Len(s) + 1
    BY <1>1
  <2>2. ASSUME NEW i \in 1 .. Len(s) + 1, NEW j \in 1 .. Len(s) + 1, t[i] = t[j]
        PROVE  i = j
    <3>1. \A n \in 1 .. Len(s) + 1 : n \in 1 .. Len(s) \/ n = Len(s) + 1
      OBVIOUS
    <3> QED BY <1>1, <1>2, <1>3, <2>2, <3>1
  <2> QED BY <2>1, <2>2 DEF NoDups
<1>5. ASSUME NEW x
      PROVE  Contains(t, x) <=> Contains(s, x) \/ x = r
  <2>1. \A n \in 1 .. Len(s) + 1 : n \in 1 .. Len(s) \/ n = Len(s) + 1
    OBVIOUS
  <2>2. \A n \in 1 .. Len(s) : n \in 1 .. Len(s) + 1
    OBVIOUS
  <2>3. Len(s) + 1 \in 1 .. Len(s) + 1
    OBVIOUS
  <2> QED BY <1>1, <2>1, <2>2, <2>3 DEF Contains
<1> QED BY <1>1, <1>4, <1>5 DEF t

-----------------------------------------------------------------------------
(* The inductive invariant is the conjunction of the safety properties:    *)
(* each of them needs the others.  (Taking out a ticket leaves no second   *)
(* one because there are no duplicates; the head cannot be put to sleep    *)
(* with the slot free because only its own thread could do that.)          *)

TicketsInv ==
  /\ \A r \in Requests : Contains(waiting, r) <=> pc[r] \in InLine
  /\ NoDups(waiting)

SlotInv ==
  /\ \A r, s \in Requests : pc[r] = "in" /\ pc[s] = "in" => r = s
  /\ active <=> \E r \in Requests : pc[r] = "in"

IInv == QueueTypeOK /\ TicketsInv /\ SlotInv /\ HeadIsAwake

(* What waking the sleepers does to the threads.                           *)
LEMMA WokenThreads ==
  ASSUME NEW p \in [Requests -> PCs]
  PROVE  /\ Woken(p) \in [Requests -> PCs]
         /\ \A r \in Requests : /\ Woken(p)[r] # "asleep"
                                /\ Woken(p)[r] \in InLine <=> p[r] \in InLine
                                /\ Woken(p)[r] = "in" <=> p[r] = "in"
  BY DEF Woken, PCs, InLine, Outside

(* A thread that is dropped takes its ticket along and wakes the others.   *)
LEMMA DropKeepsIInv ==
  ASSUME IInv, NEW r \in Requests, pc[r] \in InLine, DropLocked(r),
         UNCHANGED <<active, style, due>>
  PROVE  IInv'
<1> DEFINE p == [pc EXCEPT ![r] = "dropped"]
<1>1. /\ p \in [Requests -> PCs] /\ p[r] = "dropped"
      /\ \A x \in Requests : x # r => p[x] = pc[x]
  BY DEF IInv, QueueTypeOK, PCs, Outside
<1>2. pc' = Woken(p) /\ waiting' = RemoveFirst(waiting, r)
  BY DEF DropLocked
<1> HIDE DEF p
<1>3. /\ waiting \in Seq(Requests) /\ NoDups(waiting) /\ Contains(waiting, r)
      /\ Len(waiting) <= MaxWaiting /\ Len(waiting) \in Nat
  BY DEF IInv, QueueTypeOK, TicketsInv
<1>4. /\ waiting' \in Seq(Requests) /\ Len(waiting') = Len(waiting) - 1
      /\ NoDups(waiting')
      /\ \A x : Contains(waiting', x) <=> Contains(waiting, x) /\ x # r
  BY <1>2, <1>3, RemoveFirstElements
<1>5. /\ pc' \in [Requests -> PCs]
      /\ \A x \in Requests : /\ pc'[x] # "asleep"
                             /\ pc'[x] \in InLine <=> p[x] \in InLine
                             /\ pc'[x] = "in" <=> p[x] = "in"
  BY <1>1, <1>2, WokenThreads
<1>6. QueueTypeOK'
  <2>1. Len(waiting') <= MaxWaiting
    BY <1>3, <1>4, QueueAssumption
  <2> QED BY <1>4, <1>5, <2>1 DEF QueueTypeOK, IInv
<1>7. TicketsInv'
  <2>1. \A x \in Requests : p[x] \in InLine <=> pc[x] \in InLine /\ x # r
    BY <1>1 DEF InLine
  <2> QED BY <1>4, <1>5, <2>1 DEF TicketsInv, IInv
<1>8. SlotInv'
  <2>1. \A x \in Requests : pc'[x] = "in" <=> pc[x] = "in"
    BY <1>1, <1>5 DEF InLine
  <2>2. active' = active
    OBVIOUS
  <2> QED BY <2>1, <2>2 DEF SlotInv, IInv
<1>9. HeadIsAwake'
  <2>1. waiting' # <<>> => Head(waiting') \in Requests
    BY <1>4, HeadTailProperties
  <2> QED BY <1>5, <2>1 DEF HeadIsAwake
<1> QED BY <1>6, <1>7, <1>8, <1>9 DEF IInv

(* A thread moves inside wait_turn, or only its clock does.                *)
LEMMA MoveKeepsIInv ==
  ASSUME IInv, NEW r \in Requests, NEW q \in InLine, pc[r] \in InLine,
         pc' = [pc EXCEPT ![r] = q],
         q = "asleep" => ~MyTurn(r),
         due' \in [Requests -> BOOLEAN],
         UNCHANGED <<active, waiting, style>>
  PROVE  IInv'
<1>1. /\ pc' \in [Requests -> PCs] /\ pc'[r] = q
      /\ \A x \in Requests : x # r => pc'[x] = pc[x]
  BY DEF IInv, QueueTypeOK, PCs
<1>2. \A x \in Requests : /\ pc'[x] \in InLine <=> pc[x] \in InLine
                          /\ pc'[x] = "in" <=> pc[x] = "in"
  BY <1>1 DEF InLine
<1>3. QueueTypeOK'
  BY <1>1 DEF IInv, QueueTypeOK
<1>4. TicketsInv'
  BY <1>2 DEF IInv, TicketsInv
<1>5. SlotInv'
  BY <1>2 DEF IInv, SlotInv
<1>6. HeadIsAwake'
  <2>1. waiting # <<>> => Head(waiting) \in Requests
    BY HeadTailProperties DEF IInv, QueueTypeOK
  <2> QED BY <1>1, <2>1 DEF IInv, HeadIsAwake, MyTurn
<1> QED BY <1>3, <1>4, <1>5, <1>6 DEF IInv

(* try_enter.                                                              *)
LEMMA TryEnterKeepsIInv ==
  ASSUME IInv, NEW r \in Requests, NEW s \in Styles, TryEnter(r, s)
  PROVE  IInv'
<1>1. /\ pc[r] \in Outside /\ pc \in [Requests -> PCs]
      /\ style' \in [Requests -> Styles] /\ due' \in [Requests -> BOOLEAN]
      /\ waiting \in Seq(Requests) /\ Len(waiting) <= MaxWaiting
      /\ Len(waiting) \in Nat /\ active \in BOOLEAN
  BY DEF TryEnter, IInv, QueueTypeOK
<1>2. ~Contains(waiting, r) /\ NoDups(waiting)
  BY <1>1 DEF IInv, TicketsInv, Outside, InLine
<1>3. waiting # <<>> => Head(waiting) \in Requests
  BY <1>1, HeadTailProperties
<1>4. ASSUME MayWalkIn, active' = TRUE, pc' = [pc EXCEPT ![r] = "in"], waiting' = waiting
      PROVE  IInv'
  <2>1. /\ pc' \in [Requests -> PCs] /\ pc'[r] = "in"
        /\ \A x \in Requests : x # r => pc'[x] = pc[x]
    BY <1>1, <1>4 DEF PCs
  <2>2. QueueTypeOK'
    BY <1>1, <1>4, <2>1 DEF QueueTypeOK
  <2>3. TicketsInv'
    BY <1>1, <1>4, <2>1 DEF IInv, TicketsInv, Outside, InLine
  <2>4. SlotInv'
    BY <1>4, <2>1 DEF IInv, SlotInv, MayWalkIn
  <2>5. HeadIsAwake'
    BY <1>4 DEF HeadIsAwake
  <2> QED BY <2>2, <2>3, <2>4, <2>5 DEF IInv
<1>5. ASSUME pc' = [pc EXCEPT ![r] = "full"], active' = active, waiting' = waiting
      PROVE  IInv'
  <2>1. /\ pc' \in [Requests -> PCs] /\ pc'[r] = "full"
        /\ \A x \in Requests : x # r => pc'[x] = pc[x]
    BY <1>1, <1>5 DEF PCs, Outside
  <2>2. QueueTypeOK'
    BY <1>1, <1>5, <2>1 DEF QueueTypeOK
  <2>3. TicketsInv'
    BY <1>1, <1>5, <2>1 DEF IInv, TicketsInv, Outside, InLine
  <2>4. SlotInv'
    BY <1>1, <1>5, <2>1 DEF IInv, SlotInv, Outside
  <2>5. HeadIsAwake'
    BY <1>3, <1>5, <2>1 DEF IInv, HeadIsAwake
  <2> QED BY <2>2, <2>3, <2>4, <2>5 DEF IInv
<1>6. ASSUME ~MayWalkIn, ~LineFull, waiting' = Append(waiting, r),
             pc' = [pc EXCEPT ![r] = "check"], active' = active
      PROVE  IInv'
  <2>1. /\ pc' \in [Requests -> PCs] /\ pc'[r] = "check"
        /\ \A x \in Requests : x # r => pc'[x] = pc[x]
    BY <1>1, <1>6 DEF PCs, InLine
  <2>2. /\ waiting' \in Seq(Requests) /\ Len(waiting') = Len(waiting) + 1
        /\ NoDups(waiting')
        /\ \A x : Contains(waiting', x) <=> Contains(waiting, x) \/ x = r
    BY <1>1, <1>2, <1>6, AppendElements
  <2>3. Len(waiting') <= MaxWaiting
    BY <1>1, <1>6, <2>2, QueueAssumption DEF LineFull
  <2>4. QueueTypeOK'
    BY <1>1, <1>6, <2>1, <2>2, <2>3 DEF QueueTypeOK
  <2>5. TicketsInv'
    BY <1>1, <2>1, <2>2 DEF IInv, TicketsInv, InLine
  <2>6. SlotInv'
    BY <1>1, <1>6, <2>1 DEF IInv, SlotInv, Outside
  <2>7. HeadIsAwake'
    <3>1. Head(waiting') = IF waiting = <<>> THEN r ELSE Head(waiting)
      BY <1>1, <1>6, HeadTailAppend
    <3> QED BY <1>3, <1>6, <2>1, <3>1 DEF IInv, HeadIsAwake, MayWalkIn
  <2> QED BY <2>4, <2>5, <2>6, <2>7 DEF IInv
<1> QED BY <1>4, <1>5, <1>6 DEF TryEnter

(* The head of the line goes in.                                           *)
LEMMA TakeTurnKeepsIInv ==
  ASSUME IInv, NEW r \in Requests, TakeTurn(r)
  PROVE  IInv'
<1>1. /\ waiting \in Seq(Requests) /\ Len(waiting) <= MaxWaiting
      /\ Len(waiting) \in Nat /\ pc \in [Requests -> PCs]
      /\ style \in [Requests -> Styles] /\ due' \in [Requests -> BOOLEAN]
  BY DEF TakeTurn, IInv, QueueTypeOK
<1>2. /\ pc[r] = "check" /\ active' = TRUE /\ style' = style
      /\ ~active /\ waiting' = RemoveFirst(waiting, r)
  BY DEF TakeTurn, MyTurn
<1>3. /\ pc' \in [Requests -> PCs] /\ pc'[r] = "in"
      /\ \A x \in Requests : x # r => pc'[x] = pc[x]
  BY <1>1 DEF TakeTurn, PCs
<1>4. Contains(waiting, r) /\ NoDups(waiting)
  BY <1>2 DEF IInv, TicketsInv, InLine
<1>5. /\ waiting' \in Seq(Requests) /\ Len(waiting') = Len(waiting) - 1
      /\ NoDups(waiting')
      /\ \A x : Contains(waiting', x) <=> Contains(waiting, x) /\ x # r
  BY <1>1, <1>2, <1>4, RemoveFirstElements
<1>6. QueueTypeOK'
  <2>1. Len(waiting') <= MaxWaiting
    BY <1>1, <1>5, QueueAssumption
  <2> QED BY <1>1, <1>2, <1>3, <1>5, <2>1 DEF QueueTypeOK
<1>7. TicketsInv'
  BY <1>2, <1>3, <1>5 DEF IInv, TicketsInv, InLine
<1>8. SlotInv'
  BY <1>2, <1>3 DEF IInv, SlotInv
<1>9. HeadIsAwake'
  BY <1>2 DEF HeadIsAwake
<1> QED BY <1>6, <1>7, <1>8, <1>9 DEF IInv

(* The slot is given back.                                                 *)
LEMMA ReleaseKeepsIInv ==
  ASSUME IInv, NEW r \in Requests, Release(r)
  PROVE  IInv'
<1> DEFINE p == [pc EXCEPT ![r] = "out"]
<1>1. /\ p \in [Requests -> PCs] /\ p[r] = "out"
      /\ \A x \in Requests : x # r => p[x] = pc[x]
  BY DEF IInv, QueueTypeOK, PCs, Outside
<1>2. /\ pc[r] = "in" /\ active' = FALSE /\ pc' = Woken(p)
      /\ UNCHANGED <<waiting, style, due>>
  BY DEF Release
<1> HIDE DEF p
<1>3. /\ pc' \in [Requests -> PCs]
      /\ \A x \in Requests : /\ pc'[x] # "asleep"
                             /\ pc'[x] \in InLine <=> p[x] \in InLine
                             /\ pc'[x] = "in" <=> p[x] = "in"
  BY <1>1, <1>2, WokenThreads
<1>4. QueueTypeOK'
  BY <1>2, <1>3 DEF IInv, QueueTypeOK
<1>5. TicketsInv'
  <2>1. \A x \in Requests : pc'[x] \in InLine <=> pc[x] \in InLine
    BY <1>1, <1>2, <1>3 DEF InLine
  <2> QED BY <1>2, <2>1 DEF IInv, TicketsInv
<1>6. SlotInv'
  BY <1>1, <1>2, <1>3 DEF IInv, SlotInv
<1>7. HeadIsAwake'
  <2>1. waiting # <<>> => Head(waiting) \in Requests
    BY HeadTailProperties DEF IInv, QueueTypeOK
  <2> QED BY <1>2, <1>3, <2>1 DEF HeadIsAwake
<1> QED BY <1>4, <1>5, <1>6, <1>7 DEF IInv

-----------------------------------------------------------------------------
(* The invariant holds initially and every step preserves it.              *)

LEMMA InitIInv == QueueInit => IInv
<1> SUFFICES ASSUME QueueInit PROVE IInv
  OBVIOUS
<1>1. QueueTypeOK
  <2>1. waiting \in Seq(Requests) /\ Len(waiting) = 0
    BY DEF QueueInit
  <2>2. Len(waiting) <= MaxWaiting
    BY <2>1, QueueAssumption
  <2> QED BY <2>1, <2>2 DEF QueueInit, QueueTypeOK, PCs, Outside, Styles
<1>2. TicketsInv
  BY DEF QueueInit, TicketsInv, NoDups, Contains, InLine
<1>3. SlotInv /\ HeadIsAwake
  BY DEF QueueInit, SlotInv, HeadIsAwake
<1> QED BY <1>1, <1>2, <1>3 DEF IInv

LEMMA NextIInv == IInv /\ [QueueNext]_qvars => IInv'
<1> SUFFICES ASSUME IInv, [QueueNext]_qvars PROVE IInv'
  OBVIOUS
<1>1. ASSUME NEW r \in Requests, NEW s \in Styles, TryEnter(r, s)
      PROVE  IInv'
  BY <1>1, TryEnterKeepsIInv
<1>2. ASSUME NEW r \in Requests, TakeTurn(r)
      PROVE  IInv'
  BY <1>2, TakeTurnKeepsIInv
<1>3. ASSUME NEW r \in Requests, GiveUp(r) \/ DropTicket(r)
      PROVE  IInv'
  BY <1>3, DropKeepsIInv DEF GiveUp, DropTicket, InLine
<1>4. ASSUME NEW r \in Requests,
             \/ Sleep(r) \/ WaitTimesOut(r) \/ StartBeat(r)
             \/ BeatGoesOut(r) \/ BeatFails(r) \/ Tick(r)
      PROVE  IInv'
  <2>1. due \in [Requests -> BOOLEAN] /\ pc \in [Requests -> PCs]
    BY DEF IInv, QueueTypeOK
  <2>2. CASE Sleep(r)
    BY <2>1, <2>2, MoveKeepsIInv DEF Sleep, InLine
  <2>3. CASE WaitTimesOut(r)
    BY <2>1, <2>3, MoveKeepsIInv DEF WaitTimesOut, InLine
  <2>4. CASE StartBeat(r)
    BY <2>1, <2>4, MoveKeepsIInv DEF StartBeat, InLine
  <2>5. CASE BeatGoesOut(r)
    <3>1. due' \in [Requests -> BOOLEAN]
      BY <2>1, <2>5 DEF BeatGoesOut
    <3> QED BY <2>5, <3>1, MoveKeepsIInv DEF BeatGoesOut, InLine
  <2>6. CASE BeatFails(r)
    BY <2>1, <2>6, MoveKeepsIInv DEF BeatFails, InLine
  <2>7. CASE Tick(r)
    <3>1. due' \in [Requests -> BOOLEAN]
      BY <2>1, <2>7 DEF Tick
    <3> QED BY <2>7, <3>1 DEF Tick, IInv, QueueTypeOK, TicketsInv, SlotInv, HeadIsAwake
  <2> QED BY <1>4, <2>2, <2>3, <2>4, <2>5, <2>6, <2>7
<1>5. ASSUME NEW r \in Requests, Release(r)
      PROVE  IInv'
  BY <1>5, ReleaseKeepsIInv
<1>6. CASE UNCHANGED qvars
  BY <1>6 DEF qvars, IInv, QueueTypeOK, TicketsInv, SlotInv, HeadIsAwake
<1> QED BY <1>1, <1>2, <1>3, <1>4, <1>5, <1>6 DEF QueueNext, Step

LEMMA IInvHolds == QueueSpec => []IInv
BY InitIInv, NextIInv, PTL DEF QueueSpec

-----------------------------------------------------------------------------
(* The theorems.                                                           *)

(* Every variable keeps its type and the line its bound.                   *)
THEOREM TypeCorrect == QueueSpec => []QueueTypeOK
<1>1. IInv => QueueTypeOK
  BY DEF IInv
<1> QED BY <1>1, IInvHolds, PTL

(* One request at a time holds the slot, and _active says so: the promise  *)
(* of RequestQueue's docstring, for any number of concurrent requests.     *)
THEOREM MutualExclusion == QueueSpec => []OneInside
<1>1. IInv => OneInside
  BY DEF IInv, SlotInv, OneInside
<1> QED BY <1>1, IInvHolds, PTL

(* Leaving wait_turn and leaving the line are the same thing.              *)
THEOREM NoStrayTickets == QueueSpec => []TicketsAreWaiters
<1>1. IInv => TicketsAreWaiters
  BY DEF IInv, TicketsInv, NoDups, TicketsAreWaiters
<1> QED BY <1>1, IInvHolds, PTL

(* release and _drop_locked never leave the next in line asleep.           *)
THEOREM NoLostWakeup == QueueSpec => []HeadIsAwake
<1>1. IInv => HeadIsAwake
  BY DEF IInv
<1> QED BY <1>1, IInvHolds, PTL

-----------------------------------------------------------------------------
(* The queue implements the turnstile.                                     *)

Inside == {r \in Requests : pc[r] = "in"}

(* A step that moves nobody in, out, into or out of the line is a stutter. *)
LEMMA StutterStep ==
  ASSUME waiting' = waiting,
         \A x \in Requests : pc'[x] = "in" <=> pc[x] = "in"
  PROVE  [Abstract!Next]_(Abstract!tvars)
BY DEF Abstract!tvars

(* A dropped ticket is a client that gives up.                             *)
LEMMA DropIsGiveUp ==
  ASSUME IInv, NEW r \in Requests, pc[r] \in InLine, DropLocked(r)
  PROVE  Abstract!Next
<1> DEFINE p == [pc EXCEPT ![r] = "dropped"]
<1>1. /\ p \in [Requests -> PCs] /\ p[r] = "dropped"
      /\ \A x \in Requests : x # r => p[x] = pc[x]
  BY DEF IInv, QueueTypeOK, PCs, Outside
<1>2. pc' = Woken(p) /\ waiting' = RemoveFirst(waiting, r)
  BY DEF DropLocked
<1> HIDE DEF p
<1>3. \A x \in Requests : pc'[x] = "in" <=> pc[x] = "in"
  BY <1>1, <1>2, WokenThreads DEF InLine
<1>4. waiting \in Seq(Requests) /\ NoDups(waiting) /\ Contains(waiting, r)
  BY DEF IInv, QueueTypeOK, TicketsInv
<1>5. PICK k \in 1 .. Len(waiting) : waiting[k] = r
  BY <1>4 DEF Contains
<1>6. waiting' = SubSeq(waiting, 1, k - 1) \o SubSeq(waiting, k + 1, Len(waiting))
  BY <1>2, <1>4, <1>5, RemoveFirstIsRemoveAt DEF RemoveAt
<1>7. k \in DOMAIN waiting
  BY <1>4
<1>8. Abstract!GiveUp(r)
  BY <1>3, <1>5, <1>6, <1>7 DEF Abstract!GiveUp
<1> QED BY <1>8 DEF Abstract!Next

(* Every step of the queue is a step of the turnstile or a stutter.        *)
LEMMA StepImplements ==
  ASSUME IInv, [QueueNext]_qvars
  PROVE  [Abstract!Next]_(Abstract!tvars)
<1>0. /\ pc \in [Requests -> PCs] /\ waiting \in Seq(Requests)
      /\ Len(waiting) \in Nat /\ active \in BOOLEAN
  BY DEF IInv, QueueTypeOK
<1>1. ASSUME NEW r \in Requests, NEW s \in Styles, TryEnter(r, s)
      PROVE  [Abstract!Next]_(Abstract!tvars)
  <2>0. pc[r] \in Outside
    BY <1>1 DEF TryEnter
  <2>1. ASSUME MayWalkIn, active' = TRUE, pc' = [pc EXCEPT ![r] = "in"], waiting' = waiting
        PROVE  Abstract!WalkIn(r)
    <3>1. \A x \in Requests : pc[x] # "in"
      BY <2>1 DEF MayWalkIn, IInv, SlotInv
    <3>2. \A x \in Requests : pc'[x] = "in" <=> x = r
      BY <1>0, <2>1, <3>1
    <3>3. waiting = <<>>
      BY <2>1 DEF MayWalkIn
    <3> QED BY <2>1, <3>1, <3>2, <3>3 DEF Abstract!WalkIn
  <2>2. ASSUME pc' = [pc EXCEPT ![r] = "full"], waiting' = waiting
        PROVE  [Abstract!Next]_(Abstract!tvars)
    <3>1. \A x \in Requests : pc'[x] = "in" <=> pc[x] = "in"
      BY <1>0, <2>0, <2>2 DEF Outside
    <3> QED BY <2>2, <3>1, StutterStep
  <2>3. ASSUME ~MayWalkIn, ~LineFull, waiting' = Append(waiting, r),
               pc' = [pc EXCEPT ![r] = "check"]
        PROVE  Abstract!Join(r)
    <3>1. \A x \in Requests : pc'[x] = "in" <=> pc[x] = "in"
      BY <1>0, <2>0, <2>3 DEF Outside
    <3>2. Inside # {} \/ waiting # <<>>
      BY <1>0, <2>3 DEF MayWalkIn, IInv, SlotInv, Inside
    <3>3. r \notin Inside /\ \A i \in DOMAIN waiting : waiting[i] # r
      BY <1>0, <2>0 DEF IInv, TicketsInv, Outside, InLine, Inside, Contains
    <3>4. Len(waiting) < MaxWaiting
      BY <1>0, <2>3, QueueAssumption DEF LineFull
    <3> QED BY <2>3, <3>1, <3>2, <3>3, <3>4 DEF Abstract!Join, Inside
  <2> QED BY <1>1, <2>1, <2>2, <2>3 DEF TryEnter, Abstract!Next
<1>2. ASSUME NEW r \in Requests, TakeTurn(r)
      PROVE  [Abstract!Next]_(Abstract!tvars)
  <2>1. /\ ~active /\ waiting # <<>> /\ Head(waiting) = r
        /\ waiting' = RemoveFirst(waiting, r) /\ pc' = [pc EXCEPT ![r] = "in"]
    BY <1>2 DEF TakeTurn, MyTurn
  <2>2. NoDups(waiting)
    BY DEF IInv, TicketsInv
  <2>3. waiting' = Tail(waiting)
    BY <1>0, <2>1, <2>2, RemoveFirstHead
  <2>4. \A x \in Requests : pc[x] # "in"
    BY <2>1 DEF IInv, SlotInv
  <2>5. \A x \in Requests : pc'[x] = "in" <=> x = r
    BY <1>0, <2>1, <2>4
  <2>6. Abstract!Admit
    BY <2>1, <2>3, <2>4, <2>5 DEF Abstract!Admit
  <2> QED BY <2>6 DEF Abstract!Next
<1>3. ASSUME NEW r \in Requests, GiveUp(r) \/ DropTicket(r)
      PROVE  [Abstract!Next]_(Abstract!tvars)
  BY <1>3, DropIsGiveUp DEF GiveUp, DropTicket, InLine
<1>4. ASSUME NEW r \in Requests,
             \/ Sleep(r) \/ WaitTimesOut(r) \/ StartBeat(r)
             \/ BeatGoesOut(r) \/ BeatFails(r) \/ Tick(r)
      PROVE  [Abstract!Next]_(Abstract!tvars)
  <2>1. waiting' = waiting
    BY <1>4 DEF Sleep, WaitTimesOut, StartBeat, BeatGoesOut, BeatFails, Tick
  <2>2. \A x \in Requests : pc'[x] = "in" <=> pc[x] = "in"
    BY <1>0, <1>4 DEF Sleep, WaitTimesOut, StartBeat, BeatGoesOut, BeatFails, Tick
  <2> QED BY <2>1, <2>2, StutterStep
<1>5. ASSUME NEW r \in Requests, Release(r)
      PROVE  [Abstract!Next]_(Abstract!tvars)
  <2> DEFINE p == [pc EXCEPT ![r] = "out"]
  <2>1. /\ p \in [Requests -> PCs] /\ p[r] = "out"
        /\ \A x \in Requests : x # r => p[x] = pc[x]
    BY <1>0 DEF PCs, Outside
  <2>2. pc[r] = "in" /\ pc' = Woken(p) /\ waiting' = waiting
    BY <1>5 DEF Release
  <2> HIDE DEF p
  <2>3. \A x \in Requests : pc'[x] = "in" <=> p[x] = "in"
    BY <2>1, <2>2, WokenThreads
  <2>4. \A x \in Requests : pc'[x] # "in"
    BY <2>1, <2>2, <2>3 DEF IInv, SlotInv
  <2>5. Abstract!GoOut
    BY <2>2, <2>4 DEF Abstract!GoOut
  <2> QED BY <2>5 DEF Abstract!Next
<1>6. CASE UNCHANGED qvars
  BY <1>6, StutterStep DEF qvars
<1> QED BY <1>1, <1>2, <1>3, <1>4, <1>5, <1>6 DEF QueueNext, Step

(* The condition variable, the clocks and the heartbeats implement a       *)
(* bounded first-come first-served turnstile.                              *)
THEOREM ImplementsTurnstile == QueueSpec => TurnstileSpec
<1>1. QueueInit => Abstract!Init
  BY DEF QueueInit, Abstract!Init
<1>2. IInv /\ [QueueNext]_qvars => [Abstract!Next]_(Abstract!tvars)
  BY StepImplements
<1> QED BY <1>1, <1>2, IInvHolds, PTL DEF QueueSpec, TurnstileSpec, Abstract!Spec

-----------------------------------------------------------------------------
(* The gateway's steps are queue steps.                                    *)

LEMMA StepUsesQueue == [Next]_vars => [QueueNext]_qvars
<1> SUFFICES ASSUME [Next]_vars PROVE [QueueNext]_qvars
  OBVIOUS
<1>1. ASSUME NEW r \in Requests, NEW s \in Styles, Post(r, s)
      PROVE  [QueueNext]_qvars
  BY <1>1 DEF Post, QueueNext
<1>2. ASSUME NEW r \in Requests, Handler(r)
      PROVE  [QueueNext]_qvars
  <2>1. CASE InTurn(r)
    BY <2>1 DEF InTurn, QueueNext, Step
  <2>2. CASE Finish(r)
    BY <2>2 DEF Finish, QueueNext
  <2>3. CASE Open(r) \/ Spawn(r) \/ PrepRaises(r)
    BY <2>3 DEF Open, Spawn, PrepRaises
  <2>4. CASE ReadsEof(r) \/ RunTimesOut(r) \/ Reap(r)
    BY <2>4 DEF ReadsEof, RunTimesOut, Reap
  <2> QED BY <1>2, <2>1, <2>2, <2>3, <2>4 DEF Handler
<1>3. ASSUME NEW r \in Requests, Clock(r)
      PROVE  [QueueNext]_qvars
  BY <1>3 DEF Clock, QueueNext
<1>4. ASSUME NEW r \in Requests,
             OpenRaises(r) \/ LineEndsRead(r) \/ ClientLeaves(r) \/ Watcher(r) \/ ChildExits(r)
      PROVE  [QueueNext]_qvars
  BY <1>4 DEF OpenRaises, LineEndsRead, ClientLeaves, Watcher, WatcherSees,
              WatcherActs, ChildExits
<1>5. CASE UNCHANGED vars
  BY <1>5 DEF vars
<1> QED BY <1>1, <1>2, <1>3, <1>4, <1>5 DEF Next

(* Handlers, watchers, clients and children use the queue as it wants to   *)
(* be used, so what is proved of the queue holds inside the gateway.       *)
THEOREM GatewayUsesQueue == Spec => UsesQueue
<1>1. Init => QueueInit
  BY DEF Init
<1> QED BY <1>1, StepUsesQueue, PTL DEF Spec, UsesQueue, QueueSpec

(* So the gateway as a whole, with failing headers, clients that leave and *)
(* children that never end, lets requests in like the turnstile: one at a  *)
(* time, first come first served, and at most queue_max in the line.       *)
THEOREM GatewayIsTurnstile == Spec => TurnstileSpec
BY GatewayUsesQueue, ImplementsTurnstile DEF UsesQueue

-----------------------------------------------------------------------------
(* Where a handler is agrees with where its thread is in the queue.        *)

Agrees(r) ==
  /\ stage[r] \in {"prep", "read", "reap", "end"} => pc[r] = "in"
  /\ stage[r] = "line" => pc[r] \in InLine
  /\ stage[r] = "open" => pc[r] \in InLine \cup {"in"}
  /\ stage[r] = "idle" => pc[r] \in Outside
  /\ stage[r] = "gone" => HeadersMayFail
  /\ child[r] = "live" => stage[r] \in {"read", "reap"}

HandlerTypeOK ==
  /\ stage \in [Requests -> Stages]
  /\ client \in [Requests -> {"here", "left", "seen"}]
  /\ watcher \in [Requests -> {"off", "recv", "saw"}]
  /\ child \in [Requests -> {"none", "live", "dead"}]
  /\ late \in [Requests -> BOOLEAN]

ChatInv == IInv /\ HandlerTypeOK /\ \A r \in Requests : Agrees(r)

(* The part of a thread's queue state the handlers depend on.              *)
SamePlace(r) ==
  /\ pc'[r] \in InLine <=> pc[r] \in InLine
  /\ pc'[r] \in Outside <=> pc[r] \in Outside
  /\ pc'[r] = "in" <=> pc[r] = "in"

(* A call moves only the thread that makes it; others at most wake up.     *)
LEMMA OthersStay ==
  ASSUME IInv, NEW r \in Requests,
         \/ \E s \in Styles : TryEnter(r, s)
         \/ Step(r) \/ Release(r),
         NEW x \in Requests, x # r
  PROVE  SamePlace(x)
<1>1. pc \in [Requests -> PCs] /\ pc[x] \in PCs
  BY DEF IInv, QueueTypeOK
<1>2. ASSUME NEW q, pc' = [pc EXCEPT ![r] = q]
      PROVE  SamePlace(x)
  BY <1>1, <1>2 DEF SamePlace
<1>3. ASSUME NEW q, pc' = Woken([pc EXCEPT ![r] = q])
      PROVE  SamePlace(x)
  <2>1. pc'[x] = IF pc[x] = "asleep" THEN "check" ELSE pc[x]
    BY <1>1, <1>3 DEF Woken
  <2> QED BY <1>1, <2>1 DEF SamePlace, PCs, InLine, Outside
<1>4. CASE \E s \in Styles : TryEnter(r, s)
  BY <1>2, <1>4 DEF TryEnter
<1>5. CASE Step(r)
  BY <1>2, <1>3, <1>5 DEF Step, TakeTurn, GiveUp, Sleep, WaitTimesOut, StartBeat,
                          BeatGoesOut, BeatFails, DropTicket, DropLocked
<1>6. CASE Release(r)
  BY <1>3, <1>6 DEF Release
<1> QED BY <1>4, <1>5, <1>6

(* A step of r's own handler that moves on in stage, and perhaps in the    *)
(* queue, keeps everybody's agreement if it keeps r's.                     *)
LEMMA OwnStep ==
  ASSUME ChatInv, NEW r \in Requests, NEW g \in Stages,
         stage' = [stage EXCEPT ![r] = g],
         \A x \in Requests : x # r => SamePlace(x) /\ child'[x] = child[x],
         Agrees(r)'
  PROVE  \A x \in Requests : Agrees(x)'
<1> SUFFICES ASSUME NEW x \in Requests, x # r PROVE Agrees(x)'
  OBVIOUS
<1>1. stage'[x] = stage[x] /\ child'[x] = child[x] /\ SamePlace(x) /\ Agrees(x)
  BY DEF ChatInv, HandlerTypeOK
<1>2. pc'[x] \in InLine \cup {"in"} <=> pc[x] \in InLine \cup {"in"}
  BY <1>1 DEF SamePlace
<1> QED BY <1>1, <1>2 DEF Agrees, SamePlace

LEMMA InitChatInv == Init => ChatInv
<1> SUFFICES ASSUME Init PROVE ChatInv
  OBVIOUS
<1>1. IInv
  BY InitIInv DEF Init
<1>2. HandlerTypeOK
  BY DEF Init, HandlerTypeOK, Stages
<1>3. \A r \in Requests : Agrees(r)
  BY DEF Init, QueueInit, Agrees, Outside
<1> QED BY <1>1, <1>2, <1>3 DEF ChatInv

-----------------------------------------------------------------------------
(* Each kind of step preserves the agreement and the types.                *)

HandlerInv == HandlerTypeOK /\ \A r \in Requests : Agrees(r)

LEMMA AfterQueueStage == \A p : AfterQueue(p) \in Stages
BY DEF AfterQueue, Stages

LEMMA PostKeeps ==
  ASSUME ChatInv, NEW r \in Requests, NEW s \in Styles, Post(r, s)
  PROVE  HandlerInv'
<1>0. pc \in [Requests -> PCs] /\ HandlerTypeOK
  BY DEF ChatInv, IInv, QueueTypeOK
<1>1. PICK g \in Stages :
        /\ stage' = [stage EXCEPT ![r] = g]
        /\ g = IF s = "stream" /\ pc'[r] # "full" THEN "open" ELSE AfterQueue(pc'[r])
  BY AfterQueueStage DEF Post, Stages
<1>2. HandlerTypeOK'
  BY <1>0, <1>1 DEF Post, HandlerTypeOK, Stages
<1>3. pc'[r] \in {"in", "full", "check"}
  BY <1>0 DEF Post, TryEnter
<1>4. child'[r] = "none" /\ stage'[r] = g
  BY <1>0, <1>1 DEF Post, HandlerTypeOK
<1>5. Agrees(r)'
  BY <1>1, <1>3, <1>4 DEF Agrees, AfterQueue, InLine, Outside
<1>6. ASSUME NEW x \in Requests, x # r
      PROVE  SamePlace(x) /\ child'[x] = child[x]
  BY <1>0, <1>6, OthersStay DEF ChatInv, Post, HandlerTypeOK
<1>7. \A x \in Requests : Agrees(x)'
  BY <1>1, <1>5, <1>6, OwnStep
<1> QED BY <1>2, <1>7 DEF HandlerInv

LEMMA InTurnKeeps ==
  ASSUME ChatInv, NEW r \in Requests, InTurn(r)
  PROVE  HandlerInv'
<1>0. pc \in [Requests -> PCs] /\ HandlerTypeOK /\ Agrees(r) /\ IInv
  BY DEF ChatInv, IInv, QueueTypeOK
<1>1. Step(r)
  BY DEF InTurn, Step
<1>2. PICK g \in Stages : stage' = [stage EXCEPT ![r] = g] /\ g = AfterQueue(pc'[r])
  BY AfterQueueStage DEF InTurn
<1>3. HandlerTypeOK'
  BY <1>0, <1>2 DEF InTurn, HandlerTypeOK
<1>4. pc'[r] \in InLine \cup {"in", "dropped"}
  <2>1. \A q : pc' = Woken([pc EXCEPT ![r] = q]) /\ q = "dropped" => pc'[r] = q
    BY <1>0 DEF Woken
  <2>2. \A q : pc' = [pc EXCEPT ![r] = q] => pc'[r] = q
    BY <1>0
  <2> QED BY <1>1, <2>1, <2>2 DEF Step, TakeTurn, GiveUp, Sleep, WaitTimesOut,
                 StartBeat, BeatGoesOut, BeatFails, DropTicket, DropLocked, InLine
<1>5. child' = child /\ stage[r] = "line" /\ stage'[r] = g
  BY <1>0, <1>2 DEF InTurn, HandlerTypeOK
<1>6. Agrees(r)'
  BY <1>0, <1>2, <1>4, <1>5 DEF Agrees, AfterQueue, InLine, Outside
<1>7. ASSUME NEW x \in Requests, x # r
      PROVE  SamePlace(x) /\ child'[x] = child[x]
  BY <1>0, <1>1, <1>5, <1>7, OthersStay
<1>8. \A x \in Requests : Agrees(x)'
  BY <1>2, <1>6, <1>7, OwnStep
<1> QED BY <1>3, <1>8 DEF HandlerInv

LEMMA FinishKeeps ==
  ASSUME ChatInv, NEW r \in Requests, Finish(r)
  PROVE  HandlerInv'
<1>0. pc \in [Requests -> PCs] /\ HandlerTypeOK /\ Agrees(r) /\ IInv
  BY DEF ChatInv, IInv, QueueTypeOK
<1>1. /\ stage' = [stage EXCEPT ![r] = "idle"] /\ "idle" \in Stages
      /\ stage[r] = "end" /\ child' = child /\ Release(r)
  BY DEF Finish, Stages
<1>2. HandlerTypeOK'
  BY <1>0, <1>1 DEF Finish, HandlerTypeOK
<1>3. pc'[r] = "out" /\ stage'[r] = "idle"
  BY <1>0, <1>1 DEF Release, Woken, HandlerTypeOK
<1>4. Agrees(r)'
  BY <1>0, <1>1, <1>3 DEF Agrees, Outside
<1>5. ASSUME NEW x \in Requests, x # r
      PROVE  SamePlace(x) /\ child'[x] = child[x]
  BY <1>0, <1>1, <1>5, OthersStay
<1>6. \A x \in Requests : Agrees(x)'
  BY <1>1, <1>4, <1>5, OwnStep
<1> QED BY <1>2, <1>6 DEF HandlerInv

(* Handler steps between two calls of the queue.                           *)
LEMMA BetweenCallsKeeps ==
  ASSUME ChatInv, NEW r \in Requests,
         \/ Open(r) \/ OpenRaises(r) \/ Spawn(r) \/ PrepRaises(r) \/ ReadsEof(r)
         \/ LineEndsRead(r) \/ RunTimesOut(r) \/ Reap(r)
  PROVE  HandlerInv'
<1>0. pc \in [Requests -> PCs] /\ HandlerTypeOK /\ Agrees(r) /\ pc' = pc
  BY DEF ChatInv, IInv, QueueTypeOK, qvars, Open, OpenRaises, Spawn, PrepRaises,
         ReadsEof, LineEndsRead, RunTimesOut, Reap
<1>1. \A x \in Requests : SamePlace(x)
  BY <1>0 DEF SamePlace
<1>2. CASE Open(r)
  <2>1. PICK g \in Stages : stage' = [stage EXCEPT ![r] = g] /\ g = AfterQueue(pc[r])
    BY <1>2, AfterQueueStage DEF Open
  <2>2. stage[r] = "open" /\ child' = child /\ stage'[r] = g
    BY <1>0, <1>2, <2>1 DEF Open, HandlerTypeOK
  <2>3. HandlerTypeOK'
    BY <1>0, <1>2, <2>1 DEF Open, HandlerTypeOK
  <2>4. Agrees(r)'
    BY <1>0, <2>1, <2>2 DEF Agrees, AfterQueue, InLine, Outside
  <2> QED BY <1>1, <2>1, <2>2, <2>3, <2>4, OwnStep DEF HandlerInv
<1>3. CASE OpenRaises(r)
  <2>1. /\ stage' = [stage EXCEPT ![r] = "gone"] /\ "gone" \in Stages /\ HeadersMayFail
        /\ stage[r] = "open" /\ child' = child /\ stage'[r] = "gone"
    BY <1>0, <1>3 DEF OpenRaises, Stages, HandlerTypeOK
  <2>2. HandlerTypeOK'
    BY <1>0, <1>3, <2>1 DEF OpenRaises, HandlerTypeOK
  <2>3. Agrees(r)'
    BY <1>0, <2>1 DEF Agrees
  <2> QED BY <1>1, <2>1, <2>2, <2>3, OwnStep DEF HandlerInv
<1>4. CASE Spawn(r)
  <2>1. /\ stage' = [stage EXCEPT ![r] = "read"] /\ "read" \in Stages
        /\ stage[r] = "prep" /\ child' = [child EXCEPT ![r] = "live"]
        /\ stage'[r] = "read"
    BY <1>0, <1>4 DEF Spawn, Stages, HandlerTypeOK
  <2>2. \A x \in Requests : x # r => child'[x] = child[x]
    BY <1>0, <2>1 DEF HandlerTypeOK
  <2>3. HandlerTypeOK'
    BY <1>0, <1>4, <2>1 DEF Spawn, HandlerTypeOK
  <2>4. Agrees(r)'
    BY <1>0, <2>1 DEF Agrees
  <2> QED BY <1>1, <2>1, <2>2, <2>3, <2>4, OwnStep DEF HandlerInv
<1>5. CASE PrepRaises(r)
  <2>1. /\ stage' = [stage EXCEPT ![r] = "end"] /\ "end" \in Stages
        /\ stage[r] = "prep" /\ child' = child /\ stage'[r] = "end"
    BY <1>0, <1>5 DEF PrepRaises, Stages, HandlerTypeOK
  <2>2. HandlerTypeOK'
    BY <1>0, <1>5, <2>1 DEF PrepRaises, HandlerTypeOK
  <2>3. Agrees(r)'
    BY <1>0, <2>1 DEF Agrees
  <2> QED BY <1>1, <2>1, <2>2, <2>3, OwnStep DEF HandlerInv
<1>6. CASE ReadsEof(r) \/ LineEndsRead(r) \/ RunTimesOut(r)
  <2>1. /\ stage' = [stage EXCEPT ![r] = "reap"] /\ "reap" \in Stages
        /\ stage[r] = "read" /\ child' = child /\ stage'[r] = "reap"
    BY <1>0, <1>6 DEF ReadsEof, LineEndsRead, RunTimesOut, Stages, HandlerTypeOK
  <2>2. HandlerTypeOK'
    BY <1>0, <1>6, <2>1 DEF ReadsEof, LineEndsRead, RunTimesOut, HandlerTypeOK
  <2>3. Agrees(r)'
    BY <1>0, <2>1 DEF Agrees
  <2> QED BY <1>1, <2>1, <2>2, <2>3, OwnStep DEF HandlerInv
<1>7. CASE Reap(r)
  <2>1. /\ stage' = [stage EXCEPT ![r] = "end"] /\ "end" \in Stages
        /\ stage[r] = "reap" /\ child' = [child EXCEPT ![r] = "dead"]
        /\ stage'[r] = "end" /\ child'[r] = "dead"
    BY <1>0, <1>7 DEF Reap, Stages, HandlerTypeOK
  <2>2. \A x \in Requests : x # r => child'[x] = child[x]
    BY <1>0, <2>1 DEF HandlerTypeOK
  <2>3. HandlerTypeOK'
    BY <1>0, <1>7, <2>1 DEF Reap, HandlerTypeOK
  <2>4. Agrees(r)'
    BY <1>0, <2>1 DEF Agrees
  <2> QED BY <1>1, <2>1, <2>2, <2>3, <2>4, OwnStep DEF HandlerInv
<1> QED BY <1>2, <1>3, <1>4, <1>5, <1>6, <1>7

(* The clock, the client, the watcher and the child.                       *)
LEMMA SurroundingsKeep ==
  ASSUME ChatInv, NEW r \in Requests,
         Clock(r) \/ ClientLeaves(r) \/ Watcher(r) \/ ChildExits(r)
  PROVE  HandlerInv'
<1>0. pc' = pc /\ stage' = stage
  BY DEF Clock, Tick, hvars, qvars, ClientLeaves, Watcher, WatcherSees, WatcherActs,
         ChildExits
<1>1. HandlerTypeOK
  BY DEF ChatInv
<1>2. \A x \in Requests : child'[x] = "live" => child[x] = "live"
  BY <1>1 DEF Clock, hvars, ClientLeaves, Watcher, WatcherSees, WatcherActs, ChildExits,
         HandlerTypeOK
<1>3. HandlerTypeOK'
  <2>1. CASE Clock(r)
    BY <1>1, <2>1 DEF Clock, hvars, HandlerTypeOK
  <2>2. CASE ClientLeaves(r)
    BY <1>1, <2>2 DEF ClientLeaves, HandlerTypeOK
  <2>3. CASE WatcherSees(r)
    BY <1>1, <2>3 DEF WatcherSees, HandlerTypeOK
  <2>4. CASE WatcherActs(r)
    BY <1>1, <2>4 DEF WatcherActs, HandlerTypeOK
  <2>5. CASE ChildExits(r)
    BY <1>1, <2>5 DEF ChildExits, HandlerTypeOK
  <2> QED BY <2>1, <2>2, <2>3, <2>4, <2>5 DEF Watcher
<1>4. \A x \in Requests : Agrees(x)'
  BY <1>0, <1>2 DEF ChatInv, Agrees
<1> QED BY <1>3, <1>4 DEF HandlerInv

LEMMA NextChatInv == ChatInv /\ [Next]_vars => ChatInv'
<1> SUFFICES ASSUME ChatInv, [Next]_vars PROVE ChatInv'
  OBVIOUS
<1>1. IInv'
  BY StepUsesQueue, NextIInv DEF ChatInv
<1>2. HandlerInv'
  <2>1. ASSUME NEW r \in Requests, NEW s \in Styles, Post(r, s) PROVE HandlerInv'
    BY <2>1, PostKeeps
  <2>2. ASSUME NEW r \in Requests, Handler(r) PROVE HandlerInv'
    BY <2>2, InTurnKeeps, FinishKeeps, BetweenCallsKeeps DEF Handler
  <2>3. ASSUME NEW r \in Requests, OpenRaises(r) \/ LineEndsRead(r) PROVE HandlerInv'
    BY <2>3, BetweenCallsKeeps
  <2>4. ASSUME NEW r \in Requests,
               Clock(r) \/ ClientLeaves(r) \/ Watcher(r) \/ ChildExits(r)
        PROVE  HandlerInv'
    BY <2>4, SurroundingsKeep
  <2>5. CASE UNCHANGED vars
    BY <2>5 DEF vars, qvars, hvars, ChatInv, HandlerInv, HandlerTypeOK, Agrees
  <2> QED BY <2>1, <2>2, <2>3, <2>4, <2>5 DEF Next
<1> QED BY <1>1, <1>2 DEF ChatInv, HandlerInv

LEMMA ChatInvHolds == Spec => []ChatInv
BY InitChatInv, NextChatInv, PTL DEF Spec

-----------------------------------------------------------------------------
(* The theorems.                                                           *)

(* Every variable of the gateway keeps its type.                           *)
THEOREM ChatTypeCorrect == Spec => []TypeOK
<1>1. ChatInv => TypeOK
  BY DEF ChatInv, IInv, HandlerTypeOK, TypeOK
<1> QED BY <1>1, ChatInvHolds, PTL

(* However clients come, leave, time out and watchers fire, a model child  *)
(* only ever runs for the request that holds the slot.                     *)
THEOREM OneModelAtATime == Spec => []ChildHasSlot
<1>1. ChatInv => ChildHasSlot
  BY DEF ChatInv, Agrees, ChildHasSlot
<1> QED BY <1>1, ChatInvHolds, PTL

(* Whatever happens to a request after its headers, its thread does not    *)
(* end holding the slot or a ticket ...                                    *)
THEOREM NoLeakAfterHeaders == Spec => []OnlyHeadersLeak
<1>1. ChatInv => OnlyHeadersLeak
  BY DEF ChatInv, Agrees, OnlyHeadersLeak
<1> QED BY <1>1, ChatInvHolds, PTL

(* ... and if writing the headers never raises, no handler does.           *)
THEOREM NoLeakIfHeadersGoOut ==
  ASSUME ~HeadersMayFail
  PROVE  Spec => []NothingLeaks
<1>1. ChatInv => NothingLeaks
  BY DEF ChatInv, Agrees, NothingLeaks
<1> QED BY <1>1, ChatInvHolds, PTL
=============================================================================
