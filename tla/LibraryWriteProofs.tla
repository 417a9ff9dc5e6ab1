------------------------- MODULE LibraryWriteProofs -------------------------
(***************************************************************************)
(* Proofs about the library's write verbs, for any number of writers,      *)
(* pages and revisions, and any number of applies under way at once.       *)
(*                                                                         *)
(* LibraryInv says what a writer in the middle of an apply can rely on:    *)
(* on a page that is not crossed, the text still is what it read, what it  *)
(* read is in the history before it is replaced, and what it has copied is *)
(* where it put it.  On a crossed page it still finds a file, its own line *)
(* of the chain, and its job as it was planned.                            *)
(***************************************************************************)
EXTENDS LibraryWrite, SequenceTheorems, TLAPS

(* The place of "land" in Steps; until then the page is as it was.         *)
LandsAt(verb) == IF verb \in {"move", "retire"} THEN 4 ELSE 3

Landing(w) == pc[w] <= LandsAt(job[w].verb)

(* Two applies have no page in common but the crossed ones.                *)
Disjoint ==
  \A v, w \in Writers : v # w /\ pc[v] > 0 /\ pc[w] > 0 =>
     Touched(job[v]) \cap Touched(job[w]) \subseteq crossed

(* The lines of a chain are numbered by their place.                       *)
Lined ==
  \A p \in Paths : \A i \in DOMAIN chain[p] :
     /\ p \notin crossed => chain[p][i].number = i
     /\ chain[p][i].verb = "move" => chain[p][i].to \in Paths

(* Where there is an archive there is a page, if only its tombstone.       *)
Archived == \A p \in Paths : archive[p] # NoText => file[p] # NoText

LandedInChain == \A p \in Paths : landed[p] <= Len(chain[p])

(* What the writer is about to replace, and by what.                       *)
Texted(w) == job[w].old \in Texts /\ job[w].new \in Texts

Stepped(w) == pc[w] <= Len(Steps(job[w].verb))

(* There is something at the path, if not what the writer has read.        *)
Present(w) == file[job[w].path] # NoText

(* Its line is in the chain, for good.                                     *)
Recorded(w) ==
  LET j == job[w]
  IN pc[w] > 2 => /\ j.entry \in DOMAIN chain[j.path]
                  /\ chain[j.path][j.entry].verb = j.verb
                  /\ chain[j.path][j.entry].before = j.old
                  /\ j.verb = "move" => chain[j.path][j.entry].to = j.arg

(* Between the snapshot and the line, the number still is the next one.    *)
Snapped(w) ==
  LET j == job[w]
  IN pc[w] = 2 => /\ j.number \in Numbers
                  /\ j.path \notin crossed =>
                       /\ j.number = Number(j.path)
                       /\ snapshot[j.path][j.number] = j.old

(* Until it lands, the page is what the writer has read.                   *)
Untouched(w) ==
  LET j == job[w]
  IN Landing(w) /\ j.path \notin crossed =>
       /\ file[j.path] = j.old
       /\ j.verb = "restore" => j.saw = archive[j.path] /\ j.old.status = "retired"

(* What it has read is what its plan saw.                                  *)
Planned(w) ==
  LET j == job[w]
  IN /\ j.verb # "restore" => j.old = j.saw
     /\ j.verb = "move" => j.arg # j.path

(* What it has copied is where it put it, and nothing was there before.    *)
Copied(w) ==
  LET j == job[w]
  IN /\ j.verb = "move" /\ j.arg \notin crossed =>
          file[j.arg] = IF pc[w] <= 3 THEN NoText ELSE j.saw
     /\ j.path \notin crossed =>
          /\ j.verb = "retire" => archive[j.path] = IF pc[w] <= 3 THEN NoText ELSE j.saw
          /\ j.verb = "restore" /\ pc[w] = 4 => landed[j.path] = j.entry

Working(w) ==
  /\ Texted(w) /\ Stepped(w) /\ Present(w) /\ Recorded(w) /\ Snapped(w)
  /\ Untouched(w) /\ Planned(w) /\ Copied(w)

LibraryInv ==
  /\ Disjoint /\ Lined /\ Archived /\ LandedInChain
  /\ \A w \in Writers : pc[w] > 0 => Working(w)
  /\ ChainTellsTruth
-----------------------------------------------------------------------------
(* Records.                                                                *)

(* The file operations of every verb, by their place.                      *)
LEMMA Places ==
  ASSUME NEW verb \in Verbs
  PROVE  /\ Len(Steps(verb)) \in {3, 4}
         /\ LandsAt(verb) \in {3, 4} /\ LandsAt(verb) <= Len(Steps(verb))
         /\ Steps(verb)[1] = "snapshot" /\ Steps(verb)[2] = "chain"
         /\ verb \in {"move", "retire"} =>
              Len(Steps(verb)) = 4 /\ Steps(verb)[3] = "copy" /\ Steps(verb)[4] = "land"
         /\ verb = "restore" =>
              Len(Steps(verb)) = 4 /\ Steps(verb)[3] = "land" /\ Steps(verb)[4] = "unlink"
         /\ verb \in {"annotate", "edit", "revert"} =>
              Len(Steps(verb)) = 3 /\ Steps(verb)[3] = "land"
BY DEF Steps, LandsAt, Verbs

(* A job has the fields of its verb.                                       *)
LEMMA JobFields ==
  ASSUME TypeOK, NEW w \in Writers, job[w] # NoJob
  PROVE  /\ job[w].verb \in Verbs
         /\ job[w] \in Jobs(job[w].verb)
         /\ job[w].path \in Paths
         /\ job[w].saw \in Texts
         /\ job[w].old \in MaybeText /\ job[w].new \in MaybeText
         /\ job[w].number \in 0 .. MaxRevisions + 1
         /\ job[w].entry \in 0 .. MaxRevisions
         /\ job[w].arg \in ArgumentType(job[w].verb)
         /\ job[w].verb = "move" => job[w].arg \in Paths
         /\ pc[w] \in 0 .. 4
BY DEF TypeOK, Jobs, ArgumentType

LEMMA Busy ==
  ASSUME TypeOK, NEW w \in Writers, pc[w] > 0
  PROVE  job[w] # NoJob
BY DEF TypeOK

(* Which operation a writer is at tells how far it is.                     *)
LEMMA AtPlace ==
  ASSUME TypeOK, NEW w \in Writers
  PROVE  /\ At(w, "snapshot") => pc[w] = 1
         /\ At(w, "chain")    => pc[w] = 2
         /\ At(w, "copy")     => pc[w] = 3 /\ job[w].verb \in {"move", "retire"}
         /\ At(w, "land")     => pc[w] = LandsAt(job[w].verb)
         /\ At(w, "unlink")   => pc[w] = 4 /\ job[w].verb = "restore"
<1>1. SUFFICES ASSUME NEW s \in {"snapshot", "chain", "copy", "land", "unlink"}, At(w, s)
               PROVE  /\ s = "snapshot" => pc[w] = 1
                      /\ s = "chain"    => pc[w] = 2
                      /\ s = "copy"     => pc[w] = 3 /\ job[w].verb \in {"move", "retire"}
                      /\ s = "land"     => pc[w] = LandsAt(job[w].verb)
                      /\ s = "unlink"   => pc[w] = 4 /\ job[w].verb = "restore"
  OBVIOUS
<1>2. pc[w] > 0 /\ pc[w] <= Len(Steps(job[w].verb)) /\ Steps(job[w].verb)[pc[w]] = s
  BY <1>1 DEF At
<1>3. job[w].verb \in Verbs /\ pc[w] \in 0 .. 4
  BY <1>2, Busy, JobFields
<1>4. pc[w] \in 1 .. 4
  BY <1>2, <1>3
<1> DEFINE verb == job[w].verb
<1>5. CASE verb \in {"move", "retire"}
  BY <1>2, <1>3, <1>4, <1>5, Places DEF LandsAt
<1>6. CASE verb = "restore"
  BY <1>2, <1>3, <1>4, <1>6, Places DEF LandsAt
<1>7. CASE verb \in {"annotate", "edit", "revert"}
  <2>1. Len(Steps(verb)) = 3 /\ LandsAt(verb) = 3
    BY <1>3, <1>7, Places DEF LandsAt
  <2>2. pc[w] \in 1 .. 3
    BY <1>2, <1>4, <2>1
  <2>3. Steps(verb)[1] = "snapshot" /\ Steps(verb)[2] = "chain" /\ Steps(verb)[3] = "land"
    BY <1>3, <1>7, Places
  <2> QED
    BY <1>2, <2>1, <2>2, <2>3
<1> QED
  BY <1>3, <1>5, <1>6, <1>7 DEF Verbs

(* Two fields of a text are replaced.                                      *)
LEMMA TextWith ==
  ASSUME NEW t \in Texts, NEW n \in Nat
  PROVE  /\ \A s \in Statuses : [t EXCEPT !.status = s, !.version = n] \in Texts
         /\ \A b \in Bodies : [t EXCEPT !.body = b, !.version = n] \in Texts
<1>1. ASSUME NEW s \in Statuses
      PROVE  [t EXCEPT !.status = s, !.version = n] \in Texts
  <2>1. [t EXCEPT !.status = s] \in Texts
    BY DEF Texts
  <2> QED
    BY <2>1 DEF Texts
<1>2. ASSUME NEW b \in Bodies
      PROVE  [t EXCEPT !.body = b, !.version = n] \in Texts
  <2>1. [t EXCEPT !.body = b] \in Texts
    BY DEF Texts
  <2> QED
    BY <2>1 DEF Texts
<1> QED
  BY <1>1, <1>2

(* What a verb writes is a text.                                           *)
LEMMA NewTextIsText ==
  ASSUME TypeOK, NEW w \in Writers, job[w] # NoJob, Possible(job[w])
  PROVE  NewText(job[w]) \in Texts /\ Replaced(job[w]) \in MaybeText
<1> DEFINE j == job[w]
<1>1. /\ j.verb \in Verbs /\ j.path \in Paths /\ j.saw \in Texts
      /\ j.arg \in ArgumentType(j.verb)
      /\ file[j.path] \in MaybeText /\ archive[j.path] \in MaybeText
      /\ \A n \in Numbers : snapshot[j.path][n] \in MaybeText
  BY JobFields DEF TypeOK
<1>2. Replaced(j) \in MaybeText
  BY <1>1 DEF Replaced, MaybeText
<1>3. CASE j.verb = "annotate"
  <2>1. j.arg \in Statuses
    BY <1>1, <1>3 DEF ArgumentType
  <2>2. NewText(j) = [j.saw EXCEPT !.status = j.arg, !.version = NextVersion(j.saw)]
    BY <1>3 DEF NewText
  <2>3. NextVersion(j.saw) \in Nat
    BY <1>1 DEF Texts, NextVersion
  <2>4. [j.saw EXCEPT !.status = j.arg, !.version = NextVersion(j.saw)] \in Texts
    BY <1>1, <2>1, <2>3, TextWith, Zenon
  <2> QED
    BY <1>2, <2>2, <2>4
<1>4. CASE j.verb = "edit"
  <2>1. j.arg \in Bodies
    BY <1>1, <1>4 DEF ArgumentType
  <2>2. NewText(j) = [j.saw EXCEPT !.body = j.arg, !.version = NextVersion(j.saw)]
    BY <1>4 DEF NewText
  <2>3. NextVersion(j.saw) \in Nat
    BY <1>1 DEF Texts, NextVersion
  <2>4. [j.saw EXCEPT !.body = j.arg, !.version = NextVersion(j.saw)] \in Texts
    BY <1>1, <2>1, <2>3, TextWith, Zenon
  <2> QED
    BY <1>2, <2>2, <2>4
<1>5. CASE j.verb = "revert"
  <2>1. j.arg \in Numbers
    BY <1>1, <1>5 DEF ArgumentType
  <2>2. snapshot[j.path][j.arg] \in Texts /\ file[j.path] \in Texts
    BY <1>1, <1>5, <2>1 DEF Possible, MaybeText
  <2>3. NewText(j) = [snapshot[j.path][j.arg] EXCEPT !.version = NextVersion(file[j.path])]
    BY <1>5 DEF NewText, Reverted
  <2> QED
    BY <1>2, <2>2, <2>3 DEF Texts, NextVersion
<1>6. CASE j.verb = "restore"
  <2>1. NewText(j) = archive[j.path]
    BY <1>6 DEF NewText
  <2>2. archive[j.path] # NoText
    BY <1>6 DEF Possible, Restorable
  <2> QED
    BY <1>1, <1>2, <2>1, <2>2 DEF MaybeText
<1>7. CASE j.verb = "move"
  <2>1. j.arg \in Paths
    BY <1>1, <1>7 DEF ArgumentType
  <2>2. NewText(j) = [status |-> "moved", body |-> j.arg, version |-> 1]
    BY <1>7 DEF NewText, Tombstone
  <2> QED
    BY <1>2, <2>1, <2>2 DEF Texts, Statuses
<1>8. CASE j.verb = "retire"
  <2>1. NewText(j) = [status |-> "retired", body |-> RetiredNote, version |-> 1]
    BY <1>8 DEF NewText, Tombstone
  <2> QED
    BY <1>2, <2>1 DEF Texts, Statuses
<1> QED
  BY <1>1, <1>3, <1>4, <1>5, <1>6, <1>7, <1>8 DEF Verbs

(* A planned job.                                                          *)
LEMMA PlanTyped ==
  ASSUME TypeOK, NEW w \in Writers, NEW verb \in Verbs, NEW p \in Paths,
         NEW arg \in Arguments(verb, p), Plan(w, verb, p, arg)
  PROVE  /\ job[w] = NoJob
         /\ \E j \in Jobs(verb) : job' = [job EXCEPT ![w] = j]
         /\ UNCHANGED <<file, archive, snapshot, chain, pc, landed, crossed>>
<1> DEFINE j == [verb |-> verb, path |-> p, arg |-> arg, saw |-> TokenText(verb, p),
                 old |-> NoText, new |-> NoText, number |-> 0, entry |-> 0]
<1>1. /\ job[w] = NoJob /\ Possible(j) /\ job' = [job EXCEPT ![w] = j]
      /\ UNCHANGED <<file, archive, snapshot, chain, pc, landed, crossed>>
  BY Zenon DEF Plan
<1>2. arg \in ArgumentType(verb)
  <2>1. CASE verb = "annotate"
    BY <2>1 DEF Arguments, ArgumentType, Statuses
  <2>2. CASE verb = "edit"
    BY <2>2 DEF Arguments, ArgumentType
  <2>3. CASE verb = "revert"
    BY <2>3 DEF Arguments, ArgumentType
  <2>4. CASE verb = "move"
    BY <2>4 DEF Arguments, ArgumentType
  <2>5. CASE verb \in {"retire", "restore"}
    BY <2>5 DEF Arguments, ArgumentType
  <2> QED
    BY <2>1, <2>2, <2>3, <2>4, <2>5 DEF Verbs
<1>3. TokenText(verb, p) \in Texts
  <2>1. file[p] \in MaybeText /\ archive[p] \in MaybeText
    BY DEF TypeOK
  <2>2. CASE verb = "restore"
    BY <1>1, <2>1, <2>2 DEF Possible, Restorable, TokenText, MaybeText
  <2>3. CASE verb # "restore"
    <3>1. file[p] # NoText
      BY <1>1, <2>3 DEF Possible, Verbs
    <3> QED
      BY <2>1, <2>3, <3>1 DEF TokenText, MaybeText
  <2> QED
    BY <2>2, <2>3
<1>4. j \in Jobs(verb)
  BY <1>2, <1>3, LibraryAssumption DEF Jobs, MaybeText
<1> QED
  BY <1>1, <1>4

-----------------------------------------------------------------------------
(* The steps keep the types.                                               *)

JobsTyped ==
  /\ pc \in [Writers -> 0 .. 4]
  /\ job = [w \in Writers |-> job[w]]
  /\ \A w \in Writers :
       IF job[w] = NoJob THEN pc[w] = 0
       ELSE job[w].verb \in Verbs /\ job[w] \in Jobs(job[w].verb)

FilesTyped ==
  /\ file \in [Paths -> MaybeText]
  /\ archive \in [Paths -> MaybeText]
  /\ snapshot \in [Paths -> [Numbers -> MaybeText]]
  /\ chain \in [Paths -> Seq(Entries)]
  /\ \A p \in Paths : Len(chain[p]) <= MaxRevisions
  /\ landed \in [Paths -> 0 .. MaxRevisions]

(* A job is still one of its verb when what the apply fills in is filled.  *)
LEMMA FilledIn ==
  ASSUME NEW verb \in Verbs, NEW j \in Jobs(verb)
  PROVE  /\ j # NoJob /\ j.verb = verb
         /\ \A o, n \in MaybeText : [j EXCEPT !.old = o, !.new = n] \in Jobs(verb)
         /\ \A k \in 0 .. MaxRevisions + 1 : [j EXCEPT !.number = k] \in Jobs(verb)
         /\ \A k \in 0 .. MaxRevisions : [j EXCEPT !.entry = k] \in Jobs(verb)
<1>1. j # NoJob /\ j.verb = verb
  BY LibraryAssumption DEF Jobs
<1>2. ASSUME NEW o \in MaybeText, NEW n \in MaybeText
      PROVE  [j EXCEPT !.old = o, !.new = n] \in Jobs(verb)
  <2>1. [j EXCEPT !.old = o] \in Jobs(verb)
    BY DEF Jobs
  <2>2. \A k \in Jobs(verb) : [k EXCEPT !.new = n] \in Jobs(verb)
    BY DEF Jobs
  <2>3. [j EXCEPT !.old = o, !.new = n] = [[j EXCEPT !.old = o] EXCEPT !.new = n]
    BY DEF Jobs
  <2> QED
    BY <2>1, <2>2, <2>3
<1>3. \A k \in 0 .. MaxRevisions + 1 : [j EXCEPT !.number = k] \in Jobs(verb)
  BY DEF Jobs
<1>4. \A k \in 0 .. MaxRevisions : [j EXCEPT !.entry = k] \in Jobs(verb)
  BY DEF Jobs
<1> QED
  BY <1>1, <1>2, <1>3, <1>4

IsJob(j) == \E verb \in Verbs : j \in Jobs(verb)

(* A step of a writer leaves it with job j at place n.                     *)
Becomes(w, j, n) == job' = [job EXCEPT ![w] = j] /\ pc' = [pc EXCEPT ![w] = n]

(* One writer has a new job and a new place, the others theirs.            *)
LEMMA JobTyped ==
  ASSUME TypeOK, NEW w \in Writers, NEW j, NEW n \in 0 .. 4,
         (j = NoJob /\ n = 0) \/ IsJob(j),
         Becomes(w, j, n)
  PROVE  /\ JobsTyped'
         /\ job'[w] = j /\ pc'[w] = n
         /\ \A v \in Writers : v # w => job'[v] = job[v] /\ pc'[v] = pc[v]
<1>1. /\ job'[w] = j /\ pc'[w] = n
      /\ \A v \in Writers : v # w => job'[v] = job[v] /\ pc'[v] = pc[v]
  BY DEF TypeOK, Becomes
<1>2. pc' \in [Writers -> 0 .. 4]
  BY DEF TypeOK, Becomes
<1>3. job' = [v \in Writers |-> job'[v]]
  BY DEF TypeOK, Becomes
<1>4. IF j = NoJob THEN n = 0 ELSE j.verb \in Verbs /\ j \in Jobs(j.verb)
  BY FilledIn DEF IsJob
<1>5. \A v \in Writers :
        IF job'[v] = NoJob THEN pc'[v] = 0
        ELSE job'[v].verb \in Verbs /\ job'[v] \in Jobs(job'[v].verb)
  BY <1>1, <1>4 DEF TypeOK
<1> QED
  BY <1>1, <1>2, <1>3, <1>5 DEF JobsTyped

LEMMA Advanced ==
  ASSUME TypeOK, NEW w \in Writers, pc[w] > 0, Advance(w),
         NEW n \in {3, 4}, Len(Steps(job[w].verb)) = n
  PROVE  /\ JobsTyped'
         /\ pc[w] < n => pc'[w] = pc[w] + 1 /\ job'[w] = job[w]
         /\ pc[w] >= n => pc'[w] = 0
         /\ \A v \in Writers : v # w => job'[v] = job[v] /\ pc'[v] = pc[v]
<1>1. /\ job[w] # NoJob /\ job[w].verb \in Verbs /\ job[w] \in Jobs(job[w].verb)
      /\ pc[w] \in 1 .. 4
  BY Busy, JobFields
<1>2. CASE pc[w] < n
  <2>1. pc[w] + 1 \in 0 .. 4
    BY <1>1, <1>2
  <2>2. Becomes(w, job[w], pc[w] + 1)
    BY <1>2 DEF Advance, TypeOK, Becomes
  <2>3. IsJob(job[w])
    BY <1>1 DEF IsJob
  <2>4. /\ JobsTyped' /\ job'[w] = job[w] /\ pc'[w] = pc[w] + 1
        /\ \A v \in Writers : v # w => job'[v] = job[v] /\ pc'[v] = pc[v]
    BY <2>1, <2>2, <2>3, JobTyped
  <2>5. ~ (pc[w] >= n)
    BY <1>1, <1>2
  <2> QED
    BY <1>2, <2>4, <2>5
<1>3. CASE pc[w] >= n
  <2>1. ~ (pc[w] < n)
    BY <1>1, <1>3
  <2>2. Becomes(w, NoJob, 0)
    BY <2>1 DEF Advance, Becomes
  <2>3. 0 \in 0 .. 4
    OBVIOUS
  <2>4. /\ JobsTyped' /\ pc'[w] = 0
        /\ \A v \in Writers : v # w => job'[v] = job[v] /\ pc'[v] = pc[v]
    BY <2>2, <2>3, JobTyped
  <2> QED
    BY <2>1, <2>4
<1> QED
  BY <1>1, <1>2, <1>3

LEMMA Types ==
  /\ TypeOK <=> FilesTyped /\ JobsTyped /\ crossed \subseteq Paths
  /\ TypeOK' <=> FilesTyped' /\ JobsTyped' /\ crossed' \subseteq Paths
BY DEF TypeOK, FilesTyped, JobsTyped

LEMMA Unmoved ==
  ASSUME FilesTyped, UNCHANGED <<file, archive, snapshot, chain, landed>>
  PROVE  FilesTyped'
BY DEF FilesTyped

(* What each step makes of the writer that takes it.                       *)
LEMMA Becoming ==
  ASSUME TypeOK, NEW w \in Writers
  PROVE  /\ Apply(w) => Becomes(w, [job[w] EXCEPT !.old = Replaced(job[w]),
                                                  !.new = NewText(job[w])], 1)
         /\ GiveUp(w) => Becomes(w, NoJob, 0)
         /\ WriteSnapshot(w) =>
              Becomes(w, [job[w] EXCEPT !.number = Number(job[w].path)], 2)
         /\ AppendChain(w) =>
              Becomes(w, [job[w] EXCEPT !.entry = Len(chain[job[w].path]) + 1], 3)
         /\ Crash(w) => Becomes(w, NoJob, 0)
<1>1. Apply(w) => Becomes(w, [job[w] EXCEPT !.old = Replaced(job[w]),
                                            !.new = NewText(job[w])], 1)
  <2>1. SUFFICES ASSUME Apply(w)
                 PROVE  Becomes(w, [job[w] EXCEPT !.old = Replaced(job[w]),
                                                  !.new = NewText(job[w])], 1)
    OBVIOUS
  <2> DEFINE o == Replaced(job[w])
             n == NewText(job[w])
             first == [job EXCEPT ![w].old = o]
  <2>2. pc' = [pc EXCEPT ![w] = 1] /\ job' = [first EXCEPT ![w].new = n]
    BY <2>1, Zenon DEF Apply
  <2> HIDE DEF o, n
  <2>3. first = [job EXCEPT ![w] = [job[w] EXCEPT !.old = o]]
    BY DEF TypeOK
  <2>4. first[w] = [job[w] EXCEPT !.old = o] /\ first = [v \in Writers |-> first[v]]
    BY DEF TypeOK
  <2>5. [first EXCEPT ![w].new = n] = [first EXCEPT ![w] = [first[w] EXCEPT !.new = n]]
    BY <2>4
  <2>6. [first EXCEPT ![w].new = n]
          = [job EXCEPT ![w] = [[job[w] EXCEPT !.old = o] EXCEPT !.new = n]]
    BY <2>3, <2>4, <2>5
  <2> USE DEF o, n
  <2> QED
    BY <2>2, <2>6 DEF Becomes
<1>2. GiveUp(w) => Becomes(w, NoJob, 0)
  BY DEF GiveUp, Becomes, TypeOK
<1>3. WriteSnapshot(w) =>
        Becomes(w, [job[w] EXCEPT !.number = Number(job[w].path)], 2)
  <2>1. WriteSnapshot(w) => pc[w] = 1
    BY AtPlace DEF WriteSnapshot
  <2> QED
    BY <2>1 DEF WriteSnapshot, Becomes, TypeOK
<1>4. AppendChain(w) =>
        Becomes(w, [job[w] EXCEPT !.entry = Len(chain[job[w].path]) + 1], 3)
  <2>1. AppendChain(w) => pc[w] = 2
    BY AtPlace DEF AppendChain
  <2> QED
    BY <2>1 DEF AppendChain, Becomes, TypeOK
<1>5. Crash(w) => Becomes(w, NoJob, 0)
  BY DEF Crash, Becomes
<1> QED
  BY <1>1, <1>2, <1>3, <1>4, <1>5

(* What a writer in the middle of an apply has in its hands.               *)
LEMMA Doing ==
  ASSUME TypeOK, LibraryInv, NEW w \in Writers, pc[w] > 0
  PROVE  /\ Working(w) /\ job[w] # NoJob
         /\ job[w].verb \in Verbs /\ job[w] \in Jobs(job[w].verb)
         /\ job[w].path \in Paths /\ job[w].saw \in Texts
         /\ job[w].old \in Texts /\ job[w].new \in Texts
         /\ job[w].number \in 0 .. MaxRevisions + 1 /\ job[w].entry \in 0 .. MaxRevisions
         /\ job[w].verb = "move" => job[w].arg \in Paths
         /\ pc[w] \in 1 .. 4
<1>1. Working(w) /\ job[w] # NoJob
  BY Busy DEF LibraryInv
<1>2. job[w].old \in Texts /\ job[w].new \in Texts
  BY <1>1 DEF Working, Texted
<1> QED
  BY <1>1, <1>2, JobFields

(* The pages a writer touches.                                             *)
LEMMA TouchedPages ==
  ASSUME TypeOK, NEW w \in Writers, job[w] # NoJob
  PROVE  /\ Touched(job[w]) \subseteq Paths
         /\ job[w].path \in Touched(job[w])
         /\ job[w].verb = "move" => job[w].arg \in Touched(job[w])
BY JobFields DEF Touched

LEMMA PlanKeepsTypes ==
  ASSUME TypeOK, NEW w \in Writers, PlanSomething(w)
  PROVE  TypeOK' /\ UNCHANGED <<file, archive, snapshot, chain, pc, landed, crossed>>
         /\ job[w] = NoJob
         /\ \A v \in Writers : v # w => job'[v] = job[v]
<1>1. PICK verb \in Verbs : \E p \in Paths : \E arg \in Arguments(verb, p) : Plan(w, verb, p, arg)
  BY DEF PlanSomething
<1>2. job[w] = NoJob /\ UNCHANGED <<file, archive, snapshot, chain, pc, landed, crossed>>
  BY <1>1, PlanTyped
<1>3. PICK j \in Jobs(verb) : job' = [job EXCEPT ![w] = j]
  BY <1>1, PlanTyped
<1>4. pc[w] = 0 /\ 0 \in 0 .. 4
  BY <1>2 DEF TypeOK
<1>5. Becomes(w, j, 0)
  BY <1>2, <1>3, <1>4 DEF Becomes, TypeOK
<1>6. IsJob(j)
  BY DEF IsJob
<1>7. JobsTyped' /\ \A v \in Writers : v # w => job'[v] = job[v]
  BY <1>4, <1>5, <1>6, JobTyped
<1> QED
  BY <1>2, <1>7, Types, Unmoved DEF Types

(* A step that moves no file and starts no apply.                          *)
LEMMA DropKeepsTypes ==
  ASSUME TypeOK, NEW w \in Writers, GiveUp(w) \/ Crash(w)
  PROVE  /\ TypeOK' /\ UNCHANGED <<file, archive, snapshot, chain, landed, crossed>>
         /\ pc'[w] = 0
         /\ \A v \in Writers : v # w => job'[v] = job[v] /\ pc'[v] = pc[v]
<1>1. Becomes(w, NoJob, 0)
  BY Becoming
<1>2. 0 \in 0 .. 4
  OBVIOUS
<1>3. /\ JobsTyped' /\ pc'[w] = 0
      /\ \A v \in Writers : v # w => job'[v] = job[v] /\ pc'[v] = pc[v]
  BY <1>1, <1>2, JobTyped
<1>4. UNCHANGED <<file, archive, snapshot, chain, landed, crossed>>
  BY DEF GiveUp, Crash
<1> QED
  BY <1>3, <1>4, Types, Unmoved

LEMMA ApplyKeepsTypes ==
  ASSUME TypeOK, NEW w \in Writers, Apply(w)
  PROVE  /\ TypeOK' /\ UNCHANGED <<file, archive, snapshot, chain, landed>>
         /\ pc'[w] = 1
         /\ job'[w] = [job[w] EXCEPT !.old = Replaced(job[w]), !.new = NewText(job[w])]
         /\ crossed' = crossed \cup Meeting(w)
         /\ \A v \in Writers : v # w => job'[v] = job[v] /\ pc'[v] = pc[v]
<1> DEFINE j == [job[w] EXCEPT !.old = Replaced(job[w]), !.new = NewText(job[w])]
<1>1. /\ job[w] # NoJob /\ Possible(job[w]) /\ crossed' = crossed \cup Meeting(w)
      /\ UNCHANGED <<file, archive, snapshot, chain, landed>>
  BY DEF Apply
<1>2. NewText(job[w]) \in MaybeText /\ Replaced(job[w]) \in MaybeText
  BY <1>1, NewTextIsText DEF MaybeText
<1>3. job[w].verb \in Verbs /\ job[w] \in Jobs(job[w].verb)
  BY <1>1, JobFields
<1>4. j \in Jobs(job[w].verb)
  BY <1>2, <1>3, FilledIn
<1>5. IsJob(j) /\ 1 \in 0 .. 4
  BY <1>3, <1>4 DEF IsJob
<1>6. Becomes(w, j, 1)
  BY Becoming
<1>7. /\ JobsTyped' /\ pc'[w] = 1 /\ job'[w] = j
      /\ \A v \in Writers : v # w => job'[v] = job[v] /\ pc'[v] = pc[v]
  <2> HIDE DEF j
  <2> QED
    BY <1>5, <1>6, JobTyped
<1>8. crossed' \subseteq Paths
  BY <1>1, TouchedPages DEF Meeting, TypeOK
<1> QED
  BY <1>1, <1>7, <1>8, Types, Unmoved

LEMMA SnapshotKeepsTypes ==
  ASSUME TypeOK, LibraryInv, NEW w \in Writers, WriteSnapshot(w)
  PROVE  /\ TypeOK' /\ UNCHANGED <<file, archive, chain, landed, crossed>>
         /\ pc[w] = 1 /\ pc'[w] = 2
         /\ Number(job[w].path) \in Numbers
         /\ job'[w] = [job[w] EXCEPT !.number = Number(job[w].path)]
         /\ \A v \in Writers : v # w => job'[v] = job[v] /\ pc'[v] = pc[v]
<1> DEFINE j == [job[w] EXCEPT !.number = Number(job[w].path)]
<1>1. pc[w] = 1 /\ UNCHANGED <<file, archive, chain, landed, crossed>>
  BY AtPlace DEF WriteSnapshot
<1>2. Len(chain[job[w].path]) \in Nat /\ Len(chain[job[w].path]) <= MaxRevisions
  BY <1>1, Doing DEF TypeOK
<1>3. Number(job[w].path) \in Numbers /\ Number(job[w].path) \in 0 .. MaxRevisions + 1
  BY <1>2, LibraryAssumption DEF Number, Numbers
<1>4. IsJob(j) /\ 2 \in 0 .. 4
  <2>1. job[w].verb \in Verbs /\ job[w] \in Jobs(job[w].verb)
    BY <1>1, Doing
  <2>2. j \in Jobs(job[w].verb)
    BY <1>3, <2>1, FilledIn
  <2> QED
    BY <2>1, <2>2 DEF IsJob
<1>5. Becomes(w, j, 2)
  BY Becoming
<1>6. /\ JobsTyped' /\ pc'[w] = 2 /\ job'[w] = j
      /\ \A v \in Writers : v # w => job'[v] = job[v] /\ pc'[v] = pc[v]
  <2> HIDE DEF j
  <2> QED
    BY <1>4, <1>5, JobTyped
<1>7. FilesTyped'
  <2>1. job[w].path \in Paths /\ job[w].old \in MaybeText
    BY <1>1, Doing DEF MaybeText
  <2>2. snapshot' = [snapshot EXCEPT ![job[w].path][Number(job[w].path)] = job[w].old]
    BY DEF WriteSnapshot
  <2>3. snapshot' \in [Paths -> [Numbers -> MaybeText]]
    BY <1>3, <2>1, <2>2 DEF TypeOK
  <2> QED
    BY <1>1, <2>3 DEF TypeOK, FilesTyped
<1> QED
  BY <1>1, <1>3, <1>6, <1>7, Types

LEMMA ChainKeepsTypes ==
  ASSUME TypeOK, LibraryInv, NEW w \in Writers, AppendChain(w)
  PROVE  /\ TypeOK' /\ UNCHANGED <<file, archive, snapshot, landed>>
         /\ UNCHANGED crossed
         /\ pc[w] = 2 /\ pc'[w] = 3
         /\ job'[w] = [job[w] EXCEPT !.entry = Len(chain[job[w].path]) + 1]
         /\ \A v \in Writers : v # w => job'[v] = job[v] /\ pc'[v] = pc[v]
<1> DEFINE j == [job[w] EXCEPT !.entry = Len(chain[job[w].path]) + 1]
<1>1. pc[w] = 2 /\ UNCHANGED <<file, archive, snapshot, landed, crossed>>
  BY AtPlace DEF AppendChain
<1>2. Len(chain[job[w].path]) \in Nat /\ Len(chain[job[w].path]) < MaxRevisions
  <2>1. chain[job[w].path] \in Seq(Entries)
    BY <1>1, Doing DEF TypeOK
  <2>2. Len(chain[job[w].path]) < MaxRevisions
    BY DEF AppendChain, Room
  <2> QED
    BY <2>1, <2>2
<1>3. Len(chain[job[w].path]) + 1 \in 0 .. MaxRevisions
  BY <1>2, LibraryAssumption
<1>4. IsJob(j) /\ 3 \in 0 .. 4
  <2>1. job[w].verb \in Verbs /\ job[w] \in Jobs(job[w].verb)
    BY <1>1, Doing
  <2>2. PICK k \in 0 .. MaxRevisions : k = Len(chain[job[w].path]) + 1
    BY <1>3
  <2>3. [job[w] EXCEPT !.entry = k] \in Jobs(job[w].verb)
    BY <2>1, FilledIn
  <2> QED
    BY <2>1, <2>2, <2>3 DEF IsJob
<1>5. Becomes(w, j, 3)
  BY Becoming
<1>6. /\ JobsTyped' /\ pc'[w] = 3 /\ job'[w] = j
      /\ \A v \in Writers : v # w => job'[v] = job[v] /\ pc'[v] = pc[v]
  <2> HIDE DEF j
  <2> QED
    BY <1>4, <1>5, JobTyped
<1>7. FilesTyped'
  <2> DEFINE e == [verb |-> job[w].verb,
                   to |-> IF job[w].verb = "move" THEN job[w].arg ELSE NoPath,
                   before |-> job[w].old, after |-> job[w].new, number |-> job[w].number]
  <2>1. job[w].number \in Numbers
    BY <1>1, Doing DEF Working, Snapped
  <2>2. e \in Entries
    BY <1>1, <2>1, Doing DEF Entries
  <2>3. chain' = [chain EXCEPT ![job[w].path] = Append(chain[job[w].path], e)]
    BY DEF AppendChain, TypeOK
  <2> HIDE DEF e
  <2>4. \A p \in Paths : chain[p] \in Seq(Entries) /\ Len(chain[p]) <= MaxRevisions
    BY DEF TypeOK
  <2>5. job[w].path \in Paths
    BY <1>1, Doing
  <2>6. /\ Append(chain[job[w].path], e) \in Seq(Entries)
        /\ Len(Append(chain[job[w].path], e)) = Len(chain[job[w].path]) + 1
    BY <2>2, <2>4, <2>5, AppendProperties
  <2>7. chain' \in [Paths -> Seq(Entries)]
    BY <2>3, <2>5, <2>6 DEF TypeOK
  <2>8. \A p \in Paths : Len(chain'[p]) <= MaxRevisions
    BY <1>3, <2>3, <2>4, <2>5, <2>6 DEF TypeOK
  <2> QED
    BY <1>1, <2>7, <2>8 DEF TypeOK, FilesTyped
<1> QED
  BY <1>1, <1>6, <1>7, Types

(* The last operations of an apply.                                        *)
LEMMA AdvanceKeepsTypes ==
  ASSUME TypeOK, LibraryInv, NEW w \in Writers, Advance(w),
         CopyMoved(w) \/ CopyRetired(w) \/ Land(w) \/ Unlink(w)
  PROVE  /\ TypeOK' /\ UNCHANGED <<snapshot, chain, crossed>>
         /\ pc[w] > 0
<1>1. pc[w] > 0 /\ UNCHANGED <<snapshot, chain, crossed>>
  BY DEF CopyMoved, CopyRetired, Land, Unlink, At
<1>2. JobsTyped'
  <2>1. PICK n \in {3, 4} : Len(Steps(job[w].verb)) = n
    BY <1>1, Doing, Places
  <2> QED
    BY <1>1, <2>1, Advanced
<1>3. file' \in [Paths -> MaybeText]
  <2>1. job[w].saw \in MaybeText /\ job[w].new \in MaybeText
    BY <1>1, Doing DEF MaybeText
  <2> QED
    BY <2>1 DEF TypeOK, CopyMoved, CopyRetired, Land, Unlink
<1>4. archive' \in [Paths -> MaybeText]
  <2>1. job[w].saw \in MaybeText /\ NoText \in MaybeText
    BY <1>1, Doing DEF MaybeText
  <2> QED
    BY <2>1 DEF TypeOK, CopyMoved, CopyRetired, Land, Unlink
<1>5. landed' \in [Paths -> 0 .. MaxRevisions]
  <2>1. job[w].entry \in 0 .. MaxRevisions /\ 0 \in 0 .. MaxRevisions
    BY <1>1, Doing, LibraryAssumption
  <2> QED
    BY <2>1 DEF TypeOK, CopyMoved, CopyRetired, Land, Unlink
<1> QED
  BY <1>1, <1>2, <1>3, <1>4, <1>5, Types DEF FilesTyped, TypeOK

-----------------------------------------------------------------------------
(* The steps keep the invariant.                                           *)

LEMMA InitInv ==
  ASSUME Init
  PROVE  TypeOK /\ LibraryInv
<1>1. PICK b \in Bodies :
        file \in [Paths -> {[status |-> "page", body |-> b, version |-> 0], NoText}]
  BY DEF Init
<1>2. [status |-> "page", body |-> b, version |-> 0] \in Texts
  BY DEF Texts, Statuses
<1>3. file \in [Paths -> MaybeText] /\ archive \in [Paths -> MaybeText]
  BY <1>1, <1>2 DEF Init, MaybeText
<1>4. snapshot \in [Paths -> [Numbers -> MaybeText]]
  BY DEF Init, MaybeText
<1>5. chain \in [Paths -> Seq(Entries)] /\ \A p \in Paths : chain[p] = <<>>
  BY EmptySeq DEF Init
<1>6. \A p \in Paths : Len(chain[p]) = 0 /\ DOMAIN chain[p] = {}
  BY <1>5
<1>7. pc = [w \in Writers |-> 0] /\ job = [w \in Writers |-> NoJob]
  BY DEF Init
<1>8. landed \in [Paths -> 0 .. MaxRevisions] /\ \A p \in Paths : landed[p] = 0
  BY LibraryAssumption DEF Init
<1>9. TypeOK
  <2>1. \A p \in Paths : Len(chain[p]) <= MaxRevisions
    BY <1>6, LibraryAssumption
  <2> QED
    BY <1>3, <1>4, <1>5, <1>7, <1>8, <2>1 DEF TypeOK, Init
<1>10. LibraryInv
  <2>1. \A w \in Writers : ~ (pc[w] > 0)
    BY <1>7
  <2>2. \A p \in Paths : archive[p] = NoText
    BY DEF Init
  <2>3. Disjoint /\ Archived
    BY <2>1, <2>2 DEF Disjoint, Archived
  <2>4. Lined /\ LandedInChain /\ ChainTellsTruth
    BY <1>6, <1>8 DEF Lined, LandedInChain, ChainTellsTruth
  <2> QED
    BY <2>1, <2>3, <2>4 DEF LibraryInv
<1> QED
  BY <1>9, <1>10

LEMMA SameWork ==
  ASSUME UNCHANGED <<file, archive, snapshot, chain, landed>>, crossed \subseteq crossed',
         NEW w \in Writers, Working(w), pc'[w] = pc[w], job'[w] = job[w]
  PROVE  Working(w)'
<1>1. Texted(w)' /\ Stepped(w)' /\ Planned(w)' /\ Present(w)'
  BY DEF Working, Texted, Stepped, Planned, Present
<1>2. Recorded(w)' /\ Snapped(w)'
  BY DEF Working, Recorded, Snapped, Number
<1>3. Untouched(w)' /\ Copied(w)'
  BY DEF Working, Untouched, Copied, Landing
<1> QED
  BY <1>1, <1>2, <1>3 DEF Working

(* Nothing but plans comes and goes.                                       *)
LEMMA Idle ==
  ASSUME LibraryInv, UNCHANGED <<file, archive, snapshot, chain, landed, crossed>>,
         \A v \in Writers : pc'[v] > 0 => pc'[v] = pc[v] /\ job'[v] = job[v]
  PROVE  LibraryInv'
<1>1. \A w \in Writers : pc'[w] > 0 => Working(w)'
  <2>1. SUFFICES ASSUME NEW w \in Writers, pc'[w] > 0 PROVE Working(w)'
    OBVIOUS
  <2>2. pc'[w] = pc[w] /\ job'[w] = job[w]
    BY <2>1
  <2>3. Working(w)
    BY <2>1, <2>2 DEF LibraryInv
  <2> QED
    BY <2>2, <2>3, SameWork
<1>2. Disjoint'
  BY DEF LibraryInv, Disjoint
<1>3. Lined' /\ Archived' /\ LandedInChain' /\ ChainTellsTruth'
  BY DEF LibraryInv, Lined, Archived, LandedInChain, ChainTellsTruth
<1> QED
  BY <1>1, <1>2, <1>3 DEF LibraryInv

(* A step of w changes nothing but the pages its job touches.              *)
Confined(w) ==
  \A p \in Paths \ Touched(job[w]) :
     /\ file'[p] = file[p] /\ archive'[p] = archive[p] /\ snapshot'[p] = snapshot[p]
     /\ chain'[p] = chain[p] /\ landed'[p] = landed[p]

(* Lines stay in their chain, files do not vanish.                         *)
NothingLost ==
  \A p \in Paths :
     /\ \A i \in DOMAIN chain[p] : i \in DOMAIN chain'[p] /\ chain'[p][i] = chain[p][i]
     /\ file[p] # NoText => file'[p] # NoText

(* The step of one writer leaves the work of another one as it was: the    *)
(* pages they share are crossed.                                           *)
LEMMA Others ==
  ASSUME TypeOK, LibraryInv, NEW w \in Writers, pc[w] > 0,
         NEW v \in Writers, v # w, pc[v] > 0, pc'[v] = pc[v], job'[v] = job[v],
         UNCHANGED crossed, Confined(w), NothingLost
  PROVE  Working(v)'
<1>1. /\ Working(v) /\ job[v].path \in Paths
      /\ job[v].verb = "move" => job[v].arg \in Paths
      /\ pc[v] \in 1 .. 4
  BY Doing
<1>2. /\ job[v].path \in Touched(job[v])
      /\ job[v].verb = "move" => job[v].arg \in Touched(job[v])
  BY Busy, TouchedPages
<1>3. Touched(job[v]) \cap Touched(job[w]) \subseteq crossed
  BY DEF LibraryInv, Disjoint
<1>4. PICK q \in Paths : q = job[v].path
  BY <1>1
<1>5. q \notin crossed =>
        /\ file'[q] = file[q] /\ archive'[q] = archive[q] /\ snapshot'[q] = snapshot[q]
        /\ chain'[q] = chain[q] /\ landed'[q] = landed[q]
  BY <1>2, <1>3, <1>4 DEF Confined
<1>6. job[v].verb = "move" /\ job[v].arg \notin crossed => file'[job[v].arg] = file[job[v].arg]
  BY <1>1, <1>2, <1>3 DEF Confined
<1>7. Texted(v)' /\ Stepped(v)' /\ Planned(v)'
  BY <1>1 DEF Working, Texted, Stepped, Planned
<1>8. Present(v)'
  BY <1>1 DEF Working, Present, NothingLost
<1>9. Recorded(v)'
  BY <1>1, <1>4 DEF Working, Recorded, NothingLost
<1>10. Snapped(v)'
  BY <1>1, <1>4, <1>5 DEF Working, Snapped, Number
<1>11. Untouched(v)'
  BY <1>1, <1>4, <1>5 DEF Working, Untouched, Landing
<1>12. Copied(v)'
  BY <1>1, <1>4, <1>5, <1>6 DEF Working, Copied
<1> QED
  BY <1>7, <1>8, <1>9, <1>10, <1>11, <1>12 DEF Working

(* So only the work of the writer that takes the step is to be looked at.  *)
LEMMA OthersWork ==
  ASSUME TypeOK, LibraryInv, NEW w \in Writers, pc[w] > 0,
         \A v \in Writers : v # w => pc'[v] = pc[v] /\ job'[v] = job[v],
         pc'[w] > 0 => Working(w)' /\ Touched(job'[w]) = Touched(job[w]),
         UNCHANGED crossed, Confined(w), NothingLost,
         Lined', Archived', LandedInChain', ChainTellsTruth'
  PROVE  LibraryInv'
<1>1. ASSUME NEW v \in Writers, pc'[v] > 0
      PROVE  Working(v)'
  <2>1. CASE v = w
    BY <1>1, <2>1
  <2>2. CASE v # w
    <3>1. pc'[v] = pc[v] /\ job'[v] = job[v] /\ pc[v] > 0
      BY <1>1, <2>2
    <3> QED
      BY <2>2, <3>1, Others
  <2> QED
    BY <2>1, <2>2
<1>2. Disjoint'
  <2>1. \A v \in Writers : pc'[v] > 0 => pc[v] > 0 /\ Touched(job'[v]) = Touched(job[v])
    OBVIOUS
  <2> QED
    BY <2>1 DEF LibraryInv, Disjoint
<1> QED
  BY <1>1, <1>2 DEF LibraryInv

LEMMA ApplyKeepsInv ==
  ASSUME TypeOK, LibraryInv, NEW w \in Writers, Apply(w)
  PROVE  LibraryInv'
<1> DEFINE j == job[w]
           k == [j EXCEPT !.old = Replaced(j), !.new = NewText(j)]
<1>1. j # NoJob /\ pc[w] = 0 /\ Possible(j) /\ TokenFits(j)
  BY DEF Apply
<1>2. /\ UNCHANGED <<file, archive, snapshot, chain, landed>>
      /\ pc'[w] = 1 /\ job'[w] = k
      /\ crossed' = crossed \cup Meeting(w)
      /\ \A v \in Writers : v # w => pc'[v] = pc[v] /\ job'[v] = job[v]
  BY ApplyKeepsTypes
<1>3. j.verb \in Verbs /\ j \in Jobs(j.verb) /\ j.path \in Paths /\ j.saw \in Texts
  BY <1>1, JobFields
<1>4. /\ k.verb = j.verb /\ k.path = j.path /\ k.arg = j.arg /\ k.saw = j.saw
      /\ k.old = Replaced(j) /\ k.new = NewText(j)
  BY <1>3 DEF Jobs
<1> HIDE DEF j, k
<1>5. NewText(j) \in Texts
  BY <1>1, NewTextIsText DEF j
<1>6. /\ file[j.path] \in MaybeText /\ archive[j.path] \in MaybeText
      /\ archive[j.path] # NoText => file[j.path] # NoText
  BY <1>3 DEF TypeOK, LibraryInv, Archived
<1>7. /\ Replaced(j) \in Texts /\ file[j.path] = Replaced(j)
      /\ j.verb # "restore" => Replaced(j) = j.saw
      /\ j.verb = "restore" => j.saw = archive[j.path] /\ Replaced(j).status = "retired"
  <2>1. CASE j.verb = "restore"
    <3>1. archive[j.path] # NoText /\ StatusOf(file[j.path]) \in {"absent", "retired"}
      BY <1>1, <2>1 DEF Possible, Restorable
    <3>2. file[j.path] \in Texts
      BY <1>6, <3>1 DEF MaybeText
    <3>3. file[j.path].status # "absent"
      BY <3>2 DEF Texts, Statuses
    <3>4. file[j.path].status = "retired"
      BY <1>6, <3>1, <3>3 DEF StatusOf
    <3> QED
      BY <1>1, <2>1, <3>2, <3>4 DEF Replaced, TokenFits, TokenText
  <2>2. CASE j.verb # "restore"
    BY <1>1, <1>3, <2>2 DEF Replaced, TokenFits, TokenText
  <2> QED
    BY <2>1, <2>2
<1>8. /\ j.verb = "move" => file[j.arg] = NoText
      /\ j.verb = "retire" => archive[j.path] = NoText
      /\ j.verb = "move" => j.arg # j.path
  BY <1>1 DEF Possible
<1>9. Working(w)'
  <2>1. Texted(w)' /\ Planned(w)'
    BY <1>2, <1>4, <1>5, <1>7, <1>8 DEF Texted, Planned
  <2>2. Stepped(w)'
    <3>1. PICK n \in {3, 4} : Len(Steps(j.verb)) = n
      BY <1>3, Places
    <3> QED
      BY <1>2, <1>4, <3>1 DEF Stepped
  <2>3. Recorded(w)' /\ Snapped(w)' /\ Present(w)'
    <3>1. file[j.path] # NoText
      BY <1>7, LibraryAssumption
    <3> QED
      BY <1>2, <1>4, <3>1 DEF Recorded, Snapped, Present
  <2>4. Untouched(w)'
    BY <1>2, <1>4, <1>7 DEF Untouched
  <2>5. Copied(w)'
    BY <1>2, <1>4, <1>8 DEF Copied
  <2> QED
    BY <2>1, <2>2, <2>3, <2>4, <2>5 DEF Working
<1>10. Lined' /\ Archived' /\ LandedInChain' /\ ChainTellsTruth'
  BY <1>2 DEF LibraryInv, Lined, Archived, LandedInChain, ChainTellsTruth
<1>11. ASSUME NEW v \in Writers, pc'[v] > 0
       PROVE  Working(v)'
  <2>1. CASE v = w
    BY <1>9, <2>1
  <2>2. CASE v # w
    <3>1. pc'[v] = pc[v] /\ job'[v] = job[v] /\ Working(v)
      BY <1>2, <1>11, <2>2 DEF LibraryInv
    <3> QED
      BY <1>2, <3>1, SameWork
  <2> QED
    BY <2>1, <2>2
<1>12. Touched(job'[w]) = Touched(job[w])
  BY <1>2, <1>4 DEF Touched, j
<1>13. \A v \in Writers : v # w /\ pc[v] > 0 =>
         Touched(job[w]) \cap Touched(job[v]) \subseteq crossed'
  BY <1>2 DEF Meeting
<1>14. Disjoint'
  <2>1. SUFFICES ASSUME NEW v \in Writers, NEW u \in Writers, v # u, pc'[v] > 0, pc'[u] > 0
                 PROVE  Touched(job'[v]) \cap Touched(job'[u]) \subseteq crossed'
    BY DEF Disjoint
  <2>2. CASE v # w /\ u # w
    <3>1. /\ pc[v] > 0 /\ pc[u] > 0
          /\ job'[v] = job[v] /\ job'[u] = job[u] /\ crossed \subseteq crossed'
      BY <1>2, <2>1, <2>2
    <3>2. Touched(job[v]) \cap Touched(job[u]) \subseteq crossed
      BY <2>1, <3>1 DEF LibraryInv, Disjoint
    <3> QED
      BY <3>1, <3>2
  <2>3. CASE v = w
    BY <1>2, <1>12, <1>13, <2>1, <2>3
  <2>4. CASE u = w
    BY <1>2, <1>12, <1>13, <2>1, <2>4
  <2> QED
    BY <2>2, <2>3, <2>4
<1> QED
  BY <1>10, <1>11, <1>14 DEF LibraryInv

LEMMA SnapshotKeepsInv ==
  ASSUME TypeOK, LibraryInv, NEW w \in Writers, WriteSnapshot(w)
  PROVE  LibraryInv'
<1> DEFINE j == job[w]
           n == Number(j.path)
           k == [j EXCEPT !.number = n]
<1>1. /\ UNCHANGED <<file, archive, chain, landed, crossed>>
      /\ pc[w] = 1 /\ pc'[w] = 2 /\ n \in Numbers /\ job'[w] = k
      /\ \A v \in Writers : v # w => pc'[v] = pc[v] /\ job'[v] = job[v]
  BY SnapshotKeepsTypes
<1>2. /\ Working(w) /\ j.verb \in Verbs /\ j \in Jobs(j.verb) /\ j.path \in Paths
  BY <1>1, Doing
<1>3. /\ k.verb = j.verb /\ k.path = j.path /\ k.arg = j.arg /\ k.saw = j.saw
      /\ k.old = j.old /\ k.new = j.new /\ k.number = n
  BY <1>2 DEF Jobs
<1>4. snapshot' = [snapshot EXCEPT ![j.path][n] = j.old]
  BY DEF WriteSnapshot
<1> HIDE DEF j, k, n
<1>5. snapshot'[j.path][n] = j.old
  BY <1>1, <1>2, <1>4 DEF TypeOK
<1>6. Working(w)'
  <2>1. Texted(w)' /\ Planned(w)' /\ Present(w)'
    BY <1>1, <1>2, <1>3 DEF Working, Texted, Planned, Present, j
  <2>2. Stepped(w)'
    <3>1. PICK m \in {3, 4} : Len(Steps(j.verb)) = m
      BY <1>2, Places
    <3> QED
      BY <1>1, <1>3, <3>1 DEF Stepped
  <2>3. Recorded(w)'
    BY <1>1 DEF Recorded
  <2>4. Snapped(w)'
    BY <1>1, <1>3, <1>5 DEF Snapped, Number, n
  <2>5. LandsAt(j.verb) \in {3, 4}
    BY <1>2, Places
  <2>6. Untouched(w)'
    BY <1>1, <1>2, <1>3, <2>5 DEF Working, Untouched, Landing, j
  <2>7. Copied(w)'
    BY <1>1, <1>2, <1>3 DEF Working, Copied, j
  <2> QED
    BY <2>1, <2>2, <2>3, <2>4, <2>6, <2>7 DEF Working
<1>7. Lined' /\ Archived' /\ LandedInChain'
  BY <1>1 DEF LibraryInv, Lined, Archived, LandedInChain
<1>8. ChainTellsTruth'
  <2>1. SUFFICES ASSUME NEW p \in Paths \ crossed, NEW i \in DOMAIN chain[p]
                 PROVE  snapshot'[p][chain[p][i].number] = chain[p][i].before
    BY <1>1 DEF ChainTellsTruth
  <2>2. snapshot[p][i] = chain[p][i].before /\ chain[p][i].number = i
    BY DEF LibraryInv, ChainTellsTruth, Lined
  <2>3. chain[p] \in Seq(Entries) /\ Len(chain[p]) <= MaxRevisions
    BY DEF TypeOK
  <2>4. i \in 1 .. Len(chain[p]) /\ i \in Numbers
    BY <2>3, LibraryAssumption DEF Numbers
  <2>5. p = j.path => i # n
    BY <2>3, <2>4 DEF n, Number
  <2> QED
    BY <1>1, <1>4, <2>2, <2>4, <2>5 DEF TypeOK
<1>9. Confined(w) /\ NothingLost
  <2>1. j.path \in Touched(job[w])
    BY DEF Touched, j
  <2> QED
    BY <1>1, <1>4, <2>1 DEF Confined, NothingLost, TypeOK
<1>10. Touched(job'[w]) = Touched(job[w])
  BY <1>1, <1>3 DEF Touched, j
<1>11. pc[w] > 0
  BY <1>1
<1> QED
  BY <1>1, <1>6, <1>7, <1>8, <1>9, <1>10, <1>11, OthersWork

(* The chain of one page grows by one entry, the others do not.            *)
LEMMA Grown ==
  ASSUME TypeOK, LibraryInv, NEW w \in Writers, AppendChain(w)
  PROVE  LET j == job[w]
             l == Len(chain[j.path])
             e == [verb |-> j.verb, to |-> IF j.verb = "move" THEN j.arg ELSE NoPath,
                   before |-> j.old, after |-> j.new, number |-> j.number]
         IN /\ l \in Nat /\ DOMAIN chain[j.path] = 1 .. l
            /\ DOMAIN chain'[j.path] = 1 .. l + 1
            /\ chain'[j.path][l + 1] = e
            /\ \A i \in 1 .. l : chain'[j.path][i] = chain[j.path][i]
            /\ Len(chain'[j.path]) = l + 1
            /\ \A p \in Paths : p # j.path => chain'[p] = chain[p]
<1> DEFINE j == job[w]
           l == Len(chain[j.path])
           e == [verb |-> j.verb, to |-> IF j.verb = "move" THEN j.arg ELSE NoPath,
                 before |-> j.old, after |-> j.new, number |-> j.number]
<1>1. pc[w] = 2
  BY ChainKeepsTypes
<1>2. j.path \in Paths
  BY <1>1, Doing
<1>3. chain[j.path] \in Seq(Entries)
  BY <1>2 DEF TypeOK
<1>4. chain' = [chain EXCEPT ![j.path] = Append(chain[j.path], e)]
  BY DEF AppendChain, TypeOK
<1> HIDE DEF j, e
<1>5. chain'[j.path] = Append(chain[j.path], e)
  BY <1>2, <1>4 DEF TypeOK
<1>6. \A p \in Paths : p # j.path => chain'[p] = chain[p]
  BY <1>4 DEF TypeOK
<1>7. chain[j.path] \in Seq(Entries \cup {e}) /\ e \in Entries \cup {e}
  BY <1>3, SeqMonotonic
<1>8. /\ l \in Nat /\ DOMAIN chain[j.path] = 1 .. l
      /\ Len(chain'[j.path]) = l + 1 /\ DOMAIN chain'[j.path] = 1 .. l + 1
      /\ chain'[j.path][l + 1] = e
      /\ \A i \in 1 .. l : chain'[j.path][i] = chain[j.path][i]
  BY <1>5, <1>7, AppendProperties, LenProperties
<1> QED
  BY <1>6, <1>8 DEF j, e

LEMMA ChainKeepsInv ==
  ASSUME TypeOK, LibraryInv, NEW w \in Writers, AppendChain(w)
  PROVE  LibraryInv'
<1> DEFINE j == job[w]
           l == Len(chain[j.path])
           k == [j EXCEPT !.entry = l + 1]
           e == [verb |-> j.verb, to |-> IF j.verb = "move" THEN j.arg ELSE NoPath,
                 before |-> j.old, after |-> j.new, number |-> j.number]
<1>1. /\ UNCHANGED <<file, archive, snapshot, landed, crossed>>
      /\ pc[w] = 2 /\ pc'[w] = 3 /\ job'[w] = k
      /\ \A v \in Writers : v # w => pc'[v] = pc[v] /\ job'[v] = job[v]
  BY ChainKeepsTypes
<1>2. /\ Working(w) /\ j.verb \in Verbs /\ j \in Jobs(j.verb) /\ j.path \in Paths
      /\ j.verb = "move" => j.arg \in Paths
  BY <1>1, Doing
<1>3. /\ k.verb = j.verb /\ k.path = j.path /\ k.arg = j.arg /\ k.saw = j.saw
      /\ k.old = j.old /\ k.new = j.new /\ k.entry = l + 1
  BY <1>2 DEF Jobs
<1>4. /\ l \in Nat /\ DOMAIN chain[j.path] = 1 .. l
      /\ DOMAIN chain'[j.path] = 1 .. l + 1 /\ Len(chain'[j.path]) = l + 1
      /\ chain'[j.path][l + 1] = e
      /\ \A i \in 1 .. l : chain'[j.path][i] = chain[j.path][i]
      /\ \A p \in Paths : p # j.path => chain'[p] = chain[p]
  BY Grown
<1>5. LET last == chain'[j.path][l + 1]
      IN /\ last.verb = j.verb /\ last.before = j.old /\ last.number = j.number
         /\ j.verb = "move" => last.to = j.arg
  BY <1>4
<1>6. j.path \notin crossed => j.number = l + 1 /\ snapshot[j.path][l + 1] = j.old
  BY <1>1, <1>2 DEF Working, Snapped, Number
<1> HIDE DEF j, k, e, l
<1>7. Working(w)'
  <2>1. Texted(w)' /\ Planned(w)' /\ Present(w)'
    BY <1>1, <1>2, <1>3 DEF Working, Texted, Planned, Present, j
  <2>2. PICK m \in {3, 4} : Len(Steps(j.verb)) = m
    BY <1>2, Places
  <2>3. Stepped(w)'
    BY <1>1, <1>3, <2>2 DEF Stepped
  <2>4. l + 1 \in 1 .. l + 1
    BY <1>4
  <2>5. Recorded(w)'
    <3>1. k.entry \in DOMAIN chain'[j.path]
      BY <1>1, <1>3, <1>4, <2>4
    <3>2. /\ chain'[k.path][k.entry].verb = k.verb
          /\ chain'[k.path][k.entry].before = k.old
          /\ k.verb = "move" => chain'[k.path][k.entry].to = k.arg
      BY <1>3, <1>5
    <3> QED
      BY <1>1, <1>3, <3>1, <3>2 DEF Recorded
  <2>6. Snapped(w)'
    BY <1>1 DEF Snapped
  <2>7. LandsAt(j.verb) \in {3, 4}
    BY <1>2, Places
  <2>8. Untouched(w)'
    BY <1>1, <1>2, <1>3, <2>7 DEF Working, Untouched, Landing, j
  <2>9. Copied(w)'
    BY <1>1, <1>2, <1>3 DEF Working, Copied, j
  <2> QED
    BY <2>1, <2>3, <2>5, <2>6, <2>8, <2>9 DEF Working
<1>8. Archived'
  BY <1>1 DEF LibraryInv, Archived
<1>9. LandedInChain'
  <2>1. SUFFICES ASSUME NEW p \in Paths PROVE landed[p] <= Len(chain'[p])
    BY <1>1 DEF LandedInChain
  <2>2. landed[p] <= Len(chain[p]) /\ landed[p] \in 0 .. MaxRevisions
    BY DEF LibraryInv, LandedInChain, TypeOK
  <2>3. CASE p = j.path
    BY <1>4, <2>2, <2>3, LibraryAssumption DEF l
  <2> QED
    BY <1>4, <2>2, <2>3
<1>10. Lined' /\ ChainTellsTruth'
  <2>1. SUFFICES ASSUME NEW p \in Paths, NEW i \in DOMAIN chain'[p]
                 PROVE  /\ chain'[p][i].verb = "move" => chain'[p][i].to \in Paths
                        /\ p \notin crossed => /\ chain'[p][i].number = i
                                             /\ snapshot[p][i] = chain'[p][i].before
    BY <1>1 DEF Lined, ChainTellsTruth
  <2>2. \A m \in DOMAIN chain[p] :
          /\ p \notin crossed => chain[p][m].number = m /\ snapshot[p][m] = chain[p][m].before
          /\ chain[p][m].verb = "move" => chain[p][m].to \in Paths
    BY DEF LibraryInv, Lined, ChainTellsTruth
  <2>3. CASE p # j.path
    BY <1>4, <2>2, <2>3
  <2>4. CASE p = j.path /\ i \in 1 .. l
    BY <1>4, <2>2, <2>4
  <2>5. CASE p = j.path /\ i \notin 1 .. l
    <3>1. i = l + 1
      BY <1>4, <2>5
    <3> QED
      BY <1>2, <1>5, <1>6, <2>5, <3>1
  <2> QED
    BY <2>3, <2>4, <2>5
<1>11. Confined(w) /\ NothingLost
  <2>1. j.path \in Touched(job[w])
    BY DEF Touched, j
  <2>2. \A i \in 1 .. l : i \in 1 .. l + 1
    BY <1>4
  <2>3. NothingLost
    BY <1>1, <1>4, <2>2 DEF NothingLost
  <2> QED
    BY <1>1, <1>4, <2>1, <2>3 DEF Confined
<1>12. Touched(job'[w]) = Touched(job[w])
  BY <1>1, <1>3 DEF Touched, j
<1>13. pc[w] > 0
  BY <1>1
<1> QED
  BY <1>1, <1>7, <1>8, <1>9, <1>10, <1>11, <1>12, <1>13, OthersWork

(* Where the last operations of an apply leave their writer.               *)
LEMMA Finishing ==
  ASSUME TypeOK, LibraryInv, NEW w \in Writers,
         CopyMoved(w) \/ CopyRetired(w) \/ Land(w) \/ Unlink(w)
  PROVE  /\ pc[w] > 0
         /\ CopyMoved(w) => /\ job[w].verb = "move" /\ pc[w] = 3
                            /\ pc'[w] = 4 /\ job'[w] = job[w]
         /\ CopyRetired(w) => /\ job[w].verb = "retire" /\ pc[w] = 3
                              /\ pc'[w] = 4 /\ job'[w] = job[w]
         /\ Land(w) => /\ pc[w] = LandsAt(job[w].verb)
                       /\ job[w].verb = "restore" =>
                            pc[w] = 3 /\ pc'[w] = 4 /\ job'[w] = job[w]
                       /\ job[w].verb # "restore" => pc'[w] = 0
         /\ Unlink(w) => job[w].verb = "restore" /\ pc[w] = 4 /\ pc'[w] = 0
         /\ \A v \in Writers : v # w => pc'[v] = pc[v] /\ job'[v] = job[v]
<1>1. pc[w] > 0 /\ Advance(w)
  BY DEF CopyMoved, CopyRetired, Land, Unlink, At
<1>2. job[w].verb \in Verbs /\ pc[w] \in 1 .. 4
  BY <1>1, Doing
<1>3. PICK n \in {3, 4} : Len(Steps(job[w].verb)) = n
  BY <1>2, Places
<1>4. /\ pc[w] < n => pc'[w] = pc[w] + 1 /\ job'[w] = job[w]
      /\ pc[w] >= n => pc'[w] = 0
      /\ \A v \in Writers : v # w => pc'[v] = pc[v] /\ job'[v] = job[v]
  BY <1>1, <1>3, Advanced
<1>5. /\ job[w].verb \in {"move", "retire", "restore"} => n = 4
      /\ job[w].verb \notin {"move", "retire", "restore"} => n = 3
  BY <1>2, <1>3, Places DEF Verbs
<1>6. ASSUME CopyMoved(w)
      PROVE  job[w].verb = "move" /\ pc[w] = 3 /\ pc'[w] = 4 /\ job'[w] = job[w]
  <2>1. job[w].verb = "move" /\ pc[w] = 3
    BY <1>6, AtPlace DEF CopyMoved
  <2> QED
    BY <1>4, <1>5, <2>1
<1>7. ASSUME CopyRetired(w)
      PROVE  job[w].verb = "retire" /\ pc[w] = 3 /\ pc'[w] = 4 /\ job'[w] = job[w]
  <2>1. job[w].verb = "retire" /\ pc[w] = 3
    BY <1>7, AtPlace DEF CopyRetired
  <2> QED
    BY <1>4, <1>5, <2>1
<1>8. ASSUME Land(w)
      PROVE  /\ pc[w] = LandsAt(job[w].verb)
             /\ job[w].verb = "restore" =>
                  pc[w] = 3 /\ pc'[w] = 4 /\ job'[w] = job[w]
             /\ job[w].verb # "restore" => pc'[w] = 0
  <2>1. pc[w] = LandsAt(job[w].verb)
    BY <1>8, AtPlace DEF Land
  <2>2. CASE job[w].verb = "restore"
    <3>1. pc[w] = 3
      BY <2>1, <2>2 DEF LandsAt
    <3> QED
      BY <1>4, <1>5, <2>1, <2>2, <3>1
  <2>3. CASE job[w].verb \in {"move", "retire"}
    <3>1. pc[w] = 4 /\ n = 4
      BY <1>5, <2>1, <2>3 DEF LandsAt
    <3> QED
      BY <1>4, <2>1, <2>3, <3>1
  <2>4. CASE job[w].verb \notin {"move", "retire", "restore"}
    <3>1. pc[w] = 3 /\ n = 3
      BY <1>5, <2>1, <2>4 DEF LandsAt
    <3> QED
      BY <1>4, <2>1, <2>4, <3>1
  <2> QED
    BY <2>2, <2>3, <2>4
<1>9. ASSUME Unlink(w)
      PROVE  job[w].verb = "restore" /\ pc[w] = 4 /\ pc'[w] = 0
  <2>1. job[w].verb = "restore" /\ pc[w] = 4
    BY <1>9, AtPlace DEF Unlink
  <2> QED
    BY <1>4, <1>5, <2>1
<1> QED
  BY <1>1, <1>4, <1>6, <1>7, <1>8, <1>9

LEMMA FinishKeepsTypes ==
  ASSUME TypeOK, LibraryInv, NEW w \in Writers,
         CopyMoved(w) \/ CopyRetired(w) \/ Land(w) \/ Unlink(w)
  PROVE  TypeOK' /\ UNCHANGED <<snapshot, chain, crossed>>
<1>1. Advance(w)
  BY DEF CopyMoved, CopyRetired, Land, Unlink
<1> QED
  BY <1>1, AdvanceKeepsTypes

(* The history has no part in the last operations.                         *)
LEMMA HistoryStays ==
  ASSUME LibraryInv, UNCHANGED <<snapshot, chain, crossed>>
  PROVE  Lined' /\ ChainTellsTruth'
BY DEF LibraryInv, Lined, ChainTellsTruth

LEMMA CopyMovedKeepsInv ==
  ASSUME TypeOK, LibraryInv, NEW w \in Writers, CopyMoved(w)
  PROVE  LibraryInv'
<1> DEFINE j == job[w]
<1>1. /\ j.verb = "move" /\ pc[w] = 3 /\ pc'[w] = 4 /\ job'[w] = job[w]
      /\ \A v \in Writers : v # w => pc'[v] = pc[v] /\ job'[v] = job[v]
  BY Finishing
<1>2. /\ Working(w) /\ j.path \in Paths /\ j.arg \in Paths
      /\ j.saw \in Texts /\ j.old \in Texts
  BY <1>1, Doing
<1>3. /\ file' = [file EXCEPT ![j.arg] = j.saw]
      /\ landed' = [landed EXCEPT ![j.arg] = 0]
      /\ UNCHANGED <<archive, snapshot, chain, crossed>>
  BY DEF CopyMoved
<1>4. LandsAt(j.verb) = 4 /\ Len(Steps(j.verb)) = 4
  BY <1>1, Places DEF LandsAt, Verbs
<1>5. file[j.path] # NoText /\ (j.path \notin crossed => file[j.path] = j.old)
  BY <1>1, <1>2, <1>4 DEF Working, Present, Untouched, Landing
<1>6. NoText \notin Texts
  BY LibraryAssumption
<1>7. j.arg # j.path
  BY <1>1, <1>2 DEF Working, Planned
<1>8. file'[j.path] = file[j.path] /\ file'[j.arg] = j.saw
  BY <1>2, <1>3, <1>7 DEF TypeOK
<1>9. Working(w)'
  <2>1. Texted(w)' /\ Planned(w)' /\ Snapped(w)' /\ Present(w)'
    BY <1>1, <1>2, <1>3, <1>5, <1>8 DEF Working, Texted, Planned, Snapped, Present
  <2>2. Recorded(w)'
    BY <1>1, <1>2, <1>3 DEF Working, Recorded
  <2>3. Stepped(w)'
    <3>1. Len(Steps(job'[w].verb)) = 4
      BY <1>1, <1>4
    <3>2. pc'[w] <= 4
      BY <1>1
    <3> QED
      BY <3>1, <3>2, Zenon DEF Stepped
  <2>4. Untouched(w)' /\ Copied(w)'
    BY <1>1, <1>3, <1>5, <1>8 DEF Untouched, Copied
  <2> QED
    BY <2>1, <2>2, <2>3, <2>4 DEF Working
<1>10. Archived'
  BY <1>2, <1>3, <1>6 DEF LibraryInv, Archived, TypeOK
<1>11. LandedInChain'
  <2>1. \A p \in Paths : landed'[p] \in {0, landed[p]}
    BY <1>3 DEF TypeOK
  <2>2. \A p \in Paths : Len(chain[p]) \in Nat /\ landed[p] <= Len(chain[p])
    BY DEF LibraryInv, LandedInChain, TypeOK
  <2> QED
    BY <1>3, <2>1, <2>2 DEF LandedInChain
<1>12. Confined(w) /\ NothingLost
  <2>1. j.arg \in Touched(job[w])
    BY <1>1 DEF Touched
  <2>2. \A p \in Paths : p # j.arg => file'[p] = file[p] /\ landed'[p] = landed[p]
    BY <1>3 DEF TypeOK
  <2>3. file'[j.arg] # NoText
    BY <1>2, <1>6, <1>8
  <2>4. NothingLost
    BY <1>3, <2>2, <2>3 DEF NothingLost
  <2> QED
    BY <1>3, <2>1, <2>2, <2>4 DEF Confined
<1>13. pc[w] > 0 /\ Touched(job'[w]) = Touched(job[w])
  BY <1>1
<1> QED
  BY <1>1, <1>3, <1>9, <1>10, <1>11, <1>12, <1>13, HistoryStays, OthersWork

LEMMA CopyRetiredKeepsInv ==
  ASSUME TypeOK, LibraryInv, NEW w \in Writers, CopyRetired(w)
  PROVE  LibraryInv'
<1> DEFINE j == job[w]
<1>1. /\ j.verb = "retire" /\ pc[w] = 3 /\ pc'[w] = 4 /\ job'[w] = job[w]
      /\ \A v \in Writers : v # w => pc'[v] = pc[v] /\ job'[v] = job[v]
  BY Finishing
<1>2. /\ Working(w) /\ j.path \in Paths /\ j.saw \in Texts /\ j.old \in Texts
  BY <1>1, Doing
<1>3. /\ archive' = [archive EXCEPT ![j.path] = j.saw]
      /\ UNCHANGED <<file, snapshot, chain, landed, crossed>>
  BY DEF CopyRetired
<1>4. LandsAt(j.verb) = 4 /\ Len(Steps(j.verb)) = 4
  BY <1>1, Places DEF LandsAt, Verbs
<1>5. /\ file[j.path] # NoText /\ (j.path \notin crossed => file[j.path] = j.old)
      /\ archive'[j.path] = j.saw
  BY <1>1, <1>2, <1>3, <1>4 DEF Working, Present, Untouched, Landing, TypeOK
<1>6. Working(w)'
  <2>1. Texted(w)' /\ Planned(w)' /\ Snapped(w)' /\ Present(w)'
    BY <1>1, <1>2, <1>3 DEF Working, Texted, Planned, Snapped, Present
  <2>2. Recorded(w)'
    BY <1>1, <1>2, <1>3 DEF Working, Recorded
  <2>3. Stepped(w)'
    <3>1. Len(Steps(job'[w].verb)) = 4
      BY <1>1, <1>4
    <3>2. pc'[w] <= 4
      BY <1>1
    <3> QED
      BY <3>1, <3>2, Zenon DEF Stepped
  <2>4. Untouched(w)' /\ Copied(w)'
    BY <1>1, <1>3, <1>5 DEF Untouched, Copied
  <2> QED
    BY <2>1, <2>2, <2>3, <2>4 DEF Working
<1>7. Archived'
  BY <1>3, <1>5 DEF LibraryInv, Archived, TypeOK
<1>8. LandedInChain'
  BY <1>3 DEF LibraryInv, LandedInChain
<1>9. Confined(w) /\ NothingLost
  <2>1. j.path \in Touched(job[w])
    BY DEF Touched
  <2> QED
    BY <1>3, <2>1 DEF Confined, NothingLost, TypeOK
<1>10. pc[w] > 0 /\ Touched(job'[w]) = Touched(job[w])
  BY <1>1
<1> QED
  BY <1>1, <1>3, <1>6, <1>7, <1>8, <1>9, <1>10, HistoryStays, OthersWork

LEMMA LandKeepsInv ==
  ASSUME TypeOK, LibraryInv, NEW w \in Writers, Land(w)
  PROVE  LibraryInv'
<1> DEFINE j == job[w]
<1>1. /\ pc[w] > 0 /\ pc[w] = LandsAt(j.verb)
      /\ j.verb = "restore" => pc[w] = 3 /\ pc'[w] = 4 /\ job'[w] = job[w]
      /\ j.verb # "restore" => pc'[w] = 0
      /\ \A v \in Writers : v # w => pc'[v] = pc[v] /\ job'[v] = job[v]
  BY Finishing
<1>2. /\ Working(w) /\ j.verb \in Verbs /\ j.path \in Paths
      /\ j.old \in Texts /\ j.new \in Texts
  BY <1>1, Doing
<1>3. /\ file' = [file EXCEPT ![j.path] = j.new]
      /\ landed' = [landed EXCEPT ![j.path] = j.entry]
      /\ UNCHANGED <<archive, snapshot, chain, crossed>>
  BY DEF Land
<1>4. /\ file'[j.path] = j.new /\ landed'[j.path] = j.entry
      /\ \A p \in Paths : p # j.path => file'[p] = file[p] /\ landed'[p] = landed[p]
  BY <1>2, <1>3 DEF TypeOK
<1>5. j.entry \in DOMAIN chain[j.path]
  <2>1. LandsAt(j.verb) \in {3, 4}
    BY <1>2, Places
  <2> QED
    BY <1>1, <1>2, <2>1 DEF Working, Recorded
<1>6. pc'[w] > 0 => Working(w)'
  <2>1. SUFFICES ASSUME pc'[w] > 0 PROVE Working(w)'
    OBVIOUS
  <2>2. j.verb = "restore" /\ pc[w] = 3 /\ pc'[w] = 4 /\ job'[w] = job[w]
    BY <1>1, <2>1
  <2>3. Texted(w)' /\ Planned(w)' /\ Snapped(w)' /\ Present(w)'
    BY <1>2, <1>4, <2>2, LibraryAssumption DEF Working, Texted, Planned, Snapped, Present
  <2>4. Recorded(w)'
    BY <1>2, <1>3, <2>2 DEF Working, Recorded
  <2>5. Stepped(w)'
    BY <2>2, Places DEF Stepped, Verbs
  <2>6. Untouched(w)'
    BY <2>2 DEF Untouched, Landing, LandsAt
  <2>7. Copied(w)'
    BY <1>4, <2>2 DEF Copied
  <2> QED
    BY <2>3, <2>4, <2>5, <2>6, <2>7 DEF Working
<1>7. Archived'
  <2>1. j.new # NoText
    BY <1>2, LibraryAssumption
  <2> QED
    BY <1>3, <1>4, <2>1 DEF LibraryInv, Archived
<1>8. LandedInChain'
  <2>1. chain[j.path] \in Seq(Entries)
    BY <1>2 DEF TypeOK
  <2>2. j.entry <= Len(chain[j.path])
    BY <1>5, <2>1
  <2> QED
    BY <1>3, <1>4, <2>2 DEF LibraryInv, LandedInChain
<1>9. Confined(w) /\ NothingLost
  <2>1. j.path \in Touched(job[w])
    BY DEF Touched
  <2>2. file'[j.path] # NoText
    BY <1>2, <1>4, LibraryAssumption
  <2> QED
    BY <1>3, <1>4, <2>1, <2>2 DEF Confined, NothingLost
<1>10. pc'[w] > 0 => Touched(job'[w]) = Touched(job[w])
  BY <1>1
<1> QED
  BY <1>1, <1>3, <1>6, <1>7, <1>8, <1>9, <1>10, HistoryStays, OthersWork

LEMMA UnlinkKeepsInv ==
  ASSUME TypeOK, LibraryInv, NEW w \in Writers, Unlink(w)
  PROVE  LibraryInv'
<1>1. /\ pc[w] > 0 /\ pc'[w] = 0
      /\ \A v \in Writers : v # w => pc'[v] = pc[v] /\ job'[v] = job[v]
  BY Finishing
<1>2. /\ archive' \in {archive, [archive EXCEPT ![job[w].path] = NoText]}
      /\ UNCHANGED <<file, snapshot, chain, landed, crossed>>
  BY DEF Unlink
<1>3. \A p \in Paths : archive'[p] \in {NoText, archive[p]}
  BY <1>2 DEF TypeOK
<1>4. Archived' /\ LandedInChain'
  BY <1>2, <1>3 DEF LibraryInv, Archived, LandedInChain
<1>5. ~ (pc'[w] > 0)
  BY <1>1
<1>6. Confined(w) /\ NothingLost
  <2>1. job[w].path \in Touched(job[w])
    BY DEF Touched
  <2>2. \A p \in Paths : p # job[w].path => archive'[p] = archive[p]
    BY <1>2 DEF TypeOK
  <2> QED
    BY <1>2, <2>1, <2>2 DEF Confined, NothingLost
<1> QED
  BY <1>1, <1>2, <1>4, <1>5, <1>6, HistoryStays, OthersWork

LEMMA StepKeepsInv ==
  ASSUME TypeOK, LibraryInv, [Next]_vars
  PROVE  TypeOK' /\ LibraryInv'
<1>1. CASE UNCHANGED vars
  <2>1. UNCHANGED <<file, archive, snapshot, chain, job, pc, landed, crossed>>
    BY <1>1 DEF vars
  <2>2. TypeOK'
    BY <2>1 DEF TypeOK
  <2>3. LibraryInv'
    BY <2>1, Idle
  <2> QED
    BY <2>2, <2>3
<1>2. ASSUME NEW w \in Writers, PlanSomething(w)
      PROVE  TypeOK' /\ LibraryInv'
  <2>1. /\ TypeOK' /\ UNCHANGED <<file, archive, snapshot, chain, landed, crossed>> /\ pc' = pc
        /\ job[w] = NoJob /\ \A v \in Writers : v # w => job'[v] = job[v]
    BY <1>2, PlanKeepsTypes
  <2>2. \A v \in Writers : pc'[v] > 0 => pc'[v] = pc[v] /\ job'[v] = job[v]
    BY <2>1, Busy
  <2> QED
    BY <2>1, <2>2, Idle
<1>3. ASSUME NEW w \in Writers, Apply(w)
      PROVE  TypeOK' /\ LibraryInv'
  BY <1>3, ApplyKeepsTypes, ApplyKeepsInv
<1>4. ASSUME NEW w \in Writers, GiveUp(w) \/ Crash(w)
      PROVE  TypeOK' /\ LibraryInv'
  <2>1. /\ TypeOK' /\ UNCHANGED <<file, archive, snapshot, chain, landed, crossed>>
        /\ pc'[w] = 0
        /\ \A v \in Writers : v # w => job'[v] = job[v] /\ pc'[v] = pc[v]
    BY <1>4, DropKeepsTypes
  <2>2. \A v \in Writers : pc'[v] > 0 => pc'[v] = pc[v] /\ job'[v] = job[v]
    BY <2>1
  <2> QED
    BY <2>1, <2>2, Idle
<1>5. ASSUME NEW w \in Writers, WriteSnapshot(w)
      PROVE  TypeOK' /\ LibraryInv'
  BY <1>5, SnapshotKeepsTypes, SnapshotKeepsInv
<1>6. ASSUME NEW w \in Writers, AppendChain(w)
      PROVE  TypeOK' /\ LibraryInv'
  BY <1>6, ChainKeepsTypes, ChainKeepsInv
<1>7. ASSUME NEW w \in Writers,
             CopyMoved(w) \/ CopyRetired(w) \/ Land(w) \/ Unlink(w)
      PROVE  TypeOK' /\ LibraryInv'
  BY <1>7, FinishKeepsTypes, CopyMovedKeepsInv, CopyRetiredKeepsInv,
     LandKeepsInv, UnlinkKeepsInv
<1> QED
  BY <1>1, <1>2, <1>3, <1>4, <1>5, <1>6, <1>7 DEF Next

LEMMA Invariance == Spec => [](TypeOK /\ LibraryInv)
<1>1. Init => TypeOK /\ LibraryInv
  BY InitInv
<1>2. TypeOK /\ LibraryInv /\ [Next]_vars => (TypeOK /\ LibraryInv)'
  BY StepKeepsInv
<1> QED
  BY <1>1, <1>2, PTL DEF Spec

(* Every variable keeps its type, in particular every line of a chain has a *)
(* number a snapshot can have, however the applies overlap.                 *)
THEOREM LibraryTypeOK == Spec => []TypeOK
<1>1. Spec => [](TypeOK /\ LibraryInv)
  BY Invariance
<1> QED
  BY <1>1, PTL

(* Every line of a revision chain names a snapshot with the text whose hash *)
(* it gives, wherever applies were interrupted (annotate.py:236-252); of    *)
(* the pages this leaves out, two applies have met on each.                 *)
THEOREM ChainIsTrue == Spec => []ChainTellsTruth
<1>1. Spec => [](TypeOK /\ LibraryInv)
  BY Invariance
<1>2. LibraryInv => ChainTellsTruth
  BY DEF LibraryInv
<1> QED
  BY <1>1, <1>2, PTL

-----------------------------------------------------------------------------
(* Nobody overwrites what the plan did not see.                            *)

(* What a writer that is about to land replaces.                           *)
LEMMA AboutToLand ==
  ASSUME TypeOK, LibraryInv, NEW w \in Writers, Land(w)
  PROVE  LET j == job[w]
         IN /\ j.path \in Paths /\ file[j.path] # NoText
            /\ j.path \notin crossed => file[j.path] = j.old
            /\ j.old \in Texts /\ j.new \in Texts
            /\ j.entry \in DOMAIN chain[j.path]
            /\ chain[j.path][j.entry].verb = j.verb
            /\ chain[j.path][j.entry].before = j.old
            /\ j.verb # "restore" => j.old = j.saw
            /\ j.verb = "restore" /\ j.path \notin crossed =>
                 j.saw = archive[j.path] /\ j.old.status = "retired"
            /\ j.verb = "move" => /\ j.arg \in Paths /\ j.arg # j.path
                                  /\ chain[j.path][j.entry].to = j.arg
                                  /\ j.arg \notin crossed => file[j.arg] = j.saw
            /\ j.verb = "retire" /\ j.path \notin crossed => archive[j.path] = j.saw
            /\ pc'[w] # pc[w]
            /\ file' = [file EXCEPT ![j.path] = j.new]
            /\ landed' = [landed EXCEPT ![j.path] = j.entry]
            /\ UNCHANGED <<archive, snapshot, chain, crossed>>
<1> DEFINE j == job[w]
<1>1. /\ pc[w] > 0 /\ pc[w] = LandsAt(j.verb)
      /\ j.verb = "restore" => pc[w] = 3 /\ pc'[w] = 4
      /\ j.verb # "restore" => pc'[w] = 0
  BY Finishing
<1>2. /\ Working(w) /\ j.verb \in Verbs /\ j.path \in Paths
      /\ j.old \in Texts /\ j.new \in Texts
      /\ j.verb = "move" => j.arg \in Paths
  BY <1>1, Doing
<1>3. /\ LandsAt(j.verb) \in {3, 4}
      /\ j.verb \in {"move", "retire"} => LandsAt(j.verb) = 4
  BY <1>2, Places DEF LandsAt
<1> HIDE DEF j
<1>4. /\ pc[w] \in {3, 4}
      /\ j.verb \in {"move", "retire"} => pc[w] = 4
  BY <1>1, <1>3
<1>5. /\ j.entry \in DOMAIN chain[j.path]
      /\ chain[j.path][j.entry].verb = j.verb
      /\ chain[j.path][j.entry].before = j.old
      /\ j.verb = "move" => chain[j.path][j.entry].to = j.arg
  BY <1>2, <1>4 DEF Working, Recorded, j
<1>6. /\ file[j.path] # NoText
      /\ j.path \notin crossed => file[j.path] = j.old
      /\ j.verb = "restore" /\ j.path \notin crossed =>
           j.saw = archive[j.path] /\ j.old.status = "retired"
  BY <1>1, <1>2, <1>4 DEF Working, Present, Untouched, Landing, j
<1>7. /\ j.verb # "restore" => j.old = j.saw
      /\ j.verb = "move" => j.arg # j.path
  BY <1>2 DEF Working, Planned, j
<1>8. /\ j.verb = "move" /\ j.arg \notin crossed => file[j.arg] = j.saw
      /\ j.verb = "retire" /\ j.path \notin crossed => archive[j.path] = j.saw
  BY <1>2, <1>4 DEF Working, Copied, j
<1>9. pc'[w] # pc[w]
  BY <1>1, <1>4
<1>10. /\ file' = [file EXCEPT ![j.path] = j.new]
      /\ landed' = [landed EXCEPT ![j.path] = j.entry]
      /\ UNCHANGED <<archive, snapshot, chain, crossed>>
  BY DEF Land, j
<1> QED
  BY <1>2, <1>5, <1>6, <1>7, <1>8, <1>9, <1>10 DEF j

(* What a writer that is about to copy a page finds at its new path.       *)
LEMMA AboutToCopy ==
  ASSUME TypeOK, LibraryInv, NEW w \in Writers, CopyMoved(w)
  PROVE  LET j == job[w]
         IN /\ j.arg \in Paths /\ j.saw \in Texts /\ (j.arg \notin crossed => file[j.arg] = NoText)
            /\ pc'[w] # pc[w]
            /\ file' = [file EXCEPT ![j.arg] = j.saw]
            /\ landed' = [landed EXCEPT ![j.arg] = 0]
            /\ UNCHANGED <<archive, snapshot, chain, crossed>>
<1>1. job[w].verb = "move" /\ pc[w] = 3 /\ pc'[w] = 4
  BY Finishing
<1>2. Working(w) /\ job[w].arg \in Paths /\ job[w].saw \in Texts
  BY <1>1, Doing
<1>3. job[w].arg \notin crossed => file[job[w].arg] = NoText
  BY <1>1, <1>2 DEF Working, Copied
<1> QED
  BY <1>1, <1>2, <1>3 DEF CopyMoved

(* Every step that changes a file is one of these two.                     *)
LEMMA FileChanges ==
  ASSUME Next, file' # file
  PROVE  \E w \in Writers : CopyMoved(w) \/ Land(w)
<1>1. PICK w \in Writers :
        \/ PlanSomething(w) \/ Apply(w) \/ GiveUp(w)
        \/ WriteSnapshot(w) \/ AppendChain(w)
        \/ CopyMoved(w) \/ CopyRetired(w) \/ Land(w) \/ Unlink(w)
        \/ Crash(w)
  BY DEF Next
<1>2. ~ PlanSomething(w)
  BY Zenon DEF PlanSomething, Plan
<1>3. ~ Apply(w) /\ ~ GiveUp(w) /\ ~ Crash(w)
  BY DEF Apply, GiveUp, Crash
<1>4. ~ WriteSnapshot(w) /\ ~ AppendChain(w) /\ ~ CopyRetired(w) /\ ~ Unlink(w)
  BY DEF WriteSnapshot, AppendChain, CopyRetired, Unlink
<1> QED
  BY <1>1, <1>2, <1>3, <1>4

(* A text is replaced only by the apply of a plan made on that very text   *)
(* (annotate.py:20-21, "stale_token"), a restore covers nothing but a      *)
(* retired page, and a move nothing at all.                                *)
THEOREM PlannedOnWhatItReplaces == Spec => LandsOnWhatWasPlanned
<1> DEFINE Replaces(w, p) ==
             LET j == job[w]
             IN /\ pc'[w] # pc[w]
                /\ \/ At(w, "copy") /\ j.arg = p /\ file[p] = NoText
                   \/ At(w, "land") /\ j.path = p /\ j.verb # "restore" /\ file[p] = j.saw
                   \/ /\ At(w, "land") /\ j.path = p /\ j.verb = "restore"
                      /\ archive[p] = j.saw
                      /\ StatusOf(file[p]) \in {"absent", "retired"}
           Planful == \A p \in Paths \ crossed : file'[p] # file[p] => \E w \in Writers : Replaces(w, p)
<1>1. ASSUME TypeOK, LibraryInv, [Next]_vars
      PROVE  [Planful]_vars
  <2>1. SUFFICES ASSUME Next, NEW p \in Paths \ crossed, file'[p] # file[p]
                 PROVE  \E w \in Writers : Replaces(w, p)
    BY <1>1
  <2>2. PICK w \in Writers : CopyMoved(w) \/ Land(w)
    BY <2>1, FileChanges
  <2>3. CASE CopyMoved(w)
    <3>1. job[w].arg = p
      BY <1>1, <2>1, <2>3, AboutToCopy DEF TypeOK
    <3>2. At(w, "copy")
      BY <2>3 DEF CopyMoved
    <3> QED
      BY <1>1, <2>3, <3>1, <3>2, AboutToCopy
  <2>4. CASE Land(w)
    <3>1. job[w].path = p
      BY <1>1, <2>1, <2>4, AboutToLand DEF TypeOK
    <3>2. At(w, "land") /\ pc'[w] # pc[w] /\ file[p] = job[w].old
      BY <1>1, <2>4, <3>1, AboutToLand DEF Land
    <3>3. CASE job[w].verb # "restore"
      <4>1. file[p] = job[w].saw
        BY <1>1, <2>4, <3>2, <3>3, AboutToLand
      <4> QED
        BY <3>1, <3>2, <3>3, <4>1
    <3>4. CASE job[w].verb = "restore"
      <4>1. archive[p] = job[w].saw /\ file[p].status = "retired" /\ file[p] \in Texts
        BY <1>1, <2>4, <3>1, <3>2, <3>4, AboutToLand
      <4>2. StatusOf(file[p]) \in {"absent", "retired"}
        BY <4>1 DEF StatusOf
      <4> QED
        BY <3>1, <3>2, <3>4, <4>1, <4>2
    <3> QED
      BY <3>3, <3>4
  <2> QED
    BY <2>2, <2>3, <2>4
<1>2. Spec => [](TypeOK /\ LibraryInv)
  BY Invariance
<1>3. TypeOK /\ LibraryInv /\ [Next]_vars => [Planful]_vars
  BY <1>1
<1>4. Spec => [][Planful]_vars
  BY <1>2, <1>3, PTL DEF Spec
<1> QED
  BY <1>4 DEF LandsOnWhatWasPlanned

-----------------------------------------------------------------------------
(* What is kept is kept for good.                                          *)

LEMMA KeptByNumber ==
  ASSUME TypeOK, LibraryInv, NEW p \in Paths \ crossed
  PROVE  /\ Kept(p) = {snapshot[p][i] : i \in DOMAIN chain[p]}
         /\ \A i \in DOMAIN chain[p] : chain[p][i].before \in Kept(p)
<1>1. \A i \in DOMAIN chain[p] :
        chain[p][i].number = i /\ snapshot[p][chain[p][i].number] = chain[p][i].before
  BY DEF LibraryInv, Lined, ChainTellsTruth
<1> QED
  BY <1>1 DEF Kept

(* Which steps touch the history at all.                                   *)
LEMMA HistoryChanges ==
  ASSUME [Next]_vars
  PROVE  \/ UNCHANGED <<snapshot, chain>>
         \/ \E w \in Writers : WriteSnapshot(w) \/ AppendChain(w)
<1>1. CASE UNCHANGED vars
  BY <1>1 DEF vars
<1>2. CASE Next
  <2>1. PICK w \in Writers :
          \/ PlanSomething(w) \/ Apply(w) \/ GiveUp(w)
          \/ WriteSnapshot(w) \/ AppendChain(w)
          \/ CopyMoved(w) \/ CopyRetired(w) \/ Land(w) \/ Unlink(w)
          \/ Crash(w)
    BY <1>2 DEF Next
  <2>2. PlanSomething(w) => UNCHANGED <<snapshot, chain>>
    BY Zenon DEF PlanSomething, Plan
  <2>3. Apply(w) \/ GiveUp(w) \/ Crash(w) => UNCHANGED <<snapshot, chain>>
    BY DEF Apply, GiveUp, Crash
  <2>4. CopyMoved(w) \/ CopyRetired(w) \/ Land(w) \/ Unlink(w) => UNCHANGED <<snapshot, chain>>
    BY DEF CopyMoved, CopyRetired, Land, Unlink
  <2> QED
    BY <2>1, <2>2, <2>3, <2>4
<1> QED
  BY <1>1, <1>2

(* A snapshot alone is no history, and disturbs none.                      *)
LEMMA SnapshotKeepsHistory ==
  ASSUME TypeOK, LibraryInv, NEW w \in Writers, WriteSnapshot(w)
  PROVE  /\ chain' = chain /\ crossed' = crossed /\ job[w].path \in Paths
         /\ \A p \in Paths : p # job[w].path \/ p \notin crossed => Kept(p)' = Kept(p)
<1>1. /\ TypeOK' /\ LibraryInv' /\ UNCHANGED <<chain, crossed>>
      /\ pc[w] = 1
  BY SnapshotKeepsTypes, SnapshotKeepsInv
<1>2. job[w].path \in Paths
  BY <1>1, Doing
<1>3. \A p \in Paths : p # job[w].path => snapshot'[p] = snapshot[p]
  BY DEF WriteSnapshot, TypeOK
<1>4. \A p \in Paths : p # job[w].path => Kept(p)' = Kept(p)
  BY <1>1, <1>3 DEF Kept
<1>5. ASSUME NEW p \in Paths \ crossed
      PROVE  Kept(p)' = Kept(p)
  <2>1. \A i \in DOMAIN chain[p] :
          chain[p][i].number = i /\ snapshot[p][i] = chain[p][i].before
    BY DEF LibraryInv, Lined, ChainTellsTruth
  <2>2. \A i \in DOMAIN chain[p] : snapshot'[p][i] = chain[p][i].before
    BY <1>1, <2>1 DEF LibraryInv, Lined, ChainTellsTruth
  <2> QED
    BY <1>1, <2>1, <2>2 DEF Kept
<1> QED
  BY <1>1, <1>2, <1>4, <1>5

(* A line of the chain makes history of the text it records.               *)
LEMMA ChainMakesHistory ==
  ASSUME TypeOK, LibraryInv, NEW w \in Writers, AppendChain(w)
  PROVE  /\ job[w].path \in Paths /\ file[job[w].path] # NoText /\ crossed' = crossed
         /\ \A p \in Paths :
              /\ p = job[w].path /\ p \notin crossed => Kept(p)' = Kept(p) \cup {file[p]}
              /\ p # job[w].path => Kept(p)' = Kept(p)
         /\ \A p \in Paths : \A i \in DOMAIN chain[p] :
              i \in DOMAIN chain'[p] /\ chain'[p][i] = chain[p][i]
<1>1. /\ TypeOK' /\ LibraryInv' /\ UNCHANGED <<file, archive, snapshot, landed, crossed>>
      /\ pc[w] = 2
  BY ChainKeepsTypes, ChainKeepsInv
<1>2. /\ Working(w) /\ job[w].verb \in Verbs
      /\ job[w].path \in Paths /\ job[w].old \in Texts
  BY <1>1, Doing
<1>3. PICK q \in Paths : q = job[w].path
  BY <1>2
<1>4. PICK l \in Nat : l = Len(chain[q])
  <2>1. chain[q] \in Seq(Entries)
    BY DEF TypeOK
  <2> QED
    BY <2>1, LenProperties
<1>5. PICK e : e = [verb |-> job[w].verb,
                    to |-> IF job[w].verb = "move" THEN job[w].arg ELSE NoPath,
                    before |-> job[w].old, after |-> job[w].new,
                    number |-> job[w].number]
  OBVIOUS
<1>6. /\ DOMAIN chain[q] = 1 .. l /\ DOMAIN chain'[q] = 1 .. l + 1
      /\ chain'[q][l + 1] = e
      /\ \A i \in 1 .. l : chain'[q][i] = chain[q][i]
      /\ \A p \in Paths : p # q => chain'[p] = chain[p]
  BY <1>3, <1>4, <1>5, Grown, Zenon
<1>7. e.before = job[w].old
  BY <1>5
<1>8. file[q] # NoText
  BY <1>2, <1>3 DEF Working, Present
<1>9. ASSUME q \notin crossed
      PROVE  Kept(q)' = Kept(q) \cup {file[q]}
  <2>1. file[q] = job[w].old
    <3>1. LandsAt(job[w].verb) \in {3, 4}
      BY <1>2, Places
    <3> QED
      BY <1>1, <1>2, <1>3, <1>9, <3>1 DEF Working, Untouched, Landing
  <2>2. Kept(q) = {snapshot[q][i] : i \in 1 .. l}
    BY <1>6, <1>9, KeptByNumber
  <2>3. \A i \in 1 .. l + 1 :
          chain'[q][i].number = i /\ snapshot[q][i] = chain'[q][i].before
    BY <1>1, <1>6, <1>9 DEF LibraryInv, Lined, ChainTellsTruth
  <2>4. Kept(q)' = {snapshot[q][i] : i \in 1 .. l + 1}
    <3>1. Kept(q)' = {snapshot[q][chain'[q][i].number] : i \in 1 .. l + 1}
      BY <1>1, <1>6 DEF Kept
    <3> QED
      BY <2>3, <3>1
  <2>5. snapshot[q][l + 1] = file[q] /\ 1 .. l + 1 = (1 .. l) \cup {l + 1}
    BY <1>6, <1>7, <2>1, <2>3
  <2> QED
    BY <2>2, <2>4, <2>5
<1>10. \A p \in Paths : p # q => Kept(p)' = Kept(p)
  BY <1>1, <1>6 DEF Kept
<1>11. \A p \in Paths : \A i \in DOMAIN chain[p] :
         i \in DOMAIN chain'[p] /\ chain'[p][i] = chain[p][i]
  <2>1. \A i \in 1 .. l : i \in 1 .. l + 1
    OBVIOUS
  <2> QED
    BY <1>6, <2>1
<1> QED
  BY <1>1, <1>3, <1>8, <1>9, <1>10, <1>11

LEMMA HistoryGrows ==
  ASSUME TypeOK, LibraryInv, [Next]_vars, NEW p \in Paths
  PROVE  /\ p \notin crossed => Kept(p) \subseteq Kept(p)'
         /\ \A i \in DOMAIN chain[p] : i \in DOMAIN chain'[p] /\ chain'[p][i] = chain[p][i]
<1>1. CASE UNCHANGED <<snapshot, chain>>
  BY <1>1 DEF Kept
<1>2. ASSUME NEW w \in Writers, WriteSnapshot(w)
      PROVE  /\ p \notin crossed => Kept(p) \subseteq Kept(p)'
             /\ \A i \in DOMAIN chain[p] : i \in DOMAIN chain'[p] /\ chain'[p][i] = chain[p][i]
  BY <1>2, SnapshotKeepsHistory
<1>3. ASSUME NEW w \in Writers, AppendChain(w)
      PROVE  /\ p \notin crossed => Kept(p) \subseteq Kept(p)'
             /\ \A i \in DOMAIN chain[p] : i \in DOMAIN chain'[p] /\ chain'[p][i] = chain[p][i]
  <2>1. CASE p = job[w].path
    BY <1>3, <2>1, ChainMakesHistory
  <2>2. CASE p # job[w].path
    BY <1>3, <2>2, ChainMakesHistory
  <2> QED
    BY <2>1, <2>2
<1> QED
  BY <1>1, <1>2, <1>3, HistoryChanges

(* Pages on which applies have met stay crossed; only a beginning apply     *)
(* adds to them, and nothing else then changes.                             *)
LEMMA CrossedGrows ==
  ASSUME [Next]_vars
  PROVE  /\ crossed \subseteq crossed'
         /\ crossed' # crossed => UNCHANGED <<file, archive, snapshot, chain, landed>>
<1>1. CASE UNCHANGED vars
  BY <1>1 DEF vars
<1>2. CASE Next
  <2>1. PICK w \in Writers :
          \/ PlanSomething(w) \/ Apply(w) \/ GiveUp(w)
          \/ WriteSnapshot(w) \/ AppendChain(w)
          \/ CopyMoved(w) \/ CopyRetired(w) \/ Land(w) \/ Unlink(w)
          \/ Crash(w)
    BY <1>2 DEF Next
  <2>2. PlanSomething(w) => UNCHANGED crossed
    BY Zenon DEF PlanSomething, Plan
  <2>3. Apply(w) => /\ crossed' = crossed \cup Meeting(w)
                    /\ UNCHANGED <<file, archive, snapshot, chain, landed>>
    BY DEF Apply
  <2>4. GiveUp(w) \/ Crash(w) \/ WriteSnapshot(w) \/ AppendChain(w) => UNCHANGED crossed
    BY DEF GiveUp, Crash, WriteSnapshot, AppendChain
  <2>5. CopyMoved(w) \/ CopyRetired(w) \/ Land(w) \/ Unlink(w) => UNCHANGED crossed
    BY DEF CopyMoved, CopyRetired, Land, Unlink
  <2> QED
    BY <2>1, <2>2, <2>3, <2>4, <2>5
<1> QED
  BY <1>1, <1>2

(* What a page's history says of the text it has is still said.            *)
LEMMA SameLanded ==
  ASSUME TypeOK, LibraryInv, [Next]_vars, NEW p \in Paths,
         landed'[p] = landed[p], landed[p] # 0
  PROVE  /\ LastLanded(p)' = LastLanded(p) /\ LastLanded(p) \in Entries
         /\ LastLanded(p).verb = "move" => LastLanded(p).to \in Paths
<1>1. landed[p] \in Nat /\ landed[p] <= Len(chain[p]) /\ chain[p] \in Seq(Entries)
  BY DEF TypeOK, LibraryInv, LandedInChain
<1>2. landed[p] \in DOMAIN chain[p] /\ chain[p][landed[p]] \in Entries
  BY <1>1
<1>3. chain'[p][landed[p]] = chain[p][landed[p]]
  BY <1>2, HistoryGrows
<1>4. chain[p][landed[p]].verb = "move" => chain[p][landed[p]].to \in Paths
  BY <1>2 DEF LibraryInv, Lined
<1> QED
  BY <1>2, <1>3, <1>4 DEF LastLanded

(* The archive and what has landed change at the end of an apply.          *)
LEMMA PlacesChange ==
  ASSUME [Next]_vars, ~ UNCHANGED <<archive, landed>>
  PROVE  \E w \in Writers : CopyMoved(w) \/ CopyRetired(w) \/ Land(w) \/ Unlink(w)
<1>1. Next
  BY DEF vars
<1>2. PICK w \in Writers :
        \/ PlanSomething(w) \/ Apply(w) \/ GiveUp(w)
        \/ WriteSnapshot(w) \/ AppendChain(w)
        \/ CopyMoved(w) \/ CopyRetired(w) \/ Land(w) \/ Unlink(w)
        \/ Crash(w)
  BY <1>1 DEF Next
<1>3. ~ PlanSomething(w)
  BY Zenon DEF PlanSomething, Plan
<1>4. ~ Apply(w) /\ ~ GiveUp(w) /\ ~ Crash(w)
  BY DEF Apply, GiveUp, Crash
<1>5. ~ WriteSnapshot(w) /\ ~ AppendChain(w)
  BY DEF WriteSnapshot, AppendChain
<1> QED
  BY <1>2, <1>3, <1>4, <1>5

(* What replaces a text leaves it in the history of the page.              *)
LEMMA Superseded ==
  ASSUME TypeOK, LibraryInv, NEW w \in Writers, Land(w), job[w].path \notin crossed
  PROVE  file[job[w].path] \in Kept(job[w].path)
<1>1. /\ job[w].path \in Paths /\ file[job[w].path] = job[w].old
      /\ job[w].entry \in DOMAIN chain[job[w].path]
      /\ chain[job[w].path][job[w].entry].before = job[w].old
  BY AboutToLand
<1> QED
  BY <1>1, KeptByNumber

(* A text that is on a page or in its history stays there.                 *)
LEMMA StaysThere ==
  ASSUME TypeOK, LibraryInv, [Next]_vars,
         NEW p, NEW t \in Texts, t \in Kept(p) \cup {file[p]}, p \in Paths \ crossed
  PROVE  t \in Kept(p)' \cup {file'[p]}
<1>1. CASE t \in Kept(p) \/ file'[p] = file[p]
  BY <1>1, HistoryGrows
<1>2. CASE t = file[p] /\ file'[p] # file[p]
  <2>1. PICK w \in Writers : CopyMoved(w) \/ Land(w)
    <3>1. Next /\ file' # file
      BY <1>2 DEF vars
    <3> QED
      BY <3>1, FileChanges
  <2>2. CASE CopyMoved(w)
    <3>1. p = job[w].arg
      BY <1>2, <2>2, AboutToCopy DEF TypeOK
    <3>2. file[p] = NoText
      BY <2>2, <3>1, AboutToCopy
    <3> QED
      BY <1>2, <3>2, LibraryAssumption
  <2>3. CASE Land(w)
    <3>1. p = job[w].path
      BY <1>2, <2>3, AboutToLand DEF TypeOK
    <3>2. t \in Kept(p)
      BY <1>2, <2>3, <3>1, Superseded
    <3> QED
      BY <3>2, HistoryGrows
  <2> QED
    BY <2>1, <2>2, <2>3
<1> QED
  BY <1>1, <1>2

(* A retired page can be restored as long as its tombstone stands          *)
(* (maintain.py:14), also when the restore was broken off.                 *)
THEOREM RetiredIsArchived == Spec => []RetiredComesBack
<1>1. Init => RetiredComesBack
  BY DEF Init, RetiredComesBack
<1>2. ASSUME TypeOK, LibraryInv, RetiredComesBack, [Next]_vars
      PROVE  RetiredComesBack'
  <2> SUFFICES ASSUME NEW p \in Paths, p \notin crossed',
                      landed'[p] # 0, LastLanded(p)'.verb = "retire"
               PROVE  archive'[p] = LastLanded(p)'.before
    BY DEF RetiredComesBack
  <2> p \notin crossed
    BY <1>2, CrossedGrows
  <2>1. CASE landed'[p] = landed[p] /\ archive'[p] = archive[p]
    BY <1>2, <2>1, SameLanded DEF RetiredComesBack
  <2>2. CASE ~ (landed'[p] = landed[p] /\ archive'[p] = archive[p])
    <3>1. PICK w \in Writers : CopyMoved(w) \/ CopyRetired(w) \/ Land(w) \/ Unlink(w)
      BY <1>2, <2>2, PlacesChange
    <3>2. CASE CopyMoved(w)
      <4>1. landed' = [landed EXCEPT ![job[w].arg] = 0] /\ archive' = archive
        BY <1>2, <3>2, AboutToCopy
      <4>2. landed'[p] \in {0, landed[p]}
        BY <1>2, <4>1 DEF TypeOK
      <4> QED
        BY <2>2, <4>1, <4>2
    <3>3. CASE CopyRetired(w)
      <4>1. job[w].verb = "retire" /\ pc[w] = 3 /\ pc[w] > 0
        BY <1>2, <3>3, Finishing
      <4>2. archive' = [archive EXCEPT ![job[w].path] = job[w].saw] /\ landed' = landed
        BY <3>3 DEF CopyRetired
      <4>3. p = job[w].path
        BY <1>2, <2>2, <4>2 DEF TypeOK
      <4>4. archive[p] = NoText
        BY <1>2, <4>1, <4>3, Doing DEF Working, Copied
      <4>5. LastLanded(p)' = LastLanded(p) /\ LastLanded(p) \in Entries
        BY <1>2, <4>2, SameLanded
      <4>6. LastLanded(p).before # NoText
        BY <4>5, LibraryAssumption DEF Entries
      <4>7. archive[p] = LastLanded(p).before
        BY <1>2, <4>2, <4>5 DEF RetiredComesBack
      <4> QED
        BY <4>4, <4>6, <4>7
    <3>4. CASE Land(w)
      <4>1. /\ landed' = [landed EXCEPT ![job[w].path] = job[w].entry]
            /\ UNCHANGED <<archive, snapshot, chain>>
        BY <1>2, <3>4, AboutToLand
      <4>2. p = job[w].path /\ landed'[p] = job[w].entry
        BY <1>2, <2>2, <4>1 DEF TypeOK
      <4>3. LastLanded(p)' = chain[p][job[w].entry]
        BY <4>1, <4>2 DEF LastLanded
      <4>4. chain[p][job[w].entry].verb = job[w].verb /\ chain[p][job[w].entry].before = job[w].old
        BY <1>2, <3>4, <4>2, AboutToLand
      <4>5. job[w].verb = "retire"
        BY <4>3, <4>4
      <4>6. archive[p] = job[w].saw /\ job[w].old = job[w].saw
        BY <1>2, <3>4, <4>2, <4>5, AboutToLand
      <4> QED
        BY <4>1, <4>3, <4>4, <4>6
    <3>5. CASE Unlink(w)
      <4>1. job[w].verb = "restore" /\ pc[w] = 4 /\ pc[w] > 0
        BY <1>2, <3>5, Finishing
      <4>2. /\ archive' \in {archive, [archive EXCEPT ![job[w].path] = NoText]}
            /\ UNCHANGED <<chain, landed>>
        BY <3>5 DEF Unlink
      <4>3. p = job[w].path
        BY <1>2, <2>2, <4>2 DEF TypeOK
      <4>4. landed[p] = job[w].entry /\ chain[p][job[w].entry].verb = "restore"
        BY <1>2, <4>1, <4>3, Doing DEF Working, Copied, Recorded
      <4>5. LastLanded(p)' = chain[p][landed[p]]
        BY <4>2 DEF LastLanded
      <4> QED
        BY <4>4, <4>5
    <3> QED
      BY <3>1, <3>2, <3>3, <3>4, <3>5
  <2> QED
    BY <2>1, <2>2
<1>3. Spec => [](TypeOK /\ LibraryInv)
  BY Invariance
<1>4. TypeOK /\ LibraryInv /\ RetiredComesBack /\ [Next]_vars => RetiredComesBack'
  BY <1>2
<1> QED
  BY <1>1, <1>3, <1>4, PTL DEF Spec

(* The text a tombstone of lib.move stands for is at its new path or in    *)
(* the history of that path (maintain.py:219-225).                         *)
THEOREM MovedIsKept == Spec => []MovedIsThere
<1>1. Init => MovedIsThere
  BY DEF Init, MovedIsThere
<1>2. ASSUME TypeOK, LibraryInv, MovedIsThere, [Next]_vars
      PROVE  MovedIsThere'
  <2> SUFFICES ASSUME NEW p \in Paths, NEW last, last = LastLanded(p)',
                      landed'[p] # 0, last.verb = "move", last.to \notin crossed'
               PROVE  last.before \in Kept(last.to)' \cup {file'[last.to]}
    BY DEF MovedIsThere
  <2> last.to \notin crossed
    BY <1>2, CrossedGrows
  <2>1. CASE landed'[p] = landed[p]
    <3>1. last = LastLanded(p) /\ last.before \in Texts /\ last.to \in Paths
      BY <1>2, <2>1, SameLanded DEF Entries
    <3>2. last.before \in Kept(last.to) \cup {file[last.to]}
      BY <1>2, <2>1, <3>1 DEF MovedIsThere
    <3> QED
      BY <1>2, <2>1, <3>1, <3>2, StaysThere
  <2>2. CASE landed'[p] # landed[p]
    <3>1. PICK w \in Writers : CopyMoved(w) \/ CopyRetired(w) \/ Land(w) \/ Unlink(w)
      BY <1>2, <2>2, PlacesChange
    <3>2. Land(w)
      <4>1. ~ CopyRetired(w) /\ ~ Unlink(w)
        BY <2>2 DEF CopyRetired, Unlink
      <4>2. ~ CopyMoved(w)
        <5>1. SUFFICES ASSUME CopyMoved(w) PROVE FALSE
          OBVIOUS
        <5>2. landed' = [landed EXCEPT ![job[w].arg] = 0]
          BY <5>1 DEF CopyMoved
        <5> QED
          BY <1>2, <2>2, <5>2 DEF TypeOK
      <4> QED
        BY <3>1, <4>1, <4>2
    <3>3. /\ landed' = [landed EXCEPT ![job[w].path] = job[w].entry]
          /\ UNCHANGED <<archive, snapshot, chain>>
      BY <1>2, <3>2, AboutToLand
    <3>4. p = job[w].path /\ landed'[p] = job[w].entry
      BY <1>2, <2>2, <3>3 DEF TypeOK
    <3>5. last = chain[p][job[w].entry]
      BY <3>3, <3>4 DEF LastLanded
    <3>6. job[w].verb = "move"
      BY <1>2, <3>2, <3>4, <3>5, AboutToLand
    <3>7. /\ last.to = job[w].arg /\ last.before = job[w].saw
          /\ job[w].arg \in Paths /\ job[w].arg # p /\ file[job[w].arg] = job[w].saw
      BY <1>2, <3>2, <3>4, <3>5, <3>6, AboutToLand
    <3>8. file'[job[w].arg] = job[w].saw
      BY <1>2, <3>2, <3>4, <3>7, AboutToLand DEF TypeOK
    <3> QED
      BY <3>7, <3>8
  <2> QED
    BY <2>1, <2>2
<1>3. Spec => [](TypeOK /\ LibraryInv)
  BY Invariance
<1>4. TypeOK /\ LibraryInv /\ MovedIsThere /\ [Next]_vars => MovedIsThere'
  BY <1>2
<1> QED
  BY <1>1, <1>3, <1>4, PTL DEF Spec

(* The verbs keep a page's history: what a page says is kept before        *)
(* anything replaces it, and is kept for good (maintain.py:212).           *)
THEOREM KeepsHistory == Spec => HistorySpec
<1> DEFINE kept == [p \in Paths |-> Kept(p)]
<1>1. Init => History!Init
  <2>1. SUFFICES ASSUME Init PROVE kept = [p \in Paths |-> {}]
    BY DEF History!Init, Init
  <2>2. \A p \in Paths : DOMAIN chain[p] = {}
    BY <2>1 DEF Init
  <2>3. \A p \in Paths : Kept(p) = {}
    BY <2>2 DEF Kept
  <2> QED
    BY <2>3
<1>2. ASSUME TypeOK, LibraryInv, [Next]_vars
      PROVE  [History!Next]_History!hvars
  <2>1. CASE UNCHANGED vars
    <3>1. file' = file /\ crossed' = crossed /\ \A p \in Paths : Kept(p)' = Kept(p)
      BY <2>1 DEF vars, Kept
    <3>2. kept' = kept
      BY <3>1
    <3> QED
      BY <3>1, <3>2 DEF History!hvars
  <2>2. CASE Next /\ file' # file
    <3>1. PICK w \in Writers : CopyMoved(w) \/ Land(w)
      BY <2>2, FileChanges
    <3>2. UNCHANGED <<snapshot, chain, crossed>>
      BY <3>1 DEF CopyMoved, Land
    <3>3. kept' = kept
      BY <3>2 DEF Kept
    <3>4. CASE CopyMoved(w)
      <4>1. PICK q \in Paths : q = job[w].arg
        BY <1>2, <3>4, AboutToCopy
      <4>2. (q \notin crossed => file[q] = NoText) /\ file' = [file EXCEPT ![q] = job[w].saw] /\ job[w].saw \in Texts
        BY <1>2, <3>4, <4>1, AboutToCopy
      <4>3. file'[q] = job[w].saw
        BY <1>2, <4>2 DEF TypeOK
      <4>4. CASE q \notin crossed
        <5>1. History!Put(q)
          BY <3>2, <3>3, <4>2, <4>3, <4>4, LibraryAssumption DEF History!Put
        <5> QED
          BY <5>1 DEF History!Next
      <4>5. CASE q \in crossed
        <5>1. History!Clash(q)
          BY <3>2, <3>3, <4>2, <4>3, <4>5, LibraryAssumption DEF History!Clash
        <5> QED
          BY <5>1 DEF History!Next
      <4> QED
        BY <4>4, <4>5
    <3>5. CASE Land(w)
      <4>1. PICK q \in Paths : q = job[w].path
        BY <1>2, <3>5, AboutToLand
      <4>2. file' = [file EXCEPT ![q] = job[w].new] /\ job[w].new \in Texts
        BY <1>2, <3>5, <4>1, AboutToLand
      <4>3. file'[q] = job[w].new
        BY <1>2, <4>2 DEF TypeOK
      <4>4. CASE q \notin crossed
        <5>1. file[q] \in kept[q]
          BY <1>2, <3>5, <4>1, <4>4, Superseded
        <5>2. History!Put(q)
          BY <3>2, <3>3, <4>2, <4>3, <4>4, <5>1, LibraryAssumption DEF History!Put
        <5> QED
          BY <5>2 DEF History!Next
      <4>5. CASE q \in crossed
        <5>1. History!Clash(q)
          BY <3>2, <3>3, <4>2, <4>3, <4>5, LibraryAssumption DEF History!Clash
        <5> QED
          BY <5>1 DEF History!Next
      <4> QED
        BY <4>4, <4>5
    <3> QED
      BY <3>1, <3>4, <3>5
  <2>3. CASE file' = file /\ UNCHANGED <<snapshot, chain>>
    <3>1. kept' = kept
      BY <2>3 DEF Kept
    <3>2. crossed \subseteq crossed' /\ crossed' \subseteq Paths
      <4>1. TypeOK'
        BY <1>2, StepKeepsInv
      <4> QED
        BY <1>2, <4>1, CrossedGrows DEF TypeOK
    <3>3. History!Share
      BY <2>3, <3>1, <3>2 DEF History!Share
    <3> QED
      BY <3>3 DEF History!Next
  <2>4. CASE file' = file /\ ~ UNCHANGED <<snapshot, chain>>
    <3>1. PICK w \in Writers : WriteSnapshot(w) \/ AppendChain(w)
      BY <1>2, <2>4, HistoryChanges
    <3>2. CASE WriteSnapshot(w)
      <4>1. PICK q \in Paths : q = job[w].path
        BY <1>2, <3>2, SnapshotKeepsHistory
      <4>2. /\ crossed' = crossed
            /\ \A p \in Paths : p # q \/ p \notin crossed => Kept(p)' = Kept(p)
        BY <1>2, <3>2, <4>1, SnapshotKeepsHistory
      <4>3. CASE q \notin crossed
        <5>1. kept' = kept
          BY <4>2, <4>3
        <5> QED
          BY <2>4, <4>2, <5>1 DEF History!hvars
      <4>4. CASE q \in crossed
        <5>1. kept' = [kept EXCEPT ![q] = kept'[q]]
          BY <4>2
        <5>2. file' = [file EXCEPT ![q] = file'[q]]
          BY <1>2, <2>4 DEF TypeOK
        <5>3. History!Clash(q)
          BY <2>4, <4>2, <4>4, <5>1, <5>2 DEF History!Clash
        <5> QED
          BY <5>3 DEF History!Next
      <4> QED
        BY <4>3, <4>4
    <3>3. CASE AppendChain(w)
      <4>1. PICK q \in Paths : q = job[w].path
        BY <1>2, <3>3, ChainMakesHistory
      <4>2. /\ file[q] # NoText /\ crossed' = crossed
            /\ q \notin crossed => Kept(q)' = Kept(q) \cup {file[q]}
            /\ \A p \in Paths : p # q => Kept(p)' = Kept(p)
        BY <1>2, <3>3, <4>1, ChainMakesHistory
      <4>3. CASE q \notin crossed
        <5>1. kept' = [kept EXCEPT ![q] = @ \cup {file[q]}]
          BY <4>2, <4>3
        <5>2. History!Keep(q)
          BY <2>4, <4>2, <4>3, <5>1 DEF History!Keep
        <5> QED
          BY <5>2 DEF History!Next
      <4>4. CASE q \in crossed
        <5>1. kept' = [kept EXCEPT ![q] = kept'[q]]
          BY <4>2
        <5>2. file' = [file EXCEPT ![q] = file'[q]]
          BY <1>2, <2>4 DEF TypeOK
        <5>3. History!Clash(q)
          BY <2>4, <4>2, <4>4, <5>1, <5>2 DEF History!Clash
        <5> QED
          BY <5>3 DEF History!Next
      <4> QED
        BY <4>3, <4>4
    <3> QED
      BY <3>1, <3>2, <3>3
  <2> QED
    BY <1>2, <2>1, <2>2, <2>3, <2>4
<1>3. Spec => [](TypeOK /\ LibraryInv)
  BY Invariance
<1>4. TypeOK /\ LibraryInv /\ [Next]_vars => [History!Next]_History!hvars
  BY <1>2
<1> QED
  BY <1>1, <1>3, <1>4, PTL DEF Spec, HistorySpec, History!Spec

=============================================================================
