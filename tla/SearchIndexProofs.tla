-------------------------- MODULE SearchIndexProofs --------------------------
(***************************************************************************)
(* The safety properties of SearchIndex, for any pages and builders and    *)
(* any number of changes and failures.                                     *)
(*                                                                         *)
(* What an incremental build reuses depends on rows that other builds made *)
(* and corrections changed, so the invariant says the same of every row    *)
(* there is, in the live table and in those being built: it was stored     *)
(* under the stamp of its text, and only its frontmatter has been brought  *)
(* forward since, never beyond the page's.  For a build that nobody has    *)
(* disturbed it says at each stage what its table lacks.                   *)
(***************************************************************************)
EXTENDS SearchIndex, TLAPS

(* A row of p, wherever it is kept.                                        *)
RowOK(p, r) ==
  /\ r.body = r.stamp.body
  /\ r.stamp.meta <= r.meta
  /\ r.meta <= changes + 1
  /\ Exists(p) => r.meta <= file[p].meta

(* No page is newer than the last change, and what a correction is about   *)
(* to write was the page's frontmatter at some time.                       *)
PagesOK == \A p \in Pages : file[p].meta <= changes + 1

SyncsOK ==
  \A s \in syncs : s.meta <= changes + 1 /\ (Exists(s.page) => s.meta <= file[s.page].meta)

RowsOK ==
  \A p \in Pages \ slipped :
    RowOK(p, index[p]) /\ \A b \in Builders : RowOK(p, table[b][p])

(* What the index should say of p, and whether a build need not read it.   *)
Right(p) == IF Exists(p) THEN RowOf(file[p], file[p]) ELSE NoRow
Kept(p)  == Exists(p) /\ Unchanged(p)

(* A build that has been alone since its walk.                             *)
QuietOK(b) ==
  /\ at[b] # "idle"
  /\ at[b] = "compare" => /\ fresh[b] = {p \in Pages : Exists(p)}
                          /\ \A p \in Pages : table[b][p] = NoRow
  /\ at[b] = "copy" => /\ fresh[b] = {p \in Pages : Exists(p) /\ ~ Kept(p)}
                       /\ stale[b] = {p \in Pages : index[p] # NoRow /\ ~ Kept(p)}
  /\ at[b] = "read" => now[b] = {}
  /\ at[b] = "stat" => \A p \in now[b] : /\ Exists(p) /\ text[b] = file[p]
                                        /\ p \notin fresh[b] /\ now[b] = {p}
  /\ at[b] \in {"read", "stat"} =>
       /\ \A p \in fresh[b] \cup now[b] : Exists(p) /\ table[b][p] = NoRow
       /\ \A p \in Pages \ slipped :
            p \notin fresh[b] \cup now[b] => table[b][p] = Right(p)

(* Only between its two looks is a build at a page.                        *)
NowOK == \A b \in Builders : at[b] # "stat" => now[b] = {}

IndexInv ==
  /\ TypeOK /\ PagesOK /\ SyncsOK /\ RowsOK /\ NowOK
  /\ \A b \in quiet : QuietOK(b)

-----------------------------------------------------------------------------
(* Versions, rows and changes.                                             *)

LEMMA Types ==
  /\ NoPage \in Version /\ First \in Version
  /\ NoRow \in Row
  /\ NoRow.body = 0 /\ NoRow.meta = 0 /\ NoRow.stamp = NoPage
  /\ NoPage.body = 0 /\ NoPage.meta = 0
  /\ \A v, w \in Version : /\ RowOf(v, w) \in Row
                           /\ RowOf(v, w).body = v.body
                           /\ RowOf(v, w).meta = v.meta
                           /\ RowOf(v, w).stamp = w
                           /\ w # NoPage => RowOf(v, w) # NoRow
<1>1. MaxChanges \in Nat
  BY IndexAssumption
<1>2. NoPage \in Version /\ First \in Version
  BY <1>1 DEF NoPage, First, Version, Numbers
<1>3. NoRow \in Row
  BY <1>1, <1>2 DEF NoRow, Row, Numbers
<1>4. ASSUME NEW v \in Version, NEW w \in Version
      PROVE  /\ RowOf(v, w) \in Row
             /\ RowOf(v, w).body = v.body
             /\ RowOf(v, w).meta = v.meta
             /\ RowOf(v, w).stamp = w
             /\ w # NoPage => RowOf(v, w) # NoRow
  <2>1. v.body \in Numbers /\ v.meta \in Numbers
    BY DEF Version
  <2> QED BY <2>1 DEF RowOf, Row, NoRow
<1> QED BY <1>2, <1>3, <1>4 DEF NoRow, NoPage

(* A row is its fields.                                                    *)
LEMMA RowFields ==
  ASSUME NEW r \in Row, NEW v \in Version,
         r.body = v.body, r.meta = v.meta, r.stamp = v
  PROVE  r = RowOf(v, v)
BY DEF Row, RowOf

(* An edit writes one version of one page: nothing, or something that is   *)
(* not older in its frontmatter.                                           *)
Newer(p, v) ==
  /\ v.meta <= changes + 2
  /\ v = NoPage \/ (Exists(p) /\ file[p].meta <= v.meta) \/ v.meta = changes + 2

LEMMA EditIsChange ==
  ASSUME TypeOK, PagesOK, Edits
  PROVE  \E p \in Pages, v \in Version :
           /\ Change(p, v) /\ Newer(p, v)
           /\ syncs' = syncs \/ \E verb \in Verbs : Sync(p, verb)
<1>0. PICK p \in Pages : Annotate(p) \/ Edit(p) \/ Revert(p) \/ Retire(p) \/ Put(p) \/ Delete(p)
  BY IndexAssumption DEF Edits
<1>1. /\ file[p] \in Version /\ file[p].body \in Numbers /\ file[p].meta \in Numbers
      /\ file[p].meta <= changes + 1
      /\ changes \in Nat /\ MaxChanges \in Nat
  BY IndexAssumption DEF TypeOK, PagesOK, Version, Numbers
<1>2. changes < MaxChanges => Fresh \in Numbers
  BY <1>1 DEF Fresh, Numbers
<1>3. \A x : Change(p, x) => changes < MaxChanges
  BY DEF Change
<1>4. ASSUME Annotate(p) PROVE \E v \in Version : Change(p, v) /\ Newer(p, v) /\ Sync(p, "meta")
  <2> DEFINE v == [file[p] EXCEPT !.meta = Fresh]
  <2>1. Change(p, v) /\ Sync(p, "meta") /\ Exists(p)
    BY <1>4 DEF Annotate
  <2>2. v \in Version /\ v.meta = changes + 2
    BY <2>1, <1>1, <1>2, <1>3 DEF Version, Fresh
  <2>3. Newer(p, v)
    BY <2>2, <1>1 DEF Newer
  <2> QED BY <2>1, <2>2, <2>3
<1>5. ASSUME Edit(p) PROVE \E v \in Version : Change(p, v) /\ Newer(p, v) /\ Sync(p, "meta")
  <2> DEFINE v == [file[p] EXCEPT !.body = Fresh]
  <2>1. Change(p, v) /\ Sync(p, "meta") /\ Exists(p)
    BY <1>5 DEF Edit
  <2>2. v \in Version /\ v.meta = file[p].meta
    BY <2>1, <1>1, <1>2, <1>3 DEF Version
  <2>3. Newer(p, v)
    BY <2>1, <2>2, <1>1 DEF Newer, Numbers
  <2> QED BY <2>1, <2>2, <2>3
<1>6. ASSUME Change(p, [body |-> Fresh, meta |-> Fresh])
      PROVE  \E v \in Version : Change(p, v) /\ Newer(p, v)
  <2> DEFINE v == [body |-> Fresh, meta |-> Fresh]
  <2>1. v \in Version /\ v.meta = changes + 2
    BY <1>6, <1>1, <1>2, <1>3 DEF Version, Fresh
  <2>2. Newer(p, v)
    BY <2>1, <1>1 DEF Newer
  <2> QED BY <1>6, <2>1, <2>2
<1>7. ASSUME Delete(p) PROVE \E v \in Version : Change(p, v) /\ Newer(p, v)
  <2>1. Change(p, NoPage) /\ Newer(p, NoPage)
    BY <1>7, <1>1, Types DEF Delete, Newer
  <2> QED BY <2>1, Types
<1>8. {"meta", "remove"} \subseteq Verbs
  BY DEF Verbs
<1>9. Revert(p) => Change(p, [body |-> Fresh, meta |-> Fresh]) /\ Sync(p, "meta")
  BY DEF Revert
<1>10. Retire(p) => Change(p, [body |-> Fresh, meta |-> Fresh]) /\ Sync(p, "remove")
  BY DEF Retire
<1>11. Put(p) => Change(p, [body |-> Fresh, meta |-> Fresh]) /\ syncs' = syncs
  BY DEF Put
<1>12. Delete(p) => syncs' = syncs
  BY DEF Delete
<1> QED BY <1>0, <1>4, <1>5, <1>6, <1>7, <1>8, <1>9, <1>10, <1>11, <1>12

(* What was not newer than a page is not newer than it becomes.            *)
LEMMA ChangeMovesOn ==
  ASSUME TypeOK, NEW p \in Pages, NEW v \in Version, Change(p, v), Newer(p, v),
         NEW q \in Pages, NEW m \in Nat,
         m <= changes + 1, Exists(q) => m <= file[q].meta
  PROVE  /\ m <= changes' + 1
         /\ Exists(q)' => m <= file'[q].meta
<1>1. /\ changes \in Nat /\ changes' = changes + 1
      /\ file'[q] = IF q = p THEN v ELSE file[q]
  BY DEF TypeOK, Change
<1>2. v.meta \in Nat /\ file[p].meta \in Nat
  BY DEF TypeOK, Version, Numbers
<1>3. CASE q = p
  BY <1>1, <1>2, <1>3 DEF Newer, Exists
<1>4. CASE q # p
  BY <1>1, <1>4 DEF Exists
<1> QED BY <1>3, <1>4

-----------------------------------------------------------------------------
(* Types.                                                                  *)

LEMMA InitTypeOK == Init => TypeOK
<1> SUFFICES ASSUME Init PROVE TypeOK
  OBVIOUS
<1>1. MaxChanges \in Nat /\ MaxFailures \in Nat
  BY IndexAssumption
<1>2. RowOf(First, First) \in Row /\ First \in Version /\ NoPage \in Version /\ NoRow \in Row
  BY Types
<1>3. /\ file \in [Pages -> Version] /\ index \in [Pages -> Row]
      /\ text \in [Builders -> Version] /\ table \in [Builders -> [Pages -> Row]]
  BY <1>2 DEF Init
<1>4. /\ syncs = {} /\ changes = 0 /\ failures = 0 /\ quiet = {} /\ slipped = {}
      /\ at \in [Builders -> Stages]
      /\ fresh \in [Builders -> SUBSET Pages] /\ stale \in [Builders -> SUBSET Pages]
      /\ now \in [Builders -> SUBSET Pages]
  BY DEF Init, Stages
<1> QED BY <1>1, <1>3, <1>4 DEF TypeOK

LEMMA EditTypeOK == TypeOK /\ PagesOK /\ Edits => TypeOK'
<1> SUFFICES ASSUME TypeOK, PagesOK, Edits PROVE TypeOK'
  OBVIOUS
<1>1. PICK p \in Pages, v \in Version :
        /\ Change(p, v) /\ Newer(p, v)
        /\ syncs' = syncs \/ \E verb \in Verbs : Sync(p, verb)
  BY EditIsChange
<1>2. syncs' \subseteq [page : Pages, verb : Verbs, meta : Numbers]
  <2>1. 0 \in Numbers
    BY IndexAssumption DEF Numbers
  <2> QED BY <1>1, <2>1 DEF Sync, TypeOK
<1>3. changes' \in 0 .. MaxChanges
  BY <1>1, IndexAssumption DEF Change, TypeOK
<1>4. file' \in [Pages -> Version] /\ quiet' = {}
  BY <1>1 DEF Change, TypeOK
<1>5. UNCHANGED <<index, at, fresh, stale, now, text, table, failures, slipped>>
  BY <1>1 DEF Change, build
<1> QED BY <1>2, <1>3, <1>4, <1>5 DEF TypeOK

LEMMA CorrectTypeOK ==
  ASSUME TypeOK, NEW s \in syncs, Correct(s)
  PROVE  TypeOK'
<1>1. /\ s \in [page : Pages, verb : Verbs, meta : Numbers]
      /\ s.page \in Pages /\ s.meta \in Numbers
  BY DEF TypeOK
<1>2. CASE ReadMeta(s)
  <2>1. file[s.page].meta \in Numbers /\ "write" \in Verbs
    BY <1>1 DEF TypeOK, Version, Verbs
  <2>2. syncs' \subseteq [page : Pages, verb : Verbs, meta : Numbers]
    BY <1>1, <1>2, <2>1 DEF ReadMeta, TypeOK
  <2>3. UNCHANGED <<file, index, at, fresh, stale, now, text, table, changes, failures, quiet, slipped>>
    BY <1>2 DEF ReadMeta, build, history
  <2> QED BY <2>2, <2>3 DEF TypeOK
<1>3. CASE WriteMeta(s)
  <2>1. Corrected(index[s.page], s.page, s.meta) \in Row
    <3>1. index[s.page] \in Row
      BY <1>1 DEF TypeOK
    <3> QED BY <1>1, <3>1 DEF Corrected, Row
  <2>2. /\ syncs' \subseteq syncs /\ slipped' \subseteq slipped \cup {s.page}
        /\ quiet' \subseteq quiet
        /\ index' = index \/ index' = [index EXCEPT ![s.page] = Corrected(index[s.page], s.page, s.meta)]
        /\ UNCHANGED <<file, at, fresh, stale, now, text, table, changes, failures>>
    BY <1>3 DEF WriteMeta, build
  <2>3. index' \in [Pages -> Row]
    BY <2>1, <2>2 DEF TypeOK
  <2> QED BY <1>1, <2>2, <2>3 DEF TypeOK
<1>4. CASE RemoveRow(s)
  <2>1. index' \in [Pages -> Row]
    BY <1>4, Types DEF RemoveRow, TypeOK
  <2>2. /\ syncs' \subseteq syncs /\ quiet' = {}
        /\ UNCHANGED <<file, at, fresh, stale, now, text, table, changes, failures, slipped>>
    BY <1>4 DEF RemoveRow, build
  <2> QED BY <2>1, <2>2 DEF TypeOK
<1> QED BY <1>2, <1>3, <1>4 DEF Correct

LEMMA SyncFailsTypeOK ==
  ASSUME TypeOK, NEW s \in syncs, SyncFails(s)
  PROVE  TypeOK'
<1>1. failures' \in 0 .. MaxFailures
  BY IndexAssumption DEF SyncFails, Fail, TypeOK
<1>2. /\ syncs' \subseteq syncs
      /\ UNCHANGED <<file, index, at, fresh, stale, now, text, table, changes, quiet, slipped>>
  BY DEF SyncFails, build
<1> QED BY <1>1, <1>2 DEF TypeOK

(* What a build holds when it is over.                                     *)
LEMMA AbandonTypeOK ==
  ASSUME TypeOK, NEW b \in Builders, Abandon(b)
  PROVE  /\ at' \in [Builders -> Stages]
         /\ fresh' \in [Builders -> SUBSET Pages] /\ stale' \in [Builders -> SUBSET Pages]
         /\ now' \in [Builders -> SUBSET Pages]
         /\ text' \in [Builders -> Version] /\ table' \in [Builders -> [Pages -> Row]]
<1>1. [p \in Pages |-> NoRow] \in [Pages -> Row]
  BY Types
<1>2. table' \in [Builders -> [Pages -> Row]]
  BY <1>1 DEF Abandon, TypeOK
<1>3. text' \in [Builders -> Version]
  BY Types DEF Abandon, TypeOK
<1> QED BY <1>2, <1>3 DEF Abandon, TypeOK, Stages

LEMMA BuildTypeOK ==
  ASSUME TypeOK, NEW b \in Builders, Build(b) \/ BuildFails(b)
  PROVE  TypeOK'
<1> DEFINE empty == [p \in Pages |-> NoRow]
<1>0. empty \in [Pages -> Row] /\ {"compare", "read", "copy", "stat"} \subseteq Stages
  BY Types DEF Stages
<1> HIDE DEF empty
<1>1. ASSUME NEW incremental \in BOOLEAN, Walk(b, incremental) PROVE TypeOK'
  <2>1. table' \in [Builders -> [Pages -> Row]]
    BY <1>0, <1>1 DEF Walk, TypeOK, empty
  <2>2. at' \in [Builders -> Stages]
    BY <1>0, <1>1 DEF Walk, GoTo, TypeOK
  <2>3. fresh' \in [Builders -> SUBSET Pages] /\ quiet' \subseteq Builders
    BY <1>1 DEF Walk, TypeOK
  <2>4. UNCHANGED <<file, index, syncs, stale, now, text, changes, failures, slipped>>
    BY <1>1 DEF Walk
  <2> QED BY <2>1, <2>2, <2>3, <2>4 DEF TypeOK
<1>2. ASSUME CompareNothing(b) PROVE TypeOK'
  <2>1. at' \in [Builders -> Stages]
    BY <1>0, <1>2 DEF CompareNothing, GoTo, TypeOK
  <2>2. UNCHANGED <<file, index, syncs, fresh, stale, now, text, table, changes, failures, quiet, slipped>>
    BY <1>2 DEF CompareNothing, history
  <2> QED BY <2>1, <2>2 DEF TypeOK
<1>3. ASSUME Compare(b) PROVE TypeOK'
  <2> DEFINE found == {p \in fresh[b] : Exists(p)}
             new   == {p \in found : ~ Unchanged(p)}
             left  == {p \in new : HasRow(p)} \cup Gone(found)
  <2>1. new \subseteq Pages /\ left \subseteq Pages
    BY DEF TypeOK, Gone
  <2>2. fresh' = [fresh EXCEPT ![b] = new] /\ stale' = [stale EXCEPT ![b] = left]
    BY <1>3 DEF Compare
  <2> HIDE DEF new, left
  <2>3. fresh' \in [Builders -> SUBSET Pages] /\ stale' \in [Builders -> SUBSET Pages]
    BY <2>1, <2>2 DEF TypeOK
  <2>4. at' \in [Builders -> Stages]
    BY <1>0, <1>3 DEF Compare, GoTo, TypeOK
  <2>5. UNCHANGED <<file, index, syncs, now, text, table, changes, failures, quiet, slipped>>
    BY <1>3 DEF Compare, history
  <2> QED BY <2>3, <2>4, <2>5 DEF TypeOK
<1>4. ASSUME Copy(b) PROVE TypeOK'
  <2> DEFINE copied == [p \in Pages |-> IF p \in stale[b] THEN NoRow ELSE index[p]]
  <2>1. copied \in [Pages -> Row]
    BY Types DEF TypeOK
  <2>2. table' = [table EXCEPT ![b] = copied]
    BY <1>4 DEF Copy
  <2> HIDE DEF copied
  <2>3. table' \in [Builders -> [Pages -> Row]]
    BY <2>1, <2>2 DEF TypeOK
  <2>4. at' \in [Builders -> Stages] /\ stale' \in [Builders -> SUBSET Pages]
    BY <1>0, <1>4 DEF Copy, GoTo, TypeOK
  <2>5. UNCHANGED <<file, index, syncs, fresh, now, text, changes, failures, quiet, slipped>>
    BY <1>4 DEF Copy, history
  <2> QED BY <2>3, <2>4, <2>5 DEF TypeOK
<1>5. ASSUME NEW p \in Pages, Read(b, p) PROVE TypeOK'
  <2>1. fresh' \in [Builders -> SUBSET Pages]
    BY <1>5 DEF Read, TypeOK
  <2>2. at' \in [Builders -> Stages] /\ now' \in [Builders -> SUBSET Pages] /\ text' \in [Builders -> Version]
    <3>1. CASE Exists(p)
      <4>1. /\ now' = [now EXCEPT ![b] = {p}]
            /\ text' = [text EXCEPT ![b] = file[p]]
            /\ at' = [at EXCEPT ![b] = "stat"]
        BY <1>5, <3>1 DEF Read, GoTo
      <4>2. file[p] \in Version /\ {p} \in SUBSET Pages
        BY DEF TypeOK
      <4>3. at' \in [Builders -> Stages]
        BY <1>0, <4>1 DEF TypeOK
      <4>4. now' \in [Builders -> SUBSET Pages]
        BY <4>1, <4>2 DEF TypeOK
      <4>5. text' \in [Builders -> Version]
        BY <4>1, <4>2 DEF TypeOK
      <4> QED BY <4>3, <4>4, <4>5
    <3>2. CASE ~ Exists(p)
      BY <1>5, <3>2 DEF Read, TypeOK
    <3> QED BY <3>1, <3>2
  <2>3. UNCHANGED <<file, index, syncs, stale, table, changes, failures, quiet, slipped>>
    BY <1>5 DEF Read, history
  <2> QED BY <2>1, <2>2, <2>3 DEF TypeOK
<1>6. ASSUME NEW p \in Pages, Stat(b, p) PROVE TypeOK'
  <2>1. UNCHANGED <<file, index, syncs, changes, failures>>
    BY <1>6 DEF Stat
  <2>2. CASE Exists(p) /\ table[b][p] # NoRow
    <3>1. Abandon(b) /\ quiet' \subseteq quiet /\ slipped' = slipped
      BY <1>6, <2>2 DEF Stat
    <3> QED BY <2>1, <3>1, AbandonTypeOK DEF TypeOK
  <2>3. CASE ~ (Exists(p) /\ table[b][p] # NoRow)
    <3>1. /\ table' = table \/ table' = [table EXCEPT ![b][p] = RowOf(text[b], file[p])]
          /\ slipped' \subseteq slipped \cup {p}
          /\ now' = [now EXCEPT ![b] = {}]
          /\ text' = [text EXCEPT ![b] = NoPage]
          /\ at' = [at EXCEPT ![b] = "read"]
          /\ UNCHANGED <<fresh, stale, quiet>>
      BY <1>6, <2>3 DEF Stat, GoTo
    <3>2. RowOf(text[b], file[p]) \in Row
      <4>1. text[b] \in Version /\ file[p] \in Version
        BY DEF TypeOK
      <4> QED BY <4>1, Types
    <3>3. table' \in [Builders -> [Pages -> Row]]
      <4>1. CASE table' = table
        BY <4>1 DEF TypeOK
      <4>2. CASE table' = [table EXCEPT ![b][p] = RowOf(text[b], file[p])]
        <5> DEFINE row  == RowOf(text[b], file[p])
                   rows == [table[b] EXCEPT ![p] = row]
        <5>1. row \in Row /\ table[b] \in [Pages -> Row]
          BY <3>2 DEF TypeOK
        <5>2. table' = [table EXCEPT ![b] = rows]
          BY <4>2
        <5> HIDE DEF row
        <5>3. rows \in [Pages -> Row]
          BY <5>1
        <5> HIDE DEF rows
        <5> QED BY <5>2, <5>3 DEF TypeOK
      <4> QED BY <3>1, <4>1, <4>2
    <3>4. text' \in [Builders -> Version] /\ now' \in [Builders -> SUBSET Pages] /\ at' \in [Builders -> Stages]
      BY <3>1, <1>0, Types DEF TypeOK
    <3> QED BY <2>1, <3>1, <3>3, <3>4 DEF TypeOK
  <2> QED BY <2>2, <2>3
<1>7. ASSUME Replace(b) PROVE TypeOK'
  <2>1. /\ index' = table[b] /\ quiet' = {} /\ Abandon(b)
        /\ UNCHANGED <<file, syncs, changes, failures, slipped>>
    BY <1>7 DEF Replace
  <2> QED BY <2>1, AbandonTypeOK DEF TypeOK
<1>8. ASSUME BuildFails(b) PROVE TypeOK'
  <2>1. failures' \in 0 .. MaxFailures
    BY <1>8, IndexAssumption DEF BuildFails, Fail, TypeOK
  <2>2. /\ Abandon(b) /\ quiet' \subseteq quiet
        /\ UNCHANGED <<file, index, syncs, changes, slipped>>
    BY <1>8 DEF BuildFails
  <2> QED BY <2>1, <2>2, AbandonTypeOK DEF TypeOK
<1> QED BY <1>1, <1>2, <1>3, <1>4, <1>5, <1>6, <1>7, <1>8 DEF Build

LEMMA NextTypeOK == TypeOK /\ PagesOK /\ [Next]_vars => TypeOK'
<1> SUFFICES ASSUME TypeOK, PagesOK, [Next]_vars PROVE TypeOK'
  OBVIOUS
<1>1. CASE UNCHANGED vars
  BY <1>1 DEF vars, build, history, TypeOK
<1> QED BY <1>1, EditTypeOK, CorrectTypeOK, SyncFailsTypeOK, BuildTypeOK DEF Next, Corrections

-----------------------------------------------------------------------------
(* Pages, corrections and rows.                                            *)

LEMMA TypedRows ==
  ASSUME TypeOK, NEW r \in Row
  PROVE  r.body \in Nat /\ r.meta \in Nat /\ r.stamp \in Version /\ r.stamp.meta \in Nat
BY DEF Row, Version, Numbers

LEMMA EditKeepsRows == TypeOK /\ PagesOK /\ SyncsOK /\ RowsOK /\ Edits => (PagesOK /\ SyncsOK /\ RowsOK)'
<1> SUFFICES ASSUME TypeOK, PagesOK, SyncsOK, RowsOK, Edits PROVE (PagesOK /\ SyncsOK /\ RowsOK)'
  OBVIOUS
<1>1. PICK p \in Pages, v \in Version :
        /\ Change(p, v) /\ Newer(p, v)
        /\ syncs' = syncs \/ \E verb \in Verbs : Sync(p, verb)
  BY EditIsChange
<1>2. /\ changes \in Nat /\ changes' = changes + 1
      /\ \A q \in Pages : file'[q] = IF q = p THEN v ELSE file[q]
      /\ v.meta \in Nat /\ v.meta <= changes + 2
      /\ \A q \in Pages : file[q].meta \in Nat
  BY <1>1 DEF TypeOK, Change, Newer, Version, Numbers
<1>3. UNCHANGED <<index, table, slipped>>
  BY <1>1 DEF Change, build
<1>4. PagesOK'
  BY <1>2 DEF PagesOK
<1>5. \A q \in Pages : \A m \in Nat :
        m <= changes + 1 /\ (Exists(q) => m <= file[q].meta)
          => m <= changes' + 1 /\ (Exists(q)' => m <= file'[q].meta)
  BY <1>1, ChangeMovesOn
<1>6. SyncsOK'
  <2> SUFFICES ASSUME NEW s \in syncs'
               PROVE  s.meta <= changes' + 1 /\ (Exists(s.page)' => s.meta <= file'[s.page].meta)
    BY DEF SyncsOK, Exists
  <2>1. CASE s \in syncs
    <3>1. s.page \in Pages /\ s.meta \in Nat
      BY <2>1 DEF TypeOK, Numbers
    <3> QED BY <2>1, <3>1, <1>5 DEF SyncsOK
  <2>2. CASE s \notin syncs
    <3>1. s.page = p /\ s.meta = 0
      BY <1>1, <2>2 DEF Sync
    <3> QED BY <3>1, <1>2
  <2> QED BY <2>1, <2>2
<1>7. ASSUME NEW q \in Pages, NEW r \in Row, RowOK(q, r)
      PROVE  /\ r.body = r.stamp.body /\ r.stamp.meta <= r.meta
             /\ r.meta <= changes' + 1
             /\ Exists(q)' => r.meta <= file'[q].meta
  <2>1. r.meta \in Nat
    BY TypedRows
  <2> QED BY <1>7, <2>1, <1>5 DEF RowOK
<1>8. RowsOK'
  <2> SUFFICES ASSUME NEW q \in Pages \ slipped
               PROVE  RowOK(q, index[q])' /\ \A b \in Builders : RowOK(q, table[b][q])'
    BY <1>3 DEF RowsOK
  <2>1. index[q] \in Row /\ \A b \in Builders : table[b][q] \in Row
    BY DEF TypeOK
  <2>2. RowOK(q, index[q]) /\ \A b \in Builders : RowOK(q, table[b][q])
    BY DEF RowsOK
  <2>3. RowOK(q, index[q])'
    BY <1>3, <1>7, <2>1, <2>2 DEF RowOK, Exists
  <2>4. ASSUME NEW b \in Builders PROVE RowOK(q, table[b][q])'
    BY <1>3, <1>7, <2>1, <2>2 DEF RowOK, Exists
  <2> QED BY <2>3, <2>4
<1> QED BY <1>4, <1>6, <1>8

(* A step that leaves the pages alone need only be watched for the rows it *)
(* makes.                                                                  *)
LEMMA RowsStay ==
  ASSUME TypeOK, PagesOK, RowsOK, UNCHANGED <<file, changes>>, slipped \subseteq slipped',
         \A p \in Pages \ slipped' :
           /\ index'[p] = index[p] \/ RowOK(p, index'[p])
           /\ \A b \in Builders : table'[b][p] = table[b][p] \/ RowOK(p, table'[b][p])
  PROVE  (PagesOK /\ RowsOK)'
<1>1. PagesOK'
  BY DEF PagesOK
<1>2. ASSUME NEW p \in Pages \ slipped'
      PROVE  RowOK(p, index[p])' /\ \A b \in Builders : RowOK(p, table[b][p])'
  <2>1. RowOK(p, index'[p])
    BY <1>2 DEF RowsOK
  <2>2. \A b \in Builders : RowOK(p, table'[b][p])
    BY <1>2 DEF RowsOK
  <2> QED BY <2>1, <2>2 DEF RowOK, Exists
<1> QED BY <1>1, <1>2 DEF RowsOK

LEMMA EmptyRowOK == ASSUME TypeOK, NEW p \in Pages PROVE RowOK(p, NoRow)
<1>1. changes \in Nat /\ file[p].meta \in Nat
  BY DEF TypeOK, Version, Numbers
<1> QED BY <1>1, Types DEF RowOK

LEMMA CorrectKeepsRows ==
  ASSUME TypeOK, PagesOK, SyncsOK, RowsOK, NEW s \in syncs, Correct(s) \/ SyncFails(s)
  PROVE  (PagesOK /\ SyncsOK /\ RowsOK)'
<1>1. s.page \in Pages /\ s.meta \in Nat
  BY DEF TypeOK, Numbers
<1>2. CASE ReadMeta(s)
  <2>1. UNCHANGED <<file, index, table, changes, slipped>>
    BY <1>2 DEF ReadMeta, build, history
  <2>2. (PagesOK /\ RowsOK)'
    BY <2>1, RowsStay
  <2>3. file[s.page].meta <= changes + 1 /\ file[s.page].meta \in Nat
    BY <1>1 DEF PagesOK, TypeOK, Version, Numbers
  <2>4. SyncsOK'
    BY <1>2, <2>1, <2>3 DEF SyncsOK, ReadMeta, Exists
  <2> QED BY <2>2, <2>4
<1>3. CASE WriteMeta(s)
  <2> DEFINE row == index[s.page]
  <2>1. UNCHANGED <<file, table, changes>> /\ syncs' \subseteq syncs /\ slipped \subseteq slipped'
    BY <1>3 DEF WriteMeta, build
  <2>2. \A p \in Pages \ {s.page} : index'[p] = index[p]
    BY <1>3, <1>1 DEF WriteMeta, TypeOK
  <2>3. ASSUME s.page \notin slipped' PROVE index'[s.page] = row \/ RowOK(s.page, index'[s.page])
    <3>1. CASE row = NoRow
      BY <1>3, <3>1 DEF WriteMeta
    <3>2. CASE row # NoRow
      <4>1. index'[s.page] = [row EXCEPT !.meta = s.meta]
        BY <1>3, <1>1, <3>2 DEF WriteMeta, Corrected, TypeOK
      <4>2. row \in Row
        BY <1>1 DEF TypeOK
      <4>3. /\ index'[s.page].body = row.body
            /\ index'[s.page].meta = s.meta
            /\ index'[s.page].stamp = row.stamp
        BY <4>1, <4>2 DEF Row
      <4>4. ~ (s.meta < row.stamp.meta) /\ s.page \notin slipped
        BY <1>3, <3>2, <2>3 DEF WriteMeta
      <4>5. RowOK(s.page, row)
        BY <1>1, <4>4 DEF RowsOK
      <4>6. s.meta <= changes + 1 /\ (Exists(s.page) => s.meta <= file[s.page].meta)
        BY DEF SyncsOK
      <4>7. row.stamp.meta <= s.meta
        BY <1>1, <4>2, <4>4, TypedRows
      <4> QED BY <4>3, <4>5, <4>6, <4>7 DEF RowOK
    <3> QED BY <3>1, <3>2
  <2>4. \A p \in Pages \ slipped' : index'[p] = index[p] \/ RowOK(p, index'[p])
    BY <2>2, <2>3
  <2>5. (PagesOK /\ RowsOK)'
    BY <2>1, <2>4, RowsStay
  <2>6. SyncsOK'
    BY <2>1 DEF SyncsOK, Exists
  <2> QED BY <2>5, <2>6
<1>4. CASE RemoveRow(s)
  <2>1. UNCHANGED <<file, table, changes, slipped>> /\ syncs' \subseteq syncs
    BY <1>4 DEF RemoveRow, build
  <2>2. \A p \in Pages : index'[p] = index[p] \/ RowOK(p, index'[p])
    BY <1>4, EmptyRowOK DEF RemoveRow, TypeOK
  <2>3. (PagesOK /\ RowsOK)'
    BY <2>1, <2>2, RowsStay
  <2>4. SyncsOK'
    BY <2>1 DEF SyncsOK, Exists
  <2> QED BY <2>3, <2>4
<1>5. CASE SyncFails(s)
  <2>1. UNCHANGED <<file, index, table, changes, slipped>> /\ syncs' \subseteq syncs
    BY <1>5 DEF SyncFails, build
  <2>2. (PagesOK /\ RowsOK)'
    BY <2>1, RowsStay
  <2>3. SyncsOK'
    BY <2>1 DEF SyncsOK, Exists
  <2> QED BY <2>2, <2>3
<1> QED BY <1>2, <1>3, <1>4, <1>5 DEF Correct

(* What a build puts into its table.                                       *)
LEMMA AbandonEmpties ==
  ASSUME TypeOK, NEW b \in Builders, Abandon(b), NEW c \in Builders, NEW p \in Pages
  PROVE  table'[c][p] = table[c][p] \/ table'[c][p] = NoRow
<1>1. table'[c] = IF c = b THEN [q \in Pages |-> NoRow] ELSE table[c]
  BY DEF Abandon, TypeOK
<1> QED BY <1>1

LEMMA BuildKeepsRows ==
  ASSUME TypeOK, PagesOK, SyncsOK, RowsOK, NEW b \in Builders, Build(b) \/ BuildFails(b)
  PROVE  (PagesOK /\ SyncsOK /\ RowsOK)'
<1>1. UNCHANGED <<file, syncs, changes>> /\ slipped \subseteq slipped'
  <2>1. ASSUME NEW incremental \in BOOLEAN, Walk(b, incremental)
        PROVE  UNCHANGED <<file, syncs, changes, slipped>>
    BY <2>1 DEF Walk
  <2>2. ASSUME CompareNothing(b) \/ Compare(b) \/ Copy(b) \/ \E p \in Pages : Read(b, p)
        PROVE  UNCHANGED <<file, syncs, changes, slipped>>
    BY <2>2 DEF CompareNothing, Compare, Copy, Read, history
  <2>3. ASSUME Replace(b) \/ BuildFails(b)
        PROVE  UNCHANGED <<file, syncs, changes, slipped>>
    BY <2>3 DEF Replace, BuildFails
  <2>4. ASSUME NEW p \in Pages, Stat(b, p)
        PROVE  UNCHANGED <<file, syncs, changes>> /\ slipped \subseteq slipped'
    BY <2>4 DEF Stat
  <2> QED BY <2>1, <2>2, <2>3, <2>4 DEF Build
<1>2. SyncsOK'
  BY <1>1 DEF SyncsOK, Exists
<1>3. \A p \in Pages \ slipped' : index'[p] = index[p] \/ RowOK(p, index'[p])
  <2>1. CASE Replace(b)
    BY <1>1, <2>1 DEF Replace, RowsOK
  <2>2. CASE ~ Replace(b)
    <3>1. index' = index
      BY <2>2 DEF Build, BuildFails, Walk, CompareNothing, Compare, Copy, Read, Stat
    <3> QED BY <3>1
  <2> QED BY <2>1, <2>2
<1>4. ASSUME NEW p \in Pages \ slipped', NEW c \in Builders
      PROVE  table'[c][p] = table[c][p] \/ RowOK(p, table'[c][p])
  <2>1. ASSUME NEW incremental \in BOOLEAN, Walk(b, incremental)
        PROVE  table'[c][p] = table[c][p] \/ table'[c][p] = NoRow
    <3>1. table'[c] = IF c = b THEN [q \in Pages |-> NoRow] ELSE table[c]
      BY <2>1 DEF Walk, TypeOK
    <3> QED BY <3>1
  <2>2. ASSUME CompareNothing(b) \/ Compare(b) \/ \E q \in Pages : Read(b, q)
        PROVE  table'[c][p] = table[c][p]
    BY <2>2 DEF CompareNothing, Compare, Read
  <2>3. ASSUME Copy(b)
        PROVE  table'[c][p] \in {table[c][p], NoRow, index[p]}
    <3>1. table'[c] = IF c = b THEN [q \in Pages |-> IF q \in stale[b] THEN NoRow ELSE index[q]]
                      ELSE table[c]
      BY <2>3 DEF Copy, TypeOK
    <3> QED BY <3>1
  <2>4. ASSUME NEW q \in Pages, Stat(b, q)
        PROVE  table'[c][p] = table[c][p] \/ RowOK(p, table'[c][p])
    <3>1. CASE Exists(q) /\ table[b][q] # NoRow
      BY <2>4, <3>1, AbandonEmpties, EmptyRowOK DEF Stat
    <3>2. CASE ~ (Exists(q) /\ table[b][q] # NoRow)
      <4>1. CASE p = q /\ c = b /\ Exists(q)
        <5>1. table' = [table EXCEPT ![b][q] = RowOf(text[b], file[q])]
          BY <2>4, <3>2, <4>1 DEF Stat
        <5>2. table'[c][p] = RowOf(text[b], file[q])
          BY <4>1, <5>1 DEF TypeOK
        <5>3. text[b] = file[p]
          BY <2>4, <3>2, <4>1 DEF Stat
        <5>4. file[p] \in Version /\ file[p].meta \in Nat /\ changes \in Nat /\ file[p].meta <= changes + 1
          BY DEF TypeOK, Version, Numbers, PagesOK
        <5>5. RowOK(p, RowOf(file[p], file[p]))
          BY <5>4, Types DEF RowOK
        <5> QED BY <4>1, <5>2, <5>3, <5>5
      <4>2. CASE ~ (p = q /\ c = b /\ Exists(q))
        <5>1. table' = table \/ (Exists(q) /\ table' = [table EXCEPT ![b][q] = RowOf(text[b], file[q])])
          BY <2>4, <3>2 DEF Stat
        <5>2. table'[c][p] = table[c][p]
          BY <4>2, <5>1 DEF TypeOK
        <5> QED BY <5>2
      <4> QED BY <4>1, <4>2
    <3> QED BY <3>1, <3>2
  <2>5. ASSUME Replace(b) \/ BuildFails(b)
        PROVE  table'[c][p] = table[c][p] \/ table'[c][p] = NoRow
    BY <2>5, AbandonEmpties DEF Replace, BuildFails
  <2>6. RowOK(p, NoRow) /\ RowOK(p, index[p])
    BY <1>1, EmptyRowOK DEF RowsOK
  <2> QED BY <2>1, <2>2, <2>3, <2>4, <2>5, <2>6 DEF Build
<1>5. (PagesOK /\ RowsOK)'
  BY <1>1, <1>3, <1>4, RowsStay
<1> QED BY <1>2, <1>5

-----------------------------------------------------------------------------
(* Builds that nobody has disturbed.                                       *)

LEMMA QuietStays ==
  ASSUME NEW b \in Builders, QuietOK(b),
         UNCHANGED <<file, index>>, slipped \subseteq slipped',
         at'[b] = at[b], fresh'[b] = fresh[b], stale'[b] = stale[b],
         now'[b] = now[b], text'[b] = text[b], table'[b] = table[b]
  PROVE  QuietOK(b)'
<1>1. /\ \A p : Exists(p)' <=> Exists(p)
      /\ \A p : Kept(p)' <=> Kept(p)
      /\ \A p : Right(p)' = Right(p)
  BY DEF Exists, Kept, Unchanged, Right
<1> QED BY <1>1 DEF QuietOK

(* Edits, and corrections that find a row, end the quiet.                  *)
LEMMA WritersAreLoud ==
  ASSUME TypeOK, \A b \in quiet : QuietOK(b),
         Edits \/ \E s \in syncs : Correct(s) \/ SyncFails(s)
  PROVE  (\A b \in quiet : QuietOK(b))'
<1>1. CASE Edits
  <2>1. quiet' = {}
    BY <1>1 DEF Edits, Annotate, Edit, Revert, Retire, Put, Delete, Change
  <2> QED BY <2>1
<1>2. CASE \E s \in syncs : Correct(s) \/ SyncFails(s)
  <2>1. PICK s \in syncs : Correct(s) \/ SyncFails(s)
    BY <1>2
  <2>2. quiet' = {} \/ UNCHANGED <<file, index, build, quiet, slipped>>
    BY <2>1 DEF Correct, ReadMeta, WriteMeta, RemoveRow, SyncFails, history
  <2>3. CASE quiet' = {}
    BY <2>3
  <2>4. CASE UNCHANGED <<file, index, build, quiet, slipped>>
    <3>1. quiet \subseteq Builders
      BY DEF TypeOK
    <3>2. ASSUME NEW b \in quiet PROVE QuietOK(b)'
      BY <2>4, <3>1, QuietStays DEF build
    <3> QED BY <2>4, <3>2
  <2> QED BY <2>2, <2>3, <2>4
<1> QED BY <1>1, <1>2

(* What one builder does leaves the others as they are, unless it is to    *)
(* put its table in the place of the live one.                             *)
LEMMA OthersStayQuiet ==
  ASSUME TypeOK, NEW b \in Builders, Build(b) \/ BuildFails(b), ~ Replace(b),
         NEW c \in Builders \ {b}, QuietOK(c)
  PROVE  QuietOK(c)'
<1>1. UNCHANGED <<file, index>>
  BY DEF Build, BuildFails, Walk, CompareNothing, Compare, Copy, Read, Stat
<1>2. slipped \subseteq slipped'
  <2>1. ASSUME NEW p \in Pages, Stat(b, p) PROVE slipped \subseteq slipped'
    BY <2>1 DEF Stat
  <2>2. (\E p \in Pages : Stat(b, p)) \/ slipped' = slipped
    BY DEF Build, BuildFails, Walk, CompareNothing, Compare, Copy, Read, Replace, history
  <2> QED BY <2>1, <2>2
<1>3. at'[c] = at[c] /\ fresh'[c] = fresh[c] /\ stale'[c] = stale[c]
  BY DEF TypeOK, Build, BuildFails, Walk, CompareNothing, Compare, Copy, Read, Stat, Abandon, GoTo
<1>4. now'[c] = now[c] /\ text'[c] = text[c]
  BY DEF TypeOK, Build, BuildFails, Walk, CompareNothing, Compare, Copy, Read, Stat, Abandon
<1>5. table'[c] = table[c]
  <2>1. ASSUME NEW p \in Pages, Stat(b, p) PROVE table'[c] = table[c]
    BY <2>1 DEF TypeOK, Stat, Abandon
  <2>2. (\E p \in Pages : Stat(b, p)) \/ table'[c] = table[c]
    BY DEF TypeOK, Build, BuildFails, Walk, CompareNothing, Compare, Copy, Read, Abandon
  <2> QED BY <2>1, <2>2
<1> QED BY <1>1, <1>2, <1>3, <1>4, <1>5, QuietStays

(* The walk finds every page, and starts from an empty table.              *)
LEMMA WalkIsRight ==
  ASSUME TypeOK, NEW b \in Builders, NEW incremental \in BOOLEAN, Walk(b, incremental),
         now[b] = {}
  PROVE  QuietOK(b)'
<1>1. /\ UNCHANGED <<file, index, now, slipped>>
      /\ fresh'[b] = {p \in Pages : Exists(p)}
      /\ table'[b] = [p \in Pages |-> NoRow]
      /\ at'[b] = IF incremental THEN "compare" ELSE "read"
  BY DEF Walk, GoTo, TypeOK
<1>2. \A p : /\ Exists(p)' <=> Exists(p)
             /\ ~ Exists(p) => Right(p)' = NoRow
  BY <1>1 DEF Exists, Right
<1>3. \A p \in Pages : table'[b][p] = NoRow
  BY <1>1
<1> QED BY <1>1, <1>2, <1>3 DEF QuietOK

LEMMA CompareIsRight ==
  ASSUME TypeOK, NEW b \in Builders, CompareNothing(b) \/ Compare(b), QuietOK(b), now[b] = {}
  PROVE  QuietOK(b)'
<1>1. UNCHANGED <<file, index, now, table, slipped>>
  BY DEF CompareNothing, Compare, history
<1>2. /\ at[b] = "compare"
      /\ fresh[b] = {p \in Pages : Exists(p)}
      /\ \A p \in Pages : table[b][p] = NoRow
  BY DEF CompareNothing, Compare, QuietOK
<1>3. \A p : /\ Exists(p)' <=> Exists(p)
             /\ Kept(p)' <=> Kept(p)
             /\ ~ Exists(p) => Right(p)' = NoRow
  BY <1>1 DEF Exists, Kept, Unchanged, Right
<1>4. CASE CompareNothing(b)
  <2>1. at'[b] = "read" /\ fresh'[b] = fresh[b]
    BY <1>4 DEF CompareNothing, GoTo, TypeOK
  <2> QED BY <1>1, <1>2, <1>3, <2>1 DEF QuietOK
<1>5. CASE Compare(b)
  <2>1. /\ at'[b] = "copy"
        /\ fresh'[b] = {p \in {q \in fresh[b] : Exists(q)} : ~ Unchanged(p)}
        /\ stale'[b] = {p \in {q \in {r \in fresh[b] : Exists(r)} : ~ Unchanged(q)} : HasRow(p)}
                         \cup Gone({p \in fresh[b] : Exists(p)})
    BY <1>5 DEF Compare, GoTo, TypeOK
  <2>2. fresh'[b] = {p \in Pages : Exists(p) /\ ~ Kept(p)}
    BY <1>2, <2>1 DEF Kept
  <2>3. stale'[b] = {p \in Pages : index[p] # NoRow /\ ~ Kept(p)}
    BY <1>2, <2>1 DEF Kept, Gone, HasRow
  <2> QED BY <1>1, <1>3, <2>1, <2>2, <2>3 DEF QuietOK
<1> QED BY <1>4, <1>5

(* A row that is kept says what the page says: that is what a stamp is for *)
LEMMA KeptIsRight ==
  ASSUME TypeOK, RowsOK, NEW p \in Pages \ slipped, Kept(p)
  PROVE  index[p] = Right(p)
<1>1. index[p] \in Row /\ file[p] \in Version /\ file[p].meta \in Nat
  BY DEF TypeOK, Version, Numbers
<1>2. Exists(p) /\ index[p].stamp = file[p]
  BY DEF Kept, Unchanged
<1>3. RowOK(p, index[p])
  BY DEF RowsOK
<1>4. index[p].body = file[p].body
  BY <1>2, <1>3 DEF RowOK
<1>5. index[p].meta = file[p].meta
  BY <1>1, <1>2, <1>3, TypedRows DEF RowOK
<1> QED BY <1>1, <1>2, <1>4, <1>5, RowFields DEF Right

LEMMA CopyIsRight ==
  ASSUME TypeOK, RowsOK, NEW b \in Builders, Copy(b), QuietOK(b), now[b] = {}
  PROVE  QuietOK(b)'
<1>1. /\ UNCHANGED <<file, index, fresh, now, slipped>>
      /\ at'[b] = "read"
      /\ \A p \in Pages : table'[b][p] = IF p \in stale[b] THEN NoRow ELSE index[p]
  BY DEF Copy, GoTo, TypeOK, history
<1>2. /\ fresh[b] = {p \in Pages : Exists(p) /\ ~ Kept(p)}
      /\ stale[b] = {p \in Pages : index[p] # NoRow /\ ~ Kept(p)}
  BY DEF Copy, QuietOK
<1>3. \A p : /\ Exists(p)' <=> Exists(p)
             /\ Right(p)' = Right(p)
             /\ ~ Exists(p) => Right(p) = NoRow
  BY <1>1 DEF Exists, Right
<1>4. ASSUME NEW p \in fresh[b] PROVE table'[b][p] = NoRow
  BY <1>1, <1>2
<1>5. ASSUME NEW p \in Pages \ slipped, p \notin fresh[b] PROVE table'[b][p] = Right(p)
  <2>1. CASE Kept(p)
    <3>1. table'[b][p] = index[p]
      BY <1>1, <1>2, <2>1
    <3> QED BY <2>1, <3>1, KeptIsRight
  <2>2. CASE ~ Kept(p)
    <3>1. ~ Exists(p)
      BY <1>2, <1>5, <2>2
    <3> QED BY <1>1, <1>2, <1>3, <2>2, <3>1
  <2> QED BY <2>1, <2>2
<1> QED BY <1>1, <1>2, <1>3, <1>4, <1>5 DEF QuietOK

LEMMA ReadIsRight ==
  ASSUME TypeOK, NEW b \in Builders, NEW p \in Pages, Read(b, p), QuietOK(b)
  PROVE  QuietOK(b)'
<1>1. /\ UNCHANGED <<file, index, table, slipped>>
      /\ fresh'[b] = fresh[b] \ {p}
      /\ p \in fresh[b] /\ at[b] = "read"
  BY DEF Read, TypeOK, history
<1>2. Exists(p) /\ now[b] = {}
  BY <1>1 DEF QuietOK
<1>3. now'[b] = {p} /\ text'[b] = file[p] /\ at'[b] = "stat"
  BY <1>2 DEF Read, GoTo, TypeOK
<1>4. \A q : (Exists(q)' <=> Exists(q)) /\ Right(q)' = Right(q)
  BY <1>1 DEF Exists, Right
<1>5. fresh[b] \cup now[b] = fresh'[b] \cup now'[b]
  BY <1>1, <1>2, <1>3
<1> QED BY <1>1, <1>2, <1>3, <1>4, <1>5 DEF QuietOK

LEMMA StatIsRight ==
  ASSUME TypeOK, NEW b \in Builders, NEW p \in Pages, Stat(b, p), QuietOK(b)
  PROVE  QuietOK(b)'
<1>1. /\ UNCHANGED <<file, index>> /\ at[b] = "stat" /\ p \in now[b]
  BY DEF Stat
<1>2. /\ Exists(p) /\ text[b] = file[p] /\ now[b] = {p} /\ p \notin fresh[b]
      /\ table[b][p] = NoRow
  BY <1>1 DEF QuietOK
<1>3. /\ at'[b] = "read" /\ now'[b] = {} /\ fresh' = fresh /\ slipped' = slipped
      /\ table' = [table EXCEPT ![b][p] = RowOf(text[b], file[p])]
  BY <1>2 DEF Stat, GoTo, TypeOK
<1>4. \A q \in Pages : table'[b][q] = IF q = p THEN Right(p) ELSE table[b][q]
  BY <1>2, <1>3 DEF TypeOK, Right
<1>5. \A q : (Exists(q)' <=> Exists(q)) /\ Right(q)' = Right(q)
  BY <1>1 DEF Exists, Right
<1> QED BY <1>1, <1>2, <1>3, <1>4, <1>5 DEF QuietOK

LEMMA BuildIsRight ==
  ASSUME IndexInv, NEW b \in Builders, Build(b) \/ BuildFails(b)
  PROVE  (\A c \in quiet : QuietOK(c))'
<1>0. TypeOK /\ RowsOK /\ NowOK /\ quiet \subseteq Builders /\ \A c \in quiet : QuietOK(c)
  BY DEF IndexInv, TypeOK
<1>1. CASE Replace(b)
  BY <1>1 DEF Replace
<1>2. CASE ~ Replace(b)
  <2>1. ASSUME NEW c \in quiet, c # b PROVE QuietOK(c)'
    BY <1>0, <1>2, <2>1, OthersStayQuiet
  <2>2. ASSUME NEW incremental \in BOOLEAN, Walk(b, incremental)
        PROVE  quiet' = quiet \cup {b} /\ QuietOK(b)'
    <3>1. now[b] = {}
      BY <1>0, <2>2 DEF Walk, NowOK
    <3>2. quiet' = quiet \cup {b}
      BY <2>2 DEF Walk
    <3> QED BY <1>0, <2>2, <3>1, <3>2, WalkIsRight
  <2>3. ASSUME CompareNothing(b) \/ Compare(b) \/ Copy(b)
        PROVE  quiet' = quiet /\ (b \in quiet => QuietOK(b)')
    <3>1. now[b] = {}
      BY <1>0, <2>3 DEF CompareNothing, Compare, Copy, NowOK
    <3>2. quiet' = quiet
      BY <2>3 DEF CompareNothing, Compare, Copy, history
    <3> QED BY <1>0, <2>3, <3>1, <3>2, CompareIsRight, CopyIsRight
  <2>4. ASSUME NEW p \in Pages, Read(b, p) \/ Stat(b, p)
        PROVE  quiet' \subseteq quiet /\ (b \in quiet => QuietOK(b)')
    <3>1. quiet' \subseteq quiet
      BY <2>4 DEF Read, Stat, history
    <3> QED BY <1>0, <2>4, <3>1, ReadIsRight, StatIsRight
  <2>5. ASSUME BuildFails(b) PROVE quiet' = quiet \ {b}
    BY <2>5 DEF BuildFails
  <2> QED BY <1>2, <2>1, <2>2, <2>3, <2>4, <2>5 DEF Build
<1> QED BY <1>1, <1>2

LEMMA NowStays == NowOK /\ TypeOK /\ [Next]_vars => NowOK'
<1> SUFFICES ASSUME NowOK, TypeOK, [Next]_vars, NEW b \in Builders, at'[b] # "stat"
             PROVE  now'[b] = {}
  BY DEF NowOK
<1>1. CASE UNCHANGED <<at, now>>
  BY <1>1 DEF NowOK
<1>2. ASSUME NEW c \in Builders, Build(c) \/ BuildFails(c) PROVE now'[b] = {}
  BY <1>2 DEF NowOK, TypeOK, Build, BuildFails, Walk, CompareNothing, Compare, Copy, Read, Stat,
              Replace, Abandon, GoTo
<1>3. Edits => UNCHANGED <<at, now>>
  BY DEF Edits, Annotate, Edit, Revert, Retire, Put, Delete, Change, build
<1>4. ASSUME NEW s \in syncs, Correct(s) \/ SyncFails(s) PROVE UNCHANGED <<at, now>>
  BY <1>4 DEF Correct, ReadMeta, WriteMeta, RemoveRow, SyncFails, build
<1>5. UNCHANGED vars => UNCHANGED <<at, now>>
  BY DEF vars, build
<1> QED BY <1>1, <1>2, <1>3, <1>4, <1>5 DEF Next, Corrections

-----------------------------------------------------------------------------
(* The invariant, and what follows.                                        *)

(* A page that is there is not an absent one.                              *)
LEMMA FirstIsThere == First # NoPage
<1>1. First.body # NoPage.body
  BY DEF First, NoPage
<1> QED BY <1>1

LEMMA InitIndexInv == Init => IndexInv
<1> SUFFICES ASSUME Init PROVE IndexInv
  OBVIOUS
<1>1. TypeOK
  BY InitTypeOK
<1>2. changes = 0 /\ syncs = {} /\ quiet = {}
  BY DEF Init
<1>3. \A b \in Builders : now[b] = {} /\ \A p \in Pages : table[b][p] = NoRow
  BY DEF Init
<1>4. First.body = 1 /\ First.meta = 1 /\ NoPage.body = 0 /\ NoPage.meta = 0
  BY DEF First, NoPage
<1>5. \A p \in Pages : file[p] = First \/ file[p] = NoPage
  BY DEF Init
<1>6. \A p \in Pages : file[p] = First => index[p] = RowOf(First, First)
  BY FirstIsThere DEF Init, Exists
<1>7. \A p \in Pages : file[p] = NoPage => index[p] = NoRow
  BY DEF Init, Exists
<1>8. PagesOK
  BY <1>2, <1>4, <1>5 DEF PagesOK
<1>9. SyncsOK /\ NowOK
  BY <1>2, <1>3 DEF SyncsOK, NowOK
<1>10. ASSUME NEW p \in Pages PROVE RowOK(p, index[p])
  <2>1. CASE file[p] = First
    <3>1. index[p] = RowOf(First, First)
      BY <1>6, <2>1
    <3>2. index[p].body = 1 /\ index[p].meta = 1 /\ index[p].stamp = First
      BY <1>4, <3>1, Types
    <3> QED BY <1>2, <1>4, <2>1, <3>2 DEF RowOK
  <2>2. CASE file[p] = NoPage
    BY <1>1, <1>7, <2>2, EmptyRowOK
  <2> QED BY <1>5, <2>1, <2>2
<1>11. RowsOK
  BY <1>1, <1>2, <1>3, <1>10, EmptyRowOK DEF RowsOK
<1> QED BY <1>1, <1>2, <1>8, <1>9, <1>11 DEF IndexInv

LEMMA NextIndexInv == IndexInv /\ [Next]_vars => IndexInv'
<1> SUFFICES ASSUME IndexInv, [Next]_vars PROVE IndexInv'
  OBVIOUS
<1>0. /\ TypeOK /\ PagesOK /\ SyncsOK /\ RowsOK /\ NowOK
      /\ \A b \in quiet : QuietOK(b)
  BY DEF IndexInv
<1>1. TypeOK' /\ NowOK'
  BY <1>0, NextTypeOK, NowStays
<1>2. CASE UNCHANGED vars
  BY <1>0, <1>1, <1>2 DEF vars, build, history, IndexInv, PagesOK, SyncsOK, RowsOK, RowOK,
                          Exists, QuietOK, Right, Kept, Unchanged
<1>3. CASE Edits
  BY <1>0, <1>1, <1>3, EditKeepsRows, WritersAreLoud DEF IndexInv
<1>4. CASE \E s \in syncs : Correct(s) \/ SyncFails(s)
  BY <1>0, <1>1, <1>4, CorrectKeepsRows, WritersAreLoud DEF IndexInv
<1>5. CASE \E b \in Builders : Build(b) \/ BuildFails(b)
  BY <1>0, <1>1, <1>5, BuildKeepsRows, BuildIsRight DEF IndexInv
<1> QED BY <1>2, <1>3, <1>4, <1>5 DEF Next, Corrections

LEMMA Invariance == Spec => []IndexInv
BY InitIndexInv, NextIndexInv, PTL DEF Spec

(* Pages, rows, corrections and the records of the builds stay what they   *)
(* are: no row of the table or of a build lacks a field, whatever failed.  *)
THEOREM TypeCorrect == Spec => []TypeOK
<1>1. IndexInv => TypeOK
  BY DEF IndexInv
<1> QED BY <1>1, Invariance, PTL

(* An unread page whose stamp is that of its row is in the index as it is  *)
(* (_incremental_reuse, indexer.py:371).                                   *)
THEOREM StampIsTrue == Spec => []StampTellsText
<1>1. IndexInv => StampTellsText
  <2> SUFFICES ASSUME IndexInv, NEW p \in Pages \ slipped, Exists(p), index[p].stamp = file[p]
               PROVE  Agrees(p)
    BY DEF StampTellsText
  <2>1. TypeOK /\ RowsOK
    BY DEF IndexInv
  <2>2. index[p] # NoRow
    BY Types DEF Exists
  <2>3. index[p] = Right(p)
    BY <2>1, <2>2, KeptIsRight DEF Kept, Unchanged
  <2> QED BY <2>3 DEF Agrees, Right
<1> QED BY <1>1, Invariance, PTL

(* The table that an undisturbed build puts in the place of the live one   *)
(* agrees with the pages, whatever the live one was like.                  *)
THEOREM QuietBuildIsRight == Spec => QuietBuildAgrees
<1>1. ASSUME IndexInv, [Next]_vars
      PROVE  [\A b \in Builders : Replace(b) /\ b \in quiet =>
                \A p \in Pages \ slipped : Agrees(p)']_vars
  <2> SUFFICES ASSUME NEW b \in Builders, Replace(b), b \in quiet, NEW p \in Pages \ slipped
               PROVE  Agrees(p)'
    OBVIOUS
  <2>1. QuietOK(b) /\ NowOK
    BY <1>1 DEF IndexInv
  <2>2. at[b] = "read" /\ fresh[b] = {} /\ index' = table[b] /\ file' = file
    BY DEF Replace
  <2>3. now[b] = {}
    BY <2>1, <2>2 DEF NowOK
  <2>4. table[b][p] = Right(p)
    BY <2>1, <2>2, <2>3 DEF QuietOK
  <2> QED BY <2>2, <2>4 DEF Agrees, Right, Exists
<1> QED BY <1>1, Invariance, PTL DEF Spec, QuietBuildAgrees
=============================================================================
