---------------------------- MODULE SearchIndex ----------------------------
(***************************************************************************)
(* The search index of the brain library (packages/brain-library,          *)
(* indexer.py): a table with a row per page that is rebuilt now and then   *)
(* by scripts/rebuild-brain-index.sh, and corrected row by row by the      *)
(* library gateway (mcp_server.py) after its own writes.                   *)
(*                                                                         *)
(* No lock keeps builds, corrections and edits apart, and pages are edited *)
(* by hand too.  An incremental build copies the rows of the live table    *)
(* whose size and mtime are those of the page, reads the other pages, and  *)
(* puts its table in the place of the live one.                            *)
(*                                                                         *)
(* A page is a pair of versions, of its body and of its frontmatter; the   *)
(* pair is its size and mtime as well, which every change alters.  A row   *)
(* holds both and the stamp they were stored with.  Left out: tokens and   *)
(* vectors (they go with the body), pages that are too large or not read,  *)
(* a walk that is cut off, and the queries.                                *)
(***************************************************************************)
EXTENDS Naturals, FiniteSets

CONSTANTS
  Pages,
  Touched,      \* bound: the pages that are changed at all
  Builders,
  MaxChanges,   \* bound: changes to pages
  MaxWork,      \* bound: changes and pages in use, together
  MaxFailures   \* bound: builds and corrections that fail

ASSUME IndexAssumption ==
  Touched \subseteq Pages /\ {MaxChanges, MaxWork, MaxFailures} \subseteq Nat

Numbers == 0 .. MaxChanges + 1
Version == [body : Numbers, meta : Numbers]
NoPage  == [body |-> 0, meta |-> 0]
First   == [body |-> 1, meta |-> 1]

Row     == [body : Numbers, meta : Numbers, stamp : Version]
NoRow   == [body |-> 0, meta |-> 0, stamp |-> NoPage]
RowOf(text, stamp) == [body |-> text.body, meta |-> text.meta, stamp |-> stamp]

VARIABLES
  file,      \* the pages
  index,     \* the rows of the live table
  syncs,     \* corrections that are under way
  at,        \* where each build is
  fresh,     \* the pages it has yet to read
  stale,     \* the rows it does not copy
  now, text, \* the page it is at, as it was read
  table,     \* its new table
  (* What happened, for the properties. *)
  changes,
  failures,
  quiet,     \* builds during which nobody else wrote
  slipped    \* pages that changed between being read and being stamped, or
             \* whose correction came after a newer row

build   == <<at, fresh, stale, now, text, table>>
history == <<changes, failures, quiet, slipped>>
vars    == <<file, index, syncs, build, history>>

Exists(p) == file[p] # NoPage

Stages == {"idle", "compare", "copy", "read", "stat"}
Verbs  == {"meta", "write", "remove"}

TypeOK ==
  /\ file \in [Pages -> Version]
  /\ index \in [Pages -> Row]
  /\ syncs \subseteq [page : Pages, verb : Verbs, meta : Numbers]
  /\ at \in [Builders -> Stages]
  /\ fresh \in [Builders -> SUBSET Pages]
  /\ stale \in [Builders -> SUBSET Pages]
  /\ now \in [Builders -> SUBSET Pages]
  /\ text \in [Builders -> Version]
  /\ table \in [Builders -> [Pages -> Row]]
  /\ changes \in 0 .. MaxChanges
  /\ failures \in 0 .. MaxFailures
  /\ quiet \subseteq Builders
  /\ slipped \subseteq Pages

(* Some pages are there, with those that will be changed, and all indexed. *)
Init ==
  /\ file \in [Pages -> {First, NoPage}]
  /\ \A p \in Touched : Exists(p)
  /\ index = [p \in Pages |-> IF Exists(p) THEN RowOf(First, First) ELSE NoRow]
  /\ syncs = {}
  /\ at = [b \in Builders |-> "idle"]
  /\ fresh = [b \in Builders |-> {}]
  /\ stale = [b \in Builders |-> {}]
  /\ now = [b \in Builders |-> {}]
  /\ text = [b \in Builders |-> NoPage]
  /\ table = [b \in Builders |-> [p \in Pages |-> NoRow]]
  /\ changes = 0
  /\ failures = 0
  /\ quiet = {}
  /\ slipped = {}

-----------------------------------------------------------------------------
(* Changes to pages.                                                       *)

Fail == failures < MaxFailures /\ failures' = failures + 1

InUse == {p \in Pages : Exists(p) \/ index[p] # NoRow}

Change(p, version) ==
  /\ changes < MaxChanges
  /\ changes + Cardinality(InUse \cup {p}) < MaxWork
  /\ changes' = changes + 1
  /\ file' = [file EXCEPT ![p] = version]
  /\ quiet' = {}
  /\ UNCHANGED <<index, build, failures, slipped>>

Fresh == changes + 2

Sync(p, verb) == syncs' = syncs \cup {[page |-> p, verb |-> verb, meta |-> 0]}

(* lib.annotate: new frontmatter.                                          *)
Annotate(p) ==
  /\ Exists(p)
  /\ Change(p, [file[p] EXCEPT !.meta = Fresh])
  /\ Sync(p, "meta")

(* lib.edit: a new body.                                                   *)
Edit(p) ==
  /\ Exists(p)
  /\ Change(p, [file[p] EXCEPT !.body = Fresh])
  /\ Sync(p, "meta")

(* lib.revert: body and frontmatter of a snapshot.                         *)
Revert(p) ==
  /\ Exists(p)
  /\ Change(p, [body |-> Fresh, meta |-> Fresh])
  /\ Sync(p, "meta")

(* lib.retire, and lib.move from here: a tombstone takes the page's place. *)
Retire(p) ==
  /\ Exists(p)
  /\ Change(p, [body |-> Fresh, meta |-> Fresh])
  /\ Sync(p, "remove")

(* lib.restore, lib.move to here, an editor, a contribution: the index is  *)
(* not told.                                                               *)
Put(p) ==
  /\ Change(p, [body |-> Fresh, meta |-> Fresh])
  /\ UNCHANGED syncs

Delete(p) ==
  /\ Exists(p)
  /\ Change(p, NoPage)
  /\ UNCHANGED syncs

-----------------------------------------------------------------------------
(* Corrections of one row.                                                 *)

(* update_meta_columns reads the page again.                               *)
ReadMeta(s) ==
  /\ s.verb = "meta"
  /\ syncs' = (syncs \ {s}) \cup
                (IF Exists(s.page)
                 THEN {[page |-> s.page, verb |-> "write", meta |-> file[s.page].meta]}
                 ELSE {})
  /\ UNCHANGED <<file, index, build, history>>

(* Only the metadata columns.  Wrong variant of Corrected: size and mtime  *)
(* are brought up to date as well.                                         *)
Restamped(row, p, meta) == [row EXCEPT !.meta = meta, !.stamp = file[p]]

Corrected(row, p, meta) == [row EXCEPT !.meta = meta]

WriteMeta(s) ==
  /\ s.verb = "write"
  /\ syncs' = syncs \ {s}
  /\ IF index[s.page] = NoRow
     THEN UNCHANGED <<index, quiet, slipped>>
     ELSE /\ index' = [index EXCEPT ![s.page] = Corrected(@, s.page, s.meta)]
          /\ quiet' = {}
          /\ slipped' = IF s.meta < index[s.page].stamp.meta
                        THEN slipped \cup {s.page} ELSE slipped
  /\ UNCHANGED <<file, build, changes, failures>>

RemoveRow(s) ==
  /\ s.verb = "remove"
  /\ syncs' = syncs \ {s}
  /\ index' = [index EXCEPT ![s.page] = NoRow]
  /\ quiet' = {}
  /\ UNCHANGED <<file, build, changes, failures, slipped>>

(* The file stays changed whatever becomes of the correction: an error, a  *)
(* kill, or a table that was replaced while it was open.                   *)
SyncFails(s) ==
  /\ Fail
  /\ syncs' = syncs \ {s}
  /\ UNCHANGED <<file, index, build, changes, quiet, slipped>>

-----------------------------------------------------------------------------
(* A build.                                                                *)

GoTo(b, stage) == at' = [at EXCEPT ![b] = stage]

(* The walk, and the choice between --force and --incremental.             *)
Walk(b, incremental) ==
  /\ at[b] = "idle"
  /\ fresh' = [fresh EXCEPT ![b] = {p \in Pages : Exists(p)}]
  /\ table' = [table EXCEPT ![b] = [p \in Pages |-> NoRow]]
  /\ GoTo(b, IF incremental THEN "compare" ELSE "read")
  /\ quiet' = quiet \cup {b}
  /\ UNCHANGED <<file, index, syncs, stale, now, text, changes, failures, slipped>>

(* Wrong variants: a page that has a row is taken for unchanged; rows of   *)
(* pages that are gone are copied.                                         *)
HasRow(p) == index[p] # NoRow

Unchanged(p) == index[p] # NoRow /\ index[p].stamp = file[p]

KeepGone(L) == {}

Gone(L) == {p \in Pages : index[p] # NoRow /\ p \notin L}

(* _incremental_reuse: which of the pages found are still as their rows    *)
(* say; the others are read, and their rows, and those of pages that are   *)
(* not there any more, left out.  Nothing is copied from an empty table.   *)
Empty == \A p \in Pages : index[p] = NoRow

CompareNothing(b) ==
  /\ at[b] = "compare"
  /\ Empty
  /\ GoTo(b, "read")
  /\ UNCHANGED <<file, index, syncs, fresh, stale, now, text, table, history>>

Compare(b) ==
  /\ at[b] = "compare"
  /\ ~ Empty
  /\ LET found == {p \in fresh[b] : Exists(p)}
         new   == {p \in found : ~ Unchanged(p)}
     IN /\ fresh' = [fresh EXCEPT ![b] = new]
        /\ stale' = [stale EXCEPT ![b] = {p \in new : HasRow(p)} \cup Gone(found)]
  /\ GoTo(b, "copy")
  /\ UNCHANGED <<file, index, syncs, now, text, table, history>>

(* The rows as they are by now.                                            *)
Copy(b) ==
  /\ at[b] = "copy"
  /\ table' = [table EXCEPT ![b] = [p \in Pages |-> IF p \in stale[b] THEN NoRow ELSE index[p]]]
  /\ stale' = [stale EXCEPT ![b] = {}]
  /\ GoTo(b, "read")
  /\ UNCHANGED <<file, index, syncs, fresh, now, text, history>>

Read(b, p) ==
  /\ at[b] = "read"
  /\ p \in fresh[b]
  /\ fresh' = [fresh EXCEPT ![b] = @ \ {p}]
  /\ IF Exists(p)
     THEN /\ now' = [now EXCEPT ![b] = {p}]
          /\ text' = [text EXCEPT ![b] = file[p]]
          /\ GoTo(b, "stat")
     ELSE UNCHANGED <<now, text, at>>
  /\ UNCHANGED <<file, index, syncs, stale, table, history>>

Abandon(b) ==
  /\ at' = [at EXCEPT ![b] = "idle"]
  /\ fresh' = [fresh EXCEPT ![b] = {}]
  /\ stale' = [stale EXCEPT ![b] = {}]
  /\ now' = [now EXCEPT ![b] = {}]
  /\ text' = [text EXCEPT ![b] = NoPage]
  /\ table' = [table EXCEPT ![b] = [p \in Pages |-> NoRow]]

(* The row gets the size and mtime of a second look at the page.  A row    *)
(* that was copied in the meantime is an error: paths are unique.          *)
Stat(b, p) ==
  /\ at[b] = "stat"
  /\ p \in now[b]
  /\ IF Exists(p) /\ table[b][p] # NoRow
     THEN Abandon(b) /\ quiet' = quiet \ {b} /\ UNCHANGED slipped
     ELSE /\ table' = IF Exists(p)
                      THEN [table EXCEPT ![b][p] = RowOf(text[b], file[p])] ELSE table
          /\ slipped' = IF Exists(p) /\ file[p] # text[b] THEN slipped \cup {p} ELSE slipped
          /\ now' = [now EXCEPT ![b] = {}]
          /\ text' = [text EXCEPT ![b] = NoPage]
          /\ GoTo(b, "read")
          /\ UNCHANGED <<fresh, stale, quiet>>
  /\ UNCHANGED <<file, index, syncs, changes, failures>>

(* os.replace.                                                             *)
Replace(b) ==
  /\ at[b] = "read"
  /\ fresh[b] = {}
  /\ index' = table[b]
  /\ quiet' = {}
  /\ Abandon(b)
  /\ UNCHANGED <<file, syncs, changes, failures, slipped>>

(* An error of the database or the disk, or the process is killed: the     *)
(* live table stays.                                                       *)
BuildFails(b) ==
  /\ at[b] # "idle"
  /\ Fail
  /\ Abandon(b)
  /\ quiet' = quiet \ {b}
  /\ UNCHANGED <<file, index, syncs, changes, slipped>>

-----------------------------------------------------------------------------
Edits == \E p \in Touched : Annotate(p) \/ Edit(p) \/ Revert(p) \/ Retire(p) \/ Put(p) \/ Delete(p)

Correct(s) == ReadMeta(s) \/ WriteMeta(s) \/ RemoveRow(s)

Corrections == \E s \in syncs : Correct(s)

Build(b) ==
  \/ \E incremental \in BOOLEAN : Walk(b, incremental)
  \/ CompareNothing(b) \/ Compare(b) \/ Copy(b)
  \/ \E p \in Pages : Read(b, p) \/ Stat(b, p)
  \/ Replace(b)

Next ==
  \/ Edits
  \/ Corrections
  \/ \E s \in syncs : SyncFails(s)
  \/ \E b \in Builders : Build(b) \/ BuildFails(b)

Spec == Init /\ [][Next]_vars

(* The index is rebuilt again and again, and who is not killed goes on.    *)
FairSpec ==
  /\ Spec
  /\ WF_vars(Corrections)
  /\ \A b \in Builders : WF_vars(Build(b))

-----------------------------------------------------------------------------
(* Properties.                                                             *)

Agrees(p) == index[p] = IF Exists(p) THEN RowOf(file[p], file[p]) ELSE NoRow

(* What incremental builds rest on (indexer.py:371): a row that has the    *)
(* page's size and mtime has its text, so it need not be read again.  Only *)
(* a page that changed between lines 508 and 513 of a build, or whose      *)
(* frontmatter a slower correction set back, can be wrong for good.        *)
StampTellsText ==
  \A p \in Pages \ slipped : Exists(p) /\ index[p].stamp = file[p] => Agrees(p)

(* A build during which nobody writes leaves an index that agrees with the *)
(* pages, whatever was missed before.                                      *)
QuietBuildAgrees ==
  [][\A b \in Builders : Replace(b) /\ b \in quiet =>
       \A p \in Pages \ slipped : Agrees(p)']_vars

(* When the pages are left alone and builds no longer overlap, the index   *)
(* comes to agree with the pages and stays so, whatever late corrections   *)
(* and failed builds left behind.  (Two builds that overlap for ever can   *)
(* hand each other the row of a deleted page: what one compared, the other *)
(* replaces before it is copied.)                                          *)
Apart == Cardinality({b \in Builders : at[b] # "idle"}) <= 1

Converges == <>[]Apart => <>[](\A p \in Pages : Agrees(p) \/ p \in slipped)
=============================================================================
