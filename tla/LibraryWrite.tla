---------------------------- MODULE LibraryWrite ----------------------------
(***************************************************************************)
(* The write verbs of the library: annotate.py, edit.py and maintain.py of *)
(* packages/brain-library.  Every verb is planned and then applied; the    *)
(* token of the plan is a hash of verb, path, argument and the text the    *)
(* plan saw, so a plan is modelled by what its token is made of.           *)
(*                                                                         *)
(* An apply is several file operations with nothing around them: a writer  *)
(* may die, or get an OSError, between any two, and there is no lock, so   *)
(* that any number of applies may be under way, on one page too.  A page   *)
(* on which two of them have met is crossed; the properties say what holds *)
(* of every other page, whatever happens to the crossed ones.              *)
(*                                                                         *)
(* A text is its status, its body and its version.  Writing a temporary    *)
(* file and renaming it is one step.  Left out: the rules of the content   *)
(* contract, frontmatter lines other than status and version, the scan of  *)
(* references (it only reports), the search index, hands that change the   *)
(* files without a verb.                                                   *)
(***************************************************************************)
EXTENDS Naturals, Sequences, FiniteSets

CONSTANTS
  Writers,       \* processes that serve the verbs
  Paths, NoPath,
  Bodies,        \* what pages say
  NoText,        \* no file
  NoJob,
  MaxRevisions,  \* bound: length of a revision chain
  MaxTotal,      \* bound: length of all of them together,
  MaxShared      \* bound: and while any page is crossed

RetiredNote == "retired note"
Statuses == {"page", "moved", "retired"}
Texts    == [status : Statuses, body : Bodies \cup Paths \cup {RetiredNote},
             version : Nat]
MaybeText == Texts \cup {NoText}
Verbs    == {"annotate", "edit", "revert", "move", "retire", "restore"}
Numbers  == 1 .. MaxRevisions + 1

ArgumentType(verb) ==
  CASE verb = "annotate" -> Statuses
    [] verb = "edit"     -> Bodies
    [] verb = "revert"   -> Numbers
    [] verb = "move"     -> Paths
    [] OTHER             -> {NoPath}

Jobs(verb) ==
  [verb : {verb}, path : Paths, arg : ArgumentType(verb), saw : Texts,
   old : MaybeText, new : MaybeText, number : 0 .. MaxRevisions + 1,
   entry : 0 .. MaxRevisions]

ASSUME LibraryAssumption ==
  /\ NoPath \notin Paths
  /\ NoText \notin Texts
  /\ \A verb \in Verbs : NoJob \notin Jobs(verb)
  /\ MaxRevisions \in Nat

VARIABLES
  file,      \* the text at a path
  archive,   \* the text at _archive/<path>
  snapshot,  \* _revisions/<path>/<number>.md
  chain,     \* _revisions/<path>/chain.jsonl
  job,       \* what a writer has planned, or is applying
  pc,        \* 0: planned only; otherwise the step of the apply it is at
  landed,    \* history: the entry of the chain that brought the text of file
  crossed    \* history: the pages on which two applies were under way at once

vars == <<file, archive, snapshot, chain, job, pc, landed, crossed>>

Entries == [verb : Verbs, to : Paths \cup {NoPath}, before : Texts, after : Texts,
            number : Numbers]

TypeOK ==
  /\ file \in [Paths -> MaybeText]
  /\ archive \in [Paths -> MaybeText]
  /\ snapshot \in [Paths -> [Numbers -> MaybeText]]
  /\ chain \in [Paths -> Seq(Entries)]
  /\ \A p \in Paths : Len(chain[p]) <= MaxRevisions
  /\ pc \in [Writers -> 0 .. 4]
  /\ job = [w \in Writers |-> job[w]]
  /\ \A w \in Writers :
       IF job[w] = NoJob THEN pc[w] = 0
       ELSE job[w].verb \in Verbs /\ job[w] \in Jobs(job[w].verb)
  /\ landed \in [Paths -> 0 .. MaxRevisions]
  /\ crossed \subseteq Paths

Init ==
  /\ \E b \in Bodies :
       file \in [Paths -> {[status |-> "page", body |-> b, version |-> 0], NoText}]
  /\ \E p \in Paths : file[p] # NoText
  /\ archive = [p \in Paths |-> NoText]
  /\ snapshot = [p \in Paths |-> [n \in Numbers |-> NoText]]
  /\ chain = [p \in Paths |-> <<>>]
  /\ job = [w \in Writers |-> NoJob]
  /\ pc = [w \in Writers |-> 0]
  /\ landed = [p \in Paths |-> 0]
  /\ crossed = {}
-----------------------------------------------------------------------------
(* What the verbs write.                                                   *)

NextVersion(t) == t.version + 1

Tombstone(verb, to) ==
  IF verb = "move" THEN [status |-> "moved", body |-> to, version |-> 1]
                   ELSE [status |-> "retired", body |-> RetiredNote, version |-> 1]

(* The snapshot as a whole, but as the next version of the page.            *)
Reverted(j) == [snapshot[j.path][j.arg] EXCEPT !.version = NextVersion(file[j.path])]

(* annotate rewrites the status, which the contract leaves free, or another *)
(* field, edit the body; both count up the version.                         *)
NewText(j) ==
  CASE j.verb = "annotate" -> [j.saw EXCEPT !.status = j.arg, !.version = NextVersion(j.saw)]
    [] j.verb = "edit"     -> [j.saw EXCEPT !.body = j.arg, !.version = NextVersion(j.saw)]
    [] j.verb = "revert"   -> Reverted(j)
    [] j.verb = "restore"  -> archive[j.path]
    [] OTHER               -> Tombstone(j.verb, j.arg)

StatusOf(t) == IF t = NoText THEN "absent" ELSE t.status

(* restore needs the archive, and must not cover a page that is in use.     *)
Restorable(p) == archive[p] # NoText /\ StatusOf(file[p]) \in {"absent", "retired"}

(* What plan and apply both insist on before they look at the token.        *)
Possible(j) ==
  CASE j.verb \in {"annotate", "edit"} -> file[j.path] # NoText
    [] j.verb = "revert"  -> file[j.path] # NoText /\ snapshot[j.path][j.arg] # NoText
    [] j.verb = "move"    -> file[j.path] # NoText /\ file[j.arg] = NoText
    [] j.verb = "retire"  -> file[j.path] # NoText /\ archive[j.path] = NoText
    [] j.verb = "restore" -> Restorable(j.path)

(* A plan that would change nothing is refused.                             *)
Changes(j) ==
  CASE j.verb = "edit"   -> j.arg # file[j.path].body
    [] j.verb = "revert" -> NewText(j) # file[j.path]
    [] OTHER             -> TRUE

(* The text whose hash the token carries.                                   *)
TokenText(verb, p) == IF verb = "restore" THEN archive[p] ELSE file[p]

Arguments(verb, p) ==
  CASE verb = "annotate" -> {"page", "retired"} \ {StatusOf(file[p])}
    [] verb = "edit"     -> Bodies
    [] verb = "revert"   -> Numbers
    [] verb = "move"     -> Paths \ {p}
    [] OTHER             -> {NoPath}
-----------------------------------------------------------------------------
(* plan_*: writes nothing; the token goes back to the client, who may come  *)
(* with it at any time, or never.                                           *)
Plan(w, verb, p, arg) ==
  LET j == [verb |-> verb, path |-> p, arg |-> arg, saw |-> TokenText(verb, p),
            old |-> NoText, new |-> NoText, number |-> 0, entry |-> 0]
  IN /\ job[w] = NoJob
     /\ Possible(j) /\ Changes(j)
     /\ job' = [job EXCEPT ![w] = j]
     /\ UNCHANGED <<file, archive, snapshot, chain, pc, landed, crossed>>

PlanSomething(w) ==
  \E verb \in Verbs : \E p \in Paths : \E arg \in Arguments(verb, p) :
     Plan(w, verb, p, arg)

(* The bounds: there is room for one more line in the chain of page p.      *)
Revisions == {r \in Paths \X (1 .. MaxRevisions) : r[2] <= Len(chain[r[1]])}

Room(p) ==
  /\ Len(chain[p]) < MaxRevisions
  /\ Cardinality(Revisions) < IF crossed = {} THEN MaxTotal ELSE MaxShared

(* The pages an apply reads and writes, and those of them on which another  *)
(* apply is under way.                                                      *)
Touched(j) == {j.path} \cup (IF j.verb = "move" THEN {j.arg} ELSE {})

Meeting(w) ==
  {p \in Touched(job[w]) : \E v \in Writers \ {w} : pc[v] > 0 /\ p \in Touched(job[v])}

AnyToken(j) == TRUE

TokenFits(j) == j.saw = TokenText(j.verb, j.path)

(* What a verb is about to replace: the text its token is about, except     *)
(* that a restore is planned on the archive and replaces a tombstone.       *)
Replaced(j) == IF j.verb = "restore" THEN file[j.path] ELSE j.saw

(* apply_* up to its first write: the file is read, the token checked and   *)
(* the new text made.  Nothing keeps it from a page that another apply is   *)
(* in the middle of ...                                                     *)
Apply(w) ==
  /\ job[w] # NoJob /\ pc[w] = 0
  /\ Possible(job[w]) /\ TokenFits(job[w])
  /\ Room(job[w].path)
  /\ crossed' = crossed \cup Meeting(w)
  /\ job' = [job EXCEPT ![w].old = Replaced(job[w]), ![w].new = NewText(job[w])]
  /\ pc' = [pc EXCEPT ![w] = 1]
  /\ UNCHANGED <<file, archive, snapshot, chain, landed>>

(* ... or it is refused; a plan may also simply be dropped.                 *)
GiveUp(w) ==
  /\ job[w] # NoJob /\ pc[w] = 0
  /\ job' = [job EXCEPT ![w] = NoJob]
  /\ UNCHANGED <<file, archive, snapshot, chain, pc, landed, crossed>>

(* The file operations of an apply, in order.                               *)
TombstoneFirst(verb) ==
  CASE verb \in {"move", "retire"} -> <<"snapshot", "chain", "land", "copy">>
    [] verb = "restore"            -> <<"snapshot", "chain", "land", "unlink">>
    [] OTHER                       -> <<"snapshot", "chain", "land">>

UnlinksFirst(verb) ==
  CASE verb \in {"move", "retire"} -> <<"snapshot", "chain", "copy", "land">>
    [] verb = "restore"            -> <<"snapshot", "chain", "unlink", "land">>
    [] OTHER                       -> <<"snapshot", "chain", "land">>

LandsFirst(verb) ==
  CASE verb \in {"move", "retire"} -> <<"copy", "land", "snapshot", "chain">>
    [] verb = "restore"            -> <<"land", "snapshot", "chain", "unlink">>
    [] OTHER                       -> <<"land", "snapshot", "chain">>

Steps(verb) ==
  CASE verb \in {"move", "retire"} -> <<"snapshot", "chain", "copy", "land">>
    [] verb = "restore"            -> <<"snapshot", "chain", "land", "unlink">>
    [] OTHER                       -> <<"snapshot", "chain", "land">>

At(w, step) ==
  pc[w] > 0 /\ pc[w] <= Len(Steps(job[w].verb)) /\ Steps(job[w].verb)[pc[w]] = step

(* After the last one the client has its answer.                            *)
Advance(w) ==
  IF pc[w] < Len(Steps(job[w].verb))
  THEN pc' = [pc EXCEPT ![w] = @ + 1] /\ UNCHANGED job
  ELSE pc' = [pc EXCEPT ![w] = 0] /\ job' = [job EXCEPT ![w] = NoJob]

(* _write_revision: a revision is numbered by the lines of the chain; the   *)
(* snapshot is written ...                                                  *)
OverwritesLast(p) == IF chain[p] = <<>> THEN 1 ELSE Len(chain[p])

Number(p) == Len(chain[p]) + 1

WriteSnapshot(w) ==
  /\ At(w, "snapshot")
  /\ LET j == job[w]
     IN snapshot' = [snapshot EXCEPT ![j.path][Number(j.path)] = j.old]
  /\ pc' = [pc EXCEPT ![w] = @ + 1]
  /\ job' = [job EXCEPT ![w].number = Number(job[w].path)]
  /\ UNCHANGED <<file, archive, chain, landed, crossed>>

(* ... and then its line is appended to the chain.                          *)
AppendChain(w) ==
  /\ At(w, "chain") /\ Room(job[w].path)
  /\ LET j == job[w]
     IN chain' = [chain EXCEPT ![j.path] = Append(@,
                    [verb |-> j.verb, to |-> IF j.verb = "move" THEN j.arg ELSE NoPath,
                     before |-> j.old, after |-> j.new, number |-> j.number])]
  /\ pc' = [pc EXCEPT ![w] = @ + 1]
  /\ job' = [job EXCEPT ![w].entry = Len(chain[job[w].path]) + 1]
  /\ UNCHANGED <<file, archive, snapshot, landed, crossed>>

(* move writes the text to its new path, retire to the archive ...          *)
CopyMoved(w) ==
  /\ At(w, "copy") /\ job[w].verb = "move"
  /\ file' = [file EXCEPT ![job[w].arg] = job[w].saw]
  /\ landed' = [landed EXCEPT ![job[w].arg] = 0]
  /\ Advance(w)
  /\ UNCHANGED <<archive, snapshot, chain, crossed>>

CopyRetired(w) ==
  /\ At(w, "copy") /\ job[w].verb = "retire"
  /\ archive' = [archive EXCEPT ![job[w].path] = job[w].saw]
  /\ Advance(w)
  /\ UNCHANGED <<file, snapshot, chain, landed, crossed>>

(* ... and every verb puts its new text in the place of the old one.        *)
Land(w) ==
  /\ At(w, "land")
  /\ LET j == job[w]
     IN /\ file' = [file EXCEPT ![j.path] = j.new]
        /\ landed' = [landed EXCEPT ![j.path] = j.entry]
  /\ Advance(w)
  /\ UNCHANGED <<archive, snapshot, chain, crossed>>

(* restore removes the archived copy if it can.                             *)
Unlink(w) ==
  /\ At(w, "unlink")
  /\ archive' \in {archive, [archive EXCEPT ![job[w].path] = NoText]}
  /\ Advance(w)
  /\ UNCHANGED <<file, snapshot, chain, landed, crossed>>

(* The process dies, or a file operation raises: nothing is undone.         *)
Crash(w) ==
  /\ pc[w] > 0
  /\ pc' = [pc EXCEPT ![w] = 0]
  /\ job' = [job EXCEPT ![w] = NoJob]
  /\ UNCHANGED <<file, archive, snapshot, chain, landed, crossed>>

Next ==
  \E w \in Writers :
    \/ PlanSomething(w) \/ Apply(w) \/ GiveUp(w)
    \/ WriteSnapshot(w) \/ AppendChain(w)
    \/ CopyMoved(w) \/ CopyRetired(w) \/ Land(w) \/ Unlink(w)
    \/ Crash(w)

Spec == Init /\ [][Next]_vars
-----------------------------------------------------------------------------
Kept(p) == {snapshot[p][chain[p][i].number] : i \in DOMAIN chain[p]}

(* Every line of a chain names a snapshot that holds the text whose hash    *)
(* the line gives as sha256_before (annotate.py:236-252): an interrupted    *)
(* apply leaves a snapshot without a line, whose number the next one takes; *)
(* two applies that meet may take one number between them.                  *)
ChainTellsTruth ==
  \A p \in Paths \ crossed : \A i \in DOMAIN chain[p] :
     snapshot[p][chain[p][i].number] = chain[p][i].before

LastLanded(p) == chain[p][landed[p]]

(* What lib.retire took away can be restored: while its tombstone stands,   *)
(* the archive holds the very text that was retired, also when a restore    *)
(* was broken off (maintain.py:14, "归档文件完整保留=可恢复").              *)
RetiredComesBack ==
  \A p \in Paths \ crossed :
     (landed[p] # 0 /\ LastLanded(p).verb = "retire")
        => archive[p] = LastLanded(p).before

(* A tombstone of lib.move never points to nowhere: the text that was moved *)
(* is at its new path or in the history of that path, whatever was done     *)
(* there since (maintain.py:219-225 writes the copy before the tombstone),  *)
(* unless two applies met at the new path; on the old one they may.         *)
MovedIsThere ==
  \A p \in Paths :
     (landed[p] # 0 /\ LastLanded(p).verb = "move" /\ LastLanded(p).to \notin crossed)
        => LastLanded(p).before \in Kept(LastLanded(p).to) \cup {file[LastLanded(p).to]}

(* Nobody overwrites what the plan did not see: a text is replaced only by  *)
(* the apply of a plan made on that very text, a restore replaces nothing   *)
(* but a retired page by the archive its plan saw, and a move only creates  *)
(* its destination (annotate.py:20-21, "plan 之后文件内容被谁动过,apply 即    *)
(* stale_token"; library-maintain.zh-CN.md:74, "绝不覆盖活文件").            *)
LandsOnWhatWasPlanned ==
  [][\A p \in Paths \ crossed : file'[p] # file[p] =>
       \E w \in Writers :
         LET j == job[w]
         IN /\ pc'[w] # pc[w]
            /\ \/ At(w, "copy") /\ j.arg = p /\ file[p] = NoText
               \/ At(w, "land") /\ j.path = p /\ j.verb # "restore" /\ file[p] = j.saw
               \/ /\ At(w, "land") /\ j.path = p /\ j.verb = "restore"
                  /\ archive[p] = j.saw
                  /\ StatusOf(file[p]) \in {"absent", "retired"}]_vars

(* The verbs keep a page's history through crashes at any point, also while *)
(* applies on other pages, or a move from here to there, are under way      *)
(* (maintain.py:212, "链在,即便后续步骤半途失败也可追溯/恢复").              *)
History == INSTANCE PageHistory
  WITH page <- file, kept <- [p \in Paths |-> Kept(p)], shared <- crossed
HistorySpec == History!Spec
=============================================================================
