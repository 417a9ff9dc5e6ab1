--------------------------- MODULE FeishuSessions ---------------------------
(***************************************************************************)
(* The sessions of one chat of feishu-bridge (session_store.py), as the    *)
(* commands, the card buttons and the runs of main.py change them, and the *)
(* file they are saved in.                                                 *)
(*                                                                         *)
(* Everything on the event loop changes the record and saves it without an *)
(* await in between (the lock of _save_async is never contended), but      *)
(* _bg_summary_thread saves from a thread of its own, without the lock and *)
(* through the same temporary file.  So a save is several steps: open and  *)
(* truncate, write the current session, write the history (a thread may    *)
(* see them at different times), rename.                                   *)
(*                                                                         *)
(* A file is known by its names: a writer holds what is named tmp, what is *)
(* named sessions.json, or what has no name any more.  Left out: settings  *)
(* (model, directory, workspaces), previews, summaries, other chats.       *)
(***************************************************************************)
EXTENDS Naturals, Sequences, FiniteSets

CONSTANTS
  Sessions,
  NoSession,
  Blank,        \* nothing is written here, or nothing that can be read
  NoFile,
  MaxHistory    \* 20

ASSUME SessionsAssumption ==
  /\ MaxHistory \in Nat \ {0}
  /\ NoSession \notin Sessions

Writers   == {"loop", "thread"}
Histories == {h \in UNION {[1 .. n -> Sessions] : n \in 0 .. MaxHistory} :
                \A i, j \in DOMAIN h : h[i] = h[j] => i = j}

VARIABLES
  current,   \* the session the next message continues
  history,   \* the sessions before it
  asked,     \* the session a run under way continues, if there is a run
  used,      \* session ids that have been given out
  saving,    \* how far each save is
  holds,     \* the file each writer has open
  tmp,       \* what is in sessions.json.tmp, and
  file,      \* what is in sessions.json
  (* What happened, for the properties. *)
  newer,     \* the sessions put away after each
  owed,      \* sessions that must be found again
  unsaved,   \* those of them that were made current since the last save
  alone,     \* saves that overlap with no other so far
  mixed      \* saves have overlapped since the last that was alone

memory == <<current, history>>
disk   == <<saving, holds, tmp, file>>
ghosts == <<owed, newer, unsaved, alone, mixed>>
svars   == <<memory, asked, used, disk, ghosts>>

Bytes == [current : Sessions \cup {NoSession, Blank}, history : Histories \cup {Blank}]
Truncated == [current |-> Blank, history |-> Blank]

ASSUME FileAssumption ==
  /\ Blank \notin Sessions \cup {NoSession} \cup Histories
  /\ NoFile \notin Bytes

SessionsTypeOK ==
  /\ current \in Sessions \cup {NoSession}
  /\ history \in Histories
  /\ asked \subseteq Sessions \cup {NoSession} /\ Cardinality(asked) <= 1
  /\ used \subseteq Sessions
  /\ saving \in [Writers -> {"idle", "open", "first", "rest", "rename"}]
  /\ holds \in [Writers -> {"none", "tmp", "file", "gone"}]
  /\ tmp \in Bytes \cup {NoFile}
  /\ file \in Bytes \cup {NoFile}
  /\ owed \subseteq Sessions
  /\ newer \in [Sessions -> SUBSET Sessions]
  /\ unsaved \subseteq Sessions
  /\ alone \subseteq Writers
  /\ mixed \in BOOLEAN

SessionsInit ==
  /\ current = NoSession
  /\ history = <<>>
  /\ asked = {}
  /\ used = {}
  /\ saving = [w \in Writers |-> "idle"]
  /\ holds = [w \in Writers |-> "none"]
  /\ tmp = NoFile
  /\ file = NoFile
  /\ owed = {}
  /\ newer = [s \in Sessions |-> {}]
  /\ unsaved = {}
  /\ alone = {}
  /\ mixed = FALSE

-----------------------------------------------------------------------------
(* Changes of the record.                                                  *)

(* The list without s: no session is in a history twice.                   *)
Without(h, s) ==
  IF \A i \in DOMAIN h : h[i] # s THEN h
  ELSE LET i == CHOOSE j \in DOMAIN h : h[j] = s
       IN  SubSeq(h, 1, i - 1) \o SubSeq(h, i + 1, Len(h))

(* The newest MaxHistory.  Wrong variant of Archived: a session that comes *)
(* back is listed twice.                                                   *)
Newest(h) == IF Len(h) <= MaxHistory THEN h ELSE SubSeq(h, Len(h) - MaxHistory + 1, Len(h))

ArchivedAgain(s) == Newest(Append(history, s))

Archived(s) == Newest(Append(Without(history, s), s))

(* The session that was current is put away, and s takes its place; the    *)
(* save begins.                                                            *)
Switch(s) ==
  /\ saving["loop"] = "idle"
  /\ current' = s
  /\ saving' = [saving EXCEPT !["loop"] = "open"]
  /\ LET leaves == {current} \ {s, NoSession}
     IN /\ history' = IF leaves = {} THEN history ELSE Archived(current)
        /\ newer' = [t \in Sessions |-> IF t \in owed \ {s, current}
                                        THEN newer[t] \cup leaves ELSE {}]
        /\ owed' = (owed \ {t \in owed : Cardinality(newer'[t]) >= MaxHistory})
                     \cup ({s} \ {NoSession})
        /\ unsaved' = owed' \cap (unsaved \cup {s})
  /\ UNCHANGED <<holds, tmp, file, alone, mixed>>

(* A message, and the answer to it: the run went on with its session, or   *)
(* with a new one.                                                         *)
Ask ==
  /\ saving["loop"] = "idle"
  /\ asked = {}
  /\ asked' = {current}
  /\ UNCHANGED <<memory, used, disk, ghosts>>

Answer(s) ==
  /\ asked # {}
  /\ s \in asked \/ s \notin used
  /\ asked' = {}
  /\ used' = used \cup {s}
  /\ Switch(s)

RunFails ==
  /\ saving["loop"] = "idle"
  /\ asked # {}
  /\ asked' = {}
  /\ UNCHANGED <<memory, used, disk, ghosts>>

(* /new, from the menu too while a run is under way.                       *)
NewSession ==
  /\ Switch(NoSession)
  /\ UNCHANGED <<asked, used>>

(* /resume and its buttons, and /handover to a session the bridge knows;   *)
(* /handover to a session of the command line.                             *)
Resume(s) ==
  /\ s \in used
  /\ Switch(s)
  /\ UNCHANGED <<asked, used>>

Handover(s) ==
  /\ s \notin used
  /\ used' = used \cup {s}
  /\ Switch(s)
  /\ UNCHANGED asked

(* A summary has been written, on the loop or by the thread: another       *)
(* reason for a save.                                                      *)
Summarised(w) == saving[w] = "idle" /\ used # {}

-----------------------------------------------------------------------------
(* A save.                                                                 *)

Others(w) == Writers \ {w}

Goes(w, next) == saving' = [saving EXCEPT ![w] = next]

OpenTmp(w) ==
  LET overlaps == \E o \in Others(w) : holds[o] # "none"
  IN /\ saving[w] = "open" \/ Summarised(w)
     /\ Goes(w, "first")
     /\ holds' = [holds EXCEPT ![w] = "tmp"]
     /\ tmp' = Truncated
     /\ alone' = IF overlaps THEN {} ELSE {w}
     /\ mixed' = (mixed \/ overlaps)
     /\ UNCHANGED <<memory, asked, used, file, owed, newer, unsaved>>

(* What is written where another writer has written already need not be as *)
(* long, and then cannot be read.                                          *)
Written(slot, value) == IF slot = Blank THEN {value} ELSE {value, Blank}

Write(w, field, value) ==
  /\ \/ /\ holds[w] = "tmp"
        /\ \E x \in Written(tmp[field], value) : tmp' = [tmp EXCEPT ![field] = x]
        /\ UNCHANGED file
     \/ /\ holds[w] = "file"
        /\ \E x \in Written(file[field], value) : file' = [file EXCEPT ![field] = x]
        /\ UNCHANGED tmp
     \/ /\ holds[w] = "gone"
        /\ UNCHANGED <<tmp, file>>
  /\ UNCHANGED <<memory, asked, used, holds, ghosts>>

WriteCurrent(w) ==
  /\ saving[w] = "first"
  /\ Goes(w, "rest")
  /\ Write(w, "current", current)

WriteHistory(w) ==
  /\ saving[w] = "rest"
  /\ Goes(w, "rename")
  /\ Write(w, "history", history)

(* os.replace; tmp is not there any more when the other writer has renamed *)
(* it, and that is an error.                                               *)
Rename(w) ==
  /\ saving[w] = "rename"
  /\ Goes(w, "idle")
  /\ \/ /\ tmp # NoFile
        /\ file' = tmp
        /\ tmp' = NoFile
        /\ holds' = [o \in Writers |->
                       IF o = w THEN "none"
                       ELSE CASE holds[o] = "tmp" -> "file"
                              [] holds[o] = "file" -> "gone"
                              [] OTHER -> holds[o]]
        /\ mixed' = (mixed /\ w \notin alone)
        /\ unsaved' = IF w = "loop" THEN {} ELSE unsaved
     \/ /\ tmp = NoFile
        /\ holds' = [holds EXCEPT ![w] = "none"]
        /\ UNCHANGED <<tmp, file, unsaved, mixed>>
  /\ alone' = alone \ {w}
  /\ UNCHANGED <<memory, asked, used, owed, newer>>

(* An error of the disk; or the thread, which reads the record while it    *)
(* changes, finds a dictionary of another size.                            *)
SaveFails(w) ==
  /\ saving[w] # "idle"
  /\ Goes(w, "idle")
  /\ holds' = [holds EXCEPT ![w] = "none"]
  /\ alone' = alone \ {w}
  /\ UNCHANGED <<memory, asked, used, tmp, file, owed, newer, unsaved, mixed>>

-----------------------------------------------------------------------------
Whole(bytes) == bytes # NoFile /\ Blank \notin {bytes.current, bytes.history}

(* The process dies and starts again: _load takes anything but a whole     *)
(* file for none.                                                          *)
Restart ==
  /\ IF Whole(file)
     THEN current' = file.current /\ history' = file.history
     ELSE current' = NoSession /\ history' = <<>>
  /\ asked' = {}
  /\ saving' = [w \in Writers |-> "idle"]
  /\ holds' = [w \in Writers |-> "none"]
  /\ owed' = IF mixed THEN {} ELSE owed \ unsaved
  /\ newer' = [s \in Sessions |-> IF s \in owed' THEN newer[s] ELSE {}]
  /\ unsaved' = {}
  /\ alone' = {}
  /\ UNCHANGED <<used, tmp, file, mixed>>

Save(w) == OpenTmp(w) \/ WriteCurrent(w) \/ WriteHistory(w) \/ Rename(w) \/ SaveFails(w)

SessionsNext ==
  \/ Ask \/ RunFails \/ NewSession
  \/ \E s \in Sessions : Answer(s) \/ Resume(s) \/ Handover(s)
  \/ \E w \in Writers : Save(w)
  \/ Restart

SessionsSpec == SessionsInit /\ [][SessionsNext]_svars

-----------------------------------------------------------------------------
(* Properties.                                                             *)

(* A session that was once current is current or can be resumed, through   *)
(* runs that answer after /new, saves that fail and restarts, unless       *)
(* MaxHistory others were put away after it, its own save was not done, or *)
(* the process died after saves that overlapped.                           *)
NothingForgotten ==
  \A s \in owed :
    s = current \/ \E i \in DOMAIN history : history[i] = s

(* What session_store.py:311 says of os.replace: a crash never leaves a    *)
(* truncated file.                                                         *)
FileIsWhole == file = NoFile \/ Whole(file)
=============================================================================
