# rtime-assistant: a TLA+ verification of its concurrent core

rtime-assistant puts a command-line model (`claude`) behind several entrances: a
Feishu bot, a QQ bot, a web chat, an Obsidian plugin with its own gateway. Around
them stand a job queue, a file library with write verbs and a search index,
reminders and an admin API. Nearly all of it runs on one small machine where *one*
model process at a time is the rule, people send bursts of messages and change
their minds, and processes are killed and restarted. What can go wrong there is
seldom in a single function. It is in the order of steps of several threads, tasks
or processes, and in what is left behind when one of them stops half way.

This directory holds TLA+ modules for the ten parts where that matters most,
TLC configurations that check them on small instances, and TLAPS proofs that
hold for every instance. `PROJECT.json` maps each definition to the lines it
models, and lists hazards, runs, mutants and theorems. All source paths below
are relative to the repository's root.

    tlc -workers 2 -config jobs.cfg MCJobQueue      # one run
    tlapm JobQueueProofs.tla                        # one proof module

1. [The system](#1-the-system) (inventory)
2. [Modules](#2-modules) and how they correspond to the code
3. [Runs](#3-runs): bounds, and why they are enough
4. [Fairness](#4-fairness)
5. [Proofs](#5-proofs)
6. [Findings](#6-findings)
7. [What is not modelled](#7-what-is-not-modelled)
8. [Plan](#8-plan)

## 1. The system

### How the parts interact

    Feishu --ws--> feishu-bridge --+                      +-- library gateway --> brain-library files,
    QQ ----ws--> qq-bridge --------+-- chat-runtime -- claude (child)             search index
    browser --> web-chat ----------+   (locks, buffers,       |
    Obsidian -> assistant-gateway -----  run registry,        +-- jobs submit --> rtime-jobs (SQLite)
                  (own queue)            model runner)        +-- reminder register      |
    reminder-sender, qq_selfheal: timers over files that the others write           job handlers
    admin UI -> rtime-admin-api -- configuration store -> config.json, secrets.json (all read them)

* Bridges, web chat and gateway start the model as a child process and read its
  output; killing the child is how anything is stopped.
* The bridges use `rtime_chat_runtime` as a library inside one asyncio loop each;
  the gateway has a thread per request and a watcher thread per stream.
* The model's tools reach the library through `rtime-library-gateway`, one
  process per assistant run, hence several at a time over the same files.
* Long work goes through the SQLite job queue, drained by a worker service and
  by one-shot workers started by hand or by timers.
* Everything else communicates through files that one program writes and
  another polls.

### Components

Modelled parts first; "hard" is what a test would hardly reach.

| component | state | operations | hard | right when |
|---|---|---|---|---|
| **rtime-jobs** (`packages/rtime-jobs`) | table `jobs`; the job a worker has in memory | submit, claim_next, recover_stale_running, complete, fail; a worker's start, loop, exit, death | several workers, recovery of rows whose worker is alive after all, poison jobs | no job runs twice at once, verdicts are final, tries are bounded, every job ends |
| **gateway queue** (`apps/assistant-gateway/gateway_queue.py`) | `_active`, `_waiting`, one condition | try_enter, wait_turn (turn, deadline, heartbeat, failed heartbeat), release | lost wakeups, tickets that stay, overtaking | mutual exclusion, FIFO, nobody starves |
| **gateway chat** (`gateway.py`, `gateway_runner.py`) | stage of each handler, watcher, child | POST, SSE headers, turn, spawn, read, reap, release; disconnect | client leaves at any point, exceptions between enter and release, silent children | one model at a time, no leaked slot, requests are answered |
| **chat queueing** (`rtime_chat_runtime/chat_queue.py`, both bridges) | lock map, burst buffers, worker flags | get_chat_lock and its clean-up, buffer, drain, merge, run | clean-up while tasks hold or await what is cleaned up; worker that dies | one run per chat, no text lost, doubled or overtaken |
| **stopping runs** (`run_control.py`, `model_runner.py`, `bridge_runner.py`) | one ActiveRun per user, children, cards | start_run, attach_process, stop_run, clear_run, retry of a resumed session | stop between two children, two chats of one user, stubborn child | a stop reaches every child and is announced |
| **library write verbs** (`packages/brain-library`: `annotate.py`, `edit.py`, `maintain.py`) | pages, archive, `_revisions/<page>/` with snapshots and chain | plan and apply of annotate, edit, revert, move, retire, restore | crash between two file operations, stale plans, overlapping applies | nothing replaced before it is kept, everything can be found again |
| **reminders** (`reminder-sender.js`, `rtime-reminder-register`) | one JSON-lines file | register (append), cancel and send (rewrite) | append during a rewrite, crash after the send, truncating write | a reminder is sent once, never lost, and a cancellation holds |
| **admin core and API** (`rtime-admin-core/store.py`, `history.py`, `rtime-admin-api/app.py`, `locking.py`) | config and secrets files, snapshots, audit log, ETag, mutation guard | PATCH, DELETE, rollback, reload with compensation | two files, one of which fails; two processes; crash under the guard | all or nothing, no write on a state the client never read, true answers |
| **library search index** (`indexer.py`, `mcp_server.py`) | SQLite file, rebuilt beside the live one | full and incremental build, row corrections | edits during a build, lost corrections, builds that overlap | a quiet rebuild makes index and files agree |
| **Feishu session store** (`session_store.py`, `main.py`) | sessions per user and chat, one JSON file | new, resume, handover, on_claude_response, summaries, save, load | answer of a run that started before /new; saves with and without the lock | a session is never forgotten, the file survives restarts |
| Feishu commands, cards, delivery | — (Feishu's servers) | text commands, card updates, uploads | failing HTTP calls | — |
| QQ OneBot server, archive (`onebot/ws_server.py`) | socket, online flag, running handler tasks | receive, send, heartbeat, filter of replays | reconnect while a run answers, stale online flag | no message answered twice after a reconnect |
| QQ self-heal and notify queue (`ops/qq_selfheal.py`, `alerts.py`) | files of notices, request files, episode flags | drop, poll, deliver, heal | a delivery that fails, a file removed before it is delivered | a notice is delivered at least once |
| QQ commands, configuration, media | — | parsing and rendering | — | — |
| gateway: prewarm pool, prompts, providers, memory, intake | idle children by key; unlock and memory files | prewarm, claim, clean up, replenish | a child that dies between check and use | no child is used twice or left behind |
| web chat (`apps/web-chat`) | session file shared by threads | chat request | two threads save at once | — |
| chat runtime, the rest | session file, run log, archive | policies, rendering, logging | — | — |
| library gateway | grants file, audit log | one permission decision per call, then a verb and a row correction | the correction fails | see write verbs and index |
| finalize, contribute, course intake, approvals (`deploy/bin`) | inbox, plan and approval files, target tree | plan, approve, extract, consume | crash half way, contents changed after the approval | exactly what was approved is filed, a retry is possible |
| memory and relations jobs | files written from a model's answer | nightly and weekly runs | — | — |
| document tools, ustc-kb | output trees | convert, crawl | — | — |
| profiles, context, models, review, automation, agent control, hub connector | read-mostly files | command lines that report | — | — |
| Obsidian plugin | conversations in the vault | ask, stream, retry when busy, stop | fallback request while the first one still runs | — |
| deployment, plugins, skills, schemas, scripts | — | shell and manifests | — | — |

## 2. Modules

    JobBoard       <=  JobQueue       (JobQueueProofs,     MCJobQueue)
    Turnstile      <=  RequestQueue   (GatewayChatProofs,  MCRequestQueue)
                         ^ extended by
                       GatewayChat    (GatewayChatProofs,  MCGatewayChat)
                       ChatLanes      (ChatLanesProofs,    MCChatLanes)
                       RunControl     (FeishuProofs,       MCRunControl)
    PageHistory    <=  LibraryWrite   (LibraryWriteProofs, MCLibraryWrite)
    ConfigRegister <=  ConfigStore    (ConfigStoreProofs,  MCConfigStore)
                       Reminders      (RemindersProofs,    MCReminders)
                       SearchIndex    (SearchIndexProofs,  MCSearchIndex)
                       FeishuSessions (FeishuProofs,       MCFeishuSessions)

`<=` is "is implemented by"; the abstract module is a PROPERTY of a run. In every
module the definitions named *wrong variant* sit before the definition they
vary; they are the bugs the mutants of `PROJECT.json` put in, and are used for
nothing else. Variables listed under *What happened, for the properties* are history
variables: no guard reads them.

**JobQueue.** `rows` is the table, by rowid; `held[w]` and `pc[w]` are
what a worker process has in memory, `loops` the processes that were launched as a loop. Each store method
is one action because each is one `BEGIN IMMEDIATE` transaction or one
autocommit statement: `Submit` with its dedup, `Claim` with `claim_next`'s order,
`Recover` inside `Start` because the recovery is a worker's first call, and
`Finish`, which updates by id alone, whatever the row has become. A worker is
launched as a loop (recovers every running row), once (recovers nothing) or once
with `--recover-stale-seconds` (recovers rows older than the grace window, which
`Age` reaches at any time, also under a live worker). Nothing keeps a recovering worker
from starting beside a living one, in the code or in the model. `contested` is a history
variable: a job is contested from the moment a recovery takes it from a living worker until
the last worker that has it in memory lets go of it. OneRunner and VerdictIsFinal speak of
the other jobs, and so say that a claim, a plain `--once` run or a recovery inside the grace window
never makes a job two workers' business, and that the damage ends with the contest.

**JobBoard** is the life of a job without workers: waiting, working, ended. Work is lost with
its worker, and a sweep returns it while tries are left. A sweep may also hit work that is under way:
the job is then disputed, more parties may join as long as tries are left, and it is settled
when the last of them is through; what was settled as ended is final like any other end.

**RequestQueue.** A block under `with self._cond` is one action. `pc[r]`
distinguishes a waiter that goes for the lock, sleeps in `cond.wait`, writes a
heartbeat with the lock released, or has failed to write one and is about to drop
its ticket. `due[r]` is the passing of its deadline or heartbeat instant.
`notify_all` makes every sleeper go for the lock (`Woken`).

**Turnstile** is the promise: one inside, a bounded line, first come first
served, leaving the line at any time.

**GatewayChat** extends RequestQueue with the rest of `POST /api/obsidian/chat`.
`stage[r]` is how far the handler thread is: opening the SSE response, in the
line, preparing, reading from the child, reaping it, in the `finally`. Besides it
act the client (leaves at any time), the watcher thread (sees that, and looks
*once* for a child to kill), the child and the clock. A stream stops reading at a
line of output or at end of file, never by the clock alone; a plain request has
the timeout of `subprocess.run`.

**ChatLanes.** Every message has an asyncio task; an action is what a task does
between two awaits. A lock object lives on in its holders and waiters after the map
forgot it, and is known by the first message it was made for. `asyncio.Lock` is
modelled as it is: `release` frees it and wakes the first waiter, which takes it only
when it runs again; in between `locked()` is false. Which bridge it is and the size of
its lock map are variables that never change (`bridge`, `maxLocks`), so that one run
covers both bridges and maps with and without room for every chat: feishu-bridge buffers
group texts (`GroupsBuffered`) and catches every failure of a run; in qq-bridge group
texts go straight to the lock, and an error reply that raises ends the worker
(`ReplyMayFail`). `stranded` records the chats that this left without one.

**RunControl** is the life of one user, since the registry has one entry per
user, in `NChats` chats. A run is registered, spawns a child that is attached to
*whatever run is registered then*, may spawn a second one when resuming a session
failed without a word, and clears the registry only if it still is the registered
one. A `/stop` is three steps with awaits in between: mark and signal, wait for
the child or kill it after the grace period, announce. `crowd` is a history
variable: the runs that ever had another one next to them.

**LibraryWrite.** A plan is what its token is made of; it may be used much later
or never. `Apply` is everything up to the first write; then each file operation
is an action in the order of `Steps`: snapshot, line in the chain, copy (move and
retire), the new text in place, removal of the archived copy (restore). `Crash`
between any two. `landed` is a history variable: the chain entry that produced
the present text. Applies overlap like plans do, on the same page too: the code has no lock
and there is a gateway process per assistant run. `crossed` is a history variable: the pages on which two applies
were under way at once, a move counting on both of its pages. The properties speak of the other
pages, and so say that the damage of a meeting stays on the pages where it happened.

**PageHistory** is what a reader may rely on: a text is kept before another takes
its place, and what is kept stays. Of a page that two applies came to share it promises only that
it does not vanish.

**Reminders.** A record is known by its place in the order of registration. `Add`
appends a line in one step. The sender and a cancel command are the two writers that
rewrite the file: each has the file as it last saw it (`seen`) and its copy (`mem`), and
writes in two steps, `Truncate` and `Write`, because `writeFileSync` and `open("w")` empty
the file first. A run of the sender is `Load` (read, collect what is due), perhaps `NoToken`,
then an outcome for each item: `Send`, `Refuse` (the record fails for good), or `Reject`
(the request is rejected, before or *after* the message went out, and ends the batch), with a
save after each. `harm` records why a record was damaged: an older copy written over it,
a file truncated by a process that died, a delivery that was not recorded.

**ConfigStore.** The two files `disk`, the snapshots `history`, and one request per client
under the mutation guard: compare the ETag, add a snapshot, cut the history, save file after
file, append to the audit log. Saves and appends may fail, the process may die at any step
(`MaxFaults` in all). `apply` compensates what it saved when a later save fails (`Undo`);
`rollback` does not. A field stands for all fields of its file, and the ETag for the content
it digests. `trail` is what the audit log says; `blame` the fields a named fault has touched.

**ConfigRegister** is the promise: one content, replaced whole, only by a client that has
seen what it replaces and after a snapshot of it was kept.

**SearchIndex.** Pages are edited by the gateway's verbs and by hand; a page is a pair of
versions, of body and frontmatter, that stands for its size and mtime too. A build walks the
tree, compares (incremental), copies unchanged rows of the live table, reads and then
*stats* each other page, and replaces the live table. After a verb the gateway corrects a
row (`ReadMeta`, `WriteMeta`, `RemoveRow`) or fails to. No lock keeps any of these apart.

**FeishuSessions.** The sessions of one chat. Everything on the event loop changes the record
and begins its save without an await in between; the summary thread saves from a thread of its own,
without the lock and through the same temporary file. So a save is open-and-truncate, write (in
two parts, between which the record may change), rename; `holds` says which of the two names
the file a writer has open bears now. A run remembers the session it was asked in
(`asked`) and its answer makes that session current again.
(The definitions have names of their own, `SessionsInit` and so on, because
FeishuProofs extends this module and RunControl.)

## 3. Runs

Deadlock is checked except in `chat` (a leaked slot really stops the model's two
threads) and `reminders` (when all is registered and settled nothing is left to do).
Symmetry is used in `library`, `config` and `sessions`: no liveness there, and the
symmetric constants occur in no CHOOSE.

| run | instance | question and answer |
|---|---|---|
| `jobs` | 2 workers, 2 kinds, 2 jobs, 2 tries, all three launch modes, recovery beside living workers, fair | No job is run by two workers (OneRunner) and no read verdict changes (VerdictIsFinal) unless a recovery took the job from a living worker, and then only until those who hold it have let go; submits of a dedup kind join the live job (DedupHolds), first tries in order (FirstTriesInOrder), the queue implements JobBoard (BoardSpec), every job ends (EveryJobEnds). |
| `queue` | 4 threads that return for ever, a line of 2, fair | No lost wakeup (HeadIsAwake), implements Turnstile (one inside, in order), nobody starves. |
| `chat` | 2 requests, a line of 2, headers may fail, silent children, fair threads | A live child belongs to who holds the slot (ChildHasSlot); nothing but a failed header write leaks the slot (OnlyHeadersLeak); a client that left lets go of the line and of a silent model (LeaversLetGo); a plain request is answered whatever happens to others; all are when children end and nothing leaks. |
| `chat_leak` | 2 requests, a line of 1, headers may fail | **NothingLeaks is violated**: see findings. |
| `lanes` | a private chat and a group of 2, 4 messages, maps of 1 and 2 locks, batches of 2, both bridges, fair | One run per chat while the lock map has room, and one per lock in any case (OneRunPerChat); no batch mixes authors but feishu's groups (OneAuthor); each buffered text has a worker, or its chat lost it and nobody wrote since (BufferHasWorker); texts are answered in order (TextsInOrder), none is lost on its way through the buffer, and each goes into one batch (AnsweredOnce); every message's task ends (EveryoneIsAnswered). |
| `stop_runs` | 2 chats, 2 runs of up to 2 children, 2 stops, fair | The newest run stays registered, a stop reaches every child of a run that is alone, it ends that run if its children obey, and is announced in any case. |
| `library` | 2 writers whose applies overlap, 2 paths, 1 body, at most 3 revisions in all, 2 once a page is crossed | On every page where no two applies have met: chains name the right snapshots (ChainTellsTruth), retired and moved texts are found (RetiredComesBack, MovedIsThere), stale plans never land (LandsOnWhatWasPlanned). Implements PageHistory. |
| `reminders` | 2 reminders, 2 instants, once (due early or late) and repeating, 1 crash or rejected request, fair | An occurrence is delivered twice (SentOnce), a record lost (NoneLost) or a cancellation undone (CancelHolds) only by the causes the properties name; what is due is settled (DueIsSettled). |
| `config` | 2 clients, 1 value per field, a history of 2, 2 faults | The audit log tells the whole story (AuditTellsAll) and answers are true (OutcomeIsTrue), but for the faults that are named; no update is lost and none is made without a snapshot (RegisterSpec), without exception. |
| `search` | 2 pages, 2 builders, 2 changes to the one page alone or 1 beside the other, 1 failure, fair | What incremental builds reuse is right but for two named races (StampTellsText); a build that nobody disturbs leaves the right index whatever was missed before (QuietBuildAgrees); the index converges when changes stop and builds do not overlap (Converges). |
| `sessions` | 3 sessions, a history of 2 | A session that was current is current or can be resumed (NothingForgotten), but for the newest-first limit, saves that were not done, and a death after saves that overlapped. |
| `sessions_torn` | the same | **FileIsWhole is violated**: see findings. |

Why these bounds are enough to see the interesting cases:

* *Jobs.* Two workers are one victim and one rescuer, and with
  two tries a job is once requeued and once given up, or contested and joined; two jobs give an order, two kinds a dedup and a non-dedup
  pair.
* *Queue and gateway.* Four threads fill the slot, both places and leave one at
  the door. `chat` has a line long enough for every request, so that
  its liveness concerns waiting rather than refusals; `queue` has the refusals.
* *Lanes.* Batches of 2 are exceeded by a burst of 3; maps of size 1 make every
  second chat a clean-up; four messages leave room for a worker that ends or dies
  and is replaced. Real values (200 locks, batches of 20) only move these events apart.
* *Stop.* Two runs suffice for one to outlive the other in the registry and two
  stops for one to come during the other.
* *Library.* A chain of three covers a revision whose number is reused after a
  crash, a revert to an earlier snapshot, and retire-restore-retire. Two paths are a
  move and its destination, or a crossed page and one that is not. One body is enough for an edit to change a
  tombstone; annotate and revert make the other differences. After a meeting a second revision (`MaxShared`) lets the
  two applies collide in number, snapshot and text. Where the exemption ends was tried out:
  without `crossed`, TLC finds ChainTellsTruth and LandsOnWhatWasPlanned violated in this instance, RetiredComesBack and
  MovedIsThere with a third revision.
* *Reminders.* Two records are one in the batch and one beside it; two
  instants are an occurrence and the next one. The two writers are all there
  are: the timer does not start a second sender beside a first, and the assistant's tool calls
  `cancel` one at a time per run (two cancels at once would be damaged the way a cancel and the
  sender are).
* *Config.* The fields are the two files, one value and "unset" are the contents a save can swap;
  a history of two is cut by the third write; two faults are a failing save and a failing compensation.
* *Search.* One page (`Touched`) is edited, retired, recreated or deleted while two builds pass each other, which shows every
  race there is between a row, a correction and a copy: twice when it is alone, once when the other
  page is there too (`MaxWork`). The other page matters because rows are copied only from a table that is not empty: beside it a page
  whose row is missing can get one between comparison and copy, and then collides with itself (`Stat`).
* *Sessions.* Three sessions overflow a history of two and come back.

Every safety property and action property of these runs is proved for all bounds, and so is the type
invariant of each module (section 5). The inductive invariants were checked on the same
instances, by naming them as invariants, before they were proved.

Every property of a passing run is shown to depend on the code: `PROJECT.json`
names for each a definition and a plausible bug in it (a missing dedup, a limit
off by one, `notify` for `notify_all`, a ticket that stays, the tombstone before
the copy, a copy from before the save, and so on) under which TLC finds the property violated.

## 4. Fairness

Fairness is assumed only for what the process itself or its supervisor does.

* **JobQueue** (`Fairness`). The loop worker is started again whenever it has left
  (systemd `Restart=always`). Handlers return because their
  subprocesses have timeouts; an idle loop with `--idle-exit` exits; store calls return or raise.
  Claims get strong fairness: a worker may die before
  its claim, but not every worker for ever. No fairness for `Submit`, `Crash`,
  `Age`.
* **RequestQueue** (`FairQueueSpec`). Threads run, clocks advance, who is inside
  leaves. Nobody has to come, and heartbeats need not fail.
* **GatewayChat** (`CodeSpec`). Handler threads, watcher threads and clocks.
  *Not* the children: that they end is a premise (`ChildrenEnd`) of
  `EveryoneIsAnswered` only, as is `[]NothingLeaks`. Clients owe nothing.
* **ChatLanes** (`FairSpec`). The event loop runs every ready task, sleeps end,
  model runs end (feishu's idle timeout, qq's limit on the length of a run).
* **RunControl** (`FairSpec`). Tasks and timers of the event loop. That a child
  obeys SIGTERM is a premise (`ObeysSigterm`) of `StopEndsRun` only;
  `StopIsAnnounced` does without.
* **Reminders** (`FairSpec`). The timer starts the sender again and again, a process that is not
  killed goes on, and a token that is asked for again and again comes at last (strong fairness
  of `Run`). Faults are finitely many.
* **SearchIndex** (`FairSpec`). A build that was started is carried on and the rebuild is started again and
  again; corrections that do not fail are finished. That builds no longer overlap is a premise of `Converges`.
* **LibraryWrite, ConfigStore, FeishuSessions** have safety properties only: nothing
  obliges anybody to finish a request that a process may drop at any step.

## 5. Proofs

TLAPS proves the following for *all* values of the constants that satisfy the
named assumptions of the modules (`JobAssumption`, `QueueAssumption`,
`ChatAssumption`, `LanesAssumption`, `RunAssumption`, `LibraryAssumption`, `ReminderAssumption`,
`ConfigAssumption`, `IndexAssumption`, `SessionsAssumption`, `FileAssumption`: naturals are naturals,
flags are Booleans, limits are not zero, chats are finitely many, the marks for "no worker", "no text",
"no job", "no client", "no file", "blank file" are none of the values). The
bounds that make TLC stop (`MaxJobs`, `MaxMsgs`, `MaxRuns`, `MaxStops`, `MaxRevisions`, `MaxIds`,
`MaxTime`, `MaxFaults`, `MaxChanges`, `MaxWork`, `MaxFailures`) are arbitrary naturals here, and `MaxTotal` and `MaxShared` anything.

**JobQueueProofs** (11 theorems). The rows change in five ways (fresh, claimed,
finished, rescued, aged); each has a lemma saying what it preserves, and the
proofs go over actions by these lemmas. The inductive invariant is `TypeOK /\ LedgerInv`:
rowids are handed out in order, a row that was ever claimed shows it in its
attempts, and a worker holds a job exactly while it is busy. FIFO needs it because
"tried" must be visible in the row; dedup needs it because it speaks of rows
behind others. `HeldIsOwned` (a held job that is not contested is a running row that
names its holder) is inductive with it, whatever starts beside whatever: what a recovery takes from a
living worker it makes contested, and what nobody holds any more is nobody's. It gives OneRunner,
VerdictIsFinal and the refinement of JobBoard, whose step lemma says that a
recovery is a sweep and every other change touches one card: a claim is Begin or Join, the last
holder's finish or death ends, loses or settles, and an earlier one's changes nothing on the board.

**GatewayChatProofs** (11 theorems) is about the queue and about the gateway around it. The queue's `IInv`
is the type invariant, "no ticket twice, tickets are exactly the waiters", "the slot is held
exactly if active", and HeadIsAwake. None of these is inductive alone: that the head is awake after a
drop needs the first two. Lemmas say what `RemoveFirst` and `Append` do to the set of tickets. The
refinement maps drops and failed heartbeats to GiveUp and everything about locks and sleep to stuttering.
Every step of the gateway is a step of the queue or leaves it alone (`GatewayUsesQueue`), so
the queue's theorems hold inside it, and the gateway as a whole is a Turnstile too (`GatewayIsTurnstile`),
with clients that leave, silent children and headers that fail. `ChatInv` adds
`Agrees(r)`: the handler's stage, the queue's `pc` and the child fit each other. From it
follow ChildHasSlot and OnlyHeadersLeak: the unguarded header write is the *only* leak of the modelled
control flow. Under `~HeadersMayFail` nothing leaks at all.

**ChatLanesProofs** (6 theorems). `LanesInv` has a part for each mechanism. `LocksOK`: whoever runs
holds a lock of its own, whoever was woken is the first waiter of a lock that is free, and nobody waits
twice. `MapOK`: while the map has room for every chat, tasks of one chat have one lock, the one in the
map (its clean-up never runs); together these are OneRunPerChat. `TextsOK`: a buffer is in order of
arrival and later than what its worker has in hand. `WorkersOK`: a chat is marked as worked on exactly
while one text task of it is active, and a buffer that is not empty is marked, or stranded. That there is
never a second worker is what makes the texts keep their order. Draining is a cut of a sequence (`DrainCuts`),
so that what a worker takes and what it leaves is what was there (`DrainKeepsAll`), and the clean-up of
buffers only meets empty ones: AnsweredOnce follows action by action (`HandedOn`).

**FeishuProofs** (7 theorems) is about RunControl and FeishuSessions. NewestIsRegistered is inductive with TypeOK.
StoppedIsTold needs `StopInv`: whoever is registered has not been cleared, two runs in progress know of
each other, a run that is alone is the registered one and its ActiveRun holds its current
child. Without the last conjunct a stop could hit an ActiveRun whose `proc` belongs to
another run, which is what happens to runs that are not alone. StopFindsRun follows: as long as a child
of a run that is alone runs, the registry leads to it. (For two runs it does not, see section 6.)

NothingForgotten needs a session to be looked for twice, in memory and in the file a restart would read
(`SessionsInv`). In both it is current, or in the history with nothing behind it but what was
put away after it (`Listed`); as the session is owed, that is less than a full history (`OwedOK`), and no later
put-away pushes it out. About the file this is true only while no saves have overlapped; then there is at most
one save under way, and each of its stages says what its temporary file and `sessions.json` hold (`AloneOK`,
`FileOK`, `OpenOK`). Lemmas say what putting away does to a history (`ArchivedProperties`: the session is its newest entry, and one
that had only newer ones behind it, fewer than `MaxHistory` of them, is still there). WholeUnlessMixed is the exact
complement of the finding: `sessions.json` is whole unless two saves have mixed in it.

**LibraryWriteProofs** (6 theorems) speaks of any number of writers, pages and revisions and of applies that
overlap in any way. None of the
properties is inductive, because each speaks of files and the damage is prepared in a writer's
hands. `LibraryInv` says what these hold on pages that are not crossed: no two writers who are in the middle of
an apply touch such a page both (`Disjoint`), so that what one holds is not disturbed by the steps of
the others (the lemmas Others, OthersWork and Confined), crossed or not; until
a writer lands the page still is what it read (`Untouched`); between its snapshot and its line its
number is the next one of the chain and the snapshot of that number is what it is about to
replace (`Snapped`); afterwards that line is in the chain (`Recorded`); what it has copied is
where it put it (`Copied`). A page that is being written is there, crossed or not (`Present`), and where there is an archive there is a page, so that a restore
always replaces a tombstone (`Archived`). The proofs go action by action: one lemma for the types, one for
`LibraryInv`. KeepsHistory maps `AppendChain` to Keep, `Land` and `CopyMoved` to Put, the writes to a crossed page to Clash, a meeting to Share and
everything else to stuttering. RetiredComesBack and MovedIsThere are inductive given `LibraryInv`
and that a chain only grows (`HistoryGrows`).

**RemindersProofs** (4 theorems). With no lock, the damage is in the copies. `CopiesOK`: a copy only
moves forward from what its writer read (`Follows`: nothing appears, cancelled stays cancelled, what was
settled stays settled). `InOneHand`: a record that a writer holds after truncating the file is nowhere
else, neither in the file nor with the other writer, unless somebody overwrote it; so a record is in
the file or in exactly one hand, and `KeptOK` gives NoneLost. `SentOK` carries a delivery
from the sender's copy to the file and into what a cancel is about to write. SentOnce, NoneLost
and CancelHolds follow: the three causes in `harm` are the only ones.

**ConfigStoreProofs** (4 theorems). `StoreInv`: who is not idle holds the guard and came with the ETag of
what it found (`Entitled`); at each stage the files are what was found or what is wanted, field by
field, but for the fields under `blame` (`InFiles`); from the cut of the history on, the newest
snapshot is what was found (`KeptIt`); the audit log tells what the files were when the guard was last free
(`Story`). The refinement shows readers the content that was found until the last save is over; a save
that fails, its compensation and a crash then are an Update to whatever is in the files, by a client
that had seen what it replaces and after its snapshot was kept.

**SearchIndexProofs** (3 theorems). `IndexInv` says the same of every row there is, in the live table and in those that
builds are making (`RowsOK`): its text is the one its stamp stands for, and only its frontmatter has been brought forward
since, never beyond the page's. Rows of a page that was edited between a build's read and its stat (`slipped`) are
exempt, and what a pending correction is about to write must be bounded the same way (`SyncsOK`, `PagesOK`). StampTellsText is
its part about the live table. QuietBuildAgrees needs to know what the table of a build that nobody disturbed lacks at each stage
(`QuietOK`): before the comparison everything, then the pages it found and does not keep, and at the end
nothing; every other row is what the page says now. Here the two meet: a row that is kept
is right only because its stamp tells the truth.

Only model-checked: liveness, since fairness and ENABLED are beyond the prover (EveryJobEnds, NobodyStarves,
LeaversLetGo, PlainIsAnswered, both EveryoneIsAnswered, StopEndsRun, StopIsAnnounced, DueIsSettled, Converges). Nothing here
is proved by induction over data, and no module that is proved about has a RECURSIVE operator.

## 6. Findings

Two runs show a disagreement between the code and what its documents say.

* `chat_leak`, **bug**: `gateway.py:506` takes the slot or a ticket, `gateway.py:518` writes
  the SSE headers before the `try` whose `finally` gives it back (565-619). A client that
  reset its connection in between leaves the gateway blocked for good.
* `sessions_torn`, divergence: `session_store.py:311` calls the save atomic; `_bg_summary_thread`
  (`main.py:1282`) saves without the lock through the same `sessions.json.tmp`, so it truncates what the
  loop is about to rename or writes into what by then is `sessions.json`. (WholeUnlessMixed proves that nothing else
  tears the file.) A death before the next
  save leaves a file that `_load` takes for empty (298-305).

The models show further disagreements that have no run of their own. Each was found
with TLC on the modules as they are; the instance is given where a constant or a formula has to change.

*Jobs and gateway*

* *Recovery under a living worker* (the exception `contested` in OneRunner and VerdictIsFinal): `worker_loop`
  recovers every running row at its start, without a grace window
  (`rtime-jobs/runner.py:101`); a second loop worker restarts the first one's job, against
  `store.py:5-6` and the comment at `runner.py:96-97`. The job of a one-shot worker that died
  waits for the loop's next start, which is its only unconditional recovery.
* *Stream deadline* (a stream and a silent child): the deadline is looked at only when
  a line arrives (`gateway_runner.py:684`), so a silent child holds the slot past
  `claude_timeout` (`gateway_config_schema.py:140`), for ever if its client stays.
* *Watcher looks once* (LeaversLetGo without its `watcher[r] # "off"`): a client that leaves
  while the prompt is being built finds no child to kill
  (`gateway.py:643`), the watcher returns and the child spawned later runs unwatched; the
  docstring (`gateway.py:627`) promises that it is killed.

*Chats*

* *Stop is blind* (two runs in two chats, the later one ended): `run_control.py:23` has
  one entry per user, but runs are serialised per chat. When a user's second run in another chat ends,
  `/stop` says nothing is running while the first one still is, and nobody can stop it.
* *Split locks* (the exception in OneRunPerChat, `maxLocks` below the number of chats): between a
  release and the step of the woken waiter a lock says it is free, so the clean-up of a full
  map drops it (`chat_queue.py:20`) and the next message of that chat gets a second lock: two
  runs in one chat, against `chat_queue.py:31` and feishu's `main.py:165`.
* *Mixed authors* (the exception in OneAuthor): feishu-bridge merges texts of different members of a
  group into one run of the first one (`main.py:466`, `chat_queue.py:119`); qq-bridge avoids
  this on purpose (`app.py:494-496`).
* *Orphaned texts* (the exception in BufferHasWorker): when the error reply of qq-bridge
  raises too (`app.py:544`), the worker ends and later texts of the burst wait in the buffer
  for the next message, though `app.py:525` counts on "an active worker".
* *Feishu sessions*: `/new`, a resume or a handover during a run is overridden by the run's later answer
  (`main.py:1042-1056`), which makes its own session current again; what was put away can be resumed
  (NothingForgotten). Not modelled but seen: the index of `/resume N` may have shifted since the list was shown,
  and five sessions that can never be summarised keep the others from it (`_bg_summary_thread`).

*Files*

* *Overlapping applies* (the exception `crossed` in ChainTellsTruth, RetiredComesBack, MovedIsThere and
  LandsOnWhatWasPlanned): between token check and replace (`annotate.py:276` and `:323`) nothing keeps a second apply
  out; its text is overwritten unseen, though the module promises `stale_token` (`annotate.py:20-21`), two lines of a chain can
  name one snapshot, and the text of a move or retire that met another is not found where its tombstone
  says. Pages where no two applies met keep all their promises (proved).
* *Half-done moves and restores*: a crash between copy and tombstone of a
  move leaves the page at both paths, and a retry is refused because the destination exists
  (`maintain.py:161-162`); a revert to the snapshot of a tombstone, and an archive whose
  removal failed (`maintain.py:366`), leave states in which restore or retire are refused. No
  text is lost in any of them (`HistorySpec`).
* *Reminders* (the exceptions in the properties): "an interrupted batch can never replay an already-sent
  reminder" (`reminder-sender.js:278-279`) does not hold when the process dies between delivery and save or the answer is
  lost, nor when a cancel command writes back what it read before. A registration or cancellation that falls between the
  sender's load and its write is undone; a process killed between truncating and writing takes every reminder with it. A
  repeating reminder that fails once stays failed (`reminder-sender.js:157-161`).
* *Configuration* (`blame`): a rollback that breaks off between its two files is not compensated and leaves no error line
  (`store.py:699-700`); a snapshot file cut short by a crash makes every later write fail (`history.py:133`, `broken`). Not
  modelled but seen: two reloads can put an older profile over a newer one (`app.py:850`), unsetting a field that the environment
  pins reports no change, and `pending_restart` is lost with the process or a failed audit line.
* *Search index* (`slipped`, `Apart`): a page edited between its read and its stat (`indexer.py:508`, `:513`) keeps the old text
  until it changes again; `remove_from_index` counts on the drift check for what it missed (`indexer.py:1473`), but that
  compares only paths (`contract.py:197`) and a tombstone keeps the path; two builds that overlap again and
  again can hand the row of a deleted page to each other.

## 7. What is not modelled

The reasons, by group (the list with files is in `PROJECT.json`):

* *Pure functions of text*: prompts, rendering, Markdown and card layout, ranking,
  tokenising, parsers, the rules of the content contract, redaction. Their difficulty is in the
  data, where tests are the better tool.
* *Single-step decisions*: access policy, the library gateway's permission table, model
  routing. No state between calls.
* *Sequential tools*: document conversion, crawler, course intake, profile and context command
  lines, deployment scripts. Together with vendored code these are most of the repository's lines.
* *Planned*: see below. Two of the listed hazards are still without a property for that reason: the extraction
  that crashes half way (`rtime-finalize:700`) and the notice that is deleted undelivered (`qq_selfheal.py:492`).

Inside the modelled parts the following is abstracted: what is said and answered, logs
and traces, clock values (only "due", "stale", "late"), job parameters beyond their identity,
frontmatter other than status and version, failing calls to Feishu, the prewarm pool (a
prewarmed child is claimed where another is spawned), the OpenAI-style endpoint (it runs
no child), validation and redaction of settings, tokens and vectors of the index, session
summaries and settings. `asyncio.Lock`, `threading.Condition`, SQLite transactions, file
operations of the system and process signals are modelled from how the code uses them.

## 8. Plan

Done: jobs, gateway queue, gateway chat, lanes, stop, library, reminders, configuration, search index,
Feishu sessions, and proofs of the safety of all of them. Next, most important first:

1. **Finalize**: plan, approval, extraction with crashes, consumption of the token. Promise: exactly what was
   approved is filed, and a retry is possible.
2. **NotifyQueue** (QQ): at least once, with deliveries that fail; the reconnecting socket and its filter of replays.
3. **PrewarmPool** as a refinement of GatewayChat's Spawn, and a client that retries.
4. **Several chats in one session file** (Feishu, and the session file web chat shares among its threads), with the locks of
   ChatLanes.
