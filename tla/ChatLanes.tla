------------------------------ MODULE ChatLanes ------------------------------
(***************************************************************************)
(* How the bridges queue messages: packages/rtime-chat-runtime             *)
(* chat_queue.py (per-chat locks and burst buffers) as feishu-bridge       *)
(* main.py and qq-bridge app.py use it.                                    *)
(*                                                                         *)
(* Every message is handled by an asyncio task of its own, so an action is *)
(* what a task does between two awaits.  A text goes into the buffer of    *)
(* its chat, and the task that finds no worker there becomes the worker;   *)
(* anything else goes straight to the lock of its chat.                    *)
(*                                                                         *)
(* A lock object has the number of the first message it was made for; it   *)
(* lives on in the tasks that hold or await it after the map has forgotten *)
(* it.                                                                     *)
(* asyncio.Lock.release only wakes the first waiter: the lock is free, and *)
(* says so, until that task runs again.                                    *)
(*                                                                         *)
(* Left out: what is said and answered, truncation, the debounce interval  *)
(* (a worker sleeps for any time), access checks and the commands that are *)
(* answered outside the queue.                                             *)
(***************************************************************************)
EXTENDS Naturals, Sequences, FiniteSets

CONSTANTS
  Chats,
  Groups,          \* the chats with several members
  Users,           \* members of the groups
  MaxMsgs,         \* bound: messages that ever arrive
  MaxBatch,        \* MESSAGE_DEBOUNCE_MAX_MESSAGES
  Limits           \* _MAX_CHAT_LOCKS, max_chat_locks: what it may be set to

ASSUME LanesAssumption ==
  /\ Groups \subseteq Chats
  /\ IsFiniteSet(Chats)
  /\ MaxMsgs \in Nat
  /\ MaxBatch \in Nat \ {0}
  /\ Limits \subseteq Nat \ {0}

Msgs    == 1 .. MaxMsgs
Locks   == Msgs
Authors == Chats \cup Users
Kinds   == {"text", "other"}
Batches == {s \in Seq(Msgs) : Len(s) <= MaxBatch}

VARIABLES
  bridge,    \* which bridge this is, and
  maxLocks,  \* the limit of its maps: both are settled at its start
  arrived,   \* messages so far: message m and its task arrive as number m
  msg,       \* what each message is
  lockMap,   \* the lock of each chat, 0 when it has none
  held,      \* the locks that say locked()
  waiters,   \* the tasks waiting for each lock, in order
  bufMap,    \* the chats that have a burst buffer
  pending,   \* its messages
  working,   \* the chats whose buffer has worker_active set
  pc,        \* where each task is
  mine,      \* the lock a task waits for or holds
  batch,     \* the messages a task is answering
  stranded   \* for the properties: the chats whose worker died and left texts

setup    == <<bridge, maxLocks>>
lockVars == <<lockMap, held, waiters>>
bufVars  == <<bufMap, pending, working>>
vars     == <<setup, arrived, msg, lockVars, bufVars, pc, mine, batch, stranded>>

(* Where the bridges differ: are the texts of groups buffered, and may     *)
(* telling the user of an error raise again?                               *)
GroupsBuffered == bridge = "feishu"
ReplyMayFail   == bridge = "qq"

Message == [chat : Chats, author : Authors, kind : Kinds]
PCs     == {"none", "sleep", "wait", "woken", "run", "done"}

TypeOK ==
  /\ bridge \in {"feishu", "qq"}
  /\ maxLocks \in Limits
  /\ arrived \in 0 .. MaxMsgs
  /\ msg \in [1 .. arrived -> Message]
  /\ lockMap \in [Chats -> Locks \cup {0}]
  /\ held \subseteq Locks
  /\ waiters \in [Locks -> Seq(Msgs)]
  /\ bufMap \subseteq Chats
  /\ pending \in [Chats -> Seq(Msgs)]
  /\ working \subseteq Chats
  /\ pc \in [Msgs -> PCs]
  /\ mine \in [Msgs -> Locks \cup {0}]
  /\ batch \in [Msgs -> Batches]
  /\ stranded \subseteq Chats

Init ==
  /\ bridge \in {"feishu", "qq"}
  /\ maxLocks \in Limits
  /\ arrived = 0
  /\ msg = <<>>
  /\ lockMap = [c \in Chats |-> 0]
  /\ held = {}
  /\ waiters = [l \in Locks |-> <<>>]
  /\ bufMap = {}
  /\ pending = [c \in Chats |-> <<>>]
  /\ working = {}
  /\ pc = [m \in Msgs |-> "none"]
  /\ mine = [m \in Msgs |-> 0]
  /\ batch = [m \in Msgs |-> <<>>]
  /\ stranded = {}

-----------------------------------------------------------------------------
(* chat_queue.py                                                           *)

Chatting == {c \in Chats : lockMap[c] # 0}

(* cleanup_idle_locks: which chats lose their lock.                       *)
Forgotten ==
  IF Cardinality(Chatting) < maxLocks THEN {}
  ELSE {c \in Chatting : lockMap[c] \notin held}

(* asyncio.Lock.acquire: a lock is taken at once when it is free and       *)
(* nobody waits.  Wrong variant: the woken waiter is overtaken.            *)
FreeToBarge(l) == l \notin held

Free(l) == l \notin held /\ waiters[l] = <<>>

(* get_chat_lock followed by acquiring it for a batch: there is no await   *)
(* in between.                                                             *)
Acquire(m, c, b) ==
  LET new == lockMap[c] = 0
      l   == IF new THEN b[1] ELSE lockMap[c]
  IN /\ lockMap' = [x \in Chats |-> IF x = c THEN l
                                    ELSE IF new /\ x \in Forgotten THEN 0 ELSE lockMap[x]]
     /\ mine' = [mine EXCEPT ![m] = l]
     /\ batch' = [batch EXCEPT ![m] = b]
     /\ \/ /\ Free(l)
           /\ held' = held \cup {l}
           /\ pc' = [pc EXCEPT ![m] = "run"]
           /\ UNCHANGED waiters
        \/ /\ ~Free(l)
           /\ waiters' = [waiters EXCEPT ![l] = Append(@, m)]
           /\ pc' = [pc EXCEPT ![m] = "wait"]
           /\ UNCHANGED held

(* cleanup_idle_debounce_queues: which chats lose their buffer.            *)
Discarded ==
  IF Cardinality(bufMap) < maxLocks THEN {}
  ELSE {c \in bufMap : c \notin working /\ pending[c] = <<>>}

(* get_chat_debounce_queue and append; the buffer a worker still has in    *)
(* hand is not the one a later message finds.                              *)
Buffer(m, c) ==
  LET gone == IF c \in bufMap THEN {} ELSE Discarded
  IN /\ bufMap' = (bufMap \ gone) \cup {c}
     /\ pending' = [x \in Chats |-> IF x = c THEN Append(pending[c], m)
                                    ELSE IF x \in gone THEN <<>> ELSE pending[x]]
     /\ working' = (working \ gone) \cup {c}

(* drain, as <<batch, rest>>.  Wrong variant: it clears the buffer.        *)
DrainClears(s) ==
  IF Len(s) <= MaxBatch THEN <<s, <<>>>> ELSE <<SubSeq(s, 1, MaxBatch), <<>>>>

Drain(s) ==
  IF Len(s) <= MaxBatch THEN <<s, <<>>>>
  ELSE <<SubSeq(s, 1, MaxBatch), SubSeq(s, MaxBatch + 1, Len(s))>>

-----------------------------------------------------------------------------
(* The bridges.                                                            *)

(* Which messages are buffered.  Wrong variant: qq-bridge without its      *)
(* exception for groups.                                                   *)
AllTextsBuffered(c, k) == k = "text"

Buffered(c, k) == k = "text" /\ (c \notin Groups \/ GroupsBuffered)

(* Does a text start the worker of its chat?  Wrong variants: always; only *)
(* when it made the buffer.                                                *)
AlwaysStarts(c) == TRUE

StartsWithBuffer(c) == c \notin bufMap

StartsWorker(c) == c \notin working

Arrive(c, a, k) ==
  LET m == arrived + 1
  IN /\ arrived < MaxMsgs
     /\ UNCHANGED setup
     /\ a \in IF c \in Groups THEN Users ELSE {c}
     /\ arrived' = m
     /\ msg' = Append(msg, [chat |-> c, author |-> a, kind |-> k])
     /\ \/ /\ Buffered(c, k)
           /\ Buffer(m, c)
           /\ pc' = [pc EXCEPT ![m] = IF StartsWorker(c) THEN "sleep" ELSE "done"]
           /\ stranded' = stranded \ {c}
           /\ UNCHANGED <<lockVars, mine, batch>>
        \/ /\ ~Buffered(c, k)
           /\ Acquire(m, c, <<m>>)
           /\ UNCHANGED <<bufVars, stranded>>

(* The worker of a chat wakes up: it takes a batch to the lock, or finds   *)
(* nothing and ends.                                                       *)
WorkerWakes(m) ==
  LET c == msg[m].chat
      d == Drain(pending[c])
  IN /\ pc[m] = "sleep"
     /\ UNCHANGED <<setup, arrived, msg, bufMap, stranded>>
     /\ \/ /\ pending[c] # <<>>
           /\ pending' = [pending EXCEPT ![c] = d[2]]
           /\ Acquire(m, c, d[1])
           /\ UNCHANGED working
        \/ /\ pending[c] = <<>>
           /\ working' = working \ {c}
           /\ pc' = [pc EXCEPT ![m] = "done"]
           /\ UNCHANGED <<lockVars, pending, mine, batch>>

(* The waiter that was woken, the first one, runs again and takes the lock.*)
Resume(m) ==
  /\ pc[m] = "woken"
  /\ waiters' = [waiters EXCEPT ![mine[m]] = Tail(@)]
  /\ held' = held \cup {mine[m]}
  /\ pc' = [pc EXCEPT ![m] = "run"]
  /\ UNCHANGED <<setup, arrived, msg, lockMap, bufVars, mine, batch, stranded>>

(* _process_message is over: the lock is released and its first waiter     *)
(* woken.                                                                  *)
Release(m, after) ==
  LET l    == mine[m]
      next == IF waiters[l] = <<>> THEN {} ELSE {Head(waiters[l])}
  IN /\ held' = held \ {l}
     /\ pc' = [t \in Msgs |-> IF t \in next THEN "woken"
                              ELSE IF t = m THEN after ELSE pc[t]]
     /\ mine' = [mine EXCEPT ![m] = 0]
     /\ batch' = [batch EXCEPT ![m] = <<>>]
     /\ UNCHANGED <<setup, arrived, msg, lockMap, waiters, bufMap, pending>>

(* A worker then goes back to its buffer.                                  *)
Finish(m) ==
  /\ pc[m] = "run"
  /\ Release(m, IF Buffered(msg[m].chat, msg[m].kind) THEN "sleep" ELSE "done")
  /\ UNCHANGED <<working, stranded>>

(* The run fails, and so does telling the user: the exception leaves the   *)
(* worker's loop, and the buffer waits for the next text.                  *)
WorkerDies(m) ==
  /\ ReplyMayFail
  /\ pc[m] = "run"
  /\ Buffered(msg[m].chat, msg[m].kind)
  /\ Release(m, "done")
  /\ working' = working \ {msg[m].chat}
  /\ stranded' = IF pending[msg[m].chat] = <<>> THEN stranded
                 ELSE stranded \cup {msg[m].chat}

TaskStep(m) == WorkerWakes(m) \/ Resume(m) \/ Finish(m)

Done ==
  /\ arrived = MaxMsgs
  /\ \A m \in Msgs : pc[m] = "done"
  /\ UNCHANGED vars

Next ==
  \/ \E c \in Chats, a \in Authors, k \in Kinds : Arrive(c, a, k)
  \/ \E m \in Msgs : TaskStep(m) \/ WorkerDies(m)
  \/ Done

Spec == Init /\ [][Next]_vars

(* The event loop runs every ready task, sleeps end and runs end.          *)
FairSpec == Spec /\ \A m \in Msgs : WF_vars(TaskStep(m))

-----------------------------------------------------------------------------
(* Properties.                                                             *)

Running(c) == {m \in 1 .. arrived : pc[m] = "run" /\ msg[m].chat = c}
InBatch(m) == {t \in Msgs : \E i \in DOMAIN batch[t] : batch[t][i] = m}
InBuffer(m) == \E c \in Chats : \E i \in DOMAIN pending[c] : pending[c][i] = m
IsText(m) == Buffered(msg[m].chat, msg[m].kind)

(* main.py:165, 651: messages of one group are handled serially.  When the *)
(* map has room for every chat, no two tasks answer in one chat; with less *)
(* room they may, but never with one lock.                                 *)
OneRunPerChat ==
  \A c \in Chats : \A m, n \in Running(c) :
    m # n => mine[m] # mine[n] /\ maxLocks < Cardinality(Chats)

(* qq-bridge app.py:525, "an active worker will drain this message": while *)
(* a text is in its chat's buffer, some task of that chat is a worker that *)
(* will look there again, unless the worker has died and nobody wrote      *)
(* since.                                                                  *)
BufferHasWorker ==
  \A c \in Chats : pending[c] # <<>> =>
    \/ c \in stranded
    \/ \E m \in 1 .. arrived :
         msg[m].chat = c /\ IsText(m) /\ pc[m] \notin {"none", "done"}

(* The texts of a chat are answered in the order they came in: when one is *)
(* being answered, the earlier ones are in the same batch or over, not in  *)
(* the buffer and not in another task's hands.                             *)
TextsInOrder ==
  \A t \in Msgs : pc[t] = "run" /\ IsText(t) =>
    \A m, n \in 1 .. arrived :
      /\ m < n
      /\ msg[m].chat = msg[t].chat /\ IsText(m)
      /\ n \in {batch[t][i] : i \in DOMAIN batch[t]}
      => ~InBuffer(m) /\ InBatch(m) \subseteq {t}

(* merge_pending_messages answers a batch as one run of the author of its  *)
(* first message, telling the model that "the user sent n messages in a    *)
(* row": the messages of a batch have one author.  feishu-bridge merges    *)
(* those of a group whatever their authors.                                *)
OneAuthor ==
  \A t \in Msgs : \A i, j \in DOMAIN batch[t] :
    \/ msg[batch[t][i]].author = msg[batch[t][j]].author
    \/ GroupsBuffered /\ msg[t].chat \in Groups

(* No text is lost on its way and none is answered twice, whatever the     *)
(* clean-ups forget: a message that arrives is in a buffer or in the hands *)
(* of a task, it leaves the buffer only into a batch, it never comes back  *)
(* there nor into another batch, and it leaves the batch with the end of   *)
(* the run that answers it.                                                *)
HandedOn ==
  /\ arrived' # arrived => InBuffer(arrived)' \/ InBatch(arrived)' # {}
  /\ \A m \in 1 .. arrived :
       /\ InBuffer(m) => InBuffer(m)' \/ InBatch(m)' # {}
       /\ ~InBuffer(m) => ~InBuffer(m)' /\ InBatch(m)' \subseteq InBatch(m)
       /\ \A t \in InBatch(m) : t \in InBatch(m)' \/ pc[t] = "run"

AnsweredOnce == [][HandedOn]_vars

(* Every message that arrives is taken and its task comes to an end,       *)
(* unless its chat is left without a worker.                               *)
EveryoneIsAnswered ==
  \A m \in Msgs :
    m <= arrived ~> \/ ~InBuffer(m) /\ InBatch(m) = {} /\ pc[m] = "done"
                    \/ m <= arrived /\ msg[m].chat \in stranded
=============================================================================
