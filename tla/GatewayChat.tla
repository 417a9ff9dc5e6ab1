----------------------------- MODULE GatewayChat -----------------------------
(***************************************************************************)
(* apps/assistant-gateway/gateway.py, POST /api/obsidian/chat: the handler *)
(* thread of a request (do_POST), the thread that watches for its client   *)
(* going away (_watch_client_disconnect), the model child it spawns        *)
(* (gateway_runner.py) and the RequestQueue they share.                    *)
(*                                                                         *)
(* stage[r] is how far the handler of r is; inside wait_turn the queue's   *)
(* own pc[r] says more.  A slot r serves one request after the other; its  *)
(* watcher is gone before the next one comes.                              *)
(*                                                                         *)
(* Left out: what is asked and answered, the log, the prewarm pool (a      *)
(* prewarmed child is claimed where another one is spawned), and the       *)
(* OpenAI protocol, which runs no child.                                   *)
(***************************************************************************)
EXTENDS RequestQueue

CONSTANTS
  HeadersMayFail   \* may writing the SSE headers raise (client reset)?

ASSUME ChatAssumption == HeadersMayFail \in BOOLEAN

VARIABLES
  stage,     \* "idle", "open", "line", "prep", "read", "reap", "end", "gone"
  client,    \* "here", "left" (closed its socket), "seen" (client_gone set)
  watcher,   \* "off", "recv", "saw"
  child,     \* "none", "live", "dead"
  late       \* claude_timeout has passed since the child was spawned

hvars == <<stage, client, watcher, child, late>>
vars  == <<qvars, hvars>>

Stages == {"idle", "open", "line", "prep", "read", "reap", "end", "gone"}

TypeOK ==
  /\ QueueTypeOK
  /\ stage \in [Requests -> Stages]
  /\ client \in [Requests -> {"here", "left", "seen"}]
  /\ watcher \in [Requests -> {"off", "recv", "saw"}]
  /\ child \in [Requests -> {"none", "live", "dead"}]
  /\ late \in [Requests -> BOOLEAN]

Init ==
  /\ QueueInit
  /\ stage = [r \in Requests |-> "idle"]
  /\ client = [r \in Requests |-> "here"]
  /\ watcher = [r \in Requests |-> "off"]
  /\ child = [r \in Requests |-> "none"]
  /\ late = [r \in Requests |-> FALSE]

-----------------------------------------------------------------------------
(* The handler thread.                                                     *)

AfterQueue(p) ==
  IF p = "in" THEN "prep" ELSE IF p \in InLine THEN "line" ELSE "idle"

(* A request that could be parsed comes in and asks for the slot.  A full  *)
(* line is answered 503 at once; a stream first opens its response.        *)
Post(r, s) ==
  /\ stage[r] = "idle" /\ watcher[r] = "off"
  /\ TryEnter(r, s)
  /\ stage' = [stage EXCEPT ![r] =
                 IF s = "stream" /\ pc'[r] # "full" THEN "open" ELSE AfterQueue(pc'[r])]
  /\ client' = [client EXCEPT ![r] = "here"]
  /\ child' = [child EXCEPT ![r] = "none"]
  /\ UNCHANGED <<watcher, late>>

(* _start_sse, the first status (its OSError is swallowed) and the start   *)
(* of the watcher.                                                         *)
Open(r) ==
  /\ stage[r] = "open"
  /\ stage' = [stage EXCEPT ![r] = AfterQueue(pc[r])]
  /\ watcher' = [watcher EXCEPT ![r] = "recv"]
  /\ UNCHANGED <<qvars, client, child, late>>

(* The headers cannot be written: the OSError leaves do_POST before its    *)
(* try block and before there is a watcher, and the thread is gone.        *)
OpenRaises(r) ==
  /\ HeadersMayFail
  /\ stage[r] = "open" /\ client[r] = "left"
  /\ stage' = [stage EXCEPT ![r] = "gone"]
  /\ UNCHANGED <<qvars, client, watcher, child, late>>

(* wait_turn.  A heartbeat cannot get out once client_gone is set; until   *)
(* then a write to a closed socket may or may not be noticed.              *)
InTurn(r) ==
  /\ stage[r] = "line"
  /\ \/ TakeTurn(r) \/ GiveUp(r) \/ Sleep(r) \/ WaitTimesOut(r)
     \/ StartBeat(r) \/ DropTicket(r)
     \/ client[r] # "seen" /\ BeatGoesOut(r)
     \/ client[r] # "here" /\ BeatFails(r)
  /\ stage' = [stage EXCEPT ![r] = AfterQueue(pc'[r])]
  /\ UNCHANGED <<client, watcher, child, late>>

Clock(r) ==
  \/ stage[r] = "line" /\ Tick(r) /\ UNCHANGED hvars
  \/ /\ stage[r] = "read" /\ ~late[r]
     /\ late' = [late EXCEPT ![r] = TRUE]
     /\ UNCHANGED <<qvars, stage, client, watcher, child>>

(* The prompt is built and the model child spawned; or something on the    *)
(* way raises.  Wrong variant: the exception escapes the finally.          *)
Spawn(r) ==
  /\ stage[r] = "prep"
  /\ stage' = [stage EXCEPT ![r] = "read"]
  /\ child' = [child EXCEPT ![r] = "live"]
  /\ late' = [late EXCEPT ![r] = FALSE]
  /\ UNCHANGED <<qvars, client, watcher>>

PrepEscapes(r) ==
  /\ stage[r] = "prep"
  /\ stage' = [stage EXCEPT ![r] = "idle"]
  /\ UNCHANGED <<qvars, client, watcher, child, late>>

PrepRaises(r) ==
  /\ stage[r] = "prep"
  /\ stage' = [stage EXCEPT ![r] = "end"]
  /\ UNCHANGED <<qvars, client, watcher, child, late>>

(* Reading the child's output ends with its end of file ...                *)
ReadsEof(r) ==
  /\ stage[r] = "read" /\ child[r] = "dead"
  /\ stage' = [stage EXCEPT ![r] = "reap"]
  /\ UNCHANGED <<qvars, client, watcher, child, late>>

(* ... or, for a stream, with a line of output: the result, one that comes *)
(* after the deadline, or one that cannot be forwarded ...                 *)
LineEndsRead(r) ==
  /\ stage[r] = "read" /\ child[r] = "live" /\ style[r] = "stream"
  /\ stage' = [stage EXCEPT ![r] = "reap"]
  /\ UNCHANGED <<qvars, client, watcher, child, late>>

(* ... or, without a stream, with the timeout of subprocess.run.  Wrong    *)
(* variant: there is none.                                                 *)
RunHasNoTimeout(r) == FALSE

RunTimesOut(r) ==
  /\ stage[r] = "read" /\ style[r] = "plain" /\ late[r]
  /\ stage' = [stage EXCEPT ![r] = "reap"]
  /\ UNCHANGED <<qvars, client, watcher, child, late>>

(* The finally of run_claude_stream, and subprocess.run: the child is      *)
(* killed and reaped on every path.  Wrong variant: it is left running.    *)
ReapForgets(r) ==
  /\ stage[r] = "reap"
  /\ stage' = [stage EXCEPT ![r] = "end"]
  /\ UNCHANGED <<qvars, client, watcher, child, late>>

Reap(r) ==
  /\ stage[r] = "reap"
  /\ child' = [child EXCEPT ![r] = "dead"]
  /\ stage' = [stage EXCEPT ![r] = "end"]
  /\ UNCHANGED <<qvars, client, watcher, late>>

(* The finally of do_POST: watch["finished"], release, the answer.         *)
Finish(r) ==
  /\ stage[r] = "end"
  /\ Release(r)
  /\ stage' = [stage EXCEPT ![r] = "idle"]
  /\ UNCHANGED <<client, watcher, child, late>>

-----------------------------------------------------------------------------
(* The client, the watcher and the child.                                  *)

ClientLeaves(r) ==
  /\ stage[r] \notin {"idle", "gone"} /\ client[r] = "here"
  /\ client' = [client EXCEPT ![r] = "left"]
  /\ UNCHANGED <<qvars, stage, watcher, child, late>>

(* recv returns: client_gone is set.  When the request is over the         *)
(* connection is closed, which ends recv too.                              *)
WatcherSees(r) ==
  /\ watcher[r] = "recv"
  /\ client[r] = "left" \/ stage[r] = "idle"
  /\ watcher' = [watcher EXCEPT ![r] = "saw"]
  /\ client' = [client EXCEPT ![r] = "seen"]
  /\ UNCHANGED <<qvars, stage, child, late>>

(* It looks once at "finished" and at "proc", and kills what it finds.     *)
(* Wrong variant: it only sets the flag.                                   *)
WatcherTells(r) ==
  /\ watcher[r] = "saw"
  /\ watcher' = [watcher EXCEPT ![r] = "off"]
  /\ UNCHANGED <<qvars, stage, client, child, late>>

WatcherActs(r) ==
  /\ watcher[r] = "saw"
  /\ watcher' = [watcher EXCEPT ![r] = "off"]
  /\ child' = [child EXCEPT ![r] =
                 IF stage[r] # "idle" /\ @ = "live" THEN "dead" ELSE @]
  /\ UNCHANGED <<qvars, stage, client, late>>

ChildExits(r) ==
  /\ child[r] = "live"
  /\ child' = [child EXCEPT ![r] = "dead"]
  /\ UNCHANGED <<qvars, stage, client, watcher, late>>

-----------------------------------------------------------------------------
Handler(r) ==
  \/ Open(r) \/ InTurn(r) \/ Spawn(r) \/ PrepRaises(r)
  \/ ReadsEof(r) \/ RunTimesOut(r) \/ Reap(r) \/ Finish(r)

Watcher(r) == WatcherSees(r) \/ WatcherActs(r)

Next ==
  \E r \in Requests :
    \/ \E s \in Styles : Post(r, s)
    \/ Handler(r) \/ OpenRaises(r) \/ LineEndsRead(r) \/ Clock(r)
    \/ ClientLeaves(r) \/ Watcher(r) \/ ChildExits(r)

Spec == Init /\ [][Next]_vars

(* What the gateway's own process guarantees: its threads run and its      *)
(* clocks advance.  Clients and children do as they please.                *)
CodeSpec ==
  Spec /\ \A r \in Requests : WF_vars(Handler(r)) /\ WF_vars(Watcher(r)) /\ WF_vars(Clock(r))

(* What it hopes for: every child ends by itself sooner or later.          *)
ChildrenEnd == \A r \in Requests : WF_vars(ChildExits(r))

-----------------------------------------------------------------------------
(* Properties.                                                             *)

(* One model at a time: a live child belongs to the request that holds the *)
(* slot, whose handler is still reading from it or about to reap it.  The  *)
(* watcher, a timeout and an exception all pass the slot on only when the  *)
(* child is gone (gateway.py do_POST, gateway_runner.py finally).          *)
ChildHasSlot ==
  \A r \in Requests : child[r] = "live" => pc[r] = "in" /\ stage[r] \in {"read", "reap"}

(* Whoever is held by the queue has a handler thread that will move on: a  *)
(* slot or a ticket never outlives its thread.                             *)
NothingLeaks ==
  \A r \in Requests : stage[r] \in {"idle", "gone"} => pc[r] \in Outside

(* Timeouts, failing heartbeats, failing model runs and clients that leave *)
(* at any time never cost the gateway its slot: whatever happens after the *)
(* headers, a thread that has ended holds neither slot nor ticket.         *)
OnlyHeadersLeak ==
  \A r \in Requests : stage[r] = "idle" => pc[r] \in Outside

(* The handlers use the queue as it wants to be used: every step of the    *)
(* gateway is a step of RequestQueue or leaves it alone.                   *)
UsesQueue == QueueSpec

(* Whoever left lets go of what others wait for: in the line the failing   *)
(* heartbeat drops the ticket (README "v0.3"), and a silent model is       *)
(* killed by the watcher (gateway.py:627), if it has not looked before     *)
(* there was a child.                                                      *)
LeaversLetGo ==
  \A r \in Requests :
    /\ stage[r] = "line" /\ client[r] # "here" ~> stage[r] # "line"
    /\ stage[r] = "read" /\ client[r] # "here" /\ watcher[r] # "off" ~> stage[r] # "read"

(* A request without a stream is answered whatever the children of others  *)
(* do: it waits no longer than its deadline and runs no longer than its    *)
(* model timeout.                                                          *)
PlainIsAnswered ==
  \A r \in Requests : style[r] = "plain" /\ stage[r] # "idle" ~> stage[r] = "idle"

(* When children end and no slot is lost to a failed header, every request *)
(* is answered: handler, watcher and queue never wait for each other for   *)
(* ever.                                                                   *)
EveryoneIsAnswered ==
  ChildrenEnd /\ []NothingLeaks =>
    \A r \in Requests : stage[r] # "idle" ~> stage[r] = "idle"
=============================================================================
