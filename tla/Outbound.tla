------------------------------ MODULE Outbound ------------------------------
(***************************************************************************)
(* How the messages of a game reach one of its sockets.  The game thread   *)
(* takes one of a bounded number of slots for each message and leaves it   *)
(* to the event loop, which puts it into the socket's queue; a task sends  *)
(* what is queued, one after the other.  A client that does not read uses  *)
(* the slots up, and is disconnected.  Nothing here depends on another     *)
(* socket: the module models one, from its registration on.                *)
(*                                                                         *)
(* A queue is made anew when the game thread still had the socket in its   *)
(* hands while it was being forgotten: queues and their sender tasks are   *)
(* numbered, 0 stands for none.  A definition with an underscore is a      *)
(* faulty variant of the next one, used by none.                           *)
(***************************************************************************)
EXTENDS Integers, Sequences, FiniteSets

CONSTANTS
  MaxOutbound,   \* max_outbound_messages
  MaxMessages,   \* bound: the messages the game broadcasts
  MaxAsks        \* bound: requests of the client that the server answers

ASSUME BoundsAssumption == MaxOutbound \in Nat \ {0} /\ MaxMessages \in Nat /\ MaxAsks \in Nat

Queues == 1 .. 2           \* the first, and the one made while it is forgotten
Snapshot == 0              \* an answer to the client; game messages are 1, 2, ...
Messages == 0 .. MaxMessages

VARIABLES
  game,        \* the game thread: [pc, n], at message n
  registered,  \* the socket is in _all_ws
  made,        \* how many queues were made
  queue,       \* _send_queues[ws]: the current queue, or 0
  items,       \* [Queues -> what is in it]
  unfinished,  \* [Queues -> what join() waits for]
  task,        \* _send_tasks[ws]: the queue of the current sender, or 0
  sender,      \* [Queues -> [pc, m]]: its sender task
  backlog,     \* _send_backlog[ws], or -1 when there is none
  overflowed,  \* ws is in _overflowed_ws
  calls,       \* what call_soon_threadsafe left for the event loop
  closing,     \* how many times the socket was closed as slow
  stopping,    \* the event loop is in the middle of _stop_sender: its pc
  taken,       \* ... and what that took out of the dictionaries: [queue, task]
  handler,     \* the socket's handler: [pc, on], waiting on a queue
  socket,      \* reads, stalled or dead
  sent,        \* what the client has received
  asks         \* how often it has asked

thread == <<game, made>>
lists == <<queue, items, unfinished>>
senders == <<task, sender>>
slots == <<backlog, overflowed>>
stops == <<registered, stopping, taken>>
client == <<handler, socket, asks>>
vars == <<thread, lists, senders, slots, calls, closing, stops, client, sent>>

Idle == [pc |-> "idle", m |-> Snapshot]

-----------------------------------------------------------------------------
(* The game thread: _broadcast, then _send_raw for this socket.  The lock  *)
(* covers each look at the slots, nothing more.                            *)

GameBroadcasts ==
  /\ game.pc = "idle" /\ registered /\ game.n < MaxMessages
  /\ game' = [pc |-> "ensure", n |-> game.n + 1]
  /\ UNCHANGED <<made, lists, senders, slots, calls, closing, stops, client, sent>>

(* _ensure_sender: a queue if there is none, ... *)
MakeQueue ==
  IF queue = 0
  THEN made' = made + 1 /\ queue' = made + 1 /\ backlog' = 0
  ELSE UNCHANGED <<made, queue, backlog>>

GameEnsures ==
  /\ game.pc = "ensure" /\ MakeQueue
  /\ game' = [game EXCEPT !.pc = "task"]
  /\ UNCHANGED <<items, unfinished, senders, overflowed, calls, closing, stops, client, sent>>

(* ... and a task, which only the event loop can start. *)
GameAsksForTask_LeavesIt ==
  /\ game.pc = "task" /\ game' = [game EXCEPT !.pc = "reserve"]
  /\ UNCHANGED <<made, lists, senders, slots, calls, closing, stops, client, sent>>

GameAsksForTask ==
  /\ game.pc = "task" /\ game' = [game EXCEPT !.pc = "reserve"]
  /\ calls' = IF task = 0 THEN Append(calls, [do |-> "start", arg |-> 0]) ELSE calls
  /\ UNCHANGED <<made, lists, senders, slots, closing, stops, client, sent>>

Dropped == overflowed \/ backlog = -1

Full(used) == used >= MaxOutbound

GameReserves ==
  /\ game.pc = "reserve"
  /\ \/ /\ Dropped
        /\ game' = [game EXCEPT !.pc = "idle"] /\ UNCHANGED slots
     \/ /\ ~Dropped /\ Full(backlog)
        /\ game' = [game EXCEPT !.pc = "overflow"]
        /\ overflowed' = TRUE /\ UNCHANGED backlog
     \/ /\ ~Dropped /\ ~Full(backlog)
        /\ game' = [game EXCEPT !.pc = "post"]
        /\ backlog' = backlog + 1 /\ UNCHANGED overflowed
  /\ UNCHANGED <<made, lists, senders, calls, closing, stops, client, sent>>

GamePosts ==
  /\ game.pc \in {"post", "overflow"} /\ game' = [game EXCEPT !.pc = "idle"]
  /\ calls' = Append(calls, IF game.pc = "post" THEN [do |-> "enqueue", arg |-> game.n]
                                                ELSE [do |-> "overflow", arg |-> 0])
  /\ UNCHANGED <<made, lists, senders, slots, closing, stops, client, sent>>

-----------------------------------------------------------------------------
(* The event loop.  It runs one thing at a time: nothing below happens     *)
(* while _stop_sender is at work.                                          *)

LoopFree == stopping = "no"

(* _release_outbound_slot, n times. *)
Freed(n) == IF backlog > n THEN backlog - n ELSE IF backlog = -1 THEN -1 ELSE 0

Put_First(m) ==
  /\ items' = [items EXCEPT ![queue] = <<m>> \o @]
  /\ unfinished' = [unfinished EXCEPT ![queue] = @ + 1]

Put(m) ==
  /\ items' = [items EXCEPT ![queue] = Append(@, m)]
  /\ unfinished' = [unfinished EXCEPT ![queue] = @ + 1]

(* The handler of an overflow: what is queued goes, with its slots and     *)
(* those of `more` messages, and the socket is closed.                     *)
HandleOverflow_NoTaskDone(more) ==
  LET n == IF queue = 0 THEN 0 ELSE Len(items[queue]) IN
  /\ items' = [k \in Queues |-> IF k = queue THEN <<>> ELSE items[k]]
  /\ backlog' = Freed(n + more) /\ closing' = closing + 1
  /\ UNCHANGED unfinished

HandleOverflow(more) ==
  LET n == IF queue = 0 THEN 0 ELSE Len(items[queue]) IN
  /\ items' = [k \in Queues |-> IF k = queue THEN <<>> ELSE items[k]]
  /\ unfinished' = [k \in Queues |-> IF k = queue THEN unfinished[k] - n ELSE unfinished[k]]
  /\ backlog' = Freed(n + more) /\ closing' = closing + 1

(* _enqueue_reserved.  The queue is full only when a slot of the queue     *)
(* before it was given back in its name.                                   *)
EnqueueReserved_KeepsSlot(m) ==
  IF queue = 0 \/ overflowed
  THEN UNCHANGED <<items, unfinished, slots, closing>>
  ELSE Put(m) /\ UNCHANGED <<slots, closing>>

EnqueueReserved(m) ==
  IF queue = 0 \/ overflowed
  THEN backlog' = Freed(1) /\ UNCHANGED <<items, unfinished, overflowed, closing>>
  ELSE IF Len(items[queue]) >= MaxOutbound
  THEN HandleOverflow(1) /\ overflowed' = TRUE
  ELSE Put(m) /\ UNCHANGED <<slots, closing>>

StartTask(q) ==
  IF task = 0 /\ q # 0
  THEN task' = q /\ sender' = [sender EXCEPT ![q] = [Idle EXCEPT !.pc = "get"]]
  ELSE UNCHANGED senders

Run(what) ==
  LoopFree /\ calls # <<>> /\ Head(calls).do = what /\ calls' = Tail(calls)

RunStart ==
  /\ Run("start") /\ StartTask(queue)
  /\ UNCHANGED <<thread, lists, slots, closing, stops, client, sent>>

RunEnqueue ==
  /\ Run("enqueue") /\ EnqueueReserved(Head(calls).arg)
  /\ UNCHANGED <<thread, queue, senders, stops, client, sent>>

RunOverflow ==
  /\ Run("overflow") /\ HandleOverflow(0)
  /\ UNCHANGED <<thread, queue, overflowed, senders, stops, client, sent>>

(* The last part of _stop_sender: the queue is emptied and the task        *)
(* cancelled, if it was not done.  What it was sending is given up.        *)
RunStop ==
  LET q == Head(calls).arg.queue
      t == Head(calls).arg.task
      cut == t # 0 /\ sender[t].pc = "sending"
  IN
  /\ Run("stop")
  /\ items' = [k \in Queues |-> IF k = q THEN <<>> ELSE items[k]]
  /\ unfinished' = [k \in Queues |-> unfinished[k] - (IF k = q THEN Len(items[k]) ELSE 0)
                                                   - (IF k = t /\ cut THEN 1 ELSE 0)]
  /\ sender' = [k \in Queues |-> IF k = t THEN [Idle EXCEPT !.pc = "done"] ELSE sender[k]]
  /\ backlog' = IF cut THEN Freed(1) ELSE backlog
  /\ UNCHANGED <<thread, queue, task, overflowed, closing, stops, client, sent>>

(* _send_loop. *)
Get(k) ==
  /\ LoopFree /\ sender[k].pc = "get" /\ items[k] # <<>>
  /\ sender' = [sender EXCEPT ![k] = [pc |-> "sending", m |-> Head(items[k])]]
  /\ items' = [items EXCEPT ![k] = Tail(@)]
  /\ UNCHANGED <<thread, queue, unfinished, task, slots, calls, closing, stops, client, sent>>

Sends(k) ==
  /\ LoopFree /\ sender[k].pc = "sending" /\ socket = "reads"
  /\ sent' = Append(sent, sender[k].m)
  /\ sender' = [sender EXCEPT ![k] = [Idle EXCEPT !.pc = "get"]]
  /\ unfinished' = [unfinished EXCEPT ![k] = @ - 1] /\ backlog' = Freed(1)
  /\ UNCHANGED <<thread, queue, items, task, overflowed, calls, closing, stops, client>>

(* The first send that fails ends the task; the queue stays. *)
SendFails(k) ==
  /\ LoopFree /\ sender[k].pc = "sending" /\ socket = "dead"
  /\ sender' = [sender EXCEPT ![k] = [Idle EXCEPT !.pc = "failed"]]
  /\ unfinished' = [unfinished EXCEPT ![k] = @ - 1] /\ backlog' = Freed(1)
  /\ UNCHANGED <<thread, queue, items, task, overflowed, calls, closing, stops, client, sent>>

CloseSlowClient ==
  /\ LoopFree /\ closing > 0 /\ socket # "dead"
  /\ socket' = "dead"
  /\ UNCHANGED <<thread, lists, senders, slots, calls, closing, stops, handler, asks, sent>>

-----------------------------------------------------------------------------
(* The socket's handler.  A sync_request or a rejected answer is answered  *)
(* through the same queue, from the event loop itself, and the handler     *)
(* waits until all that is queued has been sent.                           *)

Answers ==
  LET q == IF queue = 0 THEN made + 1 ELSE queue
      used == IF queue = 0 THEN 0 ELSE backlog
  IN
  /\ LoopFree /\ handler.pc = "loop" /\ registered /\ socket # "dead" /\ asks < MaxAsks
  /\ asks' = asks + 1 /\ handler' = [pc |-> "wait", on |-> q]
  /\ queue' = q /\ made' = IF queue = 0 THEN q ELSE made
  /\ StartTask(q)
  /\ \/ overflowed /\ UNCHANGED <<items, unfinished, slots, closing>>
     \/ ~overflowed /\ Full(used) /\ overflowed' = TRUE /\ HandleOverflow(0)
     \/ /\ ~overflowed /\ ~Full(used) /\ backlog' = used + 1
        /\ items' = [items EXCEPT ![q] = Append(@, Snapshot)]
        /\ unfinished' = [unfinished EXCEPT ![q] = @ + 1]
        /\ UNCHANGED <<overflowed, closing>>
  /\ UNCHANGED <<game, calls, stops, socket, sent>>

(* wait_for_client_messages: queue.join(). *)
Joined ==
  /\ LoopFree /\ handler.pc = "wait" /\ unfinished[handler.on] = 0
  /\ handler' = [pc |-> "loop", on |-> 0]
  /\ UNCHANGED <<thread, lists, senders, slots, calls, closing, stops, socket, asks, sent>>

(* remove_client_for_player for the socket's last player: the handler's    *)
(* finally clause, or a claim by another browser, which then closes this   *)
(* socket.  _stop_sender takes its things away one by one.                 *)
HandlerEnds ==
  /\ LoopFree /\ handler.pc = "loop" /\ socket = "dead"
  /\ handler' = [pc |-> "gone", on |-> 0]
  /\ registered' = FALSE
  /\ stopping' = IF registered THEN "queue" ELSE "no"
  /\ UNCHANGED <<thread, lists, senders, slots, calls, closing, taken, socket, asks, sent>>

Replaced ==
  /\ LoopFree /\ registered
  /\ registered' = FALSE /\ stopping' = "queue"
  /\ UNCHANGED <<thread, lists, senders, slots, calls, closing, taken, client, sent>>

StopQueue ==
  /\ stopping = "queue" /\ stopping' = "task"
  /\ taken' = [taken EXCEPT !.queue = queue] /\ queue' = 0
  /\ UNCHANGED <<thread, items, unfinished, senders, slots, calls, closing, registered>>
  /\ UNCHANGED <<client, sent>>

StopTask ==
  /\ stopping = "task" /\ stopping' = "slots"
  /\ taken' = [taken EXCEPT !.task = task] /\ task' = 0
  /\ UNCHANGED <<thread, lists, sender, slots, calls, closing, registered, client, sent>>

StopSlots ==
  /\ stopping = "slots" /\ stopping' = "no"
  /\ backlog' = -1 /\ overflowed' = FALSE
  /\ calls' = Append(calls, [do |-> "stop", arg |-> taken])
  /\ UNCHANGED <<thread, lists, senders, closing, registered, taken, client, sent>>

-----------------------------------------------------------------------------
(* The client stops reading, reads again, or is lost. *)
Stalls ==
  /\ socket = "reads" /\ socket' = "stalled"
  /\ UNCHANGED <<thread, lists, senders, slots, calls, closing, stops, handler, asks, sent>>

ReadsAgain ==
  /\ socket = "stalled" /\ socket' = "reads"
  /\ UNCHANGED <<thread, lists, senders, slots, calls, closing, stops, handler, asks, sent>>

Dies ==
  /\ socket # "dead" /\ socket' = "dead"
  /\ UNCHANGED <<thread, lists, senders, slots, calls, closing, stops, handler, asks, sent>>

Init ==
  /\ game = [pc |-> "idle", n |-> 0] /\ made = 0
  /\ queue = 0 /\ items = [k \in Queues |-> <<>>] /\ unfinished = [k \in Queues |-> 0]
  /\ task = 0 /\ sender = [k \in Queues |-> Idle]
  /\ backlog = -1 /\ overflowed = FALSE /\ calls = <<>> /\ closing = 0
  /\ registered = TRUE /\ stopping = "no" /\ taken = [queue |-> 0, task |-> 0]
  /\ handler = [pc |-> "loop", on |-> 0] /\ socket = "reads"
  /\ sent = <<>> /\ asks = 0

GameSends == GameEnsures \/ GameAsksForTask \/ GameReserves \/ GamePosts
RunCall == RunStart \/ RunEnqueue \/ RunOverflow \/ RunStop
SendLoop(k) == Get(k) \/ Sends(k) \/ SendFails(k)
Handle == Joined \/ HandlerEnds \/ StopQueue \/ StopTask \/ StopSlots

Next ==
  \/ GameBroadcasts \/ GameSends \/ RunCall \/ CloseSlowClient \/ Handle \/ Answers \/ Replaced
  \/ \E k \in Queues : SendLoop(k)
  \/ Stalls \/ ReadsAgain \/ Dies

Spec == Init /\ [][Next]_vars

(* The event loop goes on, and the game thread with what it has begun: it  *)
(* need not say more, it waits for its players.  A client that reads again *)
(* and again takes what is sent, and one that does not answer is lost at   *)
(* last (the library pings it).                                            *)
FairSpec ==
  /\ Spec /\ WF_vars(GameSends) /\ WF_vars(RunCall) /\ WF_vars(CloseSlowClient)
  /\ WF_vars(Handle) /\ WF_vars(ReadsAgain \/ (socket = "stalled" /\ Dies))
  /\ \A k \in Queues : SF_vars(SendLoop(k))

-----------------------------------------------------------------------------
(* Properties. *)

TypeOK ==
  /\ game \in [pc : {"idle", "ensure", "task", "reserve", "post", "overflow"}, n : Messages]
  /\ made \in {0} \cup Queues /\ queue \in {0} \cup Queues /\ task \in {0} \cup Queues
  /\ \A k \in Queues : items[k] \in Seq(Messages) /\ Len(items[k]) <= MaxOutbound
  /\ unfinished \in [Queues -> Nat]
  /\ sender \in [Queues -> [pc : {"idle", "get", "sending", "failed", "done"}, m : Messages]]
  /\ backlog \in -1 .. MaxOutbound /\ overflowed \in BOOLEAN /\ closing \in Nat
  /\ stopping \in {"no", "queue", "task", "slots"}
  /\ handler.pc \in {"loop", "wait", "gone"} /\ handler.on \in {0} \cup Queues
  /\ socket \in {"reads", "stalled", "dead"}

Sending(k) == IF sender[k].pc = "sending" THEN 1 ELSE 0
Posted == {i \in DOMAIN calls : calls[i].do = "enqueue"}
Reserved == Cardinality(Posted) + (IF game.pc = "post" THEN 1 ELSE 0)

(* _send_backlog: while the socket plays, the slots in use are exactly the *)
(* messages on their way: reserved, queued or being sent.  A slot that was *)
(* not given back would disconnect a client that reads.                    *)
SlotsExact ==
  /\ TypeOK
  /\ registered /\ queue # 0 =>
       backlog = Reserved + Len(items[queue]) + Sending(queue)

(* The game's messages in s are those after a up to b, each once, in turn. *)
InTurn(s, a, b) ==
  /\ {s[i] : i \in DOMAIN s} \ {Snapshot} = a + 1 .. b
  /\ \A i, j \in DOMAIN s : i < j /\ s[i] # Snapshot /\ s[j] # Snapshot => s[i] < s[j]

(* _send_loop: "one client observes engine order".  What a client has      *)
(* received is the beginning of what was broadcast to it, without gaps,    *)
(* until another browser takes its place.                                  *)
InOrder == registered => \E n \in 0 .. game.n : InTurn(sent, 0, n)

(* A message of the game reaches a client that stays, and does not fall    *)
(* behind.                                                                 *)
Delivered ==
  \A n \in 1 .. MaxMessages :
    (game.n = n) ~> (~registered \/ overflowed \/ socket = "dead" \/ \E i \in 1 .. Len(sent) : sent[i] = n)

(* wait_for_client_messages: a handler that waits for the queue goes on,   *)
(* unless the task that empties the queue has ended at a failed send.      *)
WaitEnds ==
  (handler.pc = "wait") ~>
    (handler.pc # "wait" \/ \E k \in Queues : sender[k].pc = "failed" /\ items[k] # <<>>)

=============================================================================
