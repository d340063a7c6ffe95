------------------------------- MODULE Prompt -------------------------------
(***************************************************************************)
(* How the game thread asks the players.  The game runs in a thread of its *)
(* own; the server's event loop, another thread, reads the sockets.  They  *)
(* share the fields of WebSocketPlayerInput and no lock: an action here is *)
(* one step of one of the threads, or of a client.                         *)
(*                                                                         *)
(* Requests are numbered, which the code does for presentations only.  A   *)
(* prompt's number and that of a response are history: no guard of the     *)
(* server reads them.                                                      *)
(*                                                                         *)
(* A definition with an underscore is a faulty variant of the next one,    *)
(* used by none.                                                           *)
(***************************************************************************)
EXTENDS Integers, Sequences, FiniteSets

CONSTANTS
  Players, Sockets, None,
  First,         \* [Players -> the socket each player has when the game starts]
  Presents,      \* TRUE: the game also shows presentations
  MaxRequests,   \* bound: prompts and presentations
  MaxAsides      \* bound: sync and save requests the clients send

Requests == 1 .. MaxRequests
Kinds == {"PRE_ROLL", "OTHER"}

ASSUME NoneAssumption ==
  /\ None \notin Players \cup Sockets \cup Requests \cup [player : Players, n : Requests]
                \cup [pc : {"write", "set"}, player : Players, n : Requests]
  /\ None \notin Kinds
ASSUME FirstAssumption ==
  First \in [Players -> Sockets] /\ \A p, q \in Players : p # q => First[p] # First[q]
ASSUME BoundsAssumption == MaxRequests \in Nat /\ MaxAsides \in Nat

VARIABLES
  game,          \* game thread: [pc, n, player, kind, version of the state]
  ready,         \* _response_ready
  response,      \* _response: [player, n] of the answer, or None
  expecting,     \* _expecting_player
  expectedKind,  \* _expecting_request_type
  prompt,        \* _pending_request: its number, or None
  presentation,  \* _pending_presentation
  ackReady,      \* _presentation_ack_ready
  socketOf,      \* _player_ws
  loop,          \* the handler the event loop is in the middle of, or None
  conn,          \* [Sockets -> new, joining, open, rejected, lost or gone]
  inbox,         \* messages on their way to each client
  outbox,        \* and from each client
  client,        \* [Sockets -> player, prompt shown, answer pending, presentations]
  acked,         \* history: [Requests -> the players who acknowledged it]
  answered,      \* history: the prompts some client has answered
  again,         \* history: some prompt was answered more than once
  saved,         \* the last save file: what each half of it shows, or None
  asides         \* sync and save requests sent (bounded by MaxAsides)

fields == <<ready, response, expecting, expectedKind, prompt, presentation, ackReady>>
wires == <<conn, inbox, outbox, client>>
history == <<acked, answered, again>>
vars == <<game, fields, socketOf, loop, wires, history, saved, asides>>

Blank == [player |-> None, prompt |-> None, busy |-> FALSE, shown |-> {}, sent |-> {}]
Up == {"joining", "open", "rejected"}

(* _broadcast: to every socket that has a player. *)
Broadcast(msg) ==
  inbox' = [s \in Sockets |->
              IF conn[s] \in Up /\ \E p \in Players : socketOf[p] = s
              THEN Append(inbox[s], msg) ELSE inbox[s]]

PromptMsg(n, p, kind) == [type |-> "prompt", n |-> n, player |-> p, kind |-> kind]
ShowMsg(n, p) == [type |-> "show", n |-> n, player |-> p]
ResolvedMsg(n) == [type |-> "resolved", n |-> n]

-----------------------------------------------------------------------------
(* The game thread. *)

Step(from, to) == game.pc = from /\ game' = [game EXCEPT !.pc = to]

(* The handlers change the state, and then something must be asked. *)
Mutate ==
  /\ game.pc = "run"
  /\ game' = [game EXCEPT !.pc = "ask", !.version = @ + 1]
  /\ UNCHANGED <<fields, socketOf, loop, wires, history, saved, asides>>

Begin(pc, p, kind) ==
  /\ game.pc = "ask" /\ game.n < MaxRequests
  /\ game' = [game EXCEPT !.pc = pc, !.n = @ + 1, !.player = p, !.kind = kind]

(* _request_input, an assignment or a group of them at a time. *)
ClearReady_NotCleared ==
  /\ \E p \in Players, kind \in Kinds : Begin("reset", p, kind)
  /\ UNCHANGED <<fields, socketOf, loop, wires, history, saved, asides>>

ClearReady ==
  /\ \E p \in Players, kind \in Kinds : Begin("reset", p, kind)
  /\ ready' = FALSE
  /\ UNCHANGED <<response, expecting, expectedKind, prompt, presentation, ackReady>>
  /\ UNCHANGED <<socketOf, loop, wires, history, saved, asides>>

ResetResponse ==
  /\ Step("reset", "expect") /\ response' = None
  /\ UNCHANGED <<ready, expecting, expectedKind, prompt, presentation, ackReady>>
  /\ UNCHANGED <<socketOf, loop, wires, history, saved, asides>>

Expect ==
  /\ Step("expect", "broadcast")
  /\ expecting' = game.player /\ expectedKind' = game.kind /\ prompt' = game.n
  /\ UNCHANGED <<ready, response, presentation, ackReady>>
  /\ UNCHANGED <<socketOf, loop, wires, history, saved, asides>>

BroadcastPrompt ==
  /\ Step("broadcast", "wait")
  /\ Broadcast(PromptMsg(game.n, game.player, game.kind))
  /\ UNCHANGED <<fields, socketOf, loop, conn, outbox, client, history, saved, asides>>

Wake ==
  /\ Step("wait", "return") /\ ready
  /\ expecting' = None /\ expectedKind' = None /\ prompt' = None
  /\ UNCHANGED <<ready, response, presentation, ackReady>>
  /\ UNCHANGED <<socketOf, loop, wires, history, saved, asides>>

ReturnResponse ==
  /\ Step("return", "run")
  /\ UNCHANGED <<fields, socketOf, loop, wires, history, saved, asides>>

(* present, likewise. *)
Present ==
  /\ Presents /\ \E p \in Players : Begin("show", p, None)
  /\ ackReady' = FALSE /\ presentation' = game.n + 1
  /\ UNCHANGED <<ready, response, expecting, expectedKind, prompt>>
  /\ UNCHANGED <<socketOf, loop, wires, history, saved, asides>>

BroadcastPresentation ==
  /\ Step("show", "watch") /\ Broadcast(ShowMsg(game.n, game.player))
  /\ UNCHANGED <<fields, socketOf, loop, conn, outbox, client, history, saved, asides>>

Resolve ==
  /\ Step("watch", "resolved") /\ ackReady /\ Broadcast(ResolvedMsg(game.n))
  /\ UNCHANGED <<fields, socketOf, loop, conn, outbox, client, history, saved, asides>>

Unpresent ==
  /\ Step("resolved", "run") /\ presentation' = None
  /\ UNCHANGED <<ready, response, expecting, expectedKind, prompt, ackReady>>
  /\ UNCHANGED <<socketOf, loop, wires, history, saved, asides>>

GameStep == Mutate \/ ClearReady \/ ResetResponse \/ Expect \/ BroadcastPrompt \/ Wake
            \/ ReturnResponse \/ Present \/ BroadcastPresentation \/ Resolve \/ Unpresent

-----------------------------------------------------------------------------
(* The event loop.  It runs one handler at a time; a handler that awaits   *)
(* lets others run.  Between the statements of a handler only the game     *)
(* thread can come.                                                        *)

LoopFree == loop = None
Reading(s, type) ==
  /\ LoopFree /\ conn[s] \in {"open", "lost"} /\ outbox[s] # <<>>
  /\ Head(outbox[s]).type = type
Read(s) == outbox' = [outbox EXCEPT ![s] = Tail(@)]

Accepts(s, msg) ==
  expecting # None /\ msg.player = expecting /\ socketOf[msg.player] = s

(* receive_response: the checks, then _response, then the event. *)
CheckResponse(s) ==
  /\ Reading(s, "response") /\ Read(s)
  /\ LET msg == Head(outbox[s]) IN
     /\ Accepts(s, msg)
     /\ loop' = [pc |-> "write", player |-> msg.player, n |-> msg.n]
  /\ UNCHANGED <<game, fields, socketOf, conn, inbox, client, history, saved, asides>>

WriteResponse ==
  /\ loop # None /\ loop.pc = "write"
  /\ response' = [player |-> loop.player, n |-> loop.n]
  /\ loop' = [loop EXCEPT !.pc = "set"]
  /\ UNCHANGED <<ready, expecting, expectedKind, prompt, presentation, ackReady>>
  /\ UNCHANGED <<game, socketOf, wires, history, saved, asides>>

SetReady ==
  /\ loop # None /\ loop.pc = "set"
  /\ ready' = TRUE /\ loop' = None
  /\ UNCHANGED <<response, expecting, expectedKind, prompt, presentation, ackReady>>
  /\ UNCHANGED <<game, socketOf, wires, history, saved, asides>>

(* A response that is not accepted: if the socket has lost the player it   *)
(* is closed, else it is told so, and sent a snapshot once that is out.    *)
Closed(s) ==
  /\ conn' = [conn EXCEPT ![s] = "lost"]
  /\ inbox' = [inbox EXCEPT ![s] = <<>>]
  /\ client' = [client EXCEPT ![s] = Blank]

RejectResponse(s) ==
  /\ Reading(s, "response") /\ Read(s)
  /\ LET msg == Head(outbox[s]) IN
     /\ ~Accepts(s, msg)
     /\ IF socketOf[msg.player] # s THEN Closed(s)
        ELSE /\ conn' = [conn EXCEPT ![s] = IF @ = "open" THEN "rejected" ELSE @]
             /\ inbox' = [inbox EXCEPT ![s] = Append(@, [type |-> "rejected"])]
             /\ UNCHANGED client
  /\ UNCHANGED <<game, fields, socketOf, loop, history, saved, asides>>

(* send_snapshot_to_client: any active prompt, and any presentation. *)
Snapshot_StateOnly == <<>>
Snapshot ==
  (IF prompt = None THEN <<>> ELSE <<PromptMsg(prompt, game.player, game.kind)>>)
  \o (IF presentation = None THEN <<>> ELSE <<ShowMsg(presentation, game.player)>>)

Resync(s) ==
  /\ LoopFree /\ conn[s] = "rejected"
  /\ conn' = [conn EXCEPT ![s] = "open"]
  /\ inbox' = [inbox EXCEPT ![s] = @ \o Snapshot]
  /\ UNCHANGED <<game, fields, socketOf, loop, outbox, client, history, saved, asides>>

HandleSync(s) ==
  /\ Reading(s, "sync") /\ Read(s)
  /\ inbox' = IF \E p \in Players : socketOf[p] = s /\ conn[s] = "open"
              THEN [inbox EXCEPT ![s] = @ \o Snapshot] ELSE inbox
  /\ UNCHANGED <<game, fields, socketOf, loop, conn, client, history, saved, asides>>

(* receive_presentation_ack *)
ReceiveAck_AnyRequest(s) ==
  /\ Reading(s, "ack") /\ Read(s)
  /\ LET msg == Head(outbox[s]) IN
     ackReady' = (ackReady \/ (presentation # None /\ msg.player = game.player
                                 /\ socketOf[msg.player] = s))
  /\ UNCHANGED <<ready, response, expecting, expectedKind, prompt, presentation>>
  /\ UNCHANGED <<game, socketOf, loop, conn, inbox, client, history, saved, asides>>

ReceiveAck(s) ==
  /\ Reading(s, "ack") /\ Read(s)
  /\ LET msg == Head(outbox[s]) IN
     ackReady' = (ackReady \/ (presentation = msg.n /\ msg.player = game.player
                                 /\ socketOf[msg.player] = s))
  /\ UNCHANGED <<ready, response, expecting, expectedKind, prompt, presentation>>
  /\ UNCHANGED <<game, socketOf, loop, conn, inbox, client, history, saved, asides>>

(* _handle_save_game: can_save_game, then the state is read and written.   *)
(* The two halves of a save stand for any two objects of the state; `late` *)
(* is history: the prompt was answered before the save was permitted.      *)
CheckSave_AnyTime(s) ==
  /\ Reading(s, "save") /\ Read(s)
  /\ LET p == Head(outbox[s]).player IN
     loop' = IF p \in Players /\ socketOf[p] = s
             THEN [pc |-> "save", at |-> game.version, late |-> prompt # None /\ ready]
             ELSE None
  /\ UNCHANGED <<game, fields, socketOf, conn, inbox, client, history, saved, asides>>

CheckSave(s) ==
  /\ Reading(s, "save") /\ Read(s)
  /\ LET p == Head(outbox[s]).player IN
     loop' = IF expectedKind = "PRE_ROLL" /\ p = expecting /\ socketOf[p] = s
             THEN [pc |-> "save", at |-> game.version, late |-> prompt # None /\ ready]
             ELSE None
  /\ UNCHANGED <<game, fields, socketOf, conn, inbox, client, history, saved, asides>>

SaveHalf ==
  /\ loop # None /\ loop.pc = "save"
  /\ loop' = [pc |-> "save2", at |-> loop.at, first |-> game.version, late |-> loop.late]
  /\ UNCHANGED <<game, fields, socketOf, wires, history, saved, asides>>

SaveRest ==
  /\ loop # None /\ loop.pc = "save2"
  /\ saved' = [at |-> loop.at, first |-> loop.first, second |-> game.version,
               late |-> loop.late]
  /\ loop' = None
  /\ UNCHANGED <<game, fields, socketOf, wires, history, asides>>

(* Bound: there are sockets enough for all players cut off to come back. *)
Cut == {p \in Players : socketOf[p] = None \/ conn[socketOf[p]] = "lost"}
Spare == Cardinality({s \in Sockets : conn[s] = "new"}) > Cardinality(Cut)

(* A new socket gets a player: an open one, or by force another's, whose   *)
(* socket is closed.  Then it is told, and sent a snapshot.                *)
Join(s, p) ==
  /\ LoopFree /\ conn[s] = "new" /\ (Spare \/ p \in Cut)
  /\ LET old == socketOf[p] IN
     /\ socketOf' = [socketOf EXCEPT ![p] = s]
     /\ conn' = [r \in Sockets |-> IF r = s THEN "joining"
                                   ELSE IF r = old THEN "lost" ELSE conn[r]]
     /\ inbox' = [r \in Sockets |-> IF r = old THEN <<>> ELSE inbox[r]]
     /\ client' = [r \in Sockets |-> IF r = old THEN Blank ELSE client[r]]
  /\ UNCHANGED <<game, fields, loop, outbox, history, saved, asides>>

Welcome(s) ==
  /\ LoopFree /\ conn[s] = "joining"
  /\ conn' = [conn EXCEPT ![s] = "open"]
  /\ \E p \in Players :
       /\ socketOf[p] = s
       /\ inbox' = [inbox EXCEPT
                      ![s] = Append(@, [type |-> "assign", player |-> p]) \o Snapshot]
  /\ UNCHANGED <<game, fields, socketOf, loop, outbox, client, history, saved, asides>>

(* The handler of a lost connection ends; what it had not read is lost.    *)
Leave(s) ==
  /\ LoopFree /\ conn[s] = "lost"
  /\ conn' = [conn EXCEPT ![s] = "gone"]
  /\ outbox' = [outbox EXCEPT ![s] = <<>>]
  /\ socketOf' = [p \in Players |-> IF socketOf[p] = s THEN None ELSE socketOf[p]]
  /\ UNCHANGED <<game, fields, loop, inbox, client, history, saved, asides>>

Handle(s) == CheckResponse(s) \/ RejectResponse(s) \/ Resync(s) \/ HandleSync(s)
             \/ ReceiveAck(s) \/ CheckSave(s) \/ Welcome(s) \/ Leave(s)
LoopStep == WriteResponse \/ SetReady \/ SaveHalf \/ SaveRest \/ \E s \in Sockets : Handle(s)

-----------------------------------------------------------------------------
(* The clients: what the web client does, and, for prompts that come       *)
(* before the socket has its player, the terminal's.                       *)

Send(s, msg) == outbox' = [outbox EXCEPT ![s] = Append(@, msg)]

Shows(c, msg) ==
  CASE msg.type = "assign" -> [c EXCEPT !.player = msg.player]
    [] msg.type = "prompt" ->
         [c EXCEPT !.prompt = IF msg.player = c.player THEN msg.n ELSE None,
                   !.busy = FALSE]
    [] msg.type = "rejected" -> [c EXCEPT !.busy = FALSE]
    [] msg.type = "show" -> [c EXCEPT !.shown = IF msg.player = c.player
                                                THEN @ \cup {msg.n} ELSE @]
    [] msg.type = "resolved" -> [c EXCEPT !.shown = @ \ {msg.n}, !.sent = @ \ {msg.n}]

Receive(s) ==
  /\ conn[s] \in Up /\ inbox[s] # <<>>
  /\ inbox' = [inbox EXCEPT ![s] = Tail(@)]
  /\ client' = [client EXCEPT ![s] = Shows(@, Head(inbox[s]))]
  /\ UNCHANGED <<game, fields, socketOf, loop, conn, outbox, history, saved, asides>>

Answer(s) ==
  /\ conn[s] \in Up /\ client[s].prompt # None /\ ~client[s].busy
  /\ Send(s, [type |-> "response", n |-> client[s].prompt, player |-> client[s].player])
  /\ client' = [client EXCEPT ![s].busy = TRUE]
  /\ answered' = answered \cup {client[s].prompt}
  /\ again' = (again \/ client[s].prompt \in answered)
  /\ UNCHANGED <<game, fields, socketOf, loop, conn, inbox, acked, saved, asides>>

Acknowledge(s, n) ==
  /\ conn[s] \in Up /\ n \in client[s].shown \ client[s].sent
  /\ Send(s, [type |-> "ack", n |-> n, player |-> client[s].player])
  /\ client' = [client EXCEPT ![s].sent = @ \cup {n}]
  /\ acked' = [acked EXCEPT ![n] = @ \cup {client[s].player}]
  /\ UNCHANGED <<game, fields, socketOf, loop, conn, inbox, answered, again, saved, asides>>

(* The buttons that ask the server for a snapshot, or to save the game.    *)
Aside(s) ==
  /\ conn[s] \in Up /\ client[s].player # None
  /\ asides < MaxAsides /\ asides' = asides + 1
  /\ \E type \in {"sync", "save"} : Send(s, [type |-> type, player |-> client[s].player])
  /\ UNCHANGED <<game, fields, socketOf, loop, conn, inbox, client, history, saved>>

Lose(s) ==
  /\ conn[s] = "open" /\ Spare
  /\ Closed(s)
  /\ UNCHANGED <<game, fields, socketOf, loop, outbox, history, saved, asides>>

ClientStep(s) == Receive(s) \/ Answer(s) \/ \E n \in Requests : Acknowledge(s, n)

-----------------------------------------------------------------------------
Init ==
  /\ game = [pc |-> "ask", n |-> 0, player |-> None, kind |-> None, version |-> 0]
  /\ ready = FALSE /\ response = None /\ expecting = None /\ expectedKind = None
  /\ prompt = None /\ presentation = None /\ ackReady = FALSE
  /\ socketOf = First /\ loop = None
  /\ conn = [s \in Sockets |-> IF \E p \in Players : First[p] = s THEN "open" ELSE "new"]
  /\ inbox = [s \in Sockets |-> <<>>] /\ outbox = [s \in Sockets |-> <<>>]
  /\ client = [s \in Sockets |->
                 IF \E p \in Players : First[p] = s
                 THEN [Blank EXCEPT !.player = CHOOSE p \in Players : First[p] = s]
                 ELSE Blank]
  /\ acked = [n \in Requests |-> {}] /\ answered = {} /\ again = FALSE
  /\ saved = None /\ asides = 0

Rejoin == \E s \in Sockets, p \in Players : socketOf[p] = None /\ Join(s, p)

Next == \/ GameStep
        \/ LoopStep
        \/ \E s \in Sockets : ClientStep(s) \/ Aside(s) \/ Lose(s)
                              \/ \E p \in Players : Join(s, p)

Spec == Init /\ [][Next]_vars

(* The two threads run on; a client handles what it gets and answers; and  *)
(* a player whose connection is lost comes back.                           *)
FairSpec ==
  /\ Spec /\ WF_vars(GameStep)
  /\ WF_vars(WriteResponse \/ SetReady \/ SaveHalf \/ SaveRest)
  /\ \A s \in Sockets : /\ SF_vars(Handle(s)) /\ WF_vars(Receive(s)) /\ WF_vars(Answer(s))
                         /\ \A n \in Requests : WF_vars(Acknowledge(s, n))
  /\ SF_vars(Rejoin)

-----------------------------------------------------------------------------
(***************************************************************************)
(* Properties.                                                             *)
(***************************************************************************)

(* The one type invariant. *)
TypeOK ==
  /\ game.n \in 0 .. MaxRequests /\ game.player \in Players \cup {None}
  /\ ready \in BOOLEAN /\ ackReady \in BOOLEAN
  /\ response = None \/ (response.player \in Players /\ response.n \in Requests)
  /\ expecting \in Players \cup {None} /\ expectedKind \in Kinds \cup {None}
  /\ prompt \in Requests \cup {None} /\ presentation \in Requests \cup {None}
  /\ socketOf \in [Players -> Sockets \cup {None}]
  /\ \A p, q \in Players : socketOf[p] = socketOf[q] => p = q \/ socketOf[p] = None
  /\ \A s \in Sockets : client[s].player \in Players \cup {None}

(* The client of s shows prompt n, or will, or has answered it. *)
InHand(s, n) ==
  \/ \E i \in DOMAIN inbox[s] : inbox[s][i].type = "prompt" /\ inbox[s][i].n = n
  \/ client[s].prompt = n /\ ~client[s].busy
  \/ \E i \in DOMAIN outbox[s] : outbox[s][i].type = "response"

(* No prompt is lost: while the game waits for a player, the client that   *)
(* plays him has the prompt in hand, whatever connections were lost or     *)
(* taken over and whatever answers were rejected on the way.  His socket   *)
(* is his alone (TypeOK).                                                  *)
PromptInHand ==
  /\ TypeOK
  /\ game.pc = "wait" /\ ~ready /\ loop = None =>
       LET s == socketOf[game.player] IN
       s # None /\ conn[s] = "open" => InHand(s, game.n)

(* The game goes on after a presentation only when its owner has           *)
(* acknowledged this very one: no late, repeated or foreign                *)
(* acknowledgment releases the next barrier.                               *)
BarrierByOwner ==
  [][game.pc = "watch" /\ game'.pc = "resolved" => game.player \in acked[game.n]]_vars

(* As long as no prompt is answered twice, the answer the game takes is    *)
(* the one given to the prompt it asked, by the player it asked: no        *)
(* interleaving of the two threads, and no lost or late answer, mixes      *)
(* them up.                                                                *)
AnswersItsPrompt ==
  game.pc = "return" /\ ~again =>
    response # None /\ response.n = game.n /\ response.player = game.player

(* "Save and resume works between turns" (design/technical.md): a save     *)
(* that is permitted before the pre-roll prompt is answered shows one      *)
(* state of the game, the one that was asked about: the answer has to wait *)
(* for the event loop, and the game thread for the answer.                 *)
SaveWhole ==
  saved # None /\ ~saved.late => saved.first = saved.at /\ saved.second = saved.at

(* Every prompt is answered and every presentation released. *)
WaitEnds == game.pc \in {"wait", "watch"} ~> game.pc \notin {"wait", "watch"}

(* _request_input: "accept response only from target player" *)
OnlyTargetAnswers ==
  game.pc = "return" /\ response # None => response.player = game.player

=============================================================================
