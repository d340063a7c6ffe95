---------------------------- MODULE PromptProofs ----------------------------
(***************************************************************************)
(* Proofs about module Prompt, for any number of players, of sockets and   *)
(* of prompts, and any loss of connections: an answer goes to the prompt   *)
(* it was given to, and a barrier is released by its owner.                *)
(***************************************************************************)
EXTENDS Prompt, SequenceTheorems, TLAPS

-----------------------------------------------------------------------------
(* Types of what TypeOK leaves open: messages, clients, the event loop.    *)

InMsgs ==
  [type : {"prompt"}, n : Requests, player : Players, kind : Kinds]
  \cup [type : {"show"}, n : Requests, player : Players]
  \cup [type : {"resolved"}, n : Requests]
  \cup [type : {"assign"}, player : Players] \cup [type : {"rejected"}]
OutMsgs ==
  [type : {"response", "ack"}, n : Requests, player : Players \cup {None}]
  \cup [type : {"sync", "save"}, player : Players \cup {None}]
Clients ==
  [player : Players \cup {None}, prompt : Requests \cup {None}, busy : BOOLEAN,
   shown : SUBSET Requests, sent : SUBSET Requests]
Answers == [player : Players, n : Requests]

Asking == {"reset", "expect", "broadcast", "wait", "return"}
Showing == {"show", "watch", "resolved"}
Shown == {"broadcast", "wait"}

GameOK ==
  /\ game \in [pc : {"run", "ask"} \cup Asking \cup Showing, n : 0 .. MaxRequests,
               player : Players \cup {None}, kind : Kinds \cup {None}, version : Nat]
  /\ game.pc \in Asking \cup Showing => game.n \in Requests /\ game.player \in Players
  /\ game.pc \in Asking => game.kind \in Kinds

(* What the fields of the input object hold at each step of the game.      *)
FieldsOK ==
  /\ ready \in BOOLEAN /\ ackReady \in BOOLEAN /\ response \in Answers \cup {None}
  /\ IF game.pc \in Shown
     THEN expecting = game.player /\ expectedKind = game.kind /\ prompt = game.n
     ELSE expecting = None /\ expectedKind = None /\ prompt = None
  /\ presentation = IF game.pc \in Showing THEN game.n ELSE None

(* A player's socket is his alone, and has been used. *)
SocketsOK ==
  /\ socketOf \in [Players -> Sockets \cup {None}]
  /\ \A p, q \in Players : socketOf[p] = socketOf[q] => p = q \/ socketOf[p] = None
  /\ \A p \in Players : socketOf[p] # None => conn[socketOf[p]] # "new"
  /\ conn \in [Sockets -> {"new", "joining", "open", "rejected", "lost", "gone"}]

InboxOK == inbox \in [Sockets -> Seq(InMsgs)]
OutboxOK == outbox \in [Sockets -> Seq(OutMsgs)]
ClientsOK == client \in [Sockets -> Clients]

Writing == loop # None /\ loop.pc \in {"write", "set"}
LoopOK == Writing => loop \in [pc : {"write", "set"}, player : Players, n : Requests]

HistoryOK == acked \in [Requests -> SUBSET (Players \cup {None})] /\ again \in BOOLEAN

Types == GameOK /\ FieldsOK /\ SocketsOK /\ InboxOK /\ OutboxOK /\ ClientsOK /\ LoopOK
         /\ HistoryOK

-----------------------------------------------------------------------------
(* The steps, by what they touch.                                          *)

FrameOfGame == UNCHANGED <<game, expecting, expectedKind, prompt, presentation>>

(* Only the game thread sets the fields that tell the others what it asks. *)
LEMMA GameFrame ==
  ASSUME Next, ~GameStep
  PROVE  FrameOfGame
BY DEF Next, FrameOfGame, fields, LoopStep, Handle, ClientStep, WriteResponse, SetReady,
       SaveHalf, SaveRest, CheckResponse, RejectResponse, Resync, HandleSync, ReceiveAck,
       CheckSave, Welcome, Leave, Receive, Answer, Acknowledge, Aside, Lose, Join

LEMMA BeginTyped ==
  ASSUME GameOK, NEW pc \in Asking \cup Showing, NEW p \in Players,
         NEW kind \in Kinds \cup {None}, pc \in Asking => kind \in Kinds, Begin(pc, p, kind)
  PROVE  GameOK'
<1>1. game' = [pc |-> pc, n |-> game.n + 1, player |-> p, kind |-> kind,
               version |-> game.version]
  BY DEF GameOK, Begin
<1>2. game.n + 1 \in Requests /\ game.n + 1 \in 0 .. MaxRequests
  BY BoundsAssumption DEF GameOK, Begin, Requests
<1>. QED BY <1>1, <1>2 DEF GameOK

LEMMA GameTyped ==
  ASSUME GameOK, [Next]_vars
  PROVE  GameOK'
<1>1. CASE GameStep
  <2>1. CASE Mutate
    <3>1. game.n \in 0 .. MaxRequests /\ game.version + 1 \in Nat
      BY DEF GameOK
    <3>2. game' = [pc |-> "ask", n |-> game.n, player |-> game.player, kind |-> game.kind,
                   version |-> game.version + 1]
      BY <2>1 DEF GameOK, Mutate
    <3>. QED BY <3>1, <3>2 DEF GameOK, Asking, Showing
  <2>2. CASE ClearReady
    <3>1. PICK p \in Players, kind \in Kinds : Begin("reset", p, kind)
      BY <2>2 DEF ClearReady
    <3>. QED BY <1>1, <3>1, BeginTyped DEF Asking
  <2>3. CASE ResetResponse \/ Expect \/ BroadcastPrompt \/ Wake \/ ReturnResponse
    BY <2>3 DEF GameOK, ResetResponse, Expect, BroadcastPrompt, Wake, ReturnResponse, Step,
           Asking, Showing
  <2>4. CASE Present
    <3>1. PICK p \in Players : Begin("show", p, None)
      BY <2>4 DEF Present
    <3>. QED BY <3>1, BeginTyped DEF Asking, Showing
  <2>5. CASE BroadcastPresentation \/ Resolve \/ Unpresent
    BY <2>5 DEF GameOK, BroadcastPresentation, Resolve, Unpresent, Step, Asking, Showing
  <2>. QED BY <1>1, <2>1, <2>2, <2>3, <2>4, <2>5 DEF GameStep
<1>2. CASE UNCHANGED vars
  BY <1>2 DEF GameOK, vars
<1>3. CASE Next /\ ~GameStep
  BY <1>3, GameFrame DEF GameOK, FrameOfGame
<1>. QED BY <1>1, <1>2, <1>3

(* The messages and the snapshots that the server sends are of set T. *)
Sendable(T) ==
  /\ game.pc \in Shown => PromptMsg(game.n, game.player, game.kind) \in T
  /\ game.pc \in Showing => ShowMsg(game.n, game.player) \in T /\ ResolvedMsg(game.n) \in T
  /\ [type |-> "rejected"] \in T
  /\ \A p \in Players : [type |-> "assign", player |-> p] \in T

LEMMA SnapshotIn ==
  ASSUME FieldsOK, NoneAssumption, NEW T, Sendable(T)
  PROVE  Snapshot \in Seq(T)
<1> DEFINE a == IF prompt = None THEN <<>> ELSE <<PromptMsg(prompt, game.player, game.kind)>>
          b == IF presentation = None THEN <<>> ELSE <<ShowMsg(presentation, game.player)>>
<1>1. a \in Seq(T)
  BY DEF FieldsOK, Sendable
<1>2. b \in Seq(T)
  BY DEF FieldsOK, Sendable
<1>3. a \o b \in Seq(T)
  <2> HIDE DEF a, b
  <2>. QED BY <1>1, <1>2, ConcatProperties
<1>. QED BY <1>3 DEF Snapshot

(* Whatever a step puts into an inbox, it is of the set that the sent      *)
(* messages are of.                                                        *)
LEMMA InboxStep ==
  ASSUME Types, Next, NEW T, inbox \in [Sockets -> Seq(T)], Sendable(T)
  PROVE  inbox' \in [Sockets -> Seq(T)]
<1>1. ASSUME NEW m \in T, Broadcast(m) PROVE inbox' \in [Sockets -> Seq(T)]
  BY <1>1 DEF Broadcast
<1>2. Snapshot \in Seq(T)
  BY SnapshotIn, NoneAssumption DEF Types
<1>3. ASSUME NEW s \in Sockets, NEW q \in Seq(T), inbox' = [inbox EXCEPT ![s] = q]
      PROVE  inbox' \in [Sockets -> Seq(T)]
  BY <1>3
<1>4. CASE GameStep
  BY <1>4, <1>1
     DEF GameStep, Mutate, ClearReady, ResetResponse, Expect, BroadcastPrompt, Wake,
         ReturnResponse, Present, BroadcastPresentation, Resolve, Unpresent, Step, wires,
         Sendable, Shown, Showing
<1>5. CASE WriteResponse \/ SetReady \/ SaveHalf \/ SaveRest
  BY <1>5 DEF WriteResponse, SetReady, SaveHalf, SaveRest, wires
<1>6. ASSUME NEW s \in Sockets, Handle(s) PROVE inbox' \in [Sockets -> Seq(T)]
  <2>1. CASE CheckResponse(s) \/ ReceiveAck(s) \/ CheckSave(s) \/ Leave(s)
    BY <2>1 DEF CheckResponse, ReceiveAck, CheckSave, Leave
  <2>2. CASE RejectResponse(s)
    <3>1. CASE inbox' = [inbox EXCEPT ![s] = <<>>]
      BY <3>1
    <3>2. CASE inbox' = [inbox EXCEPT ![s] = Append(@, [type |-> "rejected"])]
      BY <3>2 DEF Sendable
    <3>. QED BY <2>2, <3>1, <3>2 DEF RejectResponse, Closed
  <2>3. CASE Resync(s) \/ HandleSync(s)
    <3>1. inbox[s] \o Snapshot \in Seq(T)
      BY <1>2, ConcatProperties
    <3>. QED BY <2>3, <1>3, <3>1 DEF Resync, HandleSync
  <2>4. CASE Welcome(s)
    <3>1. PICK p \in Players :
            inbox' = [inbox EXCEPT ![s] = Append(@, [type |-> "assign", player |-> p]) \o Snapshot]
      BY <2>4 DEF Welcome
    <3>2. Append(inbox[s], [type |-> "assign", player |-> p]) \in Seq(T)
      BY DEF Sendable
    <3>3. Append(inbox[s], [type |-> "assign", player |-> p]) \o Snapshot \in Seq(T)
      BY <1>2, <3>2, ConcatProperties
    <3>. QED BY <1>3, <3>1, <3>3
  <2>. QED BY <1>6, <2>1, <2>2, <2>3, <2>4 DEF Handle
<1>7. ASSUME NEW s \in Sockets, ClientStep(s) \/ Aside(s) \/ Lose(s)
      PROVE  inbox' \in [Sockets -> Seq(T)]
  <2>1. CASE Receive(s)
    BY <2>1, HeadTailProperties DEF Receive
  <2>2. CASE Lose(s)
    BY <2>2 DEF Lose, Closed
  <2>3. CASE Answer(s) \/ Aside(s) \/ \E n \in Requests : Acknowledge(s, n)
    BY <2>3 DEF Aside, Answer, Acknowledge
  <2>. QED BY <1>7, <2>1, <2>2, <2>3 DEF ClientStep
<1>8. ASSUME NEW s \in Sockets, NEW p \in Players, Join(s, p)
      PROVE  inbox' \in [Sockets -> Seq(T)]
  BY <1>8 DEF Join
<1>. QED BY <1>4, <1>5, <1>6, <1>7, <1>8 DEF Next, LoopStep

(* Likewise the outboxes and what the clients send. *)
LEMMA OutboxStep ==
  ASSUME Types, Next, NEW T, outbox \in [Sockets -> Seq(T)],
         \A m \in OutMsgs : m.type # "ack" => m \in T,
         \A s \in Sockets, n \in Requests :
           Acknowledge(s, n) => [type |-> "ack", n |-> n, player |-> client[s].player] \in T
  PROVE  outbox' \in [Sockets -> Seq(T)]
<1>1. ASSUME NEW s \in Sockets, NEW m \in T, Send(s, m) PROVE outbox' \in [Sockets -> Seq(T)]
  BY <1>1 DEF Send
<1>2. ASSUME NEW s \in Sockets, outbox[s] # <<>>, Read(s)
      PROVE  outbox' \in [Sockets -> Seq(T)]
  BY <1>2, HeadTailProperties DEF Read
<1>3. CASE GameStep
  BY <1>3 DEF GameStep, Mutate, ClearReady, ResetResponse, Expect, BroadcastPrompt, Wake,
         ReturnResponse, Present, BroadcastPresentation, Resolve, Unpresent, wires
<1>4. CASE WriteResponse \/ SetReady \/ SaveHalf \/ SaveRest
  BY <1>4 DEF WriteResponse, SetReady, SaveHalf, SaveRest, wires
<1>5. ASSUME NEW s \in Sockets, Handle(s) PROVE outbox' \in [Sockets -> Seq(T)]
  <2>1. CASE CheckResponse(s) \/ RejectResponse(s) \/ HandleSync(s) \/ ReceiveAck(s)
             \/ CheckSave(s)
    BY <1>2, <2>1 DEF CheckResponse, RejectResponse, HandleSync, ReceiveAck, CheckSave, Reading
  <2>2. CASE Resync(s) \/ Welcome(s)
    BY <2>2 DEF Resync, Welcome
  <2>3. CASE Leave(s)
    BY <2>3 DEF Leave
  <2>. QED BY <1>5, <2>1, <2>2, <2>3 DEF Handle
<1>6. ASSUME NEW s \in Sockets, ClientStep(s) \/ Aside(s)
      PROVE  outbox' \in [Sockets -> Seq(T)]
  <2>1. CASE Receive(s)
    BY <2>1 DEF Receive
  <2>2. CASE Answer(s)
    <3>1. [type |-> "response", n |-> client[s].prompt, player |-> client[s].player] \in T
      BY <2>2 DEF Answer, Types, ClientsOK, Clients, OutMsgs
    <3>. QED BY <2>2, <3>1, <1>1 DEF Answer
  <2>3. CASE \E n \in Requests : Acknowledge(s, n)
    BY <2>3, <1>1 DEF Acknowledge
  <2>4. CASE Aside(s)
    <3>1. \A type \in {"sync", "save"} : [type |-> type, player |-> client[s].player] \in T
      BY DEF Types, ClientsOK, Clients, OutMsgs
    <3>. QED BY <2>4, <3>1, <1>1 DEF Aside
  <2>. QED BY <1>6, <2>1, <2>2, <2>3, <2>4 DEF ClientStep
<1>7. ASSUME NEW s \in Sockets, Lose(s) \/ \E p \in Players : Join(s, p)
      PROVE  outbox' \in [Sockets -> Seq(T)]
  BY <1>7 DEF Lose, Join
<1>. QED BY <1>3, <1>4, <1>5, <1>6, <1>7 DEF Next, LoopStep

LEMMA FieldsTyped ==
  ASSUME Types, [Next]_vars
  PROVE  FieldsOK'
<1>. USE DEF FieldsOK, Types, fields
<1>1. CASE GameStep
  <2>1. CASE Mutate
    BY <2>1 DEF Mutate, GameOK, Shown, Showing
  <2>2. CASE ClearReady
    <3>1. PICK p \in Players, kind \in Kinds : Begin("reset", p, kind)
      BY <2>2 DEF ClearReady
    <3>2. game.pc = "ask" /\ game'.pc = "reset"
      BY <3>1 DEF Begin, GameOK
    <3>. QED BY <2>2, <3>2 DEF ClearReady, Shown, Showing
  <2>3. CASE ResetResponse
    BY <2>3 DEF ResetResponse, Step, GameOK, Shown, Showing
  <2>4. CASE Expect
    BY <2>4 DEF Expect, Step, GameOK, Shown, Showing
  <2>5. CASE BroadcastPrompt
    BY <2>5 DEF BroadcastPrompt, Step, GameOK, Shown, Showing
  <2>6. CASE Wake
    BY <2>6 DEF Wake, Step, GameOK, Shown, Showing
  <2>7. CASE ReturnResponse
    BY <2>7 DEF ReturnResponse, Step, GameOK, Shown, Showing
  <2>8. CASE Present
    <3>1. PICK p \in Players : Begin("show", p, None)
      BY <2>8 DEF Present
    <3>2. game.pc = "ask" /\ game'.pc = "show" /\ game'.n = game.n + 1
      BY <3>1 DEF Begin, GameOK
    <3>. QED BY <2>8, <3>2 DEF Present, Shown, Showing
  <2>9. CASE BroadcastPresentation \/ Resolve
    BY <2>9 DEF BroadcastPresentation, Resolve, Step, GameOK, Shown, Showing
  <2>10. CASE Unpresent
    BY <2>10 DEF Unpresent, Step, GameOK, Shown, Showing
  <2>. QED BY <1>1, <2>1, <2>2, <2>3, <2>4, <2>5, <2>6, <2>7, <2>8, <2>9, <2>10 DEF GameStep
<1>2. CASE UNCHANGED vars
  BY <1>2 DEF vars
<1>3. CASE Next /\ ~GameStep
  <2>1. ready' \in BOOLEAN /\ ackReady' \in BOOLEAN /\ response' \in Answers \cup {None}
    <3>1. CASE WriteResponse
      BY <3>1 DEF WriteResponse, LoopOK, Writing, Answers
    <3>2. CASE SetReady \/ SaveHalf \/ SaveRest
      BY <3>2 DEF SetReady, SaveHalf, SaveRest
    <3>3. ASSUME NEW s \in Sockets, Handle(s)
          PROVE  ready' = ready /\ ackReady' \in BOOLEAN /\ response' = response
      BY <3>3 DEF Handle, CheckResponse, RejectResponse, Resync, HandleSync, ReceiveAck,
             CheckSave, Welcome, Leave
    <3>4. ASSUME NEW s \in Sockets, ClientStep(s) \/ Aside(s) \/ Lose(s)
                                   \/ \E p \in Players : Join(s, p)
          PROVE  UNCHANGED <<ready, ackReady, response>>
      BY <3>4 DEF ClientStep, Receive, Answer, Acknowledge, Aside, Lose, Join
    <3>. QED BY <1>3, <3>1, <3>2, <3>3, <3>4 DEF Next, LoopStep
  <2>. QED BY <1>3, <2>1, GameFrame DEF FrameOfGame
<1>. QED BY <1>1, <1>2, <1>3

LEMMA SocketsTyped ==
  ASSUME SocketsOK, [Next]_vars
  PROVE  SocketsOK'
<1>. USE DEF SocketsOK
<1>1. CASE GameStep
  BY <1>1 DEF GameStep, Mutate, ClearReady, ResetResponse, Expect, BroadcastPrompt, Wake,
         ReturnResponse, Present, BroadcastPresentation, Resolve, Unpresent, wires
<1>2. CASE UNCHANGED vars
  BY <1>2 DEF vars, wires
<1>3. CASE WriteResponse \/ SetReady \/ SaveHalf \/ SaveRest
  BY <1>3 DEF WriteResponse, SetReady, SaveHalf, SaveRest, wires
<1>4. ASSUME NEW s \in Sockets, Handle(s) PROVE SocketsOK'
  <2>1. CASE CheckResponse(s) \/ HandleSync(s) \/ ReceiveAck(s) \/ CheckSave(s)
    BY <2>1 DEF CheckResponse, HandleSync, ReceiveAck, CheckSave
  <2>2. CASE RejectResponse(s)
    BY <2>2 DEF RejectResponse, Closed
  <2>3. CASE Resync(s) \/ Welcome(s)
    BY <2>3 DEF Resync, Welcome
  <2>4. CASE Leave(s)
    BY <2>4 DEF Leave
  <2>. QED BY <1>4, <2>1, <2>2, <2>3, <2>4 DEF Handle
<1>5. ASSUME NEW s \in Sockets, ClientStep(s) \/ Aside(s) PROVE SocketsOK'
  BY <1>5 DEF ClientStep, Receive, Answer, Acknowledge, Aside
<1>6. ASSUME NEW s \in Sockets, Lose(s) PROVE SocketsOK'
  BY <1>6 DEF Lose, Closed
<1>7. ASSUME NEW s \in Sockets, NEW p \in Players, Join(s, p) PROVE SocketsOK'
  <2>1. \A q \in Players : socketOf[q] # s
    BY <1>7, NoneAssumption DEF Join
  <2>2. /\ socketOf' = [socketOf EXCEPT ![p] = s]
        /\ conn' = [r \in Sockets |-> IF r = s THEN "joining"
                                      ELSE IF r = socketOf[p] THEN "lost" ELSE conn[r]]
    BY <1>7 DEF Join
  <2>. QED BY <2>1, <2>2
<1>. QED BY <1>1, <1>2, <1>3, <1>4, <1>5, <1>6, <1>7 DEF Next, LoopStep

LEMMA ClientsTyped ==
  ASSUME InboxOK, ClientsOK, [Next]_vars
  PROVE  ClientsOK'
<1>. USE DEF ClientsOK
<1>1. Blank \in Clients
  BY DEF Blank, Clients
<1>2. CASE GameStep \/ WriteResponse \/ SetReady \/ SaveHalf \/ SaveRest \/ UNCHANGED vars
  BY <1>2 DEF GameStep, Mutate, ClearReady, ResetResponse, Expect, BroadcastPrompt, Wake,
         ReturnResponse, Present, BroadcastPresentation, Resolve, Unpresent, WriteResponse,
         SetReady, SaveHalf, SaveRest, wires, vars
<1>3. ASSUME NEW s \in Sockets, Handle(s) \/ Aside(s) \/ Lose(s) PROVE ClientsOK'
  BY <1>1, <1>3 DEF Handle, CheckResponse, RejectResponse, Closed, Resync, HandleSync,
         ReceiveAck, CheckSave, Welcome, Leave, Aside, Lose
<1>4. ASSUME NEW s \in Sockets, Receive(s) PROVE ClientsOK'
  <2>1. Head(inbox[s]) \in InMsgs
    BY <1>4, HeadTailProperties DEF Receive, InboxOK
  <2>2. ASSUME NEW c \in Clients, NEW m \in InMsgs PROVE Shows(c, m) \in Clients
    BY DEF Clients, InMsgs, Shows
  <2>. QED BY <1>4, <2>1, <2>2 DEF Receive
<1>5. ASSUME NEW s \in Sockets, Answer(s) PROVE ClientsOK'
  BY <1>5 DEF Answer, Clients
<1>6. ASSUME NEW s \in Sockets, NEW n \in Requests, Acknowledge(s, n) PROVE ClientsOK'
  BY <1>6 DEF Acknowledge, Clients
<1>7. ASSUME NEW s \in Sockets, NEW p \in Players, Join(s, p) PROVE ClientsOK'
  BY <1>1, <1>7 DEF Join
<1>. QED BY <1>2, <1>3, <1>4, <1>5, <1>6, <1>7 DEF Next, LoopStep, ClientStep

LEMMA LoopTyped ==
  ASSUME Types, [Next]_vars
  PROVE  LoopOK'
<1>. USE DEF LoopOK, Writing
<1>1. ASSUME UNCHANGED loop PROVE LoopOK'
  BY <1>1 DEF Types
<1>2. CASE GameStep \/ UNCHANGED vars
  BY <1>1, <1>2 DEF GameStep, Mutate, ClearReady, ResetResponse, Expect, BroadcastPrompt, Wake,
         ReturnResponse, Present, BroadcastPresentation, Resolve, Unpresent, vars
<1>3. CASE WriteResponse
  BY <1>3 DEF WriteResponse, Types
<1>4. CASE SetReady \/ SaveHalf \/ SaveRest
  BY <1>4 DEF SetReady, SaveHalf, SaveRest
<1>5. ASSUME NEW s \in Sockets, CheckResponse(s) PROVE LoopOK'
  <2> DEFINE m == Head(outbox[s])
  <2>1. m \in OutMsgs /\ m.type = "response" /\ Accepts(s, m)
        /\ loop' = [pc |-> "write", player |-> m.player, n |-> m.n]
    BY <1>5, HeadTailProperties DEF CheckResponse, Reading, Types, OutboxOK
  <2>2. m.n \in Requests
    BY <2>1 DEF OutMsgs
  <2>3. m.player \in Players
    BY <2>1 DEF Accepts, Types, FieldsOK, GameOK, Asking, Shown
  <2>. QED BY <2>1, <2>2, <2>3
<1>6. ASSUME NEW s \in Sockets, CheckSave(s) PROVE LoopOK'
  BY <1>6 DEF CheckSave
<1>7. ASSUME NEW s \in Sockets, Handle(s), ~CheckResponse(s), ~CheckSave(s) PROVE LoopOK'
  BY <1>1, <1>7 DEF Handle, RejectResponse, Resync, HandleSync, ReceiveAck, Welcome, Leave
<1>8. ASSUME NEW s \in Sockets, ClientStep(s) \/ Aside(s) \/ Lose(s)
                               \/ \E p \in Players : Join(s, p)
      PROVE  LoopOK'
  BY <1>1, <1>8 DEF ClientStep, Receive, Answer, Acknowledge, Aside, Lose, Join
<1>. QED BY <1>2, <1>3, <1>4, <1>5, <1>6, <1>7, <1>8 DEF Next, LoopStep

LEMMA HistoryTyped ==
  ASSUME Types, [Next]_vars
  PROVE  HistoryOK'
<1>. USE DEF HistoryOK, Types, history
<1>1. CASE GameStep \/ WriteResponse \/ SetReady \/ SaveHalf \/ SaveRest \/ UNCHANGED vars
  BY <1>1 DEF GameStep, Mutate, ClearReady, ResetResponse, Expect, BroadcastPrompt, Wake,
         ReturnResponse, Present, BroadcastPresentation, Resolve, Unpresent, WriteResponse,
         SetReady, SaveHalf, SaveRest, vars
<1>2. ASSUME NEW s \in Sockets, Handle(s) \/ Receive(s) \/ Aside(s) \/ Lose(s)
                               \/ \E p \in Players : Join(s, p)
      PROVE  HistoryOK'
  BY <1>2 DEF Handle, CheckResponse, RejectResponse, Resync, HandleSync, ReceiveAck, CheckSave,
         Welcome, Leave, Receive, Aside, Lose, Join
<1>3. ASSUME NEW s \in Sockets, Answer(s) PROVE HistoryOK'
  BY <1>3 DEF Answer
<1>4. ASSUME NEW s \in Sockets, NEW n \in Requests, Acknowledge(s, n) PROVE HistoryOK'
  BY <1>4 DEF Acknowledge, ClientsOK, Clients
<1>. QED BY <1>1, <1>2, <1>3, <1>4 DEF Next, LoopStep, ClientStep

LEMMA InitTypes == Init => Types
<1>. SUFFICES ASSUME Init PROVE Types  OBVIOUS
<1>1. GameOK
  <2>1. 0 \in 0 .. MaxRequests /\ 0 \in Nat
    BY BoundsAssumption
  <2>. QED BY <2>1 DEF Init, GameOK, Asking, Showing
<1>2. FieldsOK
  BY DEF Init, FieldsOK, Showing, Shown
<1>3. SocketsOK
  BY FirstAssumption DEF Init, SocketsOK
<1>4. InboxOK /\ OutboxOK
  BY EmptySeq DEF Init, InboxOK, OutboxOK
<1>5. ClientsOK
  BY DEF Init, ClientsOK, Clients, Blank
<1>6. LoopOK /\ HistoryOK
  BY DEF Init, LoopOK, Writing, HistoryOK
<1>. QED BY <1>1, <1>2, <1>3, <1>4, <1>5, <1>6 DEF Types

LEMMA NextTypes ==
  ASSUME Types, [Next]_vars
  PROVE  Types'
<1>1. Sendable(InMsgs)
  BY DEF Types, GameOK, Sendable, PromptMsg, ShowMsg, ResolvedMsg, InMsgs, Asking, Shown
<1>2. InboxOK'
  <2>1. CASE Next
    BY <2>1, <1>1, InboxStep DEF Types, InboxOK
  <2>2. CASE UNCHANGED vars
    BY <2>2 DEF Types, InboxOK, vars, wires
  <2>. QED BY <2>1, <2>2
<1>3. ASSUME NEW s \in Sockets, NEW n \in Requests
      PROVE  [type |-> "ack", n |-> n, player |-> client[s].player] \in OutMsgs
  BY DEF Types, ClientsOK, Clients, OutMsgs
<1>4. OutboxOK'
  <2>1. CASE Next
    BY <2>1, <1>3, OutboxStep DEF Types, OutboxOK
  <2>2. CASE UNCHANGED vars
    BY <2>2 DEF Types, OutboxOK, vars, wires
  <2>. QED BY <2>1, <2>2
<1>5. GameOK' /\ SocketsOK' /\ ClientsOK'
  BY GameTyped, SocketsTyped, ClientsTyped DEF Types
<1>. QED BY <1>2, <1>4, <1>5, FieldsTyped, LoopTyped, HistoryTyped DEF Types

(* Every state of the prompts has the types of its fields, and a player's  *)
(* socket is his alone, whatever connections are lost or taken over.       *)
THEOREM TypeCorrect == Spec => []TypeOK
<1>1. Types => TypeOK
  BY DEF Types, GameOK, FieldsOK, SocketsOK, ClientsOK, Clients, Answers, TypeOK, Requests,
         Asking, Shown, Showing
<1>2. Types /\ [Next]_vars => Types'
  BY NextTypes
<1>. QED BY <1>1, <1>2, InitTypes, PTL DEF Spec

-----------------------------------------------------------------------------
(* An acknowledgment on its way was given by the player it names, and the  *)
(* barrier of the presentation now shown opens only by one of its owner.   *)
TrueMsgs == {m \in OutMsgs : m.type = "ack" => m.player \in acked[m.n]}
AcksTrue ==
  /\ outbox \in [Sockets -> Seq(TrueMsgs)]
  /\ ackReady /\ game.pc \in Showing => game.player \in acked[game.n]

(* No step forgets who has acknowledged what. *)
LEMMA AckedGrows ==
  ASSUME Types, Next
  PROVE  \A n \in Requests : acked[n] \subseteq acked'[n]
<1>1. CASE UNCHANGED acked
  BY <1>1
<1>2. ASSUME NEW s \in Sockets, NEW n \in Requests, Acknowledge(s, n)
      PROVE  \A k \in Requests : acked[k] \subseteq acked'[k]
  BY <1>2 DEF Acknowledge, Types, HistoryOK
<1>3. ASSUME ~(\E s \in Sockets, n \in Requests : Acknowledge(s, n))
      PROVE  UNCHANGED acked
  BY <1>3 DEF Next, GameStep, Mutate, ClearReady, ResetResponse, Expect, BroadcastPrompt, Wake,
         ReturnResponse, Present, BroadcastPresentation, Resolve, Unpresent, LoopStep,
         WriteResponse, SetReady, SaveHalf, SaveRest, Handle, CheckResponse, RejectResponse,
         Resync, HandleSync, ReceiveAck, CheckSave, Welcome, Leave, ClientStep, Receive,
         Answer, Aside, Lose, Join, history
<1>. QED BY <1>1, <1>2, <1>3

LEMMA AcksStep ==
  ASSUME Types, AcksTrue, [Next]_vars
  PROVE  AcksTrue'
<1>1. CASE UNCHANGED vars
  BY <1>1 DEF AcksTrue, TrueMsgs, vars, wires, fields, history
<1>2. CASE Next
  <2> DEFINE T == TrueMsgs'
  <2>1. TrueMsgs \subseteq T
    BY <1>2, AckedGrows DEF TrueMsgs, OutMsgs
  <2>2. outbox \in [Sockets -> Seq(T)]
    BY <2>1, SeqMonotonic DEF AcksTrue
  <2>3. \A m \in OutMsgs : m.type # "ack" => m \in T
    BY DEF TrueMsgs
  <2>4. ASSUME NEW s \in Sockets, NEW n \in Requests, Acknowledge(s, n)
        PROVE  [type |-> "ack", n |-> n, player |-> client[s].player] \in T
    BY <2>4 DEF Acknowledge, TrueMsgs, OutMsgs, Types, ClientsOK, Clients, HistoryOK
  <2>5. outbox' \in [Sockets -> Seq(T)]
    <3> HIDE DEF T
    <3>. QED BY <1>2, <2>2, <2>3, <2>4, OutboxStep
  <2>6. ASSUME ackReady', game'.pc \in Showing
        PROVE  game'.player \in acked'[game'.n]
    <3>1. CASE GameStep
      <4>1. UNCHANGED acked
        BY <3>1 DEF GameStep, Mutate, ClearReady, ResetResponse, Expect, BroadcastPrompt, Wake,
           ReturnResponse, Present, BroadcastPresentation, Resolve, Unpresent, history
      <4>2. CASE Mutate \/ ClearReady \/ Present
        BY <2>6, <4>2 DEF Mutate, ClearReady, Present, Begin, Showing, Types, GameOK
      <4>3. CASE ResetResponse \/ Expect \/ BroadcastPrompt \/ Wake \/ ReturnResponse \/ Unpresent
        BY <2>6, <4>3 DEF ResetResponse, Expect, BroadcastPrompt, Wake, ReturnResponse, Unpresent,
           Step, Showing, Types, GameOK
      <4>4. CASE BroadcastPresentation \/ Resolve
        BY <2>6, <4>1, <4>4 DEF BroadcastPresentation, Resolve, Step, Showing, AcksTrue, Types,
           GameOK, fields
      <4>. QED BY <3>1, <4>2, <4>3, <4>4 DEF GameStep
    <3>2. ASSUME ~GameStep, ackReady PROVE game'.player \in acked'[game'.n]
      BY <1>2, <2>6, <3>2, AckedGrows, GameFrame DEF FrameOfGame, AcksTrue, Types, GameOK
    <3>3. ASSUME NEW s \in Sockets, ReceiveAck(s), ~ackReady
          PROVE  game'.player \in acked'[game'.n]
      <4> DEFINE m == Head(outbox[s])
      <4>1. /\ m.type = "ack" /\ outbox[s] # <<>>
            /\ presentation = m.n /\ m.player = game.player
            /\ UNCHANGED <<game, acked>>
        BY <2>6, <3>3 DEF ReceiveAck, Reading, history
      <4>2. m \in TrueMsgs
        BY <4>1, HeadTailProperties DEF AcksTrue
      <4>3. m.n = game.n
        BY <2>6, <4>1 DEF Types, FieldsOK
      <4>. QED BY <4>1, <4>2, <4>3 DEF TrueMsgs
    <3>4. ASSUME ~GameStep, ~ackReady PROVE \E s \in Sockets : ReceiveAck(s)
      BY <1>2, <2>6, <3>4 DEF Next, LoopStep, WriteResponse, SetReady, SaveHalf, SaveRest, Handle,
         CheckResponse, RejectResponse, Resync, HandleSync, CheckSave, Welcome, Leave, ClientStep,
         Receive, Answer, Acknowledge, Aside, Lose, Join, fields
    <3>. QED BY <3>1, <3>2, <3>3, <3>4
  <2>. QED BY <2>5, <2>6 DEF AcksTrue
<1>. QED BY <1>1, <1>2

(* A barrier opens only by its owner's acknowledgment of this very         *)
(* presentation, whatever acknowledgments come late, twice or from others. *)
THEOREM OwnersRelease == Spec => BarrierByOwner
<1> DEFINE BInv == Types /\ AcksTrue
<1>1. Init => BInv
  <2>1. Init => AcksTrue
    BY EmptySeq DEF Init, AcksTrue
  <2>. QED BY <2>1, InitTypes
<1>2. BInv /\ [Next]_vars => BInv'
  BY NextTypes, AcksStep
<1>3. BInv /\ [Next]_vars =>
        [game.pc = "watch" /\ game'.pc = "resolved" => game.player \in acked[game.n]]_vars
  <2> SUFFICES ASSUME BInv, Next, game.pc = "watch", game'.pc = "resolved"
               PROVE  game.player \in acked[game.n]
    OBVIOUS
  <2>1. GameStep
    BY GameFrame DEF FrameOfGame
  <2>2. Resolve
    BY <2>1 DEF GameStep, Mutate, ClearReady, ResetResponse, Expect, BroadcastPrompt, Wake,
       ReturnResponse, Present, BroadcastPresentation, Unpresent, Step, Begin
  <2>. QED BY <2>2 DEF Resolve, AcksTrue, Showing
<1>. QED BY <1>1, <1>2, <1>3, PTL DEF Spec, BarrierByOwner

-----------------------------------------------------------------------------
(* While nobody has answered a prompt twice, a prompt that some client may *)
(* still show is the one the game asks, unless it has been answered;       *)
Fresh(n) == n \in answered \/ (n = game.n /\ game.pc \in Shown)
FreshMsgs == {m \in InMsgs : m.type = "prompt" => Fresh(m.n)}
PromptsFresh ==
  /\ inbox \in [Sockets -> Seq(FreshMsgs)]
  /\ \A s \in Sockets : client[s].prompt # None => Fresh(client[s].prompt)

(* an answer on its way is the only one, to the prompt now asked;          *)
IsAnswer(s, i) == i \in 1 .. Len(outbox[s]) /\ outbox[s][i].type = "response"
Open == game.pc \in Shown /\ game.n \in answered
Asked == [player |-> game.player, n |-> game.n]
OneAnswer ==
  \A s \in Sockets, i \in Nat : IsAnswer(s, i) =>
    /\ outbox[s][i].n = game.n /\ Open /\ ~ready /\ ~Writing
    /\ \A t \in Sockets, j \in Nat : IsAnswer(t, j) => t = s /\ j = i

(* and so is the answer that the event loop hands over, until the game     *)
(* thread has taken it.                                                    *)
HandedOver ==
  /\ Writing => Open /\ ~ready /\ loop.n = game.n /\ loop.player = game.player
  /\ Writing /\ loop.pc = "set" => response = Asked
  /\ game.pc \in Shown /\ ready => Open /\ response = Asked
  /\ game.pc \in {"reset", "expect"} => ~ready
  /\ game.pc = "return" => response = Asked

Single == OneAnswer /\ HandedOver
NoAnswer == \A s \in Sockets, i \in Nat : ~IsAnswer(s, i)

(* What was fresh stays so: a prompt is given up only when answered. *)
LEMMA StaysFresh ==
  ASSUME Types, HandedOver, Next, NEW n, Fresh(n)
  PROVE  Fresh(n)'
<1>1. CASE GameStep
  <2>1. UNCHANGED answered
    BY <1>1 DEF GameStep, Mutate, ClearReady, ResetResponse, Expect, BroadcastPrompt, Wake,
       ReturnResponse, Present, BroadcastPresentation, Resolve, Unpresent, history
  <2>2. CASE Wake
    BY <2>1, <2>2 DEF Wake, Step, Fresh, HandedOver, Open, Shown
  <2>3. CASE BroadcastPrompt
    BY <2>1, <2>3 DEF BroadcastPrompt, Step, Fresh, Shown, Types, GameOK
  <2>4. CASE Mutate \/ ClearReady \/ Present
    BY <2>1, <2>4 DEF Mutate, ClearReady, Present, Begin, Fresh, Shown
  <2>5. CASE ResetResponse \/ Expect \/ ReturnResponse \/ BroadcastPresentation \/ Resolve
             \/ Unpresent
    BY <2>1, <2>5 DEF ResetResponse, Expect, ReturnResponse, BroadcastPresentation, Resolve,
       Unpresent, Step, Fresh, Shown
  <2>. QED BY <1>1, <2>2, <2>3, <2>4, <2>5 DEF GameStep
<1>2. CASE ~GameStep
  <2>1. answered \subseteq answered'
    BY <1>2 DEF Next, LoopStep, WriteResponse, SetReady, SaveHalf, SaveRest, Handle,
       CheckResponse, RejectResponse, Resync, HandleSync, ReceiveAck, CheckSave, Welcome, Leave,
       ClientStep, Receive, Answer, Acknowledge, Aside, Lose, Join, history
  <2>. QED BY <1>2, <2>1, GameFrame DEF FrameOfGame, Fresh
<1>. QED BY <1>1, <1>2

LEMMA PromptsStep ==
  ASSUME Types, PromptsFresh, HandedOver, Next
  PROVE  PromptsFresh'
<1> DEFINE T == FreshMsgs'
<1>1. \A n : Fresh(n) => Fresh(n)'
  BY StaysFresh
<1>2. FreshMsgs \subseteq T
  BY <1>1 DEF FreshMsgs
<1>3. inbox \in [Sockets -> Seq(T)]
  BY <1>2, SeqMonotonic DEF PromptsFresh
<1>4. Sendable(FreshMsgs)
  BY DEF Types, GameOK, Sendable, PromptMsg, ShowMsg, ResolvedMsg, InMsgs, Asking, Shown,
     FreshMsgs, Fresh
<1>5. Sendable(T)
  BY <1>2, <1>4 DEF Sendable
<1>6. inbox' \in [Sockets -> Seq(T)]
  <2> HIDE DEF T
  <2>. QED BY <1>3, <1>5, InboxStep
<1>7. ASSUME NEW s \in Sockets, client'[s].prompt # None
      PROVE  Fresh(client[s].prompt)'
  <2>1. client'[s].prompt = client[s].prompt => Fresh(client'[s].prompt)
    BY <1>7 DEF PromptsFresh
  <2>2. ASSUME Receive(s), client'[s].prompt # client[s].prompt
        PROVE  Fresh(client'[s].prompt)
    <3> DEFINE m == Head(inbox[s])
    <3>1. m \in FreshMsgs
      BY <2>2, HeadTailProperties DEF PromptsFresh, Receive
    <3>2. client'[s] = Shows(client[s], m)
      BY <2>2 DEF Receive, Types, ClientsOK
    <3>3. m.type = "prompt" /\ client'[s].prompt = m.n
      BY <1>7, <2>2, <3>1, <3>2 DEF FreshMsgs, InMsgs, Shows, Types, ClientsOK, Clients
    <3>. QED BY <3>1, <3>3 DEF FreshMsgs
  <2>3. ASSUME client'[s].prompt # client[s].prompt PROVE Receive(s)
    <3>1. Blank.prompt = None
      BY DEF Blank
    <3>2. ~GameStep /\ ~WriteResponse /\ ~SetReady /\ ~SaveHalf /\ ~SaveRest
      BY <2>3 DEF GameStep, Mutate, ClearReady, ResetResponse, Expect, BroadcastPrompt, Wake,
         ReturnResponse, Present, BroadcastPresentation, Resolve, Unpresent, WriteResponse,
         SetReady, SaveHalf, SaveRest, wires
    <3>3. ASSUME NEW r \in Sockets PROVE ~Handle(r) /\ ~Lose(r) /\ ~Aside(r)
      BY <1>7, <2>3, <3>1 DEF Handle, CheckResponse, RejectResponse, Closed, Resync, HandleSync,
         ReceiveAck, CheckSave, Welcome, Leave, Lose, Aside, Types, ClientsOK
    <3>4. ASSUME NEW r \in Sockets, NEW p \in Players PROVE ~Join(r, p)
      BY <1>7, <2>3, <3>1 DEF Join
    <3>5. ASSUME NEW r \in Sockets PROVE ~Answer(r)
      BY <2>3 DEF Answer, Types, ClientsOK, Clients
    <3>6. ASSUME NEW r \in Sockets, NEW n \in Requests PROVE ~Acknowledge(r, n)
      BY <2>3 DEF Acknowledge, Types, ClientsOK, Clients
    <3>7. PICK r \in Sockets : Receive(r)
      BY <3>2, <3>3, <3>4, <3>5, <3>6 DEF Next, LoopStep, ClientStep
    <3>. QED BY <2>3, <3>7 DEF Receive, Types, ClientsOK
  <2>4. Fresh(client'[s].prompt)
    BY <2>1, <2>2, <2>3
  <2>. QED BY <1>1, <2>4 DEF Fresh
<1>. QED BY <1>6, <1>7 DEF PromptsFresh

(* A step that takes messages off an outbox, and adds no answer and no     *)
(* handover, leaves the one there was.  d: how far each outbox moves up.   *)
LEMMA NoneAdded ==
  ASSUME Types, Single, FrameOfGame, UNCHANGED <<ready, response, answered>>,
         Writing' => Writing /\ UNCHANGED loop,
         NEW d \in [Sockets -> {0, 1}],
         \A t \in Sockets, j \in Nat : IsAnswer(t, j)' =>
           IsAnswer(t, j + d[t]) /\ outbox'[t][j] = outbox[t][j + d[t]]
  PROVE  Single'
<1>1. HandedOver'
  BY DEF Single, HandedOver, FrameOfGame, Open, Asked, Shown
<1>2. ASSUME NEW s \in Sockets, NEW i \in Nat, IsAnswer(s, i)'
      PROVE  /\ outbox'[s][i].n = game'.n /\ Open' /\ ~ready' /\ ~Writing'
             /\ \A t \in Sockets, j \in Nat : IsAnswer(t, j)' => t = s /\ j = i
  <2>1. i + d[s] \in Nat /\ IsAnswer(s, i + d[s]) /\ outbox'[s][i] = outbox[s][i + d[s]]
    BY <1>2
  <2>2. ASSUME NEW t \in Sockets, NEW j \in Nat, IsAnswer(t, j)' PROVE t = s /\ j = i
    <3>1. j + d[t] \in Nat /\ IsAnswer(t, j + d[t])
      BY <2>2
    <3>2. t = s /\ j + d[t] = i + d[s]
      BY <2>1, <3>1 DEF Single, OneAnswer
    <3>3. d[s] \in {0, 1}
      OBVIOUS
    <3>. QED BY <3>2, <3>3
  <2>3. outbox[s][i + d[s]].n = game.n /\ Open /\ ~ready /\ ~Writing
    BY <2>1 DEF Single, OneAnswer
  <2>4. Open'
    BY <2>3 DEF Open, FrameOfGame
  <2>. QED BY <2>1, <2>2, <2>3, <2>4 DEF FrameOfGame
<1>. QED BY <1>1, <1>2 DEF Single, OneAnswer

LEMMA ReadShifts ==
  ASSUME Types, NEW s \in Sockets, outbox[s] # <<>>, Read(s),
         NEW t \in Sockets, NEW j \in Nat, IsAnswer(t, j)'
  PROVE  LET k == j + (IF t = s THEN 1 ELSE 0)
         IN  IsAnswer(t, k) /\ outbox'[t][j] = outbox[t][k]
<1>1. outbox[s] \in Seq(OutMsgs) /\ outbox' = [outbox EXCEPT ![s] = Tail(outbox[s])]
  BY DEF Types, OutboxOK, Read
<1>2. /\ Len(Tail(outbox[s])) = Len(outbox[s]) - 1
      /\ \A i \in 1 .. Len(Tail(outbox[s])) : Tail(outbox[s])[i] = outbox[s][i + 1]
  BY <1>1, HeadTailProperties
<1>3. Len(outbox[s]) \in Nat
  BY <1>1, LenProperties
<1>4. CASE t = s
  <2>1. outbox'[t] = Tail(outbox[s])
    BY <1>1, <1>4 DEF Types, OutboxOK
  <2>2. j \in 1 .. Len(Tail(outbox[s])) /\ Tail(outbox[s])[j].type = "response"
    BY <2>1 DEF IsAnswer
  <2>3. outbox'[t][j] = outbox[t][j + 1]
    BY <1>2, <1>4, <2>1, <2>2
  <2>4. j + 1 \in 1 .. Len(outbox[t])
    BY <1>2, <1>3, <1>4, <2>2
  <2>. QED BY <1>4, <2>1, <2>2, <2>3, <2>4 DEF IsAnswer
<1>5. CASE t # s
  <2>1. outbox'[t] = outbox[t]
    BY <1>1, <1>5 DEF Types, OutboxOK
  <2>. QED BY <1>5, <2>1 DEF IsAnswer
<1>. QED BY <1>4, <1>5

LEMMA SendAdds ==
  ASSUME Types, NEW s \in Sockets, NEW m \in OutMsgs, Send(s, m),
         NEW t \in Sockets, NEW j \in Nat, IsAnswer(t, j)'
  PROVE  \/ IsAnswer(t, j) /\ outbox'[t][j] = outbox[t][j]
         \/ m.type = "response" /\ outbox'[t][j] = m /\ t = s /\ j = Len(outbox[s]) + 1
<1>1. outbox[s] \in Seq(OutMsgs) /\ outbox' = [outbox EXCEPT ![s] = Append(outbox[s], m)]
  BY DEF Types, OutboxOK, Send
<1>2. Len(outbox[s]) \in Nat
  BY <1>1, LenProperties
<1>3. CASE t = s
  <2>1. outbox'[t] = Append(outbox[s], m)
    BY <1>1, <1>3 DEF Types, OutboxOK
  <2>. QED BY <1>1, <1>2, <1>3, <2>1 DEF IsAnswer
<1>4. CASE t # s
  <2>1. outbox'[t] = outbox[t]
    BY <1>1, <1>4 DEF Types, OutboxOK
  <2>. QED BY <2>1 DEF IsAnswer
<1>. QED BY <1>3, <1>4

LEMMA GameSingle ==
  ASSUME Types, Single, GameStep
  PROVE  Single'
<1>1. UNCHANGED <<outbox, loop, answered>>
  BY DEF GameStep, Mutate, ClearReady, ResetResponse, Expect, BroadcastPrompt, Wake,
     ReturnResponse, Present, BroadcastPresentation, Resolve, Unpresent, wires, history
<1>2. (NoAnswer <=> NoAnswer') /\ (Writing <=> Writing')
  BY <1>1 DEF NoAnswer, IsAnswer, Writing
<1>3. ASSUME NoAnswer, ~Writing,
             game'.pc \in Shown => ~ready',
             game'.pc \in {"reset", "expect"} => ~ready',
             game'.pc = "return" => response' = Asked'
      PROVE  Single'
  BY <1>2, <1>3 DEF Single, OneAnswer, HandedOver, NoAnswer
<1>4. game.pc \notin Shown \/ ready => NoAnswer /\ ~Writing
  BY DEF Single, OneAnswer, HandedOver, Open, NoAnswer
<1>5. CASE Mutate \/ ClearReady \/ Present
  BY <1>3, <1>4, <1>5 DEF Mutate, ClearReady, Present, Begin, Shown, Types, GameOK
<1>6. CASE ResetResponse \/ Expect \/ ReturnResponse \/ BroadcastPresentation \/ Resolve
           \/ Unpresent
  BY <1>3, <1>4, <1>6 DEF ResetResponse, Expect, ReturnResponse, BroadcastPresentation, Resolve,
     Unpresent, Step, Shown, Single, HandedOver, Types, GameOK
<1>7. CASE Wake
  BY <1>3, <1>4, <1>7 DEF Wake, Step, Shown, Single, HandedOver, Asked, Types, GameOK
<1>8. CASE BroadcastPrompt
  <2>1. /\ game.pc \in Shown /\ game'.pc \in Shown /\ game'.pc \notin {"reset", "expect", "return"}
        /\ game'.n = game.n /\ game'.player = game.player
        /\ UNCHANGED <<ready, response>>
    BY <1>8 DEF BroadcastPrompt, Step, Shown, Types, GameOK, fields
  <2>2. (Open <=> Open') /\ Asked' = Asked
    BY <1>1, <2>1 DEF Open, Asked
  <2>. QED BY <1>1, <1>2, <2>1, <2>2 DEF Single, OneAnswer, HandedOver, IsAnswer
<1>. QED BY <1>5, <1>6, <1>7, <1>8 DEF GameStep

LEMMA LoopSingle ==
  ASSUME Types, Single, LoopStep
  PROVE  Single'
<1>1. FrameOfGame
  <2>1. CASE ~GameStep
    BY <2>1, GameFrame DEF Next
  <2>2. ~GameStep \/ FrameOfGame
    BY DEF LoopStep, FrameOfGame, fields, Handle, WriteResponse, SetReady, SaveHalf, SaveRest,
       CheckResponse, RejectResponse, Resync, HandleSync, ReceiveAck, CheckSave, Welcome, Leave
  <2>. QED BY <2>1, <2>2
<1>2. UNCHANGED answered
  BY DEF LoopStep, history, Handle, WriteResponse, SetReady, SaveHalf, SaveRest,
     CheckResponse, RejectResponse, Resync, HandleSync, ReceiveAck, CheckSave, Welcome, Leave
<1>3. Open' <=> Open
  BY <1>1, <1>2 DEF FrameOfGame, Open
<1>4. CASE WriteResponse \/ SetReady
  <2>1. NoAnswer /\ NoAnswer'
    BY <1>4 DEF WriteResponse, SetReady, wires, Single, OneAnswer, NoAnswer, IsAnswer, Writing
  <2>2. HandedOver'
    BY <1>1, <1>3, <1>4 DEF WriteResponse, SetReady, Single, HandedOver, Writing, FrameOfGame, Asked,
       Types, LoopOK, Shown, Open
  <2>. QED BY <2>1, <2>2 DEF Single, OneAnswer, NoAnswer
<1>5. CASE SaveHalf \/ SaveRest
  <2> DEFINE d == [t \in Sockets |-> 0]
  <2>1. \A t \in Sockets, j \in Nat : IsAnswer(t, j)' =>
          IsAnswer(t, j + d[t]) /\ outbox'[t][j] = outbox[t][j + d[t]]
    BY <1>5 DEF SaveHalf, SaveRest, wires, IsAnswer
  <2>2. UNCHANGED <<ready, response>> /\ ~Writing'
    BY <1>5 DEF SaveHalf, SaveRest, fields, Writing
  <2>3. d \in [Sockets -> {0, 1}]
    OBVIOUS
  <2> HIDE DEF d
  <2>. QED BY <1>1, <1>2, <2>1, <2>2, <2>3, NoneAdded
<1>6. ASSUME NEW s \in Sockets, CheckResponse(s) PROVE Single'
  <2> DEFINE m == Head(outbox[s])
  <2>1. /\ m.type = "response" /\ outbox[s] # <<>> /\ Read(s) /\ m.player = expecting
        /\ expecting # None
        /\ loop' = [pc |-> "write", player |-> m.player, n |-> m.n]
        /\ UNCHANGED <<ready, response>>
    BY <1>6 DEF CheckResponse, Reading, Accepts, fields
  <2>2. IsAnswer(s, 1) /\ outbox[s][1] = m
    BY <2>1, EmptySeq DEF IsAnswer, Types, OutboxOK
  <2>3. m.n = game.n /\ Open /\ ~ready
    BY <2>2 DEF Single, OneAnswer
  <2>4. m.player = game.player
    BY <2>1, <2>3 DEF Types, FieldsOK, Open
  <2>5. ASSUME NEW t \in Sockets, NEW j \in Nat, IsAnswer(t, j)' PROVE FALSE
    <3> DEFINE k == j + (IF t = s THEN 1 ELSE 0)
    <3>1. IsAnswer(t, k) /\ k \in Nat
      BY <2>1, <2>5, ReadShifts
    <3>2. t = s /\ k = 1
      BY <2>2, <3>1 DEF Single, OneAnswer
    <3>3. j # 0
      BY <2>5 DEF IsAnswer
    <3>. QED BY <3>2, <3>3
  <2>6. HandedOver'
    BY <1>1, <1>3, <2>1, <2>3, <2>4 DEF Single, HandedOver, Writing, FrameOfGame, Asked, Open, Shown
  <2>. QED BY <2>5, <2>6 DEF Single, OneAnswer
<1>7. ASSUME NEW s \in Sockets, Handle(s), ~CheckResponse(s) PROVE Single'
  <2>1. UNCHANGED <<ready, response>> /\ (Writing' => Writing /\ UNCHANGED loop)
    BY <1>7 DEF Handle, RejectResponse, Resync, HandleSync, ReceiveAck, CheckSave, Welcome, Leave,
       fields, Writing
  <2>2. CASE Read(s) /\ outbox[s] # <<>>
    <3> DEFINE d == [t \in Sockets |-> IF t = s THEN 1 ELSE 0]
    <3>1. \A t \in Sockets, j \in Nat : IsAnswer(t, j)' =>
            IsAnswer(t, j + d[t]) /\ outbox'[t][j] = outbox[t][j + d[t]]
      BY <2>2, ReadShifts
    <3>2. d \in [Sockets -> {0, 1}]
      OBVIOUS
    <3> HIDE DEF d
    <3>. QED BY <1>1, <1>2, <2>1, <3>1, <3>2, NoneAdded
  <2>3. CASE UNCHANGED outbox \/ outbox' = [outbox EXCEPT ![s] = <<>>]
    <3> DEFINE d == [t \in Sockets |-> 0]
    <3>1. \A t \in Sockets, j \in Nat : IsAnswer(t, j)' =>
            IsAnswer(t, j + d[t]) /\ outbox'[t][j] = outbox[t][j + d[t]]
      BY <2>3, EmptySeq DEF IsAnswer, Types, OutboxOK
    <3>2. d \in [Sockets -> {0, 1}]
      OBVIOUS
    <3> HIDE DEF d
    <3>. QED BY <1>1, <1>2, <2>1, <3>1, <3>2, NoneAdded
  <2>. QED BY <1>7, <2>2, <2>3 DEF Handle, RejectResponse, Resync, HandleSync, ReceiveAck,
           CheckSave, Welcome, Leave, Reading
<1>. QED BY <1>4, <1>5, <1>6, <1>7 DEF LoopStep

LEMMA ClientSingle ==
  ASSUME Types, PromptsFresh, Single, NEW s \in Sockets, ~again',
         ClientStep(s) \/ Aside(s) \/ Lose(s) \/ \E p \in Players : Join(s, p)
  PROVE  Single'
<1>1. FrameOfGame /\ UNCHANGED <<ready, response, loop>>
  BY DEF ClientStep, Receive, Answer, Acknowledge, Aside, Lose, Join, FrameOfGame, fields
<1>2. CASE Answer(s)
  <2> DEFINE m == [type |-> "response", n |-> client[s].prompt, player |-> client[s].player]
  <2>1. client[s].prompt # None /\ client[s].prompt \notin answered
        /\ answered' = answered \cup {client[s].prompt} /\ Send(s, m)
    BY <1>2 DEF Answer
  <2>2. m \in OutMsgs
    BY <2>1 DEF Types, ClientsOK, Clients, OutMsgs
  <2>3. client[s].prompt = game.n /\ game.pc \in Shown /\ game.n \notin answered
    BY <2>1 DEF PromptsFresh, Fresh
  <2>4. Open' /\ ~ready /\ ~Writing /\ NoAnswer
    BY <1>1, <2>1, <2>3 DEF FrameOfGame, Open, Single, OneAnswer, HandedOver, NoAnswer
  <2>5. ASSUME NEW t \in Sockets, NEW j \in Nat, IsAnswer(t, j)'
        PROVE  outbox'[t][j] = m /\ t = s /\ j = Len(outbox[s]) + 1
    BY <2>1, <2>2, <2>4, <2>5, SendAdds DEF NoAnswer
  <2>6. HandedOver' /\ ~Writing'
    BY <1>1, <2>4 DEF Single, HandedOver, FrameOfGame, Writing, Asked
  <2>7. OneAnswer'
    BY <1>1, <2>3, <2>4, <2>5, <2>6 DEF OneAnswer, FrameOfGame
  <2>. QED BY <2>6, <2>7 DEF Single
<1>3. CASE ~Answer(s)
  <2> DEFINE d == [t \in Sockets |-> 0]
  <2>1. UNCHANGED answered
    BY <1>3 DEF ClientStep, Receive, Acknowledge, Aside, Lose, Join, history
  <2>2. \/ UNCHANGED outbox
        \/ \E m \in OutMsgs : m.type # "response" /\ Send(s, m)
    <3>1. client[s].player \in Players \cup {None}
      BY DEF Types, ClientsOK, Clients
    <3>2. CASE \E n \in Requests : Acknowledge(s, n)
      BY <3>1, <3>2 DEF Acknowledge, OutMsgs
    <3>3. CASE Aside(s)
      BY <3>1, <3>3 DEF Aside, OutMsgs
    <3>4. CASE Receive(s) \/ Lose(s) \/ \E p \in Players : Join(s, p)
      BY <3>4 DEF Receive, Lose, Join
    <3>. QED BY <1>3, <3>2, <3>3, <3>4 DEF ClientStep
  <2>3. ASSUME NEW t \in Sockets, NEW j \in Nat, IsAnswer(t, j)'
        PROVE  IsAnswer(t, j) /\ outbox'[t][j] = outbox[t][j]
    <3>1. CASE UNCHANGED outbox
      BY <2>3, <3>1 DEF IsAnswer
    <3>2. CASE \E m \in OutMsgs : m.type # "response" /\ Send(s, m)
      BY <2>3, <3>2, SendAdds
    <3>. QED BY <2>2, <3>1, <3>2
  <2>4. \A t \in Sockets, j \in Nat : IsAnswer(t, j)' =>
          IsAnswer(t, j + d[t]) /\ outbox'[t][j] = outbox[t][j + d[t]]
    BY <2>3
  <2>5. d \in [Sockets -> {0, 1}]
    OBVIOUS
  <2>6. Writing' => Writing /\ UNCHANGED loop
    BY <1>1 DEF Writing
  <2> HIDE DEF d
  <2>. QED BY <1>1, <2>1, <2>4, <2>5, <2>6, NoneAdded
<1>. QED BY <1>2, <1>3

LEMMA NeverTwice ==
  ASSUME Types, Next, ~again'
  PROVE  ~again
BY DEF Next, GameStep, Mutate, ClearReady, ResetResponse, Expect, BroadcastPrompt, Wake,
   ReturnResponse, Present, BroadcastPresentation, Resolve, Unpresent, LoopStep, WriteResponse,
   SetReady, SaveHalf, SaveRest, Handle, CheckResponse, RejectResponse, Resync, HandleSync,
   ReceiveAck, CheckSave, Welcome, Leave, ClientStep, Receive, Answer, Acknowledge, Aside, Lose,
   Join, history

(* The answer the game takes is the one given to the prompt it asked, by   *)
(* the player it asked, as long as nobody answers a prompt twice: whatever *)
(* connections are lost or taken over, however the threads interleave.     *)
THEOREM AnswerOfPrompt == Spec => []AnswersItsPrompt
<1> DEFINE AInv == Types /\ (~again => PromptsFresh /\ Single)
<1>1. Init => AInv
  <2> SUFFICES ASSUME Init PROVE PromptsFresh /\ Single
    BY InitTypes
  <2>1. PromptsFresh
    BY EmptySeq DEF Init, PromptsFresh, Blank
  <2>2. NoAnswer
    BY EmptySeq DEF Init, NoAnswer, IsAnswer
  <2>3. HandedOver
    BY DEF Init, HandedOver, Writing, Shown
  <2>. QED BY <2>1, <2>2, <2>3 DEF Single, OneAnswer, NoAnswer
<1>2. AInv /\ [Next]_vars => AInv'
  <2> SUFFICES ASSUME AInv, [Next]_vars, ~again' PROVE (PromptsFresh /\ Single)'
    BY NextTypes
  <2>1. CASE UNCHANGED vars
    BY <2>1 DEF vars, fields, wires, history, PromptsFresh, FreshMsgs, Fresh, Single, OneAnswer,
       HandedOver, IsAnswer, Open, Asked, Writing
  <2>2. CASE Next
    <3>1. PromptsFresh /\ Single
      BY <2>2, NeverTwice
    <3>2. PromptsFresh'
      BY <2>2, <3>1, PromptsStep DEF Single
    <3>3. Single'
      BY <2>2, <3>1, GameSingle, LoopSingle, ClientSingle DEF Next
    <3>. QED BY <3>2, <3>3
  <2>. QED BY <2>1, <2>2
<1>3. AInv => AnswersItsPrompt
  BY NoneAssumption DEF AnswersItsPrompt, Single, HandedOver, Asked, Types, FieldsOK, Answers,
     GameOK, Asking
<1>. QED BY <1>1, <1>2, <1>3, PTL DEF Spec

-----------------------------------------------------------------------------
(* A prompt is not lost on its way.  The prompts in an inbox q, and the one *)
(* that client c shows, come in the order they were asked, up to prompt n,  *)
(* which is p's;                                                            *)
InLine(q, c, n, p) ==
  /\ \A i \in 1 .. Len(q) : q[i].type = "prompt" =>
       /\ q[i].n <= n /\ (q[i].n = n => q[i].player = p)
       /\ c.prompt # None => c.prompt <= q[i].n
       /\ \A j \in 1 .. Len(q) : i < j /\ q[j].type = "prompt" => q[i].n <= q[j].n
  /\ c.prompt # None => c.player # None /\ c.prompt <= n /\ (c.prompt = n => c.player = p)
AllInLine == \A s \in Sockets : InLine(inbox[s], client[s], game.n, game.player)

(* a socket that is up has a player, it is told no other, and it has been   *)
(* told, or will be by a message before place i;                            *)
Told(q, c, p) ==
  /\ c.player \in {None, p}
  /\ \A i \in 1 .. Len(q) : q[i].type = "assign" => q[i].player = p
Knows(q, c, i) == c.player # None \/ \E k \in 1 .. Len(q) : k < i /\ q[k].type = "assign"
Seated ==
  \A s \in Sockets :
    /\ conn[s] = "new" => inbox[s] = <<>> /\ client[s].player = None
    /\ conn[s] \in Up => \E p \in Players : socketOf[p] = s /\ Told(inbox[s], client[s], p)
    /\ conn[s] \in {"open", "rejected"} => Knows(inbox[s], client[s], Len(inbox[s]) + 1)

(* so the prompt n on its way to c will be shown, or is, or is answered.    *)
Comes(q, c, n) ==
  \/ \E i \in 1 .. Len(q) : q[i].type = "prompt" /\ q[i].n = n /\ Knows(q, c, i)
  \/ c.prompt = n /\ ~c.busy
Responds(q) == \E i \in 1 .. Len(q) : q[i].type = "response"
InReach ==
  \A s \in Sockets :
    game.pc = "wait" /\ ~ready /\ ~Writing /\ socketOf[game.player] = s /\ conn[s] = "open" =>
      Comes(inbox[s], client[s], game.n) \/ Responds(outbox[s])

(* What a message more, or the first one taken, makes of these. *)
LEMMA OneMore ==
  ASSUME NEW q \in Seq(InMsgs), NEW m \in InMsgs
  PROVE  /\ Append(q, m) \in Seq(InMsgs) /\ Len(q) \in Nat /\ Len(Append(q, m)) = Len(q) + 1
         /\ \A i \in 1 .. Len(q) : Append(q, m)[i] = q[i] /\ i \in 1 .. Len(q) + 1
         /\ \A i \in 1 .. Len(q) + 1 : i \in 1 .. Len(q) \/ i = Len(q) + 1
         /\ Append(q, m)[Len(q) + 1] = m
<1>1. Len(q) \in Nat
  BY LenProperties
<1>2. \A n \in Nat : /\ \A i \in 1 .. n : i \in 1 .. n + 1
                     /\ \A i \in 1 .. n + 1 : i \in 1 .. n \/ i = n + 1
  OBVIOUS
<1>. QED BY <1>1, <1>2, AppendProperties

LEMMA OneLess ==
  ASSUME NEW q \in Seq(InMsgs), q # <<>>
  PROVE  /\ Tail(q) \in Seq(InMsgs) /\ Head(q) \in InMsgs /\ Head(q) = q[1]
         /\ Len(q) \in Nat /\ Len(q) >= 1 /\ Len(Tail(q)) = Len(q) - 1
         /\ \A i \in 1 .. Len(Tail(q)) : Tail(q)[i] = q[i + 1] /\ i + 1 \in 1 .. Len(q)
         /\ \A i \in 1 .. Len(q) : i = 1 \/ (i - 1 \in 1 .. Len(Tail(q)) /\ Tail(q)[i - 1] = q[i])
<1>1. PICK n \in Nat : n = Len(q)
  BY LenProperties
<1>2. n >= 1
  BY <1>1, EmptySeq
<1>3. /\ Tail(q) \in Seq(InMsgs) /\ Head(q) \in InMsgs /\ Len(Tail(q)) = n - 1
      /\ \A i \in 1 .. n - 1 : Tail(q)[i] = q[i + 1]
  BY <1>1, HeadTailProperties
<1>4. Head(q) = q[1]
  OBVIOUS
<1>5. /\ \A i \in 1 .. n - 1 : i + 1 \in 1 .. n
      /\ \A i \in 1 .. n : i = 1 \/ (i - 1 \in 1 .. n - 1 /\ i - 1 + 1 = i)
  BY <1>2
<1>6. \A i \in 1 .. n : i = 1 \/ (i - 1 \in 1 .. n - 1 /\ Tail(q)[i - 1] = q[i])
  BY <1>3, <1>5
<1>. QED BY <1>1, <1>2, <1>3, <1>4, <1>5, <1>6

LEMMA PromptNumber ==
  ASSUME NEW m \in InMsgs, m.type = "prompt"
  PROVE  m.n \in Requests /\ m.n \in Nat /\ m.player \in Players
BY BoundsAssumption DEF InMsgs, Requests

LEMMA LineGrows ==
  ASSUME NEW q \in Seq(InMsgs), NEW c \in Clients, NEW n \in Nat, NEW p, InLine(q, c, n, p),
         NEW m \in InMsgs, m.type = "prompt" => m.n = n /\ m.player = p
  PROVE  InLine(Append(q, m), c, n, p)
<1> DEFINE t == Append(q, m)
<1>1. PICK l \in Nat : l = Len(q)
  BY LenProperties
<1>2. /\ Len(t) = l + 1 /\ t[l + 1] = m /\ \A i \in 1 .. l : t[i] = q[i]
      /\ \A i \in 1 .. l + 1 : i \in 1 .. l \/ i = l + 1
  BY <1>1, OneMore
<1>3. ASSUME NEW i \in 1 .. l PROVE q[i] \in InMsgs
  BY <1>1, LenProperties
<1>4. ASSUME NEW i \in 1 .. l + 1, t[i].type = "prompt"
      PROVE  /\ t[i].n <= n /\ (t[i].n = n => t[i].player = p) /\ t[i].n \in Nat
             /\ c.prompt # None => c.prompt <= t[i].n
  <2>1. CASE i \in 1 .. l
    BY <2>1, <1>1, <1>2, <1>3, <1>4, PromptNumber DEF InLine
  <2>2. CASE i = l + 1
    BY <2>2, <1>2, <1>4, PromptNumber DEF InLine
  <2>. QED BY <1>2, <2>1, <2>2
<1>5. ASSUME NEW i \in 1 .. l + 1, NEW j \in 1 .. l + 1, i < j,
             t[i].type = "prompt", t[j].type = "prompt"
      PROVE  t[i].n <= t[j].n
  <2>1. CASE j \in 1 .. l
    <3>1. i \in 1 .. l /\ t[i] = q[i] /\ t[j] = q[j]
      BY <2>1, <1>2, <1>5
    <3>. QED BY <3>1, <2>1, <1>1, <1>5 DEF InLine
  <2>2. CASE j = l + 1
    <3>1. t[j].n = n
      BY <2>2, <1>2, <1>5
    <3>. QED BY <3>1, <1>4, <1>5
  <2>. QED BY <1>2, <2>1, <2>2
<1>. QED BY <1>2, <1>4, <1>5 DEF InLine

LEMMA LineMoves ==
  ASSUME NEW q \in Seq(InMsgs), NEW c \in Clients, NEW n \in Nat, NEW p, InLine(q, c, n, p),
         q # <<>>, Head(q).type = "assign" /\ c.player # None => Head(q).player = c.player
  PROVE  InLine(Tail(q), Shows(c, Head(q)), n, p)
<1> DEFINE t == Tail(q)
           m == Head(q)
           d == Shows(c, m)
<1>1. PICK l \in Nat : l = Len(q)
  BY LenProperties
<1>2. /\ m \in InMsgs /\ m = q[1] /\ l >= 1 /\ Len(t) = l - 1 /\ 1 \in 1 .. l
      /\ \A i \in 1 .. l - 1 : t[i] = q[i + 1] /\ i + 1 \in 1 .. l /\ 1 < i + 1
  <2>1. /\ m \in InMsgs /\ m = q[1] /\ l >= 1 /\ Len(t) = l - 1
        /\ \A i \in 1 .. l - 1 : t[i] = q[i + 1] /\ i + 1 \in 1 .. l
    BY <1>1, OneLess
  <2>. QED BY <2>1
<1>3. ASSUME NEW i \in 1 .. l - 1, t[i].type = "prompt"
      PROVE  t[i].n <= n /\ (t[i].n = n => t[i].player = p)
  <2>1. i + 1 \in 1 .. l /\ q[i + 1] = t[i]
    BY <1>2
  <2>. QED BY <2>1, <1>1, <1>3 DEF InLine
<1>4. ASSUME NEW i \in 1 .. l - 1, NEW j \in 1 .. l - 1, i < j,
             t[i].type = "prompt", t[j].type = "prompt"
      PROVE  t[i].n <= t[j].n
  <2>1. i + 1 \in 1 .. l /\ q[i + 1] = t[i] /\ j + 1 \in 1 .. l /\ q[j + 1] = t[j]
        /\ i + 1 < j + 1
    BY <1>2, <1>4
  <2>. QED BY <2>1, <1>1, <1>4 DEF InLine
<1>5. CASE m.type = "prompt"
  <2>1. m.n <= n /\ (m.n = n => m.player = p) /\ m.n \in Nat
    BY <1>1, <1>2, <1>5, PromptNumber DEF InLine
  <2>2. d.prompt = (IF m.player = c.player THEN m.n ELSE None) /\ d.player = c.player
    BY <1>5 DEF Shows, Clients
  <2>3. ASSUME NEW i \in 1 .. l - 1, t[i].type = "prompt" PROVE m.n <= t[i].n
    <3>1. i + 1 \in 1 .. l /\ q[i + 1] = t[i] /\ 1 < i + 1
      BY <1>2
    <3>. QED BY <3>1, <1>1, <1>2, <1>5, <2>3 DEF InLine
  <2>4. d.prompt # None => d.player # None /\ d.prompt <= n /\ (d.prompt = n => d.player = p)
    BY <2>1, <2>2, <1>2, <1>5, NoneAssumption, PromptNumber
  <2>. QED BY <1>2, <1>3, <1>4, <2>1, <2>2, <2>3, <2>4 DEF InLine
<1>6. CASE m.type # "prompt"
  <2>1. d.prompt = c.prompt /\ (d.player = c.player \/ (m.type = "assign" /\ c.player = None))
    <3>1. m.type \in {"show", "resolved", "assign", "rejected"}
      BY <1>2, <1>6 DEF InMsgs
    <3>. QED BY <3>1 DEF Shows, Clients
  <2>2. ASSUME NEW i \in 1 .. l - 1, t[i].type = "prompt", c.prompt # None
        PROVE c.prompt <= t[i].n
    <3>1. i + 1 \in 1 .. l /\ q[i + 1] = t[i]
      BY <1>2
    <3>. QED BY <3>1, <1>1, <2>2 DEF InLine
  <2>3. c.prompt # None => c.player # None /\ c.prompt <= n /\ (c.prompt = n => c.player = p)
    BY DEF InLine
  <2>4. c.prompt # None => d.player # None /\ c.prompt <= n /\ (c.prompt = n => d.player = p)
    BY <2>1, <2>3
  <2>. QED BY <1>2, <1>3, <1>4, <2>1, <2>2, <2>4 DEF InLine
<1>. QED BY <1>5, <1>6

LEMMA LineNext ==
  ASSUME NEW q \in Seq(InMsgs), NEW c \in Clients, NEW n \in Nat, NEW p, InLine(q, c, n, p),
         NEW r
  PROVE  InLine(q, c, n + 1, r)
<1>1. PICK l \in Nat : l = Len(q)
  BY LenProperties
<1>2. ASSUME NEW i \in 1 .. l, q[i].type = "prompt"
      PROVE  q[i].n <= n + 1 /\ q[i].n # n + 1
  <2>1. q[i] \in InMsgs
    BY <1>1, LenProperties
  <2>2. q[i].n \in Nat /\ q[i].n <= n
    BY <1>1, <1>2, <2>1, PromptNumber DEF InLine
  <2>. QED BY <2>2
<1>3. c.prompt # None => c.prompt <= n + 1 /\ c.prompt # n + 1
  <2>1. c.prompt # None => c.prompt \in Nat
    BY BoundsAssumption DEF Clients, Requests
  <2>. QED BY <2>1 DEF InLine
<1>. QED BY <1>1, <1>2, <1>3 DEF InLine

LEMMA ShowsWhat ==
  ASSUME NEW c \in Clients, NEW m \in InMsgs
  PROVE  LET d == Shows(c, m) IN
         /\ d.player = IF m.type = "assign" THEN m.player ELSE c.player
         /\ d.prompt = IF m.type = "prompt"
                       THEN (IF m.player = c.player THEN m.n ELSE None) ELSE c.prompt
         /\ d.busy = (m.type \notin {"prompt", "rejected"} /\ c.busy)
<1>1. m.type \in {"prompt", "show", "resolved", "assign", "rejected"}
  BY DEF InMsgs
<1>2. c.busy \in BOOLEAN
  BY DEF Clients
<1>3. CASE m.type = "prompt"
  BY <1>2, <1>3 DEF Shows, Clients
<1>4. CASE m.type = "show"
  BY <1>2, <1>4 DEF Shows, Clients
<1>5. CASE m.type = "resolved"
  BY <1>2, <1>5 DEF Shows, Clients
<1>6. CASE m.type = "assign"
  BY <1>2, <1>6 DEF Shows, Clients
<1>7. CASE m.type = "rejected"
  BY <1>2, <1>7 DEF Shows, Clients
<1>. QED BY <1>1, <1>3, <1>4, <1>5, <1>6, <1>7

(* What a step makes of the inbox and the client of socket s. *)
Fits(m) ==
  m.type # "assign" /\ (m.type = "prompt" => m.n = game.n /\ m.player = game.player)
Kept(s) ==
  /\ inbox'[s] = inbox[s] /\ client'[s].player = client[s].player
  /\ client'[s].prompt = client[s].prompt
  /\ client'[s].busy = client[s].busy \/ Answer(s)
Added(s) ==
  /\ conn[s] # "new" /\ client'[s] = client[s]
  /\ \E m \in InMsgs : Fits(m) /\ inbox'[s] = Append(inbox[s], m)
Blanked(s) == inbox'[s] = <<>> /\ client'[s] = Blank /\ conn'[s] = "lost"

LEMMA SnapshotOne ==
  ASSUME Types
  PROVE  /\ Snapshot = <<>> \/ \E m \in InMsgs : Fits(m) /\ Snapshot = <<m>>
         /\ game.pc = "wait" =>
              LET m == PromptMsg(game.n, game.player, game.kind) IN
              m \in InMsgs /\ Fits(m) /\ Snapshot = <<m>>
<1> DEFINE m == PromptMsg(game.n, game.player, game.kind)
           w == ShowMsg(game.n, game.player)
<1>1. CASE game.pc \in Shown
  <2>1. prompt = game.n /\ prompt # None /\ presentation = None
    BY <1>1, NoneAssumption DEF Types, FieldsOK, GameOK, Shown, Showing, Asking
  <2>2. Snapshot = <<m>> \o <<>>
    BY <2>1 DEF Snapshot
  <2>3. Snapshot = <<m>>
    BY <2>2
  <2>4. m \in InMsgs /\ Fits(m)
    BY <1>1 DEF Types, GameOK, Shown, Asking, PromptMsg, InMsgs, Fits
  <2>. QED BY <2>3, <2>4
<1>2. CASE game.pc \in Showing
  <2>1. prompt = None /\ presentation = game.n /\ presentation # None
    BY <1>2, NoneAssumption DEF Types, FieldsOK, GameOK, Shown, Showing, Asking
  <2>2. Snapshot = <<>> \o <<w>>
    BY <2>1 DEF Snapshot
  <2>3. Snapshot = <<w>>
    BY <2>2
  <2>4. w \in InMsgs /\ Fits(w)
    BY <1>2 DEF Types, GameOK, Showing, ShowMsg, InMsgs, Fits
  <2>5. game.pc # "wait"
    BY <1>2 DEF Showing
  <2>. QED BY <2>3, <2>4, <2>5
<1>3. CASE game.pc \notin Shown \cup Showing
  <2>1. prompt = None /\ presentation = None
    BY <1>3 DEF Types, FieldsOK
  <2>2. Snapshot = <<>> \o <<>>
    BY <2>1 DEF Snapshot
  <2>3. Snapshot = <<>>
    BY <2>2
  <2>. QED BY <1>3, <2>3 DEF Shown
<1>. QED BY <1>1, <1>2, <1>3

LEMMA SentKept ==
  ASSUME Types, NEW s \in Sockets
  PROVE  inbox[s] \in Seq(InMsgs) /\ client[s] \in Clients /\ inbox[s] \o <<>> = inbox[s]
         /\ \A m \in InMsgs : inbox[s] \o <<m>> = Append(inbox[s], m)
<1>1. inbox[s] \in Seq(InMsgs) /\ client[s] \in Clients
  BY DEF Types, InboxOK, ClientsOK
<1>. QED BY <1>1, AppendIsConcat, ConcatEmptySeq

LEMMA BoxOfGame ==
  ASSUME Types, GameStep, NEW s \in Sockets
  PROVE  (Kept(s) \/ Added(s)) /\ conn' = conn /\ socketOf' = socketOf
<1>1. ASSUME NEW m \in InMsgs, Fits(m), Broadcast(m), client' = client
      PROVE  Kept(s) \/ Added(s)
  BY <1>1 DEF Broadcast, Kept, Added, Up
<1>2. CASE BroadcastPrompt
  <2>1. PromptMsg(game.n, game.player, game.kind) \in InMsgs
        /\ Fits(PromptMsg(game.n, game.player, game.kind))
    BY <1>2 DEF BroadcastPrompt, Step, Types, GameOK, Asking, PromptMsg, InMsgs, Fits
  <2>. QED BY <1>1, <1>2, <2>1 DEF BroadcastPrompt
<1>3. CASE BroadcastPresentation
  <2>1. ShowMsg(game.n, game.player) \in InMsgs /\ Fits(ShowMsg(game.n, game.player))
    BY <1>3 DEF BroadcastPresentation, Step, Types, GameOK, Showing, ShowMsg, InMsgs, Fits
  <2>. QED BY <1>1, <1>3, <2>1 DEF BroadcastPresentation
<1>4. CASE Resolve
  <2>1. ResolvedMsg(game.n) \in InMsgs /\ Fits(ResolvedMsg(game.n))
    BY <1>4 DEF Resolve, Step, Types, GameOK, Showing, ResolvedMsg, InMsgs, Fits
  <2>. QED BY <1>1, <1>4, <2>1 DEF Resolve
<1>5. CASE Mutate \/ ClearReady \/ ResetResponse \/ Expect \/ Wake \/ ReturnResponse
           \/ Present \/ Unpresent
  BY <1>5 DEF Mutate, ClearReady, ResetResponse, Expect, Wake, ReturnResponse, Present,
     Unpresent, wires, Kept
<1>. QED BY <1>2, <1>3, <1>4, <1>5 DEF GameStep

LEMMA BoxOfLoop ==
  ASSUME Types, NEW s \in Sockets, NEW r \in Sockets, Handle(r)
  PROVE  Kept(s) \/ Added(s) \/ Blanked(s) \/ (r = s /\ Welcome(s))
<1>1. inbox \in [Sockets -> Seq(InMsgs)] /\ client \in [Sockets -> Clients]
      /\ conn \in [Sockets -> {"new", "joining", "open", "rejected", "lost", "gone"}]
  BY DEF Types, InboxOK, ClientsOK, SocketsOK
<1>2. /\ inbox[s] \o <<>> = inbox[s]
      /\ \A m \in InMsgs : inbox[s] \o <<m>> = Append(inbox[s], m)
  BY SentKept
<1>3. CASE CheckResponse(r) \/ ReceiveAck(r) \/ CheckSave(r) \/ Leave(r)
  BY <1>3 DEF CheckResponse, ReceiveAck, CheckSave, Leave, Kept
<1>4. CASE RejectResponse(r)
  <2>1. [type |-> "rejected"] \in InMsgs /\ Fits([type |-> "rejected"])
    BY DEF InMsgs, Fits
  <2>2. conn[r] # "new"
    BY <1>4 DEF RejectResponse, Reading
  <2>3. CASE Closed(r)
    BY <1>1, <2>3 DEF Closed, Kept, Blanked
  <2>4. CASE ~Closed(r)
    <3>1. inbox' = [inbox EXCEPT ![r] = Append(@, [type |-> "rejected"])] /\ client' = client
      BY <1>4, <2>4 DEF RejectResponse
    <3>2. CASE s = r
      <4>1. inbox'[s] = Append(inbox[s], [type |-> "rejected"])
        BY <1>1, <3>1, <3>2
      <4>. QED BY <2>1, <2>2, <3>1, <3>2, <4>1 DEF Added
    <3>3. CASE s # r
      BY <1>1, <3>1, <3>3 DEF Kept
    <3>. QED BY <3>2, <3>3
  <2>. QED BY <2>3, <2>4
<1>5. ASSUME inbox' = [inbox EXCEPT ![r] = @ \o Snapshot], client' = client, conn[r] # "new"
      PROVE  Kept(s) \/ Added(s)
  <2>1. CASE s # r
    BY <1>1, <1>5, <2>1 DEF Kept
  <2>2. CASE s = r
    <3>1. inbox'[s] = inbox[s] \o Snapshot
      BY <1>1, <1>5, <2>2
    <3>2. CASE Snapshot = <<>>
      BY <1>2, <1>5, <3>1, <3>2 DEF Kept
    <3>3. CASE \E m \in InMsgs : Fits(m) /\ Snapshot = <<m>>
      BY <1>2, <1>5, <2>2, <3>1, <3>3 DEF Added
    <3>. QED BY <3>2, <3>3, SnapshotOne
  <2>. QED BY <2>1, <2>2
<1>6. CASE Resync(r)
  BY <1>5, <1>6 DEF Resync
<1>7. CASE HandleSync(r)
  <2>1. CASE inbox' = inbox
    BY <1>7, <2>1 DEF HandleSync, Kept
  <2>2. CASE inbox' # inbox
    BY <1>5, <1>7, <2>2 DEF HandleSync
  <2>. QED BY <2>1, <2>2
<1>8. CASE Welcome(r)
  BY <1>1, <1>8 DEF Welcome, Kept
<1>. QED BY <1>3, <1>4, <1>6, <1>7, <1>8 DEF Handle

LEMMA BoxStep ==
  ASSUME Types, Next, NEW s \in Sockets
  PROVE  Kept(s) \/ Added(s) \/ Blanked(s) \/ Welcome(s) \/ Receive(s)
<1>1. inbox \in [Sockets -> Seq(InMsgs)] /\ client \in [Sockets -> Clients]
      /\ conn \in [Sockets -> {"new", "joining", "open", "rejected", "lost", "gone"}]
  BY DEF Types, InboxOK, ClientsOK, SocketsOK
<1>2. CASE WriteResponse \/ SetReady \/ SaveHalf \/ SaveRest
  BY <1>2 DEF WriteResponse, SetReady, SaveHalf, SaveRest, wires, Kept
<1>3. ASSUME NEW r \in Sockets, ClientStep(r) \/ Aside(r) \/ Lose(r)
      PROVE  Kept(s) \/ Blanked(s) \/ Receive(s)
  <2>1. CASE Receive(r)
    BY <1>1, <2>1 DEF Receive, Kept
  <2>2. CASE Answer(r)
    <3>1. client' = [client EXCEPT ![r].busy = TRUE] /\ inbox' = inbox
      BY <2>2 DEF Answer
    <3>2. client[r] \in Clients
      BY <1>1
    <3>. QED BY <1>1, <2>2, <3>1, <3>2 DEF Kept, Clients
  <2>3. CASE \E n \in Requests : Acknowledge(r, n)
    <3>1. PICK n \in Requests : client' = [client EXCEPT ![r].sent = @ \cup {n}]
                                /\ inbox' = inbox
      BY <2>3 DEF Acknowledge
    <3>2. client[r] \in Clients
      BY <1>1
    <3>. QED BY <1>1, <3>1, <3>2 DEF Kept, Clients
  <2>4. CASE Aside(r)
    BY <2>4 DEF Aside, Kept
  <2>5. CASE Lose(r)
    BY <1>1, <2>5 DEF Lose, Closed, Kept, Blanked
  <2>. QED BY <1>3, <2>1, <2>2, <2>3, <2>4, <2>5 DEF ClientStep
<1>4. ASSUME NEW r \in Sockets, NEW p \in Players, Join(r, p)
      PROVE  Kept(s) \/ Blanked(s)
  <2>1. socketOf[p] # r \/ socketOf[p] = None
    BY <1>4 DEF Join, Types, SocketsOK
  <2>2. CASE s = socketOf[p]
    <3>1. s # r
      BY <2>1, <2>2, NoneAssumption
    <3>. QED BY <1>4, <2>2, <3>1 DEF Join, Blanked
  <2>3. CASE s # socketOf[p]
    BY <1>4, <2>3 DEF Join, Kept
  <2>. QED BY <2>2, <2>3
<1>. QED BY <1>2, <1>3, <1>4, BoxOfGame, BoxOfLoop DEF Next, LoopStep

(* What a step makes of the connection of socket s: it is up because it    *)
(* was, and its player is the same, or because the player has just joined. *)
Joined(s) == \E p \in Players : Join(s, p)
ConnKept(s) ==
  /\ conn'[s] = "new" => conn[s] = "new"
  /\ conn'[s] \in Up => conn[s] \in Up
  /\ conn'[s] \in {"open", "rejected"} => conn[s] \in {"open", "rejected"} \/ Welcome(s)
  /\ conn'[s] = "open" => conn[s] = "open" \/ Resync(s) \/ Welcome(s)
HolderKept(s) ==
  conn'[s] \in Up => \A p \in Players : (socketOf'[p] = s) = (socketOf[p] = s)

LEMMA ConnOfLoop ==
  ASSUME Types, NEW s \in Sockets, NEW r \in Sockets, Handle(r)
  PROVE  ConnKept(s) /\ HolderKept(s)
<1>. USE DEF ConnKept, HolderKept, Up
<1>1. conn \in [Sockets -> {"new", "joining", "open", "rejected", "lost", "gone"}]
  BY DEF Types, SocketsOK
<1>2. CASE CheckResponse(r) \/ ReceiveAck(r) \/ CheckSave(r) \/ HandleSync(r)
  BY <1>2 DEF CheckResponse, ReceiveAck, CheckSave, HandleSync
<1>3. CASE RejectResponse(r)
  <2>1. conn' = [conn EXCEPT ![r] = "lost"]
        \/ conn' = [conn EXCEPT ![r] = IF @ = "open" THEN "rejected" ELSE @]
    BY <1>3 DEF RejectResponse, Closed
  <2>2. socketOf' = socketOf /\ conn[r] \in {"open", "lost"}
    BY <1>3 DEF RejectResponse, Reading
  <2>. QED BY <1>1, <2>1, <2>2
<1>4. CASE Resync(r)
  BY <1>1, <1>4 DEF Resync
<1>5. CASE Welcome(r)
  BY <1>1, <1>5 DEF Welcome
<1>6. CASE Leave(r)
  <2>1. conn' = [conn EXCEPT ![r] = "gone"]
        /\ socketOf' = [p \in Players |-> IF socketOf[p] = r THEN None ELSE socketOf[p]]
    BY <1>6 DEF Leave
  <2>2. ConnKept(s)
    BY <1>1, <1>6, <2>1 DEF Leave
  <2>3. conn'[s] \in Up => s # r
    BY <1>1, <2>1
  <2>4. None # s
    BY NoneAssumption
  <2>. QED BY <2>1, <2>2, <2>3, <2>4
<1>. QED BY <1>2, <1>3, <1>4, <1>5, <1>6 DEF Handle

LEMMA ConnStep ==
  ASSUME Types, Next, NEW s \in Sockets
  PROVE  Joined(s) \/ (ConnKept(s) /\ HolderKept(s))
<1>. USE DEF ConnKept, HolderKept, Up
<1>1. conn \in [Sockets -> {"new", "joining", "open", "rejected", "lost", "gone"}]
  BY DEF Types, SocketsOK
<1>2. CASE GameStep
  BY <1>2, BoxOfGame
<1>3. CASE WriteResponse \/ SetReady \/ SaveHalf \/ SaveRest
  BY <1>3 DEF WriteResponse, SetReady, SaveHalf, SaveRest, wires
<1>4. ASSUME NEW r \in Sockets, ClientStep(r) \/ Aside(r)
      PROVE  conn' = conn /\ socketOf' = socketOf
  BY <1>4 DEF ClientStep, Receive, Answer, Acknowledge, Aside
<1>5. ASSUME NEW r \in Sockets, Lose(r) PROVE ConnKept(s) /\ HolderKept(s)
  BY <1>1, <1>5 DEF Lose, Closed
<1>6. ASSUME NEW r \in Sockets, NEW p \in Players, Join(r, p), r # s
      PROVE  ConnKept(s) /\ HolderKept(s)
  <2>1. conn'[s] = (IF s = socketOf[p] THEN "lost" ELSE conn[s])
        /\ socketOf' = [socketOf EXCEPT ![p] = r]
    BY <1>6 DEF Join
  <2>2. socketOf \in [Players -> Sockets \cup {None}]
    BY DEF Types, SocketsOK
  <2>3. ConnKept(s)
    BY <2>1
  <2>4. HolderKept(s)
    BY <1>6, <2>1, <2>2
  <2>. QED BY <2>3, <2>4
<1>. QED BY <1>2, <1>3, <1>4, <1>5, <1>6, ConnOfLoop DEF Next, LoopStep, Joined

(* The prompts stay in line. *)
LEMMA NumberStep ==
  ASSUME Types, Next
  PROVE  \/ game'.n = game.n /\ game'.player = game.player
         \/ game'.n = game.n + 1 /\ inbox' = inbox /\ client' = client
<1>1. CASE GameStep
  <2>1. ASSUME NEW pc, NEW p, NEW kind, Begin(pc, p, kind) PROVE game'.n = game.n + 1
    BY <2>1 DEF Begin, Types, GameOK
  <2>. QED BY <1>1, <2>1 DEF GameStep, Mutate, ClearReady, ResetResponse, Expect,
       BroadcastPrompt, Wake, ReturnResponse, Present, BroadcastPresentation, Resolve,
       Unpresent, Step, wires, Types, GameOK
<1>2. CASE ~GameStep
  BY <1>2, GameFrame DEF FrameOfGame
<1>. QED BY <1>1, <1>2

(* What a socket that gets a player is told. *)
Assign(p) == [type |-> "assign", player |-> p]

LEMMA WelcomeSays ==
  ASSUME Types, NEW s \in Sockets, Welcome(s)
  PROVE  /\ client' = client
         /\ \E p \in Players :
              LET t == Append(inbox[s], Assign(p)) IN
              /\ socketOf[p] = s /\ Assign(p) \in InMsgs /\ t \in Seq(InMsgs)
              /\ \/ inbox'[s] = t
                 \/ \E w \in InMsgs : Fits(w) /\ inbox'[s] = Append(t, w)
              /\ game.pc = "wait" =>
                   LET w == PromptMsg(game.n, game.player, game.kind) IN
                   w \in InMsgs /\ inbox'[s] = Append(t, w)
<1>1. PICK p \in Players :
        /\ socketOf[p] = s
        /\ inbox' = [inbox EXCEPT ![s] = Append(@, Assign(p)) \o Snapshot]
  BY DEF Welcome, Assign
<1> DEFINE t == Append(inbox[s], Assign(p))
<1>2. Assign(p) \in InMsgs
  BY DEF InMsgs, Assign
<1>3. inbox[s] \in Seq(InMsgs)
  BY DEF Types, InboxOK
<1>4. t \in Seq(InMsgs)
  BY <1>2, <1>3
<1>5. inbox'[s] = t \o Snapshot /\ client' = client
  BY <1>1 DEF Types, InboxOK, Welcome
<1>6. t \o <<>> = t /\ \A w \in InMsgs : t \o <<w>> = Append(t, w)
  <2> HIDE DEF t
  <2>. QED BY <1>4, ConcatEmptySeq, AppendIsConcat
<1> HIDE DEF t
<1>7. inbox'[s] = t \/ \E w \in InMsgs : Fits(w) /\ inbox'[s] = Append(t, w)
  BY <1>5, <1>6, SnapshotOne
<1>8. game.pc = "wait" =>
        LET w == PromptMsg(game.n, game.player, game.kind) IN
        w \in InMsgs /\ inbox'[s] = Append(t, w)
  BY <1>5, <1>6, SnapshotOne
<1>. QED BY <1>1, <1>2, <1>4, <1>5, <1>7, <1>8 DEF t

LEMMA LineStep ==
  ASSUME Types, Next, AllInLine, Seated, NEW s \in Sockets
  PROVE  InLine(inbox'[s], client'[s], game.n, game.player)
<1> DEFINE q == inbox[s]
           c == client[s]
<1>1. q \in Seq(InMsgs) /\ c \in Clients /\ game.n \in Nat /\ InLine(q, c, game.n, game.player)
  BY BoundsAssumption DEF Types, InboxOK, ClientsOK, GameOK, AllInLine
<1>2. CASE Kept(s)
  BY <1>1, <1>2 DEF Kept, InLine
<1>3. CASE Added(s)
  BY <1>1, <1>3, LineGrows DEF Added, Fits
<1>4. CASE Blanked(s)
  <2>1. \A i \in 1 .. Len(<<>>) : FALSE
    BY LenProperties, EmptySeq
  <2>. QED BY <1>4, <2>1 DEF Blanked, Blank, InLine
<1>5. CASE Welcome(s)
  <2>1. PICK p \in Players :
          LET t == Append(q, Assign(p)) IN
          /\ Assign(p) \in InMsgs /\ t \in Seq(InMsgs)
          /\ inbox'[s] = t \/ \E w \in InMsgs : Fits(w) /\ inbox'[s] = Append(t, w)
    BY <1>5, WelcomeSays
  <2> DEFINE t == Append(q, Assign(p))
  <2>2. client' = client
    BY <1>5 DEF Welcome
  <2>3. InLine(t, c, game.n, game.player)
    BY <1>1, <2>1, LineGrows DEF Assign
  <2>4. ASSUME NEW w \in InMsgs, Fits(w) PROVE InLine(Append(t, w), c, game.n, game.player)
    <3> HIDE DEF t
    <3>. QED BY <1>1, <2>1, <2>3, <2>4, LineGrows DEF Fits, t
  <2>. QED BY <2>1, <2>2, <2>3, <2>4
<1>6. CASE Receive(s)
  <2>1. inbox'[s] = Tail(q) /\ client'[s] = Shows(c, Head(q)) /\ q # <<>> /\ conn[s] \in Up
    BY <1>6 DEF Receive, Types, InboxOK, ClientsOK
  <2>2. PICK p \in Players : Told(q, c, p)
    BY <2>1 DEF Seated
  <2>3. PICK l \in Nat : l = Len(q)
    BY <1>1, LenProperties
  <2>4. Head(q) = q[1] /\ 1 \in 1 .. l
    BY <1>1, <2>1, <2>3, OneLess
  <2>5. Head(q).type = "assign" /\ c.player # None => Head(q).player = c.player
    BY <2>2, <2>3, <2>4 DEF Told
  <2>. QED BY <1>1, <2>1, <2>5, LineMoves
<1>. QED BY <1>2, <1>3, <1>4, <1>5, <1>6, BoxStep

LEMMA LinesStep ==
  ASSUME Types, Next, AllInLine, Seated
  PROVE  AllInLine'
<1> SUFFICES ASSUME NEW s \in Sockets PROVE InLine(inbox'[s], client'[s], game'.n, game'.player)
  BY DEF AllInLine
<1>1. InLine(inbox'[s], client'[s], game.n, game.player)
  BY LineStep
<1>2. CASE game'.n = game.n + 1 /\ inbox' = inbox /\ client' = client
  <2>1. inbox[s] \in Seq(InMsgs) /\ client[s] \in Clients /\ game.n \in Nat
    BY BoundsAssumption DEF Types, InboxOK, ClientsOK, GameOK
  <2>. QED BY <1>1, <1>2, <2>1, LineNext
<1>. QED BY <1>1, <1>2, NumberStep

(* Who plays at a socket is known, and by one name. *)
LEMMA ToldGrows ==
  ASSUME NEW q \in Seq(InMsgs), NEW c, NEW p, Told(q, c, p),
         NEW m \in InMsgs, m.type = "assign" => m.player = p
  PROVE  Told(Append(q, m), c, p)
<1>1. PICK l \in Nat : l = Len(q)
  BY LenProperties
<1>2. /\ Len(Append(q, m)) = l + 1 /\ Append(q, m)[l + 1] = m
      /\ \A i \in 1 .. l : Append(q, m)[i] = q[i]
      /\ \A i \in 1 .. l + 1 : i \in 1 .. l \/ i = l + 1
  BY <1>1, OneMore
<1>. QED BY <1>1, <1>2 DEF Told

LEMMA ToldMoves ==
  ASSUME NEW q \in Seq(InMsgs), q # <<>>, NEW c \in Clients, NEW p, Told(q, c, p)
  PROVE  Told(Tail(q), Shows(c, Head(q)), p)
<1>1. PICK l \in Nat : l = Len(q)
  BY LenProperties
<1>2. /\ Head(q) \in InMsgs /\ Head(q) = q[1] /\ 1 \in 1 .. l /\ Len(Tail(q)) = l - 1
      /\ \A i \in 1 .. l - 1 : Tail(q)[i] = q[i + 1] /\ i + 1 \in 1 .. l
  BY <1>1, OneLess
<1>3. Shows(c, Head(q)).player \in {None, p}
  BY <1>1, <1>2, ShowsWhat DEF Told
<1>. QED BY <1>1, <1>2, <1>3 DEF Told

LEMMA KnowsGrows ==
  ASSUME NEW q \in Seq(InMsgs), NEW c, NEW m \in InMsgs
  PROVE  /\ \A i \in 1 .. Len(q) : Knows(q, c, i) => Knows(Append(q, m), c, i)
         /\ Knows(q, c, Len(q) + 1) =>
              Knows(Append(q, m), c, Len(q) + 1) /\ Knows(Append(q, m), c, Len(q) + 2)
         /\ m.type = "assign" => Knows(Append(q, m), c, Len(q) + 2)
<1>1. PICK l \in Nat : l = Len(q)
  BY LenProperties
<1>2. /\ Len(Append(q, m)) = l + 1 /\ Append(q, m)[l + 1] = m
      /\ \A i \in 1 .. l : Append(q, m)[i] = q[i] /\ i \in 1 .. l + 1
      /\ l + 1 \in 1 .. l + 1 /\ l + 1 < l + 2
  BY <1>1, OneMore
<1>3. \A k \in 1 .. l : k < l + 2
  OBVIOUS
<1>. QED BY <1>1, <1>2, <1>3 DEF Knows

LEMMA KnowsMoves ==
  ASSUME NEW q \in Seq(InMsgs), q # <<>>, NEW c \in Clients,
         NEW i \in Nat, i > 1, Knows(q, c, i)
  PROVE  Knows(Tail(q), Shows(c, Head(q)), i - 1)
<1>1. PICK l \in Nat : l = Len(q)
  BY LenProperties
<1>2. /\ Head(q) \in InMsgs /\ Head(q) = q[1] /\ Len(Tail(q)) = l - 1
      /\ \A k \in 1 .. l : k = 1 \/ (k - 1 \in 1 .. l - 1 /\ Tail(q)[k - 1] = q[k])
  BY <1>1, OneLess
<1>3. Head(q).type = "assign" => Head(q).player # None
  BY <1>2, NoneAssumption DEF InMsgs
<1>4. CASE c.player # None \/ Head(q).type = "assign"
  BY <1>2, <1>3, <1>4, ShowsWhat DEF Knows
<1>5. CASE c.player = None /\ Head(q).type # "assign"
  <2>1. PICK k \in 1 .. l : k < i /\ q[k].type = "assign"
    BY <1>1, <1>5 DEF Knows
  <2>2. k - 1 \in 1 .. l - 1 /\ Tail(q)[k - 1] = q[k] /\ k - 1 < i - 1
    BY <1>2, <1>5, <2>1
  <2>. QED BY <1>2, <2>1, <2>2 DEF Knows
<1>. QED BY <1>4, <1>5

LEMMA ToldStep ==
  ASSUME Types, Next, NEW s \in Sockets, NEW p \in Players, socketOf[p] = s,
         Told(inbox[s], client[s], p), ~Blanked(s)
  PROVE  Told(inbox'[s], client'[s], p)
<1> DEFINE q == inbox[s]
           c == client[s]
<1>1. q \in Seq(InMsgs) /\ c \in Clients
  BY DEF Types, InboxOK, ClientsOK
<1>2. CASE Kept(s)
  BY <1>2 DEF Kept, Told
<1>3. CASE Added(s)
  BY <1>1, <1>3, ToldGrows DEF Added, Fits
<1>4. CASE Welcome(s)
  <2>1. PICK r \in Players :
          LET t == Append(q, Assign(r)) IN
          /\ socketOf[r] = s /\ Assign(r) \in InMsgs /\ t \in Seq(InMsgs)
          /\ inbox'[s] = t \/ \E w \in InMsgs : Fits(w) /\ inbox'[s] = Append(t, w)
    BY <1>4, WelcomeSays
  <2>2. r = p /\ client' = client
    BY <1>4, <2>1, NoneAssumption DEF Welcome, Types, SocketsOK
  <2> DEFINE t == Append(q, Assign(p))
  <2>3. Told(t, c, p)
    BY <1>1, <2>1, <2>2, ToldGrows DEF Assign
  <2>4. ASSUME NEW w \in InMsgs, Fits(w) PROVE Told(Append(t, w), c, p)
    <3> HIDE DEF t
    <3>. QED BY <2>1, <2>2, <2>3, <2>4, ToldGrows DEF Fits, t
  <2>. QED BY <2>1, <2>2, <2>3, <2>4
<1>5. CASE Receive(s)
  <2>1. inbox'[s] = Tail(q) /\ client'[s] = Shows(c, Head(q)) /\ q # <<>>
    BY <1>5 DEF Receive, Types, InboxOK, ClientsOK
  <2>. QED BY <1>1, <2>1, ToldMoves
<1>. QED BY <1>2, <1>3, <1>4, <1>5, BoxStep

LEMMA KnowsStep ==
  ASSUME Types, Next, NEW s \in Sockets, ~Blanked(s),
         Knows(inbox[s], client[s], Len(inbox[s]) + 1) \/ Welcome(s)
  PROVE  Knows(inbox'[s], client'[s], Len(inbox'[s]) + 1)
<1> DEFINE q == inbox[s]
           c == client[s]
<1>1. q \in Seq(InMsgs) /\ c \in Clients
  BY DEF Types, InboxOK, ClientsOK
<1>2. ASSUME NEW x \in Seq(InMsgs), NEW m \in InMsgs,
             Knows(x, c, Len(x) + 1) \/ m.type = "assign"
      PROVE  Knows(Append(x, m), c, Len(Append(x, m)) + 1)
  <2>1. Len(x) \in Nat /\ Len(Append(x, m)) = Len(x) + 1
    BY OneMore
  <2>2. Len(Append(x, m)) + 1 = Len(x) + 2
    BY <2>1
  <2>. QED BY <1>2, <2>2, KnowsGrows
<1>3. CASE Welcome(s)
  <2>1. PICK r \in Players :
          LET t == Append(q, Assign(r)) IN
          /\ Assign(r) \in InMsgs /\ t \in Seq(InMsgs)
          /\ inbox'[s] = t \/ \E w \in InMsgs : Fits(w) /\ inbox'[s] = Append(t, w)
    BY <1>3, WelcomeSays
  <2> DEFINE t == Append(q, Assign(r))
  <2>2. client' = client
    BY <1>3 DEF Welcome
  <2>3. Knows(t, c, Len(t) + 1)
    BY <1>1, <1>2, <2>1 DEF Assign
  <2>4. ASSUME NEW w \in InMsgs PROVE Knows(Append(t, w), c, Len(Append(t, w)) + 1)
    <3>1. t \in Seq(InMsgs)
      BY <2>1
    <3> HIDE DEF t
    <3>. QED BY <1>2, <2>3, <3>1
  <2>. QED BY <2>1, <2>2, <2>3, <2>4
<1>4. CASE Knows(q, c, Len(q) + 1) /\ Kept(s)
  BY <1>4 DEF Kept, Knows
<1>5. CASE Knows(q, c, Len(q) + 1) /\ Added(s)
  BY <1>1, <1>2, <1>5 DEF Added
<1>6. CASE Knows(q, c, Len(q) + 1) /\ Receive(s)
  <2>1. inbox'[s] = Tail(q) /\ client'[s] = Shows(c, Head(q)) /\ q # <<>>
    BY <1>6 DEF Receive, Types, InboxOK, ClientsOK
  <2>2. PICK l \in Nat : l = Len(q)
    BY <1>1, LenProperties
  <2>3. l >= 1 /\ Len(Tail(q)) = l - 1
    BY <1>1, <2>1, <2>2, OneLess
  <2>4. l + 1 \in Nat /\ l + 1 > 1 /\ (l + 1) - 1 = Len(Tail(q)) + 1
    BY <2>3
  <2>5. Knows(Tail(q), Shows(c, Head(q)), (l + 1) - 1)
    BY <1>1, <1>6, <2>1, <2>2, <2>4, KnowsMoves
  <2>. QED BY <2>1, <2>4, <2>5
<1>. QED BY <1>3, <1>4, <1>5, <1>6, BoxStep

LEMMA SeatedStep ==
  ASSUME Types, Next, Seated
  PROVE  Seated'
<1> SUFFICES ASSUME NEW s \in Sockets
             PROVE  /\ conn'[s] = "new" => inbox'[s] = <<>> /\ client'[s].player = None
                    /\ conn'[s] \in Up => \E p \in Players :
                         socketOf'[p] = s /\ Told(inbox'[s], client'[s], p)
                    /\ conn'[s] \in {"open", "rejected"} =>
                         Knows(inbox'[s], client'[s], Len(inbox'[s]) + 1)
  BY DEF Seated
<1>1. CASE Joined(s)
  <2>1. PICK p \in Players : Join(s, p)
    BY <1>1 DEF Joined
  <2>2. conn[s] = "new" /\ socketOf[p] # s /\ socketOf'[p] = s /\ conn'[s] = "joining"
    <3>1. conn[s] = "new" /\ socketOf' = [socketOf EXCEPT ![p] = s] /\ conn'[s] = "joining"
      BY <2>1 DEF Join
    <3>2. socketOf[p] # None => conn[socketOf[p]] # "new"
      BY DEF Types, SocketsOK
    <3>3. s # None
      BY NoneAssumption
    <3>. QED BY <3>1, <3>2, <3>3 DEF Types, SocketsOK
  <2>3. inbox'[s] = <<>> /\ client'[s].player = None
    BY <2>1, <2>2 DEF Join, Seated
  <2>4. \A i \in 1 .. Len(<<>>) : FALSE
    BY LenProperties, EmptySeq
  <2>. QED BY <2>2, <2>3, <2>4 DEF Told
<1>2. CASE ConnKept(s) /\ HolderKept(s)
  <2>1. ASSUME conn'[s] = "new" PROVE inbox'[s] = <<>> /\ client'[s].player = None
    <3>1. conn[s] = "new" /\ ~Added(s) /\ ~Blanked(s) /\ ~Welcome(s) /\ ~Receive(s)
      BY <1>2, <2>1 DEF ConnKept, Added, Blanked, Welcome, Receive, Up
    <3>. QED BY <3>1, BoxStep DEF Kept, Seated
  <2>2. ASSUME conn'[s] \in Up
        PROVE  \E p \in Players : socketOf'[p] = s /\ Told(inbox'[s], client'[s], p)
    <3>1. PICK p \in Players : socketOf[p] = s /\ Told(inbox[s], client[s], p)
      BY <1>2, <2>2 DEF ConnKept, Seated
    <3>2. socketOf'[p] = s /\ ~Blanked(s)
      BY <1>2, <2>2, <3>1 DEF HolderKept, Blanked, Up
    <3>. QED BY <3>1, <3>2, ToldStep
  <2>3. ASSUME conn'[s] \in {"open", "rejected"}
        PROVE  Knows(inbox'[s], client'[s], Len(inbox'[s]) + 1)
    <3>1. ~Blanked(s) /\ (Knows(inbox[s], client[s], Len(inbox[s]) + 1) \/ Welcome(s))
      BY <1>2, <2>3 DEF ConnKept, Seated, Blanked
    <3>. QED BY <3>1, KnowsStep
  <2>. QED BY <2>1, <2>2, <2>3
<1>. QED BY <1>1, <1>2, ConnStep

(* The prompt that is on its way, or shown, stays so until it is answered. *)
LEMMA ComesGrows ==
  ASSUME NEW q \in Seq(InMsgs), NEW c, NEW n, NEW m \in InMsgs,
         \/ Comes(q, c, n)
         \/ m.type = "prompt" /\ m.n = n /\ Knows(q, c, Len(q) + 1)
  PROVE  Comes(Append(q, m), c, n)
<1>1. PICK l \in Nat : l = Len(q)
  BY LenProperties
<1>2. /\ Len(Append(q, m)) = l + 1 /\ Append(q, m)[l + 1] = m
      /\ \A i \in 1 .. l : Append(q, m)[i] = q[i] /\ i \in 1 .. l + 1
      /\ l + 1 \in 1 .. l + 1
  BY <1>1, OneMore
<1>3. CASE c.prompt = n /\ ~c.busy
  BY <1>3 DEF Comes
<1>4. ASSUME NEW i \in 1 .. l, q[i].type = "prompt" /\ q[i].n = n /\ Knows(q, c, i)
      PROVE  Comes(Append(q, m), c, n)
  <2>1. Knows(Append(q, m), c, i)
    BY <1>1, <1>4, KnowsGrows
  <2>. QED BY <1>2, <1>4, <2>1 DEF Comes
<1>5. CASE m.type = "prompt" /\ m.n = n /\ Knows(q, c, Len(q) + 1)
  <2>1. Knows(Append(q, m), c, l + 1)
    BY <1>1, <1>5, KnowsGrows
  <2>. QED BY <1>2, <1>5, <2>1 DEF Comes
<1>. QED BY <1>1, <1>3, <1>4, <1>5 DEF Comes

LEMMA ComesMoves ==
  ASSUME NEW q \in Seq(InMsgs), q # <<>>, NEW c \in Clients, NEW n \in Nat, NEW p \in Players,
         n # None, InLine(q, c, n, p), Told(q, c, p), Comes(q, c, n)
  PROVE  Comes(Tail(q), Shows(c, Head(q)), n)
<1> DEFINE m == Head(q)
           d == Shows(c, m)
<1>1. PICK l \in Nat : l = Len(q)
  BY LenProperties
<1>2. /\ m \in InMsgs /\ m = q[1] /\ 1 \in 1 .. l /\ Len(Tail(q)) = l - 1
      /\ \A k \in 1 .. l : k = 1 \/ (k - 1 \in 1 .. l - 1 /\ Tail(q)[k - 1] = q[k])
  BY <1>1, OneLess
<1>3. /\ d.prompt = IF m.type = "prompt"
                    THEN (IF m.player = c.player THEN m.n ELSE None) ELSE c.prompt
      /\ d.busy = (m.type \notin {"prompt", "rejected"} /\ c.busy)
  BY <1>2, ShowsWhat
<1>4. ASSUME m.type = "prompt", m.n = n, c.player # None PROVE Comes(Tail(q), d, n)
  <2>1. m.player = p
    BY <1>1, <1>2, <1>4 DEF InLine
  <2>2. c.player = p
    BY <1>4 DEF Told
  <2>. QED BY <1>3, <1>4, <2>1, <2>2 DEF Comes
<1>5. CASE c.prompt = n /\ ~c.busy
  <2>1. CASE m.type = "prompt"
    <3>1. c.prompt # None /\ c.player # None
      BY <1>5 DEF InLine
    <3>2. n <= m.n /\ m.n <= n /\ m.n \in Nat
      BY <1>1, <1>2, <1>5, <2>1, <3>1, PromptNumber DEF InLine
    <3>3. m.n = n
      BY <3>2
    <3>. QED BY <1>4, <2>1, <3>1, <3>3
  <2>2. CASE m.type # "prompt"
    BY <1>3, <1>5, <2>2 DEF Comes
  <2>. QED BY <2>1, <2>2
<1>6. ASSUME NEW i \in 1 .. l, q[i].type = "prompt", q[i].n = n, Knows(q, c, i)
      PROVE  Comes(Tail(q), d, n)
  <2>1. CASE i = 1
    <3>1. \A k \in 1 .. l : ~(k < 1)
      OBVIOUS
    <3>2. c.player # None
      BY <1>1, <1>6, <2>1, <3>1 DEF Knows
    <3>. QED BY <1>2, <1>4, <1>6, <2>1, <3>2
  <2>2. CASE i # 1
    <3>1. i \in Nat /\ i > 1
      BY <2>2
    <3>2. Knows(Tail(q), d, i - 1)
      BY <1>6, <3>1, KnowsMoves
    <3>3. i - 1 \in 1 .. Len(Tail(q)) /\ Tail(q)[i - 1] = q[i]
      BY <1>2, <2>2
    <3>. QED BY <1>6, <3>2, <3>3 DEF Comes
  <2>. QED BY <2>1, <2>2
<1>. QED BY <1>1, <1>5, <1>6 DEF Comes

LEMMA RespondsOn ==
  ASSUME NEW q \in Seq(OutMsgs)
  PROVE  /\ \A m \in OutMsgs : Responds(q) \/ m.type = "response" => Responds(Append(q, m))
         /\ q # <<>> /\ Responds(q) => Head(q).type = "response" \/ Responds(Tail(q))
<1>1. PICK l \in Nat : l = Len(q)
  BY LenProperties
<1>2. ASSUME NEW m \in OutMsgs, Responds(q) \/ m.type = "response"
      PROVE  Responds(Append(q, m))
  <2>1. /\ Len(Append(q, m)) = l + 1 /\ Append(q, m)[l + 1] = m
        /\ \A i \in 1 .. l : Append(q, m)[i] = q[i]
    BY <1>1, AppendProperties
  <2>2. l + 1 \in 1 .. l + 1 /\ \A i \in 1 .. l : i \in 1 .. l + 1
    OBVIOUS
  <2>. QED BY <1>1, <1>2, <2>1, <2>2 DEF Responds
<1>3. ASSUME q # <<>>, Responds(q), Head(q).type # "response"
      PROVE  Responds(Tail(q))
  <2>1. PICK i \in 1 .. l : q[i].type = "response"
    BY <1>1, <1>3 DEF Responds
  <2>2. Head(q) = q[1]
    OBVIOUS
  <2>3. i # 1
    BY <1>3, <2>1, <2>2
  <2>4. Len(Tail(q)) = l - 1 /\ \A k \in 1 .. l - 1 : Tail(q)[k] = q[k + 1]
    BY <1>1, <1>3, HeadTailProperties
  <2>5. i - 1 \in 1 .. l - 1 /\ (i - 1) + 1 = i
    BY <2>3
  <2>. QED BY <2>1, <2>4, <2>5 DEF Responds
<1>. QED BY <1>2, <1>3

LEMMA AcceptedLoop ==
  ASSUME Types, NEW s \in Sockets, CheckResponse(s)
  PROVE  loop' # None /\ loop'.pc = "write"
<1> DEFINE m == Head(outbox[s])
<1>1. outbox[s] \in Seq(OutMsgs) /\ outbox[s] # <<>> /\ m.type = "response"
  BY DEF CheckResponse, Reading, Types, OutboxOK
<1>2. m \in OutMsgs
  BY <1>1, HeadTailProperties
<1>3. m.n \in Requests /\ m.player \in Players \cup {None}
  BY <1>1, <1>2 DEF OutMsgs
<1>4. m.player # None /\ loop' = [pc |-> "write", player |-> m.player, n |-> m.n]
  BY DEF CheckResponse, Accepts
<1>5. loop' \in [pc : {"write", "set"}, player : Players, n : Requests] /\ loop'.pc = "write"
  <2> HIDE DEF m
  <2>. QED BY <1>3, <1>4
<1>. QED BY <1>5, NoneAssumption

LEMMA RespondsStep ==
  ASSUME Types, Next, NEW s \in Sockets, conn'[s] = "open", ~(Writing'),
         Responds(outbox[s]) \/ Answer(s)
  PROVE  Responds(outbox'[s])
<1>1. outbox[s] \in Seq(OutMsgs) /\ outbox \in [Sockets -> Seq(OutMsgs)]
      /\ client[s] \in Clients
      /\ conn \in [Sockets -> {"new", "joining", "open", "rejected", "lost", "gone"}]
  BY DEF Types, OutboxOK, ClientsOK, SocketsOK
<1>2. ASSUME NEW r \in Sockets, NEW m \in OutMsgs, Send(r, m), Responds(outbox[s])
      PROVE  Responds(outbox'[s])
  BY <1>1, <1>2, RespondsOn DEF Send
<1>3. CASE Answer(s)
  <2> DEFINE m == [type |-> "response", n |-> client[s].prompt, player |-> client[s].player]
  <2>1. m \in OutMsgs /\ m.type = "response"
    BY <1>1, <1>3 DEF Answer, Clients, OutMsgs
  <2>2. outbox'[s] = Append(outbox[s], m)
    BY <1>1, <1>3 DEF Answer, Send
  <2> HIDE DEF m
  <2>. QED BY <1>1, <2>1, <2>2, RespondsOn
<1>4. ASSUME NEW r \in Sockets, outbox[r] # <<>>, Read(r), Responds(outbox[s]),
             r = s => Head(outbox[r]).type # "response"
      PROVE  Responds(outbox'[s])
  BY <1>1, <1>4, RespondsOn DEF Read
<1>5. CASE GameStep /\ Responds(outbox[s])
  BY <1>5 DEF GameStep, Mutate, ClearReady, ResetResponse, Expect, BroadcastPrompt, Wake,
     ReturnResponse, Present, BroadcastPresentation, Resolve, Unpresent, wires
<1>6. CASE (WriteResponse \/ SetReady \/ SaveHalf \/ SaveRest) /\ Responds(outbox[s])
  BY <1>6 DEF WriteResponse, SetReady, SaveHalf, SaveRest, wires
<1>7. ASSUME NEW r \in Sockets, Handle(r), Responds(outbox[s]) PROVE Responds(outbox'[s])
  <2>1. CASE CheckResponse(r)
    <3>1. loop' # None /\ loop'.pc = "write"
      BY <2>1, AcceptedLoop
    <3>. QED BY <3>1 DEF Writing
  <2>2. CASE RejectResponse(r)
    <3>1. conn'[r] # "open"
      BY <1>1, <2>2 DEF RejectResponse, Closed
    <3>. QED BY <1>4, <1>7, <2>2, <3>1 DEF RejectResponse, Reading
  <2>3. CASE HandleSync(r) \/ ReceiveAck(r) \/ CheckSave(r)
    BY <1>4, <1>7, <2>3 DEF HandleSync, ReceiveAck, CheckSave, Reading
  <2>4. CASE Resync(r) \/ Welcome(r)
    BY <1>7, <2>4 DEF Resync, Welcome
  <2>5. CASE Leave(r)
    <3>1. r # s /\ outbox' = [outbox EXCEPT ![r] = <<>>]
      BY <1>1, <2>5 DEF Leave
    <3>. QED BY <1>1, <1>7, <3>1
  <2>. QED BY <1>7, <2>1, <2>2, <2>3, <2>4, <2>5 DEF Handle
<1>8. ASSUME NEW r \in Sockets, ClientStep(r) \/ Aside(r) \/ Lose(r), Responds(outbox[s])
      PROVE  Responds(outbox'[s])
  <2>1. CASE Receive(r) \/ Lose(r)
    BY <1>8, <2>1 DEF Receive, Lose
  <2>2. CASE Answer(r)
    <3>1. [type |-> "response", n |-> client[r].prompt, player |-> client[r].player] \in OutMsgs
      BY <2>2 DEF Answer, Types, ClientsOK, Clients, OutMsgs
    <3>. QED BY <1>2, <1>8, <2>2, <3>1 DEF Answer
  <2>3. ASSUME NEW n \in Requests, Acknowledge(r, n) PROVE Responds(outbox'[s])
    <3>1. [type |-> "ack", n |-> n, player |-> client[r].player] \in OutMsgs
      BY DEF Types, ClientsOK, Clients, OutMsgs
    <3>. QED BY <1>2, <1>8, <2>3, <3>1 DEF Acknowledge
  <2>4. CASE Aside(r)
    <3>1. \A type \in {"sync", "save"} :
            [type |-> type, player |-> client[r].player] \in OutMsgs
      BY DEF Types, ClientsOK, Clients, OutMsgs
    <3>. QED BY <1>2, <1>8, <2>4, <3>1 DEF Aside
  <2>. QED BY <1>8, <2>1, <2>2, <2>3, <2>4 DEF ClientStep
<1>9. ASSUME NEW r \in Sockets, NEW p \in Players, Join(r, p), Responds(outbox[s])
      PROVE  Responds(outbox'[s])
  BY <1>9 DEF Join
<1>. QED BY <1>3, <1>5, <1>6, <1>7, <1>8, <1>9 DEF Next, LoopStep

(* The prompt reaches the player the game waits for: a step that could     *)
(* lose it ends the connection, or sends it again.                         *)
LEMMA WaitStays ==
  ASSUME Types, Next, game'.pc = "wait", ~ready', ~(Writing')
  PROVE  \/ BroadcastPrompt
         \/ game.pc = "wait" /\ ~ready /\ ~Writing /\ FrameOfGame
<1>1. CASE GameStep
  <2>1. ASSUME NEW pc, NEW p, NEW kind, Begin(pc, p, kind), pc \in {"reset", "show"}
        PROVE  game'.pc # "wait"
    BY <2>1 DEF Begin, Types, GameOK
  <2>2. ASSUME NEW from, NEW to, Step(from, to), to # "wait" PROVE game'.pc # "wait"
    BY <2>2 DEF Step, Types, GameOK
  <2>3. ~Mutate
    BY DEF Mutate, Types, GameOK
  <2>. QED BY <1>1, <2>1, <2>2, <2>3 DEF GameStep, ClearReady, ResetResponse, Expect, Wake,
       ReturnResponse, Present, BroadcastPresentation, Resolve, Unpresent
<1>2. CASE ~GameStep
  <2>1. FrameOfGame
    BY <1>2, GameFrame
  <2>2. ~SetReady
    BY DEF SetReady
  <2>3. ready' = ready
    BY <1>2, <2>2 DEF Next, fields, LoopStep, Handle, ClientStep, WriteResponse, SaveHalf,
       SaveRest, CheckResponse, RejectResponse, Resync, HandleSync, ReceiveAck, CheckSave,
       Welcome, Leave, Receive, Answer, Acknowledge, Aside, Lose, Join
  <2>4. ASSUME Writing PROVE FALSE
    <3>1. loop # None /\ loop \in [pc : {"write", "set"}, player : Players, n : Requests]
      BY <2>4 DEF Writing, Types, LoopOK
    <3>2. CASE WriteResponse
      <4>1. loop' \in [pc : {"write", "set"}, player : Players, n : Requests] /\ loop'.pc = "set"
        BY <3>1, <3>2 DEF WriteResponse
      <4>. QED BY <4>1, NoneAssumption DEF Writing
    <3>3. CASE ~WriteResponse
      <4>1. ~SaveHalf /\ ~SaveRest
        BY <3>1 DEF SaveHalf, SaveRest
      <4>2. \A s \in Sockets : ~Handle(s)
        BY <3>1 DEF Handle, CheckResponse, RejectResponse, Resync, HandleSync, ReceiveAck,
           CheckSave, Welcome, Leave, Reading, LoopFree
      <4>3. loop' = loop
        BY <1>2, <2>2, <3>3, <4>1, <4>2 DEF Next, LoopStep, ClientStep, Receive, Answer,
           Acknowledge, Aside, Lose, Join
      <4>. QED BY <2>4, <4>3 DEF Writing
    <3>. QED BY <3>2, <3>3
  <2>. QED BY <2>1, <2>3, <2>4 DEF FrameOfGame
<1>. QED BY <1>1, <1>2

LEMMA ReachStep ==
  ASSUME Types, Next, AllInLine, Seated, InReach
  PROVE  InReach'
<1> SUFFICES ASSUME NEW s \in Sockets, game'.pc = "wait", ~ready', ~(Writing'),
                    socketOf'[game'.player] = s, conn'[s] = "open"
             PROVE  Comes(inbox'[s], client'[s], game'.n) \/ Responds(outbox'[s])
  BY DEF InReach
<1> DEFINE q == inbox[s]
           c == client[s]
           p == game.player
           n == game.n
<1>1. q \in Seq(InMsgs) /\ c \in Clients /\ InLine(q, c, n, p)
  BY DEF Types, InboxOK, ClientsOK, AllInLine
<1>2. CASE BroadcastPrompt
  <2> DEFINE m == PromptMsg(n, p, game.kind)
  <2>1. m \in InMsgs /\ m.type = "prompt" /\ m.n = n
    BY <1>2 DEF BroadcastPrompt, Step, Types, GameOK, Asking, PromptMsg, InMsgs
  <2>2. game'.n = n /\ game'.player = p /\ p \in Players
    BY <1>2 DEF BroadcastPrompt, Step, Types, GameOK, Asking
  <2>3. conn[s] = "open" /\ socketOf[p] = s
    BY <1>2, <2>2 DEF BroadcastPrompt
  <2>4. inbox'[s] = Append(q, m) /\ client' = client
    BY <1>2, <2>2, <2>3 DEF BroadcastPrompt, Broadcast, Up
  <2>5. Knows(q, c, Len(q) + 1)
    BY <2>3 DEF Seated
  <2> HIDE DEF m
  <2>. QED BY <1>1, <2>1, <2>2, <2>4, <2>5, ComesGrows
<1>3. CASE game.pc = "wait" /\ ~ready /\ ~Writing /\ FrameOfGame
  <2>1. game'.n = n /\ game'.player = p /\ p \in Players /\ n \in Requests /\ n \in Nat
        /\ n # None
    BY <1>3, NoneAssumption, BoundsAssumption DEF FrameOfGame, Types, GameOK, Asking, Requests
  <2> DEFINE m == PromptMsg(n, p, game.kind)
  <2>2. m \in InMsgs /\ m.type = "prompt" /\ m.n = n /\ Snapshot = <<m>>
    BY <1>3, SnapshotOne DEF PromptMsg
  <2>3. CASE Resync(s)
    <3>1. Knows(q, c, Len(q) + 1)
      BY <2>3 DEF Resync, Seated
    <3>2. inbox'[s] = q \o <<m>> /\ client' = client
      BY <2>2, <2>3 DEF Resync, Types, InboxOK
    <3>3. inbox'[s] = Append(q, m)
      BY <2>2, <3>2, SentKept
    <3> HIDE DEF m
    <3>. QED BY <1>1, <2>1, <2>2, <3>1, <3>2, <3>3, ComesGrows
  <2>4. CASE Welcome(s)
    <3>1. PICK r \in Players :
            LET t == Append(q, Assign(r)) IN
            Assign(r) \in InMsgs /\ t \in Seq(InMsgs) /\ inbox'[s] = Append(t, m)
      BY <1>3, <2>4, WelcomeSays
    <3> DEFINE t == Append(q, Assign(r))
    <3>2. client' = client
      BY <2>4 DEF Welcome
    <3>3. PICK l \in Nat : l = Len(q)
      BY <1>1, LenProperties
    <3>4. Len(t) = l + 1 /\ (l + 1) + 1 = l + 2
      BY <1>1, <3>1, <3>3, OneMore
    <3>5. Knows(t, c, Len(t) + 1)
      BY <1>1, <3>1, <3>3, <3>4, KnowsGrows DEF Assign
    <3>6. t \in Seq(InMsgs) /\ inbox'[s] = Append(t, m)
      BY <3>1
    <3> HIDE DEF t, m
    <3>. QED BY <2>1, <2>2, <3>2, <3>5, <3>6, ComesGrows
  <2>5. CASE ~Resync(s) /\ ~Welcome(s)
    <3>1. conn[s] = "open" /\ socketOf[p] = s
      <4>1. ~Joined(s)
        BY DEF Joined, Join
      <4>2. ConnKept(s) /\ HolderKept(s)
        BY <4>1, ConnStep
      <4>. QED BY <2>1, <2>5, <4>2 DEF ConnKept, HolderKept, Up
    <3>2. Comes(q, c, n) \/ Responds(outbox[s])
      BY <1>3, <3>1 DEF InReach
    <3>3. CASE Responds(outbox[s]) \/ Answer(s)
      BY <3>3, RespondsStep
    <3>4. CASE Comes(q, c, n) /\ ~Answer(s)
      <4>1. CASE Kept(s)
        BY <2>1, <3>4, <4>1 DEF Kept, Comes, Knows
      <4>2. CASE Added(s)
        BY <1>1, <2>1, <3>4, <4>2, ComesGrows DEF Added
      <4>3. CASE Blanked(s)
        BY <4>3 DEF Blanked
      <4>4. CASE Receive(s)
        <5>1. inbox'[s] = Tail(q) /\ client'[s] = Shows(c, Head(q)) /\ q # <<>>
          BY <4>4 DEF Receive, Types, InboxOK, ClientsOK
        <5>2. PICK r \in Players : socketOf[r] = s /\ Told(q, c, r)
          BY <3>1 DEF Seated, Up
        <5>3. r = p
          BY <2>1, <3>1, <5>2, NoneAssumption DEF Types, SocketsOK
        <5>. QED BY <1>1, <2>1, <3>4, <5>1, <5>2, <5>3, ComesMoves
      <4>. QED BY <2>5, <4>1, <4>2, <4>3, <4>4, BoxStep
    <3>. QED BY <3>2, <3>3, <3>4
  <2>. QED BY <2>3, <2>4, <2>5
<1>. QED BY <1>2, <1>3, WaitStays

LEMMA LinesInit ==
  ASSUME Init
  PROVE  AllInLine /\ Seated /\ InReach
<1>1. /\ game.pc = "ask" /\ socketOf = First
      /\ conn = [s \in Sockets |-> IF \E p \in Players : First[p] = s THEN "open" ELSE "new"]
      /\ inbox = [s \in Sockets |-> <<>>]
  BY DEF Init
<1>2. \A i \in 1 .. Len(<<>>) : FALSE
  BY LenProperties, EmptySeq
<1>3. ASSUME NEW s \in Sockets
      PROVE  /\ client[s].prompt = None
             /\ \A p \in Players : First[p] = s => client[s].player = p
             /\ conn[s] = "new" => client[s].player = None
  <2>1. CASE \E p \in Players : First[p] = s
    <3>1. client[s] = [Blank EXCEPT !.player = CHOOSE p \in Players : First[p] = s]
      BY <2>1 DEF Init
    <3>2. client[s].prompt = None /\ client[s].player = CHOOSE p \in Players : First[p] = s
      BY <3>1 DEF Blank
    <3>. QED BY <1>1, <2>1, <3>2, FirstAssumption
  <2>2. CASE ~ \E p \in Players : First[p] = s
    BY <2>2 DEF Init, Blank
  <2>. QED BY <2>1, <2>2
<1>4. AllInLine
  BY <1>1, <1>2, <1>3 DEF AllInLine, InLine
<1>5. Seated
  <2> SUFFICES ASSUME NEW s \in Sockets, conn[s] # "new"
               PROVE  /\ \E p \in Players : socketOf[p] = s /\ Told(inbox[s], client[s], p)
                      /\ client[s].player # None
    BY <1>1, <1>3 DEF Seated, Knows, Up
  <2>1. PICK p \in Players : First[p] = s
    BY <1>1
  <2>2. client[s].player = p /\ p # None
    BY <1>3, <2>1, NoneAssumption
  <2>. QED BY <1>1, <1>2, <2>1, <2>2 DEF Told
<1>6. InReach
  BY <1>1 DEF InReach
<1>. QED BY <1>4, <1>5, <1>6

(* No prompt is lost: while the game waits for a player whose connection   *)
(* is open, his client has the prompt coming, shows it or has answered it, *)
(* whatever connections were lost or taken over, however the broadcast,    *)
(* the snapshots and the answers that were rejected interleave.            *)
THEOREM PromptKept == Spec => []PromptInHand
<1> DEFINE PInv == Types /\ AllInLine /\ Seated /\ InReach
<1>1. Init => PInv
  BY InitTypes, LinesInit
<1>2. PInv /\ [Next]_vars => PInv'
  <2>1. ASSUME PInv, UNCHANGED vars PROVE (AllInLine /\ Seated /\ InReach)'
    BY <2>1 DEF vars, fields, wires, history, AllInLine, Seated, InReach, Writing
  <2>. QED BY <2>1, NextTypes, LinesStep, SeatedStep, ReachStep
<1>3. PInv /\ TypeOK => PromptInHand
  <2> SUFFICES ASSUME PInv, TypeOK, game.pc = "wait", ~ready, loop = None,
                      NEW s, s = socketOf[game.player], s # None, conn[s] = "open"
               PROVE  InHand(s, game.n)
    BY DEF PromptInHand
  <2>1. s \in Sockets
    BY DEF Types, GameOK, SocketsOK, Asking
  <2>2. Comes(inbox[s], client[s], game.n) \/ Responds(outbox[s])
    BY <2>1 DEF InReach, Writing
  <2>3. DOMAIN inbox[s] = 1 .. Len(inbox[s]) /\ DOMAIN outbox[s] = 1 .. Len(outbox[s])
    BY <2>1, LenProperties DEF Types, InboxOK, OutboxOK
  <2>. QED BY <2>2, <2>3 DEF InHand, Comes, Responds
<1>. QED BY <1>1, <1>2, <1>3, TypeCorrect, PTL DEF Spec

-----------------------------------------------------------------------------
(***************************************************************************)
(* SaveWhole.  A save permitted before the prompt is answered is made      *)
(* while the game thread waits, and nothing else can wake it: the answer   *)
(* is set by the event loop, which is busy with the save.                  *)
(***************************************************************************)

Saving == loop # None /\ loop.pc \in {"save", "save2"}

SaveInv ==
  /\ (Saving /\ ~loop.late) =>
       /\ game.pc \in Shown /\ ~ready
       /\ loop.at = game.version
       /\ loop.pc = "save2" => loop.first = loop.at
  /\ SaveWhole

(* The game thread, when its prompt is shown and not answered, only sends  *)
(* it.                                                                     *)
LEMMA WaitsForAnswer ==
  ASSUME GameOK, GameStep, game.pc \in Shown, ~ready
  PROVE  game'.pc \in Shown /\ game'.version = game.version /\ ready' = ready
<1>1. BroadcastPrompt
  BY DEF GameStep, Mutate, ClearReady, ResetResponse, Expect, Wake, ReturnResponse, Present,
         BroadcastPresentation, Resolve, Unpresent, Step, Begin, Shown
<1>. QED BY <1>1 DEF BroadcastPrompt, Step, Shown, GameOK, fields

(* A save starts while the prompt of a turn is shown. *)
LEMMA SaveStarts ==
  ASSUME Types, SaveInv, NEW s \in Sockets, CheckSave(s)
  PROVE  SaveInv'
<1>1. saved' = saved /\ game' = game /\ ready' = ready /\ prompt' = prompt
  BY DEF CheckSave, fields
<1>2. SaveWhole'
  BY <1>1 DEF SaveInv, SaveWhole
<1>3. CASE loop' = None
  BY <1>2, <1>3 DEF SaveInv, Saving
<1>4. CASE loop' # None
  <2>1. expectedKind = "PRE_ROLL"
    BY <1>4 DEF CheckSave
  <2>2. loop' = [pc |-> "save", at |-> game.version, late |-> prompt # None /\ ready]
    BY <1>4 DEF CheckSave
  <2>3. game.pc \in Shown
    BY <2>1, NoneAssumption DEF Types, FieldsOK, Kinds
  <2>4. prompt # None
    <3>1. game.n \in Requests
      BY <2>3 DEF Types, GameOK, Shown, Asking
    <3>. QED BY <2>3, <3>1, NoneAssumption DEF Types, FieldsOK
  <2>5. loop'.pc = "save" /\ loop'.at = game.version /\ (ready => loop'.late)
    BY <2>2, <2>4
  <2>. QED BY <1>1, <1>2, <2>3, <2>5 DEF SaveInv
<1>. QED BY <1>3, <1>4

LEMMA StepSaves ==
  ASSUME Types, SaveInv, [Next]_vars
  PROVE  SaveInv'
<1>1. CASE GameStep
  <2>1. saved' = saved /\ loop' = loop
    BY <1>1 DEF GameStep, Mutate, ClearReady, ResetResponse, Expect, BroadcastPrompt, Wake,
           ReturnResponse, Present, BroadcastPresentation, Resolve, Unpresent
  <2>2. SaveWhole'
    BY <2>1 DEF SaveInv, SaveWhole
  <2>3. CASE Saving /\ ~loop.late
    <3>1. game'.pc \in Shown /\ game'.version = game.version /\ ready' = ready
      BY <1>1, <2>3, WaitsForAnswer DEF SaveInv, Types
    <3>. QED BY <2>1, <2>2, <2>3, <3>1 DEF SaveInv, Saving
  <2>4. CASE ~(Saving /\ ~loop.late)
    BY <2>1, <2>2, <2>4 DEF SaveInv, Saving
  <2>. QED BY <2>3, <2>4
<1>2. CASE UNCHANGED vars
  BY <1>2 DEF SaveInv, SaveWhole, Saving, vars, fields
<1>3. CASE Next /\ ~GameStep
  <2>1. game' = game
    BY <1>3, GameFrame DEF FrameOfGame
  <2>2. CASE WriteResponse \/ SetReady
    <3>1. loop \in [pc : {"write", "set"}, player : Players, n : Requests]
      BY <2>2 DEF Types, LoopOK, Writing, WriteResponse, SetReady
    <3>2. loop' = [loop EXCEPT !.pc = "set"] \/ loop' = None
      BY <2>2 DEF WriteResponse, SetReady
    <3>3. ~Saving'
      BY <3>1, <3>2 DEF Saving
    <3>4. saved' = saved
      BY <2>2 DEF WriteResponse, SetReady
    <3>. QED BY <3>3, <3>4 DEF SaveInv, SaveWhole
  <2>3. CASE SaveHalf
    <3>1. /\ loop # None /\ loop.pc = "save" /\ saved' = saved /\ ready' = ready
          /\ loop' = [pc |-> "save2", at |-> loop.at, first |-> game.version,
                      late |-> loop.late]
      BY <2>3 DEF SaveHalf, fields
    <3>2. loop'.pc = "save2" /\ loop'.at = loop.at /\ loop'.first = game.version
          /\ loop'.late = loop.late
      BY <3>1
    <3>. QED BY <2>1, <3>1, <3>2 DEF SaveInv, SaveWhole, Saving
  <2>4. CASE SaveRest
    <3>1. /\ loop # None /\ loop.pc = "save2" /\ loop' = None
          /\ saved' = [at |-> loop.at, first |-> loop.first, second |-> game.version,
                       late |-> loop.late]
      BY <2>4 DEF SaveRest
    <3>2. saved'.at = loop.at /\ saved'.first = loop.first /\ saved'.second = game.version
          /\ saved'.late = loop.late
      BY <3>1
    <3>3. SaveWhole'
      BY <3>1, <3>2 DEF SaveInv, SaveWhole, Saving
    <3>. QED BY <3>1, <3>3 DEF SaveInv, Saving
  <2>5. ASSUME NEW s \in Sockets, CheckSave(s) PROVE SaveInv'
    BY <2>5, SaveStarts
  <2>6. ASSUME NEW s \in Sockets, CheckResponse(s) PROVE SaveInv'
    <3>1. saved' = saved /\ ~Saving'
      BY <2>6 DEF CheckResponse, Saving
    <3>. QED BY <3>1 DEF SaveInv, SaveWhole
  <2>7. CASE UNCHANGED <<ready, loop, saved>>
    BY <2>1, <2>7 DEF SaveInv, SaveWhole, Saving
  <2>8. ASSUME NEW s \in Sockets,
               RejectResponse(s) \/ Resync(s) \/ HandleSync(s) \/ ReceiveAck(s)
               \/ Welcome(s) \/ Leave(s) \/ ClientStep(s) \/ Aside(s) \/ Lose(s)
        PROVE  UNCHANGED <<ready, loop, saved>>
    BY <2>8 DEF RejectResponse, Resync, HandleSync, ReceiveAck, Welcome, Leave, ClientStep,
           Receive, Answer, Acknowledge, Aside, Lose, fields
  <2>9. ASSUME NEW s \in Sockets, NEW p \in Players, Join(s, p)
        PROVE  UNCHANGED <<ready, loop, saved>>
    BY <2>9 DEF Join, fields
  <2>. QED
    BY <1>3, <2>2, <2>3, <2>4, <2>5, <2>6, <2>7, <2>8, <2>9 DEF Next, LoopStep, Handle
<1>. QED BY <1>1, <1>2, <1>3

(* A save permitted before the pre-roll prompt is answered shows one state *)
(* of the game, however the two threads interleave.                        *)
THEOREM SavesWhole == Spec => []SaveWhole
<1>1. Init => SaveInv
  BY DEF Init, SaveInv, SaveWhole, Saving
<1>2. Types /\ SaveInv /\ [Next]_vars => SaveInv'
  BY StepSaves
<1>3. SaveInv => SaveWhole
  BY DEF SaveInv
<1>. QED BY <1>1, <1>2, <1>3, InitTypes, NextTypes, PTL DEF Spec

=============================================================================
