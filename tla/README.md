# Road to Riches: a TLA+ model of the game, its server and its clients

Road to Riches is a board game of property and stocks for people at several
clients. One Python process serves the game over WebSockets; each game runs in
a thread of its own, driven by a pipeline of events, and asks the players
through an object shared with the server's event loop. This directory models
the parts of it in which order, undo, concurrency, failure and bookkeeping
matter, checks them with TLC, and proves the central facts with TLAPS.

Paths are relative to `src/src/road_to_riches/` unless they begin with `design/`
or `web/`.

## The system

| Part | State it keeps | Operations | Talks to |
|---|---|---|---|
| Game loop (`engine/game_loop.py`, `events/pipeline.py`, `events/turn_events.py`) | the event pipeline, undo snapshots, path, log checkpoints, game over and winner | one handler per event; the pre-roll menu; nested loops for bonus rolls | changes the game state, asks `PlayerInput`, blocks on the answer |
| Mutation events (`events/game_events.py`, `engine/bankruptcy.py`) | none | `execute`: change cash, stock, squares, suits, ownership; assert what the handler prepared | executed by the pipeline |
| Square rules (`engine/square_handler.py`, `board/pathfinding.py`) | none | what passing and landing cause | called by the game loop |
| Game log (`GameLog` in `engine/game_loop.py`) | buffered messages and a count of those flushed | log, flush, retract | flushed to the clients at every question |
| Player input (`server/server_input.py`) | the expected player, the response, the pending prompt and presentation | request, respond, present, acknowledge, snapshot | two threads: the game thread asks, the event loop answers |
| Outbound queues (`server/server_input.py`) | for each socket its slots, queue and sender task | reserve, enqueue, send, overflow, remove, drain | game thread, event loop, one task per socket |
| Sessions (`server/session.py`, `server/server.py`) | players and sockets of each game, started and finished games | create, join, claim, start, force, leave, retire | the event loop; starts game threads and AI processes |
| Terminal client (`client/tui_app.py`, `tui_input.py`, `chord_buffer.py`, `direction.py`) | the prompt in hand, its phase, the layers open over it, the half-typed chord | show, answer, browse, overlay, debug menus, acknowledge | a polling thread and a game thread post to the screen |
| Web client (`web/`), bridge (`client/client_bridge.py`) | the prompt shown, an answer pending | show, answer, acknowledge, reconnect | messages in order over one connection |
| Basic AI (`ai/basic/`) | none between prompts | answers each prompt; plans its way | a client of the server |
| Property, stock, venture deck and grid, statuses | parts of the game state | arithmetic and draws | called by events |
| Reports (`server/reporting.py`) | an issue under construction, evidence, exports | submit, export, roll back | an external tracker; the repair workflow |

What is hard here:

* **Undo.** A step is undone by restoring a list of fields and emptying the
  pipeline; whatever is not in the list, or was in the pipeline, is lost.
* **A pipeline that runs itself.** Handlers put events in front, behind, or into
  a nested pipeline. A turn must be carried on by exactly one event.
* **Ownership kept twice**, changed by events whose preconditions were checked
  earlier, before other events ran.
* **Two threads without a lock** between a prompt and its answer, with clients
  that reconnect, are replaced, answer late or twice.
* **Awaits.** A handler of the event loop that sends a message lets others run:
  what it looked at before may be gone.
* **Bounded queues** to clients that may not read.
* **Modes.** A key means what the prompt, the phase and the open layers say when
  it is handled, not when it was pressed.
* **Transactions over external tools**, where each step can fail and the server
  can be killed.
* **Liveness**: the game thread waits without a timeout.

What makes each part correct:

* game loop: an undo leaves no trace; the moves left match the path; every turn
  goes on exactly once and for the right player; handlers return to a question;
* log: what an undone step logged is taken back and nothing else;
* deals: the two records of ownership agree; assertions never fail; what is
  carried out is what was agreed; bids can be paid, and buyouts but for a price
  hike; debts are settled before a turn ends;
* prompts: a prompt reaches its player whatever happens to connections; an
  answer is used for the prompt it answers; a barrier is released by its owner;
  every wait ends;
* outbound queues: every reserved slot is given back, messages arrive in order
  and without gaps, a client that keeps up misses none;
* sessions: the tables of seats agree, nobody loses a seat he did not give up,
  a seat whose socket is lost comes back, full games start, and finished games
  are forgotten with their last socket;
* terminal: the screen shows the prompt in hand, keys act in the mode they were
  typed in, and a player who wants to answer can;
* reports: a report is filed as a whole or not at all, the exports show the
  database, and whoever submits gets an answer;
* AI: it does not walk in circles, and it pays its debts.

`PROJECT.json` lists all components and, under `hazards`, the lines where these
go wrong, with the properties that watch them.

## Modules

| Module | Models | Checked by | Proved in |
|---|---|---|---|
| `TurnLoop` | the pipeline, the walk, undo, pass and stop effects, bonus rolls, end of turn | `turn` with `MCTurnLoop` | `TurnLoopProofs` |
| `Rounds` | the abstract order of turns: a turn closes once, then its player may be ruined, then the game is judged, then the next one still in plays | as `Table` in `TurnLoop` | |
| `MoveLog` | the log, its checkpoints and retraction | `log_undo` | `MoveLogProofs` |
| `Ownership` | the abstract promise: disjoint estates that change one square at a time | as `Promise` in `Deals` | |
| `Deals` | all that moves property and gold between players | `deals` with `MCDeals` | `DealsProofs` |
| `Prompt` | the game thread, the event loop and the clients around a prompt | `prompt_*` with `MCPrompt` | `PromptProofs` |
| `Outbound` | how messages reach one socket | `outbound` | `OutboundProofs` |
| `Sessions` | the lobby and the life of sessions, seats and AI processes | `sessions` with `MCSessions` | `SessionsProofs` |
| `Terminal` | the terminal client's modes, layers and chords | `terminal`, `tui_bid` with `MCTerminal` | `TerminalProofs` |
| `Reports` | the transaction of a report and the repair workflow beside it | `reports` | `ReportsProofs` |
| `Autopilot` | the AI's plan, its walk and its liquidation | `autopilot` with `MCAutopilot` | |

**TurnLoop.** An action is the handling of one event: `process_next` executes
the event and `_dispatch` runs its handler. The handler's question and the
player's answer are inside the action, because the game thread does nothing
else meanwhile. `pipes` is the stack of pipelines (`_do_extra_roll` replaces
`self.pipeline` and restores it); `moves` and `path` are `_move_snapshots` and
`_path_taken`. The game state is one record, so that "undo restores everything"
is an equation. The history `before` remembers that state at every step.
What the players decide is an existential choice over the answers the handler
accepts, and an invalid answer, which puts the same event back, is a stutter.
Liquidation and the deals of the menu are one abstract step each here; `Deals`
has them in full. Square types that add nothing new to the control (the tax
office, arcade, take-a-break, boon and boom squares) are left out; the status
that closes a checkpoint is a choice.

**MoveLog.** A message is the number of the step that logged it, so that a
state shows whose messages a client displays.

**Deals.** Squares belong to one district. What rent is due, what a card or a
commission pays and what stock fetches are choices or tables. The rent counts twice:
`LandOthersShop` asks with the rent as it is whether a buyout can be paid, and `PayRent`
charges what the square's statuses leave of it, nothing for a closed shop, else the
rent and so many percent of it (`Percents`). `surcharge` remembers what a price hike added
in the present deal. Percentages are exact; the code computes them in floating
point and may come out one lower. A discount of more than the whole rent is left
out. `pending` holds the events a deal put in front of the pipeline; a failed assertion sets `crashed`.
Tolls are in `TurnLoop`; taxes are in neither. `SellStock` in `TurnLoop` and `Deals`
sells at a price that is positive; `Autopilot` has the price that is not.

**Prompt.** The fields of `WebSocketPlayerInput` are variables, an action is a
group of statements of one thread with nothing of the other between them, and
each connection has two lossless queues. The numbers of prompts and responses
are history. The event loop runs a handler to its next `await`; `loop` is the
handler it is in the middle of when only the game thread may come between.
A client shows and answers prompts as `useGameClient.ts` does; for a prompt that
arrives before the connection has its player it follows `client_bridge.py`,
which drops it. In the code the sockets and players of a game are kept both by
the session and by the input object; `socketOf` stands for both, which only
handlers of the event loop change, together.

**Outbound.** The channel that `Prompt` takes as lossless. The two dictionaries
of `_stop_sender`, the slots under their lock, the calls the game thread leaves
to the event loop and the sender task are apart, because each is touched by
another thread or between two awaits. A socket has a second queue when the game
thread still held it while it was being forgotten.

**Sessions.** A handler is at a place (`at`), the await it is suspended in.
Between two awaits it runs alone. `holder`, `held` and `bound` are the three tables
that say who plays: by player, by socket, and the binding that frees the seat in
the handler's `finally`. A socket may be lost at any place. The game itself is a
step that ends it.

**Terminal.** The screen is one actor: it handles messages of its inbox and
keys in turn. The polling thread and the game thread write to it. `menu` is the
prompt, phase and submenu that the selection bar was made for, so that a bar that
does not fit the prompt is visible. What the player types is one of the classes
the parsers tell apart. `compute_direction_keys` is translated in full.

**Reports.** A process is its program counter; every step that leaves the
process (tracker, git, file system) may fail, and every process may be killed
between two steps. The commands of the repair workflow
(`.codex/skills/fix-ingame-reports`) take the same lock and export the same
database.

**Autopilot.** `pathfinder.py` on the board file `large_test_board.json`: the
targets, the tour, the choice at each fork. The dice are left out: any step may
end a turn. A turn that ends at the bank opens every way. One that ends at a
suit, change-of-suit, suit-yourself or venture square draws a card (`fresh`), and three
of the five cards change what the next plan starts from: 001 clears the
direction lock (`ClearDirectionLock`), 005 gives a wild suit (`CollectWild`), 003 lets the
AI choose a square, where it passes, stops and may draw again (`WarpAnywhere`). The
other two let it roll again and give it gold, which the walk does not look at. A
backstreet or a cannon sends it elsewhere (`Displaced`), and the others rotate the
squares that change their suit (`OthersRotate`). `walked` counts the steps and
starts anew when the AI is promoted or sent to another square; cards 001 and 005
leave it as it is. Doorways are followed as the code follows them, though this
board has none. Debts are paid as `ai/basic/client.py` chooses and as the game
carries it out.

Each module has one type invariant, `TypeOK` where it has a name of its own. In `TurnLoop`,
`Deals`, `Prompt` and `Autopilot` it is the first conjunct of an invariant that the runs
check (`OneContinuation`, `Consistent`, `PromptInHand`, `PromotesSoon`).

A definition with an underscore in its name (`Gold_OneWay`) is a faulty variant
of the definition after it. No action uses it: it shows that a property would
notice the mistake.

## Runs and bounds

| Run | Shows | Bounds |
|---|---|---|
| `turn` | an undo restores the game and loses no event; the moves left match the path; a turn goes on once, for the right player, on the right square, back to a question; turns follow one another as in `Rounds` | three games. *Undo*: a fork, a bank, a rotating suit, a plot that becomes a checkpoint, a doorway; 3 rolls of up to 4. *Land*: 9 squares of 8 types with two doorways that lead to each other; five cards; bonus rolls nested once; 4 rolls and cards. *Undo* and *Land* have 2 players. *Ruin*: 3 players, a square to pass and a plot whose toll is soon more than they have, so that two of them go bankrupt; 7 rolls and cards |
| `log_undo` | no message of an undone step stays; the first undo is exact | 3 steps of up to 2 messages, 8 in all |
| `deals` | ownership agrees; no assertion fails; what was agreed is carried out; bids can be paid, and buyouts but for a price hike; debts are settled; `Ownership` is kept | 2 players, 2 shops and a plot, 4 deals, a rent that ruins, charged as it is, halved, raised or not at all, trades of up to 2 squares a side, counter-offers of either sign |
| `prompt_safe` | the prompt is never lost; answers belong to their prompts; a save permitted before the answer shows one state | 2 players, 3 connections, 2 prompts, a sync or a save |
| `prompt_barrier` | barriers are released by their owner; waits end | 2 players, 3 connections, 2 prompts or presentations |
| `prompt_cross` | finding | 2 players, 2 prompts |
| `outbound` | slots are given back; order without gaps; delivery; those who wait go on | room for 2 messages, 3 messages, 1 request, one replacement of the socket |
| `sessions` | the tables agree; seats are kept and come back; full games start, and only full ones; finished ones are forgotten | a local game of a person and an AI, or a lobby; one created session of 2 people or of a person and an AI; 2 browsers |
| `terminal` | the screen shows the prompt in hand; keys act in their mode; an answer is found | 17 kinds of prompt, crossings of 1 to 4 ways in 5 directions, 2 prompts or presentations |
| `tui_bid` | finding | one auction, a bidder with less than the lowest bid |
| `reports` | all or nothing; exports hold; every report is answered | 2 reports, a workflow command, 2 failing steps, a kill |
| `autopilot` | the AI is promoted within 71 steps; debts end | the 49 squares of `large_test_board.json`, any number of cards, one backstreet or cannon, up to 4 wild suits by cards, two districts, up to 4 shares and 2 shops |

The bounds: a hazard here takes two decisions (a step and its undo, a deal and
the deal it spoils, a prompt and the one after it, a report and one that fails
beside it) of two actors; most runs have room for three. `outbound` has one more
message than room, so that it overflows; `sessions` has one more browser than a
game with an AI needs, so that seats are claimed and taken over; `terminal` asks
twice, so that what is left of one prompt can meet the next. `MaxChances`,
`MaxSteps`, `MaxDepth`, `MaxDeals`, `MaxRequests`, `MaxAsides`, `MaxMessages`,
`MaxPerStep`, `MaxAsks`, `MaxBrowsers`, `MaxCreated`, `MaxFaults`, `MaxCrashes`, `MaxWarps`
and `MaxWild` bound counters in the guards and nothing else. Three more constants leave
behaviour out, each to keep one known departure (below) from hiding the rest:
`CleanTrades` (no trade names a square twice), `Careful` (nobody opens the stock
overlay out of a debug menu or a chord) and `staleUndo` (an undo with nothing to
undo is accepted in *Undo* and not in *Land*). `Patience` is the bound that
`PromotesSoon` states: the longest walk between promotions that the AI can be
made to take, whatever it draws. 71 steps are reached (70 are refuted, with the
direction lock cleared twice), and the bound does not come from `MaxWarps` or `MaxWild`: it
is the same when squares may send the AI elsewhere any number of times, and with
hands of up to 3, 4 or 5 wild suits.
Deadlock is not checked: a game ends, and a bounded model stops at its bound.

**Fairness.**

* `turn`: the game thread runs on; it is one loop, and each question is answered.
* `prompt_barrier`: both threads run, a client reads its messages, answers the
  prompt it shows and acknowledges what it shows, the event loop gets to each
  connection (strong, since a handler is enabled only between others), and a
  player whose connection is lost comes back: the clients reconnect by
  themselves. Connections need not stay.
* `outbound`: the event loop and the game thread run, and a client that stalls
  reads again or is found dead, as the keep-alive of the WebSocket library sees
  to. A sender is taken up again and again (strong: it is enabled only while
  its client reads).
* `sessions`: the event loop comes back to each handler that waits, a spawned AI
  process connects and says who it is. Browsers and games owe nothing.
* `terminal`: the three threads run, the timer of a chord fires, the other
  players answer; the player closes what he opened, and tries to answer, to type
  the first key of a chord and to leave the debug menus again and again
  (strong: other layers disable these meanwhile).
* `reports`: every process takes its next step unless it is killed, and a process
  that polls for the lock gets it at last (strong: others hold it in between).
* `autopilot`: the AI answers when it is asked what to sell.

## Proofs

All theorems hold for every value of the constants that the named assumptions of
the modules allow: numbers of players, connections, sessions and reports, boards,
amounts, and any number of steps, faults and kills.

**Turn loop** (`TurnLoopProofs`), for every setup that is `WellFormed`. Most of that
says which sets its fields are in; three conjuncts say more. Square 0 exists, where
every player starts. Waypoints, doorways and destinations lead to squares of the
board. And the game ends at the latest when all are bankrupt
(`maxBankruptcies <= players`): the code does not check it of a board file, every
board of the repository has 1, and without it `advance_turn` would give the turn
to a bankrupt player. The seven theorems rest on one invariant, because what a
handler puts in front of the pipeline is right only if what waits behind is.

* `Shaped` gives the grammar of a pipeline: it ends in the one event that carries
  the turn on, and `Ahead` says which may wait before which such event (and
  `Late`, which right before it only). `Mine` says that all belong to the current
  player, `Nested` what a bonus roll finds below it, `TurnGoesOn` when a pipeline
  may be empty and whom it may find bankrupt, `Grounded` that what was checked when
  an event was enqueued is true when it runs. From these follow `TypesHold`,
  `OneContinuationHolds` and `OnlyCurrentPlayerActsHolds`.
* `StopsThere` follows a player from the stop to the events of the stop:
  nothing that waits before it moves him, unless he stands on a doorway
  (`StopsWhereHeStandsHolds`).
* `Walks` is about undo. For every step that may still be undone, the snapshot is
  what `_take_snapshot` takes of the game before the step (`SnapshotOf`), that
  game and the present one differ in nothing that a snapshot leaves out
  (`Frame`), and the moves left are those rolled less the steps that cost one
  (`Costs`). `Frame` is the heart: each pass effect keeps it, so whatever passing a
  square did, putting the snapshot back is the whole undo
  (`UndoRestoresHolds`, `StepsAccountedHolds`).
* `RoundsKept` (`KeepsRounds`) is a refinement: every step maps to one of `Rounds` or
  changes nothing there. The code keeps no stage of a turn; the mapping reads it off
  the events that wait. `Shaped` makes that a function of the end of the
  running pipeline (`StageIsRead`): an `AdvanceTurn` there is the last event, with at
  most the two checks before it. So what a handler puts in front of the event that
  carries the turn on changes no stage (`FrontsPlay`), and only the four handlers of
  the closing events are left, and victory. `AdvanceTurn` passes to the nearest player
  still in, also when all the others are out (`RoundIs`, `AdvanceTurnPasses`).
  `Decided` is the one addition to the invariant: a game that is over is played on inside
  a bonus roll, and its winner is the player of that turn.

**Deals** (`DealsProofs`).

* `TypeCorrect` and `OwnershipConsistent`. Neither `TypeOK` nor `Consistent`, which adds
  that the two records are one (`OneRecord`), is inductive: a transfer in the pipeline must name players and a square, and so
  must the auction and the offer it comes from. `Safe` adds these shapes;
  each family of actions has a lemma that it preserves `Safe`.
* `AssertionsHold`, for trades that name no square twice. An assertion holds
  when the event is executed, not when it is enqueued, so the invariant speaks
  of all events that wait: `Prepared(pending)` says that each is preceded by
  none that moves its square, and that its square is where it expects it.
  `Standing` says the same of what is on the table or up for auction, and
  that only one deal is under way. The assumption is needed: without
  `CleanTrades` it fails (below).
* `BidsBacked` (`AuctionSound`) and `BuyoutsBacked` (`BuyoutAffordable`). Cash is compared
  when a bid is made or a buyout is prepared, and paid later. `Covered` says that
  who leads an auction has his bid in cash (`Led`), and that in the pipeline a sale
  or a buyout comes first, or behind the rent alone, with the rent already
  subtracted (`Due`); nothing else can spend the money, since only one deal is
  under way (`OneThing`). The rent that is charged may be higher than the one that was
  subtracted: then the buyer ends below zero by no more than the `surcharge`, and
  without a price hike not below zero at all. Less, for a discount or a closed
  shop, does no harm.
* `PromiseKept` (`KeepsPromise`): every step maps to one of `Ownership` or changes no
  estate. Each mutation event hands one square from one party to another
  (`Hands`); who goes bankrupt gives up all.
* `DebtsSettled` (`SolventOrOut`) and `DealsCarriedOut` (`DealAsAgreed`) speak of sums over
  sets, which are recursive functions. Where at most one term is not zero
  (`OnlyAt`) the function can be written down (`OneTerm`), and it is the only one that
  satisfies the equation, since two that differ on a smallest set would differ on
  a smaller one (`OneSolution`). So who has nothing left is worth his cash and
  stock: if the liquidation ends in debt the bankruptcy check finds it. And
  among the events of a settlement one at most moves gold: with the squares
  they are the terms (`SaleAsTerms`, `TradeAsTerms`), and `Agreeing` says that the terms
  on the table are those of the player who named them last.

**Prompt** (`PromptProofs`).

* `TypeCorrect`: `Types` adds to `TypeOK` what the fields of the input object
  hold at each step of the game thread, and the shapes of the messages.
* `OwnersRelease` (`BarrierByOwner`): `AcksTrue` says that the flag of a
  presentation is set only when its owner has acknowledged it. It is inductive
  because the number in an acknowledgment is compared with the pending one.
* `AnswerOfPrompt` (`AnswersItsPrompt`): as long as no prompt is answered twice,
  there is at most one answer to the pending prompt on its way, in a client, in
  a queue, in the event loop's hands or in the response field (`OneAnswer`,
  with `HandedOver` for the response), and no message names a prompt still to be asked
  (`PromptsFresh`). So the one found is the one meant. The condition is needed:
  `prompt_cross` is the counterexample without it.
* `PromptKept` (`PromptInHand`): on every connection the prompts come in the order they
  were asked, and none is newer than the pending one (`AllInLine`), so what a
  client shows is not replaced by an older one; a connection that may answer has
  been told its player, or will be before the prompt reaches it (`Seated`), so
  it does not drop it; hence the pending prompt comes, is shown, or has been
  answered (`InReach`). A rejection that comes back is harmless because the client
  then shows the prompt again.
* `SavesWhole` (`SaveWhole`): a save permitted before the pre-roll prompt is answered is
  made while the prompt is shown and `ready` is not set (`SaveInv`). The game thread can
  then only send the prompt (`WaitsForAnswer`), and the event loop, which alone
  sets `ready`, is busy with the save: the state does not change under it.

`None` is assumed to be none of the players, connections, numbers, kinds and records that
share a variable with it.

**Outbound** (`OutboundProofs`), for queues of any size and any number of messages.

* `SlotsExactHolds`: the slots in use are those reserved by the game thread, by its
  calls left for the event loop, and those of the messages queued and being sent
  (`Slots`). It needs to be known which queue and task a slot belongs to: `Plays`
  says that a socket that plays has one of each, `Queued` when there may be a
  second, `Counted` what `join` waits for.
* `InOrderHolds`: `Flows` cuts the numbers from 1 to the game's into what was
  received, is being sent, is queued and is left to the event loop, each part in
  turn and each beginning where the last one ends. After an overflow the last part
  is given up, after a failed send all but the first: what arrived stays a
  beginning.

**Sessions** (`SessionsProofs`). `TablesAgree`: the tables agree also in sessions that
are forgotten, and a seat comes with the binding that its `finally` clause needs
(`SeatsOK`); sizes of sessions are kept (`Sized`), since the open slots are
computed from them. `SeatsKept` and `RetiredWithLast` follow from the same invariant,
step by step. `StartedFull` (`StartsFull`) needs that the counting of `is_ready_to_start`
means what it is used for: that as many entries as the session has players are
the entries of all its players. `Numbered` says that nobody holds a number beyond
the session's players, and that every AI process has one of its own session; it is inductive
because the number of players of a session never changes, also when a forced start turns
people's slots into AIs'. A subset of `0 .. players - 1` that has `players` members is all
of it.

**Reports** (`ReportsProofs`). `FiledWhole` and `ExportsStay`. What a report leaves
depends on the step it is at, so the invariant follows the program counters:
where its issue is (`IssueOf`), how it may end (`EndOf`), that the work of a
finished command stays (`WorkOf`), and, inside the lock, which copy of the
exports equals the database and which older files may be put back (`ExportOf`,
`Shows`). The last is the heart: a failing export restores what another process
wrote, and must not take away what that one was told.

**Terminal** (`TerminalProofs`), for any kinds of prompt, any crossings and any number
of questions, and for a player who is `Careful`: without that condition the
departures at `tui_app.py:1912` and `326` below are counterexamples.

* `Threads` says where the question is that the game asks: a request, a message or
  the prompt in hand, and what may be before it in the screen's inbox (at most the
  end of a presentation). So a message that opens a prompt or a presentation finds
  the screen idle.
* `Layers` says what each mode tells of the layer that lies uppermost, and each
  layer of the mode: the bar was made for this prompt, phase and submenu; a debug
  command lies over nothing that is half answered; a held key is of the board or
  of the crossing. Every key keeps that, or answers the prompt and leaves nothing.
* `ScreenMatches` (`ScreenMatchesPrompt`) and `KeysInMode` (`KeysActInTheirMode`) follow.
  `KeysInMode` says that at a crossing the keys lead to its ways and that each way has
  one, however layers were opened over the crossing and closed again. It is about
  crossings of up to four ways, in any directions: there are four cardinal keys.
  `compute_direction_keys` gives out keys in a first pass and settles the conflicts in a
  second; the second is a recursive function, written out for four ways.
  A way that finds its key taken finds a free cardinal, since fewer than four ways have
  been given keys before it (`StandInFound`), and none is taken from another
  (`EveryWayHasAKey`). With five ways and more the code can run out of keys.

**MoveLog** (`MoveLogProofs`). `UndoExact` and `NoneStays`: for every step that may
still be undone, what an undo would leave now is a beginning of what the clients
saw before the step (`Begins`), all of it as long as nothing has been undone.

Only model-checked:

* all liveness (`KeepsAsking`, `WaitEnds`, `Delivered`, `SeatComesBack`, `FullStarts`,
  `AnswerIsFound`, `Answered`, `DebtEnds`): out of the prover's reach;
* `PromotesSoon`: it is a statement about one board and one bound, found by
  search over that board.

## Findings

Each is a run that TLC ends with a counterexample; `PROJECT.json` quotes the
sentence of the repository it contradicts.

* `prompt_cross`: an answer given twice can be taken as the next player's
  (`server/server_input.py:138` writes and signals without a lock what line 420
  promises to "accept [...] only from target player").
* `tui_bid`: who chose to bid cannot go back to passing. An empty line or N gives
  None, "cancel bid" (`client/tui_app.py:1477`), which the caller takes for
  invalid input (line 1400). The game asks players who cannot pay the lowest
  bid too (`engine/game_loop.py:1309`): such a player can then never answer, and
  the game waits for him.

## Departures without a run

Met while modelling, described by the actions as the code does them. The
properties are stated so that they hold, or a constant leaves the case out.

| Where | What happens | In the model |
|---|---|---|
| `engine/game_loop.py:999` | "undo" is accepted when nothing can be undone, and the decision is consumed: the pipeline runs dry, and the game ends without a winner (`design/technical.md:601`) | `staleUndo`; `OneContinuation` is stated for games without |
| `engine/game_loop.py:1060`, `128` | after one undo, the next retracts messages of steps that were not undone | `FirstUndoExact` is about the first; `NothingUndoneStays` about all |
| `engine/game_loop.py:1715` | a trade that names a square twice passes the checks, and an assertion ends the game thread at the second transfer | left out by `CleanTrades` |
| `server/server_input.py:187` | a save passes its check after the answer was accepted and before the game thread takes it, and may see the state change (`design/technical.md:38`) | `CheckSave`, `SaveHalf`, `SaveRest`; `SaveWhole` is about saves permitted before the answer |
| `server/server_input.py:337` | a sender task ends at the first send that fails; those who wait for its queue to drain wait for ever | excepted in `WaitEnds` of `Outbound` |
| `server/session.py:185`, `server/server.py:727` | a forced start after the AIs were spawned makes AI seats for which no process is started: the game never starts (`design/technical.md:565`); and it is the last numbers that become AIs', whichever are open (`server/session.py:190`) | `forced`; excepted in `FullStarts` |
| `server/server.py:856` | a local server gives an open human seat to any socket, also to an AI process that has not said what it is; a claim of the seat closes it, and it is not spawned again | excepted in `FullStarts` |
| `server/server.py:860` | a socket of the local game gets its seat before the handler whose `finally` frees it is entered: lost in between, it keeps the seat until somebody claims it | excepted in `SeatComesBack` |
| `server/server.py:334` | the host of a new session may find its slots taken by others who joined while its answer was sent | `Created` |
| `server/server.py:300` | when the last connection leaves before the game is marked finished, the session is never retired (`design/technical.md:573`) | `RetiresWithLast` is about finished games |
| `server/reporting.py:306` | when the tracker created the issue and its answer cannot be read, the issue stays though the report failed (`design/technical.md:95`) | excepted in `FailedLeavesNothing` |
| `engine/game_loop.py:1281` | a player in debt who owns nothing but shares that fetch nothing is asked again for ever | excepted in `DebtEnds` |
| `client/tui_app.py:1912` | the stock overlay opened out of a debug submenu comes back to the wrong menu | left out by `Careful` |
| `client/tui_app.py:326` | a half-typed chord is carried out under an overlay opened meanwhile | left out by `Careful` |
| `client/tui_app.py:1553` | the prompt of a trade offers "/ N", and N is refused | a refused input, as any |
| `events/turn_events.py:233` | only the player whose turn ends is checked: one made insolvent by another's turn stays in the game (`design/gameplay.md:72`: "immediately go bankrupt") | `CloseTurn` |
| `engine/game_loop.py:1635` | a bankrupt player can be sold to and traded with (`design/gameplay.md:76`: "no longer takes turns or is involved in anything") | `Negotiate` with any target |
| `engine/square_handler.py:269` | a buyout is offered if the rent without the square's statuses leaves enough for it, and `events/game_events.py:99` charges the rent with them: after a price hike the buyout takes the buyer below zero, and in a closed or discounted shop one is refused that could be paid. No event at this commit gives a discount or a price hike, but a save may hold one (`models/serialize.py:126`), and `design/gameplay.md:239` plans them | `LandOthersShop`, `PayRent`; `BuyoutAffordable` allows the surcharge |
| `engine/game_loop.py:1316` | the auction after a forced sale starts at 1 (`design/gameplay.md:43`: "a starting bid of 100% the shop value") | `AuctionSold` |

## Not modelled

* Tables and formulas: rent, max capital, stock prices by district, dividends,
  commission, rank-dependent cards. They are pure, and the repository's tests
  check them value by value. Where their result decides what happens next, the
  models let it be any amount, or a table.
* The order of the venture deck, the line bonuses of the grid, the countdown of
  statuses; the tax office, arcade, take-a-break, boon and boom squares. They
  pay or set a status and go on: no control that the modelled squares lack.
* The debug events (`server/server.py:805`): any event put anywhere in the
  pipeline by another thread. Nothing the models promise holds with them.
* Restoring a game from a save file, and the encoding of saves.
* The AI's other decisions (buying, bidding, offers, venture cells): they are among
  the answers the other modules let a player give.
* The line-based client, drawing, the web client's forms and scenes; the double
  press of Enter that reaches the screen before its own answer is handled.
* Of the reports: their contents; a tracker that never returns; files left behind
  by a kill outside the export; a kill inside a step; the take-over of a stale
  lock by two processes at once (`orchestration_lock.py`). A restore that is cut
  short counts as one that failed, and a report whose reply was lost is
  submitted again as a new one.
* The diagnostic log, the board loader and converter, argument parsing, packaging:
  no behaviour over time.

## Plan

What the next extension of this project should take up, in this order:

1. `Prompt` over the channels of `Outbound`: what a client that overflows misses,
   and that the snapshot at its return makes up for it.
2. Restoring a saved game into a session, with the seats of its AIs.
3. A theorem about `Autopilot`: that the AI's walk stays on the board, for any board
   whose waypoints do.
