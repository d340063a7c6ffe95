------------------------------ MODULE Terminal ------------------------------
(***************************************************************************)
(* The terminal client's screen: what a key does depends on the prompt in  *)
(* hand, on how far it has been answered, and on which of the layers that  *)
(* may lie over it (board browsing, the stock overlay, the debug menus, a  *)
(* presentation, a half-typed chord) is open.  The game's thread and the   *)
(* thread that polls for prompts leave messages in the screen's inbox; one *)
(* actor handles them and the keys in turn.                                *)
(*                                                                         *)
(* Which row a cursor is on, and so which option Space means, is the       *)
(* player's choice here.  What he types is one of the classes the code     *)
(* tells apart.  A definition with an underscore is a faulty variant of    *)
(* the next one, used by none.                                             *)
(***************************************************************************)
EXTENDS Integers, Sequences, FiniteSets, TLC, SequencesExt

CONSTANTS
  Kinds,        \* the kinds of prompt the game asks
  Crossings,    \* the ways on from a square, and the one back: sequences of <<dx, dy>>
  Cash, MinBid, \* what an AUCTION_BID tells
  Careful,      \* nobody opens the stock overlay out of a debug menu or a chord
  MaxAsks       \* bound: prompts and presentations of the game

ASSUME ScreenAssumption ==
  /\ Careful \in BOOLEAN /\ MaxAsks \in Nat /\ Cash \in Nat /\ MinBid \in Nat
  /\ \A w \in Crossings : w \in Seq(Int \X Int) /\ Len(w) > 0

VARIABLES
  game,     \* the game's thread: [pc, n], n the questions it has asked
  request,  \* _request with _request_ready set, or NoPrompt
  inbox,    \* the messages posted to the screen
  prompt,   \* _current_request, or NoPrompt
  shown,    \* _current_presentation: [n, mine, acked], or NoShow
  mode,     \* _input_mode
  phase,    \* _input_phase
  menu,     \* what the selection bar lists: [n, phase, dev]
  keymap,   \* _keypress_mapping
  dev,      \* _dev_mode and how much of _dev_data there is: [cmd, step]
  chord,    \* the buffered key of a chord: [key, typed]
  browse,   \* _browse_mode
  overlay,  \* the stock overlay: [for, row]
  last      \* the last answer: [n, keys, mode]

world == <<game, request, inbox>>
bar == <<mode, phase, menu, keymap>>
vars == <<world, prompt, shown, bar, dev, chord, browse, overlay, last>>

NoPrompt == [n |-> 0, kind |-> "none", ways |-> <<>>]
NoShow == [n |-> 0, mine |-> FALSE, acked |-> FALSE]
NoDev == [cmd |-> "none", step |-> 0]
NoKey == [key |-> "none", typed |-> <<"none", 0>>]
NoMenu == [n |-> 0, phase |-> 0, dev |-> NoDev]
Closed == [for |-> "none", row |-> "nav"]

-----------------------------------------------------------------------------
(* Directions to keys: compute_direction_keys *)

(* The closest of eight directions: a diagonal between 22.5 and 67.5 degrees. *)
Closest(w) ==
  LET x == IF w[1] < 0 THEN -w[1] ELSE w[1]
      y == IF w[2] < 0 THEN -w[2] ELSE w[2]
      steep == (x + y) * (x + y) > 2 * x * x
      flat == (x + y) * (x + y) > 2 * y * y
      across == IF w[1] < 0 THEN "a" ELSE "d"
      down == IF w[2] < 0 THEN "w" ELSE "s"
  IN IF ~steep THEN across ELSE IF ~flat THEN down
     ELSE CASE <<down, across>> = <<"s", "d">> -> "sd"
            [] <<down, across>> = <<"s", "a">> -> "as"
            [] <<down, across>> = <<"w", "a">> -> "wa"
            [] OTHER -> "dw"

Fallbacks ==
  [sd |-> <<"s", "d">>, as |-> <<"a", "s">>, wa |-> <<"w", "a">>, dw |-> <<"d", "w">>]

(* The keys that may stand in for a taken one, in the order they are tried. *)
StandIns(key) ==
  (IF key \in DOMAIN Fallbacks THEN Fallbacks[key] ELSE <<>>) \o <<"w", "a", "s", "d">>

(* A way has its direction's key unless an earlier one has it. *)
Conflicts(ideal, i) == \E j \in 1 .. (i - 1) : ideal[j] = ideal[i]
FirstPass(ideal) ==
  [k \in Range(ideal) |-> CHOOSE i \in DOMAIN ideal : ideal[i] = k /\ ~Conflicts(ideal, i)]

(* Each of the others takes the first stand-in that is free, or none. *)
TryAssign(map, i, key) ==
  LET free == {n \in DOMAIN StandIns(key) : StandIns(key)[n] \notin DOMAIN map} IN
  IF free = {} THEN map
  ELSE LET taken == StandIns(key)[Min(free)] IN
       [k \in DOMAIN map \cup {taken} |-> IF k = taken THEN i ELSE map[k]]

Assigned(ways) ==
  LET ideal == [i \in DOMAIN ways |-> Closest(ways[i])]
      map[i \in 0 .. Len(ways)] ==
        IF i = 0 THEN FirstPass(ideal)
        ELSE IF Conflicts(ideal, i) THEN TryAssign(map[i - 1], i, ideal[i]) ELSE map[i - 1]
  IN map[Len(ways)]

-----------------------------------------------------------------------------
(* What the prompts ask for *)

Typed == {"COUNTER_PRICE", "TRADE", "CHOOSE_ANY_SQUARE"}
Overlaid == [BUY_STOCK |-> "buy", SELL_STOCK |-> "sell"]
Keyed == {"CHOOSE_PATH", "CHOOSE_VENTURE_CELL"}
Refusable ==
  {"BUY_SHOP", "FORCED_BUYOUT", "CONFIRM_STOP", "INVEST", "RENOVATE", "CHOOSE_SHOP_AUCTION",
   "AUCTION_BID", "CHOOSE_SHOP_BUY", "CHOOSE_SHOP_SELL", "ACCEPT_OFFER", "CANNON_TARGET",
   "VACANT_PLOT_TYPE"}

(* The options of a prompt's menu: "go" is an answer, "more" asks for more. *)
PromptOptions(kind, at) ==
  CASE kind = "PRE_ROLL" -> {"go", "save", "dev"}
    [] kind \in {"INVEST", "AUCTION_BID", "CHOOSE_SHOP_BUY"} -> {"go", "more"}
    [] kind = "CHOOSE_SHOP_SELL" -> {"go", "more"}
    [] kind = "LIQUIDATION" -> {"go", "more"}
    [] OTHER -> {"go"}

(* What is typed: nothing, a refusal, a value in range, anything else. *)
Inputs == {"empty", "N", "value", "nonsense"}

(* The inputs that the last phase of a prompt takes for an answer. *)
Accepted(kind) ==
  CASE kind \in {"BUY_STOCK", "SELL_STOCK", "INVEST", "LIQUIDATION"} -> {"empty", "value"}
    [] kind = "AUCTION_BID" -> IF MinBid <= Cash THEN {"value"} ELSE {}
    [] OTHER -> {"value"}

(* The debug commands, and what each wants one after the other. *)
Commands ==
  [gold |-> <<"pick", "text">>, teleport |-> <<"pick", "text">>, shop_value |-> <<"pick", "text">>,
   stock |-> <<"pick", "pick", "text">>, suit |-> <<"pick", "pick", "pick">>,
   property |-> <<"pick", "pick", "pick">>]
DevMenu == [cmd |-> "menu", step |-> 1]

Options ==
  IF menu.dev = NoDev THEN PromptOptions(prompt.kind, menu.phase)
  ELSE IF menu.dev = DevMenu THEN DOMAIN Commands \cup {"exit"}
  ELSE {"pick"}

-----------------------------------------------------------------------------
(* Modes *)

ResetInputMode ==
  /\ mode' = "text"
  /\ keymap' = IF mode = "keypress" THEN <<>> ELSE keymap
  /\ menu' = IF mode = "selection" THEN NoMenu ELSE menu
  /\ chord' = NoKey

SelectionMode(listed) == mode' = "selection" /\ menu' = listed /\ UNCHANGED keymap
TextMode == mode' = "text" /\ menu' = NoMenu /\ UNCHANGED keymap

OpenStockOverlay(for) ==
  /\ overlay' = [for |-> for, row |-> "nav"] /\ mode' = "stock_overlay"

(* _show_prompt: the layers are closed and the prompt begins anew. *)
ShowPrompt(req) ==
  LET kind == req.kind
      emptied == IF mode = "keypress" THEN <<>> ELSE keymap
      bared == IF mode = "selection" THEN NoMenu ELSE menu IN
  /\ browse' = FALSE /\ phase' = 0 /\ chord' = NoKey
  /\ \/ /\ kind \in DOMAIN Overlaid
        /\ OpenStockOverlay(Overlaid[kind]) /\ keymap' = emptied /\ menu' = bared
     \/ /\ kind \in Keyed
        /\ mode' = "keypress" /\ overlay' = Closed /\ menu' = bared
        /\ keymap' = IF kind = "CHOOSE_PATH" THEN Assigned(req.ways) ELSE emptied
     \/ /\ kind \in Typed
        /\ mode' = "text" /\ overlay' = Closed /\ keymap' = emptied /\ menu' = bared
     \/ /\ kind \notin DOMAIN Overlaid \cup Keyed \cup Typed
        /\ mode' = "selection" /\ overlay' = Closed /\ keymap' = emptied
        /\ menu' = [n |-> req.n, phase |-> 0, dev |-> NoDev]

(* _submit_response: one answer to the prompt in hand, and a clean screen. *)
Submit(keys) ==
  /\ last' = [n |-> prompt.n, keys |-> keys, mode |-> mode]
  /\ prompt' = NoPrompt /\ phase' = 0 /\ dev' = NoDev /\ overlay' = Closed
  /\ ResetInputMode
  /\ game' = [game EXCEPT !.pc = "runs"]
  /\ UNCHANGED <<request, inbox, shown, browse>>

-----------------------------------------------------------------------------
(* The game's thread, and the thread that polls *)

Post(m) == inbox' = Append(inbox, m)

(* _request_input: post the request and block. *)
GameAsks ==
  /\ game.pc = "runs" /\ game.n < MaxAsks
  /\ game' = [pc |-> "waits", n |-> game.n + 1]
  /\ \E kind \in Kinds : \E ways \in IF kind = "CHOOSE_PATH" THEN Crossings ELSE {<<>>} :
       request' = [n |-> game.n + 1, kind |-> kind, ways |-> ways]
  /\ UNCHANGED <<inbox, prompt, shown, bar, dev, chord, browse, overlay, last>>

Poll ==
  /\ request # NoPrompt
  /\ Post([type |-> "InputReady", of |-> request]) /\ request' = NoPrompt
  /\ UNCHANGED <<game, prompt, shown, bar, dev, chord, browse, overlay, last>>

(* present: wait until it is acknowledged, here or by its owner elsewhere. *)
GamePresents ==
  /\ game.pc = "runs" /\ game.n < MaxAsks
  /\ game' = [pc |-> "presents", n |-> game.n + 1]
  /\ \E mine \in BOOLEAN :
       Post([type |-> "PresentationReady", of |-> [n |-> game.n + 1, mine |-> mine, acked |-> FALSE]])
  /\ UNCHANGED <<request, prompt, shown, bar, dev, chord, browse, overlay, last>>

OthersContinue ==
  /\ game.pc = "presents" /\ ~shown.mine /\ shown.n = game.n
  /\ game' = [game EXCEPT !.pc = "resolves"]
  /\ UNCHANGED <<request, inbox, prompt, shown, bar, dev, chord, browse, overlay, last>>

GameResolves ==
  /\ game.pc = "resolves" /\ game' = [game EXCEPT !.pc = "runs"]
  /\ Post([type |-> "PresentationResolved", of |-> game.n])
  /\ UNCHANGED <<request, prompt, shown, bar, dev, chord, browse, overlay, last>>

GameEnds ==
  /\ game.pc = "runs" /\ game' = [game EXCEPT !.pc = "over"]
  /\ Post([type |-> "GameOver", of |-> 0])
  /\ UNCHANGED <<request, prompt, shown, bar, dev, chord, browse, overlay, last>>

-----------------------------------------------------------------------------
(* The screen's handlers of messages *)

Handles(type) ==
  /\ inbox # <<>> /\ Head(inbox).type = type /\ inbox' = Tail(inbox)
  /\ UNCHANGED <<game, request, last>>
News == Head(inbox).of

HandleInputReady ==
  /\ Handles("InputReady")
  /\ prompt' = News /\ ShowPrompt(News) /\ UNCHANGED <<shown, dev>>

HandlePresentationReady ==
  /\ Handles("PresentationReady")
  /\ shown' = News /\ ResetInputMode /\ UNCHANGED <<prompt, phase, dev, browse, overlay>>

HandlePresentationResolved ==
  /\ Handles("PresentationResolved")
  /\ shown' = IF shown.n = News THEN NoShow ELSE shown
  /\ UNCHANGED <<prompt, bar, dev, chord, browse, overlay>>

HandleGameOver ==
  /\ Handles("GameOver") /\ prompt' = NoPrompt
  /\ UNCHANGED <<shown, bar, dev, chord, browse, overlay>>

-----------------------------------------------------------------------------
(* Keys.  A presentation takes them all; then come E and Q, and then the   *)
(* uppermost layer.                                                        *)

Asked == shown = NoShow /\ prompt # NoPrompt
BarHasKeys == Asked /\ ~browse /\ overlay = Closed

(* Enter or Space on a presentation: its owner acknowledges it, once. *)
Continues ==
  /\ shown # NoShow /\ shown.mine /\ ~shown.acked
  /\ shown' = [shown EXCEPT !.acked = TRUE]
  /\ game' = IF game.pc = "presents" /\ game.n = shown.n
             THEN [game EXCEPT !.pc = "resolves"] ELSE game
  /\ UNCHANGED <<request, inbox, prompt, bar, dev, chord, browse, overlay, last>>

EnterBrowse == browse' = TRUE /\ chord' = NoKey
ExitBrowse_KeepsChord == browse' = FALSE /\ UNCHANGED chord
ExitBrowse == browse' = FALSE /\ chord' = NoKey

PressesE ==
  /\ Asked /\ mode # "text"
  /\ IF browse THEN ExitBrowse ELSE EnterBrowse
  /\ UNCHANGED <<world, prompt, shown, bar, dev, overlay, last>>

PressesQ ==
  /\ Asked
  /\ \/ /\ overlay.for = "view"                    \* close it, and show the prompt anew
        /\ ShowPrompt(prompt)
     \/ /\ overlay = Closed /\ mode # "text"
        /\ Careful => dev = NoDev /\ chord = NoKey
        /\ OpenStockOverlay("view") /\ UNCHANGED <<phase, menu, keymap, chord, browse>>
  /\ UNCHANGED <<world, prompt, shown, dev, last>>

(* Escape: out of the quantity, or out of the overlay. *)
PressesEscape ==
  /\ Asked /\ ~browse /\ overlay # Closed
  /\ \/ /\ overlay.row = "quantity"
        /\ overlay' = [overlay EXCEPT !.row = "nav"] /\ phase' = 0 /\ mode' = "stock_overlay"
        /\ UNCHANGED <<world, prompt, shown, menu, keymap, dev, chord, browse, last>>
     \/ /\ overlay.row = "nav" /\ overlay.for = "view"
        /\ ShowPrompt(prompt) /\ UNCHANGED <<world, prompt, shown, dev, last>>
     \/ /\ overlay.row = "nav" /\ overlay.for # "view" /\ Submit({})

(* Space on a district that may be bought or sold. *)
SelectsDistrict ==
  /\ Asked /\ ~browse /\ overlay.row = "nav" /\ overlay.for \in {"buy", "sell"}
  /\ overlay' = [overlay EXCEPT !.row = "quantity"] /\ phase' = 1 /\ mode' = "text"
  /\ UNCHANGED <<world, prompt, shown, menu, keymap, dev, chord, browse, last>>

(* W, A, S or D, on the board or on a crossing: alone, or in a chord. *)
Combo(k, l) ==
  CASE {k, l} = {"s", "d"} -> "sd" [] {k, l} = {"a", "s"} -> "as"
    [] {k, l} = {"w", "a"} -> "wa" [] {k, l} = {"d", "w"} -> "dw" [] OTHER -> "none"
OnBoard == <<"board", 0>>
OnCrossing == <<"path", prompt.n>>

(* on_single and on_combo of a crossing: the answer, if the keys mean one. *)
Goes(key, typed) ==
  IF key \in DOMAIN keymap /\ prompt # NoPrompt
  THEN Submit(typed)
  ELSE chord' = NoKey /\ UNCHANGED <<world, prompt, shown, bar, dev, browse, overlay, last>>

Holds(k, typed) ==
  /\ chord' = [key |-> k, typed |-> typed]
  /\ UNCHANGED <<world, prompt, shown, bar, dev, browse, overlay, last>>

MayCombo(k) == \E m \in DOMAIN keymap : \E l \in {"w", "a", "s", "d"} \ {k} : m = Combo(k, l)

PressesDirection(k) ==
  /\ Asked
  /\ \/ /\ browse                                            \* moves the board's cursor
        /\ IF chord = NoKey THEN Holds(k, OnBoard)
           ELSE chord' = NoKey /\ UNCHANGED <<world, prompt, shown, bar, dev, browse, overlay, last>>
     \/ /\ ~browse /\ overlay = Closed /\ mode = "keypress" /\ prompt.kind = "CHOOSE_PATH"
        /\ IF chord # NoKey
           THEN IF Combo(chord.key, k) \in DOMAIN keymap
                THEN Goes(Combo(chord.key, k), {chord.typed, OnCrossing})
                ELSE Goes(k, {OnCrossing})
           ELSE IF MayCombo(k) THEN Holds(k, OnCrossing) ELSE Goes(k, {OnCrossing})

(* The timer of a chord: the key that was held back acts alone. *)
ChordTimesOut ==
  /\ chord # NoKey
  /\ IF chord.typed = OnBoard
     THEN chord' = NoKey /\ UNCHANGED <<world, prompt, shown, bar, dev, browse, overlay, last>>
     ELSE Goes(chord.key, {chord.typed})

(* Space on an unclaimed cell of the venture grid. *)
ClaimsCell ==
  /\ BarHasKeys /\ mode = "keypress" /\ prompt.kind = "CHOOSE_VENTURE_CELL" /\ Submit({})

(* A digit at the pre-roll prompt: a roll of that value. *)
PressesDigit ==
  /\ BarHasKeys /\ mode = "selection" /\ dev = NoDev /\ prompt.kind = "PRE_ROLL" /\ Submit({})

OpenDevMenu ==
  /\ dev' = DevMenu /\ SelectionMode([n |-> prompt.n, phase |-> phase, dev |-> DevMenu])

(* The debug menus: the next thing the command wants, or the event sent    *)
(* and the menu again.  "Remove" wants one thing less than "give", and     *)
(* nothing when no shop is owned.                                          *)
DevNext(step) ==
  LET at == [dev EXCEPT !.step = step] IN
  IF step > Len(Commands[dev.cmd]) THEN OpenDevMenu
  ELSE /\ dev' = at
       /\ IF Commands[dev.cmd][step] = "pick"
          THEN SelectionMode([n |-> prompt.n, phase |-> phase, dev |-> at]) ELSE TextMode

LeaveDev_ToMenu == OpenDevMenu /\ UNCHANGED <<phase, chord, browse, overlay>>
LeaveDev_KeepsMode == ShowPrompt(prompt) /\ UNCHANGED dev
LeaveDev == dev' = NoDev /\ ShowPrompt(prompt)

OnDevSelection(v) ==
  \/ /\ dev = DevMenu /\ v = "exit" /\ LeaveDev
  \/ /\ dev = DevMenu /\ v # "exit"
     /\ dev' = [cmd |-> v, step |-> 1]
     /\ IF v \in DOMAIN Commands
        THEN SelectionMode([n |-> prompt.n, phase |-> phase, dev |-> [cmd |-> v, step |-> 1]])
        ELSE UNCHANGED <<mode, menu, keymap>>
     /\ UNCHANGED <<phase, chord, browse, overlay>>
  \/ /\ dev.cmd \in DOMAIN Commands
     /\ \/ DevNext(dev.step + 1)
        \/ dev.cmd = "property" /\ dev.step = 1 /\ \E skipped \in {1, 2} : DevNext(2 + skipped)
     /\ UNCHANGED <<phase, chord, browse, overlay>>

(* Space on an option of the selection bar. *)
Confirms(v) ==
  /\ BarHasKeys /\ mode = "selection" /\ v \in Options
  /\ \/ /\ dev # NoDev /\ OnDevSelection(v) /\ UNCHANGED <<world, prompt, shown, last>>
     \/ /\ dev = NoDev /\ v = "go" /\ Submit({})
     \/ /\ dev = NoDev /\ v = "save"
        /\ ShowPrompt(prompt) /\ UNCHANGED <<world, prompt, shown, dev, last>>
     \/ /\ dev = NoDev /\ v = "dev" /\ OpenDevMenu
        /\ UNCHANGED <<world, prompt, shown, phase, chord, browse, overlay, last>>
     \/ /\ dev = NoDev /\ v = "more" /\ phase' = phase + 1
        /\ IF prompt.kind = "CHOOSE_SHOP_SELL" /\ phase = 0
           THEN SelectionMode([n |-> prompt.n, phase |-> 1, dev |-> NoDev]) ELSE TextMode
        /\ UNCHANGED <<world, prompt, shown, dev, chord, browse, overlay, last>>

(* Backspace: back to the debug menu or out of it, or no to a prompt that takes a no. *)
PressesBackspace ==
  /\ BarHasKeys /\ mode = "selection"
  /\ \/ /\ dev = DevMenu /\ LeaveDev /\ UNCHANGED <<world, prompt, shown, last>>
     \/ /\ dev \notin {NoDev, DevMenu} /\ OpenDevMenu
        /\ UNCHANGED <<world, prompt, shown, phase, chord, browse, overlay, last>>
     \/ /\ dev = NoDev /\ prompt.kind \in Refusable /\ Submit({})

(* Enter in the input line. *)
Types(t) ==
  /\ Asked /\ mode = "text"
  /\ \/ /\ dev # NoDev /\ dev.cmd \in DOMAIN Commands /\ t = "value"
        /\ DevNext(dev.step + 1)
        /\ UNCHANGED <<world, prompt, shown, phase, chord, browse, overlay, last>>
     \/ /\ dev = NoDev /\ (phase = 0 => t # "empty") /\ t \in Accepted(prompt.kind) /\ Submit({})

Init ==
  /\ game = [pc |-> "runs", n |-> 0] /\ request = NoPrompt /\ inbox = <<>>
  /\ prompt = NoPrompt /\ shown = NoShow
  /\ mode = "text" /\ phase = 0 /\ menu = NoMenu /\ keymap = <<>>
  /\ dev = NoDev /\ chord = NoKey /\ browse = FALSE /\ overlay = Closed
  /\ last = [n |-> 0, keys |-> {}, mode |-> "text"]

Chosen == {"go", "save", "dev", "more", "exit", "pick"} \cup DOMAIN Commands
Directions == {"w", "a", "s", "d"}

Next ==
  \/ GameAsks \/ Poll \/ GamePresents \/ OthersContinue \/ GameResolves \/ GameEnds
  \/ HandleInputReady \/ HandlePresentationReady \/ HandlePresentationResolved \/ HandleGameOver
  \/ Continues \/ PressesE \/ PressesQ \/ PressesEscape \/ SelectsDistrict
  \/ \E k \in Directions : PressesDirection(k)
  \/ ChordTimesOut \/ ClaimsCell \/ PressesDigit
  \/ \E v \in Chosen : Confirms(v)
  \/ PressesBackspace
  \/ \E t \in Inputs : Types(t)

Spec == Init /\ [][Next]_vars

(* The steps by which a player gets on: he answers or presses on, holds a  *)
(* key of a chord, and closes what lies over the prompt.                   *)
Keys ==
  \/ PressesEscape \/ ClaimsCell \/ PressesDigit \/ PressesBackspace
  \/ \E k \in Directions : PressesDirection(k)
  \/ \E v \in Chosen : Confirms(v)
  \/ \E t \in Inputs : Types(t)
Answers == Continues \/ (Keys /\ last' # last)
StartsChord == \E k \in Directions : chord = NoKey /\ ~browse /\ MayCombo(k) /\ PressesDirection(k)
LeavesBrowse == browse /\ PressesE
ClosesView == overlay.for = "view" /\ PressesQ
BackToDevMenu == dev \notin {NoDev, DevMenu} /\ Keys /\ dev' = DevMenu
LeavesDev == dev = DevMenu /\ PressesBackspace

(* The threads run, the timer fires, other players press on, and a player  *)
(* who is asked goes on trying: what he can do again and again he does.    *)
FairSpec ==
  /\ Spec
  /\ WF_vars(Poll) /\ WF_vars(GameResolves) /\ WF_vars(OthersContinue) /\ WF_vars(ChordTimesOut)
  /\ WF_vars(HandleInputReady) /\ WF_vars(HandlePresentationReady)
  /\ WF_vars(HandlePresentationResolved) /\ WF_vars(HandleGameOver)
  /\ WF_vars(LeavesBrowse) /\ WF_vars(ClosesView)
  /\ SF_vars(Answers) /\ SF_vars(StartsChord) /\ SF_vars(BackToDevMenu) /\ SF_vars(LeavesDev)

-----------------------------------------------------------------------------
(* What the screen promises *)

(* The type invariant of the screen. *)
TypeOK ==
  /\ game.pc \in {"runs", "waits", "presents", "resolves", "over"} /\ game.n \in 0 .. MaxAsks
  /\ Len(inbox) <= 2 /\ browse \in BOOLEAN
  /\ prompt.kind \in Kinds \cup {"none"} /\ request.kind \in Kinds \cup {"none"}
  /\ mode \in {"text", "keypress", "selection", "stock_overlay"} /\ phase \in 0 .. 2
  /\ dev.cmd \in DOMAIN Commands \cup {"none", "menu"}
  /\ overlay.for \in {"none", "view", "buy", "sell"} /\ overlay.row \in {"nav", "quantity"}
  /\ chord.key \in Directions \cup {"none"}

(* What is on the screen belongs to the prompt in hand.  The selection bar *)
(* lists what its keys will be taken for: the options of the prompt at the *)
(* phase it is in, or those of the debug menu that is open.  With no       *)
(* prompt in hand nothing of the last one is left over: no layer, no       *)
(* half-typed chord, no debug command, no mode but the idle one.           *)
ScreenMatchesPrompt ==
  /\ TypeOK
  /\ mode = "selection" => menu = [n |-> prompt.n, phase |-> phase, dev |-> dev]
  /\ prompt = NoPrompt =>
       /\ mode = "text" /\ phase = 0 /\ dev = NoDev
       /\ ~browse /\ overlay = Closed /\ chord = NoKey

(* A way is chosen by keys that were all typed for this prompt, on its own *)
(* keyboard: none of them moved the board's cursor, or was held back until *)
(* another layer lay over the crossing.                                    *)
(* Each way on, and the way back, has a key of its own there.              *)
KeysActInTheirMode ==
  /\ last.keys # {} => last.keys = {<<"path", last.n>>} /\ last.mode = "keypress"
  /\ mode = "keypress" /\ prompt.kind = "CHOOSE_PATH" => Range(keymap) = DOMAIN prompt.ways

(* A player who goes on trying answers every prompt, whatever he opened,   *)
(* began or refused before, and passes every presentation.                 *)
AnswerIsFound == game.pc \in {"waits", "presents"} ~> game.pc \in {"runs", "over"}
=============================================================================
