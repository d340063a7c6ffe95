--------------------------- MODULE TerminalProofs ---------------------------
(***************************************************************************)
(* Proofs about module Terminal, for any kinds of prompt, any crossings    *)
(* and any number of questions.  What is on the screen depends on what was *)
(* opened before, so the invariant goes through the layers: what each mode *)
(* says of the layer that lies uppermost, and each layer of the mode.      *)
(***************************************************************************)
EXTENDS Terminal, SequenceTheorems, WellFoundedInduction, TLAPS

-----------------------------------------------------------------------------
(* The three threads: the question that is asked is in one place, the      *)
(* request, a message or the prompt in hand, and none is asked before it   *)
(* is answered.                                                            *)

Questions == 1 .. MaxAsks
Asks ==
  {q \in [n : Questions, kind : Kinds, ways : Crossings \cup {<<>>}] :
     q.kind = "CHOOSE_PATH" => q.ways \in Crossings}
Offers == [n : 0 .. MaxAsks, mine : BOOLEAN, acked : BOOLEAN]

(* The message that the screen is due, and the one that may be before it. *)
Due ==
  {m \in [type : {"InputReady"}, of : Asks] :
     game.pc = "waits" /\ request = NoPrompt /\ prompt = NoPrompt /\ m.of.n = game.n}
  \cup {m \in [type : {"PresentationReady"}, of : Offers] :
          game.pc = "presents" /\ m.of.n = game.n /\ shown.n # game.n}
  \cup {m \in [type : {"GameOver"}, of : {0}] : game.pc = "over"}
Resolveds == [type : {"PresentationResolved"}, of : 0 .. MaxAsks]
InboxOK ==
  \/ inbox = <<>> \/ \E m \in Due \cup Resolveds : inbox = <<m>>
  \/ \E r \in Resolveds, m \in Due : inbox = <<r, m>>

Threads ==
  /\ game \in [pc : {"runs", "waits", "presents", "resolves", "over"}, n : 0 .. MaxAsks]
  /\ game.pc \in {"waits", "presents", "resolves"} => game.n \in Questions
  /\ request # NoPrompt => request \in Asks /\ request.n = game.n /\ game.pc = "waits"
  /\ prompt # NoPrompt =>
       prompt \in Asks /\ prompt.n = game.n /\ game.pc = "waits" /\ request = NoPrompt
  /\ shown \in Offers /\ shown.n <= game.n
  /\ InboxOK
  /\ game.pc = "resolves" \/ (game.pc = "presents" /\ shown.n = game.n) => inbox = <<>>

(* The layers: with no prompt there is none;  *)
Idle ==
  /\ mode = "text" /\ phase = 0 /\ dev = NoDev
  /\ browse = FALSE /\ overlay = Closed /\ chord = NoKey
Devs == {NoDev, DevMenu} \cup [cmd : DOMAIN Commands, step : Nat]

Overlays == {Closed} \cup [for : {"view"}, row : {"nav"}]
            \cup [for : {"buy", "sell"}, row : {"nav", "quantity"}]
LayerTypes ==
  /\ mode \in {"text", "keypress", "selection", "stock_overlay"} /\ phase \in 0 .. 2
  /\ dev \in Devs /\ overlay \in Overlays /\ browse \in BOOLEAN
  /\ chord = NoKey \/ chord.key \in Directions

(* each mode has its layer uppermost, *)
ModeFits ==
  /\ mode = "text" => ~browse /\ (overlay = Closed \/ overlay.row = "quantity")
  /\ mode = "keypress" =>
       /\ overlay = Closed /\ dev = NoDev
       /\ prompt.kind = "CHOOSE_PATH" => keymap = Assigned(prompt.ways)
  /\ mode = "selection" =>
       /\ overlay = Closed /\ menu = [n |-> prompt.n, phase |-> phase, dev |-> dev]
       /\ phase # 0 => phase = 1 /\ prompt.kind = "CHOOSE_SHOP_SELL"
  /\ mode = "stock_overlay" => overlay # Closed /\ overlay.row = "nav"
(* a debug command and a held key lie over nothing else. *)
DevFits == dev # NoDev => phase = 0 /\ overlay = Closed
ChordFits ==
  chord # NoKey =>
    IF browse THEN chord.typed = OnBoard /\ mode # "text"
    ELSE chord.typed = OnCrossing /\ mode = "keypress"

Layers ==
  IF prompt = NoPrompt THEN Idle ELSE LayerTypes /\ ModeFits /\ DevFits /\ ChordFits
Typing == last.keys # {} => last.keys = {<<"path", last.n>>} /\ last.mode = "keypress"

TInv == Threads /\ Layers /\ Typing

-----------------------------------------------------------------------------
(* The threads. *)

LEMMA Tuples ==
  ASSUME NEW r, NEW m
  PROVE  /\ Head(<<m>>) = m /\ Tail(<<m>>) = <<>> /\ Append(<<>>, m) = <<m>>
         /\ Head(<<r, m>>) = r /\ Tail(<<r, m>>) = <<m>> /\ Append(<<r>>, m) = <<r, m>>
         /\ Len(<<>>) = 0 /\ Len(<<m>>) = 1 /\ Len(<<r, m>>) = 2
         /\ <<m>> # <<>> /\ <<r, m>> # <<>>
<1>1. Len(<<>>) = 0 /\ Len(<<m>>) = 1 /\ Len(<<r, m>>) = 2
  OBVIOUS
<1>2. <<m>> # <<>> /\ <<r, m>> # <<>>
  BY <1>1
<1>3. Head(<<m>>) = m /\ Head(<<r, m>>) = r
  OBVIOUS
<1>4. Append(<<>>, m) = <<m>>
  OBVIOUS
<1>5. Append(<<r>>, m) = <<r, m>>
  <2> DEFINE S == {r, m}
             s == <<r>>
             t == <<r, m>>
  <2>1. s \in Seq(S) /\ m \in S /\ t \in Seq(S) /\ Len(s) = 1 /\ s[1] = r
    OBVIOUS
  <2>2. Append(s, m) \in Seq(S) /\ Len(Append(s, m)) = 2
        /\ Append(s, m)[1] = r /\ Append(s, m)[2] = m
    <3> HIDE DEF s, S
    <3>1. Append(s, m) \in Seq(S)
      BY <2>1, AppendProperties
    <3>2. Len(Append(s, m)) = Len(s) + 1 /\ Append(s, m)[Len(s) + 1] = m
      BY <2>1, AppendProperties
    <3>3. 1 \in 1 .. Len(s)
      BY <2>1
    <3>4. Append(s, m)[1] = s[1]
      BY <2>1, <3>3, AppendProperties
    <3>. QED BY <2>1, <3>1, <3>2, <3>4
  <2>3. Len(t) = 2 /\ t[1] = r /\ t[2] = m
    OBVIOUS
  <2>4. \A i \in 1 .. 2 : i = 1 \/ i = 2
    OBVIOUS
  <2>5. Append(s, m) = t
    <3> HIDE DEF s, t, S
    <3>. QED BY <2>1, <2>2, <2>3, <2>4, SeqEqual
  <2>. QED BY <2>5
<1>6. Tail(<<m>>) = <<>>
  OBVIOUS
<1>7. Tail(<<r, m>>) = <<m>>
  OBVIOUS
<1>. QED BY <1>1, <1>2, <1>3, <1>4, <1>5, <1>6, <1>7

(* With the game neither waiting, presenting nor over, the screen is due   *)
(* nothing; nor is it while the question is elsewhere.                     *)
LEMMA NothingDue ==
  ASSUME Threads, game.pc \in {"runs", "resolves"} \/ request # NoPrompt \/ prompt # NoPrompt
  PROVE  inbox = <<>> \/ \E r \in Resolveds : inbox = <<r>>
<1>1. Due = {}
  BY DEF Threads, Due
<1>. QED BY <1>1 DEF Threads, InboxOK

(* A message is added behind what is there. *)
LEMMA OneMore ==
  ASSUME NEW m, Post(m), m \in Due' \cup Resolveds,
         inbox = <<>> \/ (m \in Due' /\ \E r \in Resolveds : inbox = <<r>>)
  PROVE  InboxOK'
<1>1. CASE inbox = <<>>
  BY <1>1, Tuples DEF Post, InboxOK
<1>2. CASE m \in Due' /\ \E r \in Resolveds : inbox = <<r>>
  <2>1. PICK r \in Resolveds : inbox = <<r>>
    BY <1>2
  <2>2. inbox' = <<r, m>>
    BY <2>1, Tuples DEF Post
  <2>. QED BY <1>2, <2>2 DEF InboxOK
<1>. QED BY <1>1, <1>2

LEMMA ThreadsOfGame ==
  ASSUME Threads, ScreenAssumption,
         GameAsks \/ Poll \/ GamePresents \/ OthersContinue \/ GameResolves \/ GameEnds
  PROVE  Threads'
<1>1. game \in [pc : {"runs", "waits", "presents", "resolves", "over"}, n : 0 .. MaxAsks]
      /\ MaxAsks \in Nat /\ game.n \in Nat
  BY DEF Threads, ScreenAssumption
<1>2. prompt # NoPrompt => game.pc = "waits"
  BY DEF Threads
<1>3. CASE GameAsks
  <2>1. game' = [pc |-> "waits", n |-> game.n + 1] /\ game.pc = "runs" /\ game.n < MaxAsks
        /\ UNCHANGED <<inbox, prompt, shown>>
    BY <1>3 DEF GameAsks
  <2>2. game.n + 1 \in Questions /\ game.n + 1 \in 0 .. MaxAsks
    BY <1>1, <2>1 DEF Questions
  <2>3. PICK kind \in Kinds : \E ways \in IF kind = "CHOOSE_PATH" THEN Crossings ELSE {<<>>} :
          request' = [n |-> game.n + 1, kind |-> kind, ways |-> ways]
    BY <1>3 DEF GameAsks
  <2>4. request' \in Asks /\ request'.n = game.n + 1
    BY <2>2, <2>3 DEF Asks
  <2>5. InboxOK'
    BY <2>1, NothingDue DEF InboxOK
  <2>6. prompt' = NoPrompt /\ shown' = shown /\ shown.n <= game.n + 1 /\ shown \in Offers
    BY <1>1, <1>2, <2>1 DEF Threads, Offers
  <2>. QED BY <2>1, <2>2, <2>4, <2>5, <2>6 DEF Threads
<1>4. CASE Poll
  <2>1. request # NoPrompt /\ request \in Asks /\ request.n = game.n /\ game.pc = "waits"
    BY <1>4 DEF Poll, Threads
  <2>2. prompt = NoPrompt /\ request' = NoPrompt /\ UNCHANGED <<game, prompt, shown>>
    BY <1>4, <2>1 DEF Poll, Threads
  <2> DEFINE m == [type |-> "InputReady", of |-> request]
  <2>3. m \in Due' /\ Post(m)
    BY <1>4, <2>1, <2>2 DEF Poll, Due
  <2>4. inbox = <<>> \/ \E r \in Resolveds : inbox = <<r>>
    BY <2>1, NothingDue
  <2>5. InboxOK'
    <3> HIDE DEF m
    <3>. QED BY <2>3, <2>4, OneMore
  <2>. QED BY <2>1, <2>2, <2>5 DEF Threads
<1>5. CASE GamePresents
  <2>1. game' = [pc |-> "presents", n |-> game.n + 1] /\ game.pc = "runs" /\ game.n < MaxAsks
        /\ UNCHANGED <<request, prompt, shown>>
    BY <1>5 DEF GamePresents
  <2>2. game.n + 1 \in Questions /\ game.n + 1 \in 0 .. MaxAsks
    BY <1>1, <2>1 DEF Questions
  <2>3. shown \in Offers /\ shown.n <= game.n + 1 /\ shown.n # game.n + 1
    BY <1>1 DEF Threads, Offers
  <2>4. PICK mine \in BOOLEAN :
          Post([type |-> "PresentationReady",
                of |-> [n |-> game.n + 1, mine |-> mine, acked |-> FALSE]])
    BY <1>5 DEF GamePresents
  <2> DEFINE m == [type |-> "PresentationReady",
                   of |-> [n |-> game.n + 1, mine |-> mine, acked |-> FALSE]]
  <2>5. m \in Due'
    BY <2>1, <2>2, <2>3 DEF Due, Offers
  <2>6. inbox = <<>> \/ \E r \in Resolveds : inbox = <<r>>
    BY <2>1, NothingDue
  <2>7. InboxOK'
    <3> HIDE DEF m
    <3>1. Post(m)
      BY <2>4 DEF m
    <3>. QED BY <2>5, <2>6, <3>1, OneMore
  <2>8. request = NoPrompt /\ prompt = NoPrompt
    BY <2>1 DEF Threads
  <2>. QED BY <2>1, <2>2, <2>3, <2>7, <2>8 DEF Threads
<1>6. CASE OthersContinue
  <2>1. game' = [game EXCEPT !.pc = "resolves"] /\ game.pc = "presents" /\ shown.n = game.n
        /\ UNCHANGED <<request, inbox, prompt, shown>>
    BY <1>6 DEF OthersContinue
  <2>2. inbox = <<>> /\ request = NoPrompt /\ prompt = NoPrompt
    BY <2>1 DEF Threads
  <2>. QED BY <1>1, <2>1, <2>2 DEF Threads, InboxOK
<1>7. CASE GameResolves
  <2>1. game' = [game EXCEPT !.pc = "runs"] /\ game.pc = "resolves"
        /\ Post([type |-> "PresentationResolved", of |-> game.n])
        /\ UNCHANGED <<request, prompt, shown>>
    BY <1>7 DEF GameResolves
  <2>2. inbox = <<>> /\ request = NoPrompt /\ prompt = NoPrompt
    BY <2>1 DEF Threads
  <2>3. [type |-> "PresentationResolved", of |-> game.n] \in Resolveds
    BY <1>1 DEF Resolveds
  <2>4. InboxOK'
    BY <2>1, <2>2, <2>3, OneMore
  <2>. QED BY <1>1, <2>1, <2>2, <2>4 DEF Threads
<1>8. CASE GameEnds
  <2>1. game' = [game EXCEPT !.pc = "over"] /\ game.pc = "runs"
        /\ Post([type |-> "GameOver", of |-> 0])
        /\ UNCHANGED <<request, prompt, shown>>
    BY <1>8 DEF GameEnds
  <2>2. request = NoPrompt /\ prompt = NoPrompt
    BY <2>1 DEF Threads
  <2>3. [type |-> "GameOver", of |-> 0] \in Due'
    BY <1>1, <2>1 DEF Due
  <2>4. inbox = <<>> \/ \E r \in Resolveds : inbox = <<r>>
    BY <2>1, NothingDue
  <2>5. InboxOK'
    BY <2>1, <2>3, <2>4, OneMore
  <2>. QED BY <1>1, <2>1, <2>2, <2>5 DEF Threads
<1>. QED BY <1>3, <1>4, <1>5, <1>6, <1>7, <1>8

(* The message that is handled is the one due, or one before it. *)
LEMMA Opened ==
  ASSUME Threads, NEW type, Handles(type)
  PROVE  \/ /\ type = "PresentationResolved"
            /\ inbox' = <<>> \/ \E m \in Due : inbox' = <<m>>
         \/ \E m \in Due : m.type = type /\ News = m.of /\ inbox' = <<>>
<1>1. inbox # <<>> /\ Head(inbox).type = type /\ inbox' = Tail(inbox)
  BY DEF Handles
<1>2. ASSUME NEW m \in Due, inbox = <<m>>
      PROVE  m.type = type /\ News = m.of /\ inbox' = <<>>
  BY <1>1, <1>2, Tuples DEF News
<1>3. ASSUME NEW r \in Resolveds, inbox = <<r>>
      PROVE  type = "PresentationResolved" /\ inbox' = <<>>
  BY <1>1, <1>3, Tuples DEF Resolveds
<1>4. ASSUME NEW r \in Resolveds, NEW m \in Due, inbox = <<r, m>>
      PROVE  type = "PresentationResolved" /\ inbox' = <<m>>
  BY <1>1, <1>4, Tuples DEF Resolveds
<1>. QED BY <1>1, <1>2, <1>3, <1>4 DEF Threads, InboxOK

LEMMA ThreadsOfScreen ==
  ASSUME Threads, ScreenAssumption,
         HandleInputReady \/ HandlePresentationReady \/ HandlePresentationResolved
         \/ HandleGameOver
  PROVE  Threads'
<1>1. game \in [pc : {"runs", "waits", "presents", "resolves", "over"}, n : 0 .. MaxAsks]
      /\ MaxAsks \in Nat /\ game.n \in Nat
  BY DEF Threads, ScreenAssumption
<1>2. InboxOK' <=> \/ inbox' = <<>> \/ \E m \in Due' \cup Resolveds : inbox' = <<m>>
                   \/ \E r \in Resolveds, m \in Due' : inbox' = <<r, m>>
  BY DEF InboxOK, Resolveds
<1>3. CASE HandleInputReady
  <2>1. PICK m \in Due : m.type = "InputReady" /\ News = m.of /\ inbox' = <<>>
    BY <1>3, Opened DEF HandleInputReady
  <2>2. m.of \in Asks /\ m.of.n = game.n /\ game.pc = "waits" /\ request = NoPrompt
    BY <2>1 DEF Due
  <2>3. prompt' = m.of /\ UNCHANGED <<game, request, shown>>
    BY <1>3, <2>1 DEF HandleInputReady, Handles
  <2>. QED BY <1>2, <2>1, <2>2, <2>3 DEF Threads
<1>4. CASE HandlePresentationReady
  <2>1. PICK m \in Due : m.type = "PresentationReady" /\ News = m.of /\ inbox' = <<>>
    BY <1>4, Opened DEF HandlePresentationReady
  <2>2. m.of \in Offers /\ m.of.n = game.n /\ game.pc = "presents"
    BY <2>1 DEF Due
  <2>3. shown' = m.of /\ UNCHANGED <<game, request, prompt>>
    BY <1>4, <2>1 DEF HandlePresentationReady, Handles
  <2>4. m.of.n <= game.n
    BY <1>1, <2>2
  <2>. QED BY <1>2, <2>1, <2>2, <2>3, <2>4 DEF Threads
<1>5. CASE HandlePresentationResolved
  <2>1. UNCHANGED <<game, request, prompt>> /\ (shown' = shown \/ shown' = NoShow)
        /\ Handles("PresentationResolved") /\ inbox # <<>>
    BY <1>5 DEF HandlePresentationResolved, Handles
  <2>2. shown' \in Offers /\ shown'.n <= game.n /\ (shown'.n = shown.n \/ shown'.n = 0)
    <3>1. shown \in Offers /\ shown.n <= game.n
      BY DEF Threads
    <3>2. NoShow \in Offers /\ NoShow.n = 0 /\ 0 <= game.n
      BY <1>1 DEF Offers, NoShow
    <3>. QED BY <2>1, <3>1, <3>2
  <2>3. game.pc = "presents" => game.n # 0 /\ shown.n # game.n
    BY <1>1, <2>1 DEF Threads, Questions
  <2>4. Due' = Due
    BY <2>1, <2>2, <2>3 DEF Due
  <2>5. inbox' = <<>> \/ \E m \in Due : inbox' = <<m>>
    <3>1. ~ \E m \in Due : m.type = "PresentationResolved"
      BY DEF Due
    <3>. QED BY <2>1, <3>1, Opened
  <2>6. InboxOK'
    BY <1>2, <2>4, <2>5
  <2>7. game.pc # "resolves" /\ ~(game.pc = "presents" /\ shown'.n = game.n)
    BY <2>1, <2>2, <2>3 DEF Threads
  <2>. QED BY <1>1, <2>1, <2>2, <2>6, <2>7 DEF Threads
<1>6. CASE HandleGameOver
  <2>1. PICK m \in Due : m.type = "GameOver" /\ inbox' = <<>>
    BY <1>6, Opened DEF HandleGameOver
  <2>2. game.pc = "over"
    BY <2>1 DEF Due
  <2>3. prompt' = NoPrompt /\ UNCHANGED <<game, request, shown>>
    BY <1>6 DEF HandleGameOver, Handles
  <2>. QED BY <1>2, <2>1, <2>2, <2>3 DEF Threads
<1>. QED BY <1>3, <1>4, <1>5, <1>6

LEMMA ThreadsOfContinue ==
  ASSUME Threads, Continues
  PROVE  Threads'
<1>1. UNCHANGED <<request, inbox, prompt>> /\ shown' = [shown EXCEPT !.acked = TRUE]
  BY DEF Continues
<1>2. shown' \in Offers /\ shown'.n = shown.n
  BY <1>1 DEF Threads, Offers
<1>3. CASE game.pc = "presents" /\ game.n = shown.n
  <2>1. game' = [game EXCEPT !.pc = "resolves"]
    BY <1>3 DEF Continues
  <2>2. inbox = <<>> /\ request = NoPrompt /\ prompt = NoPrompt
    BY <1>3 DEF Threads
  <2>. QED BY <1>1, <1>2, <1>3, <2>1, <2>2 DEF Threads, InboxOK
<1>4. CASE ~(game.pc = "presents" /\ game.n = shown.n)
  <2>1. game' = game
    BY <1>4 DEF Continues
  <2>2. Due' = Due
    BY <1>1, <1>2, <2>1 DEF Due
  <2>. QED BY <1>1, <1>2, <2>1, <2>2 DEF Threads, InboxOK
<1>. QED BY <1>3, <1>4

LEMMA ThreadsOfAnswer ==
  ASSUME Threads, prompt # NoPrompt, NEW keys, Submit(keys)
  PROVE  Threads'
<1>1. game' = [game EXCEPT !.pc = "runs"] /\ prompt' = NoPrompt
      /\ UNCHANGED <<request, inbox, shown>>
  BY DEF Submit
<1>2. game.pc = "waits" /\ request = NoPrompt
  BY DEF Threads
<1>3. inbox = <<>> \/ \E r \in Resolveds : inbox = <<r>>
  BY NothingDue
<1>. QED BY <1>1, <1>2, <1>3 DEF Threads, InboxOK

LEMMA ThreadsKept ==
  ASSUME Threads, UNCHANGED <<world, prompt, shown>>
  PROVE  Threads'
BY DEF Threads, InboxOK, Due, world

-----------------------------------------------------------------------------
(* The layers.  A key either changes the layers over the same prompt, or   *)
(* answers it.                                                             *)

Layered == LayerTypes /\ ModeFits /\ DevFits /\ ChordFits
Quiet == UNCHANGED <<world, prompt, shown, last>> /\ Layered'
Ended ==
  \E keys : /\ Submit(keys) /\ ~browse
            /\ keys = {} \/ (keys = {OnCrossing} /\ mode = "keypress")

LEMMA Overlay ==
  /\ NoDev \in Devs /\ DevMenu \in Devs /\ Closed \in Overlays /\ Closed.row = "nav"
  /\ \A k \in DOMAIN Overlaid : Overlaid[k] \in {"buy", "sell"}
  /\ \A for \in {"view", "buy", "sell"} :
       [for |-> for, row |-> "nav"] \in Overlays /\ [for |-> for, row |-> "nav"] # Closed
BY DEF Devs, DevMenu, Overlays, Closed, Overlaid

LEMMA Shown ==
  ASSUME NEW req, ShowPrompt(req), prompt' = req, dev' = NoDev
  PROVE  Layered'
<1>1. browse' = FALSE /\ phase' = 0 /\ chord' = NoKey /\ NoDev \in Devs /\ 0 \in 0 .. 2
      /\ Closed \in Overlays
  BY Overlay DEF ShowPrompt
<1>2. DevFits' /\ ChordFits'
  BY <1>1 DEF DevFits, ChordFits
<1>3. ASSUME mode' \in {"text", "keypress", "selection", "stock_overlay"}, overlay' \in Overlays
      PROVE  LayerTypes'
  BY <1>1, <1>3 DEF LayerTypes
<1>4. CASE req.kind \in DOMAIN Overlaid /\ OpenStockOverlay(Overlaid[req.kind])
  <2>1. /\ mode' = "stock_overlay" /\ overlay' \in Overlays /\ overlay' # Closed
        /\ overlay'.row = "nav"
    BY <1>4, Overlay DEF OpenStockOverlay
  <2>2. ModeFits'
    BY <2>1 DEF ModeFits
  <2>. QED BY <1>2, <1>3, <2>1, <2>2 DEF Layered
<1>5. CASE req.kind \in Keyed /\ mode' = "keypress" /\ overlay' = Closed
           /\ (req.kind = "CHOOSE_PATH" => keymap' = Assigned(req.ways))
  <2>1. ModeFits'
    BY <1>5 DEF ModeFits
  <2>. QED BY <1>1, <1>2, <1>3, <1>5, <2>1 DEF Layered
<1>6. CASE mode' = "text" /\ overlay' = Closed
  <2>1. ModeFits'
    BY <1>1, <1>6 DEF ModeFits
  <2>. QED BY <1>1, <1>2, <1>3, <1>6, <2>1 DEF Layered
<1>7. CASE mode' = "selection" /\ overlay' = Closed
           /\ menu' = [n |-> req.n, phase |-> 0, dev |-> NoDev]
  <2>1. ModeFits'
    BY <1>1, <1>7 DEF ModeFits
  <2>. QED BY <1>1, <1>2, <1>3, <1>7, <2>1 DEF Layered
<1>. QED BY <1>4, <1>5, <1>6, <1>7 DEF ShowPrompt

(* No key is held but on the board or at a crossing. *)
LEMMA NoneHeld ==
  ASSUME Layered, ~browse, mode # "keypress"
  PROVE  chord = NoKey
BY DEF Layered, ChordFits

LEMMA BrowseKeys ==
  ASSUME Layered, PressesE
  PROVE  Quiet
<1>1. mode # "text" /\ browse' = ~browse /\ chord' = NoKey /\ browse \in BOOLEAN
      /\ UNCHANGED <<world, prompt, shown, last>>
      /\ UNCHANGED <<mode, phase, menu, keymap, dev, overlay>>
  BY DEF PressesE, EnterBrowse, ExitBrowse, bar, Layered, LayerTypes
<1>. QED BY <1>1 DEF Quiet, Layered, LayerTypes, ModeFits, DevFits, ChordFits

LEMMA OverlayKeys ==
  ASSUME Layered, prompt # NoPrompt, Careful,
         PressesQ \/ PressesEscape \/ SelectsDistrict
  PROVE  Quiet \/ Ended
<1>1. overlay \in Overlays /\ browse \in BOOLEAN
  BY DEF Layered, LayerTypes
<1>2. overlay # Closed => dev = NoDev
  BY DEF Layered, DevFits
<1>3. ASSUME overlay # Closed, ShowPrompt(prompt), UNCHANGED <<world, prompt, shown, dev, last>>
      PROVE  Quiet
  BY <1>2, <1>3, Shown DEF Quiet
<1>4. CASE PressesQ
  <2>1. CASE overlay.for = "view" /\ ShowPrompt(prompt)
    <3>1. overlay # Closed
      BY <2>1 DEF Closed
    <3>. QED BY <1>3, <1>4, <2>1, <3>1 DEF PressesQ
  <2>2. CASE /\ overlay = Closed /\ mode # "text" /\ dev = NoDev /\ chord = NoKey
             /\ OpenStockOverlay("view") /\ UNCHANGED <<phase, menu, keymap, chord, browse>>
    <3>1. /\ mode' = "stock_overlay" /\ overlay' \in Overlays /\ overlay' # Closed
          /\ overlay'.row = "nav" /\ UNCHANGED <<world, prompt, shown, dev, last>>
      BY <1>4, <2>2, Overlay DEF OpenStockOverlay, PressesQ
    <3>. QED BY <1>1, <2>2, <3>1
         DEF Quiet, Layered, LayerTypes, ModeFits, DevFits, ChordFits
  <2>. QED BY <1>4, <2>1, <2>2 DEF PressesQ
<1>5. CASE PressesEscape
  <2>1. ~browse /\ overlay # Closed
    BY <1>5 DEF PressesEscape
  <2>2. CASE /\ overlay.row = "quantity" /\ overlay' = [overlay EXCEPT !.row = "nav"]
             /\ phase' = 0 /\ mode' = "stock_overlay"
             /\ UNCHANGED <<world, prompt, shown, menu, keymap, dev, chord, browse, last>>
    <3>1. overlay' \in Overlays /\ overlay' # Closed /\ overlay'.row = "nav"
      BY <1>1, <2>1, <2>2 DEF Overlays, Closed
    <3>2. mode # "keypress"
      BY <2>1 DEF Layered, ModeFits
    <3>3. chord = NoKey
      BY <2>1, <3>2, NoneHeld
    <3>. QED BY <1>2, <2>1, <2>2, <3>1, <3>3
         DEF Quiet, Layered, LayerTypes, ModeFits, DevFits, ChordFits
  <2>3. CASE ShowPrompt(prompt) /\ UNCHANGED <<world, prompt, shown, dev, last>>
    BY <1>3, <2>1, <2>3
  <2>4. CASE Submit({})
    BY <2>1, <2>4 DEF Ended
  <2>. QED BY <1>5, <2>2, <2>3, <2>4 DEF PressesEscape
<1>6. CASE SelectsDistrict
  <2>1. /\ ~browse /\ overlay.row = "nav" /\ overlay.for \in {"buy", "sell"}
        /\ overlay' = [overlay EXCEPT !.row = "quantity"] /\ phase' = 1 /\ mode' = "text"
        /\ UNCHANGED <<world, prompt, shown, menu, keymap, dev, chord, browse, last>>
    BY <1>6 DEF SelectsDistrict
  <2>2. /\ overlay # Closed /\ overlay' \in Overlays /\ overlay' # Closed
        /\ overlay'.row = "quantity"
    BY <1>1, <2>1 DEF Overlays, Closed
  <2>3. mode # "keypress"
    BY <2>2 DEF Layered, ModeFits
  <2>4. chord = NoKey
    BY <2>1, <2>3, NoneHeld
  <2>. QED BY <1>2, <2>1, <2>2, <2>4
       DEF Quiet, Layered, LayerTypes, ModeFits, DevFits, ChordFits
<1>. QED BY <1>4, <1>5, <1>6

LEMMA ChordEnds ==
  ASSUME Layered, chord' = NoKey,
         UNCHANGED <<world, prompt, shown, bar, dev, browse, overlay, last>>
  PROVE  Quiet
<1>1. UNCHANGED <<mode, phase, menu, keymap>>
  BY DEF bar
<1>. QED BY <1>1 DEF Quiet, Layered, LayerTypes, ModeFits, DevFits, ChordFits

LEMMA Crossed ==
  ASSUME Layered, ~browse, mode = "keypress", NEW key, Goes(key, {OnCrossing})
  PROVE  Quiet \/ Ended
<1>1. CASE Submit({OnCrossing})
  BY <1>1 DEF Ended
<1>2. CASE chord' = NoKey
           /\ UNCHANGED <<world, prompt, shown, bar, dev, browse, overlay, last>>
  BY <1>2, ChordEnds
<1>. QED BY <1>1, <1>2 DEF Goes

LEMMA Held ==
  ASSUME Layered, prompt # NoPrompt, NEW k \in Directions, NEW typed, Holds(k, typed),
         IF browse THEN typed = OnBoard ELSE typed = OnCrossing /\ mode = "keypress"
  PROVE  Quiet
<1>1. /\ chord' = [key |-> k, typed |-> typed]
      /\ UNCHANGED <<world, prompt, shown, dev, browse, overlay, last>>
      /\ UNCHANGED <<mode, phase, menu, keymap>>
  BY DEF Holds, bar
<1>2. chord'.key \in Directions /\ chord'.typed = typed
  BY <1>1
<1>3. LayerTypes' /\ ModeFits' /\ DevFits'
  BY <1>1, <1>2 DEF Layered, LayerTypes, ModeFits, DevFits
<1>4. browse => mode # "text"
  BY DEF Layered, ModeFits
<1>5. ChordFits'
  BY <1>1, <1>2, <1>4 DEF ChordFits, OnCrossing
<1>. QED BY <1>1, <1>3, <1>5 DEF Quiet, Layered

LEMMA DirectionKeys ==
  ASSUME Layered, prompt # NoPrompt, NEW k \in Directions, PressesDirection(k)
  PROVE  Quiet \/ Ended
<1>1. CASE browse
  <2>1. Holds(k, OnBoard)
        \/ (chord' = NoKey
            /\ UNCHANGED <<world, prompt, shown, bar, dev, browse, overlay, last>>)
    BY <1>1 DEF PressesDirection
  <2>. QED BY <1>1, <2>1, Held, ChordEnds
<1>2. CASE ~browse
  <2>1. mode = "keypress"
    BY <1>2 DEF PressesDirection
  <2>2. CASE chord # NoKey
    <3>1. chord.typed = OnCrossing
      BY <1>2, <2>2 DEF Layered, ChordFits
    <3>2. {chord.typed, OnCrossing} = {OnCrossing}
      BY <3>1
    <3>3. Goes(Combo(chord.key, k), {OnCrossing}) \/ Goes(k, {OnCrossing})
      BY <1>2, <2>2, <3>2 DEF PressesDirection
    <3>. QED BY <1>2, <2>1, <3>3, Crossed
  <2>3. CASE chord = NoKey
    <3>1. Holds(k, OnCrossing) \/ Goes(k, {OnCrossing})
      BY <1>2, <2>3 DEF PressesDirection
    <3>. QED BY <1>2, <2>1, <3>1, Crossed, Held
  <2>. QED BY <2>2, <2>3
<1>. QED BY <1>1, <1>2

LEMMA ChordKeys ==
  ASSUME Layered, ChordTimesOut
  PROVE  Quiet \/ Ended
<1>1. CASE chord.typed = OnBoard
  BY <1>1, ChordEnds DEF ChordTimesOut
<1>2. CASE chord.typed # OnBoard
  <2>1. ~browse /\ chord.typed = OnCrossing /\ mode = "keypress"
    BY <1>2 DEF ChordTimesOut, Layered, ChordFits
  <2>. QED BY <1>2, <2>1, Crossed DEF ChordTimesOut
<1>. QED BY <1>1, <1>2

LEMMA AnswerKeys ==
  ASSUME ClaimsCell \/ PressesDigit
  PROVE  Ended
BY DEF ClaimsCell, PressesDigit, BarHasKeys, Ended

-----------------------------------------------------------------------------
(* The selection bar, the input line and the debug menus. *)

(* A menu, or the input line, in place of a menu or the input line. *)
LEMMA Listed ==
  ASSUME Layered, prompt # NoPrompt, ~browse, overlay = Closed, mode \in {"selection", "text"},
         UNCHANGED <<world, prompt, shown, last, chord, browse, overlay>>,
         phase' \in 0 .. 2, dev' \in Devs, dev' # NoDev => phase' = 0,
         \/ TextMode
         \/ /\ SelectionMode([n |-> prompt.n, phase |-> phase', dev |-> dev'])
            /\ phase' # 0 => phase' = 1 /\ prompt.kind = "CHOOSE_SHOP_SELL"
  PROVE  Quiet
<1>1. chord = NoKey
  BY NoneHeld
<1>2. LayerTypes'
  BY <1>1 DEF Layered, LayerTypes, TextMode, SelectionMode
<1>3. ModeFits'
  BY DEF ModeFits, TextMode, SelectionMode
<1>4. DevFits' /\ ChordFits'
  BY <1>1 DEF DevFits, ChordFits
<1>. QED BY <1>2, <1>3, <1>4 DEF Quiet, Layered

LEMMA DevOpened ==
  ASSUME Layered, prompt # NoPrompt, ~browse, overlay = Closed, mode \in {"selection", "text"},
         phase = 0, OpenDevMenu,
         UNCHANGED <<world, prompt, shown, last, phase, chord, browse, overlay>>
  PROVE  Quiet
<1>1. dev' = DevMenu /\ DevMenu \in Devs /\ phase' = 0 /\ phase' \in 0 .. 2
      /\ SelectionMode([n |-> prompt.n, phase |-> phase', dev |-> dev'])
  BY Overlay DEF OpenDevMenu
<1>. QED BY <1>1, Listed

LEMMA DevGoesOn ==
  ASSUME Layered, prompt # NoPrompt, ~browse, overlay = Closed, mode \in {"selection", "text"},
         phase = 0, dev.cmd \in DOMAIN Commands, dev \in Devs,
         NEW step \in Nat, DevNext(step),
         UNCHANGED <<world, prompt, shown, last, phase, chord, browse, overlay>>
  PROVE  Quiet
<1>1. CASE OpenDevMenu
  BY <1>1, DevOpened
<1>2. CASE ~(step > Len(Commands[dev.cmd]))
  <2> DEFINE at == [dev EXCEPT !.step = step]
  <2>1. at \in Devs
    BY DEF Devs, NoDev, DevMenu
  <2>2. dev' = at /\ (TextMode \/ SelectionMode([n |-> prompt.n, phase |-> phase, dev |-> at]))
    BY <1>2 DEF DevNext
  <2>3. phase' = 0 /\ phase' \in 0 .. 2 /\ dev' \in Devs
        /\ (TextMode \/ SelectionMode([n |-> prompt.n, phase |-> phase', dev |-> dev']))
    BY <2>1, <2>2
  <2>. QED BY <2>3, Listed
<1>. QED BY <1>1, <1>2 DEF DevNext

LEMMA Closes ==
  ASSUME ShowPrompt(prompt), dev' = NoDev, UNCHANGED <<world, prompt, shown, last>>
  PROVE  Quiet
BY Shown DEF Quiet

LEMMA OptionKeys ==
  ASSUME Layered, prompt # NoPrompt, NEW v, Confirms(v)
  PROVE  Quiet \/ Ended
<1>1. ~browse /\ overlay = Closed /\ mode = "selection" /\ v \in Options
  BY DEF Confirms, BarHasKeys
<1>2. /\ dev \in Devs /\ phase \in 0 .. 2 /\ (dev # NoDev => phase = 0)
      /\ menu.dev = dev /\ menu.phase = phase
      /\ phase # 0 => phase = 1 /\ prompt.kind = "CHOOSE_SHOP_SELL"
  BY <1>1 DEF Layered, LayerTypes, ModeFits, DevFits
<1>3. CASE dev # NoDev /\ OnDevSelection(v) /\ UNCHANGED <<world, prompt, shown, last>>
  <2>1. CASE LeaveDev
    BY <1>3, <2>1, Closes DEF LeaveDev
  <2>2. CASE /\ dev = DevMenu /\ v # "exit"
             /\ dev' = [cmd |-> v, step |-> 1]
             /\ IF v \in DOMAIN Commands
                THEN SelectionMode([n |-> prompt.n, phase |-> phase,
                                    dev |-> [cmd |-> v, step |-> 1]])
                ELSE UNCHANGED <<mode, menu, keymap>>
             /\ UNCHANGED <<phase, chord, browse, overlay>>
    <3>1. v \in DOMAIN Commands
      BY <1>1, <1>2, <1>3, <2>2 DEF Options
    <3>2. dev' \in Devs /\ dev' # NoDev
      BY <2>2, <3>1 DEF Devs, NoDev
    <3>3. SelectionMode([n |-> prompt.n, phase |-> phase', dev |-> dev'])
      BY <2>2, <3>1
    <3>4. phase' = 0 /\ phase' \in 0 .. 2
      BY <1>2, <1>3, <2>2
    <3>. QED BY <1>1, <1>3, <2>2, <3>2, <3>3, <3>4, Listed
  <2>3. CASE /\ dev.cmd \in DOMAIN Commands
             /\ \/ DevNext(dev.step + 1)
                \/ \E skipped \in {1, 2} : DevNext(2 + skipped)
             /\ UNCHANGED <<phase, chord, browse, overlay>>
    <3>1. dev.step + 1 \in Nat /\ \A skipped \in {1, 2} : 2 + skipped \in Nat
      BY <1>2 DEF Devs, NoDev, DevMenu
    <3>2. PICK step \in Nat : DevNext(step)
      BY <2>3, <3>1
    <3>. QED BY <1>1, <1>2, <1>3, <2>3, <3>2, DevGoesOn
  <2>. QED BY <1>3, <2>1, <2>2, <2>3 DEF OnDevSelection
<1>4. CASE Submit({})
  BY <1>1, <1>4 DEF Ended
<1>5. CASE dev = NoDev /\ ShowPrompt(prompt) /\ UNCHANGED <<world, prompt, shown, dev, last>>
  BY <1>5, Closes
<1>6. CASE /\ dev = NoDev /\ v = "dev" /\ OpenDevMenu
           /\ UNCHANGED <<world, prompt, shown, phase, chord, browse, overlay, last>>
  <2>1. prompt.kind = "PRE_ROLL"
    BY <1>1, <1>2, <1>6 DEF Options, PromptOptions
  <2>2. phase = 0
    BY <1>2, <2>1
  <2>. QED BY <1>1, <1>6, <2>2, DevOpened
<1>7. CASE /\ dev = NoDev /\ v = "more" /\ phase' = phase + 1
           /\ IF prompt.kind = "CHOOSE_SHOP_SELL" /\ phase = 0
              THEN SelectionMode([n |-> prompt.n, phase |-> 1, dev |-> NoDev]) ELSE TextMode
           /\ UNCHANGED <<world, prompt, shown, dev, chord, browse, overlay, last>>
  <2>1. phase' \in 0 .. 2 /\ dev' = NoDev /\ dev' \in Devs
    BY <1>2, <1>7
  <2>2. CASE prompt.kind = "CHOOSE_SHOP_SELL" /\ phase = 0
    <3>1. phase' = 1 /\ SelectionMode([n |-> prompt.n, phase |-> phase', dev |-> dev'])
      BY <1>7, <2>1, <2>2
    <3>. QED BY <1>1, <1>7, <2>1, <2>2, <3>1, Listed
  <2>3. CASE TextMode
    BY <1>1, <1>7, <2>1, <2>3, Listed
  <2>. QED BY <1>7, <2>2, <2>3
<1>. QED BY <1>3, <1>4, <1>5, <1>6, <1>7 DEF Confirms

LEMMA LineKeys ==
  ASSUME Layered, prompt # NoPrompt, PressesBackspace \/ \E t \in Inputs : Types(t)
  PROVE  Quiet \/ Ended
<1>1. dev \in Devs /\ (dev # NoDev => phase = 0 /\ overlay = Closed)
      /\ (mode = "text" => ~browse)
  BY DEF Layered, LayerTypes, ModeFits, DevFits
<1>2. CASE PressesBackspace
  <2>1. ~browse /\ overlay = Closed /\ mode = "selection"
    BY <1>2 DEF PressesBackspace, BarHasKeys
  <2>2. CASE LeaveDev /\ UNCHANGED <<world, prompt, shown, last>>
    BY <2>2, Closes DEF LeaveDev
  <2>3. CASE dev # NoDev /\ OpenDevMenu
             /\ UNCHANGED <<world, prompt, shown, phase, chord, browse, overlay, last>>
    BY <1>1, <2>1, <2>3, DevOpened
  <2>4. CASE Submit({})
    BY <2>1, <2>4 DEF Ended
  <2>. QED BY <1>2, <2>2, <2>3, <2>4 DEF PressesBackspace
<1>3. CASE \E t \in Inputs : Types(t)
  <2>1. PICK t \in Inputs : Types(t)
    BY <1>3
  <2>2. mode = "text" /\ ~browse
    BY <1>1, <2>1 DEF Types
  <2>3. CASE /\ dev # NoDev /\ dev.cmd \in DOMAIN Commands /\ DevNext(dev.step + 1)
             /\ UNCHANGED <<world, prompt, shown, phase, chord, browse, overlay, last>>
    <3>1. dev.step + 1 \in Nat
      BY <1>1 DEF Devs, NoDev, DevMenu
    <3>. QED BY <1>1, <2>2, <2>3, <3>1, DevGoesOn
  <2>4. CASE Submit({})
    BY <2>2, <2>4 DEF Ended
  <2>. QED BY <2>1, <2>3, <2>4 DEF Types
<1>. QED BY <1>2, <1>3

(* Every key acts on the prompt in hand, and leaves it or answers it. *)
Pressed ==
  \/ PressesE \/ PressesQ \/ PressesEscape \/ SelectsDistrict
  \/ \E k \in Directions : PressesDirection(k)
  \/ ChordTimesOut \/ ClaimsCell \/ PressesDigit
  \/ \E v \in Chosen : Confirms(v)
  \/ PressesBackspace
  \/ \E t \in Inputs : Types(t)

LEMMA KeyStep ==
  ASSUME Layers, Careful, Pressed
  PROVE  prompt # NoPrompt /\ Layered /\ (Quiet \/ Ended)
<1>1. prompt # NoPrompt
  BY DEF Pressed, PressesE, PressesQ, PressesEscape, SelectsDistrict, PressesDirection,
     ChordTimesOut, ClaimsCell, PressesDigit, Confirms, PressesBackspace, Types, Asked,
     BarHasKeys, Layers, Idle
<1>2. Layered
  BY <1>1 DEF Layers, Layered
<1>. QED BY <1>1, <1>2, BrowseKeys, OverlayKeys, DirectionKeys, ChordKeys, AnswerKeys,
     OptionKeys, LineKeys DEF Pressed

LEMMA InitHolds ==
  ASSUME ScreenAssumption, Init
  PROVE  TInv
<1>1. NoShow \in Offers /\ 0 \in 0 .. MaxAsks /\ NoShow.n = 0
  BY DEF ScreenAssumption, NoShow, Offers
<1>2. Threads
  BY <1>1 DEF Init, Threads, InboxOK
<1>3. Layers /\ Typing
  BY DEF Init, Layers, Idle, Typing
<1>. QED BY <1>2, <1>3 DEF TInv

LEMMA PressedHolds ==
  ASSUME TInv, Careful, Pressed
  PROVE  TInv'
<1>1. Threads /\ Typing /\ prompt # NoPrompt /\ Layered /\ (Quiet \/ Ended)
  BY KeyStep DEF TInv
<1>2. CASE Quiet
  <2>1. UNCHANGED <<world, prompt, shown, last>> /\ Layered'
    BY <1>2 DEF Quiet
  <2>2. Threads'
    BY <1>1, <2>1, ThreadsKept
  <2>3. Layers'
    BY <1>1, <2>1 DEF Layers, Layered
  <2>4. Typing'
    BY <1>1, <2>1 DEF Typing
  <2>. QED BY <2>2, <2>3, <2>4 DEF TInv
<1>3. CASE Ended
  <2>1. PICK keys : /\ Submit(keys) /\ ~browse
                    /\ keys = {} \/ (keys = {OnCrossing} /\ mode = "keypress")
    BY <1>3 DEF Ended
  <2>2. /\ last' = [n |-> prompt.n, keys |-> keys, mode |-> mode] /\ browse' = browse
        /\ prompt' = NoPrompt /\ phase' = 0 /\ dev' = NoDev /\ overlay' = Closed
        /\ mode' = "text" /\ chord' = NoKey
    BY <2>1 DEF Submit, ResetInputMode
  <2>3. Threads'
    BY <1>1, <2>1, ThreadsOfAnswer
  <2>4. Layers'
    <3>1. browse = FALSE
      BY <1>1, <2>1 DEF Layered, LayerTypes
    <3>. QED BY <2>2, <3>1 DEF Layers, Idle
  <2>5. Typing'
    BY <2>1, <2>2 DEF Typing, OnCrossing
  <2>. QED BY <2>3, <2>4, <2>5 DEF TInv
<1>. QED BY <1>1, <1>2, <1>3

LEMMA LayersKept ==
  ASSUME Layers, Typing, UNCHANGED <<prompt, bar, dev, chord, browse, overlay, last>>
  PROVE  Layers' /\ Typing'
<1>1. UNCHANGED <<mode, phase, menu, keymap>>
  BY DEF bar
<1>. QED BY <1>1 DEF Layers, Idle, LayerTypes, ModeFits, DevFits, ChordFits, Typing, OnCrossing

LEMMA GameHolds ==
  ASSUME ScreenAssumption, TInv,
         \/ GameAsks \/ Poll \/ GamePresents \/ OthersContinue \/ GameResolves \/ GameEnds
         \/ Continues
  PROVE  TInv'
<1>1. Threads'
  BY ThreadsOfGame, ThreadsOfContinue DEF TInv
<1>2. UNCHANGED <<prompt, bar, dev, chord, browse, overlay, last>>
  BY DEF GameAsks, Poll, GamePresents, OthersContinue, GameResolves, GameEnds, Continues
<1>. QED BY <1>1, <1>2, LayersKept DEF TInv

(* A message that opens something finds the screen idle. *)
LEMMA HandledHolds ==
  ASSUME ScreenAssumption, TInv,
         HandleInputReady \/ HandlePresentationReady \/ HandlePresentationResolved
         \/ HandleGameOver
  PROVE  TInv'
<1>1. Threads /\ Layers /\ Typing
  BY DEF TInv
<1>2. Threads'
  BY <1>1, ThreadsOfScreen
<1>3. Typing'
  <2>1. last' = last
    BY DEF HandleInputReady, HandlePresentationReady, HandlePresentationResolved,
       HandleGameOver, Handles
  <2>. QED BY <1>1, <2>1 DEF Typing
<1>4. Layers'
  <2>1. CASE HandleInputReady
    <3>1. PICK m \in Due : m.type = "InputReady" /\ News = m.of
      BY <1>1, <2>1, Opened DEF HandleInputReady
    <3>2. prompt = NoPrompt /\ News \in Asks
      BY <3>1 DEF Due
    <3>3. News # NoPrompt
      BY <3>2 DEF Asks, Questions, NoPrompt, ScreenAssumption
    <3>4. dev = NoDev
      BY <1>1, <3>2 DEF Layers, Idle
    <3>5. prompt' = News /\ ShowPrompt(News) /\ dev' = NoDev
      BY <2>1, <3>4 DEF HandleInputReady
    <3>6. Layered'
      BY <3>5, Shown
    <3>. QED BY <3>3, <3>5, <3>6 DEF Layers, Layered
  <2>2. CASE HandlePresentationReady
    <3>1. PICK m \in Due : m.type = "PresentationReady"
      BY <1>1, <2>2, Opened DEF HandlePresentationReady
    <3>2. game.pc = "presents"
      BY <3>1 DEF Due
    <3>3. prompt = NoPrompt
      BY <1>1, <3>2 DEF Threads
    <3>4. Idle
      BY <1>1, <3>3 DEF Layers
    <3>5. UNCHANGED <<prompt, phase, dev, browse, overlay>> /\ mode' = "text" /\ chord' = NoKey
      BY <2>2 DEF HandlePresentationReady, ResetInputMode
    <3>. QED BY <3>3, <3>4, <3>5 DEF Layers, Idle
  <2>3. CASE HandlePresentationResolved
    <3>1. UNCHANGED <<prompt, bar, dev, chord, browse, overlay, last>>
      BY <2>3 DEF HandlePresentationResolved, Handles
    <3>. QED BY <1>1, <3>1, LayersKept
  <2>4. CASE HandleGameOver
    <3>1. PICK m \in Due : m.type = "GameOver"
      BY <1>1, <2>4, Opened DEF HandleGameOver
    <3>2. game.pc = "over"
      BY <3>1 DEF Due
    <3>3. prompt = NoPrompt
      BY <1>1, <3>2 DEF Threads
    <3>4. UNCHANGED <<prompt, bar, dev, chord, browse, overlay, last>>
      BY <2>4, <3>3 DEF HandleGameOver, Handles
    <3>. QED BY <1>1, <3>4, LayersKept
  <2>. QED BY <2>1, <2>2, <2>3, <2>4
<1>. QED BY <1>2, <1>3, <1>4 DEF TInv

LEMMA StepHolds ==
  ASSUME ScreenAssumption, Careful, TInv, [Next]_vars
  PROVE  TInv'
<1>1. CASE UNCHANGED vars
  <2>1. UNCHANGED <<world, prompt, shown>>
        /\ UNCHANGED <<prompt, bar, dev, chord, browse, overlay, last>>
    BY <1>1 DEF vars
  <2>. QED BY <2>1, ThreadsKept, LayersKept DEF TInv
<1>2. CASE Next
  BY <1>2, GameHolds, HandledHolds, PressedHolds DEF Next, Pressed
<1>. QED BY <1>1, <1>2

LEMMA Inductive ==
  ASSUME Careful
  PROVE  Spec => []TInv
<1>1. Init => TInv
  BY InitHolds, ScreenAssumption
<1>2. TInv /\ [Next]_vars => TInv'
  BY StepHolds, ScreenAssumption
<1>. QED BY <1>1, <1>2, PTL DEF Spec

-----------------------------------------------------------------------------
(* The theorems. *)

(* What is on the screen belongs to the prompt in hand: what the selection *)
(* bar lists is what its keys are taken for, and an answered prompt leaves *)
(* no layer, chord, debug command or mode behind.  This holds for a player *)
(* who does not open the stock overlay over a debug menu or a held key;    *)
(* for one who does, on_key's "q" leaves the debug command behind.         *)
THEOREM ScreenMatches ==
  ASSUME Careful
  PROVE  Spec => []ScreenMatchesPrompt
<1>1. TInv => ScreenMatchesPrompt
  <2> SUFFICES ASSUME TInv PROVE ScreenMatchesPrompt
    OBVIOUS
  <2>1. Threads /\ Layers
    BY DEF TInv
  <2>2. prompt = NoPrompt => Idle
    BY <2>1 DEF Layers
  <2>3. prompt # NoPrompt => LayerTypes /\ ModeFits
    BY <2>1 DEF Layers
  <2>4. Len(inbox) <= 2
    <3>1. CASE inbox = <<>>
      BY <3>1
    <3>2. CASE \E m \in Due \cup Resolveds : inbox = <<m>>
      <4>1. PICK m \in Due \cup Resolveds : inbox = <<m>>
        BY <3>2
      <4>. QED BY <4>1, Tuples
    <3>3. CASE \E r \in Resolveds, m \in Due : inbox = <<r, m>>
      <4>1. PICK r \in Resolveds, m \in Due : inbox = <<r, m>>
        BY <3>3
      <4>. QED BY <4>1, Tuples
    <3>. QED BY <2>1, <3>1, <3>2, <3>3 DEF Threads, InboxOK
  <2>5. prompt.kind \in Kinds \cup {"none"} /\ request.kind \in Kinds \cup {"none"}
    <3>1. NoPrompt.kind = "none"
      BY DEF NoPrompt
    <3>. QED BY <2>1, <3>1 DEF Threads, Asks
  <2>6. \A d \in Devs : d.cmd \in DOMAIN Commands \cup {"none", "menu"}
    BY DEF Devs, NoDev, DevMenu
  <2>7. \A o \in Overlays : o.for \in {"none", "view", "buy", "sell"}
                            /\ o.row \in {"nav", "quantity"}
    BY DEF Overlays, Closed
  <2>8. /\ browse \in BOOLEAN
        /\ mode \in {"text", "keypress", "selection", "stock_overlay"} /\ phase \in 0 .. 2
    <3>1. CASE prompt # NoPrompt
      BY <2>3, <3>1 DEF LayerTypes
    <3>2. CASE prompt = NoPrompt
      <4>1. mode = "text" /\ phase = 0 /\ browse = FALSE
        BY <2>2, <3>2 DEF Idle
      <4>2. browse \in BOOLEAN
        BY <4>1
      <4>. QED BY <4>1, <4>2
    <3>. QED BY <3>1, <3>2
  <2>9. dev \in Devs /\ overlay \in Overlays /\ (chord.key \in Directions \cup {"none"})
    <3>1. CASE prompt # NoPrompt
      BY <2>3, <3>1 DEF LayerTypes, NoKey
    <3>2. CASE prompt = NoPrompt
      BY <2>2, <3>2, Overlay DEF Idle, NoKey
    <3>. QED BY <3>1, <3>2
  <2>10. TypeOK
    BY <2>1, <2>4, <2>5, <2>6, <2>7, <2>8, <2>9 DEF Threads, TypeOK
  <2>11. mode = "selection" => menu = [n |-> prompt.n, phase |-> phase, dev |-> dev]
    BY <2>2, <2>3 DEF ModeFits, Idle
  <2>. QED BY <2>2, <2>10, <2>11 DEF ScreenMatchesPrompt, Idle
<1>. QED BY <1>1, Inductive, PTL

-----------------------------------------------------------------------------
(***************************************************************************)
(* The keys of a crossing.  compute_direction_keys gives the ways numbers  *)
(* from 1; what it has given before way i is a map with the ways before i  *)
(* and those that have a direction to themselves.  Four of the keys a way  *)
(* may fall back on are the cardinals, and fewer than four ways have been  *)
(* given a key before the last of four: one of them is free.               *)
(***************************************************************************)
(* Every set of numbers that has any has a least one. *)
LEMMA LeastOf ==
  ASSUME NEW S \in SUBSET Nat, S # {}
  PROVE  \E x \in S : \A y \in S : x <= y
<1>1. PICK x \in S : \A y \in S : <<y, x>> \notin OpToRel(<, Nat)
  BY NatLessThanWellFounded, WFMin
<1>2. \A y \in S : ~(y < x)
  BY <1>1 DEF OpToRel
<1>. QED BY <1>2

(* The map gives these ways one key each. *)
Given(map, numbers) ==
  /\ map = [k \in DOMAIN map |-> map[k]] /\ Range(map) = numbers
  /\ \A k, l \in DOMAIN map : map[k] = map[l] => k = l

Cardinals == {"w", "a", "s", "d"}

(* The four cardinal keys are among the stand-ins of every key. *)
LEMMA CardinalsStandIn ==
  ASSUME NEW key
  PROVE  /\ DOMAIN StandIns(key) \subseteq Nat
         /\ \A c \in Cardinals : \E n \in DOMAIN StandIns(key) : StandIns(key)[n] = c
<1> DEFINE wasd == <<"w", "a", "s", "d">>
<1>1. \A c \in Cardinals : \E n \in 1 .. 4 : wasd[n] = c
  <2>1. wasd[1] = "w" /\ wasd[2] = "a" /\ wasd[3] = "s" /\ wasd[4] = "d"
    OBVIOUS
  <2>. QED BY <2>1 DEF Cardinals
<1>2. ASSUME NEW own, own \in Seq(Cardinals)
      PROVE  /\ DOMAIN (own \o wasd) \subseteq Nat
             /\ \A c \in Cardinals : \E n \in DOMAIN (own \o wasd) : (own \o wasd)[n] = c
  <2>1. wasd \in Seq(Cardinals)
    BY DEF Cardinals
  <2>2. Len(wasd) = 4
    OBVIOUS
  <2> HIDE DEF wasd
  <2>3. PICK l \in Nat : l = Len(own)
    BY <1>2
  <2> DEFINE both == own \o wasd
  <2>4. both \in Seq(Cardinals) /\ Len(both) = l + 4
    <3>1. both \in Seq(Cardinals) /\ Len(both) = Len(own) + Len(wasd)
      BY <1>2, <2>1, ConcatProperties
    <3> HIDE DEF both
    <3>. QED BY <2>2, <2>3, <3>1
  <2>5. \A n \in 1 .. l + 4 : both[n] = IF n <= l THEN own[n] ELSE wasd[n - l]
    <3>1. \A n \in 1 .. Len(own) + Len(wasd) :
            both[n] = IF n <= Len(own) THEN own[n] ELSE wasd[n - Len(own)]
      BY <1>2, <2>1, ConcatProperties
    <3> HIDE DEF both
    <3>. QED BY <2>2, <2>3, <3>1
  <2> HIDE DEF both
  <2>6. DOMAIN both = 1 .. l + 4
    BY <2>3, <2>4
  <2>7. \A n \in 1 .. 4 : l + n \in DOMAIN both /\ both[l + n] = wasd[n]
    BY <2>3, <2>5, <2>6
  <2>8. \A c \in Cardinals : \E n \in DOMAIN both : both[n] = c
    BY <1>1, <2>7
  <2>9. DOMAIN both \subseteq Nat
    BY <2>6
  <2>. QED BY <2>8, <2>9 DEF both
<1>3. CASE key \in DOMAIN Fallbacks
  <2>1. Fallbacks[key] \in Seq(Cardinals)
    <3>1. key \in {"sd", "as", "wa", "dw"}
      BY <1>3 DEF Fallbacks
    <3>2. /\ Fallbacks["sd"] = <<"s", "d">> /\ Fallbacks["as"] = <<"a", "s">>
          /\ Fallbacks["wa"] = <<"w", "a">> /\ Fallbacks["dw"] = <<"d", "w">>
      BY DEF Fallbacks
    <3>3. \A c, e \in Cardinals : <<c, e>> \in Seq(Cardinals)
      OBVIOUS
    <3>4. {"w", "a", "s", "d"} = Cardinals
      BY DEF Cardinals
    <3>. QED BY <3>1, <3>2, <3>3, <3>4
  <2>2. StandIns(key) = Fallbacks[key] \o wasd
    BY <1>3 DEF StandIns
  <2> HIDE DEF wasd
  <2>. QED BY <1>2, <2>1, <2>2
<1>4. CASE key \notin DOMAIN Fallbacks
  <2>1. <<>> \in Seq(Cardinals)
    OBVIOUS
  <2>2. StandIns(key) = <<>> \o wasd
    BY <1>4 DEF StandIns
  <2> HIDE DEF wasd
  <2>. QED BY <1>2, <2>1, <2>2
<1>. QED BY <1>3, <1>4

(* With four ways at most, one that conflicts finds a stand-in. *)
LEMMA StandInFound ==
  ASSUME NEW n \in 0 .. 4, NEW i \in 1 .. n, NEW given \in SUBSET ((1 .. n) \ {i}),
         NEW map, Given(map, given), NEW key
  PROVE  Given(TryAssign(map, i, key), given \cup {i})
<1> DEFINE free == {m \in DOMAIN StandIns(key) : StandIns(key)[m] \notin DOMAIN map}
           taken == StandIns(key)[Min(free)]
           more == [k \in DOMAIN map \cup {taken} |-> IF k = taken THEN i ELSE map[k]]
<1>1. free # {}
  <2> SUFFICES ASSUME free = {} PROVE FALSE
    OBVIOUS
  <2>1. \A c \in Cardinals : c \in DOMAIN map
    BY CardinalsStandIn
  <2>2. map["w"] \in given /\ map["a"] \in given /\ map["s"] \in given /\ map["d"] \in given
    BY <2>1 DEF Cardinals, Given, Range
  <2>3. /\ map["w"] # map["a"] /\ map["w"] # map["s"] /\ map["w"] # map["d"]
        /\ map["a"] # map["s"] /\ map["a"] # map["d"] /\ map["s"] # map["d"]
    BY <2>1 DEF Cardinals, Given
  <2>4. \A m \in given : m \in 1 .. 4 /\ m # i
    OBVIOUS
  <2>5. i \in 1 .. 4
    OBVIOUS
  <2> DEFINE w == map["w"]  a == map["a"]  s == map["s"]  d == map["d"]
  <2>6. w \in 1 .. 4 /\ a \in 1 .. 4 /\ s \in 1 .. 4 /\ d \in 1 .. 4
    BY <2>2, <2>4
  <2>7. w # i /\ a # i /\ s # i /\ d # i
    BY <2>2, <2>4
  <2> HIDE DEF w, a, s, d
  <2>8. w # a /\ w # s /\ w # d /\ a # s /\ a # d /\ s # d
    BY <2>3 DEF w, a, s, d
  <2>. QED BY <2>5, <2>6, <2>7, <2>8
<1>2. Min(free) \in free
  <2>1. free \in SUBSET Nat
    BY CardinalsStandIn
  <2>2. \E x \in free : \A y \in free : x <= y
    <3> HIDE DEF free
    <3>. QED BY <1>1, <2>1, LeastOf
  <2>. QED BY <2>2 DEF Min
<1>3. taken \notin DOMAIN map
  BY <1>2
<1>4. TryAssign(map, i, key) = more
  BY <1>1 DEF TryAssign
<1> HIDE DEF free, taken
<1>5. DOMAIN more = DOMAIN map \cup {taken} /\ more[taken] = i
      /\ \A k \in DOMAIN map : more[k] = map[k]
  BY <1>3
<1>6. \A k \in DOMAIN map : map[k] \in given /\ map[k] # i
  BY DEF Given, Range
<1>7. more = [k \in DOMAIN more |-> more[k]]
  OBVIOUS
<1> HIDE DEF more
<1>8. Range(more) = given \cup {i}
  BY <1>5 DEF Given, Range
<1>9. \A k, l \in DOMAIN more : more[k] = more[l] => k = l
  BY <1>5, <1>6 DEF Given
<1>. QED BY <1>4, <1>7, <1>8, <1>9 DEF Given

(* The first pass gives each way without a conflict its own direction. *)
LEMMA FirstsHaveTheirKeys ==
  ASSUME NEW n \in Nat, NEW ideal, DOMAIN ideal = 1 .. n
  PROVE  Given(FirstPass(ideal), {i \in 1 .. n : ~Conflicts(ideal, i)})
<1> DEFINE F == FirstPass(ideal)
<1>1. ASSUME NEW k \in Range(ideal)
      PROVE  F[k] \in 1 .. n /\ ideal[F[k]] = k /\ ~Conflicts(ideal, F[k])
  <2> DEFINE S == {i \in 1 .. n : ideal[i] = k}
  <2>1. S \in SUBSET Nat /\ S # {}
    BY DEF Range
  <2> HIDE DEF S
  <2>2. PICK i \in S : \A j \in S : i <= j
    BY <2>1, LeastOf
  <2> USE DEF S
  <2>3. i \in 1 .. n /\ ideal[i] = k /\ ~Conflicts(ideal, i)
    BY <2>2 DEF Conflicts
  <2>4. F[k] = CHOOSE j \in DOMAIN ideal : ideal[j] = k /\ ~Conflicts(ideal, j)
    BY DEF FirstPass
  <2>. QED BY <2>3, <2>4
<1>2. DOMAIN F = Range(ideal) /\ F = [k \in DOMAIN F |-> F[k]]
  BY DEF FirstPass
<1> HIDE DEF F
<1>3. \A k, l \in DOMAIN F : F[k] = F[l] => k = l
  BY <1>1, <1>2
<1>4. ASSUME NEW i \in 1 .. n, ~Conflicts(ideal, i) PROVE i \in Range(F)
  <2>1. ideal[i] \in Range(ideal)
    BY DEF Range
  <2>2. PICK j \in 1 .. n : j = F[ideal[i]] /\ ideal[j] = ideal[i] /\ ~Conflicts(ideal, j)
    BY <1>1, <2>1
  <2>3. ~(j < i) /\ ~(i < j)
    BY <1>4, <2>2 DEF Conflicts
  <2>4. j = i
    BY <2>3
  <2>. QED BY <1>2, <2>1, <2>2, <2>4 DEF Range
<1>5. \A i \in Range(F) : i \in 1 .. n /\ ~Conflicts(ideal, i)
  BY <1>1, <1>2 DEF Range
<1>6. Range(F) = {i \in 1 .. n : ~Conflicts(ideal, i)}
  BY <1>4, <1>5
<1>. QED BY <1>2, <1>3, <1>6 DEF Given, F

(* The recursive function of Assigned, which can be written down for four. *)
Passes(ideal, n, f) ==
  f = [i \in 0 .. n |->
         IF i = 0 THEN FirstPass(ideal)
         ELSE IF Conflicts(ideal, i) THEN TryAssign(f[i - 1], i, ideal[i]) ELSE f[i - 1]]

LEMMA PassesExist ==
  ASSUME NEW n \in 0 .. 4, NEW ideal
  PROVE  \E f : Passes(ideal, n, f)
<1> DEFINE then(map, i) == IF Conflicts(ideal, i) THEN TryAssign(map, i, ideal[i]) ELSE map
           m0 == FirstPass(ideal)
           m1 == then(m0, 1)
           m2 == then(m1, 2)
           m3 == then(m2, 3)
           m4 == then(m3, 4)
           f == [i \in 0 .. n |-> IF i = 0 THEN m0 ELSE IF i = 1 THEN m1 ELSE
                                   IF i = 2 THEN m2 ELSE IF i = 3 THEN m3 ELSE m4]
<1>1. \A i \in 0 .. n : i \in {0, 1, 2, 3, 4} /\ (i # 0 => i - 1 \in 0 .. n)
  OBVIOUS
<1>2. /\ f[0] = m0 /\ (1 \in 0 .. n => f[1] = m1) /\ (2 \in 0 .. n => f[2] = m2)
      /\ (3 \in 0 .. n => f[3] = m3) /\ (4 \in 0 .. n => f[4] = m4)
  <2> HIDE DEF m0, m1, m2, m3, m4
  <2>. QED OBVIOUS
<1>3. ASSUME NEW i \in 0 .. n, i # 0 PROVE f[i] = then(f[i - 1], i)
  <2> HIDE DEF f, then, m0
  <2>1. 1 - 1 = 0 /\ 2 - 1 = 1 /\ 3 - 1 = 2 /\ 4 - 1 = 3
    OBVIOUS
  <2>2. CASE i = 1
    BY <1>1, <1>2, <1>3, <2>1, <2>2
  <2>3. CASE i = 2
    BY <1>1, <1>2, <1>3, <2>1, <2>3
  <2>4. CASE i = 3
    BY <1>1, <1>2, <1>3, <2>1, <2>4
  <2>5. CASE i = 4
    BY <1>1, <1>2, <1>3, <2>1, <2>5
  <2>. QED BY <1>1, <1>3, <2>2, <2>3, <2>4, <2>5
<1>4. f = [i \in 0 .. n |-> IF i = 0 THEN m0 ELSE then(f[i - 1], i)]
  <2>1. f = [i \in 0 .. n |-> f[i]]
    OBVIOUS
  <2>2. 0 \in 0 .. n
    OBVIOUS
  <2> HIDE DEF f, then, m0
  <2>. QED BY <1>2, <1>3, <2>1, <2>2
<1>. QED BY <1>4 DEF Passes

(* Four ways at most, and each has a key of its own. *)
LEMMA EveryWayHasAKey ==
  ASSUME NEW n \in 0 .. 4, NEW w, Len(w) = n, DOMAIN w = 1 .. n
  PROVE  Range(Assigned(w)) = DOMAIN w
<1> DEFINE ideal == [i \in DOMAIN w |-> Closest(w[i])]
           f == CHOOSE g : Passes(ideal, n, g)
           done(i) == {j \in 1 .. n : j <= i \/ ~Conflicts(ideal, j)}
<1>1. Passes(ideal, n, f)
  BY PassesExist
<1>2. Assigned(w) = f[n]
  BY DEF Assigned, Passes
<1>3. DOMAIN ideal = 1 .. n
  OBVIOUS
<1> HIDE DEF ideal, f
<1>4. Given(f[0], done(0))
  <2>1. f[0] = FirstPass(ideal)
    BY <1>1 DEF Passes
  <2>2. done(0) = {j \in 1 .. n : ~Conflicts(ideal, j)}
    OBVIOUS
  <2>3. n \in Nat
    OBVIOUS
  <2>. QED BY <1>3, <2>1, <2>2, <2>3, FirstsHaveTheirKeys
<1>5. ASSUME NEW i \in 1 .. n, Given(f[i - 1], done(i - 1)) PROVE Given(f[i], done(i))
  <2>1. f[i] = IF Conflicts(ideal, i) THEN TryAssign(f[i - 1], i, ideal[i]) ELSE f[i - 1]
    BY <1>1 DEF Passes
  <2>2. CASE Conflicts(ideal, i)
    <3>1. done(i - 1) \in SUBSET ((1 .. n) \ {i})
      BY <2>2
    <3>2. done(i) = done(i - 1) \cup {i}
      OBVIOUS
    <3> HIDE DEF done
    <3>. QED BY <1>5, <2>1, <2>2, <3>1, <3>2, StandInFound
  <2>3. CASE ~Conflicts(ideal, i)
    <3>1. done(i) = done(i - 1)
      BY <2>3
    <3> HIDE DEF done
    <3>. QED BY <1>5, <2>1, <2>3, <3>1
  <2>. QED BY <2>2, <2>3
<1>6. \A i \in 0 .. n : Given(f[i], done(i))
  <2> DEFINE G(i) == Given(f[i], done(i))
  <2>1. \A i \in 1 .. n : G(i - 1) => G(i)
    BY <1>5
  <2>2. G(0)
    BY <1>4
  <2> HIDE DEF G
  <2>3. 1 \in 1 .. n => G(1)
    BY <2>1, <2>2
  <2>4. 2 \in 1 .. n => G(2)
    BY <2>1, <2>3
  <2>5. 3 \in 1 .. n => G(3)
    BY <2>1, <2>4
  <2>6. 4 \in 1 .. n => G(4)
    BY <2>1, <2>5
  <2>7. \A i \in 0 .. n : i = 0 \/ i = 1 \/ i = 2 \/ i = 3 \/ i = 4
    OBVIOUS
  <2>8. \A i \in 0 .. n : G(i)
    BY <2>2, <2>3, <2>4, <2>5, <2>6, <2>7
  <2>. QED BY <2>8 DEF G
<1>7. Given(f[n], done(n))
  <2>1. n \in 0 .. n
    OBVIOUS
  <2> HIDE DEF done
  <2>. QED BY <1>6, <2>1
<1>8. done(n) = 1 .. n
  OBVIOUS
<1>. QED BY <1>2, <1>7, <1>8 DEF Given

-----------------------------------------------------------------------------
(* A way is chosen by keys that were typed for this prompt, with nothing   *)
(* over its own keyboard; and where there are four ways at most, as on     *)
(* every board of the repository, the keys at a crossing lead to each of   *)
(* them and nowhere else, whatever the player opened over it and closed.   *)
THEOREM KeysInMode ==
  ASSUME Careful, \A w \in Crossings : Len(w) <= 4
  PROVE  Spec => []KeysActInTheirMode
<1>1. TInv => KeysActInTheirMode
  <2> SUFFICES ASSUME TInv PROVE KeysActInTheirMode
    OBVIOUS
  <2>1. Threads /\ Layers /\ Typing
    BY DEF TInv
  <2>2. mode = "keypress" /\ prompt.kind = "CHOOSE_PATH" => Range(keymap) = DOMAIN prompt.ways
    <3> SUFFICES ASSUME mode = "keypress", prompt.kind = "CHOOSE_PATH"
                 PROVE  Range(keymap) = DOMAIN prompt.ways
      OBVIOUS
    <3>1. prompt # NoPrompt
      BY DEF NoPrompt
    <3>2. prompt.ways \in Crossings
      BY <2>1, <3>1 DEF Threads, Asks
    <3>3. keymap = Assigned(prompt.ways)
      BY <2>1, <3>1 DEF Layers, ModeFits
    <3>4. prompt.ways \in Seq(Int \X Int) /\ Len(prompt.ways) <= 4
      BY <3>2, ScreenAssumption
    <3>5. PICK n \in Nat : n = Len(prompt.ways)
      BY <3>4
    <3>6. DOMAIN prompt.ways = 1 .. n
      BY <3>4, <3>5
    <3>7. n <= 4
      BY <3>4, <3>5
    <3>8. \A m \in Nat : m <= 4 => m \in 0 .. 4
      OBVIOUS
    <3>9. n \in 0 .. 4
      BY <3>7, <3>8
    <3>. QED BY <3>3, <3>5, <3>6, <3>9, EveryWayHasAKey
  <2>. QED BY <2>1, <2>2 DEF KeysActInTheirMode, Typing
<1>. QED BY <1>1, Inductive, PTL

=============================================================================
