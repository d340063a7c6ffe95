--------------------------- MODULE SessionsProofs ---------------------------
(***************************************************************************)
(* Proofs about module Sessions: what its two tables of seats say, who may *)
(* take a seat, and when a session is forgotten, for any number of         *)
(* connections and of sessions of any sizes.                               *)
(***************************************************************************)
EXTENDS Sessions, FiniteSetTheorems, TLAPS

Session == [phase : Phases, players : Nat, humans : Nat, ai : Nat,
            spawned : BOOLEAN, host : Browsers \cup {None}]

(* Every player of a session has a number, and is a person or an AI. *)
Sized(r) == r.humans + r.ai = r.players /\ 0 .. r.players - 1 \subseteq Pids

(* The two tables agree, in a session that is gone too, and a seat comes   *)
(* with the binding that its socket's finally clause will need.            *)
Agree ==
  \A s \in Sessions, p \in Pids, c \in Conns :
    /\ holder[s][p] = c <=> <<s, p>> \in held[c]
    /\ <<s, p>> \in held[c] => s \in bound[c]

SeatsOK ==
  /\ holder \in [Sessions -> [Pids -> Conns \cup {None}]]
  /\ held \in [Conns -> SUBSET AIs]
  /\ bound \in [Conns -> SUBSET Sessions]
  /\ Agree

SessionsOK == session \in [Sessions -> Session] /\ \A s \in Sessions : Sized(session[s])

AtOK == at \in [Conns -> [pc : Places, in : Sessions]]

SetsOK == up \subseteq Conns /\ procs \subseteq AIs /\ forced \subseteq Sessions

Inv == SeatsOK /\ SessionsOK /\ AtOK /\ SetsOK

-----------------------------------------------------------------------------
(* A socket that is given a seat nobody has keeps the tables in agreement. *)
LEMMA SeatAgrees ==
  ASSUME SeatsOK, NEW c \in Conns, NEW s \in Sessions, NEW p \in Pids,
         holder[s][p] = None, Seat(c, s, p)
  PROVE  SeatsOK'
<1>1. /\ holder' \in [Sessions -> [Pids -> Conns \cup {None}]]
      /\ held' \in [Conns -> SUBSET AIs]
      /\ bound' \in [Conns -> SUBSET Sessions]
  BY DEF SeatsOK, Seat, AIs
<1>2. None \notin Conns
  BY NoneAssumption DEF Conns
<1>3. ASSUME NEW t \in Sessions, NEW q \in Pids, NEW d \in Conns
      PROVE  /\ holder'[t][q] = d <=> <<t, q>> \in held'[d]
             /\ <<t, q>> \in held'[d] => t \in bound'[d]
  BY <1>2 DEF SeatsOK, Seat, Agree
<1>. QED BY <1>1, <1>3 DEF SeatsOK, Agree

(* Open slots are numbers of players, and no more than the people. *)
LEMMA OpenSlotsBounded ==
  ASSUME NEW s \in Sessions, session[s] \in Session, Sized(session[s])
  PROVE  OpenSlots(s) \subseteq Pids /\ Cardinality(OpenSlots(s)) \in 0 .. session[s].humans
<1>1. HumanSlots(s) \subseteq Pids /\ OpenSlots(s) \subseteq HumanSlots(s)
  BY DEF Session, Sized, HumanSlots, OpenSlots
<1>2. IsFiniteSet(HumanSlots(s)) /\ Cardinality(HumanSlots(s)) = session[s].humans
  <2> DEFINE n == session[s].humans
             b == n - 1
  <2>1. n \in Nat /\ b \in Int /\ HumanSlots(s) = 0 .. b
    BY DEF Session, HumanSlots
  <2> HIDE DEF b
  <2>2. IsFiniteSet(0 .. b) /\ Cardinality(0 .. b) = IF 0 > b THEN 0 ELSE b - 0 + 1
    BY <2>1, FS_Interval, 0 \in Int, Zenon
  <2>. QED BY <2>1, <2>2 DEF b
<1>3. Cardinality(OpenSlots(s)) \in Nat /\ Cardinality(OpenSlots(s)) <= session[s].humans
  BY <1>1, <1>2, FS_Subset, FS_CardinalityType
<1>. QED BY <1>1, <1>3 DEF Session

(* The check of a session's progress keeps its size, and names processes   *)
(* of its own AIs.                                                         *)
LEMMA ProgressSized ==
  ASSUME Inv, NEW s \in Sessions, NEW r \in Session, Sized(r), NEW h, Progress(s, r, h)
  PROVE  SessionsOK' /\ procs' \subseteq AIs
<1> DEFINE r1 == [r EXCEPT !.spawned = @ \/ SpawnsNow(r, Seated(h, s)),
                          !.phase = IF @ = "waiting" /\ Cardinality(Seated(h, s)) >= r.players
                                    THEN "playing" ELSE @]
<1>1. /\ session' = [session EXCEPT ![s] = r1]
      /\ r1 \in Session /\ r1.humans = r.humans /\ r1.ai = r.ai /\ r1.players = r.players
  BY DEF Progress, Session, Phases, SpawnsNow
<1> HIDE DEF r1
<1>2. SessionsOK /\ procs \subseteq AIs
  BY DEF Inv, SetsOK
<1>3. SessionsOK'
  BY <1>1, <1>2 DEF SessionsOK, Sized
<1>4. \A p \in r.humans .. r.humans + r.ai - 1 : <<s, p>> \in AIs
  BY DEF Sized, AIs, Session
<1>5. procs' \subseteq AIs
  BY <1>2, <1>4 DEF Progress
<1>. QED BY <1>3, <1>5

-----------------------------------------------------------------------------
LEMMA InitInv == Init => Inv
<1>. SUFFICES ASSUME Init PROVE Inv  OBVIOUS
<1>1. PICK default \in {Fresh(g) : g \in Local} \cup (IF Lobby THEN {Absent} ELSE {}) :
        LET spawns == default.phase # "none" /\ SpawnsNow(default, {})
        IN /\ session = [s \in Sessions |->
                           IF s = 0 THEN [default EXCEPT !.spawned = spawns] ELSE Absent]
           /\ procs = {<<0, p>> : p \in IF spawns THEN 0 .. default.ai - 1 ELSE {}}
  BY DEF Init
<1>2. \A g \in Local : Fresh(g) \in Session /\ Sized(Fresh(g))
  BY SettingsAssumption DEF Fresh, Session, Sized, Phases, Pids
<1>3. Absent \in Session /\ Sized(Absent)
  BY DEF Absent, Session, Sized, Phases
<1>4. default \in Session /\ Sized(default)
  BY <1>2, <1>3
<1>5. SessionsOK
  BY <1>1, <1>3, <1>4 DEF SessionsOK, Session, Sized, SpawnsNow
<1>6. 0 \in Sessions
  BY BoundsAssumption DEF Sessions
<1>7. \A p \in 0 .. default.ai - 1 : p \in Pids
  BY <1>4 DEF Sized, Session
<1>8. procs \subseteq AIs
  BY <1>1, <1>6, <1>7 DEF AIs
<1>9. None \notin Conns
  BY NoneAssumption DEF Conns
<1>10. SeatsOK
  BY <1>9 DEF Init, SeatsOK, Agree
<1>11. SetsOK /\ AtOK
  BY <1>6, <1>8 DEF Init, SetsOK, AtOK, Places
<1>. QED BY <1>5, <1>10, <1>11 DEF Inv

-----------------------------------------------------------------------------
(* What moving on, and leaving the seats or the sessions alone, preserve. *)
LEMMA GoOK ==
  ASSUME AtOK, NEW c \in Conns, NEW pc \in Places, NEW s \in Sessions, Go(c, pc, s)
  PROVE  AtOK'
BY DEF AtOK, Go

LEMMA DefaultSession == 0 \in Sessions
BY BoundsAssumption DEF Sessions

LEMMA SeatsSame == SeatsOK /\ UNCHANGED seats => SeatsOK'
BY DEF SeatsOK, Agree, seats

LEMMA SessionsSame == SessionsOK /\ UNCHANGED session => SessionsOK'
BY DEF SessionsOK

(* The sockets that are given the first open slot. *)
LEMMA AssignHumanAgrees ==
  ASSUME Inv, NEW c \in Conns, NEW s \in Sessions, AssignHuman(c, s)
  PROVE  SeatsOK'
<1>1. PICK p \in OpenSlots(s) : Seat(c, s, p)
  BY DEF AssignHuman
<1>2. session[s] \in Session /\ Sized(session[s])
  BY DEF Inv, SessionsOK
<1>3. p \in Pids /\ holder[s][p] = None
  BY <1>2, OpenSlotsBounded DEF OpenSlots
<1>. QED BY <1>1, <1>3, SeatAgrees DEF Inv

-----------------------------------------------------------------------------
(* One lemma for each family of actions. *)

LEMMA ArriveInv == ASSUME Inv, NEW c \in Conns, Arrive(c) PROVE Inv'
<1>1. SeatsOK'
  BY DefaultSession, AssignHumanAgrees, SeatsSame DEF Inv, Arrive
<1>2. AtOK'
  BY DefaultSession, GoOK DEF Inv, Arrive, Places
<1>3. SetsOK'
  BY DEF Inv, SetsOK, Arrive
<1>. QED BY <1>1, <1>2, <1>3, SessionsSame DEF Inv, Arrive

LEMMA CreatedInv == ASSUME Inv, NEW c \in Conns, Created(c) PROVE Inv'
<1>1. at[c].in \in Sessions
  BY DEF Inv, AtOK
<1>2. SeatsOK'
  BY <1>1, AssignHumanAgrees, SeatsSame DEF Inv, Created
<1>3. AtOK'
  <2>1. Go(c, "assigned", at[c].in) \/ Go(c, "loop", 0)
    BY DEF Created
  <2>2. "assigned" \in Places /\ "loop" \in Places
    BY DEF Places
  <2>. QED BY <1>1, <2>1, <2>2, DefaultSession, GoOK DEF Inv
<1>. QED BY <1>2, <1>3, SessionsSame DEF Inv, SetsOK, Created

LEMMA CheckedInv ==
  ASSUME Inv, NEW c \in Conns, Greeted(c) \/ Assigned(c)
  PROVE  Inv'
<1>1. PICK s \in Sessions : Progress(s, session[s], holder)
                            /\ \E t \in Sessions : Go(c, "loop", t)
  <2>1. at[c].in \in Sessions
    BY DEF Inv, AtOK
  <2>2. CASE Greeted(c)
    BY <2>2, DefaultSession DEF Greeted
  <2>3. CASE Assigned(c)
    BY <2>1, <2>3, DefaultSession DEF Assigned
  <2>. QED BY <2>2, <2>3
<1>2. session[s] \in Session /\ Sized(session[s])
  BY DEF Inv, SessionsOK
<1>3. SessionsOK' /\ procs' \subseteq AIs
  BY <1>1, <1>2, ProgressSized
<1>4. AtOK'
  BY <1>1, GoOK DEF Inv, Places
<1>5. SeatsOK'
  BY SeatsSame DEF Inv, Greeted, Assigned
<1>. QED BY <1>3, <1>4, <1>5 DEF Inv, SetsOK, Greeted, Assigned

LEMMA CreateGameInv ==
  ASSUME Inv, NEW c \in Conns, NEW g \in Settings, CreateGame(c, g)
  PROVE  Inv'
<1>1. PICK s \in Sessions : session' = [session EXCEPT ![s] = [Fresh(g) EXCEPT !.host = c]]
                            /\ Go(c, "created", s)
  BY DEF CreateGame
<1>2. [Fresh(g) EXCEPT !.host = c] \in Session /\ Sized([Fresh(g) EXCEPT !.host = c])
  <2>1. /\ g.humans \in Nat /\ g.ai \in Nat /\ c \in Browsers
        /\ 0 .. g.humans + g.ai - 1 \subseteq Pids
    BY SettingsAssumption DEF CreateGame, Pids
  <2>2. "waiting" \in Phases
    BY DEF Phases
  <2>3. Fresh(g) \in Session /\ Sized(Fresh(g))
    BY <2>1, <2>2 DEF Fresh, Session, Sized
  <2> DEFINE f == Fresh(g)
             r == [f EXCEPT !.host = c]
  <2> HIDE DEF f
  <2>4. f \in Session /\ Sized(f)
    BY <2>3 DEF f
  <2>5. r \in Session /\ r.humans = f.humans /\ r.ai = f.ai /\ r.players = f.players
    BY <2>1, <2>4 DEF Session
  <2>. QED BY <2>4, <2>5 DEF f, Sized
<1>3. SessionsOK'
  BY <1>1, <1>2 DEF Inv, SessionsOK
<1>4. AtOK'
  BY <1>1, GoOK DEF Inv, Places
<1>5. SeatsOK'
  BY SeatsSame DEF Inv, CreateGame
<1>. QED BY <1>3, <1>4, <1>5 DEF Inv, SetsOK, CreateGame

LEMMA JoinGameInv == ASSUME Inv, NEW c \in Conns, NEW s \in Sessions, JoinGame(c, s) PROVE Inv'
<1>1. SeatsOK'
  BY AssignHumanAgrees DEF JoinGame
<1>2. AtOK'
  BY GoOK DEF Inv, JoinGame, Places
<1>. QED BY <1>1, <1>2, SessionsSame DEF Inv, SetsOK, JoinGame

(* The seats that a forced start gives to AIs are taken from the people's. *)
LEMMA FilledSized ==
  ASSUME Inv, NEW s \in Sessions
  PROVE  /\ Filled(s) \in Session /\ Sized(Filled(s))
         /\ Filled(s).phase = session[s].phase /\ Filled(s).players = session[s].players
<1>1. session[s] \in Session /\ Sized(session[s])
  BY DEF Inv, SessionsOK
<1> DEFINE n == Cardinality(OpenSlots(s))
<1>2. n \in 0 .. session[s].humans
  BY <1>1, OpenSlotsBounded
<1>3. Filled(s) = [session[s] EXCEPT !.humans = @ - n, !.ai = @ + n]
  BY DEF Filled
<1> HIDE DEF n
<1>4. /\ session[s].humans - n \in Nat /\ session[s].ai + n \in Nat
      /\ (session[s].humans - n) + (session[s].ai + n) = session[s].humans + session[s].ai
  BY <1>1, <1>2 DEF Session
<1>. QED BY <1>1, <1>3, <1>4 DEF Session, Sized

LEMMA StartGameInv == ASSUME Inv, NEW c \in Conns, NEW s \in Sessions, StartGame(c, s) PROVE Inv'
<1>1. SessionsOK' /\ procs' \subseteq AIs
  BY FilledSized, ProgressSized DEF StartGame
<1>2. SeatsOK' /\ AtOK'
  BY SeatsSame DEF Inv, AtOK, StartGame
<1>. QED BY <1>1, <1>2 DEF Inv, SetsOK, StartGame

LEMMA IdentifyInv == ASSUME Inv, NEW c \in Conns, Identify(c) PROVE Inv'
<1>1. c[1] \in Sessions /\ c[2] \in Pids
  BY DEF Identify, AIs
<1>2. session[c[1]] \in Session /\ Sized(session[c[1]])
  BY <1>1 DEF Inv, SessionsOK
<1>3. \/ holder[c[1]][c[2]] = None /\ Seat(c, c[1], c[2])
         /\ \E h : Progress(c[1], session[c[1]], h)
      \/ UNCHANGED <<seats, session, procs>>
  BY DEF Identify
<1>4. SeatsOK'
  BY <1>1, <1>3, SeatAgrees, SeatsSame DEF Inv
<1>5. SessionsOK' /\ procs' \subseteq AIs
  BY <1>1, <1>2, <1>3, ProgressSized, SessionsSame DEF Inv, SetsOK
<1>6. AtOK'
  BY DefaultSession, GoOK DEF Inv, Identify, Places
<1>. QED BY <1>4, <1>5, <1>6 DEF Inv, SetsOK, Identify

(* A browser takes a player over: whoever had the seat loses that seat and *)
(* no other, and its binding with the last one.                            *)
LEMMA ReplaceAgrees ==
  ASSUME SeatsOK, NEW c \in Conns, NEW p \in Pids, NEW old \in Conns, old # c,
         holder[0][p] = old, holder' = [holder EXCEPT ![0][p] = c], Replace(c, old, p)
  PROVE  SeatsOK'
<1> DEFINE last == held[old] \cap ({0} \X Pids) = {<<0, p>>}
<1>1. /\ held' = [held EXCEPT ![old] = @ \ {<<0, p>>}, ![c] = @ \cup {<<0, p>>}]
      /\ bound' = [bound EXCEPT ![c] = @ \cup {0}, ![old] = IF last THEN @ \ {0} ELSE @]
  BY DEF Replace
<1>2. \A q \in Pids : <<0, q>> \in held[old] /\ q # p => ~last
  OBVIOUS
<1> HIDE DEF last
<1>3. holder' \in [Sessions -> [Pids -> Conns \cup {None}]]
  BY DefaultSession DEF SeatsOK
<1>4. held' \in [Conns -> SUBSET AIs]
  BY <1>1, DefaultSession DEF SeatsOK, AIs
<1>5. bound' \in [Conns -> SUBSET Sessions]
  BY <1>1, DefaultSession DEF SeatsOK
<1>6. ASSUME NEW t \in Sessions, NEW q \in Pids, NEW d \in Conns
      PROVE  holder'[t][q] = d <=> <<t, q>> \in held'[d]
  <2>1. holder[t][q] = d <=> <<t, q>> \in held[d]
    BY DEF SeatsOK, Agree
  <2>2. CASE t = 0 /\ q = p
    <3>1. holder'[t][q] = c
      BY <2>2, DefaultSession DEF SeatsOK
    <3>2. <<t, q>> \in held'[d] <=> d = c
      BY <2>1, <2>2, <1>1 DEF SeatsOK
    <3>. QED BY <3>1, <3>2
  <2>3. CASE ~(t = 0 /\ q = p)
    <3>1. holder'[t][q] = holder[t][q]
      BY <2>3, DefaultSession DEF SeatsOK
    <3>2. <<t, q>> \in held'[d] <=> <<t, q>> \in held[d]
      BY <2>3, <1>1 DEF SeatsOK
    <3>. QED BY <2>1, <3>1, <3>2
  <2>. QED BY <2>2, <2>3
<1>7. ASSUME NEW t \in Sessions, NEW q \in Pids, NEW d \in Conns, <<t, q>> \in held'[d]
      PROVE  t \in bound'[d]
  <2>1. \/ t = 0 /\ q = p /\ d = c
        \/ <<t, q>> \in held[d] /\ ~(t = 0 /\ q = p /\ d = old)
    BY <1>1, <1>7 DEF SeatsOK
  <2>2. <<t, q>> \in held[d] => t \in bound[d]
    BY DEF SeatsOK, Agree
  <2>3. CASE d = old
    BY <1>1, <1>2, <2>1, <2>2, <2>3 DEF SeatsOK
  <2>4. CASE d # old
    BY <1>1, <2>1, <2>2, <2>4 DEF SeatsOK
  <2>. QED BY <2>3, <2>4
<1>. QED BY <1>3, <1>4, <1>5, <1>6, <1>7 DEF SeatsOK, Agree

LEMMA ClaimPlayerInv ==
  ASSUME Inv, NEW c \in Conns, NEW p \in Pids, NEW force \in BOOLEAN, ClaimPlayer(c, p, force)
  PROVE  Inv'
<1>1. SeatsOK'
  <2>1. CASE holder[0][p] = None /\ Seat(c, 0, p)
    BY <2>1, DefaultSession, SeatAgrees DEF Inv
  <2>2. CASE UNCHANGED <<holder, held>> /\ bound' = [bound EXCEPT ![c] = @ \cup {0}]
    BY <2>2, DefaultSession DEF Inv, SeatsOK, Agree
  <2>3. CASE /\ holder[0][p] \notin {None, c}
             /\ holder' = [holder EXCEPT ![0][p] = c] /\ Replace(c, holder[0][p], p)
    <3>1. holder[0][p] \in Conns
      BY <2>3, DefaultSession DEF Inv, SeatsOK
    <3>. QED BY <2>3, <3>1, ReplaceAgrees DEF Inv
  <2>. QED BY <2>1, <2>2, <2>3 DEF ClaimPlayer
<1>2. SetsOK'
  BY DEF Inv, SetsOK, ClaimPlayer, Replace
<1>3. AtOK'
  BY DefaultSession, GoOK DEF Inv, ClaimPlayer, Places
<1>. QED BY <1>1, <1>2, <1>3, SessionsSame DEF Inv, ClaimPlayer

(* A socket's finally clause frees every seat it has: each comes with its  *)
(* binding.                                                                *)
LEMMA FinallyInv == ASSUME Inv, NEW c \in Conns, Finally(c) PROVE Inv'
<1>1. held[c] = {x \in held[c] : x[1] \in bound[c]}
  BY DEF Inv, SeatsOK, Agree, AIs
<1>2. /\ holder' = [s \in Sessions |-> [p \in Pids |->
                       IF <<s, p>> \in held[c] THEN None ELSE holder[s][p]]]
      /\ held' = [held EXCEPT ![c] = {}] /\ bound' = [bound EXCEPT ![c] = {}]
  BY <1>1 DEF Inv, SeatsOK, Finally
<1>3. None \notin Conns
  BY NoneAssumption DEF Conns
<1>4. SeatsOK'
  BY <1>2, <1>3 DEF Inv, SeatsOK, Agree
<1>5. SessionsOK'
  <2>1. ASSUME NEW s \in Sessions
        PROVE  session'[s] \in {session[s], [session[s] EXCEPT !.phase = "retired"]}
    BY DEF Finally
  <2>2. ASSUME NEW s \in Sessions PROVE session'[s] \in Session /\ Sized(session'[s])
    BY <2>1 DEF Inv, SessionsOK, Session, Sized, Phases
  <2>. QED BY <2>2 DEF Finally, SessionsOK
<1>6. AtOK'
  BY DefaultSession, GoOK DEF Inv, Finally, Places
<1>. QED BY <1>4, <1>5, <1>6 DEF Inv, SetsOK, Finally

(* Sockets that fail, and games that end. *)
LEMMA FailsInv == ASSUME Inv, NEW c \in Conns, Lose(c) \/ GreetingFails(c) PROVE Inv'
<1>1. AtOK'
  BY DefaultSession, GoOK DEF Inv, AtOK, Lose, GreetingFails, Places
<1>2. SetsOK'
  BY DEF Inv, SetsOK, Lose, GreetingFails
<1>. QED BY <1>1, <1>2, SeatsSame, SessionsSame DEF Inv, Lose, GreetingFails

LEMMA EndsInv == ASSUME Inv, NEW s \in Sessions, GameOver(s) \/ MarkFinished(s) PROVE Inv'
<1>1. PICK phase \in Phases : session' = [session EXCEPT ![s].phase = phase]
  BY DEF GameOver, MarkFinished, Phases
<1>2. SessionsOK'
  BY <1>1 DEF Inv, SessionsOK, Session, Sized
<1>. QED BY <1>2, SeatsSame DEF Inv, AtOK, SetsOK, GameOver, MarkFinished

LEMMA StepInv == Inv /\ [Next]_vars => Inv'
<1>1. Inv /\ UNCHANGED vars => Inv'
  BY SeatsSame, SessionsSame DEF Inv, AtOK, SetsOK, vars
<1>. QED
  BY <1>1, ArriveInv, CreatedInv, CheckedInv, CreateGameInv, JoinGameInv, StartGameInv, IdentifyInv,
     ClaimPlayerInv, FinallyInv, FailsInv, EndsInv DEF Next, Messages, Resumes

(* The two tables of seats agree, and a seat is bound to its session, for  *)
(* every number of browsers, of sessions and of players.                   *)
THEOREM TablesAgree == Spec => []SlotsAgree
<1>1. Inv => SlotsAgree
  BY DEF Inv, SeatsOK, Agree, SessionsOK, Session, AtOK, SetsOK, SlotsAgree, TypeOK
<1>. QED BY <1>1, InitInv, StepInv, PTL DEF Spec

(* A player is taken from an open socket only by a browser that claims it, *)
(* in the default session: no other step changes the seat of such a socket.*)
LEMMA StepKeepsSeat ==
  ASSUME Inv, [Next]_vars, NEW s \in Sessions, NEW p \in Pids,
         holder[s][p] \in up, holder'[s][p] # holder[s][p]
  PROVE  s = 0 /\ holder'[s][p] \in Browsers
<1>1. holder[s][p] \in Conns /\ holder[s][p] # None
  BY NoneAssumption DEF Inv, SetsOK, Conns
<1>2. ASSUME NEW c \in Conns, NEW t \in Sessions, AssignHuman(c, t) PROVE FALSE
  BY <1>1, <1>2 DEF AssignHuman, Seat, OpenSlots, Inv, SeatsOK
<1>3. ASSUME NEW c \in Conns, Arrive(c) \/ Greeted(c) \/ Created(c) \/ Assigned(c) PROVE FALSE
  BY <1>2, <1>3, DefaultSession DEF Inv, AtOK, Arrive, Greeted, Created, Assigned, seats
<1>4. ASSUME NEW c \in Conns, NEW t \in Sessions, JoinGame(c, t) \/ StartGame(c, t) PROVE FALSE
  BY <1>2, <1>4 DEF JoinGame, StartGame, seats
<1>5. ASSUME NEW c \in Conns, Identify(c) PROVE FALSE
  BY <1>1, <1>5 DEF Identify, Seat, Inv, SeatsOK, seats
<1>6. ASSUME NEW c \in Conns, NEW q \in Pids, NEW force \in BOOLEAN, ClaimPlayer(c, q, force)
      PROVE  s = 0 /\ holder'[s][p] \in Browsers
  <2>1. c \in Browsers /\ (holder' = holder \/ holder' = [holder EXCEPT ![0][q] = c])
    BY <1>6 DEF ClaimPlayer, Seat
  <2>. QED BY <2>1, DefaultSession DEF Inv, SeatsOK
<1>7. ASSUME NEW c \in Conns, Finally(c) PROVE FALSE
  <2>1. c \notin up /\ <<s, p>> \in held[c]
    BY <1>1, <1>7 DEF Finally, Inv, SeatsOK
  <2>2. holder[s][p] = c
    BY <2>1 DEF Inv, SeatsOK, Agree
  <2>. QED BY <2>1, <2>2
<1>8. CASE \/ UNCHANGED vars
           \/ \E c \in Conns : Lose(c) \/ GreetingFails(c) \/ \E g \in Settings : CreateGame(c, g)
           \/ \E t \in Sessions : GameOver(t) \/ MarkFinished(t)
  BY <1>8 DEF Lose, GreetingFails, CreateGame, GameOver, MarkFinished, vars, seats
<1>. QED BY <1>3, <1>4, <1>5, <1>6, <1>7, <1>8 DEF Next, Messages, Resumes

(* A player who has a socket that is up keeps it until a browser claims    *)
(* his seat of the local game, whoever comes, goes or is replaced.         *)
THEOREM SeatsKept == Spec => KeepsSeat
<1>1. Inv /\ [Next]_vars =>
        [\A s \in Sessions, p \in Pids :
           holder[s][p] \in up /\ holder'[s][p] # holder[s][p]
             => s = 0 /\ holder'[s][p] \in Browsers]_vars
  BY StepKeepsSeat
<1>. QED BY <1>1, InitInv, StepInv, PTL DEF Spec, KeepsSeat

(* A session is forgotten only after its game and when no open socket      *)
(* plays in it, and it goes with the last socket that leaves it.           *)
LEMMA StepRetires ==
  ASSUME Inv, [Next]_vars, NEW s \in Sessions
  PROVE  /\ (session'[s].phase = "retired" /\ session[s].phase # "retired")
              => session[s].phase = "finished" /\ \A p \in Pids : holder[s][p] \notin up
         /\ (s # 0 /\ session[s].phase = "finished" /\ Bound(bound, s) # {} /\ Bound(bound', s) = {})
              => session'[s].phase = "retired"
<1> DEFINE A == (session'[s].phase = "retired" /\ session[s].phase # "retired")
                  => session[s].phase = "finished" /\ \A p \in Pids : holder[s][p] \notin up
           B == (s # 0 /\ session[s].phase = "finished" /\ Bound(bound, s) # {} /\ Bound(bound', s) = {})
                  => session'[s].phase = "retired"
<1>1. ASSUME NEW t \in Sessions, NEW r \in Session, NEW h, Progress(t, r, h), r.phase = session[t].phase
      PROVE  session'[s].phase = session[s].phase \/ session'[s].phase = "playing"
  BY <1>1 DEF Progress, Inv, SessionsOK, Session
<1>2. ASSUME NEW c \in Conns, Finally(c) PROVE A /\ B
  <2>1. c \notin up
    BY <1>2 DEF Finally
  <2>2. session'[s].phase = IF s \in bound[c] /\ Retires(c, s) THEN "retired" ELSE session[s].phase
    BY <1>2 DEF Finally, Inv, SessionsOK, Session
  <2>3. \A p \in Pids : holder[s][p] \in Conns => s \in bound[holder[s][p]]
    BY DEF Inv, SeatsOK, Agree
  <2>4. A
    BY <2>1, <2>2, <2>3 DEF Retires, Inv, SetsOK
  <2>5. B
    BY <1>2, <2>2 DEF Finally, Retires, Bound, Inv, SeatsOK
  <2>. QED BY <2>4, <2>5
<1>3. ASSUME /\ \A d \in Conns : bound[d] \subseteq bound'[d] \cup {0}
             /\ session'[s].phase = "retired" => session[s].phase = "retired"
      PROVE  A /\ B
  BY <1>3 DEF Bound
<1> HIDE DEF A, B
<1>4. ASSUME NEW c \in Conns, NEW t \in Sessions, AssignHuman(c, t)
      PROVE  \A d \in Conns : bound[d] \subseteq bound'[d]
  BY <1>4 DEF AssignHuman, Seat, Inv, SeatsOK
<1>5. ASSUME NEW c \in Conns, Arrive(c) \/ Created(c) \/ \E t \in Sessions : JoinGame(c, t)
      PROVE  A /\ B
  BY <1>3, <1>4, <1>5, DefaultSession DEF Arrive, Created, JoinGame, seats, Inv, AtOK
<1>6. ASSUME NEW c \in Conns, Greeted(c) \/ Assigned(c) PROVE A /\ B
  <2>1. PICK t \in Sessions : Progress(t, session[t], holder)
    BY <1>6, DefaultSession DEF Inv, AtOK, Greeted, Assigned
  <2>. QED BY <1>1, <1>3, <1>6, <2>1 DEF Greeted, Assigned, seats, Inv, SessionsOK
<1>7. ASSUME NEW c \in Conns, NEW t \in Sessions, StartGame(c, t) PROVE A /\ B
  <2>1. Filled(t) \in Session /\ Filled(t).phase = session[t].phase
    BY FilledSized
  <2>. QED BY <1>1, <1>3, <1>7, <2>1 DEF StartGame, seats
<1>8. ASSUME NEW c \in Conns, Identify(c) PROVE A /\ B
  <2>1. c[1] \in Sessions
    BY <1>8 DEF Identify, AIs
  <2>2. \A d \in Conns : bound[d] \subseteq bound'[d]
    BY <1>8 DEF Identify, Seat, seats, Inv, SeatsOK
  <2>3. session'[s].phase \in {session[s].phase, "playing"}
    BY <1>1, <1>8, <2>1 DEF Identify, Inv, SessionsOK
  <2>. QED BY <1>3, <2>2, <2>3
<1>9. ASSUME NEW c \in Conns, NEW q \in Pids, NEW force \in BOOLEAN, ClaimPlayer(c, q, force)
      PROVE  A /\ B
  <2>1. \A d \in Conns : bound[d] \subseteq bound'[d] \cup {0}
    BY <1>9 DEF ClaimPlayer, Seat, Replace, Inv, SeatsOK
  <2>. QED BY <1>3, <1>9, <2>1 DEF ClaimPlayer
<1>10. ASSUME NEW c \in Conns, NEW g \in Settings, CreateGame(c, g) PROVE A /\ B
  <2>1. session'[s].phase \in {session[s].phase, "waiting"}
    BY <1>10 DEF CreateGame, Fresh, Inv, SessionsOK
  <2>. QED BY <1>3, <1>10, <2>1 DEF CreateGame, seats
<1>11. ASSUME NEW t \in Sessions, GameOver(t) \/ MarkFinished(t) PROVE A /\ B
  <2>1. session'[s].phase \in {session[s].phase, "over", "finished"}
    BY <1>11 DEF GameOver, MarkFinished, Inv, SessionsOK, Session
  <2>. QED BY <1>3, <1>11, <2>1 DEF GameOver, MarkFinished, seats
<1>12. ASSUME NEW c \in Conns, Lose(c) \/ GreetingFails(c) PROVE A /\ B
  BY <1>3, <1>12 DEF Lose, GreetingFails, seats
<1>13. ASSUME NEW c \in Conns, Messages(c) \/ Resumes(c) PROVE A /\ B
  BY <1>2, <1>5, <1>6, <1>7, <1>9, <1>10, <1>12, <1>13 DEF Messages, Resumes
<1>14. ASSUME UNCHANGED vars PROVE A /\ B
  BY <1>3, <1>14 DEF vars, seats
<1>15. A /\ B
  BY <1>5, <1>8, <1>11, <1>12, <1>13, <1>14 DEF Next
<1>. QED BY <1>15 DEF A, B

(* A session is forgotten only after its game is over and when no open     *)
(* socket plays in it, and the last socket that leaves a finished lobby    *)
(* game always takes it along.                                             *)
THEOREM RetiredWithLast == Spec => RetiresWithLast
<1>1. Inv /\ [Next]_vars =>
        [\A s \in Sessions :
           /\ (session'[s].phase = "retired" /\ session[s].phase # "retired")
                => session[s].phase = "finished" /\ \A p \in Pids : holder[s][p] \notin up
           /\ (s # 0 /\ session[s].phase = "finished" /\ Bound(bound, s) # {} /\ Bound(bound', s) = {})
                => session'[s].phase = "retired"]_vars
  BY StepRetires
<1>. QED BY <1>1, InitInv, StepInv, PTL DEF Spec, RetiresWithLast

-----------------------------------------------------------------------------
(* The seats that are taken, and the processes spawned, are those of the   *)
(* players of their session; so is the seat an AI process asks for.        *)
Numbered ==
  /\ \A s \in Sessions : session[s].phase = "none" => session[s].players = 0
  /\ \A s \in Sessions, p \in Pids : holder[s][p] # None => p \in 0 .. session[s].players - 1
  /\ \A c \in procs : c[2] \in 0 .. session[c[1]].players - 1
  /\ \A c \in AIs : at[c].pc # "away" => c \in procs

LEMMA InitNumbered == Init => Numbered
<1>. SUFFICES ASSUME Init PROVE Numbered  OBVIOUS
<1>1. PICK default \in {Fresh(g) : g \in Local} \cup (IF Lobby THEN {Absent} ELSE {}) :
        LET spawns == default.phase # "none" /\ SpawnsNow(default, {})
        IN /\ session = [s \in Sessions |->
                           IF s = 0 THEN [default EXCEPT !.spawned = spawns] ELSE Absent]
           /\ procs = {<<0, p>> : p \in IF spawns THEN 0 .. default.ai - 1 ELSE {}}
  BY DEF Init
<1>2. /\ default.phase = "none" => default.players = 0
      /\ default.players \in Nat /\ default.ai \in Nat /\ default.ai <= default.players
  BY <1>1, SettingsAssumption DEF Fresh, Absent
<1>3. \A s \in Sessions : session[s].phase = "none" => session[s].players = 0
  BY <1>1, <1>2 DEF Fresh, Absent
<1>4. session[0].players = default.players
  BY <1>1, DefaultSession DEF Fresh, Absent
<1>5. \A c \in procs : c[2] \in 0 .. session[c[1]].players - 1
  BY <1>1, <1>2, <1>4
<1>6. \A c \in AIs : at[c].pc = "away"
  BY DEF Init, Conns
<1>7. \A s \in Sessions, p \in Pids : holder[s][p] = None
  BY DEF Init
<1>. QED BY <1>3, <1>5, <1>6, <1>7 DEF Numbered

(* Steps that neither take a seat nor change the size of a session. *)
LEMMA SeatsGivenBack ==
  ASSUME Inv, Numbered,
         \A s \in Sessions : /\ session'[s].players = session[s].players
                             /\ session'[s].phase = "none" => session[s].phase = "none",
         \A s \in Sessions, p \in Pids : holder'[s][p] # None =>
           holder[s][p] # None \/ p \in 0 .. session[s].players - 1,
         \A c \in procs' : c \in procs
                           \/ (c \in AIs /\ c[2] \in 0 .. session[c[1]].players - 1),
         procs \subseteq procs',
         \A c \in AIs : at'[c].pc # "away" => at[c].pc # "away" \/ c \in procs
  PROVE  Numbered'
<1>1. \A c \in AIs : c[1] \in Sessions /\ c[2] \in Pids
  BY DEF AIs
<1>2. procs \subseteq AIs
  BY DEF Inv, SetsOK
<1>. QED BY <1>1, <1>2 DEF Numbered

(* The open slots of a session are numbers of its players. *)
LEMMA SlotsNumbered ==
  ASSUME Inv, NEW s \in Sessions
  PROVE  HumanSlots(s) \subseteq 0 .. session[s].players - 1
<1>1. session[s] \in Session /\ Sized(session[s])
  BY DEF Inv, SessionsOK
<1>. QED BY <1>1 DEF Session, Sized, HumanSlots

(* What the check of a session's progress leaves of it, and whom it calls. *)
LEMMA ProgressNumbered ==
  ASSUME Inv, NEW t \in Sessions, NEW r \in Session, Sized(r), NEW h, Progress(t, r, h),
         r.players = session[t].players, r.phase = session[t].phase
  PROVE  /\ \A s \in Sessions : /\ session'[s].players = session[s].players
                                /\ session'[s].phase = "none" => session[s].phase = "none"
         /\ \A c \in procs' : c \in procs
                              \/ (c \in AIs /\ c[2] \in 0 .. session[c[1]].players - 1)
         /\ procs \subseteq procs'
<1>1. SessionsOK
  BY DEF Inv
<1>2. \A s \in Sessions : /\ session'[s].players = session[s].players
                          /\ session'[s].phase = "none" => session[s].phase = "none"
  BY <1>1 DEF Progress, SessionsOK, Session
<1>3. procs \subseteq procs'
        /\ \A c \in procs' : c \in procs
             \/ \E p \in r.humans .. r.humans + r.ai - 1 : c = <<t, p>>
  BY DEF Progress
<1>4. \A p \in r.humans .. r.humans + r.ai - 1 :
        <<t, p>> \in AIs /\ p \in 0 .. session[t].players - 1
  BY DEF Sized, Session, AIs
<1>5. ASSUME NEW c, c \in procs', c \notin procs
      PROVE  c \in AIs /\ c[2] \in 0 .. session[c[1]].players - 1
  <2>1. PICK p \in r.humans .. r.humans + r.ai - 1 : c = <<t, p>>
    BY <1>3, <1>5
  <2>. QED BY <1>4, <2>1
<1>6. \A c \in procs' : c \in procs \/ (c \in AIs /\ c[2] \in 0 .. session[c[1]].players - 1)
  BY <1>5
<1>. QED BY <1>2, <1>3, <1>6

(* Every step keeps the players of a session the numbers they were. *)
LEMMA AssignNumbered ==
  ASSUME Inv, NEW c \in Conns, NEW s \in Sessions, AssignHuman(c, s)
  PROVE  \A t \in Sessions, p \in Pids : holder'[t][p] # None =>
           holder[t][p] # None \/ p \in 0 .. session[t].players - 1
<1>1. PICK q \in OpenSlots(s) : holder' = [holder EXCEPT ![s][q] = c]
  BY DEF AssignHuman, Seat
<1>2. q \in 0 .. session[s].players - 1
  BY <1>1, SlotsNumbered DEF OpenSlots
<1>. QED BY <1>1, <1>2 DEF Inv, SeatsOK

LEMMA StepNumbered == Inv /\ Numbered /\ [Next]_vars => Numbered'
<1>. SUFFICES ASSUME Inv, Numbered, [Next]_vars PROVE Numbered'  OBVIOUS
<1> DEFINE Sizes == \A s \in Sessions : /\ session'[s].players = session[s].players
                                        /\ session'[s].phase = "none" => session[s].phase = "none"
           Taken == \A s \in Sessions, p \in Pids : holder'[s][p] # None =>
                      holder[s][p] # None \/ p \in 0 .. session[s].players - 1
           Calls == /\ procs \subseteq procs'
                    /\ \A c \in procs' : c \in procs
                          \/ (c \in AIs /\ c[2] \in 0 .. session[c[1]].players - 1)
           Comes == \A c \in AIs : at'[c].pc # "away" => at[c].pc # "away" \/ c \in procs
<1>1. Sizes /\ Taken /\ Calls /\ Comes => Numbered'
  BY SeatsGivenBack
<1>2. /\ UNCHANGED session => Sizes
      /\ UNCHANGED holder => Taken
      /\ UNCHANGED procs => Calls
      /\ UNCHANGED at => Comes
  <2>1. ASSUME UNCHANGED session PROVE Sizes  BY <2>1
  <2>2. ASSUME UNCHANGED holder PROVE Taken  BY <2>2
  <2>3. ASSUME UNCHANGED procs PROVE Calls  BY <2>3
  <2>4. ASSUME UNCHANGED at PROVE Comes  BY <2>4
  <2>. QED BY <2>1, <2>2, <2>3, <2>4
<1>3. ASSUME NEW c \in Conns, at[c].pc # "away" \/ c \in procs \/ c \in Browsers,
             \E pc \in Places, s \in Sessions : Go(c, pc, s)
      PROVE  Comes
  <2>1. PICK pc \in Places, s \in Sessions : at' = [at EXCEPT ![c] = [pc |-> pc, in |-> s]]
    BY <1>3 DEF Go
  <2>2. \A d \in AIs : d \in Conns /\ (d \in Browsers => FALSE)
    BY DEF Conns, AIs, Browsers
  <2>. QED BY <1>3, <2>1, <2>2 DEF Inv, AtOK
<1>4. ASSUME NEW t \in Sessions, NEW h, Progress(t, session[t], h) PROVE Sizes /\ Calls
  <2>1. session[t] \in Session /\ Sized(session[t])
    BY DEF Inv, SessionsOK
  <2>. QED BY <1>4, <2>1, ProgressNumbered
<1>5. ASSUME NEW c \in Conns, NEW t \in Sessions, AssignHuman(c, t) PROVE Taken
  BY <1>5, AssignNumbered
<1>6. {"greet", "loop", "created", "assigned", "claimed", "served", "gone"} \subseteq Places
  BY DEF Places
<1> HIDE DEF Sizes, Taken, Calls, Comes
<1>7. ASSUME NEW c \in Conns, Arrive(c) PROVE Numbered'
  BY <1>1, <1>2, <1>3, <1>5, <1>6, <1>7, DefaultSession DEF Arrive, seats
<1>8. ASSUME NEW c \in Conns, Greeted(c) \/ Assigned(c) PROVE Numbered'
  <2>1. PICK t \in Sessions : Progress(t, session[t], holder) /\ Go(c, "loop", 0)
    BY <1>8, DefaultSession DEF Inv, AtOK, Greeted, Assigned
  <2>2. at[c].pc # "away" /\ UNCHANGED seats
    BY <1>8 DEF Greeted, Assigned
  <2>. QED BY <1>1, <1>2, <1>3, <1>4, <1>6, <2>1, <2>2, DefaultSession DEF seats
<1>9. ASSUME NEW c \in Conns, Created(c) PROVE Numbered'
  <2>1. at[c].in \in Sessions /\ at[c].pc # "away" /\ UNCHANGED <<session, procs>>
    BY <1>9 DEF Inv, AtOK, Created
  <2>2. Taken
    BY <1>2, <1>5, <1>9, <2>1 DEF Created, seats
  <2>3. Comes
    BY <1>3, <1>6, <1>9, <2>1, DefaultSession DEF Created
  <2>. QED BY <1>1, <1>2, <2>1, <2>2, <2>3
<1>10. ASSUME NEW c \in Conns, NEW t \in Sessions, JoinGame(c, t) PROVE Numbered'
  BY <1>1, <1>2, <1>3, <1>5, <1>6, <1>10 DEF JoinGame, Serving
<1>11. ASSUME NEW c \in Conns, NEW t \in Sessions, StartGame(c, t) PROVE Numbered'
  <2>1. /\ Filled(t) \in Session /\ Sized(Filled(t))
        /\ Filled(t).phase = session[t].phase /\ Filled(t).players = session[t].players
    BY FilledSized
  <2>2. Sizes /\ Calls
    BY <1>11, <2>1, ProgressNumbered DEF StartGame, Sizes, Calls
  <2>. QED BY <1>1, <1>2, <1>11, <2>2 DEF StartGame, seats
<1>12. ASSUME NEW c \in Conns, Identify(c) PROVE Numbered'
  <2>1. c \in AIs /\ c \in procs /\ c[1] \in Sessions /\ c[2] \in Pids /\ at[c].pc # "away"
    BY <1>12 DEF Identify, Serving, Numbered, AIs
  <2>2. Comes
    BY <1>3, <1>6, <1>12, <2>1, DefaultSession DEF Identify
  <2>3. CASE Seat(c, c[1], c[2]) /\ Progress(c[1], session[c[1]], holder')
    <3>1. Sizes /\ Calls
      BY <1>4, <2>1, <2>3
    <3>2. c[2] \in 0 .. session[c[1]].players - 1
      BY <2>1 DEF Numbered
    <3>3. Taken
      BY <2>1, <2>3, <3>2 DEF Taken, Seat, Inv, SeatsOK
    <3>. QED BY <1>1, <2>2, <3>1, <3>3
  <2>4. CASE UNCHANGED <<seats, session, procs>>
    BY <1>1, <1>2, <2>2, <2>4 DEF seats
  <2>. QED BY <1>12, <2>3, <2>4 DEF Identify
<1>13. ASSUME NEW c \in Conns, NEW p \in Pids, NEW force \in BOOLEAN, ClaimPlayer(c, p, force)
       PROVE  Numbered'
  <2>1. p \in 0 .. session[0].players - 1 /\ at[c].pc # "away"
    BY <1>13, SlotsNumbered, DefaultSession DEF ClaimPlayer, Serving
  <2>2. holder' = holder \/ holder' = [holder EXCEPT ![0][p] = c]
    BY <1>13 DEF ClaimPlayer, Seat
  <2>3. Taken
    BY <2>1, <2>2, DefaultSession DEF Taken, Inv, SeatsOK
  <2>4. Comes
    BY <1>3, <1>6, <1>13, <2>1, DefaultSession DEF ClaimPlayer
  <2>. QED BY <1>1, <1>2, <1>13, <2>3, <2>4 DEF ClaimPlayer
<1>14. ASSUME NEW c \in Conns, Finally(c) PROVE Numbered'
  <2>1. Sizes
    BY <1>14 DEF Finally, Sizes, Inv, SessionsOK, Session
  <2>2. Taken
    BY <1>14 DEF Finally, Taken, Inv, SeatsOK
  <2>3. Comes
    BY <1>3, <1>6, <1>14, DefaultSession DEF Finally
  <2>. QED BY <1>1, <1>2, <1>14, <2>1, <2>2, <2>3 DEF Finally
<1>15. ASSUME NEW c \in Conns, NEW g \in Settings, CreateGame(c, g) PROVE Numbered'
  <2>1. PICK s \in Sessions : /\ session[s].phase = "none"
                              /\ session' = [session EXCEPT ![s] = [Fresh(g) EXCEPT !.host = c]]
                              /\ Go(c, "created", s)
    BY <1>15 DEF CreateGame
  <2>2. UNCHANGED <<holder, procs>> /\ at[c].pc # "away"
    BY <1>15 DEF CreateGame, seats, Serving
  <2>3. Comes
    BY <1>3, <1>6, <2>1, <2>2
  <2>4. session[s].players = 0 /\ session'[s].phase # "none"
    BY <2>1 DEF Numbered, Inv, SessionsOK, Fresh
  <2>5. \A t \in Sessions \ {s} : session'[t] = session[t]
    BY <2>1 DEF Inv, SessionsOK
  <2>6. \A x : x \notin 0 .. session[s].players - 1
    BY <2>4
  <2>7. procs \subseteq AIs /\ \A d \in AIs : d[1] \in Sessions
    BY DEF Inv, SetsOK, AIs
  <2>8. \A d \in procs : d[1] # s
    BY <2>6 DEF Numbered
  <2>9. \A p \in Pids : holder[s][p] = None
    BY <2>6 DEF Numbered
  <2>. QED BY <2>2, <2>3, <2>4, <2>5, <2>7, <2>8, <2>9 DEF Numbered, Comes
<1>16. ASSUME NEW t \in Sessions, GameOver(t) \/ MarkFinished(t) PROVE Numbered'
  <2>1. Sizes
    BY <1>16 DEF GameOver, MarkFinished, Sizes, Inv, SessionsOK, Session
  <2>. QED BY <1>1, <1>2, <1>16, <2>1 DEF GameOver, MarkFinished, seats
<1>17. ASSUME NEW c \in Conns, Lose(c) PROVE Numbered'
  BY <1>1, <1>2, <1>17 DEF Lose, seats
<1>18. ASSUME NEW c \in Conns, GreetingFails(c) PROVE Numbered'
  BY <1>1, <1>2, <1>3, <1>6, <1>18, DefaultSession DEF GreetingFails, seats
<1>19. ASSUME UNCHANGED vars PROVE Numbered'
  BY <1>1, <1>2, <1>19 DEF vars, seats
<1>. QED
  BY <1>7, <1>8, <1>9, <1>10, <1>11, <1>12, <1>13, <1>14, <1>15, <1>16, <1>17, <1>18, <1>19
  DEF Next, Messages, Resumes

(* A session that starts has as many seats taken as players, and these are *)
(* its players: each has one.                                              *)
LEMMA StartsWithAll ==
  ASSUME Inv, Inv', Numbered', NEW t \in Sessions, NEW r \in Session, Progress(t, r, holder'),
         r.phase = session[t].phase, NEW s \in Sessions,
         session[s].phase = "waiting", session'[s].phase = "playing"
  PROVE  /\ Seated(holder', s) = 0 .. session'[s].players - 1
         /\ \A p \in Seated(holder', s) : s \in bound'[holder'[s][p]]
<1> DEFINE n == session'[s].players
           b == n - 1
           S == Seated(holder', s)
<1>1. s = t /\ n = r.players /\ Cardinality(S) >= n
  BY DEF Progress, Inv, SessionsOK, Session
<1>2. n \in Nat /\ b \in Int
  BY <1>1 DEF Session
<1>3. S \subseteq 0 .. b
  BY DEF Seated, Numbered
<1>4. ASSUME NEW p \in S PROVE s \in bound'[holder'[s][p]]
  <2>1. p \in Pids /\ holder'[s][p] # None
    BY DEF Seated
  <2>2. SeatsOK'
    BY DEF Inv
  <2>3. PICK c \in Conns : c = holder'[s][p]
    BY <2>1, <2>2 DEF SeatsOK
  <2>4. <<s, p>> \in held'[c]
    BY <2>1, <2>2, <2>3 DEF SeatsOK, Agree
  <2>. QED BY <2>1, <2>2, <2>3, <2>4 DEF SeatsOK, Agree
<1> HIDE DEF S, b
<1>5. IsFiniteSet(0 .. b) /\ Cardinality(0 .. b) = IF 0 > b THEN 0 ELSE b - 0 + 1
  BY <1>2, FS_Interval, 0 \in Int, Zenon
<1>6. Cardinality(0 .. b) = n
  BY <1>2, <1>5 DEF b
<1>7. S = 0 .. b
  <2>1. /\ IsFiniteSet(S) /\ Cardinality(S) \in Nat /\ Cardinality(S) <= Cardinality(0 .. b)
        /\ Cardinality(S) = Cardinality(0 .. b) => S = 0 .. b
    BY <1>3, <1>5, FS_Subset, FS_CardinalityType
  <2>. QED BY <1>1, <1>2, <1>6, <2>1
<1>. QED BY <1>4, <1>7 DEF S, b

LEMMA StepStartsFull ==
  ASSUME Inv, Inv', Numbered', [Next]_vars, NEW s \in Sessions,
         session[s].phase = "waiting", session'[s].phase = "playing"
  PROVE  /\ Seated(holder', s) = 0 .. session'[s].players - 1
         /\ \A p \in Seated(holder', s) : s \in bound'[holder'[s][p]]
<1>1. session'[s] # session[s]
  OBVIOUS
<1>2. ASSUME NEW c \in Conns, Arrive(c) \/ Created(c) \/ Lose(c) \/ GreetingFails(c) PROVE FALSE
  BY <1>1, <1>2 DEF Arrive, Created, Lose, GreetingFails
<1>3. ASSUME NEW c \in Conns, NEW t \in Sessions, JoinGame(c, t) PROVE FALSE
  BY <1>1, <1>3 DEF JoinGame
<1>4. ASSUME NEW c \in Conns, NEW p \in Pids, NEW force \in BOOLEAN, ClaimPlayer(c, p, force)
      PROVE  FALSE
  BY <1>1, <1>4 DEF ClaimPlayer
<1>5. ASSUME NEW c \in Conns, NEW g \in Settings, CreateGame(c, g) PROVE FALSE
  BY <1>5 DEF CreateGame, Fresh, Inv, SessionsOK
<1>6. ASSUME NEW c \in Conns, Finally(c) PROVE FALSE
  BY <1>6 DEF Finally, Inv, SessionsOK, Session
<1>7. ASSUME NEW t \in Sessions, GameOver(t) \/ MarkFinished(t) PROVE FALSE
  BY <1>7 DEF GameOver, MarkFinished, Inv, SessionsOK, Session
<1>8. CASE UNCHANGED vars
  BY <1>1, <1>8 DEF vars
<1>9. CASE \/ \E c \in Conns : Greeted(c) \/ Assigned(c) \/ Identify(c)
           \/ \E c \in Conns, t \in Sessions : StartGame(c, t)
  <2>1. \A t \in Sessions : session[t] \in Session
    BY DEF Inv, SessionsOK
  <2>2. \E t \in Sessions, r \in Session : Progress(t, r, holder') /\ r.phase = session[t].phase
    <3>1. ASSUME NEW c \in Conns, Greeted(c) \/ Assigned(c)
          PROVE  \E t \in Sessions : Progress(t, session[t], holder')
      <4>1. holder' = holder
        BY <3>1 DEF Greeted, Assigned, seats
      <4>2. \E t \in Sessions : Progress(t, session[t], holder)
        BY <3>1, DefaultSession DEF Inv, AtOK, Greeted, Assigned
      <4>. QED BY <4>1, <4>2
    <3>2. ASSUME NEW c \in Conns, Identify(c)
          PROVE  \E t \in Sessions : Progress(t, session[t], holder')
      <4>1. c[1] \in Sessions
        BY <3>2 DEF Identify, AIs
      <4>. QED BY <1>1, <3>2, <4>1 DEF Identify
    <3>3. ASSUME NEW c \in Conns, NEW t \in Sessions, StartGame(c, t)
          PROVE  Progress(t, Filled(t), holder') /\ Filled(t) \in Session
                 /\ Filled(t).phase = session[t].phase
      <4>1. holder' = holder /\ Progress(t, Filled(t), holder)
        BY <3>3 DEF StartGame, seats
      <4>. QED BY <4>1, FilledSized
    <3>4. \A t \in Sessions : Progress(t, session[t], holder') =>
            \E r \in Session : Progress(t, r, holder') /\ r.phase = session[t].phase
      BY <2>1
    <3>5. \A c \in Conns, t \in Sessions : StartGame(c, t) =>
            \E r \in Session : Progress(t, r, holder') /\ r.phase = session[t].phase
      BY <3>3
    <3>. QED BY <1>9, <3>1, <3>2, <3>4, <3>5
  <2>. QED BY <2>2, StartsWithAll
<1>. QED BY <1>2, <1>3, <1>4, <1>5, <1>6, <1>7, <1>8, <1>9 DEF Next, Messages, Resumes

(* No game starts without the players it was set up for, each with a       *)
(* socket that is bound to it, whoever comes, leaves or forces the start.  *)
THEOREM StartedFull == Spec => StartsFull
<1>1. Inv /\ Inv' /\ Numbered' /\ [Next]_vars =>
        [\A s \in Sessions :
           session[s].phase = "waiting" /\ session'[s].phase = "playing"
             => /\ Seated(holder', s) = 0 .. session'[s].players - 1
                /\ \A p \in Seated(holder', s) : s \in bound'[holder'[s][p]]]_vars
  BY StepStartsFull
<1>. QED BY <1>1, InitInv, StepInv, InitNumbered, StepNumbered, PTL DEF Spec, StartsFull

=============================================================================
