------------------------------ MODULE Sessions ------------------------------
(***************************************************************************)
(* The lobby: which socket plays whom, in which game, and when a game      *)
(* starts and is forgotten.  Everything runs in the server's event loop:   *)
(* a handler runs alone up to its next await, so an action here goes from  *)
(* one await to the next.  An await lets others run only when the          *)
(* client's write buffer is full: it always may.                           *)
(*                                                                         *)
(* Session 0 is the default session of local play, absent in lobby mode.   *)
(* A socket is a browser, <<n>> for the n-th that connects, or the process *)
(* of an AI, named <<session, player>> as on its command line.             *)
(*                                                                         *)
(* A definition with an underscore is a faulty variant of the next one,    *)
(* used by none.                                                           *)
(***************************************************************************)
EXTENDS Integers, FiniteSets

CONSTANTS
  None,
  Local,        \* what the server is started with: a set of [humans, ai],
  Lobby,        \* ... and whether it may be started as a lobby
  Settings,     \* what clients ask for: a set of [humans, ai]
  MaxBrowsers,  \* bound: the browsers that connect
  MaxCreated    \* bound: the sessions clients create

ASSUME SettingsAssumption ==
  Local \subseteq [humans : Nat, ai : Nat] /\ Settings \subseteq [humans : Nat, ai : Nat]
ASSUME BoundsAssumption == Lobby \in BOOLEAN /\ MaxBrowsers \in Nat /\ MaxCreated \in Nat

Sessions == 0 .. MaxCreated
Pids == UNION {0 .. g.humans + g.ai - 1 : g \in Local \cup Settings}
Browsers == {<<n>> : n \in 1 .. MaxBrowsers}
AIs == Sessions \X Pids
ASSUME NoneAssumption == None \notin Browsers \cup AIs
Conns == Browsers \cup AIs

VARIABLES
  session,  \* [Sessions -> phase, players, humans, ai, spawned, host]
  holder,   \* player_to_ws: [Sessions -> [Pids -> socket or None]]
  held,     \* ws_to_players: [Conns -> the <<session, player>> it plays]
  bound,    \* ServerSessionManager._connections: [Conns -> set of sessions]
  up,       \* the sockets that are open at the client's end
  at,       \* [Conns -> [pc, in]]: where its handler is, in which session
  procs,    \* the AI processes spawned
  forced    \* history: the sessions whose host forced the start

seats == <<holder, held, bound>>
vars == <<session, seats, up, at, procs, forced>>

Phases == {"none", "waiting", "playing", "over", "finished", "retired"}
Places == {"away", "greet", "loop", "created", "assigned", "claimed", "served", "gone"}

TypeOK ==
  /\ session \in [Sessions -> [phase : Phases, players : Nat, humans : Nat, ai : Nat,
                               spawned : BOOLEAN, host : Browsers \cup {None}]]
  /\ holder \in [Sessions -> [Pids -> Conns \cup {None}]]
  /\ held \in [Conns -> SUBSET AIs]
  /\ bound \in [Conns -> SUBSET Sessions]
  /\ up \subseteq Conns
  /\ at \in [Conns -> [pc : Places, in : Sessions]]
  /\ procs \subseteq AIs
  /\ forced \subseteq Sessions

-----------------------------------------------------------------------------
(* What the handlers read. *)

Live(s) == session[s].phase \notin {"none", "retired"}
HumanSlots(s) == 0 .. session[s].humans - 1
OpenSlots(s) == {p \in HumanSlots(s) : holder[s][p] = None}
Seated(h, s) == {p \in Pids : h[s][p] # None}

Fresh(g) == [phase |-> "waiting", players |-> g.humans + g.ai, humans |-> g.humans,
             ai |-> g.ai, spawned |-> FALSE, host |-> None]

Absent == [phase |-> "none", players |-> 0, humans |-> 0, ai |-> 0,
           spawned |-> FALSE, host |-> None]

-----------------------------------------------------------------------------
(* _check_session_progress of a session whose fields are r and whose seats *)
(* are those of h.                                                         *)

SpawnsNow(r, taken) ==
  r.phase = "waiting" /\ ~r.spawned /\ r.ai > 0 /\ 0 .. r.humans - 1 \subseteq taken

Progress_PeopleOnly(s, r, h) ==
  /\ session' = [session EXCEPT ![s] =
       [r EXCEPT !.spawned = @ \/ SpawnsNow(r, Seated(h, s)),
                 !.phase = IF @ = "waiting" /\ 0 .. r.humans - 1 \subseteq Seated(h, s)
                           THEN "playing" ELSE @]]
  /\ procs' = procs \cup {<<s, p>> : p \in IF SpawnsNow(r, Seated(h, s))
                                           THEN r.humans .. r.humans + r.ai - 1 ELSE {}}

Progress(s, r, h) ==
  /\ session' = [session EXCEPT ![s] =
       [r EXCEPT !.spawned = @ \/ SpawnsNow(r, Seated(h, s)),
                 !.phase = IF @ = "waiting" /\ Cardinality(Seated(h, s)) >= r.players
                           THEN "playing" ELSE @]]
  /\ procs' = procs \cup {<<s, p>> : p \in IF SpawnsNow(r, Seated(h, s))
                                           THEN r.humans .. r.humans + r.ai - 1 ELSE {}}

Go(c, pc, s) == at' = [at EXCEPT ![c] = [pc |-> pc, in |-> s]]

(* register_player and bind_connection. *)
Seat(c, s, p) ==
  /\ holder' = [holder EXCEPT ![s][p] = c]
  /\ held' = [held EXCEPT ![c] = @ \cup {<<s, p>>}]
  /\ bound' = [bound EXCEPT ![c] = @ \cup {s}]

(* _assign_human up to its await: the first open slot. *)
AssignHuman(c, s) ==
  \E p \in OpenSlots(s) : (\A q \in OpenSlots(s) : p <= q) /\ Seat(c, s, p)

-----------------------------------------------------------------------------
(* A connection arrives: the handler of serve.  While the default session  *)
(* has an open slot whoever comes gets it, an AI process too.              *)
Arrive(c) ==
  /\ at[c].pc = "away"
  /\ \/ c \in procs
     \/ c \in Browsers /\ \A n \in 1 .. c[1] - 1 : at[<<n>>].pc # "away"
  /\ up' = up \cup {c}
  /\ IF Live(0) /\ OpenSlots(0) # {}
     THEN AssignHuman(c, 0) /\ Go(c, "greet", 0)
     ELSE Go(c, "loop", 0) /\ UNCHANGED seats
  /\ UNCHANGED <<session, procs, forced>>

(* The awaits that have something after them: a send that succeeds goes    *)
(* on.                                                                     *)
Greeted(c) ==
  /\ at[c].pc = "greet" /\ c \in up
  /\ Progress(0, session[0], holder) /\ Go(c, "loop", 0)
  /\ UNCHANGED <<seats, up, forced>>

(* After game_created the host is given a slot, like anyone who joins: by  *)
(* then others can have taken them all, and even played and left.          *)
Created(c) ==
  LET s == at[c].in IN
  /\ at[c].pc = "created" /\ c \in up
  /\ \/ Live(s) /\ OpenSlots(s) # {} /\ AssignHuman(c, s) /\ Go(c, "assigned", s)
     \/ ~(Live(s) /\ OpenSlots(s) # {}) /\ Go(c, "loop", 0) /\ UNCHANGED seats
  /\ UNCHANGED <<session, up, procs, forced>>

Assigned_NoCheck(c) ==
  /\ at[c].pc \in {"assigned", "claimed"} /\ c \in up /\ Go(c, "loop", 0)
  /\ UNCHANGED <<seats, session, procs, up, forced>>

Assigned(c) ==
  LET s == at[c].in IN
  /\ at[c].pc \in {"assigned", "claimed"} /\ c \in up
  /\ Progress(s, session[s], holder) /\ Go(c, "loop", 0)
  /\ UNCHANGED <<seats, up, forced>>

-----------------------------------------------------------------------------
(* The messages. *)

Serving(c) == at[c].pc = "loop" /\ c \in up

CreateGame(c, g) ==
  /\ Serving(c) /\ c \in Browsers /\ g.humans > 0
  /\ \E s \in Sessions \ {0} :
       /\ session[s].phase = "none" /\ (\A t \in 1 .. s - 1 : session[t].phase # "none")
       /\ session' = [session EXCEPT ![s] = [Fresh(g) EXCEPT !.host = c]]
       /\ Go(c, "created", s)
  /\ UNCHANGED <<seats, up, procs, forced>>

JoinGame(c, s) ==
  /\ Serving(c) /\ c \in Browsers /\ Live(s)
  /\ AssignHuman(c, s) /\ Go(c, "assigned", s)
  /\ UNCHANGED <<session, up, procs, forced>>

(* claim_player: only in the default session, in place of the socket that  *)
(* has the slot if the client insists.                                     *)
Replace_KeepsOld(c, old, p) ==
  /\ held' = [held EXCEPT ![c] = @ \cup {<<0, p>>}]
  /\ bound' = [bound EXCEPT ![c] = @ \cup {0}]
  /\ UNCHANGED up

Replace(c, old, p) ==
  LET last == held[old] \cap ({0} \X Pids) = {<<0, p>>} IN
  /\ held' = [held EXCEPT ![old] = @ \ {<<0, p>>}, ![c] = @ \cup {<<0, p>>}]
  /\ bound' = [bound EXCEPT ![c] = @ \cup {0}, ![old] = IF last THEN @ \ {0} ELSE @]
  /\ up' = IF last THEN up \ {old} ELSE up

ClaimPlayer(c, p, force) ==
  LET old == holder[0][p] IN
  /\ Serving(c) /\ c \in Browsers /\ Live(0) /\ p \in HumanSlots(0)
  /\ \/ old = None /\ Seat(c, 0, p) /\ UNCHANGED up
     \/ old = c /\ UNCHANGED <<holder, held, up>> /\ bound' = [bound EXCEPT ![c] = @ \cup {0}]
     \/ /\ old \notin {None, c} /\ force
        /\ holder' = [holder EXCEPT ![0][p] = c] /\ Replace(c, old, p)
  /\ Go(c, "claimed", 0)
  /\ UNCHANGED <<session, procs, forced>>

(* An AI process says who it is, once; there is no await before the check. *)
Identify(c) ==
  /\ Serving(c) /\ c \in AIs
  /\ LET s == c[1] p == c[2] IN
     IF Live(s) /\ holder[s][p] = None
     THEN Seat(c, s, p) /\ Progress(s, session[s], holder')
     ELSE UNCHANGED <<seats, session, procs>>
  /\ Go(c, "served", 0)
  /\ UNCHANGED <<up, forced>>

(* The host forces the start: fill_open_human_slots_with_ai, and the usual *)
(* check.  Neither the players nor their numbers change.                   *)
Filled(s) ==
  LET open == Cardinality(OpenSlots(s)) IN
  [session[s] EXCEPT !.humans = @ - open, !.ai = @ + open]

StartGame(c, s) ==
  /\ Serving(c) /\ Live(s) /\ session[s].host = c /\ session[s].phase = "waiting"
  /\ Progress(s, Filled(s), holder)
  /\ forced' = forced \cup {s}
  /\ UNCHANGED <<seats, up, at>>

-----------------------------------------------------------------------------
(* Connections end. *)

(* A browser closes or fails at any time; an AI process when it is told    *)
(* that the game is over, or terminated.                                   *)
Lose(c) ==
  /\ c \in up
  /\ c \in AIs => session[c[1]].phase \in {"over", "finished", "retired"}
  /\ up' = up \ {c}
  /\ UNCHANGED <<session, seats, at, procs, forced>>

(* The first send fails: the handler of serve ends, outside the try whose  *)
(* finally clause gives the slot back.                                     *)
GreetingFails(c) ==
  /\ at[c].pc = "greet" /\ c \notin up
  /\ Go(c, "gone", 0)
  /\ UNCHANGED <<session, seats, up, procs, forced>>

(* The finally clause of _handle_client.  remove_connection frees what     *)
(* ws_to_players says; then the binding goes, and then the session if it   *)
(* was the last one of a finished game.                                    *)
Retires_BeforeUnbind(c, s) ==
  s # 0 /\ session[s].phase = "finished" /\ \A d \in Conns : s \notin bound[d]

Retires(c, s) ==
  s # 0 /\ session[s].phase = "finished" /\ \A d \in Conns \ {c} : s \notin bound[d]

Finally_KeepsSeats(c) ==
  /\ at[c].pc \notin {"away", "greet", "gone"} /\ c \notin up
  /\ bound' = [bound EXCEPT ![c] = {}]
  /\ session' = [s \in Sessions |-> IF s \in bound[c] /\ Retires(c, s)
                                    THEN [session[s] EXCEPT !.phase = "retired"]
                                    ELSE session[s]]
  /\ Go(c, "gone", 0)
  /\ UNCHANGED <<holder, held, up, procs, forced>>

Finally(c) ==
  LET freed == {x \in held[c] : x[1] \in bound[c]} IN
  /\ at[c].pc \notin {"away", "greet", "gone"} /\ c \notin up
  /\ holder' = [s \in Sessions |-> [p \in Pids |->
                  IF <<s, p>> \in freed THEN None ELSE holder[s][p]]]
  /\ held' = [held EXCEPT ![c] = @ \ freed]
  /\ bound' = [bound EXCEPT ![c] = {}]
  /\ session' = [s \in Sessions |-> IF s \in bound[c] /\ Retires(c, s)
                                    THEN [session[s] EXCEPT !.phase = "retired"]
                                    ELSE session[s]]
  /\ Go(c, "gone", 0)
  /\ UNCHANGED <<up, procs, forced>>

(* The game thread: the end of the game is announced, and the AIs told to  *)
(* stop, before the session is marked.  The end of the default session is  *)
(* the end of the server.                                                  *)
GameOver(s) ==
  /\ s # 0 /\ session[s].phase = "playing"
  /\ session' = [session EXCEPT ![s].phase = "over"]
  /\ UNCHANGED <<seats, up, at, procs, forced>>

MarkFinished(s) ==
  /\ session[s].phase = "over"
  /\ session' = [session EXCEPT ![s].phase = "finished"]
  /\ UNCHANGED <<seats, up, at, procs, forced>>

-----------------------------------------------------------------------------
(* serve checks the default session once before anyone comes: a game of    *)
(* AIs only gets its processes then.                                       *)
Init ==
  /\ \E default \in {Fresh(g) : g \in Local} \cup (IF Lobby THEN {Absent} ELSE {}) :
       LET spawns == default.phase # "none" /\ SpawnsNow(default, {})
       IN /\ session = [s \in Sessions |->
                          IF s = 0 THEN [default EXCEPT !.spawned = spawns] ELSE Absent]
          /\ procs = {<<0, p>> : p \in IF spawns THEN 0 .. default.ai - 1 ELSE {}}
  /\ holder = [s \in Sessions |-> [p \in Pids |-> None]]
  /\ held = [c \in Conns |-> {}] /\ bound = [c \in Conns |-> {}]
  /\ up = {} /\ forced = {}
  /\ at = [c \in Conns |-> [pc |-> "away", in |-> 0]]

Messages(c) ==
  \/ \E g \in Settings : CreateGame(c, g)
  \/ \E s \in Sessions : JoinGame(c, s) \/ StartGame(c, s)
  \/ \E p \in Pids, force \in BOOLEAN : ClaimPlayer(c, p, force)

Resumes(c) ==
  Greeted(c) \/ Created(c) \/ Assigned(c) \/ GreetingFails(c) \/ Finally(c)

Next ==
  \/ \E c \in Conns : Arrive(c) \/ Messages(c) \/ Identify(c) \/ Resumes(c) \/ Lose(c)
  \/ \E s \in Sessions : GameOver(s) \/ MarkFinished(s)

Spec == Init /\ [][Next]_vars

(* The event loop comes back to every handler, and an AI process that was  *)
(* spawned connects and says who it is.  Browsers and games owe nothing.   *)
FairSpec ==
  /\ Spec
  /\ \A c \in Conns : WF_vars(Resumes(c))
  /\ \A c \in AIs : WF_vars(Arrive(c)) /\ WF_vars(Identify(c))

-----------------------------------------------------------------------------
(* Properties. *)

(* GameSession: player_to_ws and ws_to_players say the same, and a player  *)
(* has a socket that the manager knows to be in that session: what the     *)
(* finally clause of a socket frees is exactly what is its own, whatever   *)
(* was claimed from it in between.                                         *)
SlotsAgree ==
  TypeOK /\ \A s \in Sessions, c \in Conns : Live(s) =>
    /\ \A p \in Pids : holder[s][p] = c <=> <<s, p>> \in held[c]
    /\ (\E p \in Pids : holder[s][p] = c) => s \in bound[c]

(* claim_human, remove_connection: a player is taken from an open socket   *)
(* only by a browser that claims it, in the default session.               *)
KeepsSeat ==
  [][\A s \in Sessions, p \in Pids :
       holder[s][p] \in up /\ holder'[s][p] # holder[s][p]
         => s = 0 /\ holder'[s][p] \in Browsers]_vars

(* is_ready_to_start counts the entries of player_to_ws: when a game       *)
(* starts, they are its players, each with a socket of its own session     *)
(* bound to it, and the game thread asks nobody who never came.  A forced  *)
(* start waits for the AIs in the seats it fills as any other.             *)
StartsFull ==
  [][\A s \in Sessions :
       session[s].phase = "waiting" /\ session'[s].phase = "playing"
         => /\ Seated(holder', s) = 0 .. session'[s].players - 1
            /\ \A p \in Seated(holder', s) : s \in bound'[holder'[s][p]]]_vars

Bound(b, s) == {c \in Conns : s \in b[c]}

(* _retire_finished_session: a session is forgotten only after its game    *)
(* and when no open socket plays in it; and the last socket that leaves a  *)
(* finished game takes the session with it, so that lobby sessions do not  *)
(* pile up when players stay to the end.                                   *)
RetiresWithLast ==
  [][\A s \in Sessions :
       /\ (session'[s].phase = "retired" /\ session[s].phase # "retired")
            => session[s].phase = "finished" /\ \A p \in Pids : holder[s][p] \notin up
       /\ (s # 0 /\ session[s].phase = "finished" /\ Bound(bound, s) # {} /\ Bound(bound', s) = {})
            => session'[s].phase = "retired"]_vars

(* A player whose socket is lost becomes open again, unless the socket was *)
(* lost while it was greeted: then nothing gives it back but a claim.      *)
SeatComesBack ==
  \A s \in Sessions, p \in Pids :
    (holder[s][p] \notin up \cup {None})
      ~> \/ holder[s][p] \in up \cup {None}
         \/ s = 0 /\ at[holder[s][p]].pc = "gone"

(* _check_session_progress: when the people a game waits for stay, the     *)
(* AIs are spawned, they come and the game starts; unless a browser claims *)
(* the seat that an AI process of the default session was given by serve:  *)
(* the process goes with its socket, and is not spawned again.             *)
FullStarts ==
  \A s \in Sessions :
    (<>[](/\ Live(s) /\ s \notin forced /\ \A p \in HumanSlots(s) : holder[s][p] \in up
          /\ \A c \in procs : at[c].pc = "away" \/ c \in up))
      => <>(session[s].phase \notin {"none", "waiting"})

=============================================================================
