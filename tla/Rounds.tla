------------------------------- MODULE Rounds -------------------------------
(***************************************************************************)
(* What the game promises about turns.  The players sit round a table; one *)
(* of them plays until he wins or his turn closes.  While it closes he may *)
(* be ruined; then it is judged whether too many are out, and only when    *)
(* the game is not over the turn passes, to the first player still in on   *)
(* the way round.  Nobody comes back into the game, and its outcome is     *)
(* settled once.  Dice, squares, events and money are not mentioned.       *)
(***************************************************************************)
EXTENDS Integers, FiniteSets

CONSTANT None

VARIABLES
  seats, limit,   \* the rules: how many sit down, how many may go out
  cur,            \* whose turn it is
  stage,          \* of that turn: "play", "closing" or "judged"
  out,            \* who has been ruined
  over, winner

vars == <<seats, limit, cur, stage, out, over, winner>>

Seats == 0 .. seats - 1
In == Seats \ out

(* How far round the table q sits from p; a full round from himself. *)
Round(p, q) == IF q > p THEN q - p ELSE q - p + seats

Init ==
  /\ seats \in Nat \ {0} /\ limit \in Int
  /\ cur \in Seats /\ stage = "play" /\ out = {}
  /\ over = FALSE /\ winner = None

SameRules == UNCHANGED <<seats, limit>>
SameOutcome == UNCHANGED <<over, winner>>

Win ==
  /\ stage = "play" /\ ~over /\ cur \in In
  /\ over' = TRUE /\ winner' = cur
  /\ SameRules /\ UNCHANGED <<cur, stage, out>>

Close ==
  /\ stage = "play" /\ ~over /\ stage' = "closing"
  /\ SameRules /\ SameOutcome /\ UNCHANGED <<cur, out>>

Ruin ==
  /\ stage = "closing" /\ ~over /\ cur \in In
  /\ out' = out \cup {cur}
  /\ SameRules /\ SameOutcome /\ UNCHANGED <<cur, stage>>

Judge ==
  /\ stage = "closing" /\ ~over /\ stage' = "judged"
  /\ over' = (Cardinality(out) >= limit)
  /\ winner' \in IF over' /\ In # {} THEN In ELSE {None}
  /\ SameRules /\ UNCHANGED <<cur, out>>

Pass ==
  /\ stage = "judged" /\ ~over /\ stage' = "play"
  /\ cur' \in In /\ \A q \in In : Round(cur, cur') <= Round(cur, q)
  /\ SameRules /\ SameOutcome /\ UNCHANGED out

Next == Win \/ Close \/ Ruin \/ Judge \/ Pass

Spec == Init /\ [][Next]_vars
=============================================================================
