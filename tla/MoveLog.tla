------------------------------- MODULE MoveLog -------------------------------
(***************************************************************************)
(* The game log while a player walks: messages are buffered, flushed to    *)
(* the clients, and taken back when a step is undone.  GameLog counts the  *)
(* messages ever produced; a checkpoint remembers that count at each step, *)
(* and an undo asks the clients to drop the difference.                    *)
(*                                                                         *)
(* A message is the number of the step that produced it.  A definition     *)
(* with an underscore is a faulty variant of the next one, used by none.   *)
(***************************************************************************)
EXTENDS Integers, Sequences

CONSTANTS
  MaxPerStep,   \* bound: messages one step logs (moved, then what it caused)
  MaxSteps,     \* bound: steps taken on one walk
  MaxMessages   \* bound: messages ever logged

ASSUME BoundsAssumption == MaxPerStep \in Nat /\ MaxSteps \in Nat /\ MaxMessages \in Nat

VARIABLES
  buffer,       \* GameLog.messages
  flushed,      \* GameLog._flushed_count
  shown,        \* the log a client displays
  checkpoints,  \* _move_log_checkpoints
  asked,        \* the player is at a prompt, which flushed the log
  step,         \* the number of the next step of the walk
  shownAt,      \* history: the log shown when each step not yet undone began
  undone        \* history: some step of this walk has been undone

vars == <<buffer, flushed, shown, checkpoints, asked, step, shownAt, undone>>

TotalCount_BufferedOnly == Len(buffer)
TotalCount == flushed + Len(buffer)
AllBut(s, n) == SubSeq(s, 1, IF n > Len(s) THEN 0 ELSE Len(s) - n)
Same(m, n) == [i \in 1 .. n |-> m]

Init ==
  /\ buffer = <<>> /\ flushed = 0 /\ shown = <<>>
  /\ checkpoints = <<>> /\ asked = FALSE /\ step = 0
  /\ shownAt = <<>> /\ undone = FALSE

(* PlayerInput.notify: what was buffered goes out to the clients. *)
Flushed(sent) ==
  /\ buffer' = <<>>
  /\ flushed' = flushed + Len(sent)
  /\ shown' = shown \o sent

(* A turn or a bonus roll begins: its header is logged, and there is       *)
(* nothing left to undo.                                                   *)
NewWalk ==
  /\ TotalCount < MaxMessages
  /\ step' = 0 /\ asked' = FALSE
  /\ checkpoints' = <<>> /\ shownAt' = <<>> /\ undone' = FALSE
  /\ LET sent == buffer \o <<0>> IN Flushed(sent)

(* Every question flushes the log before it is sent. *)
Ask ==
  /\ ~asked /\ asked' = TRUE
  /\ Flushed(buffer)
  /\ UNCHANGED <<checkpoints, step, shownAt, undone>>

(* A valid path choice: the checkpoint is taken, then the step logs.       *)
Step ==
  /\ asked /\ Len(checkpoints) < MaxSteps
  /\ checkpoints' = Append(checkpoints, TotalCount)
  /\ shownAt' = Append(shownAt, shown)
  /\ step' = step + 1 /\ asked' = FALSE
  /\ \E n \in 1 .. MaxPerStep, told \in BOOLEAN :
       /\ TotalCount + n <= MaxMessages
       /\ LET sent == buffer \o Same(step + 1, n) IN
          IF told THEN Flushed(sent)
          ELSE buffer' = sent /\ UNCHANGED <<flushed, shown>>
  /\ UNCHANGED undone

RetractMoveLog_KeepsCheckpoint ==
  LET retract == TotalCount - checkpoints[Len(checkpoints)]
      unflushed == IF Len(buffer) < retract THEN Len(buffer) ELSE retract IN
  /\ buffer' = AllBut(buffer, unflushed)
  /\ shown' = AllBut(shown, retract - unflushed)
  /\ UNCHANGED checkpoints

RetractMoveLog_PopsOldest ==
  LET retract == TotalCount - checkpoints[Len(checkpoints)]
      unflushed == IF Len(buffer) < retract THEN Len(buffer) ELSE retract IN
  /\ buffer' = AllBut(buffer, unflushed)
  /\ shown' = AllBut(shown, retract - unflushed)
  /\ checkpoints' = Tail(checkpoints)

(* _retract_move_log: the count is the messages produced since the         *)
(* checkpoint; those still buffered go first, the clients drop the rest.   *)
RetractMoveLog ==
  LET retract == TotalCount - checkpoints[Len(checkpoints)]
      unflushed == IF Len(buffer) < retract THEN Len(buffer) ELSE retract IN
  /\ buffer' = AllBut(buffer, unflushed)
  /\ shown' = AllBut(shown, retract - unflushed)
  /\ checkpoints' = AllBut(checkpoints, 1)

Undo ==
  /\ asked /\ checkpoints # <<>>
  /\ RetractMoveLog
  /\ step' = step - 1 /\ asked' = FALSE
  /\ shownAt' = AllBut(shownAt, 1) /\ undone' = TRUE
  /\ UNCHANGED flushed

Next == NewWalk \/ Ask \/ Step \/ Undo
Spec == Init /\ [][Next]_vars

-----------------------------------------------------------------------------
TypeOK ==
  /\ flushed \in Nat /\ step \in Nat
  /\ asked \in BOOLEAN /\ undone \in BOOLEAN
  /\ Len(checkpoints) = step /\ Len(shownAt) = step
  /\ \A i \in DOMAIN shown : shown[i] \in 0 .. MaxSteps

IsUndo == Len(checkpoints') = Len(checkpoints) - 1 /\ checkpoints # <<>> /\ undone'

(* The first undo of a walk takes back exactly what its step had logged,   *)
(* flushed or not.                                                         *)
FirstUndoExact ==
  [][IsUndo /\ ~undone => shown' \o buffer' = shownAt[Len(shownAt)]]_vars

(* However many steps are undone, no message of an undone step stays on    *)
(* the clients: what is left is an earlier part of the log.                *)
NothingUndoneStays ==
  [][IsUndo => /\ Len(shown') <= Len(shownAt[Len(shownAt)])
               /\ shown' = SubSeq(shownAt[Len(shownAt)], 1, Len(shown'))]_vars

=============================================================================
