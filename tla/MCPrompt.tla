------------------------------ MODULE MCPrompt ------------------------------
(* Two players on the first two sockets; the others are still to come. *)
EXTENDS Prompt

TwoPlayers == {0, 1}
Seats == [p \in Players |-> p + 10]
=============================================================================
