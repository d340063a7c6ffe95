----------------------------- MODULE MCSessions -----------------------------
(* Small games: a person with an AI, and one that two people play.         *)
EXTENDS Sessions

OneAndAI == {[humans |-> 1, ai |-> 1]}
TwoPlayers == OneAndAI \cup {[humans |-> 2, ai |-> 0]}
=============================================================================
