---------------------------- MODULE MCScoreboard ----------------------------
(* Instances of Scoreboard for TLC: how many rooms, scores, lines, inodes. *)
EXTENDS Scoreboard

MCScores1 == {1}
MCScores2 == {1, 2}
MCInodes == 1..8
=============================================================================
