------------------------------ MODULE MCLobby ------------------------------
(* Instances of Lobby for TLC: how many connections, codes and faults. *)
EXTENDS Lobby, TLC

\* Connections and codes are interchangeable (safety runs only).
Symmetry == Permutations(Conns) \cup Permutations(Codes)
=============================================================================
