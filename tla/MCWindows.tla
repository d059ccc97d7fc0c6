------------------------------ MODULE MCWindows ------------------------------
(* Instances of Windows for TLC: how many windows there are at once. *)
EXTENDS Windows, TLC

\* Addresses are interchangeable.
Symmetry == Permutations(Addresses)
=============================================================================
