----------------------------- MODULE MCGyroRoom -----------------------------
(* Instances of GyroRoom for TLC. *)
EXTENDS GyroRoom
=============================================================================
