----------------------------- MODULE MCNoteRoom -----------------------------
(* Instances of NoteRoom for TLC. *)
EXTENDS NoteRoom
=============================================================================
