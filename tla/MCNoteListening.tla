-------------------------- MODULE MCNoteListening ---------------------------
(* Instances of NoteListening for TLC: a piano of four keys, one name twice. *)
EXTENDS NoteListening

MCPitches == {"C4", "C5", "D4", "E4"}
MCNameOf == [p \in MCPitches |->
                CASE p \in {"C4", "C5"} -> "C" [] p = "D4" -> "D" [] p = "E4" -> "E"]
=============================================================================
