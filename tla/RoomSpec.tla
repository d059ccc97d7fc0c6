------------------------------ MODULE RoomSpec ------------------------------
(***************************************************************************)
(* What a room promises its two players, whichever game they play (src/    *)
(* ServerApp/GameRoom.cpp, src/ClientApp/ClientController.cpp): rounds,    *)
(* one after the other, each with one performer and one communicator.      *)
(* GyroRoom and NoteRoom implement it.                                     *)
(***************************************************************************)
EXTENDS Sequences

Players == {"host", "guest"}
Roles == {"PERFORMER", "COMMUNICATOR"}

VARIABLES
    round,  \* "between" rounds, "played", or "ended": the room is closed
    due,    \* due[p]: the roles p has been given and not yet taken up
    place   \* place[p]: p's role in a session, "out" of one, or "gone"

vars == <<round, due, place>>

TypeOK ==
    /\ round \in {"between", "played", "ended"}
    /\ due \in [Players -> Seq(Roles)]
    /\ place \in [Players -> Roles \cup {"out", "gone"}]

Init ==
    /\ round = "between"
    /\ due = [p \in Players |-> << >>]
    /\ place = [p \in Players |-> "out"]

RoleOf(p, performer) == IF p = performer THEN "PERFORMER" ELSE "COMMUNICATOR"

\* Roles are dealt to those who are still there; the host is in no session.
Begin ==
    /\ round = "between" /\ place["host"] \notin Roles
    /\ round' = "played"
    /\ \E performer \in Players :
          due' = [p \in Players |-> IF place[p] = "gone" THEN due[p]
                                    ELSE Append(due[p], RoleOf(p, performer))]
    /\ UNCHANGED place

Finish ==
    /\ round = "played"
    /\ round' = "between"
    /\ UNCHANGED <<due, place>>

\* Every role that is dealt is taken up once, in the order of the rounds.
Join(p) ==
    /\ place[p] = "out" /\ due[p] # << >>
    /\ place' = [place EXCEPT ![p] = Head(due[p])]
    /\ due' = [due EXCEPT ![p] = Tail(@)]
    /\ UNCHANGED round

Leave(p) ==
    /\ place[p] \in Roles
    /\ place' = [place EXCEPT ![p] = "out"]
    /\ UNCHANGED <<round, due>>

Quit(p) ==
    /\ place[p] # "gone"
    /\ place' = [place EXCEPT ![p] = "gone"]
    /\ due' = [due EXCEPT ![p] = << >>]
    /\ UNCHANGED round

\* The room closes, or dies of a guest who is gone when the host has been told.
End ==
    /\ round # "ended"
    /\ round' = "ended"
    /\ \/ UNCHANGED due
       \/ /\ round = "between" /\ place["guest"] = "gone" /\ place["host"] = "out"
          /\ \E role \in Roles : due' = [due EXCEPT !["host"] = Append(@, role)]
    /\ UNCHANGED place

Next == Begin \/ Finish \/ End \/ \E p \in Players : Join(p) \/ Leave(p) \/ Quit(p)

Spec == Init /\ [][Next]_vars

=============================================================================
