---------------------------- MODULE ScoreEntries ----------------------------
(***************************************************************************)
(* The lines of a scoreboard file, and what writeScore and readScoreboard  *)
(* of src/ServerApp/Scoreboard.h compute from them: inserting, sorting,    *)
(* cutting to the capacity, and the rank a finished game shows.            *)
(***************************************************************************)
EXTENDS Integers, Sequences, FiniteSets, Functions

CONSTANTS
    Rooms,     \* game rooms: forked processes that record scores
    Scores,    \* the scores a game can end with
    Capacity   \* entries kept in the file (50 in the code)

ASSUME ScoresAssumption == Scores \subseteq Int
ASSUME CapacityAssumption == Capacity \in Nat \ {0}

(***************************************************************************)
(* A line "<host> & <guest>:<score>".  A room's two players are named by   *)
(* the room.  User names are letters and digits (UsernameMenu::onConfirm), *)
(* so what fprintf("%s:%d\n") writes, fscanf("%255[^:]:%d\n") reads back.  *)
(***************************************************************************)
Entry == [names : Rooms, score : Scores]

\* What a file or a vector holds: never more than Capacity lines.
Lines == {s \in Seq(Entry) : Len(s) <= Capacity}

Least(S) == CHOOSE i \in S : \A j \in S : i <= j

-----------------------------------------------------------------------------
Ascending(lines) ==
    \A i, j \in DOMAIN lines : i < j => lines[i].score <= lines[j].score

\* std::sort promises no order among equal scores: every ascending arrangement.
Sorted(lines) ==
    LET n == Len(lines)
    IN  {s \in {[i \in 1..n |-> lines[p[i]]] : p \in Bijection(1..n, 1..n)} : Ascending(s)}

\* Mutant: the entry that is too many is taken from the front.
CutFront(lines) ==
    IF Len(lines) > Capacity THEN SubSeq(lines, Len(lines) - Capacity + 1, Len(lines)) ELSE lines

Cut(lines) == IF Len(lines) > Capacity THEN SubSeq(lines, 1, Capacity) ELSE lines

\* The files writeScore may produce when it adds e to a file with these lines.
Inserted(lines, e) == {Cut(s) : s \in Sorted(Append(lines, e))}

\* The first place with an equal score, -1 when there is none.
Rank(lines, score) ==
    LET places == {i \in DOMAIN lines : lines[i].score = score}
    IN  IF places = {} THEN -1 ELSE Least(places)

=============================================================================
