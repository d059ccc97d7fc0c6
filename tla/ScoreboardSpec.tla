--------------------------- MODULE ScoreboardSpec ---------------------------
(***************************************************************************)
(* What a scoreboard promises to the rooms and the readers: a score is     *)
(* inserted in one indivisible step, or, when its room dies or the disk    *)
(* refuses, not at all, and a reader gets a board that was published.      *)
(***************************************************************************)
EXTENDS ScoreEntries

CONSTANTS
    Readers,  \* processes that record nothing
    NoEntry   \* "this process records no score"

Processes == Rooms \cup Readers

VARIABLES
    board,    \* the published lines
    pending,  \* pending[p]: the entry p has still to insert, or NoEntry
    view      \* view[p]: the lines p read last

vars == <<board, pending, view>>

\* Every variable has its type; no board is longer than the capacity.
TypeOK ==
    /\ board \in Lines
    /\ pending \in [Processes -> Entry \cup {NoEntry}]
    /\ view \in [Processes -> Lines]

Init ==
    /\ board = << >>
    /\ pending = [p \in Processes |-> NoEntry]
    /\ view = [p \in Processes |-> << >>]

Submit(r) ==
    /\ pending[r] = NoEntry
    /\ \E s \in Scores : pending' = [pending EXCEPT ![r] = [names |-> r, score |-> s]]
    /\ view' = [view EXCEPT ![r] = << >>]
    /\ UNCHANGED board

Insert(r) ==
    /\ pending[r] # NoEntry
    /\ board' \in Inserted(board, pending[r])
    /\ pending' = [pending EXCEPT ![r] = NoEntry]
    /\ UNCHANGED view

Lose(r) ==
    /\ pending[r] # NoEntry
    /\ pending' = [pending EXCEPT ![r] = NoEntry]
    /\ UNCHANGED <<board, view>>

Read(p) ==
    /\ pending[p] = NoEntry
    /\ view' = [view EXCEPT ![p] = board]
    /\ UNCHANGED <<board, pending>>

Forget(p) ==
    /\ view' = [view EXCEPT ![p] = << >>]
    /\ UNCHANGED <<board, pending>>

Next ==
    \/ \E r \in Rooms : Submit(r) \/ Insert(r) \/ Lose(r)
    \/ \E p \in Processes : Read(p) \/ Forget(p)

Spec == Init /\ [][Next]_vars

-----------------------------------------------------------------------------
(***************************************************************************)
(* A line leaves the leaderboard only when Capacity lines that are no      *)
(* worse fill it.                                                          *)
(***************************************************************************)
LostOnlyToBetter ==
    [][\A e \in Range(board) \ Range(board') :
          /\ Len(board') = Capacity
          /\ \A f \in Range(board') : f.score <= e.score]_vars

=============================================================================
