------------------------------ MODULE RoomNet -------------------------------
(***************************************************************************)
(* What the rooms of both games share: the room process of GameRoom.cpp    *)
(* between its two sockets, the client programs at their other ends, and   *)
(* the messages of src/Shared/JSONCommunication.h under way.               *)
(***************************************************************************)
EXTENDS Integers, Sequences, FiniteSets

CONSTANTS
    MaxQueue,  \* unread tilts, and unread updates, kept per direction
    MaxBehind  \* messages the guest may be behind, each way, at a Play Again

ASSUME MaxQueueAssumption == MaxQueue \in Nat \ {0}
ASSUME MaxBehindAssumption == MaxBehind \in Nat

Players == {"host", "guest"}
Other(p) == IF p = "host" THEN "guest" ELSE "host"
Roles == {"PERFORMER", "COMMUNICATOR"}

VARIABLES
    performer,  \* the player with the performer's role in this round
    main,       \* where the room's main thread is
    inbox,      \* inbox[p]: commands of p the room has not read
    outbox,     \* outbox[p]: events for p it has not read
    reset,      \* closed clients whose kernel has answered with RST
    client      \* client[p]: where the thread of p's windows is

\* game_start carries the role of the one it is sent to.
Start(role) ==
    IF role = "PERFORMER" THEN "game_start:PERFORMER" ELSE "game_start:COMMUNICATOR"
Starts == {Start(role) : role \in Roles}

\* Mutant: the guest's message is made from the host's (copied and not changed).
StartOfCopied(p, q) == Start(IF q = "host" THEN "PERFORMER" ELSE "COMMUNICATOR")

\* The game_start for p when q is the performer.
StartOf(p, q) == Start(IF p = q THEN "PERFORMER" ELSE "COMMUNICATOR")

Gone(p) == client[p] = "gone"
Ended == main = "ended"

\* What select and read report: a command, or the end of the stream.
Readable(p) == inbox[p] # << >> \/ Gone(p)

\* Of the messages that are sent again every 33 ms, a queue keeps MaxQueue.
Queue(q, m) ==
    IF m \in {"tilt", "update"} /\ Cardinality({i \in DOMAIN q : q[i] = m}) >= MaxQueue
    THEN q
    ELSE Append(q, m)

(***************************************************************************)
(* A sendJson of sent[p] to each player p in sent's domain, first's first. *)
(* The first write to a closed client is answered with RST, the next one   *)
(* kills the process (SIGPIPE): it Dies.  Else Done follows the writes.    *)
(***************************************************************************)
Killed(first, sent) ==
    /\ reset \cap DOMAIN sent # {}
    /\ outbox' = IF first \in DOMAIN sent \ reset /\ ~Gone(first)
                 THEN [outbox EXCEPT ![first] = Queue(@, sent[first])]
                 ELSE outbox
    /\ UNCHANGED reset

Delivered(sent) ==
    /\ reset \cap DOMAIN sent = {}
    /\ reset' = reset \cup {p \in DOMAIN sent : Gone(p)}
    /\ outbox' = [p \in Players |-> IF p \notin DOMAIN sent \/ Gone(p) THEN outbox[p]
                                    ELSE Queue(outbox[p], sent[p])]

Send(first, sent, Done, Dies) ==
    \/ Killed(first, sent) /\ Dies
    \/ Delivered(sent) /\ Done

ToBoth(event) == [p \in Players |-> event]

-----------------------------------------------------------------------------
(* The client programs. *)

Moves(p, place) == client' = [client EXCEPT ![p] = place]

\* A session is over, with the scoreboard or without: the host is asked what
\* is next, the guest waits for the next event.
AfterSession(p) == IF p = "host" THEN "prompt" ELSE "await"

\* A command sent; one sent to a room that has ended is lost.
Command(p, command) ==
    inbox' = IF Ended THEN inbox ELSE [inbox EXCEPT ![p] = Queue(@, command)]

\* The socket is closed, or the program dies; unread events make that a RST.
Close(p, unread) ==
    /\ Moves(p, "gone")
    /\ outbox' = [outbox EXCEPT ![p] = << >>]
    /\ reset' = IF unread = << >> THEN reset ELSE reset \cup {p}

\* awaitGameStart reads any other event, or the end of the stream: it fails,
\* and ClientController::run disconnects.
AwaitFails(p) ==
    /\ client[p] = "await"
    /\ \/ outbox[p] = << >> /\ Ended /\ Close(p, << >>)
       \/ /\ outbox[p] # << >> /\ Head(outbox[p]) \notin Starts
          /\ Close(p, Tail(outbox[p]))

(***************************************************************************)
(* Play Again on the scoreboard, or a game chosen in promptPlayAgain.  The *)
(* host's user does not run away from a guest whose program stands still:  *)
(* the bound keeps the guest's queues finite.                              *)
(***************************************************************************)
AskForRound ==
    /\ client["host"] = "prompt"
    /\ Len(outbox["guest"]) <= MaxBehind /\ Len(inbox["guest"]) <= MaxBehind
    /\ Command("host", "start_game")
    /\ Moves("host", "await")

\* Exit in promptPlayAgain.
LeavePrompt == client["host"] = "prompt" /\ Close("host", outbox["host"])

-----------------------------------------------------------------------------
(* The end of a round in GameRoom::run: the host's next message decides. *)

RoundAskedFor ==
    /\ main = "next" /\ inbox["host"] # << >> /\ Head(inbox["host"]) = "start_game"
    /\ inbox' = [inbox EXCEPT !["host"] = Tail(@)]
    /\ main' = "starting"

\* Any other message, or the end of the stream, ends the room.
NoRoundAskedFor ==
    /\ main = "next" /\ Readable("host")
    /\ inbox["host"] # << >> => Head(inbox["host"]) # "start_game"

\* The roles in the game_starts on their way to p, for the promise of RoomSpec.
RoleIn(event) == IF event = Start("PERFORMER") THEN "PERFORMER" ELSE "COMMUNICATOR"

RolesIn(events) ==
    LET roles[n \in 0..Len(events)] ==
            IF n = 0 THEN << >>
            ELSE IF events[n] \in Starts THEN Append(roles[n - 1], RoleIn(events[n]))
            ELSE roles[n - 1]
    IN  roles[Len(events)]

RolesDue(p) == RolesIn(outbox[p])

InOutbox(p, S) == \E i \in DOMAIN outbox[p] : outbox[p][i] \in S

=============================================================================
