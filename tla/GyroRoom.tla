------------------------------ MODULE GyroRoom ------------------------------
(***************************************************************************)
(* One room process playing GyroPi rounds (src/ServerApp/GameRoom.cpp and  *)
(* GyroPi/GyroPiGame.h) and its two client programs from game_start on     *)
(* (src/ClientApp/ClientController.cpp and GyroPi/GyroPiSession.cpp).      *)
(*                                                                         *)
(* The room process has a main thread, which reads both sockets, and a     *)
(* physics thread, which ticks every 33 ms; a client has the thread of its *)
(* windows, a receiver and, for the performer, a sender of tilts.  Where   *)
(* the ball rolls is left open: any tick may hit a hole or the goal.  A    *)
(* tick is one step, so the mutex that it shares with the handling of a    *)
(* tilt is never seen taken.                                               *)
(***************************************************************************)
EXTENDS RoomNet

CONSTANTS
    Exits,     \* the players who press EXIT
    Crashes    \* TRUE: a client program may be killed

ASSUME ExitsAssumption == Exits \subseteq Players
ASSUME CrashesAssumption == Crashes \in BOOLEAN

\* In a session, client[p] is p's role.
VARIABLES
    physics,    \* where the physics thread is
    running,    \* isRunning_
    run,        \* run[p]: isRunning of p's session
    receiver,   \* receiver[p]: p's receiver thread reads
    sender      \* sender[p]: p's sender thread sends

roomVars == <<performer, main, physics, running>>
sessionVars == <<run, receiver, sender>>
vars == <<performer, main, physics, running, inbox, outbox, reset, client, run, receiver,
          sender>>

Commands == {"tilt", "exit_game", "start_game"}
\* "update" is any event a session shows and goes on after: course_info,
\* ball_update, tilt_feedback and blackhole_hit.
Events == Starts \cup {"update", "game_over", "game_exit"}
LastEvents == {"game_over", "game_exit"}

\* Every variable has its type, and the threads of a client's session, which
\* use the variables of its function, run only while it is in that function.
TypeOK ==
    /\ performer \in Players
    /\ main \in {"starting", "course", "select", "second", "exiting", "join", "next", "ended"}
    /\ physics \in {"off", "on", "goal"}
    /\ running \in BOOLEAN
    /\ inbox \in [Players -> Seq(Commands)]
    /\ outbox \in [Players -> Seq(Events)]
    /\ reset \in SUBSET Players
    /\ client \in [Players -> Roles \cup {"await", "prompt", "gone"}]
    /\ run \in [Players -> BOOLEAN]
    /\ receiver \in [Players -> BOOLEAN]
    /\ sender \in [Players -> BOOLEAN]
    /\ \A p \in Players : run[p] \/ receiver[p] \/ sender[p] => client[p] \in Roles

-----------------------------------------------------------------------------
(* GameRoom::run and the main thread of GyroPiGame::run. *)

Init ==
    /\ performer = "host"
    /\ main = "starting" /\ physics = "off" /\ running = FALSE
    /\ inbox = [p \in Players |-> << >>]
    /\ outbox = [p \in Players |-> << >>]
    /\ reset = {}
    /\ client = [p \in Players |-> "await"]
    /\ run = [p \in Players |-> FALSE]
    /\ receiver = [p \in Players |-> FALSE]
    /\ sender = [p \in Players |-> FALSE]

\* The process ends: its threads stop, both sockets close, nothing is read.
RoomEnds ==
    /\ main' = "ended" /\ physics' = "off" /\ running' = FALSE
    /\ inbox' = [p \in Players |-> << >>]
    /\ UNCHANGED performer

\* Mutant: game_start is sent before the roles are assigned.
StartRoundOldRoles ==
    /\ main = "starting"
    /\ \E q \in Players :
          Send("host", [p \in Players |-> StartOf(p, performer)],
               performer' = q /\ main' = "course" /\ UNCHANGED <<physics, running, inbox>>,
               RoomEnds)
    /\ UNCHANGED <<client, sessionVars>>

\* assignRoles and sendGameStart.
StartRound ==
    /\ main = "starting"
    /\ \E q \in Players :
          Send("host", [p \in Players |-> StartOf(p, q)],
               performer' = q /\ main' = "course" /\ UNCHANGED <<physics, running, inbox>>,
               RoomEnds)
    /\ UNCHANGED <<client, sessionVars>>

\* The head of GyroPiGame::run: course_info to the communicator, and the
\* physics thread is started.
StartPhysics ==
    /\ main = "course"
    /\ Send(Other(performer), [p \in Players \ {performer} |-> "update"],
            /\ main' = "select" /\ physics' = "on" /\ running' = TRUE
            /\ UNCHANGED <<performer, inbox>>,
            RoomEnds)
    /\ UNCHANGED <<client, sessionVars>>

\* select has both sockets at once, and the performer's is read first.
Turn(p) ==
    /\ Readable(p)
    /\ \/ main = "select" /\ (p = performer \/ ~Readable(performer))
       \/ main = "second" /\ p # performer

\* Mutant: back to select after one message (continue).
AfterTurnAgain(p) == main' = IF running THEN "select" ELSE "join"

\* The other socket if it was readable too, then while (isRunning_).
AfterTurn(p) ==
    main' = IF p = performer /\ Readable(Other(p)) THEN "second"
            ELSE IF running THEN "select" ELSE "join"

\* The 100 ms are over; while the game runs that only leads back to select.
SelectTimeout ==
    /\ main = "select" /\ ~running
    /\ main' = "join"
    /\ UNCHANGED <<performer, physics, running, inbox, outbox, reset, client, sessionVars>>

\* End of stream.
ServeEnd(p) ==
    /\ Turn(p) /\ inbox[p] = << >>
    /\ running' = FALSE
    /\ main' = "join"
    /\ UNCHANGED <<performer, physics, inbox, outbox, reset, client, sessionVars>>

\* A tilt, which goes to the physics, or a command that means nothing here.
ServeCommand(p) ==
    /\ Turn(p) /\ inbox[p] # << >> /\ Head(inbox[p]) # "exit_game"
    /\ inbox' = [inbox EXCEPT ![p] = Tail(@)]
    /\ AfterTurn(p)
    /\ UNCHANGED <<performer, physics, running, outbox, reset, client, sessionVars>>

ServeExit(p) ==
    /\ Turn(p) /\ inbox[p] # << >> /\ Head(inbox[p]) = "exit_game"
    /\ inbox' = [inbox EXCEPT ![p] = Tail(@)]
    /\ running' = FALSE
    /\ main' = "exiting"
    /\ UNCHANGED <<performer, physics, outbox, reset, client, sessionVars>>

\* Mutant: game_exit to the performer only.
SendExitToOne ==
    /\ main = "exiting"
    /\ Send(performer, [p \in {performer} |-> "game_exit"],
            main' = "join" /\ UNCHANGED <<performer, physics, running, inbox>>, RoomEnds)
    /\ UNCHANGED <<client, sessionVars>>

SendExit ==
    /\ main = "exiting"
    /\ Send(performer, ToBoth("game_exit"),
            main' = "join" /\ UNCHANGED <<performer, physics, running, inbox>>, RoomEnds)
    /\ UNCHANGED <<client, sessionVars>>

\* Mutant: the physics thread is left to itself (detach).
JoinNothing ==
    /\ main = "join"
    /\ main' = "next"
    /\ UNCHANGED <<performer, physics, running, inbox, outbox, reset, client, sessionVars>>

\* physicsThread.join()
Join ==
    /\ main = "join" /\ physics = "off"
    /\ main' = "next"
    /\ UNCHANGED <<performer, physics, running, inbox, outbox, reset, client, sessionVars>>

NextRound ==
    /\ RoundAskedFor
    /\ UNCHANGED <<performer, physics, running, outbox, reset, client, sessionVars>>

NoNextRound ==
    /\ NoRoundAskedFor
    /\ RoomEnds
    /\ UNCHANGED <<outbox, reset, client, sessionVars>>

-----------------------------------------------------------------------------
(* GyroPiGame::physicsLoop. *)

(***************************************************************************)
(* A tick on the course or in a hole: updates for both players.  The       *)
(* loop's condition is looked at before the sleep, so there may be one     *)
(* more tick when the game runs no longer.                                 *)
(***************************************************************************)
Tick ==
    /\ physics = "on"
    /\ \E first \in Players :
          Send(first, ToBoth("update"),
               /\ physics' = IF running THEN "on" ELSE "off"
               /\ UNCHANGED <<performer, main, running, inbox>>,
               RoomEnds)
    /\ UNCHANGED <<client, sessionVars>>

\* while (isRunning_)
LastTickDone ==
    /\ physics = "on" /\ ~running
    /\ physics' = "off"
    /\ UNCHANGED <<performer, main, running, inbox, outbox, reset, client, sessionVars>>

\* A tick into the goal: the score is recorded, and both players are told.
Goal ==
    /\ physics = "on"
    /\ Send(performer, ToBoth("game_over"),
            physics' = "goal" /\ UNCHANGED <<performer, main, running, inbox>>, RoomEnds)
    /\ UNCHANGED <<client, sessionVars>>

\* isRunning_ = false; return
GoalDone ==
    /\ physics = "goal"
    /\ physics' = "off" /\ running' = FALSE
    /\ UNCHANGED <<performer, main, inbox, outbox, reset, client, sessionVars>>

-----------------------------------------------------------------------------
(* The client programs. *)

Playing(p) == client[p] \in Roles

\* awaitGameStart succeeds and a session starts its threads.
GameStarts(p) ==
    /\ client[p] = "await" /\ outbox[p] # << >>
    /\ \E r \in Roles :
          /\ Head(outbox[p]) = Start(r)
          /\ Moves(p, r)
          /\ sender' = [sender EXCEPT ![p] = (r = "PERFORMER")]
    /\ outbox' = [outbox EXCEPT ![p] = Tail(@)]
    /\ run' = [run EXCEPT ![p] = TRUE]
    /\ receiver' = [receiver EXCEPT ![p] = TRUE]
    /\ UNCHANGED <<roomVars, inbox, reset>>

GameStartFails(p) ==
    /\ AwaitFails(p)
    /\ UNCHANGED <<roomVars, inbox, sessionVars>>

\* The receiver reads an event that goes on: it looks at isRunning and reads.
ReceiveOther(p) ==
    /\ receiver[p]
    /\ outbox[p] # << >> /\ Head(outbox[p]) \notin LastEvents
    /\ outbox' = [outbox EXCEPT ![p] = Tail(@)]
    /\ receiver' = [receiver EXCEPT ![p] = run[p]]
    /\ UNCHANGED <<roomVars, inbox, reset, client, run, sender>>

\* The receiver reads game_over, game_exit or the end of the stream.
ReceiveLast(p) ==
    /\ receiver[p]
    /\ \/ /\ outbox[p] # << >> /\ Head(outbox[p]) \in LastEvents
          /\ outbox' = [outbox EXCEPT ![p] = Tail(@)]
       \/ /\ outbox[p] = << >> /\ Ended
          /\ UNCHANGED outbox
    /\ run' = [run EXCEPT ![p] = FALSE]
    /\ receiver' = [receiver EXCEPT ![p] = FALSE]
    /\ UNCHANGED <<roomVars, inbox, reset, client, sender>>

\* The sender sends a tilt, the last one perhaps after isRunning was cleared.
SendTilt(p) ==
    /\ sender[p]
    /\ Command(p, "tilt")
    /\ sender' = [sender EXCEPT ![p] = run[p]]
    /\ UNCHANGED <<roomVars, outbox, reset, client, run, receiver>>

\* The sender ends, with the session or at the end of its hard-coded path.
SenderEnds(p) ==
    /\ sender[p]
    /\ sender' = [sender EXCEPT ![p] = FALSE]
    /\ UNCHANGED <<roomVars, inbox, outbox, reset, client, run, receiver>>

\* sendExitAndQuit, from the window.
PressExit(p) ==
    /\ run[p] /\ p \in Exits
    /\ run' = [run EXCEPT ![p] = FALSE]
    /\ Command(p, "exit_game")
    /\ UNCHANGED <<roomVars, outbox, reset, client, receiver, sender>>

\* Mutant: the window closes without joining the receiver.
SessionEndsUnjoined(p) ==
    /\ Playing(p) /\ ~run[p] /\ ~sender[p]
    /\ Moves(p, AfterSession(p))
    /\ UNCHANGED <<roomVars, inbox, outbox, reset, sessionVars>>

\* loop.exec() returns and the window's thread joins the other two.
SessionEnds(p) ==
    /\ Playing(p) /\ ~run[p] /\ ~receiver[p] /\ ~sender[p]
    /\ Moves(p, AfterSession(p))
    /\ UNCHANGED <<roomVars, inbox, outbox, reset, sessionVars>>

PlayAgain ==
    /\ AskForRound
    /\ UNCHANGED <<roomVars, outbox, reset, sessionVars>>

HostLeaves ==
    /\ LeavePrompt
    /\ UNCHANGED <<roomVars, inbox, sessionVars>>

\* Killed, by SIGPIPE when it writes to a room that has ended, or otherwise.
ClientDies(p) ==
    /\ ~Gone(p)
    /\ Crashes \/ (Ended /\ sender[p])
    /\ Close(p, outbox[p])
    /\ run' = [run EXCEPT ![p] = FALSE]
    /\ receiver' = [receiver EXCEPT ![p] = FALSE]
    /\ sender' = [sender EXCEPT ![p] = FALSE]
    /\ UNCHANGED <<roomVars, inbox>>

-----------------------------------------------------------------------------
MainStep ==
    \/ StartRound \/ StartPhysics \/ SendExit \/ SelectTimeout \/ Join \/ NextRound \/ NoNextRound
    \/ \E p \in Players : ServeEnd(p) \/ ServeCommand(p) \/ ServeExit(p)

PhysicsStep == Tick \/ LastTickDone \/ Goal \/ GoalDone

ReceiverStep(p) == ReceiveOther(p) \/ ReceiveLast(p)
SenderStep(p) == SendTilt(p) \/ SenderEnds(p)
WindowStep(p) == GameStarts(p) \/ GameStartFails(p) \/ SessionEnds(p)

UserStep == PlayAgain \/ HostLeaves \/ \E p \in Players : PressExit(p)

Next ==
    \/ MainStep \/ PhysicsStep \/ UserStep
    \/ \E p \in Players :
          ReceiverStep(p) \/ SenderStep(p) \/ WindowStep(p) \/ ClientDies(p)

Spec == Init /\ [][Next]_vars

\* Every thread is scheduled; nobody has to press anything, or to die.
Fairness ==
    /\ WF_vars(MainStep) /\ WF_vars(PhysicsStep)
    /\ \A p \in Players :
          WF_vars(ReceiverStep(p)) /\ WF_vars(SenderStep(p)) /\ WF_vars(WindowStep(p))

FairSpec == Spec /\ Fairness

-----------------------------------------------------------------------------
(* Properties. *)

(***************************************************************************)
(* While a round is played, a client in a session that has no game_start   *)
(* left to read plays the role the room has given it in this round.        *)
(***************************************************************************)
RolesAgree ==
    main \in {"select", "second"} =>
        \A p \in Players : Playing(p) /\ ~InOutbox(p, Starts) =>
            (client[p] = "PERFORMER" <=> p = performer)

(***************************************************************************)
(* The game_start of a round is never read, and dropped as unknown, by the *)
(* receiver of the round before.                                           *)
(***************************************************************************)
StartNotSwallowed ==
    \A p \in Players : receiver[p] /\ outbox[p] # << >> => Head(outbox[p]) \notin Starts

(***************************************************************************)
(* A physics thread never outlives its round: none is left when            *)
(* GameRoom::run waits for the next round, prepares it or has ended.       *)
(***************************************************************************)
NoTickBetweenRounds ==
    main \in {"starting", "course", "next", "ended"} => physics = "off"

(***************************************************************************)
(* When the room waits for what the host wants next, no session goes on    *)
(* unaware that the round is over: a receiver that still reads has         *)
(* game_over or game_exit before it, unless the other player is gone.      *)
(***************************************************************************)
EndIsTold ==
    main = "next" =>
        \A p \in Players : receiver[p] /\ ~Gone(Other(p)) => InOutbox(p, LastEvents)

\* An EXIT of p is on its way.
ExitSent(p) == \E i \in DOMAIN inbox[p] : inbox[p][i] = "exit_game"

(***************************************************************************)
(* Pressing EXIT, or the end of a game, frees the window: the threads it   *)
(* has to join end, the receiver blocked in read included.  One player's   *)
(* EXIT takes the other player out of the session too, however many tilts  *)
(* the performer goes on sending.                                          *)
(***************************************************************************)
SessionsEnd ==
    \A p \in Players : (Playing(p) /\ (~run[p] \/ ExitSent(Other(p)))) ~> ~Playing(p)

(***************************************************************************)
(* The room never ends while the host waits for the round it has asked for *)
(* with Play Again: the message that decides is the host's start_game.     *)
(***************************************************************************)
PlayAgainStartsRound ==
    [][main = "next" /\ Ended' => client["host"] # "await"]_vars

(***************************************************************************)
(* The room and its clients implement RoomSpec: rounds begin one after the *)
(* other, each deals the two roles once, and a role that has been dealt is *)
(* taken up once, unless the player goes.                                  *)
(***************************************************************************)
Room == INSTANCE RoomSpec WITH
    round <- CASE main \in {"starting", "next"} -> "between"
               [] Ended -> "ended"
               [] OTHER -> "played",
    due <- [p \in Players |-> RolesDue(p)],
    place <- [p \in Players |-> IF client[p] \in {"await", "prompt"} THEN "out" ELSE client[p]]

RoomPromise == Room!Spec

=============================================================================
