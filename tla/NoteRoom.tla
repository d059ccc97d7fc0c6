------------------------------ MODULE NoteRoom ------------------------------
(***************************************************************************)
(* One room process playing NotePi rounds (src/ServerApp/GameRoom.cpp and  *)
(* NotePi/NotePiGame.h) and its two client programs from game_start on     *)
(* (src/ClientApp/ClientController.cpp and NotePi/NotePiSession.cpp).      *)
(*                                                                         *)
(* The room has one thread, which reads nothing but the performer's        *)
(* socket.  The performer's program records five notes, sends them, and    *)
(* reads the answer; the communicator's only reads.  Neither window has an *)
(* exit.  What a guess is worth, and how it is heard, are the modules      *)
(* SecretSequence and NoteListening; here it is right or wrong.            *)
(***************************************************************************)
EXTENDS RoomNet

CONSTANTS
    MaxAttempts, \* the performer finds the sequence with this guess at the latest
    MicFails,    \* TRUE: a microphone may fail to start
    Crashes      \* TRUE: a client program may be killed

ASSUME MaxAttemptsAssumption == MaxAttempts \in Nat \ {0}
ASSUME MicFailsAssumption == MicFails \in BOOLEAN
ASSUME CrashesAssumption == Crashes \in BOOLEAN

VARIABLES
    attempt,   \* attempt of NotePiGame::run
    solved,    \* solved of NotePiGame::run
    tries,     \* history: tries[p], the guesses p has sent in its session
    mute       \* history: the players whose microphone has failed

roomVars == <<performer, main, attempt, solved>>
vars == <<performer, main, attempt, solved, inbox, outbox, reset, client, tries, mute>>

Guesses == {"right", "wrong"}
Commands == Guesses \cup {"start_game"}
Results == {"note_result:solved", "note_result:unsolved"}
Events == Starts \cup Results \cup {"game_over"}
Places == {"await", "prompt", "gone",
           "ready",      \* performer: before the first press of the record button
           "recording",  \* performer: the microphone thread listens
           "answer",     \* performer: the guess is sent, receiveJson
           "idle",       \* performer: before another press of the record button
           "last",       \* performer: solved, receiveJson of the game_over
           "watching"}   \* communicator: the receiver thread reads

\* Every variable has its type, and no round has more attempts than guesses.
TypeOK ==
    /\ performer \in Players
    /\ main \in {"starting", "guess", "over", "next", "ended"}
    /\ attempt \in 0..MaxAttempts
    /\ solved \in BOOLEAN
    /\ inbox \in [Players -> Seq(Commands)]
    /\ outbox \in [Players -> Seq(Events)]
    /\ reset \in SUBSET Players
    /\ client \in [Players -> Places]
    /\ tries \in [Players -> 0..MaxAttempts]
    /\ mute \in SUBSET Players

Init ==
    /\ performer = "host" /\ main = "starting"
    /\ attempt = 0 /\ solved = FALSE
    /\ inbox = [p \in Players |-> << >>]
    /\ outbox = [p \in Players |-> << >>]
    /\ reset = {}
    /\ client = [p \in Players |-> "await"]
    /\ tries = [p \in Players |-> 0]
    /\ mute = {}

-----------------------------------------------------------------------------
(* GameRoom::run and NotePiGame::run. *)

\* The process ends: both sockets close, nothing more is read.
RoomEnds ==
    /\ main' = "ended"
    /\ inbox' = [p \in Players |-> << >>]
    /\ UNCHANGED <<performer, attempt, solved>>

\* Mutant: the attempts of the round before are not forgotten.
StartRoundCountsOn ==
    /\ main = "starting"
    /\ \E q \in Players :
          Send("host", [p \in Players |-> StartOf(p, q)],
               /\ performer' = q /\ main' = "guess"
               /\ solved' = FALSE
               /\ UNCHANGED <<inbox, attempt>>,
               RoomEnds)
    /\ UNCHANGED <<client, tries, mute>>

\* Mutant: the host, who has asked for the round, is not told that it starts.
StartRoundGuestOnly ==
    /\ main = "starting"
    /\ \E q \in Players :
          Send("guest", [p \in Players \ {"host"} |-> StartOf(p, q)],
               /\ performer' = q /\ main' = "guess"
               /\ attempt' = 0 /\ solved' = FALSE
               /\ UNCHANGED inbox,
               RoomEnds)
    /\ UNCHANGED <<client, tries, mute>>

\* assignRoles, sendGameStart, and the head of NotePiGame::run.
StartRound ==
    /\ main = "starting"
    /\ \E q \in Players :
          Send("host", [p \in Players |-> StartOf(p, q)],
               /\ performer' = q /\ main' = "guess"
               /\ attempt' = 0 /\ solved' = FALSE
               /\ UNCHANGED inbox,
               RoomEnds)
    /\ UNCHANGED <<client, tries, mute>>

\* What the command at the head of the performer's inbox is worth.
IsSolved == Head(inbox[performer]) = "right"
Result == IF IsSolved THEN "note_result:solved" ELSE "note_result:unsolved"

\* That command is read, counted and answered.
Judge(newAttempt, sent) ==
    /\ main = "guess" /\ inbox[performer] # << >>
    /\ Send(performer, sent,
            /\ attempt' = newAttempt /\ solved' = IsSolved
            /\ main' = IF IsSolved THEN "over" ELSE "guess"
            /\ inbox' = [inbox EXCEPT ![performer] = Tail(@)]
            /\ UNCHANGED performer,
            RoomEnds)
    /\ UNCHANGED <<client, tries, mute>>

\* Mutant: only a guess that was wrong counts as an attempt.
HandleGuessCountsWrong == Judge(IF IsSolved THEN attempt ELSE attempt + 1, ToBoth(Result))

\* Mutant: the guess that solves the game is answered by game_over alone.
HandleGuessNoLastResult ==
    Judge(attempt + 1, IF IsSolved THEN << >> ELSE ToBoth(Result))

\* Mutant: the feedback is for the communicator only.
HandleGuessToCommunicator ==
    Judge(attempt + 1, [p \in Players \ {performer} |-> Result])

(***************************************************************************)
(* No look is taken at which command it is: a command without notes is     *)
(* an attempt too, and a wrong one.  Both players get the note_result.     *)
(***************************************************************************)
HandleGuess == Judge(attempt + 1, ToBoth(Result))

\* Mutant: without a performer the game is over, and nobody is told.
PerformerEndsUntold ==
    /\ main = "guess" /\ inbox[performer] = << >> /\ Gone(performer)
    /\ main' = "next"
    /\ UNCHANGED <<performer, attempt, solved, inbox, outbox, reset, client, tries, mute>>

\* End of the performer's stream: break.
PerformerEnds ==
    /\ main = "guess" /\ inbox[performer] = << >> /\ Gone(performer)
    /\ main' = "over"
    /\ UNCHANGED <<performer, attempt, solved, inbox, outbox, reset, client, tries, mute>>

\* The score of a solved game is recorded, and both players get game_over.
GameOver ==
    /\ main = "over"
    /\ Send(performer, ToBoth("game_over"),
            main' = "next" /\ UNCHANGED <<performer, attempt, solved, inbox>>, RoomEnds)
    /\ UNCHANGED <<client, tries, mute>>

NextRound ==
    /\ RoundAskedFor
    /\ UNCHANGED <<performer, attempt, solved, outbox, reset, client, tries, mute>>

NoNextRound ==
    /\ NoRoundAskedFor
    /\ RoomEnds
    /\ UNCHANGED <<outbox, reset, client, tries, mute>>

-----------------------------------------------------------------------------
(* The client programs. *)

\* awaitGameStart succeeds and a session begins.
GameStarts(p) ==
    /\ client[p] = "await" /\ outbox[p] # << >> /\ Head(outbox[p]) \in Starts
    /\ Moves(p, IF Head(outbox[p]) = Start("PERFORMER") THEN "ready" ELSE "watching")
    /\ outbox' = [outbox EXCEPT ![p] = Tail(@)]
    /\ tries' = [tries EXCEPT ![p] = 0]
    /\ UNCHANGED <<roomVars, inbox, reset, mute>>

GameStartFails(p) ==
    /\ AwaitFails(p)
    /\ UNCHANGED <<roomVars, inbox, tries, mute>>

\* The record button.
Record(p) ==
    /\ client[p] \in {"ready", "idle"}
    /\ Moves(p, "recording")
    /\ UNCHANGED <<roomVars, inbox, outbox, reset, tries, mute>>

\* mic.start fails at the first press: playAsPerformer returns, and the room,
\* which hears nothing of it, waits for a guess.
MicrophoneFails(p) ==
    /\ MicFails
    /\ client[p] = "ready"
    /\ Moves(p, AfterSession(p))
    /\ mute' = mute \cup {p}
    /\ UNCHANGED <<roomVars, inbox, outbox, reset, tries>>

\* Five notes have been heard.
SendGuess(p) ==
    /\ client[p] = "recording"
    /\ \E guess \in IF tries[p] + 1 < MaxAttempts THEN Guesses ELSE {"right"} :
          Command(p, guess)
    /\ tries' = [tries EXCEPT ![p] = @ + 1]
    /\ Moves(p, "answer")
    /\ UNCHANGED <<roomVars, outbox, reset, mute>>

\* The performer reads one event, whichever it is.
ReadAnswer(p) ==
    /\ client[p] = "answer" /\ outbox[p] # << >>
    /\ Moves(p, CASE Head(outbox[p]) = "note_result:solved" -> "last"
                  [] Head(outbox[p]) = "note_result:unsolved" -> "idle"
                  [] OTHER -> "recording")
    /\ outbox' = [outbox EXCEPT ![p] = Tail(@)]
    /\ UNCHANGED <<roomVars, inbox, reset, tries, mute>>

\* The performer reads one event; the scoreboard is shown if it is game_over.
ReadLast(p) ==
    /\ client[p] = "last" /\ outbox[p] # << >>
    /\ Moves(p, AfterSession(p))
    /\ outbox' = [outbox EXCEPT ![p] = Tail(@)]
    /\ UNCHANGED <<roomVars, inbox, reset, tries, mute>>

\* The communicator reads an event: game_over ends its session.
Watch(p) ==
    /\ client[p] = "watching" /\ outbox[p] # << >>
    /\ Moves(p, IF Head(outbox[p]) = "game_over" THEN AfterSession(p) ELSE "watching")
    /\ outbox' = [outbox EXCEPT ![p] = Tail(@)]
    /\ UNCHANGED <<roomVars, inbox, reset, tries, mute>>

\* The end of the stream, read in a session.
ReadEnd(p) ==
    /\ client[p] \in {"answer", "last", "watching"} /\ outbox[p] = << >> /\ Ended
    /\ Moves(p, AfterSession(p))
    /\ UNCHANGED <<roomVars, inbox, outbox, reset, tries, mute>>

PlayAgain ==
    /\ AskForRound
    /\ UNCHANGED <<roomVars, outbox, reset, tries, mute>>

HostLeaves ==
    /\ LeavePrompt
    /\ UNCHANGED <<roomVars, inbox, tries, mute>>

ClientDies(p) ==
    /\ Crashes /\ ~Gone(p)
    /\ Close(p, outbox[p])
    /\ UNCHANGED <<roomVars, inbox, tries, mute>>

-----------------------------------------------------------------------------
MainStep ==
    StartRound \/ HandleGuess \/ PerformerEnds \/ GameOver \/ NextRound \/ NoNextRound

Read(p) ==
    GameStarts(p) \/ GameStartFails(p) \/ ReadAnswer(p) \/ ReadLast(p) \/ Watch(p) \/ ReadEnd(p)

Next ==
    \/ MainStep \/ PlayAgain \/ HostLeaves
    \/ \E p \in Players :
          Read(p) \/ Record(p) \/ MicrophoneFails(p) \/ SendGuess(p) \/ ClientDies(p)

Spec == Init /\ [][Next]_vars

\* The processes are scheduled.  Nobody has to record, or to ask for a round.
Fairness == WF_vars(MainStep) /\ \A p \in Players : WF_vars(Read(p))

FairSpec == Spec /\ Fairness

-----------------------------------------------------------------------------
(* Properties. *)

(***************************************************************************)
(* The two ends stay in step over all the rounds: whatever event a client  *)
(* is about to read is one of those the code at that place is written for. *)
(* A player whose microphone has failed is out of step with the room.      *)
(***************************************************************************)
ExpectedEvents ==
    \A p \in Players \ mute : outbox[p] # << >> =>
        LET event == Head(outbox[p])
        IN  /\ client[p] = "await" => event \in Starts
            /\ client[p] = "answer" => event \in Results
            /\ client[p] = "last" => event = "game_over"
            /\ client[p] = "watching" => event \in Results \cup {"game_over"}
            /\ client[p] \notin {"ready", "idle", "recording"}

(***************************************************************************)
(* The score of a solved game, the room's attempt counter, is the number   *)
(* of guesses that the performer has sent in this round.                   *)
(***************************************************************************)
ScoreCountsGuesses == main = "over" /\ solved => attempt = tries[performer]

(***************************************************************************)
(* The room and a performer wait for each other, the one for a guess and   *)
(* the other for a game_start, only when the performer's microphone has    *)
(* failed.                                                                 *)
(***************************************************************************)
OnlyTheMuteBlock ==
    ~ /\ main = "guess" /\ inbox[performer] = << >>
      /\ client[performer] = "await" /\ outbox[performer] = << >>
      /\ performer \notin mute

\* A performer that has sent a guess, or waits for the game_over, never waits
\* for ever, whatever becomes of the communicator, whom the room never reads.
GuessAnswered ==
    \A p \in Players :
        client[p] \in {"answer", "last"} ~> client[p] \notin {"answer", "last"}

\* A performer that is gone takes the communicator out of its session.
CommunicatorReleased ==
    \A p \in Players : (client[p] = "watching" /\ Gone(Other(p))) ~> client[p] # "watching"

(***************************************************************************)
(* The room and its clients implement RoomSpec: rounds begin one after the *)
(* other, each deals the two roles once, and a role that has been dealt is *)
(* taken up once, unless the player goes.                                  *)
(***************************************************************************)
Room == INSTANCE RoomSpec WITH
    round <- CASE main \in {"starting", "next"} -> "between"
               [] Ended -> "ended"
               [] OTHER -> "played",
    due <- [p \in Players |-> RolesDue(p)],
    place <- [p \in Players |-> CASE client[p] \in {"await", "prompt"} -> "out"
                                  [] Gone(p) -> "gone"
                                  [] client[p] = "watching" -> "COMMUNICATOR"
                                  [] OTHER -> "PERFORMER"]

RoomPromise == Room!Spec

=============================================================================
