------------------------------ MODULE Windows ------------------------------
(***************************************************************************)
(* The window side of one client program: QtGUI (src/ClientApp/gui/        *)
(* QtGui.cpp) under ClientController::run (src/ClientApp/                  *)
(* ClientController.cpp).                                                  *)
(*                                                                         *)
(* The main thread has no event loop that is always there.  Every prompt,  *)
(* and every wait for the server, runs one of its own, in which the        *)
(* handlers of all open windows run, whichever prompt opened them; a       *)
(* handler may prompt in turn.  A window that is closed is deleted later,  *)
(* by a loop, and only then do the pointers to it become nullptr.          *)
(***************************************************************************)
EXTENDS Naturals, Sequences, SequencesExt

CONSTANTS
    Addresses,  \* where windows are allocated
    Null,
    MaxLoops    \* the event loops that may run inside each other

ASSUME NullAssumption == Null \notin Addresses
ASSUME MaxLoopsAssumption == MaxLoops \in Nat \ {0}

VARIABLES
    loops,            \* the event loops that run, the innermost one last
    windows,          \* windows[w]: the window at address w, or NoWindow
    mainWindow,       \* mainWindow_: "none" (nullptr), "shown" or "hidden"
    activeRoom,       \* activeRoom_
    hostGameRoom,     \* hostGameRoom_
    guestGameRoom,    \* guestGameRoom_
    isHost,           \* isHost of ClientController::run
    cancelRequested,  \* cancelRequested_
    connected,        \* socketFd_ >= 0
    selected          \* history: the host has selected a game on this connection

pointers == <<activeRoom, hostGameRoom, guestGameRoom>>
controllerVars == <<isHost, cancelRequested, connected>>
vars == <<loops, windows, mainWindow, pointers, controllerVars, selected>>

Kinds == {"HostGameRoom", "JoinGameRoom", "GuestGameRoom", "GameSelectMenu"}
NoWindow == [kind |-> "none", open |-> FALSE, depth |-> 0]

\* A loop waits for an answer from the window "of", for the server or a timer.
Loop(waits, of) == [waits |-> waits, of |-> of, answer |-> "none"]
Prompts == {"code", "game"}
Waits == Prompts \cup {"mainMenu", "guest", "start", "role", "session", "again"}
Answers == {"none", "leave", "host", "join", "given", "event", "end", "handled"}

\* Every variable has its type, and QtGUI has the room of a host or of a guest.
TypeOK ==
    /\ loops \in Seq([waits : Waits, of : Addresses \cup {Null}, answer : Answers])
    /\ Len(loops) <= MaxLoops
    /\ windows \in [Addresses -> [kind : Kinds, open : BOOLEAN, depth : 0..MaxLoops]
                                     \cup {NoWindow}]
    /\ mainWindow \in {"none", "shown", "hidden"}
    /\ {activeRoom, hostGameRoom, guestGameRoom} \subseteq Addresses \cup {Null}
    /\ hostGameRoom = Null \/ guestGameRoom = Null
    /\ {isHost, cancelRequested, connected, selected} \subseteq BOOLEAN

\* The first promptMainMenu, after promptUsername.
Init ==
    /\ loops = <<Loop("mainMenu", Null)>>
    /\ windows = [w \in Addresses |-> NoWindow]
    /\ mainWindow = "shown"
    /\ activeRoom = Null /\ hostGameRoom = Null /\ guestGameRoom = Null
    /\ isHost = FALSE /\ cancelRequested = FALSE /\ connected = FALSE
    /\ selected = FALSE

-----------------------------------------------------------------------------
(* Windows and event loops, as Qt handles them. *)

Top == Last(loops)

\* close(): the window is deleted by the loop it is closed in, or by one
\* outside of it; one that is closed outside of all (0), by the next there is.
Closed(w, depth) ==
    IF w = Null \/ ~windows[w].open THEN windows
    ELSE [windows EXCEPT ![w].open = FALSE, ![w].depth = depth]

\* new, with WA_DeleteOnClose, and show().
Opened(ws, w, kind) == [ws EXCEPT ![w] = [kind |-> kind, open |-> TRUE, depth |-> 0]]

\* An address is given to another window only when nothing names it any more.
IsFresh(w) ==
    /\ windows[w] = NoWindow
    /\ w \notin {activeRoom, hostGameRoom, guestGameRoom}
    /\ \A i \in DOMAIN loops : w # loops[i].of

Deletable(w) ==
    /\ windows[w] # NoWindow /\ ~windows[w].open
    /\ windows[w].depth = 0 \/ Len(loops) <= windows[w].depth

\* The innermost loop dispatches until it is answered, deletions first.
Dispatching == loops # << >> /\ Top.answer = "none"
Idle == Dispatching /\ \A w \in Addresses : ~Deletable(w)

\* The dialog of promptPlayAgain is modal.
Pressable(w) == Idle /\ windows[w].open /\ Top.waits # "again"

\* The loop that waits for this window is answered, whatever runs inside it.
AnswerOf(w, answer) ==
    [i \in DOMAIN loops |-> IF loops[i].of = w THEN [loops[i] EXCEPT !.answer = answer]
                             ELSE loops[i]]

\* Mutant: the destroyed handlers reset only activeRoom_.
DestroyedActiveOnly(w) ==
    /\ Dispatching /\ Deletable(w)
    /\ windows' = [windows EXCEPT ![w] = NoWindow]
    /\ activeRoom' = Null
    /\ UNCHANGED <<hostGameRoom, guestGameRoom, loops, mainWindow, controllerVars, selected>>

\* A window is deleted: its destroyed handler resets activeRoom_, whichever
\* window that points to by now.
Destroyed(w) ==
    /\ Dispatching /\ Deletable(w)
    /\ windows' = [windows EXCEPT ![w] = NoWindow]
    /\ activeRoom' = Null
    /\ hostGameRoom' = IF windows[w].kind = "HostGameRoom" THEN Null ELSE hostGameRoom
    /\ guestGameRoom' = IF windows[w].kind = "GuestGameRoom" THEN Null ELSE guestGameRoom
    /\ UNCHANGED <<loops, mainWindow, controllerVars, selected>>

-----------------------------------------------------------------------------
(* The handlers: what a user's press does in any loop. *)

PressMain(answer) ==
    /\ Idle /\ mainWindow = "shown"
    /\ loops[1].waits = "mainMenu"
    /\ loops' = [loops EXCEPT ![1].answer = answer]
    /\ mainWindow' = IF answer = "leave" THEN "hidden" ELSE mainWindow
    /\ UNCHANGED <<windows, pointers, controllerVars, selected>>

\* Mutant: a cancel closes the window that activeRoom_ names by then.
CancelClosesActiveRoom(w) ==
    /\ Pressable(w)
    /\ \/ /\ windows[w].kind \in {"HostGameRoom", "GuestGameRoom"}
          /\ windows' = Closed(activeRoom, Len(loops))
          /\ cancelRequested' = TRUE /\ connected' = FALSE
          /\ UNCHANGED loops
       \/ /\ windows[w].kind \in {"JoinGameRoom", "GameSelectMenu"}
          /\ windows' = Closed(w, Len(loops))
          /\ loops' = AnswerOf(w, "leave")
          /\ UNCHANGED <<cancelRequested, connected>>
    /\ UNCHANGED <<mainWindow, pointers, isHost, selected>>

(***************************************************************************)
(* The cross: mainWindowRequested is emitted, then the window closes.  A   *)
(* room's cancels, whatever the program is at; another's answers its       *)
(* prompt, if that still runs.                                             *)
(***************************************************************************)
PressClose(w) ==
    /\ Pressable(w)
    /\ windows' = Closed(w, Len(loops))
    /\ \/ /\ windows[w].kind \in {"HostGameRoom", "GuestGameRoom"}
          /\ cancelRequested' = TRUE /\ connected' = FALSE
          /\ UNCHANGED loops
       \/ /\ windows[w].kind \in {"JoinGameRoom", "GameSelectMenu"}
          /\ loops' = AnswerOf(w, "leave")
          /\ UNCHANGED <<cancelRequested, connected>>
    /\ UNCHANGED <<mainWindow, pointers, isHost, selected>>

\* The window manager closes a window, by its title bar or Alt-F4: no closeEvent
\* is overridden, so that nothing is emitted and no loop is answered.
CloseByWindowManager(w) ==
    /\ Pressable(w)
    /\ windows' = Closed(w, Len(loops))
    /\ UNCHANGED <<loops, mainWindow, pointers, controllerVars, selected>>

\* The main window, which has no WA_DeleteOnClose, only hides.
CloseMainByWindowManager ==
    /\ Idle /\ mainWindow = "shown"
    /\ mainWindow' = "hidden"
    /\ UNCHANGED <<loops, windows, pointers, controllerVars, selected>>

\* A code of six digits, or a game.
PressAnswer(w) ==
    /\ Pressable(w)
    /\ \E i \in DOMAIN loops : loops[i].of = w
    /\ loops' = AnswerOf(w, "given")
    /\ selected' = (selected \/ windows[w].kind = "GameSelectMenu")
    /\ UNCHANGED <<windows, mainWindow, pointers, controllerVars>>

\* promptGameChoice up to its loop, from the loops that run.
PromptGameChoice(outer) ==
    \E menu \in Addresses :
        /\ IsFresh(menu)
        /\ windows' = Opened(Closed(activeRoom, Len(outer)), menu, "GameSelectMenu")
        /\ activeRoom' = menu /\ hostGameRoom' = Null
        /\ loops' = Append(outer, Loop("game", menu))
        /\ UNCHANGED <<guestGameRoom, mainWindow>>

\* All Players Connected prompts at once, inside the loop it is pressed in.
PressAllPlayersConnected(w) ==
    /\ Pressable(w) /\ windows[w].kind = "HostGameRoom"
    /\ Len(loops) < MaxLoops
    /\ PromptGameChoice(loops)
    /\ UNCHANGED <<controllerVars, selected>>

-----------------------------------------------------------------------------
(* What else ends the outermost loop. *)

Ends(waits, answers) ==
    /\ Idle /\ loops[1].waits = waits /\ loops[1].answer = "none"
    /\ \E answer \in answers : loops' = [loops EXCEPT ![1].answer = answer]
    /\ UNCHANGED <<windows, mainWindow, pointers, controllerVars, selected>>

\* The receiver thread has read what was waited for, or the end of the stream.
Receive == Ends("guest", {"event", "end"}) \/ Ends("start", {"event", "end"})

\* The role screen's timer.
RoleShown == Ends("role", {"event"})

\* The game is over, with the scoreboard (handled) or without.
SessionOver == Ends("session", {"handled", "end"})

\* Exit or a game in promptPlayAgain.
AgainAnswered == Ends("again", {"leave", "given"})

-----------------------------------------------------------------------------
(* The code outside of all handlers, from the end of one loop to the next. *)

Returned(waits) == Len(loops) = 1 /\ Top.waits = waits /\ Top.answer # "none"

WaitFor(waits) == loops' = <<Loop(waits, Null)>>

\* Mutant: promptMainMenu leaves the pointers to rooms to their destroyed handlers.
ToMainMenuKeepsRooms ==
    /\ cancelRequested' = FALSE /\ connected' = FALSE
    /\ activeRoom' = Null /\ UNCHANGED <<hostGameRoom, guestGameRoom>>
    /\ mainWindow' = "shown"
    /\ WaitFor("mainMenu")
    /\ selected' = FALSE
    /\ UNCHANGED isHost

\* The head of the loop in run, and promptMainMenu.
ToMainMenu ==
    /\ cancelRequested' = FALSE /\ connected' = FALSE
    /\ activeRoom' = Null /\ hostGameRoom' = Null /\ guestGameRoom' = Null
    /\ mainWindow' = "shown"
    /\ WaitFor("mainMenu")
    /\ selected' = FALSE
    /\ UNCHANGED isHost

HiddenMain == IF mainWindow = "none" THEN "none" ELSE "hidden"

\* connectToServer and, for the host, room_created fail.
ConnectFails ==
    /\ Returned("mainMenu") /\ Top.answer \in {"host", "join"}
    /\ ToMainMenu
    /\ UNCHANGED windows

\* hostFlow up to the wait for the guest (showRoomCreated).
HostRoom ==
    /\ Returned("mainMenu") /\ Top.answer = "host"
    /\ \E w \in Addresses :
          /\ IsFresh(w)
          /\ windows' = Opened(windows, w, "HostGameRoom")
          /\ activeRoom' = w /\ hostGameRoom' = w
    /\ isHost' = TRUE /\ connected' = TRUE
    /\ mainWindow' = HiddenMain
    /\ WaitFor("guest")
    /\ UNCHANGED <<guestGameRoom, cancelRequested, selected>>

\* guestFlow up to the prompt for the code (promptRoomCode).
JoinRoom ==
    /\ Returned("mainMenu") /\ Top.answer = "join"
    /\ \E w \in Addresses :
          /\ IsFresh(w)
          /\ windows' = Opened(windows, w, "JoinGameRoom")
          /\ activeRoom' = w
          /\ loops' = <<Loop("code", w)>>
    /\ isHost' = FALSE /\ connected' = TRUE
    /\ mainWindow' = HiddenMain
    /\ UNCHANGED <<hostGameRoom, guestGameRoom, cancelRequested, selected>>

\* The connection ends before the first reply: the null value that is read has
\* no "event", value() throws, and nothing catches it.
NoReply ==
    /\ \/ Returned("mainMenu") /\ Top.answer = "host"
       \/ Returned("code") /\ Top.answer = "given"
    /\ loops' = << >> /\ connected' = FALSE
    /\ UNCHANGED <<windows, mainWindow, pointers, isHost, cancelRequested, selected>>

\* No code, or the server has no such room: the window that asked stays open.
NotJoined ==
    /\ Returned("code")
    /\ ToMainMenu
    /\ UNCHANGED windows

\* player_joined is the answer to join_room: showJoinedRoom, awaitGameStart.
Joined ==
    /\ Returned("code") /\ Top.answer = "given"
    /\ \E w \in Addresses :
          /\ IsFresh(w)
          /\ windows' = Opened(Closed(activeRoom, 0), w, "GuestGameRoom")
          /\ activeRoom' = w /\ guestGameRoom' = w
    /\ WaitFor("start")
    /\ UNCHANGED <<hostGameRoom, mainWindow, controllerVars, selected>>

\* Cancelled, or the end of the stream.
GuestNeverCame ==
    /\ Returned("guest") /\ (cancelRequested \/ Top.answer = "end")
    /\ ToMainMenu
    /\ UNCHANGED windows

\* player_joined: the host is asked for the game.
GuestCame ==
    /\ Returned("guest") /\ ~cancelRequested /\ Top.answer = "event"
    /\ PromptGameChoice(<< >>)
    /\ UNCHANGED <<controllerVars, selected>>

\* The end of promptGameChoice: whatever activeRoom_ points to is closed.
GameChoiceEnds ==
    /\ windows' = Closed(activeRoom, Len(loops) - 1)

\* In the handler of All Players Connected the choice leads to nothing.
NestedChoiceEnds ==
    /\ Len(loops) > 1 /\ Top.answer # "none"
    /\ GameChoiceEnds
    /\ activeRoom' = Null
    /\ loops' = Front(loops)
    /\ UNCHANGED <<hostGameRoom, guestGameRoom, mainWindow, controllerVars, selected>>

NoGameChosen ==
    /\ Returned("game") /\ (cancelRequested \/ Top.answer = "leave")
    /\ GameChoiceEnds
    /\ ToMainMenu

\* start_game is sent.
GameChosen ==
    /\ Returned("game") /\ ~cancelRequested /\ Top.answer = "given"
    /\ GameChoiceEnds
    /\ activeRoom' = Null
    /\ WaitFor("start")
    /\ selected' = FALSE
    /\ UNCHANGED <<hostGameRoom, guestGameRoom, mainWindow, controllerVars>>

NotStarted ==
    /\ Returned("start") /\ (cancelRequested \/ Top.answer = "end")
    /\ ToMainMenu
    /\ UNCHANGED windows

\* Mutant: awaitGameStart looks only at what was read.
StartedUnasked ==
    /\ Returned("start") /\ Top.answer = "event"
    /\ WaitFor("role")
    /\ UNCHANGED <<windows, pointers, mainWindow, controllerVars, selected>>

\* game_start: the role is shown (showNotePiRole, showGyroPiRole).
Started ==
    /\ Returned("start") /\ ~cancelRequested /\ Top.answer = "event"
    /\ WaitFor("role")
    /\ UNCHANGED <<windows, pointers, mainWindow, controllerVars, selected>>

\* The windows of the lobby that are pointed to close, and the game begins.
Play ==
    /\ Returned("role")
    /\ windows' = Closed(activeRoom, 0)
    /\ activeRoom' = Null /\ hostGameRoom' = Null /\ guestGameRoom' = Null
    /\ mainWindow' = "none"
    /\ WaitFor("session")
    /\ UNCHANGED <<controllerVars, selected>>

AfterSession ==
    /\ Returned("session")
    /\ WaitFor(IF Top.answer = "handled" \/ ~isHost THEN "start" ELSE "again")
    /\ UNCHANGED <<windows, pointers, mainWindow, controllerVars, selected>>

AskedAgain ==
    /\ Returned("again") /\ Top.answer = "given"
    /\ WaitFor("start")
    /\ UNCHANGED <<windows, pointers, mainWindow, controllerVars, selected>>

LeaveRoom ==
    /\ Returned("again") /\ Top.answer = "leave"
    /\ ToMainMenu
    /\ UNCHANGED windows

\* promptMainMenu returns 0: showDisconnected, and the program ends.
Quit ==
    /\ Returned("mainMenu") /\ Top.answer = "leave"
    /\ loops' = << >>
    /\ windows' = Closed(activeRoom, 0)
    /\ activeRoom' = Null /\ hostGameRoom' = Null /\ guestGameRoom' = Null
    /\ mainWindow' = "none"
    /\ UNCHANGED <<controllerVars, selected>>

-----------------------------------------------------------------------------
Handler ==
    \/ \E answer \in {"host", "join", "leave"} : PressMain(answer)
    \/ \E w \in Addresses :
          \/ PressClose(w) \/ PressAnswer(w) \/ PressAllPlayersConnected(w)
          \/ CloseByWindowManager(w) \/ Destroyed(w)
    \/ CloseMainByWindowManager

Continue ==
    \/ ConnectFails \/ HostRoom \/ JoinRoom \/ NoReply \/ NotJoined \/ Joined
    \/ GuestNeverCame \/ GuestCame \/ NestedChoiceEnds \/ NoGameChosen \/ GameChosen
    \/ NotStarted \/ Started \/ Play \/ AfterSession \/ AskedAgain \/ LeaveRoom \/ Quit

Next == Handler \/ Receive \/ RoleShown \/ SessionOver \/ AgainAnswered \/ Continue

Spec == Init /\ [][Next]_vars

-----------------------------------------------------------------------------
(* Properties. *)

(***************************************************************************)
(* No pointer of QtGUI outlives the window it points to, although windows  *)
(* are deleted behind the back of the code that opened them.               *)
(***************************************************************************)
NoDanglingPointer ==
    /\ activeRoom # Null => windows[activeRoom] # NoWindow
    /\ hostGameRoom # Null => windows[hostGameRoom].kind = "HostGameRoom"
    /\ guestGameRoom # Null => windows[guestGameRoom].kind = "GuestGameRoom"

\* The loop that runs at i asks the user, whose window for the answer is closed.
HasWindow(i) ==
    IF loops[i].waits = "mainMenu" THEN mainWindow = "shown" ELSE windows[loops[i].of].open
Stranded(i) ==
    /\ loops[i].waits \in Prompts \cup {"mainMenu"} /\ loops[i].answer = "none"
    /\ ~HasWindow(i)

(***************************************************************************)
(* A prompt has its window open when it begins to wait, and two things     *)
(* only take it away before there is an answer: the window manager closes  *)
(* it, or All Players Connected is pressed in a room left over, in the     *)
(* loop of that very prompt.  No handler of another window, no end of      *)
(* another prompt and no deferred deletion does, at any later time either. *)
(***************************************************************************)
PromptKeepsWindow ==
    [][\A i \in DOMAIN loops' :
          Stranded(i)' =>
             \/ i \in DOMAIN loops /\ Stranded(i)
             \/ i = 1 /\ CloseMainByWindowManager
             \/ \E w \in Addresses :
                   \/ w = loops'[i].of /\ CloseByWindowManager(w)
                   \/ i = Len(loops) /\ PressAllPlayersConnected(w)]_vars

\* From the role screen to the end of the game.
InGame == \E i \in DOMAIN loops : loops[i].waits \in {"role", "session"}

(***************************************************************************)
(* No game is entered on a connection that a cancel has closed, although   *)
(* the receiver of a cancelled wait may still read its game_start.  In the *)
(* game only the cross of a room that is still open closes the connection: *)
(* nothing looks at cancelRequested_ after the role screen either, and the *)
(* game is played, or begins, on a closed socket.                          *)
(***************************************************************************)
GameEnteredConnected ==
    [][InGame' /\ ~connected' =>
          InGame /\ (~connected \/ \E w \in Addresses : PressClose(w))]_vars

(***************************************************************************)
(* The host selects a game once: it is not asked for a game any more when  *)
(* it has selected one.                                                    *)
(***************************************************************************)
SelectedOnce ==
    selected => \A i \in DOMAIN loops : loops[i].waits = "game" => loops[i].answer # "none"

=============================================================================
