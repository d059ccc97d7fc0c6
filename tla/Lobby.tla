------------------------------- MODULE Lobby -------------------------------
(***************************************************************************)
(* The lobby process (src/ServerApp/ServerController.cpp with              *)
(* ServerSocket.cpp), the client programs that talk to it until a game     *)
(* starts (src/ClientApp/ClientController.cpp) and the life of the room    *)
(* processes it forks.                                                     *)
(*                                                                         *)
(* The lobby is one thread: it blocks in select, accepts at most one       *)
(* connection, reads that connection's first command, and then serves the  *)
(* hosts that select reported.  A connection stands for its descriptor     *)
(* number: a number is handed out again only by accept, and no descriptor  *)
(* that the lobby's maps still hold is closed when accept runs.            *)
(***************************************************************************)
EXTENDS Integers, Sequences, FiniteSets, Functions

CONSTANTS
    Conns,         \* the TCP connections clients open, each once
    Codes,         \* room codes
    NoConn,
    NoCode,
    CodesCollide,  \* TRUE: rand() may draw the code of a room that exists
    Faults         \* which faults are considered: "accept", "fork", "crash"

ASSUME NoConnAssumption == NoConn \notin Conns
ASSUME NoCodeAssumption == NoCode \notin Codes
ASSUME CodesCollideAssumption == CodesCollide \in BOOLEAN
ASSUME FaultsAssumption == Faults \subseteq {"accept", "fork", "crash"}

VARIABLES
    at,         \* at[c]: where the client program of connection c is
    code,       \* code[c]: the code c was given (host) or entered (guest)
    inbox,      \* inbox[c]: commands c has sent and the server has not read
    outbox,     \* outbox[c]: events sent to c that it has not read
    reset,      \* closed connections the kernel answers with RST
    lobby,      \* the call the lobby process is in
    backlog,    \* connections not accepted yet
    current,    \* the connection accepted last, while its command is awaited
    ready,      \* hosts reported readable and not served yet (hostReadable)
    rooms,      \* rooms_: for each code its room, or NoRoom
    pending,    \* hostPendingMap_: for each host its code, or NoCode
    lobbyFds,   \* descriptors the lobby process has open
    child,      \* child[h]: the room process forked for host h
    collided    \* history: the code of a room that existed has been drawn

clientVars == <<at, code>>
netVars == <<inbox, outbox, reset>>
lobbyVars == <<lobby, backlog, current, ready>>
mapVars == <<rooms, pending, collided>>
vars == <<at, code, inbox, outbox, reset, lobby, backlog, current, ready, rooms,
          pending, lobbyFds, child, collided>>

Places == {"off",
           "hostWait",       \* host_room sent, awaiting room_created
           "hostRoom",       \* showing the code, awaiting player_joined
           "hostPick",       \* choosing the game
           "hostStarted",    \* start_game sent, awaiting game_start
           "guestPin",       \* connected, entering the room code
           "guestJoin",      \* join_room sent, awaiting the reply
           "guestWait",      \* awaiting game_start
           "boardWait",      \* get_scoreboard sent, awaiting the scoreboard
           "cancelled",      \* the user left while a thread is reading the socket
           "playing", "gone"}

Commands == [command : {"host_room", "join_room", "get_scoreboard", "start_game"}]
Events == {"room_created", "player_joined", "error", "scoreboard", "game_start"}
RoomRecords == [host : Conns, guest : Conns \cup {NoConn}]
NoRoom == [host |-> NoConn, guest |-> NoConn]
ChildRecords == [status : {"none", "forked", "half", "running", "ended"},
                 guest : Conns \cup {NoConn}, fds : SUBSET Conns]
NoChild == [status |-> "none", guest |-> NoConn, fds |-> {}]

TypeOK ==
    /\ at \in [Conns -> Places]
    /\ code \in [Conns -> Codes \cup {NoCode}]
    /\ inbox \in [Conns -> Seq(Commands)]
    /\ outbox \in [Conns -> Seq(Events)]
    /\ reset \in SUBSET Conns
    /\ lobby \in {"select", "accept", "command", "hosts", "exited"}
    /\ backlog \in Seq(Conns)
    /\ current \in Conns \cup {NoConn}
    /\ ready \in SUBSET Conns
    /\ rooms \in [Codes -> RoomRecords \cup {NoRoom}]
    /\ pending \in [Conns -> Codes \cup {NoCode}]
    /\ lobbyFds \in SUBSET Conns
    /\ child \in [Conns -> ChildRecords]
    /\ collided \in BOOLEAN

Init ==
    /\ at = [c \in Conns |-> "off"]
    /\ code = [c \in Conns |-> NoCode]
    /\ inbox = [c \in Conns |-> << >>]
    /\ outbox = [c \in Conns |-> << >>]
    /\ reset = {}
    /\ lobby = "select"
    /\ backlog = << >>
    /\ current = NoConn
    /\ ready = {}
    /\ rooms = [k \in Codes |-> NoRoom]
    /\ pending = [c \in Conns |-> NoCode]
    /\ lobbyFds = {}
    /\ child = [c \in Conns |-> NoChild]
    /\ collided = FALSE

-----------------------------------------------------------------------------
(* Sockets. *)

\* Connections that some server process, or the listening socket, holds open.
Held == lobbyFds \cup Range(backlog) \cup UNION {child[h].fds : h \in Conns}

Gone(c) == at[c] = "gone"

\* What select and read report: a command, or the end of the stream.
Readable(c) == inbox[c] # << >> \/ Gone(c)

\* Writing to a connection the kernel has reset kills the writer (SIGPIPE).
Fatal(c) == c \in reset

\* Writes to the connections S: a closed client answers the first with RST.
Sent(S, event) ==
    outbox' = [c \in Conns |-> IF c \in S /\ ~Gone(c) THEN Append(outbox[c], event)
                                                       ELSE outbox[c]]

Reset(S) == reset' = reset \cup {c \in S : Gone(c)}

\* The client closes its socket; events it leaves unread make that a RST.
Close(c) ==
    /\ at' = [at EXCEPT ![c] = "gone"]
    /\ outbox' = [outbox EXCEPT ![c] = << >>]
    /\ reset' = IF outbox[c] = << >> THEN reset ELSE reset \cup {c}

-----------------------------------------------------------------------------
(* The client programs. *)

Send(c, command) == inbox' = [inbox EXCEPT ![c] = Append(@, [command |-> command])]

Goto(c, place) == at' = [at EXCEPT ![c] = place]

\* connectToServer, and the first command of those that send it at once.
Connect(c, place) ==
    /\ at[c] = "off" /\ lobby # "exited"
    /\ Goto(c, place)
    /\ backlog' = Append(backlog, c)

ConnectHost(c) ==
    /\ Connect(c, "hostWait") /\ Send(c, "host_room")
    /\ UNCHANGED <<code, outbox, reset, lobby, current, ready, mapVars, lobbyFds, child>>

ConnectGuest(c) ==
    /\ Connect(c, "guestPin")
    /\ UNCHANGED <<code, netVars, lobby, current, ready, mapVars, lobbyFds, child>>

\* A program other than the shipped client: none of its code asks for a board.
ConnectViewer(c) ==
    /\ Connect(c, "boardWait") /\ Send(c, "get_scoreboard")
    /\ UNCHANGED <<code, outbox, reset, lobby, current, ready, mapVars, lobbyFds, child>>

\* promptRoomCode returns a code: right, wrong or out of date.
EnterCode(c) ==
    /\ at[c] = "guestPin"
    /\ \E k \in Codes : code' = [code EXCEPT ![c] = k]
    /\ Send(c, "join_room")
    /\ Goto(c, "guestJoin")
    /\ UNCHANGED <<outbox, reset, lobbyVars, mapVars, lobbyFds, child>>

\* promptGameChoice returns a game.
PickGame(c) ==
    /\ at[c] = "hostPick"
    /\ Send(c, "start_game")
    /\ Goto(c, "hostStarted")
    /\ UNCHANGED <<code, outbox, reset, lobbyVars, mapVars, lobbyFds, child>>

\* The user leaves a prompt that no thread reads the socket behind: a close.
LeavePrompt(c) ==
    /\ at[c] \in {"guestPin", "hostPick"}
    /\ Close(c)
    /\ UNCHANGED <<code, inbox, lobbyVars, mapVars, lobbyFds, child>>

(***************************************************************************)
(* The user leaves a room while the receiver thread is in read: close()    *)
(* does not wake it, and the kernel keeps the connection until read ends.  *)
(***************************************************************************)
Cancel(c) ==
    /\ at[c] \in {"hostRoom", "guestWait"}
    /\ Goto(c, "cancelled")
    /\ UNCHANGED <<code, netVars, lobbyVars, mapVars, lobbyFds, child>>

\* Where a client goes when it reads this event; "gone": it disconnects.
After(place, event) ==
    CASE place = "hostWait" /\ event = "room_created" -> "hostRoom"
      [] place = "hostRoom" -> "hostPick"
      [] place = "guestJoin" /\ event = "player_joined" -> "guestWait"
      [] place \in {"hostStarted", "guestWait"} /\ event = "game_start" -> "playing"
      [] OTHER -> "gone"

Reads == {"hostWait", "hostRoom", "hostStarted", "guestJoin", "guestWait", "boardWait",
          "cancelled"}

ReceiveEvent(c) ==
    /\ at[c] \in Reads /\ outbox[c] # << >>
    /\ LET place == After(at[c], Head(outbox[c]))
           rest == Tail(outbox[c])
       IN  /\ Goto(c, place)
           /\ outbox' = [outbox EXCEPT ![c] = IF place = "gone" THEN << >> ELSE rest]
           /\ reset' = IF place = "gone" /\ rest # << >> THEN reset \cup {c} ELSE reset
    /\ UNCHANGED <<code, inbox, lobbyVars, mapVars, lobbyFds, child>>

\* The server's end is closed in every process: read returns 0.
ReceiveEnd(c) ==
    /\ at[c] \in Reads \cup {"playing"} /\ outbox[c] = << >> /\ c \notin Held
    /\ Close(c)
    /\ UNCHANGED <<code, inbox, lobbyVars, mapVars, lobbyFds, child>>

\* A player leaves the game, or the session and its rounds are over.
LeaveGame(c) ==
    /\ at[c] = "playing"
    /\ Close(c)
    /\ UNCHANGED <<code, inbox, lobbyVars, mapVars, lobbyFds, child>>

Crash(c) ==
    /\ "crash" \in Faults
    /\ at[c] \notin {"off", "gone"}
    /\ Close(c)
    /\ UNCHANGED <<code, inbox, lobbyVars, mapVars, lobbyFds, child>>

-----------------------------------------------------------------------------
(* The lobby process. *)

\* run() returns, or a signal kills the process: its descriptors close.
LobbyExits ==
    /\ lobby' = "exited"
    /\ lobbyFds' = {}
    /\ backlog' = << >>
    /\ current' = NoConn
    /\ ready' = {}

PendingHosts == {h \in Conns : pending[h] # NoCode}

ReadableHosts == {h \in PendingHosts : Readable(h)}

\* waitForActivity: select over the listening socket and the pending hosts.
Select ==
    /\ lobby = "select"
    /\ PendingHosts \subseteq lobbyFds
    /\ backlog # << >> \/ ReadableHosts # {}
    /\ ready' = ReadableHosts
    /\ lobby' = IF backlog # << >> THEN "accept" ELSE "hosts"
    /\ UNCHANGED <<clientVars, netVars, backlog, current, mapVars, lobbyFds, child>>

\* A pending host's descriptor is closed: select fails (EBADF), run() ends.
SelectFails ==
    /\ lobby = "select"
    /\ ~(PendingHosts \subseteq lobbyFds)
    /\ LobbyExits
    /\ UNCHANGED <<clientVars, netVars, mapVars, child>>

\* handleIncomingConnection, up to the read of the first command.
Accept ==
    /\ lobby = "accept"
    /\ current' = Head(backlog)
    /\ backlog' = Tail(backlog)
    /\ lobbyFds' = lobbyFds \cup {Head(backlog)}
    /\ lobby' = "command"
    /\ UNCHANGED <<clientVars, netVars, ready, mapVars, child>>

\* accept returns -1 (no descriptor is free): the connection stays queued.
AcceptFails ==
    /\ "accept" \in Faults
    /\ lobby = "accept"
    /\ lobby' = "hosts"
    /\ UNCHANGED <<clientVars, netVars, backlog, current, ready, mapVars, lobbyFds, child>>

FirstCommand(c, command) ==
    /\ lobby = "command" /\ current = c
    /\ inbox[c] # << >> /\ Head(inbox[c]).command = command
    /\ inbox' = [inbox EXCEPT ![c] = Tail(@)]

\* The command has been handled; next are the hosts select reported.
Handled == lobby' = "hosts" /\ current' = NoConn /\ UNCHANGED <<backlog, ready>>

\* The connection ends before it sends a command.
HangUp(c) ==
    /\ lobby = "command" /\ current = c
    /\ inbox[c] = << >> /\ Gone(c)
    /\ lobbyFds' = lobbyFds \ {c}
    /\ Handled
    /\ UNCHANGED <<clientVars, netVars, mapVars, child>>

DrawableCodes == {k \in Codes : CodesCollide \/ rooms[k] = NoRoom}

(***************************************************************************)
(* A code is drawn without a look at rooms_.  When a room has it already,  *)
(* that room's host is replaced and its guest stays.                       *)
(***************************************************************************)
HandleHostRoom(c) ==
    /\ FirstCommand(c, "host_room")
    /\ \E k \in DrawableCodes :
          /\ rooms' = [rooms EXCEPT ![k].host = c]
          /\ pending' = [pending EXCEPT ![c] = k]
          /\ code' = [code EXCEPT ![c] = k]
          /\ collided' = (collided \/ rooms[k] # NoRoom)
    /\ Sent({c}, "room_created") /\ Reset({c})
    /\ Handled
    /\ UNCHANGED <<at, lobbyFds, child>>

\* Mutant: the code is not looked up, rooms_[roomCode] makes the room.
HandleJoinRoomUnchecked(c) ==
    /\ FirstCommand(c, "join_room")
    /\ rooms' = [rooms EXCEPT ![code[c]].guest = c]
    /\ Sent({c}, "player_joined") /\ Reset({c})
    /\ Handled
    /\ UNCHANGED <<clientVars, lobbyFds, pending, collided, child>>

\* Mutant: the guest is let into some room.
HandleJoinRoomAny(c) ==
    /\ FirstCommand(c, "join_room")
    /\ \E k \in Codes :
          /\ rooms[k] # NoRoom
          /\ rooms' = [rooms EXCEPT ![k].guest = c]
          /\ Sent({rooms[k].host, c}, "player_joined") /\ Reset({rooms[k].host, c})
    /\ Handled
    /\ UNCHANGED <<clientVars, lobbyFds, pending, collided, child>>

HandleJoinRoom(c) ==
    /\ FirstCommand(c, "join_room")
    /\ rooms[code[c]] # NoRoom
    /\ rooms' = [rooms EXCEPT ![code[c]].guest = c]
    /\ LET told == {rooms[code[c]].host, c}
       IN  \/ /\ ~Fatal(rooms[code[c]].host)
              /\ Sent(told, "player_joined") /\ Reset(told)
              /\ Handled
              /\ UNCHANGED lobbyFds
           \/ /\ Fatal(rooms[code[c]].host)
              /\ LobbyExits
              /\ UNCHANGED <<outbox, reset>>
    /\ UNCHANGED <<clientVars, pending, collided, child>>

\* Mutant: a wrong code is ignored.
HandleJoinRoomSilently(c) ==
    /\ FirstCommand(c, "join_room")
    /\ rooms[code[c]] = NoRoom
    /\ Handled
    /\ UNCHANGED <<clientVars, outbox, reset, lobbyFds, mapVars, child>>

HandleJoinRoomNotFound(c) ==
    /\ FirstCommand(c, "join_room")
    /\ rooms[code[c]] = NoRoom
    /\ Sent({c}, "error") /\ Reset({c})
    /\ lobbyFds' = lobbyFds \ {c}
    /\ Handled
    /\ UNCHANGED <<clientVars, mapVars, child>>

HandleGetScoreboard(c) ==
    /\ FirstCommand(c, "get_scoreboard")
    /\ Sent({c}, "scoreboard") /\ Reset({c})
    /\ lobbyFds' = lobbyFds \ {c}
    /\ Handled
    /\ UNCHANGED <<clientVars, mapVars, child>>

-----------------------------------------------------------------------------
(* The hosts select reported, one at a time. *)

Serve(h) == lobby = "hosts" /\ h \in ready /\ pending[h] # NoCode

Served(h) == ready' = ready \ {h} /\ UNCHANGED <<lobby, backlog, current>>

StartGame(h) ==
    /\ Serve(h) /\ h \in lobbyFds
    /\ inbox[h] # << >> /\ Head(inbox[h]).command = "start_game"
    /\ inbox' = [inbox EXCEPT ![h] = Tail(@)]

RefuseStart(h) ==
    \/ Fatal(h) /\ LobbyExits /\ UNCHANGED <<outbox, reset>>
    \/ ~Fatal(h) /\ Sent({h}, "error") /\ Reset({h}) /\ Served(h) /\ UNCHANGED lobbyFds

\* The code's room is gone: the entry is dropped, the descriptor stays open.
HandleStartGameNoRoom(h) ==
    /\ StartGame(h)
    /\ rooms[pending[h]] = NoRoom
    /\ RefuseStart(h)
    /\ pending' = [pending EXCEPT ![h] = NoCode]
    /\ UNCHANGED <<clientVars, rooms, collided, child>>

HandleStartGameNoGuest(h) ==
    /\ StartGame(h)
    /\ rooms[pending[h]] # NoRoom /\ rooms[pending[h]].guest = NoConn
    /\ RefuseStart(h)
    /\ UNCHANGED <<clientVars, mapVars, child>>

\* Mutant: the lobby keeps the guest's descriptor after the fork.
HandleStartGameKeepsGuest(h) ==
    LET room == rooms[pending[h]]
    IN  /\ StartGame(h)
        /\ room # NoRoom /\ room.guest # NoConn
        /\ child' = [child EXCEPT ![room.host] =
                        [status |-> "forked", guest |-> room.guest, fds |-> lobbyFds]]
        /\ lobbyFds' = lobbyFds \ {room.host}
        /\ rooms' = [rooms EXCEPT ![pending[h]] = NoRoom]
        /\ pending' = [pending EXCEPT ![h] = NoCode]
        /\ Served(h)
        /\ UNCHANGED <<clientVars, outbox, reset, collided>>

\* fork: the child has every descriptor of the lobby but the listening one.
HandleStartGame(h) ==
    LET room == rooms[pending[h]]
    IN  /\ StartGame(h)
        /\ room # NoRoom /\ room.guest # NoConn
        /\ child' = [child EXCEPT ![room.host] =
                        [status |-> "forked", guest |-> room.guest, fds |-> lobbyFds]]
        /\ lobbyFds' = lobbyFds \ {room.host, room.guest}
        /\ rooms' = [rooms EXCEPT ![pending[h]] = NoRoom]
        /\ pending' = [pending EXCEPT ![h] = NoCode]
        /\ Served(h)
        /\ UNCHANGED <<clientVars, outbox, reset, collided>>

\* fork fails: the room is forgotten and nobody is told.
ForkFails(h) ==
    LET room == rooms[pending[h]]
    IN  /\ "fork" \in Faults
        /\ StartGame(h)
        /\ room # NoRoom /\ room.guest # NoConn
        /\ rooms' = [rooms EXCEPT ![pending[h]] = NoRoom]
        /\ pending' = [pending EXCEPT ![h] = NoCode]
        /\ Served(h)
        /\ UNCHANGED <<clientVars, outbox, reset, lobbyFds, collided, child>>

\* Mutant: the room of a host that has left stays in rooms_.
HandleHostDisconnectKeepsRoom(h) ==
    /\ Serve(h)
    /\ h \notin lobbyFds \/ inbox[h] = << >>
    /\ lobbyFds' = lobbyFds \ {h}
    /\ pending' = [pending EXCEPT ![h] = NoCode]
    /\ Served(h)
    /\ UNCHANGED <<clientVars, netVars, rooms, collided, child>>

\* The stream has ended, or the descriptor is closed already (EBADF).
HandleHostDisconnect(h) ==
    /\ Serve(h)
    /\ h \notin lobbyFds \/ inbox[h] = << >>
    /\ rooms' = [rooms EXCEPT ![pending[h]] = NoRoom]
    /\ lobbyFds' = lobbyFds \ {h}
    /\ pending' = [pending EXCEPT ![h] = NoCode]
    /\ Served(h)
    /\ UNCHANGED <<clientVars, netVars, collided, child>>

\* The loop over hostPendingMap_ is through; run() goes back to select.
LoopEnds ==
    /\ lobby = "hosts"
    /\ \A h \in ready : pending[h] = NoCode
    /\ lobby' = "select" /\ ready' = {}
    /\ UNCHANGED <<clientVars, netVars, backlog, current, mapVars, lobbyFds, child>>

-----------------------------------------------------------------------------
(* The room processes, as far as the lobby and the clients meet them. *)

(***************************************************************************)
(* A room process ends and its descriptors close.  SIGCHLD interrupts a    *)
(* select that is blocked, SA_RESTART or not: select returns EINTR and     *)
(* run() ends.  Before or after that call the signal has no effect.        *)
(***************************************************************************)
ChildEnds(h) ==
    /\ child' = [child EXCEPT ![h].status = "ended", ![h].fds = {}]
    /\ \/ lobby = "select" /\ LobbyExits
       \/ UNCHANGED <<lobbyVars, lobbyFds>>

\* GameRoom::sendGameStart: first the host, then the guest.
StartHost(h) ==
    /\ child[h].status = "forked"
    /\ \/ /\ Fatal(h) /\ ChildEnds(h) /\ UNCHANGED <<outbox, reset>>
       \/ /\ ~Fatal(h)
          /\ Sent({h}, "game_start") /\ Reset({h})
          /\ child' = [child EXCEPT ![h].status = "half"]
          /\ UNCHANGED <<lobbyVars, lobbyFds>>
    /\ UNCHANGED <<clientVars, inbox, mapVars>>

StartGuest(h) ==
    LET g == child[h].guest
    IN  /\ child[h].status = "half"
        /\ \/ /\ Fatal(g) /\ ChildEnds(h) /\ UNCHANGED <<outbox, reset>>
           \/ /\ ~Fatal(g)
              /\ Sent({g}, "game_start") /\ Reset({g})
              /\ child' = [child EXCEPT ![h].status = "running"]
              /\ UNCHANGED <<lobbyVars, lobbyFds>>
        /\ UNCHANGED <<clientVars, inbox, mapVars>>

\* The rounds are over: GameRoom::run returns and the process exits.
RoomOver(h) ==
    /\ child[h].status = "running"
    /\ ChildEnds(h)
    /\ UNCHANGED <<clientVars, netVars, mapVars>>

-----------------------------------------------------------------------------
LobbyStep ==
    \/ Select \/ SelectFails \/ Accept \/ AcceptFails \/ LoopEnds
    \/ \E c \in Conns :
          \/ HangUp(c) \/ HandleHostRoom(c) \/ HandleJoinRoom(c)
          \/ HandleJoinRoomNotFound(c) \/ HandleGetScoreboard(c)
          \/ HandleStartGameNoRoom(c) \/ HandleStartGameNoGuest(c) \/ HandleStartGame(c)
          \/ ForkFails(c) \/ HandleHostDisconnect(c)

ChildStep(h) == StartHost(h) \/ StartGuest(h) \/ RoomOver(h)

UserStep(c) ==
    \/ ConnectHost(c) \/ ConnectGuest(c) \/ ConnectViewer(c)
    \/ EnterCode(c) \/ PickGame(c) \/ LeavePrompt(c) \/ Cancel(c) \/ LeaveGame(c)

Receive(c) == ReceiveEvent(c) \/ ReceiveEnd(c)

Next ==
    \/ LobbyStep
    \/ \E c \in Conns : ChildStep(c) \/ UserStep(c) \/ Receive(c) \/ Crash(c)

Spec == Init /\ [][Next]_vars

(***************************************************************************)
(* What the scheduler and the network give: the lobby and a room that is   *)
(* being started run on, and a client program reads what arrives.  Nothing *)
(* makes anybody connect, answer a prompt, leave one or stop playing.      *)
(***************************************************************************)
Fairness ==
    /\ WF_vars(LobbyStep)
    /\ \A c \in Conns : WF_vars(StartHost(c) \/ StartGuest(c)) /\ WF_vars(Receive(c))

FairSpec == Spec /\ Fairness

-----------------------------------------------------------------------------
(* Properties. *)

(***************************************************************************)
(* Until a code is drawn twice, rooms_ and hostPendingMap_ agree: every    *)
(* room is that of the one pending host that was given its code, every     *)
(* pending host has its room, and the descriptors both name are open, so   *)
(* that select never fails on them.                                        *)
(***************************************************************************)
RoomsMatchHosts ==
    ~collided =>
        /\ \A k \in Codes : rooms[k] # NoRoom =>
              rooms[k].host \in Conns /\ pending[rooms[k].host] = k
        /\ \A h \in PendingHosts : rooms[pending[h]].host = h
        /\ lobby # "exited" =>
              /\ PendingHosts \subseteq lobbyFds
              /\ \A k \in Codes : rooms[k].guest # NoConn => rooms[k].guest \in lobbyFds

(***************************************************************************)
(* A game begins for those who are waiting for it: when the lobby forks a  *)
(* room, its host has chosen a game and its guest has been let in by the   *)
(* code that host was given, unless they have left by then.  The code is   *)
(* the same even if it was drawn twice.                                    *)
(***************************************************************************)
PlayersAreWaiting ==
    \A h \in Conns : child[h].status = "forked" =>
        LET g == child[h].guest
        IN  /\ ~collided => at[h] \in {"hostStarted", "gone"}
            /\ at[g] \in {"guestJoin", "guestWait", "cancelled", "gone"}
            /\ code[g] = code[h]

Players(h) == IF child[h].status = "none" THEN {} ELSE {h, child[h].guest}

(***************************************************************************)
(* Once a room process serves a connection nobody else does: no other room *)
(* has it as a player, the lobby has closed it and no room of the lobby    *)
(* lists it as its guest, so that no message of a game reaches the lobby.  *)
(***************************************************************************)
OneServerPerPlayer ==
    \A h \in Conns :
        /\ Players(h) \cap lobbyFds = {}
        /\ \A g \in Conns \ {h} : Players(h) \cap Players(g) = {}
        /\ \A k \in Codes : rooms[k].guest \notin Players(h)

(***************************************************************************)
(* The lobby answers.  A client that has sent a command it cannot cancel,  *)
(* host_room, join_room, get_scoreboard or start_game, gets an event or    *)
(* the end of the connection; if it gets neither for ever, then either the *)
(* lobby is for ever in the read of a connection whose user says nothing,  *)
(* or a room whose players do not stop has inherited its descriptor, so    *)
(* that it does not see the lobby end.                                     *)
(***************************************************************************)
Asking == {"hostWait", "guestJoin", "boardWait", "hostStarted"}

LobbyAwaitsUser ==
    lobby = "command" /\ at[current] = "guestPin"

RoomInherited(c) ==
    /\ lobby = "exited"
    /\ \E h \in Conns : child[h].status = "running" /\ c \in child[h].fds \ {h, child[h].guest}

UnansweredOnlyBehindUser ==
    \A c \in Conns :
        \/ []<>(at[c] \notin Asking)
        \/ <>[]LobbyAwaitsUser
        \/ <>[]RoomInherited(c)

(***************************************************************************)
(* A room process is isolated from the lobby: that it ends leaves the      *)
(* lobby running.                                                          *)
(***************************************************************************)
LobbyOutlivesRooms ==
    (\E h \in Conns : child[h].status = "ended") => lobby # "exited"

=============================================================================
