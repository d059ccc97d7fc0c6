---------------------------- MODULE LobbyProofs ----------------------------
(***************************************************************************)
(* The lobby and the rooms it forks, for any number of connections and     *)
(* codes, with codes that collide, forks that fail and clients that crash. *)
(***************************************************************************)
EXTENDS Lobby, TLAPS

-----------------------------------------------------------------------------
(* Types.  TypeOK is kept by every step once three facts are added to it:   *)
(* run() calls accept only when a connection waits, a join_room that is     *)
(* under way has a code, and a room that was forked has a guest.            *)

ClientType == at \in [Conns -> Places] /\ code \in [Conns -> Codes \cup {NoCode}]

InboxType ==
  /\ inbox \in [Conns -> Seq(Commands)]
  /\ \A c \in Conns : \A i \in 1..Len(inbox[c]) :
        inbox[c][i].command = "join_room" => code[c] \in Codes

OutboxType == outbox \in [Conns -> Seq(Events)] /\ reset \in SUBSET Conns

LobbyType ==
  /\ lobby \in {"select", "accept", "command", "hosts", "exited"}
  /\ backlog \in Seq(Conns)
  /\ current \in Conns \cup {NoConn}
  /\ ready \in SUBSET Conns
  /\ lobbyFds \in SUBSET Conns
  /\ lobby = "accept" => backlog # << >>

MapType ==
  /\ rooms \in [Codes -> RoomRecords \cup {NoRoom}]
  /\ pending \in [Conns -> Codes \cup {NoCode}]
  /\ collided \in BOOLEAN

ChildType ==
  /\ child \in [Conns -> ChildRecords]
  /\ \A h \in Conns : child[h].status # "none" => child[h].guest \in Conns

TypeInv == ClientType /\ InboxType /\ OutboxType /\ LobbyType /\ MapType /\ ChildType

LEMMA TypeInvSuffices == TypeInv => TypeOK
  BY Zenon DEF TypeInv, ClientType, InboxType, OutboxType, LobbyType, MapType, ChildType, TypeOK

LEMMA TypeStarts == Init => TypeInv
  <1> SUFFICES ASSUME Init PROVE TypeInv
    OBVIOUS
  <1>1. ClientType
    BY DEF Init, ClientType, Places
  <1>2. InboxType /\ OutboxType
    BY DEF Init, InboxType, OutboxType
  <1>3. LobbyType
    BY DEF Init, LobbyType
  <1>4. MapType
    BY Zenon DEF Init, MapType
  <1>5. ChildType
    BY DEF Init, ChildType, ChildRecords, NoChild
  <1> QED
    BY <1>1, <1>2, <1>3, <1>4, <1>5 DEF TypeInv

\* A client closes its socket.
LEMMA CloseType ==
  ASSUME ClientType, OutboxType, NEW c \in Conns, Close(c)
  PROVE  at' \in [Conns -> Places] /\ OutboxType'
  <1>1. at' \in [Conns -> Places]
    BY DEF ClientType, Close, Places
  <1>2. outbox' \in [Conns -> Seq(Events)]
    BY DEF OutboxType, Close
  <1>3. reset' = reset \/ reset' = reset \cup {c}
    BY DEF Close
  <1> QED
    BY <1>1, <1>2, <1>3 DEF OutboxType

\* A client sends a command other than join_room.
LEMMA SendType ==
  ASSUME InboxType, UNCHANGED code, NEW c \in Conns,
         NEW command \in {"host_room", "get_scoreboard", "start_game"}, Send(c, command)
  PROVE  InboxType'
  <1>1. [command |-> command] \in Commands
    BY DEF Commands
  <1>2. inbox' = [inbox EXCEPT ![c] = Append(@, [command |-> command])]
    BY DEF Send
  <1>3. inbox' \in [Conns -> Seq(Commands)]
    BY <1>1, <1>2 DEF InboxType
  <1>4. ASSUME NEW d \in Conns, NEW i \in 1..Len(inbox'[d]),
               inbox'[d][i].command = "join_room"
        PROVE  code[d] \in Codes
    <2>1. CASE d # c
      BY <1>2, <1>4, <2>1 DEF InboxType
    <2>2. CASE d = c
      <3>1. inbox[c] \in Seq(Commands) /\ inbox'[c] = Append(inbox[c], [command |-> command])
        BY <1>2 DEF InboxType
      <3>2. i \in 1..Len(inbox[c]) /\ inbox'[d][i] = inbox[c][i]
        BY <1>4, <2>2, <3>1
      <3> QED
        BY <1>4, <2>2, <3>2 DEF InboxType
    <2> QED
      BY <2>1, <2>2
  <1> QED
    BY <1>3, <1>4 DEF InboxType

\* The lobby reads a command.
LEMMA TakeType ==
  ASSUME InboxType, NEW c \in Conns, inbox[c] # << >>,
         inbox' = [inbox EXCEPT ![c] = Tail(@)],
         \A d \in Conns : code'[d] = code[d] \/ code'[d] \in Codes
  PROVE  InboxType'
  <1>1. inbox' \in [Conns -> Seq(Commands)]
    BY DEF InboxType
  <1>2. ASSUME NEW d \in Conns, NEW i \in 1..Len(inbox'[d]),
               inbox'[d][i].command = "join_room"
        PROVE  code'[d] \in Codes
    <2>1. CASE d # c
      BY <1>2, <2>1 DEF InboxType
    <2>2. CASE d = c
      <3>1. inbox[c] \in Seq(Commands) /\ inbox'[c] = Tail(inbox[c])
        BY DEF InboxType
      <3>2. Len(inbox[c]) \in Nat /\ Len(Tail(inbox[c])) = Len(inbox[c]) - 1
        BY <3>1
      <3>3. i \in 1..(Len(inbox[c]) - 1)
        BY <1>2, <2>2, <3>1, <3>2
      <3>4. Tail(inbox[c])[i] = inbox[c][i + 1]
        BY <3>1, <3>3
      <3>5. i + 1 \in 1..Len(inbox[c])
        BY <3>2, <3>3
      <3> QED
        BY <1>2, <2>2, <3>1, <3>4, <3>5 DEF InboxType
    <2> QED
      BY <2>1, <2>2
  <1> QED
    BY <1>1, <1>2 DEF InboxType

\* Some connections are sent an event.
LEMMA SentType ==
  ASSUME OutboxType, NEW S \in SUBSET Conns, NEW event \in Events, Sent(S, event), Reset(S)
  PROVE  OutboxType'
  <1>1. \A c \in Conns : Append(outbox[c], event) \in Seq(Events)
    BY DEF OutboxType
  <1>2. outbox' \in [Conns -> Seq(Events)]
    BY <1>1 DEF OutboxType, Sent
  <1>3. reset' \in SUBSET Conns
    BY DEF OutboxType, Reset
  <1> QED
    BY <1>2, <1>3 DEF OutboxType

LEMMA ExitType ==
  ASSUME LobbyExits
  PROVE  LobbyType'
  BY DEF LobbyExits, LobbyType

\* What is not touched keeps its type.
LEMMA UnchangedTypes ==
  /\ ClientType /\ UNCHANGED clientVars => ClientType'
  /\ InboxType /\ UNCHANGED <<inbox, code>> => InboxType'
  /\ OutboxType /\ UNCHANGED <<outbox, reset>> => OutboxType'
  /\ LobbyType /\ UNCHANGED <<lobbyVars, lobbyFds>> => LobbyType'
  /\ MapType /\ UNCHANGED mapVars => MapType'
  /\ ChildType /\ UNCHANGED child => ChildType'
  <1>1. ClientType /\ UNCHANGED clientVars => ClientType'
    BY Zenon DEF ClientType, clientVars
  <1>2. InboxType /\ UNCHANGED <<inbox, code>> => InboxType'
    BY Zenon DEF InboxType
  <1>3. OutboxType /\ UNCHANGED <<outbox, reset>> => OutboxType'
    BY Zenon DEF OutboxType
  <1>4. LobbyType /\ UNCHANGED <<lobbyVars, lobbyFds>> => LobbyType'
    BY Zenon DEF LobbyType, lobbyVars
  <1>5. MapType /\ UNCHANGED mapVars => MapType'
    BY Zenon DEF MapType, mapVars
  <1>6. ChildType /\ UNCHANGED child => ChildType'
    BY Zenon DEF ChildType
  <1> QED
    BY <1>1, <1>2, <1>3, <1>4, <1>5, <1>6

\* The client programs.
LEMMA ClientSteps ==
  ASSUME TypeInv, NEW c \in Conns, UserStep(c) \/ Receive(c) \/ Crash(c)
  PROVE  TypeInv'
  <1>0. ClientType /\ InboxType /\ OutboxType /\ LobbyType /\ MapType /\ ChildType
    BY DEF TypeInv
  <1>1. ASSUME NEW place \in Places, Connect(c, place), UNCHANGED <<code, lobby, current, ready,
               mapVars, lobbyFds, child, outbox, reset>>, InboxType'
        PROVE  TypeInv'
    <2>1. ClientType'
      BY <1>0, <1>1 DEF Connect, Goto, ClientType
    <2>2. LobbyType'
      BY <1>0, <1>1 DEF Connect, LobbyType
    <2> QED
      BY <1>0, <1>1, <2>1, <2>2, UnchangedTypes DEF TypeInv
  <1>2. CASE ConnectHost(c)
    <2>1. Connect(c, "hostWait") /\ InboxType'
      BY <1>0, <1>2, SendType DEF ConnectHost
    <2> QED
      BY <1>1, <1>2, <2>1 DEF ConnectHost, Places
  <1>3. CASE ConnectGuest(c)
    <2>1. Connect(c, "guestPin") /\ InboxType'
      BY <1>0, <1>3, UnchangedTypes DEF ConnectGuest, netVars
    <2> QED
      BY <1>1, <1>3, <2>1 DEF ConnectGuest, Places, netVars
  <1>4. CASE ConnectViewer(c)
    <2>1. Connect(c, "boardWait") /\ InboxType'
      BY <1>0, <1>4, SendType DEF ConnectViewer
    <2> QED
      BY <1>1, <1>4, <2>1 DEF ConnectViewer, Places
  <1>5. CASE EnterCode(c)
    <2>1. PICK k \in Codes : code' = [code EXCEPT ![c] = k]
      BY <1>5 DEF EnterCode
    <2>2. ClientType'
      BY <1>0, <1>5, <2>1 DEF EnterCode, Goto, ClientType, Places
    <2>3. inbox' = [inbox EXCEPT ![c] = Append(@, [command |-> "join_room"])]
      BY <1>5 DEF EnterCode, Send
    <2>4. inbox' \in [Conns -> Seq(Commands)]
      <3>1. [command |-> "join_room"] \in Commands
        BY DEF Commands
      <3> QED
        BY <1>0, <2>3, <3>1 DEF InboxType
    <2>5. ASSUME NEW d \in Conns, NEW i \in 1..Len(inbox'[d]),
                 inbox'[d][i].command = "join_room"
          PROVE  code'[d] \in Codes
      BY <1>0, <2>1, <2>3, <2>5 DEF InboxType, ClientType
    <2>6. InboxType'
      BY <2>4, <2>5 DEF InboxType
    <2> QED
      BY <1>0, <1>5, <2>2, <2>6, UnchangedTypes DEF EnterCode, TypeInv
  <1>6. CASE PickGame(c)
    <2>1. ClientType'
      BY <1>0, <1>6 DEF PickGame, Goto, ClientType, Places
    <2>2. InboxType'
      BY <1>0, <1>6, SendType DEF PickGame
    <2> QED
      BY <1>0, <1>6, <2>1, <2>2, UnchangedTypes DEF PickGame, TypeInv
  <1>7. CASE Cancel(c)
    <2>1. ClientType'
      BY <1>0, <1>7 DEF Cancel, Goto, ClientType, Places
    <2> QED
      BY <1>0, <1>7, <2>1, UnchangedTypes DEF Cancel, TypeInv, netVars
  <1>8. ASSUME Close(c), UNCHANGED <<code, inbox, lobbyVars, mapVars, lobbyFds, child>>
        PROVE  TypeInv'
    <2>1. ClientType' /\ OutboxType'
      BY <1>0, <1>8, CloseType DEF ClientType
    <2> QED
      BY <1>0, <1>8, <2>1, UnchangedTypes DEF TypeInv
  <1>9. CASE LeavePrompt(c) \/ LeaveGame(c) \/ ReceiveEnd(c) \/ Crash(c)
    BY <1>8, <1>9, Zenon DEF LeavePrompt, LeaveGame, ReceiveEnd, Crash
  <1>10. CASE ReceiveEvent(c)
    <2>1. outbox[c] # << >> /\ UNCHANGED <<code, inbox, lobbyVars, mapVars, lobbyFds, child>>
      BY <1>10 DEF ReceiveEvent
    <2>2. PICK place \in Places, rest \in Seq(Events) :
            /\ at' = [at EXCEPT ![c] = place] /\ rest = Tail(outbox[c])
            /\ outbox' = [outbox EXCEPT ![c] = IF place = "gone" THEN << >> ELSE rest]
            /\ reset' = IF place = "gone" /\ rest # << >> THEN reset \cup {c} ELSE reset
      <3>1. After(at[c], Head(outbox[c])) \in Places
        BY DEF After, Places
      <3>2. Tail(outbox[c]) \in Seq(Events)
        BY <1>0, <2>1 DEF OutboxType
      <3> QED
        BY <1>10, <3>1, <3>2 DEF ReceiveEvent, Goto
    <2>3. ClientType'
      BY <1>0, <2>1, <2>2 DEF ClientType
    <2>4. << >> \in Seq(Events)
      OBVIOUS
    <2>5. OutboxType'
      BY <1>0, <2>2, <2>4 DEF OutboxType
    <2> QED
      BY <1>0, <2>1, <2>3, <2>5, UnchangedTypes DEF TypeInv
  <1> QED
    BY <1>2, <1>3, <1>4, <1>5, <1>6, <1>7, <1>9, <1>10 DEF UserStep, Receive

\* The room processes.
LEMMA ChildSteps ==
  ASSUME TypeInv, NEW h \in Conns, ChildStep(h)
  PROVE  TypeInv'
  <1>0. ClientType /\ InboxType /\ OutboxType /\ LobbyType /\ MapType /\ ChildType
    BY DEF TypeInv
  <1>1. UNCHANGED <<clientVars, inbox, mapVars>> /\ child[h].status # "none"
    BY DEF ChildStep, StartHost, StartGuest, RoomOver, netVars
  <1>2. child[h].guest \in Conns
    BY <1>0, <1>1 DEF ChildType
  <1>3. ChildType' /\ LobbyType'
    <2>1. CASE ChildEnds(h)
      <3> DEFINE over == [status |-> "ended", guest |-> child[h].guest, fds |-> {}]
      <3>1. ChildType'
        <4>1. child[h] \in ChildRecords
          BY <1>0 DEF ChildType
        <4>2. over \in ChildRecords
          BY <4>1 DEF ChildRecords
        <4>3. child' = [child EXCEPT ![h] = [[@ EXCEPT !.status = "ended"] EXCEPT !.fds = {}]]
          BY <1>0, <2>1 DEF ChildEnds, ChildType
        <4>4. [[child[h] EXCEPT !.status = "ended"] EXCEPT !.fds = {}] = over
          <5> DEFINE rec == child[h]
                     e == [[rec EXCEPT !.status = "ended"] EXCEPT !.fds = {}]
          <5>1. DOMAIN rec = {"status", "guest", "fds"} /\ rec = [f \in DOMAIN rec |-> rec[f]]
            BY <4>1, Zenon DEF ChildRecords
          <5> HIDE DEF rec
          <5>2. e = [f \in DOMAIN rec |-> IF f = "fds" THEN {} ELSE IF f = "status" THEN "ended" ELSE rec[f]]
            BY <5>1
          <5>3. /\ DOMAIN e = {"status", "guest", "fds"}
                /\ e["status"] = "ended" /\ e["guest"] = rec.guest /\ e["fds"] = {}
            BY <5>1, <5>2
          <5> HIDE DEF e
          <5>4. e = [status |-> "ended", guest |-> rec.guest, fds |-> {}]
            BY <5>1, <5>2, <5>3
          <5> QED
            BY <5>4 DEF e, rec
        <4>5. child' = [child EXCEPT ![h] = over]
          BY <1>0, <4>3, <4>4 DEF ChildType
        <4> QED
          BY <1>0, <1>2, <4>2, <4>5 DEF ChildType
      <3>2. LobbyType'
        BY <1>0, <2>1, ExitType, UnchangedTypes DEF ChildEnds
      <3> QED
        BY <3>1, <3>2
    <2>2. ASSUME NEW status \in {"half", "running"},
                 child' = [child EXCEPT ![h].status = status],
                 UNCHANGED <<lobbyVars, lobbyFds>>
          PROVE  ChildType' /\ LobbyType'
      <3>1. ChildType'
        BY <1>0, <1>1, <2>2 DEF ChildType, ChildRecords
      <3> QED
        BY <1>0, <2>2, <3>1, UnchangedTypes
    <2> QED
      BY <2>1, <2>2 DEF ChildStep, StartHost, StartGuest, RoomOver
  <1>4. OutboxType'
    <2>1. "game_start" \in Events
      BY DEF Events
    <2>2. ASSUME NEW c \in Conns, Sent({c}, "game_start"), Reset({c})
          PROVE  OutboxType'
      BY <1>0, <2>1, <2>2, SentType
    <2>3. CASE UNCHANGED <<outbox, reset>>
      BY <1>0, <2>3, UnchangedTypes
    <2> QED
      BY <1>2, <2>2, <2>3 DEF ChildStep, StartHost, StartGuest, RoomOver, netVars
  <1>5. ClientType' /\ InboxType' /\ MapType'
    BY <1>0, <1>1, UnchangedTypes DEF clientVars
  <1> QED
    BY <1>3, <1>4, <1>5 DEF TypeInv

\* The lobby process, while it waits and accepts.
LEMMA WaitingSteps ==
  ASSUME TypeInv, Select \/ SelectFails \/ Accept \/ AcceptFails \/ LoopEnds
  PROVE  TypeInv'
  <1>0. ClientType /\ InboxType /\ OutboxType /\ LobbyType /\ MapType /\ ChildType
    BY DEF TypeInv
  <1>1. UNCHANGED <<clientVars, netVars, mapVars, child>>
    BY DEF Select, SelectFails, Accept, AcceptFails, LoopEnds
  <1>2. ASSUME Select PROVE LobbyType'
    BY <1>0, <1>2 DEF Select, LobbyType, ReadableHosts, PendingHosts
  <1>3. ASSUME SelectFails PROVE LobbyType'
    BY <1>3, ExitType DEF SelectFails
  <1>4. ASSUME Accept PROVE LobbyType'
    BY <1>0, <1>4 DEF Accept, LobbyType
  <1>5. ASSUME AcceptFails \/ LoopEnds PROVE LobbyType'
    BY <1>0, <1>5 DEF AcceptFails, LoopEnds, LobbyType
  <1>6. LobbyType'
    BY <1>2, <1>3, <1>4, <1>5
  <1> QED
    BY <1>0, <1>1, <1>6, UnchangedTypes DEF TypeInv, clientVars, netVars

\* The first command of a connection.
LEMMA CommandSteps ==
  ASSUME TypeInv, NEW c \in Conns,
         \/ HangUp(c) \/ HandleHostRoom(c) \/ HandleJoinRoom(c)
         \/ HandleJoinRoomNotFound(c) \/ HandleGetScoreboard(c)
  PROVE  TypeInv'
  <1>0. ClientType /\ InboxType /\ OutboxType /\ LobbyType /\ MapType /\ ChildType
    BY DEF TypeInv
  <1>1. ASSUME Handled, lobbyFds' \in {lobbyFds, lobbyFds \ {c}}
        PROVE  LobbyType'
    BY <1>0, <1>1 DEF Handled, LobbyType
  <1>2. /\ "room_created" \in Events /\ "player_joined" \in Events
        /\ "error" \in Events /\ "scoreboard" \in Events
    BY DEF Events
  <1>3. ASSUME NEW command, FirstCommand(c, command), UNCHANGED code
        PROVE  InboxType'
    BY <1>0, <1>3, TakeType DEF FirstCommand
  <1>4. CASE HangUp(c)
    <2>1. LobbyType'
      BY <1>1, <1>4 DEF HangUp
    <2> QED
      BY <1>0, <1>4, <2>1, UnchangedTypes DEF HangUp, TypeInv, netVars, clientVars
  <1>5. CASE HandleHostRoom(c)
    <2>1. PICK k \in Codes :
            /\ rooms' = [rooms EXCEPT ![k].host = c]
            /\ pending' = [pending EXCEPT ![c] = k]
            /\ code' = [code EXCEPT ![c] = k]
            /\ collided' = (collided \/ rooms[k] # NoRoom)
      BY <1>5 DEF HandleHostRoom, DrawableCodes
    <2>2. /\ FirstCommand(c, "host_room") /\ Sent({c}, "room_created") /\ Reset({c})
          /\ Handled /\ UNCHANGED <<at, lobbyFds, child>>
      BY <1>5 DEF HandleHostRoom
    <2>3. ClientType'
      BY <1>0, <2>1, <2>2 DEF ClientType
    <2>4. InboxType'
      <3>1. \A d \in Conns : code'[d] = code[d] \/ code'[d] \in Codes
        BY <1>0, <2>1 DEF ClientType
      <3> QED
        BY <1>0, <2>2, <3>1, TakeType DEF FirstCommand
    <2>5. OutboxType'
      BY <1>0, <1>2, <2>2, SentType
    <2>6. LobbyType'
      BY <1>1, <2>2
    <2>7. MapType'
      <3>1. [rooms[k] EXCEPT !.host = c] \in RoomRecords
        BY <1>0 DEF MapType, RoomRecords, NoRoom
      <3>2. rooms' \in [Codes -> RoomRecords \cup {NoRoom}]
        BY <1>0, <2>1, <3>1 DEF MapType
      <3>3. pending' \in [Conns -> Codes \cup {NoCode}]
        BY <1>0, <2>1 DEF MapType
      <3>4. collided' \in BOOLEAN
        BY <2>1, Zenon
      <3> QED
        BY <3>2, <3>3, <3>4 DEF MapType
    <2> QED
      BY <1>0, <2>2, <2>3, <2>4, <2>5, <2>6, <2>7, UnchangedTypes DEF TypeInv
  <1>6. CASE HandleJoinRoom(c)
    <2>1. /\ FirstCommand(c, "join_room") /\ rooms[code[c]] # NoRoom
          /\ rooms' = [rooms EXCEPT ![code[c]].guest = c]
          /\ UNCHANGED <<clientVars, pending, collided, child>>
      BY <1>6 DEF HandleJoinRoom
    <2>2. code[c] \in Codes
      <3>1. /\ inbox[c] \in Seq(Commands) /\ inbox[c] # << >>
            /\ inbox[c][1].command = "join_room"
        BY <1>0, <2>1 DEF FirstCommand, InboxType
      <3>2. 1 \in 1..Len(inbox[c])
        BY <3>1
      <3> QED
        BY <1>0, <3>1, <3>2 DEF InboxType
    <2>3. rooms[code[c]] \in RoomRecords
      BY <1>0, <2>1, <2>2 DEF MapType
    <2>4. MapType'
      <3>1. [rooms[code[c]] EXCEPT !.guest = c] \in RoomRecords
        BY <2>3 DEF RoomRecords
      <3>2. rooms' \in [Codes -> RoomRecords \cup {NoRoom}]
        BY <1>0, <2>1, <2>2, <3>1 DEF MapType
      <3> QED
        BY <1>0, <2>1, <3>2, Zenon DEF MapType
    <2>5. OutboxType' /\ LobbyType'
      <3>1. {rooms[code[c]].host, c} \in SUBSET Conns
        BY <2>3 DEF RoomRecords
      <3>2. CASE /\ Sent({rooms[code[c]].host, c}, "player_joined")
                 /\ Reset({rooms[code[c]].host, c})
                 /\ Handled /\ UNCHANGED lobbyFds
        BY <1>0, <1>1, <1>2, <3>1, <3>2, SentType
      <3>3. CASE LobbyExits /\ UNCHANGED <<outbox, reset>>
        BY <1>0, <3>3, ExitType, UnchangedTypes
      <3> QED
        BY <1>6, <3>2, <3>3 DEF HandleJoinRoom
    <2> QED
      BY <1>0, <1>3, <2>1, <2>4, <2>5, UnchangedTypes DEF TypeInv, clientVars
  <1>7. CASE HandleJoinRoomNotFound(c)
    <2>1. OutboxType' /\ LobbyType' /\ InboxType'
      BY <1>0, <1>1, <1>2, <1>3, <1>7, SentType DEF HandleJoinRoomNotFound, clientVars
    <2> QED
      BY <1>0, <1>7, <2>1, UnchangedTypes DEF HandleJoinRoomNotFound, TypeInv
  <1>8. CASE HandleGetScoreboard(c)
    <2>1. OutboxType' /\ LobbyType' /\ InboxType'
      BY <1>0, <1>1, <1>2, <1>3, <1>8, SentType DEF HandleGetScoreboard, clientVars
    <2> QED
      BY <1>0, <1>8, <2>1, UnchangedTypes DEF HandleGetScoreboard, TypeInv
  <1> QED
    BY <1>4, <1>5, <1>6, <1>7, <1>8

\* The hosts that select reported.
LEMMA HostSteps ==
  ASSUME TypeInv, NEW h \in Conns,
         \/ HandleStartGameNoRoom(h) \/ HandleStartGameNoGuest(h) \/ HandleStartGame(h)
         \/ ForkFails(h) \/ HandleHostDisconnect(h)
  PROVE  TypeInv'
  <1>0. ClientType /\ InboxType /\ OutboxType /\ LobbyType /\ MapType /\ ChildType
    BY DEF TypeInv
  <1>1. Serve(h) /\ UNCHANGED <<clientVars, collided>>
    BY DEF HandleStartGameNoRoom, HandleStartGameNoGuest, HandleStartGame, ForkFails,
           HandleHostDisconnect, StartGame, mapVars
  <1>2. pending[h] \in Codes
    BY <1>0, <1>1 DEF Serve, MapType
  <1>3. InboxType'
    <2>1. CASE StartGame(h)
      BY <1>0, <1>1, <2>1, TakeType DEF StartGame, clientVars
    <2>2. CASE HandleHostDisconnect(h)
      BY <1>0, <2>2, UnchangedTypes DEF HandleHostDisconnect, netVars, clientVars
    <2> QED
      BY <2>1, <2>2 DEF HandleStartGameNoRoom, HandleStartGameNoGuest, HandleStartGame, ForkFails
  <1>4. MapType'
    <2>1. rooms' \in [Codes -> RoomRecords \cup {NoRoom}]
      <3>1. rooms' = rooms \/ rooms' = [rooms EXCEPT ![pending[h]] = NoRoom]
        BY DEF HandleStartGameNoRoom, HandleStartGameNoGuest, HandleStartGame, ForkFails,
               HandleHostDisconnect, mapVars
      <3> QED
        BY <1>0, <1>2, <3>1 DEF MapType
    <2>2. pending' \in [Conns -> Codes \cup {NoCode}]
      <3>1. pending' = pending \/ pending' = [pending EXCEPT ![h] = NoCode]
        BY DEF HandleStartGameNoRoom, HandleStartGameNoGuest, HandleStartGame, ForkFails,
               HandleHostDisconnect, mapVars
      <3> QED
        BY <1>0, <3>1 DEF MapType
    <2> QED
      BY <1>0, <1>1, <2>1, <2>2, Zenon DEF MapType
  <1>5. ASSUME Served(h), lobbyFds' \in SUBSET lobbyFds
        PROVE  LobbyType'
    BY <1>0, <1>5 DEF Served, LobbyType
  <1>6. CASE HandleStartGameNoRoom(h) \/ HandleStartGameNoGuest(h)
    <2>1. RefuseStart(h) /\ UNCHANGED child
      BY <1>6 DEF HandleStartGameNoRoom, HandleStartGameNoGuest
    <2>2. OutboxType' /\ LobbyType'
      <3>1. CASE LobbyExits /\ UNCHANGED <<outbox, reset>>
        BY <1>0, <3>1, ExitType, UnchangedTypes
      <3>2. CASE Sent({h}, "error") /\ Reset({h}) /\ Served(h) /\ UNCHANGED lobbyFds
        BY <1>0, <1>5, <3>2, SentType DEF Events
      <3> QED
        BY <2>1, <3>1, <3>2 DEF RefuseStart
    <2> QED
      BY <1>0, <1>1, <1>3, <1>4, <2>1, <2>2, UnchangedTypes DEF TypeInv
  <1>7. CASE HandleStartGame(h)
    <2> DEFINE room == rooms[pending[h]]
    <2>1. room \in RoomRecords /\ room.guest # NoConn
      BY <1>0, <1>2, <1>7 DEF HandleStartGame, MapType
    <2>2. room.host \in Conns /\ room.guest \in Conns
      BY <2>1 DEF RoomRecords
    <2>3. ChildType'
      <3> DEFINE new == [status |-> "forked", guest |-> room.guest, fds |-> lobbyFds]
      <3>1. new \in ChildRecords
        BY <1>0, <2>2 DEF ChildRecords, LobbyType
      <3>2. child' = [child EXCEPT ![room.host] = new]
        BY <1>7 DEF HandleStartGame
      <3> QED
        BY <1>0, <2>2, <3>1, <3>2 DEF ChildType
    <2>4. LobbyType'
      BY <1>5, <1>7 DEF HandleStartGame
    <2> QED
      BY <1>0, <1>1, <1>3, <1>4, <1>7, <2>3, <2>4, UnchangedTypes DEF HandleStartGame, TypeInv
  <1>8. CASE ForkFails(h)
    <2>1. LobbyType'
      BY <1>5, <1>8 DEF ForkFails
    <2> QED
      BY <1>0, <1>1, <1>3, <1>4, <1>8, <2>1, UnchangedTypes DEF ForkFails, TypeInv
  <1>9. CASE HandleHostDisconnect(h)
    <2>1. LobbyType'
      BY <1>5, <1>9 DEF HandleHostDisconnect
    <2> QED
      BY <1>0, <1>1, <1>3, <1>4, <1>9, <2>1, UnchangedTypes
      DEF HandleHostDisconnect, TypeInv, netVars
  <1> QED
    BY <1>6, <1>7, <1>8, <1>9

LEMMA TypeStep == TypeInv /\ [Next]_vars => TypeInv'
  <1> SUFFICES ASSUME TypeInv, [Next]_vars PROVE TypeInv'
    OBVIOUS
  <1>1. CASE UNCHANGED vars
    BY <1>1, UnchangedTypes DEF vars, TypeInv, clientVars, lobbyVars, mapVars
  <1>2. CASE LobbyStep
    BY <1>2, WaitingSteps, CommandSteps, HostSteps, Zenon DEF LobbyStep
  <1>3. ASSUME NEW c \in Conns, ChildStep(c) \/ UserStep(c) \/ Receive(c) \/ Crash(c)
        PROVE  TypeInv'
    BY <1>3, ChildSteps, ClientSteps, Zenon
  <1> QED
    BY <1>1, <1>2, <1>3, Zenon DEF Next

\* Every variable of the lobby, the rooms and the clients keeps its type: above
\* all, rooms_ has no half-made entry after a join with a code nobody was given.
THEOREM LobbyTypeOK == Spec => []TypeOK
  BY TypeStarts, TypeStep, TypeInvSuffices, PTL DEF Spec

-----------------------------------------------------------------------------
(* Who serves a connection.  Its life has three parts: it is fresh until    *)
(* the lobby has handled its first command, then rooms_ may list it, then a *)
(* room process plays with it; the parts do not overlap, and a listed       *)
(* connection is in the one room whose code it was given or entered.        *)

Fresh(c) == at[c] \in {"off", "guestPin"} \/ c \in Range(backlog) \/ c = current
Listed(c) == \E k \in Codes : c \in {rooms[k].host, rooms[k].guest}
Played(c) == \E h \in Conns : c \in Players(h)

PartsApart ==
  \A c \in Conns :
    /\ Fresh(c) => ~Listed(c) /\ ~Played(c)
    /\ Listed(c) => ~Played(c)

Arrivals ==
  /\ \A c \in Conns : at[c] = "off" => c \notin Range(backlog) /\ c # current
  /\ \A c \in Conns : at[c] \in {"off", "guestPin"} => inbox[c] = << >>
  /\ \A i, j \in 1..Len(backlog) : backlog[i] = backlog[j] => i = j
  /\ current \notin Range(backlog)

OneRoom ==
  \A k \in Codes :
    /\ \A c \in Conns : c \in {rooms[k].host, rooms[k].guest} => code[c] = k
    /\ rooms[k] # NoRoom => rooms[k].host # rooms[k].guest

OneGame ==
  /\ \A h \in Conns : Players(h) \cap lobbyFds = {}
  /\ \A h \in Conns : \A g \in Conns \ {h} : Players(h) \cap Players(g) = {}

ServerInv == PartsApart /\ Arrivals /\ OneRoom /\ OneGame

LEMMA ServerInvSuffices == TypeInv /\ ServerInv => OneServerPerPlayer
  <1> SUFFICES ASSUME TypeInv, ServerInv, NEW h \in Conns, NEW k \in Codes
      PROVE  rooms[k].guest \notin Players(h)
    BY Zenon DEF ServerInv, OneGame, OneServerPerPlayer
  <1>1. Players(h) \subseteq Conns
    BY DEF Players, TypeInv, ChildType
  <1>2. rooms[k].guest \in Conns => ~Played(rooms[k].guest)
    BY Zenon DEF ServerInv, PartsApart, Listed
  <1> QED
    BY <1>1, <1>2, Zenon DEF Played

LEMMA ServerStarts == Init => ServerInv
  <1> SUFFICES ASSUME Init PROVE ServerInv
    OBVIOUS
  <1>1. /\ \A k \in Codes : rooms[k].host = NoConn /\ rooms[k].guest = NoConn /\ rooms[k] = NoRoom
        /\ \A h \in Conns : Players(h) = {}
    BY DEF Init, NoRoom, Players, NoChild
  <1>2. Range(backlog) = {} /\ current = NoConn /\ Len(backlog) = 0
    BY DEF Init, Range
  <1>3. PartsApart /\ OneRoom /\ OneGame
    BY <1>1, NoConnAssumption DEF PartsApart, OneRoom, OneGame, Listed, Played
  <1>4. Arrivals
    BY <1>2, NoConnAssumption DEF Arrivals, Init
  <1> QED
    BY <1>3, <1>4 DEF ServerInv

\* A connection joins the queue of the listening socket, and leaves it.
LEMMA RangeAppend ==
  ASSUME NEW S, NEW s \in Seq(S), NEW e \in S
  PROVE  Range(Append(s, e)) = Range(s) \cup {e}
  <1>1. Append(s, e)[Len(s) + 1] = e
    OBVIOUS
  <1>2. \A i \in 1..Len(s) : Append(s, e)[i] = s[i]
    OBVIOUS
  <1>3. DOMAIN s = 1..Len(s) /\ DOMAIN Append(s, e) = 1..(Len(s) + 1) /\ Len(s) \in Nat
    OBVIOUS
  <1>4. 1..(Len(s) + 1) = 1..Len(s) \cup {Len(s) + 1}
    BY <1>3
  <1>5. ASSUME NEW x
        PROVE  (\E i \in 1..(Len(s) + 1) : Append(s, e)[i] = x)
                 <=> ((\E i \in 1..Len(s) : s[i] = x) \/ x = e)
    BY <1>1, <1>2, <1>4, Zenon
  <1> QED
    BY <1>3, <1>5, Zenon DEF Range

LEMMA RangeTail ==
  ASSUME NEW S, NEW s \in Seq(S), s # << >>,
         \A i, j \in 1..Len(s) : s[i] = s[j] => i = j
  PROVE  /\ Range(Tail(s)) = Range(s) \ {Head(s)}
         /\ Head(s) \in Range(s)
         /\ \A i, j \in 1..Len(Tail(s)) : Tail(s)[i] = Tail(s)[j] => i = j
  <1>1. /\ Len(s) \in Nat \ {0} /\ Len(Tail(s)) = Len(s) - 1
        /\ DOMAIN s = 1..Len(s) /\ DOMAIN Tail(s) = 1..(Len(s) - 1)
        /\ Head(s) = s[1]
    OBVIOUS
  <1>2. \A i \in 1..(Len(s) - 1) : Tail(s)[i] = s[i + 1] /\ i + 1 \in 1..Len(s)
    BY <1>1
  <1>3. \A i \in 1..Len(s) : i = 1 \/ (i - 1 \in 1..(Len(s) - 1) /\ Tail(s)[i - 1] = s[i])
    BY <1>1, <1>2
  <1>4. 1 \in 1..Len(s)
    BY <1>1
  <1>5. ASSUME NEW i \in 1..Len(Tail(s)), NEW j \in 1..Len(Tail(s)), Tail(s)[i] = Tail(s)[j]
        PROVE  i = j
    <2>1. s[i + 1] = s[j + 1] /\ i + 1 \in 1..Len(s) /\ j + 1 \in 1..Len(s)
      BY <1>1, <1>2, <1>5
    <2>2. i + 1 = j + 1
      BY <2>1
    <2> QED
      BY <1>1, <2>2
  <1>6. ASSUME NEW e PROVE e \in Range(Tail(s)) <=> e \in Range(s) /\ e # Head(s)
    <2>1. ASSUME e \in Range(Tail(s)) PROVE e \in Range(s) /\ e # Head(s)
      <3>1. PICK i \in 1..(Len(s) - 1) : e = s[i + 1] /\ i + 1 \in 1..Len(s)
        BY <1>1, <1>2, <2>1 DEF Range
      <3>2. i + 1 # 1
        BY <1>1
      <3>3. ASSUME s[i + 1] = s[1] PROVE FALSE
        BY <1>4, <3>1, <3>2, <3>3, Zenon
      <3>4. s[i + 1] \in Range(s)
        BY <1>1, <3>1 DEF Range
      <3> QED
        BY <1>1, <3>1, <3>3, <3>4
    <2>2. ASSUME e \in Range(s), e # Head(s) PROVE e \in Range(Tail(s))
      <3>1. PICK i \in 1..Len(s) : s[i] = e
        BY <1>1, <2>2 DEF Range
      <3>2. i - 1 \in 1..(Len(s) - 1) /\ Tail(s)[i - 1] = e
        BY <1>1, <1>3, <2>2, <3>1
      <3> QED
        BY <1>1, <3>2, Zenon DEF Range
    <2> QED
      BY <2>1, <2>2
  <1>7. Head(s) \in Range(s)
    BY <1>1, <1>4, Zenon DEF Range
  <1> QED
    BY <1>5, <1>6, <1>7

\* A step that lets no connection in, hands none over and renames no room.
Fading ==
  /\ \A c \in Conns : at'[c] \in {"off", "guestPin"} => at'[c] = at[c] /\ inbox'[c] = inbox[c]
  /\ UNCHANGED code
  /\ backlog' \in {backlog, << >>} /\ current' \in {current, NoConn}
  /\ \A k \in Codes : rooms'[k] \in {rooms[k], NoRoom}
  /\ lobbyFds' \subseteq lobbyFds
  /\ \A h \in Conns : Players(h)' = Players(h)

LEMMA FadingStep ==
  ASSUME TypeInv, ServerInv, Fading
  PROVE  ServerInv'
  <1>1. /\ Range(backlog') \subseteq Range(backlog)
        /\ \A c \in Conns : c = current' => c = current
        /\ NoConn \notin Range(backlog)
    <2>1. Range(backlog') \subseteq Range(backlog)
      BY DEF Fading, Range
    <2>2. \A c \in Conns : c = current' => c = current
      BY NoConnAssumption, Zenon DEF Fading
    <2>3. NoConn \notin Range(backlog)
      BY NoConnAssumption DEF TypeInv, LobbyType, Range
    <2> QED
      BY <2>1, <2>2, <2>3
  <1>2. \A c \in Conns, k \in Codes :
          /\ c \in {rooms'[k].host, rooms'[k].guest} =>
               c \in {rooms[k].host, rooms[k].guest}
          /\ rooms'[k] # NoRoom => rooms'[k] = rooms[k]
    <2>1. NoRoom.host = NoConn /\ NoRoom.guest = NoConn
      BY DEF NoRoom
    <2> QED
      BY <2>1, NoConnAssumption, Zenon DEF Fading
  <1>3. \A c \in Conns : /\ Fresh(c)' => Fresh(c)
                         /\ Listed(c)' => Listed(c)
                         /\ Played(c)' <=> Played(c)
    <2>1. ASSUME NEW c \in Conns PROVE Fresh(c)' => Fresh(c)
      BY <1>1, Zenon DEF Fresh, Fading
    <2>2. ASSUME NEW c \in Conns PROVE Listed(c)' => Listed(c)
      BY <1>2, Zenon DEF Listed
    <2>3. ASSUME NEW c \in Conns PROVE Played(c)' <=> Played(c)
      BY Zenon DEF Played, Fading
    <2> QED
      BY <2>1, <2>2, <2>3
  <1>4. PartsApart'
    BY <1>3, Zenon DEF PartsApart, ServerInv
  <1>5. Arrivals'
    <2>1. /\ \A c \in Conns : at'[c] = "off" => c \notin Range(backlog') /\ c # current'
          /\ current' \notin Range(backlog')
      BY <1>1, Zenon DEF ServerInv, Arrivals, Fading
    <2>2. \A c \in Conns : at'[c] \in {"off", "guestPin"} => inbox'[c] = << >>
      BY Zenon DEF ServerInv, Arrivals, Fading
    <2>3. \A i, j \in 1..Len(backlog') : backlog'[i] = backlog'[j] => i = j
      BY DEF ServerInv, Arrivals, Fading
    <2> QED
      BY <2>1, <2>2, <2>3 DEF Arrivals
  <1>6. OneRoom'
    BY <1>2, Zenon DEF ServerInv, OneRoom, Fading
  <1>7. OneGame'
    BY Zenon DEF ServerInv, OneGame, Fading
  <1> QED
    BY <1>4, <1>5, <1>6, <1>7 DEF ServerInv

\* The steps of the clients, once their connection is made.
LEMMA UserFades ==
  ASSUME TypeInv, ServerInv, NEW c \in Conns,
         \/ PickGame(c) \/ LeavePrompt(c) \/ Cancel(c) \/ LeaveGame(c)
         \/ Receive(c) \/ Crash(c)
  PROVE  ServerInv'
  <1>1. UNCHANGED <<code, lobbyVars, mapVars, lobbyFds, child>>
    BY DEF PickGame, LeavePrompt, Cancel, LeaveGame, Receive, ReceiveEvent, ReceiveEnd, Crash
  <1>2. PICK place \in Places \ {"off", "guestPin"} : at' = [at EXCEPT ![c] = place]
    <2>1. \A p, event : After(p, event) \in Places \ {"off", "guestPin"}
      BY DEF After, Places
    <2>2. CASE PickGame(c) \/ Cancel(c)
      BY <2>2 DEF PickGame, Cancel, Goto, Places
    <2>3. CASE LeavePrompt(c) \/ LeaveGame(c) \/ ReceiveEnd(c) \/ Crash(c)
      BY <2>3 DEF LeavePrompt, LeaveGame, ReceiveEnd, Crash, Close, Places
    <2>4. CASE ReceiveEvent(c)
      BY <2>1, <2>4, Zenon DEF ReceiveEvent, Goto
    <2> QED
      BY <2>2, <2>3, <2>4 DEF Receive
  <1>3. \A d \in Conns : d # c => inbox'[d] = inbox[d]
    BY DEF PickGame, LeavePrompt, Cancel, LeaveGame, Receive, ReceiveEvent, ReceiveEnd, Crash,
           Send, netVars, TypeInv, InboxType
  <1>4. \A d \in Conns :
          at'[d] \in {"off", "guestPin"} => at'[d] = at[d] /\ inbox'[d] = inbox[d]
    BY <1>2, <1>3 DEF TypeInv, ClientType
  <1>5. \A h \in Conns : Players(h)' = Players(h)
    BY <1>1, Zenon DEF Players
  <1>6. Fading
    BY <1>1, <1>4, <1>5, Zenon DEF Fading, lobbyVars, mapVars
  <1> QED
    BY <1>6, FadingStep

\* The steps of the room processes.
LEMMA ChildFades ==
  ASSUME TypeInv, ServerInv, NEW h \in Conns, ChildStep(h)
  PROVE  ServerInv'
  <1>1. UNCHANGED <<at, code, inbox, rooms>>
    BY DEF ChildStep, StartHost, StartGuest, RoomOver, clientVars, netVars, mapVars
  <1>2. /\ backlog' \in {backlog, << >>} /\ current' \in {current, NoConn}
        /\ lobbyFds' \subseteq lobbyFds
    BY DEF ChildStep, StartHost, StartGuest, RoomOver, ChildEnds, LobbyExits, lobbyVars
  <1>3. \A g \in Conns : Players(g)' = Players(g)
    <2>1. child[h].status # "none" /\ child[h] \in ChildRecords
      BY DEF ChildStep, StartHost, StartGuest, RoomOver, TypeInv, ChildType
    <2>2. child' \in [Conns -> ChildRecords]
      BY ChildSteps DEF TypeInv, ChildType
    <2>3. \A g \in Conns : g # h => child'[g] = child[g]
      BY DEF ChildStep, StartHost, StartGuest, RoomOver, ChildEnds, TypeInv, ChildType
    <2>4. child'[h].status # "none" /\ child'[h].guest = child[h].guest
      <3>1. CASE ChildEnds(h)
        <4>1. child' = [child EXCEPT ![h] = [[@ EXCEPT !.status = "ended"] EXCEPT !.fds = {}]]
          BY <3>1 DEF ChildEnds, TypeInv, ChildType
        <4> QED
          BY <2>1, <4>1 DEF ChildRecords, TypeInv, ChildType
      <3>2. ASSUME NEW status \in {"half", "running"}, child' = [child EXCEPT ![h].status = status]
            PROVE  child'[h].status # "none" /\ child'[h].guest = child[h].guest
        BY <2>1, <3>2 DEF ChildRecords, TypeInv, ChildType
      <3> QED
        BY <3>1, <3>2 DEF ChildStep, StartHost, StartGuest, RoomOver
    <2> QED
      BY <2>1, <2>3, <2>4 DEF Players
  <1>4. Fading
    BY <1>1, <1>2, <1>3, Zenon DEF Fading
  <1> QED
    BY <1>4, FadingStep

\* A command that is read was sent by a client that has joined or asked.
LEMMA Reading ==
  ASSUME TypeInv, ServerInv, NEW c \in Conns, UNCHANGED at,
         \/ UNCHANGED inbox
         \/ inbox[c] # << >> /\ inbox' = [inbox EXCEPT ![c] = Tail(@)]
  PROVE  \A d \in Conns :
           at'[d] \in {"off", "guestPin"} => at'[d] = at[d] /\ inbox'[d] = inbox[d]
  <1>1. \A d \in Conns : d # c => inbox'[d] = inbox[d]
    BY DEF TypeInv, InboxType
  <1>2. at[c] \in {"off", "guestPin"} => inbox'[c] = inbox[c]
    BY Zenon DEF ServerInv, Arrivals
  <1> QED
    BY <1>1, <1>2, Zenon

\* The steps of the lobby that let nobody in and hand nobody over.
LEMMA LobbyFades ==
  ASSUME TypeInv, ServerInv,
         \/ Select \/ SelectFails \/ AcceptFails \/ LoopEnds
         \/ \E c \in Conns :
              \/ HangUp(c) \/ HandleJoinRoomNotFound(c) \/ HandleGetScoreboard(c)
              \/ HandleStartGameNoRoom(c) \/ HandleStartGameNoGuest(c)
              \/ ForkFails(c) \/ HandleHostDisconnect(c)
  PROVE  ServerInv'
  <1>1. ASSUME UNCHANGED <<at, code, child>>,
               /\ backlog' \in {backlog, << >>} /\ current' \in {current, NoConn}
               /\ lobbyFds' \subseteq lobbyFds,
               \A k \in Codes : rooms'[k] \in {rooms[k], NoRoom},
               NEW c \in Conns,
               \/ UNCHANGED inbox
               \/ inbox[c] # << >> /\ inbox' = [inbox EXCEPT ![c] = Tail(@)]
        PROVE  ServerInv'
    <2>1. \A d \in Conns :
            at'[d] \in {"off", "guestPin"} => at'[d] = at[d] /\ inbox'[d] = inbox[d]
      BY <1>1, Reading
    <2>2. \A h \in Conns : Players(h)' = Players(h)
      BY <1>1, Zenon DEF Players
    <2>3. Fading
      BY <1>1, <2>1, <2>2, Zenon DEF Fading
    <2> QED
      BY <2>3, FadingStep
  <1>2. CASE Select \/ SelectFails \/ AcceptFails \/ LoopEnds
    <2>1. UNCHANGED <<at, code, inbox, child, rooms>>
      BY <1>2 DEF Select, SelectFails, AcceptFails, LoopEnds, clientVars, netVars, mapVars
    <2>2. /\ backlog' \in {backlog, << >>} /\ current' \in {current, NoConn}
          /\ lobbyFds' \subseteq lobbyFds
      BY <1>2 DEF Select, SelectFails, AcceptFails, LoopEnds, LobbyExits
    <2>3. \A h \in Conns : Players(h)' = Players(h)
      BY <2>1, Zenon DEF Players
    <2>4. Fading
      BY <2>1, <2>2, <2>3, Zenon DEF Fading
    <2> QED
      BY <2>4, FadingStep
  <1>3. ASSUME NEW c \in Conns,
               HangUp(c) \/ HandleJoinRoomNotFound(c) \/ HandleGetScoreboard(c)
        PROVE  ServerInv'
    <2>1. UNCHANGED <<at, code, child, rooms>>
      BY <1>3 DEF HangUp, HandleJoinRoomNotFound, HandleGetScoreboard, clientVars, mapVars
    <2>2. Handled /\ lobbyFds' \subseteq lobbyFds
      BY <1>3 DEF HangUp, HandleJoinRoomNotFound, HandleGetScoreboard
    <2>3. \/ UNCHANGED inbox
          \/ inbox[c] # << >> /\ inbox' = [inbox EXCEPT ![c] = Tail(@)]
      BY <1>3, Zenon DEF HangUp, HandleJoinRoomNotFound, HandleGetScoreboard, FirstCommand, netVars
    <2> QED
      BY <1>1, <2>1, <2>2, <2>3, Zenon DEF Handled
  <1>4. ASSUME NEW h \in Conns,
               \/ HandleStartGameNoRoom(h) \/ HandleStartGameNoGuest(h)
               \/ ForkFails(h) \/ HandleHostDisconnect(h)
        PROVE  ServerInv'
    <2>1. UNCHANGED <<at, code, child>>
      BY <1>4 DEF HandleStartGameNoRoom, HandleStartGameNoGuest, ForkFails,
                  HandleHostDisconnect, clientVars
    <2>2. /\ backlog' \in {backlog, << >>} /\ current' \in {current, NoConn}
          /\ lobbyFds' \subseteq lobbyFds
      BY <1>4 DEF HandleStartGameNoRoom, HandleStartGameNoGuest, ForkFails,
                  HandleHostDisconnect, RefuseStart, Served, LobbyExits
    <2>3. \A k \in Codes : rooms'[k] \in {rooms[k], NoRoom}
      <3>1. rooms' = rooms \/ rooms' = [rooms EXCEPT ![pending[h]] = NoRoom]
        BY <1>4 DEF HandleStartGameNoRoom, HandleStartGameNoGuest, ForkFails,
                    HandleHostDisconnect, mapVars
      <3> QED
        BY <3>1 DEF TypeInv, MapType
    <2>4. \/ UNCHANGED inbox
          \/ inbox[h] # << >> /\ inbox' = [inbox EXCEPT ![h] = Tail(@)]
      BY <1>4, Zenon DEF HandleStartGameNoRoom, HandleStartGameNoGuest, ForkFails,
                         HandleHostDisconnect, StartGame, netVars
    <2> QED
      BY <1>1, <2>1, <2>2, <2>3, <2>4
  <1> QED
    BY <1>2, <1>3, <1>4

\* A client connects.
LEMMA ConnectServes ==
  ASSUME TypeInv, ServerInv, NEW c \in Conns,
         ConnectHost(c) \/ ConnectGuest(c) \/ ConnectViewer(c)
  PROVE  ServerInv'
  <1>1. PICK place \in Places \ {"off"} :
          /\ Connect(c, place)
          /\ place = "guestPin" => inbox' = inbox
    BY DEF ConnectHost, ConnectGuest, ConnectViewer, Places, netVars
  <1>2. UNCHANGED <<code, current, rooms, lobbyFds, child>>
    BY DEF ConnectHost, ConnectGuest, ConnectViewer, mapVars
  <1>3. /\ at[c] = "off" /\ at' = [at EXCEPT ![c] = place]
        /\ backlog' = Append(backlog, c)
    BY <1>1 DEF Connect, Goto
  <1>4. /\ backlog \in Seq(Conns) /\ Fresh(c) /\ inbox[c] = << >>
        /\ c \notin Range(backlog) /\ c # current
    BY <1>3, Zenon DEF TypeInv, LobbyType, ServerInv, Arrivals, Fresh
  <1>5. Range(backlog') = Range(backlog) \cup {c}
    BY <1>3, <1>4, RangeAppend
  <1>6. at'[c] = place /\ \A d \in Conns : d # c => at'[d] = at[d] /\ inbox'[d] = inbox[d]
    BY <1>3 DEF TypeInv, ClientType, InboxType, ConnectHost, ConnectGuest, ConnectViewer, Send,
                netVars
  <1>7. \A d \in Conns : /\ Fresh(d)' => Fresh(d)
                         /\ Listed(d)' <=> Listed(d)
                         /\ Played(d)' <=> Played(d)
    <2>1. ASSUME NEW d \in Conns PROVE Fresh(d)' => Fresh(d)
      BY <1>2, <1>4, <1>5, <1>6, Zenon DEF Fresh
    <2>2. ASSUME NEW d \in Conns
          PROVE  (Listed(d)' <=> Listed(d)) /\ (Played(d)' <=> Played(d))
      BY <1>2, Zenon DEF Listed, Played, Players
    <2> QED
      BY <2>1, <2>2
  <1>8. PartsApart'
    BY <1>7, Zenon DEF PartsApart, ServerInv
  <1>9. Arrivals'
    <2>1. ASSUME NEW d \in Conns, at'[d] = "off"
          PROVE  d \notin Range(backlog') /\ d # current'
      BY <1>1, <1>2, <1>5, <1>6, <2>1, Zenon DEF ServerInv, Arrivals
    <2>2. ASSUME NEW d \in Conns, at'[d] \in {"off", "guestPin"}
          PROVE  inbox'[d] = << >>
      BY <1>1, <1>4, <1>6, <2>2, Zenon DEF ServerInv, Arrivals
    <2>3. current' \notin Range(backlog')
      BY <1>2, <1>4, <1>5, Zenon DEF ServerInv, Arrivals
    <2>4. ASSUME NEW i \in 1..Len(backlog'), NEW j \in 1..Len(backlog'), backlog'[i] = backlog'[j]
          PROVE  i = j
      <3>1. /\ Len(backlog) \in Nat /\ Len(backlog') = Len(backlog) + 1
            /\ \A k \in 1..Len(backlog) : backlog'[k] = backlog[k]
            /\ backlog'[Len(backlog) + 1] = c
        BY <1>3, <1>4
      <3>2. \A k \in 1..Len(backlog) : backlog[k] # c
        BY <1>4 DEF Range
      <3>3. /\ i \in 1..Len(backlog) \/ i = Len(backlog) + 1
            /\ j \in 1..Len(backlog) \/ j = Len(backlog) + 1
        BY <3>1
      <3>4. CASE i \in 1..Len(backlog) /\ j \in 1..Len(backlog)
        BY <2>4, <3>1, <3>4, Zenon DEF ServerInv, Arrivals
      <3> QED
        BY <2>4, <3>1, <3>2, <3>3, <3>4, Zenon
    <2> QED
      BY <2>1, <2>2, <2>3, <2>4, Zenon DEF Arrivals
  <1>10. OneRoom'
    BY <1>2, Zenon DEF ServerInv, OneRoom
  <1>11. OneGame'
    BY <1>2, Zenon DEF ServerInv, OneGame, Players
  <1> QED
    BY <1>8, <1>9, <1>10, <1>11 DEF ServerInv

\* A guest enters a code: no room lists it before its join_room is handled.
LEMMA EnterServes ==
  ASSUME TypeInv, ServerInv, NEW c \in Conns, EnterCode(c)
  PROVE  ServerInv'
  <1>1. /\ at[c] = "guestPin" /\ Fresh(c)
        /\ UNCHANGED <<backlog, current, rooms, lobbyFds, child>>
    BY DEF EnterCode, Fresh, lobbyVars, mapVars
  <1>2. /\ at'[c] = "guestJoin"
        /\ \A d \in Conns : d # c => at'[d] = at[d] /\ inbox'[d] = inbox[d] /\ code'[d] = code[d]
    BY DEF EnterCode, Goto, Send, TypeInv, ClientType, InboxType
  <1>3. \A d \in Conns : /\ Fresh(d)' => Fresh(d)
                         /\ Listed(d)' <=> Listed(d)
                         /\ Played(d)' <=> Played(d)
    <2>1. ASSUME NEW d \in Conns PROVE Fresh(d)' => Fresh(d)
      BY <1>1, <1>2, Zenon DEF Fresh
    <2>2. ASSUME NEW d \in Conns
          PROVE  (Listed(d)' <=> Listed(d)) /\ (Played(d)' <=> Played(d))
      BY <1>1, Zenon DEF Listed, Played, Players
    <2> QED
      BY <2>1, <2>2
  <1>4. PartsApart'
    BY <1>3, Zenon DEF PartsApart, ServerInv
  <1>5. Arrivals'
    <2>1. ASSUME NEW d \in Conns
          PROVE  /\ at'[d] = "off" => d \notin Range(backlog) /\ d # current
                 /\ at'[d] \in {"off", "guestPin"} => inbox'[d] = << >>
      <3>1. CASE d = c
        BY <1>2, <3>1
      <3>2. CASE d # c
        BY <1>2, <3>2, Zenon DEF ServerInv, Arrivals
      <3> QED
        BY <3>1, <3>2
    <2> QED
      BY <1>1, <2>1, Zenon DEF ServerInv, Arrivals
  <1>6. OneRoom'
    <2>1. ~Listed(c)
      BY <1>1, Zenon DEF ServerInv, PartsApart
    <2> QED
      BY <1>1, <1>2, <2>1, Zenon DEF ServerInv, OneRoom, Listed
  <1>7. OneGame'
    BY <1>1, Zenon DEF ServerInv, OneGame, Players
  <1> QED
    BY <1>4, <1>5, <1>6, <1>7 DEF ServerInv

\* The lobby accepts a connection: no room process has it yet.
LEMMA AcceptServes ==
  ASSUME TypeInv, ServerInv, Accept
  PROVE  ServerInv'
  <1> DEFINE c == Head(backlog)
  <1>1. /\ backlog \in Seq(Conns) /\ backlog # << >>
        /\ current' = c /\ backlog' = Tail(backlog) /\ lobbyFds' = lobbyFds \cup {c}
        /\ UNCHANGED <<at, code, inbox, rooms, child>>
    BY DEF Accept, TypeInv, LobbyType, clientVars, netVars, mapVars
  <1>2. /\ Range(backlog') = Range(backlog) \ {c} /\ c \in Range(backlog)
        /\ \A i, j \in 1..Len(backlog') : backlog'[i] = backlog'[j] => i = j
    <2>1. \A i, j \in 1..Len(backlog) : backlog[i] = backlog[j] => i = j
      BY Zenon DEF ServerInv, Arrivals
    <2> QED
      BY <1>1, <2>1, RangeTail
  <1>3. c \in Conns /\ Fresh(c)
    BY <1>1, <1>2 DEF Fresh
  <1> HIDE DEF c
  <1>4. \A d \in Conns : /\ Fresh(d)' => Fresh(d)
                         /\ Listed(d)' <=> Listed(d)
                         /\ Played(d)' <=> Played(d)
    <2>1. ASSUME NEW d \in Conns PROVE Fresh(d)' => Fresh(d)
      BY <1>1, <1>2, <1>3, Zenon DEF Fresh
    <2>2. ASSUME NEW d \in Conns
          PROVE  (Listed(d)' <=> Listed(d)) /\ (Played(d)' <=> Played(d))
      BY <1>1, Zenon DEF Listed, Played, Players
    <2> QED
      BY <2>1, <2>2
  <1>5. PartsApart'
    BY <1>4, Zenon DEF PartsApart, ServerInv
  <1>6. Arrivals'
    <2>1. \A d \in Conns : at'[d] = "off" => d \notin Range(backlog') /\ d # current'
      BY <1>1, <1>2, Zenon DEF ServerInv, Arrivals
    <2>2. \A d \in Conns : at'[d] \in {"off", "guestPin"} => inbox'[d] = << >>
      BY <1>1, Zenon DEF ServerInv, Arrivals
    <2>3. current' \notin Range(backlog')
      BY <1>1, <1>2
    <2> QED
      BY <1>2, <2>1, <2>2, <2>3, Zenon DEF Arrivals
  <1>7. OneRoom'
    BY <1>1, Zenon DEF ServerInv, OneRoom
  <1>8. OneGame'
    <2>1. \A h \in Conns : c \notin Players(h)
      BY <1>3, Zenon DEF ServerInv, PartsApart, Played
    <2>2. \A h \in Conns : Players(h)' = Players(h)
      BY <1>1, Zenon DEF Players
    <2>3. \A h \in Conns : Players(h)' \cap lobbyFds' = {}
      BY <1>1, <2>1, <2>2 DEF ServerInv, OneGame
    <2> QED
      BY <2>2, <2>3, Zenon DEF ServerInv, OneGame
  <1> QED
    BY <1>5, <1>6, <1>7, <1>8 DEF ServerInv

\* A connection whose first command is handled is no longer fresh.
LEMMA NoLongerFresh ==
  ASSUME TypeInv, ServerInv, NEW c \in Conns, current = c, inbox[c] # << >>,
         UNCHANGED at, backlog' \in {backlog, << >>}, current' = NoConn
  PROVE  /\ Fresh(c) /\ ~Fresh(c)' /\ ~Listed(c) /\ ~Played(c)
         /\ \A d \in Conns : Fresh(d)' => Fresh(d)
  <1>1. Range(backlog') \subseteq Range(backlog)
    BY DEF Range
  <1>2. c # NoConn /\ c \notin Range(backlog)
    BY NoConnAssumption, Zenon DEF ServerInv, Arrivals
  <1>3. at[c] \notin {"off", "guestPin"}
    BY Zenon DEF ServerInv, Arrivals
  <1>4. Fresh(c)
    BY DEF Fresh
  <1>5. ~Fresh(c)'
    BY <1>1, <1>2, <1>3, Zenon DEF Fresh
  <1>6. ~Listed(c) /\ ~Played(c)
    BY <1>4, Zenon DEF ServerInv, PartsApart
  <1>7. \A d \in Conns : Fresh(d)' => Fresh(d)
    BY <1>1, NoConnAssumption, Zenon DEF Fresh
  <1> QED
    BY <1>4, <1>5, <1>6, <1>7

LEMMA ArrivalsHandled ==
  ASSUME TypeInv, ServerInv, NEW c \in Conns, inbox[c] # << >>,
         inbox' = [inbox EXCEPT ![c] = Tail(@)],
         UNCHANGED at, backlog' \in {backlog, << >>}, current' = NoConn
  PROVE  Arrivals'
  <1>1. Range(backlog') \subseteq Range(backlog) /\ NoConn \notin Range(backlog)
    BY NoConnAssumption DEF Range, TypeInv, LobbyType
  <1>2. \A d \in Conns :
           at'[d] \in {"off", "guestPin"} => at'[d] = at[d] /\ inbox'[d] = inbox[d]
    BY Reading
  <1>3. \A d \in Conns : at'[d] \in {"off", "guestPin"} => inbox'[d] = << >>
    BY <1>2, Zenon DEF ServerInv, Arrivals
  <1>4. \A d \in Conns : at'[d] = "off" => d \notin Range(backlog') /\ d # current'
    BY <1>1, NoConnAssumption, Zenon DEF ServerInv, Arrivals
  <1>5. \A i, j \in 1..Len(backlog') : backlog'[i] = backlog'[j] => i = j
    BY DEF ServerInv, Arrivals
  <1> QED
    BY <1>1, <1>3, <1>4, <1>5, Zenon DEF Arrivals

\* A connection enters a room as its host or as its guest.
LEMMA RoomEntered ==
  ASSUME TypeInv, ServerInv, NEW c \in Conns, NEW k \in Codes,
         current = c, inbox[c] # << >>, inbox' = [inbox EXCEPT ![c] = Tail(@)],
         UNCHANGED <<at, child>>, backlog' \in {backlog, << >>}, current' = NoConn,
         lobbyFds' \subseteq lobbyFds, code'[c] = k,
         \A d \in Conns : d # c => code'[d] = code[d],
         \A l \in Codes : l # k => rooms'[l] = rooms[l],
         \/ rooms'[k].host = c /\ rooms'[k].guest = rooms[k].guest
         \/ rooms'[k].guest = c /\ rooms'[k].host = rooms[k].host
  PROVE  ServerInv'
  <1>1. /\ ~Fresh(c)' /\ ~Listed(c) /\ ~Played(c)
        /\ \A d \in Conns : Fresh(d)' => Fresh(d)
    BY NoLongerFresh
  <1>2. \A d \in Conns : Played(d)' <=> Played(d)
    BY Zenon DEF Played, Players
  <1>3. \A d \in Conns : Listed(d)' => Listed(d) \/ d = c
    BY Zenon DEF Listed
  <1>4. PartsApart'
    <2>1. ASSUME NEW d \in Conns
          PROVE  (Fresh(d)' => ~Listed(d)' /\ ~Played(d)') /\ (Listed(d)' => ~Played(d)')
      <3>1. CASE d = c
        BY <1>1, <1>2, <3>1, Zenon
      <3>2. CASE d # c
        BY <1>1, <1>2, <1>3, <3>2, Zenon DEF ServerInv, PartsApart
      <3> QED
        BY <3>1, <3>2
    <2> QED
      BY <2>1, Zenon DEF PartsApart
  <1>5. Arrivals'
    BY ArrivalsHandled
  <1>6. OneRoom'
    <2>1. \A l \in Codes : c # rooms[l].host /\ c # rooms[l].guest
      BY <1>1, Zenon DEF Listed
    <2>2. ASSUME NEW l \in Codes, NEW d \in Conns, d \in {rooms'[l].host, rooms'[l].guest}
          PROVE  code'[d] = l
      <3>1. CASE d = c
        <4>1. l = k
          BY <2>1, <2>2, <3>1, Zenon
        <4> QED
          BY <3>1, <4>1
      <3>2. CASE d # c
        <4>1. d \in {rooms[l].host, rooms[l].guest}
          BY <2>2, <3>2, Zenon
        <4> QED
          BY <3>2, <4>1, Zenon DEF ServerInv, OneRoom
      <3> QED
        BY <3>1, <3>2
    <2>3. ASSUME NEW l \in Codes, rooms'[l] # NoRoom
          PROVE  rooms'[l].host # rooms'[l].guest
      BY <2>1, <2>3, Zenon DEF ServerInv, OneRoom
    <2> QED
      BY <2>2, <2>3, Zenon DEF OneRoom
  <1>7. OneGame'
    BY Zenon DEF ServerInv, OneGame, Players
  <1> QED
    BY <1>4, <1>5, <1>6, <1>7 DEF ServerInv

LEMMA EntryServes ==
  ASSUME TypeInv, ServerInv, NEW c \in Conns, HandleHostRoom(c) \/ HandleJoinRoom(c)
  PROVE  ServerInv'
  <1>1. /\ current = c /\ inbox[c] # << >> /\ inbox' = [inbox EXCEPT ![c] = Tail(@)]
        /\ UNCHANGED <<at, child>>
    BY DEF HandleHostRoom, HandleJoinRoom, FirstCommand, clientVars
  <1>2. /\ backlog' \in {backlog, << >>} /\ current' = NoConn
        /\ lobbyFds' \subseteq lobbyFds
    BY DEF HandleHostRoom, HandleJoinRoom, Handled, LobbyExits
  <1>3. CASE HandleHostRoom(c)
    <2>1. PICK k \in Codes : /\ rooms' = [rooms EXCEPT ![k].host = c]
                             /\ code' = [code EXCEPT ![c] = k]
      BY <1>3 DEF HandleHostRoom, DrawableCodes
    <2>2. rooms[k] \in RoomRecords \cup {NoRoom}
      BY DEF TypeInv, MapType
    <2>3. rooms'[k].host = c /\ rooms'[k].guest = rooms[k].guest
      BY <2>1, <2>2 DEF TypeInv, MapType, RoomRecords, NoRoom
    <2>4. /\ code'[c] = k /\ \A d \in Conns : d # c => code'[d] = code[d]
          /\ \A l \in Codes : l # k => rooms'[l] = rooms[l]
      BY <2>1 DEF TypeInv, MapType, ClientType
    <2> QED
      BY <1>1, <1>2, <2>3, <2>4, RoomEntered
  <1>4. CASE HandleJoinRoom(c)
    <2>1. /\ rooms' = [rooms EXCEPT ![code[c]].guest = c]
          /\ rooms[code[c]] # NoRoom /\ UNCHANGED code /\ FirstCommand(c, "join_room")
      BY <1>4 DEF HandleJoinRoom, clientVars
    <2>2. code[c] \in Codes
      <3>1. /\ inbox[c] \in Seq(Commands) /\ inbox[c] # << >>
            /\ inbox[c][1].command = "join_room"
        BY <2>1 DEF FirstCommand, TypeInv, InboxType
      <3>2. 1 \in 1..Len(inbox[c])
        BY <3>1
      <3> QED
        BY <3>1, <3>2 DEF TypeInv, InboxType
    <2>3. rooms[code[c]] \in RoomRecords
      BY <2>1, <2>2 DEF TypeInv, MapType
    <2>4. rooms'[code[c]].guest = c /\ rooms'[code[c]].host = rooms[code[c]].host
      BY <2>1, <2>2, <2>3 DEF TypeInv, MapType, RoomRecords
    <2>5. \A l \in Codes : l # code[c] => rooms'[l] = rooms[l]
      BY <2>1 DEF TypeInv, MapType
    <2> QED
      BY <1>1, <1>2, <2>1, <2>2, <2>4, <2>5, RoomEntered
  <1> QED
    BY <1>3, <1>4

\* The lobby hands a room over: its players were in that room and no other.
LEMMA ForkServes ==
  ASSUME TypeInv, ServerInv, NEW h \in Conns, HandleStartGame(h)
  PROVE  ServerInv'
  <1>1. PICK k \in Codes : k = pending[h]
    BY DEF HandleStartGame, StartGame, Serve, TypeInv, MapType
  <1>2. PICK x \in Conns, y \in Conns : x = rooms[k].host /\ y = rooms[k].guest
    BY <1>1 DEF HandleStartGame, TypeInv, MapType, RoomRecords
  <1>3. /\ rooms' = [rooms EXCEPT ![k] = NoRoom] /\ lobbyFds' = lobbyFds \ {x, y}
        /\ child' = [child EXCEPT ![x] = [status |-> "forked", guest |-> y, fds |-> lobbyFds]]
        /\ UNCHANGED <<at, code, backlog, current>>
        /\ rooms[k] # NoRoom
        /\ inbox[h] # << >> /\ inbox' = [inbox EXCEPT ![h] = Tail(@)]
    BY <1>1, <1>2 DEF HandleStartGame, StartGame, Served, clientVars
  <1>4. /\ x # y /\ code[x] = k /\ code[y] = k /\ Listed(x) /\ Listed(y)
        /\ ~Played(x) /\ ~Played(y) /\ ~Fresh(x) /\ ~Fresh(y)
    <2>1. x # y /\ code[x] = k /\ code[y] = k
      BY <1>2, <1>3, Zenon DEF ServerInv, OneRoom
    <2>2. Listed(x) /\ Listed(y)
      BY <1>2, Zenon DEF Listed
    <2> QED
      BY <1>2, <2>1, <2>2, Zenon DEF ServerInv, PartsApart
  <1>5. /\ Players(x)' = {x, y}
        /\ \A g \in Conns \ {x} : Players(g)' = Players(g)
    <2>1. /\ child'[x].status = "forked" /\ child'[x].guest = y
          /\ \A g \in Conns \ {x} : child'[g] = child[g]
      BY <1>3 DEF TypeInv, ChildType
    <2> QED
      BY <2>1 DEF Players
  <1>6. \A l \in Codes : /\ l # k => rooms'[l] = rooms[l]
                         /\ rooms'[k] = NoRoom
    BY <1>3 DEF TypeInv, MapType
  <1>7. NoRoom.host = NoConn /\ NoRoom.guest = NoConn
    BY DEF NoRoom
  <1>8. \A d \in Conns : /\ Fresh(d)' <=> Fresh(d)
                         /\ Listed(d)' => Listed(d) /\ d # x /\ d # y
                         /\ Played(d)' => Played(d) \/ d = x \/ d = y
    <2>1. ASSUME NEW d \in Conns PROVE Fresh(d)' <=> Fresh(d)
      BY <1>3, Zenon DEF Fresh
    <2>2. ASSUME NEW d \in Conns, Listed(d)' PROVE Listed(d) /\ d # x /\ d # y
      <3>1. PICK l \in Codes : d \in {rooms'[l].host, rooms'[l].guest}
        BY <2>2, Zenon DEF Listed
      <3>2. l # k
        BY <1>6, <1>7, <2>2, <3>1, NoConnAssumption, Zenon
      <3>3. d \in {rooms[l].host, rooms[l].guest}
        BY <1>6, <3>1, <3>2, Zenon
      <3>4. code[d] = l
        BY <3>3, Zenon DEF ServerInv, OneRoom
      <3> QED
        BY <1>4, <3>2, <3>3, <3>4, Zenon DEF Listed
    <2>3. ASSUME NEW d \in Conns, Played(d)' PROVE Played(d) \/ d = x \/ d = y
      BY <1>5, <2>3, Zenon DEF Played
    <2> QED
      BY <2>1, <2>2, <2>3
  <1>9. PartsApart'
    <2>1. ASSUME NEW d \in Conns
          PROVE  (Fresh(d)' => ~Listed(d)' /\ ~Played(d)') /\ (Listed(d)' => ~Played(d)')
      BY <1>4, <1>8, Zenon DEF ServerInv, PartsApart
    <2> QED
      BY <2>1, Zenon DEF PartsApart
  <1>10. Arrivals'
    <2>1. \A d \in Conns :
            at'[d] \in {"off", "guestPin"} => at'[d] = at[d] /\ inbox'[d] = inbox[d]
      BY <1>3, Reading
    <2>2. \A d \in Conns : at'[d] \in {"off", "guestPin"} => inbox'[d] = << >>
      BY <2>1, Zenon DEF ServerInv, Arrivals
    <2> QED
      BY <1>3, <2>2, Zenon DEF ServerInv, Arrivals
  <1>11. OneRoom'
    <2>1. ASSUME NEW l \in Codes, NEW d \in Conns, d \in {rooms'[l].host, rooms'[l].guest}
          PROVE  code'[d] = l
      <3>1. l # k
        BY <1>6, <1>7, <2>1, NoConnAssumption, Zenon
      <3> QED
        BY <1>3, <1>6, <2>1, <3>1, Zenon DEF ServerInv, OneRoom
    <2>2. ASSUME NEW l \in Codes, rooms'[l] # NoRoom
          PROVE  rooms'[l].host # rooms'[l].guest
      BY <1>6, <2>2, Zenon DEF ServerInv, OneRoom
    <2> QED
      BY <2>1, <2>2, Zenon DEF OneRoom
  <1>12. OneGame'
    <2>1. \A g \in Conns : x \notin Players(g) /\ y \notin Players(g)
      BY <1>4, Zenon DEF Played
    <2>2. ASSUME NEW g \in Conns PROVE Players(g)' \cap lobbyFds' = {}
      <3>1. CASE g = x
        BY <1>3, <1>5, <3>1
      <3>2. CASE g # x
        BY <1>3, <1>5, <3>2 DEF ServerInv, OneGame
      <3> QED
        BY <3>1, <3>2
    <2>3. ASSUME NEW g \in Conns, NEW f \in Conns \ {g} PROVE Players(g)' \cap Players(f)' = {}
      <3>1. CASE g = x
        BY <1>5, <2>1, <2>3, <3>1
      <3>2. CASE f = x
        BY <1>5, <2>1, <2>3, <3>2
      <3>3. CASE g # x /\ f # x
        BY <1>5, <2>3, <3>3 DEF ServerInv, OneGame
      <3> QED
        BY <3>1, <3>2, <3>3
    <2> QED
      BY <2>2, <2>3, Zenon DEF OneGame
  <1> QED
    BY <1>9, <1>10, <1>11, <1>12 DEF ServerInv

LEMMA ServerStep == TypeInv /\ ServerInv /\ [Next]_vars => ServerInv'
  <1> SUFFICES ASSUME TypeInv, ServerInv, [Next]_vars PROVE ServerInv'
    OBVIOUS
  <1>1. CASE UNCHANGED vars
    <2>1. UNCHANGED <<at, code, inbox, backlog, current, rooms, lobbyFds, child>>
      BY <1>1 DEF vars
    <2>2. Fading
      BY <2>1, Zenon DEF Fading, Players
    <2> QED
      BY <2>2, FadingStep
  <1>2. CASE LobbyStep
    BY <1>2, LobbyFades, AcceptServes, EntryServes, ForkServes, Zenon DEF LobbyStep
  <1>3. ASSUME NEW c \in Conns, ChildStep(c) \/ UserStep(c) \/ Receive(c) \/ Crash(c)
        PROVE  ServerInv'
    BY <1>3, ChildFades, UserFades, ConnectServes, EnterServes, Zenon DEF UserStep
  <1> QED
    BY <1>1, <1>2, <1>3, Zenon DEF Next

\* Once a room process serves a connection, nobody else does: the lobby has
\* closed it, no room of rooms_ lists it and no other room process plays with it.
THEOREM LobbyOneServerPerPlayer == Spec => []OneServerPerPlayer
  <1>1. TypeInv /\ ServerInv /\ [Next]_vars => (TypeInv /\ ServerInv)'
    BY TypeStep, ServerStep
  <1> QED
    BY <1>1, TypeStarts, ServerStarts, ServerInvSuffices, PTL DEF Spec

-----------------------------------------------------------------------------
(* rooms_ and hostPendingMap_.  RoomsMatchHosts is kept by every step once   *)
(* it is known that the connection whose command is awaited is open, and,    *)
(* from ServerInv, that it is in no room yet and that nobody is in two.      *)

CurrentOpen == lobby = "command" => current \in lobbyFds

MapsInv == RoomsMatchHosts /\ CurrentOpen

LEMMA NoRoomIsEmpty ==
  /\ NoRoom.host = NoConn /\ NoRoom.guest = NoConn
  /\ \A c \in Conns : c # NoConn
  /\ \A k \in Codes : k # NoCode
  <1>1. NoRoom.host = NoConn /\ NoRoom.guest = NoConn
    BY DEF NoRoom
  <1> QED
    BY <1>1, NoConnAssumption, NoCodeAssumption, Zenon

LEMMA MapsStart == Init => MapsInv
  <1> SUFFICES ASSUME Init PROVE MapsInv
    OBVIOUS
  <1>1. \A k \in Codes : rooms[k] = NoRoom
    BY DEF Init
  <1>2. \A c \in Conns : pending[c] = NoCode
    BY DEF Init
  <1>3. RoomsMatchHosts
    BY <1>1, <1>2, NoRoomIsEmpty, Zenon DEF RoomsMatchHosts, PendingHosts
  <1>4. CurrentOpen
    BY DEF Init, CurrentOpen
  <1> QED
    BY <1>3, <1>4 DEF MapsInv

\* Until a code is drawn twice, who is pending or a guest is in a room.
LEMMA InARoom ==
  ASSUME TypeInv, MapsInv, ~collided
  PROVE  /\ \A h \in PendingHosts :
              h \in Conns /\ pending[h] \in Codes /\ rooms[pending[h]].host = h /\ Listed(h)
         /\ \A k \in Codes : rooms[k].guest # NoConn =>
              rooms[k].guest \in Conns /\ Listed(rooms[k].guest)
  <1>1. ASSUME NEW h \in PendingHosts
        PROVE  h \in Conns /\ pending[h] \in Codes /\ rooms[pending[h]].host = h /\ Listed(h)
    <2>1. h \in Conns /\ pending[h] \in Codes
      BY <1>1 DEF PendingHosts, TypeInv, MapType
    <2>2. rooms[pending[h]].host = h
      BY <1>1, Zenon DEF MapsInv, RoomsMatchHosts
    <2> QED
      BY <2>1, <2>2, Zenon DEF Listed
  <1>2. ASSUME NEW k \in Codes, rooms[k].guest # NoConn
        PROVE  rooms[k].guest \in Conns /\ Listed(rooms[k].guest)
    <2>1. rooms[k].guest \in Conns
      BY <1>2 DEF TypeInv, MapType, RoomRecords, NoRoom
    <2> QED
      BY <2>1, Zenon DEF Listed
  <1> QED
    BY <1>1, <1>2

\* A step that leaves the maps alone and closes nobody who is in a room.
LEMMA MapsStand ==
  ASSUME TypeInv, MapsInv, UNCHANGED mapVars,
         lobby' # "exited" =>
           /\ lobby # "exited"
           /\ \A d \in Conns : Listed(d) /\ d \in lobbyFds => d \in lobbyFds',
         lobby' = "command" => current' \in lobbyFds'
  PROVE  MapsInv'
  <1>1. rooms' = rooms /\ pending' = pending /\ collided' = collided /\ PendingHosts' = PendingHosts
    BY Zenon DEF mapVars, PendingHosts
  <1>2. ASSUME ~collided, lobby' # "exited"
        PROVE  /\ PendingHosts \subseteq lobbyFds'
               /\ \A k \in Codes : rooms[k].guest # NoConn => rooms[k].guest \in lobbyFds'
    <2>1. /\ PendingHosts \subseteq lobbyFds
          /\ \A k \in Codes : rooms[k].guest # NoConn => rooms[k].guest \in lobbyFds
      BY <1>2, Zenon DEF MapsInv, RoomsMatchHosts
    <2>2. \A h \in PendingHosts : h \in lobbyFds'
      BY <1>2, <2>1, InARoom, Zenon
    <2> QED
      BY <1>2, <2>1, <2>2, InARoom, Zenon
  <1>3. ~collided => /\ \A k \in Codes : rooms[k] # NoRoom =>
                          rooms[k].host \in Conns /\ pending[rooms[k].host] = k
                     /\ \A h \in PendingHosts : rooms[pending[h]].host = h
    BY Zenon DEF MapsInv, RoomsMatchHosts
  <1>4. RoomsMatchHosts'
    BY <1>1, <1>2, <1>3, Zenon DEF RoomsMatchHosts
  <1> QED
    BY <1>4 DEF MapsInv, CurrentOpen

\* A host's room is taken out of both maps, and its players may be closed.
LEMMA MapsForget ==
  ASSUME TypeInv, ServerInv, MapsInv, NEW h \in Conns, pending[h] # NoCode,
         rooms' = [rooms EXCEPT ![pending[h]] = NoRoom],
         pending' = [pending EXCEPT ![h] = NoCode],
         UNCHANGED <<collided, lobby>>, lobby = "hosts",
         \A d \in lobbyFds : d \in {h, rooms[pending[h]].host, rooms[pending[h]].guest}
                               \/ d \in lobbyFds'
  PROVE  MapsInv'
  <1>1. PICK k \in Codes : k = pending[h]
    BY DEF TypeInv, MapType
  <1>2. /\ rooms'[k] = NoRoom /\ \A l \in Codes : l # k => rooms'[l] = rooms[l]
        /\ pending'[h] = NoCode /\ \A d \in Conns : d # h => pending'[d] = pending[d]
    BY <1>1 DEF TypeInv, MapType
  <1> SUFFICES ASSUME ~collided PROVE MapsInv'
    BY Zenon DEF MapsInv, RoomsMatchHosts, CurrentOpen
  <1>3. h \in PendingHosts
    BY DEF PendingHosts
  <1>4. /\ \A l \in Codes : rooms[l] # NoRoom =>
             rooms[l].host \in Conns /\ pending[rooms[l].host] = l
        /\ \A d \in PendingHosts : rooms[pending[d]].host = d
        /\ PendingHosts \subseteq lobbyFds
        /\ \A l \in Codes : rooms[l].guest # NoConn => rooms[l].guest \in lobbyFds
    BY Zenon DEF MapsInv, RoomsMatchHosts
  <1>5. rooms[k].host = h
    BY <1>1, <1>3, <1>4, Zenon
  <1>6. \A d \in PendingHosts' : d \in PendingHosts /\ d # h /\ pending'[d] = pending[d]
    BY <1>2, Zenon DEF PendingHosts
  <1>7. \A d \in PendingHosts' : pending[d] \in Codes /\ pending[d] # k
    <2>1. \A d \in PendingHosts' : pending[d] \in Codes /\ rooms[pending[d]].host = d
      BY <1>6, InARoom, Zenon
    <2> QED
      BY <1>5, <1>6, <2>1, Zenon
  <1>8. ASSUME NEW d \in PendingHosts' PROVE rooms'[pending'[d]].host = d
    <2>1. rooms'[pending'[d]] = rooms[pending[d]]
      BY <1>2, <1>6, <1>7, Zenon
    <2> QED
      BY <1>4, <1>6, <2>1, Zenon
  <1>9. ASSUME NEW l \in Codes, rooms'[l] # NoRoom
        PROVE  rooms'[l].host \in Conns /\ pending'[rooms'[l].host] = l
    <2>1. l # k /\ rooms'[l] = rooms[l]
      BY <1>2, <1>9, Zenon
    <2>2. rooms[l].host \in Conns /\ pending[rooms[l].host] = l
      BY <1>4, <1>9, <2>1, Zenon
    <2>3. rooms[l].host # h
      BY <1>1, <2>1, <2>2, Zenon
    <2>4. pending'[rooms[l].host] = l
      BY <1>2, <2>2, <2>3, Zenon
    <2> QED
      BY <2>1, <2>2, <2>4, Zenon
  <1>10. \A d \in Conns, l \in Codes :
           l # k /\ d \in {rooms[l].host, rooms[l].guest} /\ d \in lobbyFds => d \in lobbyFds'
    <2>1. SUFFICES ASSUME NEW d \in Conns, NEW l \in Codes, l # k,
                          d \in {rooms[l].host, rooms[l].guest}, d \in lobbyFds
                   PROVE  d \in lobbyFds'
      BY Zenon
    <2>2. code[d] = l
      BY <2>1, Zenon DEF ServerInv, OneRoom
    <2>3. d \notin {rooms[k].host, rooms[k].guest}
      BY <2>1, <2>2, Zenon DEF ServerInv, OneRoom
    <2> QED
      BY <1>1, <1>5, <2>1, <2>3, Zenon
  <1>11. PendingHosts' \subseteq lobbyFds'
    <2>1. ASSUME NEW d \in PendingHosts' PROVE d \in lobbyFds'
      <3>1. d \in Conns /\ rooms[pending[d]].host = d /\ d \in lobbyFds
        BY <1>4, <1>6, InARoom, Zenon
      <3> QED
        BY <1>7, <1>10, <3>1, Zenon
    <2> QED
      BY <2>1, Zenon
  <1>12. \A l \in Codes : rooms'[l].guest # NoConn => rooms'[l].guest \in lobbyFds'
    <2>1. ASSUME NEW l \in Codes, rooms'[l].guest # NoConn PROVE rooms'[l].guest \in lobbyFds'
      <3>1. l # k /\ rooms'[l] = rooms[l]
        BY <1>2, <2>1, NoRoomIsEmpty, Zenon
      <3>2. rooms[l].guest \in Conns /\ rooms[l].guest \in lobbyFds
        BY <1>4, <2>1, <3>1, InARoom, Zenon
      <3> QED
        BY <1>10, <3>1, <3>2, Zenon
    <2> QED
      BY <2>1, Zenon
  <1>13. RoomsMatchHosts'
    BY <1>8, <1>9, <1>11, <1>12, Zenon DEF RoomsMatchHosts
  <1> QED
    BY <1>13 DEF MapsInv, CurrentOpen

\* A host is given a code that no room has.
LEMMA MapsHost ==
  ASSUME TypeInv, ServerInv, MapsInv, NEW c \in Conns, HandleHostRoom(c)
  PROVE  MapsInv'
  <1>1. PICK k \in Codes : /\ rooms' = [rooms EXCEPT ![k].host = c]
                           /\ pending' = [pending EXCEPT ![c] = k]
                           /\ collided' = (collided \/ rooms[k] # NoRoom)
    BY DEF HandleHostRoom, DrawableCodes
  <1>2. /\ lobby = "command" /\ current = c /\ lobby' = "hosts" /\ lobbyFds' = lobbyFds
    BY DEF HandleHostRoom, FirstCommand, Handled
  <1> SUFFICES ASSUME ~collided' PROVE MapsInv'
    BY <1>2, Zenon DEF MapsInv, RoomsMatchHosts, CurrentOpen
  <1>3. ~collided /\ rooms[k] = NoRoom
    BY <1>1, Zenon
  <1>4. /\ rooms'[k].host = c /\ rooms'[k].guest = NoConn
        /\ \A l \in Codes : l # k => rooms'[l] = rooms[l]
        /\ pending'[c] = k /\ \A d \in Conns : d # c => pending'[d] = pending[d]
    BY <1>1, <1>3 DEF TypeInv, MapType, NoRoom
  <1>5. /\ \A l \in Codes : rooms[l] # NoRoom =>
             rooms[l].host \in Conns /\ pending[rooms[l].host] = l
        /\ \A d \in PendingHosts : rooms[pending[d]].host = d
        /\ PendingHosts \subseteq lobbyFds
        /\ \A l \in Codes : rooms[l].guest # NoConn => rooms[l].guest \in lobbyFds
    BY <1>2, <1>3, Zenon DEF MapsInv, RoomsMatchHosts
  <1>6. ~Listed(c) /\ c \in lobbyFds
    BY <1>2, Zenon DEF ServerInv, PartsApart, Fresh, MapsInv, CurrentOpen
  <1>7. \A l \in Codes : rooms[l].host # c
    BY <1>6, Zenon DEF Listed
  <1>8. \A d \in PendingHosts' : d = c \/ (d \in PendingHosts /\ d # c /\ pending'[d] = pending[d])
    BY <1>4, Zenon DEF PendingHosts
  <1>9. \A d \in PendingHosts : d \in Conns /\ pending[d] \in Codes /\ pending[d] # k
    <2>1. \A d \in PendingHosts : d \in Conns /\ pending[d] \in Codes
                                  /\ rooms[pending[d]].host = d
      BY <1>3, InARoom, Zenon
    <2> QED
      BY <1>3, <2>1, NoRoomIsEmpty, Zenon
  <1>10. ASSUME NEW d \in PendingHosts' PROVE rooms'[pending'[d]].host = d
    <2>1. CASE d = c
      <3>1. pending'[d] = k
        BY <1>4, <2>1, Zenon
      <3> QED
        BY <1>4, <2>1, <3>1, Zenon
    <2>2. CASE d # c
      <3>1. d \in PendingHosts /\ rooms'[pending'[d]] = rooms[pending[d]]
        BY <1>4, <1>8, <1>9, <2>2, Zenon
      <3> QED
        BY <1>5, <3>1, Zenon
    <2> QED
      BY <2>1, <2>2
  <1>11. ASSUME NEW l \in Codes, rooms'[l] # NoRoom
         PROVE  rooms'[l].host \in Conns /\ pending'[rooms'[l].host] = l
    <2>1. CASE l = k
      <3>1. rooms'[l].host = c
        BY <1>4, <2>1, Zenon
      <3>2. pending'[c] = l
        BY <1>4, <2>1, Zenon
      <3> QED
        BY <3>1, <3>2, Zenon
    <2>2. CASE l # k
      <3>1. rooms'[l] = rooms[l] /\ rooms[l].host \in Conns /\ pending[rooms[l].host] = l
        BY <1>4, <1>5, <1>11, <2>2, Zenon
      <3>2. pending'[rooms[l].host] = l
        BY <1>4, <1>7, <3>1, Zenon
      <3> QED
        BY <3>1, <3>2, Zenon
    <2> QED
      BY <2>1, <2>2
  <1>12. PendingHosts' \subseteq lobbyFds'
    BY <1>2, <1>5, <1>6, <1>8, Zenon
  <1>13. \A l \in Codes : rooms'[l].guest # NoConn => rooms'[l].guest \in lobbyFds'
    BY <1>2, <1>4, <1>5, Zenon
  <1>14. RoomsMatchHosts'
    BY <1>10, <1>11, <1>12, <1>13, Zenon DEF RoomsMatchHosts
  <1> QED
    BY <1>2, <1>14 DEF MapsInv, CurrentOpen

\* A guest is let into the room whose code it entered.
LEMMA MapsGuest ==
  ASSUME TypeInv, ServerInv, MapsInv, NEW c \in Conns, HandleJoinRoom(c)
  PROVE  MapsInv'
  <1>1. /\ rooms' = [rooms EXCEPT ![code[c]].guest = c] /\ rooms[code[c]] # NoRoom
        /\ pending' = pending /\ collided' = collided
        /\ FirstCommand(c, "join_room")
    BY DEF HandleJoinRoom
  <1>2. lobby = "command" /\ current = c
    BY <1>1 DEF FirstCommand
  <1>3. \/ lobby' = "hosts" /\ lobbyFds' = lobbyFds
        \/ lobby' = "exited"
    BY DEF HandleJoinRoom, Handled, LobbyExits
  <1>4. PICK k \in Codes : k = code[c]
    <2>1. /\ inbox[c] \in Seq(Commands) /\ inbox[c] # << >>
          /\ inbox[c][1].command = "join_room"
      BY <1>1 DEF FirstCommand, TypeInv, InboxType
    <2>2. 1 \in 1..Len(inbox[c])
      BY <2>1
    <2> QED
      BY <2>1, <2>2 DEF TypeInv, InboxType
  <1>5. /\ rooms'[k].host = rooms[k].host /\ rooms'[k].guest = c /\ rooms[k] # NoRoom
        /\ \A l \in Codes : l # k => rooms'[l] = rooms[l]
    BY <1>1, <1>4 DEF TypeInv, MapType, RoomRecords
  <1> SUFFICES ASSUME ~collided PROVE MapsInv'
    BY <1>1, <1>3, Zenon DEF MapsInv, RoomsMatchHosts, CurrentOpen
  <1>6. /\ \A l \in Codes : rooms[l] # NoRoom =>
             rooms[l].host \in Conns /\ pending[rooms[l].host] = l
        /\ \A d \in PendingHosts : rooms[pending[d]].host = d
        /\ PendingHosts \subseteq lobbyFds
        /\ \A l \in Codes : rooms[l].guest # NoConn => rooms[l].guest \in lobbyFds
    BY <1>2, Zenon DEF MapsInv, RoomsMatchHosts
  <1>7. c \in lobbyFds
    BY <1>2, Zenon DEF MapsInv, CurrentOpen
  <1>8. PendingHosts' = PendingHosts /\ \A d \in PendingHosts : pending[d] \in Codes
    BY <1>1, InARoom, Zenon DEF PendingHosts
  <1>9. \A d \in PendingHosts' : rooms'[pending'[d]].host = d
    BY <1>1, <1>5, <1>6, <1>8, Zenon
  <1>10. ASSUME NEW l \in Codes, rooms'[l] # NoRoom
         PROVE  rooms'[l].host \in Conns /\ pending'[rooms'[l].host] = l
    <2>1. rooms[l] # NoRoom /\ rooms'[l].host = rooms[l].host
      BY <1>5, <1>10, Zenon
    <2>2. rooms[l].host \in Conns /\ pending[rooms[l].host] = l
      BY <1>6, <2>1, Zenon
    <2> QED
      BY <1>1, <2>1, <2>2, Zenon
  <1>11. lobby' # "exited" =>
           /\ PendingHosts' \subseteq lobbyFds'
           /\ \A l \in Codes : rooms'[l].guest # NoConn => rooms'[l].guest \in lobbyFds'
    BY <1>3, <1>5, <1>6, <1>7, <1>8, Zenon
  <1>12. RoomsMatchHosts'
    BY <1>9, <1>10, <1>11, Zenon DEF RoomsMatchHosts
  <1> QED
    BY <1>3, <1>12 DEF MapsInv, CurrentOpen

LEMMA MapsStep == TypeInv /\ ServerInv /\ MapsInv /\ [Next]_vars => MapsInv'
  <1> SUFFICES ASSUME TypeInv, ServerInv, MapsInv, [Next]_vars PROVE MapsInv'
    OBVIOUS
  <1>0. CurrentOpen
    BY DEF MapsInv
  <1>1. ASSUME UNCHANGED <<lobby, current, mapVars, lobbyFds>> PROVE MapsInv'
    BY <1>0, <1>1, MapsStand, Zenon DEF CurrentOpen
  <1>2. ASSUME LobbyExits, UNCHANGED mapVars PROVE MapsInv'
    BY <1>2, MapsStand, Zenon DEF LobbyExits
  <1>3. ASSUME NEW c \in Conns, UserStep(c) \/ Receive(c) \/ Crash(c) PROVE MapsInv'
    <2>1. UNCHANGED <<lobby, current, mapVars, lobbyFds>>
      BY <1>3, Zenon DEF UserStep, Receive, Crash, ConnectHost, ConnectGuest, ConnectViewer,
                         EnterCode, PickGame, LeavePrompt, Cancel, LeaveGame, ReceiveEvent,
                         ReceiveEnd, lobbyVars
    <2> QED
      BY <1>1, <2>1
  <1>4. ASSUME NEW h \in Conns, ChildStep(h) PROVE MapsInv'
    <2>1. UNCHANGED mapVars /\ (LobbyExits \/ UNCHANGED <<lobby, current, lobbyFds>>)
      BY <1>4, Zenon DEF ChildStep, StartHost, StartGuest, RoomOver, ChildEnds, lobbyVars
    <2> QED
      BY <1>1, <1>2, <2>1, Zenon
  <1>5. CASE Select \/ AcceptFails \/ LoopEnds
    <2>1. lobby # "exited" /\ lobby' # "command" /\ lobbyFds' = lobbyFds /\ UNCHANGED mapVars
      BY <1>5 DEF Select, AcceptFails, LoopEnds
    <2> QED
      BY <2>1, MapsStand, Zenon
  <1>6. CASE SelectFails
    BY <1>2, <1>6, Zenon DEF SelectFails
  <1>7. CASE Accept
    <2>1. /\ lobby # "exited" /\ UNCHANGED mapVars
          /\ lobbyFds' = lobbyFds \cup {current'}
      BY <1>7 DEF Accept
    <2>2. current' \in lobbyFds' /\ \A d \in lobbyFds : d \in lobbyFds'
      BY <2>1
    <2> QED
      BY <2>1, <2>2, MapsStand, Zenon
  <1>8. ASSUME NEW c \in Conns,
               HangUp(c) \/ HandleJoinRoomNotFound(c) \/ HandleGetScoreboard(c)
        PROVE  MapsInv'
    <2>1. /\ lobby = "command" /\ current = c /\ lobby' = "hosts"
          /\ lobbyFds' = lobbyFds \ {c} /\ UNCHANGED mapVars
      BY <1>8 DEF HangUp, HandleJoinRoomNotFound, HandleGetScoreboard, FirstCommand, Handled
    <2>2. ~Listed(c)
      BY <2>1, Zenon DEF ServerInv, PartsApart, Fresh
    <2>3. lobby # "exited" /\ lobby' # "command"
      BY <2>1
    <2>4. \A d \in lobbyFds : d # c => d \in lobbyFds'
      BY <2>1
    <2> QED
      BY <2>1, <2>2, <2>3, <2>4, MapsStand, Zenon
  <1>9. ASSUME NEW h \in Conns, HandleStartGameNoGuest(h) PROVE MapsInv'
    <2>1. UNCHANGED mapVars /\ (LobbyExits \/ UNCHANGED <<lobby, current, lobbyFds>>)
      BY <1>9, Zenon DEF HandleStartGameNoGuest, RefuseStart, Served
    <2> QED
      BY <1>1, <1>2, <2>1, Zenon
  <1>10. ASSUME NEW h \in Conns, HandleStartGameNoRoom(h) PROVE MapsInv'
    <2>1. /\ pending[h] # NoCode /\ rooms[pending[h]] = NoRoom /\ collided' = collided
      BY <1>10 DEF HandleStartGameNoRoom, StartGame, Serve
    <2>2. collided
      <3>1. ASSUME ~collided PROVE FALSE
        <4>1. rooms[pending[h]].host = h
          BY <2>1, <3>1, InARoom, Zenon DEF PendingHosts
        <4> QED
          BY <2>1, <4>1, NoRoomIsEmpty, Zenon
      <3> QED
        BY <3>1
    <2>3. lobby' # "command"
      BY <1>10 DEF HandleStartGameNoRoom, StartGame, Serve, RefuseStart, LobbyExits, Served
    <2> QED
      BY <2>1, <2>2, <2>3, Zenon DEF MapsInv, RoomsMatchHosts, CurrentOpen
  <1>11. ASSUME NEW h \in Conns,
                HandleStartGame(h) \/ ForkFails(h) \/ HandleHostDisconnect(h)
         PROVE  MapsInv'
    <2>1. /\ pending[h] # NoCode /\ lobby = "hosts" /\ UNCHANGED <<collided, lobby>>
          /\ rooms' = [rooms EXCEPT ![pending[h]] = NoRoom]
          /\ pending' = [pending EXCEPT ![h] = NoCode]
      BY <1>11 DEF HandleStartGame, ForkFails, HandleHostDisconnect, StartGame, Serve, Served
    <2>2. \/ lobbyFds' = lobbyFds \/ lobbyFds' = lobbyFds \ {h}
          \/ lobbyFds' = lobbyFds \ {rooms[pending[h]].host, rooms[pending[h]].guest}
      BY <1>11, Zenon DEF HandleStartGame, ForkFails, HandleHostDisconnect
    <2>3. \A d \in lobbyFds : d \in {h, rooms[pending[h]].host, rooms[pending[h]].guest}
                                \/ d \in lobbyFds'
      BY <2>2
    <2> QED
      BY <2>1, <2>3, MapsForget
  <1>12. CASE LobbyStep
    BY <1>5, <1>6, <1>7, <1>8, <1>9, <1>10, <1>11, <1>12, MapsHost, MapsGuest, Zenon
       DEF LobbyStep
  <1>13. CASE UNCHANGED vars
    BY <1>1, <1>13, Zenon DEF vars, mapVars
  <1> QED
    BY <1>3, <1>4, <1>12, <1>13, Zenon DEF Next

\* Until a code is drawn twice, the lobby's two maps agree and what they name
\* is open, so that select never fails on a host and no guest is written to in vain.
THEOREM LobbyRoomsMatchHosts == Spec => []RoomsMatchHosts
  <1>1. TypeInv /\ ServerInv /\ MapsInv /\ [Next]_vars => (TypeInv /\ ServerInv /\ MapsInv)'
    BY TypeStep, ServerStep, MapsStep
  <1>2. MapsInv => RoomsMatchHosts
    BY DEF MapsInv
  <1> QED
    BY <1>1, <1>2, TypeStarts, ServerStarts, MapsStart, PTL DEF Spec

-----------------------------------------------------------------------------
(* Who waits for a game.  A connection that a room of the lobby lists, or a  *)
(* room process that has not begun to send game_start, has heard nothing of  *)
(* a game yet, so a guest is still waiting or has left; a connection that is *)
(* fresh has heard nothing at all; and only a host that has chosen a game    *)
(* asks for it.                                                              *)

Has(commands, name) == \E i \in 1..Len(commands) : commands[i].command = name

Arriving == {"off", "guestPin", "hostWait", "guestJoin", "boardWait", "gone"}
Guests == {"guestJoin", "guestWait", "cancelled", "gone"}

Forked(h) == child[h].status = "forked"
Unstarted(c) == Listed(c) \/ \E h \in Conns : Forked(h) /\ c \in Players(h)
Invited(c) == \/ \E k \in Codes : c = rooms[k].guest
              \/ \E h \in Conns : Forked(h) /\ c = child[h].guest

Unheard ==
  \A c \in Conns : Fresh(c) =>
    /\ outbox[c] = << >> /\ at[c] \in Arriving
    /\ Has(inbox[c], "join_room") => at[c] \in {"guestJoin", "gone"}

PendingKnown == \A h \in Conns : pending[h] # NoCode => ~Fresh(h)

Asked ==
  \A c \in Conns : Has(inbox[c], "start_game") => at[c] \in {"hostStarted", "playing", "gone"}

QuietInv ==
  \A c \in Conns : Unstarted(c) => "game_start" \notin Range(outbox[c]) /\ at[c] # "playing"

InvitedInv == \A c \in Conns : Invited(c) => at[c] \in Guests

ForkedInv ==
  \A h \in Conns : Forked(h) =>
    /\ code[child[h].guest] = code[h]
    /\ ~collided => at[h] \in {"hostStarted", "gone"}

WaitInv == Unheard /\ PendingKnown /\ Asked /\ QuietInv /\ InvitedInv /\ ForkedInv

LEMMA WaitInvSuffices == TypeInv /\ WaitInv => PlayersAreWaiting
  <1> SUFFICES ASSUME TypeInv, WaitInv, NEW h \in Conns, child[h].status = "forked"
      PROVE  /\ ~collided => at[h] \in {"hostStarted", "gone"}
             /\ at[child[h].guest] \in {"guestJoin", "guestWait", "cancelled", "gone"}
             /\ code[child[h].guest] = code[h]
    BY Zenon DEF PlayersAreWaiting
  <1>1. child[h].guest \in Conns
    BY DEF TypeInv, ChildType
  <1>2. Forked(h) /\ Invited(child[h].guest)
    BY Zenon DEF Forked, Invited
  <1>3. at[child[h].guest] \in Guests
    BY <1>1, <1>2, Zenon DEF WaitInv, InvitedInv
  <1> QED
    BY <1>2, <1>3, Zenon DEF WaitInv, ForkedInv, Guests

LEMMA WaitStarts == Init => WaitInv
  <1> SUFFICES ASSUME Init PROVE WaitInv
    OBVIOUS
  <1>1. /\ \A c \in Conns : at[c] = "off" /\ inbox[c] = << >> /\ outbox[c] = << >>
                            /\ pending[c] = NoCode /\ child[c].status = "none"
        /\ \A k \in Codes : rooms[k] = NoRoom
    BY DEF Init, NoChild
  <1>2. \A c \in Conns : ~Unstarted(c) /\ ~Invited(c) /\ ~Forked(c)
    BY <1>1, NoRoomIsEmpty, Zenon DEF Unstarted, Listed, Invited, Forked
  <1>3. \A x : \A c \in Conns : ~Has(inbox[c], x)
    BY <1>1 DEF Has
  <1> QED
    BY <1>1, <1>2, <1>3 DEF WaitInv, Unheard, Arriving, PendingKnown, Asked, QuietInv, InvitedInv,
                            ForkedInv

\* Reading takes the first command out, sending adds a last one.
LEMMA HasTail ==
  ASSUME NEW s \in Seq(Commands), s # << >>, NEW x, Has(Tail(s), x)
  PROVE  Has(s, x)
  <1>1. PICK i \in 1..Len(Tail(s)) : Tail(s)[i].command = x
    BY DEF Has
  <1>2. Len(s) \in Nat /\ Len(Tail(s)) = Len(s) - 1
    OBVIOUS
  <1>3. Tail(s)[i] = s[i + 1] /\ i + 1 \in 1..Len(s)
    BY <1>2
  <1> QED
    BY <1>1, <1>3, Zenon DEF Has

LEMMA HasHead ==
  ASSUME NEW s \in Seq(Commands), s # << >>
  PROVE  Has(s, Head(s).command)
  <1>1. 1 \in 1..Len(s) /\ s[1] = Head(s)
    OBVIOUS
  <1> QED
    BY <1>1, Zenon DEF Has

LEMMA HasAppend ==
  ASSUME NEW s \in Seq(Commands), NEW name, [command |-> name] \in Commands, NEW x,
         Has(Append(s, [command |-> name]), x)
  PROVE  Has(s, x) \/ x = name
  <1> DEFINE t == Append(s, [command |-> name])
  <1>1. PICK i \in 1..Len(t) : t[i].command = x
    BY DEF Has
  <1>2. /\ Len(s) \in Nat /\ Len(t) = Len(s) + 1 /\ t[Len(s) + 1] = [command |-> name]
        /\ \A j \in 1..Len(s) : t[j] = s[j]
    OBVIOUS
  <1>3. CASE i = Len(s) + 1
    BY <1>1, <1>2, <1>3
  <1>4. CASE i # Len(s) + 1
    <2>1. i \in 1..Len(s)
      BY <1>2, <1>4
    <2> QED
      BY <1>1, <1>2, <2>1, Zenon DEF Has
  <1> QED
    BY <1>3, <1>4

\* What is left of the events that wait, after one is read or more are sent.
LEMMA EventsTail ==
  ASSUME NEW s \in Seq(Events), s # << >>
  PROVE  Head(s) \in Range(s) /\ Range(Tail(s)) \subseteq Range(s)
  <1>1. /\ Len(s) \in Nat \ {0} /\ Len(Tail(s)) = Len(s) - 1
        /\ DOMAIN s = 1..Len(s) /\ DOMAIN Tail(s) = 1..(Len(s) - 1)
        /\ Head(s) = s[1] /\ 1 \in 1..Len(s)
    OBVIOUS
  <1>2. \A i \in 1..(Len(s) - 1) : Tail(s)[i] = s[i + 1] /\ i + 1 \in 1..Len(s)
    BY <1>1
  <1>3. ASSUME NEW e \in Range(Tail(s)) PROVE e \in Range(s)
    <2>1. PICK i \in 1..(Len(s) - 1) : Tail(s)[i] = e
      BY <1>1, <1>3, Zenon DEF Range
    <2> QED
      BY <1>1, <1>2, <2>1, Zenon DEF Range
  <1> QED
    BY <1>1, <1>3, Zenon DEF Range

LEMMA EventsSent ==
  ASSUME OutboxType, NEW S \in SUBSET Conns, NEW event \in Events, Sent(S, event)
  PROVE  \A d \in Conns : /\ d \notin S => outbox'[d] = outbox[d]
                          /\ \A e \in Range(outbox'[d]) : e \in Range(outbox[d]) \/ e = event
  <1>1. SUFFICES ASSUME NEW d \in Conns
                 PROVE  /\ d \notin S => outbox'[d] = outbox[d]
                        /\ \A e \in Range(outbox'[d]) : e \in Range(outbox[d]) \/ e = event
    BY Zenon
  <1>2. \/ outbox'[d] = outbox[d]
        \/ d \in S /\ outbox'[d] = Append(outbox[d], event)
    BY DEF Sent
  <1>3. outbox[d] \in Seq(Events)
    BY DEF OutboxType
  <1>4. Range(Append(outbox[d], event)) = Range(outbox[d]) \cup {event}
    BY <1>3, RangeAppend
  <1> QED
    BY <1>2, <1>4

\* Nobody becomes fresh again.
LEMMA FreshFades ==
  ASSUME TypeInv, [Next]_vars, NEW d \in Conns, Fresh(d)'
  PROVE  Fresh(d)
  <1>1. CASE UNCHANGED vars
    BY <1>1, Zenon DEF vars, Fresh
  <1>2. CASE UNCHANGED at /\ backlog' \in {backlog, << >>} /\ current' \in {current, NoConn}
    <2>1. Range(backlog') \subseteq Range(backlog)
      BY <1>2 DEF Range
    <2> QED
      BY <1>2, <2>1, NoConnAssumption, Zenon DEF Fresh
  <1>3. CASE LobbyStep
    <2>1. CASE Accept
      <3>1. /\ UNCHANGED at /\ backlog \in Seq(Conns) /\ backlog # << >>
            /\ backlog' = Tail(backlog) /\ current' = Head(backlog)
        BY <2>1, Zenon DEF Accept, TypeInv, LobbyType, clientVars
      <3>2. /\ DOMAIN backlog = 1..Len(backlog) /\ 1 \in DOMAIN backlog
            /\ Head(backlog) = backlog[1]
            /\ \A i \in DOMAIN Tail(backlog) :
                  i + 1 \in DOMAIN backlog /\ Tail(backlog)[i] = backlog[i + 1]
        BY <3>1
      <3>3. Head(backlog) \in Range(backlog) /\ Range(Tail(backlog)) \subseteq Range(backlog)
        BY <3>2, Zenon DEF Range
      <3> QED
        BY <3>1, <3>3, Zenon DEF Fresh
    <2>2. CASE ~Accept
      <3>1. UNCHANGED at
        BY <1>3, <2>2, Zenon DEF LobbyStep, Select, SelectFails, AcceptFails, LoopEnds, HangUp,
             HandleHostRoom,
             HandleJoinRoom, HandleJoinRoomNotFound, HandleGetScoreboard, HandleStartGameNoRoom,
             HandleStartGameNoGuest, HandleStartGame, ForkFails, HandleHostDisconnect, clientVars
      <3>2. (backlog' = backlog \/ backlog' = << >>) /\ (current' = current \/ current' = NoConn)
        BY <1>3, <2>2, Zenon DEF LobbyStep, Select, SelectFails, AcceptFails, LoopEnds, HangUp,
             HandleHostRoom,
             HandleJoinRoom, HandleJoinRoomNotFound, HandleGetScoreboard, HandleStartGameNoRoom,
             HandleStartGameNoGuest, HandleStartGame, ForkFails, HandleHostDisconnect, LobbyExits,
             Handled, RefuseStart, Served
      <3> QED
        BY <1>2, <3>1, <3>2
    <2> QED
      BY <2>1, <2>2
  <1>4. ASSUME NEW h \in Conns, ChildStep(h) PROVE Fresh(d)
    <2>1. /\ UNCHANGED at
          /\ (backlog' = backlog \/ backlog' = << >>) /\ (current' = current \/ current' = NoConn)
      BY <1>4, Zenon DEF ChildStep, StartHost, StartGuest, RoomOver, ChildEnds, LobbyExits,
                         lobbyVars, clientVars
    <2> QED
      BY <1>2, <2>1
  <1>5. ASSUME NEW c \in Conns, ConnectHost(c) \/ ConnectGuest(c) \/ ConnectViewer(c)
        PROVE  Fresh(d)
    <2>1. /\ at[c] = "off" /\ backlog' = Append(backlog, c) /\ current' = current
          /\ \A e \in Conns : e # c => at'[e] = at[e]
      BY <1>5 DEF ConnectHost, ConnectGuest, ConnectViewer, Connect, Goto, TypeInv, ClientType
    <2>2. Range(backlog') = Range(backlog) \cup {c}
      BY <2>1, RangeAppend DEF TypeInv, LobbyType
    <2>3. CASE d = c
      BY <2>1, <2>3, Zenon DEF Fresh
    <2>4. CASE d # c
      <3>1. d \in Range(backlog') => d \in Range(backlog)
        BY <2>2, <2>4
      <3> QED
        BY <2>1, <2>4, <3>1, Zenon DEF Fresh
    <2> QED
      BY <2>3, <2>4
  <1>6. ASSUME NEW c \in Conns, \/ EnterCode(c) \/ PickGame(c) \/ LeavePrompt(c) \/ Cancel(c)
                                \/ LeaveGame(c) \/ Receive(c) \/ Crash(c)
        PROVE  Fresh(d)
    <2>1. backlog' = backlog /\ current' = current
      BY <1>6 DEF EnterCode, PickGame, LeavePrompt, Cancel, LeaveGame, Receive, ReceiveEvent,
                  ReceiveEnd, Crash, lobbyVars
    <2>2. at'[d] \in {"off", "guestPin"} => at[d] \in {"off", "guestPin"}
      <3>1. \A p, event : After(p, event) \notin {"off", "guestPin"}
        BY DEF After
      <3>2. CASE ReceiveEvent(c)
        BY <3>1, <3>2 DEF ReceiveEvent, Goto, TypeInv, ClientType
      <3>3. CASE ~ReceiveEvent(c)
        BY <1>6, <3>3 DEF EnterCode, PickGame, LeavePrompt, Cancel, LeaveGame, Receive,
                          ReceiveEnd, Crash, Close, Goto, TypeInv, ClientType
      <3> QED
        BY <3>2, <3>3
    <2> QED
      BY <2>1, <2>2, Zenon DEF Fresh
  <1> QED
    BY <1>1, <1>3, <1>4, <1>5, <1>6, Zenon DEF Next, UserStep

\* A step of one client: what it must not do while others count on it.
ClientMoves(c) ==
  /\ \A d \in Conns : d # c => /\ at'[d] = at[d] /\ outbox'[d] = outbox[d]
                               /\ inbox'[d] = inbox[d] /\ code'[d] = code[d]
  /\ UNCHANGED <<child, rooms, pending, collided>>
  /\ code'[c] = code[c] \/ Fresh(c)

ClientHeeds(c) ==
  /\ Fresh(c) => /\ outbox'[c] = << >> /\ at'[c] \in Arriving
                 /\ Has(inbox'[c], "join_room") => at'[c] \in {"guestJoin", "gone"}
  /\ Has(inbox'[c], "start_game") => at'[c] \in {"hostStarted", "playing", "gone"}
  /\ Unstarted(c) => "game_start" \notin Range(outbox'[c]) /\ at'[c] # "playing"
  /\ Invited(c) => at'[c] \in Guests
  /\ Unstarted(c) /\ at[c] \in {"hostStarted", "gone"} => at'[c] \in {"hostStarted", "gone"}

LEMMA ClientWaits ==
  ASSUME TypeInv, ServerInv, WaitInv, [Next]_vars, NEW c \in Conns,
         ClientMoves(c), ClientHeeds(c)
  PROVE  WaitInv'
  <1>1. /\ UNCHANGED <<child, rooms, pending, collided>>
        /\ \A d \in Conns : d # c => /\ at'[d] = at[d] /\ outbox'[d] = outbox[d]
                                     /\ inbox'[d] = inbox[d] /\ code'[d] = code[d]
    BY Zenon DEF ClientMoves
  <1>2. \A d \in Conns : /\ Fresh(d)' => Fresh(d)
                         /\ Unstarted(d)' <=> Unstarted(d)
                         /\ Invited(d)' <=> Invited(d)
                         /\ Forked(d)' <=> Forked(d)
    <2>1. \A d \in Conns : Fresh(d)' => Fresh(d)
      BY FreshFades, Zenon
    <2>2. ASSUME NEW d \in Conns
          PROVE  /\ Unstarted(d)' <=> Unstarted(d)
                 /\ Invited(d)' <=> Invited(d)
                 /\ Forked(d)' <=> Forked(d)
      BY <1>1, Zenon DEF Unstarted, Listed, Invited, Forked, Players
    <2> QED
      BY <2>1, <2>2
  <1>3. Unheard'
    <2>1. ASSUME NEW d \in Conns, Fresh(d)'
          PROVE  /\ outbox'[d] = << >> /\ at'[d] \in Arriving
                 /\ Has(inbox'[d], "join_room") => at'[d] \in {"guestJoin", "gone"}
      <3>1. CASE d = c
        BY <1>2, <2>1, <3>1, Zenon DEF ClientHeeds
      <3>2. CASE d # c
        BY <1>1, <1>2, <2>1, <3>2, Zenon DEF WaitInv, Unheard
      <3> QED
        BY <3>1, <3>2
    <2> QED
      BY <2>1, Zenon DEF Unheard
  <1>4. PendingKnown'
    BY <1>1, <1>2, Zenon DEF PendingKnown, WaitInv
  <1>5. Asked'
    <2>1. ASSUME NEW d \in Conns, Has(inbox'[d], "start_game")
          PROVE  at'[d] \in {"hostStarted", "playing", "gone"}
      <3>1. CASE d = c
        BY <2>1, <3>1, Zenon DEF ClientHeeds
      <3>2. CASE d # c
        BY <1>1, <2>1, <3>2, Zenon DEF WaitInv, Asked
      <3> QED
        BY <3>1, <3>2
    <2> QED
      BY <2>1, Zenon DEF Asked
  <1>6. QuietInv'
    <2>1. ASSUME NEW d \in Conns, Unstarted(d)'
          PROVE  "game_start" \notin Range(outbox'[d]) /\ at'[d] # "playing"
      <3>1. CASE d = c
        BY <1>2, <2>1, <3>1, Zenon DEF ClientHeeds
      <3>2. CASE d # c
        BY <1>1, <1>2, <2>1, <3>2, Zenon DEF WaitInv, QuietInv
      <3> QED
        BY <3>1, <3>2
    <2> QED
      BY <2>1, Zenon DEF QuietInv
  <1>7. InvitedInv'
    <2>1. ASSUME NEW d \in Conns, Invited(d)' PROVE at'[d] \in Guests
      <3>1. CASE d = c
        BY <1>2, <2>1, <3>1, Zenon DEF ClientHeeds
      <3>2. CASE d # c
        BY <1>1, <1>2, <2>1, <3>2, Zenon DEF WaitInv, InvitedInv
      <3> QED
        BY <3>1, <3>2
    <2> QED
      BY <2>1, Zenon DEF InvitedInv
  <1>8. ForkedInv'
    <2>1. ASSUME NEW h \in Conns, Forked(h)
          PROVE  /\ code'[child[h].guest] = code'[h]
                 /\ ~collided => at'[h] \in {"hostStarted", "gone"}
      <3>1. child[h].guest \in Conns /\ h \in Players(h) /\ child[h].guest \in Players(h)
        BY <2>1 DEF Forked, TypeInv, ChildType, Players
      <3>2. ~Fresh(h) /\ ~Fresh(child[h].guest)
        BY <3>1, Zenon DEF ServerInv, PartsApart, Played
      <3>3. code'[h] = code[h] /\ code'[child[h].guest] = code[child[h].guest]
        BY <1>1, <3>1, <3>2, Zenon DEF ClientMoves
      <3>4. code[child[h].guest] = code[h] /\ (~collided => at[h] \in {"hostStarted", "gone"})
        BY <2>1, Zenon DEF WaitInv, ForkedInv
      <3>5. Unstarted(h)
        BY <2>1, <3>1, Zenon DEF Unstarted
      <3>6. ~collided => at'[h] \in {"hostStarted", "gone"}
        <4>1. CASE h = c
          BY <3>4, <3>5, <4>1, Zenon DEF ClientHeeds
        <4>2. CASE h # c
          BY <1>1, <3>4, <4>2, Zenon
        <4> QED
          BY <4>1, <4>2
      <3> QED
        BY <3>3, <3>4, <3>6, Zenon
    <2> QED
      BY <1>1, <1>2, <2>1, Zenon DEF ForkedInv
  <1> QED
    BY <1>3, <1>4, <1>5, <1>6, <1>7, <1>8 DEF WaitInv

\* Who is fresh is in no room, and waits for no game.
LEMMA FreshIsAlone ==
  ASSUME TypeInv, ServerInv, NEW c \in Conns, Fresh(c)
  PROVE  ~Unstarted(c) /\ ~Invited(c) /\ \A h \in Conns : ~(Forked(h) /\ c = h)
  <1>1. ~Listed(c) /\ ~Played(c)
    BY Zenon DEF ServerInv, PartsApart
  <1>2. \A h \in Conns : Forked(h) => h \in Players(h) /\ child[h].guest \in Players(h)
    BY DEF Forked, Players
  <1> QED
    BY <1>1, <1>2, Zenon DEF Unstarted, Invited, Listed, Played

\* Who is invited is in a room or a game that has not begun.
LEMMA InvitedIsUnstarted ==
  ASSUME NEW c \in Conns, Invited(c)
  PROVE  Unstarted(c)
  <1>1. \A h \in Conns : Forked(h) => child[h].guest \in Players(h)
    BY DEF Forked, Players
  <1> QED
    BY <1>1, Zenon DEF Unstarted, Invited, Listed

\* A client closes its connection.
LEMMA ClosedWaits ==
  ASSUME TypeInv, ServerInv, WaitInv, [Next]_vars, NEW c \in Conns,
         UNCHANGED <<code, inbox, child, rooms, pending, collided>>,
         \A d \in Conns : d # c => at'[d] = at[d] /\ outbox'[d] = outbox[d],
         at'[c] = "gone", outbox'[c] = << >>
  PROVE  WaitInv'
  <1>1. ClientMoves(c)
    BY Zenon DEF ClientMoves
  <1>2. "game_start" \notin Range(outbox'[c])
    BY DEF Range
  <1>3. ClientHeeds(c)
    BY <1>2 DEF ClientHeeds, Arriving, Guests
  <1> QED
    BY <1>1, <1>3, ClientWaits

\* A client connects, and one that has connected sends its first command.
LEMMA ArrivalWaits ==
  ASSUME TypeInv, ServerInv, WaitInv, [Next]_vars, NEW c \in Conns,
         ConnectHost(c) \/ ConnectGuest(c) \/ ConnectViewer(c) \/ EnterCode(c)
  PROVE  WaitInv'
  <1>1. /\ UNCHANGED <<outbox, child, rooms, pending, collided>>
        /\ at[c] \in {"off", "guestPin"}
    BY Zenon DEF ConnectHost, ConnectGuest, ConnectViewer, EnterCode, Connect, mapVars, netVars
  <1>2. PICK place \in Arriving : at' = [at EXCEPT ![c] = place]
    BY DEF ConnectHost, ConnectGuest, ConnectViewer, EnterCode, Connect, Goto, Arriving
  <1>3. at'[c] = place /\ \A d \in Conns : d # c => at'[d] = at[d]
    BY <1>2 DEF TypeInv, ClientType
  <1>4. Fresh(c) /\ inbox[c] = << >>
    BY <1>1, Zenon DEF Fresh, ServerInv, Arrivals
  <1>5. /\ \A d \in Conns : d # c => inbox'[d] = inbox[d] /\ code'[d] = code[d]
        /\ Has(inbox'[c], "join_room") => place = "guestJoin"
        /\ ~Has(inbox'[c], "start_game")
    <2>1. ASSUME NEW name \in {"host_room", "join_room", "get_scoreboard"}, Send(c, name)
          PROVE  /\ \A d \in Conns : d # c => inbox'[d] = inbox[d]
                 /\ Has(inbox'[c], "join_room") => name = "join_room"
                 /\ ~Has(inbox'[c], "start_game")
      <3>1. [command |-> name] \in Commands
        BY DEF Commands
      <3>2. inbox'[c] = Append(<< >>, [command |-> name])
        BY <1>4, <2>1 DEF Send, TypeInv, InboxType
      <3>3. << >> \in Seq(Commands) /\ \A x : ~Has(<< >>, x)
        BY DEF Has
      <3>4. \A x : Has(inbox'[c], x) => x = name
        BY <3>1, <3>2, <3>3, HasAppend
      <3>5. \A d \in Conns : d # c => inbox'[d] = inbox[d]
        BY <2>1 DEF Send, TypeInv, InboxType
      <3> QED
        BY <3>4, <3>5
    <2>2. CASE ConnectHost(c)
      <3>1. Send(c, "host_room") /\ code' = code
        BY <2>2 DEF ConnectHost
      <3> QED
        BY <2>1, <3>1
    <2>3. CASE ConnectViewer(c)
      <3>1. Send(c, "get_scoreboard") /\ code' = code
        BY <2>3 DEF ConnectViewer
      <3> QED
        BY <2>1, <3>1
    <2>4. CASE EnterCode(c)
      <3>1. Send(c, "join_room") /\ at' = [at EXCEPT ![c] = "guestJoin"]
        BY <2>4 DEF EnterCode, Goto
      <3>2. place = "guestJoin"
        BY <1>3, <3>1 DEF TypeInv, ClientType
      <3>3. \A d \in Conns : d # c => code'[d] = code[d]
        BY <2>4 DEF EnterCode, TypeInv, ClientType
      <3> QED
        BY <2>1, <3>1, <3>2, <3>3
    <2>5. CASE ConnectGuest(c)
      <3>1. inbox' = inbox /\ code' = code
        BY <2>5 DEF ConnectGuest, netVars
      <3> QED
        BY <1>4, <3>1 DEF Has
    <2> QED
      BY <2>2, <2>3, <2>4, <2>5
  <1>6. ClientMoves(c)
    BY <1>1, <1>3, <1>4, <1>5, Zenon DEF ClientMoves
  <1>7. ClientHeeds(c)
    <2>1. ~Unstarted(c) /\ ~Invited(c)
      BY <1>4, FreshIsAlone
    <2>2. outbox'[c] = << >>
      BY <1>1, <1>4, Zenon DEF WaitInv, Unheard
    <2> QED
      BY <1>2, <1>3, <1>5, <2>1, <2>2, Zenon DEF ClientHeeds
  <1> QED
    BY <1>6, <1>7, ClientWaits

\* A host picks a game, or a user leaves while a thread reads the socket.
LEMMA ChoiceWaits ==
  ASSUME TypeInv, ServerInv, WaitInv, [Next]_vars, NEW c \in Conns, PickGame(c) \/ Cancel(c)
  PROVE  WaitInv'
  <1>1. /\ UNCHANGED <<code, outbox, child, rooms, pending, collided>>
        /\ at[c] \in {"hostPick", "hostRoom", "guestWait"}
    BY Zenon DEF PickGame, Cancel, mapVars, netVars
  <1>2. ~Fresh(c)
    BY <1>1 DEF WaitInv, Unheard, Arriving
  <1>3. /\ \A d \in Conns : d # c => at'[d] = at[d] /\ inbox'[d] = inbox[d]
        /\ at'[c] = IF at[c] = "hostPick" THEN "hostStarted" ELSE "cancelled"
    BY DEF PickGame, Cancel, Goto, Send, netVars, TypeInv, ClientType, InboxType
  <1>4. Has(inbox'[c], "start_game") => at'[c] = "hostStarted"
    <2>1. CASE PickGame(c)
      BY <1>3, <2>1 DEF PickGame
    <2>2. CASE Cancel(c)
      <3>1. inbox' = inbox
        BY <2>2 DEF Cancel, netVars
      <3>2. ~Has(inbox[c], "start_game")
        BY <1>1, Zenon DEF WaitInv, Asked
      <3> QED
        BY <3>1, <3>2
    <2> QED
      BY <2>1, <2>2
  <1>5. ClientMoves(c)
    BY <1>1, <1>3, Zenon DEF ClientMoves
  <1>6. Unstarted(c) => "game_start" \notin Range(outbox'[c])
    BY <1>1, Zenon DEF WaitInv, QuietInv
  <1>7. Invited(c) => at'[c] \in Guests
    BY <1>1, <1>3 DEF WaitInv, InvitedInv, Guests
  <1>8. ClientHeeds(c)
    BY <1>1, <1>2, <1>3, <1>4, <1>6, <1>7, Zenon DEF ClientHeeds
  <1> QED
    BY <1>5, <1>8, ClientWaits

\* A client reads an event, or the end of the stream.
LEMMA ReceiveWaits ==
  ASSUME TypeInv, ServerInv, WaitInv, [Next]_vars, NEW c \in Conns, ReceiveEvent(c)
  PROVE  WaitInv'
  <1> DEFINE event == Head(outbox[c])
             place == After(at[c], event)
  <1>1. /\ at[c] \in Reads /\ outbox[c] # << >> /\ outbox[c] \in Seq(Events)
        /\ UNCHANGED <<code, inbox, child, rooms, pending, collided>>
    BY Zenon DEF ReceiveEvent, mapVars, TypeInv, OutboxType
  <1>2. /\ \A d \in Conns : d # c => at'[d] = at[d] /\ outbox'[d] = outbox[d]
        /\ at'[c] = place
        /\ outbox'[c] = IF place = "gone" THEN << >> ELSE Tail(outbox[c])
    BY DEF ReceiveEvent, Goto, TypeInv, ClientType, OutboxType
  <1>3. CASE place = "gone"
    BY <1>1, <1>2, <1>3, ClosedWaits
  <1>4. CASE place # "gone"
    <2>1. ~Fresh(c)
      BY <1>1, Zenon DEF WaitInv, Unheard
    <2>2. event \in Range(outbox[c]) /\ Range(outbox'[c]) \subseteq Range(outbox[c])
      BY <1>1, <1>2, <1>4, EventsTail
    <2>3. Unstarted(c) => "game_start" \notin Range(outbox[c]) /\ event # "game_start"
      BY <2>2, Zenon DEF WaitInv, QuietInv
    <2>4. Unstarted(c) => "game_start" \notin Range(outbox'[c])
      BY <2>2, <2>3
    <2> HIDE DEF event
    <2>5. Unstarted(c) => place # "playing" /\ at[c] \notin {"hostStarted", "gone"}
      BY <1>1, <1>4, <2>3 DEF After, Reads
    <2>6. Invited(c) => place \in Guests
      <3>1. Invited(c) => at[c] \in Guests /\ event # "game_start"
        BY <2>3, InvitedIsUnstarted, Zenon DEF WaitInv, InvitedInv
      <3> QED
        BY <3>1 DEF After, Guests
    <2>7. Has(inbox[c], "start_game") => place \in {"hostStarted", "playing", "gone"}
      <3>1. Has(inbox[c], "start_game") => at[c] \in {"hostStarted", "playing", "gone"}
        BY Zenon DEF WaitInv, Asked
      <3> QED
        BY <3>1 DEF After
    <2> HIDE DEF place
    <2>8. ClientMoves(c)
      BY <1>1, <1>2, Zenon DEF ClientMoves
    <2>9. ClientHeeds(c)
      BY <1>1, <1>2, <2>1, <2>4, <2>5, <2>6, <2>7, Zenon DEF ClientHeeds
    <2> QED
      BY <2>8, <2>9, ClientWaits
  <1> QED
    BY <1>3, <1>4

LEMMA UserWaits ==
  ASSUME TypeInv, ServerInv, WaitInv, [Next]_vars, NEW c \in Conns,
         UserStep(c) \/ Receive(c) \/ Crash(c)
  PROVE  WaitInv'
  <1>1. CASE LeavePrompt(c) \/ LeaveGame(c) \/ ReceiveEnd(c) \/ Crash(c)
    <2>1. Close(c) /\ UNCHANGED <<code, inbox, child, rooms, pending, collided>>
      BY <1>1, Zenon DEF LeavePrompt, LeaveGame, ReceiveEnd, Crash, mapVars
    <2>2. /\ \A d \in Conns : d # c => at'[d] = at[d] /\ outbox'[d] = outbox[d]
          /\ at'[c] = "gone" /\ outbox'[c] = << >>
      BY <2>1 DEF Close, TypeInv, ClientType, OutboxType
    <2> QED
      BY <2>1, <2>2, ClosedWaits
  <1> QED
    BY <1>1, ArrivalWaits, ChoiceWaits, ReceiveWaits, Zenon DEF UserStep, Receive

\* A room process sends game_start, or ends: what it sends reaches its own
\* players, and from its first write on it is no longer only forked.
LEMMA RoomWaits ==
  ASSUME TypeInv, ServerInv, WaitInv, [Next]_vars, NEW h \in Conns, ChildStep(h)
  PROVE  WaitInv'
  <1>1. UNCHANGED <<at, code, inbox, rooms, pending, collided>> /\ child[h].status # "none"
    BY DEF ChildStep, StartHost, StartGuest, RoomOver, clientVars, netVars, mapVars
  <1>2. /\ child'[h].status # "forked"
        /\ \A g \in Conns : g # h => child'[g] = child[g]
    <2>1. CASE ChildEnds(h)
      <3>1. child' = [child EXCEPT ![h] = [[@ EXCEPT !.status = "ended"] EXCEPT !.fds = {}]]
        BY <2>1 DEF ChildEnds, TypeInv, ChildType
      <3> QED
        BY <3>1 DEF ChildRecords, TypeInv, ChildType
    <2>2. ASSUME NEW status \in {"half", "running"}, child' = [child EXCEPT ![h].status = status]
          PROVE  /\ child'[h].status # "forked"
                 /\ \A g \in Conns : g # h => child'[g] = child[g]
      BY <2>2 DEF ChildRecords, TypeInv, ChildType
    <2> QED
      BY <2>1, <2>2 DEF ChildStep, StartHost, StartGuest, RoomOver
  <1>3. \A g \in Conns : Forked(g)' => Forked(g) /\ g # h /\ child'[g] = child[g]
    BY <1>2, Zenon DEF Forked
  <1>4. \A d \in Conns : d \in Players(h) => ~Fresh(d) /\ ~Unstarted(d)'
    <2>1. SUFFICES ASSUME NEW d \in Conns, d \in Players(h)
                   PROVE  ~Fresh(d) /\ ~Unstarted(d)'
      BY Zenon
    <2>2. ~Fresh(d) /\ ~Listed(d)
      BY <2>1, Zenon DEF ServerInv, PartsApart, Played
    <2>3. ~Listed(d)'
      BY <1>1, <2>2, Zenon DEF Listed
    <2>4. \A g \in Conns : Forked(g)' => d \notin Players(g)'
      <3>1. \A g \in Conns : g # h => d \notin Players(g)
        BY <2>1 DEF ServerInv, OneGame
      <3> QED
        BY <1>3, <3>1, Zenon DEF Players
    <2> QED
      BY <2>2, <2>3, <2>4, Zenon DEF Unstarted
  <1>5. \A d \in Conns : d \notin Players(h) => outbox'[d] = outbox[d]
    <2>1. h \in Players(h) /\ child[h].guest \in Players(h) /\ child[h].guest \in Conns
      BY <1>1 DEF Players, TypeInv, ChildType
    <2>2. ASSUME NEW x \in Players(h) \cap Conns, Sent({x}, "game_start")
          PROVE  \A d \in Conns : d \notin Players(h) => outbox'[d] = outbox[d]
      BY <2>2 DEF Sent, TypeInv, OutboxType
    <2>3. \/ outbox' = outbox
          \/ Sent({h}, "game_start") \/ Sent({child[h].guest}, "game_start")
      BY Zenon DEF ChildStep, StartHost, StartGuest, RoomOver, netVars
    <2> QED
      BY <2>1, <2>2, <2>3
  <1>6. \A d \in Conns : /\ Fresh(d)' => Fresh(d) /\ outbox'[d] = outbox[d]
                         /\ Unstarted(d)' => Unstarted(d) /\ outbox'[d] = outbox[d]
                         /\ Invited(d)' => Invited(d)
    <2>1. \A d \in Conns : Fresh(d)' => Fresh(d) /\ outbox'[d] = outbox[d]
      BY <1>4, <1>5, FreshFades, Zenon
    <2>2. ASSUME NEW d \in Conns, Unstarted(d)' PROVE Unstarted(d) /\ outbox'[d] = outbox[d]
      <3>1. Unstarted(d)
        BY <1>1, <1>3, <2>2, Zenon DEF Unstarted, Listed, Players
      <3> QED
        BY <1>4, <1>5, <2>2, <3>1, Zenon
    <2>3. ASSUME NEW d \in Conns, Invited(d)' PROVE Invited(d)
      BY <1>1, <1>3, <2>3, Zenon DEF Invited
    <2> QED
      BY <2>1, <2>2, <2>3
  <1>7. Unheard' /\ QuietInv'
    <2>1. Unheard'
      BY <1>1, <1>6, Zenon DEF WaitInv, Unheard
    <2>2. QuietInv'
      BY <1>1, <1>6, Zenon DEF WaitInv, QuietInv
    <2> QED
      BY <2>1, <2>2
  <1>8. PendingKnown' /\ Asked' /\ InvitedInv'
    BY <1>1, <1>6, Zenon DEF WaitInv, PendingKnown, Asked, InvitedInv
  <1>9. ForkedInv'
    BY <1>1, <1>3, Zenon DEF WaitInv, ForkedInv
  <1> QED
    BY <1>7, <1>8, <1>9 DEF WaitInv

\* A step of the lobby: what it reads, sends and hands over.
LobbyHeeds ==
  /\ UNCHANGED at
  /\ \A x : \A d \in Conns : Has(inbox'[d], x) => Has(inbox[d], x)
  /\ \A d \in Conns : Fresh(d)' => outbox'[d] = outbox[d]
  /\ \A d \in Conns : "game_start" \in Range(outbox'[d]) => "game_start" \in Range(outbox[d])
  /\ \A h \in Conns : pending'[h] # NoCode => pending[h] # NoCode \/ ~Fresh(h)'
  /\ \A d \in Conns : Unstarted(d)' => Unstarted(d) \/ Fresh(d)
  /\ \A d \in Conns : Invited(d)' => Invited(d) \/ (Fresh(d) /\ Has(inbox[d], "join_room"))

LEMMA LobbyWaits ==
  ASSUME TypeInv, WaitInv, [Next]_vars, LobbyHeeds, ForkedInv'
  PROVE  WaitInv'
  <1>0. at' = at /\ \A d \in Conns : Fresh(d)' => Fresh(d)
    BY FreshFades, Zenon DEF LobbyHeeds
  <1>1. Unheard'
    BY <1>0, Zenon DEF WaitInv, Unheard, LobbyHeeds
  <1>2. PendingKnown'
    BY <1>0, Zenon DEF WaitInv, PendingKnown, LobbyHeeds
  <1>3. Asked'
    BY <1>0, Zenon DEF WaitInv, Asked, LobbyHeeds
  <1>4. QuietInv'
    <2>1. ASSUME NEW d \in Conns, Unstarted(d)'
          PROVE  "game_start" \notin Range(outbox'[d]) /\ at'[d] # "playing"
      <3>1. CASE Unstarted(d)
        BY <1>0, <3>1, Zenon DEF WaitInv, QuietInv, LobbyHeeds
      <3>2. CASE Fresh(d)
        <4>1. outbox[d] = << >> /\ at[d] \in Arriving
          BY <3>2, Zenon DEF WaitInv, Unheard
        <4>2. "game_start" \notin Range(outbox[d])
          BY <4>1 DEF Range
        <4>3. at[d] # "playing"
          BY <4>1 DEF Arriving
        <4> QED
          BY <1>0, <4>2, <4>3, Zenon DEF LobbyHeeds
      <3> QED
        BY <2>1, <3>1, <3>2, Zenon DEF LobbyHeeds
    <2> QED
      BY <2>1, Zenon DEF QuietInv
  <1>5. InvitedInv'
    <2>1. \A d \in Conns : Fresh(d) /\ Has(inbox[d], "join_room") => at[d] \in Guests
      BY DEF WaitInv, Unheard, Guests
    <2> QED
      BY <1>0, <2>1, Zenon DEF WaitInv, InvitedInv, LobbyHeeds
  <1> QED
    BY <1>1, <1>2, <1>3, <1>4, <1>5 DEF WaitInv

\* What the lobby reads and sends is the same whatever it does with it.
LEMMA LobbyReads ==
  ASSUME TypeInv, NEW c \in Conns,
         \/ UNCHANGED inbox
         \/ inbox[c] # << >> /\ inbox' = [inbox EXCEPT ![c] = Tail(@)]
  PROVE  \A x : \A d \in Conns : Has(inbox'[d], x) => Has(inbox[d], x)
  <1>1. CASE UNCHANGED inbox
    BY <1>1
  <1>2. CASE inbox[c] # << >> /\ inbox' = [inbox EXCEPT ![c] = Tail(@)]
    <2>1. /\ inbox[c] \in Seq(Commands) /\ inbox'[c] = Tail(inbox[c])
          /\ \A d \in Conns : d # c => inbox'[d] = inbox[d]
      BY <1>2 DEF TypeInv, InboxType
    <2>2. \A x : Has(Tail(inbox[c]), x) => Has(inbox[c], x)
      BY <1>2, <2>1, HasTail
    <2> QED
      BY <2>1, <2>2, Zenon
  <1> QED
    BY <1>1, <1>2

LEMMA LobbyTells ==
  ASSUME TypeInv, NEW S \in SUBSET Conns, NEW event \in Events, event # "game_start",
         \/ UNCHANGED outbox
         \/ Sent(S, event) /\ \A d \in S : ~Fresh(d)'
  PROVE  \A d \in Conns :
           /\ Fresh(d)' => outbox'[d] = outbox[d]
           /\ "game_start" \in Range(outbox'[d]) => "game_start" \in Range(outbox[d])
  <1>1. CASE UNCHANGED outbox
    BY <1>1
  <1>2. CASE Sent(S, event) /\ \A d \in S : ~Fresh(d)'
    <2>1. \A d \in Conns : /\ d \notin S => outbox'[d] = outbox[d]
                           /\ \A e \in Range(outbox'[d]) : e \in Range(outbox[d]) \/ e = event
      BY <1>2, EventsSent DEF TypeInv
    <2> QED
      BY <1>2, <2>1, Zenon
  <1> QED
    BY <1>1, <1>2

\* A step of the lobby that lets nobody in and hands nobody over.
LEMMA LobbyKeepsWaits ==
  ASSUME TypeInv, ServerInv, WaitInv, [Next]_vars, NEW c \in Conns,
         UNCHANGED <<at, code, child, collided>>,
         \/ UNCHANGED inbox
         \/ inbox[c] # << >> /\ inbox' = [inbox EXCEPT ![c] = Tail(@)],
         \A k \in Codes : rooms'[k] \in {rooms[k], NoRoom},
         \A h \in Conns : pending'[h] \in {pending[h], NoCode},
         NEW event \in Events, event # "game_start",
         UNCHANGED outbox \/ (Sent({c}, event) /\ ~Fresh(c)')
  PROVE  WaitInv'
  <1>1. \A x : \A d \in Conns : Has(inbox'[d], x) => Has(inbox[d], x)
    BY LobbyReads
  <1>2. \A d \in Conns :
           /\ Fresh(d)' => outbox'[d] = outbox[d]
           /\ "game_start" \in Range(outbox'[d]) => "game_start" \in Range(outbox[d])
    <2>1. {c} \in SUBSET Conns /\ \A d \in {c} : d = c
      OBVIOUS
    <2> QED
      BY <2>1, LobbyTells
  <1>3. \A d \in Conns : /\ Unstarted(d)' => Unstarted(d)
                         /\ Invited(d)' => Invited(d)
    <2>1. \A d \in Conns : Listed(d)' => Listed(d)
      BY NoRoomIsEmpty, Zenon DEF Listed
    <2>2. \A d \in Conns : Unstarted(d)' => Unstarted(d)
      BY <2>1, Zenon DEF Unstarted, Forked, Players
    <2>3. \A d \in Conns : Invited(d)' => Invited(d)
      BY NoRoomIsEmpty, Zenon DEF Invited, Forked
    <2> QED
      BY <2>2, <2>3
  <1>4. LobbyHeeds
    BY <1>1, <1>2, <1>3, Zenon DEF LobbyHeeds
  <1>5. ForkedInv'
    BY Zenon DEF WaitInv, ForkedInv, Forked
  <1> QED
    BY <1>4, <1>5, LobbyWaits

\* A host is given a room, or a guest is let into one.
LEMMA EntryWaits ==
  ASSUME TypeInv, ServerInv, WaitInv, [Next]_vars, NEW c \in Conns,
         HandleHostRoom(c) \/ HandleJoinRoom(c)
  PROVE  WaitInv'
  <1>1. /\ current = c /\ inbox[c] # << >> /\ inbox' = [inbox EXCEPT ![c] = Tail(@)]
        /\ UNCHANGED <<at, child>>
    BY DEF HandleHostRoom, HandleJoinRoom, FirstCommand, clientVars
  <1>2. /\ backlog' \in {backlog, << >>} /\ current' = NoConn
    BY DEF HandleHostRoom, HandleJoinRoom, Handled, LobbyExits
  <1>3. Fresh(c) /\ ~Fresh(c)' /\ ~Listed(c) /\ ~Played(c)
    BY <1>1, <1>2, NoLongerFresh
  <1>4. \A x : \A d \in Conns : Has(inbox'[d], x) => Has(inbox[d], x)
    BY <1>1, LobbyReads
  <1>5. \A h \in Conns : Forked(h)' <=> Forked(h)
    BY <1>1, Zenon DEF Forked
  <1>6. ASSUME NEW S \in SUBSET Conns, NEW event \in Events, event # "game_start",
               UNCHANGED outbox \/ (Sent(S, event) /\ \A d \in S : ~Fresh(d)'),
               \A h \in Conns : pending'[h] # NoCode => pending[h] # NoCode \/ ~Fresh(h)',
               \A d \in Conns : Listed(d)' => Listed(d) \/ d = c,
               \A k \in Codes : rooms'[k].guest = rooms[k].guest
                                  \/ (rooms'[k].guest = c /\ Has(inbox[c], "join_room")),
               \A d \in Conns : d # c => code'[d] = code[d],
               ~collided' => ~collided
        PROVE  WaitInv'
    <2>1. \A d \in Conns :
             /\ Fresh(d)' => outbox'[d] = outbox[d]
             /\ "game_start" \in Range(outbox'[d]) => "game_start" \in Range(outbox[d])
      BY <1>6, LobbyTells
    <2>2. \A d \in Conns : Unstarted(d)' => Unstarted(d) \/ Fresh(d)
      BY <1>1, <1>3, <1>6, Zenon DEF Unstarted, Forked, Players
    <2>3. \A d \in Conns : Invited(d)' => Invited(d) \/ (Fresh(d) /\ Has(inbox[d], "join_room"))
      <3>1. SUFFICES ASSUME NEW d \in Conns, Invited(d)'
                     PROVE  Invited(d) \/ (Fresh(d) /\ Has(inbox[d], "join_room"))
        BY Zenon
      <3>2. CASE \E k \in Codes : d = rooms'[k].guest
        BY <1>3, <1>6, <3>2, Zenon DEF Invited
      <3>3. CASE \E h \in Conns : Forked(h) /\ d = child[h].guest
        BY <3>3, Zenon DEF Invited
      <3> QED
        BY <1>1, <1>5, <3>1, <3>2, <3>3, Zenon DEF Invited
    <2>4. LobbyHeeds
      BY <1>1, <1>4, <1>6, <2>1, <2>2, <2>3, Zenon DEF LobbyHeeds
    <2>5. ForkedInv'
      <3>1. ASSUME NEW h \in Conns, Forked(h)
            PROVE  /\ code'[child[h].guest] = code'[h]
                   /\ ~collided' => at[h] \in {"hostStarted", "gone"}
        <4>1. child[h].guest \in Conns /\ h \in Players(h) /\ child[h].guest \in Players(h)
          BY <3>1 DEF Forked, TypeInv, ChildType, Players
        <4>2. h # c /\ child[h].guest # c
          BY <1>3, <4>1, Zenon DEF Played
        <4>3. code'[h] = code[h] /\ code'[child[h].guest] = code[child[h].guest]
          BY <1>6, <4>1, <4>2, Zenon
        <4>4. /\ code[child[h].guest] = code[h]
              /\ ~collided => at[h] \in {"hostStarted", "gone"}
          BY <3>1, Zenon DEF WaitInv, ForkedInv
        <4> QED
          BY <1>6, <4>3, <4>4, Zenon
      <3> QED
        BY <1>1, <1>5, <3>1, Zenon DEF ForkedInv
    <2> QED
      BY <2>4, <2>5, LobbyWaits
  <1>7. CASE HandleHostRoom(c)
    <2>1. PICK k \in Codes : /\ rooms' = [rooms EXCEPT ![k].host = c]
                             /\ pending' = [pending EXCEPT ![c] = k]
                             /\ code' = [code EXCEPT ![c] = k]
                             /\ collided' = (collided \/ rooms[k] # NoRoom)
      BY <1>7 DEF HandleHostRoom, DrawableCodes
    <2>2. /\ rooms'[k].host = c /\ \A l \in Codes : rooms'[l].guest = rooms[l].guest
          /\ \A l \in Codes : l # k => rooms'[l] = rooms[l]
      BY <2>1 DEF TypeInv, MapType, RoomRecords, NoRoom
    <2>3. \A d \in Conns : d # c => code'[d] = code[d] /\ pending'[d] = pending[d]
      BY <2>1 DEF TypeInv, MapType, ClientType
    <2>4. \A d \in Conns : Listed(d)' => Listed(d) \/ d = c
      BY <2>2, Zenon DEF Listed
    <2>5. /\ Sent({c}, "room_created") /\ {c} \in SUBSET Conns /\ "room_created" \in Events
          /\ "room_created" # "game_start" /\ \A d \in {c} : d = c
      BY <1>7 DEF HandleHostRoom, Events
    <2>6. \A d \in {c} : ~Fresh(d)'
      BY <1>3, <2>5, Zenon
    <2>7. \A h \in Conns : pending'[h] # NoCode => pending[h] # NoCode \/ ~Fresh(h)'
      BY <1>3, <2>3, Zenon
    <2>8. ~collided' => ~collided
      BY <2>1, Zenon
    <2> QED
      BY <1>6, <2>2, <2>3, <2>4, <2>5, <2>6, <2>7, <2>8
  <1>8. CASE HandleJoinRoom(c)
    <2>1. /\ rooms' = [rooms EXCEPT ![code[c]].guest = c]
          /\ rooms[code[c]] # NoRoom /\ FirstCommand(c, "join_room")
          /\ UNCHANGED <<code, pending, collided>>
      BY <1>8 DEF HandleJoinRoom, clientVars
    <2>2. inbox[c] \in Seq(Commands) /\ Head(inbox[c]).command = "join_room"
      BY <2>1 DEF FirstCommand, TypeInv, InboxType
    <2>3. Has(inbox[c], "join_room")
      BY <1>1, <2>2, HasHead
    <2>4. PICK k \in Codes : k = code[c]
      <3>1. 1 \in 1..Len(inbox[c]) /\ inbox[c][1].command = "join_room"
        BY <1>1, <2>2
      <3> QED
        BY <3>1 DEF TypeInv, InboxType
    <2>5. rooms[k] \in RoomRecords
      BY <2>1, <2>4 DEF TypeInv, MapType
    <2>6. /\ rooms'[k].guest = c /\ rooms'[k].host = rooms[k].host
          /\ \A l \in Codes : l # k => rooms'[l] = rooms[l]
      BY <2>1, <2>4, <2>5 DEF TypeInv, MapType, RoomRecords
    <2>7. \A d \in Conns : Listed(d)' => Listed(d) \/ d = c
      BY <2>6, Zenon DEF Listed
    <2>8. \A l \in Codes : rooms'[l].guest = rooms[l].guest \/ rooms'[l].guest = c
      BY <2>6, Zenon
    <2>9. PICK x \in Conns : x = rooms[k].host
      BY <2>5 DEF RoomRecords
    <2>10. ~Fresh(x)' /\ ~Fresh(c)'
      <3>1. ~Fresh(x)
        BY <2>9, Zenon DEF ServerInv, PartsApart, Listed
      <3> QED
        BY <1>3, <3>1, FreshFades
    <2>11. \A d \in {x, c} : ~Fresh(d)'
      BY <2>10, Zenon
    <2>12. /\ {x, c} \in SUBSET Conns /\ "player_joined" \in Events
           /\ "player_joined" # "game_start"
           /\ UNCHANGED outbox \/ Sent({x, c}, "player_joined")
      BY <1>8, <2>4, <2>9 DEF HandleJoinRoom, Events
    <2> QED
      BY <1>6, <2>1, <2>3, <2>7, <2>8, <2>11, <2>12
  <1> QED
    BY <1>7, <1>8

\* A room process is forked: its host has asked for the game, and its guest
\* has entered the code that the host was given.
LEMMA ForkWaits ==
  ASSUME TypeInv, ServerInv, MapsInv, WaitInv, [Next]_vars, NEW h \in Conns, HandleStartGame(h)
  PROVE  WaitInv'
  <1>1. PICK k \in Codes : k = pending[h]
    BY DEF HandleStartGame, StartGame, Serve, TypeInv, MapType
  <1>2. PICK x \in Conns, y \in Conns : x = rooms[k].host /\ y = rooms[k].guest
    BY <1>1 DEF HandleStartGame, TypeInv, MapType, RoomRecords
  <1>3. /\ rooms' = [rooms EXCEPT ![k] = NoRoom] /\ pending' = [pending EXCEPT ![h] = NoCode]
        /\ child' = [child EXCEPT ![x] = [status |-> "forked", guest |-> y, fds |-> lobbyFds]]
        /\ UNCHANGED <<at, code, outbox, collided>>
        /\ inbox[h] # << >> /\ inbox' = [inbox EXCEPT ![h] = Tail(@)]
        /\ Head(inbox[h]).command = "start_game"
    BY <1>1, <1>2 DEF HandleStartGame, StartGame, clientVars
  <1>4. /\ child'[x].status = "forked" /\ child'[x].guest = y
        /\ \A g \in Conns \ {x} : child'[g] = child[g]
        /\ \A l \in Codes : rooms'[l] \in {rooms[l], NoRoom}
        /\ \A g \in Conns : pending'[g] \in {pending[g], NoCode}
    BY <1>3 DEF TypeInv, ChildType, MapType
  <1>5. Listed(x) /\ Listed(y) /\ code[x] = k /\ code[y] = k
    BY <1>2, Zenon DEF Listed, ServerInv, OneRoom
  <1>6. Players(x)' = {x, y}
    BY <1>4 DEF Players
  <1>7. \A g \in Conns : Forked(g)' => g = x \/ (Forked(g) /\ child'[g] = child[g])
    BY <1>4, Zenon DEF Forked
  <1>8. ASSUME NEW d \in Conns, Unstarted(d)' PROVE Unstarted(d)
    <2>1. Listed(d)' => Listed(d)
      BY <1>4, NoRoomIsEmpty, Zenon DEF Listed
    <2>2. ASSUME NEW g \in Conns, Forked(g)', d \in Players(g)' PROVE Unstarted(d)
      <3>1. CASE g = x
        BY <1>5, <1>6, <2>2, <3>1, Zenon DEF Unstarted
      <3>2. CASE g # x
        BY <1>7, <2>2, <3>2, Zenon DEF Unstarted, Players
      <3> QED
        BY <3>1, <3>2
    <2> QED
      BY <1>8, <2>1, <2>2, Zenon DEF Unstarted
  <1>9. ASSUME NEW d \in Conns, Invited(d)' PROVE Invited(d)
    <2>1. ASSUME NEW l \in Codes, d = rooms'[l].guest PROVE Invited(d)
      BY <1>4, <2>1, NoRoomIsEmpty, Zenon DEF Invited
    <2>2. ASSUME NEW g \in Conns, Forked(g)', d = child'[g].guest PROVE Invited(d)
      <3>1. CASE g = x
        BY <1>2, <1>4, <2>2, <3>1, Zenon DEF Invited
      <3>2. CASE g # x
        BY <1>7, <2>2, <3>2, Zenon DEF Invited
      <3> QED
        BY <3>1, <3>2
    <2> QED
      BY <1>9, <2>1, <2>2, Zenon DEF Invited
  <1>10. LobbyHeeds
    <2>1. \A e : \A d \in Conns : Has(inbox'[d], e) => Has(inbox[d], e)
      BY <1>3, LobbyReads
    <2> QED
      BY <1>3, <1>4, <1>8, <1>9, <2>1, Zenon DEF LobbyHeeds
  <1>11. ~collided => at[x] \in {"hostStarted", "gone"}
    <2>1. SUFFICES ASSUME ~collided PROVE at[x] \in {"hostStarted", "gone"}
      OBVIOUS
    <2>2. h \in PendingHosts
      BY <1>1, NoRoomIsEmpty, Zenon DEF PendingHosts
    <2>3. x = h
      BY <1>1, <1>2, <2>1, <2>2, InARoom, Zenon
    <2>4. Has(inbox[h], "start_game")
      BY <1>3, HasHead DEF TypeInv, InboxType
    <2>5. at[h] \in {"hostStarted", "playing", "gone"}
      BY <2>4, Zenon DEF WaitInv, Asked
    <2>6. at[x] # "playing"
      BY <1>5, Zenon DEF WaitInv, QuietInv, Unstarted
    <2> QED
      BY <2>3, <2>5, <2>6, Zenon
  <1>12. ForkedInv'
    <2>1. ASSUME NEW g \in Conns, Forked(g)'
          PROVE  /\ code[child'[g].guest] = code[g]
                 /\ ~collided => at[g] \in {"hostStarted", "gone"}
      <3>1. CASE g = x
        BY <1>4, <1>5, <1>11, <3>1, Zenon
      <3>2. CASE g # x
        BY <1>7, <2>1, <3>2, Zenon DEF WaitInv, ForkedInv
      <3> QED
        BY <3>1, <3>2
    <2> QED
      BY <1>3, <2>1, Zenon DEF ForkedInv
  <1> QED
    BY <1>10, <1>12, LobbyWaits

\* The other steps of the lobby.
LEMMA OtherWaits ==
  ASSUME TypeInv, ServerInv, WaitInv, [Next]_vars,
         \/ Select \/ SelectFails \/ Accept \/ AcceptFails \/ LoopEnds
         \/ \E c \in Conns :
              \/ HangUp(c) \/ HandleJoinRoomNotFound(c) \/ HandleGetScoreboard(c)
              \/ HandleStartGameNoRoom(c) \/ HandleStartGameNoGuest(c)
              \/ ForkFails(c) \/ HandleHostDisconnect(c)
  PROVE  WaitInv'
  <1>1. /\ \A k \in Codes : rooms[k] \in {rooms[k], NoRoom}
        /\ \A h \in Conns : pending[h] \in {pending[h], NoCode}
        /\ "error" \in Events /\ "error" # "game_start"
        /\ "scoreboard" \in Events /\ "scoreboard" # "game_start"
    BY DEF Events
  <1>2. CASE Select \/ SelectFails \/ Accept \/ AcceptFails \/ LoopEnds
    <2>1. UNCHANGED <<at, code, inbox, outbox, child, collided, rooms, pending>>
      BY <1>2, Zenon DEF Select, SelectFails, Accept, AcceptFails, LoopEnds, clientVars, netVars, mapVars
    <2>2. CASE \E c \in Conns : TRUE
      <3>1. PICK c \in Conns : TRUE
        BY <2>2
      <3> QED
        BY <1>1, <2>1, LobbyKeepsWaits, Zenon
    <2>3. CASE Conns = {}
      BY <2>3 DEF WaitInv, Unheard, PendingKnown, Asked, QuietInv, InvitedInv, ForkedInv
    <2> QED
      BY <2>2, <2>3
  <1>3. ASSUME NEW c \in Conns,
               HangUp(c) \/ HandleJoinRoomNotFound(c) \/ HandleGetScoreboard(c)
        PROVE  WaitInv'
    <2>1. UNCHANGED <<at, code, child, rooms, pending, collided>> /\ current = c /\ Handled
      BY <1>3, Zenon DEF HangUp, HandleJoinRoomNotFound, HandleGetScoreboard, FirstCommand,
                         clientVars, mapVars
    <2>2. CASE HangUp(c)
      <3>1. UNCHANGED <<inbox, outbox>>
        BY <2>2, Zenon DEF HangUp, netVars
      <3> QED
        BY <1>1, <2>1, <3>1, LobbyKeepsWaits, Zenon
    <2>3. CASE HandleJoinRoomNotFound(c) \/ HandleGetScoreboard(c)
      <3>1. inbox[c] # << >> /\ inbox' = [inbox EXCEPT ![c] = Tail(@)]
        BY <2>3, Zenon DEF HandleJoinRoomNotFound, HandleGetScoreboard, FirstCommand
      <3>2. ~Fresh(c)'
        BY <2>1, <3>1, NoLongerFresh DEF Handled
      <3>3. Sent({c}, "error") \/ Sent({c}, "scoreboard")
        BY <2>3, Zenon DEF HandleJoinRoomNotFound, HandleGetScoreboard
      <3> QED
        BY <1>1, <2>1, <3>1, <3>2, <3>3, LobbyKeepsWaits, Zenon
    <2> QED
      BY <1>3, <2>2, <2>3
  <1>4. ASSUME NEW h \in Conns,
               \/ HandleStartGameNoRoom(h) \/ HandleStartGameNoGuest(h)
               \/ ForkFails(h) \/ HandleHostDisconnect(h)
        PROVE  WaitInv'
    <2>1. UNCHANGED <<at, code, child, collided>> /\ pending[h] # NoCode
      BY <1>4, Zenon DEF HandleStartGameNoRoom, HandleStartGameNoGuest, ForkFails,
                         HandleHostDisconnect, StartGame, Serve, clientVars, mapVars
    <2>2. \/ UNCHANGED inbox
          \/ inbox[h] # << >> /\ inbox' = [inbox EXCEPT ![h] = Tail(@)]
      BY <1>4, Zenon DEF HandleStartGameNoRoom, HandleStartGameNoGuest, ForkFails,
                         HandleHostDisconnect, StartGame, netVars
    <2>3. \A k \in Codes : rooms'[k] \in {rooms[k], NoRoom}
      <3>1. rooms' = rooms \/ rooms' = [rooms EXCEPT ![pending[h]] = NoRoom]
        BY <1>4, Zenon DEF HandleStartGameNoRoom, HandleStartGameNoGuest, ForkFails,
                           HandleHostDisconnect, mapVars
      <3> QED
        BY <3>1 DEF TypeInv, MapType
    <2>4. \A g \in Conns : pending'[g] \in {pending[g], NoCode}
      <3>1. pending' = pending \/ pending' = [pending EXCEPT ![h] = NoCode]
        BY <1>4, Zenon DEF HandleStartGameNoRoom, HandleStartGameNoGuest, ForkFails,
                           HandleHostDisconnect, mapVars
      <3> QED
        BY <3>1 DEF TypeInv, MapType
    <2>5. UNCHANGED outbox \/ Sent({h}, "error")
      BY <1>4, Zenon DEF HandleStartGameNoRoom, HandleStartGameNoGuest, ForkFails,
                         HandleHostDisconnect, RefuseStart, netVars
    <2>6. ~Fresh(h)'
      <3>1. ~Fresh(h)
        BY <2>1, Zenon DEF WaitInv, PendingKnown
      <3> QED
        BY <3>1, FreshFades
    <2> QED
      BY <1>1, <2>1, <2>2, <2>3, <2>4, <2>5, <2>6, LobbyKeepsWaits
  <1> QED
    BY <1>2, <1>3, <1>4

LEMMA WaitStep == TypeInv /\ ServerInv /\ MapsInv /\ WaitInv /\ [Next]_vars => WaitInv'
  <1> SUFFICES ASSUME TypeInv, ServerInv, MapsInv, WaitInv, [Next]_vars PROVE WaitInv'
    OBVIOUS
  <1>1. CASE UNCHANGED vars
    <2>1. UNCHANGED <<at, code, inbox, outbox, backlog, current, rooms, pending, child, collided>>
      BY <1>1 DEF vars
    <2> QED
      BY <2>1, Zenon DEF WaitInv, Unheard, PendingKnown, Asked, QuietInv, InvitedInv, ForkedInv,
                         Fresh, Unstarted, Invited, Forked, Listed, Players
  <1>2. CASE LobbyStep
    BY <1>2, OtherWaits, EntryWaits, ForkWaits, Zenon DEF LobbyStep
  <1>3. ASSUME NEW c \in Conns, ChildStep(c) \/ UserStep(c) \/ Receive(c) \/ Crash(c)
        PROVE  WaitInv'
    BY <1>3, RoomWaits, UserWaits, Zenon
  <1> QED
    BY <1>1, <1>2, <1>3, Zenon DEF Next

\* A room is forked for players who wait for it: the guest was let in by the code
\* its host was given and has not gone on to anything else; until a code is drawn
\* twice, the host is the one who has asked for the game.
THEOREM LobbyPlayersAreWaiting == Spec => []PlayersAreWaiting
  <1> DEFINE Inv == TypeInv /\ ServerInv /\ MapsInv /\ WaitInv
  <1>1. Init => Inv
    BY TypeStarts, ServerStarts, MapsStart, WaitStarts
  <1>2. Inv /\ [Next]_vars => Inv'
    BY TypeStep, ServerStep, MapsStep, WaitStep
  <1>3. Inv => PlayersAreWaiting
    BY WaitInvSuffices
  <1> QED
    BY <1>1, <1>2, <1>3, PTL DEF Spec

=============================================================================
