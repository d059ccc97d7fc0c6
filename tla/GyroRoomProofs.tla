--------------------------- MODULE GyroRoomProofs ---------------------------
(***************************************************************************)
(* A GyroPi room and its players for every bound on the queues and every   *)
(* choice of who presses EXIT; the last part proves that they implement    *)
(* RoomSpec.                                                               *)
(***************************************************************************)
EXTENDS GyroRoom, RoomNetProofs, TLAPS

\* A queue of events, or of commands, stays one.
LEMMA QueueType ==
  ASSUME NEW S, NEW q \in Seq(S), NEW m \in S
  PROVE  Queue(q, m) \in Seq(S)
  <1>1. Queue(q, m) \in {q, Append(q, m)}
    BY Zenon DEF Queue
  <1> QED
    BY <1>1

\* Whether the room is killed at a write or not, queues of events stay queues.
LEMMA SendType ==
  ASSUME NEW first, NEW sent, Killed(first, sent) \/ Delivered(sent),
         outbox \in [Players -> Seq(Events)], reset \in SUBSET Players,
         DOMAIN sent \subseteq Players, \A p \in DOMAIN sent : sent[p] \in Events
  PROVE  /\ outbox' \in [Players -> Seq(Events)]
         /\ reset' \in SUBSET Players
  <1>1. CASE Killed(first, sent)
    <2>1. CASE first \in DOMAIN sent
      <3>1. Queue(outbox[first], sent[first]) \in Seq(Events)
        BY <2>1, QueueType
      <3> QED
        BY <1>1, <3>1 DEF Killed
    <2>2. CASE first \notin DOMAIN sent
      BY <1>1, <2>2 DEF Killed
    <2> QED
      BY <2>1, <2>2
  <1>2. CASE Delivered(sent)
    <2>1. \A p \in Players : p \in DOMAIN sent => Queue(outbox[p], sent[p]) \in Seq(Events)
      BY QueueType
    <2> QED
      BY <1>2, <2>1 DEF Delivered
  <1> QED
    BY <1>1, <1>2

\* The types of what the room keeps, of what is under way, and of the clients.
RoomType ==
  /\ performer \in Players
  /\ main \in {"starting", "course", "select", "second", "exiting", "join", "next", "ended"}
  /\ physics \in {"off", "on", "goal"}
  /\ running \in BOOLEAN

NetType ==
  /\ inbox \in [Players -> Seq(Commands)]
  /\ outbox \in [Players -> Seq(Events)]
  /\ reset \in SUBSET Players

ClientType ==
  /\ client \in [Players -> Roles \cup {"await", "prompt", "gone"}]
  /\ run \in [Players -> BOOLEAN]
  /\ receiver \in [Players -> BOOLEAN]
  /\ sender \in [Players -> BOOLEAN]
  /\ \A p \in Players : run[p] \/ receiver[p] \/ sender[p] => client[p] \in Roles

LEMMA TypeParts == TypeOK <=> RoomType /\ NetType /\ ClientType
  BY Zenon DEF TypeOK, RoomType, NetType, ClientType

\* Why no physics thread outlives its round: join waits for it, and only
\* StartPhysics starts one.
RoomInv == TypeOK /\ NoTickBetweenRounds

LEMMA RoomStarts == Init => RoomInv
  <1> SUFFICES ASSUME Init PROVE RoomInv
    OBVIOUS
  <1>1. RoomType /\ NoTickBetweenRounds
    BY Zenon DEF Init, RoomType, NoTickBetweenRounds, Players
  <1>2. NetType
    <2>1. << >> \in Seq(Commands) /\ << >> \in Seq(Events)
      OBVIOUS
    <2> QED
      BY <2>1, Zenon DEF Init, NetType
  <1>3. ClientType
    BY Zenon DEF Init, ClientType
  <1> QED
    BY <1>1, <1>2, <1>3, TypeParts, Zenon DEF RoomInv

\* However the process ends, nothing runs or is read any more.
LEMMA RoomEndsInv ==
  ASSUME RoomInv, RoomEnds
  PROVE  /\ RoomType' /\ NoTickBetweenRounds'
         /\ inbox' \in [Players -> Seq(Commands)]
  <1>1. << >> \in Seq(Commands)
    OBVIOUS
  <1> QED
    BY <1>1, Zenon DEF RoomInv, RoomEnds, TypeOK, RoomType, NoTickBetweenRounds

\* Events that the room may send.
LEMMA SentEvents ==
  /\ \A p, q \in Players : StartOf(p, q) \in Events
  /\ "update" \in Events /\ "game_over" \in Events /\ "game_exit" \in Events
  BY DEF StartOf, Start, Starts, Roles, Events

\* A message has been sent to the players in sent's domain, and the room is
\* where it went on to, or has ended.
LEMMA SendInv ==
  ASSUME RoomInv, NEW first, NEW sent, Killed(first, sent) \/ Delivered(sent),
         DOMAIN sent \subseteq Players, \A p \in DOMAIN sent : sent[p] \in Events,
         UNCHANGED <<client, sessionVars>>,
         \/ RoomEnds
         \/ /\ RoomType' /\ NoTickBetweenRounds'
            /\ inbox' \in [Players -> Seq(Commands)]
  PROVE  RoomInv'
  <1>1. outbox \in [Players -> Seq(Events)] /\ reset \in SUBSET Players
    BY Zenon DEF RoomInv, TypeOK
  <1>2. outbox' \in [Players -> Seq(Events)] /\ reset' \in SUBSET Players
    BY <1>1, SendType, Zenon
  <1>3. /\ RoomType' /\ NoTickBetweenRounds'
        /\ inbox' \in [Players -> Seq(Commands)]
    BY RoomEndsInv, Zenon
  <1>4. ClientType'
    BY Zenon DEF RoomInv, TypeOK, ClientType, sessionVars
  <1> QED
    BY <1>2, <1>3, <1>4, Zenon DEF RoomInv, TypeOK, RoomType, ClientType

\* The main thread and the physics thread.
LEMMA RoomStep == RoomInv /\ (MainStep \/ PhysicsStep) => RoomInv'
  <1> SUFFICES ASSUME RoomInv, MainStep \/ PhysicsStep PROVE RoomInv'
    OBVIOUS
  <1>0. RoomType /\ NetType /\ ClientType /\ NoTickBetweenRounds
    BY TypeParts, Zenon DEF RoomInv
  <1>1. CASE StartRound
    <2>1. PICK q \in Players :
            Send("host", [p \in Players |-> StartOf(p, q)],
                 performer' = q /\ main' = "course" /\ UNCHANGED <<physics, running, inbox>>,
                 RoomEnds)
      BY <1>1, Zenon DEF StartRound
    <2>2. physics = "off" /\ UNCHANGED <<client, sessionVars>>
      BY <1>0, <1>1, Zenon DEF StartRound, NoTickBetweenRounds
    <2>3. ASSUME performer' = q /\ main' = "course" /\ UNCHANGED <<physics, running, inbox>>
          PROVE  /\ RoomType' /\ NoTickBetweenRounds'
                 /\ inbox' \in [Players -> Seq(Commands)]
      BY <1>0, <2>2, <2>3, Zenon DEF RoomType, NoTickBetweenRounds, NetType
    <2> DEFINE sent == [p \in Players |-> StartOf(p, q)]
    <2>4. DOMAIN sent \subseteq Players /\ \A p \in DOMAIN sent : sent[p] \in Events
      BY SentEvents, Zenon DEF ToBoth
    <2>5. /\ Killed("host", sent) \/ Delivered(sent)
          /\ \/ RoomEnds
             \/ /\ RoomType' /\ NoTickBetweenRounds'
                /\ inbox' \in [Players -> Seq(Commands)]
      BY <2>1, <2>3, Zenon DEF Send
    <2> HIDE DEF sent
    <2> QED
      BY <2>2, <2>4, <2>5, SendInv, Zenon
  <1>2. CASE StartPhysics
    <2> DEFINE sent == [p \in Players \ {performer} |-> "update"]
    <2>1. ASSUME /\ main' = "select" /\ physics' = "on" /\ running' = TRUE
                 /\ UNCHANGED <<performer, inbox>>
          PROVE  /\ RoomType' /\ NoTickBetweenRounds'
                 /\ inbox' \in [Players -> Seq(Commands)]
      BY <1>0, <1>2, <2>1, Zenon DEF StartPhysics, RoomType, NoTickBetweenRounds, NetType
    <2>2. UNCHANGED <<client, sessionVars>>
      BY <1>2, Zenon DEF StartPhysics
    <2>3. DOMAIN sent \subseteq Players /\ \A p \in DOMAIN sent : sent[p] \in Events
      BY SentEvents, Zenon DEF ToBoth
    <2>4. \E first \in Players :
             /\ Killed(first, sent) \/ Delivered(sent)
             /\ \/ RoomEnds
                \/ /\ RoomType' /\ NoTickBetweenRounds'
                   /\ inbox' \in [Players -> Seq(Commands)]
      BY <1>0, <1>2, <2>1, Zenon DEF StartPhysics, Send, Other, Players
    <2> HIDE DEF sent
    <2> QED
      BY <2>2, <2>3, <2>4, SendInv, Zenon
  <1>3. CASE SendExit
    <2> DEFINE sent == ToBoth("game_exit")
    <2>1. ASSUME main' = "join" /\ UNCHANGED <<performer, physics, running, inbox>>
          PROVE  /\ RoomType' /\ NoTickBetweenRounds'
                 /\ inbox' \in [Players -> Seq(Commands)]
      BY <1>0, <1>3, <2>1, Zenon DEF SendExit, RoomType, NoTickBetweenRounds, NetType
    <2>2. UNCHANGED <<client, sessionVars>>
      BY <1>3, Zenon DEF SendExit
    <2>3. DOMAIN sent \subseteq Players /\ \A p \in DOMAIN sent : sent[p] \in Events
      BY SentEvents, Zenon DEF ToBoth
    <2>4. \E first \in Players :
             /\ Killed(first, sent) \/ Delivered(sent)
             /\ \/ RoomEnds
                \/ /\ RoomType' /\ NoTickBetweenRounds'
                   /\ inbox' \in [Players -> Seq(Commands)]
      BY <1>0, <1>3, <2>1, Zenon DEF SendExit, Send, RoomType
    <2> HIDE DEF sent
    <2> QED
      BY <2>2, <2>3, <2>4, SendInv, Zenon
  <1>4. CASE SelectTimeout
    BY <1>0, <1>4, Zenon
    DEF SelectTimeout, RoomInv, TypeOK, RoomType, NetType, ClientType, NoTickBetweenRounds, sessionVars
  <1>5. CASE Join
    BY <1>0, <1>5, Zenon
    DEF Join, RoomInv, TypeOK, RoomType, NetType, ClientType, NoTickBetweenRounds, sessionVars
  <1>6. CASE NextRound
    <2>1. inbox' \in [Players -> Seq(Commands)]
      <3>1. /\ "host" \in Players /\ inbox["host"] # << >>
            /\ inbox' = [inbox EXCEPT !["host"] = Tail(@)]
        BY <1>6, Zenon DEF NextRound, RoundAskedFor, Players
      <3> QED
        BY <1>0, <3>1 DEF NetType
    <2>2. physics = "off" /\ main' = "starting"
      BY <1>0, <1>6, Zenon DEF NextRound, RoundAskedFor, NoTickBetweenRounds
    <2> QED
      BY <1>0, <1>6, <2>1, <2>2, Zenon
      DEF NextRound, RoomInv, TypeOK, RoomType, NetType, ClientType, NoTickBetweenRounds, sessionVars
  <1>7. CASE NoNextRound
    <2>1. /\ RoomType' /\ NoTickBetweenRounds'
          /\ inbox' \in [Players -> Seq(Commands)]
      BY <1>7, RoomEndsInv, Zenon DEF NoNextRound
    <2> QED
      BY <1>0, <1>7, <2>1, Zenon
      DEF NoNextRound, RoomInv, TypeOK, RoomType, NetType, ClientType, sessionVars
  <1>8. ASSUME NEW p \in Players, ServeEnd(p) PROVE RoomInv'
    BY <1>0, <1>8, Zenon
    DEF ServeEnd, RoomInv, TypeOK, RoomType, NetType, ClientType, NoTickBetweenRounds, sessionVars
  <1>9. ASSUME NEW p \in Players, ServeCommand(p) PROVE RoomInv'
    <2>1. inbox' \in [Players -> Seq(Commands)]
      BY <1>0, <1>9 DEF ServeCommand, NetType
    <2>2. main' \in {"second", "select", "join"}
      BY <1>9, Zenon DEF ServeCommand, AfterTurn
    <2> QED
      BY <1>0, <1>9, <2>1, <2>2, Zenon
      DEF ServeCommand, RoomInv, TypeOK, RoomType, NetType, ClientType, NoTickBetweenRounds, sessionVars
  <1>10. ASSUME NEW p \in Players, ServeExit(p) PROVE RoomInv'
    <2>1. inbox' \in [Players -> Seq(Commands)]
      BY <1>0, <1>10 DEF ServeExit, NetType
    <2> QED
      BY <1>0, <1>10, <2>1, Zenon
      DEF ServeExit, RoomInv, TypeOK, RoomType, NetType, ClientType, NoTickBetweenRounds, sessionVars
  <1>11. CASE Tick
    <2> DEFINE sent == ToBoth("update")
    <2>1. ASSUME /\ physics' = IF running THEN "on" ELSE "off"
                 /\ UNCHANGED <<performer, main, running, inbox>>
          PROVE  /\ RoomType' /\ NoTickBetweenRounds'
                 /\ inbox' \in [Players -> Seq(Commands)]
      BY <1>0, <1>11, <2>1, Zenon DEF Tick, RoomType, NoTickBetweenRounds, NetType
    <2>2. UNCHANGED <<client, sessionVars>>
      BY <1>11, Zenon DEF Tick
    <2>3. DOMAIN sent \subseteq Players /\ \A p \in DOMAIN sent : sent[p] \in Events
      BY SentEvents, Zenon DEF ToBoth
    <2>4. \E first \in Players :
             /\ Killed(first, sent) \/ Delivered(sent)
             /\ \/ RoomEnds
                \/ /\ RoomType' /\ NoTickBetweenRounds'
                   /\ inbox' \in [Players -> Seq(Commands)]
      BY <1>0, <1>11, <2>1, Zenon DEF Tick, Send
    <2> HIDE DEF sent
    <2> QED
      BY <2>2, <2>3, <2>4, SendInv, Zenon
  <1>12. CASE Goal
    <2> DEFINE sent == ToBoth("game_over")
    <2>1. ASSUME physics' = "goal" /\ UNCHANGED <<performer, main, running, inbox>>
          PROVE  /\ RoomType' /\ NoTickBetweenRounds'
                 /\ inbox' \in [Players -> Seq(Commands)]
      BY <1>0, <1>12, <2>1, Zenon DEF Goal, RoomType, NoTickBetweenRounds, NetType
    <2>2. UNCHANGED <<client, sessionVars>>
      BY <1>12, Zenon DEF Goal
    <2>3. DOMAIN sent \subseteq Players /\ \A p \in DOMAIN sent : sent[p] \in Events
      BY SentEvents, Zenon DEF ToBoth
    <2>4. \E first \in Players :
             /\ Killed(first, sent) \/ Delivered(sent)
             /\ \/ RoomEnds
                \/ /\ RoomType' /\ NoTickBetweenRounds'
                   /\ inbox' \in [Players -> Seq(Commands)]
      BY <1>0, <1>12, <2>1, Zenon DEF Goal, Send, RoomType
    <2> HIDE DEF sent
    <2> QED
      BY <2>2, <2>3, <2>4, SendInv, Zenon
  <1>13. CASE LastTickDone
    BY <1>0, <1>13, Zenon
    DEF LastTickDone, RoomInv, TypeOK, RoomType, NetType, ClientType, NoTickBetweenRounds, sessionVars
  <1>14. CASE GoalDone
    BY <1>0, <1>14, Zenon
    DEF GoalDone, RoomInv, TypeOK, RoomType, NetType, ClientType, NoTickBetweenRounds, sessionVars
  <1> QED
    BY <1>1, <1>2, <1>3, <1>4, <1>5, <1>6, <1>7, <1>8, <1>9, <1>10, <1>11, <1>12, <1>13,
       <1>14, Zenon DEF MainStep, PhysicsStep

-----------------------------------------------------------------------------
(* The client programs. *)

\* Closing a socket, from wherever the client is.
LEMMA CloseType ==
  ASSUME NetType, NEW p \in Players, NEW unread, Close(p, unread)
  PROVE  /\ outbox' \in [Players -> Seq(Events)]
         /\ reset' \in SUBSET Players
  <1>1. << >> \in Seq(Events)
    OBVIOUS
  <1>2. outbox' = [outbox EXCEPT ![p] = << >>]
    BY Zenon DEF Close
  <1>3. outbox' \in [Players -> Seq(Events)]
    BY <1>1, <1>2 DEF NetType
  <1>4. reset' = reset \/ reset' = reset \cup {p}
    BY Zenon DEF Close
  <1>5. reset' \in SUBSET Players
    BY <1>4, Zenon DEF NetType
  <1> QED
    BY <1>3, <1>5

LEMMA CommandType ==
  ASSUME NetType, NEW p \in Players, NEW command \in Commands, Command(p, command)
  PROVE  inbox' \in [Players -> Seq(Commands)]
  <1>1. Queue(inbox[p], command) \in Seq(Commands)
    BY QueueType DEF NetType
  <1>2. inbox' = inbox \/ inbox' = [inbox EXCEPT ![p] = Queue(@, command)]
    BY Zenon DEF Command
  <1> QED
    BY <1>1, <1>2 DEF NetType

\* Reading one event.
LEMMA ReadType ==
  ASSUME NetType, NEW p \in Players, outbox[p] # << >>,
         outbox' = [outbox EXCEPT ![p] = Tail(@)]
  PROVE  outbox' \in [Players -> Seq(Events)]
  <1>1. Tail(outbox[p]) \in Seq(Events)
    BY DEF NetType
  <1> QED
    BY <1>1 DEF NetType

\* A step of a client or a user leaves the room's threads alone.
LEMMA ClientStepInv ==
  ASSUME RoomInv, UNCHANGED roomVars, NetType', ClientType'
  PROVE  RoomInv'
  <1>1. RoomType' /\ NoTickBetweenRounds'
    BY Zenon DEF RoomInv, TypeOK, RoomType, NoTickBetweenRounds, roomVars
  <1> QED
    BY <1>1, Zenon DEF RoomInv, TypeOK, RoomType, NetType, ClientType

LEMMA UserSteps == RoomInv /\ UserStep => RoomInv'
  <1> SUFFICES ASSUME RoomInv, UserStep PROVE RoomInv'
    OBVIOUS
  <1>0. RoomType /\ NetType /\ ClientType
    BY TypeParts, Zenon DEF RoomInv
  <1>00. "host" \in Players /\ "start_game" \in Commands /\ "exit_game" \in Commands
    BY Zenon DEF Players, Commands
  <1>1. CASE PlayAgain
    <2>1. inbox' \in [Players -> Seq(Commands)]
      BY <1>0, <1>00, <1>1, CommandType, Zenon DEF PlayAgain, AskForRound
    <2>2. /\ client["host"] = "prompt" /\ client' = [client EXCEPT !["host"] = "await"]
          /\ UNCHANGED <<roomVars, outbox, reset, run, receiver, sender>>
      BY <1>1, Zenon DEF PlayAgain, AskForRound, Moves, sessionVars
    <2>3. ~run["host"] /\ ~receiver["host"] /\ ~sender["host"]
      BY <1>0, <1>00, <2>2, Zenon DEF ClientType, Roles
    <2>4. ClientType'
      BY <1>0, <1>00, <2>2, <2>3, Zenon DEF ClientType
    <2> QED
      BY <1>0, <2>1, <2>2, <2>4, ClientStepInv, Zenon DEF NetType
  <1>2. CASE HostLeaves
    <2>1. /\ client["host"] = "prompt" /\ client' = [client EXCEPT !["host"] = "gone"]
          /\ UNCHANGED <<roomVars, inbox, run, receiver, sender>>
          /\ Close("host", outbox["host"])
      BY <1>2, Zenon DEF HostLeaves, LeavePrompt, Close, Moves, sessionVars
    <2>2. ~run["host"] /\ ~receiver["host"] /\ ~sender["host"]
      BY <1>0, <1>00, <2>1, Zenon DEF ClientType, Roles
    <2>3. ClientType'
      BY <1>0, <1>00, <2>1, <2>2, Zenon DEF ClientType
    <2>4. NetType'
      BY <1>0, <1>00, <2>1, CloseType, Zenon DEF NetType
    <2> QED
      BY <2>1, <2>3, <2>4, ClientStepInv, Zenon
  <1>3. ASSUME NEW p \in Players, PressExit(p) PROVE RoomInv'
    <2>1. inbox' \in [Players -> Seq(Commands)]
      BY <1>0, <1>00, <1>3, CommandType, Zenon DEF PressExit
    <2>2. /\ run' = [run EXCEPT ![p] = FALSE]
          /\ UNCHANGED <<roomVars, outbox, reset, client, receiver, sender>>
      BY <1>3, Zenon DEF PressExit
    <2>3. ClientType'
      BY <1>0, <2>2, Zenon DEF ClientType
    <2> QED
      BY <1>0, <2>1, <2>2, <2>3, ClientStepInv, Zenon DEF NetType
  <1> QED
    BY <1>1, <1>2, <1>3, Zenon DEF UserStep

LEMMA ClientSteps ==
  ASSUME RoomInv, NEW p \in Players,
         ReceiverStep(p) \/ SenderStep(p) \/ WindowStep(p) \/ ClientDies(p)
  PROVE  RoomInv'
  <1>0. RoomType /\ NetType /\ ClientType
    BY TypeParts, Zenon DEF RoomInv
  <1>1. CASE GameStarts(p)
    <2>1. PICK r \in Roles : /\ client' = [client EXCEPT ![p] = r]
                             /\ sender' = [sender EXCEPT ![p] = (r = "PERFORMER")]
      BY <1>1, Zenon DEF GameStarts, Moves
    <2>2. /\ run' = [run EXCEPT ![p] = TRUE] /\ receiver' = [receiver EXCEPT ![p] = TRUE]
          /\ outbox[p] # << >> /\ outbox' = [outbox EXCEPT ![p] = Tail(@)]
          /\ UNCHANGED <<roomVars, inbox, reset>>
      BY <1>1, Zenon DEF GameStarts
    <2>3. (r = "PERFORMER") \in BOOLEAN
      BY Zenon
    <2>4. ClientType'
      BY <1>0, <2>1, <2>2, <2>3, Zenon DEF ClientType
    <2> QED
      BY <1>0, <2>2, <2>4, ReadType, ClientStepInv, Zenon DEF NetType
  <1>2. CASE GameStartFails(p)
    <2>1. /\ client[p] = "await" /\ \E unread : Close(p, unread)
          /\ client' = [client EXCEPT ![p] = "gone"]
          /\ UNCHANGED <<roomVars, inbox, run, receiver, sender>>
      BY <1>2, Zenon DEF GameStartFails, AwaitFails, Close, Moves, sessionVars
    <2>2. ~run[p] /\ ~receiver[p] /\ ~sender[p]
      BY <1>0, <2>1, Zenon DEF ClientType, Roles
    <2>3. ClientType'
      BY <1>0, <2>1, <2>2, Zenon DEF ClientType
    <2> QED
      BY <1>0, <2>1, <2>3, CloseType, ClientStepInv, Zenon DEF NetType
  <1>3. CASE ReceiveOther(p)
    <2>1. /\ outbox[p] # << >> /\ outbox' = [outbox EXCEPT ![p] = Tail(@)]
          /\ receiver' = [receiver EXCEPT ![p] = run[p]]
          /\ UNCHANGED <<roomVars, inbox, reset, client, run, sender>>
      BY <1>3, Zenon DEF ReceiveOther
    <2>2. ClientType'
      BY <1>0, <2>1, Zenon DEF ClientType
    <2> QED
      BY <1>0, <2>1, <2>2, ReadType, ClientStepInv, Zenon DEF NetType
  <1>4. CASE ReceiveLast(p)
    <2>1. /\ run' = [run EXCEPT ![p] = FALSE] /\ receiver' = [receiver EXCEPT ![p] = FALSE]
          /\ UNCHANGED <<roomVars, inbox, reset, client, sender>>
          /\ \/ outbox[p] # << >> /\ outbox' = [outbox EXCEPT ![p] = Tail(@)]
             \/ outbox' = outbox
      BY <1>4, Zenon DEF ReceiveLast
    <2>2. ClientType'
      BY <1>0, <2>1, Zenon DEF ClientType
    <2> QED
      BY <1>0, <2>1, <2>2, ReadType, ClientStepInv, Zenon DEF NetType
  <1>5. CASE SendTilt(p)
    <2>1. "tilt" \in Commands
      BY Zenon DEF Commands
    <2>2. inbox' \in [Players -> Seq(Commands)]
      BY <1>0, <1>5, <2>1, CommandType, Zenon DEF SendTilt
    <2>3. /\ sender' = [sender EXCEPT ![p] = run[p]]
          /\ UNCHANGED <<roomVars, outbox, reset, client, run, receiver>>
      BY <1>5, Zenon DEF SendTilt
    <2>4. ClientType'
      BY <1>0, <2>3, Zenon DEF ClientType
    <2> QED
      BY <1>0, <2>2, <2>3, <2>4, ClientStepInv, Zenon DEF NetType
  <1>6. CASE SenderEnds(p)
    <2>1. ClientType'
      BY <1>0, <1>6, Zenon DEF SenderEnds, ClientType
    <2> QED
      BY <1>0, <1>6, <2>1, ClientStepInv, Zenon DEF SenderEnds, NetType
  <1>7. CASE SessionEnds(p)
    <2>1. /\ ~run[p] /\ ~receiver[p] /\ ~sender[p]
          /\ client' = [client EXCEPT ![p] = AfterSession(p)]
          /\ UNCHANGED <<roomVars, inbox, outbox, reset, run, receiver, sender>>
      BY <1>7, Zenon DEF SessionEnds, Moves, sessionVars
    <2>2. AfterSession(p) \in {"prompt", "await"}
      BY Zenon DEF AfterSession
    <2>3. ClientType'
      BY <1>0, <2>1, <2>2, Zenon DEF ClientType
    <2> QED
      BY <1>0, <2>1, <2>3, ClientStepInv, Zenon DEF NetType
  <1>8. CASE ClientDies(p)
    <2>1. /\ Close(p, outbox[p]) /\ client' = [client EXCEPT ![p] = "gone"]
          /\ run' = [run EXCEPT ![p] = FALSE] /\ receiver' = [receiver EXCEPT ![p] = FALSE]
          /\ sender' = [sender EXCEPT ![p] = FALSE]
          /\ UNCHANGED <<roomVars, inbox>>
      BY <1>8, Zenon DEF ClientDies, Close, Moves
    <2>2. ClientType'
      BY <1>0, <2>1, Zenon DEF ClientType
    <2> QED
      BY <1>0, <2>1, <2>2, CloseType, ClientStepInv, Zenon DEF NetType
  <1> QED
    BY <1>1, <1>2, <1>3, <1>4, <1>5, <1>6, <1>7, <1>8, Zenon
    DEF ReceiverStep, SenderStep, WindowStep

LEMMA RoomInvStep == RoomInv /\ [Next]_vars => RoomInv'
  <1> SUFFICES ASSUME RoomInv, [Next]_vars PROVE RoomInv'
    OBVIOUS
  <1>1. CASE UNCHANGED vars
    BY <1>1, Zenon DEF vars, RoomInv, TypeOK, NoTickBetweenRounds
  <1>2. CASE Next
    BY <1>2, RoomStep, UserSteps, ClientSteps, Zenon DEF Next
  <1> QED
    BY <1>1, <1>2

\* Every variable keeps its type, and no thread of a session runs on when the
\* function whose variables it uses has returned (SessionEnds joins them).
THEOREM GyroTypeOK == Spec => []TypeOK
  <1>1. RoomInv => TypeOK
    BY DEF RoomInv
  <1> QED
    BY <1>1, RoomStarts, RoomInvStep, PTL DEF Spec

\* physicsThread.join() holds the round until the last tick is over, with any
\* number of messages under way, programs killed and a process that dies.
THEOREM GyroNoTickBetweenRounds == Spec => []NoTickBetweenRounds
  <1>1. RoomInv => NoTickBetweenRounds
    BY DEF RoomInv
  <1> QED
    BY <1>1, RoomStarts, RoomInvStep, PTL DEF Spec

-----------------------------------------------------------------------------
(* Queues of events.  q is one, r says that its player's receiver reads.     *)

\* After the first n events the receiver reads on: no event after the start of
\* its session, which may be one of them, ends it.
Reads(q, r, n) ==
  \E s \in 0..n :
     /\ (s = 0 /\ r) \/ (s \in DOMAIN q /\ q[s] \in Starts)
     /\ \A j \in DOMAIN q : s < j /\ j <= n => q[j] \notin LastEvents

\* Nothing on its way ends the last session that begins.
ReadsOn(q, r) == Reads(q, r, Len(q))

\* No receiver gets to a game_start.
StartsKept(q, r) == \A i \in DOMAIN q : q[i] \in Starts => ~Reads(q, r, i - 1)

NoStart(q) == \A i \in DOMAIN q : q[i] \notin Starts

\* The newest game_start.
Newest(q, i) ==
  i \in DOMAIN q /\ q[i] \in Starts /\ \A j \in DOMAIN q : j > i => q[j] \notin Starts

\* An end that no game_start follows.
Ending(q) ==
  \E i \in DOMAIN q : q[i] \in LastEvents /\ \A j \in DOMAIN q : j > i => q[j] \notin Starts

\* At most one game_start.
Once(q) == \A i \in DOMAIN q : q[i] \in Starts => Newest(q, i)

LEMMA Apart == \A m \in LastEvents \cup {"update"} : m \in Events /\ m \notin Starts
  BY DEF LastEvents, Starts, Start, Roles, Events

LEMMA QueueFacts ==
  ASSUME NEW q \in Seq(Events)
  PROVE  Len(q) \in Nat /\ DOMAIN q = 1..Len(q) /\ \A i \in DOMAIN q : q[i] \in Events
  OBVIOUS

LEMMA AppendFacts ==
  ASSUME NEW q \in Seq(Events), NEW m \in Events
  PROVE  /\ Append(q, m) \in Seq(Events)
         /\ Len(Append(q, m)) = Len(q) + 1 /\ DOMAIN Append(q, m) = 1..(Len(q) + 1)
         /\ \A i \in DOMAIN q : Append(q, m)[i] = q[i]
         /\ Append(q, m)[Len(q) + 1] = m
  OBVIOUS

LEMMA TailFacts ==
  ASSUME NEW q \in Seq(Events), q # << >>
  PROVE  /\ Tail(q) \in Seq(Events) /\ Len(q) \in Nat \ {0}
         /\ Len(Tail(q)) = Len(q) - 1 /\ DOMAIN Tail(q) = 1..(Len(q) - 1)
         /\ \A i \in DOMAIN Tail(q) : Tail(q)[i] = q[i + 1]
         /\ 1 \in DOMAIN q /\ Head(q) = q[1]
  OBVIOUS

\* A later event changes nothing before it.
LEMMA AppendReads ==
  ASSUME NEW q \in Seq(Events), NEW r, NEW m \in Events, NEW n \in 0..Len(q)
  PROVE  Reads(Append(q, m), r, n) <=> Reads(q, r, n)
  <1> DEFINE a == Append(q, m)
  <1>1. /\ Len(q) \in Nat /\ DOMAIN q = 1..Len(q) /\ DOMAIN a = 1..(Len(q) + 1)
        /\ \A i \in 1..n : i \in DOMAIN q /\ i \in DOMAIN a /\ a[i] = q[i]
    BY QueueFacts, AppendFacts
  <1> HIDE DEF a
  <1>2. \A s \in 0..n : s \in DOMAIN q /\ q[s] \in Starts <=> s \in DOMAIN a /\ a[s] \in Starts
    BY <1>1
  <1>3. \A s \in 0..n :
          (\A j \in DOMAIN q : s < j /\ j <= n => q[j] \notin LastEvents)
            <=> (\A j \in DOMAIN a : s < j /\ j <= n => a[j] \notin LastEvents)
    BY <1>1
  <1>4. Reads(a, r, n) <=> Reads(q, r, n)
    BY <1>2, <1>3, Zenon DEF Reads
  <1> QED
    BY <1>4 DEF a

\* An event of a round ends a session at most.
LEMMA AppendEvent ==
  ASSUME NEW q \in Seq(Events), NEW r, NEW m \in LastEvents \cup {"update"}
  PROVE  /\ ReadsOn(Append(q, m), r) => ReadsOn(q, r) /\ m \notin LastEvents
         /\ StartsKept(q, r) => StartsKept(Append(q, m), r)
         /\ NoStart(Append(q, m)) <=> NoStart(q)
         /\ \A i : Newest(Append(q, m), i) <=> Newest(q, i)
         /\ \A i : Newest(q, i) => Append(q, m)[i] = q[i]
         /\ Ending(Append(q, m)) => Ending(q) \/ m \in LastEvents
         /\ Once(q) => Once(Append(q, m))
  <1> DEFINE a == Append(q, m)
             l == Len(q)
  <1>1. m \in Events /\ m \notin Starts
    BY Apart
  <1>2. /\ l \in Nat /\ DOMAIN q = 1..l /\ DOMAIN a = 1..(l + 1) /\ Len(a) = l + 1
        /\ \A i \in 1..l : a[i] = q[i]
        /\ a[l + 1] = m
    BY <1>1, QueueFacts, AppendFacts
  <1>3. \A n \in 0..l : Reads(a, r, n) <=> Reads(q, r, n)
    BY <1>1, AppendReads
  <1> HIDE DEF a, l
  <1>4. ASSUME Reads(a, r, l + 1) PROVE Reads(a, r, l) /\ m \notin LastEvents
    <2>1. PICK s \in 0..(l + 1) :
             /\ (s = 0 /\ r) \/ (s \in DOMAIN a /\ a[s] \in Starts)
             /\ \A j \in DOMAIN a : s < j /\ j <= l + 1 => a[j] \notin LastEvents
      BY <1>4, Zenon DEF Reads
    <2>2. s # l + 1
      BY <1>1, <1>2, <2>1
    <2>3. s \in 0..l /\ l + 1 \in DOMAIN a /\ s < l + 1
      BY <1>2, <2>2
    <2>4. a[l + 1] \notin LastEvents
      BY <1>2, <2>1, <2>3
    <2>5. \A j \in DOMAIN a : s < j /\ j <= l => a[j] \notin LastEvents
      BY <1>2, <2>1
    <2> QED
      BY <1>2, <2>1, <2>3, <2>4, <2>5, Zenon DEF Reads
  <1>5. ReadsOn(a, r) => ReadsOn(q, r) /\ m \notin LastEvents
    <2>1. l \in 0..l
      BY <1>2
    <2> QED
      BY <1>2, <1>3, <1>4, <2>1, Zenon DEF ReadsOn, l
  <1>6. ASSUME StartsKept(q, r), NEW i \in DOMAIN a, a[i] \in Starts PROVE ~Reads(a, r, i - 1)
    <2>1. i \in DOMAIN q /\ q[i] \in Starts /\ i - 1 \in 0..l
      BY <1>1, <1>2, <1>6
    <2> QED
      BY <1>3, <1>6, <2>1, Zenon DEF StartsKept
  <1>7. NoStart(a) <=> NoStart(q)
    BY <1>1, <1>2 DEF NoStart
  <1>8. \A i : Newest(a, i) <=> Newest(q, i)
    BY <1>1, <1>2 DEF Newest
  <1>9. \A i : Newest(q, i) => a[i] = q[i]
    BY <1>2 DEF Newest
  <1>10. Ending(a) => Ending(q) \/ m \in LastEvents
    BY <1>1, <1>2 DEF Ending
  <1>11. Once(q) => Once(a)
    BY <1>1, <1>2, <1>8 DEF Once
  <1> QED
    BY <1>5, <1>6, <1>7, <1>8, <1>9, <1>10, <1>11, Zenon DEF StartsKept, a

\* The game_start of the next round comes when no session goes on.
LEMMA AppendStart ==
  ASSUME NEW q \in Seq(Events), NEW r, NEW m \in Starts, ~ReadsOn(q, r), StartsKept(q, r)
  PROVE  /\ StartsKept(Append(q, m), r)
         /\ ~Ending(Append(q, m)) /\ ~NoStart(Append(q, m))
         /\ \A i : Newest(Append(q, m), i) => Append(q, m)[i] = m
         /\ NoStart(q) => Once(Append(q, m))
  <1> DEFINE a == Append(q, m)
             l == Len(q)
  <1>1. m \in Events /\ m \notin LastEvents
    BY Apart DEF Events
  <1>2. /\ l \in Nat /\ DOMAIN q = 1..l /\ DOMAIN a = 1..(l + 1) /\ Len(a) = l + 1
        /\ \A i \in 1..l : a[i] = q[i]
        /\ a[l + 1] = m
    BY <1>1, QueueFacts, AppendFacts
  <1>3. \A n \in 0..l : Reads(a, r, n) <=> Reads(q, r, n)
    BY <1>1, AppendReads
  <1>4. ~Reads(q, r, l)
    BY DEF ReadsOn
  <1> HIDE DEF a, l
  <1>5. ASSUME NEW i \in DOMAIN a, a[i] \in Starts PROVE ~Reads(a, r, i - 1)
    <2>1. CASE i = l + 1
      <3>1. i - 1 = l /\ l \in 0..l
        BY <1>2, <2>1
      <3> QED
        BY <1>3, <1>4, <3>1, Zenon
    <2>2. CASE i # l + 1
      <3>1. i \in DOMAIN q /\ q[i] \in Starts /\ i - 1 \in 0..l
        BY <1>2, <1>5, <2>2
      <3> QED
        BY <1>3, <3>1, Zenon DEF StartsKept
    <2> QED
      BY <2>1, <2>2
  <1>6. ~Ending(a) /\ ~NoStart(a)
    BY <1>1, <1>2 DEF Ending, NoStart
  <1>7. \A i : Newest(a, i) => a[i] = m
    BY <1>2 DEF Newest
  <1>8. NoStart(q) => Once(a)
    BY <1>2 DEF NoStart, Once, Newest
  <1> QED
    BY <1>5, <1>6, <1>7, <1>8, Zenon DEF StartsKept, a

\* An event is read: t says whether the receiver reads on.
LEMMA TailEvent ==
  ASSUME NEW q \in Seq(Events), q # << >>, NEW r, NEW t,
         t => (r \/ Head(q) \in Starts) /\ Head(q) \notin LastEvents
  PROVE  /\ ReadsOn(Tail(q), t) => ReadsOn(q, r)
         /\ StartsKept(q, r) => StartsKept(Tail(q), t)
         /\ NoStart(q) => NoStart(Tail(q))
         /\ NoStart(Tail(q)) => NoStart(q) \/ Newest(q, 1)
         /\ \A i \in DOMAIN Tail(q) : Newest(Tail(q), i) => Newest(q, i + 1)
         /\ Ending(Tail(q)) => Ending(q)
         /\ Once(q) => Once(Tail(q)) /\ (Head(q) \in Starts => NoStart(Tail(q)))
  <1> DEFINE a == Tail(q)
             l == Len(q)
  <1>1. /\ l \in Nat \ {0} /\ DOMAIN q = 1..l /\ DOMAIN a = 1..(l - 1) /\ Len(a) = l - 1
        /\ \A i \in 1..(l - 1) : a[i] = q[i + 1]
        /\ q[1] = Head(q)
    BY QueueFacts, TailFacts
  <1> HIDE DEF a, l
  <1>2. ASSUME NEW n \in 0..(l - 1), Reads(a, t, n) PROVE Reads(q, r, n + 1)
    <2>1. PICK s \in 0..n :
             /\ (s = 0 /\ t) \/ (s \in DOMAIN a /\ a[s] \in Starts)
             /\ \A j \in DOMAIN a : s < j /\ j <= n => a[j] \notin LastEvents
      BY <1>2, Zenon DEF Reads
    <2>2. \A j \in DOMAIN q : s + 1 < j /\ j <= n + 1 => q[j] \notin LastEvents
      <3> TAKE j \in DOMAIN q
      <3> HAVE s + 1 < j /\ j <= n + 1
      <3>1. j - 1 \in DOMAIN a /\ s < j - 1 /\ j - 1 <= n /\ a[j - 1] = q[j]
        BY <1>1
      <3> QED
        BY <2>1, <3>1
    <2>3. CASE s \in DOMAIN a /\ a[s] \in Starts
      <3>1. s + 1 \in 0..(n + 1) /\ s + 1 \in DOMAIN q /\ q[s + 1] \in Starts
        BY <1>1, <2>3
      <3> QED
        BY <2>2, <3>1, Zenon DEF Reads
    <2>4. CASE s = 0 /\ t /\ Head(q) \in Starts
      <3>1. 1 \in 0..(n + 1) /\ 1 \in DOMAIN q /\ q[1] \in Starts
        BY <1>1, <2>4
      <3>2. \A j \in DOMAIN q : 1 < j /\ j <= n + 1 => q[j] \notin LastEvents
        BY <2>2, <2>4
      <3> QED
        BY <3>1, <3>2, Zenon DEF Reads
    <2>5. CASE s = 0 /\ t /\ r
      <3>1. q[1] \notin LastEvents
        BY <1>1, <2>5
      <3>2. \A j \in DOMAIN q : 0 < j /\ j <= n + 1 => q[j] \notin LastEvents
        <4> TAKE j \in DOMAIN q
        <4> HAVE 0 < j /\ j <= n + 1
        <4>1. j = 1 \/ s + 1 < j
          BY <1>1, <2>5
        <4> QED
          BY <2>2, <3>1, <4>1
      <3>3. 0 \in 0..(n + 1)
        OBVIOUS
      <3> QED
        BY <2>5, <3>2, <3>3, Zenon DEF Reads
    <2> QED
      BY <2>1, <2>3, <2>4, <2>5
  <1>3. ReadsOn(a, t) => ReadsOn(q, r)
    <2>1. l - 1 \in 0..(l - 1) /\ l - 1 + 1 = l
      BY <1>1
    <2>2. Reads(a, t, l - 1) => Reads(q, r, l)
      BY <1>2, <2>1
    <2> QED
      BY <1>1, <2>2 DEF ReadsOn, l
  <1>4. ASSUME StartsKept(q, r), NEW i \in DOMAIN a, a[i] \in Starts PROVE ~Reads(a, t, i - 1)
    <2>1. i + 1 \in DOMAIN q /\ q[i + 1] \in Starts /\ i - 1 \in 0..(l - 1) /\ i - 1 + 1 = i
      BY <1>1, <1>4
    <2>2. ~Reads(q, r, (i + 1) - 1)
      BY <1>4, <2>1, Zenon DEF StartsKept
    <2>3. (i + 1) - 1 = i
      BY <1>1
    <2> QED
      BY <1>2, <2>1, <2>2, <2>3
  <1>5. /\ NoStart(q) => NoStart(a)
        /\ NoStart(a) => NoStart(q) \/ Newest(q, 1)
    <2>1. NoStart(q) => NoStart(a)
      BY <1>1 DEF NoStart
    <2>2. ASSUME NoStart(a) PROVE \A j \in DOMAIN q : j > 1 => q[j] \notin Starts
      <3> TAKE j \in DOMAIN q
      <3> HAVE j > 1
      <3>1. j - 1 \in DOMAIN a /\ a[j - 1] = q[j]
        BY <1>1
      <3> QED
        BY <2>2, <3>1 DEF NoStart
    <2>3. ASSUME NoStart(a), ~NoStart(q) PROVE Newest(q, 1)
      <3>1. PICK i \in DOMAIN q : q[i] \in Starts
        BY <2>3 DEF NoStart
      <3>2. i = 1
        BY <1>1, <2>2, <2>3, <3>1
      <3> QED
        BY <2>2, <2>3, <3>1, <3>2 DEF Newest
    <2> QED
      BY <2>1, <2>3
  <1>6. ASSUME NEW i \in DOMAIN a, Newest(a, i) PROVE Newest(q, i + 1)
    <2>1. i + 1 \in DOMAIN q /\ q[i + 1] \in Starts
      BY <1>1, <1>6 DEF Newest
    <2>2. ASSUME NEW j \in DOMAIN q, j > i + 1 PROVE q[j] \notin Starts
      <3>1. j - 1 \in DOMAIN a /\ j - 1 > i /\ a[j - 1] = q[j]
        BY <1>1, <2>2
      <3> QED
        BY <1>6, <3>1 DEF Newest
    <2> QED
      BY <2>1, <2>2 DEF Newest
  <1>7. ASSUME Ending(a) PROVE Ending(q)
    <2>1. PICK i \in DOMAIN a :
             a[i] \in LastEvents /\ \A j \in DOMAIN a : j > i => a[j] \notin Starts
      BY <1>7 DEF Ending
    <2>2. i + 1 \in DOMAIN q /\ q[i + 1] \in LastEvents
      BY <1>1, <2>1
    <2>3. ASSUME NEW j \in DOMAIN q, j > i + 1 PROVE q[j] \notin Starts
      <3>1. j - 1 \in DOMAIN a /\ j - 1 > i /\ a[j - 1] = q[j]
        BY <1>1, <2>3
      <3> QED
        BY <2>1, <3>1
    <2> QED
      BY <2>2, <2>3 DEF Ending
  <1>8. ASSUME Once(q) PROVE Once(a) /\ (Head(q) \in Starts => NoStart(a))
    <2>1. ASSUME NEW i \in DOMAIN a, a[i] \in Starts
          PROVE  Newest(a, i) /\ q[1] \notin Starts
      <3>1. i + 1 \in DOMAIN q /\ q[i + 1] \in Starts
        BY <1>1, <2>1
      <3>2. Newest(q, i + 1)
        BY <1>8, <3>1 DEF Once
      <3>3. \A j \in DOMAIN a : j > i => a[j] \notin Starts
        <4> TAKE j \in DOMAIN a
        <4> HAVE j > i
        <4>1. j + 1 \in DOMAIN q /\ j + 1 > i + 1 /\ a[j] = q[j + 1]
          BY <1>1
        <4> QED
          BY <3>2, <4>1 DEF Newest
      <3>4. 1 \in DOMAIN q /\ i + 1 > 1
        BY <1>1
      <3>5. q[1] \notin Starts
        <4> SUFFICES ASSUME q[1] \in Starts PROVE FALSE
          OBVIOUS
        <4>1. Newest(q, 1)
          BY <1>8, <3>4 DEF Once
        <4> QED
          BY <3>1, <3>4, <4>1 DEF Newest
      <3> QED
        BY <2>1, <3>3, <3>5 DEF Newest
    <2> QED
      BY <1>1, <2>1 DEF Once, NoStart
  <1> QED
    BY <1>3, <1>4, <1>5, <1>6, <1>7, <1>8, Zenon DEF StartsKept, a

\* A receiver that stops reads no more.
LEMMA StoppedReader ==
  ASSUME NEW q, NEW r, NEW t, t => r
  PROVE  /\ ReadsOn(q, t) => ReadsOn(q, r)
         /\ StartsKept(q, r) => StartsKept(q, t)
  <1>1. \A n : Reads(q, t, n) => Reads(q, r, n)
    BY Zenon DEF Reads
  <1> QED
    BY <1>1, Zenon DEF ReadsOn, StartsKept

LEMMA EmptyQueue ==
  ASSUME NEW r, ~r
  PROVE  /\ ~ReadsOn(<< >>, r) /\ StartsKept(<< >>, r) /\ NoStart(<< >>) /\ ~Ending(<< >>)
         /\ Once(<< >>) /\ \A i : ~Newest(<< >>, i)
  BY DEF ReadsOn, Reads, StartsKept, NoStart, Ending, Newest, Once

\* With nothing to start it, only a receiver that reads already reads on.
LEMMA NoReader ==
  ASSUME NEW q \in Seq(Events), NoStart(q), NEW r, ~r
  PROVE  ~ReadsOn(q, r)
  BY Zenon DEF ReadsOn, Reads, NoStart

-----------------------------------------------------------------------------
(* What is on its way, and where the players are.                            *)

GoneInv == \A p \in Players : Gone(p) => outbox[p] = << >>

StartsInv == \A p \in Players : StartsKept(outbox[p], receiver[p])

GoesOn(p) == ReadsOn(outbox[p], receiver[p])

\* The round is over, or the physics thread is about to say so.
Over ==
  \/ main \in {"join", "next", "starting"} \/ physics = "goal"
  \/ main \in {"select", "second"} /\ ~running

\* Who could be told that the round is over has been told.
OverInv == Over => \A p \in Players : ~Gone(Other(p)) => ~GoesOn(p)

\* The host has asked for a round.
Asked == \E i \in DOMAIN inbox["host"] : inbox["host"][i] = "start_game"

\* It has nothing to start before that is read, and sends nothing after it.
AskedInv ==
  /\ Asked \/ main = "starting" =>
        client["host"] \in {"await", "gone"} /\ NoStart(outbox["host"])
  /\ \A i \in DOMAIN inbox["host"] : inbox["host"][i] = "start_game" => i = Len(inbox["host"])
  /\ main = "starting" => inbox["host"] = << >>

\* The host plays the newest round.
HostInv ==
  /\ client["host"] # "await" => NoStart(outbox["host"])
  /\ Once(outbox["host"])

\* The host's session is over.
Through == client["host"] = "prompt" \/ (Playing("host") /\ ~run["host"])

\* A host that is through with a round, or will be, takes the guest out of it:
\* the same end has been sent to both, or an exit_game tells the room.
ToldInv ==
  /\ ~Ended /\ (Asked \/ Through \/ Ending(outbox["host"])) =>
        ~GoesOn("guest") \/ ExitSent("host") \/ main = "exiting"
  /\ main = "starting" => ~GoesOn("guest")

\* The newest game_start for a player, or the session that it began, has the
\* role of this round.
RoleInv ==
  main \notin {"starting", "ended"} =>
     \A p \in Players :
        /\ \A i : Newest(outbox[p], i) => outbox[p][i] = StartOf(p, performer)
        /\ Playing(p) /\ NoStart(outbox[p]) => (client[p] = "PERFORMER" <=> p = performer)

OrderInv == GoneInv /\ StartsInv /\ OverInv /\ AskedInv /\ HostInv /\ ToldInv /\ RoleInv

LEMMA OrderStarts == Init => OrderInv
  <1> SUFFICES ASSUME Init PROVE OrderInv
    OBVIOUS
  <1>1. /\ main = "starting" /\ physics = "off"
        /\ \A p \in Players : /\ inbox[p] = << >> /\ outbox[p] = << >>
                              /\ client[p] = "await" /\ ~receiver[p]
    BY Zenon DEF Init
  <1>2. "host" \in Players /\ "guest" \in Players
    BY Zenon DEF Players
  <1>3. \A p \in Players : /\ ~GoesOn(p) /\ StartsKept(outbox[p], receiver[p])
                           /\ NoStart(outbox[p]) /\ ~Ending(outbox[p]) /\ Once(outbox[p])
    BY <1>1, EmptyQueue, Zenon DEF GoesOn
  <1>4. DOMAIN inbox["host"] = {}
    BY <1>1, <1>2
  <1>5. GoneInv /\ StartsInv /\ OverInv
    BY <1>1, <1>3, Zenon DEF GoneInv, StartsInv, OverInv
  <1>6. AskedInv /\ HostInv
    BY <1>1, <1>2, <1>3, <1>4, Zenon DEF AskedInv, HostInv
  <1>7. ToldInv
    <2>1. ~Asked
      BY <1>4, Zenon DEF Asked
    <2>2. ~Through
      BY <1>1, <1>2, Zenon DEF Through, Playing, Roles
    <2> QED
      BY <1>2, <1>3, <2>1, <2>2, Zenon DEF ToldInv
  <1>8. RoleInv
    BY <1>1, Zenon DEF RoleInv
  <1> QED
    BY <1>5, <1>6, <1>7, <1>8, Zenon DEF OrderInv

\* What the types say of one player.
LEMMA PlayerFacts ==
  ASSUME RoomInv, NEW p \in Players
  PROVE  /\ outbox[p] \in Seq(Events) /\ inbox[p] \in Seq(Commands)
         /\ receiver[p] \/ run[p] \/ sender[p] => Playing(p)
         /\ Playing(p) => client[p] \notin {"await", "prompt", "gone"} /\ ~Gone(p)
  <1>1. outbox[p] \in Seq(Events) /\ inbox[p] \in Seq(Commands)
    BY DEF RoomInv, TypeOK
  <1>2. receiver[p] \/ run[p] \/ sender[p] => Playing(p)
    BY Zenon DEF RoomInv, TypeOK, Playing
  <1>3. Playing(p) => client[p] \notin {"await", "prompt", "gone"} /\ ~Gone(p)
    BY Zenon DEF Playing, Roles, Gone
  <1> QED
    BY <1>1, <1>2, <1>3

LEMMA TwoPlayers ==
  /\ "host" \in Players /\ "guest" \in Players
  /\ \A p \in Players : Other(p) \in Players /\ Other(p) # p
  /\ \A p, q \in Players : q # p => q = Other(p)
  BY DEF Players, Other

\* Nobody reads on who is gone.
LEMMA GoneReader ==
  ASSUME RoomInv, GoneInv, NEW p \in Players, Gone(p)
  PROVE  ~GoesOn(p) /\ outbox[p] = << >> /\ ~receiver[p]
  <1>1. ~receiver[p] /\ outbox[p] = << >>
    BY PlayerFacts, Zenon DEF GoneInv
  <1> QED
    BY <1>1, EmptyQueue, Zenon DEF GoesOn

-----------------------------------------------------------------------------
(* The room's threads.                                                       *)

\* A player may get one more event m.
Passed(m) ==
  \A p \in Players :
     /\ outbox'[p] = outbox[p] \/ outbox'[p] = Append(outbox[p], m)
     /\ Gone(p) => outbox'[p] = outbox[p]

LEMMA SendPassed ==
  ASSUME RoomInv, NEW first \in Players, NEW m \in Events, NEW sent,
         Killed(first, sent) \/ Delivered(sent), \A p \in DOMAIN sent : sent[p] = m
  PROVE  Passed(m)
  <1>0. DOMAIN outbox = Players
    BY DEF RoomInv, TypeOK
  <1>1. \A q : Queue(q, m) = q \/ Queue(q, m) = Append(q, m)
    BY Zenon DEF Queue
  <1>2. CASE Killed(first, sent)
    <2>1. CASE first \in DOMAIN sent \ reset /\ ~Gone(first)
      <3>1. outbox' = [outbox EXCEPT ![first] = Queue(@, m)]
        BY <1>2, <2>1, Zenon DEF Killed
      <3>2. \A p \in Players : outbox'[p] = IF p = first THEN Queue(outbox[p], m) ELSE outbox[p]
        BY <1>0, <3>1
      <3> QED
        BY <1>1, <2>1, <3>2, Zenon DEF Passed
    <2>2. CASE ~(first \in DOMAIN sent \ reset /\ ~Gone(first))
      BY <1>2, <2>2, Zenon DEF Killed, Passed
    <2> QED
      BY <2>1, <2>2
  <1>3. CASE Delivered(sent)
    <2>1. \A p \in Players : outbox'[p] = IF p \notin DOMAIN sent \/ Gone(p) THEN outbox[p]
                                          ELSE Queue(outbox[p], sent[p])
      BY <1>3 DEF Delivered
    <2>2. \A p \in Players : outbox'[p] = outbox[p] \/ (outbox'[p] = Queue(outbox[p], m) /\ ~Gone(p))
      BY <2>1, Zenon
    <2> QED
      BY <1>1, <2>2, Zenon DEF Passed
  <1> QED
    BY <1>2, <1>3

\* An end that is delivered to both ends both sessions.
LEMMA BothTold ==
  ASSUME RoomInv, GoneInv, NEW m \in LastEvents, Delivered(ToBoth(m)), UNCHANGED receiver
  PROVE  \A p \in Players : ~GoesOn(p)'
  <1> SUFFICES ASSUME NEW p \in Players PROVE ~ReadsOn(outbox'[p], receiver[p])
    BY Zenon DEF GoesOn
  <1>1. outbox'[p] = IF Gone(p) THEN outbox[p] ELSE Queue(outbox[p], m)
    <2>1. /\ outbox' = [q \in Players |-> IF q \notin DOMAIN ToBoth(m) \/ Gone(q) THEN outbox[q]
                                          ELSE Queue(outbox[q], ToBoth(m)[q])]
          /\ DOMAIN ToBoth(m) = Players /\ ToBoth(m)[p] = m
      BY DEF Delivered, ToBoth
    <2> QED
      BY <2>1
  <1>2. CASE Gone(p)
    BY <1>1, <1>2, GoneReader, Zenon DEF GoesOn
  <1>3. CASE ~Gone(p)
    <2>1. m \notin {"tilt", "update"}
      BY DEF LastEvents
    <2>2. outbox'[p] = Append(outbox[p], m)
      BY <1>1, <1>3, <2>1, Zenon DEF Queue
    <2>3. outbox[p] \in Seq(Events)
      BY PlayerFacts
    <2> QED
      BY <2>2, <2>3, AppendEvent
  <1> QED
    BY <1>2, <1>3

\* What an event of a round leaves as it was.
LEMMA PassedOn ==
  ASSUME RoomInv, GoneInv, StartsInv, HostInv, NEW m \in LastEvents \cup {"update"}, Passed(m),
         UNCHANGED <<client, sessionVars>>
  PROVE  /\ GoneInv' /\ StartsInv' /\ HostInv'
         /\ \A p \in Players :
               /\ GoesOn(p)' => GoesOn(p)
               /\ NoStart(outbox'[p]) <=> NoStart(outbox[p])
               /\ \A i : Newest(outbox'[p], i) =>
                     Newest(outbox[p], i) /\ outbox'[p][i] = outbox[p][i]
               /\ Ending(outbox'[p]) => Ending(outbox[p]) \/ m \in LastEvents
  <1>0. client' = client /\ receiver' = receiver
    BY Zenon DEF sessionVars
  <1>1. \A p \in Players :
          /\ ReadsOn(outbox'[p], receiver[p]) => ReadsOn(outbox[p], receiver[p])
          /\ StartsKept(outbox[p], receiver[p]) => StartsKept(outbox'[p], receiver[p])
          /\ NoStart(outbox'[p]) <=> NoStart(outbox[p])
          /\ \A i : Newest(outbox'[p], i) => Newest(outbox[p], i) /\ outbox'[p][i] = outbox[p][i]
          /\ Ending(outbox'[p]) => Ending(outbox[p]) \/ m \in LastEvents
          /\ Once(outbox[p]) => Once(outbox'[p])
    <2> TAKE p \in Players
    <2>1. outbox[p] \in Seq(Events)
      BY PlayerFacts
    <2>2. CASE outbox'[p] = outbox[p]
      BY <2>2, Zenon
    <2>3. CASE outbox'[p] = Append(outbox[p], m)
      <3> DEFINE q == outbox[p]
                 a == Append(q, m)
                 r == receiver[p]
      <3>1. /\ ReadsOn(a, r) => ReadsOn(q, r)
            /\ StartsKept(q, r) => StartsKept(a, r)
            /\ NoStart(a) <=> NoStart(q)
            /\ \A i : Newest(a, i) => Newest(q, i)
            /\ \A i : Newest(q, i) => a[i] = q[i]
            /\ Ending(a) => Ending(q) \/ m \in LastEvents
            /\ Once(q) => Once(a)
        BY <2>1, AppendEvent, Zenon
      <3> HIDE DEF q, a, r
      <3>2. /\ ReadsOn(a, r) => ReadsOn(q, r)
            /\ StartsKept(q, r) => StartsKept(a, r)
            /\ NoStart(a) <=> NoStart(q)
            /\ \A i : Newest(a, i) => Newest(q, i) /\ a[i] = q[i]
            /\ Ending(a) => Ending(q) \/ m \in LastEvents
            /\ Once(q) => Once(a)
        BY <3>1, Zenon
      <3> QED
        BY <2>3, <3>2, Zenon DEF q, a, r
    <2> QED
      BY <2>2, <2>3, Zenon DEF Passed
  <1>2. GoneInv'
    BY <1>0, Zenon DEF GoneInv, Passed, Gone
  <1>3. StartsInv'
    BY <1>0, <1>1, Zenon DEF StartsInv
  <1>4. HostInv'
    BY <1>0, <1>1, TwoPlayers, Zenon DEF HostInv
  <1>5. \A p \in Players : GoesOn(p)' => GoesOn(p)
    BY <1>0, <1>1, Zenon DEF GoesOn
  <1> QED
    BY <1>1, <1>2, <1>3, <1>4, <1>5, Zenon

\* In a round that goes on the roles stay.
LEMMA RolesKept ==
  ASSUME RoomInv, GoneInv, StartsInv, HostInv, RoleInv, NEW m \in LastEvents \cup {"update"}, Passed(m),
         UNCHANGED <<client, sessionVars>>, UNCHANGED performer,
         main' \in {"starting", "ended"} \/ main \notin {"starting", "ended"}
  PROVE  RoleInv'
  <1> SUFFICES ASSUME main' \notin {"starting", "ended"}, NEW p \in Players
               PROVE  /\ \A i : Newest(outbox'[p], i) => outbox'[p][i] = StartOf(p, performer)
                      /\ Playing(p) /\ NoStart(outbox'[p]) => (client[p] = "PERFORMER" <=> p = performer)
    <2>1. client' = client /\ performer' = performer
      BY Zenon
    <2> QED
      BY <2>1, Zenon DEF RoleInv, Playing
  <1>1. /\ NoStart(outbox'[p]) <=> NoStart(outbox[p])
        /\ \A i : Newest(outbox'[p], i) => Newest(outbox[p], i) /\ outbox'[p][i] = outbox[p][i]
    BY PassedOn, Zenon
  <1>2. /\ \A i : Newest(outbox[p], i) => outbox[p][i] = StartOf(p, performer)
        /\ Playing(p) /\ NoStart(outbox[p]) => (client[p] = "PERFORMER" <=> p = performer)
    BY Zenon DEF RoleInv
  <1> QED
    BY <1>1, <1>2, Zenon

\* However the process ends.
LEMMA EndsOrder == RoomEnds => OverInv' /\ AskedInv' /\ ToldInv' /\ RoleInv'
  <1> SUFFICES ASSUME RoomEnds PROVE OverInv' /\ AskedInv' /\ ToldInv' /\ RoleInv'
    OBVIOUS
  <1>1. main' = "ended" /\ physics' = "off" /\ inbox'["host"] = << >>
    BY TwoPlayers DEF RoomEnds
  <1>2. DOMAIN inbox'["host"] = {}
    BY <1>1
  <1>3. ~Asked'
    BY <1>2, Zenon DEF Asked
  <1>4. OverInv'
    BY <1>1, Zenon DEF OverInv, Over
  <1>5. AskedInv'
    BY <1>1, <1>2, <1>3, Zenon DEF AskedInv
  <1>6. ToldInv' /\ RoleInv'
    BY <1>1, Zenon DEF ToldInv, RoleInv, Ended
  <1> QED
    BY <1>4, <1>5, <1>6

\* A step that leaves the commands and the phase of the room to itself.
LEMMA QuietStep ==
  ASSUME RoomInv, OrderInv, NEW m \in LastEvents \cup {"update"}, Passed(m),
         UNCHANGED <<client, sessionVars>>, UNCHANGED <<performer, inbox>>,
         main' # "starting", main \notin {"starting", "ended", "exiting"} \/ main' = main,
         main' = "ended" => main = "ended",
         Over' => Over,
         m \in LastEvents => \A p \in Players : ~GoesOn(p)'
  PROVE  OrderInv'
  <1>0. GoneInv /\ StartsInv /\ OverInv /\ AskedInv /\ HostInv /\ ToldInv /\ RoleInv
    BY Zenon DEF OrderInv
  <1>1. /\ GoneInv' /\ StartsInv' /\ HostInv'
        /\ \A p \in Players :
              /\ GoesOn(p)' => GoesOn(p)
              /\ NoStart(outbox'[p]) <=> NoStart(outbox[p])
              /\ Ending(outbox'[p]) => Ending(outbox[p]) \/ m \in LastEvents
    BY <1>0, PassedOn, Zenon
  <1>2. client' = client /\ inbox' = inbox /\ run' = run /\ performer' = performer
    BY Zenon DEF sessionVars
  <1>3. OverInv'
    BY <1>0, <1>1, <1>2, Zenon DEF OverInv, Gone
  <1>4. AskedInv'
    BY <1>0, <1>1, <1>2, TwoPlayers, Zenon DEF AskedInv, Asked
  <1>5. ToldInv'
    <2>1. (Asked' <=> Asked) /\ (Through' <=> Through) /\ (ExitSent("host")' <=> ExitSent("host"))
      BY <1>2, Zenon DEF Asked, Through, Playing, ExitSent
    <2>2. Ending(outbox'["host"]) => Ending(outbox["host"]) \/ ~GoesOn("guest")'
      BY <1>1, TwoPlayers, Zenon
    <2>3. GoesOn("guest")' => GoesOn("guest")
      BY <1>1, TwoPlayers, Zenon
    <2>4. ~Ended' => ~Ended
      BY <1>0, Zenon DEF Ended
    <2>5. main = "exiting" => main' = "exiting"
      BY Zenon
    <2> QED
      BY <1>0, <2>1, <2>2, <2>3, <2>4, <2>5, Zenon DEF ToldInv
  <1>6. RoleInv'
    <2>1. main' \in {"starting", "ended"} \/ main \notin {"starting", "ended"}
      BY Zenon
    <2> QED
      BY <1>0, <1>2, <2>1, RolesKept, Zenon
  <1> QED
    BY <1>1, <1>3, <1>4, <1>5, <1>6, Zenon DEF OrderInv

\* The process ends, at a write or because nothing is left to do.
LEMMA LastStep ==
  ASSUME RoomInv, OrderInv, NEW m \in LastEvents \cup {"update"}, Passed(m),
         UNCHANGED <<client, sessionVars>>, RoomEnds
  PROVE  OrderInv'
  BY PassedOn, EndsOrder, Zenon DEF OrderInv

\* game_start goes to both, when neither is in a session that goes on.
LEMMA StartRoundOrder == RoomInv /\ OrderInv /\ StartRound => OrderInv'
  <1> SUFFICES ASSUME RoomInv, OrderInv, StartRound PROVE OrderInv'
    OBVIOUS
  <1>0. GoneInv /\ StartsInv /\ OverInv /\ AskedInv /\ HostInv /\ ToldInv /\ RoleInv
    BY Zenon DEF OrderInv
  <1>1. PICK q \in Players :
          Send("host", [p \in Players |-> StartOf(p, q)],
               performer' = q /\ main' = "course" /\ UNCHANGED <<physics, running, inbox>>,
               RoomEnds)
    BY Zenon DEF StartRound
  <1> DEFINE sent == [p \in Players |-> StartOf(p, q)]
  <1>2. main = "starting" /\ client' = client /\ receiver' = receiver /\ run' = run
    BY Zenon DEF StartRound, sessionVars
  <1>3. client["host"] \in {"await", "gone"} /\ NoStart(outbox["host"]) /\ inbox["host"] = << >>
    BY <1>0, <1>2, Zenon DEF AskedInv
  <1>4. \A p \in Players : ~GoesOn(p)
    <2>1. ~GoesOn("guest")
      BY <1>0, <1>2, Zenon DEF ToldInv
    <2>2. ~receiver["host"]
      BY <1>3, PlayerFacts, TwoPlayers, Zenon
    <2>3. ~GoesOn("host")
      BY <1>3, <2>2, NoReader, PlayerFacts, TwoPlayers, Zenon DEF GoesOn
    <2> QED
      BY <2>1, <2>3 DEF Players
  <1>5. \A p \in Players : StartOf(p, q) \in Starts
    BY DEF StartOf, Starts, Roles
  <1>6. \A p \in Players : Queue(outbox[p], StartOf(p, q)) = Append(outbox[p], StartOf(p, q))
    <2>1. \A m \in Starts : m \notin {"tilt", "update"}
      BY DEF Starts, Start, Roles
    <2> QED
      BY <1>5, <2>1, Zenon DEF Queue
  <1>7. /\ DOMAIN sent = Players /\ \A p \in Players : sent[p] = StartOf(p, q)
        /\ DOMAIN outbox = Players
    BY DEF RoomInv, TypeOK
  <1>8. \/ Killed("host", sent) /\ RoomEnds
        \/ /\ Delivered(sent)
           /\ performer' = q /\ main' = "course" /\ physics' = physics /\ inbox' = inbox
    BY <1>1, Zenon DEF Send
  <1> HIDE DEF sent
  <1>9. \A p \in Players :
          \/ outbox'[p] = outbox[p] /\ (Gone(p) \/ RoomEnds)
          \/ outbox'[p] = Append(outbox[p], StartOf(p, q)) /\ ~Gone(p)
    <2>1. CASE Killed("host", sent) /\ RoomEnds
      <3>1. CASE "host" \in DOMAIN sent \ reset /\ ~Gone("host")
        <4>1. outbox' = [outbox EXCEPT !["host"] = Queue(@, sent["host"])]
          BY <2>1, <3>1, Zenon DEF Killed
        <4>2. \A p \in Players : outbox'[p] = IF p = "host" THEN Queue(outbox[p], sent[p]) ELSE outbox[p]
          BY <1>7, <4>1
        <4> QED
          BY <1>6, <1>7, <2>1, <3>1, <4>2, Zenon
      <3>2. CASE ~("host" \in DOMAIN sent \ reset /\ ~Gone("host"))
        BY <2>1, <3>2, Zenon DEF Killed
      <3> QED
        BY <3>1, <3>2
    <2>2. CASE Delivered(sent)
      <3>1. \A p \in Players : outbox'[p] = IF p \notin DOMAIN sent \/ Gone(p) THEN outbox[p]
                                            ELSE Queue(outbox[p], sent[p])
        BY <2>2 DEF Delivered
      <3> QED
        BY <1>6, <1>7, <3>1, Zenon
    <2> QED
      BY <1>8, <2>1, <2>2, Zenon
  <1>10. \A p \in Players :
           outbox'[p] = Append(outbox[p], StartOf(p, q)) =>
              /\ StartsKept(outbox'[p], receiver[p])
              /\ ~Ending(outbox'[p]) /\ ~NoStart(outbox'[p])
              /\ \A i : Newest(outbox'[p], i) => outbox'[p][i] = StartOf(p, q)
              /\ NoStart(outbox[p]) => Once(outbox'[p])
    <2> TAKE p \in Players
    <2> HAVE outbox'[p] = Append(outbox[p], StartOf(p, q))
    <2> DEFINE a == Append(outbox[p], StartOf(p, q))
    <2>1. /\ outbox[p] \in Seq(Events) /\ ~ReadsOn(outbox[p], receiver[p])
          /\ StartsKept(outbox[p], receiver[p])
      BY <1>0, <1>4, PlayerFacts, Zenon DEF GoesOn, StartsInv
    <2>2. /\ StartsKept(a, receiver[p])
          /\ ~Ending(a) /\ ~NoStart(a)
          /\ \A i : Newest(a, i) => a[i] = StartOf(p, q)
          /\ NoStart(outbox[p]) => Once(a)
      BY <1>5, <2>1, AppendStart, Zenon
    <2>3. outbox'[p] = a
      BY Zenon
    <2> HIDE DEF a
    <2> QED
      BY <2>2, <2>3, Zenon
  <1>11. StartsInv'
    BY <1>0, <1>2, <1>9, <1>10, Zenon DEF StartsInv
  <1>12. GoneInv'
    BY <1>0, <1>2, <1>9, Zenon DEF GoneInv, Gone
  <1>13. HostInv'
    <2>1. CASE outbox'["host"] = outbox["host"]
      BY <1>0, <1>2, <2>1, Zenon DEF HostInv
    <2>2. CASE outbox'["host"] = Append(outbox["host"], StartOf("host", q)) /\ ~Gone("host")
      BY <1>2, <1>3, <1>10, <2>2, TwoPlayers, Zenon DEF HostInv, Gone
    <2> QED
      BY <1>9, <2>1, <2>2, TwoPlayers, Zenon
  <1>14. CASE RoomEnds
    BY <1>11, <1>12, <1>13, <1>14, EndsOrder, Zenon DEF OrderInv
  <1>15. CASE ~RoomEnds
    <2>1. performer' = q /\ main' = "course" /\ physics' = physics /\ inbox' = inbox
      BY <1>8, <1>15, Zenon
    <2>2. physics = "off"
      BY <1>2, Zenon DEF RoomInv, NoTickBetweenRounds
    <2>3. OverInv'
      BY <2>1, <2>2, Zenon DEF OverInv, Over
    <2>4. ~Asked'
      <3>1. DOMAIN inbox["host"] = {}
        BY <1>3
      <3> QED
        BY <2>1, <3>1, Zenon DEF Asked
    <2>5. AskedInv'
      BY <1>0, <2>1, <2>4, Zenon DEF AskedInv
    <2>6. ~Through'
      BY <1>2, <1>3, Zenon DEF Through, Playing, Roles
    <2>7. ~Ending(outbox'["host"])
      <3>1. CASE Gone("host")
        BY <1>0, <1>9, <3>1, EmptyQueue, TwoPlayers, Zenon DEF GoneInv
      <3>2. CASE ~Gone("host")
        BY <1>9, <1>10, <1>15, <3>2, TwoPlayers, Zenon
      <3> QED
        BY <3>1, <3>2
    <2>8. ToldInv'
      BY <2>1, <2>4, <2>6, <2>7, Zenon DEF ToldInv
    <2>9. RoleInv'
      <3> SUFFICES ASSUME NEW p \in Players
                   PROVE  /\ \A i : Newest(outbox'[p], i) => outbox'[p][i] = StartOf(p, q)
                          /\ ~(Playing(p) /\ NoStart(outbox'[p]))
        BY <1>2, <2>1, Zenon DEF RoleInv, Playing
      <3>1. CASE Gone(p)
        <4>1. outbox'[p] = << >> /\ ~Playing(p)
          BY <1>0, <1>9, <3>1, PlayerFacts, Zenon DEF GoneInv
        <4> QED
          BY <4>1, EmptyQueue, Zenon
      <3>2. CASE ~Gone(p)
        BY <1>9, <1>10, <1>15, <3>2, Zenon
      <3> QED
        BY <3>1, <3>2
    <2> QED
      BY <1>11, <1>12, <1>13, <2>3, <2>5, <2>8, <2>9, Zenon DEF OrderInv
  <1> QED
    BY <1>14, <1>15

\* Nothing is sent.
LEMMA NothingSent == RoomInv /\ UNCHANGED outbox => Passed("update")
  BY Zenon DEF Passed

\* The next command of p is read, or what is left to read stays.
LEMMA CommandRead ==
  ASSUME RoomInv, NEW p \in Players, inbox[p] # << >>,
         inbox' = [inbox EXCEPT ![p] = Tail(@)], AskedInv, client' = client, outbox' = outbox
  PROVE  /\ Asked' => Asked
         /\ Asked' => p = "guest" \/ Head(inbox[p]) # "start_game"
         /\ ExitSent("host") => ExitSent("host")' \/ (p = "host" /\ Head(inbox[p]) = "exit_game")
         /\ main' # "starting" => AskedInv'
         /\ p = "host" /\ Head(inbox[p]) = "start_game" =>
               inbox'["host"] = << >> /\ ~ExitSent("host")
  <1>1. CASE p = "guest"
    <2>1. inbox'["host"] = inbox["host"]
      BY <1>1, TwoPlayers DEF RoomInv, TypeOK
    <2> QED
      BY <1>1, <2>1, Zenon DEF Asked, ExitSent, AskedInv
  <1>2. CASE p = "host"
    <2> DEFINE c == inbox["host"]
               d == Tail(c)
    <2>1. /\ inbox'["host"] = d /\ Len(c) \in Nat \ {0} /\ DOMAIN c = 1..Len(c)
          /\ Len(d) = Len(c) - 1 /\ DOMAIN d = 1..(Len(c) - 1)
          /\ \A i \in DOMAIN d : d[i] = c[i + 1]
          /\ c[1] = Head(c)
          /\ Len(c) = 1 => d = << >>
      BY <1>2, PlayerFacts DEF RoomInv, TypeOK
    <2>2. \A i \in DOMAIN c : c[i] = "start_game" => i = Len(c)
      BY Zenon DEF AskedInv
    <2> HIDE DEF c, d
    <2>3. \A i \in DOMAIN d : i + 1 \in DOMAIN c /\ i + 1 # 1
      BY <2>1
    <2>4. Asked' <=> \E i \in DOMAIN d : d[i] = "start_game"
      BY <2>1, Zenon DEF Asked
    <2>5. Asked' => Asked
      BY <2>1, <2>3, <2>4 DEF Asked, c
    <2>6. Head(c) = "start_game" => d = << >> /\ DOMAIN d = {} /\ DOMAIN c = {1}
      <3> SUFFICES ASSUME Head(c) = "start_game" PROVE d = << >> /\ DOMAIN d = {} /\ DOMAIN c = {1}
        OBVIOUS
      <3>1. 1 \in DOMAIN c
        BY <2>1
      <3>2. Len(c) = 1
        BY <2>1, <2>2, <3>1
      <3> QED
        BY <2>1, <3>2
    <2>7. Asked' => Head(c) # "start_game"
      BY <2>4, <2>6, Zenon
    <2>8. ExitSent("host") => ExitSent("host")' \/ Head(c) = "exit_game"
      <3> SUFFICES ASSUME ExitSent("host"), Head(c) # "exit_game" PROVE ExitSent("host")'
        OBVIOUS
      <3>1. PICK i \in DOMAIN c : c[i] = "exit_game"
        BY Zenon DEF ExitSent, c
      <3>2. i - 1 \in DOMAIN d /\ d[i - 1] = "exit_game"
        BY <2>1, <3>1
      <3> QED
        BY <2>1, <3>2, Zenon DEF ExitSent
    <2>9. ASSUME main' # "starting" PROVE AskedInv'
      <3>1. \A i \in DOMAIN d : d[i] = "start_game" => i = Len(d)
        <4> TAKE i \in DOMAIN d
        <4> HAVE d[i] = "start_game"
        <4>1. i + 1 = Len(c)
          BY <2>1, <2>2, <2>3
        <4> QED
          BY <2>1, <4>1
      <3>2. Asked' => client'["host"] \in {"await", "gone"} /\ NoStart(outbox'["host"])
        BY <2>5, Zenon DEF AskedInv
      <3> QED
        BY <2>1, <2>9, <3>1, <3>2, Zenon DEF AskedInv
    <2>10. Head(c) = "start_game" => ~ExitSent("host")
      <3> SUFFICES ASSUME Head(c) = "start_game", ExitSent("host") PROVE FALSE
        OBVIOUS
      <3>1. PICK i \in DOMAIN c : c[i] = "exit_game"
        BY Zenon DEF ExitSent, c
      <3>2. i = 1
        BY <2>6, <3>1, Zenon
      <3> QED
        BY <2>1, <3>1, <3>2
    <2> QED
      BY <1>2, <2>1, <2>5, <2>6, <2>7, <2>8, <2>9, <2>10, Zenon DEF c
  <1> QED
    BY <1>1, <1>2 DEF Players

\* A command is read and the round goes on, or ends.
LEMMA ServeOrder ==
  ASSUME RoomInv, OrderInv, NEW p \in Players, ServeCommand(p) \/ ServeExit(p)
  PROVE  OrderInv'
  <1>0. GoneInv /\ StartsInv /\ OverInv /\ AskedInv /\ HostInv /\ ToldInv /\ RoleInv
    BY Zenon DEF OrderInv
  <1>1. /\ main \in {"select", "second"} /\ inbox[p] # << >>
        /\ inbox' = [inbox EXCEPT ![p] = Tail(@)]
        /\ performer' = performer /\ physics' = physics /\ outbox' = outbox
        /\ client' = client /\ UNCHANGED sessionVars
    BY Zenon DEF ServeCommand, ServeExit, Turn
  <1>2. /\ main' \in {"second", "select", "join", "exiting"} /\ main' # "starting"
        /\ main' # "ended" /\ main # "ended" /\ main # "exiting"
        /\ main' # "exiting" => Head(inbox[p]) # "exit_game"
        /\ Over' => Over
    <2>1. CASE ServeCommand(p)
      <3>1. /\ Head(inbox[p]) # "exit_game" /\ running' = running
            /\ main' = "second" \/ main' = "select" \/ (main' = "join" /\ ~running)
        BY <2>1, Zenon DEF ServeCommand, AfterTurn
      <3> QED
        BY <1>1, <3>1, Zenon DEF Over
    <2>2. CASE ServeExit(p)
      BY <1>1, <2>2, Zenon DEF ServeExit, Over
    <2> QED
      BY <2>1, <2>2
  <1>3. Passed("update")
    BY <1>1, NothingSent
  <1>4. /\ GoneInv' /\ StartsInv' /\ HostInv'
        /\ \A q \in Players : GoesOn(q)' => GoesOn(q)
    BY <1>0, <1>1, <1>3, PassedOn, Zenon
  <1>5. OverInv'
    BY <1>0, <1>1, <1>2, <1>4, Zenon DEF OverInv, Gone
  <1>6. /\ AskedInv' /\ Asked' => Asked
        /\ ExitSent("host") => ExitSent("host")' \/ Head(inbox[p]) = "exit_game"
    BY <1>0, <1>1, <1>2, CommandRead, Zenon
  <1>7. AskedInv'
    BY <1>0, <1>1, <1>2, CommandRead, Zenon
  <1>8. Asked' => Asked
    BY <1>0, <1>1, CommandRead, Zenon
  <1>9. ToldInv'
    <2>1. Through' => Through
      BY <1>1, Zenon DEF Through, Playing, sessionVars
    <2>2. GoesOn("guest")' => GoesOn("guest")
      BY <1>4, TwoPlayers
    <2>3. main' # "exiting" /\ ExitSent("host") => ExitSent("host")'
      BY <1>2, <1>6, Zenon
    <2> QED
      BY <1>0, <1>1, <1>2, <1>8, <2>1, <2>2, <2>3, Zenon DEF ToldInv, Ended
  <1>10. RoleInv'
    <2>1. main \notin {"starting", "ended"}
      BY <1>1, Zenon
    <2> QED
      BY <1>0, <1>1, <1>3, <2>1, RolesKept, Zenon
  <1> QED
    BY <1>4, <1>5, <1>7, <1>9, <1>10, Zenon DEF OrderInv

\* The host's next start_game begins a round.
LEMMA NextRoundOrder == RoomInv /\ OrderInv /\ NextRound => OrderInv'
  <1> SUFFICES ASSUME RoomInv, OrderInv, NextRound PROVE OrderInv'
    OBVIOUS
  <1>0. GoneInv /\ StartsInv /\ OverInv /\ AskedInv /\ HostInv /\ ToldInv /\ RoleInv
    BY Zenon DEF OrderInv
  <1>1. /\ main = "next" /\ main' = "starting" /\ inbox["host"] # << >>
        /\ Head(inbox["host"]) = "start_game"
        /\ inbox' = [inbox EXCEPT !["host"] = Tail(@)]
        /\ performer' = performer /\ physics' = physics /\ outbox' = outbox
        /\ client' = client /\ UNCHANGED sessionVars
    BY Zenon DEF NextRound, RoundAskedFor
  <1>2. Passed("update")
    BY <1>1, NothingSent
  <1>3. /\ GoneInv' /\ StartsInv' /\ HostInv'
        /\ \A q \in Players : GoesOn(q)' => GoesOn(q)
    BY <1>0, <1>1, <1>2, PassedOn, Zenon
  <1>4. inbox'["host"] = << >> /\ ~ExitSent("host")
    BY <1>0, <1>1, CommandRead, TwoPlayers, Zenon
  <1>5. Asked
    <2>1. 1 \in DOMAIN inbox["host"] /\ inbox["host"][1] = Head(inbox["host"])
      BY <1>1, PlayerFacts, TwoPlayers
    <2> QED
      BY <1>1, <2>1, Zenon DEF Asked
  <1>6. DOMAIN inbox'["host"] = {}
    BY <1>4
  <1>7. AskedInv'
    BY <1>0, <1>1, <1>4, <1>5, <1>6, Zenon DEF AskedInv
  <1>8. OverInv'
    <2>1. Over
      BY <1>1, Zenon DEF Over
    <2> QED
      BY <1>0, <1>1, <1>3, <2>1, Zenon DEF OverInv, Gone
  <1>9. ToldInv'
    <2>1. ~GoesOn("guest")
      BY <1>0, <1>1, <1>4, <1>5, Zenon DEF ToldInv, Ended
    <2>2. ~GoesOn("guest")'
      BY <1>3, <2>1, TwoPlayers
    <2> QED
      BY <2>2, Zenon DEF ToldInv
  <1>10. RoleInv'
    BY <1>1, Zenon DEF RoleInv
  <1> QED
    BY <1>3, <1>7, <1>8, <1>9, <1>10, Zenon DEF OrderInv

LEMMA RoomOrder == RoomInv /\ OrderInv /\ (MainStep \/ PhysicsStep) => OrderInv'
  <1> SUFFICES ASSUME RoomInv, OrderInv, MainStep \/ PhysicsStep PROVE OrderInv'
    OBVIOUS
  <1>e. "update" \in Events /\ "game_over" \in LastEvents /\ "game_exit" \in LastEvents
        /\ "game_over" \in Events /\ "game_exit" \in Events
    BY SentEvents DEF LastEvents
  <1>m. \A m : m \in LastEvents \/ m = "update" => m \in LastEvents \cup {"update"}
    OBVIOUS
  <1>u. "update" \notin LastEvents
    BY DEF LastEvents
  <1>b. \A m : \A p \in DOMAIN ToBoth(m) : ToBoth(m)[p] = m
    BY DEF ToBoth
  <1>1. CASE StartPhysics
    <2>1. /\ main = "course" /\ performer \in Players /\ UNCHANGED <<client, sessionVars>>
          /\ Send(Other(performer), [p \in Players \ {performer} |-> "update"],
                  /\ main' = "select" /\ physics' = "on" /\ running' = TRUE
                  /\ UNCHANGED <<performer, inbox>>,
                  RoomEnds)
      BY <1>1, Zenon DEF StartPhysics, RoomInv, TypeOK
    <2> DEFINE sent == [p \in Players \ {performer} |-> "update"]
    <2>2. \A p \in DOMAIN sent : sent[p] = "update"
      OBVIOUS
    <2>3. /\ Killed(Other(performer), sent) \/ Delivered(sent)
          /\ \/ RoomEnds
             \/ /\ main' = "select" /\ physics' = "on" /\ running' = TRUE
                /\ UNCHANGED <<performer, inbox>>
      BY <2>1, Zenon DEF Send
    <2> HIDE DEF sent
    <2>4. Passed("update")
      BY <1>e, <2>1, <2>2, <2>3, SendPassed, TwoPlayers, Zenon
    <2>5. CASE RoomEnds
      BY <1>m, <2>1, <2>4, <2>5, LastStep, Zenon
    <2>6. CASE main' = "select" /\ physics' = "on" /\ running' = TRUE /\ UNCHANGED <<performer, inbox>>
      <3>1. ~Over'
        BY <2>6, Zenon DEF Over
      <3>2. /\ main' # "starting" /\ main' # "ended" /\ UNCHANGED <<performer, inbox>>
            /\ main \notin {"starting", "ended", "exiting"}
        BY <2>1, <2>6, Zenon
      <3> QED
        BY <1>m, <1>u, <2>1, <2>4, <3>1, <3>2, QuietStep, Zenon
    <2> QED
      BY <2>3, <2>5, <2>6
  <1>2. CASE SendExit
    <2>1. /\ main = "exiting" /\ performer \in Players /\ UNCHANGED <<client, sessionVars>>
          /\ Killed(performer, ToBoth("game_exit")) \/ Delivered(ToBoth("game_exit"))
          /\ \/ RoomEnds
             \/ /\ Delivered(ToBoth("game_exit"))
                /\ main' = "join" /\ UNCHANGED <<performer, physics, running, inbox>>
      BY <1>2, Zenon DEF SendExit, Send, RoomInv, TypeOK
    <2>2. Passed("game_exit")
      BY <1>e, <1>b, <2>1, SendPassed, Zenon
    <2>3. CASE RoomEnds
      BY <1>e, <1>m, <2>1, <2>2, <2>3, LastStep, Zenon
    <2>4. CASE /\ Delivered(ToBoth("game_exit"))
               /\ main' = "join" /\ UNCHANGED <<performer, physics, running, inbox>>
      <3>0. GoneInv /\ StartsInv /\ OverInv /\ AskedInv /\ HostInv /\ ToldInv /\ RoleInv
        BY Zenon DEF OrderInv
      <3>1. receiver' = receiver /\ client' = client /\ inbox' = inbox /\ performer' = performer
        BY <2>1, <2>4, Zenon DEF sessionVars
      <3>2. \A p \in Players : ~GoesOn(p)'
        BY <1>e, <2>4, <3>0, <3>1, BothTold, Zenon
      <3>3. /\ GoneInv' /\ StartsInv' /\ HostInv'
            /\ \A p \in Players : NoStart(outbox'[p]) <=> NoStart(outbox[p])
        BY <1>e, <1>m, <2>1, <2>2, <3>0, PassedOn, Zenon
      <3>4. OverInv'
        BY <3>2, Zenon DEF OverInv
      <3>5. ToldInv'
        BY <3>2, TwoPlayers, Zenon DEF ToldInv
      <3>6. AskedInv'
        BY <2>1, <2>4, <3>0, <3>1, <3>3, TwoPlayers, Zenon DEF AskedInv, Asked
      <3>7. RoleInv'
        <4>1. main \notin {"starting", "ended"}
          BY <2>1, Zenon
        <4> QED
          BY <1>e, <1>m, <2>1, <2>2, <3>0, <3>1, <4>1, RolesKept, Zenon
      <3> QED
        BY <3>3, <3>4, <3>5, <3>6, <3>7, Zenon DEF OrderInv
    <2> QED
      BY <2>1, <2>3, <2>4
  <1>3. CASE SelectTimeout
    <2>1. /\ main = "select" /\ main' = "join" /\ UNCHANGED <<performer, inbox>>
          /\ UNCHANGED <<client, sessionVars>> /\ UNCHANGED outbox /\ Over
      BY <1>3, Zenon DEF SelectTimeout, Over
    <2>2. Passed("update")
      BY <2>1, NothingSent
    <2>3. main' # "starting" /\ main' # "ended" /\ main \notin {"starting", "ended", "exiting"}
      BY <2>1, Zenon
    <2> QED
      BY <1>m, <1>u, <2>1, <2>2, <2>3, QuietStep, Zenon
  <1>4. CASE Join
    <2>1. /\ main = "join" /\ main' = "next" /\ UNCHANGED <<performer, inbox>>
          /\ UNCHANGED <<client, sessionVars>> /\ UNCHANGED outbox /\ Over
      BY <1>4, Zenon DEF Join, Over
    <2>2. Passed("update")
      BY <2>1, NothingSent
    <2>3. main' # "starting" /\ main' # "ended" /\ main \notin {"starting", "ended", "exiting"}
      BY <2>1, Zenon
    <2> QED
      BY <1>m, <1>u, <2>1, <2>2, <2>3, QuietStep, Zenon
  <1>5. CASE NoNextRound
    <2>1. RoomEnds /\ UNCHANGED <<client, sessionVars>> /\ UNCHANGED outbox
      BY <1>5, Zenon DEF NoNextRound
    <2>2. Passed("update")
      BY <2>1, NothingSent
    <2> QED
      BY <1>m, <2>1, <2>2, LastStep, Zenon
  <1>6. ASSUME NEW p \in Players, ServeEnd(p) PROVE OrderInv'
    <2>1. /\ main \in {"select", "second"} /\ main' = "join" /\ Gone(p)
          /\ UNCHANGED <<performer, inbox>> /\ UNCHANGED <<client, sessionVars>> /\ UNCHANGED outbox
      BY <1>6, Zenon DEF ServeEnd, Turn, Readable
    <2>2. Passed("update")
      BY <2>1, NothingSent
    <2>0. GoneInv /\ StartsInv /\ OverInv /\ AskedInv /\ HostInv /\ ToldInv /\ RoleInv
      BY Zenon DEF OrderInv
    <2>3. client' = client /\ inbox' = inbox /\ run' = run /\ outbox' = outbox /\ performer' = performer
      BY <2>1, Zenon DEF sessionVars
    <2>4. /\ GoneInv' /\ StartsInv' /\ HostInv'
          /\ \A q \in Players : GoesOn(q)' => GoesOn(q)
      BY <1>m, <2>0, <2>1, <2>2, PassedOn, Zenon
    <2>5. OverInv'
      <3>1. ~GoesOn(p)'
        BY <2>0, <2>1, <2>4, GoneReader, Zenon
      <3>2. \A q \in Players : q # p => Other(q) = p
        BY TwoPlayers, Zenon
      <3> QED
        BY <2>1, <2>3, <3>1, <3>2, Zenon DEF OverInv, Gone
    <2>6. AskedInv'
      BY <2>0, <2>1, <2>3, Zenon DEF AskedInv, Asked
    <2>7. ToldInv'
      <3>1. GoesOn("guest")' => GoesOn("guest")
        BY <2>4, TwoPlayers
      <3>2. main # "ended" /\ main # "exiting" /\ main' # "starting"
        BY <2>1, Zenon
      <3> QED
        BY <2>0, <2>3, <3>1, <3>2, Zenon DEF ToldInv, Ended, Asked, Through, Playing, ExitSent
    <2>8. RoleInv'
      <3>1. main \notin {"starting", "ended"}
        BY <2>1, Zenon
      <3> QED
        BY <1>m, <2>0, <2>1, <2>2, <2>3, <3>1, RolesKept, Zenon
    <2> QED
      BY <2>4, <2>5, <2>6, <2>7, <2>8, Zenon DEF OrderInv
  <1>7. CASE Tick
    <2>1. PICK first \in Players :
             Send(first, ToBoth("update"),
                  /\ physics' = IF running THEN "on" ELSE "off"
                  /\ UNCHANGED <<performer, main, running, inbox>>,
                  RoomEnds)
      BY <1>7, Zenon DEF Tick
    <2>2. /\ physics = "on" /\ UNCHANGED <<client, sessionVars>>
          /\ Killed(first, ToBoth("update")) \/ Delivered(ToBoth("update"))
          /\ \/ RoomEnds
             \/ /\ physics' = IF running THEN "on" ELSE "off"
                /\ UNCHANGED <<performer, main, running, inbox>>
      BY <1>7, <2>1, Zenon DEF Tick, Send
    <2>3. Passed("update")
      BY <1>e, <1>b, <2>2, SendPassed, Zenon
    <2>4. CASE RoomEnds
      BY <1>m, <2>2, <2>3, <2>4, LastStep, Zenon
    <2>5. CASE /\ physics' = IF running THEN "on" ELSE "off"
               /\ UNCHANGED <<performer, main, running, inbox>>
      <3>1. main # "starting"
        BY <2>2, Zenon DEF RoomInv, NoTickBetweenRounds
      <3>2. Over' => Over
        BY <2>5, Zenon DEF Over
      <3>3. main' = main /\ UNCHANGED <<performer, inbox>>
        BY <2>5, Zenon
      <3> QED
        BY <1>m, <1>u, <2>2, <2>3, <3>1, <3>2, <3>3, QuietStep, Zenon
    <2> QED
      BY <2>2, <2>4, <2>5
  <1>8. CASE LastTickDone
    <2>1. /\ physics = "on" /\ physics' = "off" /\ main' = main /\ running' = running
          /\ UNCHANGED <<performer, inbox>>
          /\ UNCHANGED <<client, sessionVars>> /\ UNCHANGED outbox
      BY <1>8, Zenon DEF LastTickDone
    <2>2. Passed("update") /\ (Over' => Over)
      BY <2>1, NothingSent, Zenon DEF Over
    <2>3. main' # "starting"
      BY <2>1, Zenon DEF RoomInv, NoTickBetweenRounds
    <2> QED
      BY <1>m, <1>u, <2>1, <2>2, <2>3, QuietStep, Zenon
  <1>9. CASE Goal
    <2>1. /\ physics = "on" /\ performer \in Players /\ UNCHANGED <<client, sessionVars>>
          /\ Killed(performer, ToBoth("game_over")) \/ Delivered(ToBoth("game_over"))
          /\ \/ RoomEnds
             \/ /\ Delivered(ToBoth("game_over"))
                /\ physics' = "goal" /\ UNCHANGED <<performer, main, running, inbox>>
      BY <1>9, Zenon DEF Goal, Send, RoomInv, TypeOK
    <2>2. Passed("game_over")
      BY <1>e, <1>b, <2>1, SendPassed, Zenon
    <2>3. CASE RoomEnds
      BY <1>e, <1>m, <2>1, <2>2, <2>3, LastStep, Zenon
    <2>4. CASE /\ Delivered(ToBoth("game_over"))
               /\ physics' = "goal" /\ UNCHANGED <<performer, main, running, inbox>>
      <3>0. GoneInv /\ StartsInv /\ OverInv /\ AskedInv /\ HostInv /\ ToldInv /\ RoleInv
        BY Zenon DEF OrderInv
      <3>1. /\ receiver' = receiver /\ client' = client /\ inbox' = inbox /\ main' = main
            /\ performer' = performer
        BY <2>1, <2>4, Zenon DEF sessionVars
      <3>2. \A p \in Players : ~GoesOn(p)'
        BY <1>e, <2>4, <3>0, <3>1, BothTold, Zenon
      <3>3. /\ GoneInv' /\ StartsInv' /\ HostInv'
            /\ \A p \in Players : NoStart(outbox'[p]) <=> NoStart(outbox[p])
        BY <1>e, <1>m, <2>1, <2>2, <3>0, PassedOn, Zenon
      <3>4. OverInv'
        BY <3>2, Zenon DEF OverInv
      <3>5. ToldInv'
        BY <3>2, TwoPlayers, Zenon DEF ToldInv
      <3>6. AskedInv'
        BY <3>0, <3>1, <3>3, TwoPlayers, Zenon DEF AskedInv, Asked
      <3>7. RoleInv'
        BY <1>e, <1>m, <2>1, <2>2, <3>0, <3>1, RolesKept, Zenon
      <3> QED
        BY <3>3, <3>4, <3>5, <3>6, <3>7, Zenon DEF OrderInv
    <2> QED
      BY <2>1, <2>3, <2>4
  <1>10. CASE GoalDone
    <2>1. /\ physics = "goal" /\ main' = main /\ UNCHANGED <<performer, inbox>>
          /\ UNCHANGED <<client, sessionVars>> /\ UNCHANGED outbox /\ Over
      BY <1>10, Zenon DEF GoalDone, Over
    <2>2. Passed("update")
      BY <2>1, NothingSent
    <2>3. main' # "starting"
      BY <2>1, Zenon DEF RoomInv, NoTickBetweenRounds
    <2> QED
      BY <1>m, <1>u, <2>1, <2>2, <2>3, QuietStep, Zenon
  <1> QED
    BY <1>1, <1>2, <1>3, <1>4, <1>5, <1>6, <1>7, <1>8, <1>9, <1>10, StartRoundOrder, NextRoundOrder,
       ServeOrder, Zenon DEF MainStep, PhysicsStep

-----------------------------------------------------------------------------
(* The client programs and their users.                                      *)

\* What the step of p leaves alone.
Alone(p) ==
  /\ UNCHANGED roomVars
  /\ \A q \in Players : q # p =>
        /\ outbox'[q] = outbox[q] /\ inbox'[q] = inbox[q]
        /\ client'[q] = client[q] /\ receiver'[q] = receiver[q] /\ run'[q] = run[q]

\* The events for p stay, or one is read, or p closes its socket.
Waits(p) ==
  /\ outbox'[p] = outbox[p] /\ (receiver'[p] => receiver[p])
  /\ Gone(p)' <=> Gone(p)

ReadsOne(p) ==
  /\ ~Gone(p) /\ ~Gone(p)'
  /\ outbox[p] # << >> /\ outbox'[p] = Tail(outbox[p])
  /\ receiver'[p] => /\ receiver[p] \/ Head(outbox[p]) \in Starts
                     /\ Head(outbox[p]) \notin LastEvents

Closes(p) == Gone(p)' /\ outbox'[p] = << >> /\ ~receiver'[p]

LEMMA PlayerOrder ==
  ASSUME RoomInv, OrderInv, NEW p \in Players, Alone(p), Waits(p) \/ ReadsOne(p) \/ Closes(p)
  PROVE  /\ GoneInv' /\ StartsInv' /\ OverInv'
         /\ \A q \in Players :
               /\ GoesOn(q)' => GoesOn(q)
               /\ NoStart(outbox[q]) => NoStart(outbox'[q])
               /\ Ending(outbox'[q]) => Ending(outbox[q])
               /\ Once(outbox[q]) => Once(outbox'[q])
               /\ \A i : Newest(outbox'[q], i) =>
                     \E j : Newest(outbox[q], j) /\ outbox'[q][i] = outbox[q][j]
  <1>0. GoneInv /\ StartsInv /\ OverInv
    BY Zenon DEF OrderInv
  <1>1. \A q \in Players : q # p =>
          /\ outbox'[q] = outbox[q] /\ receiver'[q] = receiver[q] /\ (Gone(q)' <=> Gone(q))
    BY Zenon DEF Alone, Gone
  <1>2. /\ GoesOn(p)' => GoesOn(p)
        /\ StartsKept(outbox'[p], receiver'[p])
        /\ NoStart(outbox[p]) => NoStart(outbox'[p])
        /\ Ending(outbox'[p]) => Ending(outbox[p])
        /\ Once(outbox[p]) => Once(outbox'[p])
        /\ \A i : Newest(outbox'[p], i) =>
              \E j : Newest(outbox[p], j) /\ outbox'[p][i] = outbox[p][j]
        /\ Gone(p)' => outbox'[p] = << >>
        /\ Gone(p) => Gone(p)'
    <2>0. StartsKept(outbox[p], receiver[p]) /\ outbox[p] \in Seq(Events)
      BY <1>0, PlayerFacts, Zenon DEF StartsInv
    <2>1. CASE Waits(p)
      <3>1. /\ GoesOn(p)' => GoesOn(p)
            /\ StartsKept(outbox'[p], receiver'[p])
        BY <2>0, <2>1, StoppedReader, Zenon DEF Waits, GoesOn
      <3> QED
        BY <1>0, <2>1, <3>1, Zenon DEF Waits, GoneInv
    <2>2. CASE ReadsOne(p)
      <3> DEFINE q == outbox[p]
                 a == Tail(q)
                 r == receiver[p]
                 t == receiver'[p]
      <3>1. /\ ReadsOn(a, t) => ReadsOn(q, r)
            /\ StartsKept(q, r) => StartsKept(a, t)
            /\ NoStart(q) => NoStart(a)
            /\ \A i \in DOMAIN a : Newest(a, i) => Newest(q, i + 1)
            /\ Ending(a) => Ending(q)
            /\ Once(q) => Once(a)
        BY <2>0, <2>2, TailEvent, Zenon DEF ReadsOne
      <3>2. \A i \in DOMAIN a : a[i] = q[i + 1]
        BY <2>0, <2>2, TailFacts, Zenon DEF ReadsOne
      <3>3. \A i : Newest(a, i) => i \in DOMAIN a
        BY Zenon DEF Newest
      <3>4. outbox'[p] = a /\ ~Gone(p) /\ ~Gone(p)'
        BY <2>2, Zenon DEF ReadsOne
      <3> HIDE DEF q, a, r, t
      <3>5. \A i : Newest(a, i) => \E j : Newest(q, j) /\ a[i] = q[j]
        BY <3>1, <3>2, <3>3, Zenon
      <3>6. GoesOn(p)' => GoesOn(p)
        BY <3>1, <3>4, Zenon DEF GoesOn, q, r, t
      <3> QED
        BY <2>0, <3>1, <3>4, <3>5, <3>6, Zenon DEF q, r, t
    <2>3. CASE Closes(p)
      <3>1. /\ outbox'[p] = << >> /\ ~receiver'[p] /\ Gone(p)'
        BY <2>3, Zenon DEF Closes
      <3> QED
        BY <3>1, EmptyQueue, Zenon DEF GoesOn
    <2> QED
      BY <2>1, <2>2, <2>3
  <1>3. GoneInv' /\ StartsInv'
    BY <1>0, <1>1, <1>2, Zenon DEF GoneInv, StartsInv
  <1>4. \A q \in Players : (GoesOn(q)' => GoesOn(q)) /\ (Gone(q) => Gone(q)')
    BY <1>1, <1>2, Zenon DEF GoesOn
  <1>5. OverInv'
    <2>1. Over' => Over
      BY Zenon DEF Alone, roomVars, Over
    <2> QED
      BY <1>0, <1>4, <2>1, TwoPlayers, Zenon DEF OverInv
  <1>6. \A q \in Players :
          /\ NoStart(outbox[q]) => NoStart(outbox'[q])
          /\ Ending(outbox'[q]) => Ending(outbox[q])
          /\ Once(outbox[q]) => Once(outbox'[q])
          /\ \A i : Newest(outbox'[q], i) =>
                \E j : Newest(outbox[q], j) /\ outbox'[q][i] = outbox[q][j]
    BY <1>1, <1>2, Zenon
  <1> QED
    BY <1>3, <1>4, <1>5, <1>6, Zenon

\* The roles: who comes into a session takes its newest game_start's role.
LEMMA PlayerRoles ==
  ASSUME RoomInv, OrderInv, NEW p \in Players, Alone(p), Waits(p) \/ ReadsOne(p) \/ Closes(p),
         Playing(p)' /\ NoStart(outbox'[p]) =>
            \/ client'[p] = client[p] /\ Playing(p) /\ NoStart(outbox[p])
            \/ \E r \in Roles : \E i : /\ client'[p] = r
                                       /\ Newest(outbox[p], i) /\ outbox[p][i] = Start(r)
  PROVE  RoleInv'
  <1>1. performer' = performer /\ main' = main
    BY Zenon DEF Alone, roomVars
  <1> SUFFICES ASSUME main \notin {"starting", "ended"}, NEW q \in Players
               PROVE  /\ \A i : Newest(outbox'[q], i) => outbox'[q][i] = StartOf(q, performer)
                      /\ Playing(q)' /\ NoStart(outbox'[q]) =>
                            (client'[q] = "PERFORMER" <=> q = performer)
    BY <1>1, Zenon DEF RoleInv
  <1>2. /\ \A i : Newest(outbox[q], i) => outbox[q][i] = StartOf(q, performer)
        /\ Playing(q) /\ NoStart(outbox[q]) => (client[q] = "PERFORMER" <=> q = performer)
    BY Zenon DEF OrderInv, RoleInv
  <1>3. \A i : Newest(outbox'[q], i) => outbox'[q][i] = StartOf(q, performer)
    BY <1>2, PlayerOrder, Zenon
  <1>4. CASE q # p
    BY <1>2, <1>3, <1>4, Zenon DEF Alone, Playing
  <1>5. ASSUME q = p, NEW r \in Roles, NEW i, client'[p] = r, Newest(outbox[p], i),
               outbox[p][i] = Start(r)
        PROVE  client'[q] = "PERFORMER" <=> q = performer
    <2>1. Start(r) = StartOf(p, performer)
      BY <1>2, <1>5, Zenon
    <2>2. r = IF p = performer THEN "PERFORMER" ELSE "COMMUNICATOR"
      <3>1. \A x, y \in Roles : Start(x) = Start(y) => x = y
        BY DEF Start, Roles
      <3>2. (IF p = performer THEN "PERFORMER" ELSE "COMMUNICATOR") \in Roles
        BY DEF Roles
      <3> QED
        BY <2>1, <3>1, <3>2, Zenon DEF StartOf
    <2> QED
      BY <1>5, <2>2
  <1>6. CASE q = p
    BY <1>2, <1>3, <1>5, <1>6, Zenon
  <1> QED
    BY <1>4, <1>6

\* The guest's steps: the host's state is as it was.
LEMMA GuestOrder ==
  ASSUME RoomInv, OrderInv, Alone("guest"), Waits("guest") \/ ReadsOne("guest") \/ Closes("guest")
  PROVE  AskedInv' /\ HostInv' /\ ToldInv'
  <1>1. "host" \in Players /\ "host" # "guest" /\ "guest" \in Players
    BY Zenon DEF Players
  <1>2. /\ main' = main /\ outbox'["host"] = outbox["host"] /\ inbox'["host"] = inbox["host"]
        /\ client'["host"] = client["host"] /\ run'["host"] = run["host"]
    BY <1>1, Zenon DEF Alone, roomVars
  <1>3. GoesOn("guest")' => GoesOn("guest")
    BY <1>1, PlayerOrder, Zenon
  <1>4. AskedInv /\ HostInv /\ ToldInv
    BY Zenon DEF OrderInv
  <1>5. AskedInv' /\ HostInv'
    BY <1>2, <1>4, Zenon DEF AskedInv, Asked, HostInv
  <1>6. ToldInv'
    BY <1>2, <1>3, <1>4, Zenon DEF ToldInv, Ended, Asked, Through, Playing, ExitSent
  <1> QED
    BY <1>5, <1>6

\* The host's steps: it comes to an end of its session, and asks for a round,
\* only when the guest will be told.
LEMMA HostOrder ==
  ASSUME RoomInv, OrderInv, Alone("host"), Waits("host") \/ ReadsOne("host") \/ Closes("host"),
         \/ inbox'["host"] = inbox["host"]
         \/ /\ ~Asked /\ main # "starting"
            /\ \E c \in Commands : /\ inbox'["host"] = Append(inbox["host"], c)
                                   /\ c = "start_game" => Through,
         Asked' \/ main = "starting" => client'["host"] \in {"await", "gone"} /\ NoStart(outbox'["host"]),
         client'["host"] # "await" => NoStart(outbox'["host"]),
         Through' => Through \/ Ended \/ ExitSent("host")' \/ Ending(outbox["host"])
  PROVE  AskedInv' /\ HostInv' /\ ToldInv'
  <1>0. AskedInv /\ HostInv /\ ToldInv
    BY Zenon DEF OrderInv
  <1>h. "host" \in Players /\ "guest" \in Players /\ "guest" # "host"
    BY Zenon DEF Players
  <1>1. main' = main
    BY Zenon DEF Alone, roomVars
  <1>2. /\ Ending(outbox'["host"]) => Ending(outbox["host"])
        /\ Once(outbox["host"]) => Once(outbox'["host"])
    BY <1>h, PlayerOrder, Zenon
  <1>3. GoesOn("guest")' <=> GoesOn("guest")
    BY <1>h, Zenon DEF Alone, GoesOn
  <1>4. HostInv'
    BY <1>0, <1>2, Zenon DEF HostInv
  <1>5. inbox'["host"] = inbox["host"] \/ \E c \in Commands : inbox'["host"] = Append(inbox["host"], c)
    BY Zenon
  <1>6. ExitSent("host") => ExitSent("host")'
    <2>1. CASE inbox'["host"] = inbox["host"]
      BY <2>1, Zenon DEF ExitSent
    <2>2. ASSUME NEW c \in Commands, inbox'["host"] = Append(inbox["host"], c)
          PROVE  ExitSent("host") => ExitSent("host")'
      <3>1. inbox["host"] \in Seq(Commands)
        BY <1>h, PlayerFacts
      <3>2. \A i \in DOMAIN inbox["host"] :
               i \in DOMAIN inbox'["host"] /\ inbox'["host"][i] = inbox["host"][i]
        BY <2>2, <3>1
      <3> QED
        BY <3>2, Zenon DEF ExitSent
    <2> QED
      BY <1>5, <2>1, <2>2
  <1>7. \A i \in DOMAIN inbox'["host"] :
           inbox'["host"][i] = "start_game" => i = Len(inbox'["host"])
    <2>1. CASE inbox'["host"] = inbox["host"]
      BY <1>0, <2>1, Zenon DEF AskedInv
    <2>2. ASSUME NEW c \in Commands, inbox'["host"] = Append(inbox["host"], c), ~Asked
          PROVE  \A i \in DOMAIN inbox'["host"] :
                    inbox'["host"][i] = "start_game" => i = Len(inbox'["host"])
      <3>1. inbox["host"] \in Seq(Commands)
        BY <1>h, PlayerFacts
      <3>2. \A i \in DOMAIN inbox["host"] : inbox["host"][i] # "start_game"
        BY <2>2, Zenon DEF Asked
      <3>3. \A i \in DOMAIN inbox'["host"] :
               i = Len(inbox'["host"]) \/ (i \in DOMAIN inbox["host"] /\ inbox'["host"][i] = inbox["host"][i])
        BY <2>2, <3>1
      <3> QED
        BY <3>2, <3>3, Zenon
    <2> QED
      BY <1>5, <2>1, <2>2, Zenon
  <1>8. AskedInv'
    BY <1>0, <1>1, <1>7, Zenon DEF AskedInv
  <1>9. ToldInv'
    <2>1. ~Ended' /\ (Asked' \/ Through' \/ Ending(outbox'["host"])) =>
             (Asked \/ Through \/ Ending(outbox["host"])) \/ ExitSent("host")'
      <3>1. Asked' => Asked \/ Through
        <4>1. CASE inbox'["host"] = inbox["host"]
          BY <4>1, Zenon DEF Asked
        <4>2. ASSUME ~Asked, NEW c \in Commands, inbox'["host"] = Append(inbox["host"], c),
                     c = "start_game" => Through
              PROVE  Asked' => Through
          <5>1. inbox["host"] \in Seq(Commands)
            BY <1>h, PlayerFacts
          <5>2. \A i \in DOMAIN inbox["host"] : inbox["host"][i] # "start_game"
            BY <4>2, Zenon DEF Asked
          <5>3. \A i \in DOMAIN inbox'["host"] :
                   \/ inbox'["host"][i] = c
                   \/ i \in DOMAIN inbox["host"] /\ inbox'["host"][i] = inbox["host"][i]
            BY <4>2, <5>1
          <5> QED
            BY <4>2, <5>2, <5>3, Zenon DEF Asked
        <4> QED
          BY <4>1, <4>2, Zenon
      <3> QED
        BY <1>1, <1>2, <3>1, Zenon DEF Ended
    <2> QED
      BY <1>0, <1>1, <1>3, <1>6, <2>1, Zenon DEF ToldInv, Ended
  <1> QED
    BY <1>4, <1>8, <1>9

\* A command of p on its way, alone.
LEMMA CommandAlone ==
  ASSUME RoomInv, NEW p \in Players, NEW c \in Commands, Command(p, c)
  PROVE  /\ \A q \in Players : q # p => inbox'[q] = inbox[q]
         /\ Ended => inbox' = inbox
         /\ inbox'[p] = inbox[p] \/ inbox'[p] = Append(inbox[p], c)
         /\ ~Ended /\ c # "tilt" => inbox'[p] = Append(inbox[p], c)
  <1>1. inbox' = IF Ended THEN inbox ELSE [inbox EXCEPT ![p] = Queue(@, c)]
    BY Zenon DEF Command
  <1>2. DOMAIN inbox = Players
    BY DEF RoomInv, TypeOK
  <1>3. \A q \in Players : inbox'[q] = IF Ended \/ q # p THEN inbox[q] ELSE Queue(inbox[q], c)
    BY <1>1, <1>2
  <1>4. /\ Queue(inbox[p], c) = inbox[p] \/ Queue(inbox[p], c) = Append(inbox[p], c)
        /\ c # "tilt" => Queue(inbox[p], c) = Append(inbox[p], c)
    <2>1. c # "update"
      BY DEF Commands
    <2> QED
      BY <2>1, Zenon DEF Queue
  <1> QED
    BY <1>1, <1>3, <1>4, Zenon

\* Closing the socket of p.
LEMMA CloseAlone ==
  ASSUME RoomInv, NEW p \in Players, NEW unread, Close(p, unread)
  PROVE  /\ \A q \in Players : q # p => outbox'[q] = outbox[q] /\ client'[q] = client[q]
         /\ outbox'[p] = << >> /\ client'[p] = "gone"
  <1>1. /\ client' = [client EXCEPT ![p] = "gone"] /\ outbox' = [outbox EXCEPT ![p] = << >>]
        /\ DOMAIN client = Players /\ DOMAIN outbox = Players
    BY Zenon DEF Close, Moves, RoomInv, TypeOK
  <1> QED
    BY <1>1

\* While it plays the host has not asked for the next round.
LEMMA HostPlays ==
  ASSUME RoomInv, OrderInv, Playing("host") \/ client["host"] = "prompt"
  PROVE  ~Asked /\ main # "starting" /\ NoStart(outbox["host"])
  <1>1. client["host"] \notin {"await", "gone"}
    BY Zenon DEF Playing, Roles
  <1> QED
    BY <1>1, Zenon DEF OrderInv, AskedInv, HostInv

LEMMA UserOrder == RoomInv /\ OrderInv /\ UserStep => OrderInv'
  <1> SUFFICES ASSUME RoomInv, OrderInv, UserStep PROVE OrderInv'
    OBVIOUS
  <1>h. "host" \in Players /\ "start_game" \in Commands /\ "exit_game" \in Commands
    BY Zenon DEF Players, Commands
  <1>d. /\ DOMAIN client = Players /\ DOMAIN run = Players
        /\ DOMAIN receiver = Players /\ DOMAIN sender = Players
    BY DEF RoomInv, TypeOK
  <1>1. CASE PlayAgain
    <2>1. /\ client["host"] = "prompt" /\ client' = [client EXCEPT !["host"] = "await"]
          /\ Command("host", "start_game")
          /\ UNCHANGED roomVars /\ outbox' = outbox /\ run' = run /\ receiver' = receiver
      BY <1>1, Zenon DEF PlayAgain, AskForRound, Moves, sessionVars
    <2>2. client'["host"] = "await" /\ \A q \in Players : q # "host" => client'[q] = client[q]
      BY <1>h, <1>d, <2>1
    <2>3. /\ \A q \in Players : q # "host" => inbox'[q] = inbox[q]
          /\ inbox'["host"] = inbox["host"] \/ inbox'["host"] = Append(inbox["host"], "start_game")
      BY <1>h, <2>1, CommandAlone, Zenon
    <2>4. Alone("host") /\ Waits("host")
      BY <2>1, <2>2, <2>3, Zenon DEF Alone, Waits, Gone
    <2>5. ~Asked /\ main # "starting" /\ NoStart(outbox["host"])
      BY <2>1, HostPlays, Zenon
    <2>6. Through /\ ~Through'
      BY <2>1, <2>2, Zenon DEF Through, Playing, Roles
    <2>7. AskedInv' /\ HostInv' /\ ToldInv'
      BY <1>h, <2>1, <2>2, <2>3, <2>4, <2>5, <2>6, HostOrder, Zenon
    <2>8. RoleInv'
      <3>1. ~Playing("host")'
        BY <2>2, Zenon DEF Playing, Roles
      <3> QED
        BY <1>h, <2>4, <3>1, PlayerRoles, Zenon
    <2> QED
      BY <1>h, <2>4, <2>7, <2>8, PlayerOrder, Zenon DEF OrderInv
  <1>2. CASE HostLeaves
    <2>1. /\ client["host"] = "prompt" /\ Close("host", outbox["host"])
          /\ UNCHANGED roomVars /\ inbox' = inbox /\ run' = run /\ receiver' = receiver
      BY <1>2, Zenon DEF HostLeaves, LeavePrompt, sessionVars
    <2>2. /\ \A q \in Players : q # "host" => outbox'[q] = outbox[q] /\ client'[q] = client[q]
          /\ outbox'["host"] = << >> /\ client'["host"] = "gone"
      BY <1>h, <2>1, CloseAlone, Zenon
    <2>3. ~receiver["host"]
      BY <1>h, <2>1, PlayerFacts, Zenon
    <2>4. Alone("host") /\ Closes("host")
      BY <2>1, <2>2, <2>3, Zenon DEF Alone, Closes, Gone
    <2>5. ~Asked /\ main # "starting" /\ NoStart(outbox'["host"])
      BY <2>1, <2>2, HostPlays, EmptyQueue, Zenon
    <2>6. ~Through'
      BY <2>2, Zenon DEF Through, Playing, Roles
    <2>7. AskedInv' /\ HostInv' /\ ToldInv'
      BY <2>1, <2>2, <2>4, <2>5, <2>6, HostOrder, Zenon
    <2>8. RoleInv'
      <3>1. ~Playing("host")'
        BY <2>2, Zenon DEF Playing, Roles
      <3> QED
        BY <1>h, <2>4, <3>1, PlayerRoles, Zenon
    <2> QED
      BY <1>h, <2>4, <2>7, <2>8, PlayerOrder, Zenon DEF OrderInv
  <1>3. ASSUME NEW p \in Players, PressExit(p) PROVE OrderInv'
    <2>1. /\ run[p] /\ run' = [run EXCEPT ![p] = FALSE] /\ Command(p, "exit_game")
          /\ UNCHANGED roomVars /\ outbox' = outbox /\ client' = client /\ receiver' = receiver
      BY <1>3, Zenon DEF PressExit
    <2>2. \A q \in Players : q # p => run'[q] = run[q]
      BY <1>d, <2>1
    <2>3. /\ \A q \in Players : q # p => inbox'[q] = inbox[q]
          /\ inbox'[p] = inbox[p] \/ inbox'[p] = Append(inbox[p], "exit_game")
          /\ ~Ended => inbox'[p] = Append(inbox[p], "exit_game")
      <3>1. "exit_game" # "tilt"
        OBVIOUS
      <3> QED
        BY <1>h, <2>1, <3>1, CommandAlone, Zenon
    <2>4. Alone(p) /\ Waits(p)
      BY <2>1, <2>2, <2>3, Zenon DEF Alone, Waits, Gone
    <2>5. Playing(p)
      BY <2>1, PlayerFacts
    <2>6. AskedInv' /\ HostInv' /\ ToldInv'
      <3>1. CASE p = "guest"
        BY <2>4, <3>1, GuestOrder, Zenon
      <3>2. CASE p = "host"
        <4>1. ~Asked /\ main # "starting" /\ NoStart(outbox["host"])
          BY <2>5, <3>2, HostPlays, Zenon
        <4>2. Ended \/ ExitSent("host")'
          <5> SUFFICES ASSUME ~Ended PROVE ExitSent("host")'
            OBVIOUS
          <5>1. inbox'["host"] = Append(inbox["host"], "exit_game") /\ inbox["host"] \in Seq(Commands)
            BY <2>3, <3>2, PlayerFacts
          <5>2. /\ Len(inbox["host"]) + 1 \in DOMAIN inbox'["host"]
                /\ inbox'["host"][Len(inbox["host"]) + 1] = "exit_game"
            BY <5>1
          <5> QED
            BY <5>2, Zenon DEF ExitSent
        <4>3. ~Asked'
          <5>1. CASE inbox'["host"] = inbox["host"]
            BY <4>1, <5>1, Zenon DEF Asked
          <5>2. CASE inbox'["host"] = Append(inbox["host"], "exit_game")
            <6>1. inbox["host"] \in Seq(Commands)
              BY <3>2, PlayerFacts
            <6>2. \A i \in DOMAIN inbox'["host"] :
                     \/ inbox'["host"][i] = "exit_game"
                     \/ i \in DOMAIN inbox["host"] /\ inbox'["host"][i] = inbox["host"][i]
              BY <5>2, <6>1
            <6> QED
              BY <4>1, <6>2, Zenon DEF Asked
          <5> QED
            BY <2>3, <3>2, <5>1, <5>2, Zenon
        <4>4. "exit_game" # "start_game"
          OBVIOUS
        <4> QED
          BY <1>h, <2>1, <2>3, <2>4, <3>2, <4>1, <4>2, <4>3, <4>4, HostOrder, Zenon
      <3> QED
        BY <3>1, <3>2 DEF Players
    <2>7. RoleInv'
      BY <2>1, <2>4, <2>5, PlayerRoles, Zenon
    <2> QED
      BY <2>4, <2>6, <2>7, PlayerOrder, Zenon DEF OrderInv
  <1> QED
    BY <1>1, <1>2, <1>3, Zenon DEF UserStep

LEMMA ClientOrder ==
  ASSUME RoomInv, OrderInv, NEW p \in Players,
         ReceiverStep(p) \/ SenderStep(p) \/ WindowStep(p) \/ ClientDies(p)
  PROVE  OrderInv'
  <1>h. "host" \in Players /\ "tilt" \in Commands /\ "tilt" # "start_game"
    BY DEF Players, Commands
  <1>d. /\ DOMAIN client = Players /\ DOMAIN run = Players /\ DOMAIN outbox = Players
        /\ DOMAIN receiver = Players /\ DOMAIN sender = Players
    BY DEF RoomInv, TypeOK
  <1>o. AskedInv /\ HostInv /\ ToldInv /\ StartsInv /\ GoneInv
    BY Zenon DEF OrderInv
  <1>p. p = "host" \/ p = "guest"
    BY Zenon DEF Players
  <1>q. ASSUME RoleInv', Alone(p), Waits(p) \/ ReadsOne(p) \/ Closes(p),
               p = "host" => AskedInv' /\ HostInv' /\ ToldInv'
        PROVE  OrderInv'
    BY <1>p, <1>q, GuestOrder, PlayerOrder, Zenon DEF OrderInv
  <1>1. CASE GameStarts(p)
    <2>1. PICK r \in Roles : Head(outbox[p]) = Start(r) /\ client' = [client EXCEPT ![p] = r]
      BY <1>1, Zenon DEF GameStarts, Moves
    <2>2. /\ client[p] = "await" /\ outbox[p] # << >>
          /\ outbox' = [outbox EXCEPT ![p] = Tail(@)]
          /\ run' = [run EXCEPT ![p] = TRUE] /\ receiver' = [receiver EXCEPT ![p] = TRUE]
          /\ UNCHANGED roomVars /\ inbox' = inbox
      BY <1>1, Zenon DEF GameStarts
    <2>3. /\ outbox'[p] = Tail(outbox[p]) /\ client'[p] = r /\ run'[p]
          /\ \A q \in Players : q # p => /\ outbox'[q] = outbox[q] /\ client'[q] = client[q]
                                         /\ run'[q] = run[q] /\ receiver'[q] = receiver[q]
      BY <1>d, <2>1, <2>2
    <2>4. Head(outbox[p]) \in Starts /\ Head(outbox[p]) \notin LastEvents
      BY <2>1, Apart DEF Starts
    <2>5. Alone(p)
      BY <2>2, <2>3, Zenon DEF Alone
    <2>6. ReadsOne(p)
      <3>1. ~Gone(p) /\ ~Gone(p)'
        BY <2>2, <2>3, Zenon DEF Gone, Roles
      <3> QED
        BY <2>2, <2>3, <2>4, <3>1, Zenon DEF ReadsOne
    <2>7. outbox[p] \in Seq(Events) /\ outbox[p][1] = Head(outbox[p]) /\ 1 \in DOMAIN outbox[p]
      BY <2>2, PlayerFacts, TailFacts, Zenon
    <2>8. NoStart(Tail(outbox[p])) => Newest(outbox[p], 1)
      <3>1. ~NoStart(outbox[p])
        BY <2>4, <2>7, Zenon DEF NoStart
      <3> QED
        BY <2>2, <2>4, <2>7, <3>1, TailEvent, Zenon
    <2>9. RoleInv'
      <3>1. NoStart(outbox'[p]) =>
               \E x \in Roles : \E i : /\ client'[p] = x
                                       /\ Newest(outbox[p], i) /\ outbox[p][i] = Start(x)
        BY <2>1, <2>3, <2>7, <2>8, Zenon
      <3> QED
        BY <2>5, <2>6, <3>1, PlayerRoles, Zenon
    <2>10. ASSUME p = "host" PROVE AskedInv' /\ HostInv' /\ ToldInv'
      <3>1. ~NoStart(outbox["host"])
        BY <2>4, <2>7, <2>10, Zenon DEF NoStart
      <3>2. ~Asked /\ main # "starting"
        BY <1>o, <3>1, Zenon DEF AskedInv
      <3>3. ~Asked'
        BY <2>2, <3>2, Zenon DEF Asked
      <3>4. NoStart(outbox'["host"])
        <4>1. Once(outbox[p])
          BY <1>o, <2>10, Zenon DEF HostInv
        <4>2. NoStart(Tail(outbox[p]))
          BY <2>2, <2>4, <2>7, <4>1, TailEvent, Zenon
        <4> QED
          BY <2>3, <2>10, <4>2, Zenon
      <3>5. ~Through'
        BY <2>3, <2>10, Zenon DEF Through, Roles
      <3> QED
        BY <2>2, <2>5, <2>6, <2>10, <3>2, <3>3, <3>4, <3>5, HostOrder, Zenon
    <2> QED
      BY <1>q, <2>5, <2>6, <2>9, <2>10
  <1>2. CASE GameStartFails(p)
    <2>1. PICK unread : Close(p, unread)
      BY <1>2, Zenon DEF GameStartFails, AwaitFails
    <2>2. client[p] = "await" /\ UNCHANGED roomVars /\ inbox' = inbox /\ run' = run /\ receiver' = receiver
      BY <1>2, Zenon DEF GameStartFails, AwaitFails, sessionVars
    <2>3. /\ \A q \in Players : q # p => outbox'[q] = outbox[q] /\ client'[q] = client[q]
          /\ outbox'[p] = << >> /\ client'[p] = "gone"
      BY <2>1, CloseAlone, Zenon
    <2>4. ~receiver[p]
      BY <2>2, PlayerFacts, Zenon
    <2>5. Alone(p) /\ Closes(p) /\ NoStart(outbox'[p])
      BY <2>2, <2>3, <2>4, EmptyQueue, Zenon DEF Alone, Closes, Gone
    <2>6. ~Playing(p)'
      BY <2>3, Zenon DEF Playing, Roles
    <2>7. RoleInv'
      BY <2>5, <2>6, PlayerRoles, Zenon
    <2>8. ASSUME p = "host" PROVE AskedInv' /\ HostInv' /\ ToldInv'
      <3>1. ~Through'
        BY <2>3, <2>6, <2>8, Zenon DEF Through
      <3> QED
        BY <2>2, <2>3, <2>5, <2>8, <3>1, HostOrder, Zenon
    <2> QED
      BY <1>q, <2>5, <2>7, <2>8
  <1>3. CASE ReceiveOther(p)
    <2>1. /\ receiver[p] /\ outbox[p] # << >> /\ Head(outbox[p]) \notin LastEvents
          /\ outbox' = [outbox EXCEPT ![p] = Tail(@)]
          /\ receiver' = [receiver EXCEPT ![p] = run[p]]
          /\ UNCHANGED roomVars /\ inbox' = inbox /\ client' = client /\ run' = run
      BY <1>3, Zenon DEF ReceiveOther
    <2>2. /\ outbox'[p] = Tail(outbox[p])
          /\ \A q \in Players : q # p => outbox'[q] = outbox[q] /\ receiver'[q] = receiver[q]
      BY <1>d, <2>1
    <2>3. Playing(p) /\ ~Gone(p) /\ client[p] # "await"
      BY <2>1, PlayerFacts, Zenon
    <2>4. Alone(p) /\ ReadsOne(p)
      BY <2>1, <2>2, <2>3, Zenon DEF Alone, ReadsOne, Gone
    <2>5. NoStart(outbox'[p]) => NoStart(outbox[p])
      <3>1. outbox[p] \in Seq(Events) /\ outbox[p][1] = Head(outbox[p]) /\ 1 \in DOMAIN outbox[p]
        BY <2>1, PlayerFacts, TailFacts, Zenon
      <3>2. Reads(outbox[p], receiver[p], 1 - 1)
        BY <2>1, <3>1, PlayerFacts DEF Reads
      <3>3. ~Newest(outbox[p], 1)
        BY <1>o, <3>1, <3>2, Zenon DEF StartsInv, StartsKept, Newest
      <3> QED
        BY <2>1, <2>2, <3>1, <3>3, TailEvent, Zenon
    <2>6. RoleInv'
      BY <2>1, <2>3, <2>4, <2>5, PlayerRoles, Zenon
    <2>7. ASSUME p = "host" PROVE AskedInv' /\ HostInv' /\ ToldInv'
      <3>1. ~Asked /\ main # "starting" /\ NoStart(outbox["host"])
        BY <2>3, <2>7, HostPlays, Zenon
      <3>2. ~Asked' /\ (Through' => Through)
        BY <2>1, <3>1, Zenon DEF Asked, Through, Playing
      <3>3. NoStart(outbox'["host"])
        BY <1>h, <2>4, <2>7, <3>1, PlayerOrder, Zenon
      <3> QED
        BY <2>1, <2>4, <2>7, <3>1, <3>2, <3>3, HostOrder, Zenon
    <2> QED
      BY <1>q, <2>4, <2>6, <2>7
  <1>4. CASE ReceiveLast(p)
    <2>1. /\ receiver[p]
          /\ \/ outbox[p] # << >> /\ Head(outbox[p]) \in LastEvents /\ outbox' = [outbox EXCEPT ![p] = Tail(@)]
             \/ Ended /\ outbox' = outbox
          /\ run' = [run EXCEPT ![p] = FALSE] /\ receiver' = [receiver EXCEPT ![p] = FALSE]
          /\ UNCHANGED roomVars /\ inbox' = inbox /\ client' = client
      BY <1>4, Zenon DEF ReceiveLast
    <2>2. /\ ~receiver'[p]
          /\ \A q \in Players : q # p => /\ outbox'[q] = outbox[q] /\ receiver'[q] = receiver[q]
                                         /\ run'[q] = run[q]
          /\ \/ outbox[p] # << >> /\ Head(outbox[p]) \in LastEvents /\ outbox'[p] = Tail(outbox[p])
             \/ Ended /\ outbox'[p] = outbox[p]
      BY <1>d, <2>1
    <2>3. Playing(p) /\ ~Gone(p) /\ client[p] # "await"
      BY <2>1, PlayerFacts, Zenon
    <2>4. Alone(p) /\ (Waits(p) \/ ReadsOne(p))
      BY <2>1, <2>2, <2>3, Zenon DEF Alone, Waits, ReadsOne, Gone
    <2>5. ASSUME outbox[p] # << >>, Head(outbox[p]) \in LastEvents
          PROVE  /\ outbox[p] \in Seq(Events) /\ outbox[p][1] = Head(outbox[p])
                 /\ 1 \in DOMAIN outbox[p] /\ outbox[p][1] \notin Starts
      BY <2>5, PlayerFacts, TailFacts, Apart
    <2>6. NoStart(outbox'[p]) => NoStart(outbox[p])
      <3>1. CASE outbox'[p] = outbox[p]
        BY <3>1
      <3>2. CASE outbox[p] # << >> /\ Head(outbox[p]) \in LastEvents /\ outbox'[p] = Tail(outbox[p])
        <4>1. outbox[p] \in Seq(Events) /\ ~Newest(outbox[p], 1)
          BY <2>5, <3>2, Zenon DEF Newest
        <4> QED
          BY <2>2, <3>2, <4>1, TailEvent, Zenon
      <3> QED
        BY <2>2, <3>1, <3>2
    <2>7. RoleInv'
      BY <2>1, <2>3, <2>4, <2>6, PlayerRoles, Zenon
    <2>8. ASSUME p = "host" PROVE AskedInv' /\ HostInv' /\ ToldInv'
      <3>1. ~Asked /\ main # "starting" /\ NoStart(outbox["host"])
        BY <2>3, <2>8, HostPlays, Zenon
      <3>2. ~Asked'
        BY <2>1, <3>1, Zenon DEF Asked
      <3>3. NoStart(outbox'["host"])
        BY <1>h, <2>4, <2>8, <3>1, PlayerOrder, Zenon
      <3>4. Ended \/ Ending(outbox["host"])
        <4>1. CASE outbox[p] # << >> /\ Head(outbox[p]) \in LastEvents
          BY <2>5, <2>8, <3>1, <4>1, Zenon DEF Ending, NoStart
        <4> QED
          BY <2>2, <4>1
      <3> QED
        BY <2>1, <2>4, <2>8, <3>1, <3>2, <3>3, <3>4, HostOrder, Zenon
    <2> QED
      BY <1>q, <2>4, <2>7, <2>8
  <1>5. CASE SendTilt(p)
    <2>1. /\ sender[p] /\ Command(p, "tilt")
          /\ UNCHANGED roomVars /\ outbox' = outbox /\ client' = client /\ run' = run
          /\ receiver' = receiver
      BY <1>5, Zenon DEF SendTilt
    <2>2. /\ \A q \in Players : q # p => inbox'[q] = inbox[q]
          /\ inbox'[p] = inbox[p] \/ inbox'[p] = Append(inbox[p], "tilt")
      BY <1>h, <2>1, CommandAlone, Zenon
    <2>3. Playing(p) /\ client[p] # "await"
      BY <2>1, PlayerFacts, Zenon
    <2>4. Alone(p) /\ Waits(p)
      BY <2>1, <2>2, Zenon DEF Alone, Waits, Gone
    <2>5. RoleInv'
      BY <2>1, <2>3, <2>4, PlayerRoles, Zenon
    <2>6. ASSUME p = "host" PROVE AskedInv' /\ HostInv' /\ ToldInv'
      <3>1. ~Asked /\ main # "starting" /\ NoStart(outbox["host"])
        BY <2>3, <2>6, HostPlays, Zenon
      <3>2. ~Asked'
        <4>1. inbox["host"] \in Seq(Commands)
          BY <1>h, PlayerFacts
        <4>2. \A i \in DOMAIN inbox'["host"] :
                 \/ inbox'["host"][i] = "tilt"
                 \/ i \in DOMAIN inbox["host"] /\ inbox'["host"][i] = inbox["host"][i]
          BY <2>2, <2>6, <4>1
        <4> QED
          BY <1>h, <3>1, <4>2, Zenon DEF Asked
      <3>3. Through' => Through
        BY <2>1, Zenon DEF Through, Playing
      <3> QED
        BY <1>h, <2>1, <2>2, <2>4, <2>6, <3>1, <3>2, <3>3, HostOrder, Zenon
    <2> QED
      BY <1>q, <2>4, <2>5, <2>6
  <1>6. CASE SenderEnds(p)
    <2>1. /\ UNCHANGED roomVars /\ outbox' = outbox /\ client' = client /\ run' = run
          /\ receiver' = receiver /\ inbox' = inbox
      BY <1>6, Zenon DEF SenderEnds
    <2>2. Alone(p) /\ Waits(p)
      BY <2>1, Zenon DEF Alone, Waits, Gone
    <2>3. RoleInv'
      BY <2>1, <2>2, PlayerRoles, Zenon DEF Playing
    <2>4. AskedInv' /\ HostInv' /\ ToldInv'
      <3>1. main' = main
        BY <2>1, Zenon DEF roomVars
      <3> QED
        BY <1>o, <2>1, <3>1, Zenon
        DEF AskedInv, Asked, HostInv, ToldInv, Ended, Through, Playing, ExitSent, GoesOn
    <2> QED
      BY <1>q, <2>2, <2>3, <2>4
  <1>7. CASE SessionEnds(p)
    <2>1. /\ Playing(p) /\ ~run[p] /\ client' = [client EXCEPT ![p] = AfterSession(p)]
          /\ UNCHANGED roomVars /\ outbox' = outbox /\ inbox' = inbox /\ run' = run
          /\ receiver' = receiver
      BY <1>7, Zenon DEF SessionEnds, Moves, sessionVars
    <2>2. /\ client'[p] = AfterSession(p) /\ client'[p] \in {"prompt", "await"}
          /\ \A q \in Players : q # p => client'[q] = client[q]
      BY <1>d, <2>1 DEF AfterSession
    <2>3. ~Gone(p) /\ ~Gone(p)' /\ ~Playing(p)'
      BY <2>1, <2>2, PlayerFacts, Zenon DEF Gone, Playing, Roles
    <2>4. Alone(p) /\ Waits(p)
      BY <2>1, <2>2, <2>3, Zenon DEF Alone, Waits
    <2>5. RoleInv'
      BY <2>3, <2>4, PlayerRoles, Zenon
    <2>6. ASSUME p = "host" PROVE AskedInv' /\ HostInv' /\ ToldInv'
      <3>1. ~Asked /\ main # "starting" /\ NoStart(outbox["host"])
        BY <2>1, <2>6, HostPlays, Zenon
      <3>2. ~Asked' /\ Through
        BY <2>1, <2>6, <3>1, Zenon DEF Asked, Through
      <3> QED
        BY <2>1, <2>4, <2>6, <3>1, <3>2, HostOrder, Zenon
    <2> QED
      BY <1>q, <2>4, <2>5, <2>6
  <1>8. CASE ClientDies(p)
    <2>1. /\ Close(p, outbox[p])
          /\ run' = [run EXCEPT ![p] = FALSE] /\ receiver' = [receiver EXCEPT ![p] = FALSE]
          /\ UNCHANGED roomVars /\ inbox' = inbox
      BY <1>8, Zenon DEF ClientDies
    <2>2. /\ \A q \in Players : q # p => outbox'[q] = outbox[q] /\ client'[q] = client[q]
          /\ outbox'[p] = << >> /\ client'[p] = "gone"
      BY <2>1, CloseAlone, Zenon
    <2>3. ~receiver'[p] /\ \A q \in Players : q # p => run'[q] = run[q] /\ receiver'[q] = receiver[q]
      BY <1>d, <2>1
    <2>4. Alone(p) /\ Closes(p) /\ NoStart(outbox'[p])
      BY <2>1, <2>2, <2>3, EmptyQueue, Zenon DEF Alone, Closes, Gone
    <2>5. ~Playing(p)'
      BY <2>2, Zenon DEF Playing, Roles
    <2>6. RoleInv'
      BY <2>4, <2>5, PlayerRoles, Zenon
    <2>7. ASSUME p = "host" PROVE AskedInv' /\ HostInv' /\ ToldInv'
      <3>1. ~Through'
        BY <2>2, <2>5, <2>7, Zenon DEF Through
      <3> QED
        BY <2>1, <2>2, <2>4, <2>7, <3>1, HostOrder, Zenon
    <2> QED
      BY <1>q, <2>4, <2>6, <2>7
  <1> QED
    BY <1>1, <1>2, <1>3, <1>4, <1>5, <1>6, <1>7, <1>8, Zenon
    DEF ReceiverStep, SenderStep, WindowStep

LEMMA OrderStep == RoomInv /\ OrderInv /\ [Next]_vars => OrderInv'
  <1> SUFFICES ASSUME RoomInv, OrderInv, [Next]_vars PROVE OrderInv'
    OBVIOUS
  <1>1. CASE UNCHANGED vars
    BY <1>1, Zenon
    DEF vars, OrderInv, GoneInv, StartsInv, OverInv, Over, AskedInv, Asked, HostInv, ToldInv, Through,
        RoleInv, GoesOn, Gone, Ended, Playing, ExitSent
  <1>2. CASE Next
    BY <1>2, RoomOrder, UserOrder, ClientOrder, Zenon DEF Next
  <1> QED
    BY <1>1, <1>2

LEMMA RoomOrdered == Spec => [](RoomInv /\ OrderInv)
  BY RoomStarts, RoomInvStep, OrderStarts, OrderStep, PTL DEF Spec

\* The role in a player's newest game_start is the one the room has assigned,
\* however many rounds the guest is behind.
THEOREM GyroRolesAgree == Spec => []RolesAgree
  <1>1. OrderInv => RolesAgree
    <2> SUFFICES ASSUME OrderInv, main \in {"select", "second"}, NEW p \in Players,
                        Playing(p), ~InOutbox(p, Starts)
                 PROVE  client[p] = "PERFORMER" <=> p = performer
      BY Zenon DEF RolesAgree
    <2>1. NoStart(outbox[p])
      BY Zenon DEF InOutbox, NoStart
    <2>2. main \notin {"starting", "ended"}
      BY Zenon
    <2> QED
      BY <2>1, <2>2, Zenon DEF OrderInv, RoleInv
  <1> QED
    BY <1>1, RoomOrdered, PTL

\* No receiver reads the game_start of the next round: an end of its own round
\* always comes before it.
THEOREM GyroStartNotSwallowed == Spec => []StartNotSwallowed
  <1>1. RoomInv /\ OrderInv => StartNotSwallowed
    <2> SUFFICES ASSUME RoomInv, OrderInv, NEW p \in Players, receiver[p], outbox[p] # << >>,
                        Head(outbox[p]) \in Starts
                 PROVE  FALSE
      BY Zenon DEF StartNotSwallowed
    <2>1. outbox[p] \in Seq(Events) /\ outbox[p][1] = Head(outbox[p]) /\ 1 \in DOMAIN outbox[p]
      BY PlayerFacts, TailFacts, Zenon
    <2>2. Reads(outbox[p], receiver[p], 1 - 1)
      BY <2>1 DEF Reads
    <2> QED
      BY <2>1, <2>2, Zenon DEF OrderInv, StartsInv, StartsKept
  <1> QED
    BY <1>1, RoomOrdered, PTL

\* Whatever ends a round, the end of the game, an EXIT or a player who is gone,
\* the session of a player whose partner is there has its end before it.
THEOREM GyroEndIsTold == Spec => []EndIsTold
  <1>1. RoomInv /\ OrderInv => EndIsTold
    <2> SUFFICES ASSUME RoomInv, OrderInv, main = "next", NEW p \in Players, receiver[p],
                        ~Gone(Other(p)), ~InOutbox(p, LastEvents)
                 PROVE  FALSE
      BY Zenon DEF EndIsTold
    <2>1. ~GoesOn(p)
      BY Zenon DEF OrderInv, OverInv, Over
    <2>2. outbox[p] \in Seq(Events)
      BY PlayerFacts
    <2>3. Reads(outbox[p], receiver[p], Len(outbox[p]))
      BY <2>2 DEF Reads, InOutbox
    <2> QED
      BY <2>1, <2>3 DEF GoesOn, ReadsOn
  <1> QED
    BY <1>1, RoomOrdered, PTL

-----------------------------------------------------------------------------
(* The room implements RoomSpec.                                             *)

\* The abstract room's variables.
Round ==
  CASE main \in {"starting", "next"} -> "between"
    [] Ended -> "ended"
    [] OTHER -> "played"
Due == [p \in Players |-> RolesDue(p)]
Place == [p \in Players |-> IF client[p] \in {"await", "prompt"} THEN "out" ELSE client[p]]

\* The abstract round, by the room's program counter.
LEMMA RoundIs ==
  /\ main \in {"starting", "next"} => Round = "between"
  /\ main = "ended" => Round = "ended"
  /\ main \notin {"starting", "next", "ended"} => Round = "played"
  BY DEF Round, Ended

LEMMA RoundIsNext ==
  /\ main' \in {"starting", "next"} => Round' = "between"
  /\ main' = "ended" => Round' = "ended"
  /\ main' \notin {"starting", "next", "ended"} => Round' = "played"
  BY DEF Round, Ended

\* A step that leaves round, roles due and places alone is a stutter of RoomSpec.
LEMMA Stutters ==
  ASSUME Round' = Round, Due' = Due, Place' = Place
  PROVE  [Room!Next]_Room!vars
  BY Zenon DEF Room!vars, Round, Due, Place

\* The room ends, alone or after the host has been told of a round that the
\* guest's end of the connection did not let begin: RoomSpec's End.
LEMMA Ends ==
  ASSUME Round # "ended", Round' = "ended", Place' = Place,
         \/ Due' = Due
         \/ /\ Round = "between" /\ Place["guest"] = "gone" /\ Place["host"] = "out"
            /\ \E role \in Roles : Due' = [Due EXCEPT !["host"] = Append(@, role)]
  PROVE  [Room!Next]_Room!vars
  <1>1. Room!Roles = Roles
    BY DEF Room!Roles, Roles
  <1>2. Room!End
    BY <1>1, Zenon DEF Room!End, Round, Due, Place
  <1> QED
    BY <1>2, Zenon DEF Room!Next

\* A dealt round is RoomSpec's Begin.
LEMMA Begins ==
  ASSUME Round = "between", Place["host"] \notin Roles, Round' = "played", Place' = Place,
         NEW q \in Players,
         Due' = [p \in Players |-> IF Place[p] = "gone" THEN Due[p]
                                   ELSE Append(Due[p], RoleIn(StartOf(p, q)))]
  PROVE  [Room!Next]_Room!vars
  <1>1. Room!Roles = Roles /\ Room!Players = Players
    BY DEF Room!Roles, Roles, Room!Players, Players
  <1>2. \A p : Room!RoleOf(p, q) = RoleIn(StartOf(p, q))
    BY StartFacts DEF Room!RoleOf
  <1>3. Due' = [p \in Room!Players |-> IF Place[p] = "gone" THEN Due[p]
                                       ELSE Append(Due[p], Room!RoleOf(p, q))]
    BY <1>1, <1>2, Zenon
  <1>4. Room!Begin
    BY <1>1, <1>3, Zenon DEF Room!Begin, Round, Due, Place
  <1> QED
    BY <1>4, Zenon DEF Room!Next

\* The end of a round is RoomSpec's Finish.
LEMMA Finishes ==
  ASSUME Round = "played", Round' = "between", Due' = Due, Place' = Place
  PROVE  [Room!Next]_Room!vars
  <1>1. Room!Finish
    BY Zenon DEF Room!Finish, Round, Due, Place
  <1> QED
    BY <1>1, Zenon DEF Room!Next

\* A player who takes up the next role dealt to it makes RoomSpec's Join.
LEMMA JoinsOne ==
  ASSUME NEW p \in Players, Round' = Round, Place[p] = "out", Due[p] # << >>,
         Place' = [Place EXCEPT ![p] = Head(Due[p])], Due' = [Due EXCEPT ![p] = Tail(@)]
  PROVE  [Room!Next]_Room!vars
  <1>1. Room!Players = Players
    BY DEF Room!Players, Players
  <1>2. Room!Join(p)
    BY Zenon DEF Room!Join, Round, Due, Place
  <1> QED
    BY <1>1, <1>2, Zenon DEF Room!Next

\* A player who is out of the round makes RoomSpec's Leave.
LEMMA LeavesOne ==
  ASSUME NEW p \in Players, Round' = Round, Place[p] \in Roles, Due' = Due,
         Place' = [Place EXCEPT ![p] = "out"]
  PROVE  [Room!Next]_Room!vars
  <1>1. Room!Roles = Roles /\ Room!Players = Players
    BY DEF Room!Roles, Roles, Room!Players, Players
  <1>2. Room!Leave(p)
    BY <1>1, Zenon DEF Room!Leave, Round, Due, Place
  <1> QED
    BY <1>1, <1>2, Zenon DEF Room!Next

\* A player who goes makes RoomSpec's Quit, whatever was on its way to it.
LEMMA QuitsOne ==
  ASSUME NEW p \in Players, Round' = Round, Place[p] # "gone",
         Place' = [Place EXCEPT ![p] = "gone"], Due' = [Due EXCEPT ![p] = << >>]
  PROVE  [Room!Next]_Room!vars
  <1>1. Room!Players = Players
    BY DEF Room!Players, Players
  <1>2. Room!Quit(p)
    BY Zenon DEF Room!Quit, Round, Due, Place
  <1> QED
    BY <1>1, <1>2, Zenon DEF Room!Next


-----------------------------------------------------------------------------
(* The steps of the room, of its physics and of the players.                 *)

\* The abstract place of a player.
LEMMA PlaceFacts ==
  ASSUME RoomInv, NEW p \in Players
  PROVE  /\ Place[p] = (IF client[p] \in {"await", "prompt"} THEN "out" ELSE client[p])
         /\ Gone(p) <=> Place[p] = "gone"
         /\ Playing(p) => Place[p] = client[p]
         /\ Place[p] \in Roles <=> Playing(p)
  <1>1. client[p] \in Roles \cup {"await", "prompt", "gone"}
    BY DEF RoomInv, TypeOK
  <1>2. Place[p] = IF client[p] \in {"await", "prompt"} THEN "out" ELSE client[p]
    BY DEF Place
  <1> QED
    BY <1>1, <1>2 DEF Gone, Playing, Roles

\* What the abstract variables depend on.
LEMMA NothingDealt == UNCHANGED outbox => Due' = Due
  BY Zenon DEF Due, RolesDue

LEMMA NobodyMoves == UNCHANGED client => Place' = Place
  BY Zenon DEF Place

LEMMA TypedQueues == RoomInv => Queues(Events)
  BY DEF RoomInv, TypeOK, Queues

\* Nothing but the main thread's place in a round changes, if that.
LEMMA Quietly ==
  ASSUME UNCHANGED <<outbox, client>>, Round' = Round
  PROVE  [Room!Next]_Room!vars
  BY NothingDealt, NobodyMoves, Stutters, Zenon

\* During a round, the events that the room sends deal no role; a write that
\* kills it ends the room.
LEMMA SendMaps ==
  ASSUME RoomInv, main \notin {"starting", "next", "ended"},
         NEW first, NEW sent, Killed(first, sent) \/ Delivered(sent),
         DOMAIN sent \subseteq Players, \A p \in DOMAIN sent : sent[p] \in Events \ Starts,
         UNCHANGED client, RoomEnds \/ main' \notin {"starting", "next", "ended"}
  PROVE  [Room!Next]_Room!vars
  <1>1. Due' = Due
    <2>1. \A p \in Players : RolesDue(p)' = RolesDue(p)
      BY TypedQueues, OtherSent
    <2> QED
      BY <2>1, Zenon DEF Due
  <1>2. Round = "played" /\ Place' = Place
    BY RoundIs, NobodyMoves, Zenon
  <1>3. CASE RoomEnds
    <2>1. Round' = "ended"
      BY <1>3, RoundIsNext, Zenon DEF RoomEnds
    <2>2. Round # "ended"
      BY <1>2
    <2> QED
      BY <1>1, <1>2, <2>1, <2>2, Ends, Zenon
  <1>4. CASE main' \notin {"starting", "next", "ended"}
    <2>1. Round' = "played"
      BY <1>4, RoundIsNext, Zenon
    <2> QED
      BY <1>1, <1>2, <2>1, Stutters, Zenon
  <1> QED
    BY <1>3, <1>4

\* startRound begins a round, or ends the room at the write that kills it.
LEMMA StartRoundMaps ==
  ASSUME RoomInv, OrderInv, ResetInv, StartRound
  PROVE  [Room!Next]_Room!vars
  <1>0. "host" \in Players /\ "guest" \in Players
    BY TwoPlayers
  <1>1. PICK q \in Players :
          Send("host", [p \in Players |-> StartOf(p, q)],
               performer' = q /\ main' = "course" /\ UNCHANGED <<physics, running, inbox>>,
               RoomEnds)
    BY Zenon DEF StartRound
  <1>2. /\ Round = "between" /\ Place' = Place /\ main = "starting"
        /\ client["host"] \in {"await", "gone"}
    <2>1. main = "starting" /\ UNCHANGED client
      BY Zenon DEF StartRound
    <2> QED
      BY <2>1, RoundIs, NobodyMoves, Zenon DEF OrderInv, AskedInv
  <1>3. Place["host"] \notin Roles /\ (~Gone("host") => Place["host"] = "out")
    <2>1. Place["host"] = IF client["host"] \in {"await", "prompt"} THEN "out" ELSE client["host"]
      BY <1>0, PlaceFacts
    <2> QED
      BY <1>2, <2>1 DEF Roles, Gone
  <1> DEFINE sent == [p \in Players |-> StartOf(p, q)]
  <1>4. /\ Delivered(sent) =>
              \A p \in Players :
                 RolesDue(p)' = IF Gone(p) THEN RolesDue(p)
                                ELSE Append(RolesDue(p), RoleIn(StartOf(p, q)))
        /\ Killed("host", sent) =>
              /\ reset # {}
              /\ \/ \A p \in Players : RolesDue(p)' = RolesDue(p)
                 \/ /\ "host" \notin reset /\ ~Gone("host") /\ "guest" \in reset
                    /\ RolesDue("guest")' = RolesDue("guest")
                    /\ \E role \in Roles : RolesDue("host")' = Append(RolesDue("host"), role)
    <2>1. Starts \subseteq Events
      BY DEF Events
    <2> QED
      BY <2>1, TypedQueues, RolesSent
  <1>5. \/ Killed("host", sent) /\ main' = "ended"
        \/ Delivered(sent) /\ main' = "course"
    BY <1>1, Zenon DEF Send, RoomEnds
  <1> HIDE DEF sent
  <1>6. CASE Delivered(sent) /\ main' = "course"
    <2>1. Round' = "played"
      <3>1. main' \notin {"starting", "next", "ended"}
        BY <1>6
      <3> QED
        BY <3>1, RoundIsNext, Zenon
    <2>2. ASSUME NEW p \in Players
          PROVE  RolesDue(p)' = IF Place[p] = "gone" THEN Due[p]
                                ELSE Append(Due[p], RoleIn(StartOf(p, q)))
      <3>1. Due[p] = RolesDue(p) /\ (Gone(p) <=> Place[p] = "gone")
        BY PlaceFacts DEF Due
      <3> QED
        BY <1>4, <1>6, <3>1, Zenon
    <2>3. Due' = [p \in Players |-> IF Place[p] = "gone" THEN Due[p]
                                    ELSE Append(Due[p], RoleIn(StartOf(p, q)))]
      BY <2>2, Zenon DEF Due
    <2> QED
      BY <1>2, <1>3, <2>1, <2>3, Begins, Zenon
  <1>7. CASE Killed("host", sent) /\ main' = "ended"
    <2>1. Round' = "ended" /\ Round # "ended"
      BY <1>2, <1>7, RoundIsNext
    <2>2. CASE \A p \in Players : RolesDue(p)' = RolesDue(p)
      <3>1. Due' = Due
        BY <2>2, Zenon DEF Due
      <3> QED
        BY <1>2, <2>1, <3>1, Ends, Zenon
    <2>3. CASE /\ "host" \notin reset /\ ~Gone("host") /\ "guest" \in reset
               /\ RolesDue("guest")' = RolesDue("guest")
               /\ \E role \in Roles : RolesDue("host")' = Append(RolesDue("host"), role)
      <3>1. PICK role \in Roles : RolesDue("host")' = Append(RolesDue("host"), role)
        BY <2>3
      <3>2. Place["guest"] = "gone" /\ Place["host"] = "out"
        BY <1>0, <1>3, <2>3, PlaceFacts, Zenon DEF ResetInv
      <3>3. Due' = [Due EXCEPT !["host"] = Append(@, role)]
        <4>1. \A p \in Players : p # "host" => RolesDue(p)' = RolesDue(p)
          BY <2>3 DEF Players
        <4>2. \A p \in Players :
                RolesDue(p)' = IF p = "host" THEN Append(RolesDue("host"), role) ELSE RolesDue(p)
          BY <3>1, <4>1, Zenon
        <4>3. Due' = [p \in Players |-> IF p = "host" THEN Append(RolesDue("host"), role)
                                        ELSE RolesDue(p)]
          BY <4>2, Zenon DEF Due
        <4> QED
          BY <1>0, <4>3 DEF Due
      <3> QED
        BY <1>2, <2>1, <3>2, <3>3, Ends, Zenon
    <2> QED
      BY <1>4, <1>7, <2>2, <2>3, Zenon
  <1> QED
    BY <1>5, <1>6, <1>7

\* The steps of the room's process.
LEMMA RoomMaps ==
  ASSUME RoomInv, OrderInv, ResetInv, MainStep \/ PhysicsStep
  PROVE  [Room!Next]_Room!vars
  <1>0. /\ performer \in Players /\ "update" \in Events \ Starts
        /\ \A m \in LastEvents : m \in Events \ Starts
    BY Apart DEF RoomInv, TypeOK
  <1>a. \A m \in Events \ Starts :
          /\ DOMAIN ToBoth(m) \subseteq Players
          /\ \A p \in DOMAIN ToBoth(m) : ToBoth(m)[p] \in Events \ Starts
    BY DEF ToBoth
  <1>1. CASE StartRound
    BY <1>1, StartRoundMaps
  <1>2. CASE StartPhysics
    <2> DEFINE sent == [p \in Players \ {performer} |-> "update"]
    <2>1. /\ main \notin {"starting", "next", "ended"} /\ UNCHANGED client
          /\ \E first : Killed(first, sent) \/ Delivered(sent)
          /\ RoomEnds \/ main' = "select"
      BY <1>2, Zenon DEF StartPhysics, Send
    <2>2. DOMAIN sent \subseteq Players /\ \A p \in DOMAIN sent : sent[p] \in Events \ Starts
      BY <1>0
    <2>3. RoomEnds \/ main' \notin {"starting", "next", "ended"}
      BY <2>1
    <2> HIDE DEF sent
    <2> QED
      BY <2>1, <2>2, <2>3, SendMaps, Zenon
  <1>3. CASE SendExit
    <2>1. /\ main \notin {"starting", "next", "ended"} /\ UNCHANGED client
          /\ \E first : Killed(first, ToBoth("game_exit")) \/ Delivered(ToBoth("game_exit"))
          /\ RoomEnds \/ main' = "join"
      BY <1>3, Zenon DEF SendExit, Send
    <2>2. RoomEnds \/ main' \notin {"starting", "next", "ended"}
      BY <2>1
    <2>3. "game_exit" \in Events \ Starts
      BY <1>0 DEF LastEvents
    <2> QED
      BY <1>a, <2>1, <2>2, <2>3, SendMaps, Zenon
  <1>p. physics # "off" => main \notin {"starting", "course", "next", "ended"}
    BY Zenon DEF RoomInv, NoTickBetweenRounds
  <1>4. CASE Tick
    <2>1. /\ main \notin {"starting", "next", "ended"} /\ UNCHANGED client
          /\ \E first : Killed(first, ToBoth("update")) \/ Delivered(ToBoth("update"))
          /\ RoomEnds \/ main' = main
      BY <1>p, <1>4, Zenon DEF Tick, Send
    <2>2. RoomEnds \/ main' \notin {"starting", "next", "ended"}
      BY <2>1
    <2> QED
      BY <1>0, <1>a, <2>1, <2>2, SendMaps, Zenon
  <1>5. CASE Goal
    <2>1. /\ main \notin {"starting", "next", "ended"} /\ UNCHANGED client
          /\ \E first : Killed(first, ToBoth("game_over")) \/ Delivered(ToBoth("game_over"))
          /\ RoomEnds \/ main' = main
      BY <1>p, <1>5, Zenon DEF Goal, Send
    <2>2. RoomEnds \/ main' \notin {"starting", "next", "ended"}
      BY <2>1
    <2>3. "game_over" \in Events \ Starts
      BY <1>0 DEF LastEvents
    <2> QED
      BY <1>a, <2>1, <2>2, <2>3, SendMaps, Zenon
  <1>6. CASE LastTickDone \/ GoalDone
    <2>1. UNCHANGED <<outbox, client, main>>
      BY <1>6, Zenon DEF LastTickDone, GoalDone
    <2>2. Round' = Round
      BY <2>1, Zenon DEF Round, Ended
    <2> QED
      BY <2>1, <2>2, Quietly, Zenon
  <1>7. CASE SelectTimeout \/ \E p \in Players : ServeEnd(p) \/ ServeCommand(p) \/ ServeExit(p)
    <2>1. /\ UNCHANGED <<outbox, client>> /\ main \in {"select", "second"}
          /\ main' \in {"select", "second", "join", "exiting"}
      BY <1>7, Zenon DEF SelectTimeout, ServeEnd, ServeCommand, ServeExit, Turn, AfterTurn
    <2>2. Round = "played" /\ Round' = "played"
      BY <2>1, RoundIs, RoundIsNext
    <2> QED
      BY <2>1, <2>2, Quietly, Zenon
  <1>8. CASE Join
    <2>1. main = "join" /\ main' = "next" /\ UNCHANGED <<outbox, client>>
      BY <1>8, Zenon DEF Join
    <2>2. Round = "played" /\ Round' = "between"
      BY <2>1, RoundIs, RoundIsNext
    <2> QED
      BY <2>1, <2>2, NothingDealt, NobodyMoves, Finishes, Zenon
  <1>9. CASE NextRound
    <2>1. main = "next" /\ main' = "starting" /\ UNCHANGED <<outbox, client>>
      BY <1>9, Zenon DEF NextRound, RoundAskedFor
    <2>2. Round = "between" /\ Round' = "between"
      BY <2>1, RoundIs, RoundIsNext
    <2> QED
      BY <2>1, <2>2, Quietly, Zenon
  <1>10. CASE NoNextRound
    <2>1. main = "next" /\ main' = "ended" /\ UNCHANGED <<outbox, client>>
      BY <1>10, Zenon DEF NoNextRound, NoRoundAskedFor, RoomEnds
    <2>2. Round # "ended" /\ Round' = "ended"
      BY <2>1, RoundIs, RoundIsNext
    <2> QED
      BY <2>1, <2>2, NothingDealt, NobodyMoves, Ends, Zenon
  <1> QED
    BY <1>1, <1>2, <1>3, <1>4, <1>5, <1>6, <1>7, <1>8, <1>9, <1>10, Zenon
    DEF MainStep, PhysicsStep

\* A player that reads, goes or leaves its session.
LEMMA MovesOne ==
  ASSUME RoomInv, NEW p \in Players, NEW place, Moves(p, place)
  PROVE  Place' = [Place EXCEPT ![p] = IF place \in {"await", "prompt"} THEN "out" ELSE place]
  <1>1. \A o \in Players : client'[o] = IF o = p THEN place ELSE client[o]
    BY DEF Moves, RoomInv, TypeOK
  <1>2. Place' = [o \in Players |-> IF o = p
                                    THEN (IF place \in {"await", "prompt"} THEN "out" ELSE place)
                                    ELSE Place[o]]
    BY <1>1 DEF Place
  <1> QED
    BY <1>2 DEF Place

\* A player who closes its connection goes, with all that it has not read.
LEMMA CloseMaps ==
  ASSUME RoomInv, NEW p \in Players, ~Gone(p), NEW unread, Close(p, unread), UNCHANGED main
  PROVE  [Room!Next]_Room!vars
  <1>1. Place' = [Place EXCEPT ![p] = "gone"]
    <2>1. Moves(p, "gone")
      BY Zenon DEF Close
    <2>2. (IF "gone" \in {"await", "prompt"} THEN "out" ELSE "gone") = "gone"
      OBVIOUS
    <2> QED
      BY <2>1, <2>2, MovesOne, Zenon
  <1>2. Place[p] # "gone"
    BY PlaceFacts
  <1>3. RolesDue(p)' = << >> /\ \A o \in Players \ {p} : RolesDue(o)' = RolesDue(o)
    BY TypedQueues, RolesLost
  <1>4. Due' = [Due EXCEPT ![p] = << >>]
    <2>1. Due' = [o \in Players |-> IF o = p THEN << >> ELSE RolesDue(o)]
      BY <1>3, Zenon DEF Due
    <2> QED
      BY <2>1 DEF Due
  <1>5. Round' = Round
    BY Zenon DEF Round, Ended
  <1> QED
    BY <1>1, <1>2, <1>4, <1>5, QuitsOne, Zenon

\* A player who reads a game_start takes up the role it names.
LEMMA GameStartsMaps ==
  ASSUME RoomInv, NEW p \in Players, GameStarts(p)
  PROVE  [Room!Next]_Room!vars
  <1>1. /\ client[p] = "await" /\ outbox[p] # << >> /\ UNCHANGED main
        /\ outbox' = [outbox EXCEPT ![p] = Tail(@)]
    BY Zenon DEF GameStarts, roomVars
  <1>2. PICK r \in Roles : Head(outbox[p]) = Start(r) /\ Moves(p, r)
    BY Zenon DEF GameStarts
  <1>3. Head(outbox[p]) \in Starts /\ RoleIn(Head(outbox[p])) = r
    BY <1>2, StartFacts
  <1>4. /\ RolesDue(p) # << >> /\ Head(RolesDue(p)) = r /\ RolesDue(p)' = Tail(RolesDue(p))
        /\ \A o \in Players \ {p} : RolesDue(o)' = RolesDue(o)
    BY <1>1, <1>3, TypedQueues, RoleRead
  <1>5. Due' = [Due EXCEPT ![p] = Tail(@)]
    <2>1. Due' = [o \in Players |-> IF o = p THEN Tail(RolesDue(p)) ELSE RolesDue(o)]
      BY <1>4, Zenon DEF Due
    <2> QED
      BY <2>1 DEF Due
  <1>6. Place' = [Place EXCEPT ![p] = r]
    <2>1. (IF r \in {"await", "prompt"} THEN "out" ELSE r) = r
      BY DEF Roles
    <2> QED
      BY <1>2, <2>1, MovesOne, Zenon
  <1>7. Place[p] = "out" /\ Due[p] = RolesDue(p)
    BY <1>1 DEF Place, Due
  <1>8. Round' = Round
    BY <1>1, Zenon DEF Round, Ended
  <1> QED
    BY <1>4, <1>5, <1>6, <1>7, <1>8, JoinsOne, Zenon

\* The steps of a player's threads.
LEMMA ClientMaps ==
  ASSUME RoomInv, OrderInv, NEW p \in Players,
         ReceiverStep(p) \/ SenderStep(p) \/ WindowStep(p) \/ ClientDies(p)
  PROVE  [Room!Next]_Room!vars
  <1>0. UNCHANGED main => Round' = Round
    BY Zenon DEF Round, Ended
  <1>1. CASE ReceiverStep(p)
    <2>1. UNCHANGED <<client, main>> /\ receiver[p]
      BY <1>1, Zenon DEF ReceiverStep, ReceiveOther, ReceiveLast, roomVars
    <2>2. \/ UNCHANGED outbox
          \/ outbox[p] # << >> /\ outbox' = [outbox EXCEPT ![p] = Tail(@)]
      BY <1>1, Zenon DEF ReceiverStep, ReceiveOther, ReceiveLast
    <2>3. CASE outbox[p] # << >> /\ outbox' = [outbox EXCEPT ![p] = Tail(@)]
      <3>1. Head(outbox[p]) \notin Starts
        <4>1. StartsKept(outbox[p], receiver[p])
          BY Zenon DEF OrderInv, StartsInv
        <4>2. outbox[p] \in Seq(Events)
          BY PlayerFacts
        <4>3. 1 \in DOMAIN outbox[p] /\ Head(outbox[p]) = outbox[p][1] /\ 1 - 1 = 0 /\ 0 \in 0..0
          BY <2>3, <4>2
        <4>4. Reads(outbox[p], receiver[p], 0)
          <5>1. \A j \in DOMAIN outbox[p] : ~(0 < j /\ j <= 0)
            BY <4>2
          <5> QED
            BY <2>1, <4>3, <5>1, Zenon DEF Reads
        <4> QED
          BY <4>1, <4>3, <4>4, Zenon DEF StartsKept
      <3>2. \A o \in Players : RolesDue(o)' = RolesDue(o)
        BY <2>3, <3>1, TypedQueues, RoleRead
      <3>3. Due' = Due
        BY <3>2, Zenon DEF Due
      <3> QED
        BY <1>0, <2>1, <3>3, NobodyMoves, Stutters, Zenon
    <2>4. CASE UNCHANGED outbox
      BY <1>0, <2>1, <2>4, Quietly, Zenon
    <2> QED
      BY <2>2, <2>3, <2>4
  <1>2. CASE SenderStep(p)
    <2>1. UNCHANGED <<outbox, client, main>>
      BY <1>2, Zenon DEF SenderStep, SendTilt, SenderEnds, roomVars
    <2> QED
      BY <1>0, <2>1, Quietly, Zenon
  <1>3. CASE GameStarts(p)
    BY <1>3, GameStartsMaps
  <1>4. CASE GameStartFails(p)
    <2>1. UNCHANGED main /\ ~Gone(p) /\ \E unread : Close(p, unread)
      BY <1>4, Zenon DEF GameStartFails, AwaitFails, Gone, roomVars
    <2> QED
      BY <2>1, CloseMaps, Zenon
  <1>5. CASE SessionEnds(p)
    <2>1. UNCHANGED <<outbox, main>> /\ Playing(p) /\ Moves(p, AfterSession(p))
      BY <1>5, Zenon DEF SessionEnds, roomVars
    <2>2. Place' = [Place EXCEPT ![p] = "out"]
      <3>1. AfterSession(p) \in {"await", "prompt"}
        BY DEF AfterSession
      <3> QED
        BY <2>1, <3>1, MovesOne, Zenon
    <2>3. Place[p] \in Roles
      BY <2>1, PlaceFacts
    <2> QED
      BY <1>0, <2>1, <2>2, <2>3, NothingDealt, LeavesOne, Zenon
  <1>6. CASE ClientDies(p)
    <2>1. UNCHANGED main /\ ~Gone(p) /\ \E unread : Close(p, unread)
      BY <1>6, Zenon DEF ClientDies, roomVars
    <2> QED
      BY <2>1, CloseMaps, Zenon
  <1> QED
    BY <1>1, <1>2, <1>3, <1>4, <1>5, <1>6, Zenon DEF WindowStep

\* What the user does on the windows moves no player.
LEMMA UserMaps ==
  ASSUME RoomInv, UserStep
  PROVE  [Room!Next]_Room!vars
  <1>0. UNCHANGED main => Round' = Round
    BY Zenon DEF Round, Ended
  <1>1. CASE PlayAgain
    <2>1. /\ UNCHANGED <<outbox, main>> /\ client["host"] = "prompt" /\ Moves("host", "await")
      BY <1>1, Zenon DEF PlayAgain, AskForRound, roomVars
    <2>2. Place' = [Place EXCEPT !["host"] = "out"]
      <3>1. "await" \in {"await", "prompt"}
        OBVIOUS
      <3> QED
        BY <2>1, <3>1, MovesOne, TwoPlayers, Zenon
    <2>3. Place' = Place
      BY <2>1, <2>2 DEF Place
    <2> QED
      BY <1>0, <2>1, <2>3, NothingDealt, Stutters, Zenon
  <1>2. CASE HostLeaves
    <2>1. UNCHANGED main /\ ~Gone("host") /\ \E unread : Close("host", unread)
      BY <1>2, Zenon DEF HostLeaves, LeavePrompt, Gone, roomVars
    <2> QED
      BY <2>1, CloseMaps, TwoPlayers, Zenon
  <1>3. CASE \E p \in Players : PressExit(p)
    <2>1. UNCHANGED <<outbox, client, main>>
      BY <1>3, Zenon DEF PressExit, roomVars
    <2> QED
      BY <1>0, <2>1, Quietly, Zenon
  <1> QED
    BY <1>1, <1>2, <1>3, Zenon DEF UserStep

\* Gone for good.
LEMMA ResetStep == RoomInv /\ ResetInv /\ [Next]_vars => ResetInv'
  <1> SUFFICES ASSUME RoomInv, ResetInv, [Next]_vars PROVE ResetInv'
    OBVIOUS
  <1>0. DOMAIN client = Players /\ reset \subseteq Players
    BY DEF RoomInv, TypeOK
  <1>1. CASE UNCHANGED <<reset, client>>
    BY <1>1, Zenon DEF ResetInv, Gone
  <1>2. ASSUME NEW p \in Players, NEW place, client[p] # "gone", Moves(p, place), UNCHANGED reset
        PROVE  ResetInv'
    <2>1. \A o \in Players : o # p => client'[o] = client[o]
      BY <1>0, <1>2 DEF Moves
    <2>2. p \notin reset
      BY <1>2, Zenon DEF ResetInv, Gone
    <2> QED
      BY <1>0, <1>2, <2>1, <2>2, Zenon DEF ResetInv, Gone
  <1>3. CASE UNCHANGED client /\ \E first, sent : Killed(first, sent) \/ Delivered(sent)
    BY <1>3, ResetSent, Zenon
  <1>4. ASSUME NEW p \in Players, NEW unread, Close(p, unread) PROVE ResetInv'
    BY <1>0, <1>4, ResetClosed
  <1>5. CASE MainStep \/ PhysicsStep
    <2>1. \/ UNCHANGED <<reset, client>>
          \/ UNCHANGED client /\ \E first, sent : Killed(first, sent) \/ Delivered(sent)
      BY <1>5, Zenon
      DEF MainStep, PhysicsStep, StartRound, StartPhysics, SendExit, SelectTimeout, Join, NextRound,
          NoNextRound, ServeEnd, ServeCommand, ServeExit, Tick, LastTickDone, Goal, GoalDone, Send
    <2> QED
      BY <1>1, <1>3, <2>1
  <1>6. CASE UserStep
    <2>1. CASE PlayAgain
      <3>1. client["host"] # "gone" /\ Moves("host", "await") /\ UNCHANGED reset
        BY <2>1, Zenon DEF PlayAgain, AskForRound
      <3> QED
        BY <1>2, <3>1, TwoPlayers, Zenon
    <2>2. CASE HostLeaves
      BY <1>4, <2>2, TwoPlayers, Zenon DEF HostLeaves, LeavePrompt
    <2>3. CASE \E p \in Players : PressExit(p)
      BY <1>1, <2>3, Zenon DEF PressExit
    <2> QED
      BY <1>6, <2>1, <2>2, <2>3, Zenon DEF UserStep
  <1>7. ASSUME NEW p \in Players,
               ReceiverStep(p) \/ SenderStep(p) \/ WindowStep(p) \/ ClientDies(p)
        PROVE  ResetInv'
    <2>1. CASE ReceiverStep(p) \/ SenderStep(p)
      <3>1. UNCHANGED <<reset, client>>
        BY <2>1, Zenon DEF ReceiverStep, SenderStep, ReceiveOther, ReceiveLast, SendTilt, SenderEnds
      <3> QED
        BY <1>1, <3>1
    <2>2. CASE GameStarts(p)
      <3>1. client[p] # "gone" /\ UNCHANGED reset /\ \E place : Moves(p, place)
        BY <2>2, Zenon DEF GameStarts
      <3> QED
        BY <1>2, <3>1
    <2>3. CASE GameStartFails(p)
      BY <1>4, <2>3, Zenon DEF GameStartFails, AwaitFails
    <2>4. CASE SessionEnds(p)
      <3>1. client[p] # "gone" /\ Moves(p, AfterSession(p)) /\ UNCHANGED reset
        BY <2>4, Zenon DEF SessionEnds, Playing, Roles
      <3> QED
        BY <1>2, <3>1
    <2>5. CASE ClientDies(p)
      BY <1>4, <2>5, Zenon DEF ClientDies
    <2> QED
      BY <1>7, <2>1, <2>2, <2>3, <2>4, <2>5, Zenon DEF WindowStep
  <1>8. CASE UNCHANGED vars
    BY <1>1, <1>8, Zenon DEF vars
  <1> QED
    BY <1>5, <1>6, <1>7, <1>8, Zenon DEF Next

\* The room and its clients keep RoomSpec's promise, however long the queues:
\* rounds begin one after the other, each deals the two roles once, and a role
\* that has been dealt is taken up once, unless the player goes.
THEOREM GyroRoomPromise == Spec => RoomPromise
  <1>1. Init => Room!Init /\ ResetInv
    <2> SUFFICES ASSUME Init PROVE Room!Init /\ ResetInv
      OBVIOUS
    <2>1. /\ main = "starting" /\ reset = {}
          /\ \A p \in Players : outbox[p] = << >> /\ client[p] = "await"
      BY Zenon DEF Init
    <2>2. Round = "between"
      BY <2>1, RoundIs
    <2>3. Due = [p \in Players |-> << >>]
      BY <2>1, RolesFacts, Zenon DEF Due, RolesDue
    <2>4. Place = [p \in Players |-> "out"]
      BY <2>1 DEF Place
    <2>5. Room!Players = Players
      BY DEF Room!Players, Players
    <2>6. Room!Init
      BY <2>2, <2>3, <2>4, <2>5, Zenon DEF Room!Init, Round, Due, Place
    <2> QED
      BY <2>1, <2>6, Zenon DEF ResetInv
  <1>2. RoomInv /\ OrderInv /\ ResetInv /\ [Next]_vars => [Room!Next]_Room!vars
    <2> SUFFICES ASSUME RoomInv, OrderInv, ResetInv, [Next]_vars PROVE [Room!Next]_Room!vars
      OBVIOUS
    <2>1. CASE UNCHANGED vars
      <3>1. UNCHANGED <<outbox, client, main>>
        BY <2>1, Zenon DEF vars
      <3>2. Round' = Round
        BY <3>1, Zenon DEF Round, Ended
      <3> QED
        BY <3>1, <3>2, Quietly, Zenon
    <2> QED
      BY <2>1, RoomMaps, UserMaps, ClientMaps, Zenon DEF Next
  <1>3. RoomInv /\ ResetInv /\ [Next]_vars => ResetInv'
    BY ResetStep
  <1> QED
    BY <1>1, <1>2, <1>3, RoomOrdered, PTL DEF Spec, RoomPromise, Room!Spec
=============================================================================
