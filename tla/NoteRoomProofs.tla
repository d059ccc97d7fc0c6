--------------------------- MODULE NoteRoomProofs ---------------------------
(***************************************************************************)
(* The room and its clients stay in step over all the rounds of NotePi,    *)
(* for every number of attempts, however far the guest is behind, with     *)
(* microphones that fail and programs that are killed; the last part       *)
(* proves that they implement RoomSpec.                                    *)
(***************************************************************************)
EXTENDS NoteRoom, RoomNetProofs, SequenceTheorems, TLAPS

-----------------------------------------------------------------------------
(* Where a player is in the protocol: at its place, if it has read all that *)
(* was sent, or after the last event it has not read.                       *)

\* What the room may send next to p at a place, or after an event.
May(p, where) ==
  CASE where = "await" -> Starts
    [] where = "answer" -> Results
    [] where \in {"last", "note_result:solved"} -> {"game_over"}
    [] where \in {"watching", Start("COMMUNICATOR"), "note_result:unsolved"} ->
          Results \cup {"game_over"}
    [] where = "game_over" -> IF p = "host" THEN {} ELSE Starts
    [] OTHER -> {}

Where(place, queue) == IF queue = << >> THEN place ELSE queue[Len(queue)]

\* Each event of the queue is one that may come after the one before it.
InStep(p, place, queue) ==
  \A i \in 1..Len(queue) : queue[i] \in May(p, IF i = 1 THEN place ELSE queue[i - 1])

LEMMA EmptyLen ==
  ASSUME NEW S, NEW s \in Seq(S)
  PROVE  s = << >> <=> Len(s) = 0
  BY EmptySeq, Zenon

\* An event that may be sent keeps the player in step.
LEMMA SentInStep ==
  ASSUME NEW p, NEW place, NEW queue \in Seq(Events), InStep(p, place, queue),
         NEW event \in Events, event \in May(p, Where(place, queue))
  PROVE  /\ InStep(p, place, Append(queue, event))
         /\ Where(place, Append(queue, event)) = event
         /\ Append(queue, event) \in Seq(Events)
         /\ queue # << >> => Head(Append(queue, event)) = Head(queue)
  <1>1. /\ Len(Append(queue, event)) = Len(queue) + 1 /\ Len(queue) \in Nat
        /\ \A i \in 1..Len(queue) : Append(queue, event)[i] = queue[i]
        /\ Append(queue, event)[Len(queue) + 1] = event
    OBVIOUS
  <1>2. ASSUME NEW i \in 1..Len(queue) + 1
        PROVE  Append(queue, event)[i] \in
                   May(p, IF i = 1 THEN place ELSE Append(queue, event)[i - 1])
    <2>1. CASE i = Len(queue) + 1
      <3>1. CASE queue = << >>
        BY <1>1, <2>1, <3>1 DEF Where
      <3>2. CASE queue # << >>
        <4>1. i # 1 /\ i - 1 \in 1..Len(queue)
          BY <2>1, <3>2
        <4> QED
          BY <1>1, <2>1, <3>2, <4>1 DEF Where
      <3> QED
        BY <3>1, <3>2
    <2>2. CASE i \in 1..Len(queue)
      <3>1. i # 1 => i - 1 \in 1..Len(queue)
        BY <2>2
      <3> QED
        BY <1>1, <2>2, <3>1 DEF InStep
    <2> QED
      BY <1>1, <2>1, <2>2
  <1> QED
    BY <1>1, <1>2 DEF InStep, Where

\* So does reading one, at a place where all may come that may come after it.
LEMMA ReadInStep ==
  ASSUME NEW p, NEW place, NEW queue \in Seq(Events), InStep(p, place, queue),
         queue # << >>, NEW next, Tail(queue) # << >> => May(p, Head(queue)) \subseteq May(p, next)
  PROVE  /\ Head(queue) \in May(p, place)
         /\ InStep(p, next, Tail(queue))
         /\ Where(next, Tail(queue)) =
               IF Tail(queue) = << >> THEN next ELSE Where(place, queue)
         /\ Tail(queue) = << >> => Where(place, queue) = Head(queue)
         /\ Tail(queue) \in Seq(Events)
         /\ Tail(queue) # << >> => Head(Tail(queue)) \in May(p, Head(queue))
  <1>1. /\ Len(queue) \in Nat /\ Len(queue) # 0
        /\ Len(Tail(queue)) = Len(queue) - 1
        /\ \A i \in 1..Len(queue) - 1 : Tail(queue)[i] = queue[i + 1]
        /\ Head(queue) = queue[1]
        /\ Tail(queue) \in Seq(Events)
    OBVIOUS
  <1>0. Tail(queue) = << >> <=> Len(queue) = 1
    <2>1. Tail(queue) = << >> <=> Len(Tail(queue)) = 0
      BY <1>1, EmptyLen
    <2> QED
      BY <1>1, <2>1
  <1>2. Head(queue) \in May(p, place)
    BY <1>1 DEF InStep
  <1>3. ASSUME Tail(queue) # << >>
        PROVE  queue[2] \in May(p, queue[1]) /\ Head(Tail(queue)) = queue[2]
    <2>1. 2 \in 1..Len(queue) /\ 1 \in 1..Len(queue) - 1
      BY <1>1, <1>3
    <2> QED
      BY <1>1, <1>3, <2>1 DEF InStep
  <1>4. ASSUME NEW i \in 1..Len(Tail(queue))
        PROVE  Tail(queue)[i] \in May(p, IF i = 1 THEN next ELSE Tail(queue)[i - 1])
    <2>1. CASE i = 1
      <3>1. Tail(queue) # << >> /\ 1 \in 1..Len(queue) - 1 /\ 1 + 1 = 2
        BY <1>0, <1>1
      <3>2. Tail(queue)[1] = queue[2]
        BY <1>1, <3>1
      <3>3. queue[2] \in May(p, next)
        BY <1>1, <1>3, <3>1, Zenon
      <3> QED
        BY <2>1, <3>2, <3>3
    <2>2. CASE i # 1
      <3>1. /\ i + 1 \in 1..Len(queue) /\ i + 1 # 1 /\ (i + 1) - 1 = i
            /\ i \in 1..Len(queue) - 1 /\ i - 1 \in 1..Len(queue) - 1 /\ (i - 1) + 1 = i
        BY <1>1, <2>2
      <3>2. queue[i + 1] \in May(p, queue[i])
        BY <3>1 DEF InStep
      <3> QED
        BY <1>1, <2>2, <3>1, <3>2
    <2> QED
      BY <2>1, <2>2
  <1>5. Where(next, Tail(queue)) = IF Tail(queue) = << >> THEN next ELSE Where(place, queue)
    BY <1>1 DEF Where
  <1>6. Tail(queue) = << >> => Where(place, queue) = Head(queue)
    BY <1>0, <1>1 DEF Where
  <1>7. InStep(p, next, Tail(queue))
    BY <1>4, Zenon DEF InStep
  <1>8. Tail(queue) # << >> => Head(Tail(queue)) \in May(p, Head(queue))
    BY <1>1, <1>3, Zenon
  <1> QED
    BY <1>1, <1>2, <1>5, <1>6, <1>7, <1>8, Zenon

-----------------------------------------------------------------------------
(* The invariant. *)

RoomType ==
  /\ performer \in Players
  /\ main \in {"starting", "guess", "over", "next", "ended"}
  /\ attempt \in 0..MaxAttempts
  /\ solved \in BOOLEAN

NetType ==
  /\ inbox \in [Players -> Seq(Commands)]
  /\ outbox \in [Players -> Seq(Events)]
  /\ reset \in SUBSET Players

ClientType ==
  /\ client \in [Players -> Places]
  /\ tries \in [Players -> 0..MaxAttempts]
  /\ mute \in SUBSET Players

Sound(p) == p \notin mute /\ client[p] # "gone"
At(p) == Where(client[p], outbox[p])
Only(queue, m) == queue # << >> /\ Head(queue) = m /\ Tail(queue) = << >>

\* Where the players are while the room is at main.
Station(p) ==
  /\ main = "starting" => At(p) \in {"await", "game_over"}
  /\ main = "next" => At(p) \in {"await", "prompt", "game_over"}
  /\ main = "guess" /\ p = performer =>
        \/ At(p) = Start("PERFORMER")
        \/ outbox[p] = << >> /\ client[p] \in {"ready", "idle", "recording", "answer"}
        \/ client[p] = "answer" /\ Only(outbox[p], "note_result:unsolved")
  /\ main = "over" /\ p = performer =>
        \/ client[p] = "last" /\ outbox[p] = << >>
        \/ client[p] = "answer" /\ Only(outbox[p], "note_result:solved")
  /\ main = "guess" /\ p # performer =>
        At(p) \in {Start("COMMUNICATOR"), "watching", "note_result:unsolved"}
  /\ main = "over" /\ p # performer =>
        At(p) \in {Start("COMMUNICATOR"), "watching"} \cup Results

Pending(p) ==
  /\ p \notin mute
  /\ \E guess \in Guesses : Only(inbox[p], guess)
  /\ client[p] \in {"answer", "gone"} /\ outbox[p] = << >>
  /\ attempt = tries[p] - 1
  /\ Head(inbox[p]) = "wrong" => tries[p] < MaxAttempts

RoundAsked(p) ==
  /\ p = "host" /\ Only(inbox[p], "start_game")
  /\ client[p] \in {"await", "gone"} /\ outbox[p] = << >>

\* What a command that the room has not read may be.
Commanded(p) ==
  inbox[p] # << >> =>
     \/ main = "guess" /\ p = performer /\ Pending(p)
     \/ main = "guess" /\ p = performer /\ p \in mute /\ RoundAsked(p) /\ attempt = 0
     \/ main = "next" /\ RoundAsked(p)

\* The room's attempts are the performer's guesses.
Counted(p) ==
  /\ main = "guess" /\ p = performer /\ Sound(p) /\ inbox[p] = << >> =>
        /\ At(p) # "answer"
        /\ attempt = IF At(p) = Start("PERFORMER") THEN 0 ELSE tries[p]
  /\ main = "over" /\ p = performer /\ solved => attempt = tries[p]

\* The guesses of a performer, which has one left while it records.
Tried(p) ==
  /\ client[p] = "ready" => tries[p] = 0
  /\ client[p] \in {"ready", "idle", "recording"} => tries[p] < MaxAttempts
  /\ client[p] = "answer" /\ outbox[p] # << >> /\ Head(outbox[p]) = "note_result:unsolved" =>
        /\ Tail(outbox[p]) = << >> /\ tries[p] < MaxAttempts
        /\ Ended \/ (main = "guess" /\ p = performer)
  /\ client[p] = "answer" /\ Only(outbox[p], "note_result:solved") =>
        Ended \/ (main = "over" /\ p = performer)

\* A player whose microphone has failed, and the room that waits for it.
Muted(p) ==
  p \in mute /\ client[p] # "gone" =>
     /\ client[p] \in {"await", "prompt"}
     /\ Ended \/ (main = "guess" /\ p = performer)
     /\ \/ outbox[p] = << >> /\ (main = "guess" => attempt = 0)
        \/ /\ Only(outbox[p], "note_result:unsolved")
           /\ client[p] = "await" /\ inbox[p] = << >>
     /\ client[p] = "prompt" => inbox[p] = << >>

PlayerInv(p) ==
  /\ client[p] = "gone" => outbox[p] = << >>
  /\ Sound(p) => InStep(p, client[p], outbox[p]) /\ Station(p)
  /\ Commanded(p) /\ Counted(p) /\ Tried(p) /\ Muted(p)

RoomFacts ==
  /\ main = "guess" => ~solved
  /\ main = "starting" => client["host"] \in {"await", "gone"} /\ outbox["host"] = << >>
  /\ client["guest"] # "prompt"

TypeInv == RoomType /\ NetType /\ ClientType

Inv == TypeInv /\ RoomFacts /\ \A p \in Players : PlayerInv(p)

-----------------------------------------------------------------------------
(* What the lemmas on the steps use. *)

LEMMA MayBe ==
  /\ Starts = {Start("PERFORMER"), Start("COMMUNICATOR")}
  /\ \A p : /\ May(p, "await") = Starts /\ May(p, "answer") = Results
            /\ May(p, "last") = {"game_over"} /\ May(p, "note_result:solved") = {"game_over"}
            /\ May(p, "watching") = Results \cup {"game_over"}
            /\ May(p, "note_result:unsolved") = Results \cup {"game_over"}
            /\ May(p, Start("COMMUNICATOR")) = Results \cup {"game_over"}
            /\ May(p, Start("PERFORMER")) = {} /\ May(p, "prompt") = {}
            /\ May(p, "ready") = {} /\ May(p, "idle") = {} /\ May(p, "recording") = {}
  /\ May("host", "game_over") = {} /\ May("guest", "game_over") = Starts
  <1>1. Starts = {Start("PERFORMER"), Start("COMMUNICATOR")}
    BY DEF Starts, Roles
  <1>2. ASSUME NEW p
        PROVE  /\ May(p, "await") = Starts /\ May(p, "answer") = Results
               /\ May(p, "last") = {"game_over"} /\ May(p, "note_result:solved") = {"game_over"}
               /\ May(p, "watching") = Results \cup {"game_over"}
               /\ May(p, "note_result:unsolved") = Results \cup {"game_over"}
               /\ May(p, Start("COMMUNICATOR")) = Results \cup {"game_over"}
               /\ May(p, Start("PERFORMER")) = {} /\ May(p, "prompt") = {}
               /\ May(p, "ready") = {} /\ May(p, "idle") = {} /\ May(p, "recording") = {}
    BY DEF May, Start
  <1>3. May("host", "game_over") = {} /\ May("guest", "game_over") = Starts
    BY DEF May, Start
  <1> QED
    BY <1>1, <1>2, <1>3

LEMMA EmptyQueue ==
  ASSUME NEW p, NEW place
  PROVE  InStep(p, place, << >>) /\ Where(place, << >>) = place
  BY DEF InStep, Where

\* Nothing follows a place, or an event, after which nothing may come.
LEMMA HeadInStep ==
  ASSUME NEW p, NEW place, NEW queue \in Seq(Events), InStep(p, place, queue), queue # << >>
  PROVE  Head(queue) \in May(p, place) /\ Where(place, queue) \in Events
  <1>1. Len(queue) \in Nat /\ Len(queue) # 0 /\ Head(queue) = queue[1] /\ queue[Len(queue)] \in Events
    OBVIOUS
  <1> QED
    BY <1>1 DEF InStep, Where

\* An event, or a command, at the end of a queue.
LEMMA Appended ==
  ASSUME NEW S, NEW queue \in Seq(S), NEW m \in S
  PROVE  /\ Append(queue, m) \in Seq(S) /\ Append(queue, m) # << >>
         /\ queue = << >> => Only(Append(queue, m), m)
         /\ queue # << >> => Head(Append(queue, m)) = Head(queue) /\ Tail(Append(queue, m)) # << >>
         /\ m \notin {"tilt", "update"} => Queue(queue, m) = Append(queue, m)
  <1>0. Append(queue, m) \in Seq(S) /\ Len(Append(queue, m)) = Len(queue) + 1 /\ Len(queue) \in Nat
    OBVIOUS
  <1>1. Append(queue, m) \in Seq(S) /\ Append(queue, m) # << >>
    BY <1>0, EmptyLen
  <1>2. ASSUME queue = << >> PROVE Only(Append(queue, m), m)
    <2>1. Len(Append(queue, m)) = 1 /\ Append(queue, m)[1] = m
      BY <1>2
    <2>2. Tail(Append(queue, m)) \in Seq(S) /\ Len(Tail(Append(queue, m))) = 0
      BY <1>1, <2>1
    <2>3. Tail(Append(queue, m)) = << >>
      BY <2>2, EmptyLen
    <2> QED
      BY <1>1, <2>1, <2>3 DEF Only
  <1>3. ASSUME queue # << >>
        PROVE  Head(Append(queue, m)) = Head(queue) /\ Tail(Append(queue, m)) # << >>
    <2>1. /\ Len(queue) \in Nat \ {0} /\ Len(Append(queue, m)) = Len(queue) + 1
          /\ Append(queue, m)[1] = queue[1]
      BY <1>3, EmptyLen
    <2>2. Tail(Append(queue, m)) \in Seq(S) /\ Len(Tail(Append(queue, m))) = Len(queue)
      BY <1>1, <2>1
    <2> QED
      BY <1>1, <1>3, <2>1, <2>2, EmptyLen
  <1>4. m \notin {"tilt", "update"} => Queue(queue, m) = Append(queue, m)
    BY DEF Queue
  <1> QED
    BY <1>1, <1>2, <1>3, <1>4

-----------------------------------------------------------------------------
(* The steps of the clients. *)

LEMMA InvStarts == Init => Inv
  <1> SUFFICES ASSUME Init PROVE Inv
    OBVIOUS
  <1>1. TypeInv
    <2>1. RoomType
      <3>1. 0 \in 0..MaxAttempts
        BY MaxAttemptsAssumption
      <3> QED
        BY <3>1, Zenon DEF Init, RoomType, Players
    <2>2. NetType
      <3>1. << >> \in Seq(Commands) /\ << >> \in Seq(Events)
        OBVIOUS
      <3> QED
        BY <3>1, Zenon DEF Init, NetType
    <2>3. ClientType
      BY MaxAttemptsAssumption DEF Init, ClientType, Places
    <2> QED
      BY <2>1, <2>2, <2>3 DEF TypeInv
  <1>2. RoomFacts
    BY DEF Init, RoomFacts, Players
  <1>3. ASSUME NEW p \in Players PROVE PlayerInv(p)
    <2>1. /\ client[p] = "await" /\ outbox[p] = << >> /\ inbox[p] = << >>
          /\ main = "starting" /\ mute = {}
      BY DEF Init
    <2>2. InStep(p, client[p], outbox[p]) /\ At(p) = "await"
      BY <2>1, EmptyQueue DEF At
    <2> QED
      BY <2>1, <2>2
         DEF PlayerInv, Sound, Station, Commanded, Counted, Tried, Muted, Only
  <1> QED
    BY <1>1, <1>2, <1>3 DEF Inv

\* Only p moves, and the room does not see it.
OnlyMoves(p) ==
  /\ UNCHANGED roomVars
  /\ \A q \in Players \ {p} :
        /\ client'[q] = client[q] /\ outbox'[q] = outbox[q] /\ inbox'[q] = inbox[q]
        /\ tries'[q] = tries[q] /\ (q \in mute' <=> q \in mute)

LEMMA PlayerMoves ==
  ASSUME Inv, NEW p \in Players, OnlyMoves(p), (NetType /\ ClientType)', RoomFacts',
         PlayerInv(p)'
  PROVE  Inv'
  <1>1. RoomType'
    BY DEF Inv, TypeInv, RoomType, OnlyMoves, roomVars
  <1>2. ASSUME NEW q \in Players, q # p PROVE PlayerInv(q)'
    <2>1. /\ client'[q] = client[q] /\ outbox'[q] = outbox[q] /\ inbox'[q] = inbox[q]
          /\ tries'[q] = tries[q] /\ (q \in mute' <=> q \in mute)
          /\ performer' = performer /\ main' = main /\ attempt' = attempt /\ solved' = solved
      BY <1>2 DEF OnlyMoves, roomVars
    <2>2. PlayerInv(q)
      BY DEF Inv
    <2>3. /\ Sound(q)' <=> Sound(q)
          /\ At(q)' = At(q)
          /\ Ended' <=> Ended
      BY <2>1 DEF Sound, At, Ended
    <2>4. Station(q) => Station(q)'
      BY <2>1, <2>3 DEF Station
    <2>5. Commanded(q) => Commanded(q)'
      BY <2>1 DEF Commanded, Pending, RoundAsked
    <2>6. Counted(q) => Counted(q)'
      BY <2>1, <2>3 DEF Counted
    <2>7. Tried(q) => Tried(q)'
      BY <2>1, <2>3 DEF Tried
    <2>8. Muted(q) => Muted(q)'
      BY <2>1, <2>3 DEF Muted
    <2> QED
      BY <2>1, <2>2, <2>3, <2>4, <2>5, <2>6, <2>7, <2>8 DEF PlayerInv
  <1> QED
    BY <1>1, <1>2 DEF Inv, TypeInv

\* The socket of p is closed, or its program killed.
LEMMA ClientCloses ==
  ASSUME Inv, NEW p \in Players, NEW unread, Close(p, unread),
         UNCHANGED <<roomVars, inbox, tries, mute>>
  PROVE  Inv'
  <1>0. NetType /\ ClientType /\ RoomFacts /\ PlayerInv(p)
    BY DEF Inv, TypeInv
  <1>1. /\ client' = [client EXCEPT ![p] = "gone"]
        /\ outbox' = [outbox EXCEPT ![p] = << >>]
        /\ reset' \in SUBSET Players
        /\ inbox' = inbox /\ tries' = tries /\ mute' = mute
        /\ performer' = performer /\ main' = main /\ attempt' = attempt /\ solved' = solved
    BY <1>0 DEF Close, Moves, NetType, roomVars
  <1>2. client'[p] = "gone" /\ outbox'[p] = << >>
    BY <1>0, <1>1 DEF NetType, ClientType
  <1>3. (NetType /\ ClientType)'
    <2>1. << >> \in Seq(Events)
      OBVIOUS
    <2> QED
      BY <1>0, <1>1, <2>1 DEF NetType, ClientType, Places
  <1>4. OnlyMoves(p)
    BY <1>0, <1>1 DEF OnlyMoves, roomVars, NetType, ClientType
  <1>5. RoomFacts'
    BY <1>0, <1>1 DEF RoomFacts, NetType, ClientType, Players
  <1>6. PlayerInv(p)'
    <2>1. Commanded(p)'
      BY <1>0, <1>1, <1>2 DEF PlayerInv, Commanded, Pending, RoundAsked
    <2> QED
      BY <1>0, <1>1, <1>2, <2>1 DEF PlayerInv, Sound, Counted, Tried, Muted
  <1> QED
    BY <1>3, <1>4, <1>5, <1>6, PlayerMoves

\* p reads one event, and goes on at next.
Reads(p, next) ==
  /\ outbox[p] # << >>
  /\ client' = [client EXCEPT ![p] = next]
  /\ outbox' = [outbox EXCEPT ![p] = Tail(@)]
  /\ UNCHANGED <<roomVars, inbox, reset, mute>>

LEMMA EventRead ==
  ASSUME Inv, NEW p \in Players, Sound(p), NEW next \in Places \ {"gone"}, Reads(p, next),
         NEW t \in 0..MaxAttempts, tries' = [tries EXCEPT ![p] = t],
         Tail(outbox[p]) # << >> => May(p, Head(outbox[p])) \subseteq May(p, next)
  PROVE  /\ NetType' /\ ClientType' /\ OnlyMoves(p)
         /\ client'[p] = next /\ outbox'[p] = Tail(outbox[p]) /\ tries'[p] = t
         /\ inbox'[p] = << >> /\ p \notin mute'
         /\ Head(outbox[p]) \in May(p, client[p])
         /\ InStep(p, next, outbox'[p])
         /\ outbox'[p] = << >> => At(p) = Head(outbox[p]) /\ At(p)' = next
         /\ outbox'[p] # << >> => At(p)' = At(p) /\ May(p, Head(outbox[p])) # {}
  <1>0. NetType /\ ClientType /\ PlayerInv(p) /\ outbox[p] # << >> /\ outbox[p] \in Seq(Events)
    BY DEF Inv, TypeInv, NetType, Reads
  <1>1. /\ client' = [client EXCEPT ![p] = next]
        /\ outbox' = [outbox EXCEPT ![p] = Tail(outbox[p])]
        /\ inbox' = inbox /\ mute' = mute /\ reset' = reset
        /\ UNCHANGED roomVars
    BY DEF Reads
  <1>2. /\ client'[p] = next /\ outbox'[p] = Tail(outbox[p]) /\ tries'[p] = t
        /\ p \notin mute'
    BY <1>0, <1>1 DEF NetType, ClientType, Sound
  <1>3. InStep(p, client[p], outbox[p])
    BY <1>0 DEF PlayerInv
  <1>4. /\ Head(outbox[p]) \in May(p, client[p])
        /\ InStep(p, next, Tail(outbox[p]))
        /\ Where(next, Tail(outbox[p])) =
              IF Tail(outbox[p]) = << >> THEN next ELSE Where(client[p], outbox[p])
        /\ Tail(outbox[p]) = << >> => Where(client[p], outbox[p]) = Head(outbox[p])
        /\ Tail(outbox[p]) \in Seq(Events)
        /\ Tail(outbox[p]) # << >> => Head(Tail(outbox[p])) \in May(p, Head(outbox[p]))
    BY <1>0, <1>3, ReadInStep
  <1>5. NetType' /\ ClientType'
    BY <1>0, <1>1, <1>4 DEF NetType, ClientType
  <1>6. OnlyMoves(p)
    BY <1>0, <1>1 DEF OnlyMoves, NetType, ClientType
  <1>7. inbox'[p] = << >>
    BY <1>0, <1>1 DEF PlayerInv, Commanded, Pending, RoundAsked
  <1>8. At(p)' = Where(next, Tail(outbox[p])) /\ At(p) = Where(client[p], outbox[p])
    BY <1>2 DEF At
  <1> QED
    BY <1>2, <1>4, <1>5, <1>6, <1>7, <1>8

\* A session begins: the game_start of a performer is the last event there is.
LEMMA GameStartsKeeps ==
  ASSUME Inv, NEW p \in Players, GameStarts(p)
  PROVE  Inv'
  <1>0. /\ TypeInv /\ RoomFacts /\ PlayerInv(p)
        /\ client[p] = "await" /\ outbox[p] # << >> /\ Head(outbox[p]) \in Starts
    BY DEF Inv, GameStarts
  <1> DEFINE next == IF Head(outbox[p]) = Start("PERFORMER") THEN "ready" ELSE "watching"
  <1>1. Sound(p)
    BY <1>0 DEF PlayerInv, Muted, Only, Starts, Roles, Start, Sound
  <1>2. Reads(p, next) /\ next \in Places \ {"gone"} /\ tries' = [tries EXCEPT ![p] = 0]
    BY <1>0 DEF GameStarts, Moves, Reads, Places
  <1>3. May(p, Head(outbox[p])) \subseteq May(p, next)
    <2>1. Head(outbox[p]) = Start("COMMUNICATOR") \/ Head(outbox[p]) = Start("PERFORMER")
      BY <1>0, MayBe
    <2> QED
      BY <2>1, MayBe DEF Start
  <1>4. 0 \in 0..MaxAttempts
    BY MaxAttemptsAssumption
  <1> HIDE DEF next
  <1>5. /\ NetType' /\ ClientType' /\ OnlyMoves(p)
        /\ client'[p] = next /\ outbox'[p] = Tail(outbox[p]) /\ tries'[p] = 0
        /\ inbox'[p] = << >> /\ p \notin mute'
        /\ Head(outbox[p]) \in May(p, client[p])
        /\ InStep(p, next, outbox'[p])
        /\ outbox'[p] = << >> => At(p) = Head(outbox[p]) /\ At(p)' = next
        /\ outbox'[p] # << >> => At(p)' = At(p) /\ May(p, Head(outbox[p])) # {}
    BY <1>1, <1>2, <1>3, <1>4, EventRead
  <1>6. /\ performer' = performer /\ main' = main /\ attempt' = attempt /\ solved' = solved
        /\ inbox[p] = << >>
    BY <1>2, <1>5 DEF Reads, roomVars
  <1>7. Head(outbox[p]) = Start("PERFORMER") => outbox'[p] = << >>
    BY <1>5, MayBe
  <1>8. RoomFacts'
    BY <1>0, <1>5, <1>6 DEF RoomFacts, OnlyMoves, next, Players
  <1>9. PlayerInv(p)'
    <2>1. Station(p)'
      BY <1>0, <1>1, <1>5, <1>6, MayBe DEF PlayerInv, Station, Only, next, Start, Results
    <2>2. Counted(p)'
      BY <1>0, <1>1, <1>5, <1>6, <1>7 DEF PlayerInv, Station, Counted, Sound, next, Start, Only
    <2>3. Tried(p)'
      BY <1>5, MaxAttemptsAssumption DEF Tried, next
    <2>4. Commanded(p)' /\ Muted(p)' /\ client'[p] # "gone" /\ InStep(p, client'[p], outbox'[p])
      BY <1>2, <1>5 DEF Commanded, Muted
    <2> QED
      BY <2>1, <2>2, <2>3, <2>4 DEF PlayerInv
  <1> QED
    BY <1>5, <1>8, <1>9, PlayerMoves

\* The answer to a guess: the session is solved, or goes on.
LEMMA ReadAnswerKeeps ==
  ASSUME Inv, NEW p \in Players, ReadAnswer(p)
  PROVE  Inv'
  <1>0. /\ TypeInv /\ RoomFacts /\ PlayerInv(p)
        /\ client[p] = "answer" /\ outbox[p] # << >> /\ outbox[p] \in Seq(Events)
    BY DEF Inv, TypeInv, NetType, ReadAnswer
  <1> DEFINE next == IF Head(outbox[p]) = "note_result:solved" THEN "last" ELSE "idle"
  <1>1. Sound(p)
    BY <1>0 DEF PlayerInv, Muted, Sound
  <1>a. Head(outbox[p]) \in Results
    BY <1>0, <1>1, HeadInStep, MayBe DEF PlayerInv
  <1>2. Reads(p, next) /\ next \in Places \ {"gone"}
    BY <1>0, <1>a DEF ReadAnswer, Moves, Reads, Places, Results
  <1>b. Head(outbox[p]) = "note_result:unsolved" =>
            Tail(outbox[p]) = << >> /\ tries[p] < MaxAttempts
            /\ (Ended \/ (main = "guess" /\ p = performer))
    BY <1>0 DEF PlayerInv, Tried
  <1>3. Tail(outbox[p]) # << >> => May(p, Head(outbox[p])) \subseteq May(p, next)
    BY <1>a, <1>b, MayBe DEF Results
  <1>4. tries[p] \in 0..MaxAttempts /\ tries' = [tries EXCEPT ![p] = tries[p]]
    BY <1>0 DEF TypeInv, ClientType, ReadAnswer
  <1> HIDE DEF next
  <1>5. /\ NetType' /\ ClientType' /\ OnlyMoves(p)
        /\ client'[p] = next /\ outbox'[p] = Tail(outbox[p]) /\ tries'[p] = tries[p]
        /\ inbox'[p] = << >> /\ p \notin mute'
        /\ Head(outbox[p]) \in May(p, client[p])
        /\ InStep(p, next, outbox'[p])
        /\ outbox'[p] = << >> => At(p) = Head(outbox[p]) /\ At(p)' = next
        /\ outbox'[p] # << >> => At(p)' = At(p) /\ May(p, Head(outbox[p])) # {}
    BY <1>1, <1>2, <1>3, <1>4, EventRead
  <1>6. /\ performer' = performer /\ main' = main /\ attempt' = attempt /\ solved' = solved
        /\ inbox[p] = << >>
    BY <1>2, <1>5 DEF Reads, roomVars
  <1>7. RoomFacts'
    BY <1>0, <1>5, <1>6, <1>a DEF RoomFacts, OnlyMoves, next, Players
  <1>8. PlayerInv(p)'
    <2>1. CASE outbox'[p] = << >>
      <3>1. CASE Head(outbox[p]) = "note_result:solved"
        <4>1. Only(outbox[p], "note_result:solved") /\ At(p) = "note_result:solved"
          BY <1>0, <1>5, <2>1, <3>1 DEF Only
        <4>2. Ended \/ (main = "over" /\ p = performer)
          BY <1>0, <4>1 DEF PlayerInv, Tried
        <4>3. Station(p)' /\ Counted(p)'
          BY <1>0, <1>5, <1>6, <2>1, <3>1, <4>2 DEF PlayerInv, Station, Counted, Ended, next
        <4> QED
          BY <1>5, <2>1, <3>1, <4>3 DEF PlayerInv, Commanded, Tried, Muted, next
      <3>2. CASE Head(outbox[p]) = "note_result:unsolved"
        <4>1. Ended \/ (main = "guess" /\ p = performer /\ ~Ended)
          BY <1>b, <3>2 DEF Ended
        <4>2. Station(p)'
          BY <1>5, <1>6, <2>1, <3>2, <4>1 DEF Station, Ended, next
        <4>3. main = "guess" => attempt = tries[p]
          BY <1>0, <1>1, <1>5, <1>6, <2>1, <3>2, <4>1 DEF PlayerInv, Counted, Start, Ended
        <4>4. Counted(p)'
          BY <1>5, <1>6, <2>1, <3>2, <4>1, <4>3 DEF Counted, Ended, next, Start
        <4>5. Tried(p)'
          BY <1>5, <1>b, <3>2 DEF Tried, next
        <4> QED
          BY <1>5, <2>1, <3>2, <4>2, <4>4, <4>5 DEF PlayerInv, Commanded, Muted, next
      <3> QED
        BY <1>a, <3>1, <3>2 DEF Results
    <2>2. CASE outbox'[p] # << >>
      <3>1. Head(outbox[p]) = "note_result:solved" /\ next = "last" /\ At(p)' = At(p)
        BY <1>5, <1>a, <1>b, <2>2 DEF next, Results
      <3>2. Station(p)'
        BY <1>0, <1>1, <1>5, <1>6, <2>2, <3>1 DEF PlayerInv, Station, Only
      <3>3. Counted(p)'
        BY <1>0, <1>1, <1>5, <1>6, <2>2, <3>1
           DEF PlayerInv, Station, Counted, Sound, Only, Start
      <3> QED
        BY <1>5, <3>1, <3>2, <3>3 DEF PlayerInv, Commanded, Tried, Muted
    <2> QED
      BY <2>1, <2>2
  <1> QED
    BY <1>5, <1>7, <1>8, PlayerMoves

\* The game_over of a solved session.
LEMMA ReadLastKeeps ==
  ASSUME Inv, NEW p \in Players, ReadLast(p)
  PROVE  Inv'
  <1>0. /\ TypeInv /\ RoomFacts /\ PlayerInv(p)
        /\ client[p] = "last" /\ outbox[p] # << >> /\ outbox[p] \in Seq(Events)
    BY DEF Inv, TypeInv, NetType, ReadLast
  <1> DEFINE next == AfterSession(p)
  <1>1. Sound(p)
    BY <1>0 DEF PlayerInv, Muted, Sound
  <1>a. Head(outbox[p]) = "game_over"
    BY <1>0, <1>1, HeadInStep, MayBe DEF PlayerInv
  <1>b. IF p = "host" THEN next = "prompt" ELSE p = "guest" /\ next = "await"
    BY DEF AfterSession, Players
  <1>2. Reads(p, next) /\ next \in Places \ {"gone"}
    BY <1>0, <1>b DEF ReadLast, Moves, Reads, Places
  <1>3. May(p, Head(outbox[p])) \subseteq May(p, next)
    BY <1>a, <1>b, MayBe
  <1>4. tries[p] \in 0..MaxAttempts /\ tries' = [tries EXCEPT ![p] = tries[p]]
    BY <1>0 DEF TypeInv, ClientType, ReadLast
  <1> HIDE DEF next
  <1>5. /\ NetType' /\ ClientType' /\ OnlyMoves(p)
        /\ client'[p] = next /\ outbox'[p] = Tail(outbox[p]) /\ tries'[p] = tries[p]
        /\ inbox'[p] = << >> /\ p \notin mute'
        /\ Head(outbox[p]) \in May(p, client[p])
        /\ InStep(p, next, outbox'[p])
        /\ outbox'[p] = << >> => At(p) = Head(outbox[p]) /\ At(p)' = next
        /\ outbox'[p] # << >> => At(p)' = At(p) /\ May(p, Head(outbox[p])) # {}
    BY <1>1, <1>2, <1>3, <1>4, EventRead
  <1>6. /\ performer' = performer /\ main' = main /\ attempt' = attempt /\ solved' = solved
        /\ inbox[p] = << >>
    BY <1>2, <1>5 DEF Reads, roomVars
  <1>c. main = "starting" => p # "host"
    BY <1>0 DEF RoomFacts
  <1>7. RoomFacts'
    BY <1>0, <1>5, <1>6, <1>b, <1>c DEF RoomFacts, OnlyMoves, Players
  <1>8. PlayerInv(p)'
    <2>1. Station(p)'
      <3>1. outbox'[p] = << >> => main \notin {"guess", "over"}
        BY <1>0, <1>1, <1>5, <1>a DEF PlayerInv, Station, Only, Results, Start
      <3> QED
        BY <1>0, <1>1, <1>5, <1>6, <1>b, <1>c, <3>1 DEF PlayerInv, Station, Only
    <2>2. Counted(p)'
      BY <1>0, <1>1, <1>5, <1>6, <1>a DEF PlayerInv, Station, Counted, Sound, Only, Start
    <2> QED
      BY <1>5, <1>b, <2>1, <2>2 DEF PlayerInv, Commanded, Tried, Muted
  <1> QED
    BY <1>5, <1>7, <1>8, PlayerMoves

\* An event of the communicator.
LEMMA WatchKeeps ==
  ASSUME Inv, NEW p \in Players, Watch(p)
  PROVE  Inv'
  <1>0. /\ TypeInv /\ RoomFacts /\ PlayerInv(p)
        /\ client[p] = "watching" /\ outbox[p] # << >> /\ outbox[p] \in Seq(Events)
    BY DEF Inv, TypeInv, NetType, Watch
  <1> DEFINE next == IF Head(outbox[p]) = "game_over" THEN AfterSession(p) ELSE "watching"
  <1>1. Sound(p)
    BY <1>0 DEF PlayerInv, Muted, Sound
  <1>a. Head(outbox[p]) \in Results \cup {"game_over"}
    BY <1>0, <1>1, HeadInStep, MayBe DEF PlayerInv
  <1>b. /\ Head(outbox[p]) = "game_over" =>
              IF p = "host" THEN next = "prompt" ELSE p = "guest" /\ next = "await"
        /\ Head(outbox[p]) # "game_over" => next = "watching"
    BY DEF AfterSession, Players
  <1>2. Reads(p, next) /\ next \in Places \ {"gone"}
    BY <1>0, <1>b DEF Watch, Moves, Reads, Places
  <1>3. May(p, Head(outbox[p])) \subseteq May(p, next)
    BY <1>a, <1>b, MayBe DEF Results
  <1>4. tries[p] \in 0..MaxAttempts /\ tries' = [tries EXCEPT ![p] = tries[p]]
    BY <1>0 DEF TypeInv, ClientType, Watch
  <1> HIDE DEF next
  <1>5. /\ NetType' /\ ClientType' /\ OnlyMoves(p)
        /\ client'[p] = next /\ outbox'[p] = Tail(outbox[p]) /\ tries'[p] = tries[p]
        /\ inbox'[p] = << >> /\ p \notin mute'
        /\ Head(outbox[p]) \in May(p, client[p])
        /\ InStep(p, next, outbox'[p])
        /\ outbox'[p] = << >> => At(p) = Head(outbox[p]) /\ At(p)' = next
        /\ outbox'[p] # << >> => At(p)' = At(p) /\ May(p, Head(outbox[p])) # {}
    BY <1>1, <1>2, <1>3, <1>4, EventRead
  <1>6. /\ performer' = performer /\ main' = main /\ attempt' = attempt /\ solved' = solved
        /\ inbox[p] = << >>
    BY <1>2, <1>5 DEF Reads, roomVars
  <1>c. main = "starting" => p # "host"
    BY <1>0 DEF RoomFacts
  <1>7. RoomFacts'
    BY <1>0, <1>5, <1>6, <1>b, <1>c DEF RoomFacts, OnlyMoves, Players
  <1>8. PlayerInv(p)'
    <2>1. Station(p)'
      <3>1. CASE outbox'[p] = << >>
        BY <1>0, <1>1, <1>5, <1>6, <1>a, <1>b, <1>c, <3>1
           DEF PlayerInv, Station, Only, Results, Start
      <3>2. CASE outbox'[p] # << >>
        BY <1>0, <1>1, <1>5, <1>6, <3>2 DEF PlayerInv, Station, Only
      <3> QED
        BY <3>1, <3>2
    <2>2. Counted(p)'
      BY <1>0, <1>1, <1>5, <1>6, <1>a
         DEF PlayerInv, Station, Counted, Sound, Only, Start, Results
    <2> QED
      BY <1>5, <1>b, <2>1, <2>2 DEF PlayerInv, Commanded, Tried, Muted
  <1> QED
    BY <1>5, <1>7, <1>8, PlayerMoves

\* p goes on at next, having nothing to read.
PlayerAt(p, next) ==
  /\ client' = [client EXCEPT ![p] = next]
  /\ UNCHANGED <<roomVars, outbox, reset>>

LEMMA PlacedAt ==
  ASSUME TypeInv, NEW p \in Players, outbox[p] = << >>, NEW next \in Places \ {"gone"},
         PlayerAt(p, next)
  PROVE  /\ client' \in [Players -> Places] /\ client'[p] = next
         /\ outbox' = outbox /\ outbox'[p] = << >> /\ reset' = reset
         /\ \A q \in Players \ {p} : client'[q] = client[q]
         /\ performer' = performer /\ main' = main /\ attempt' = attempt /\ solved' = solved
         /\ At(p) = client[p] /\ At(p)' = next /\ InStep(p, client'[p], outbox'[p])
  <1>1. /\ client' \in [Players -> Places] /\ client'[p] = next
        /\ outbox' = outbox /\ outbox'[p] = << >> /\ reset' = reset
        /\ \A q \in Players \ {p} : client'[q] = client[q]
        /\ performer' = performer /\ main' = main /\ attempt' = attempt /\ solved' = solved
    BY DEF TypeInv, ClientType, PlayerAt, roomVars
  <1>2. At(p) = client[p] /\ At(p)' = next /\ InStep(p, client'[p], outbox'[p])
    BY <1>1, EmptyQueue DEF At, Where
  <1> QED
    BY <1>1, <1>2

\* The room has ended, and the session with it.
LEMMA ReadEndKeeps ==
  ASSUME Inv, NEW p \in Players, ReadEnd(p)
  PROVE  Inv'
  <1>0. /\ TypeInv /\ RoomFacts /\ PlayerInv(p) /\ main = "ended"
        /\ client[p] \in {"answer", "last", "watching"} /\ outbox[p] = << >>
    BY DEF Inv, ReadEnd, Ended
  <1> DEFINE next == AfterSession(p)
  <1>1. next \in {"prompt", "await"} /\ (p = "guest" => next = "await")
    BY DEF AfterSession
  <1>2. PlayerAt(p, next) /\ next \in Places \ {"gone"} /\ UNCHANGED <<inbox, tries, mute>>
    BY <1>1 DEF ReadEnd, Moves, PlayerAt, Places
  <1> HIDE DEF next
  <1>3. /\ client' \in [Players -> Places] /\ client'[p] = next
        /\ outbox' = outbox /\ outbox'[p] = << >> /\ reset' = reset
        /\ \A q \in Players \ {p} : client'[q] = client[q]
        /\ performer' = performer /\ main' = main /\ attempt' = attempt /\ solved' = solved
        /\ At(p) = client[p] /\ At(p)' = next /\ InStep(p, client'[p], outbox'[p])
    BY <1>0, <1>2, PlacedAt
  <1>4. (NetType /\ ClientType)' /\ OnlyMoves(p) /\ RoomFacts'
    BY <1>0, <1>1, <1>2, <1>3
       DEF TypeInv, NetType, ClientType, OnlyMoves, roomVars, RoomFacts, Players
  <1>5. PlayerInv(p)'
    <2>1. inbox'[p] = << >> /\ p \notin mute'
      BY <1>0, <1>2 DEF PlayerInv, Commanded, Muted
    <2> QED
      BY <1>0, <1>1, <1>3, <2>1
         DEF PlayerInv, Station, Commanded, Counted, Tried, Muted
  <1> QED
    BY <1>4, <1>5, PlayerMoves

\* What is known of a performer that has nothing to wait for.
LEMMA Recorder ==
  ASSUME Inv, NEW p \in Players, client[p] \in {"ready", "idle", "recording"}
  PROVE  /\ Sound(p) /\ outbox[p] = << >> /\ inbox[p] = << >> /\ At(p) = client[p]
         /\ Ended \/ (main = "guess" /\ p = performer /\ attempt = tries[p])
         /\ tries[p] < MaxAttempts /\ tries[p] \in 0..MaxAttempts
  <1>0. TypeInv /\ PlayerInv(p) /\ outbox[p] \in Seq(Events)
    BY DEF Inv, TypeInv, NetType
  <1>1. Sound(p)
    BY <1>0 DEF PlayerInv, Muted, Sound
  <1>2. outbox[p] = << >>
    BY <1>0, <1>1, HeadInStep, MayBe DEF PlayerInv
  <1>3. inbox[p] = << >> /\ At(p) = client[p]
    BY <1>0, <1>2 DEF PlayerInv, Commanded, Pending, RoundAsked, At, Where
  <1>4. Ended \/ (main = "guess" /\ p = performer /\ attempt = tries[p])
    <2>1. main \in {"starting", "guess", "over", "next", "ended"}
      BY <1>0 DEF TypeInv, RoomType
    <2>2. Ended \/ (main = "guess" /\ p = performer)
      BY <1>0, <1>1, <1>2, <1>3, <2>1 DEF PlayerInv, Station, Ended, Results, Start
    <2> QED
      BY <1>0, <1>1, <1>2, <1>3, <2>2 DEF PlayerInv, Counted, Start
  <1> QED
    BY <1>0, <1>1, <1>2, <1>3, <1>4 DEF PlayerInv, Tried, TypeInv, ClientType

\* The record button.
LEMMA RecordKeeps ==
  ASSUME Inv, NEW p \in Players, Record(p)
  PROVE  Inv'
  <1>0. TypeInv /\ RoomFacts /\ client[p] \in {"ready", "idle"}
    BY DEF Inv, Record
  <1>1. /\ Sound(p) /\ outbox[p] = << >> /\ inbox[p] = << >> /\ At(p) = client[p]
        /\ Ended \/ (main = "guess" /\ p = performer /\ attempt = tries[p])
        /\ tries[p] < MaxAttempts /\ tries[p] \in 0..MaxAttempts
    BY <1>0, Recorder
  <1>2. PlayerAt(p, "recording") /\ "recording" \in Places \ {"gone"}
        /\ UNCHANGED <<inbox, tries, mute>>
    BY DEF Record, Moves, PlayerAt, Places
  <1>3. /\ client' \in [Players -> Places] /\ client'[p] = "recording"
        /\ outbox' = outbox /\ outbox'[p] = << >> /\ reset' = reset
        /\ \A q \in Players \ {p} : client'[q] = client[q]
        /\ performer' = performer /\ main' = main /\ attempt' = attempt /\ solved' = solved
        /\ At(p) = client[p] /\ At(p)' = "recording" /\ InStep(p, client'[p], outbox'[p])
    BY <1>0, <1>1, <1>2, PlacedAt
  <1>4. (NetType /\ ClientType)' /\ OnlyMoves(p) /\ RoomFacts'
    BY <1>0, <1>1, <1>2, <1>3
       DEF TypeInv, NetType, ClientType, OnlyMoves, roomVars, RoomFacts, Players, Ended
  <1>5. PlayerInv(p)'
    BY <1>1, <1>2, <1>3
       DEF PlayerInv, Sound, Station, Commanded, Counted, Tried, Muted, Ended, Start
  <1> QED
    BY <1>4, <1>5, PlayerMoves

\* A microphone that does not start.
LEMMA MicrophoneFailsKeeps ==
  ASSUME Inv, NEW p \in Players, MicrophoneFails(p)
  PROVE  Inv'
  <1>0. TypeInv /\ RoomFacts /\ PlayerInv(p) /\ client[p] = "ready"
    BY DEF Inv, MicrophoneFails
  <1> DEFINE next == AfterSession(p)
  <1>1. /\ Sound(p) /\ outbox[p] = << >> /\ inbox[p] = << >> /\ At(p) = client[p]
        /\ Ended \/ (main = "guess" /\ p = performer /\ attempt = tries[p])
        /\ tries[p] < MaxAttempts /\ tries[p] \in 0..MaxAttempts
    BY <1>0, Recorder
  <1>2. next \in {"prompt", "await"} /\ (p = "guest" => next = "await")
    BY DEF AfterSession
  <1>3. /\ PlayerAt(p, next) /\ next \in Places \ {"gone"}
        /\ UNCHANGED <<inbox, tries>> /\ mute' = mute \cup {p}
    BY <1>2 DEF MicrophoneFails, Moves, PlayerAt, Places
  <1> HIDE DEF next
  <1>4. /\ client' \in [Players -> Places] /\ client'[p] = next
        /\ outbox' = outbox /\ outbox'[p] = << >> /\ reset' = reset
        /\ \A q \in Players \ {p} : client'[q] = client[q]
        /\ performer' = performer /\ main' = main /\ attempt' = attempt /\ solved' = solved
        /\ At(p) = client[p] /\ At(p)' = next /\ InStep(p, client'[p], outbox'[p])
    BY <1>0, <1>1, <1>3, PlacedAt
  <1>5. (NetType /\ ClientType)' /\ OnlyMoves(p) /\ RoomFacts'
    BY <1>0, <1>1, <1>2, <1>3, <1>4
       DEF TypeInv, NetType, ClientType, OnlyMoves, roomVars, RoomFacts, Players, Ended
  <1>6. main = "guess" => attempt = 0
    BY <1>0, <1>1 DEF PlayerInv, Tried, Ended
  <1>7. PlayerInv(p)'
    BY <1>1, <1>2, <1>3, <1>4, <1>6
       DEF PlayerInv, Sound, Commanded, Counted, Tried, Muted, Ended
  <1> QED
    BY <1>5, <1>7, PlayerMoves

\* A command sent to a room that has read all that came before.
LEMMA Sends ==
  ASSUME TypeInv, NEW p \in Players, inbox[p] = << >>, NEW command \in Commands,
         Command(p, command)
  PROVE  /\ inbox' \in [Players -> Seq(Commands)]
         /\ \A q \in Players \ {p} : inbox'[q] = inbox[q]
         /\ Ended => inbox'[p] = << >>
         /\ ~Ended => Only(inbox'[p], command)
  <1>1. /\ Append(inbox[p], command) \in Seq(Commands)
        /\ Only(Append(inbox[p], command), command)
        /\ Queue(inbox[p], command) = Append(inbox[p], command)
    <2>1. inbox[p] \in Seq(Commands) /\ command \notin {"tilt", "update"}
      BY DEF TypeInv, NetType, Commands, Guesses
    <2> QED
      BY <2>1, Appended
  <1> QED
    BY <1>1 DEF TypeInv, NetType, Command

\* Five notes have been heard.
LEMMA SendGuessKeeps ==
  ASSUME Inv, NEW p \in Players, SendGuess(p)
  PROVE  Inv'
  <1>0. TypeInv /\ RoomFacts /\ PlayerInv(p) /\ client[p] = "recording"
    BY DEF Inv, SendGuess
  <1>1. /\ Sound(p) /\ outbox[p] = << >> /\ inbox[p] = << >> /\ At(p) = client[p]
        /\ Ended \/ (main = "guess" /\ p = performer /\ attempt = tries[p])
        /\ tries[p] < MaxAttempts /\ tries[p] \in 0..MaxAttempts
    BY <1>0, Recorder
  <1>2. /\ PlayerAt(p, "answer") /\ "answer" \in Places \ {"gone"} /\ mute' = mute
        /\ tries' = [tries EXCEPT ![p] = @ + 1]
    BY DEF SendGuess, Moves, PlayerAt, Places, roomVars
  <1>3. PICK guess \in IF tries[p] + 1 < MaxAttempts THEN Guesses ELSE {"right"} :
            Command(p, guess)
    BY DEF SendGuess
  <1>4. guess \in Guesses /\ guess \in Commands /\ (guess = "wrong" => tries[p] + 1 < MaxAttempts)
    BY <1>3 DEF Guesses, Commands
  <1>5. /\ client' \in [Players -> Places] /\ client'[p] = "answer"
        /\ outbox' = outbox /\ outbox'[p] = << >> /\ reset' = reset
        /\ \A q \in Players \ {p} : client'[q] = client[q]
        /\ performer' = performer /\ main' = main /\ attempt' = attempt /\ solved' = solved
        /\ At(p) = client[p] /\ At(p)' = "answer" /\ InStep(p, client'[p], outbox'[p])
    BY <1>0, <1>1, <1>2, PlacedAt
  <1>6. /\ inbox' \in [Players -> Seq(Commands)]
        /\ \A q \in Players \ {p} : inbox'[q] = inbox[q]
        /\ Ended => inbox'[p] = << >>
        /\ ~Ended => Only(inbox'[p], guess)
    BY <1>0, <1>1, <1>3, <1>4, Sends
  <1>7. tries' \in [Players -> 0..MaxAttempts] /\ tries'[p] = tries[p] + 1
        /\ \A q \in Players \ {p} : tries'[q] = tries[q]
    <2>1. tries[p] + 1 \in 0..MaxAttempts
      BY <1>1, MaxAttemptsAssumption
    <2> QED
      BY <1>0, <1>2, <2>1 DEF TypeInv, ClientType
  <1>8. (NetType /\ ClientType)' /\ OnlyMoves(p) /\ RoomFacts'
    BY <1>0, <1>1, <1>2, <1>5, <1>6, <1>7
       DEF TypeInv, NetType, ClientType, OnlyMoves, roomVars, RoomFacts, Players, Ended
  <1>9. PlayerInv(p)'
    <2>1. attempt \in 0..MaxAttempts
      BY <1>0 DEF TypeInv, RoomType
    <2>2. Commanded(p)'
      BY <1>1, <1>2, <1>4, <1>5, <1>6, <1>7, <2>1 DEF Commanded, Pending, Sound, Only, Ended
    <2>3. Counted(p)'
      BY <1>1, <1>5, <1>6 DEF Counted, Only, Ended
    <2>4. Station(p)'
      BY <1>1, <1>5 DEF Station, Ended
    <2> QED
      BY <1>1, <1>2, <1>5, <2>2, <2>3, <2>4 DEF PlayerInv, Sound, Tried, Muted, Only
  <1> QED
    BY <1>8, <1>9, PlayerMoves

\* The host asks for a round, which a mute host may do in the middle of one.
LEMMA PlayAgainKeeps ==
  ASSUME Inv, PlayAgain
  PROVE  Inv'
  <1> DEFINE p == "host"
  <1>a. p \in Players
    BY DEF Players
  <1>0. TypeInv /\ RoomFacts /\ PlayerInv(p) /\ client[p] = "prompt" /\ outbox[p] \in Seq(Events)
    BY <1>a DEF Inv, TypeInv, NetType, PlayAgain, AskForRound
  <1>1. p \notin mute => Sound(p)
    BY <1>0 DEF Sound
  <1>2. outbox[p] = << >>
    <2>1. CASE p \in mute
      BY <1>0, <2>1 DEF PlayerInv, Muted
    <2>2. CASE p \notin mute
      BY <1>0, <1>1, <2>2, HeadInStep, MayBe DEF PlayerInv
    <2> QED
      BY <2>1, <2>2
  <1>3. inbox[p] = << >> /\ At(p) = "prompt"
    BY <1>0, <1>2 DEF PlayerInv, Commanded, Pending, RoundAsked, At, Where
  <1>4. /\ PlayerAt(p, "await") /\ "await" \in Places \ {"gone"}
        /\ Command(p, "start_game") /\ UNCHANGED <<tries, mute>>
    BY DEF PlayAgain, AskForRound, Moves, PlayerAt, Places
  <1> HIDE DEF p
  <1>5. /\ client' \in [Players -> Places] /\ client'[p] = "await"
        /\ outbox' = outbox /\ outbox'[p] = << >> /\ reset' = reset
        /\ \A q \in Players \ {p} : client'[q] = client[q]
        /\ performer' = performer /\ main' = main /\ attempt' = attempt /\ solved' = solved
        /\ At(p) = client[p] /\ At(p)' = "await" /\ InStep(p, client'[p], outbox'[p])
    BY <1>a, <1>0, <1>2, <1>4, PlacedAt
  <1>6. /\ inbox' \in [Players -> Seq(Commands)]
        /\ \A q \in Players \ {p} : inbox'[q] = inbox[q]
        /\ Ended => inbox'[p] = << >>
        /\ ~Ended => Only(inbox'[p], "start_game")
    <2>1. "start_game" \in Commands
      BY DEF Commands
    <2> QED
      BY <1>a, <1>0, <1>3, <1>4, <2>1, Sends
  <1>7. main \in {"starting", "guess", "over", "next", "ended"}
    BY <1>0 DEF TypeInv, RoomType
  <1>8. /\ p \notin mute => main \in {"next", "ended"}
        /\ p \in mute => Ended \/ (main = "guess" /\ p = performer /\ attempt = 0)
    <2>1. p \notin mute => main \in {"next", "ended"}
      BY <1>0, <1>1, <1>2, <1>3, <1>7 DEF PlayerInv, Station, Results, Start
    <2>2. p \in mute => Ended \/ (main = "guess" /\ p = performer /\ attempt = 0)
      BY <1>0 DEF PlayerInv, Muted, Ended
    <2> QED
      BY <2>1, <2>2
  <1>9. (NetType /\ ClientType)' /\ OnlyMoves(p) /\ RoomFacts'
    <2>1. p = "host"
      BY DEF p
    <2> QED
      BY <2>1, <1>0, <1>4, <1>5, <1>6, <1>8
         DEF TypeInv, NetType, ClientType, OnlyMoves, roomVars, RoomFacts, Players, Ended
  <1>10. PlayerInv(p)'
    <2>1. Commanded(p)'
      <3>1. p = "host"
        BY DEF p
      <3> QED
        BY <1>4, <1>5, <1>6, <1>8, <3>1 DEF Commanded, RoundAsked, Ended, Only
    <2>2. p \notin mute => Station(p)' /\ Counted(p)'
      BY <1>4, <1>5, <1>8 DEF Station, Counted
    <2>3. p \in mute => Counted(p)'
      BY <1>4, <1>5, <1>8 DEF Counted, Sound, Ended
    <2> QED
      BY <1>4, <1>5, <1>6, <1>8, <2>1, <2>2, <2>3 DEF PlayerInv, Sound, Tried, Muted, Ended
  <1> QED
    BY <1>a, <1>9, <1>10, PlayerMoves

-----------------------------------------------------------------------------
(* The steps of the room. *)

\* Who is gone gets nothing; if the writes are done, everybody else does.
LEMMA SentTo ==
  ASSUME TypeInv, NEW first \in Players, NEW sent \in [Players -> Events],
         Killed(first, sent) \/ Delivered(sent)
  PROVE  /\ outbox' \in [Players -> Seq(Events)] /\ reset' \in SUBSET Players
         /\ \A p \in Players :
               /\ outbox'[p] \in {outbox[p], Append(outbox[p], sent[p])}
               /\ client[p] = "gone" => outbox'[p] = outbox[p]
               /\ Delivered(sent) /\ client[p] # "gone" =>
                     outbox'[p] = Append(outbox[p], sent[p])
  <1>1. ASSUME NEW p \in Players
        PROVE  /\ outbox[p] \in Seq(Events) /\ sent[p] \in Events
               /\ Queue(outbox[p], sent[p]) = Append(outbox[p], sent[p])
               /\ Append(outbox[p], sent[p]) \in Seq(Events)
    <2>1. /\ outbox[p] \in Seq(Events) /\ sent[p] \in Events
          /\ sent[p] \notin {"tilt", "update"}
      BY MayBe DEF TypeInv, NetType, Events, Start, Results
    <2> QED
      BY <2>1, Appended
  <1>2. /\ DOMAIN sent = Players /\ reset \in SUBSET Players
        /\ outbox \in [Players -> Seq(Events)]
    BY DEF TypeInv, NetType
  <1>3. CASE Delivered(sent)
    <2>1. /\ outbox' = [p \in Players |->
                          IF Gone(p) THEN outbox[p] ELSE Queue(outbox[p], sent[p])]
          /\ reset' = reset \cup {p \in Players : Gone(p)}
      BY <1>2, <1>3 DEF Delivered
    <2> QED
      BY <1>1, <1>2, <2>1 DEF Gone
  <1>4. CASE Killed(first, sent) /\ ~Delivered(sent)
    <2>1. /\ outbox' = IF first \notin reset /\ ~Gone(first)
                       THEN [outbox EXCEPT ![first] = Queue(outbox[first], sent[first])]
                       ELSE outbox
          /\ reset' = reset
      BY <1>2, <1>4 DEF Killed
    <2> QED
      BY <1>1, <1>2, <1>4, <2>1 DEF Gone
  <1> QED
    BY <1>3, <1>4

\* An event that p may get, and perhaps gets.
LEMMA Hears ==
  ASSUME TypeInv, NEW p \in Players, NEW event \in Events,
         PlayerInv(p), Sound(p), event \in May(p, At(p)),
         UNCHANGED <<client, mute>>, outbox'[p] \in {outbox[p], Append(outbox[p], event)}
  PROVE  /\ InStep(p, client'[p], outbox'[p]) /\ Sound(p)'
         /\ outbox'[p] = Append(outbox[p], event) => At(p)' = event /\ outbox'[p] # << >>
         /\ outbox[p] # << >> =>
               /\ Head(outbox'[p]) = Head(outbox[p])
               /\ outbox'[p] = Append(outbox[p], event) => Tail(outbox'[p]) # << >>
         /\ outbox[p] = << >> /\ outbox'[p] # << >> => Only(outbox'[p], event)
  <1>1. /\ outbox[p] \in Seq(Events) /\ InStep(p, client[p], outbox[p])
        /\ At(p) = Where(client[p], outbox[p])
    BY DEF TypeInv, NetType, PlayerInv, At
  <1>2. /\ InStep(p, client[p], Append(outbox[p], event))
        /\ Where(client[p], Append(outbox[p], event)) = event
    BY <1>1, SentInStep
  <1>3. /\ Append(outbox[p], event) # << >>
        /\ outbox[p] = << >> => Only(Append(outbox[p], event), event)
        /\ outbox[p] # << >> =>
              /\ Head(Append(outbox[p], event)) = Head(outbox[p])
              /\ Tail(Append(outbox[p], event)) # << >>
    BY <1>1, Appended
  <1>4. client' = client /\ mute' = mute
    OBVIOUS
  <1>5. Sound(p)' /\ At(p)' = Where(client[p], outbox'[p])
    BY <1>4 DEF Sound, At
  <1> QED
    BY <1>1, <1>2, <1>3, <1>4, <1>5

\* What the end of the room leaves of the invariant.
Queued(p) ==
  /\ client[p] = "gone" => outbox[p] = << >>
  /\ Sound(p) => InStep(p, client[p], outbox[p])
  /\ client[p] = "answer" /\ outbox[p] # << >> /\ Head(outbox[p]) = "note_result:unsolved" =>
        Tail(outbox[p]) = << >> /\ tries[p] < MaxAttempts
  /\ p \in mute /\ client[p] # "gone" =>
        \/ outbox[p] = << >>
        \/ Only(outbox[p], "note_result:unsolved") /\ client[p] = "await"

LEMMA RoomDies ==
  ASSUME Inv, RoomEnds, UNCHANGED <<client, tries, mute>>,
         outbox' \in [Players -> Seq(Events)], reset' \in SUBSET Players,
         \A p \in Players : Queued(p)'
  PROVE  Inv'
  <1>0. TypeInv /\ RoomFacts
    BY DEF Inv
  <1>1. /\ main' = "ended" /\ client' = client /\ tries' = tries /\ mute' = mute
        /\ performer' = performer /\ attempt' = attempt /\ solved' = solved
        /\ inbox' = [p \in Players |-> << >>]
    BY DEF RoomEnds
  <1>2. << >> \in Seq(Commands)
    OBVIOUS
  <1>3. NetType' /\ ClientType'
    BY <1>0, <1>1, <1>2, Zenon DEF TypeInv, NetType, ClientType
  <1>4. RoomType'
    BY <1>0, <1>1 DEF TypeInv, RoomType
  <1>5. RoomFacts'
    BY <1>0, <1>1 DEF RoomFacts
  <1>6. ASSUME NEW p \in Players PROVE PlayerInv(p)'
    <2>1. inbox'[p] = << >> /\ Queued(p)' /\ Muted(p) /\ Tried(p)
      BY <1>1 DEF Inv, PlayerInv
    <2> QED
      BY <1>1, <2>1
         DEF PlayerInv, Queued, Station, Commanded, Counted, Tried, Muted, Ended
  <1> QED
    BY <1>3, <1>4, <1>5, <1>6 DEF Inv, TypeInv

LEMMA NoNextRoundKeeps ==
  ASSUME Inv, NoNextRound
  PROVE  Inv'
  <1>1. RoomEnds /\ UNCHANGED <<outbox, reset, client, tries, mute>>
    BY DEF NoNextRound
  <1>2. outbox' \in [Players -> Seq(Events)] /\ reset' \in SUBSET Players
    BY <1>1 DEF Inv, TypeInv, NetType
  <1>3. ASSUME NEW p \in Players PROVE Queued(p)'
    <2>1. PlayerInv(p)
      BY DEF Inv
    <2>2. Queued(p)
      BY <2>1 DEF PlayerInv, Tried, Muted, Queued
    <2> QED
      BY <1>1, <2>2 DEF Queued, Sound
  <1> QED
    BY <1>1, <1>2, <1>3, RoomDies

\* The host asks for another round.
LEMMA NextRoundKeeps ==
  ASSUME Inv, NextRound
  PROVE  Inv'
  <1>0. TypeInv /\ RoomFacts /\ PlayerInv("host") /\ "host" \in Players
    BY DEF Inv, Players
  <1>1. /\ main = "next" /\ inbox["host"] # << >>
        /\ inbox' = [inbox EXCEPT !["host"] = Tail(@)]
        /\ main' = "starting" /\ performer' = performer /\ attempt' = attempt
        /\ solved' = solved /\ outbox' = outbox /\ reset' = reset /\ client' = client
        /\ tries' = tries /\ mute' = mute
    BY DEF NextRound, RoundAskedFor
  <1>2. RoundAsked("host") /\ Tail(inbox["host"]) = << >> /\ << >> \in Seq(Commands)
    BY <1>0, <1>1 DEF PlayerInv, Commanded, RoundAsked, Only
  <1>3. inbox' \in [Players -> Seq(Commands)] /\ inbox'["host"] = << >>
        /\ inbox'["guest"] = inbox["guest"]
    BY <1>0, <1>1, <1>2 DEF TypeInv, NetType, Players
  <1>4. TypeInv'
    BY <1>0, <1>1, <1>3 DEF TypeInv, RoomType, NetType, ClientType
  <1>5. RoomFacts'
    BY <1>0, <1>1, <1>2 DEF RoomFacts, RoundAsked
  <1>6. ASSUME NEW p \in Players PROVE PlayerInv(p)'
    <2>0. PlayerInv(p) /\ outbox[p] \in Seq(Events) /\ At(p)' = At(p) /\ (Sound(p)' <=> Sound(p))
      BY <1>0, <1>1 DEF Inv, TypeInv, NetType, At, Sound
    <2>1. inbox'[p] = << >>
      <3>1. p # "host" => inbox[p] = << >>
        BY <1>1, <2>0 DEF PlayerInv, Commanded, RoundAsked
      <3> QED
        BY <1>3, <3>1 DEF Players
    <2>2. Sound(p) => At(p) \in {"await", "game_over"}
      <3>1. p = "host" => (Sound(p) => At(p) = "await")
        BY <1>2 DEF RoundAsked, Sound, At, Where
      <3>2. CASE Sound(p) /\ p = "guest"
        <4>1. At(p) \in {"await", "prompt", "game_over"} /\ client[p] # "prompt"
              /\ InStep(p, client[p], outbox[p])
          BY <1>0, <1>1, <2>0, <3>2 DEF PlayerInv, Station, RoomFacts
        <4>2. outbox[p] # << >> => At(p) \in Events
          BY <2>0, <4>1, HeadInStep DEF At
        <4>3. outbox[p] = << >> => At(p) = client[p]
          BY DEF At, Where
        <4> QED
          BY <4>1, <4>2, <4>3, MayBe DEF Events, Results, Start
      <3> QED
        BY <3>1, <3>2 DEF Players
    <2>3. Station(p)' \/ ~Sound(p)
      BY <1>1, <2>0, <2>2 DEF Station
    <2>4. Tried(p)' /\ Muted(p)'
      BY <1>1, <2>0 DEF PlayerInv, Tried, Muted, Ended, Only
    <2> QED
      BY <1>1, <2>0, <2>1, <2>3, <2>4 DEF PlayerInv, Commanded, Counted
  <1> QED
    BY <1>4, <1>5, <1>6 DEF Inv

\* A performer that is gone.
LEMMA PerformerEndsKeeps ==
  ASSUME Inv, PerformerEnds
  PROVE  Inv'
  <1>1. /\ TypeInv /\ RoomFacts /\ main = "guess" /\ client[performer] = "gone"
        /\ inbox[performer] = << >>
        /\ main' = "over" /\ performer' = performer /\ attempt' = attempt /\ solved' = solved
        /\ inbox' = inbox /\ outbox' = outbox /\ reset' = reset /\ client' = client
        /\ tries' = tries /\ mute' = mute
    BY DEF PerformerEnds, Inv, Gone
  <1>2. TypeInv' /\ RoomFacts' /\ ~solved
    BY <1>1 DEF TypeInv, RoomType, NetType, ClientType, RoomFacts
  <1>3. ASSUME NEW p \in Players PROVE PlayerInv(p)'
    <2>1. PlayerInv(p) /\ At(p)' = At(p) /\ (Sound(p)' <=> Sound(p))
      BY <1>1 DEF Inv, At, Sound
    <2>2. inbox'[p] = << >>
      BY <1>1, <2>1 DEF PlayerInv, Commanded
    <2>3. Station(p)' \/ ~Sound(p)
      BY <1>1, <2>1 DEF PlayerInv, Station, Sound, Results
    <2>4. Tried(p)' /\ Muted(p)'
      BY <1>1, <2>1 DEF PlayerInv, Tried, Muted, Ended, Only
    <2> QED
      BY <1>1, <1>2, <2>1, <2>2, <2>3, <2>4 DEF PlayerInv, Commanded, Counted
  <1> QED
    BY <1>2, <1>3 DEF Inv

\* A round begins, unless the room is killed by the message.
LEMMA StartRoundKeeps ==
  ASSUME Inv, StartRound
  PROVE  Inv'
  <1>0. /\ TypeInv /\ RoomFacts /\ main = "starting"
        /\ client' = client /\ tries' = tries /\ mute' = mute
    BY DEF Inv, StartRound
  <1>1. PICK q \in Players :
           Send("host", [p \in Players |-> StartOf(p, q)],
               /\ performer' = q /\ main' = "guess"
               /\ attempt' = 0 /\ solved' = FALSE
               /\ UNCHANGED inbox,
               RoomEnds)
    BY DEF StartRound
  <1> DEFINE sent == [p \in Players |-> StartOf(p, q)]
             Done == /\ performer' = q /\ main' = "guess"
                     /\ attempt' = 0 /\ solved' = FALSE /\ inbox' = inbox
  <1>2. (Killed("host", sent) /\ RoomEnds) \/ (Delivered(sent) /\ Done)
    BY <1>1 DEF Send
  <1>3. sent \in [Players -> Events] /\ "host" \in Players
    BY MayBe DEF StartOf, Events, Players
  <1>4. \A p \in Players : sent[p] = StartOf(p, q)
    OBVIOUS
  <1> HIDE DEF sent
  <1>5. /\ outbox' \in [Players -> Seq(Events)] /\ reset' \in SUBSET Players
        /\ \A p \in Players :
              /\ outbox'[p] \in {outbox[p], Append(outbox[p], sent[p])}
              /\ client[p] = "gone" => outbox'[p] = outbox[p]
              /\ Delivered(sent) /\ client[p] # "gone" =>
                    outbox'[p] = Append(outbox[p], sent[p])
    BY <1>0, <1>2, <1>3, SentTo
  <1>6. ASSUME NEW p \in Players
        PROVE  /\ inbox[p] = << >> /\ (client[p] # "gone" => Sound(p)) /\ Tried(p)
               /\ client[p] = "gone" => outbox[p] = << >>
               /\ Sound(p) =>
                     /\ outbox[p] = << >> => client[p] \in {"await", "game_over"}
                     /\ client[p] = "answer" => Head(outbox[p]) # "note_result:unsolved"
                     /\ InStep(p, client'[p], outbox'[p]) /\ Sound(p)'
                     /\ outbox'[p] = Append(outbox[p], sent[p]) => At(p)' = sent[p]
                     /\ outbox[p] # << >> =>
                          /\ Head(outbox'[p]) = Head(outbox[p])
                          /\ outbox'[p] = Append(outbox[p], sent[p]) => Tail(outbox'[p]) # << >>
    <2>1. PlayerInv(p) /\ sent[p] \in Starts /\ sent[p] \in Events
      BY <1>3, <1>4, MayBe DEF Inv, StartOf
    <2>2. inbox[p] = << >> /\ (client[p] # "gone" => Sound(p))
      BY <1>0, <2>1 DEF PlayerInv, Commanded, Muted, Sound, Ended
    <2>3. CASE Sound(p)
      <3>1. At(p) \in {"await", "game_over"}
        BY <1>0, <2>1, <2>3 DEF PlayerInv, Station
      <3>2. p = "host" => At(p) = "await"
        BY <1>0, <2>3 DEF RoomFacts, Sound, At, Where
      <3>3. sent[p] \in May(p, At(p))
        BY <2>1, <3>1, <3>2, MayBe DEF Players
      <3>4. /\ InStep(p, client'[p], outbox'[p]) /\ Sound(p)'
            /\ outbox'[p] = Append(outbox[p], sent[p]) => At(p)' = sent[p] /\ outbox'[p] # << >>
            /\ outbox[p] # << >> =>
                  /\ Head(outbox'[p]) = Head(outbox[p])
                  /\ outbox'[p] = Append(outbox[p], sent[p]) => Tail(outbox'[p]) # << >>
        BY <1>0, <1>5, <2>1, <2>3, <3>3, Hears
      <3>5. outbox[p] = << >> => client[p] \in {"await", "game_over"}
        BY <3>1 DEF At, Where
      <3>6. client[p] = "answer" => Head(outbox[p]) # "note_result:unsolved"
        BY <1>0, <2>1, <3>5 DEF PlayerInv, Tried, Ended
      <3> QED
        BY <2>1, <2>2, <3>4, <3>5, <3>6 DEF PlayerInv
    <2>4. CASE ~Sound(p)
      BY <2>1, <2>2, <2>4 DEF PlayerInv
    <2> QED
      BY <2>3, <2>4
  <1>7. CASE RoomEnds
    <2>1. ASSUME NEW p \in Players PROVE Queued(p)'
      <3>1. CASE client[p] = "gone"
        BY <1>0, <1>5, <1>6, <3>1 DEF Queued, Sound
      <3>2. CASE client[p] # "gone"
        <4>1. Sound(p) /\ Sound(p)'
          BY <1>6, <3>2
        <4>2. client[p] = "answer" => outbox[p] # << >>
          BY <1>6, <4>1
        <4> QED
          BY <1>0, <1>6, <3>2, <4>1, <4>2 DEF Queued, Sound
      <3> QED
        BY <3>1, <3>2
    <2> QED
      BY <1>0, <1>5, <1>7, <2>1, RoomDies
  <1>8. CASE Delivered(sent) /\ Done
    <2>1. TypeInv'
      <3>1. 0 \in 0..MaxAttempts
        BY MaxAttemptsAssumption
      <3>2. RoomType'
        BY <1>8, <3>1, Zenon DEF RoomType
      <3> QED
        BY <1>0, <1>5, <1>8, <3>2 DEF TypeInv, NetType, ClientType
    <2>2. RoomFacts'
      BY <1>0, <1>8 DEF RoomFacts
    <2>3. ASSUME NEW p \in Players PROVE PlayerInv(p)'
      <3>1. inbox'[p] = << >> /\ performer' = q /\ main' = "guess" /\ attempt' = 0
        BY <1>6, <1>8
      <3>2. CASE client[p] = "gone"
        BY <1>0, <1>5, <1>6, <3>1, <3>2
           DEF PlayerInv, Sound, Commanded, Counted, Tried, Muted
      <3>3. CASE client[p] # "gone"
        <4>1. /\ Sound(p) /\ Sound(p)' /\ At(p)' = StartOf(p, q)
              /\ InStep(p, client'[p], outbox'[p])
          BY <1>4, <1>5, <1>6, <1>8, <3>3
        <4>2. client[p] = "answer" =>
                 Head(outbox'[p]) # "note_result:unsolved" /\ Tail(outbox'[p]) # << >>
          BY <1>5, <1>6, <1>8, <3>3, <4>1
        <4>3. Station(p)' /\ Counted(p)'
          BY <3>1, <4>1 DEF Station, Counted, StartOf, Start
        <4>4. Tried(p)' /\ Muted(p)'
          BY <1>0, <1>6, <4>1, <4>2 DEF Tried, Muted, Only, Sound
        <4> QED
          BY <1>0, <3>1, <3>3, <4>1, <4>3, <4>4 DEF PlayerInv, Commanded
      <3> QED
        BY <3>2, <3>3
    <2> QED
      BY <2>1, <2>2, <2>3 DEF Inv
  <1> QED
    BY <1>2, <1>7, <1>8

\* Both players are told that the game is over.
LEMMA GameOverKeeps ==
  ASSUME Inv, GameOver
  PROVE  Inv'
  <1> DEFINE sent == ToBoth("game_over")
             Done == /\ main' = "next" /\ performer' = performer /\ attempt' = attempt
                     /\ solved' = solved /\ inbox' = inbox
  <1>0. /\ TypeInv /\ RoomFacts /\ main = "over" /\ performer \in Players
        /\ client' = client /\ tries' = tries /\ mute' = mute
    BY DEF Inv, TypeInv, RoomType, GameOver
  <1>2. (Killed(performer, sent) /\ RoomEnds) \/ (Delivered(sent) /\ Done)
    BY DEF GameOver, Send
  <1>3. sent \in [Players -> Events] /\ \A p \in Players : sent[p] = "game_over"
    BY DEF ToBoth, Events
  <1> HIDE DEF sent
  <1>5. /\ outbox' \in [Players -> Seq(Events)] /\ reset' \in SUBSET Players
        /\ \A p \in Players :
              /\ outbox'[p] \in {outbox[p], Append(outbox[p], sent[p])}
              /\ client[p] = "gone" => outbox'[p] = outbox[p]
              /\ Delivered(sent) /\ client[p] # "gone" =>
                    outbox'[p] = Append(outbox[p], sent[p])
    BY <1>0, <1>2, <1>3, SentTo
  <1>6. ASSUME NEW p \in Players
        PROVE  /\ inbox[p] = << >> /\ (client[p] # "gone" => Sound(p)) /\ Tried(p)
               /\ client[p] = "gone" => outbox[p] = << >>
               /\ Sound(p) =>
                     /\ client[p] = "answer" =>
                          outbox[p] # << >> /\ Head(outbox[p]) # "note_result:unsolved"
                     /\ InStep(p, client'[p], outbox'[p]) /\ Sound(p)'
                     /\ outbox'[p] = Append(outbox[p], sent[p]) => At(p)' = "game_over"
                     /\ outbox[p] # << >> =>
                          /\ Head(outbox'[p]) = Head(outbox[p])
                          /\ outbox'[p] = Append(outbox[p], sent[p]) => Tail(outbox'[p]) # << >>
    <2>1. PlayerInv(p) /\ sent[p] = "game_over" /\ sent[p] \in Events
      BY <1>3 DEF Inv
    <2>2. inbox[p] = << >> /\ (client[p] # "gone" => Sound(p))
      BY <1>0, <2>1 DEF PlayerInv, Commanded, Muted, Sound, Ended
    <2>3. CASE Sound(p)
      <3>0. outbox[p] \in Seq(Events) /\ Station(p) /\ InStep(p, client[p], outbox[p])
        BY <1>0, <2>1, <2>3 DEF PlayerInv, TypeInv, NetType
      <3>1. At(p) \in {"last", Start("COMMUNICATOR"), "watching"} \cup Results
        <4>1. CASE p = performer /\ client[p] = "last" /\ outbox[p] = << >>
          BY <4>1 DEF At, Where
        <4>2. CASE p = performer /\ client[p] = "answer" /\ Only(outbox[p], "note_result:solved")
          <5>1. Tail(outbox[p]) = << >> /\ outbox[p] # << >>
                /\ Head(outbox[p]) = "note_result:solved"
            BY <4>2 DEF Only
          <5>2. Where(client[p], outbox[p]) = Head(outbox[p])
            BY <3>0, <5>1, ReadInStep
          <5> QED
            BY <5>1, <5>2 DEF At, Results
        <4> QED
          BY <1>0, <3>0, <4>1, <4>2 DEF Station
      <3>2. sent[p] \in May(p, At(p))
        BY <2>1, <3>1, MayBe DEF Results
      <3>3. client[p] = "answer" =>
               outbox[p] # << >> /\ Head(outbox[p]) # "note_result:unsolved"
        BY <1>0, <2>1, <3>1 DEF PlayerInv, Tried, Ended, At, Where, Results, Start
      <3>4. /\ InStep(p, client'[p], outbox'[p]) /\ Sound(p)'
            /\ outbox'[p] = Append(outbox[p], sent[p]) => At(p)' = sent[p] /\ outbox'[p] # << >>
            /\ outbox[p] # << >> =>
                  /\ Head(outbox'[p]) = Head(outbox[p])
                  /\ outbox'[p] = Append(outbox[p], sent[p]) => Tail(outbox'[p]) # << >>
        BY <1>0, <1>5, <2>1, <2>3, <3>2, Hears
      <3> QED
        BY <2>1, <2>2, <3>3, <3>4 DEF PlayerInv
    <2>4. CASE ~Sound(p)
      BY <2>1, <2>2, <2>4 DEF PlayerInv
    <2> QED
      BY <2>3, <2>4
  <1>7. CASE RoomEnds
    <2>1. ASSUME NEW p \in Players PROVE Queued(p)'
      <3>1. CASE client[p] = "gone"
        BY <1>0, <1>5, <1>6, <3>1 DEF Queued, Sound
      <3>2. CASE client[p] # "gone"
        BY <1>0, <1>6, <3>2 DEF Queued, Sound
      <3> QED
        BY <3>1, <3>2
    <2> QED
      BY <1>0, <1>5, <1>7, <2>1, RoomDies
  <1>8. CASE Delivered(sent) /\ Done
    <2>1. TypeInv' /\ RoomFacts'
      BY <1>0, <1>5, <1>8 DEF TypeInv, RoomType, NetType, ClientType, RoomFacts
    <2>2. ASSUME NEW p \in Players PROVE PlayerInv(p)'
      <3>1. inbox'[p] = << >> /\ main' = "next"
        BY <1>6, <1>8
      <3>2. CASE client[p] = "gone"
        BY <1>0, <1>5, <1>6, <3>1, <3>2
           DEF PlayerInv, Sound, Commanded, Counted, Tried, Muted
      <3>3. CASE client[p] # "gone"
        <4>1. /\ Sound(p) /\ Sound(p)' /\ At(p)' = "game_over"
              /\ InStep(p, client'[p], outbox'[p])
          BY <1>5, <1>6, <1>8, <3>3
        <4>2. client[p] = "answer" =>
                 Head(outbox'[p]) # "note_result:unsolved" /\ Tail(outbox'[p]) # << >>
          BY <1>5, <1>6, <1>8, <3>3, <4>1
        <4>3. Station(p)' /\ Counted(p)'
          BY <3>1, <4>1 DEF Station, Counted
        <4>4. Tried(p)' /\ Muted(p)'
          BY <1>0, <1>6, <4>1, <4>2 DEF Tried, Muted, Only, Sound
        <4> QED
          BY <1>0, <3>1, <3>3, <4>1, <4>3, <4>4 DEF PlayerInv, Commanded
      <3> QED
        BY <3>2, <3>3
    <2> QED
      BY <2>1, <2>2 DEF Inv
  <1> QED
    BY <1>2, <1>7, <1>8

\* What the room does with the performer's command.
Judged ==
  /\ attempt' = attempt + 1 /\ (solved' <=> IsSolved) /\ solved' \in BOOLEAN
  /\ main' = IF IsSolved THEN "over" ELSE "guess"
  /\ inbox' = [inbox EXCEPT ![performer] = Tail(@)]
  /\ performer' = performer

\* The command is the performer's guess, or the round a mute host asks for.
LEMMA TheCommand ==
  ASSUME Inv, main = "guess", inbox[performer] # << >>
  PROVE  /\ performer \in Players /\ outbox[performer] = << >>
         /\ Tail(inbox[performer]) = << >> /\ attempt + 1 \in 0..MaxAttempts
         /\ \/ /\ performer \notin mute /\ client[performer] \in {"answer", "gone"}
               /\ attempt + 1 = tries[performer]
               /\ ~IsSolved => tries[performer] < MaxAttempts
            \/ /\ performer \in mute /\ client[performer] \in {"await", "gone"} /\ ~IsSolved
  <1>1. TypeInv /\ performer \in Players /\ PlayerInv(performer)
    BY DEF Inv, TypeInv, RoomType
  <1>2. attempt \in 0..MaxAttempts /\ tries[performer] \in 0..MaxAttempts
    BY <1>1 DEF TypeInv, RoomType, ClientType
  <1>3. \/ Pending(performer)
        \/ performer \in mute /\ RoundAsked(performer) /\ attempt = 0
    BY <1>1 DEF PlayerInv, Commanded
  <1>4. CASE Pending(performer)
    BY <1>1, <1>2, <1>4 DEF Pending, Only, Guesses, IsSolved
  <1>5. CASE performer \in mute /\ RoundAsked(performer) /\ attempt = 0
    BY <1>1, <1>5, MaxAttemptsAssumption DEF RoundAsked, Only, IsSolved
  <1> QED
    BY <1>3, <1>4, <1>5

\* The guess, or whatever the performer has sent, is answered.
LEMMA HandleGuessKeeps ==
  ASSUME Inv, HandleGuess
  PROVE  Inv'
  <1> DEFINE sent == ToBoth(Result)
  <1>q. PICK q \in Players : q = performer
    BY DEF Inv, TypeInv, RoomType
  <1>0. /\ TypeInv /\ RoomFacts /\ main = "guess" /\ inbox[performer] # << >>
        /\ client' = client /\ tries' = tries /\ mute' = mute
    BY DEF Inv, HandleGuess, Judge
  <1>1. /\ performer \in Players /\ outbox[performer] = << >>
        /\ Tail(inbox[performer]) = << >> /\ attempt + 1 \in 0..MaxAttempts
        /\ \/ /\ performer \notin mute /\ client[performer] \in {"answer", "gone"}
              /\ attempt + 1 = tries[performer]
              /\ ~IsSolved => tries[performer] < MaxAttempts
           \/ /\ performer \in mute /\ client[performer] \in {"await", "gone"} /\ ~IsSolved
    BY <1>0, TheCommand
  <1>2. (Killed(performer, sent) /\ RoomEnds) \/ (Delivered(sent) /\ Judged)
    <2>1. ASSUME solved' = IsSolved PROVE (solved' <=> IsSolved) /\ solved' \in BOOLEAN
      BY <2>1, Zenon DEF IsSolved
    <2> QED
      BY <2>1, Zenon DEF HandleGuess, Judge, Send, Judged
  <1>3. /\ sent \in [Players -> Events]
        /\ \A p \in Players : sent[p] = Result
        /\ Result \in Results
        /\ Result = IF IsSolved THEN "note_result:solved" ELSE "note_result:unsolved"
    BY DEF ToBoth, Events, Results, Result
  <1> HIDE DEF sent
  <1>4. /\ outbox' \in [Players -> Seq(Events)] /\ reset' \in SUBSET Players
        /\ \A p \in Players :
              /\ outbox'[p] \in {outbox[p], Append(outbox[p], sent[p])}
              /\ client[p] = "gone" => outbox'[p] = outbox[p]
              /\ Delivered(sent) /\ client[p] # "gone" =>
                    outbox'[p] = Append(outbox[p], sent[p])
    BY <1>0, <1>1, <1>2, <1>3, SentTo
  \* The performer has read all there was; the answer is all it gets.
  <1>5. /\ outbox'[q] # << >> => Only(outbox'[q], Result)
        /\ client[q] = "gone" => outbox'[q] = << >>
        /\ Sound(q) => Sound(q)' /\ client[q] = "answer"
                               /\ InStep(q, client'[q], outbox'[q])
        /\ Delivered(sent) /\ client[q] # "gone" =>
              outbox'[q] # << >> /\ (Sound(q) => At(q)' = Result)
    <2>1. PlayerInv(q) /\ Result \in Events /\ sent[q] = Result
      BY <1>q, <1>1, <1>3 DEF Inv, Events
    <2>2. Append(outbox[q], Result) # << >> /\ Only(Append(outbox[q], Result), Result)
      <3>1. outbox[q] \in Seq(Events) /\ outbox[q] = << >>
        BY <1>q, <1>0, <1>1 DEF TypeInv, NetType
      <3> QED
        BY <2>1, <3>1, Appended
    <2>3. /\ outbox'[q] # << >> => Only(outbox'[q], Result)
          /\ client[q] = "gone" => outbox'[q] = << >>
          /\ Delivered(sent) /\ client[q] # "gone" => outbox'[q] # << >>
      BY <1>q, <1>1, <1>4, <2>1, <2>2
    <2>4. CASE Sound(q)
      <3>1. client[q] = "answer" /\ At(q) = "answer"
        BY <1>q, <1>1, <2>4 DEF Sound, At, Where
      <3>2. sent[q] \in May(q, At(q)) /\ sent[q] \in Events
        BY <1>3, <2>1, <3>1, MayBe
      <3>3. /\ InStep(q, client'[q], outbox'[q]) /\ Sound(q)'
            /\ outbox'[q] = Append(outbox[q], sent[q]) => At(q)' = sent[q]
        BY <1>0, <1>4, <2>1, <2>4, <3>2, Hears
      <3> QED
        BY <1>4, <2>1, <2>3, <2>4, <3>1, <3>3 DEF Sound
    <2>5. CASE ~Sound(q)
      BY <2>3, <2>5
    <2> QED
      BY <2>4, <2>5
  \* The communicator may be behind.
  <1>6. ASSUME NEW p \in Players, p # q
        PROVE  /\ inbox[p] = << >> /\ (client[p] # "gone" => Sound(p)) /\ Tried(p)
               /\ client[p] = "gone" => outbox'[p] = << >>
               /\ Sound(p) =>
                     /\ client[p] = "answer" =>
                          outbox[p] # << >> /\ Head(outbox'[p]) # "note_result:unsolved"
                     /\ InStep(p, client'[p], outbox'[p]) /\ Sound(p)'
                     /\ outbox'[p] = Append(outbox[p], sent[p]) => At(p)' = Result
                     /\ outbox[p] # << >> /\ outbox'[p] = Append(outbox[p], sent[p]) =>
                          Tail(outbox'[p]) # << >>
    <2>1. PlayerInv(p) /\ sent[p] = Result /\ sent[p] \in Events
      BY <1>3 DEF Inv, Events
    <2>2. inbox[p] = << >> /\ (client[p] # "gone" => Sound(p))
      BY <1>q, <1>0, <1>6, <2>1 DEF PlayerInv, Commanded, Muted, Sound, Ended
    <2>3. CASE Sound(p)
      <3>1. At(p) \in {Start("COMMUNICATOR"), "watching", "note_result:unsolved"}
        BY <1>q, <1>0, <1>6, <2>1, <2>3 DEF PlayerInv, Station
      <3>2. sent[p] \in May(p, At(p))
        BY <1>3, <2>1, <3>1, MayBe
      <3>3. client[p] = "answer" =>
               outbox[p] # << >> /\ Head(outbox[p]) # "note_result:unsolved"
        BY <1>q, <1>0, <1>6, <2>1, <3>1 DEF PlayerInv, Tried, Ended, At, Where, Start
      <3>4. /\ InStep(p, client'[p], outbox'[p]) /\ Sound(p)'
            /\ outbox'[p] = Append(outbox[p], sent[p]) => At(p)' = sent[p] /\ outbox'[p] # << >>
            /\ outbox[p] # << >> =>
                  /\ Head(outbox'[p]) = Head(outbox[p])
                  /\ outbox'[p] = Append(outbox[p], sent[p]) => Tail(outbox'[p]) # << >>
        BY <1>q, <1>0, <1>4, <2>1, <2>3, <3>2, Hears
      <3> QED
        BY <2>1, <2>2, <2>3, <3>3, <3>4 DEF PlayerInv, Sound
    <2>4. CASE ~Sound(p)
      BY <1>4, <2>1, <2>2, <2>4 DEF PlayerInv
    <2> QED
      BY <2>3, <2>4
  <1>7. CASE RoomEnds
    <2>1. Queued(q)'
      BY <1>q, <1>0, <1>1, <1>3, <1>5 DEF Queued, Sound, Only
    <2>2. ASSUME NEW p \in Players, p # q PROVE Queued(p)'
      <3>1. CASE client[p] = "gone"
        BY <1>q, <1>0, <1>6, <2>2, <3>1 DEF Queued, Sound
      <3>2. CASE client[p] # "gone"
        BY <1>q, <1>0, <1>6, <2>2, <3>2 DEF Queued, Sound
      <3> QED
        BY <3>1, <3>2
    <2>3. \A p \in Players : Queued(p)'
      BY <2>1, <2>2
    <2> QED
      BY <1>0, <1>4, <1>7, <2>3, RoomDies
  <1>8. CASE Delivered(sent) /\ Judged
    <2>0. /\ attempt' = attempt + 1 /\ performer' = q
          /\ main' = IF IsSolved THEN "over" ELSE "guess"
          /\ inbox' = [inbox EXCEPT ![q] = << >>]
      BY <1>q, <1>1, <1>8 DEF Judged
    <2>1. TypeInv'
      <3>1. << >> \in Seq(Commands)
        OBVIOUS
      <3>2. RoomType'
        BY <1>q, <1>1, <1>8, <2>0, Zenon DEF RoomType, Judged
      <3> QED
        BY <1>q, <1>0, <1>1, <1>4, <2>0, <3>1, <3>2 DEF TypeInv, NetType, ClientType
    <2>2. RoomFacts'
      BY <1>q, <1>0, <1>8, <2>0 DEF RoomFacts, Judged
    <2>3. PlayerInv(q)'
      <3>1. inbox'[q] = << >>
        BY <1>q, <1>0, <1>1, <2>0 DEF TypeInv, NetType
      <3>2. Station(q)' \/ ~Sound(q)'
        BY <1>q, <1>0, <1>3, <1>5, <1>8, <2>0 DEF Station, Sound
      <3>3. Counted(q)'
        BY <1>q, <1>0, <1>1, <1>3, <1>5, <1>8, <2>0 DEF Counted, Sound, Start
      <3>4. Tried(q)'
        BY <1>q, <1>0, <1>1, <1>3, <1>5, <2>0 DEF Tried, Only
      <3>5. Muted(q)'
        BY <1>q, <1>0, <1>1, <1>3, <1>5, <1>8, <2>0, <3>1 DEF Muted
      <3> QED
        BY <1>q, <1>0, <1>5, <3>1, <3>2, <3>3, <3>4, <3>5 DEF PlayerInv, Commanded, Sound
    <2>4. ASSUME NEW p \in Players, p # q PROVE PlayerInv(p)'
      <3>1. inbox'[p] = << >> /\ main' \in {"over", "guess"}
        BY <1>q, <1>0, <1>1, <1>6, <2>0, <2>4 DEF TypeInv, NetType
      <3>2. CASE client[p] = "gone"
        BY <1>q, <1>0, <1>6, <2>0, <2>4, <3>1, <3>2
           DEF PlayerInv, Sound, Commanded, Counted, Tried, Muted
      <3>3. CASE client[p] # "gone"
        <4>1. /\ Sound(p) /\ Sound(p)' /\ At(p)' = Result
              /\ InStep(p, client'[p], outbox'[p])
          BY <1>4, <1>6, <1>8, <2>4, <3>3
        <4>2. client[p] = "answer" =>
                 Head(outbox'[p]) # "note_result:unsolved" /\ Tail(outbox'[p]) # << >>
          BY <1>4, <1>6, <1>8, <2>4, <3>3, <4>1
        <4>3. Station(p)' /\ Counted(p)'
          BY <1>3, <2>0, <2>4, <4>1 DEF Station, Counted
        <4>4. Tried(p)' /\ Muted(p)'
          BY <1>q, <1>0, <1>6, <2>4, <4>1, <4>2 DEF Tried, Muted, Only, Sound
        <4> QED
          BY <1>q, <1>0, <3>1, <3>3, <4>1, <4>3, <4>4 DEF PlayerInv, Commanded
      <3> QED
        BY <3>2, <3>3
    <2>5. \A p \in Players : PlayerInv(p)'
      BY <2>3, <2>4
    <2> QED
      BY <2>1, <2>2, <2>5 DEF Inv
  <1> QED
    BY <1>2, <1>7, <1>8

-----------------------------------------------------------------------------
(* The invariant, and what follows from it. *)

LEMMA StepKeeps == Inv /\ [Next]_vars => Inv'
  <1> SUFFICES ASSUME Inv, [Next]_vars PROVE Inv'
    OBVIOUS
  <1>1. CASE MainStep
    BY <1>1, StartRoundKeeps, HandleGuessKeeps, PerformerEndsKeeps, GameOverKeeps,
       NextRoundKeeps, NoNextRoundKeeps DEF MainStep
  <1>2. CASE PlayAgain
    BY <1>2, PlayAgainKeeps
  <1>3. CASE HostLeaves
    BY <1>3, ClientCloses DEF HostLeaves, LeavePrompt, Players
  <1>4. ASSUME NEW p \in Players, Read(p) PROVE Inv'
    <2>1. CASE GameStartFails(p)
      BY <2>1, ClientCloses DEF GameStartFails, AwaitFails
    <2> QED
      BY <1>4, <2>1, GameStartsKeeps, ReadAnswerKeeps, ReadLastKeeps, WatchKeeps,
         ReadEndKeeps DEF Read
  <1>5. ASSUME NEW p \in Players,
               Record(p) \/ MicrophoneFails(p) \/ SendGuess(p) \/ ClientDies(p)
        PROVE  Inv'
    <2>1. CASE ClientDies(p)
      BY <2>1, ClientCloses DEF ClientDies
    <2> QED
      BY <1>5, <2>1, RecordKeeps, MicrophoneFailsKeeps, SendGuessKeeps
  <1>6. CASE UNCHANGED vars
    <2>1. /\ performer' = performer /\ main' = main /\ attempt' = attempt /\ solved' = solved
          /\ inbox' = inbox /\ outbox' = outbox /\ reset' = reset /\ client' = client
          /\ tries' = tries /\ mute' = mute
      BY <1>6 DEF vars
    <2>2. "host" \in Players /\ OnlyMoves("host")
      BY <2>1 DEF OnlyMoves, roomVars, Players
    <2>3. TypeInv' /\ RoomFacts'
      BY <2>1 DEF Inv, TypeInv, RoomType, NetType, ClientType, RoomFacts
    <2>4. PlayerInv("host")'
      BY <2>1, <2>2
         DEF Inv, PlayerInv, Sound, At, Station, Commanded, Pending, RoundAsked, Counted,
             Tried, Muted, Ended
    <2> QED
      BY <2>2, <2>3, <2>4, PlayerMoves DEF TypeInv
  <1> QED
    BY <1>1, <1>2, <1>3, <1>4, <1>5, <1>6 DEF Next

LEMMA InvHolds == Spec => []Inv
  BY InvStarts, StepKeeps, PTL DEF Spec

\* Every variable has its type, and no round has more attempts than guesses.
THEOREM NoteTypeOK == Spec => []TypeOK
  <1>1. Inv => TypeOK
    BY DEF Inv, TypeInv, RoomType, NetType, ClientType, TypeOK
  <1> QED
    BY <1>1, InvHolds, PTL

\* The score of a solved game is the number of the performer's guesses, whatever
\* it sent in the rounds before, or while its microphone failed.
THEOREM NoteScoreCountsGuesses == Spec => []ScoreCountsGuesses
  <1>1. Inv => ScoreCountsGuesses
    BY DEF Inv, TypeInv, RoomType, PlayerInv, Counted, ScoreCountsGuesses
  <1> QED
    BY <1>1, InvHolds, PTL

\* The two ends stay in step: every event a client reads is one that its code is
\* written for, however many rounds the guest is behind.
THEOREM NoteExpectedEvents == Spec => []ExpectedEvents
  <1>1. ASSUME Inv PROVE ExpectedEvents
    <2>1. ASSUME NEW p \in Players, p \notin mute, outbox[p] # << >>
          PROVE  Head(outbox[p]) \in May(p, client[p])
      <3>1. PlayerInv(p) /\ outbox[p] \in Seq(Events)
        BY <1>1 DEF Inv, TypeInv, NetType
      <3>2. InStep(p, client[p], outbox[p])
        BY <2>1, <3>1 DEF PlayerInv, Sound
      <3> QED
        BY <2>1, <3>1, <3>2, HeadInStep
    <2> QED
      BY <2>1, MayBe DEF ExpectedEvents
  <1> QED
    BY <1>1, InvHolds, PTL

\* The room and a performer wait for each other only when the performer's
\* microphone has failed.
THEOREM NoteOnlyTheMuteBlock == Spec => []OnlyTheMuteBlock
  <1>1. ASSUME Inv PROVE OnlyTheMuteBlock
    <2>1. SUFFICES ASSUME /\ main = "guess" /\ inbox[performer] = << >>
                          /\ client[performer] = "await" /\ outbox[performer] = << >>
                          /\ performer \notin mute
                   PROVE  FALSE
      BY DEF OnlyTheMuteBlock
    <2>2. PlayerInv(performer) /\ Sound(performer) /\ At(performer) = "await"
      BY <1>1, <2>1 DEF Inv, TypeInv, RoomType, Sound, At, Where
    <2> QED
      BY <2>1, <2>2 DEF PlayerInv, Station, Start, Only
  <1> QED
    BY <1>1, InvHolds, PTL

-----------------------------------------------------------------------------
(* The room implements RoomSpec.                                             *)

\* The abstract room's variables.
Round ==
  CASE main \in {"starting", "next"} -> "between"
    [] Ended -> "ended"
    [] OTHER -> "played"
Due == [p \in Players |-> RolesDue(p)]
Place ==
  [p \in Players |-> CASE client[p] \in {"await", "prompt"} -> "out"
                       [] Gone(p) -> "gone"
                       [] client[p] = "watching" -> "COMMUNICATOR"
                       [] OTHER -> "PERFORMER"]

\* The abstract round, by the room's program counter.
LEMMA RoundIs ==
  /\ main \in {"starting", "next"} => Round = "between"
  /\ main = "ended" => Round = "ended"
  /\ main \notin {"starting", "next", "ended"} => Round = "played"
  BY DEF Round, Ended

LEMMA RoundIsNext ==
  /\ main' \in {"starting", "next"} => Round' = "between"
  /\ main' = "ended" => Round' = "ended"
  /\ main' \notin {"starting", "next", "ended"} => Round' = "played"
  BY DEF Round, Ended

\* A step that leaves round, roles due and places alone is a stutter of RoomSpec.
LEMMA Stutters ==
  ASSUME Round' = Round, Due' = Due, Place' = Place
  PROVE  [Room!Next]_Room!vars
  BY Zenon DEF Room!vars, Round, Due, Place

\* The room ends, alone or after the host has been told of a round that the
\* guest's end of the connection did not let begin: RoomSpec's End.
LEMMA Ends ==
  ASSUME Round # "ended", Round' = "ended", Place' = Place,
         \/ Due' = Due
         \/ /\ Round = "between" /\ Place["guest"] = "gone" /\ Place["host"] = "out"
            /\ \E role \in Roles : Due' = [Due EXCEPT !["host"] = Append(@, role)]
  PROVE  [Room!Next]_Room!vars
  <1>1. Room!Roles = Roles
    BY DEF Room!Roles, Roles
  <1>2. Room!End
    BY <1>1, Zenon DEF Room!End, Round, Due, Place
  <1> QED
    BY <1>2, Zenon DEF Room!Next

\* A dealt round is RoomSpec's Begin.
LEMMA Begins ==
  ASSUME Round = "between", Place["host"] \notin Roles, Round' = "played", Place' = Place,
         NEW q \in Players,
         Due' = [p \in Players |-> IF Place[p] = "gone" THEN Due[p]
                                   ELSE Append(Due[p], RoleIn(StartOf(p, q)))]
  PROVE  [Room!Next]_Room!vars
  <1>1. Room!Roles = Roles /\ Room!Players = Players
    BY DEF Room!Roles, Roles, Room!Players, Players
  <1>2. \A p : Room!RoleOf(p, q) = RoleIn(StartOf(p, q))
    BY StartFacts DEF Room!RoleOf
  <1>3. Due' = [p \in Room!Players |-> IF Place[p] = "gone" THEN Due[p]
                                       ELSE Append(Due[p], Room!RoleOf(p, q))]
    BY <1>1, <1>2, Zenon
  <1>4. Room!Begin
    BY <1>1, <1>3, Zenon DEF Room!Begin, Round, Due, Place
  <1> QED
    BY <1>4, Zenon DEF Room!Next

\* The end of a round is RoomSpec's Finish.
LEMMA Finishes ==
  ASSUME Round = "played", Round' = "between", Due' = Due, Place' = Place
  PROVE  [Room!Next]_Room!vars
  <1>1. Room!Finish
    BY Zenon DEF Room!Finish, Round, Due, Place
  <1> QED
    BY <1>1, Zenon DEF Room!Next

\* A player who takes up the next role dealt to it makes RoomSpec's Join.
LEMMA JoinsOne ==
  ASSUME NEW p \in Players, Round' = Round, Place[p] = "out", Due[p] # << >>,
         Place' = [Place EXCEPT ![p] = Head(Due[p])], Due' = [Due EXCEPT ![p] = Tail(@)]
  PROVE  [Room!Next]_Room!vars
  <1>1. Room!Players = Players
    BY DEF Room!Players, Players
  <1>2. Room!Join(p)
    BY Zenon DEF Room!Join, Round, Due, Place
  <1> QED
    BY <1>1, <1>2, Zenon DEF Room!Next

\* A player who is out of the round makes RoomSpec's Leave.
LEMMA LeavesOne ==
  ASSUME NEW p \in Players, Round' = Round, Place[p] \in Roles, Due' = Due,
         Place' = [Place EXCEPT ![p] = "out"]
  PROVE  [Room!Next]_Room!vars
  <1>1. Room!Roles = Roles /\ Room!Players = Players
    BY DEF Room!Roles, Roles, Room!Players, Players
  <1>2. Room!Leave(p)
    BY <1>1, Zenon DEF Room!Leave, Round, Due, Place
  <1> QED
    BY <1>1, <1>2, Zenon DEF Room!Next

\* A player who goes makes RoomSpec's Quit, whatever was on its way to it.
LEMMA QuitsOne ==
  ASSUME NEW p \in Players, Round' = Round, Place[p] # "gone",
         Place' = [Place EXCEPT ![p] = "gone"], Due' = [Due EXCEPT ![p] = << >>]
  PROVE  [Room!Next]_Room!vars
  <1>1. Room!Players = Players
    BY DEF Room!Players, Players
  <1>2. Room!Quit(p)
    BY Zenon DEF Room!Quit, Round, Due, Place
  <1> QED
    BY <1>1, <1>2, Zenon DEF Room!Next


-----------------------------------------------------------------------------
(* The steps of the room and of the players.                                 *)

\* What the room is told of a place of the client program.
PlaceOf(place) ==
  CASE place \in {"await", "prompt"} -> "out"
    [] place = "gone" -> "gone"
    [] place = "watching" -> "COMMUNICATOR"
    [] OTHER -> "PERFORMER"

\* The abstract place of a player, of any of its program counters.
LEMMA PlacesAre ==
  /\ PlaceOf("await") = "out" /\ PlaceOf("prompt") = "out" /\ PlaceOf("gone") = "gone"
  /\ PlaceOf("watching") = "COMMUNICATOR"
  /\ \A place \in {"ready", "recording", "answer", "idle", "last"} : PlaceOf(place) = "PERFORMER"
  /\ \A place : PlaceOf(place) = "gone" <=> place = "gone"
  BY DEF PlaceOf

LEMMA PlaceIs ==
  \A p \in Players :
     Place[p] = PlaceOf(client[p]) /\ (Gone(p) <=> Place[p] = "gone")
  <1> SUFFICES ASSUME NEW p \in Players
               PROVE  Place[p] = PlaceOf(client[p]) /\ (Gone(p) <=> Place[p] = "gone")
    OBVIOUS
  <1>1. Place[p] = PlaceOf(client[p])
    BY DEF Place, PlaceOf, Gone
  <1> QED
    BY <1>1, PlacesAre DEF Gone

\* What the abstract variables depend on.
LEMMA NothingDealt == UNCHANGED outbox => Due' = Due
  BY Zenon DEF Due, RolesDue

LEMMA NobodyMoves == UNCHANGED client => Place' = Place
  BY Zenon DEF Place, Gone

LEMMA TypedQueues == Inv => Queues(Events)
  BY DEF Inv, TypeInv, NetType, Queues

\* Nothing but the main thread's place in a round changes, if that.
LEMMA Quietly ==
  ASSUME UNCHANGED <<outbox, client>>, Round' = Round
  PROVE  [Room!Next]_Room!vars
  BY NothingDealt, NobodyMoves, Stutters, Zenon

\* The events of a round deal no role; a write that kills the room ends it.
LEMMA SendMaps ==
  ASSUME Inv, main \in {"guess", "over"}, NEW m \in Events \ Starts,
         NEW first, Killed(first, ToBoth(m)) \/ Delivered(ToBoth(m)), UNCHANGED client
  PROVE  /\ main' \in {"guess", "over"} => [Room!Next]_Room!vars
         /\ main' \in {"next", "ended"} => [Room!Next]_Room!vars
  <1>1. Due' = Due
    <2>1. /\ DOMAIN ToBoth(m) \subseteq Players
          /\ \A p \in DOMAIN ToBoth(m) : ToBoth(m)[p] \in Events \ Starts
      BY DEF ToBoth
    <2>2. \A p \in Players : RolesDue(p)' = RolesDue(p)
      BY <2>1, TypedQueues, OtherSent
    <2> QED
      BY <2>2, Zenon DEF Due
  <1>2. Round = "played" /\ Place' = Place
    <2>1. main \notin {"starting", "next", "ended"}
      OBVIOUS
    <2> QED
      BY <2>1, RoundIs, NobodyMoves, Zenon
  <1>3. CASE main' \in {"guess", "over"}
    <2>1. main' \notin {"starting", "next", "ended"}
      BY <1>3
    <2>2. Round' = Round
      BY <1>2, <2>1, RoundIsNext, Zenon
    <2> QED
      BY <1>1, <1>2, <1>3, <2>2, Stutters
  <1>4. CASE main' = "next"
    <2>1. Round' = "between"
      BY <1>4, RoundIsNext
    <2> QED
      BY <1>1, <1>2, <2>1, Finishes, Zenon
  <1>5. CASE main' = "ended"
    <2>1. Round' = "ended" /\ Round # "ended"
      BY <1>2, <1>5, RoundIsNext
    <2> QED
      BY <1>1, <1>2, <2>1, Ends, Zenon
  <1> QED
    BY <1>3, <1>4, <1>5

\* startRound begins a round, or ends the room at the write that kills it.
LEMMA StartRoundMaps ==
  ASSUME Inv, ResetInv, StartRound
  PROVE  [Room!Next]_Room!vars
  <1>0. "host" \in Players /\ "guest" \in Players
    BY DEF Players
  <1>1. PICK q \in Players :
          Send("host", [p \in Players |-> StartOf(p, q)],
               /\ performer' = q /\ main' = "guess"
               /\ attempt' = 0 /\ solved' = FALSE
               /\ UNCHANGED inbox,
               RoomEnds)
    BY Zenon DEF StartRound
  <1>2. /\ Round = "between" /\ Place' = Place /\ main = "starting"
        /\ client["host"] \in {"await", "gone"}
    <2>1. main = "starting" /\ UNCHANGED client
      BY Zenon DEF StartRound
    <2> QED
      BY <2>1, RoundIs, NobodyMoves, Zenon DEF Inv, RoomFacts
  <1>3. Place["host"] \notin Roles /\ (~Gone("host") => Place["host"] = "out")
    <2>1. Place["host"] = PlaceOf(client["host"])
      BY <1>0, PlaceIs
    <2> QED
      BY <1>2, <2>1, PlacesAre DEF Roles, Gone
  <1> DEFINE sent == [p \in Players |-> StartOf(p, q)]
  <1>4. /\ Delivered(sent) =>
              \A p \in Players :
                 RolesDue(p)' = IF Gone(p) THEN RolesDue(p)
                                ELSE Append(RolesDue(p), RoleIn(StartOf(p, q)))
        /\ Killed("host", sent) =>
              /\ reset # {}
              /\ \/ \A p \in Players : RolesDue(p)' = RolesDue(p)
                 \/ /\ "host" \notin reset /\ ~Gone("host") /\ "guest" \in reset
                    /\ RolesDue("guest")' = RolesDue("guest")
                    /\ \E role \in Roles : RolesDue("host")' = Append(RolesDue("host"), role)
    <2>1. Starts \subseteq Events
      BY DEF Events
    <2> QED
      BY <2>1, TypedQueues, RolesSent
  <1>5. \/ Killed("host", sent) /\ main' = "ended"
        \/ Delivered(sent) /\ main' = "guess"
    BY <1>1, Zenon DEF Send, RoomEnds
  <1> HIDE DEF sent
  <1>6. CASE Delivered(sent) /\ main' = "guess"
    <2>1. Round' = "played"
      <3>1. main' \notin {"starting", "next", "ended"}
        BY <1>6
      <3> QED
        BY <3>1, RoundIsNext, Zenon
    <2>2. ASSUME NEW p \in Players
          PROVE  RolesDue(p)' = IF Place[p] = "gone" THEN Due[p]
                                ELSE Append(Due[p], RoleIn(StartOf(p, q)))
      <3>1. Due[p] = RolesDue(p) /\ (Gone(p) <=> Place[p] = "gone")
        BY PlaceIs DEF Due
      <3> QED
        BY <1>4, <1>6, <3>1, Zenon
    <2>3. Due' = [p \in Players |-> IF Place[p] = "gone" THEN Due[p]
                                    ELSE Append(Due[p], RoleIn(StartOf(p, q)))]
      BY <2>2, Zenon DEF Due
    <2> QED
      BY <1>2, <1>3, <2>1, <2>3, Begins, Zenon
  <1>7. CASE Killed("host", sent) /\ main' = "ended"
    <2>1. Round' = "ended" /\ Round # "ended"
      BY <1>2, <1>7, RoundIsNext
    <2>2. CASE \A p \in Players : RolesDue(p)' = RolesDue(p)
      <3>1. Due' = Due
        BY <2>2, Zenon DEF Due
      <3> QED
        BY <1>2, <2>1, <3>1, Ends, Zenon
    <2>3. CASE /\ "host" \notin reset /\ ~Gone("host") /\ "guest" \in reset
               /\ RolesDue("guest")' = RolesDue("guest")
               /\ \E role \in Roles : RolesDue("host")' = Append(RolesDue("host"), role)
      <3>1. PICK role \in Roles : RolesDue("host")' = Append(RolesDue("host"), role)
        BY <2>3
      <3>2. Place["guest"] = "gone" /\ Place["host"] = "out"
        BY <1>0, <1>3, <2>3, PlaceIs, Zenon DEF ResetInv
      <3>3. Due' = [Due EXCEPT !["host"] = Append(@, role)]
        <4>1. \A p \in Players : p # "host" => RolesDue(p)' = RolesDue(p)
          BY <2>3 DEF Players
        <4>2. \A p \in Players :
                RolesDue(p)' = IF p = "host" THEN Append(RolesDue("host"), role) ELSE RolesDue(p)
          BY <3>1, <4>1, Zenon
        <4>3. Due' = [p \in Players |-> IF p = "host" THEN Append(RolesDue("host"), role)
                                        ELSE RolesDue(p)]
          BY <4>2, Zenon DEF Due
        <4> QED
          BY <1>0, <4>3 DEF Due
      <3> QED
        BY <1>2, <2>1, <3>2, <3>3, Ends, Zenon
    <2> QED
      BY <1>4, <1>7, <2>2, <2>3, Zenon
  <1> QED
    BY <1>5, <1>6, <1>7

\* The steps of the room's process.
LEMMA RoomMaps ==
  ASSUME Inv, ResetInv, MainStep
  PROVE  [Room!Next]_Room!vars
  <1>0. "game_over" \in Events \ Starts /\ Result \in Events \ Starts
    BY DEF Events, Starts, Start, Roles, Result, Results
  <1>1. CASE StartRound
    BY <1>1, StartRoundMaps
  <1>2. CASE HandleGuess
    <2>1. /\ main = "guess" /\ UNCHANGED client /\ (main' \in {"guess", "over"} \/ main' = "ended")
          /\ Killed(performer, ToBoth(Result)) \/ Delivered(ToBoth(Result))
      BY <1>2 DEF HandleGuess, Judge, Send, RoomEnds
    <2> QED
      BY <1>0, <2>1, SendMaps
  <1>3. CASE PerformerEnds
    <2>1. main = "guess" /\ main' = "over" /\ UNCHANGED <<outbox, client>>
      BY <1>3, Zenon DEF PerformerEnds
    <2>2. Round = "played" /\ Round' = "played"
      BY <2>1, RoundIs, RoundIsNext
    <2> QED
      BY <2>1, <2>2, Quietly, Zenon
  <1>4. CASE GameOver
    <2>1. /\ main = "over" /\ UNCHANGED client /\ main' \in {"next", "ended"}
          /\ Killed(performer, ToBoth("game_over")) \/ Delivered(ToBoth("game_over"))
      BY <1>4 DEF GameOver, Send, RoomEnds
    <2> QED
      BY <1>0, <2>1, SendMaps
  <1>5. CASE NextRound
    <2>1. main = "next" /\ main' = "starting" /\ UNCHANGED <<outbox, client>>
      BY <1>5, Zenon DEF NextRound, RoundAskedFor
    <2>2. Round = "between" /\ Round' = "between"
      BY <2>1, RoundIs, RoundIsNext
    <2> QED
      BY <2>1, <2>2, Quietly, Zenon
  <1>6. CASE NoNextRound
    <2>1. main = "next" /\ main' = "ended" /\ UNCHANGED <<outbox, client>>
      BY <1>6, Zenon DEF NoNextRound, NoRoundAskedFor, RoomEnds
    <2>2. Round # "ended" /\ Round' = "ended"
      BY <2>1, RoundIs, RoundIsNext
    <2> QED
      BY <2>1, <2>2, NothingDealt, NobodyMoves, Ends, Zenon
  <1> QED
    BY <1>1, <1>2, <1>3, <1>4, <1>5, <1>6, Zenon DEF MainStep

\* A player that moves.
LEMMA MovesOne ==
  ASSUME Inv, NEW p \in Players, NEW place, Moves(p, place)
  PROVE  /\ Place' = [Place EXCEPT ![p] = PlaceOf(place)]
         /\ PlaceOf(place) = PlaceOf(client[p]) => Place' = Place
  <1>1. \A o \in Players : client'[o] = IF o = p THEN place ELSE client[o]
    BY DEF Moves, Inv, TypeInv, ClientType
  <1>2. \A o \in Players : Place[o] = PlaceOf(client[o])
    BY PlaceIs
  <1>3. Place' = [o \in Players |-> PlaceOf(client'[o])]
    BY DEF Place, PlaceOf, Gone
  <1>4. Place' = [o \in Players |-> IF o = p THEN PlaceOf(place) ELSE Place[o]]
    BY <1>1, <1>2, <1>3, Zenon
  <1>5. Place = [o \in Players |-> Place[o]]
    BY DEF Place
  <1>6. PlaceOf(place) = PlaceOf(client[p]) => Place' = Place
    BY <1>2, <1>4, <1>5, Zenon
  <1> QED
    BY <1>4, <1>5, <1>6

\* A player who closes its connection goes, with all that it has not read.
LEMMA CloseMaps ==
  ASSUME Inv, NEW p \in Players, ~Gone(p), NEW unread, Close(p, unread), UNCHANGED main
  PROVE  [Room!Next]_Room!vars
  <1>1. Place' = [Place EXCEPT ![p] = "gone"]
    <2>1. Moves(p, "gone")
      BY Zenon DEF Close
    <2>2. Place' = [Place EXCEPT ![p] = PlaceOf("gone")]
      BY <2>1, MovesOne, Zenon
    <2>3. PlaceOf("gone") = "gone"
      BY PlacesAre
    <2> QED
      BY <2>2, <2>3, Zenon
  <1>2. Place[p] # "gone"
    BY PlaceIs
  <1>3. RolesDue(p)' = << >> /\ \A o \in Players \ {p} : RolesDue(o)' = RolesDue(o)
    BY TypedQueues, RolesLost
  <1>4. Due' = [Due EXCEPT ![p] = << >>]
    <2>1. Due' = [o \in Players |-> IF o = p THEN << >> ELSE RolesDue(o)]
      BY <1>3, Zenon DEF Due
    <2> QED
      BY <2>1 DEF Due
  <1>5. Round' = Round
    BY Zenon DEF Round, Ended
  <1> QED
    BY <1>1, <1>2, <1>4, <1>5, QuitsOne, Zenon

\* A player who reads a game_start takes up the role it names.
LEMMA GameStartsMaps ==
  ASSUME Inv, NEW p \in Players, GameStarts(p)
  PROVE  [Room!Next]_Room!vars
  <1>1. /\ client[p] = "await" /\ outbox[p] # << >> /\ UNCHANGED main
        /\ Head(outbox[p]) \in Starts /\ outbox' = [outbox EXCEPT ![p] = Tail(@)]
        /\ Moves(p, IF Head(outbox[p]) = Start("PERFORMER") THEN "ready" ELSE "watching")
    BY Zenon DEF GameStarts, roomVars
  <1>2. RoleIn(Head(outbox[p])) =
          PlaceOf(IF Head(outbox[p]) = Start("PERFORMER") THEN "ready" ELSE "watching")
    BY PlacesAre DEF RoleIn
  <1>3. /\ RolesDue(p) # << >> /\ Head(RolesDue(p)) = RoleIn(Head(outbox[p]))
        /\ RolesDue(p)' = Tail(RolesDue(p))
        /\ \A o \in Players \ {p} : RolesDue(o)' = RolesDue(o)
    BY <1>1, TypedQueues, RoleRead
  <1>4. Due' = [Due EXCEPT ![p] = Tail(@)]
    <2>1. Due' = [o \in Players |-> IF o = p THEN Tail(RolesDue(p)) ELSE RolesDue(o)]
      BY <1>3, Zenon DEF Due
    <2> QED
      BY <2>1 DEF Due
  <1>5. Place' = [Place EXCEPT ![p] = RoleIn(Head(outbox[p]))]
    BY <1>1, <1>2, MovesOne, Zenon
  <1>6. Place[p] = "out" /\ Due[p] = RolesDue(p)
    BY <1>1, PlaceIs, PlacesAre DEF Due
  <1>7. Round' = Round
    BY <1>1, Zenon DEF Round, Ended
  <1> QED
    BY <1>3, <1>4, <1>5, <1>6, <1>7, JoinsOne, Zenon

\* In a session no game_start is read.
LEMMA NoRoleRead ==
  ASSUME Inv, NEW p \in Players, client[p] \in {"answer", "last", "watching"},
         outbox[p] # << >>, outbox' = [outbox EXCEPT ![p] = Tail(@)]
  PROVE  Due' = Due
  <1>1. PlayerInv(p) /\ outbox[p] \in Seq(Events)
    BY DEF Inv, TypeInv, NetType
  <1>2. Sound(p)
    BY <1>1 DEF PlayerInv, Muted, Sound
  <1>3. Head(outbox[p]) \in May(p, client[p])
    BY <1>1, <1>2, HeadInStep DEF PlayerInv
  <1>4. Head(outbox[p]) \in Results \cup {"game_over"}
    BY <1>3, MayBe
  <1>5. Head(outbox[p]) \notin Starts
    BY <1>4 DEF Results, Starts, Start, Roles
  <1>6. \A o \in Players : RolesDue(o)' = RolesDue(o)
    BY <1>5, TypedQueues, RoleRead
  <1> QED
    BY <1>6, Zenon DEF Due

\* A session ends.
LEMMA SessionLeft ==
  ASSUME Inv, NEW p \in Players, client[p] \in {"ready", "last", "answer", "watching"},
         Moves(p, AfterSession(p)), Due' = Due, Round' = Round
  PROVE  [Room!Next]_Room!vars
  <1>1. Place' = [Place EXCEPT ![p] = "out"]
    <2>1. PlaceOf(AfterSession(p)) = "out"
      BY PlacesAre DEF AfterSession
    <2> QED
      BY <2>1, MovesOne, Zenon
  <1>2. Place[p] \in Roles
    BY PlaceIs, PlacesAre DEF Roles
  <1> QED
    BY <1>1, <1>2, LeavesOne, Zenon

\* The steps of a player's threads.
LEMMA ClientMaps ==
  ASSUME Inv, NEW p \in Players,
         Read(p) \/ Record(p) \/ MicrophoneFails(p) \/ SendGuess(p) \/ ClientDies(p)
  PROVE  [Room!Next]_Room!vars
  <1>0. UNCHANGED main => Round' = Round
    BY Zenon DEF Round, Ended
  <1>1. CASE GameStarts(p)
    BY <1>1, GameStartsMaps
  <1>2. CASE GameStartFails(p)
    <2>1. UNCHANGED main /\ ~Gone(p) /\ \E unread : Close(p, unread)
      BY <1>2, Zenon DEF GameStartFails, AwaitFails, Gone, roomVars
    <2> QED
      BY <2>1, CloseMaps, Zenon
  <1>3. CASE ReadAnswer(p)
    <2>1. /\ client[p] = "answer" /\ outbox[p] # << >> /\ UNCHANGED main
          /\ outbox' = [outbox EXCEPT ![p] = Tail(@)]
          /\ \E place \in {"last", "idle", "recording"} : Moves(p, place)
      BY <1>3 DEF ReadAnswer, roomVars
    <2>2. Due' = Due
      BY <2>1, NoRoleRead
    <2>3. Place' = Place
      <3>1. PICK place \in {"last", "idle", "recording"} : Moves(p, place)
        BY <2>1
      <3>2. PlaceOf(place) = PlaceOf(client[p])
        BY <2>1, PlacesAre
      <3> QED
        BY <3>1, <3>2, MovesOne, Zenon
    <2> QED
      BY <1>0, <2>1, <2>2, <2>3, Stutters, Zenon
  <1>4. CASE ReadLast(p)
    <2>1. /\ client[p] = "last" /\ outbox[p] # << >> /\ UNCHANGED main
          /\ outbox' = [outbox EXCEPT ![p] = Tail(@)] /\ Moves(p, AfterSession(p))
      BY <1>4, Zenon DEF ReadLast, roomVars
    <2>2. Due' = Due
      BY <2>1, NoRoleRead
    <2> QED
      BY <1>0, <2>1, <2>2, SessionLeft
  <1>5. CASE Watch(p)
    <2>1. /\ client[p] = "watching" /\ outbox[p] # << >> /\ UNCHANGED main
          /\ outbox' = [outbox EXCEPT ![p] = Tail(@)]
          /\ Moves(p, AfterSession(p)) \/ Moves(p, "watching")
      BY <1>5 DEF Watch, roomVars
    <2>2. Due' = Due
      BY <2>1, NoRoleRead
    <2>3. CASE Moves(p, AfterSession(p))
      BY <1>0, <2>1, <2>2, <2>3, SessionLeft
    <2>4. CASE Moves(p, "watching")
      <3>1. Place' = Place
        BY <2>1, <2>4, MovesOne, Zenon
      <3> QED
        BY <1>0, <2>1, <2>2, <3>1, Stutters, Zenon
    <2> QED
      BY <2>1, <2>3, <2>4
  <1>6. CASE ReadEnd(p)
    <2>1. /\ client[p] \in {"answer", "last", "watching"} /\ UNCHANGED <<main, outbox>>
          /\ Moves(p, AfterSession(p))
      BY <1>6, Zenon DEF ReadEnd, roomVars
    <2> QED
      BY <1>0, <2>1, NothingDealt, SessionLeft
  <1>7. CASE Record(p)
    <2>1. client[p] \in {"ready", "idle"} /\ UNCHANGED <<main, outbox>> /\ Moves(p, "recording")
      BY <1>7, Zenon DEF Record, roomVars
    <2>2. PlaceOf("recording") = PlaceOf(client[p])
      BY <2>1, PlacesAre
    <2> QED
      BY <1>0, <2>1, <2>2, NothingDealt, MovesOne, Stutters, Zenon
  <1>8. CASE MicrophoneFails(p)
    <2>1. client[p] = "ready" /\ UNCHANGED <<main, outbox>> /\ Moves(p, AfterSession(p))
      BY <1>8, Zenon DEF MicrophoneFails, roomVars
    <2> QED
      BY <1>0, <2>1, NothingDealt, SessionLeft
  <1>9. CASE SendGuess(p)
    <2>1. client[p] = "recording" /\ UNCHANGED <<main, outbox>> /\ Moves(p, "answer")
      BY <1>9, Zenon DEF SendGuess, roomVars
    <2>2. PlaceOf("answer") = PlaceOf(client[p])
      BY <2>1, PlacesAre
    <2> QED
      BY <1>0, <2>1, <2>2, NothingDealt, MovesOne, Stutters, Zenon
  <1>10. CASE ClientDies(p)
    <2>1. UNCHANGED main /\ ~Gone(p) /\ \E unread : Close(p, unread)
      BY <1>10, Zenon DEF ClientDies, roomVars
    <2> QED
      BY <2>1, CloseMaps, Zenon
  <1> QED
    BY <1>1, <1>2, <1>3, <1>4, <1>5, <1>6, <1>7, <1>8, <1>9, <1>10, Zenon DEF Read

\* What only the host does.
LEMMA HostMaps ==
  ASSUME Inv, PlayAgain \/ HostLeaves
  PROVE  [Room!Next]_Room!vars
  <1>0. "host" \in Players /\ (UNCHANGED main => Round' = Round)
    BY DEF Round, Ended, Players
  <1>1. CASE PlayAgain
    <2>1. /\ UNCHANGED <<outbox, main>> /\ client["host"] = "prompt" /\ Moves("host", "await")
      BY <1>1, Zenon DEF PlayAgain, AskForRound, roomVars
    <2>2. PlaceOf("await") = PlaceOf(client["host"])
      BY <2>1, PlacesAre
    <2> QED
      BY <1>0, <2>1, <2>2, NothingDealt, MovesOne, Stutters, Zenon
  <1>2. CASE HostLeaves
    <2>1. UNCHANGED main /\ ~Gone("host") /\ \E unread : Close("host", unread)
      BY <1>2, Zenon DEF HostLeaves, LeavePrompt, Gone, roomVars
    <2> QED
      BY <1>0, <2>1, CloseMaps, Zenon
  <1> QED
    BY <1>1, <1>2

\* Gone for good.
LEMMA ResetStep == Inv /\ ResetInv /\ [Next]_vars => ResetInv'
  <1> SUFFICES ASSUME Inv, ResetInv, [Next]_vars PROVE ResetInv'
    OBVIOUS
  <1>0. DOMAIN client = Players /\ reset \subseteq Players /\ "host" \in Players
    BY DEF Inv, TypeInv, ClientType, NetType, Players
  <1>1. CASE UNCHANGED <<reset, client>>
    BY <1>1, Zenon DEF ResetInv, Gone
  <1>2. ASSUME NEW p \in Players, NEW place, client[p] # "gone", Moves(p, place), UNCHANGED reset
        PROVE  ResetInv'
    <2>1. \A o \in Players : o # p => client'[o] = client[o]
      BY <1>0, <1>2 DEF Moves
    <2>2. p \notin reset
      BY <1>2, Zenon DEF ResetInv, Gone
    <2> QED
      BY <1>0, <1>2, <2>1, <2>2, Zenon DEF ResetInv, Gone
  <1>3. CASE UNCHANGED client /\ \E first, sent : Killed(first, sent) \/ Delivered(sent)
    BY <1>3, ResetSent, Zenon
  <1>4. ASSUME NEW p \in Players, NEW unread, Close(p, unread) PROVE ResetInv'
    BY <1>0, <1>4, ResetClosed
  <1>5. CASE MainStep
    <2>1. \/ UNCHANGED <<reset, client>>
          \/ UNCHANGED client /\ \E first, sent : Killed(first, sent) \/ Delivered(sent)
      BY <1>5, Zenon
      DEF MainStep, StartRound, HandleGuess, Judge, PerformerEnds, GameOver, NextRound, NoNextRound,
          Send
    <2> QED
      BY <1>1, <1>3, <2>1
  <1>6. CASE PlayAgain
    <2>1. client["host"] # "gone" /\ Moves("host", "await") /\ UNCHANGED reset
      BY <1>6, Zenon DEF PlayAgain, AskForRound
    <2> QED
      BY <1>0, <1>2, <2>1, Zenon
  <1>7. CASE HostLeaves
    BY <1>0, <1>4, <1>7, Zenon DEF HostLeaves, LeavePrompt
  <1>8. ASSUME NEW p \in Players,
               Read(p) \/ Record(p) \/ MicrophoneFails(p) \/ SendGuess(p) \/ ClientDies(p)
        PROVE  ResetInv'
    <2>1. \/ client[p] # "gone" /\ UNCHANGED reset /\ \E place : Moves(p, place)
          \/ \E unread : Close(p, unread)
      <3>1. CASE GameStarts(p) \/ ReadAnswer(p) \/ ReadLast(p) \/ Watch(p)
        BY <3>1, Zenon DEF GameStarts, ReadAnswer, ReadLast, Watch
      <3>2. CASE ReadEnd(p)
        <4>1. client[p] # "gone"
          BY <3>2 DEF ReadEnd
        <4> QED
          BY <3>2, <4>1, Zenon DEF ReadEnd
      <3>3. CASE Record(p) \/ MicrophoneFails(p) \/ SendGuess(p)
        <4>1. client[p] # "gone"
          BY <3>3 DEF Record, MicrophoneFails, SendGuess
        <4> QED
          BY <3>3, <4>1, Zenon DEF Record, MicrophoneFails, SendGuess
      <3>4. CASE GameStartFails(p) \/ ClientDies(p)
        BY <3>4, Zenon DEF GameStartFails, AwaitFails, ClientDies
      <3> QED
        BY <1>8, <3>1, <3>2, <3>3, <3>4, Zenon DEF Read
    <2> QED
      BY <1>2, <1>4, <2>1
  <1>9. CASE UNCHANGED vars
    BY <1>1, <1>9, Zenon DEF vars
  <1> QED
    BY <1>5, <1>6, <1>7, <1>8, <1>9, Zenon DEF Next

\* The room and its clients keep RoomSpec's promise, failing microphones and
\* killed programs included: rounds begin one after the other, each deals the
\* two roles once, and a role that has been dealt is taken up once, unless the
\* player goes.
THEOREM NoteRoomPromise == Spec => RoomPromise
  <1>1. Init => Room!Init /\ ResetInv
    <2> SUFFICES ASSUME Init PROVE Room!Init /\ ResetInv
      OBVIOUS
    <2>1. /\ main = "starting" /\ reset = {}
          /\ \A p \in Players : outbox[p] = << >> /\ client[p] = "await"
      BY Zenon DEF Init
    <2>2. Round = "between"
      BY <2>1, RoundIs
    <2>3. Due = [p \in Players |-> << >>]
      BY <2>1, RolesFacts, Zenon DEF Due, RolesDue
    <2>4. Place = [p \in Players |-> "out"]
      <3>1. \A p \in Players : Place[p] = "out"
        BY <2>1, PlaceIs, PlacesAre
      <3>2. Place = [p \in Players |-> Place[p]]
        BY DEF Place
      <3> QED
        BY <3>1, <3>2, Zenon
    <2>5. Room!Players = Players
      BY DEF Room!Players, Players
    <2>6. Room!Init
      BY <2>2, <2>3, <2>4, <2>5, Zenon DEF Room!Init, Round, Due, Place
    <2> QED
      BY <2>1, <2>6, Zenon DEF ResetInv
  <1>2. Inv /\ ResetInv /\ [Next]_vars => [Room!Next]_Room!vars
    <2> SUFFICES ASSUME Inv, ResetInv, [Next]_vars PROVE [Room!Next]_Room!vars
      OBVIOUS
    <2>1. CASE UNCHANGED vars
      <3>1. UNCHANGED <<outbox, client, main>>
        BY <2>1, Zenon DEF vars
      <3>2. Round' = Round
        BY <3>1, Zenon DEF Round, Ended
      <3> QED
        BY <3>1, <3>2, Quietly, Zenon
    <2> QED
      BY <2>1, RoomMaps, HostMaps, ClientMaps, Zenon DEF Next
  <1>3. Inv /\ ResetInv /\ [Next]_vars => ResetInv'
    BY ResetStep
  <1> QED
    BY <1>1, <1>2, <1>3, InvHolds, PTL DEF Spec, RoomPromise, Room!Spec
=============================================================================
