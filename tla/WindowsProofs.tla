--------------------------- MODULE WindowsProofs ---------------------------
(***************************************************************************)
(* No pointer of QtGUI dangles, a prompt loses its window in two ways only *)
(* and no game is entered on a closed connection, for any number of        *)
(* windows and of event loops inside each other.                           *)
(***************************************************************************)
EXTENDS Windows, SequenceTheorems, TLAPS

-----------------------------------------------------------------------------
(* The event loops. *)

LoopRecords == [waits : Waits, of : Addresses \cup {Null}, answer : Answers]

\* Only handlers open loops inside others, and they all ask for a game.
LoopsInv ==
  /\ loops \in Seq(LoopRecords) /\ Len(loops) <= MaxLoops
  /\ \A i \in 1..Len(loops) : i # 1 => loops[i].waits = "game"

LEMMA LoopsFacts ==
  ASSUME LoopsInv
  PROVE  /\ Len(loops) \in 0..MaxLoops /\ DOMAIN loops = 1..Len(loops)
         /\ loops = << >> <=> Len(loops) = 0
         /\ \A i \in 1..Len(loops) : loops[i] \in LoopRecords
         /\ Top = loops[Len(loops)]
  <1>1. loops \in Seq(LoopRecords) /\ Len(loops) <= MaxLoops
    BY DEF LoopsInv
  <1>2. /\ Len(loops) \in Nat /\ DOMAIN loops = 1..Len(loops)
        /\ \A i \in 1..Len(loops) : loops[i] \in LoopRecords
    BY <1>1
  <1>3. loops = << >> <=> Len(loops) = 0
    BY <1>1, EmptySeq, Zenon
  <1>4. Top = loops[Len(loops)]
    BY DEF Top, Last
  <1> QED
    BY <1>1, <1>2, <1>3, <1>4, MaxLoopsAssumption

\* The code waits outside of all handlers.
LEMMA OneLoop ==
  ASSUME NEW waits \in Waits, NEW of \in Addresses \cup {Null},
         loops' = <<Loop(waits, of)>>
  PROVE  /\ LoopsInv' /\ Len(loops') = 1 /\ loops' # << >>
         /\ loops'[1] = [waits |-> waits, of |-> of, answer |-> "none"]
  <1>1. Loop(waits, of) \in LoopRecords
    BY DEF Loop, LoopRecords, Answers
  <1>2. /\ loops' \in Seq(LoopRecords) /\ Len(loops') = 1
        /\ loops'[1] = [waits |-> waits, of |-> of, answer |-> "none"]
    BY <1>1 DEF Loop
  <1>3. loops' # << >>
    BY <1>2, EmptySeq
  <1> QED
    BY <1>2, <1>3, MaxLoopsAssumption DEF LoopsInv

\* What an answer leaves of the loops: everything but answers.
SameLoops ==
  /\ LoopsInv' /\ Len(loops') = Len(loops)
  /\ \A i \in 1..Len(loops) : loops'[i].waits = loops[i].waits /\ loops'[i].of = loops[i].of

LEMMA FirstAnswered ==
  ASSUME LoopsInv, loops # << >>, NEW answer \in Answers,
         loops' = [loops EXCEPT ![1].answer = answer]
  PROVE  /\ SameLoops /\ loops'[1].answer = answer
         /\ \A i \in 1..Len(loops) : i # 1 => loops'[i] = loops[i]
  <1>1. /\ Len(loops) \in 1..MaxLoops /\ DOMAIN loops = 1..Len(loops)
        /\ \A i \in 1..Len(loops) : loops[i] \in LoopRecords
    BY LoopsFacts
  <1>2. [loops[1] EXCEPT !.answer = answer] \in LoopRecords
    BY <1>1 DEF LoopRecords
  <1>3. loops' \in Seq(LoopRecords) /\ Len(loops') = Len(loops)
    BY <1>1, <1>2 DEF LoopsInv
  <1>4. \A i \in 1..Len(loops) :
           loops'[i] = IF i = 1 THEN [loops[1] EXCEPT !.answer = answer] ELSE loops[i]
    BY <1>1
  <1>5. /\ loops'[1].waits = loops[1].waits /\ loops'[1].of = loops[1].of
        /\ loops'[1].answer = answer
    BY <1>1, <1>4 DEF LoopRecords
  <1> QED
    BY <1>1, <1>3, <1>4, <1>5 DEF LoopsInv, SameLoops

LEMMA WindowAnswered ==
  ASSUME LoopsInv, NEW w, NEW answer \in Answers, loops' = AnswerOf(w, answer)
  PROVE  /\ SameLoops
         /\ \A i \in 1..Len(loops) :
               /\ loops[i].of = w => loops'[i].answer = answer
               /\ loops[i].of # w => loops'[i] = loops[i]
  <1>1. /\ Len(loops) \in 0..MaxLoops /\ DOMAIN loops = 1..Len(loops)
        /\ \A i \in 1..Len(loops) : loops[i] \in LoopRecords
    BY LoopsFacts
  <1> DEFINE e(i) == IF loops[i].of = w THEN [loops[i] EXCEPT !.answer = answer] ELSE loops[i]
  <1>2. loops' = [i \in 1..Len(loops) |-> e(i)]
    BY <1>1 DEF AnswerOf
  <1>3. ASSUME NEW i \in 1..Len(loops)
        PROVE  /\ e(i) \in LoopRecords /\ e(i).waits = loops[i].waits /\ e(i).of = loops[i].of
               /\ loops[i].of = w => e(i).answer = answer
               /\ loops[i].of # w => e(i) = loops[i]
    BY <1>1 DEF LoopRecords
  <1> HIDE DEF e
  <1>4. loops' \in Seq(LoopRecords) /\ Len(loops') = Len(loops)
    BY <1>1, <1>2, <1>3
  <1>5. \A i \in 1..Len(loops) : loops'[i] = e(i)
    BY <1>2
  <1> QED
    BY <1>1, <1>3, <1>4, <1>5 DEF LoopsInv, SameLoops

\* A handler prompts.
LEMMA LoopNested ==
  ASSUME LoopsInv, Len(loops) < MaxLoops, loops # << >>, NEW menu \in Addresses,
         loops' = Append(loops, Loop("game", menu))
  PROVE  /\ LoopsInv' /\ Len(loops') = Len(loops) + 1
         /\ loops'[Len(loops) + 1] = [waits |-> "game", of |-> menu, answer |-> "none"]
         /\ \A i \in 1..Len(loops) : loops'[i] = loops[i]
  <1>1. Len(loops) \in 1..MaxLoops /\ loops \in Seq(LoopRecords)
    BY LoopsFacts DEF LoopsInv
  <1>2. Loop("game", menu) \in LoopRecords
    BY DEF Loop, LoopRecords, Waits, Prompts, Answers
  <1>3. /\ loops' \in Seq(LoopRecords) /\ Len(loops') = Len(loops) + 1
        /\ loops'[Len(loops) + 1] = [waits |-> "game", of |-> menu, answer |-> "none"]
        /\ \A i \in 1..Len(loops) : loops'[i] = loops[i]
    BY <1>1, <1>2 DEF Loop
  <1>4. \A i \in 1..Len(loops) : i # 1 => loops[i].waits = "game"
    BY DEF LoopsInv
  <1>5. ASSUME NEW i \in 1..Len(loops'), i # 1 PROVE loops'[i].waits = "game"
    <2>1. i \in 1..Len(loops) \/ i = Len(loops) + 1
      BY <1>1, <1>3, <1>5
    <2> QED
      BY <1>3, <1>4, <1>5, <2>1
  <1>6. Len(loops') <= MaxLoops
    BY <1>1, <1>3, MaxLoopsAssumption
  <1> QED
    BY <1>3, <1>5, <1>6 DEF LoopsInv

\* A handler has its answer.
LEMMA LoopLeft ==
  ASSUME LoopsInv, Len(loops) > 1, loops' = Front(loops)
  PROVE  /\ LoopsInv' /\ Len(loops') = Len(loops) - 1
         /\ \A i \in 1..(Len(loops) - 1) : loops'[i] = loops[i]
  <1>1. Len(loops) \in 2..MaxLoops /\ loops \in Seq(LoopRecords)
    BY LoopsFacts DEF LoopsInv
  <1>2. /\ loops' \in Seq(LoopRecords) /\ Len(loops') = Len(loops) - 1
        /\ \A i \in 1..(Len(loops) - 1) : loops'[i] = loops[i]
    BY <1>1 DEF Front
  <1>3. \A i \in 1..Len(loops) : i # 1 => loops[i].waits = "game"
    BY DEF LoopsInv
  <1>4. ASSUME NEW i \in 1..Len(loops'), i # 1 PROVE loops'[i].waits = "game"
    BY <1>1, <1>2, <1>3, <1>4
  <1>5. Len(loops') <= MaxLoops
    BY <1>1, <1>2, MaxLoopsAssumption
  <1> QED
    BY <1>2, <1>4, <1>5 DEF LoopsInv

-----------------------------------------------------------------------------
(* The windows. *)

WindowRecords == [kind : Kinds, open : BOOLEAN, depth : 0..MaxLoops] \cup {NoWindow}

WindowsInv == windows \in [Addresses -> WindowRecords]

LEMMA WindowFacts ==
  ASSUME WindowsInv, NEW w \in Addresses
  PROVE  /\ windows[w] \in WindowRecords
         /\ windows[w] = NoWindow <=> windows[w].kind \notin Kinds
         /\ windows[w].open \in BOOLEAN
         /\ windows[w].open => windows[w].kind \in Kinds
  <1>1. windows[w] \in WindowRecords
    BY DEF WindowsInv
  <1>2. CASE windows[w] = NoWindow
    BY <1>1, <1>2 DEF NoWindow, Kinds
  <1>3. CASE windows[w] # NoWindow
    BY <1>1, <1>3 DEF WindowRecords
  <1> QED
    BY <1>2, <1>3

\* What close() leaves of the windows: only the closed one changes, which keeps
\* its place and its kind.
LEMMA ClosedKeeps ==
  ASSUME WindowsInv, NEW w \in Addresses \cup {Null}, NEW depth \in 0..MaxLoops
  PROVE  /\ Closed(w, depth) \in [Addresses -> WindowRecords]
         /\ \A a \in Addresses : /\ Closed(w, depth)[a].kind = windows[a].kind
                                 /\ a # w => Closed(w, depth)[a] = windows[a]
  <1>1. CASE w = Null \/ ~windows[w].open
    BY <1>1 DEF Closed, WindowsInv
  <1>2. CASE ~(w = Null \/ ~windows[w].open)
    <2>1. w \in Addresses /\ windows[w].open
      BY <1>2
    <2>2. windows[w] \in [kind : Kinds, open : BOOLEAN, depth : 0..MaxLoops]
      BY <2>1, WindowFacts DEF WindowRecords, NoWindow, Kinds
    <2> DEFINE r == [windows[w] EXCEPT !.open = FALSE, !.depth = depth]
    <2>3. r \in WindowRecords /\ r.kind = windows[w].kind
      BY <2>2 DEF WindowRecords
    <2>4. Closed(w, depth) = [windows EXCEPT ![w] = r]
      BY <1>2, <2>1, <2>2 DEF Closed, WindowsInv
    <2> HIDE DEF r
    <2> QED
      BY <2>1, <2>3, <2>4 DEF WindowsInv
  <1> QED
    BY <1>1, <1>2

\* What a new window leaves of the others.
LEMMA OpenedKeeps ==
  ASSUME NEW ws \in [Addresses -> WindowRecords], NEW w \in Addresses, NEW kind \in Kinds
  PROVE  /\ Opened(ws, w, kind) \in [Addresses -> WindowRecords]
         /\ Opened(ws, w, kind)[w] = [kind |-> kind, open |-> TRUE, depth |-> 0]
         /\ \A a \in Addresses \ {w} : Opened(ws, w, kind)[a] = ws[a]
  <1>1. [kind |-> kind, open |-> TRUE, depth |-> 0] \in WindowRecords
    BY MaxLoopsAssumption DEF WindowRecords
  <1> QED
    BY <1>1 DEF Opened

-----------------------------------------------------------------------------
(* The pointers of QtGUI and the flags of the controller. *)

FlagsInv ==
  /\ mainWindow \in {"none", "shown", "hidden"}
  /\ isHost \in BOOLEAN /\ cancelRequested \in BOOLEAN /\ connected \in BOOLEAN
  /\ selected \in BOOLEAN

(***************************************************************************)
(* Who has a room, by the outermost loop: only a host that waits for its   *)
(* guest points to a host's room, only a guest that waits for the game or  *)
(* is shown its role to a guest's.                                         *)
(***************************************************************************)
PointersInv ==
  /\ activeRoom \in Addresses \cup {Null}
  /\ activeRoom # Null => windows[activeRoom].kind \in Kinds
  /\ hostGameRoom \in Addresses \cup {Null}
  /\ hostGameRoom # Null =>
        /\ windows[hostGameRoom].kind = "HostGameRoom"
        /\ loops # << >> /\ loops[1].waits = "guest"
  /\ guestGameRoom \in Addresses \cup {Null}
  /\ guestGameRoom # Null =>
        /\ windows[guestGameRoom].kind = "GuestGameRoom"
        /\ loops # << >> /\ loops[1].waits \in {"start", "role"}

\* Answering a loop leaves the pointers their windows and the loops they go with.
LEMMA PointersKept ==
  ASSUME LoopsInv, PointersInv, loops # << >>, SameLoops, UNCHANGED pointers,
         \A a \in Addresses : windows'[a].kind = windows[a].kind
  PROVE  PointersInv'
  <1>1. loops' # << >> /\ loops'[1].waits = loops[1].waits
    <2>1. Len(loops) \in Nat /\ Len(loops) # 0
      BY LoopsFacts
    <2>2. 1 \in 1..Len(loops)
      BY <2>1
    <2>3. loops' # << >>
      BY <2>1, EmptySeq DEF SameLoops
    <2> QED
      BY <2>2, <2>3 DEF SameLoops
  <1> QED
    BY <1>1 DEF PointersInv, pointers

\* Outside of all handlers exactly one loop has returned.
LEMMA ReturnedFacts ==
  ASSUME LoopsInv, NEW waits, Returned(waits)
  PROVE  /\ loops # << >> /\ Len(loops) = 1 /\ loops[1].waits = waits
         /\ Top = loops[1]
  BY LoopsFacts DEF Returned

IInv == LoopsInv /\ WindowsInv /\ FlagsInv /\ PointersInv

-----------------------------------------------------------------------------
(* Every step keeps the invariant. *)

LEMMA LoopsStep == IInv /\ [Next]_vars => LoopsInv'
  <1> SUFFICES ASSUME IInv, [Next]_vars PROVE LoopsInv'
    OBVIOUS
  <1>0. LoopsInv
    BY DEF IInv
  <1>w. /\ {"mainMenu", "guest", "start", "role", "session", "again", "code", "game"} \subseteq Waits
        /\ {"host", "join", "leave", "given", "event", "end", "handled"} \subseteq Answers
    BY DEF Waits, Prompts, Answers
  <1>k. ASSUME UNCHANGED loops PROVE LoopsInv'
    BY <1>0, <1>k DEF LoopsInv
  <1>e. ASSUME loops' = << >> PROVE LoopsInv'
    <2>1. loops' \in Seq(LoopRecords) /\ Len(loops') = 0
      BY <1>e, EmptySeq
    <2> QED
      BY <2>1, MaxLoopsAssumption DEF LoopsInv
  <1>a. ASSUME NEW waits \in Waits, NEW of \in Addresses \cup {Null},
               loops' = <<Loop(waits, of)>>
        PROVE  LoopsInv'
    BY <1>a, OneLoop
  <1>m. ASSUME ToMainMenu PROVE LoopsInv'
    BY <1>m, <1>w, <1>a DEF ToMainMenu, WaitFor
  <1>1. ASSUME NEW answer \in {"host", "join", "leave"}, PressMain(answer) PROVE LoopsInv'
    BY <1>0, <1>1, <1>w, FirstAnswered DEF PressMain, Idle, Dispatching, SameLoops
  <1>2. ASSUME NEW w \in Addresses, PressClose(w) PROVE LoopsInv'
    BY <1>0, <1>2, <1>w, <1>k, WindowAnswered DEF PressClose, SameLoops
  <1>3. ASSUME NEW w \in Addresses, PressAnswer(w) PROVE LoopsInv'
    BY <1>0, <1>3, <1>w, WindowAnswered DEF PressAnswer, SameLoops
  <1>4. ASSUME NEW w \in Addresses, PressAllPlayersConnected(w) PROVE LoopsInv'
    BY <1>0, <1>4, LoopNested
    DEF PressAllPlayersConnected, PromptGameChoice, Pressable, Idle, Dispatching
  <1>5. ASSUME NEW w \in Addresses, CloseByWindowManager(w) \/ Destroyed(w) PROVE LoopsInv'
    BY <1>5, <1>k DEF CloseByWindowManager, Destroyed
  <1>6. ASSUME NEW waits, NEW answers \in SUBSET Answers, Ends(waits, answers) PROVE LoopsInv'
    BY <1>0, <1>6, FirstAnswered DEF Ends, Idle, Dispatching, SameLoops
  <1>7. CASE Receive \/ RoleShown \/ SessionOver \/ AgainAnswered
    <2>1. /\ {"event", "end"} \in SUBSET Answers /\ {"event"} \in SUBSET Answers
          /\ {"handled", "end"} \in SUBSET Answers /\ {"leave", "given"} \in SUBSET Answers
      BY DEF Answers
    <2> QED
      BY <1>6, <1>7, <2>1 DEF Receive, RoleShown, SessionOver, AgainAnswered
  <1>8. CASE ConnectFails \/ NotJoined \/ GuestNeverCame \/ NoGameChosen \/ NotStarted
             \/ LeaveRoom
    BY <1>8, <1>m DEF ConnectFails, NotJoined, GuestNeverCame, NoGameChosen, NotStarted, LeaveRoom
  <1>9. CASE HostRoom \/ Joined \/ GameChosen \/ Started \/ Play \/ AskedAgain
    BY <1>9, <1>w, <1>a DEF HostRoom, Joined, GameChosen, Started, Play, AskedAgain, WaitFor
  <1>10. CASE JoinRoom
    BY <1>10, <1>w, <1>a DEF JoinRoom
  <1>11. CASE NoReply \/ Quit
    BY <1>11, <1>e DEF NoReply, Quit
  <1>12. CASE GuestCame
    <2>1. PICK menu \in Addresses : loops' = Append(<< >>, Loop("game", menu))
      BY <1>12 DEF GuestCame, PromptGameChoice
    <2>2. loops' = <<Loop("game", menu)>>
      BY <2>1
    <2> QED
      BY <2>2, <1>w, <1>a
  <1>13. CASE NestedChoiceEnds
    BY <1>0, <1>13, LoopLeft DEF NestedChoiceEnds
  <1>14. CASE AfterSession
    BY <1>14, <1>w, <1>a DEF AfterSession, WaitFor
  <1>15. CASE CloseMainByWindowManager \/ UNCHANGED vars
    BY <1>15, <1>k DEF CloseMainByWindowManager, vars
  <1> QED
    BY <1>1, <1>2, <1>3, <1>4, <1>5, <1>7, <1>8, <1>9, <1>10, <1>11, <1>12, <1>13, <1>14, <1>15
    DEF Next, Handler, Continue

LEMMA WindowsStep == IInv /\ [Next]_vars => WindowsInv'
  <1> SUFFICES ASSUME IInv, [Next]_vars PROVE WindowsInv'
    OBVIOUS
  <1>0. WindowsInv /\ LoopsInv /\ activeRoom \in Addresses \cup {Null}
    BY DEF IInv, PointersInv
  <1>l. 0 \in 0..MaxLoops /\ Len(loops) \in 0..MaxLoops
    BY <1>0, LoopsFacts, MaxLoopsAssumption
  <1>k. ASSUME UNCHANGED windows PROVE WindowsInv'
    BY <1>0, <1>k DEF WindowsInv
  <1>c. ASSUME NEW w \in Addresses \cup {Null}, NEW depth \in 0..MaxLoops,
               windows' = Closed(w, depth)
        PROVE  WindowsInv'
    BY <1>0, <1>c, ClosedKeeps DEF WindowsInv
  <1>o. ASSUME NEW w \in Addresses, NEW kind \in Kinds,
               \/ windows' = Opened(windows, w, kind)
               \/ \E depth \in 0..MaxLoops : windows' = Opened(Closed(activeRoom, depth), w, kind)
        PROVE  WindowsInv'
    <2>1. windows \in [Addresses -> WindowRecords]
      BY <1>0 DEF WindowsInv
    <2>2. \A depth \in 0..MaxLoops : Closed(activeRoom, depth) \in [Addresses -> WindowRecords]
      BY <1>0, ClosedKeeps
    <2>3. PICK ws \in [Addresses -> WindowRecords] : windows' = Opened(ws, w, kind)
      BY <1>o, <2>1, <2>2
    <2> QED
      BY <2>3, OpenedKeeps DEF WindowsInv
  <1>1. ASSUME NEW w \in Addresses, PressClose(w) \/ CloseByWindowManager(w) PROVE WindowsInv'
    BY <1>1, <1>c, <1>l DEF PressClose, CloseByWindowManager
  <1>2. ASSUME NEW w \in Addresses, PressAllPlayersConnected(w) PROVE WindowsInv'
    BY <1>2, <1>o, <1>l DEF PressAllPlayersConnected, PromptGameChoice, Kinds
  <1>3. ASSUME NEW w \in Addresses, Destroyed(w) PROVE WindowsInv'
    BY <1>0, <1>3 DEF Destroyed, WindowsInv, WindowRecords
  <1>4. CASE HostRoom
    BY <1>4, <1>o DEF HostRoom, Kinds
  <1>5. CASE JoinRoom
    BY <1>5, <1>o DEF JoinRoom, Kinds
  <1>6. CASE Joined
    BY <1>6, <1>o, <1>l DEF Joined, Kinds
  <1>7. CASE GuestCame
    <2>1. Len(<< >>) = 0
      BY EmptySeq
    <2>2. PICK menu \in Addresses :
             windows' = Opened(Closed(activeRoom, Len(<< >>)), menu, "GameSelectMenu")
      BY <1>7 DEF GuestCame, PromptGameChoice
    <2>3. windows' = Opened(Closed(activeRoom, 0), menu, "GameSelectMenu")
      BY <2>1, <2>2
    <2> QED
      BY <2>3, <1>o, <1>l DEF Kinds
  <1>8. CASE NestedChoiceEnds \/ NoGameChosen \/ GameChosen
    <2>1. Len(loops) - 1 \in 0..MaxLoops
      BY <1>0, <1>8, <1>l, LoopsFacts, MaxLoopsAssumption
      DEF NestedChoiceEnds, NoGameChosen, GameChosen, Returned
    <2> QED
      BY <1>0, <1>8, <1>c, <2>1 DEF NestedChoiceEnds, NoGameChosen, GameChosen, GameChoiceEnds
  <1>9. CASE Play \/ Quit
    BY <1>0, <1>9, <1>c, <1>l DEF Play, Quit
  <1>10. CASE CloseMainByWindowManager \/ UNCHANGED vars
    BY <1>10, <1>k DEF CloseMainByWindowManager, vars
  <1>11. ASSUME NEW answer, PressMain(answer) PROVE WindowsInv'
    BY <1>11, <1>k DEF PressMain
  <1>12. ASSUME NEW w, PressAnswer(w) PROVE WindowsInv'
    BY <1>12, <1>k DEF PressAnswer
  <1>13. CASE Receive \/ RoleShown \/ SessionOver \/ AgainAnswered
    BY <1>13, <1>k DEF Receive, RoleShown, SessionOver, AgainAnswered, Ends
  <1>14. CASE ConnectFails \/ NoReply \/ NotJoined \/ GuestNeverCame \/ NotStarted \/ Started
              \/ AfterSession \/ AskedAgain \/ LeaveRoom
    BY <1>14, <1>k DEF ConnectFails, NoReply, NotJoined, GuestNeverCame, NotStarted, Started,
                       AfterSession, AskedAgain, LeaveRoom
  <1> QED
    BY <1>1, <1>2, <1>3, <1>4, <1>5, <1>6, <1>7, <1>8, <1>9, <1>10, <1>11, <1>12, <1>13, <1>14
    DEF Next, Handler, Continue

LEMMA FlagsStep == IInv /\ [Next]_vars => FlagsInv'
  <1> SUFFICES ASSUME IInv, [Next]_vars PROVE FlagsInv'
    OBVIOUS
  <1>0. FlagsInv
    BY DEF IInv
  <1> USE <1>0 DEF FlagsInv, controllerVars
  <1>1. ASSUME NEW answer, PressMain(answer) PROVE FlagsInv'
    BY <1>1, Zenon DEF PressMain
  <1>2. ASSUME NEW w, PressClose(w) PROVE FlagsInv'
    BY <1>2, Zenon DEF PressClose
  <1>3. ASSUME NEW w, PressAnswer(w) PROVE FlagsInv'
    BY <1>3 DEF PressAnswer
  <1>4. ASSUME NEW w, PressAllPlayersConnected(w) PROVE FlagsInv'
    BY <1>4 DEF PressAllPlayersConnected, PromptGameChoice
  <1>5. ASSUME NEW w, CloseByWindowManager(w) \/ Destroyed(w) PROVE FlagsInv'
    BY <1>5, Zenon DEF CloseByWindowManager, Destroyed
  <1>6. CASE Receive \/ RoleShown \/ SessionOver \/ AgainAnswered
    BY <1>6, Zenon DEF Receive, RoleShown, SessionOver, AgainAnswered, Ends
  <1>7. CASE ConnectFails \/ NotJoined \/ GuestNeverCame \/ NoGameChosen \/ NotStarted
             \/ LeaveRoom
    <2>1. ToMainMenu
      BY <1>7, Zenon
      DEF ConnectFails, NotJoined, GuestNeverCame, NoGameChosen, NotStarted, LeaveRoom
    <2> QED
      BY <2>1, Zenon DEF ToMainMenu
  <1>8. CASE HostRoom \/ JoinRoom
    BY <1>8, Zenon DEF HostRoom, JoinRoom, HiddenMain
  <1>9. CASE NoReply \/ Joined
    BY <1>9, Zenon DEF NoReply, Joined
  <1>10. CASE GuestCame \/ NestedChoiceEnds \/ GameChosen
    BY <1>10, Zenon DEF GuestCame, PromptGameChoice, NestedChoiceEnds, GameChosen
  <1>11. CASE Started \/ Play \/ AfterSession \/ AskedAgain \/ Quit
    BY <1>11, Zenon DEF Started, Play, AfterSession, AskedAgain, Quit
  <1>12. CASE UNCHANGED vars
    BY <1>12, Zenon DEF vars
  <1>13. CASE CloseMainByWindowManager
    BY <1>13, Zenon DEF CloseMainByWindowManager
  <1> QED
    BY <1>1, <1>2, <1>3, <1>4, <1>5, <1>6, <1>7, <1>8, <1>9, <1>10, <1>11, <1>12, <1>13
    DEF Next, Handler, Continue

\* The pointers to rooms are nullptr when the code has left a loop of another kind.
LEMMA NoRooms ==
  ASSUME LoopsInv, PointersInv, NEW waits, Returned(waits)
  PROVE  /\ waits # "guest" => hostGameRoom = Null
         /\ waits \notin {"start", "role"} => guestGameRoom = Null
  <1>1. loops # << >> /\ loops[1].waits = waits
    BY ReturnedFacts
  <1> QED
    BY <1>1 DEF PointersInv

LEMMA PointersStep == IInv /\ [Next]_vars => PointersInv'
  <1> SUFFICES ASSUME IInv, [Next]_vars PROVE PointersInv'
    OBVIOUS
  <1>0. LoopsInv /\ WindowsInv /\ PointersInv
    BY DEF IInv
  <1>l. Len(loops) \in 0..MaxLoops /\ 0 \in 0..MaxLoops
    BY <1>0, LoopsFacts, MaxLoopsAssumption
  <1>c. ASSUME NEW w \in Addresses \cup {Null}, NEW depth \in 0..MaxLoops
        PROVE  \A a \in Addresses : Closed(w, depth)[a].kind = windows[a].kind
    BY <1>0, ClosedKeeps
  <1>1. ASSUME NEW answer \in {"host", "join", "leave"}, PressMain(answer) PROVE PointersInv'
    <2>1. answer \in Answers
      BY DEF Answers
    <2> QED
      BY <1>0, <1>1, <2>1, FirstAnswered, PointersKept DEF PressMain, Idle, Dispatching
  <1>2. ASSUME NEW w \in Addresses, PressClose(w) PROVE PointersInv'
    <2>1. \A a \in Addresses : windows'[a].kind = windows[a].kind
      BY <1>2, <1>c, <1>l DEF PressClose
    <2>2. CASE UNCHANGED loops
      BY <1>0, <1>2, <2>1, <2>2 DEF PressClose, PointersInv, pointers
    <2>3. CASE loops' = AnswerOf(w, "leave")
      <3>1. SameLoops
        BY <1>0, <2>3, WindowAnswered DEF Answers
      <3> QED
        BY <1>0, <1>2, <2>1, <3>1, PointersKept DEF PressClose, Pressable, Idle, Dispatching
    <2> QED
      BY <1>2, <2>2, <2>3 DEF PressClose
  <1>3. ASSUME NEW w \in Addresses, PressAnswer(w) PROVE PointersInv'
    <2>1. SameLoops
      BY <1>0, <1>3, WindowAnswered DEF PressAnswer, Answers
    <2> QED
      BY <1>0, <1>3, <2>1, PointersKept DEF PressAnswer, Pressable, Idle, Dispatching
  <1>4. ASSUME NEW w \in Addresses, PressAllPlayersConnected(w) PROVE PointersInv'
    <2>1. loops # << >> /\ Len(loops) < MaxLoops /\ PromptGameChoice(loops)
      BY <1>4 DEF PressAllPlayersConnected, Pressable, Idle, Dispatching
    <2>2. PICK menu \in Addresses :
             /\ IsFresh(menu)
             /\ windows' = Opened(Closed(activeRoom, Len(loops)), menu, "GameSelectMenu")
             /\ activeRoom' = menu /\ hostGameRoom' = Null /\ UNCHANGED guestGameRoom
             /\ loops' = Append(loops, Loop("game", menu))
      BY <2>1 DEF PromptGameChoice
    <2>3. /\ loops' # << >> /\ loops'[1] = loops[1]
      BY <1>0, <2>1, <2>2, LoopNested, LoopsFacts, EmptySeq
    <2>4. Closed(activeRoom, Len(loops)) \in [Addresses -> WindowRecords]
      BY <1>0, <1>l, ClosedKeeps DEF PointersInv
    <2>5. /\ windows'[menu].kind = "GameSelectMenu"
          /\ \A a \in Addresses \ {menu} : windows'[a] = Closed(activeRoom, Len(loops))[a]
      BY <2>2, <2>4, OpenedKeeps DEF Kinds
    <2>6. \A a \in Addresses \ {menu} : windows'[a].kind = windows[a].kind
      BY <1>0, <1>c, <1>l, <2>5 DEF PointersInv
    <2>7. menu # guestGameRoom
      BY <2>2 DEF IsFresh
    <2> QED
      BY <1>0, <2>2, <2>3, <2>5, <2>6, <2>7 DEF PointersInv, Kinds
  <1>5. ASSUME NEW w \in Addresses, Destroyed(w) PROVE PointersInv'
    <2>1. \A a \in Addresses \ {w} : windows'[a] = windows[a]
      BY <1>0, <1>5 DEF Destroyed, WindowsInv
    <2> QED
      BY <1>0, <1>5, <2>1 DEF Destroyed, PointersInv
  <1>6. ASSUME NEW waits, NEW answers \in SUBSET Answers, Ends(waits, answers)
        PROVE  PointersInv'
    <2>1. loops # << >> /\ SameLoops
      BY <1>0, <1>6, FirstAnswered DEF Ends, Idle, Dispatching
    <2> QED
      BY <1>0, <1>6, <2>1, PointersKept DEF Ends
  <1>7. CASE Receive \/ RoleShown \/ SessionOver \/ AgainAnswered
    <2>1. /\ {"event", "end"} \in SUBSET Answers /\ {"event"} \in SUBSET Answers
          /\ {"handled", "end"} \in SUBSET Answers /\ {"leave", "given"} \in SUBSET Answers
      BY DEF Answers
    <2> QED
      BY <1>6, <1>7, <2>1 DEF Receive, RoleShown, SessionOver, AgainAnswered
  <1>n. ASSUME activeRoom' = Null, hostGameRoom' = Null, guestGameRoom' = Null
        PROVE  PointersInv'
    BY <1>n DEF PointersInv
  <1>8. CASE ConnectFails \/ NotJoined \/ GuestNeverCame \/ NoGameChosen \/ NotStarted
             \/ LeaveRoom
    BY <1>8, <1>n
    DEF ConnectFails, NotJoined, GuestNeverCame, NoGameChosen, NotStarted, LeaveRoom, ToMainMenu
  <1>9. CASE Play \/ Quit
    BY <1>9, <1>n DEF Play, Quit
  <1>f. ASSUME NEW waits \in {"guest", "start", "role"}, WaitFor(waits)
        PROVE  loops' # << >> /\ loops'[1].waits = waits
    <2>1. waits \in Waits
      BY DEF Waits
    <2> QED
      BY <1>f, <2>1, OneLoop DEF WaitFor
  <1>10. CASE HostRoom
    <2>1. hostGameRoom = Null /\ guestGameRoom = Null
      <3>1. Returned("mainMenu")
        BY <1>10 DEF HostRoom
      <3> QED
        BY <1>0, <3>1, NoRooms
    <2>2. PICK w \in Addresses : /\ windows' = Opened(windows, w, "HostGameRoom")
                                 /\ activeRoom' = w /\ hostGameRoom' = w
      BY <1>10 DEF HostRoom
    <2>3. windows'[w].kind = "HostGameRoom"
      BY <1>0, <2>2, OpenedKeeps DEF WindowsInv, Kinds
    <2>4. loops' # << >> /\ loops'[1].waits = "guest"
      BY <1>10, <1>f DEF HostRoom
    <2>5. guestGameRoom' = Null
      BY <1>10, <2>1 DEF HostRoom
    <2>6. "HostGameRoom" \in Kinds
      BY DEF Kinds
    <2> QED
      BY <2>2, <2>3, <2>4, <2>5, <2>6 DEF PointersInv
  <1>11. CASE JoinRoom
    <2>1. hostGameRoom = Null /\ guestGameRoom = Null
      <3>1. Returned("mainMenu")
        BY <1>11 DEF JoinRoom
      <3> QED
        BY <1>0, <3>1, NoRooms
    <2>2. PICK w \in Addresses : /\ windows' = Opened(windows, w, "JoinGameRoom")
                                 /\ activeRoom' = w
      BY <1>11 DEF JoinRoom
    <2>3. windows'[w].kind = "JoinGameRoom"
      BY <1>0, <2>2, OpenedKeeps DEF WindowsInv, Kinds
    <2> QED
      BY <1>11, <2>1, <2>2, <2>3 DEF JoinRoom, PointersInv, Kinds
  <1>12. CASE Joined
    <2>1. hostGameRoom = Null
      <3>1. Returned("code")
        BY <1>12 DEF Joined
      <3> QED
        BY <1>0, <3>1, NoRooms
    <2>2. PICK w \in Addresses : /\ windows' = Opened(Closed(activeRoom, 0), w, "GuestGameRoom")
                                 /\ activeRoom' = w /\ guestGameRoom' = w
      BY <1>12 DEF Joined
    <2>3. Closed(activeRoom, 0) \in [Addresses -> WindowRecords]
      BY <1>0, <1>l, ClosedKeeps DEF PointersInv
    <2>4. windows'[w].kind = "GuestGameRoom"
      BY <2>2, <2>3, OpenedKeeps DEF Kinds
    <2>5. loops' # << >> /\ loops'[1].waits = "start"
      BY <1>12, <1>f DEF Joined
    <2> QED
      BY <1>12, <2>1, <2>2, <2>4, <2>5 DEF Joined, PointersInv, Kinds
  <1>13. CASE GuestCame
    <2>1. guestGameRoom = Null
      <3>1. Returned("guest")
        BY <1>13 DEF GuestCame
      <3> QED
        BY <1>0, <3>1, NoRooms
    <2>2. PICK menu \in Addresses :
             /\ windows' = Opened(Closed(activeRoom, Len(<< >>)), menu, "GameSelectMenu")
             /\ activeRoom' = menu /\ hostGameRoom' = Null /\ UNCHANGED guestGameRoom
      BY <1>13 DEF GuestCame, PromptGameChoice
    <2>3. Len(<< >>) = 0
      BY EmptySeq
    <2>4. Closed(activeRoom, Len(<< >>)) \in [Addresses -> WindowRecords]
      BY <1>0, <1>l, <2>3, ClosedKeeps DEF PointersInv
    <2>5. windows'[menu].kind = "GameSelectMenu"
      BY <2>2, <2>4, OpenedKeeps DEF Kinds
    <2> QED
      BY <2>1, <2>2, <2>5 DEF PointersInv, Kinds
  <1>14. CASE NestedChoiceEnds
    <2>1. /\ loops' = Front(loops) /\ Len(loops) > 1 /\ activeRoom' = Null
          /\ UNCHANGED <<hostGameRoom, guestGameRoom>>
          /\ windows' = Closed(activeRoom, Len(loops) - 1)
      BY <1>14 DEF NestedChoiceEnds, GameChoiceEnds
    <2>2. Len(loops) - 1 \in 0..MaxLoops /\ Len(loops) \in Nat
      BY <1>l, <2>1, MaxLoopsAssumption
    <2>3. /\ Len(loops') = Len(loops) - 1
          /\ \A i \in 1..(Len(loops) - 1) : loops'[i] = loops[i]
      BY <1>0, <2>1, LoopLeft
    <2>4. loops' # << >>
      BY <2>1, <2>2, <2>3, EmptySeq
    <2>5. loops'[1] = loops[1]
      BY <2>1, <2>2, <2>3
    <2>6. \A a \in Addresses : windows'[a].kind = windows[a].kind
      BY <1>0, <1>c, <2>1, <2>2 DEF PointersInv
    <2> QED
      BY <1>0, <2>1, <2>4, <2>5, <2>6 DEF PointersInv
  <1>15. CASE GameChosen
    <2>1. hostGameRoom = Null /\ guestGameRoom = Null
      <3>1. Returned("game")
        BY <1>15 DEF GameChosen
      <3> QED
        BY <1>0, <3>1, NoRooms
    <2> QED
      BY <1>15, <1>n, <2>1 DEF GameChosen
  <1>16. CASE NoReply
    <2>1. hostGameRoom = Null /\ guestGameRoom = Null
      <3>1. Returned("mainMenu") \/ Returned("code")
        BY <1>16 DEF NoReply
      <3> QED
        BY <1>0, <3>1, NoRooms
    <2> QED
      BY <1>0, <1>16, <2>1 DEF NoReply, PointersInv, pointers
  <1>17. CASE Started
    <2>1. hostGameRoom = Null
      <3>1. Returned("start")
        BY <1>17 DEF Started
      <3> QED
        BY <1>0, <3>1, NoRooms
    <2>2. loops' # << >> /\ loops'[1].waits = "role"
      BY <1>17, <1>f DEF Started
    <2> QED
      BY <1>0, <1>17, <2>1, <2>2 DEF Started, PointersInv, pointers
  <1>18. CASE AfterSession \/ AskedAgain
    <2>1. hostGameRoom = Null /\ guestGameRoom = Null
      <3>1. Returned("session") \/ Returned("again")
        BY <1>18 DEF AfterSession, AskedAgain
      <3> QED
        BY <1>0, <3>1, NoRooms
    <2> QED
      BY <1>0, <1>18, <2>1 DEF AfterSession, AskedAgain, PointersInv, pointers
  <1>19. CASE CloseMainByWindowManager \/ UNCHANGED vars
    BY <1>0, <1>19 DEF CloseMainByWindowManager, vars, PointersInv, pointers
  <1>20. ASSUME NEW w \in Addresses, CloseByWindowManager(w) PROVE PointersInv'
    <2>1. \A a \in Addresses : windows'[a].kind = windows[a].kind
      BY <1>20, <1>c, <1>l DEF CloseByWindowManager
    <2> QED
      BY <1>0, <1>20, <2>1 DEF CloseByWindowManager, PointersInv, pointers
  <1> QED
    BY <1>1, <1>2, <1>3, <1>4, <1>5, <1>7, <1>8, <1>9, <1>10, <1>11, <1>12, <1>13, <1>14, <1>15,
       <1>16, <1>17, <1>18, <1>19, <1>20
    DEF Next, Handler, Continue

(***************************************************************************)
(* IInv is inductive.  NoDanglingPointer alone is not: when the host's     *)
(* room is replaced, the guest's pointer must be known to be elsewhere,    *)
(* which PointersInv says by the loop that is waited in.                   *)
(***************************************************************************)
THEOREM WindowsInvariant == Spec => []IInv
  <1>1. Init => IInv
    <2> SUFFICES ASSUME Init PROVE IInv
      OBVIOUS
    <2>1. LoopsInv
      <3>1. loops = <<Loop("mainMenu", Null)>> /\ Loop("mainMenu", Null) \in LoopRecords
        BY DEF Init, Loop, LoopRecords, Waits, Prompts, Answers
      <3>2. loops \in Seq(LoopRecords) /\ Len(loops) = 1
        BY <3>1
      <3> QED
        BY <3>2, MaxLoopsAssumption DEF LoopsInv
    <2>2. WindowsInv
      BY DEF Init, WindowsInv, WindowRecords
    <2>3. FlagsInv
      BY Zenon DEF Init, FlagsInv
    <2>4. PointersInv
      BY DEF Init, PointersInv
    <2> QED
      BY <2>1, <2>2, <2>3, <2>4 DEF IInv
  <1>2. IInv /\ [Next]_vars => IInv'
    BY LoopsStep, WindowsStep, FlagsStep, PointersStep DEF IInv
  <1> QED
    BY <1>1, <1>2, PTL DEF Spec

\* Every variable of the window side keeps its type, for any number of windows
\* and of loops inside each other.
THEOREM WindowsTypeOK == Spec => []TypeOK
  <1>1. IInv => TypeOK
    <2> SUFFICES ASSUME IInv PROVE TypeOK
      OBVIOUS
    <2>1. LoopsInv /\ WindowsInv /\ FlagsInv /\ PointersInv
      BY DEF IInv
    <2>2. /\ loops \in Seq([waits : Waits, of : Addresses \cup {Null}, answer : Answers])
          /\ Len(loops) <= MaxLoops
      BY <2>1 DEF LoopsInv, LoopRecords
    <2>3. windows \in [Addresses -> [kind : Kinds, open : BOOLEAN, depth : 0..MaxLoops]
                                       \cup {NoWindow}]
      BY <2>1 DEF WindowsInv, WindowRecords
    <2>4. /\ {activeRoom, hostGameRoom, guestGameRoom} \subseteq Addresses \cup {Null}
          /\ hostGameRoom = Null \/ guestGameRoom = Null
      BY <2>1 DEF PointersInv
    <2>5. /\ mainWindow \in {"none", "shown", "hidden"}
          /\ {isHost, cancelRequested, connected, selected} \subseteq BOOLEAN
      BY <2>1, Zenon DEF FlagsInv
    <2> QED
      BY <2>2, <2>3, <2>4, <2>5 DEF TypeOK
  <1> QED
    BY <1>1, WindowsInvariant, PTL

\* The pointers of QtGUI name windows that exist, those to rooms a room of their
\* kind, however windows are closed and deleted behind the controller's back.
THEOREM WindowsNoDanglingPointer == Spec => []NoDanglingPointer
  <1>1. IInv => NoDanglingPointer
    BY DEF IInv, PointersInv, NoDanglingPointer, NoWindow, Kinds
  <1> QED
    BY <1>1, WindowsInvariant, PTL

-----------------------------------------------------------------------------
(* The connection. *)

\* Outside of the main menu there is a connection, or it has been cancelled.
ConnInv == loops # << >> /\ loops[1].waits # "mainMenu" => cancelRequested \/ connected

\* Answers, and loops inside the outermost one, leave the outermost one.
LEMMA OutermostKept ==
  ASSUME LoopsInv, loops # << >>,
         \/ SameLoops
         \/ Len(loops) < MaxLoops /\ \E menu \in Addresses : loops' = Append(loops, Loop("game", menu))
         \/ Len(loops) > 1 /\ loops' = Front(loops)
  PROVE  loops' # << >> /\ loops'[1].waits = loops[1].waits
  <1>1. Len(loops) \in Nat /\ Len(loops) # 0 /\ 1 \in 1..Len(loops)
    BY LoopsFacts
  <1>2. CASE SameLoops
    <2>1. loops' # << >>
      BY <1>1, <1>2, EmptySeq DEF SameLoops
    <2> QED
      BY <1>1, <1>2, <2>1 DEF SameLoops
  <1>3. ASSUME Len(loops) < MaxLoops, NEW menu \in Addresses,
               loops' = Append(loops, Loop("game", menu))
        PROVE  loops' # << >> /\ loops'[1].waits = loops[1].waits
    BY <1>1, <1>3, LoopNested, EmptySeq
  <1>4. CASE Len(loops) > 1 /\ loops' = Front(loops)
    BY <1>1, <1>4, LoopLeft, EmptySeq
  <1> QED
    BY <1>2, <1>3, <1>4

LEMMA ConnStep == IInv /\ ConnInv /\ [Next]_vars => ConnInv'
  <1> SUFFICES ASSUME IInv, ConnInv, [Next]_vars PROVE ConnInv'
    OBVIOUS
  <1>0. LoopsInv
    BY DEF IInv
  <1> USE DEF controllerVars
  <1>k. ASSUME loops # << >>, loops' # << >> /\ loops'[1].waits = loops[1].waits,
               UNCHANGED <<cancelRequested, connected>> \/ cancelRequested'
        PROVE  ConnInv'
    <2>1. CASE cancelRequested'
      BY <2>1, Zenon DEF ConnInv
    <2>2. CASE cancelRequested' = cancelRequested /\ connected' = connected
      <3>1. CASE loops[1].waits = "mainMenu"
        BY <1>k, <3>1, Zenon DEF ConnInv
      <3>2. CASE loops[1].waits # "mainMenu"
        BY <1>k, <2>2, <3>2, Zenon DEF ConnInv
      <3> QED
        BY <3>1, <3>2
    <2> QED
      BY <1>k, <2>1, <2>2, Zenon
  <1>o. ASSUME loops # << >>, loops[1].waits # "mainMenu",
               UNCHANGED <<cancelRequested, connected>>
        PROVE  ConnInv'
    BY <1>o, Zenon DEF ConnInv
  <1>1. ASSUME NEW answer \in {"host", "join", "leave"}, PressMain(answer) PROVE ConnInv'
    <2>1. answer \in Answers /\ loops # << >>
      BY <1>1 DEF Answers, PressMain, Idle, Dispatching
    <2>2. SameLoops
      BY <1>0, <1>1, <2>1, FirstAnswered DEF PressMain
    <2> QED
      BY <1>0, <1>1, <1>k, <2>1, <2>2, OutermostKept DEF PressMain
  <1>2. ASSUME NEW w \in Addresses, PressClose(w) PROVE ConnInv'
    <2>1. loops # << >>
      BY <1>2 DEF PressClose, Pressable, Idle, Dispatching
    <2>2. CASE UNCHANGED loops /\ cancelRequested' = TRUE
      BY <2>2, Zenon DEF ConnInv
    <2>3. CASE loops' = AnswerOf(w, "leave") /\ UNCHANGED <<cancelRequested, connected>>
      <3>1. SameLoops
        BY <1>0, <2>3, WindowAnswered DEF Answers
      <3> QED
        BY <1>0, <1>k, <2>1, <2>3, <3>1, OutermostKept
    <2> QED
      BY <1>2, <2>2, <2>3, Zenon DEF PressClose
  <1>3. ASSUME NEW w \in Addresses, PressAnswer(w) PROVE ConnInv'
    <2>1. loops # << >>
      BY <1>3 DEF PressAnswer, Pressable, Idle, Dispatching
    <2>2. SameLoops
      BY <1>0, <1>3, WindowAnswered DEF PressAnswer, Answers
    <2> QED
      BY <1>0, <1>3, <1>k, <2>1, <2>2, OutermostKept DEF PressAnswer
  <1>4. ASSUME NEW w \in Addresses, PressAllPlayersConnected(w) PROVE ConnInv'
    BY <1>0, <1>4, <1>k, OutermostKept
    DEF PressAllPlayersConnected, PromptGameChoice, Pressable, Idle, Dispatching
  <1>5. ASSUME NEW w \in Addresses, CloseByWindowManager(w) \/ Destroyed(w) PROVE ConnInv'
    BY <1>5, Zenon DEF CloseByWindowManager, Destroyed, ConnInv
  <1>6. ASSUME NEW waits, NEW answers \in SUBSET Answers, Ends(waits, answers) PROVE ConnInv'
    <2>1. loops # << >> /\ SameLoops
      BY <1>0, <1>6, FirstAnswered DEF Ends, Idle, Dispatching
    <2> QED
      BY <1>0, <1>6, <1>k, <2>1, OutermostKept DEF Ends
  <1>7. CASE Receive \/ RoleShown \/ SessionOver \/ AgainAnswered
    <2>1. /\ {"event", "end"} \in SUBSET Answers /\ {"event"} \in SUBSET Answers
          /\ {"handled", "end"} \in SUBSET Answers /\ {"leave", "given"} \in SUBSET Answers
      BY DEF Answers
    <2> QED
      BY <1>6, <1>7, <2>1 DEF Receive, RoleShown, SessionOver, AgainAnswered
  <1>8. CASE ConnectFails \/ NotJoined \/ GuestNeverCame \/ NoGameChosen \/ NotStarted
             \/ LeaveRoom
    <2>1. loops' = <<Loop("mainMenu", Null)>>
      BY <1>8
      DEF ConnectFails, NotJoined, GuestNeverCame, NoGameChosen, NotStarted, LeaveRoom,
          ToMainMenu, WaitFor
    <2>2. loops'[1].waits = "mainMenu"
      BY <2>1 DEF Loop
    <2> QED
      BY <2>2 DEF ConnInv
  <1>9. CASE HostRoom \/ JoinRoom
    <2>1. connected' = TRUE
      BY <1>9, Zenon DEF HostRoom, JoinRoom
    <2> QED
      BY <2>1, Zenon DEF ConnInv
  <1>10. CASE NoReply \/ Quit
    <2>1. loops' = << >>
      BY <1>10 DEF NoReply, Quit
    <2> QED
      BY <2>1 DEF ConnInv
  <1>r. ASSUME NEW waits, Returned(waits), waits # "mainMenu"
        PROVE  loops # << >> /\ loops[1].waits # "mainMenu"
    BY <1>0, <1>r, ReturnedFacts
  <1>11. CASE Joined
    BY <1>11, <1>r, <1>o DEF Joined
  <1>12. CASE GuestCame
    BY <1>12, <1>r, <1>o DEF GuestCame
  <1>13. CASE GameChosen
    BY <1>13, <1>r, <1>o DEF GameChosen
  <1>14. CASE Started
    BY <1>14, <1>r, <1>o DEF Started
  <1>15. CASE Play
    BY <1>15, <1>r, <1>o DEF Play
  <1>16. CASE AfterSession
    BY <1>16, <1>r, <1>o DEF AfterSession
  <1>17. CASE AskedAgain
    BY <1>17, <1>r, <1>o DEF AskedAgain
  <1>18. CASE NestedChoiceEnds
    <2>1. loops # << >>
      BY <1>0, <1>18, LoopsFacts DEF NestedChoiceEnds
    <2> QED
      BY <1>0, <1>18, <1>k, <2>1, OutermostKept DEF NestedChoiceEnds
  <1>19. CASE CloseMainByWindowManager \/ UNCHANGED vars
    BY <1>19, Zenon DEF CloseMainByWindowManager, vars, ConnInv
  <1> QED
    BY <1>1, <1>2, <1>3, <1>4, <1>5, <1>7, <1>8, <1>9, <1>10, <1>11, <1>12, <1>13, <1>14, <1>15,
       <1>16, <1>17, <1>18, <1>19
    DEF Next, Handler, Continue

\* Only Started enters a game, and then there is a connection; only the cross of
\* a room closes it in the game.
LEMMA GameStep ==
  IInv /\ ConnInv /\ [Next]_vars =>
     (InGame' /\ ~connected' => InGame /\ (~connected \/ \E w \in Addresses : PressClose(w)))
  <1> DEFINE Kept == InGame /\ (~connected \/ \E w \in Addresses : PressClose(w))
  <1> SUFFICES ASSUME IInv, ConnInv, [Next]_vars, InGame', ~connected' PROVE Kept
    OBVIOUS
  <1>0. LoopsInv /\ LoopsInv'
    BY LoopsStep DEF IInv
  <1>1. loops' # << >> /\ loops'[1].waits \in {"role", "session"}
    <2>1. PICK i \in DOMAIN loops' : loops'[i].waits \in {"role", "session"}
      BY DEF InGame
    <2>2. /\ Len(loops') \in Nat /\ DOMAIN loops' = 1..Len(loops')
          /\ \A j \in 1..Len(loops') : j # 1 => loops'[j].waits = "game"
      <3>1. loops' \in Seq(LoopRecords)
        BY <1>0 DEF LoopsInv
      <3>2. Len(loops') \in Nat /\ DOMAIN loops' = 1..Len(loops')
        BY <3>1
      <3> QED
        BY <1>0, <3>2 DEF LoopsInv
    <2>3. i = 1
      BY <2>1, <2>2
    <2> QED
      BY <2>1, <2>2, <2>3, EmptySeq
  <1>g. ASSUME loops # << >>, loops[1].waits \in {"role", "session"} PROVE InGame
    <2>1. 1 \in DOMAIN loops
      <3>1. Len(loops) \in Nat /\ Len(loops) # 0 /\ DOMAIN loops = 1..Len(loops)
        BY <1>0, <1>g, LoopsFacts
      <3> QED
        BY <3>1
    <2> QED
      BY <1>g, <2>1 DEF InGame
  <1>k. ASSUME loops # << >>, loops'[1].waits = loops[1].waits, UNCHANGED connected PROVE Kept
    <2>1. InGame
      BY <1>1, <1>g, <1>k
    <2>2. ~connected
      BY <1>k, Zenon
    <2> QED
      BY <2>1, <2>2, Zenon
  <1>w. ASSUME NEW waits \in Waits, NEW of \in Addresses \cup {Null},
               loops' = <<Loop(waits, of)>>, waits \notin {"role", "session"}
        PROVE  FALSE
    BY <1>1, <1>w, OneLoop
  <1>s. {"mainMenu", "guest", "start", "again", "code", "game"} \subseteq Waits
    BY DEF Waits, Prompts
  <1> HIDE DEF Kept
  <1> USE DEF controllerVars
  <1>2. ASSUME NEW answer \in {"host", "join", "leave"}, PressMain(answer) PROVE Kept
    <2>1. answer \in Answers /\ loops # << >> /\ UNCHANGED connected
      BY <1>2 DEF Answers, PressMain, Idle, Dispatching
    <2>2. SameLoops
      BY <1>0, <1>2, <2>1, FirstAnswered DEF PressMain
    <2> QED
      BY <1>0, <1>k, <2>1, <2>2, OutermostKept
  <1>3. ASSUME NEW w \in Addresses, PressClose(w) PROVE Kept
    <2>1. loops # << >>
      BY <1>3 DEF PressClose, Pressable, Idle, Dispatching
    <2>2. CASE UNCHANGED loops
      <3>1. InGame
        BY <1>1, <1>g, <2>1, <2>2
      <3> QED
        BY <1>3, <3>1, Zenon DEF Kept
    <2>3. CASE loops' = AnswerOf(w, "leave") /\ UNCHANGED connected
      <3>1. SameLoops
        BY <1>0, <2>3, WindowAnswered DEF Answers
      <3> QED
        BY <1>0, <1>k, <2>1, <2>3, <3>1, OutermostKept
    <2> QED
      BY <1>3, <2>2, <2>3, Zenon DEF PressClose
  <1>4. ASSUME NEW w \in Addresses, PressAnswer(w) PROVE Kept
    <2>1. loops # << >> /\ UNCHANGED connected
      BY <1>4 DEF PressAnswer, Pressable, Idle, Dispatching
    <2>2. SameLoops
      BY <1>0, <1>4, WindowAnswered DEF PressAnswer, Answers
    <2> QED
      BY <1>0, <1>k, <2>1, <2>2, OutermostKept
  <1>5. ASSUME NEW w \in Addresses, PressAllPlayersConnected(w) PROVE Kept
    BY <1>0, <1>5, <1>k, OutermostKept
    DEF PressAllPlayersConnected, PromptGameChoice, Pressable, Idle, Dispatching
  <1>6. ASSUME NEW w \in Addresses, CloseByWindowManager(w) \/ Destroyed(w) PROVE Kept
    BY <1>6, <1>k DEF CloseByWindowManager, Destroyed, Pressable, Idle, Dispatching
  <1>7. CASE CloseMainByWindowManager
    BY <1>7, <1>k DEF CloseMainByWindowManager, Idle, Dispatching
  <1>e. ASSUME NEW waits, NEW answers \in SUBSET Answers, Ends(waits, answers) PROVE Kept
    <2>1. loops # << >> /\ SameLoops /\ UNCHANGED connected
      BY <1>0, <1>e, FirstAnswered DEF Ends, Idle, Dispatching
    <2> QED
      BY <1>0, <1>k, <2>1, OutermostKept
  <1>r. CASE Receive \/ RoleShown \/ SessionOver \/ AgainAnswered
    <2>1. /\ {"event", "end"} \in SUBSET Answers /\ {"event"} \in SUBSET Answers
          /\ {"handled", "end"} \in SUBSET Answers /\ {"leave", "given"} \in SUBSET Answers
      BY DEF Answers
    <2> QED
      BY <1>e, <1>r, <2>1 DEF Receive, RoleShown, SessionOver, AgainAnswered
  <1>8. CASE ConnectFails \/ NotJoined \/ GuestNeverCame \/ NoGameChosen \/ NotStarted
             \/ LeaveRoom
    <2>1. ToMainMenu
      BY <1>8, Zenon
      DEF ConnectFails, NotJoined, GuestNeverCame, NoGameChosen, NotStarted, LeaveRoom
    <2> QED
      BY <1>s, <1>w, <2>1 DEF ToMainMenu, WaitFor
  <1>9. CASE HostRoom \/ JoinRoom \/ Joined \/ GameChosen \/ AfterSession \/ AskedAgain
    <2>1. PICK waits \in Waits \ {"role", "session"}, of \in Addresses \cup {Null} : loops' = <<Loop(waits, of)>>
      BY <1>s, <1>9
      DEF HostRoom, JoinRoom, Joined, GameChosen, AfterSession, AskedAgain, WaitFor
    <2> QED
      BY <1>w, <2>1
  <1>10. CASE NoReply \/ Quit
    BY <1>1, <1>10 DEF NoReply, Quit
  <1>11. CASE GuestCame
    <2>1. PICK menu \in Addresses : loops' = Append(<< >>, Loop("game", menu))
      BY <1>11 DEF GuestCame, PromptGameChoice
    <2>2. loops' = <<Loop("game", menu)>>
      BY <2>1
    <2> QED
      BY <1>s, <1>w, <2>2
  <1>12. CASE NestedChoiceEnds
    <2>1. loops # << >> /\ UNCHANGED connected
      BY <1>0, <1>12, LoopsFacts DEF NestedChoiceEnds
    <2> QED
      BY <1>0, <1>12, <1>k, <2>1, OutermostKept DEF NestedChoiceEnds
  <1>13. CASE Started
    <2>1. loops # << >> /\ loops[1].waits = "start" /\ ~cancelRequested
      BY <1>0, <1>13, ReturnedFacts DEF Started
    <2>2. connected
      BY <2>1, Zenon DEF ConnInv
    <2>3. UNCHANGED connected
      BY <1>13, Zenon DEF Started
    <2> QED
      BY <2>2, <2>3, Zenon
  <1>14. CASE Play
    <2>1. loops # << >> /\ loops[1].waits = "role"
      BY <1>0, <1>14, ReturnedFacts DEF Play
    <2>2. InGame
      BY <1>g, <2>1
    <2>3. UNCHANGED connected
      BY <1>14, Zenon DEF Play
    <2> QED
      BY <2>2, <2>3, Zenon DEF Kept
  <1>15. CASE UNCHANGED vars
    <2>1. InGame
      BY <1>15 DEF vars, InGame
    <2>2. UNCHANGED connected
      BY <1>15, Zenon DEF vars
    <2> QED
      BY <2>1, <2>2, Zenon DEF Kept
  <1> QED
    BY <1>2, <1>3, <1>4, <1>5, <1>6, <1>7, <1>r, <1>8, <1>9, <1>10, <1>11, <1>12, <1>13, <1>14,
       <1>15
    DEF Next, Handler, Continue

\* No game is entered on a connection that a cancel has closed: whatever the
\* receiver of a cancelled wait reads, awaitGameStart looks at the cancel first.
\* After that only the cross of a room closes the connection under the game.
THEOREM WindowsGameEnteredConnected == Spec => GameEnteredConnected
  <1>1. Init => ConnInv
    BY DEF Init, ConnInv, Loop
  <1>2. Spec => []ConnInv
    BY <1>1, ConnStep, WindowsInvariant, PTL DEF Spec
  <1>3. IInv /\ ConnInv /\ [Next]_vars =>
           [InGame' /\ ~connected' =>
               InGame /\ (~connected \/ \E w \in Addresses : PressClose(w))]_vars
    BY GameStep
  <1> QED
    BY <1>2, <1>3, WindowsInvariant, PTL DEF Spec, GameEnteredConnected

-----------------------------------------------------------------------------
(* The prompts. *)

Asks == {"JoinGameRoom", "GameSelectMenu"}

(***************************************************************************)
(* The window of a prompt is of a kind whose cross answers it, and         *)
(* activeRoom_ names no prompt's window but the innermost one's: whatever  *)
(* closes what activeRoom_ names closes that or a room.                    *)
(***************************************************************************)
PromptInv ==
  \A i \in 1..Len(loops) :
     /\ loops[i].waits \in Prompts =>
           /\ loops[i].of \in Addresses
           /\ windows[loops[i].of].open => windows[loops[i].of].kind \in Asks
     /\ activeRoom # Null /\ loops[i].of = activeRoom => i = Len(loops)

\* Answers, and windows that close, leave it so.
LEMMA PromptsKept ==
  ASSUME LoopsInv, PromptInv, SameLoops, activeRoom' \in {activeRoom, Null},
         \A a \in Addresses : windows'[a].open => windows'[a] = windows[a]
  PROVE  PromptInv'
  <1>1. Len(loops') = Len(loops)
    BY DEF SameLoops
  <1>2. ASSUME NEW i \in 1..Len(loops')
        PROVE  /\ loops'[i].waits \in Prompts =>
                     /\ loops'[i].of \in Addresses
                     /\ windows'[loops'[i].of].open => windows'[loops'[i].of].kind \in Asks
               /\ activeRoom' # Null /\ loops'[i].of = activeRoom' => i = Len(loops')
    <2>1. i \in 1..Len(loops)
      BY <1>1
    <2>2. loops'[i].waits = loops[i].waits /\ loops'[i].of = loops[i].of
      BY <2>1 DEF SameLoops
    <2> QED
      BY <1>1, <2>1, <2>2, Zenon DEF PromptInv
  <1> QED
    BY <1>2 DEF PromptInv

\* A loop outside of all handlers, with the window that has just been opened for it.
LEMMA PromptAlone ==
  ASSUME NEW waits \in Waits, NEW of \in Addresses \cup {Null}, loops' = <<Loop(waits, of)>>,
         waits \in Prompts => of \in Addresses /\ windows'[of].kind \in Asks
  PROVE  PromptInv'
  <1>1. /\ Len(loops') = 1
        /\ loops'[1].waits = waits /\ loops'[1].of = of
    BY OneLoop
  <1>2. \A i \in 1..Len(loops') : i = 1
    BY <1>1
  <1> QED
    BY <1>1, <1>2 DEF PromptInv

\* What the handlers that prompt do to the prompts that wait.
LEMMA NestedPrompt ==
  ASSUME LoopsInv, WindowsInv, activeRoom \in Addresses \cup {Null}, PromptInv,
         loops # << >>, Len(loops) < MaxLoops, NEW menu \in Addresses, IsFresh(menu),
         windows' = Opened(Closed(activeRoom, Len(loops)), menu, "GameSelectMenu"),
         loops' = Append(loops, Loop("game", menu))
  PROVE  /\ Len(loops') = Len(loops) + 1
         /\ loops'[Len(loops) + 1] = [waits |-> "game", of |-> menu, answer |-> "none"]
         /\ windows'[menu] = [kind |-> "GameSelectMenu", open |-> TRUE, depth |-> 0]
         /\ \A i \in 1..Len(loops) :
               /\ loops'[i] = loops[i] /\ loops[i].of # menu
               /\ loops[i].of \in Addresses =>
                     /\ windows'[loops[i].of].kind = windows[loops[i].of].kind
                     /\ i # Len(loops) => windows'[loops[i].of] = windows[loops[i].of]
                     /\ windows'[loops[i].of].open => windows[loops[i].of].open
  <1>0. Len(loops) \in 0..MaxLoops /\ DOMAIN loops = 1..Len(loops)
    BY LoopsFacts
  <1> DEFINE ws == Closed(activeRoom, Len(loops))
  <1>1. /\ Len(loops') = Len(loops) + 1
        /\ loops'[Len(loops) + 1] = [waits |-> "game", of |-> menu, answer |-> "none"]
        /\ \A i \in 1..Len(loops) : loops'[i] = loops[i]
    BY LoopNested
  <1>2. /\ ws \in [Addresses -> WindowRecords]
        /\ \A a \in Addresses : ws[a].kind = windows[a].kind /\ (a # activeRoom => ws[a] = windows[a])
    BY <1>0, ClosedKeeps
  <1>3. activeRoom \in Addresses /\ windows[activeRoom].open => ~ws[activeRoom].open
    <2> SUFFICES ASSUME activeRoom \in Addresses, windows[activeRoom].open
                 PROVE  ~ws[activeRoom].open
      OBVIOUS
    <2>1. windows[activeRoom] \in [kind : Kinds, open : BOOLEAN, depth : 0..MaxLoops]
      BY WindowFacts DEF WindowRecords, NoWindow, Kinds
    <2>2. activeRoom # Null
      BY NullAssumption
    <2> QED
      BY <2>1, <2>2 DEF Closed, WindowsInv
  <1>4. activeRoom \in Addresses /\ ~windows[activeRoom].open => ws = windows
    BY DEF Closed
  <1>5. /\ windows'[menu] = [kind |-> "GameSelectMenu", open |-> TRUE, depth |-> 0]
        /\ \A a \in Addresses \ {menu} : windows'[a] = ws[a]
    BY <1>2, OpenedKeeps DEF Kinds
  <1>6. \A i \in 1..Len(loops) : loops[i].of # menu
    BY <1>0 DEF IsFresh
  <1> HIDE DEF ws
  <1>7. ASSUME NEW i \in 1..Len(loops), loops[i].of \in Addresses
        PROVE  /\ windows'[loops[i].of].kind = windows[loops[i].of].kind
               /\ i # Len(loops) => windows'[loops[i].of] = windows[loops[i].of]
               /\ windows'[loops[i].of].open => windows[loops[i].of].open
    <2>1. windows'[loops[i].of] = ws[loops[i].of]
      BY <1>5, <1>6, <1>7
    <2>2. CASE loops[i].of # activeRoom
      BY <1>2, <1>7, <2>1, <2>2
    <2>3. CASE loops[i].of = activeRoom
      <3>1. i = Len(loops)
        BY <1>7, <2>3, NullAssumption DEF PromptInv
      <3>2. ws[activeRoom].open => windows[activeRoom].open
        BY <1>3, <1>4, <1>7, <2>3, Zenon
      <3> QED
        BY <1>2, <1>7, <2>1, <2>3, <3>1, <3>2, Zenon
    <2> QED
      BY <2>2, <2>3
  <1> QED
    BY <1>1, <1>5, <1>6, <1>7

\* What a window that closes leaves of those that are open.
LEMMA ClosedOrSame ==
  ASSUME WindowsInv, NEW w \in Addresses \cup {Null}, NEW depth \in 0..MaxLoops
  PROVE  \A a \in Addresses : Closed(w, depth)[a].open => Closed(w, depth)[a] = windows[a]
  <1> SUFFICES ASSUME NEW a \in Addresses, Closed(w, depth)[a].open
               PROVE  Closed(w, depth)[a] = windows[a]
    OBVIOUS
  <1>1. CASE a # w
    BY <1>1, ClosedKeeps
  <1>2. CASE a = w /\ ~windows[w].open
    BY <1>2 DEF Closed
  <1>3. CASE a = w /\ windows[w].open
    <2>1. windows[w] \in [kind : Kinds, open : BOOLEAN, depth : 0..MaxLoops]
      BY <1>3, WindowFacts DEF WindowRecords, NoWindow, Kinds
    <2>2. w # Null
      BY <1>3, NullAssumption
    <2> QED
      BY <1>3, <2>1, <2>2 DEF Closed, WindowsInv
  <1> QED
    BY <1>1, <1>2, <1>3

LEMMA PromptStep == IInv /\ PromptInv /\ [Next]_vars => PromptInv'
  <1> SUFFICES ASSUME IInv, PromptInv, [Next]_vars PROVE PromptInv'
    OBVIOUS
  <1>0. LoopsInv /\ WindowsInv /\ activeRoom \in Addresses \cup {Null}
    BY DEF IInv, PointersInv
  <1>l. Len(loops) \in 0..MaxLoops /\ 0 \in 0..MaxLoops
    BY <1>0, LoopsFacts, MaxLoopsAssumption
  <1> USE DEF pointers
  <1>u. ASSUME UNCHANGED loops PROVE SameLoops
    BY <1>0, <1>u DEF SameLoops, LoopsInv
  <1>1. ASSUME NEW answer \in {"host", "join", "leave"}, PressMain(answer) PROVE PromptInv'
    <2>1. answer \in Answers /\ loops # << >>
      BY <1>1 DEF Answers, PressMain, Idle, Dispatching
    <2>2. SameLoops
      BY <1>0, <1>1, <2>1, FirstAnswered DEF PressMain
    <2> QED
      BY <1>0, <1>1, <2>2, PromptsKept DEF PressMain
  <1>2. ASSUME NEW w \in Addresses, PressClose(w) PROVE PromptInv'
    <2>1. SameLoops
      BY <1>0, <1>2, <1>u, WindowAnswered DEF PressClose, Answers
    <2>2. \A a \in Addresses : windows'[a].open => windows'[a] = windows[a]
      BY <1>0, <1>2, <1>l, ClosedOrSame DEF PressClose
    <2> QED
      BY <1>0, <1>2, <2>1, <2>2, PromptsKept DEF PressClose
  <1>3. ASSUME NEW w \in Addresses, PressAnswer(w) PROVE PromptInv'
    <2>1. SameLoops
      BY <1>0, <1>3, WindowAnswered DEF PressAnswer, Answers
    <2> QED
      BY <1>0, <1>3, <2>1, PromptsKept DEF PressAnswer
  <1>4. ASSUME NEW w \in Addresses, PressAllPlayersConnected(w) PROVE PromptInv'
    <2>1. loops # << >> /\ Len(loops) < MaxLoops
      BY <1>4 DEF PressAllPlayersConnected, Pressable, Idle, Dispatching
    <2>2. PICK menu \in Addresses :
             /\ IsFresh(menu) /\ activeRoom' = menu
             /\ windows' = Opened(Closed(activeRoom, Len(loops)), menu, "GameSelectMenu")
             /\ loops' = Append(loops, Loop("game", menu))
      BY <1>4 DEF PressAllPlayersConnected, PromptGameChoice
    <2>3. /\ Len(loops') = Len(loops) + 1
          /\ loops'[Len(loops) + 1] = [waits |-> "game", of |-> menu, answer |-> "none"]
          /\ windows'[menu] = [kind |-> "GameSelectMenu", open |-> TRUE, depth |-> 0]
          /\ \A i \in 1..Len(loops) :
                /\ loops'[i] = loops[i] /\ loops[i].of # menu
                /\ loops[i].of \in Addresses =>
                      /\ windows'[loops[i].of].kind = windows[loops[i].of].kind
                      /\ windows'[loops[i].of].open => windows[loops[i].of].open
      BY <1>0, <2>1, <2>2, NestedPrompt
    <2>4. ASSUME NEW i \in 1..Len(loops')
          PROVE  /\ loops'[i].waits \in Prompts =>
                       /\ loops'[i].of \in Addresses
                       /\ windows'[loops'[i].of].open => windows'[loops'[i].of].kind \in Asks
                 /\ activeRoom' # Null /\ loops'[i].of = activeRoom' => i = Len(loops')
      <3>1. i \in 1..Len(loops) \/ i = Len(loops) + 1
        BY <1>l, <2>3
      <3>2. CASE i \in 1..Len(loops)
        BY <2>2, <2>3, <3>2, Zenon DEF PromptInv
      <3>3. CASE i = Len(loops) + 1
        <4>1. loops'[i].of = menu /\ windows'[menu].kind \in Asks /\ i = Len(loops')
          BY <2>3, <3>3 DEF Asks
        <4> QED
          BY <4>1, Zenon
      <3> QED
        BY <3>1, <3>2, <3>3
    <2> QED
      BY <2>4 DEF PromptInv
  <1>5. ASSUME NEW w \in Addresses, Destroyed(w) PROVE PromptInv'
    <2>1. SameLoops /\ activeRoom' = Null
      BY <1>5, <1>u DEF Destroyed
    <2>2. \A a \in Addresses : windows'[a].open => windows'[a] = windows[a]
      BY <1>0, <1>5 DEF Destroyed, WindowsInv, NoWindow
    <2> QED
      BY <1>0, <2>1, <2>2, PromptsKept
  <1>6. ASSUME NEW w \in Addresses, CloseByWindowManager(w) PROVE PromptInv'
    <2>1. \A a \in Addresses : windows'[a].open => windows'[a] = windows[a]
      BY <1>0, <1>6, <1>l, ClosedOrSame DEF CloseByWindowManager
    <2> QED
      BY <1>0, <1>6, <1>u, <2>1, PromptsKept DEF CloseByWindowManager
  <1>7. CASE CloseMainByWindowManager \/ UNCHANGED vars
    BY <1>0, <1>7, <1>u, PromptsKept DEF CloseMainByWindowManager, vars
  <1>e. ASSUME NEW waits, NEW answers \in SUBSET Answers, Ends(waits, answers) PROVE PromptInv'
    <2>1. SameLoops
      BY <1>0, <1>e, FirstAnswered DEF Ends, Idle, Dispatching
    <2> QED
      BY <1>0, <1>e, <2>1, PromptsKept DEF Ends
  <1>8. CASE Receive \/ RoleShown \/ SessionOver \/ AgainAnswered
    <2>1. /\ {"event", "end"} \in SUBSET Answers /\ {"event"} \in SUBSET Answers
          /\ {"handled", "end"} \in SUBSET Answers /\ {"leave", "given"} \in SUBSET Answers
      BY DEF Answers
    <2> QED
      BY <1>e, <1>8, <2>1 DEF Receive, RoleShown, SessionOver, AgainAnswered
  <1>s. {"mainMenu", "guest", "start", "role", "session", "again"} \subseteq Waits \ Prompts
    BY DEF Waits, Prompts
  <1>w. ASSUME NEW waits \in Waits \ Prompts, WaitFor(waits) PROVE PromptInv'
    BY <1>w, PromptAlone DEF WaitFor
  <1>9. CASE ConnectFails \/ NotJoined \/ GuestNeverCame \/ NoGameChosen \/ NotStarted
             \/ LeaveRoom
    <2>1. ToMainMenu
      BY <1>9, Zenon
      DEF ConnectFails, NotJoined, GuestNeverCame, NoGameChosen, NotStarted, LeaveRoom
    <2> QED
      BY <1>s, <1>w, <2>1 DEF ToMainMenu
  <1>10. CASE HostRoom \/ Joined \/ GameChosen \/ Started \/ Play \/ AfterSession \/ AskedAgain
    <2>1. PICK waits \in Waits \ Prompts : WaitFor(waits)
      BY <1>s, <1>10 DEF HostRoom, Joined, GameChosen, Started, Play, AfterSession, AskedAgain
    <2> QED
      BY <1>w, <2>1
  <1>11. CASE NoReply \/ Quit
    <2>1. Len(loops') = 0
      BY <1>11, EmptySeq DEF NoReply, Quit
    <2> QED
      BY <2>1 DEF PromptInv
  <1>12. CASE JoinRoom
    <2>1. PICK w \in Addresses : /\ windows' = Opened(windows, w, "JoinGameRoom")
                                 /\ loops' = <<Loop("code", w)>>
      BY <1>12 DEF JoinRoom
    <2>2. windows'[w].kind \in Asks
      BY <1>0, <2>1, OpenedKeeps DEF WindowsInv, Kinds, Asks
    <2> QED
      BY <2>1, <2>2, PromptAlone DEF Waits, Prompts
  <1>13. CASE GuestCame
    <2>1. PICK menu \in Addresses :
             /\ windows' = Opened(Closed(activeRoom, Len(<< >>)), menu, "GameSelectMenu")
             /\ loops' = Append(<< >>, Loop("game", menu))
      BY <1>13 DEF GuestCame, PromptGameChoice
    <2>2. Len(<< >>) = 0 /\ loops' = <<Loop("game", menu)>>
      BY <2>1, EmptySeq
    <2>3. Closed(activeRoom, Len(<< >>)) \in [Addresses -> WindowRecords]
      BY <1>0, <1>l, <2>2, ClosedKeeps
    <2>4. windows'[menu].kind \in Asks
      BY <2>1, <2>3, OpenedKeeps DEF Kinds, Asks
    <2> QED
      BY <2>2, <2>4, PromptAlone DEF Waits, Prompts
  <1>14. CASE NestedChoiceEnds
    <2>1. /\ loops' = Front(loops) /\ Len(loops) > 1 /\ activeRoom' = Null
          /\ windows' = Closed(activeRoom, Len(loops) - 1)
      BY <1>14 DEF NestedChoiceEnds, GameChoiceEnds
    <2>2. Len(loops) - 1 \in 0..MaxLoops
      BY <1>l, <2>1, MaxLoopsAssumption
    <2>3. \A a \in Addresses : windows'[a].open => windows'[a] = windows[a]
      BY <1>0, <2>1, <2>2, ClosedOrSame
    <2>4. /\ Len(loops') = Len(loops) - 1
          /\ \A i \in 1..(Len(loops) - 1) : loops'[i] = loops[i]
      BY <1>0, <2>1, LoopLeft
    <2>5. \A i \in 1..Len(loops') : loops'[i] = loops[i] /\ i \in 1..Len(loops)
      BY <1>l, <2>1, <2>4
    <2>6. ASSUME NEW i \in 1..Len(loops'), loops'[i].waits \in Prompts
          PROVE  /\ loops'[i].of \in Addresses
                 /\ windows'[loops'[i].of].open => windows'[loops'[i].of].kind \in Asks
      BY <2>3, <2>5, <2>6, Zenon DEF PromptInv
    <2> QED
      BY <2>1, <2>6, Zenon DEF PromptInv
  <1> QED
    BY <1>1, <1>2, <1>3, <1>4, <1>5, <1>6, <1>7, <1>8, <1>9, <1>10, <1>11, <1>12, <1>13, <1>14
    DEF Next, Handler, Continue

\* An answer to one prompt, or a window that closes, takes nothing from a prompt
\* that goes on with its window open.
LEMMA StillStranded ==
  ASSUME LoopsInv, SameLoops, NEW i \in 1..Len(loops), Stranded(i)',
         loops'[i].answer = "none" => loops[i].answer = "none",
         mainWindow = "shown" /\ loops[i].waits = "mainMenu" => mainWindow' = "shown",
         loops[i].waits \in Prompts /\ windows[loops[i].of].open => windows'[loops[i].of].open
  PROVE  i \in DOMAIN loops /\ Stranded(i)
  <1>1. DOMAIN loops = 1..Len(loops)
    BY LoopsFacts
  <1>2. loops'[i].waits = loops[i].waits /\ loops'[i].of = loops[i].of
    BY DEF SameLoops
  <1>3. loops[i].waits \in Prompts \cup {"mainMenu"} /\ loops[i].answer = "none"
    BY <1>2, Zenon DEF Stranded
  <1>4. ~HasWindow(i)'
    BY Zenon DEF Stranded
  <1>5. CASE loops[i].waits = "mainMenu"
    BY <1>1, <1>2, <1>3, <1>4, <1>5, Zenon DEF Stranded, HasWindow
  <1>6. CASE loops[i].waits # "mainMenu"
    BY <1>1, <1>2, <1>3, <1>4, <1>6, Zenon DEF Stranded, HasWindow
  <1> QED
    BY <1>5, <1>6

\* What takes a prompt's window from it.
TakesWindow(i) ==
  \/ i = 1 /\ CloseMainByWindowManager
  \/ \E w \in Addresses :
        \/ w = loops'[i].of /\ CloseByWindowManager(w)
        \/ i = Len(loops) /\ PressAllPlayersConnected(w)

\* Nothing else does.
LEMMA LossStep ==
  ASSUME IInv, PromptInv, [Next]_vars, NEW i \in DOMAIN loops', Stranded(i)'
  PROVE  (i \in DOMAIN loops /\ Stranded(i)) \/ TakesWindow(i)
  <1> DEFINE Was == i \in DOMAIN loops /\ Stranded(i)
             Goal == Was \/ TakesWindow(i)
  <1> SUFFICES Goal
    OBVIOUS
  <1>0. LoopsInv /\ WindowsInv /\ activeRoom \in Addresses \cup {Null}
    BY DEF IInv, PointersInv
  <1>l. Len(loops) \in 0..MaxLoops /\ 0 \in 0..MaxLoops /\ DOMAIN loops = 1..Len(loops)
    BY <1>0, LoopsFacts, MaxLoopsAssumption
  <1>i. i \in 1..Len(loops')
    <2>1. LoopsInv'
      BY LoopsStep
    <2>2. DOMAIN loops' = 1..Len(loops')
      BY <2>1 DEF LoopsInv
    <2> QED
      BY <2>2
  <1>p. "mainMenu" \notin Prompts /\ "game" # "mainMenu"
    BY DEF Prompts
  <1>m. i \in 1..Len(loops) /\ loops[i].waits = "mainMenu" => i = 1
    BY <1>0, <1>p, Zenon DEF LoopsInv
  <1>g. /\ loops'[i].waits \in Prompts \cup {"mainMenu"} /\ loops'[i].answer = "none"
        /\ loops'[i].waits = "mainMenu" => mainWindow' # "shown"
        /\ loops'[i].waits # "mainMenu" => ~windows'[loops'[i].of].open
    BY Zenon DEF Stranded, HasWindow
  <1>u. ASSUME UNCHANGED loops PROVE SameLoops /\ i \in 1..Len(loops)
    BY <1>0, <1>i, <1>u DEF SameLoops, LoopsInv
  <1>s. SameLoops => i \in 1..Len(loops)
    BY <1>i DEF SameLoops
  <1> HIDE DEF Goal, Was
  <1>w. Was => Goal
    BY DEF Goal
  <1>k. ASSUME SameLoops, loops'[i].answer = "none" => loops[i].answer = "none",
               mainWindow = "shown" /\ loops[i].waits = "mainMenu" => mainWindow' = "shown",
               loops[i].waits \in Prompts /\ windows[loops[i].of].open =>
                  windows'[loops[i].of].open
        PROVE  Goal
    BY <1>0, <1>k, <1>s, <1>w, StillStranded DEF Was
  <1> USE DEF pointers
  <1>1. ASSUME NEW answer \in {"host", "join", "leave"}, PressMain(answer) PROVE Goal
    <2>1. answer \in Answers /\ answer # "none" /\ loops # << >>
      BY <1>1 DEF Answers, PressMain, Idle, Dispatching
    <2>2. SameLoops /\ loops'[1].answer = answer
          /\ \A j \in 1..Len(loops) : j # 1 => loops'[j] = loops[j]
      BY <1>0, <1>1, <2>1, FirstAnswered DEF PressMain
    <2>3. i # 1 /\ i \in 1..Len(loops) /\ loops[i].waits # "mainMenu"
      BY <1>g, <1>m, <1>s, <2>1, <2>2, Zenon
    <2>4. loops'[i] = loops[i] /\ UNCHANGED windows
      BY <1>1, <2>2, <2>3, Zenon DEF PressMain
    <2> QED
      BY <1>k, <2>2, <2>3, <2>4, Zenon
  <1>2. ASSUME NEW w \in Addresses, PressClose(w) PROVE Goal
    <2>1. /\ \A a \in Addresses \ {w} : windows'[a] = windows[a]
          /\ UNCHANGED mainWindow /\ windows[w].open
      BY <1>0, <1>2, <1>l, ClosedKeeps DEF PressClose, Pressable
    <2>2. CASE windows[w].kind \in {"HostGameRoom", "GuestGameRoom"} /\ UNCHANGED loops
      <3>1. SameLoops /\ i \in 1..Len(loops)
        BY <1>u, <2>2, Zenon
      <3>2. loops[i].waits \in Prompts => loops[i].of \in Addresses \ {w}
        BY <2>1, <2>2, <3>1 DEF PromptInv, Asks
      <3> QED
        BY <1>k, <2>1, <2>2, <3>1, <3>2, Zenon
    <2>3. CASE loops' = AnswerOf(w, "leave")
      <3>1. SameLoops /\ \A j \in 1..Len(loops) :
                            /\ loops[j].of = w => loops'[j].answer = "leave"
                            /\ loops[j].of # w => loops'[j] = loops[j]
        BY <1>0, <2>3, WindowAnswered DEF Answers
      <3>2. i \in 1..Len(loops) /\ loops[i].of # w
        BY <1>g, <1>s, <3>1
      <3>3. loops'[i] = loops[i] /\ (loops[i].waits \in Prompts => loops[i].of \in Addresses)
        BY <3>1, <3>2, Zenon DEF PromptInv
      <3> QED
        BY <1>k, <2>1, <3>1, <3>2, <3>3
    <2> QED
      BY <1>2, <2>2, <2>3 DEF PressClose
  <1>3. ASSUME NEW w \in Addresses, PressAnswer(w) PROVE Goal
    <2>1. SameLoops /\ \A j \in 1..Len(loops) :
                          /\ loops[j].of = w => loops'[j].answer = "given"
                          /\ loops[j].of # w => loops'[j] = loops[j]
      BY <1>0, <1>3, WindowAnswered DEF PressAnswer, Answers
    <2>2. i \in 1..Len(loops) /\ loops'[i] = loops[i]
      BY <1>g, <1>s, <2>1
    <2>3. UNCHANGED <<windows, mainWindow>>
      BY <1>3, Zenon DEF PressAnswer
    <2> QED
      BY <1>k, <2>1, <2>2, <2>3, Zenon
  <1>4. ASSUME NEW w \in Addresses, PressAllPlayersConnected(w) PROVE Goal
    <2>1. loops # << >> /\ Len(loops) < MaxLoops
      BY <1>4 DEF PressAllPlayersConnected, Pressable, Idle, Dispatching
    <2>2. PICK menu \in Addresses :
             /\ IsFresh(menu) /\ UNCHANGED mainWindow
             /\ windows' = Opened(Closed(activeRoom, Len(loops)), menu, "GameSelectMenu")
             /\ loops' = Append(loops, Loop("game", menu))
      BY <1>4 DEF PressAllPlayersConnected, PromptGameChoice
    <2>3. /\ Len(loops') = Len(loops) + 1
          /\ loops'[Len(loops) + 1] = [waits |-> "game", of |-> menu, answer |-> "none"]
          /\ windows'[menu] = [kind |-> "GameSelectMenu", open |-> TRUE, depth |-> 0]
          /\ \A j \in 1..Len(loops) :
                /\ loops'[j] = loops[j]
                /\ loops[j].of \in Addresses /\ j # Len(loops) =>
                      windows'[loops[j].of] = windows[loops[j].of]
      BY <1>0, <2>1, <2>2, NestedPrompt
    <2>4. i # Len(loops) + 1
      BY <1>g, <1>p, <2>3
    <2>a. Len(loops') = Len(loops) + 1
      BY <2>3, Zenon
    <2>b. i \in 1..Len(loops')
      BY <1>i, Zenon
    <2>5. i \in 1..Len(loops)
      BY <1>l, <2>a, <2>b, <2>4
    <2>6. CASE i = Len(loops)
      BY <1>4, <2>6, Zenon DEF Goal, TakesWindow
    <2>7. CASE i # Len(loops)
      <3>1. loops'[i] = loops[i]
        BY <2>3, <2>5, Zenon
      <3>2. loops[i].waits \in Prompts =>
               loops[i].of \in Addresses /\ windows'[loops[i].of] = windows[loops[i].of]
        BY <2>3, <2>5, <2>7, Zenon DEF PromptInv
      <3>3. Was
        BY <1>g, <1>l, <2>2, <2>5, <3>1, <3>2, Zenon DEF Was, Stranded, HasWindow
      <3> QED
        BY <1>w, <3>3
    <2> QED
      BY <2>6, <2>7
  <1>5. ASSUME NEW w \in Addresses, Destroyed(w) PROVE Goal
    <2>1. SameLoops /\ i \in 1..Len(loops) /\ UNCHANGED <<loops, mainWindow>>
      BY <1>5, <1>u, Zenon DEF Destroyed
    <2>2. /\ \A a \in Addresses \ {w} : windows'[a] = windows[a]
          /\ ~windows[w].open
      BY <1>0, <1>5 DEF Destroyed, Deletable, WindowsInv
    <2>3. loops[i].waits \in Prompts => loops[i].of \in Addresses
      BY <2>1, Zenon DEF PromptInv
    <2> QED
      BY <1>k, <2>1, <2>2, <2>3, Zenon
  <1>6. ASSUME NEW w \in Addresses, CloseByWindowManager(w) PROVE Goal
    <2>1. SameLoops /\ i \in 1..Len(loops) /\ UNCHANGED <<loops, mainWindow>>
      BY <1>6, <1>u, Zenon DEF CloseByWindowManager
    <2>2. CASE loops[i].of = w
      BY <1>6, <2>1, <2>2, Zenon DEF Goal, TakesWindow
    <2>3. CASE loops[i].of # w
      <3>1. \A a \in Addresses \ {w} : windows'[a] = windows[a]
        BY <1>0, <1>6, <1>l, ClosedKeeps DEF CloseByWindowManager
      <3>2. loops[i].waits \in Prompts => loops[i].of \in Addresses \ {w}
        BY <2>1, <2>3 DEF PromptInv
      <3> QED
        BY <1>k, <2>1, <3>1, <3>2, Zenon
    <2> QED
      BY <2>2, <2>3
  <1>7. CASE CloseMainByWindowManager
    <2>1. SameLoops /\ i \in 1..Len(loops) /\ UNCHANGED <<loops, windows>>
      BY <1>7, <1>u, Zenon DEF CloseMainByWindowManager
    <2>2. CASE i = 1
      BY <1>7, <2>2, Zenon DEF Goal, TakesWindow
    <2>3. CASE i # 1
      BY <1>k, <1>m, <2>1, <2>3, Zenon
    <2> QED
      BY <2>2, <2>3
  <1>e. ASSUME NEW waits, NEW answers \in SUBSET (Answers \ {"none"}), Ends(waits, answers)
        PROVE  Goal
    <2>1. PICK answer \in Answers \ {"none"} : loops' = [loops EXCEPT ![1].answer = answer]
      BY <1>e DEF Ends
    <2>2. loops # << >> /\ UNCHANGED <<windows, mainWindow>>
      BY <1>e DEF Ends, Idle, Dispatching
    <2>3. SameLoops /\ loops'[1].answer = answer
          /\ \A j \in 1..Len(loops) : j # 1 => loops'[j] = loops[j]
      BY <1>0, <2>1, <2>2, FirstAnswered
    <2>4. i # 1 /\ i \in 1..Len(loops)
      BY <1>g, <1>s, <2>1, <2>3
    <2>5. loops'[i] = loops[i]
      BY <2>3, <2>4, Zenon
    <2> QED
      BY <1>k, <2>2, <2>3, <2>5, Zenon
  <1>8. CASE Receive \/ RoleShown \/ SessionOver \/ AgainAnswered
    <2>1. /\ {"event", "end"} \in SUBSET (Answers \ {"none"})
          /\ {"event"} \in SUBSET (Answers \ {"none"})
          /\ {"handled", "end"} \in SUBSET (Answers \ {"none"})
          /\ {"leave", "given"} \in SUBSET (Answers \ {"none"})
      BY DEF Answers
    <2> QED
      BY <1>e, <1>8, <2>1 DEF Receive, RoleShown, SessionOver, AgainAnswered
  <1>o. ASSUME NEW waits \in Waits, NEW of \in Addresses \cup {Null},
               loops' = <<Loop(waits, of)>>
        PROVE  loops'[i].waits = waits /\ loops'[i].of = of
    BY <1>i, <1>o, OneLoop
  <1>q. {"guest", "start", "role", "session", "again"} \subseteq Waits \ (Prompts \cup {"mainMenu"})
    BY DEF Waits, Prompts
  <1>9. CASE ConnectFails \/ NotJoined \/ GuestNeverCame \/ NoGameChosen \/ NotStarted
             \/ LeaveRoom
    <2>1. ToMainMenu
      BY <1>9, Zenon
      DEF ConnectFails, NotJoined, GuestNeverCame, NoGameChosen, NotStarted, LeaveRoom
    <2>2. loops' = <<Loop("mainMenu", Null)>> /\ mainWindow' = "shown"
      BY <2>1, Zenon DEF ToMainMenu, WaitFor
    <2>3. loops'[i].waits = "mainMenu"
      BY <1>o, <2>2 DEF Waits
    <2> QED
      BY <1>g, <2>2, <2>3
  <1>10. CASE HostRoom \/ Joined \/ GameChosen \/ Started \/ Play \/ AfterSession \/ AskedAgain
    <2>1. PICK waits \in Waits \ (Prompts \cup {"mainMenu"}) : WaitFor(waits)
      BY <1>q, <1>10 DEF HostRoom, Joined, GameChosen, Started, Play, AfterSession, AskedAgain
    <2>2. loops'[i].waits = waits
      BY <1>o, <2>1 DEF WaitFor
    <2> QED
      BY <1>g, <2>1, <2>2
  <1>11. CASE NoReply \/ Quit
    <2>1. Len(loops') = 0
      BY <1>11, EmptySeq DEF NoReply, Quit
    <2> QED
      BY <1>i, <2>1
  <1>12. CASE JoinRoom
    <2>1. PICK w \in Addresses : /\ windows' = Opened(windows, w, "JoinGameRoom")
                                 /\ loops' = <<Loop("code", w)>>
      BY <1>12 DEF JoinRoom
    <2>2. windows'[w].open
      BY <1>0, <2>1, OpenedKeeps DEF WindowsInv, Kinds
    <2>3. loops'[i].waits = "code" /\ loops'[i].of = w
      BY <1>o, <2>1 DEF Waits, Prompts
    <2> QED
      BY <1>g, <2>2, <2>3
  <1>13. CASE GuestCame
    <2>1. PICK menu \in Addresses :
             /\ windows' = Opened(Closed(activeRoom, Len(<< >>)), menu, "GameSelectMenu")
             /\ loops' = Append(<< >>, Loop("game", menu))
      BY <1>13 DEF GuestCame, PromptGameChoice
    <2>2. Len(<< >>) = 0 /\ loops' = <<Loop("game", menu)>>
      BY <2>1, EmptySeq
    <2>3. Closed(activeRoom, Len(<< >>)) \in [Addresses -> WindowRecords]
      BY <1>0, <1>l, <2>2, ClosedKeeps
    <2>4. windows'[menu].open
      BY <2>1, <2>3, OpenedKeeps DEF Kinds
    <2>5. loops'[i].waits = "game" /\ loops'[i].of = menu
      BY <1>o, <2>2 DEF Waits, Prompts
    <2> QED
      BY <1>g, <2>4, <2>5
  <1>14. CASE NestedChoiceEnds
    <2>1. /\ loops' = Front(loops) /\ Len(loops) > 1 /\ UNCHANGED mainWindow
          /\ windows' = Closed(activeRoom, Len(loops) - 1)
      BY <1>14 DEF NestedChoiceEnds, GameChoiceEnds
    <2>2. Len(loops) - 1 \in 0..MaxLoops
      BY <1>l, <2>1, MaxLoopsAssumption
    <2>3. \A a \in Addresses : a # activeRoom => windows'[a] = windows[a]
      BY <1>0, <2>1, <2>2, ClosedKeeps
    <2>4. /\ Len(loops') = Len(loops) - 1
          /\ \A j \in 1..(Len(loops) - 1) : loops'[j] = loops[j]
      BY <1>0, <2>1, LoopLeft
    <2>5. i \in 1..Len(loops) /\ i # Len(loops) /\ loops'[i] = loops[i]
      BY <1>i, <1>l, <2>1, <2>4
    <2>6. loops[i].waits \in Prompts =>
             loops[i].of \in Addresses /\ windows'[loops[i].of] = windows[loops[i].of]
      BY <2>3, <2>5, NullAssumption DEF PromptInv
    <2>7. Was
      BY <1>g, <1>l, <2>1, <2>5, <2>6, Zenon DEF Was, Stranded, HasWindow
    <2> QED
      BY <1>w, <2>7
  <1>15. CASE UNCHANGED vars
    <2>1. SameLoops /\ UNCHANGED <<loops, windows, mainWindow>>
      BY <1>15, <1>u, Zenon DEF vars
    <2> QED
      BY <1>k, <2>1, Zenon
  <1> QED
    BY <1>1, <1>2, <1>3, <1>4, <1>5, <1>6, <1>7, <1>8, <1>9, <1>10, <1>11, <1>12, <1>13, <1>14,
       <1>15
    DEF Next, Handler, Continue

\* A prompt that has its window keeps it until it is answered, unless the window
\* manager closes that window, or All Players Connected is pressed, in a room
\* left over, in the prompt's own loop.
THEOREM WindowsPromptKeepsWindow == Spec => PromptKeepsWindow
  <1>1. Init => PromptInv
    <2> SUFFICES ASSUME Init PROVE PromptInv
      OBVIOUS
    <2>1. Len(loops) = 1 /\ loops[1].waits = "mainMenu" /\ activeRoom = Null
      BY DEF Init, Loop
    <2> QED
      BY <2>1 DEF PromptInv, Prompts
  <1>2. Spec => []PromptInv
    BY <1>1, PromptStep, WindowsInvariant, PTL DEF Spec
  <1>3. IInv /\ PromptInv /\ [Next]_vars =>
           [\A i \in DOMAIN loops' :
              Stranded(i)' =>
                 \/ i \in DOMAIN loops /\ Stranded(i)
                 \/ i = 1 /\ CloseMainByWindowManager
                 \/ \E w \in Addresses :
                       \/ w = loops'[i].of /\ CloseByWindowManager(w)
                       \/ i = Len(loops) /\ PressAllPlayersConnected(w)]_vars
    BY LossStep, Zenon DEF TakesWindow
  <1> QED
    BY <1>2, <1>3, WindowsInvariant, PTL DEF Spec, PromptKeepsWindow

=============================================================================
