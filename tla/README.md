# Ready Player Pi: formal models

TLA+ models of the server, the client programs and the games of Ready Player
Pi, model-checked with TLC and, for the modules named below, proved with TLAPS.
Every definition that models code is listed in `PROJECT.json` ("map") with the
lines it stands for.

## 1. The system

| Part | State | Operations | Module |
|---|---|---|---|
| Lobby process (`ServerController`, `ServerSocket`) | `rooms_`, `hostPendingMap_`, open descriptors | select, accept, first command, `host_room`, `join_room`, `get_scoreboard`, `start_game` with fork, host disconnect | `Lobby` |
| Client programs before a game (`ClientController`, `ClientSocket`, prompts of `QtGui`) | where the program is, its code | connect, enter a code, pick a game, cancel, leave, read events | `Lobby` |
| Windows of a client program (`QtGui`, `BaseMenu`, `ClientController::run`) | event loops, open windows, `activeRoom_`, `hostGameRoom_`, `guestGameRoom_`, `mainWindow_`, `cancelRequested_` | prompts, handlers, deferred deletion, flow from one wait to the next | `Windows` |
| Scoreboard file (`Scoreboard.h`) | a file, its `.tmp`, locks | `writeScore`, `readScoreboard` | `ScoreEntries`, `ScoreboardSpec`, `Scoreboard` |
| Room process (`GameRoom`) | roles, game | assign roles, `game_start`, play, next round or end | `RoomSpec`; `RoomNet` with `GyroRoom`, `NoteRoom` |
| GyroPi (`GyroPiGame`, `GyroPiSession`) | `isRunning_`, the threads of room and clients | tilts, ticks, goal, EXIT, joins, Play Again | `GyroRoom` |
| Tilt, ball, course (`GyroscopeReader`, `Ball`, `BlackHole`, `Course`, `physicsLoop`) | hysteresis flags, position, `startTime_`, `score` | read a tilt, roll, fall, reach the goal | `BallCourse` |
| NotePi (`NotePiGame`, `NotePiSession`) | `attempt`, `solved`, where each program is | record, guess, judge, answer, game over | `NoteRoom` |
| Feedback (`SecretSequence`) | none | `evaluate`, `isSolved` | `SecretSequence` |
| Listening (`SampleProcessor`, `NoteDetector`, `SoundAnalyzer`, `NoteSequence`) | sample buffer, window of detections, silence flags | one block of samples, reset | `NoteListening` |

How they interact: a client opens one TCP connection to the lobby and keeps it.
When the host chooses a game, the lobby forks a room process, which inherits the
two descriptors, and closes its own copies; from then on room and clients
exchange newline-framed JSON. Rooms of all players and the lobby share one
scoreboard file per game, protected by `flock`. Inside a client program, the
controller's one thread runs a Qt event loop wherever it waits, and the handlers
of every open window run in it.

What is hard: the lobby is one thread that blocks in `select`, in `accept` and
in a read of the first command; a fork copies every descriptor; a room of GyroPi
has two threads and each of its clients three, with an atomic flag and joins
between them; what one round leaves unread in a socket is read by the next; a
scoreboard writer replaces the very inode it has locked; windows are deleted
behind the back of the code that points to them; processes may die at every
point, and a second write to a dead peer kills the writer.

What makes each part correct, in a sentence each:

* lobby: its two maps and its descriptors agree, a game begins for players who
  wait for it, every connection has one server, and a command stays unanswered only
  while the lobby waits for somebody's first one;
* windows: no pointer outlives its window, nothing in the program takes its window
  from a prompt but All Players Connected, and no game is entered on a connection
  that a cancel has closed (one that is cancelled later is played on all the same);
* scoreboard: it behaves as one atomic leaderboard that loses an entry only to
  better ones, and its calls return;
* room: rounds come one after the other, each deals the two roles once, and a
  player takes up each role it is dealt;
* GyroPi room: both players play the roles of this round, no thread of a round
  survives it, the end of a round reaches both, and sessions end;
* ball: it stays on the course and out of holes, and the score at the goal is
  the time played and every penalty;
* NotePi room: the two ends stay in step, a score counts the guesses, nobody
  waits for an answer for ever;
* listening and feedback: within a recording one sound is one note (`reset` lets a
  sound that is held across two recordings be a note of both), the note heard most
  wins, and the feedback is that of the rules.

## 2. The modules

**`ScoreEntries`** holds the pure part of the scoreboard: lines, sorting (any
order among equal scores, as `std::sort` allows), cutting to the capacity, rank.

**`ScoreboardSpec`** is the promise: entries are inserted in one step or lost
with the room that died; a read returns a published board.

**`Scoreboard`** is the code, one action per system call that another process
can observe (`OpenForUpdate`, `LockEx`, `Load`, `OpenTmp`, `Flush`, `Rename`,
`UnlockEx`; `OpenForRead`, `LockSh`, `ReadLines`, `Finish`). Paths name inodes,
descriptors keep them, locks belong to inodes. Faults: opens that fail, a
process killed at any call. `Atomic` is its refinement mapping to
`ScoreboardSpec`. An insertion takes place at the rename. A reader's answer is
fixed when it opens the file, because a published inode never changes.
`UpdatesAside` is the invariant behind that: whatever a writer does to the file, it
does to an inode that no path of a reader names. `flock` alone does not give it,
since its lock is on an inode that the rename takes away.

**`Lobby`** models the lobby process, the connections of the client programs up
to the game, and room processes as far as both see them: `game_start` to the
host, then to the guest, then the end. A connection stands for its descriptor
number. `lobbyFds` and `child[h].fds` say who holds a connection open, so the end
of a connection is seen only when every copy is closed. The faults are a failing
accept, a failing fork and clients that are killed. A code may be drawn again while its room is
open; `collided` remembers that it was.

**`Windows`** is one client program from its own side, over any number of
connections. `loops` is the stack of event loops: the wait of the controller's
thread first, then the prompts that handlers have opened in it. A handler runs
in whatever loop is innermost (`PressClose`, `PressAllPlayersConnected`, ...), an
answer reaches the loop that asked, and the controller goes on (`HostRoom`,
`GameChosen`, `Started`, ...) when the outermost loop returns. Windows have
addresses; a closed one keeps its address until a loop deletes it (`Destroyed`),
which runs its handler. `CloseByWindowManager` closes a window by its title bar or
Alt-F4: `BaseMenu` emits `mainWindowRequested` only from its own cross and overrides
no `closeEvent`, so that no loop is answered. As `Client.cpp:9` keeps the program
alive without windows, a prompt that has lost its window waits for ever; an action
property says what alone can do that to it. What the server says is open: every wait
may end with the event it waits for or with the end of the connection.

**`RoomSpec`** is what a room promises, whichever game is played: `Begin` deals
one performer's and one communicator's role, a player takes up its roles in the
order they were dealt (`Join`), leaves a session or quits, and the room ends.
**`RoomNet`** is what the detailed rooms of both games share: the queues between
room and clients, the writes of events with the effect of a closed socket
(`Send`), `awaitGameStart`, the prompt for another round, and the decision of
`GameRoom::run`. **`GyroRoom`** extends it with the main and physics threads of
`GyroPiGame` and the window, receiver and sender threads of `GyroPiSession`;
**`NoteRoom`** extends it with `NotePiGame::run` and `NotePiSession`. In both,
`Room` is the refinement mapping to `RoomSpec`: a role is due while its
`game_start` is unread in the player's queue.

**`BallCourse`** fills in what `GyroRoom` leaves open: from the angles that
the filter holds, over clamp and hysteresis, to the tilt that rolls the ball, and the
clock, the penalties and the score of `physicsLoop`. Lengths and tilts are whole
numbers. The branch of `read` for a tilt that is not finite is left out: the filter
adds up bounded numbers, and never gets there.

**`SecretSequence`** translates `evaluate` and, beside it, states the rules of
the game (`WordleFeedback`). **`NoteListening`** extends it with the microphone
loop: the period the device settles on, blocks, frames, silence, the window of
detections, the winner, and the guess that is sent and judged.

Abstractions that all of them share: a message is its name (and role or result),
never text; end of stream reads as "no message"; messages are neither lost nor
reordered, as TCP guarantees; the first write to a closed socket is accepted and
answered by a reset, the next one kills the writer (SIGPIPE is not handled
anywhere in the code). In `GyroRoom` a tick of the physics thread is one step:
the mutex it holds is shared only with the handling of a tilt, which touches
nothing the model keeps. `update` stands for the four events a session shows and
goes on after.

## 3. The runs

Deadlock checking is off where the system may stop: clients leave, rooms end, a
game is over, a program is quit.

| Run | Instance | What it shows |
|---|---|---|
| `scoreboard_alone` | 1 room, the lobby as reader, 2 scores, capacity 3, all faults | `AtomicSpec` (refinement), `LostOnlyToBetter`, `OwnScoreRanked`, `UpdatesAside`, `CallsReturn` |
| `scoreboard_lost` | 2 rooms | **violated**: two games that end together lose one entry |
| `lobby_rooms` | 4 connections, 3 codes that may collide, failing accepts and forks, crashes | `RoomsMatchHosts`, `PlayersAreWaiting`, `OneServerPerPlayer` |
| `lobby_answers` | 3 connections, 3 codes, users who may never answer | `UnansweredOnlyBehindUser` |
| `lobby_isolation` | 2 players | **violated**: the end of a room ends the lobby |
| `windows` | 4 windows at once, 3 loops inside each other | `NoDanglingPointer`, `PromptKeepsWindow`, `GameEnteredConnected` |
| `windows_selected` | 3 windows at once | **violated**: the game selected too early is forgotten |
| `gyro_rounds` | one room, exits by both, crashes, fair threads | `RolesAgree`, `StartNotSwallowed`, `NoTickBetweenRounds`, `EndIsTold`, `SessionsEnd`, `RoomPromise` (refinement) |
| `gyro_play_again` | no exits, no crashes | **violated**: Play Again ends the room |
| `ball_course` | 10 by 7 places, 3 holes, 7 angles per axis | `FinalScore`, `BallOutsideHoles`, `ScoreNeverDrops`, `TiltIsSteady` |
| `note_rounds` | one room, failing microphones, crashes | `ExpectedEvents`, `ScoreCountsGuesses`, `OnlyTheMuteBlock`, `GuessAnswered`, `CommunicatorReleased`, `RoomPromise` (refinement) |
| `note_listening` | frame 4, hop 2, period 2 or 3, window 4, 3 notes, 4 keys | `BufferBounded`, `OneNotePerSound`, `SilenceForgets`, `WinnerHeardMost`, `FeedbackIsWordle` |

Every module's type invariant is checked too, in its first run. `RoomsMatchHosts`,
and what `PlayersAreWaiting` says of the host, hold until a code is drawn twice
(`collided`); a collision really mixes rooms up, but `OneServerPerPlayer` survives it.

The bounds and why they are enough:

* `Capacity` 3 with 2 scores fills the board and makes it drop entries, equal and
  worse ones; `Inodes` 1..8 is more than paths and descriptors can name at once.
* Four connections let two rooms form, a second guest enter a code that is taken,
  and a host come back while another waits; three codes keep a wrong or outdated
  code possible for two rooms. Connections and codes are interchangeable, so the
  safety runs use symmetry; the liveness run does not.
* Four windows are the two that one connection may have open, one left over from
  an earlier connection and one closed and not yet deleted; three loops let a
  handler prompt inside a prompt that a handler opened. Addresses are
  interchangeable.
* `MaxQueue` caps the unread tilts and updates per direction. They are sent every
  33 ms and one is like another; with one, a leftover of either kind can still
  meet every other message. `MaxBehind` keeps a host from asking for more rounds
  while the guest's program has that many messages unread; without it the queues
  of a guest that stands still would grow for ever. `MaxAttempts` makes the third
  guess of a round the right one. These three limit the users, not the programs.
* `MaxClock` 4 and `MaxHits` 3 of `ball_course` are enough for several penalties
  with and without a second between them; the proofs need no such bound. The
  course is small, but its holes overlap the walls and each other's edges as
  little as those of `Course.h`, and `Speed` 1 crosses it place by place.
* `note_listening` keeps the proportions of the sizes (a hop shorter than a frame, a
  period as long as the hop) and adds a period one sample longer, since nothing
  compares the one that ALSA negotiates with the hop. `MaxBuffered` 7 ends a run of
  blocks that the longer period makes grow without end, nearly two frames late. With
  the period asked for it is never met. Three notes over three names have repeated,
  misplaced and absent notes, and two keys share a name.

Fairness: `Scoreboard` assumes that a process that can take its next system call
takes it (weak fairness per process, so nothing about who gets a lock first).
`Lobby` assumes it of the lobby, of each room's start, and of each client's reads; no
user has to answer a prompt and no room has to end. So `UnansweredOnlyBehindUser` names
the case in which a command stays unanswered: the lobby is in the blocking read of
a guest's first command, whose user never types a code (`LobbyAwaitsUser`). Its other
exception, `RoomInherited`, is a lobby that has exited while a room holds an inherited
copy of the connection; that takes two rooms, one of which ends and takes the lobby
with it, and a host who asks: five connections, more than the run has. `GyroRoom` and `NoteRoom` assume weak fairness of every
thread. Nowhere has a user to press a button or a client to die. All of it is what
the operating system's scheduler gives; weak fairness suffices everywhere.

### What the violated runs show

* `scoreboard_lost`: room A holds the lock of inode 1 and B waits for it. A
  renames its file over the path and unlocks. B now has the lock of inode 1, which
  no path names, reads the old lines there, and renames a file without A's entry
  over A's.
* `lobby_isolation`: a game ends while the lobby is blocked in `select`. SIGCHLD
  interrupts it, and `SA_RESTART` does not restart `select`; `waitForActivity`
  reports failure and `run` leaves its loop.
* `gyro_play_again`: the host was the performer and sent a tilt just before it
  read `game_over`. `GameRoom::run` reads that tilt instead of the `start_game`
  that follows it and ends the room.
* `windows_selected`: the host presses All Players Connected before the guest has
  joined and selects a game in the window that opens. That choice only reaches the
  status line; when the guest joins, `hostFlow` asks for a game again.

Behaviours the models have for which no document says otherwise are listed as
hazards with a note: a guest without a microphone leaves a NotePi room in which
everyone waits (and `OnlyTheMuteBlock` shows that nothing else does), a start_game
read by a select loop that has not yet seen the end of the game is dropped, a guest
whose partner the host has left is never told, a program ends when the server goes
before its first answer, a window may stay open on the screen after its room, a
prompt whose window the window manager has closed waits for ever, a cancel in a game
or at its role screen leaves the game running on a closed socket, a second guest takes
the place of the first, and a tick after EXIT may still end the game.

## 4. What is proved

The proofs hold for every value of the constants that the named `ASSUME`s allow.

* **`ScoreboardProofs`**: first the lemmas about `ScoreEntries`: `InsertedType`, and
  `InsertedLosesOnlyToBetter`, the heart of the leaderboard: after appending, sorting
  and cutting, an entry is missing only if the list is full of entries that are no
  worse. It rests on `SortedKeeps` (a permutation loses nothing) and on the order of a
  sorted list.
  Then, for any number of rooms, readers and inodes and with every fault, `TypeOK`. It
  is inductive with `Descriptors`, which says what descriptors are open at each call
  (`IInv`).
  With a single room (`OneRoom`, any number of readers) more holds, and the violated
  run `scoreboard_lost` shows that two rooms are too many for it. `AloneInv` says
  that an inode without a name is empty (`Cleared`), that nobody but the writer has
  the temporary file open, which is never the scoreboard (`Apart`), that a process
  forgets with its rank what it has read (`Views`), and that what the writer is about
  to publish is the published file with its own entry inserted (`Writer`).
  `ScoreboardAlone` proves it. `ScoreboardUpdatesAside` follows from it, and
  step by step `ScoreboardImplementsAtomic`, the refinement: `rename` is
  the atomic insertion, every other call stutters or is a read. What the atomic leaderboard
  keeps, the file then keeps: `AtomicTypeOK` and `AtomicLostOnlyToBetter` hold with any
  number of rooms, and `ScoreboardLostOnlyToBetter` follows with the refinement.
  `ScoreboardOwnScoreRanked` adds the rank that is looked up after the save.
* **`LobbyProofs`**: for any number of connections and codes, with collisions,
  failing forks and crashes, `TypeOK` and `OneServerPerPlayer`. The latter is not
  inductive: that a fork takes two connections nobody else serves needs a history
  of every connection. `ServerInv` gives each connection one of three stages, which
  it passes only forwards: `Fresh` (in the backlog or just accepted), `Listed` (in a
  room of the lobby or as a pending host), `Played` (a player of a room process).
  `PartsApart` and `Arrivals` keep the stages apart, `OneRoom` lists a connection in
  at most one room and in one part of it, `OneGame` is the property itself. The
  proof has a lemma per group of actions and conjunct.
  `RoomsMatchHosts` says something only until a code is drawn twice (`~collided`). It
  is inductive with `CurrentOpen`: the connection whose command is awaited is open
  (`MapsInv`). `PlayersAreWaiting` relates a player's program to what the lobby
  believes of it, over the messages under way. `WaitInv` follows a connection from
  silence (`Unheard`, `PendingKnown`, `Asked`) through the events its host
  (`QuietInv`) and its guest (`InvitedInv`) have not read yet to the fork (`ForkedInv`).
* **`GyroRoomProofs`**: `TypeOK`, whose last conjunct says that the threads of a
  session end with it, and `NoTickBetweenRounds`, for every length of the queues,
  whoever exits or dies. The two are inductive together: only `StartPhysics` starts
  a physics thread, `Join` leaves the round only when the thread has ended, and the
  end of the process stops it.
  `RolesAgree`, `StartNotSwallowed` and `EndIsTold` are about what is still unread in
  the streams, whatever their lengths. `RoomOrdered` proves the invariant they need,
  `OrderInv`: no receiver of a session comes to a `game_start` before the end of its
  own round (`StartsInv`); once a round is over the end lies before everybody who
  could be told (`OverInv`); a host's request for a round is its last command, and
  the host plays only the newest round (`AskedInv`, `HostInv`); a host that is through
  with a round takes the guest out too: both have the same end unread, or the
  host's `exit_game` is (`ToldInv`); and the newest `game_start` before a player names
  the role it has in this round (`RoleInv`). Reading a stream is reasoned about with
  operators on sequences alone (`Reads`, `StartsKept`, `Newest`), whose lemmas say what
  an append and a tail do to them.
  `GyroRoomPromise` is the refinement of `RoomSpec`: the roles in the unread
  `game_start`s are those `RoomSpec` has dealt (`Due`), and a client's program counter
  is its place. It needs `OrderInv` twice: the host asks for a round only when it is out
  of the last (`AskedInv`), and a receiver of a session reads no `game_start`, which
  would lose a role without a `Join` (`StartsInv`). It also needs `ResetInv`: only the
  socket of a client that has gone answers with RST, so that the write which kills
  the room is `End`, if need be after the host was told of a round.
* **`NoteRoomProofs`**: `TypeOK`, `ExpectedEvents`, `ScoreCountsGuesses` and
  `OnlyTheMuteBlock`, for every number of attempts and however far the guest is
  behind, with failing microphones and killed programs. None is inductive: what a
  client may read next depends on all the events still on their way to it. `InStep`
  says that each unread event may come after the one before it, `Station` where the
  last event leaves each player while the room is at `main`, `Commanded` and
  `Counted` tie an unread guess to the attempt counter and to the performer's own
  count, `Tried` keeps a guess in hand for whoever records, and `Muted` is what
  remains of a player whose microphone has failed. `PlayerInv` is their conjunction
  for one player; a step of one client leaves it alone for the other
  (`PlayerMoves`). There is a lemma per action, and what the room sends is settled
  once, in `SentTo` and `Hears`, for the writes that are done and for those that
  kill it. `NoteRoomPromise` is the refinement of `RoomSpec`, from the same invariant
  and `ResetInv`: `InStep` says that a session never reads a `game_start`, so that every
  role leaves the stream by the step that takes it up.
* **`RoomNetProofs`**: what both refinements use of the streams. `RolesIn`, the roles
  in a queue's `game_start`s, is a recursive function; `EveryDeal` proves that one
  exists for every queue, by the least length without one (the induction theorems of
  the library take an operator, which the provers cannot instantiate; `Counting` is the
  same principle for a set of numbers). `RolesAppend` and `RolesTail` say what it gains
  and loses, `RolesSent`, `OtherSent`, `RoleRead` and `RolesLost` what a write, a read
  and a close do to the roles on their way.
* **`BallCourseProofs`**: all five properties of `BallCourse`, for every course,
  speed, penalty and pair of thresholds: `TiltInv` for the hysteresis (an axis
  is engaged exactly while its tilt is not 0, so that `Activate` decides how a tilt
  begins and `Release` how it ends, and the clamp hides neither), `BallInv` for the
  place of the ball, and `ScoreInv` for the score: `startTime_` is as far in the
  past as all penalties together, and the score of a finished game counts them all.
* **`NoteListeningProofs`**: `BufferBounded`, for every period the device may settle
  on: up to the hop the buffer stays shorter than a frame (`BufferInv`), with a longer
  one it may grow, by the excess of a block at most (`Lags`); `OneNotePerSound` and
  `SilenceForgets`, by `SoundInv`: while
  no silence is required no note has been given since the last silent frame.
  `TypeOK`, `WinnerHeardMost` and `FeedbackIsWordle` are about the two loops, `Winner`
  and `Evaluate`, recursive functions that have an outcome by `Looping`. The invariant of
  the first is `Leads`: after k detections no pitch has come more often than the
  leader, and one that has come as often came last after all of the leader's
  (`TurnLeads`). That of the second is `Judged`: the first i places have the feedback
  of the rules, and of every note as many places of the secret are used up as were
  missed so far, if it has as many (`TurnJudges`, by the cardinalities of the two
  sets of places). `EvaluateIsWordle` holds for lists of any two lengths, and
  `AnsweredInv` carries it to the states in which feedback is shown.
* **`WindowsProofs`**: `TypeOK`, `NoDanglingPointer`, `GameEnteredConnected` and
  `PromptKeepsWindow`. That no signal reaches a deleted window is not inductive: which
  windows are open depends on which event loops are nested. `LoopsInv` says that only the
  outermost loop may wait for anything but a game, `WindowsInv` and `FlagsInv` type
  the windows and the controller's flags, and `PointersInv` ties the pointers of
  `QtGUI` to the outermost loop: only a host that waits for its guest has a host's
  room, only a guest that waits for the game or is shown its role has a guest's.
  `WindowsInvariant` is their conjunction. The socket adds `ConnInv` (outside of the
  main menu there is a connection, or it has been cancelled), the prompts `PromptInv`
  (the cross of a prompt's window answers it, and `activeRoom_` names no prompt's
  window but the innermost one's, so that what closes `activeRoom_` strands no other).
  `LossStep` then goes through the actions for one that strands a prompt.

Only model-checked: all liveness (the prover does not handle fairness and
`ENABLED`), and the properties of the runs in which TLC finds a violation. Every
invariant, action property and refinement of a passing run is a theorem, the
conditional ones (`OneRoom` for three properties of the scoreboard) under the condition
that is named.

## 5. What is not modelled

* Floating-point arithmetic: filter, FFT and note scores (`NoteListening` leaves
  open what they say of a frame), the tables they use, and the integration of the
  gyroscope (`BallCourse` leaves its angles open).
* Devices: ALSA but for its period, the size of its blocks and its failure to start,
  SPI registers.
* In the scoreboard, results that nobody looks at, but for those of opens: a
  `fprintf` or `fclose` that fails on a full disk, and the stream that `fdopen` may
  not give (`Scoreboard.h:20-21`, `40-43`, `57-58`).
* The credentials file, read and written once at the start of a program.
* Layout and painting, and the windows of a session as Qt objects; among them the
  role screen, which the window manager may close as well.
* Malformed or unknown commands, which no client program sends.
* A room that changes its game between rounds: what a round leaves unread meets
  the next round of the same game only.

## 6. State of the plan

Done: the scoreboard with refinement and proofs; the lobby with its forks, signals
and descriptors, and its proof; rooms of both games with theirs, and the abstract room;
windows and event loops; ball, course and score; listening and feedback.

Left, in order of use: a room that plays GyroPi and NotePi by turns (leftover tilts
are judged as guesses); an abstract matchmaking specification implemented by `Lobby`.
