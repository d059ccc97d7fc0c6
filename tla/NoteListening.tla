---------------------------- MODULE NoteListening ---------------------------
(***************************************************************************)
(* How the performer's program hears a guess, and what the room answers:   *)
(* the microphone loop of NotePiSession::playAsPerformer, SampleProcessor, *)
(* NoteDetector and NoteSequence under src/ClientApp/NotePi, and           *)
(* SecretSequence on the server.  What a frame sounds like to the filter,  *)
(* the spectrum and the scores of the notes is left open: it is silent, or *)
(* one pitch dominates it, or none does.                                   *)
(***************************************************************************)
EXTENDS SecretSequence, Functions

CONSTANTS
    Frame,    \* FRAME_SIZE, samples that are analysed at a time
    Hop,      \* HOP_SIZE, samples that are dropped after a frame
    Periods,  \* the block sizes a device may settle on, 256 being asked for
    MaxBuffered,  \* bound: the longest buffer that is looked at
    Window,   \* RECENT_DETECTIONS_SIZE
    Length,   \* SEQUENCE_LENGTH
    Pitches,  \* the notes of the piano
    NameOf    \* NameOf[p]: the name of pitch p, without its octave

Names == {NameOf[p] : p \in Pitches}

ASSUME SizesAssumption ==
    /\ Frame \in Nat /\ Hop \in 1..Frame
    /\ Periods \in SUBSET Nat
ASSUME WindowAssumption == Window \in Nat \ {0}
ASSUME LengthAssumption == Length \in Nat \ {0}

VARIABLES
    phase,      \* where playAsPerformer is
    period,     \* blockSizeFrames_, what the device has settled on
    buffered,   \* the length of SampleProcessor's buffer_
    recent,     \* recentDetections_, as pitches
    silence,    \* silenceDetected_
    require,    \* requireSilenceBeforeNext_
    notes,      \* the NoteSequence that is recorded
    secret,     \* the room's secret sequence
    guess,      \* the notes sent last
    feedback,   \* the feedback they were given
    sounded     \* history: notes recorded since the last silent frame

detector == <<recent, silence, require>>
answered == <<secret, guess, feedback>>
vars == <<phase, period, buffered, recent, silence, require, notes, secret, guess,
          feedback, sounded>>

\* Every variable has its type.
TypeOK ==
    /\ phase \in {"idle", "listening", "sent", "solved"}
    /\ period \in Periods
    /\ buffered \in Nat
    /\ recent \in Seq(Pitches) /\ Len(recent) < Window
    /\ silence \in BOOLEAN /\ require \in BOOLEAN
    /\ notes \in Seq(Names) /\ Len(notes) <= Length
    /\ secret \in [1..Length -> Names]
    /\ guess \in Seq(Names)
    /\ feedback \in Seq(NoteFeedback)
    /\ sounded \in Nat

\* NoteDetector::reset and SampleProcessor::reset, and their constructors.
Fresh ==
    /\ buffered' = 0
    /\ recent' = << >> /\ silence' = TRUE /\ require' = FALSE

Init ==
    /\ phase = "idle"
    /\ period \in Periods
    /\ buffered = 0
    /\ recent = << >> /\ silence = TRUE /\ require = FALSE
    /\ notes = << >>
    /\ secret \in [1..Length -> Names]
    /\ guess = << >> /\ feedback = << >>
    /\ sounded = 0

-----------------------------------------------------------------------------
(* The microphone thread. *)

\* The samples readBlock may return: none if the device had to be recovered, a
\* block of zeros after an overrun, never more than the period, which nothing
\* compares with the hop.
Blocks == {n \in 0..period : buffered + n <= MaxBuffered}

\* Mutant: the loop runs until the sequence is longer than a guess.
ListeningTooLong == phase = "listening" /\ Len(notes) <= Length

Listening == phase = "listening" /\ Len(notes) < Length

\* A block of n samples does not fill a frame.
NoFrame(n) ==
    /\ Listening
    /\ buffered + n < Frame
    /\ buffered' = buffered + n
    /\ UNCHANGED <<phase, period, detector, notes, answered, sounded>>

\* Mutant: what was buffered before the frame is kept.
FrameReadyNoHop(n) ==
    /\ Listening
    /\ buffered + n >= Frame
    /\ buffered' = buffered + n

\* A block of n samples fills a frame, which is handed to the detector.
FrameReady(n) ==
    /\ Listening
    /\ buffered + n >= Frame
    /\ buffered' = buffered + n - Hop

\* Mutant: what was detected before the silence still counts after it.
SilentFrameKeepsRecent(n) ==
    /\ FrameReady(n)
    /\ silence' = TRUE /\ require' = FALSE
    /\ sounded' = 0
    /\ UNCHANGED <<phase, period, recent, notes, answered>>

\* totalEnergy < MIN_ENERGY
SilentFrame(n) ==
    /\ FrameReady(n)
    /\ recent' = IF silence THEN recent ELSE << >>
    /\ silence' = TRUE /\ require' = FALSE
    /\ sounded' = 0
    /\ UNCHANGED <<phase, period, notes, answered>>

\* The sound has given its note already, or no pitch dominates the frame.
IgnoredFrame(n) ==
    /\ FrameReady(n)
    /\ UNCHANGED <<phase, period, detector, notes, answered, sounded>>

Times(s, pitch) == Cardinality({k \in DOMAIN s : s[k] = pitch})

\* Mutant: ties go to the pitch that reaches the count last (c >= winnerCount).
OvertakesLast(count, best) == count >= best

Overtakes(count, best) == count > best

\* One turn of the loop over recentDetections_: the pitch at k has come again.
Counted(s, leader, k) ==
    LET count == Times(SubSeq(s, 1, k), s[k])
    IN  IF Overtakes(count, leader.count) THEN [pitch |-> s[k], count |-> count] ELSE leader

\* The whole loop: the first pitch to reach the highest count.
Winner(s) ==
    LET leader[k \in 0..Len(s)] ==
            IF k = 0 THEN [pitch |-> s[1], count |-> 0] ELSE Counted(s, leader[k - 1], k)
    IN  leader[Len(s)].pitch

\* A pitch dominates a frame, and Window of them are not reached yet.
Detection(n, pitch) ==
    /\ FrameReady(n)
    /\ ~require
    /\ Len(recent) + 1 < Window
    /\ recent' = Append(recent, pitch)
    /\ silence' = FALSE
    /\ UNCHANGED <<phase, period, require, notes, answered, sounded>>

\* Mutant: the next note need not wait for a silence.
NoteRecordedAtOnce(n, pitch) ==
    /\ FrameReady(n)
    /\ ~require
    /\ Len(recent) + 1 >= Window
    /\ notes' = Append(notes, NameOf[Winner(Append(recent, pitch))])
    /\ recent' = << >> /\ silence' = FALSE
    /\ sounded' = sounded + 1
    /\ UNCHANGED <<phase, period, require, answered>>

\* They are: the winner's name goes to the sequence, and silence must follow.
NoteRecorded(n, pitch) ==
    /\ FrameReady(n)
    /\ ~require
    /\ Len(recent) + 1 >= Window
    /\ notes' = Append(notes, NameOf[Winner(Append(recent, pitch))])
    /\ recent' = << >> /\ silence' = FALSE /\ require' = TRUE
    /\ sounded' = sounded + 1
    /\ UNCHANGED <<phase, period, answered>>

-----------------------------------------------------------------------------
(* playAsPerformer and the room. *)

\* The record button.
Record ==
    /\ phase = "idle"
    /\ phase' = "listening"
    /\ guess' = << >> /\ feedback' = << >>
    /\ UNCHANGED <<period, buffered, detector, notes, secret, sounded>>

\* The sequence is full: it is sent, and analyzer and sequence are reset.
SendSequence ==
    /\ phase = "listening" /\ Len(notes) >= Length
    /\ phase' = "sent"
    /\ guess' = notes
    /\ notes' = << >>
    /\ sounded' = 0
    /\ Fresh
    /\ UNCHANGED <<period, secret, feedback>>

\* NotePiGame::run judges the guess, and the note_result is read.
Answer ==
    /\ phase = "sent"
    /\ feedback' = Evaluate(secret, guess)
    /\ phase' = IF IsSolved(secret, guess) THEN "solved" ELSE "idle"
    /\ UNCHANGED <<period, buffered, detector, notes, secret, guess, sounded>>

Next ==
    \/ \E n \in Blocks :
          \/ NoFrame(n) \/ SilentFrame(n) \/ IgnoredFrame(n)
          \/ \E pitch \in Pitches : Detection(n, pitch) \/ NoteRecorded(n, pitch)
    \/ Record \/ SendSequence \/ Answer

Spec == Init /\ [][Next]_vars

-----------------------------------------------------------------------------
(* Properties. *)

(***************************************************************************)
(* How far the notes may lag behind the microphone.  Nothing lags if the   *)
(* device settles on a period of at most a hop.  With a longer one, which  *)
(* nothing rules out, a block adds at most what it is longer than a hop:   *)
(* the lag grows with the time a recording takes, but none of it is left   *)
(* for the next one.                                                       *)
(***************************************************************************)
BufferBounded ==
    /\ [](period <= Hop => buffered < Frame)
    /\ [](phase # "listening" => buffered = 0)
    /\ [][buffered' < Frame \/ buffered' <= buffered + (period - Hop)]_vars

\* A sound that goes on gives one note, however long it is held: two notes of
\* a recording have a silent frame between them.
OneNotePerSound == sounded <= 1

\* After a silent frame nothing that was detected before it is left to count
\* towards a note, and a note may be recorded.
SilenceForgets == silence => recent = << >> /\ ~require

\* Whatever the next frame adds to the window, the pitch that names the note is
\* the one detected most often, and of several the one that got there first.
WinnerHeardMost ==
    \A pitch \in Pitches :
        LET heard == Append(recent, pitch)
            LastAt(p) == CHOOSE k \in DOMAIN heard :
                             heard[k] = p /\ \A j \in DOMAIN heard : heard[j] = p => j <= k
            winner == Winner(heard)
        IN  \A p \in Range(heard) \ {winner} :
                \/ Times(heard, p) < Times(heard, winner)
                \/ Times(heard, p) = Times(heard, winner) /\ LastAt(winner) < LastAt(p)

(***************************************************************************)
(* The two passes of evaluate give the feedback of the game's rules, the   *)
(* same note in two places included; and a guess is solved when and only   *)
(* when all of it is green, although isSolved compares the notes again.    *)
(***************************************************************************)
FeedbackIsWordle ==
    feedback # << >> =>
        /\ feedback = WordleFeedback(secret, guess)
        /\ phase = "solved" <=> \A i \in DOMAIN feedback : feedback[i] = "CORRECT"

=============================================================================
