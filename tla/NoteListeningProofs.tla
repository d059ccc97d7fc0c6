------------------------ MODULE NoteListeningProofs ------------------------
(***************************************************************************)
(* The listening pipeline for every frame, hop, period and window: only    *)
(* what the device makes lag lags, one sound gives one note, the note is   *)
(* the pitch that was heard most, and a guess of any length is judged by   *)
(* the rules of the game.                                                  *)
(***************************************************************************)
EXTENDS NoteListening, FiniteSetTheorems, WellFoundedInduction, TLAPS

\* What the sizes of frames, hops and periods decide: nothing lags unless the
\* period is longer than a hop, and no lag outlives a recording.
BufferInv ==
  /\ buffered \in Nat /\ period \in Nat
  /\ period <= Hop => buffered < Frame
  /\ phase # "listening" => buffered = 0

\* A block adds at most what it is longer than a hop, once there is a frame.
Lags == buffered' < Frame \/ buffered' <= buffered + (period - Hop)

\* An empty buffer lags behind nothing.
LEMMA BufferStarts == Init => BufferInv
  BY SizesAssumption DEF Init, BufferInv

\* One block, whatever comes of it: a frame is left to be heard only if it was
\* there before, or the period is longer than a hop.
LEMMA BlockKeepsBuffer ==
  ASSUME BufferInv, NEW n \in Blocks, phase = "listening", UNCHANGED <<phase, period>>,
         \/ buffered + n < Frame /\ buffered' = buffered + n
         \/ FrameReady(n)
  PROVE  BufferInv' /\ Lags
  <1>1. /\ Frame \in Nat /\ Hop \in Nat /\ Hop >= 1 /\ Hop <= Frame
        /\ n \in Nat /\ n <= period /\ period \in Nat /\ buffered \in Nat
    BY SizesAssumption DEF Blocks, BufferInv
  <1>2. CASE buffered + n < Frame /\ buffered' = buffered + n
    BY <1>1, <1>2 DEF BufferInv, Lags
  <1>3. CASE FrameReady(n)
    <2>1. buffered' = buffered + n - Hop /\ buffered + n >= Frame
      BY <1>3 DEF FrameReady
    <2>2. buffered' \in Nat /\ buffered' <= buffered + (period - Hop)
      BY <1>1, <2>1
    <2>3. period <= Hop => buffered' < Frame
      BY <1>1, <2>1 DEF BufferInv
    <2> QED
      BY <1>1, <2>2, <2>3 DEF BufferInv, Lags
  <1> QED
    BY <1>2, <1>3

\* No step of the performer's program lags by more than the device makes it.
LEMMA BufferStep == BufferInv /\ Next => BufferInv' /\ Lags
  <1> SUFFICES ASSUME BufferInv, Next PROVE BufferInv' /\ Lags
    OBVIOUS
  <1>0. 0 < Frame /\ Frame \in Nat
    BY SizesAssumption
  <1>1. ASSUME NEW n \in Blocks, NoFrame(n) PROVE BufferInv' /\ Lags
    BY <1>1, BlockKeepsBuffer DEF NoFrame, Listening
  <1>2. ASSUME NEW n \in Blocks, SilentFrame(n) PROVE BufferInv' /\ Lags
    BY <1>2, BlockKeepsBuffer DEF SilentFrame, FrameReady, Listening
  <1>3. ASSUME NEW n \in Blocks, IgnoredFrame(n) PROVE BufferInv' /\ Lags
    BY <1>3, BlockKeepsBuffer DEF IgnoredFrame, FrameReady, Listening
  <1>4. ASSUME NEW n \in Blocks, NEW pitch \in Pitches, Detection(n, pitch)
        PROVE  BufferInv' /\ Lags
    BY <1>4, BlockKeepsBuffer DEF Detection, FrameReady, Listening
  <1>5. ASSUME NEW n \in Blocks, NEW pitch \in Pitches, NoteRecorded(n, pitch)
        PROVE  BufferInv' /\ Lags
    BY <1>5, BlockKeepsBuffer DEF NoteRecorded, FrameReady, Listening
  <1>6. CASE Record
    BY <1>0, <1>6 DEF Record, BufferInv, Lags
  <1>7. CASE SendSequence
    BY <1>0, <1>7 DEF SendSequence, Fresh, BufferInv, Lags
  <1>8. CASE Answer
    BY <1>0, <1>8 DEF Answer, BufferInv, Lags
  <1> QED
    BY <1>1, <1>2, <1>3, <1>4, <1>5, <1>6, <1>7, <1>8 DEF Next

\* Whatever period the device settles on: nothing lags if it is at most a hop,
\* a longer one costs what it is longer with every block, and no lag is left
\* for the next recording.
THEOREM ListeningBufferBounded == Spec => BufferBounded
  <1>1. BufferInv => /\ period <= Hop => buffered < Frame
                     /\ phase # "listening" => buffered = 0
    BY DEF BufferInv
  <1>2. BufferInv /\ [Next]_vars => BufferInv'
    <2>1. BufferInv /\ UNCHANGED vars => BufferInv'
      BY DEF vars, BufferInv
    <2> QED
      BY <2>1, BufferStep
  <1>3. BufferInv /\ [Next]_vars =>
           [buffered' < Frame \/ buffered' <= buffered + (period - Hop)]_vars
    BY BufferStep DEF Lags
  <1> QED
    BY <1>1, <1>2, <1>3, BufferStarts, PTL DEF Spec, BufferBounded

-----------------------------------------------------------------------------

\* Why one sound gives one note: while no silence is required none has been
\* given since the last silent frame.
SoundInv ==
    /\ sounded \in {0, 1}
    /\ ~require => sounded = 0
    /\ SilenceForgets

\* It holds in silence.
LEMMA SoundStarts == Init => SoundInv
  BY DEF Init, SoundInv, SilenceForgets

\* Every step keeps silence, requirement and the notes of the sound in step.
LEMMA SoundStep == SoundInv /\ [Next]_vars => SoundInv'
  <1> SUFFICES ASSUME SoundInv, [Next]_vars PROVE SoundInv'
    OBVIOUS
  <1>1. ASSUME NEW n \in Blocks, NoFrame(n) PROVE SoundInv'
    BY <1>1 DEF NoFrame, detector, SoundInv, SilenceForgets
  <1>2. ASSUME NEW n \in Blocks, SilentFrame(n) PROVE SoundInv'
    BY <1>2 DEF SilentFrame, SoundInv, SilenceForgets
  <1>3. ASSUME NEW n \in Blocks, IgnoredFrame(n) PROVE SoundInv'
    BY <1>3 DEF IgnoredFrame, detector, SoundInv, SilenceForgets
  <1>4. ASSUME NEW n \in Blocks, NEW pitch \in Pitches, Detection(n, pitch)
        PROVE  SoundInv'
    BY <1>4 DEF Detection, SoundInv, SilenceForgets
  <1>5. ASSUME NEW n \in Blocks, NEW pitch \in Pitches, NoteRecorded(n, pitch)
        PROVE  SoundInv'
    <2>1. sounded = 0
      BY <1>5 DEF NoteRecorded, SoundInv
    <2>2. sounded' = 1
      BY <1>5, <2>1 DEF NoteRecorded
    <2> QED
      BY <1>5, <2>2 DEF NoteRecorded, SoundInv, SilenceForgets
  <1>6. CASE Record
    BY <1>6 DEF Record, detector, SoundInv, SilenceForgets
  <1>7. CASE SendSequence
    BY <1>7 DEF SendSequence, Fresh, SoundInv, SilenceForgets
  <1>8. CASE Answer
    BY <1>8 DEF Answer, detector, SoundInv, SilenceForgets
  <1>9. CASE UNCHANGED vars
    BY <1>9 DEF vars, SoundInv, SilenceForgets
  <1> QED
    BY <1>1, <1>2, <1>3, <1>4, <1>5, <1>6, <1>7, <1>8, <1>9 DEF Next

\* Two notes of a recording always have a silent frame between them.
THEOREM ListeningOneNotePerSound == Spec => []OneNotePerSound
  <1>1. SoundInv => OneNotePerSound
    BY DEF SoundInv, OneNotePerSound
  <1> QED
    BY <1>1, SoundStarts, SoundStep, PTL DEF Spec

\* Silence leaves nothing behind that would count towards the next note.
THEOREM ListeningSilenceForgets == Spec => []SilenceForgets
  <1>1. SoundInv => SilenceForgets
    BY DEF SoundInv
  <1> QED
    BY <1>1, SoundStarts, SoundStep, PTL DEF Spec

-----------------------------------------------------------------------------
(* Numbers, and the recursive definitions of the two loops.                  *)

\* Numbers have a least one among them.
LEMMA Least ==
  ASSUME NEW S \in SUBSET Nat, S # {}
  PROVE  \E n \in S : \A m \in S : n <= m
  <1> DEFINE R == OpToRel(<, Nat)
  <1>1. \A x, y \in Nat : x < y => <<x, y>> \in R
    BY Zenon DEF OpToRel
  <1>2. IsWellFoundedOn(R, Nat)
    BY Zenon, NatLessThanWellFounded
  <1> HIDE DEF R
  <1>3. PICK n \in S : \A m \in S : <<m, n>> \notin R
    BY <1>2, WFMin
  <1>4. \A m \in S : m \in Nat /\ n \in Nat /\ ~(m < n)
    BY <1>1, <1>3
  <1> QED
    BY <1>4

\* Every number can be counted to.
LEMMA Counting ==
  ASSUME NEW S \in SUBSET Nat, 0 \in S, \A n \in S : n + 1 \in S
  PROVE  \A n \in Nat : n \in S
  <1> SUFFICES ASSUME Nat \ S # {} PROVE FALSE
    OBVIOUS
  <1>1. PICK n \in Nat \ S : \A m \in Nat \ S : n <= m
    BY Least
  <1>2. n - 1 \in Nat /\ n - 1 \notin Nat \ S
    BY <1>1
  <1>3. (n - 1) + 1 \in S
    BY <1>2
  <1> QED
    BY <1>1, <1>3

\* f has the states of a loop of n turns.
Loop(f, T, n, base, turn) ==
  /\ f \in [0..n -> T]
  /\ f[0] = base
  /\ \A k \in 1..n : f[k] = turn[k][f[k - 1]]

\* A loop has an outcome, whatever a turn does.
LEMMA Looping ==
  ASSUME NEW T, NEW n \in Nat, NEW base \in T, NEW turn \in [1..n -> [T -> T]]
  PROVE  \E f : Loop(f, T, n, base, turn)
  <1> DEFINE Loops(m) == \E f : Loop(f, T, m, base, turn)
             S == {m \in Nat : m <= n => Loops(m)}
  <1>1. 0 \in S
    <2> DEFINE f == [k \in 0..0 |-> base]
    <2>1. Loop(f, T, 0, base, turn)
      BY DEF Loop
    <2> QED
      BY <2>1
  <1>2. ASSUME NEW m \in S PROVE m + 1 \in S
    <2> HIDE DEF Loops
    <2> SUFFICES ASSUME m + 1 <= n PROVE Loops(m + 1)
      OBVIOUS
    <2>1. m \in Nat /\ m <= n /\ m + 1 \in 1..n /\ Loops(m)
      OBVIOUS
    <2>2. PICK f : Loop(f, T, m, base, turn)
      BY <2>1, Zenon DEF Loops
    <2>3. turn[m + 1][f[m]] \in T
      BY <2>1, <2>2 DEF Loop
    <2> DEFINE last == turn[m + 1][f[m]]
               g == [k \in 0..(m + 1) |-> IF k = m + 1 THEN last ELSE f[k]]
    <2> HIDE DEF last
    <2>4. g \in [0..(m + 1) -> T] /\ g[0] = base
      BY <2>1, <2>2, <2>3 DEF last, Loop
    <2>5. ASSUME NEW k \in 1..(m + 1) PROVE g[k] = turn[k][g[k - 1]]
      <3>1. k - 1 \in 0..(m + 1) /\ k - 1 # m + 1 /\ k \in 0..(m + 1)
        BY <2>1
      <3>2. g[k - 1] = f[k - 1]
        BY <3>1
      <3>3. CASE k = m + 1
        <4>1. g[k] = last /\ k - 1 = m
          BY <2>1, <3>3
        <4> QED
          BY <3>2, <3>3, <4>1, Zenon DEF last
      <3>4. CASE k # m + 1
        <4>1. g[k] = f[k] /\ k \in 1..m
          BY <2>1, <3>4
        <4> HIDE DEF g
        <4> QED
          BY <2>2, <3>2, <4>1, Zenon DEF Loop
      <3> QED
        BY <3>3, <3>4
    <2> HIDE DEF g
    <2> QED
      BY <2>4, <2>5, Zenon DEF Loops, Loop
  <1>3. n \in S
    <2>1. S \in SUBSET Nat /\ \A m \in S : m + 1 \in S
      BY <1>2
    <2> HIDE DEF S
    <2> QED
      BY <1>1, <2>1, Counting
  <1> QED
    BY <1>3

-----------------------------------------------------------------------------
(* The pitch that names a note.                                              *)

\* How often p is among the first k of s.
Heard(s, k, p) == Cardinality({j \in 1..k : s[j] = p})

\* It is one more if p is there again.
LEMMA HeardNext ==
  ASSUME NEW s, NEW k \in Nat, NEW p
  PROVE  /\ Heard(s, k, p) \in Nat
         /\ Heard(s, 0, p) = 0
         /\ Heard(s, k + 1, p) = IF s[k + 1] = p THEN Heard(s, k, p) + 1 ELSE Heard(s, k, p)
  <1> DEFINE M(m) == {j \in 1..m : s[j] = p}
  <1>1. IsFiniteSet(M(k)) /\ Cardinality(M(k)) \in Nat
    <2>1. IsFiniteSet(1..k)
      BY FS_Interval
    <2>2. M(k) \in SUBSET (1..k)
      OBVIOUS
    <2> QED
      BY <2>1, <2>2, FS_Subset, FS_CardinalityType
  <1>2. M(0) = {}
    OBVIOUS
  <1>3. M(k + 1) = IF s[k + 1] = p THEN M(k) \cup {k + 1} ELSE M(k)
    OBVIOUS
  <1>4. k + 1 \notin M(k)
    OBVIOUS
  <1>5. /\ Heard(s, 0, p) = Cardinality(M(0)) /\ Heard(s, k, p) = Cardinality(M(k))
        /\ Heard(s, k + 1, p) = Cardinality(M(k + 1))
    BY Zenon DEF Heard
  <1> HIDE DEF M
  <1>6. Cardinality(M(0)) = 0
    BY <1>2, FS_EmptySet
  <1>7. Cardinality(M(k) \cup {k + 1}) = Cardinality(M(k)) + 1
    BY <1>1, <1>4, FS_AddElement
  <1> QED
    BY <1>1, <1>3, <1>5, <1>6, <1>7, Zenon

\* What has been heard more than no times is there.
LEMMA HeardSome ==
  ASSUME NEW s, NEW k \in Nat, NEW p, Heard(s, k, p) # 0
  PROVE  \E j \in 1..k : s[j] = p
  <1>1. {j \in 1..k : s[j] = p} # {}
    BY FS_EmptySet DEF Heard
  <1> QED
    BY <1>1

\* And the other way round.
LEMMA HeardOnce ==
  ASSUME NEW s, NEW k \in Nat, NEW i \in 1..k
  PROVE  Heard(s, k, s[i]) # 0
  <1> DEFINE M == {j \in 1..k : s[j] = s[i]}
  <1>1. M \in SUBSET (1..k) /\ i \in M
    OBVIOUS
  <1> HIDE DEF M
  <1>2. IsFiniteSet(M)
    <2>1. IsFiniteSet(1..k)
      BY FS_Interval
    <2> QED
      BY <1>1, <2>1, FS_Subset, Zenon
  <1>3. Cardinality(M) # 0
    BY <1>1, <1>2, FS_EmptySet, Zenon
  <1> QED
    BY <1>3, Zenon DEF Heard, M

\* Times of a prefix.
LEMMA TimesHeard ==
  ASSUME NEW s \in Seq(Pitches), NEW k \in 0..Len(s), NEW p
  PROVE  Times(SubSeq(s, 1, k), p) = Heard(s, k, p)
  <1>1. /\ DOMAIN SubSeq(s, 1, k) = 1..k
        /\ \A j \in 1..k : SubSeq(s, 1, k)[j] = s[j]
    OBVIOUS
  <1>2. {j \in DOMAIN SubSeq(s, 1, k) : SubSeq(s, 1, k)[j] = p} = {j \in 1..k : s[j] = p}
    BY <1>1
  <1> QED
    BY <1>2, Zenon DEF Times, Heard

Leaders == [pitch : Pitches, count : Nat]

\* l leads after k turns: no pitch has been heard more often, and one that has
\* been heard as often has come after all of the leader's.
Leads(s, l, k) ==
  /\ l.count = Heard(s, k, l.pitch)
  /\ \A i \in 1..k :
        s[i] # l.pitch =>
           \/ Heard(s, k, s[i]) < l.count
           \/ /\ Heard(s, k, s[i]) = l.count
              /\ \E last \in 1..k :
                    s[last] = s[i] /\ \A j \in 1..k : s[j] = l.pitch => j < last

\* One turn of the loop, with one more detection.
LEMMA TurnLeads ==
  ASSUME NEW s \in Seq(Pitches), NEW k \in Nat, k + 1 \in 1..Len(s), NEW l \in Leaders,
         Leads(s, l, k)
  PROVE  Leads(s, Counted(s, l, k + 1), k + 1)
  <1> DEFINE q == s[k + 1]
             c == Heard(s, k + 1, q)
  <1>1. q \in Pitches /\ l.pitch \in Pitches /\ l.count \in Nat
    BY DEF Leaders
  <1>2. \A p : /\ Heard(s, k, p) \in Nat
               /\ Heard(s, k + 1, p) = IF q = p THEN Heard(s, k, p) + 1 ELSE Heard(s, k, p)
    BY HeardNext
  <1>3. Counted(s, l, k + 1) = IF c > l.count THEN [pitch |-> q, count |-> c] ELSE l
    <2>1. Times(SubSeq(s, 1, k + 1), s[k + 1]) = c
      BY TimesHeard
    <2> QED
      BY <2>1, Zenon DEF Counted, Overtakes
  <1>4. \A i \in 1..k : Heard(s, k, s[i]) <= l.count
    <2> TAKE i \in 1..k
    <2>1. CASE s[i] = l.pitch
      BY <1>1, <2>1 DEF Leads
    <2>2. CASE s[i] # l.pitch
      <3>1. Heard(s, k, s[i]) < l.count \/ Heard(s, k, s[i]) = l.count
        BY <2>2, Zenon DEF Leads
      <3> QED
        BY <1>1, <1>2, <3>1
    <2> QED
      BY <2>1, <2>2
  <1>5. CASE c > l.count
    <2> DEFINE new == [pitch |-> q, count |-> c]
    <2>1. ASSUME NEW i \in 1..(k + 1), s[i] # q PROVE Heard(s, k + 1, s[i]) < c
      <3>1. i \in 1..k
        BY <2>1
      <3>2. Heard(s, k + 1, s[i]) = Heard(s, k, s[i])
        BY <1>2, <2>1, Zenon
      <3>3. Heard(s, k, s[i]) \in Nat /\ c \in Nat
        BY <1>2
      <3> HIDE DEF c
      <3> QED
        BY <1>1, <1>4, <1>5, <3>1, <3>2, <3>3
    <2>2. new.count = Heard(s, k + 1, new.pitch) /\ new.pitch = q /\ new.count = c
      OBVIOUS
    <2>3. Leads(s, new, k + 1)
      <3> HIDE DEF new, c, q
      <3> QED
        BY <2>1, <2>2 DEF Leads
    <2> QED
      BY <1>3, <1>5, <2>3, Zenon
  <1>6. CASE ~(c > l.count)
    <2>1. q # l.pitch
      <3> SUFFICES ASSUME q = l.pitch PROVE FALSE
        OBVIOUS
      <3>1. l.count = Heard(s, k, q)
        BY Zenon DEF Leads
      <3>2. c = Heard(s, k, q) + 1
        BY <1>2
      <3> HIDE DEF c, q
      <3> QED
        BY <1>1, <1>6, <3>1, <3>2
    <2>2. Heard(s, k + 1, l.pitch) = l.count
      <3>1. l.count = Heard(s, k, l.pitch)
        BY Zenon DEF Leads
      <3> QED
        BY <1>2, <2>1, <3>1, Zenon
    <2>3. ASSUME NEW i \in 1..(k + 1), s[i] # l.pitch
          PROVE  \/ Heard(s, k + 1, s[i]) < l.count
                 \/ /\ Heard(s, k + 1, s[i]) = l.count
                    /\ \E last \in 1..(k + 1) :
                          s[last] = s[i] /\ \A j \in 1..(k + 1) : s[j] = l.pitch => j < last
      <3>1. CASE s[i] = q
        <4>1. Heard(s, k + 1, s[i]) = c /\ c \in Nat
          BY <1>2, <3>1
        <4>2. \A j \in 1..(k + 1) : s[j] = l.pitch => j < k + 1
          BY <2>1
        <4>3. k + 1 \in 1..(k + 1) /\ s[k + 1] = s[i]
          BY <3>1
        <4>4. c < l.count \/ c = l.count
          <5> HIDE DEF c
          <5> QED
            BY <1>1, <1>6, <4>1
        <4> QED
          BY <4>1, <4>2, <4>3, <4>4, Zenon
      <3>2. CASE s[i] # q
        <4>1. i \in 1..k
          BY <3>2
        <4>2. Heard(s, k + 1, s[i]) = Heard(s, k, s[i])
          BY <1>2, <3>2, Zenon
        <4>3. \/ Heard(s, k, s[i]) < l.count
              \/ /\ Heard(s, k, s[i]) = l.count
                 /\ \E last \in 1..k :
                       s[last] = s[i] /\ \A j \in 1..k : s[j] = l.pitch => j < last
          BY <2>3, <4>1, Zenon DEF Leads
        <4>4. ASSUME NEW last \in 1..k, \A j \in 1..k : s[j] = l.pitch => j < last
              PROVE  last \in 1..(k + 1) /\ \A j \in 1..(k + 1) : s[j] = l.pitch => j < last
          BY <2>1, <4>4
        <4> QED
          BY <4>2, <4>3, <4>4, Zenon
      <3> QED
        BY <3>1, <3>2
    <2>4. Leads(s, l, k + 1)
      BY <2>2, <2>3, Zenon DEF Leads
    <2> QED
      BY <1>3, <1>6, <2>4, Zenon
  <1> QED
    BY <1>5, <1>6

\* The recursive definition in Winner.
IsLeader(h, s) ==
  h = [k \in 0..Len(s) |->
         IF k = 0 THEN [pitch |-> s[1], count |-> 0] ELSE Counted(s, h[k - 1], k)]

\* The loop over the window has an outcome.
LEMMA SomeLeader ==
  ASSUME NEW s \in Seq(Pitches), s # << >>
  PROVE  \E h : IsLeader(h, s) /\ h \in [0..Len(s) -> Leaders]
  <1> DEFINE n == Len(s)
             base == [pitch |-> s[1], count |-> 0]
             turn == [k \in 1..n |-> [l \in Leaders |-> Counted(s, l, k)]]
  <1>1. n \in Nat /\ s[1] \in Pitches
    OBVIOUS
  <1>2. base \in Leaders
    BY <1>1 DEF Leaders
  <1>3. turn \in [1..n -> [Leaders -> Leaders]]
    <2>1. ASSUME NEW k \in 1..n, NEW l \in Leaders PROVE Counted(s, l, k) \in Leaders
      <3>1. s[k] \in Pitches /\ k \in 0..Len(s) /\ k \in Nat
        OBVIOUS
      <3>2. Times(SubSeq(s, 1, k), s[k]) \in Nat
        BY <3>1, TimesHeard, HeardNext
      <3> QED
        BY <3>1, <3>2 DEF Counted, Leaders
    <2> QED
      BY <2>1
  <1> HIDE DEF base, turn, n
  <1>4. PICK f : Loop(f, Leaders, n, base, turn)
    BY <1>1, <1>2, <1>3, Looping, Zenon
  <1>5. ASSUME NEW k \in 0..n
        PROVE  f[k] = IF k = 0 THEN base ELSE Counted(s, f[k - 1], k)
    <2>1. CASE k = 0
      BY <1>4, <2>1, Zenon DEF Loop
    <2>2. CASE k # 0
      <3>1. k \in 1..n /\ k - 1 \in 0..n
        BY <1>1, <2>2
      <3>2. f[k - 1] \in Leaders /\ f[k] = turn[k][f[k - 1]]
        BY <1>4, <3>1 DEF Loop
      <3> QED
        BY <2>2, <3>1, <3>2, Zenon DEF turn
    <2> QED
      BY <2>1, <2>2
  <1>6. f = [k \in 0..n |-> IF k = 0 THEN base ELSE Counted(s, f[k - 1], k)]
    <2>1. f = [k \in 0..n |-> f[k]]
      BY <1>4, Zenon DEF Loop
    <2> QED
      BY <1>5, <2>1, Zenon
  <1> QED
    BY <1>4, <1>6, Zenon DEF IsLeader, Loop, base, n

\* The pitch that names a note leads after the last turn.
LEMMA WinnerLeads ==
  ASSUME NEW s \in Seq(Pitches), s # << >>
  PROVE  \E l \in Leaders : l.pitch = Winner(s) /\ Leads(s, l, Len(s))
  <1> DEFINE n == Len(s)
             h == CHOOSE f : IsLeader(f, s)
             S == {k \in Nat : k <= n => h[k] \in Leaders /\ Leads(s, h[k], k)}
  <1>1. Winner(s) = h[n].pitch
    BY Zenon DEF Winner, IsLeader
  <1>2. IsLeader(h, s)
    BY SomeLeader, Zenon
  <1> HIDE DEF h
  <1>3. n \in Nat /\ s[1] \in Pitches
    OBVIOUS
  <1>4. 0 \in S
    <2>1. h[0] = [pitch |-> s[1], count |-> 0]
      BY <1>2, <1>3 DEF IsLeader
    <2>2. h[0] \in Leaders /\ h[0].count = 0
      BY <1>3, <2>1 DEF Leaders
    <2>3. Leads(s, h[0], 0)
      BY <2>2, HeardNext DEF Leads
    <2> QED
      BY <2>2, <2>3
  <1>5. ASSUME NEW k \in S PROVE k + 1 \in S
    <2> SUFFICES ASSUME k + 1 <= n PROVE h[k + 1] \in Leaders /\ Leads(s, h[k + 1], k + 1)
      OBVIOUS
    <2>1. /\ k \in Nat /\ k + 1 \in 1..Len(s) /\ k + 1 \in 0..Len(s) /\ k + 1 # 0
          /\ (k + 1) - 1 = k
      OBVIOUS
    <2>2. h[k] \in Leaders /\ Leads(s, h[k], k)
      BY <1>3
    <2>3. h[k + 1] = Counted(s, h[k], k + 1)
      <3>1. h[k + 1] = Counted(s, h[(k + 1) - 1], k + 1)
        BY <1>2, <2>1 DEF IsLeader
      <3> QED
        BY <2>1, <3>1, Zenon
    <2>4. Leads(s, h[k + 1], k + 1)
      BY <2>1, <2>2, <2>3, TurnLeads
    <2>5. Counted(s, h[k], k + 1) \in Leaders
      <3>1. s[k + 1] \in Pitches
        BY <2>1
      <3>2. Times(SubSeq(s, 1, k + 1), s[k + 1]) \in Nat
        BY <2>1, TimesHeard, HeardNext
      <3> QED
        BY <2>2, <3>1, <3>2 DEF Counted, Leaders
    <2> QED
      BY <2>3, <2>4, <2>5
  <1>6. n \in S
    <2>1. S \in SUBSET Nat /\ \A k \in S : k + 1 \in S
      BY <1>5
    <2> HIDE DEF S
    <2> QED
      BY <1>3, <1>4, <2>1, Counting
  <1> QED
    BY <1>1, <1>3, <1>6

\* What has been heard at all was heard last at some time.
LEMMA SomeLast ==
  ASSUME NEW s \in Seq(Pitches), NEW p, \E i \in DOMAIN s : s[i] = p
  PROVE  \E k \in DOMAIN s : s[k] = p /\ \A j \in DOMAIN s : s[j] = p => j <= k
  <1> DEFINE S == {Len(s) - j : j \in {i \in DOMAIN s : s[i] = p}}
  <1>1. S \in SUBSET Nat /\ S # {}
    OBVIOUS
  <1>2. PICK n \in S : \A m \in S : n <= m
    BY <1>1, Least
  <1>3. PICK k \in DOMAIN s : s[k] = p /\ n = Len(s) - k
    OBVIOUS
  <1>4. ASSUME NEW j \in DOMAIN s, s[j] = p PROVE j <= k
    <2>1. Len(s) - j \in S
      BY <1>4
    <2>2. Len(s) - k <= Len(s) - j
      BY <1>2, <1>3, <2>1
    <2> QED
      BY <2>2
  <1> QED
    BY <1>3, <1>4

\* Whatever the window holds, its most frequent pitch is the one that is named.
LEMMA HeardMost == recent \in Seq(Pitches) => WinnerHeardMost
  <1> SUFFICES ASSUME recent \in Seq(Pitches) PROVE WinnerHeardMost
    OBVIOUS
  <1> SUFFICES
        ASSUME NEW pitch \in Pitches
        PROVE  LET heard == Append(recent, pitch)
                   LastAt(p) == CHOOSE k \in DOMAIN heard :
                                    heard[k] = p /\ \A j \in DOMAIN heard : heard[j] = p => j <= k
                   winner == Winner(heard)
               IN  \A p \in Range(heard) \ {winner} :
                       \/ Times(heard, p) < Times(heard, winner)
                       \/ Times(heard, p) = Times(heard, winner) /\ LastAt(winner) < LastAt(p)
    BY Zenon DEF WinnerHeardMost
  <1> DEFINE s == Append(recent, pitch)
             n == Len(s)
             LastAt(p) == CHOOSE k \in DOMAIN s :
                              s[k] = p /\ \A j \in DOMAIN s : s[j] = p => j <= k
             w == Winner(s)
  <1>1. s \in Seq(Pitches) /\ s # << >>
    <2>1. Append(recent, pitch) \in Seq(Pitches) /\ Len(Append(recent, pitch)) # 0
      OBVIOUS
    <2>2. Len(<< >>) = 0
      OBVIOUS
    <2> QED
      BY <2>1, <2>2, Zenon
  <1> HIDE DEF s
  <1>2. PICK l \in Leaders : l.pitch = w /\ Leads(s, l, n)
    BY <1>1, WinnerLeads
  <1>3. n \in Nat /\ n \in 0..Len(s) /\ DOMAIN s = 1..n /\ SubSeq(s, 1, n) = s
    BY <1>1
  <1>4. \A p : Times(s, p) = Heard(s, n, p) /\ Heard(s, n, p) \in Nat
    <2> TAKE p
    <2>1. Times(SubSeq(s, 1, n), p) = Heard(s, n, p)
      BY <1>1, <1>3, TimesHeard
    <2> QED
      BY <1>3, <2>1, HeardNext
  <1> HIDE DEF n, w
  <1> SUFFICES ASSUME NEW p \in Range(s) \ {w}
               PROVE  \/ Times(s, p) < Times(s, w)
                      \/ Times(s, p) = Times(s, w) /\ LastAt(w) < LastAt(p)
    BY Zenon DEF s, w
  <1>5. PICK i \in 1..n : s[i] = p
    BY <1>3 DEF Range
  <1>6. l.count = Times(s, w)
    BY <1>2, <1>4, Zenon DEF Leads
  <1>7. \/ Times(s, p) < Times(s, w)
        \/ /\ Times(s, p) = Times(s, w)
           /\ \E last \in 1..n : s[last] = p /\ \A j \in 1..n : s[j] = w => j < last
    BY <1>2, <1>4, <1>5, <1>6, Zenon DEF Leads
  <1>8. ASSUME Times(s, p) = Times(s, w), NEW last \in 1..n, s[last] = p,
               \A j \in 1..n : s[j] = w => j < last
        PROVE  LastAt(w) < LastAt(p)
    <2>1. LastAt(p) \in DOMAIN s /\ \A j \in DOMAIN s : s[j] = p => j <= LastAt(p)
      BY <1>1, <1>3, <1>5, SomeLast, Zenon
    <2>2. \E j \in DOMAIN s : s[j] = w
      <3>1. Heard(s, n, p) # 0
        BY <1>3, <1>5, HeardOnce, Zenon
      <3>2. Heard(s, n, w) # 0
        BY <1>4, <1>8, <3>1, Zenon
      <3>3. \E j \in 1..n : s[j] = w
        BY <1>3, <3>2, HeardSome, Zenon
      <3> QED
        BY <1>3, <3>3, Zenon
    <2>3. LastAt(w) \in DOMAIN s /\ s[LastAt(w)] = w
      BY <1>1, <2>2, SomeLast, Zenon
    <2> HIDE DEF LastAt
    <2>4. LastAt(w) < last /\ last <= LastAt(p)
      BY <1>3, <1>8, <2>1, <2>3
    <2> QED
      BY <1>3, <2>1, <2>3, <2>4
  <1> HIDE DEF LastAt
  <1> QED
    BY <1>7, <1>8, Zenon

-----------------------------------------------------------------------------
(* What a guess is told.                                                     *)

\* What the passes over the secret a and the guess b make.
Passes(a, b) ==
  [used : SUBSET Compared(a, b),
   feedback : [Compared(a, b) -> NoteFeedback]]

\* The recursive definition in Evaluate.
IsPass(h, a, b) ==
  h = [i \in 0..Size(a, b) |-> IF i = 0 THEN FirstPass(a, b) ELSE Place(a, b, h[i - 1], i)]

\* The places that are compared.
LEMMA SizeType ==
  ASSUME NEW S, NEW a \in Seq(S), NEW b \in Seq(S)
  PROVE  Size(a, b) \in Nat /\ Compared(a, b) = 1..Size(a, b) /\ IsFiniteSet(Compared(a, b))
  <1>1. Size(a, b) \in Nat
    BY DEF Size
  <1>2. IsFiniteSet(1..Size(a, b))
    BY <1>1, FS_Interval
  <1> QED
    BY <1>1, <1>2 DEF Compared

\* A turn of the second pass makes a pass of a pass.
LEMMA PlaceType ==
  ASSUME NEW S, NEW a \in Seq(S), NEW b \in Seq(S), NEW pass \in Passes(a, b),
         NEW i \in Compared(a, b)
  PROVE  /\ Place(a, b, pass, i) \in Passes(a, b)
         /\ FirstPass(a, b) \in Passes(a, b)
  <1> DEFINE P == Compared(a, b)
             free == {j \in P : j \notin pass.used /\ b[i] = a[j]}
             first == CHOOSE j \in free : \A k \in free : j <= k
  <1>1. pass.used \in SUBSET P /\ pass.feedback \in [P -> NoteFeedback]
    BY DEF Passes
  <1>2. free # {} => first \in P
    <2>1. free \in SUBSET Nat
      BY SizeType
    <2>2. free # {} => \E j \in free : \A k \in free : j <= k
      <3> HIDE DEF free
      <3> QED
        BY <2>1, Least
    <2>3. free # {} => first \in free
      <3> HIDE DEF free
      <3> QED
        BY <2>2, Zenon
    <2> QED
      BY <2>3
  <1>3. Place(a, b, pass, i) =
           IF pass.feedback[i] = "CORRECT" \/ free = {} THEN pass
           ELSE [used |-> pass.used \cup {first},
                 feedback |-> [pass.feedback EXCEPT ![i] = "WRONG_ORDER"]]
    BY Zenon DEF Place
  <1>4. FirstPass(a, b) \in Passes(a, b)
    BY DEF FirstPass, Passes, NoteFeedback
  <1> HIDE DEF free, first, P
  <1>5. free # {} => Place(a, b, pass, i) \in Passes(a, b)
    <2> SUFFICES ASSUME free # {} PROVE Place(a, b, pass, i) \in Passes(a, b)
      OBVIOUS
    <2>1. pass.used \cup {first} \in SUBSET P
      BY <1>1, <1>2
    <2>2. [pass.feedback EXCEPT ![i] = "WRONG_ORDER"] \in [P -> NoteFeedback]
      BY <1>1 DEF NoteFeedback
    <2>3. [used |-> pass.used \cup {first},
           feedback |-> [pass.feedback EXCEPT ![i] = "WRONG_ORDER"]] \in Passes(a, b)
      BY <2>1, <2>2 DEF Passes, P
    <2> QED
      BY <1>3, <2>3, Zenon
  <1> QED
    BY <1>3, <1>4, <1>5, Zenon

\* The loop of the second pass has an outcome.
LEMMA SomePass ==
  ASSUME NEW S, NEW a \in Seq(S), NEW b \in Seq(S)
  PROVE  \E h : IsPass(h, a, b)
  <1> DEFINE n == Size(a, b)
             T == Passes(a, b)
             base == FirstPass(a, b)
             turn == [i \in 1..n |-> [pass \in T |-> Place(a, b, pass, i)]]
  <1>1. n \in Nat /\ Compared(a, b) = 1..n
    BY SizeType
  <1>2. base \in T
    BY DEF FirstPass, Passes, NoteFeedback
  <1>3. turn \in [1..n -> [T -> T]]
    <2>1. ASSUME NEW i \in 1..n, NEW pass \in T PROVE Place(a, b, pass, i) \in T
      BY <1>1, PlaceType
    <2> HIDE DEF T
    <2> QED
      BY <2>1
  <1> HIDE DEF base, turn, n, T
  <1>4. PICK f : Loop(f, T, n, base, turn)
    BY <1>1, <1>2, <1>3, Looping, Zenon
  <1>5. ASSUME NEW k \in 0..n
        PROVE  f[k] = IF k = 0 THEN base ELSE Place(a, b, f[k - 1], k)
    <2>1. CASE k = 0
      BY <1>4, <2>1, Zenon DEF Loop
    <2>2. CASE k # 0
      <3>1. k \in 1..n /\ k - 1 \in 0..n
        BY <1>1, <2>2
      <3>2. f[k - 1] \in T /\ f[k] = turn[k][f[k - 1]]
        BY <1>4, <3>1 DEF Loop
      <3> QED
        BY <2>2, <3>1, <3>2, Zenon DEF turn
    <2> QED
      BY <2>1, <2>2
  <1>6. f = [k \in 0..n |-> IF k = 0 THEN base ELSE Place(a, b, f[k - 1], k)]
    <2>1. f = [k \in 0..n |-> f[k]]
      BY <1>4, Zenon DEF Loop
    <2> QED
      BY <1>5, <2>1, Zenon
  <1> QED
    BY <1>6, Zenon DEF IsPass, base, n

\* What the secret a has elsewhere of x, and what of it has been given away.
Spare(a, b, x) == Misplaced(b, a, x, Compared(a, b))
Given(a, b, x, pass) == {j \in Spare(a, b, x) : j \in pass.used}

\* How many of the first i places of the guess hold x where the secret does not.
Missed(a, b, x, i) == Cardinality(Misplaced(a, b, x, 1..i))

\* After i turns the first i places have their feedback, the others that of the
\* first pass, and of every note as many have been given away as were missed,
\* if there are as many.
Judged(a, b, pass, i) ==
  /\ \A j \in Compared(a, b) : a[j] = b[j] => j \in pass.used /\ pass.feedback[j] = "CORRECT"
  /\ \A j \in Compared(a, b) : a[j] # b[j] /\ j > i => pass.feedback[j] = "WRONG_PITCH"
  /\ \A j \in 1..i : pass.feedback[j] = WordleFeedback(a, b)[j]
  /\ \A x : Cardinality(Given(a, b, x, pass)) =
               IF Missed(a, b, x, i) < Cardinality(Spare(a, b, x))
               THEN Missed(a, b, x, i) ELSE Cardinality(Spare(a, b, x))

\* Sets of places of the secret are finite.
LEMMA SpareFacts ==
  ASSUME NEW S, NEW a \in Seq(S), NEW b \in Seq(S), NEW x, NEW pass
  PROVE  /\ IsFiniteSet(Spare(a, b, x)) /\ Cardinality(Spare(a, b, x)) \in Nat
         /\ IsFiniteSet(Given(a, b, x, pass)) /\ Cardinality(Given(a, b, x, pass)) \in Nat
         /\ Cardinality(Given(a, b, x, pass)) <= Cardinality(Spare(a, b, x))
         /\ Cardinality(Given(a, b, x, pass)) = Cardinality(Spare(a, b, x)) =>
               Given(a, b, x, pass) = Spare(a, b, x)
  <1>1. Spare(a, b, x) \in SUBSET Compared(a, b)
    BY DEF Spare, Misplaced
  <1>2. Given(a, b, x, pass) \in SUBSET Spare(a, b, x)
    BY DEF Given
  <1>3. IsFiniteSet(Compared(a, b))
    BY SizeType
  <1>4. IsFiniteSet(Spare(a, b, x))
    BY <1>1, <1>3, FS_Subset, Zenon
  <1> QED
    BY <1>2, <1>4, FS_Subset, FS_CardinalityType

\* One more place is missed if it holds x and the secret does not.
LEMMA MissedNext ==
  ASSUME NEW a, NEW b, NEW i \in Nat, NEW x
  PROVE  /\ Missed(a, b, x, i) \in Nat
         /\ Missed(a, b, x, 0) = 0
         /\ Missed(a, b, x, i + 1) = IF b[i + 1] = x /\ a[i + 1] # x
                                     THEN Missed(a, b, x, i) + 1 ELSE Missed(a, b, x, i)
  <1> DEFINE M(k) == Misplaced(a, b, x, 1..k)
  <1>1. IsFiniteSet(M(i)) /\ Cardinality(M(i)) \in Nat
    <2>1. IsFiniteSet(1..i)
      BY FS_Interval
    <2>2. M(i) \in SUBSET (1..i)
      BY DEF Misplaced
    <2> QED
      BY <2>1, <2>2, FS_Subset, FS_CardinalityType
  <1>2. M(0) = {}
    BY DEF Misplaced
  <1>3. M(i + 1) = IF b[i + 1] = x /\ a[i + 1] # x THEN M(i) \cup {i + 1} ELSE M(i)
    BY DEF Misplaced
  <1>4. i + 1 \notin M(i)
    BY DEF Misplaced
  <1>5. /\ Missed(a, b, x, 0) = Cardinality(M(0)) /\ Missed(a, b, x, i) = Cardinality(M(i))
        /\ Missed(a, b, x, i + 1) = Cardinality(M(i + 1))
    BY Zenon DEF Missed
  <1> HIDE DEF M
  <1>6. Cardinality(M(0)) = 0
    BY <1>2, FS_EmptySet
  <1>7. Cardinality(M(i) \cup {i + 1}) = Cardinality(M(i)) + 1
    BY <1>1, <1>4, FS_AddElement
  <1> QED
    BY <1>1, <1>3, <1>5, <1>6, <1>7, Zenon

\* After the first pass nothing has been given away.
LEMMA FirstJudged ==
  ASSUME NEW S, NEW a \in Seq(S), NEW b \in Seq(S)
  PROVE  Judged(a, b, FirstPass(a, b), 0)
  <1> DEFINE pass == FirstPass(a, b)
             P == Compared(a, b)
  <1>1. /\ pass.used = {j \in P : b[j] = a[j]}
        /\ \A j \in P : pass.feedback[j] = IF b[j] = a[j] THEN "CORRECT" ELSE "WRONG_PITCH"
    BY DEF FirstPass
  <1> HIDE DEF pass
  <1>2. \A x : Given(a, b, x, pass) = {}
    BY <1>1 DEF Given, Spare, Misplaced
  <1>3. \A x : Cardinality(Given(a, b, x, pass)) = 0 /\ Missed(a, b, x, 0) = 0
    BY <1>2, FS_EmptySet, MissedNext
  <1>4. \A x : Cardinality(Spare(a, b, x)) \in Nat
    BY SpareFacts
  <1>5. \A j \in P : a[j] = b[j] => j \in pass.used /\ pass.feedback[j] = "CORRECT"
    BY <1>1
  <1>6. \A j \in P : a[j] # b[j] /\ j > 0 => pass.feedback[j] = "WRONG_PITCH"
    BY <1>1
  <1>7. \A x : Cardinality(Given(a, b, x, pass)) =
                  IF Missed(a, b, x, 0) < Cardinality(Spare(a, b, x))
                  THEN Missed(a, b, x, 0) ELSE Cardinality(Spare(a, b, x))
    BY <1>3, <1>4
  <1> HIDE DEF P
  <1>8. \A j \in 1..0 : pass.feedback[j] = WordleFeedback(a, b)[j]
    OBVIOUS
  <1> QED
    BY <1>5, <1>6, <1>7, <1>8, Zenon DEF Judged, P, pass

\* A turn of the second pass judges one more place.
LEMMA TurnJudges ==
  ASSUME NEW S, NEW a \in Seq(S), NEW b \in Seq(S), NEW pass \in Passes(a, b),
         NEW i \in Nat, i + 1 \in Compared(a, b), Judged(a, b, pass, i)
  PROVE  Judged(a, b, Place(a, b, pass, i + 1), i + 1)
  <1> DEFINE P == Compared(a, b)
             x == b[i + 1]
             free == {j \in P : j \notin pass.used /\ b[i + 1] = a[j]}
             first == CHOOSE j \in free : \A k \in free : j <= k
             new == Place(a, b, pass, i + 1)
             M == Missed(a, b, x, i)
             F == Cardinality(Spare(a, b, x))
             G == Cardinality(Given(a, b, x, pass))
  <1>1. new = IF pass.feedback[i + 1] = "CORRECT" \/ free = {} THEN pass
              ELSE [used |-> pass.used \cup {first},
                    feedback |-> [pass.feedback EXCEPT ![i + 1] = "WRONG_ORDER"]]
    BY Zenon DEF Place
  <1>2. /\ \A j \in P : a[j] = b[j] => j \in pass.used /\ pass.feedback[j] = "CORRECT"
        /\ \A j \in P : a[j] # b[j] /\ j > i => pass.feedback[j] = "WRONG_PITCH"
        /\ \A j \in 1..i : pass.feedback[j] = WordleFeedback(a, b)[j]
        /\ \A y : Cardinality(Given(a, b, y, pass)) =
                     IF Missed(a, b, y, i) < Cardinality(Spare(a, b, y))
                     THEN Missed(a, b, y, i) ELSE Cardinality(Spare(a, b, y))
    BY Zenon DEF Judged
  <1>3. i + 1 \in P /\ i + 1 > i /\ P \subseteq Nat
    BY SizeType
  <1>4. WordleFeedback(a, b)[i + 1] =
           IF b[i + 1] = a[i + 1] THEN "CORRECT"
           ELSE IF M < F THEN "WRONG_ORDER" ELSE "WRONG_PITCH"
    <2>1. (i + 1) - 1 = i
      OBVIOUS
    <2> QED
      BY <1>3, <2>1 DEF WordleFeedback, Missed, Spare
  <1>5. \A y : Missed(a, b, y, i + 1) = IF x = y /\ a[i + 1] # y
                                        THEN Missed(a, b, y, i) + 1 ELSE Missed(a, b, y, i)
    BY MissedNext
  <1>6. M \in Nat /\ F \in Nat /\ G \in Nat /\ G <= F
    BY MissedNext, SpareFacts
  <1>7. G = IF M < F THEN M ELSE F
    BY <1>2, Zenon
  <1>8. free = Spare(a, b, x) \ Given(a, b, x, pass)
    BY <1>2 DEF Spare, Given, Misplaced
  <1>9. Given(a, b, x, pass) \subseteq Spare(a, b, x)
    BY DEF Given
  <1>10. \A j \in 1..(i + 1) : j \in 1..i \/ j = i + 1
    OBVIOUS
  <1>11. \A j \in P : j > i + 1 => j > i
    BY <1>3
  <1>12. CASE a[i + 1] = b[i + 1]
    <2>1. new = pass /\ pass.feedback[i + 1] = "CORRECT"
      BY <1>1, <1>2, <1>3, <1>12, Zenon
    <2>2. \A y : Missed(a, b, y, i + 1) = Missed(a, b, y, i)
      BY <1>5, <1>12, Zenon
    <2>3. \A j \in 1..(i + 1) : pass.feedback[j] = WordleFeedback(a, b)[j]
      BY <1>2, <1>4, <1>10, <1>12, <2>1, Zenon
    <2> HIDE DEF new, P
    <2>4. Judged(a, b, pass, i + 1)
      BY <1>2, <1>11, <2>2, <2>3, Zenon DEF Judged, P
    <2> QED
      BY <2>1, <2>4, Zenon DEF new
  <1>13. CASE a[i + 1] # b[i + 1] /\ free = {}
    <2>1. new = pass /\ pass.feedback[i + 1] = "WRONG_PITCH"
      BY <1>1, <1>2, <1>3, <1>13, Zenon
    <2>2. G = F /\ ~(M < F)
      <3>1. Given(a, b, x, pass) = Spare(a, b, x)
        BY <1>8, <1>9, <1>13
      <3>2. G = F
        BY <3>1, Zenon
      <3> HIDE DEF G, F, M
      <3> QED
        BY <1>6, <1>7, <3>2
    <2>3. \A j \in 1..(i + 1) : pass.feedback[j] = WordleFeedback(a, b)[j]
      BY <1>2, <1>4, <1>10, <1>13, <2>1, <2>2, Zenon
    <2>4. ASSUME NEW y
          PROVE  Cardinality(Given(a, b, y, pass)) =
                    IF Missed(a, b, y, i + 1) < Cardinality(Spare(a, b, y))
                    THEN Missed(a, b, y, i + 1) ELSE Cardinality(Spare(a, b, y))
      <3>1. CASE y = x
        <4>1. Missed(a, b, y, i + 1) = M + 1
          BY <1>5, <1>13, <3>1, Zenon
        <4>2. Cardinality(Given(a, b, y, pass)) = G /\ Cardinality(Spare(a, b, y)) = F
          BY <3>1, Zenon
        <4> HIDE DEF M, F, G, x
        <4> QED
          BY <1>6, <2>2, <4>1, <4>2
      <3>2. CASE y # x
        BY <1>2, <1>5, <3>2, Zenon
      <3> QED
        BY <3>1, <3>2
    <2> HIDE DEF new, P
    <2>5. Judged(a, b, pass, i + 1)
      BY <1>2, <1>11, <2>3, <2>4, Zenon DEF Judged, P
    <2> QED
      BY <2>1, <2>5, Zenon DEF new
  <1>14. CASE a[i + 1] # b[i + 1] /\ free # {}
    <2>1. first \in free
      <3>1. free \in SUBSET Nat
        BY <1>3
      <3> HIDE DEF free
      <3>2. \E j \in free : \A k \in free : j <= k
        BY <1>14, <3>1, Least
      <3> QED
        BY <3>2, Zenon
    <2>2. first \in P /\ first \notin pass.used /\ a[first] = x
      <3> HIDE DEF first
      <3> QED
        BY <2>1
    <2>3. pass.feedback[i + 1] = "WRONG_PITCH"
      BY <1>2, <1>3, <1>14, Zenon
    <2>4. new = [used |-> pass.used \cup {first},
                 feedback |-> [pass.feedback EXCEPT ![i + 1] = "WRONG_ORDER"]]
      BY <1>1, <1>14, <2>3, Zenon
    <2> HIDE DEF first, new
    <2>5. /\ new.used = pass.used \cup {first}
          /\ new.feedback = [pass.feedback EXCEPT ![i + 1] = "WRONG_ORDER"]
      BY <2>4
    <2>6. /\ new.feedback[i + 1] = "WRONG_ORDER"
          /\ \A j \in P : j # i + 1 => new.feedback[j] = pass.feedback[j]
      <3>1. pass.feedback \in [P -> NoteFeedback]
        BY DEF Passes
      <3> QED
        BY <1>3, <2>5, <3>1
    <2>7. G = M /\ M < F
      <3>1. Given(a, b, x, pass) # Spare(a, b, x)
        BY <1>8, <1>14
      <3>2. G # F
        BY <3>1, SpareFacts
      <3> HIDE DEF G, F, M
      <3> QED
        BY <1>6, <1>7, <3>2
    <2>8. \A j \in 1..(i + 1) : new.feedback[j] = WordleFeedback(a, b)[j]
      <3>1. \A j \in 1..i : j \in P /\ j # i + 1
        BY SizeType
      <3> HIDE DEF P, M, F
      <3> QED
        BY <1>2, <1>4, <1>10, <1>14, <2>6, <2>7, <3>1, Zenon
    <2>9. ASSUME NEW y
          PROVE  Cardinality(Given(a, b, y, new)) =
                    IF Missed(a, b, y, i + 1) < Cardinality(Spare(a, b, y))
                    THEN Missed(a, b, y, i + 1) ELSE Cardinality(Spare(a, b, y))
      <3>1. CASE y = x
        <4>1. Missed(a, b, y, i + 1) = M + 1
          BY <1>5, <1>14, <3>1, Zenon
        <4>2. Given(a, b, x, new) = Given(a, b, x, pass) \cup {first}
          BY <1>8, <2>1, <2>5 DEF Given
        <4>3. first \notin Given(a, b, x, pass)
          BY <2>2 DEF Given
        <4>4. Cardinality(Given(a, b, x, new)) = G + 1
          BY <4>2, <4>3, SpareFacts, FS_AddElement
        <4>5. Cardinality(Given(a, b, y, new)) = G + 1 /\ Cardinality(Spare(a, b, y)) = F
          BY <3>1, <4>4, Zenon
        <4> HIDE DEF M, F, G, x
        <4> QED
          BY <1>6, <2>7, <4>1, <4>5
      <3>2. CASE y # x
        <4>1. first \notin Spare(a, b, y)
          BY <2>2, <3>2 DEF Spare, Misplaced
        <4>2. Given(a, b, y, new) = Given(a, b, y, pass)
          BY <2>5, <4>1 DEF Given
        <4> QED
          BY <1>2, <1>5, <3>2, <4>2, Zenon
      <3> QED
        BY <3>1, <3>2
    <2>10. \A j \in P : a[j] = b[j] => j \in new.used /\ new.feedback[j] = "CORRECT"
      BY <1>2, <1>14, <2>5, <2>6
    <2>11. \A j \in P : a[j] # b[j] /\ j > i + 1 => new.feedback[j] = "WRONG_PITCH"
      <3>1. \A j \in P : j > i + 1 => j # i + 1
        BY <1>3
      <3> QED
        BY <1>2, <1>11, <2>6, <3>1, Zenon
    <2> HIDE DEF P
    <2>12. Judged(a, b, new, i + 1)
      BY <2>8, <2>9, <2>10, <2>11, Zenon DEF Judged, P
    <2> QED
      BY <2>12, Zenon DEF new
  <1> QED
    BY <1>12, <1>13, <1>14, Zenon

\* The feedback of the two passes is that of the rules, for every two lists.
THEOREM EvaluateIsWordle ==
  ASSUME NEW S, NEW a \in Seq(S), NEW b \in Seq(S)
  PROVE  Evaluate(a, b) = WordleFeedback(a, b)
  <1> DEFINE n == Size(a, b)
             h == CHOOSE f : IsPass(f, a, b)
             J == {k \in Nat : k <= n => h[k] \in Passes(a, b) /\ Judged(a, b, h[k], k)}
  <1>1. Evaluate(a, b) = h[n].feedback
    BY Zenon DEF Evaluate, IsPass
  <1>2. IsPass(h, a, b)
    BY SomePass, Zenon
  <1> HIDE DEF h
  <1>3. n \in Nat /\ Compared(a, b) = 1..n
    BY SizeType
  <1>4. 0 \in J
    <2>1. h[0] = FirstPass(a, b)
      BY <1>2, <1>3 DEF IsPass
    <2>2. FirstPass(a, b) \in Passes(a, b)
      BY DEF FirstPass, Passes, NoteFeedback
    <2> QED
      BY <2>1, <2>2, FirstJudged
  <1>5. ASSUME NEW k \in J PROVE k + 1 \in J
    <2> SUFFICES ASSUME k + 1 <= n
                 PROVE  h[k + 1] \in Passes(a, b) /\ Judged(a, b, h[k + 1], k + 1)
      OBVIOUS
    <2>1. /\ k \in Nat /\ k + 1 \in Compared(a, b) /\ k + 1 \in 0..n /\ k + 1 # 0
          /\ (k + 1) - 1 = k
      BY <1>3
    <2>2. h[k] \in Passes(a, b) /\ Judged(a, b, h[k], k)
      BY <1>3
    <2>3. h[k + 1] = Place(a, b, h[k], k + 1)
      <3>1. h[k + 1] = Place(a, b, h[(k + 1) - 1], k + 1)
        BY <1>2, <2>1, Zenon DEF IsPass
      <3> QED
        BY <2>1, <3>1, Zenon
    <2> QED
      BY <2>1, <2>2, <2>3, PlaceType, TurnJudges
  <1>6. n \in J
    <2>1. J \in SUBSET Nat /\ \A k \in J : k + 1 \in J
      BY <1>5
    <2> HIDE DEF J
    <2> QED
      BY <1>3, <1>4, <2>1, Counting
  <1>7. h[n] \in Passes(a, b) /\ Judged(a, b, h[n], n)
    BY <1>3, <1>6
  <1>8. \A j \in 1..n : h[n].feedback[j] = WordleFeedback(a, b)[j]
    BY <1>7, Zenon DEF Judged
  <1>9. h[n].feedback = [j \in 1..n |-> h[n].feedback[j]]
    BY <1>3, <1>7 DEF Passes
  <1>10. WordleFeedback(a, b) = [j \in 1..n |-> WordleFeedback(a, b)[j]]
    BY <1>3 DEF WordleFeedback
  <1> QED
    BY <1>1, <1>8, <1>9, <1>10, Zenon

\* It has an entry for every place that is compared.
LEMMA FeedbackType ==
  ASSUME NEW S, NEW a \in Seq(S), NEW b \in Seq(S)
  PROVE  Evaluate(a, b) \in Seq(NoteFeedback)
  <1>1. Size(a, b) \in Nat /\ Compared(a, b) = 1..Size(a, b)
    BY SizeType
  <1>2. WordleFeedback(a, b) \in [1..Size(a, b) -> NoteFeedback]
    BY <1>1 DEF WordleFeedback, NoteFeedback
  <1> HIDE DEF NoteFeedback
  <1>3. WordleFeedback(a, b) \in Seq(NoteFeedback)
    BY <1>1, <1>2
  <1> QED
    BY <1>3, EvaluateIsWordle, Zenon

\* All of it is green when and only when the guess is the secret.
LEMMA AllGreen ==
  ASSUME NEW S, NEW a \in Seq(S), NEW b \in Seq(S), Len(a) = Len(b)
  PROVE  IsSolved(a, b) <=>
            \A i \in DOMAIN Evaluate(a, b) : Evaluate(a, b)[i] = "CORRECT"
  <1> DEFINE W == WordleFeedback(a, b)
  <1>1. Compared(a, b) = 1..Len(a) /\ DOMAIN a = 1..Len(a) /\ DOMAIN b = 1..Len(a)
    BY DEF Compared, Size
  <1>2. DOMAIN W = 1..Len(a) /\ \A i \in 1..Len(a) : W[i] = "CORRECT" <=> b[i] = a[i]
    BY <1>1 DEF WordleFeedback
  <1>3. b = a <=> \A i \in 1..Len(a) : b[i] = a[i]
    BY <1>1
  <1>4. Evaluate(a, b) = W
    BY EvaluateIsWordle
  <1> HIDE DEF W
  <1> QED
    BY <1>2, <1>3, <1>4, Zenon DEF IsSolved

-----------------------------------------------------------------------------
(* Types.                                                                    *)

\* Recorded notes, and the place in the recording, keep their types.
LEMMA TypeStarts == Init => TypeOK
  <1> SUFFICES ASSUME Init PROVE TypeOK
    OBVIOUS
  <1>1. Window \in Nat /\ 0 < Window /\ Length \in Nat /\ 0 <= Length
    BY WindowAssumption, LengthAssumption
  <1>2. \A S : << >> \in Seq(S)
    OBVIOUS
  <1>3. Len(<< >>) = 0
    OBVIOUS
  <1> QED
    BY <1>1, <1>2, <1>3 DEF Init, TypeOK

\* A block of samples, whether or not it fills a frame.
LEMMA BlockType ==
  ASSUME TypeOK, NEW n \in Blocks,
         \/ buffered' = buffered + n
         \/ FrameReady(n)
  PROVE  buffered' \in Nat
  <1>1. /\ Frame \in Nat /\ Hop \in Nat /\ Hop <= Frame /\ n \in Nat /\ buffered \in Nat
    BY SizesAssumption DEF Blocks, TypeOK
  <1>2. CASE FrameReady(n)
    <2>1. buffered' = buffered + n - Hop /\ buffered + n >= Frame
      BY <1>2 DEF FrameReady
    <2> QED
      BY <1>1, <2>1
  <1> QED
    BY <1>1, <1>2

\* Every step keeps the types; what a window's pitch is called is a name.
LEMMA TypeStep == TypeOK /\ [Next]_vars => TypeOK'
  <1> SUFFICES ASSUME TypeOK, [Next]_vars PROVE TypeOK'
    OBVIOUS
  <1>0. /\ Window \in Nat /\ 0 < Window /\ Length \in Nat /\ 0 < Length
        /\ << >> \in Seq(Pitches) /\ << >> \in Seq(Names) /\ << >> \in Seq(NoteFeedback)
        /\ Len(<< >>) = 0
    BY WindowAssumption, LengthAssumption
  <1>1. ASSUME NEW n \in Blocks, NoFrame(n) PROVE TypeOK'
    <2>1. buffered' \in Nat
      BY <1>1, BlockType DEF NoFrame
    <2> QED
      BY <1>1, <2>1 DEF NoFrame, TypeOK, detector, answered
  <1>2. ASSUME NEW n \in Blocks, SilentFrame(n) PROVE TypeOK'
    <2>1. buffered' \in Nat
      BY <1>2, BlockType DEF SilentFrame
    <2> QED
      BY <1>0, <1>2, <2>1 DEF SilentFrame, TypeOK, answered
  <1>3. ASSUME NEW n \in Blocks, IgnoredFrame(n) PROVE TypeOK'
    <2>1. buffered' \in Nat
      BY <1>3, BlockType DEF IgnoredFrame
    <2> QED
      BY <1>3, <2>1 DEF IgnoredFrame, TypeOK, detector, answered
  <1>4. ASSUME NEW n \in Blocks, NEW pitch \in Pitches, Detection(n, pitch)
        PROVE  TypeOK'
    <2>1. buffered' \in Nat
      BY <1>4, BlockType DEF Detection
    <2>2. recent' \in Seq(Pitches) /\ Len(recent') < Window
      BY <1>4 DEF Detection, TypeOK
    <2> QED
      BY <1>4, <2>1, <2>2 DEF Detection, TypeOK, answered
  <1>5. ASSUME NEW n \in Blocks, NEW pitch \in Pitches, NoteRecorded(n, pitch)
        PROVE  TypeOK'
    <2>1. buffered' \in Nat
      BY <1>5, BlockType DEF NoteRecorded
    <2> DEFINE heard == Append(recent, pitch)
    <2>2. heard \in Seq(Pitches) /\ heard # << >>
      <3>1. heard \in Seq(Pitches) /\ Len(heard) # 0
        BY DEF TypeOK
      <3> HIDE DEF heard
      <3> QED
        BY <1>0, <3>1
    <2>3. Winner(heard) \in Pitches
      <3>1. \A l \in Leaders : l.pitch \in Pitches
        BY DEF Leaders
      <3> HIDE DEF heard
      <3> QED
        BY <2>2, <3>1, WinnerLeads
    <2>4. NameOf[Winner(heard)] \in Names
      BY <2>3 DEF Names
    <2>5. notes' = Append(notes, NameOf[Winner(heard)]) /\ Len(notes) < Length
      BY <1>5 DEF NoteRecorded, FrameReady, Listening
    <2> HIDE DEF heard
    <2>6. notes' \in Seq(Names) /\ Len(notes') <= Length
      BY <1>0, <2>4, <2>5 DEF TypeOK
    <2>7. /\ recent' = << >> /\ silence' = FALSE /\ require' = TRUE /\ sounded' \in Nat
          /\ UNCHANGED <<phase, period, secret, guess, feedback>>
      BY <1>5 DEF NoteRecorded, TypeOK, answered
    <2> QED
      BY <1>0, <2>1, <2>6, <2>7 DEF TypeOK
  <1>6. CASE Record
    BY <1>0, <1>6 DEF Record, TypeOK, detector
  <1>7. CASE SendSequence
    <2>1. /\ phase' = "sent" /\ guess' = notes /\ notes' = << >> /\ sounded' = 0
          /\ buffered' = 0 /\ recent' = << >> /\ silence' = TRUE /\ require' = FALSE
          /\ UNCHANGED <<period, secret, feedback>>
      BY <1>7 DEF SendSequence, Fresh
    <2>2. /\ recent' \in Seq(Pitches) /\ Len(recent') < Window
          /\ notes' \in Seq(Names) /\ Len(notes') <= Length
      BY <1>0, <2>1
    <2>3. /\ guess' \in Seq(Names) /\ secret' \in [1..Length -> Names]
          /\ feedback' \in Seq(NoteFeedback)
      BY <2>1, Zenon DEF TypeOK
    <2> QED
      BY <2>1, <2>2, <2>3 DEF TypeOK
  <1>8. CASE Answer
    <2>1. secret \in Seq(Names) /\ guess \in Seq(Names)
      BY <1>0 DEF TypeOK
    <2>2. feedback' \in Seq(NoteFeedback)
      BY <1>8, <2>1, FeedbackType DEF Answer
    <2> QED
      BY <1>8, <2>2 DEF Answer, TypeOK, detector
  <1>9. CASE UNCHANGED vars
    BY <1>9 DEF vars, TypeOK
  <1> QED
    BY <1>1, <1>2, <1>3, <1>4, <1>5, <1>6, <1>7, <1>8, <1>9, Zenon DEF Next

\* Every variable keeps its type, for every window and length of a guess: a
\* recording never holds more notes than a guess has, and the notes are names.
THEOREM ListeningTypeOK == Spec => []TypeOK
  BY TypeStarts, TypeStep, PTL DEF Spec

\* Whatever the next frame adds to the window, the pitch that names the note is
\* the one detected most often, and of several the one that got there first.
THEOREM ListeningWinnerHeardMost == Spec => []WinnerHeardMost
  <1>1. TypeOK => WinnerHeardMost
    BY HeardMost DEF TypeOK
  <1> QED
    BY <1>1, ListeningTypeOK, PTL

-----------------------------------------------------------------------------
(* The feedback of the last guess.                                           *)

\* Feedback is there from the answer to the next recording only, and a guess
\* that is judged is as long as the secret.
AnsweredInv ==
  /\ phase = "sent" => Len(guess) = Length
  /\ phase \in {"sent", "listening"} => feedback = << >>
  /\ feedback # << >> =>
        /\ Len(guess) = Length
        /\ feedback = Evaluate(secret, guess)
        /\ phase = "solved" <=> IsSolved(secret, guess)

\* Only an answer sets the feedback, and only a new recording ends it.
LEMMA AnsweredStep == TypeOK /\ AnsweredInv /\ [Next]_vars => AnsweredInv'
  <1> SUFFICES ASSUME TypeOK, AnsweredInv, [Next]_vars PROVE AnsweredInv'
    OBVIOUS
  <1>1. CASE UNCHANGED <<phase, secret, guess, feedback>>
    BY <1>1, Zenon DEF AnsweredInv
  <1>2. ASSUME NEW n \in Blocks, NoFrame(n) \/ SilentFrame(n) \/ IgnoredFrame(n)
        PROVE  AnsweredInv'
    BY <1>1, <1>2, Zenon DEF NoFrame, SilentFrame, IgnoredFrame, answered
  <1>3. ASSUME NEW n \in Blocks, NEW pitch \in Pitches,
               Detection(n, pitch) \/ NoteRecorded(n, pitch)
        PROVE  AnsweredInv'
    BY <1>1, <1>3, Zenon DEF Detection, NoteRecorded, answered
  <1>4. CASE Record
    BY <1>4 DEF Record, AnsweredInv
  <1>5. CASE SendSequence
    <2>1. Len(notes) \in Nat /\ Length \in Nat /\ Len(notes) <= Length
      BY LengthAssumption DEF TypeOK
    <2> QED
      BY <1>5, <2>1 DEF SendSequence, AnsweredInv
  <1>6. CASE Answer
    <2>1. /\ phase = "sent" /\ feedback' = Evaluate(secret, guess)
          /\ phase' = IF IsSolved(secret, guess) THEN "solved" ELSE "idle"
          /\ UNCHANGED <<secret, guess>>
      BY <1>6, Zenon DEF Answer
    <2>2. phase' \notin {"sent", "listening"}
      BY <2>1
    <2>3. phase' = "solved" <=> IsSolved(secret, guess)
      BY <2>1
    <2>4. Len(guess) = Length
      BY <2>1, Zenon DEF AnsweredInv
    <2> QED
      BY <2>1, <2>2, <2>3, <2>4, Zenon DEF AnsweredInv
  <1>7. CASE UNCHANGED vars
    BY <1>1, <1>7, Zenon DEF vars
  <1> QED
    BY <1>2, <1>3, <1>4, <1>5, <1>6, <1>7, Zenon DEF Next

\* In every state the feedback that the communicator is shown is that of the game's
\* rules, for every length of a guess and every set of notes, and the room goes
\* on to the next round when and only when all of it is green.
THEOREM ListeningFeedbackIsWordle == Spec => []FeedbackIsWordle
  <1>1. Init => AnsweredInv
    BY DEF Init, AnsweredInv
  <1>2. TypeOK /\ AnsweredInv => FeedbackIsWordle
    <2> SUFFICES ASSUME TypeOK, AnsweredInv, feedback # << >>
                 PROVE  /\ feedback = WordleFeedback(secret, guess)
                        /\ phase = "solved" <=> \A i \in DOMAIN feedback : feedback[i] = "CORRECT"
      BY Zenon DEF FeedbackIsWordle
    <2>1. secret \in Seq(Names) /\ guess \in Seq(Names) /\ Len(secret) = Length
      BY LengthAssumption DEF TypeOK
    <2>2. /\ Len(guess) = Length /\ feedback = Evaluate(secret, guess)
          /\ phase = "solved" <=> IsSolved(secret, guess)
      BY Zenon DEF AnsweredInv
    <2>3. Len(secret) = Len(guess)
      BY <2>1, <2>2
    <2>4. feedback = WordleFeedback(secret, guess)
      BY <2>1, <2>2, EvaluateIsWordle, Zenon
    <2>5. IsSolved(secret, guess) <=>
             \A i \in DOMAIN Evaluate(secret, guess) : Evaluate(secret, guess)[i] = "CORRECT"
      BY <2>1, <2>3, AllGreen
    <2> QED
      BY <2>2, <2>4, <2>5, Zenon
  <1> QED
    BY <1>1, <1>2, AnsweredStep, ListeningTypeOK, PTL DEF Spec

=============================================================================
