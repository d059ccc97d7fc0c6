-------------------------- MODULE BallCourseProofs --------------------------
(***************************************************************************)
(* The tilt, the ball and the score for every course, every penalty, every *)
(* pair of thresholds, and whatever the sensor says.                       *)
(***************************************************************************)
EXTENDS BallCourse, TLAPS

-----------------------------------------------------------------------------
(* The tilt. *)

\* clamp and applyHysteresis make of any angle a tilt between -Full and Full,
\* which is 0 unless the axis is engaged.  The clamp hides neither threshold.
LEMMA TiltBounded ==
  ASSUME NEW v \in Int, NEW was \in BOOLEAN
  PROVE  /\ Engaged(Clamp(v), was) \in BOOLEAN
         /\ Hysteresis(Clamp(v), was) \in -Full..Full
         /\ Engaged(Clamp(v), was) <=> Hysteresis(Clamp(v), was) # 0
         /\ Engaged(Clamp(v), was) <=> Abs(v) >= IF was THEN Release ELSE Activate
  <1>1. Clamp(v) \in -Full..Full
    BY ThresholdsAssumption DEF Clamp
  <1>2. Engaged(Clamp(v), was) \in BOOLEAN
    BY DEF Engaged
  <1>3. Abs(Clamp(v)) >= Release <=> Abs(v) >= Release
    BY ThresholdsAssumption DEF Abs, Clamp
  <1>4. Abs(Clamp(v)) >= Activate <=> Abs(v) >= Activate
    BY ThresholdsAssumption DEF Abs, Clamp
  <1>5. Engaged(Clamp(v), was) <=> Abs(v) >= IF was THEN Release ELSE Activate
    BY <1>3, <1>4 DEF Engaged
  <1>6. CASE Engaged(Clamp(v), was)
    <2>1. Hysteresis(Clamp(v), was) = Clamp(v)
      BY <1>6 DEF Hysteresis
    <2>2. Abs(Clamp(v)) >= IF was THEN Release ELSE Activate
      BY <1>6 DEF Engaged
    <2>3. Clamp(v) # 0
      BY <1>1, <2>2, ThresholdsAssumption DEF Abs
    <2> QED
      BY <1>1, <1>2, <1>5, <1>6, <2>1, <2>3
  <1>7. CASE ~Engaged(Clamp(v), was)
    BY <1>2, <1>5, <1>7, ThresholdsAssumption DEF Hysteresis
  <1> QED
    BY <1>2, <1>6, <1>7

\* What is sent to the server: an axis is engaged exactly when its tilt is not 0.
TiltInv ==
  /\ angle \in [Axes -> Angles]
  /\ engaged \in [Axes -> BOOLEAN]
  /\ tilt \in [Axes -> -Full..Full]
  /\ \A a \in Axes : engaged[a] <=> tilt[a] # 0

LEMMA TiltStarts == Init => TiltInv
  <1> SUFFICES ASSUME Init PROVE TiltInv
    OBVIOUS
  <1>1. \A a \in Axes : engaged[a] = FALSE /\ tilt[a] = 0
    BY DEF Init
  <1>2. 0 \in -Full..Full /\ 0 \in Angles
    BY ThresholdsAssumption, AnglesAssumption
  <1>3. /\ angle \in [Axes -> Angles]
        /\ engaged \in [Axes -> BOOLEAN] /\ tilt \in [Axes -> -Full..Full]
    BY <1>2, Zenon DEF Init
  <1> QED
    BY <1>1, <1>3, Zenon DEF TiltInv

\* One reading: the new tilt of an axis comes of its angle, and is other than 0
\* exactly when the angle reaches the threshold of the direction it may go.
LEMMA ReadTilts ==
  ASSUME TiltInv, Read, NEW a \in Axes
  PROVE  /\ angle' \in [Axes -> Angles]
         /\ engaged' \in [Axes -> BOOLEAN]
         /\ tilt' \in [Axes -> -Full..Full]
         /\ engaged'[a] <=> tilt'[a] # 0
         /\ engaged'[a] <=> Abs(angle'[a]) >= IF engaged[a] THEN Release ELSE Activate
  <1>1. /\ angle' \in [Axes -> Angles]
        /\ engaged' = [b \in Axes |-> Engaged(Clamp(angle'[b]), engaged[b])]
        /\ tilt' = [b \in Axes |-> Hysteresis(Clamp(angle'[b]), engaged[b])]
    BY Zenon DEF Read
  <1>2. ASSUME NEW b \in Axes
        PROVE  /\ Engaged(Clamp(angle'[b]), engaged[b]) \in BOOLEAN
               /\ Hysteresis(Clamp(angle'[b]), engaged[b]) \in -Full..Full
               /\ Engaged(Clamp(angle'[b]), engaged[b])
                    <=> Hysteresis(Clamp(angle'[b]), engaged[b]) # 0
               /\ Engaged(Clamp(angle'[b]), engaged[b])
                    <=> Abs(angle'[b]) >= IF engaged[b] THEN Release ELSE Activate
    <2>1. angle'[b] \in Int /\ engaged[b] \in BOOLEAN
      BY <1>1, AnglesAssumption, Zenon DEF TiltInv
    <2> QED
      BY <2>1, TiltBounded, Zenon
  <1>3. /\ engaged'[a] = Engaged(Clamp(angle'[a]), engaged[a])
        /\ tilt'[a] = Hysteresis(Clamp(angle'[a]), engaged[a])
    BY <1>1, Zenon
  <1>4. engaged' \in [Axes -> BOOLEAN] /\ tilt' \in [Axes -> -Full..Full]
    BY <1>1, <1>2, Zenon
  <1> QED
    BY <1>1, <1>2, <1>3, <1>4, Zenon

LEMMA TiltStep == TiltInv /\ [Next]_vars => TiltInv'
  <1> SUFFICES ASSUME TiltInv, [Next]_vars PROVE TiltInv'
    OBVIOUS
  <1>1. CASE Read
    BY <1>1, ReadTilts, Zenon DEF TiltInv, Axes
  <1>2. CASE UNCHANGED tiltVars
    BY <1>2, Zenon DEF TiltInv, tiltVars
  <1> QED
    BY <1>1, <1>2, Zenon DEF Next, Fall, Roll, vars

\* The tilt does not flicker: it begins with an angle of Activate or more and
\* ends with one below Release, whatever angles the filter makes of the
\* sensor's bytes and however many readings lie between.
THEOREM CourseTiltIsSteady == Spec => TiltIsSteady
  <1>1. ASSUME TiltInv, [Next]_vars
        PROVE  [\A a \in Axes :
                  /\ tilt[a] = 0 /\ tilt'[a] # 0 => Abs(angle'[a]) >= Activate
                  /\ tilt[a] # 0 /\ tilt'[a] = 0 => Abs(angle'[a]) < Release]_vars
    <2>1. CASE Read
      <3>1. ASSUME NEW a \in Axes, tilt[a] = 0, tilt'[a] # 0
            PROVE  Abs(angle'[a]) >= Activate
        <4>1. ~engaged[a]
          BY <1>1, <3>1, Zenon DEF TiltInv
        <4> QED
          BY <1>1, <2>1, <3>1, <4>1, ReadTilts, Zenon
      <3>2. ASSUME NEW a \in Axes, tilt[a] # 0, tilt'[a] = 0
            PROVE  Abs(angle'[a]) < Release
        <4>1. engaged[a]
          BY <1>1, <3>2, Zenon DEF TiltInv
        <4>2. ~(Abs(angle'[a]) >= Release)
          BY <1>1, <2>1, <3>2, <4>1, ReadTilts, Zenon
        <4>3. angle'[a] \in Int
          BY <1>1, <2>1, ReadTilts, AnglesAssumption, Zenon
        <4> QED
          BY <4>2, <4>3, ThresholdsAssumption DEF Abs
      <3> QED
        BY <3>1, <3>2, Zenon
    <2>2. CASE UNCHANGED tiltVars
      BY <1>1, <2>2, Zenon DEF TiltInv, tiltVars
    <2> QED
      BY <1>1, <2>1, <2>2, Zenon DEF Next, Fall, Roll, vars
  <1> QED
    BY <1>1, TiltStarts, TiltStep, PTL DEF Spec, TiltIsSteady

-----------------------------------------------------------------------------
(* The ball. *)

\* clampToBounds brings a coordinate back to the course.
LEMMA WithinBounds ==
  ASSUME NEW limit \in Nat, NEW n \in Int
  PROVE  Within(n, limit) \in 0..limit
  BY DEF Within

\* One tick's roll ends on the course.
LEMMA RolledOnCourse ==
  ASSUME TiltInv, ball \in Point
  PROVE  Rolled \in Point
  <1>1. tilt["x"] \in -Full..Full /\ tilt["y"] \in -Full..Full
    BY Zenon DEF TiltInv, Axes
  <1>2. /\ Width \in Nat /\ Height \in Nat
        /\ ball.x \in 0..Width /\ ball.y \in 0..Height
    BY SizesAssumption DEF Point
  <1>3. /\ ball.x - tilt["x"] * Speed \in Int
        /\ ball.y - tilt["y"] * Speed \in Int
    BY <1>1, <1>2, ThresholdsAssumption, SizesAssumption
  <1> QED
    BY <1>2, <1>3, WithinBounds DEF Rolled, Point

\* Where the ball is, and why its place is safe.
BallInv == TiltInv /\ ball \in Point /\ active \in BOOLEAN /\ BallOutsideHoles

LEMMA BallStarts == Init => BallInv
  <1> SUFFICES ASSUME Init PROVE BallInv
    OBVIOUS
  <1>1. ball = Start /\ active = TRUE
    BY DEF Init
  <1> QED
    BY <1>1, TiltStarts, StartAssumption, Zenon DEF BallInv, BallOutsideHoles

LEMMA BallStep == BallInv /\ [Next]_vars => BallInv'
  <1> SUFFICES ASSUME BallInv, [Next]_vars PROVE BallInv'
    OBVIOUS
  <1>1. TiltInv'
    BY TiltStep DEF BallInv
  <1>2. CASE UNCHANGED <<ball, active>>
    BY <1>1, <1>2, Zenon DEF BallInv, BallOutsideHoles, IsGoalReached, InHole
  <1>3. CASE Fall
    <2>1. ball' = Start /\ active' = ~IsGoalReached(Start)
      BY <1>3, Zenon DEF Fall
    <2> QED
      BY <1>1, <2>1, StartAssumption, Zenon DEF BallInv, BallOutsideHoles
  <1>4. CASE Roll
    <2>1. ball' = Rolled /\ active' = ~IsGoalReached(Rolled) /\ ~InHole(Rolled)
      BY <1>4, Zenon DEF Roll
    <2>2. Rolled \in Point
      BY RolledOnCourse DEF BallInv
    <2>3. active' \in BOOLEAN
      BY <2>1, Zenon
    <2>4. BallOutsideHoles'
      BY <2>1, Zenon DEF BallOutsideHoles
    <2> QED
      BY <1>1, <2>1, <2>2, <2>3, <2>4, Zenon DEF BallInv
  <1> QED
    BY <1>2, <1>3, <1>4, Zenon DEF Next, Read, vars, gameVars

\* Between ticks the ball is in no black hole, and at the goal only when the
\* game is over: physicsLoop looks for both after every roll.
THEOREM CourseBallOutsideHoles == Spec => []BallOutsideHoles
  <1>1. BallInv => BallOutsideHoles
    BY DEF BallInv
  <1> QED
    BY <1>1, BallStarts, BallStep, PTL DEF Spec

-----------------------------------------------------------------------------
(* The score. *)

\* startTime_ is as far before the start as all the penalties together, the
\* score is never ahead of the clock, and counts them all when the game ends.
ScoreInv ==
  /\ hits \in 0..MaxHits /\ clock \in 0..MaxClock
  /\ startTime = -(Penalty * hits)
  /\ score \in Int /\ score <= clock - startTime
  /\ FinalScore

LEMMA ScoreStarts == Init => ScoreInv
  <1> SUFFICES ASSUME Init PROVE ScoreInv
    OBVIOUS
  <1>1. clock = 0 /\ startTime = 0 /\ score = 0 /\ hits = 0
    BY DEF Init
  <1>2. active = TRUE
    BY DEF Init
  <1>3. FinalScore
    BY <1>2, Zenon DEF FinalScore
  <1>4. -(Penalty * 0) = 0
    BY SizesAssumption
  <1> QED
    BY <1>1, <1>3, <1>4, SizesAssumption DEF ScoreInv

\* What TakeScore makes of the clock.
LEMMA ScoreTaken ==
  ASSUME ScoreInv, TakeScore
  PROVE  /\ clock' \in 0..MaxClock /\ clock <= clock'
         /\ score' = clock' - startTime /\ score <= score' /\ score' \in Int
         /\ startTime \in Int /\ Penalty * hits \in Nat
  <1>1. Penalty * hits \in Nat /\ startTime \in Int /\ clock \in Int
    BY SizesAssumption DEF ScoreInv
  <1>2. PICK now \in {clock, clock + 1} \cap 0..MaxClock :
          clock' = now /\ score' = now - startTime
    BY Zenon DEF TakeScore
  <1>3. score \in Int /\ score <= clock - startTime /\ MaxClock \in Nat
    BY SizesAssumption DEF ScoreInv
  <1>4. now \in 0..MaxClock /\ clock <= now
    BY <1>1
  <1> QED
    BY <1>1, <1>2, <1>3, <1>4

LEMMA ScoreStep == ScoreInv /\ [Next]_vars => ScoreInv'
  <1> SUFFICES ASSUME ScoreInv, [Next]_vars PROVE ScoreInv'
    OBVIOUS
  <1>1. CASE UNCHANGED gameVars
    <2>1. FinalScore'
      BY <1>1, Zenon DEF gameVars, ScoreInv, FinalScore
    <2> QED
      BY <1>1, <2>1 DEF gameVars, ScoreInv
  <1>2. CASE Fall
    <2>1. /\ hits' = hits + 1 /\ hits < MaxHits /\ TakeScore
          /\ startTime' = startTime - Penalty
      BY <1>2 DEF Fall
    <2>2. /\ hits' \in 0..MaxHits
          /\ startTime' = -(Penalty * hits')
          /\ score' <= clock' - startTime'
      BY <2>1, ScoreTaken, SizesAssumption DEF ScoreInv
    <2>3. active' = TRUE
      BY <1>2, StartAssumption, Zenon DEF Fall
    <2>4. FinalScore'
      BY <2>3, Zenon DEF FinalScore
    <2> QED
      BY <2>1, <2>2, <2>4, ScoreTaken DEF ScoreInv
  <1>3. CASE Roll
    <2>1. hits' = hits /\ startTime' = startTime /\ TakeScore
      BY <1>3 DEF Roll
    <2>2. score' = clock' + Penalty * hits'
      BY <2>1, ScoreTaken DEF ScoreInv
    <2>3. FinalScore'
      BY <2>2, Zenon DEF FinalScore
    <2> QED
      BY <2>1, <2>3, ScoreTaken DEF ScoreInv
  <1> QED
    BY <1>1, <1>2, <1>3, Zenon DEF Next, Read, vars

\* The score at the goal is the time played and every penalty, for any number
\* of black holes: the penalty moves startTime_ and is never forgotten.
THEOREM CourseFinalScore == Spec => []FinalScore
  <1>1. ScoreInv => FinalScore
    BY DEF ScoreInv
  <1> QED
    BY <1>1, ScoreStarts, ScoreStep, PTL DEF Spec

\* The score that the communicator is shown never drops.
THEOREM CourseScoreNeverDrops == Spec => ScoreNeverDrops
  <1>1. ASSUME ScoreInv, [Next]_vars PROVE [score' >= score]_vars
    <2>1. CASE TakeScore
      BY <1>1, <2>1, ScoreTaken DEF ScoreInv
    <2>2. CASE UNCHANGED gameVars
      BY <1>1, <2>2 DEF gameVars, ScoreInv
    <2> QED
      BY <1>1, <2>1, <2>2, Zenon DEF Next, Read, Fall, Roll, vars
  <1> QED
    BY <1>1, ScoreStarts, ScoreStep, PTL DEF Spec, ScoreNeverDrops

\* Every variable keeps its type: above all, no tilt rolls the ball off the
\* course.
THEOREM CourseTypeOK == Spec => []TypeOK
  <1>1. BallInv /\ ScoreInv => TypeOK
    <2> SUFFICES ASSUME BallInv, ScoreInv PROVE TypeOK
      OBVIOUS
    <2>1. startTime \in Int /\ score \in Int
      BY SizesAssumption DEF ScoreInv
    <2>2. hits \in 0..MaxHits /\ clock \in 0..MaxClock
      BY DEF ScoreInv
    <2> QED
      BY <2>1, <2>2, Zenon DEF BallInv, TiltInv, TypeOK
  <1> QED
    BY <1>1, BallStarts, BallStep, ScoreStarts, ScoreStep, PTL DEF Spec

=============================================================================
