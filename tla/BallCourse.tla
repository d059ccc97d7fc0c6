----------------------------- MODULE BallCourse -----------------------------
(***************************************************************************)
(* From the performer's hand to the score: the tilt that GyroscopeReader   *)
(* (src/ClientApp/GyroPi/GyroscopeReader.h) makes of the sensor, and what  *)
(* GyroPiGame::physicsLoop does with it on the course (src/ServerApp/      *)
(* GyroPi/GyroPiGame.h, Ball.h, BlackHole.h, Course.h).                    *)
(*                                                                         *)
(* Lengths, tilts and seconds are integers.  What the filter makes of the  *)
(* sensor's angles is open: it integrates, and a failed SPI transfer       *)
(* leaves it bytes that nobody has read.  Made of 16-bit integers it is    *)
(* always finite, so the test for that at the end of read is left out.     *)
(* Tilts are neither lost nor reordered on their way: one is sent,         *)
(* received and put into gameState_ in one step; a late one is read late.  *)
(***************************************************************************)
EXTENDS Integers

CONSTANTS
    Angles,             \* what rollAngle_ and pitchAngle_ may be, in units of a tilt
    Full,               \* the tilt 1.0
    Activate, Release,  \* ACTIVATE_THRESHOLD, RELEASE_THRESHOLD
    Width, Height,      \* COURSE_WIDTH, COURSE_HEIGHT
    Speed,              \* BALL_SPEED
    Start, Goal, GoalRadius,
    Holes,              \* records with x, y and the radius r
    Penalty,            \* seconds a black hole costs
    MaxClock, MaxHits   \* bounds: seconds and falls of the game looked at

Point == [x : 0..Width, y : 0..Height]

ASSUME AnglesAssumption == Angles \subseteq Int /\ 0 \in Angles
ASSUME ThresholdsAssumption ==
    /\ Full \in Nat /\ Activate \in Nat /\ Release \in Nat
    /\ 0 < Release /\ Release < Activate /\ Activate <= Full
ASSUME SizesAssumption ==
    /\ Width \in Nat /\ Height \in Nat /\ Speed \in Nat /\ Penalty \in Nat
    /\ MaxClock \in Nat /\ MaxHits \in Nat /\ GoalRadius \in Nat
    /\ Goal \in Point /\ Holes \subseteq [x : 0..Width, y : 0..Height, r : Nat]

VARIABLES
    angle,      \* rollAngle_, -pitchAngle_, over MAX_TILT_DEGREES
    engaged,    \* hysteresisActiveX_, hysteresisActiveY_
    tilt,       \* gameState_.tiltX, gameState_.tiltY
    ball,       \* position_
    clock,      \* seconds since the game began
    startTime,  \* startTime_, on the same clock
    score,      \* gameState_.score
    active,     \* gameState_.active
    hits        \* history: how often the ball fell into a hole

gameVars == <<ball, clock, startTime, score, active, hits>>
tiltVars == <<angle, engaged, tilt>>
vars == <<tiltVars, gameVars>>

Axes == {"x", "y"}

\* Every variable has its type; above all, the ball is on the course.
TypeOK ==
    /\ angle \in [Axes -> Angles]
    /\ engaged \in [Axes -> BOOLEAN]
    /\ tilt \in [Axes -> -Full..Full]
    /\ ball \in Point
    /\ clock \in 0..MaxClock
    /\ startTime \in Int
    /\ score \in Int
    /\ active \in BOOLEAN
    /\ hits \in 0..MaxHits

Init ==
    /\ angle = [a \in Axes |-> 0]
    /\ engaged = [a \in Axes |-> FALSE]
    /\ tilt = [a \in Axes |-> 0]
    /\ ball = Start
    /\ clock = 0 /\ startTime = 0 /\ score = 0
    /\ active = TRUE /\ hits = 0

-----------------------------------------------------------------------------
(* GyroscopeReader *)

Abs(n) == IF n < 0 THEN -n ELSE n

\* clamp(value, -1, 1)
Clamp(v) == IF v < -Full THEN -Full ELSE IF v > Full THEN Full ELSE v

\* Mutant: one threshold, to begin a tilt and to end it.
EngagedOneThreshold(v, was) == Abs(v) >= Activate

\* The flag that applyHysteresis leaves ...
Engaged(v, was) == Abs(v) >= (IF was THEN Release ELSE Activate)

\* ... and the value that it returns.
Hysteresis(v, was) == IF Engaged(v, was) THEN v ELSE 0

\* read(), and the tilt command on its way into gameState_.
Read ==
    /\ angle' \in [Axes -> Angles]
    /\ engaged' = [a \in Axes |-> Engaged(Clamp(angle'[a]), engaged[a])]
    /\ tilt' = [a \in Axes |-> Hysteresis(Clamp(angle'[a]), engaged[a])]
    /\ UNCHANGED gameVars

-----------------------------------------------------------------------------
(* Ball, BlackHole and Course *)

Within(n, limit) == IF n < 0 THEN 0 ELSE IF n > limit THEN limit ELSE n

\* Mutant: only the far edges stop the ball.
RolledOffTheEdge ==
    [x |-> IF ball.x - tilt["x"] * Speed > Width THEN Width ELSE ball.x - tilt["x"] * Speed,
     y |-> Within(ball.y - tilt["y"] * Speed, Height)]

\* applyTilt, and clampToBounds
Rolled ==
    [x |-> Within(ball.x - tilt["x"] * Speed, Width),
     y |-> Within(ball.y - tilt["y"] * Speed, Height)]

Near(p, q, radius) == (p.x - q.x) * (p.x - q.x) + (p.y - q.y) * (p.y - q.y) < radius * radius

InHole(p) == \E hole \in Holes : Near(p, hole, hole.r)

IsGoalReached(p) == Near(p, Goal, GoalRadius)

\* Course.h: the ball starts in no hole and not at the goal.
ASSUME StartAssumption == Start \in Point /\ ~InHole(Start) /\ ~IsGoalReached(Start)

-----------------------------------------------------------------------------
(* One tick of physicsLoop, at the time now. *)

\* The score is taken before a hole is looked for: its penalty shows a tick later.
TakeScore ==
    \E now \in {clock, clock + 1} \cap 0..MaxClock :
        /\ clock' = now
        /\ score' = now - startTime

\* Mutant: the penalty is taken off the score.
FallBonus ==
    /\ active /\ hits < MaxHits /\ InHole(Rolled)
    /\ TakeScore
    /\ ball' = Start
    /\ startTime' = startTime + Penalty
    /\ hits' = hits + 1
    /\ active' = ~IsGoalReached(Start)
    /\ UNCHANGED tiltVars

\* Mutant: the ball goes on from the hole.
FallStays ==
    /\ active /\ hits < MaxHits /\ InHole(Rolled)
    /\ TakeScore
    /\ ball' = Rolled
    /\ startTime' = startTime - Penalty
    /\ hits' = hits + 1
    /\ active' = ~IsGoalReached(Start)
    /\ UNCHANGED tiltVars

\* A black hole is hit; the goal is looked for at the start, then.
Fall ==
    /\ active /\ hits < MaxHits /\ InHole(Rolled)
    /\ TakeScore
    /\ ball' = Start
    /\ startTime' = startTime - Penalty
    /\ hits' = hits + 1
    /\ active' = ~IsGoalReached(Start)
    /\ UNCHANGED tiltVars

Roll ==
    /\ active /\ ~InHole(Rolled)
    /\ TakeScore
    /\ ball' = Rolled
    /\ active' = ~IsGoalReached(Rolled)
    /\ UNCHANGED <<tiltVars, startTime, hits>>

Next == Read \/ Fall \/ Roll

Spec == Init /\ [][Next]_vars

-----------------------------------------------------------------------------
(* Properties. *)

(***************************************************************************)
(* The score that is written and shown at the goal is the time that was    *)
(* played plus the penalty of every black hole, the last one included.     *)
(***************************************************************************)
FinalScore == ~active => score = clock + Penalty * hits

(***************************************************************************)
(* Between ticks the ball is in no black hole, and at the goal only when   *)
(* the game is over.                                                       *)
(***************************************************************************)
BallOutsideHoles == ~InHole(ball) /\ (active => ~IsGoalReached(ball))

\* The score that the communicator is shown never drops.
ScoreNeverDrops == [][score' >= score]_vars

(***************************************************************************)
(* A hand that trembles around a threshold does not make the ball jerk: a  *)
(* tilt begins only when the hand is held at Activate or further, and ends *)
(* only when it is held nearer than Release, however many readings lie     *)
(* between.  In the band of both nothing begins and nothing ends.          *)
(***************************************************************************)
TiltIsSteady ==
    [][\A a \in Axes :
          /\ tilt[a] = 0 /\ tilt'[a] # 0 => Abs(angle'[a]) >= Activate
          /\ tilt[a] # 0 /\ tilt'[a] = 0 => Abs(angle'[a]) < Release]_vars

=============================================================================
