\* A course of 10 by 7 places, tilts of up to 2 of which 1 releases, 2 activates.
SPECIFICATION Spec
CONSTANTS
    Angles <- MCAngles
    Full = 2
    Activate = 2
    Release = 1
    Width = 9
    Height = 6
    Speed = 1
    Start <- MCStart
    Goal <- MCGoal
    GoalRadius = 2
    Holes <- MCHoles
    Penalty = 5
    MaxClock = 4
    MaxHits = 3
INVARIANTS TypeOK FinalScore BallOutsideHoles
PROPERTIES ScoreNeverDrops TiltIsSteady
CHECK_DEADLOCK FALSE
