---------------------------- MODULE MCBallCourse ----------------------------
(* An instance of BallCourse for TLC, a small course like that of Course.h. *)
EXTENDS BallCourse

MCAngles == -3..3
MCStart == [x |-> 1, y |-> 1]
MCGoal == [x |-> 8, y |-> 5]
MCHoles == {[x |-> 4, y |-> 2, r |-> 2], [x |-> 7, y |-> 1, r |-> 1],
            [x |-> 3, y |-> 5, r |-> 2]}
=============================================================================
