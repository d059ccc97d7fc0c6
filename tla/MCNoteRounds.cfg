\* Rounds without end, with failing microphones and programs that are killed.
SPECIFICATION FairSpec
CONSTANTS
    MaxQueue = 1
    MaxBehind = 9
    MaxAttempts = 3
    MicFails = TRUE
    Crashes = TRUE
INVARIANTS TypeOK ExpectedEvents ScoreCountsGuesses OnlyTheMuteBlock
PROPERTIES GuessAnswered CommunicatorReleased RoomPromise
CHECK_DEADLOCK FALSE
