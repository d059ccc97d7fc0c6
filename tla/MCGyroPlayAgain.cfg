SPECIFICATION FairSpec
CONSTANTS
    MaxQueue = 1
    MaxBehind = 0
    Exits = {}
    Crashes = FALSE
PROPERTIES PlayAgainStartsRound
CHECK_DEADLOCK FALSE
