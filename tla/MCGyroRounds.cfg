\* Rounds without end, EXIT by both players, programs that are killed.
SPECIFICATION FairSpec
CONSTANTS
    MaxQueue = 1
    MaxBehind = 1
    Exits = {"host", "guest"}
    Crashes = TRUE
INVARIANTS TypeOK RolesAgree StartNotSwallowed NoTickBetweenRounds EndIsTold
PROPERTIES SessionsEnd RoomPromise
CHECK_DEADLOCK FALSE
