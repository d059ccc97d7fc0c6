\* Two rooms end their games at the same time.
SPECIFICATION FairSpec
CONSTANTS
    r1 = r1
    r2 = r2
    lobby = lobby
    Rooms = {r1, r2}
    Scores <- MCScores2
    Capacity = 3
    Readers = {}
    Inodes <- MCInodes
    NoInode = NoInode
    NoEntry = NoEntry
    Faults = {}
PROPERTIES LostOnlyToBetter
CHECK_DEADLOCK FALSE
