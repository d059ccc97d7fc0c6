\* One room ends its games one after the other, while the lobby reads.
SPECIFICATION FairSpec
CONSTANTS
    r1 = r1
    Rooms = {r1}
    Scores <- MCScores2
    Capacity = 3
    lobby = lobby
    Readers = {lobby}
    Inodes <- MCInodes
    NoInode = NoInode
    NoEntry = NoEntry
    Faults = {"open", "tmp", "kill"}
INVARIANTS TypeOK OwnScoreRanked UpdatesAside
PROPERTIES AtomicSpec LostOnlyToBetter CallsReturn
CHECK_DEADLOCK FALSE
