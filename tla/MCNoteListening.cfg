\* One round, from the first recording to the guess that solves it.
SPECIFICATION Spec
CONSTANTS
    Frame = 4
    Hop = 2
    Periods = {2, 3}
    MaxBuffered = 7
    Window = 4
    Length = 3
    Pitches <- MCPitches
    NameOf <- MCNameOf
INVARIANTS TypeOK OneNotePerSound SilenceForgets WinnerHeardMost
    FeedbackIsWordle
PROPERTIES BufferBounded
CHECK_DEADLOCK FALSE
