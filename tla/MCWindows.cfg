\* Four windows at once, three loops inside each other.
SPECIFICATION Spec
CONSTANTS
    a1 = a1
    a2 = a2
    a3 = a3
    a4 = a4
    Addresses = {a1, a2, a3, a4}
    Null = Null
    MaxLoops = 3
INVARIANTS TypeOK NoDanglingPointer
PROPERTIES PromptKeepsWindow GameEnteredConnected
SYMMETRY Symmetry
CHECK_DEADLOCK FALSE
