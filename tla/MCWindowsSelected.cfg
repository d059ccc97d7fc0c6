\* Three windows at once: is the host that has selected a game asked again?
SPECIFICATION Spec
CONSTANTS
    a1 = a1
    a2 = a2
    a3 = a3
    Addresses = {a1, a2, a3}
    Null = Null
    MaxLoops = 3
INVARIANTS SelectedOnce
SYMMETRY Symmetry
CHECK_DEADLOCK FALSE
