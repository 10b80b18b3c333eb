\* Three phases and a fourth to be created, three requests.
CONSTANTS
    a = a
    b = b
    c = c
    d = d
    e1 = e1
    e2 = e2
    e3 = e3
    Ids = {a, b, c, d}
    Initial = {a, b, c}
    Edits = {e1, e2, e3}
    Gap = 5
    Operations = {"create", "swap", "drag", "delete"}
SPECIFICATION OrderSpec
PROPERTIES
    DragLands
    DragMovesOnlyItsPhase
    SwapsTradePlaces
SYMMETRY Symmetry
CHECK_DEADLOCK FALSE
