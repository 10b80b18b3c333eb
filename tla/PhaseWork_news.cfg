\* One phase, one item of it, two requests at a time.
CONSTANTS
    Phases = {p1}
    Items = {i1}
    Requests = {r1, r2}
SPECIFICATION Spec
INVARIANTS
    DatesFollowStatus
    StatusIsAnnounced
    HiddenStaysHidden
PROPERTY
    OverrideWins
SYMMETRY Symmetry
CHECK_DEADLOCK FALSE
