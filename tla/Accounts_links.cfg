\* One user, two requests in flight.
CONSTANTS
    Users = {u1}
    Requests = {r1, r2}
    Sids = {s1, s2}
    MaxLinks = 3
    MaxEpochs = 2
SPECIFICATION Spec
INVARIANT
    SurvivorsOverlapped
PROPERTIES
    ArchivedIsFinal
    OnlyTheLastLinkCompletes
SYMMETRY Symmetry
CHECK_DEADLOCK FALSE
