\* Four documents and two NDAs; a small and a large document fit, two large ones do not.
CONSTANTS
    Docs = {d1, d2, d3, d4}
    Ndas = {n1, n2}
    Sizes = {1, 3}
    Quota = 4
    MaxInFlight = 2
SPECIFICATION Spec
INVARIANTS
    QuotaHolds
    FilesMatchRows
    GateOpensOnce
PROPERTIES
    NothingWhileSuspended
    SlotsFillOnce
SYMMETRY Symmetry
