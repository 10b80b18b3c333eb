SPECIFICATION Spec
INVARIANTS
    CodesAreGood
    OldPasswordsAreOut
    TriesAreBounded
CONSTANTS
    Sessions = {s1, s2}
    Requests = {r1, r2}
    CodeIds = {k1}
    MaxSets = 2
    MaxPasswords = 2
    Limit = 2
SYMMETRY Symmetry
