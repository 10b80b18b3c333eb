\* Three recorders of one customer user, two overlapping ticks, one failure.
CONSTANTS
    e1 = e1
    e2 = e2
    e3 = e3
    ada = ada
    cus = cus
    none = none
    toggle = toggle
    Events = {e1, e2, e3}
    Recipients = {cus}
    Admins = {}
    Workers = {w1, w2}
    KeyOf <- TwoKeyed
    NoKey = none
    Audience <- ToCustomer
    Window = 1
    Cap = 2
    BatchSize = 1
    MaxTime = 5
    MaxFailures = 1
SPECIFICATION Spec
INVARIANTS
    PendingIsScheduled
    HardCap
    ToldOnce
    LossIsExplained
CHECK_DEADLOCK FALSE
