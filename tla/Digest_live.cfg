\* Two recorders fan out to an admin and a customer user, against one tick.
CONSTANTS
    e1 = e1
    e2 = e2
    e3 = e3
    ada = ada
    cus = cus
    none = none
    toggle = toggle
    Events = {e1, e2}
    Recipients = {ada, cus}
    Admins = {ada}
    Workers = {w1}
    KeyOf <- Pair
    NoKey = none
    Audience <- ToBoth
    Window = 1
    Cap = 2
    BatchSize = 2
    MaxTime = 4
    MaxFailures = 1
SPECIFICATION FairSpec
PROPERTY
    EveryRowIsDrained
CHECK_DEADLOCK FALSE
