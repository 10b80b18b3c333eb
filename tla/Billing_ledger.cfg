\* Three payments of one or two cents, two requests at a time; integers end at 3,
\* so that an invoice of 4 cannot be settled.
CONSTANTS
    Payments = {p1, p2, p3}
    Requests = {r1, r2}
    Amounts = {0, 1, 2, 4}
    MaxInt = 3
SPECIFICATION BillingSpec
INVARIANTS
    PaidNewsIsRight
    LedgerFits
    DeletionsAreAudited
PROPERTY
    DecisionsChain
SYMMETRY Symmetry
CHECK_DEADLOCK FALSE
