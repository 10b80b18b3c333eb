\* An admin and two users who have still to be created, over three addresses, with two
\* changes and two requests at a time.
CONSTANTS
    Admins = {ada}
    Users = {u1, u2}
    Addresses = {ax, bx, cx}
    NoAddress = NoAddress
    Changes = {c1, c2}
    Requests = {r1, r2}
SPECIFICATION Spec
PROPERTIES
    SharedAddressIsExplained
    LinksWorkOnce
    NoticesReachTheAddressLeft
SYMMETRY Symmetry
CHECK_DEADLOCK FALSE
