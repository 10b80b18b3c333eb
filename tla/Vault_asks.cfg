\* One ask, two credentials, two requests and two edits against an admin's and
\* a customer's session.
CONSTANTS
    Asks = {q1}
    Credentials = {c1, c2}
    AdminSessions = {sa}
    CustomerSessions = {sc}
    Requests = {r1, r2}
    Edits = {e1, e2}
    Projects = {j1}
SPECIFICATION RouteSpec
INVARIANTS
    OneCredentialPerAsk
    PointerTellsDeletion
    ViewsAreAudited
    TrailTellsProject
PROPERTY
    AsksResolveOnce
SYMMETRY Symmetry
