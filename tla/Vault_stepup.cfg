\* A customer whose vault has lapsed.
CONSTANTS
    Asks = {}
    Credentials = {c1}
    AdminSessions = {sa}
    CustomerSessions = {sc}
    Requests = {r1, r2}
    Edits = {}
    Projects = {j1}
SPECIFICATION RouteSpec
INVARIANTS
    RightCodeOpensVault
