CONSTANTS
    app = app
    spa = spa
    profile = profile
    offline = offline
    Offline = offline
    Scopes = {profile, offline}
    None = None
    Clients = {app, spa}
    Public = {spa}
    Grants <- MCGrants2
    Allowed <- MCAllowed2
    Subjects = {s1}
    Switchable = {}
    Reqs = {r1, r2}
    Codes = {c1, c2}
    RTokens = {t1, t2}
    ATokens = {a1, a2}
    Families = {f1, f2}
    Mortal = {c1, c2}
SYMMETRY Interchangeable
SPECIFICATION Spec
INVARIANT OneTicket
PROPERTIES LedgerSpec DeadStaysDead
CHECK_DEADLOCK FALSE
