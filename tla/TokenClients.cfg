CONSTANTS
    app = app
    spa = spa
    profile = profile
    offline = offline
    Offline = offline
    Scopes = {profile, offline}
    None = None
    Clients = {app, spa}
    Public = {spa}
    Grants <- MCGrants
    Allowed <- MCAllowed
    Subjects = {s1}
    Switchable = {app}
    Reqs = {r1, r2}
    Codes = {c1}
    RTokens = {t1, t2}
    ATokens = {a1, a2}
    Families = {f1, f2}
    Mortal = {c1, t1, t2}
SYMMETRY Interchangeable
SPECIFICATION Spec
INVARIANTS TypeOK BoundToConsent FamilyIsCode
CHECK_DEADLOCK FALSE
