CONSTANTS
    app = app
    spa = spa
    profile = profile
    offline = offline
    Offline = offline
    Scopes = {profile, offline}
    None = None
    Clients = {app}
    Public = {}
    Grants <- MCGrants1
    Allowed <- MCAllowed1
    Subjects = {s1}
    Switchable = {}
    Reqs = {r1, r2}
    Codes = {c1}
    RTokens = {t1, t2}
    ATokens = {a1, a2}
    Families = {f1}
    Mortal = {}
SYMMETRY Interchangeable
SPECIFICATION Spec
INVARIANT ReplayKillsTokens
CHECK_DEADLOCK FALSE
