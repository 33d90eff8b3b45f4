CONSTANTS
    app = app
    email = email
    profile = profile
    admin = admin
    None = None
    Clients = {app}
    Users = {u1, u2}
    Scopes = {email, profile, admin}
    Allowed <- MCAllowed
    Challenges = {h1, h2, h3, h4}
    Codes = {c1, c2}
    Reqs = {r1, r2}
SYMMETRY Interchangeable
CONSTRAINT WithinBounds
SPECIFICATION MCSpec
INVARIANTS TypeOK OneOutcome CodeMatchesPages SkipWasEarned CodeWasAgreed
CHECK_DEADLOCK FALSE
