CONSTANTS
    auth = auth
    sign = sign
    relay = relay
    gov = gov
    ghost = ghost
    platform = platform
    users = users
    site = site
    ann = ann
    bat = bat
    clerk = clerk
    chief = chief
    near = near
    None = none
    Modules = {auth, sign, relay, gov}
    Core = {auth}
    DependsOn <- MCDependsOn
    Ids = {auth, sign, relay, gov, ghost}
    EnvLists <- MCEnvLists
    Replicas = {n1}
    Admins = {a1, a2}
    Versions = {1, 2, 3}
    Working = {1, 3}
    Major <- MCMajor
    MaxFaults = 2
    Order <- MCOrder
    UsersSource = users
    Releases = {1, 2}
    Ships <- MCShips
    Runners = {p1, p2}
    MaxRuns = 3
    Writers = {w1, w2}
    Actions = {login}
    Clock = {1}
    Nanos = {0, 5}
    MaxId = 4
    Emails = {ann, bat}
    Tokens = {1, 2}
    WizardRequests = {1, 2}
    Civils = {civil}
    OTPMaxAttempts = 1
    MaxSecrets = 1
    MaxRequests = 7
    MaxFailures = 1
    MFARequests = {m1, m2}
    Codes = {code}
    MFAMaxAttempts = 2
    MaxLosses = 1
    Users = {ann, bat, deb}
    OrgRequests = {q1, q2}
    Roles = {clerk, chief}
    AutoRoles = {chief}
    System = {chief}
    Perms = {view}
    Nodes = {near, far}
    Resolves = {1}
    Changes = {1, 2}
    CacheTTL = 2
    Hold = 1
    MaxClock = 3
SPECIFICATION FreshSpec
INVARIANT RecordedHasRun
CHECK_DEADLOCK FALSE
