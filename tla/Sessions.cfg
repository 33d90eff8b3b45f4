CONSTANTS
    Sids = {s1, s2, s3}
    Reqs = {r1, r2}
    None = None
    MaxTick = 2
    MaxChanges = 2
SYMMETRY Interchangeable
CONSTRAINT InScenario
SPECIFICATION MCSpec
INVARIANTS TypeOK RefreshOnce OldSessionsClose OldAccessRefused 
PROPERTY GoneStaysGone
CHECK_DEADLOCK FALSE
