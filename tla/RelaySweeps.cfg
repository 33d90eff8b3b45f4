CONSTANTS
    wide = wide
    narrow = narrow
    p1 = p1
    p2 = p2
    p3 = p3
    Requests = {wide, narrow}
    Platforms = {p1, p2, p3}
    Routes <- MCRoutes
    Handlers = {h1, h2}
    Sweepers = {s1, s2}
SYMMETRY Interchangeable
SPECIFICATION MCSpec
CONSTRAINT WithinBounds
INVARIANTS TypeOK BreachToldOnce NoticesBounded FulfilledMeansAnswered
PROPERTY OutcomeSticks
CHECK_DEADLOCK FALSE
