CONSTANTS
    extract = extract
    permit = permit
    card = card
    advice = advice
    o1 = o1
    r1 = r1
    w1 = w1
    Apps = {a1}
    Services = {extract, permit, card, advice}
    Automated = {extract, card}
    Discretion = {card}
    Document = {extract, permit}
    Tacit = {permit}
    Clocked = {permit, card}
    Officers = {o1, o2}
    Grants = {"withdrawn"}
    Requests = {r1, r2}
    Sweepers = {w1, w2}
    None = None
    Sla = 1
    MaxTick = 3
    MaxFaults = 1
    Sessions = {1}
    Readers = {page, app, phone}
    MaxLost = 1
SPECIFICATION MCSpec
INVARIANTS AllTypes ClockIsFair OutcomeRecorded AnswersAgree
PROPERTIES CaseSpec SilenceGrants
CHECK_DEADLOCK FALSE
