\* Two requests, two projections and the purge, before and after a midnight.
SPECIFICATION TelemetrySpec
CONSTANTS
    q1 = q1
    q2 = q2
    p1 = p1
    p2 = p2
    Requests = {q1, q2}
    Projectors = {p1, p2}
    Outcomes = {"completed", "failed"}
    Horizon = 1
SYMMETRY Symmetry
INVARIANTS
    CountersAgree
    OpenAreActive
PROPERTIES
    OutcomeIsFinal
CHECK_DEADLOCK FALSE
