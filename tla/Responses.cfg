\* One request, every failure of every call, with and without required logging,
\* and the purge at a midnight.
SPECIFICATION ResponsesFairSpec
CONSTANTS
    q1 = q1
    Requests = {q1}
    Projectors = {}
    Outcomes = {"completed", "failed"}
    Horizon = 1
    Settings = {TRUE, FALSE}
INVARIANTS
    AnswersAreKept
    NothingUnaudited
    RefusedLeavesNoAnswer
    RecordTellsOutcome
PROPERTIES
    NoCallUnlogged
    RequestsEnd
CHECK_DEADLOCK FALSE
