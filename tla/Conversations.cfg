\* Three turns, two of them at once, of the web chat and of the API.
CONSTANTS
    r1 = r1
    r2 = r2
    r3 = r3
    Requests = {r1, r2, r3}
    Asks <- MCAsks
    Replies = {0, 2}
    Configs <- MCConfigs
    RecentLimit = 3
    AtOnce = 2
    None = None
SYMMETRY Symmetry
VIEW View
SPECIFICATION Spec
INVARIANTS
    GraniteUnderstands
    HistoryIsLongestEnd
    PastIsTrue
CHECK_DEADLOCK FALSE
