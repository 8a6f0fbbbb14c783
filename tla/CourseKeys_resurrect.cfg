CONSTANTS
    ann = ann
    bob = bob
    sam = sam
    g1 = g1
    g2 = g2
    r1 = r1
    r2 = r2
    q1 = q1
    q2 = q2
    old = old
    own = own
    auditor = auditor
    Students = {ann, bob}
    Staff = {sam}
    Groups = {g1, g2}
    AuditChunk = 2
    MaxPending = 2
    Requests = {r1}
    Auditors = {}
    Edits <- OneEdit
    FirstCourse <- MCCourse
    JoinAttempts = 1
    FlushRounds = 1
    KeyRequests = {q1}
    KeyAsks <- AllAsks
    Slots = {1, 2}
    Names = {"key-1", "key-2"}
    FirstKeys <- MCKeys
SPECIFICATION KeysSpec
INVARIANTS
    RevokedForever
CHECK_DEADLOCK FALSE
