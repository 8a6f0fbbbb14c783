\* Two requests of every kind against a group with one seat left, with a reader
\* of the audit log.
CONSTANTS
    ann = ann
    bob = bob
    tim = tim
    g1 = g1
    g2 = g2
    r1 = r1
    r2 = r2
    auditor = auditor
    Students = {ann, bob}
    Staff = {tim}
    Groups = {g1, g2}
    AuditChunk = 1
    MaxPending = 2
    Requests = {r1, r2}
    Auditors = {auditor}
    Edits <- AllEdits
    FirstCourse <- MCCourse
    JoinAttempts = 2
    FlushRounds = 2
SPECIFICATION FairSpec
INVARIANTS
    GroupsSound
    OutboxBounded
PROPERTIES
    EditsAreAtomic
    ImplementsAuditLog
    EventsAreDelivered
