\* Four requests for one slot and a line of two, which r2 and r3 cannot fill
\* together; two moments of arrival, waits that poll and waits that block.
CONSTANTS
    r1 = r1
    r2 = r2
    r3 = r3
    r4 = r4
    Tickets = {r1, r2, r3, r4}
    Bytes <- MCBytes
    MaxActive = 1
    MaxWaiting = 2
    MaxQueuedBytes = 3
    WaitTimeout = 1
    Polls = {0, 1}
    Horizon = 2
SPECIFICATION Spec
INVARIANTS
    SlotInvariant
    DeadlineInvariant
    BytesAccounted
    NoLostWakeup
PROPERTIES
    ImplementsAdmissionLine
