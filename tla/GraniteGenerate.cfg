\* Two streams and a request without one compete for one slot, with two moments
\* of arrival; a wait lasts for two heartbeats.
CONSTANTS
    plain = plain
    s1 = s1
    s2 = s2
    Tickets = {plain, s1, s2}
    Bytes <- MCBytes
    Streaming = {s1, s2}
    MaxActive = 1
    MaxWaiting = 2
    MaxQueuedBytes = 0
    WaitTimeout = 2
    Polls = {}
    Heartbeat = 1
    Horizon = 3
SPECIFICATION GenerateFairSpec
INVARIANTS
    OllamaWithinCapacity
    NothingLeaks
PROPERTIES
    EveryRequestEnds
