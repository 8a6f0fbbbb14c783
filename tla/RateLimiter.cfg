\* Three calls, two of them of one worker, under two limits; four windows, and
\* counters that are deleted both by the workers and by the store.
CONSTANTS
    q1 = q1
    q2 = q2
    q3 = q3
    w1 = w1
    w2 = w2
    Requests = {q1, q2, q3}
    LimitOf <- MCLimits
    Workers = {w1, w2}
    WorkerOf <- MCWorkers
    Cleaning = TRUE
    Indexed = TRUE
    Width = 2
    Retention = 2
    Interval = 2
    Patience = 2
    Horizon = 7
SPECIFICATION Spec
INVARIANTS
    WithinLimit
    RefusedOnlyWhenFull
    CounterOutlivesCall
CHECK_DEADLOCK FALSE
