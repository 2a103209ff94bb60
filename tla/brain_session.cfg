\* A pool of two threads and two labels: answers, silences, interrupts, closes.
SPECIFICATION Spec
CONSTANTS
    Threads = {T1, T2}
    Labels = {L1, L2}
    Nobody = Nobody
    Scopes <- PoolScopes
    MaxCalls = 3
INVARIANTS
    SessionsAreNotShared
    SessionsAreReleased
PROPERTIES
    EveryCallEnds
CHECK_DEADLOCK FALSE
