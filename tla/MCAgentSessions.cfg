\* Two session ids, two turns and one tombstone, so that an id is forgotten
\* and reused while the handler of its earlier turn still runs.
SPECIFICATION FairSpec
CONSTANTS
    Sessions = {s1, s2}
    Turns = {t1, t2}
    Trajectories = {j1, j2}
    MaxTerminal = 1
    None = None
INVARIANTS PendingIsInFlight AbortedNotAnswered
PROPERTY SessionsFreed
CHECK_DEADLOCK FALSE
