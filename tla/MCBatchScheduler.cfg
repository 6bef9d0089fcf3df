\* A batch of two requests and a turn compete for one slot; one fault of any
\* kind and one restart happen anywhere.
SPECIFICATION FairSpec
CONSTANTS
    b1 = b1  r1 = r1  r2 = r2  t1 = t1
    Batches = {b1}
    RequestsOf <- MCOneBatch
    Turns = {t1}
    Capacity = 1
    IntakeCapacity = 2
    FaultKinds = {"duplicate", "request_error", "fatal", "died", "channel_error",
                    "write_error", "unroutable"}
    MaxFaults = 1
    MaxRestarts = 1
CHECK_DEADLOCK FALSE
INVARIANTS
    CompletesWhole
    HoldersKeepSlots
    FailsWithItsWorkers
    TurnsHeld
PROPERTIES
    FailedSendsNothing
    TurnsEnd
    BatchesEnd
