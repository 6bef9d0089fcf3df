\* Two requests of one batch fail on their own, and nothing else goes wrong.
SPECIFICATION FairSpec
CONSTANTS
    b1 = b1  r1 = r1  r2 = r2  t1 = t1
    Batches = {b1}
    RequestsOf <- MCOneBatch
    Turns = {}
    Capacity = 1
    IntakeCapacity = 2
    FaultKinds = {"request_error"}
    MaxFaults = 2
    MaxRestarts = 0
CHECK_DEADLOCK FALSE
PROPERTIES
    RequestErrorsReported
