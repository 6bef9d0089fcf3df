SPECIFICATION FairSpec
CONSTANTS
    attn = attn
    expert = expert
    attn0 = attn0
    expert0 = expert0
    expert1 = expert1
    ModuleTypes <- MCTypes
    Modules <- MCModules
    Tasks <- MCTasks
    Layouts <- MCSmallOnly
    TypeOrder <- MCTypeOrder
    None = None
    MaxPass = 2
    Distributed = TRUE
    MaxFaults = 1
INVARIANTS
    QueueAtCursor
PROPERTIES
    WeightsArrive
    PassesDrain
    StopCompletes
