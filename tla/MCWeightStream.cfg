SPECIFICATION StreamSpec
CONSTANTS
    attn = attn
    expert = expert
    attn0 = attn0
    expert0 = expert0
    expert1 = expert1
    ModuleTypes <- MCTypes
    Modules <- MCModules
    Tasks <- MCTasks
    Layouts <- MCLayouts
    TypeOrder <- MCTypeOrder
    None = None
    MaxPass = 3
    Distributed = FALSE
    MaxFaults = 1
INVARIANTS
    ProducerNeverRefused
    WorkerNeverRefused
    PassAccounted
    SkipsAhead
