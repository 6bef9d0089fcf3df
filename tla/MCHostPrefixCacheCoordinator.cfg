SPECIFICATION FairSpec
CONSTANTS
    ns = ns
    other = other
    blockA = blockA
    blockB = blockB
    Prompts <- MCChain
    Groups = {g1}
    PageIds = {k1, k2}
    MaxNodes = 2
    MaxEntries = 2
    DeadThreshold = 2
    Procs = {p1}
    ThreadsPerProc = 2
    Handles = {h1}
    MaxLoads = 2
    MaxKills = 1
INVARIANTS
    TypeOK
    SpansStay
    RefsExact
PROPERTIES
    DeferredReleaseCompletes
CHECK_DEADLOCK FALSE
