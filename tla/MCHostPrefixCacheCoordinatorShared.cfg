SPECIFICATION Spec
CONSTANTS
    ns = ns
    other = other
    blockA = blockA
    blockB = blockB
    Prompts <- MCPrompts
    Groups = {g1, g2}
    PageIds = {k1, k2}
    MaxNodes = 2
    MaxEntries = 4
    DeadThreshold = 3
    Procs = {p1,p2}
    ThreadsPerProc = 1
    Handles = {h1}
    MaxLoads = 1
    MaxKills = 1
SYMMETRY MCSymmetry
INVARIANTS
    IndexExact
    ReleasableExact
PROPERTIES
    EvictsOldestFirst
CHECK_DEADLOCK FALSE
