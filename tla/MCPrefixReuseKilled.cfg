SPECIFICATION Spec
CONSTANTS
    ns = ns
    blockA = blockA
    blockB = blockB
    blockC = blockC
    Empty = Empty
    PrefixResident = PrefixResident
    NoRow = NoRow
    Prompts <- MCChain
    NumPages = 3
    SequenceIds = {s1, s2}
    SequenceCapacity = 2
    Procs = {p1}
    MaxNodes = 4
    MaxEntries = 3
    DeadThreshold = 2
    MaxKills = 1
SYMMETRY MCSymmetry
INVARIANTS
    ResidentPagesTracked
CHECK_DEADLOCK FALSE
