SPECIFICATION CleanSpec
CONSTANTS
    ns = ns
    blockA = blockA
    blockB = blockB
    blockC = blockC
    Empty = Empty
    PrefixResident = PrefixResident
    NoRow = NoRow
    Prompts <- MCPrompts
    NumPages = 3
    SequenceIds = {s1, s2}
    SequenceCapacity = 2
    Procs = {p1, p2}
    MaxNodes = 4
    MaxEntries = 3
    DeadThreshold = 3
    MaxKills = 2
SYMMETRY MCPromptsSymmetry
INVARIANTS
    OwnersAgree
    SharedPagesStay
    CommitFits
    QuiescentClean
