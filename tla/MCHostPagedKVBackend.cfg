\* Three pages, three ids that compete for two table slots, two processes, all
\* of which can die between two critical sections or in the middle of one.
CONSTANTS
    NumPages = 3
    SequenceIds = {s1, s2, s3}
    SequenceCapacity = 2
    Procs = {p1, p2}
    Empty = Empty
    PrefixResident = PrefixResident
    MaxWave = 2
SPECIFICATION FairSpec
INVARIANTS
    NoPageTwice
    RebuildSafe
    NothingStranded
PROPERTIES
    ImplementsLedger
    CarriedPagesLand
    ReconcileCompletes
