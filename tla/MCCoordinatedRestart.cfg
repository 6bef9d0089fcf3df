\* One restart over two nodes, one fault anywhere, with and without fail-fast.
SPECIFICATION FairSpec
CONSTANTS
    Nodes = {n0, n1}
    Node0 = n0
    FailFastModes = {TRUE, FALSE}
    MaxEpochs = 1
    MaxFaults = 1
CHECK_DEADLOCK FALSE
INVARIANTS
    NoMixedWorld
    OneTeardownOwner
    GivenUpIsPublished
PROPERTIES
    RestartEnds
    ClusterEndsTogether
