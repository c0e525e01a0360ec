SPECIFICATION MCSpec
CONSTANTS
    Cmds = {c1, c2}
    NoCmd = noCmd
    MaxBatch = 1
    SeenMax = 1
    MaxFaults = 2
    Nil = nil
    MaxDepth = 3
    MaxSample = 3
    Observations <- MCObservations
    MaxIdentity = 3
    MaxTime = 4
    Grace = 2
    ConnModes = {"auto", "pull"}
    MaxSize = 4
    Archives = 2
    Budget = 5
    Lengths = {1, 2, 3}
    MaxRecords = 6
    MaxSequence = 3
    Parallel = 2
    ByteBudgets = {0, 2, 4}
    Chunk = 2
    MaxCount = 3
SYMMETRY CmdSymmetry
INVARIANTS
    InFlightReal
    ViewIsSnapshot
    NoLockout
    GraceTrue
    ReadTrue
    StreamExact
    DownloadTrue
PROPERTIES
    ImplementsDelivery
    ModeChangeQuiescent
