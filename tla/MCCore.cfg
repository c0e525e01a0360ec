SPECIFICATION MCSpec
CONSTANTS
    Configs = {c0, c1, c2}
    Initial = c0
    NoFile = noFile
    Partial = partial
    MaxGen = 3
    l1 = l1
    l2 = l2
    Lists = {l1, l2}
    NoList = noList
    Emails = {"alice", "bob"}
    Bridged <- MCBridged
    a = a
    b = b
    c = c
    NTunnels = 2
    Specs = {a, b, c}
    KeyOf <- MCKeyOf
    NoSpec = noSpec
    Foreign = foreign
INVARIANTS
    RunningIsSaved
    AppliedKept
    ServiceIsSaved
    
    ManagedTogether
    TunnelIsSaved
PROPERTIES
    GenerationFresh
    RollbackTrue
    RestoreComplete
