SPECIFICATION LiveSpec
CONSTANTS
    Cmds = {c1, c2}
    NoCmd = noCmd
    MaxBatch = 1
    SeenMax = 1
    MaxFaults = 1
PROPERTIES
    AllDelivered
