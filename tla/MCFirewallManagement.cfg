SPECIFICATION Spec
CONSTANTS
    Ports = {p1, p2}
    Binds = {b1}
    NoBind = noBind
    MaxRev = 2
    None = none
    Foreign = foreign
SYMMETRY PortSymmetry
INVARIANT ManagementReachable
