SPECIFICATION Spec
CONSTANTS
    Ports = {p1, p2}
    Binds = {b1}
    NoBind = noBind
    MaxRev = 3
    None = none
    Foreign = foreign
SYMMETRY PortSymmetry
INVARIANTS
    RunningEnforced
    AckedSurvives
    OwnershipKept
    ProtectedBound
 
