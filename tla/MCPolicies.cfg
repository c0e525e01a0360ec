SPECIFICATION PoliciesSpec
CONSTANTS
    Sessions = {s1, s2}
    Users = {e1, e2}
    Identities = {e1, e2}
    IPs = {i1, i2}
    NoUser = noUser
    Limits <- MCLimits
SYMMETRY Symmetric
INVARIANTS
    CountsExact
    ForbiddenClosed
PROPERTIES
    LimitsInForce
