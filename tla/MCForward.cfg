SPECIFICATION Spec
CONSTANTS
    Ids = {a, b}
    TCP = {t}
    UDP = {u}
    Targets = {x, y}
    Listeners = {f1, f2}
    Conns = {c1, c2}
    Peers = {p1, p2}
    Sockets = {s1, s2}
    None = none
    MaxConnections = 1
    MaxSessions = 1
SYMMETRY Symmetric
INVARIANTS
    
    SessionsTracked
    StoppedCarriesNothing
    Bounded
