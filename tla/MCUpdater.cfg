SPECIFICATION LiveSpec
CONSTANTS
    Tasks = {t1, t2}
    NoTask = noTask
    Versions = {v0, v1, v2}
    Bootstrap = v0
    Missing = missing
    Torn = torn
INVARIANTS
    NoLostUpdate
    
    
    OnlyAcknowledgedPromoted
PROPERTY UpdateDecided
