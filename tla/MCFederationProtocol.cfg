SPECIFICATION Spec
CONSTANTS
    Owners = {o1}
    Shares = {s1}
    Labels <- MCLabels
    Namespaces <- MCNamespaces
    Names <- MCNames
    Tags = {t}
    Protocols = {p1, p2}
    AccountProtocols = {}
    Commands = {c}
    Seals = {e1}
    MaxRevision = 1
    None = none
PROPERTIES
    ProtocolKept
