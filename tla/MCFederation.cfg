SPECIFICATION Spec
CONSTANTS
    Owners = {o1, o2}
    Shares = {s1, s2}
    Labels <- MCLabels
    Namespaces <- MCNamespaces
    Names <- MCNames
    Tags = {t}
    Protocols = {p1}
    AccountProtocols = {}
    Commands = {c}
    Seals = {e1, e2}
    MaxRevision = 2
    None = none
SYMMETRY Symmetric

    
PROPERTIES
    ConsumerConfined
    ConsumerPreserved
    AnsweredOnce
