SPECIFICATION LiveSpec
CONSTANTS
    Conns = {c1}
    Killers = {k1, k2}
    N = 2
    Methods = {password, publickey}
    Has <- MCHas
    MetaKeys = {mk}
    Vars = {x, y}
    Vals = {a, b}
    injectEnv <- MCInjectEnv
    MaxTries = 3
    Admin = TRUE
    Recording = TRUE
    None = None
INVARIANTS
    NoticesAddUp
    EnvOfPipe
    OnlyGraceStrands
PROPERTIES
    ImplementsAdmin
    ConnectionsEnd
