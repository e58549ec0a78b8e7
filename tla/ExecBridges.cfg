SPECIFICATION Spec
CONSTANTS
    None = None
    Callers = {k1, k2}
    MaxListeners = 2
    MaxKeys = 2
    d1 = d1  d2 = d2
    Containers = {d1, d2}
    Label <- MCLabel
    Pipes = {p1, p2}
    Pods = {v1}
    Specs = {v1, "off"}
SYMMETRY Symm
CHECK_DEADLOCK FALSE
INVARIANTS TablesAgree KeyOpensItsTarget BridgeIsServed
