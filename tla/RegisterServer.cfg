SPECIFICATION RLiveSpec
CONSTANTS
    Guids = {g1, g2}
    Conns = {c1}
    Chans = {}
    Keys = {k1}
    maxTotal = 2
    Durable = TRUE
    None = None
    Addrs = {a1}
    Ports = {p1}
    maxPerConn = 1
    Burst = 1
    DefaultKey = k1
INVARIANTS
    EveryTunnelHasAnOwner
    OverridesBeforeAnnouncement
    AllowedForwardsFit
PROPERTIES
    TunnelsAreRevoked
