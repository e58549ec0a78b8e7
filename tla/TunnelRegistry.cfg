SPECIFICATION LiveSpec
CONSTANTS
    Guids = {g1, g2, g3}
    Conns = {c1}
    Chans = {h1}
    Keys = {k1}
    maxTotal = 2
    Durable = TRUE
    None = None
INVARIANTS
    HalvesAgree
    NoChannelForgotten
PROPERTIES
    NothingOutlivesItsTunnel
