SPECIFICATION LiveSpec
CONSTANTS
    Sessions = {s1}
    Viewers = {v1}
    Killers = {k1}
    Channels = {ch1, ch2}
    Capacity = 2
    MaxFrames = 3
    None = None
INVARIANTS
    NeverPanics
    StreamFaithful
PROPERTIES
    ViewersEnd
