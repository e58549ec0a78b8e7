SPECIFICATION BanLiveSpec
CONSTANTS
    Conns = {c1, c2, c3}
    Addrs = {a1, a2}
    Ignored = {a2}
    AddrOf <- MCAddrTwo
    maxFailures = 2
    banDuration = 4
    logOnly = FALSE
    MaxCount = 3
    NoReason = NoReason
PROPERTIES
    BansHold
    BansEnd
