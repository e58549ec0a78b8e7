SPECIFICATION FilterLiveSpec
CONSTANTS
    disableLocal = TRUE
    disableRemote = TRUE
    MaxPackets = 5
    NoReq = NoReq
INVARIANTS
    OvertakesAtMostTheHeldReply
    SleeperIsOwed
PROPERTIES
    EventuallyAnswered
