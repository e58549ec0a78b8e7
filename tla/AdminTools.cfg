SPECIFICATION LiveSpec
CONSTANTS
  a1 = a1
  a2 = a2
  a3 = a3
  i1 = i1
  i2 = i2
  s1 = s1
  None = None
  Wait = Wait
  Addrs = {a1, a2, a3}
  Ids = {i1, i2}
  Sessions = {s1}
  Hosts <- MCHosts
  Reports <- MCReports
  EndpointLists <- MCEndpointLists
  Procs = {1, 2, 3}
  Loop = 1
  Handlers = {2}
  Cmd = 3
  Requests <- MCRequests
  Lines <- MCLines
  MaxChanges = 1
  MaxKeys = 2
  Frames <- MCFrames
  MaxFrames = 3
CHECK_DEADLOCK FALSE
INVARIANTS
    RoutesTheUnambiguous
    CastIsOneChannel
PROPERTIES
    WebConverges
    InterruptEnds
    ReaderEnds
