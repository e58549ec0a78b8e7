SPECIFICATION LiveSpec
CONSTANTS
  Tunnels = {1}
  Attempts = {1, 2}
  MaxOut = 3
  MaxBack = 2
  BufSize = 1
  PipeCap = 1
  LogCap = 1
  NoReply = NoReply
  Configs <- MCConfigs
  Replies <- MCReplies
  MethodLists <- MCMethodLists
  MaxPrompts = 2
INVARIANTS KeyboardAgrees MetaReachesPlugin HostKeyChecked NoConnLeaks TunnelDelivers
PROPERTIES CallsReturn TunnelsEnd
CHECK_DEADLOCK FALSE
