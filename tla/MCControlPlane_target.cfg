SPECIFICATION Spec
CONSTANTS
  Workers <- TwoWorkers
  Clis <- OneCli
  Hosts <- TwoHosts
  HostOf <- HostOfTwo
  Config <- OneService
  Requests <- NodeRequest
  Typed <- NoLinesTwo
  MaxTyped = 0
  Capacity = 2
  SockCap = 1
  MaxSends = 1
  NoMsg = NoMsg
  NoService = NoService
INVARIANT OnlyTargetNodeActs
CHECK_DEADLOCK FALSE
