SPECIFICATION Spec
CONSTANTS
  Workers <- TwoWorkers
  Clis <- NoClis
  Hosts <- OneHost
  HostOf <- HostOfShared
  Config <- TwoServices
  Requests <- HomeRequests
  Typed <- StagesAndMoves
  MaxTyped = 1
  Capacity = 1
  SockCap = 1
  MaxSends = 2
  NoMsg = NoMsg
  NoService = NoService
INVARIANT StagedMeansInstalled
CHECK_DEADLOCK FALSE
