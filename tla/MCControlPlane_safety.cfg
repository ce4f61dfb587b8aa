SPECIFICATION Spec
CONSTANTS
  Workers <- TwoWorkers
  Clis <- NoClis
  Hosts <- OneHost
  HostOf <- HostOfShared
  Config <- TwoServices
  Requests <- AllRequests
  Typed <- FirstTypes
  MaxTyped = 1
  Capacity = 1
  SockCap = 1
  MaxSends = 3
  NoMsg = NoMsg
  NoService = NoService
INVARIANTS
  TypeOK
  AnswersInOrder
  AnswersFollowRequests
  StartedMeansExited
CHECK_DEADLOCK FALSE
