SPECIFICATION FairSpec
CONSTANTS
  Workers <- OneWorker
  Clis <- NoClis
  Hosts <- OneHost
  HostOf <- HostOfOne
  Config <- OneService
  Requests <- ListRequest
  Typed <- FirstStarts
  MaxTyped = 4
  Capacity = 2
  SockCap = 1
  MaxSends = 8
  NoMsg = NoMsg
  NoService = NoService
INVARIANTS
  AnswersInOrder
PROPERTIES
  WedgesLast
  RequestsAreAnswered
CHECK_DEADLOCK FALSE
