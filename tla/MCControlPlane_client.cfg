SPECIFICATION FairSpec
CONSTANTS
  Workers <- OneWorker
  Clis <- OneCli
  Hosts <- OneHost
  HostOf <- HostOfOne
  Config <- OneService
  Requests <- ListRequest
  Typed <- FirstStarts
  MaxTyped = 1
  Capacity = 1
  SockCap = 1
  MaxSends = 3
  NoMsg = NoMsg
  NoService = NoService
PROPERTIES
  ImplementsRelay
  ClientsEnd
CHECK_DEADLOCK FALSE
