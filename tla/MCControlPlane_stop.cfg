SPECIFICATION FairSpec
CONSTANTS
  Workers <- OneWorker
  Clis <- OneCli
  Hosts <- OneHost
  HostOf <- HostOfOne
  Config <- OneService
  Requests <- StopRequest
  Typed <- FirstStarts
  MaxTyped = 1
  Capacity = 2
  SockCap = 1
  MaxSends = 3
  NoMsg = NoMsg
  NoService = NoService
PROPERTY StopStops
CHECK_DEADLOCK FALSE
