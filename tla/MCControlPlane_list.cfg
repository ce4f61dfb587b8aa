SPECIFICATION Spec
CONSTANTS
  Workers <- OneWorker
  Clis <- OneCli
  Hosts <- OneHost
  HostOf <- HostOfOne
  Config <- OneService
  Requests <- ListRequest
  Typed <- NoLines
  MaxTyped = 0
  Capacity = 2
  SockCap = 1
  MaxSends = 1
  NoMsg = NoMsg
  NoService = NoService
INVARIANT ListShowsNodes
CHECK_DEADLOCK FALSE
