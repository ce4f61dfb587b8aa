SPECIFICATION FairSpec
CONSTANTS
  Conns = {c1, c2}
  Capacity = 1
  SockCap = 1
  MaxSends = 2
  NoMsg = NoMsg
INVARIANTS
  TypeOK
  InboxIsWindow
  PositionsAccount
  SendersInOrder
  PeersAgree
PROPERTIES
  ImplementsOrder
  ReadersAreServed
CHECK_DEADLOCK FALSE
