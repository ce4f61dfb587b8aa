SPECIFICATION Spec
CONSTANTS
  Packagers = {p1, p2}
  Stagers = {s1, s2}
  Dirs = {d1, d2}
  h1 = h1
  Hosts = {h1}
  HostOf <- OneHost
  Missing = Missing
  Torn = Torn
SYMMETRY Symmetry
CHECK_DEADLOCK FALSE
INVARIANTS
  TypeOK
  IndexIsWhole
  TagsHaveLayers
  DeliveredInTurn
  StagedMeansWhole
PROPERTY
  ImplementsRelease
