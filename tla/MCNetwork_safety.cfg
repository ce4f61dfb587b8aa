SPECIFICATION Spec
CONSTANTS
  Procs = {p1, p2, p3}
  Names = {br0, br1}
  Addrs = {a1, a2}
  NoLink = NoLink
SYMMETRY Symmetry
CHECK_DEADLOCK FALSE
INVARIANTS
  TypeOK
  OKMeansReady
  OneSucceeds
PROPERTY
  AbandonedStays
