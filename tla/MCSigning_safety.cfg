SPECIFICATION Spec
CONSTANTS
  Procs = {p1, p2, p3}
  Files = {fa, fb}
  fa = fa
  fb = fb
  n1 = n1
  Name <- NameVal
  Contents = {x, y}
  Jobs <- JobsVal
  OldKey = OldKey
  Missing = Missing
  Torn = Torn
SYMMETRY Symmetry
CHECK_DEADLOCK FALSE
INVARIANTS
  TypeOK
  TrustedMeansSigned
  SignedIsTrusted
  PairsMatch
  ReferralsAreWhole
  ReferralsAreSigned
