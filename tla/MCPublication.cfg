SPECIFICATION Spec
CONSTANTS
  g1 = g1
  p1 = p1
  p2 = p2
  f1 = f1
  a1 = a1
  Generation = {g1}
  Call = {p1, p2, f1, a1}
  Form = {f1}
  Avatar = {a1, f1}
  OutputType <- MCOutputType
  NoCall = NoCall
  MaxRemoved = 1
  MaxCutOff = 1
SYMMETRY Symmetry
CHECK_DEADLOCK FALSE
INVARIANTS  RefersToOnePublication FailureLeavesOnlyTheThumbnail
