CONSTANTS
  Objects = {a, b}
  OwnPtrs = {p1, p2}
  SglPtrs = {s}
  RefPtrs = {r1, r2}
  SGL = SGL
  NULL = NULL
SYMMETRY Symmetry
SPECIFICATION Spec
INVARIANTS TypeOK SingleOwner
PROPERTIES LeaksOnlyIfHeldAlready PointersStayGood
