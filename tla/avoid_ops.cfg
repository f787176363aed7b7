CONSTANTS
  Threads = {t1, t2}
  Mutexes = {m1, m2, m3}
  Positions = {posA, posB}
  History <- HistoryAAandAB
  Recursive = {m1, m2, m3}
  Features = {"cancel", "fail"}
  MaxHeld = 2
  MaxDepth = 2
  NULL = NULL
  posA = posA
  posB = posB
SYMMETRY Symmetry
SPECIFICATION Spec
CHECK_DEADLOCK FALSE
CONSTRAINT OneFailure
INVARIANTS Immune HoldersGranted NoLeakedGrant OwnerIsHolder PositionKnown
