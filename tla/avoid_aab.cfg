CONSTANTS
  Threads = {t1, t2, t3}
  Mutexes = {m1}
  Positions = {posA, posB}
  History <- HistoryAAB
  Recursive = {}
  Features = {"trylock", "condwait"}
  MaxHeld = 1
  MaxDepth = 1
  NULL = NULL
  posA = posA
  posB = posB
SYMMETRY Symmetry
SPECIFICATION Spec
CHECK_DEADLOCK FALSE
CONSTRAINT FewGrants
INVARIANTS TypeOK NoOccupation NoLostWakeup
PROPERTIES ImplementsImmunity
