CONSTANTS
  Threads = {t1, t2}
  Locks = {m1, m2}
  Positions = {posA, posB, posC, posZ}
  History <- HistoryABCA
  Sites <- WithinOther
  SkipSites <- T2LeavesB
  PoolSize = 2
  MaxHeld = 2
  MaxDepth <- OnlyM1Twice
  NULL = NULL
  posA = posA
  posB = posB
  posC = posC
  posZ = posZ
  t1 = t1
  t2 = t2
  m1 = m1
  m2 = m2
SPECIFICATION FairSpec
INVARIANTS TypeOK NoOccupation NoLostWakeup GrantsExact
PROPERTIES YieldsEnd
