CONSTANTS
  Nodes = {n1, n2, n3}
  Values = {e1, e2}
  Cap = 2
  Width = 4
  Garbage <- AnyLength
  NULL = NULL
SPECIFICATION FairSpec
INVARIANTS QueueTypeOK NodesSuffice
PROPERTIES ImplementsFifo PassEnds
