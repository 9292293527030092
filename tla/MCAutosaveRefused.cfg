CONSTANTS
  None = None
  Thread = {t1, t2}
  Doc = {d1}
  Periodic = FALSE
  MaxGen = 2
  MaxFaults = 0
SPECIFICATION FairSpec
PROPERTIES
  RefusedFlushServed
