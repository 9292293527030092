CONSTANTS
  None = None
  Thread = {t1, t2}
  Doc = {d1}
  Periodic = TRUE
  MaxGen = 2
  MaxFaults = 1
SPECIFICATION FairSpec
INVARIANTS
  SavedIsStored
  IInv
  FlushHonest
  CloseHonest
PROPERTIES
  SavesInOrder
  EventuallyStored
