CONSTANTS
  None = None
  Task = {t1, t2}
  Source = {s1}
  Size = 2
  MaxRuns = 2
  MaxFaults = 1
SPECIFICATION FairSpec
INVARIANTS
  OneWriter
  JournalBehindDisk
  RemovalKnown
  IInv
PROPERTIES
  InstallContract
  CancelWins
  RemovedAsShown
  EventuallySettled
