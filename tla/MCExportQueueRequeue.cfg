CONSTANTS
  None = None
  Torn = Torn
  Proc = {p1, p2}
  Job = {j1}
  Key = {k1}
  Workers = 1
  MaxFailures = 1
SPECIFICATION FairSpec
PROPERTIES
  InterruptedRequeued
