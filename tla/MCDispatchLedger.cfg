CONSTANTS
  None = None
  Key = {k1, k2}
  Bound = {k1}
  Builtin = {k2}
  Job = {j1, j2}
  Amount = {1}
  Bill = {1, 2}
  Limit = {1}
  MaxInflight = 2
  MaxChanges = 1
  MaxFaults = 1
SPECIFICATION FairSpec
INVARIANTS
  WithinBudget
  IInv
PROPERTIES
  HoldContract
  HoldsEnd
CHECK_DEADLOCK FALSE
