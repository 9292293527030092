CONSTANTS
  None = None
  Src = {s1, s2}
  Tgt = {c1, c2}
  First = {s1, s2, c1}
  Text = {t1, t2}
  MaxMessages = 2
  MaxAttempts = 1
  MaxSelected = 2
  MaxEdits = 1
  MaxChanges = 1
  MaxFaults = 1
SYMMETRY Symmetry
SPECIFICATION Spec
INVARIANTS
  JournalTruth
PROPERTIES
  ExchangeContract
CHECK_DEADLOCK FALSE
