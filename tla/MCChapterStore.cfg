CONSTANTS
  None = None
  Absent = Absent
  Gone = Gone
  Number = {n1, n2}
  Client = {c1, c2}
  Text = {a, b}
  Blank = a
  MaxVersion = 3
  MaxFaults = 2
SYMMETRY Alike
SPECIFICATION Spec
INVARIANTS
  IInv
  MarkdownAgrees
PROPERTIES
  RegisterContract
  RefusedUnchanged
CHECK_DEADLOCK FALSE
