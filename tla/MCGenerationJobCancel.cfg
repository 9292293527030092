SPECIFICATION Spec
CONSTANTS
  m1 = m1
  m2 = m2
  j1 = j1
  Mgr = {m1, m2}
  Job = {j1}
  MaxFaults = 0
  None = None
SYMMETRY Managers
PROPERTY CancelKeepsDrafts
