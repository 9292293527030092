CONSTANTS
  None = None
  Torn = Torn
  Proc = {p1}
  Job = {j1, j2}
  Key = {k1}
  Workers = 1
  MaxFailures = 1
SYMMETRY Symmetry
SPECIFICATION Spec
INVARIANTS
  OneFreshJobPerKey
