CONSTANTS
  None = None
  Torn = Torn
  Proc = {p1, p2}
  Job = {j1}
  Key = {k1}
  Workers = 1
  MaxFailures = 2
SYMMETRY Symmetry
SPECIFICATION Spec
INVARIANTS
  OneExecutor
  ReceiptMatchesArtifact
  IInv
  NothingStranded
PROPERTIES
  TerminalForever
  LeaseContract
