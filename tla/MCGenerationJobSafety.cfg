SPECIFICATION RestartSpec
CONSTANTS
  m1 = m1
  m2 = m2
  j1 = j1
  Mgr = {m1, m2}
  Job = {j1}
  MaxFaults = 2
  None = None
INVARIANTS AcceptedOnce BilledOnce SettledBeforeReview RefusedUnpublished IInv
PROPERTIES DecisionFinal ReviewContract InterruptedEnds
