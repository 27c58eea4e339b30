SPECIFICATION ProductionSpec
CONSTANTS
  t1 = t1
  t2 = t2
  t3 = t3
  g1 = g1
  g2 = g2
  None = None
  Txns = {t1, t2, t3}
  Requests = {1, 2}
  AdmissionGates = {g1}
  StopCommands = {1}
  Limits = {1}
  MaxRevision = 4
  MaxTransactions = 6
INVARIANT StopNeverDeadlocks
SYMMETRY TxnSymmetry
CHECK_DEADLOCK FALSE
