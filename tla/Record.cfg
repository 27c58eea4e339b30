SPECIFICATION MCSpec
CONSTANTS
  r1 = r1
  r2 = r2
  p1 = p1
  p2 = p2
  s1 = s1
  s2 = s2
  s3 = s3
  c1 = c1
  c2 = c2
  c3 = c3
  terms = terms
  short = short
  branching = branching
  yes = yes
  no = no
  None = None
  Records = {r1, r2}
  Principals = {p1, p2}
  Sessions = {s1, s2, s3}
  Owner <- MCOwner
  Workflows = {terms, short, branching}
  Plan <- MCPlan
  Outcomes = {yes, no}
  Commands = {c1, c2, c3}
  MaxEvents = 5
INVARIANT SealedRecordVerifies
INVARIANT RecordSound
PROPERTY ClosedRecordFrozen
PROPERTY ChangesAreWitnessed
PROPERTY RecordsClose
CHECK_DEADLOCK FALSE
