SPECIFICATION Spec
CONSTANTS
  r1 = r1
  r2 = r2
  p1 = p1
  p2 = p2
  s1 = s1
  s2 = s2
  c1 = c1
  c2 = c2
  c3 = c3
  terms = terms
  short = short
  branching = branching
  yes = yes
  no = no
  None = None
  Records = {r1}
  Principals = {p1, p2}
  Sessions = {s1, s2}
  Owner <- TwoOwners
  Workflows = {short}
  Plan <- MCPlan
  Outcomes = {yes, no}
  Commands = {c1}
  MaxEvents = 4
INVARIANT MaterialEvidenceBound
CHECK_DEADLOCK FALSE
