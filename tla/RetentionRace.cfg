\* A record purged while a data request that matched it is being created.
SPECIFICATION Spec
CONSTANTS
  None = None
  Expiration = Expiration
  Records = {r1, r2}
  Tenants = {t1, t2}
  Policies <- DeletePolicies
  Holds = {}
  DataRequests = {d1}
  MaxRevision = 1
  MaxAborts = 0
INVARIANT RequestBlocksPurge
CHECK_DEADLOCK FALSE
