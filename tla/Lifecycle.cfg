\* Two records, one of them perhaps a reissue of the other, with a legal hold;
\* or of two organizations, with one participant data request.
SPECIFICATION MCSpec
CONSTANTS
  None = None
  Expiration = Expiration
  t1 = t1
  Records = {r1, r2}
  Tenants = {t1, t2}
  Policies <- AllPolicies
  Holds = {h1}
  DataRequests = {d1}
  MaxRevision = 2
  MaxAborts = 1
INVARIANT HoldBlocksPurge
INVARIANT TombstoneSealsChain
INVARIANT PurgeFollowsPolicy
INVARIANT ExportIsReviewed
PROPERTY RetentionEnds
CHECK_DEADLOCK FALSE
