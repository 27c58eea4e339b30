\* An invitation attempted while the tenant has no usable binding.
SPECIFICATION Spec
CONSTANTS
    r1 = r1  d1 = d1
    jIssued = jIssued  jReminder = jReminder  jCompleted = jCompleted
    jReady = jReady  jDenied = jDenied  jPrepFailed = jPrepFailed  jExpired = jExpired
    Workers = {w1}
    Requests = {r1}
    DataRequests = {}
    Jobs <- InvitationJobs
    SourceOf <- MCSourceOf
    TypeOf <- MCTypeOf
    NoJob = NoJob
    Bindings = {"usable", "unavailable"}
    MaxAttempts = 2
    MaxAborts = 0
    AttemptCap = 2
INVARIANT AttemptsSealable
CHECK_DEADLOCK FALSE
