\* One worker; the notices of one request, and those of one participant data request.
SPECIFICATION MCSpec
CONSTANTS
    r1 = r1  d1 = d1
    jIssued = jIssued  jReminder = jReminder  jCompleted = jCompleted
    jReady = jReady  jDenied = jDenied  jPrepFailed = jPrepFailed  jExpired = jExpired
    Workers = {w1}
    Requests = {r1}
    DataRequests = {d1}
    Jobs <- AllJobs
    SourceOf <- MCSourceOf
    TypeOf <- MCTypeOf
    NoJob = NoJob
    Bindings = {"usable", "not_admitted", "disabled"}
    MaxAttempts = 2
    MaxAborts = 1
    AttemptCap = 4
INVARIANT ContactIsCurrent
INVARIANT LedgerSound
PROPERTY PromiseKept
PROPERTY JobsSettle
CHECK_DEADLOCK FALSE
