CONSTANTS
    r0 = r0
    r1 = r1
    r2 = r2
    r3 = r3
    MaxPending = 2
    MaxAcknowledged = 1
    MaxFailures = 4
    MaxKills = 2
    Releases = {r0, r1, r2, r3}
    NoRelease = none
    Legacy = {r0}
    Malformed = {r3}
    Commands = {k1, k2}
    Migrations <- MCMigrations
    Edited = {r2}
    MaxCommands = 3
    MaxCrashes = 1
    Cycles = {"first", "second"}
    Retain = 2
    MaxAge = 1
    KeyIds = {key}
    Digests = {1, 2, 3}
    MaxTime = 4
    MaxCustody = 2
    MaxRot = 1
    MaxBackupKills = 1
    Endpoints = {e1, e2}
    Names = {req, opt}
    Required = {req}
    Operators = {o1, o2}
    MaxWrites = 4
    MaxKeys = 2
    MaxRestores = 1
    MaxSettingKills = 1
    Importers = {i1, i2}
    MaxJobs = 2
    MaxTransferKills = 1
    Drafts <- MCDrafts
    AdminEmail = "adm"
    Quotas = {1, 2}
    MaxQuotaRevision = 2
    MaxSubmissions = 3
    MaxDisturbances = 1
    Gates = {"g"}
    Adapters = {"smtp"}
    Admins = {"m"}
    MaxSaves = 3
    MaxExports = 1
    Providers = {"google", "microsoft"}
    Configured = {"google"}
    AdminCommands = {1, 2}
    MaxOutages = 2
    PilotGates = {"a", "b"}
    FileNames = {"p", "q"}
    Contents = {1, 2}
    Scopes = {"s", "t"}
    Descriptors <- MCDescriptors
    MaxTouches = 1
    MaxManifests = 3
    MaxInspections = 3
    Txns = {1, 2, 3}
    Requests = {1, 2}
    AdmissionGates = {"production"}
    StopCommands = {1}
    Limits = {1, 2}
    None = None
    MaxRevision = 4
    MaxTransactions = 4
    Clients = {"a", "b"}
    Checks = {"x", "y"}
    ClientLimit = 1
    GlobalLimit = 2
    VerifyLimit = 1
    RateWindow = 1
    IdleDay = 1
    MaxCount = 3
    MaxRateTime = 4
    MaxRequests = 3
    FrontCalls = {"c"}
    ClockOffsets <- MCOffsets
    SignedWindow = 1
    AssertionLife = 3
    ClockTolerance = 1
    MaxTokenAge = 6
    IssueSlack = 3
    MaxLifetime = 6
    MaxRepeats = 1
    MaxRestarts = 1
    MaxFrontTime = 3
SPECIFICATION MCSpec
INVARIANT SpoolSound
INVARIANT ReleaseSound
INVARIANT BackupsSound
INVARIANT TransferSound
INVARIANT ProvisioningHonest
INVARIANT DossierTrue
INVARIANT AuditTellsTruth
INVARIANT SignInRemains
INVARIANT PilotEvidenceSound
INVARIANT FrontSound
INVARIANT StopLeavesNothingOpen
INVARIANT DeadlocksAreInversions
PROPERTY SettingsKept
PROPERTY IssuedUnderAdmission
PROPERTY QuotaRespected
CHECK_DEADLOCK FALSE
