CONSTANTS
    Artifacts = {a1, a2, a3}
    Original = a1
    Docs <- MCDocs
    Marker = "eicar"
    MaxChunks = 2
    ByteQuota = 4
    MaxScans = 2
    MaxFaults = 1
    Editors = {e1, e2}
    People = {p1, p2}
    FirstOwners = {p1, p2}
    MaxEdits = 2
    MaxChanges = 3
    Totals = {1, 3, 7, 199, 300}
    Percents = {0, 50, 67, 70, 100}
    MaxSessions = 2
    MaxEmitted = 6
    BatchLimit = 2
    EventLimit = 5
    MaxNetworkFaults = 2
    MaxSeconds = 6
    MaxPosition = 8
    HeartbeatSeconds = 2
    IdleSeconds = 2
    MaxCreditedGapSeconds = 3
    Rates = {1, 2}
    Jumps <- MCJumps
    MaxUserActs = 3
    Readers = {r1, r2}
    Participants = {r2}
    Exports = {x, y}
    ParticipantExports = {x}
    Chunks = 2
    MaxOpens = 3
    Records = {ra, rb}
    ReportPaths = {"rep1", "rep2"}
    DocumentPaths = {"doc"}
    MaxDamage = 3
    MaxTime = 4
    Retentions <- MCRetentions
    Organizations = {"o1", "o2"}
    DeliveryDays = 2
    ReviewDays = 3
    ExportChunks = 2
    MaxDownloads = 1
SPECIFICATION MCSpec
INVARIANT RevisionsNeverClash
INVARIANT DeliveredAsScanned
INVARIANT ControlSound
INVARIANT RulesSound
INVARIANT TelemetrySound
INVARIANT CreditHonest
INVARIANT DisclosureSound
INVARIANT VerifiedIsBuilt
INVARIANT AccessHonest
PROPERTY FinalizationEnds
PROPERTY RecorderDrains
CHECK_DEADLOCK FALSE
