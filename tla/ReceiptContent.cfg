\* The receipt of a completed request whose retention has closed the content.
SPECIFICATION PageSpec
CONSTANTS
    MaxTime = 4
    Retentions <- MCRetentions
    Organizations = {"o1"}
    DeliveryDays = 2
    ReviewDays = 3
    ExportChunks = 2
    MaxDownloads = 2
INVARIANT ContentIntersection
CHECK_DEADLOCK FALSE
