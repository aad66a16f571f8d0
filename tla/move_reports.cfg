SPECIFICATION Spec
CONSTANTS
    Name = {r1}
    Movers <- FmAndDaemon
    MaxInode = 6
    Blocks = 2
    Privileged = TRUE
    MaxUploads = 2
    MaxEvents = 1
INVARIANTS
    TypeOK
    FiledReportKept
    ReportsLockedWhileCopied
PROPERTIES
    KeepsReports
