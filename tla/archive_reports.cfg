SPECIFICATION Spec
CONSTANTS
    Name = {r1}
    Movers <- FmAndDaemon
    MaxInode = 6
    Blocks = 1
    Privileged = TRUE
    MaxUploads = 1
    MaxEvents = 2
PROPERTIES
    ReportsReopen
    ReportsReachArchive
