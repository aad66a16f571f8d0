SPECIFICATION Spec
CONSTANTS
    Name = {r1}
    Movers <- Everybody
    MaxInode = 6
    Blocks = 2
    Privileged = TRUE
    MaxUploads = 1
    MaxEvents = 1
PROPERTIES
    EqualFilesVerify
