SPECIFICATION Spec
CONSTANTS
    Wd <- TwoDirs
    Mask <- Masks
    Name <- Names
    BufferSize = 112
    MaxEvents = 4
INVARIANTS
    TypeOK
    NothingInvented
    HeadsAreLogged
PROPERTIES
    QueueIsRead
