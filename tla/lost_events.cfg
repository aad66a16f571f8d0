SPECIFICATION Spec
CONSTANTS
    Wd <- TwoDirs
    Mask <- Masks
    Name <- Names
    BufferSize = 96
    MaxEvents = 2
INVARIANT
    EveryEventLogged
