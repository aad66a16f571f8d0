SPECIFICATION Spec
CONSTANTS
    MaxRetries = 0
    SigchldIgnored = TRUE
    MaxEvents = 2
    Faults = {"crash"}
    Garbage <- NoCommand
INVARIANT
    NoHelperAbandoned
CHECK_DEADLOCK FALSE
