SPECIFICATION Spec
CONSTANTS
    MaxRetries = 0
    SigchldIgnored = TRUE
    MaxEvents = 2
    Faults <- RunFaults
    Garbage <- AnyGarbage
INVARIANTS
    TypeOK
    SoleLive
    RestartBudget
    RestartsArePaid
    TimersFresh
    ProbesPaired
PROPERTIES
    ShutdownCompletes
    DeadChildReplaced
    KeepsRoster
