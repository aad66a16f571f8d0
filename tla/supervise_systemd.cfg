SPECIFICATION Spec
CONSTANTS
    MaxRetries = 1
    SigchldIgnored = FALSE
    MaxEvents = 3
    Faults <- AllFaults
    Garbage <- AnyGarbage
INVARIANTS
    SoleLive
    RestartsArePaid
    SignalExitReapsAll
    OrderlyExitSignalsAll
PROPERTIES
    HelperNeverCrashesDaemon
    PanicIsObeyed
\* A helper without a signalfd never takes a SIGTERM: the daemon may wait forever.
CHECK_DEADLOCK FALSE
