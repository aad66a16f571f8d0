SPECIFICATION Spec
CONSTANTS
    Day = 5
    At <- Times
    MaxLag = 1
    MaxRetries = 1
    Shifts <- OneHour
    MaxEvents = 2
INVARIANTS
    TypeOK
    ArmedForItsTime
    OncePerTime
PROPERTIES
    NoTimeMissed
    ComesAgain
