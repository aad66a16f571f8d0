SPECIFICATION Spec
CONSTANTS
    Day = 5
    At <- Times
    MaxLag = 1
    MaxRetries = 1
    Shifts <- OneHour
    MaxEvents = 0
PROPERTY
    ScheduleGoesOn
