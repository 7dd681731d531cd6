SPECIFICATION Spec
CONSTANTS
    MaxRuns = 2
    MaxCommands = 2
    MaxFaults = 1
    Continued = {TRUE, FALSE}
INVARIANTS
    ProcessIsAccountedFor
    CancelledCommandsAreAlone
CHECK_DEADLOCK FALSE
