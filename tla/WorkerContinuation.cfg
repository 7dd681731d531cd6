SPECIFICATION Spec
CONSTANTS
    MaxRuns = 2
    MaxCommands = 2
    MaxFaults = 0
    Continued = {TRUE}
INVARIANTS
    ContinuedSessionStarts
CHECK_DEADLOCK FALSE
