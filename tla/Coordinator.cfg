CONSTANTS
    s1 = s1
    s2 = s2
    Starters = {s1, s2}
    Operators = {"stop", "issue", "cleanup", "reset"}
    Issues <- OneIssue
    MaxRuns = 2
    MaxInodes = 2
    MaxFaults = 1
    MaxCommands = 3
    Nobody = Nobody
SPECIFICATION Spec
SYMMETRY StarterSymmetry
INVARIANTS
    OneCoordinator
    HeartbeatHasOwner
    ResourcesFollowRows
CHECK_DEADLOCK FALSE
