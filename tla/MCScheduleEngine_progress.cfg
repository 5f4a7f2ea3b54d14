SPECIFICATION FairSpec
CONSTANTS
    p1 = p1
    p2 = p2
    None = None
    Gone = Gone
    Procs = {p1}
    Policies <- OnlyQueue
    StartStates = {"queued", "running"}
    EndStates = {"completed"}
    Cancels = FALSE
    Insists = FALSE
    MaxLate = 1
    MaxRuns = 2
    MaxManual = 0
    MaxEdits = 0
    MaxDisruptions = 2
PROPERTIES
    DispatchSettles
    DueIsClaimed
CHECK_DEADLOCK FALSE
