SPECIFICATION Spec
CONSTANTS
    p1 = p1
    p2 = p2
    None = None
    Gone = Gone
    Procs = {p1}
    Policies <- SkipLate
    StartStates = {"running"}
    EndStates = {"completed"}
    Cancels = TRUE
    Insists = TRUE
    MaxLate = 2
    MaxRuns = 2
    MaxManual = 1
    MaxEdits = 1
    MaxDisruptions = 1
PROPERTIES
    RunsFinal
CHECK_DEADLOCK FALSE
