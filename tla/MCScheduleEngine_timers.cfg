SPECIFICATION Spec
CONSTANTS
    p1 = p1
    p2 = p2
    None = None
    Gone = Gone
    Procs = {p1, p2}
    Policies <- SkipAndQueue
    StartStates = {"running"}
    Cancels = FALSE
    Insists = FALSE
    MaxLate = 1
    EndStates = {"completed"}
    MaxRuns = 3
    MaxManual = 0
    MaxEdits = 0
    MaxDisruptions = 1
SYMMETRY Symmetry
INVARIANTS
    SkipNeverOverlaps
    OneQueued
    OccurrenceOnce
