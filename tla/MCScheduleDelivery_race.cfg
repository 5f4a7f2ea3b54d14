SPECIFICATION Spec
CONSTANTS
    v = v
    c = c
    p1 = p1
    p2 = p2
    k1 = k1
    k2 = k2
    k3 = k3
    None = None
    Items = {v}
    Destination <- VoiceAndChannel
    Lifetime <- NoExpiry
    Procs = {p1, p2}
    Tokens = {k1, k2}
    ClaimTTL = 1
    Backoff <- OneTickBackoff
    Capacity = 4
    MaxLag = 1
SYMMETRY Symmetry
INVARIANTS
    SoundsOnce
    PlayedSounded
    SilencedStaysSilent
PROPERTIES
    OutcomesStand
