SPECIFICATION FairSpec
CONSTANTS
    v = v
    c = c
    p1 = p1
    p2 = p2
    k1 = k1
    k2 = k2
    k3 = k3
    None = None
    Items = {v, c}
    Destination <- VoiceAndChannel
    Lifetime <- VoiceExpiry
    Procs = {p1}
    Tokens = {k1, k2}
    ClaimTTL = 2
    Backoff <- OneTickBackoff
    Capacity = 1
    MaxLag = 1
INVARIANTS
    TypeOK
PROPERTIES
    ImplementsContract
    EverySettles
ACTION_CONSTRAINT OneRowStep
