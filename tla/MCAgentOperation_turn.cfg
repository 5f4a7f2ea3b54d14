SPECIFICATION FairSpec
CONSTANTS
    MaxCalls = 2
    IterationLimit = 1
    RunLimit = 2
    MaxDisturbances = 2
INVARIANTS
    TypeOK
    NeverReplayed
    HonestInterruption
    InterruptionPairs
    RecoveryConverges
PROPERTIES
    EffectPermitted
    Settles
CHECK_DEADLOCK FALSE
