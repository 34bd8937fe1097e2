SPECIFICATION FairSpec
CONSTANTS
    Daemon = Daemon
    Hook = Hook
    Capacity = 2
    BatchSize = 2
    SegmentSize = 3
    MaxSpool = 3
    ReplayPerCycle = 1
    MaxBackoff = 2
    Deployments <- AllDeployments
INVARIANTS
    NothingVanishes
    SpoolInOrder
    SpoolBounded
    OneOwner
    LossPerOutage
PROPERTIES
    SpooledUntilSettled
    EventuallySettled
    ShutdownCompletes
