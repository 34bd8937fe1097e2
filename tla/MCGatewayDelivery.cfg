SPECIFICATION FairSpec
CONSTANTS
    a1 = a1
    a2 = a2
    r1 = r1
    r2 = r2
    org = org
    None = None
    Agent <- MCAgent
    Slot <- MCSlot
    Tenant <- MCTenant
    Outbox <- PacedOutbox
    Capacity = 3
    DedupCapacity = 3
    MaxBatchEvents = 2
    MaxBatchBytes = 3
    MaxPost = 2
    Strict = FALSE
    Faults = {"timeout", "credential"}
    MaxFaults = 1
\* A finite workload: the gateway is idle once the agents have nothing left.
CHECK_DEADLOCK FALSE
INVARIANT AckedIsDurableOrInFlight
PROPERTIES
    SignalsArrive
    OutboxDrains
