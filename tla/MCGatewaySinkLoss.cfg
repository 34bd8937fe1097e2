SPECIFICATION Spec
CONSTANTS
    a1 = a1
    a2 = a2
    r1 = r1
    r2 = r2
    org = org
    None = None
    Agent <- MCAgent
    Slot <- MCSlot
    Tenant <- MCTenant
    Outbox <- SignalOutbox
    Capacity = 3
    DedupCapacity = 3
    MaxBatchEvents = 2
    MaxBatchBytes = 2
    MaxPost = 2
    Strict = FALSE
    Faults = {"sink"}
    MaxFaults = 1
\* A finite workload: the gateway is idle once the agents have nothing left.
CHECK_DEADLOCK FALSE
INVARIANT AckedIsDurableOrInFlight
