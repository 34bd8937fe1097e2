SPECIFICATION Spec
CONSTANTS
    a1 = a1
    a2 = a2
    r1 = r1
    r2 = r2
    org = org
    None = None
    Agent <- MCAgent
    Slot <- MCSlot
    Tenant <- MCTenant
    Outbox <- MixedOutbox
    Capacity = 2
    DedupCapacity = 2
    MaxBatchEvents = 2
    MaxBatchBytes = 3
    MaxPost = 3
    Strict = FALSE
    Faults = {"sink", "timeout", "credential", "restart"}
    MaxFaults = 2
\* A finite workload: the gateway is idle once the agents have nothing left.
CHECK_DEADLOCK FALSE
SYMMETRY SlotSymmetry
INVARIANTS
    SignalNeverShed
    DuplicateOnlyIfForgotten
