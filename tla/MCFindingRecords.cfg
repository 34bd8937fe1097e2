SPECIFICATION Spec
CONSTANTS
    ana = ana
    bob = bob
    worker = worker
    sweeper = sweeper
    Worker <- worker
    Sweeper <- sweeper
    Analysts <- Two
    AgentContexts <- Contexts
    Stream <- TwoLines
    BatchSize = 3
    Targets <- OneOrBoth
    Requests <- Decisions
    Period = 1
    EvidenceInterval = 2
    IdOrder <- Ranks
    MaxListed = 1
    MaxClock = 2
    MaxRequests = 2
    MaxAborts = 1
SYMMETRY Interchangeable
CHECK_DEADLOCK FALSE
INVARIANTS
    NoInventedOccurrence
    OneRowPerDefect
    AuditTellsTheThread
    PagesPartitionQueue
    AuditLockIsLast
PROPERTIES
    FreshStepsAreLegal
