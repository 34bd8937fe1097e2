SPECIFICATION RBSpec
CONSTANTS
    p1 = p1
    p2 = p2
    daemon = daemon
    hook = hook
    Producer <- MCProducer
    Drainer <- MCDrainer
    NoThread = NoThread
    NoItem = NoItem
    Capacity = 3
    MaxBatch = 2
    MaxOffers = 7
SYMMETRY ThreadSymmetry
INVARIANTS
    LossIsVisible
PROPERTY ImplementsQueue
