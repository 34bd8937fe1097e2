SPECIFICATION Spec
CONSTANTS
    t1 = t1
    t2 = t2
    Thread <- TwoThreads
    Source <- SourceKinds
    RuleClass <- RuleClasses
    MaxRanges = 2
    MaxTracked = 4
    MaxReported = 1
    MaxConcatArguments = 2
    MaxInspected = 1
    Placeholder = 3
    Agendas <- AllAgendas
CHECK_DEADLOCK FALSE
SYMMETRY AnyThread
INVARIANTS
    FlowsAreCaught
    OnlyRealFlows
    ContextIsHome
    ExploitIsStopped
