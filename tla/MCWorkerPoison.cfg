SPECIFICATION WFairSpec
CONSTANTS
    Stream <- PoisonedStream
    BatchSize = 2
    MaxFolds = 2
    MaxCrashes = 0
    MaxDbFaults = 0
    MaxDiskFaults = 0
    MaxShutdowns = 0
PROPERTY StreamIsConsumed
