SPECIFICATION WFairSpec
CONSTANTS
    Stream <- SoundStream
    BatchSize = 3
    MaxFolds = 6
    MaxCrashes = 1
    MaxDbFaults = 2
    MaxDiskFaults = 1
    MaxShutdowns = 1
INVARIANTS
    CursorNeverPassesUnfolded
    OnlyCompleteLines
    ReplaysBounded
PROPERTY StreamIsConsumed
