SPECIFICATION Spec
CONSTANTS
    c1 = c1
    c2 = c2
    Clients <- TwoClients
    Passwords = {"old", "new"}
    FirstPassword = "old"
    RecoveryCodes = {"r1"}
    MaxSessions = 1
    RefreshTtl = 2
    Grace = 0
    ChallengeTtl = 1
    Threshold = 2
    LockBase = 1
    LockMax = 2
    MfaAtStart = {TRUE, FALSE}
    HashAtStart = {FALSE}
    Asked <- Everything
    MaxClock = 3
    MaxRequests = 3
    MaxId = 4
SYMMETRY AnyTwo
CHECK_DEADLOCK FALSE
INVARIANTS
    EndedStaysEnded
    OneBranchPerRace
    CapHolds
    FamilyIsIntact
    FailuresAreCounted
    CodesWorkOnce
