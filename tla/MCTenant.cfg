SPECIFICATION Spec
CONSTANTS
    c1 = c1
    c2 = c2
    Clients <- TwoClients
    InitialRows <- Rows
    MaxClock = 4
    MaxRequests = 3
    Users = {"cy", "dan"}
    Permission = {"user:invite", "user:remove", "role:write", "settings:write", "app:write", "app:delete", "policy:write", "agent:write", "ai:run", "ai:approve", "org:delete"}
    OwnerOnly = {"org:delete"}
    RoleNames = {"dev", "ops"}
    RoleGrants <- Grants
    KeyGrants <- Grants
    MaxUsers = 3
    Slugs = {"shop", "blog", "chat"}
    Kinds = {"PRODUCTION", "QA"}
    Fingerprints = {"pod1", "pod2"}
    Soak = 2
    OfflineAfter = 0
    MaxApplications = 2
    MaxAgents = 2
    Agendas <- Matters
    Builtin = {"sqli", "ssrf"}
    RuleSets <- Published
    Versions = {1, 2}
SYMMETRY AnyTwo
CHECK_DEADLOCK FALSE
INVARIANTS
    OwnerRemains
    QuotaHolds
    DecisionsStand
    SoakBeforeBlock
PROPERTY GrantsAreCovered
