------------------------------ MODULE MCTenant -------------------------------
(* An organization with two Owners, one of them invited, a developer role, a *)
(* key that may manage members, one application whose production has been    *)
(* monitored and switched off, and an agent that reports from it.            *)
EXTENDS Tenant, TLC

CONSTANTS c1, c2
TwoClients == {c1, c2}
AnyTwo == Permutations(TwoClients)

Rows ==
    RegisterOrganization("ann")
    @@ Member(-1) :> Invited("bob") @@ Links(-1, {Owner})
    @@ RoleKey(-1) :> RoleRow("dev", {"app:write"}, FALSE)
    @@ ApiKey(0) :> KeyRow({"user:invite", "role:write"})
    @@ App(0) :> AppRow("shop")
    @@ Env(0, "PRODUCTION") :> [mode |-> "OFF", soak |-> 1]
    @@ Agent(0) :> [AgentRow("pod1", Env(0, "PRODUCTION")) EXCEPT !.status = "ONLINE", !.seen = 1]

Matters ==
    {{"user", "key", "members"}, {"key", "members", "roles"}, {"user", "key", "keys", "roles"},
     {"user", "modes", "time"}, {"user", "apps", "modes"}, {"user", "apps", "register"},
     {"user", "agent", "agents", "register"}, {"user", "agent", "agents", "sweeper", "time"},
     {"user", "operator", "rules"}, {"user", "analyses"}}

Grants    == {{"role:write"}, {"app:write"}}
Published == {{"sqli"}, {"sqli", "xss"}}
=============================================================================
