-------------------------------- MODULE Fleet --------------------------------
(***************************************************************************)
(* Applications, their environments and the agents that report into them   *)
(* (application/inventory.py, application/agents.py, operations.py).  What *)
(* an agent counts and measures is left out, and so is config_version;     *)
(* ONLINE stands for DEGRADED too.                                         *)
(***************************************************************************)
EXTENDS TenantStore

CONSTANTS
    Slugs, Kinds, Fingerprints,     \* what requests name
    Soak,                           \* REQUIRED_SOAK_DAYS
    OfflineAfter,                   \* OFFLINE_AFTER_SECONDS
    MaxApplications, MaxAgents      \* licence

ASSUME FleetAssumption == Soak \in Nat /\ OfflineAfter \in Nat

AppRow(slug)        == [name |-> slug]
NewEnv              == [mode |-> "MONITOR", soak |-> Never]
AgentRow(f, env)    == [name |-> f, env |-> env, status |-> "REGISTERED", seen |-> Never]
Enabled(status)     == IF status = "DISABLED" THEN "REGISTERED" ELSE status

(***************************************************************************)
(* Applications and environments                                           *)
(***************************************************************************)
CreateApplication(c) ==
    /\ Called(c) /\ Requires(c, "app:write")
    /\ Under(MaxApplications, "app")
    /\ \E slug \in Slugs, kind \in Kinds :
          /\ Named("app", slug) = {}
          /\ Decide(c, "create app", "",
                    Add(Overlay(Row(App(work[c].id), AppRow(slug)), Row(Env(work[c].id, kind), NewEnv))))

CreateEnvironment(c) ==
    /\ Called(c) /\ Requires(c, "app:write")
    /\ \E app \in Table("app"), kind \in Kinds :
          /\ Env(app[2], kind) \notin DOMAIN db
          /\ Decide(c, "create env", "", Add(Row(Env(app[2], kind), NewEnv)))

DeleteApplication(c) ==
    /\ Called(c) /\ Requires(c, "app:delete")
    /\ \E app \in Table("app") : Decide(c, "delete app", "", Delete(app))

SoakSatisfied(row) == row.soak # Never /\ row.soak <= clock

\* Mutant of WithMode: re-entering monitor mode keeps the soak that is over.
WithModeResuming(row, mode) ==
    [mode |-> mode, soak |-> IF mode = "MONITOR" /\ row.mode # "MONITOR" /\ row.soak = Never
                             THEN clock + Soak ELSE row.soak]

\* Entering monitor mode starts the soak; staying in it does not.
WithMode(row, mode) ==
    [mode |-> mode, soak |-> IF mode = "MONITOR" /\ row.mode # "MONITOR"
                             THEN clock + Soak ELSE row.soak]

SetProtectionMode(c) ==
    /\ Called(c) /\ Requires(c, "policy:write")
    /\ \E env \in Table("env"), mode \in {"OFF", "MONITOR", "BLOCK"} :
          /\ mode = "BLOCK" /\ env[3] = "PRODUCTION" => SoakSatisfied(db[env])
          /\ Decide(c, "set mode", "", Set(Row(env, WithMode(db[env], mode))))

(***************************************************************************)
(* Agents                                                                  *)
(***************************************************************************)
ResolveAgentPrincipal(c) ==
    \E agent \in Table("agent") :
        /\ db[agent].status # "DISABLED"
        /\ Resolve(c, agent, {})

\* Mutant of RoomFor: an application that an agent reports is not counted.
RoomForAgent(newApp, newAgent) == newAgent => Under(MaxAgents, "agent")

\* What a registration adds is licensed.
RoomFor(newApp, newAgent) ==
    /\ newApp => Under(MaxApplications, "app")
    /\ newAgent => Under(MaxAgents, "agent")

\* An agent that shows up creates what is missing: application, environment, row.
RegisterAgent(c) ==
    /\ Called(c) /\ Requires(c, "agent:write")
    /\ \E slug \in Slugs, kind \in Kinds, f \in Fingerprints :
          LET apps   == Named("app", slug)
              app    == IF apps = {} THEN App(work[c].id) ELSE CHOOSE a \in apps : TRUE
              env    == Env(app[2], kind)
              agents == Named("agent", f)
              new    == [k \in {app, env} \ DOMAIN db |-> IF k = app THEN AppRow(slug) ELSE NewEnv]
          IN /\ RoomFor(apps = {}, agents = {})
             /\ Decide(c, "register", "",
                   IF agents = {}
                   THEN Add(Overlay(new, Row(Agent(work[c].id), AgentRow(f, env))))
                   ELSE Effect(new, [k \in agents |-> [db[k] EXCEPT !.env = env,
                                                              !.status = Enabled(@)]], {}, {}))

RecordHeartbeat(c) ==
    /\ Called(c) /\ work[c].who \in Table("agent")
    /\ db[work[c].who].status # "DISABLED"
    /\ Decide(c, "heartbeat", "",
              Set(Row(work[c].who, [db[work[c].who] EXCEPT !.status = "ONLINE", !.seen = clock])))

\* Enable, disable, pin a version, or one of the first two and pin: the version
\* itself is no column here, so a request that sets both fields writes what the one
\* that sets the status writes, and one that only pins writes back the status it read.
UpdateAgent(c) ==
    /\ Called(c) /\ Requires(c, "agent:write")
    /\ \E agent \in Table("agent"), change \in {"enable", "disable", "pin"} :
          Decide(c, change, "",
                 Set(Row(agent, [db[agent] EXCEPT !.status =
                        CASE change = "enable" -> Enabled(@) [] change = "disable" -> "DISABLED"
                          [] OTHER -> @])))

StartSweep(c) == Resolve(c, <<"system">>, {})

\* Mutant of Silent: a disabled agent goes offline like the others.
SilentAll(row) == row.seen # Never /\ clock - row.seen > OfflineAfter

\* evaluate_liveness: heartbeats stopped, and the agent is not disabled.
Silent(row) ==
    row.status # "DISABLED" /\ row.seen # Never /\ clock - row.seen > OfflineAfter

SweepOfflineAgents(c) ==
    /\ Called(c) /\ work[c].who = <<"system">>
    /\ LET late == {k \in Table("agent") : Silent(db[k]) /\ db[k].status # "OFFLINE"}
       IN Decide(c, "sweep", "", Set([k \in late |-> [db[k] EXCEPT !.status = "OFFLINE"]]))
=============================================================================
