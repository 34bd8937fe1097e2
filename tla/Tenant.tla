------------------------------- MODULE Tenant --------------------------------
(***************************************************************************)
(* One organization: members, fleet and rules over the same tables, side   *)
(* by side.  Every request decides on what it has read, and what it read   *)
(* may be gone when it commits; the properties say what holds in spite of  *)
(* that, and name exactly what does not.                                   *)
(***************************************************************************)
EXTENDS Members, Fleet, Governance

Licensed == {"member", "app", "agent"}
Limit(t) == CASE t = "member" -> MaxUsers [] t = "app" -> MaxApplications [] OTHER -> MaxAgents

\* A key and the columns of its row.
IsKey(k) ==
    \/ k[1] \in {"member", "role", "key", "app", "agent", "bundle", "analysis"} /\ k = <<k[1], k[2]>>
    \/ k[1] \in {"link", "env"} /\ k = <<k[1], k[2], k[3]>>
    \/ k = Settings

IsRow(k, row) ==
    /\ k[1] = "role" =>
          row = [name |-> row.name, permissions |-> row.permissions, system |-> row.system]
    /\ k[1] = "env" => row = [mode |-> row.mode, soak |-> row.soak] /\ row.soak \in Int
    /\ k[1] = "agent" =>
          /\ row = [name |-> row.name, env |-> row.env, status |-> row.status, seen |-> row.seen]
          /\ row.env[1] = "env"
    /\ k[1] = "analysis" => row = [status |-> row.status]

CONSTANT Agendas    \* the handlers that are called in one behaviour; a bound

ASSUME AgendaAssumption == Agendas # {}
ASSUME LicenceAssumption == {MaxUsers, MaxApplications, MaxAgents} \subseteq Int

\* What registration and earlier requests may have left: well-formed rows whose
\* references hold, the Owner role and a member who has it, no more than the
\* licence allows, and no production blocking before its soak has passed.
ASSUME RowsAssumption ==
    /\ InitialRows = [k \in DOMAIN InitialRows |-> InitialRows[k]]
    /\ \A k \in DOMAIN InitialRows :
          /\ IsKey(k) /\ IsRow(k, InitialRows[k])
          /\ Parents(k, InitialRows[k]) \subseteq DOMAIN InitialRows
          /\ k[1] = "env" /\ k[3] = "PRODUCTION" /\ InitialRows[k].mode = "BLOCK" =>
                InitialRows[k].soak # Never /\ InitialRows[k].soak <= 1
    /\ RoleKey(Owner) \in DOMAIN InitialRows /\ InitialRows[RoleKey(Owner)].system = TRUE
    /\ \E k \in DOMAIN InitialRows : k[1] = "member" /\ Link(k[2], Owner) \in DOMAIN InitialRows
    /\ \A t \in Licensed :
          LET rows == {k \in DOMAIN InitialRows : k[1] = t}
          IN IsFiniteSet(rows) /\ (Limit(t) >= 0 => Cardinality(rows) <= Limit(t))

VARIABLES
    agenda,
    overrun,    \* per licensed table: creations decided beside another change of it
    deposed,    \* an Owner was lost beside the loss of another
    standing,   \* decisions taken and not withdrawn: <<row, what about>>
    since,      \* per environment: when monitor mode was last entered
    blurred     \* environments written back from a row that had changed meanwhile

history == <<overrun, deposed, standing, since, blurred>>
vars    == <<store, agenda, history>>

Init ==
    /\ StoreInit
    /\ agenda \in Agendas
    /\ overrun = [t \in Licensed |-> 0] /\ deposed = FALSE
    /\ standing = {} /\ blurred = {}
    /\ since = [k \in {e \in Table("env") : db[e].soak # Never} |-> db[k].soak - Soak]

(***************************************************************************)
(* Histories, kept at the commit                                           *)
(***************************************************************************)
Creates(c, table) == {k \in DOMAIN work[c].effect.new : k[1] = table}
Beside(c, table)  == {k \in work[c].stale : k[1] = table}

Loses(links) == \E l \in links : l[1] = "link" /\ l[3] = Owner

EntersMonitor(c) ==
    {k \in DOMAIN own[c].put : /\ work[c].did = "set mode" /\ db[k].mode # "MONITOR"
                               /\ own[c].put[k].mode = "MONITOR"}

Taken(c) ==
    IF work[c].did \in {"disable", "rule off", "review"}
    THEN {<<k, work[c].about>> : k \in DOMAIN own[c].put} ELSE {}

Withdrawn(c) ==
    IF work[c].did \in {"enable", "register", "rule on"}
    THEN {<<k, work[c].about>> : k \in DOMAIN own[c].put} ELSE {}

Stands(d) ==
    CASE d[1][1] = "agent"    -> db[d[1]].status = "DISABLED"
      [] d[1][1] = "settings" -> d[2] \in Disabled
      [] d[1][1] = "analysis" -> db[d[1]].status = d[2]

Record(c) ==
    LET put == DOMAIN own[c].put
        overwritten == put \cap work[c].stale
        lost == {k \in own[c].gone : k \in DOMAIN db /\ k \notin put}
    IN /\ overrun' = [t \in Licensed |-> overrun[t] +
             IF Beside(c, t) = {} THEN 0 ELSE Cardinality(Creates(c, t))]
       /\ deposed' = (deposed \/ (Loses(lost) /\ Loses(work[c].stale)))
       /\ standing' = {d \in standing : d[1] \notin overwritten /\ d \notin Withdrawn(c)}
                      \cup Taken(c)
       /\ since' = Overlay([k \in EntersMonitor(c) |-> work[c].now], since)
       /\ blurred' = blurred \cup {k \in overwritten : k[1] = "env"}

(***************************************************************************)
(* The requests                                                            *)
(***************************************************************************)
Asks(name) == name \in agenda
Keep       == UNCHANGED <<agenda, history>>

User(c)      == Asks("user") /\ ResolveUserPrincipal(c) /\ Keep
Key(c)       == Asks("key") /\ ResolveApiKeyPrincipal(c) /\ Keep
AgentOf(c)   == Asks("agent") /\ ResolveAgentPrincipal(c) /\ Keep
Operator(c)  == Asks("operator") /\ StartPublishing(c) /\ Keep
Sweeper(c)   == Asks("sweeper") /\ StartSweep(c) /\ Keep

Invite(c)    == Asks("members") /\ InviteMember(c) /\ Keep
Assign(c)    == Asks("members") /\ UpdateMemberRoles(c) /\ Keep
Remove(c)    == Asks("members") /\ RemoveMember(c) /\ Keep
NewRole(c)   == Asks("roles") /\ CreateRole(c) /\ Keep
EditRole(c)  == Asks("roles") /\ UpdateRole(c) /\ Keep
DropRole(c)  == Asks("roles") /\ DeleteRole(c) /\ Keep
NewKey(c)    == Asks("keys") /\ CreateApiKey(c) /\ Keep
DropKey(c)   == Asks("keys") /\ RevokeApiKey(c) /\ Keep

NewApp(c)    == Asks("apps") /\ CreateApplication(c) /\ Keep
DropApp(c)   == Asks("apps") /\ DeleteApplication(c) /\ Keep
NewEnvOf(c)  == Asks("apps") /\ CreateEnvironment(c) /\ Keep
Protect(c)   == Asks("modes") /\ SetProtectionMode(c) /\ Keep
Register(c)  == Asks("register") /\ RegisterAgent(c) /\ Keep
Manage(c)    == Asks("agents") /\ UpdateAgent(c) /\ Keep
Heartbeat(c) == RecordHeartbeat(c) /\ Keep
Sweep(c)     == SweepOfflineAgents(c) /\ Keep

Publish(c)   == PublishRuleBundle(c) /\ Keep
Look(c)      == Asks("rules") /\ FindRule(c) /\ Keep
Toggle(c)    == SetRuleEnabled(c) /\ Keep
Analyse(c)   == Asks("analyses") /\ AnalyseFinding(c) /\ Keep
Review(c)    == Asks("analyses") /\ ReviewAnalysis(c) /\ Keep

DeleteLinks(c)   == Unlink(c) /\ Keep
WriteRows(c)     == Write(c) /\ Keep
CommitRequest(c) == Commit(c) /\ Record(c) /\ UNCHANGED agenda
FailRequest(c)   == Fail(c) /\ Keep
Wait             == Asks("time") /\ Tick /\ Keep

Next ==
    \/ \E c \in Clients : User(c)
    \/ \E c \in Clients : Key(c)
    \/ \E c \in Clients : AgentOf(c)
    \/ \E c \in Clients : Sweeper(c)
    \/ \E c \in Clients : Operator(c)
    \/ \E c \in Clients : Invite(c)
    \/ \E c \in Clients : Assign(c)
    \/ \E c \in Clients : Remove(c)
    \/ \E c \in Clients : NewRole(c)
    \/ \E c \in Clients : EditRole(c)
    \/ \E c \in Clients : DropRole(c)
    \/ \E c \in Clients : NewKey(c)
    \/ \E c \in Clients : DropKey(c)
    \/ \E c \in Clients : NewApp(c)
    \/ \E c \in Clients : DropApp(c)
    \/ \E c \in Clients : NewEnvOf(c)
    \/ \E c \in Clients : Protect(c)
    \/ \E c \in Clients : Register(c)
    \/ \E c \in Clients : Manage(c)
    \/ \E c \in Clients : Heartbeat(c)
    \/ \E c \in Clients : Sweep(c)
    \/ \E c \in Clients : Publish(c)
    \/ \E c \in Clients : Look(c)
    \/ \E c \in Clients : Toggle(c)
    \/ \E c \in Clients : Analyse(c)
    \/ \E c \in Clients : Review(c)
    \/ \E c \in Clients : DeleteLinks(c)
    \/ \E c \in Clients : WriteRows(c)
    \/ \E c \in Clients : CommitRequest(c)
    \/ \E c \in Clients : FailRequest(c)
    \/ Wait

Spec == Init /\ [][Next]_vars

(***************************************************************************)
(* Properties                                                              *)
(***************************************************************************)
\* assert_can_grant, on every path that hands out permissions: what a commit adds
\* to a member's rights or to a key, the caller held when it was resolved -
\* unless the role it wrote or assigned changed after it was read.
GrantsAreCovered ==
    [][\A c \in Clients :
         LET held == work[c].permissions
             read == {k \in DOMAIN own[c].put : k[1] = "role"}
                       \cup {RoleKey(k[3]) : k \in {l \in DOMAIN own[c].put : l[1] = "link"}}
         IN (work[c].pc = "commit" /\ work'[c] = Idle /\ read \cap work[c].stale = {}) =>
              /\ \A i \in MemberIds' :
                    PermissionsOf(RolesOf(i))' \ PermissionsOf(RolesOf(i)) \subseteq held
              /\ \A k \in Table("key")' \ Table("key") : db'[k].permissions \subseteq held]_vars

\* An organization keeps an Owner, whatever is demoted and removed side by side;
\* only two losses that overlap can take both of the last two.
OwnerRemains == CountOwners >= 1 \/ deposed

\* A licence is exceeded by no more than the creations that were checked beside
\* another change of the same table.
QuotaHolds ==
    \A t \in Licensed :
        Limit(t) >= 0 => Cardinality(Table(t)) <= Limit(t) + overrun[t]

\* What was decided stays decided: a disabled agent whatever heartbeats, sweeps
\* and pins come, a rule that is off, a reviewed answer - until it is withdrawn, or
\* written back by a request that had read the row before.
DecisionsStand == \A d \in standing : d[1] \in DOMAIN db => Stands(d)

\* Production blocks only when the soak has passed since monitor mode was last
\* entered; only a mode written back from a stale row escapes.
SoakBeforeBlock ==
    \A k \in Table("env") \ blurred :
        k[3] = "PRODUCTION" /\ db[k].mode = "BLOCK" =>
            k \in DOMAIN since /\ since[k] + Soak <= clock
=============================================================================
