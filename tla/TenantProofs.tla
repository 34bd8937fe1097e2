---------------------------- MODULE TenantProofs -----------------------------
(***************************************************************************)
(* One organization, for any licence, any rows it starts with and any      *)
(* number of requests at once: an Owner remains, the licence is kept,      *)
(* decisions stand, blocking waits for its soak and nobody hands out a     *)
(* permission that he lacks - up to the overlaps each property names.      *)
(***************************************************************************)
EXTENDS Tenant, FiniteSetTheorems, TLAPS

-----------------------------------------------------------------------------
(* What there is: T are the committed rows.                                 *)

IsFunction(f) == f = [k \in DOMAIN f |-> f[k]]

RowsOf(T, t) == {k \in DOMAIN T : k[1] = t}

Owns(T, i) == Member(i) \in DOMAIN T /\ Link(i, Owner) \in DOMAIN T

\* References hold, and the role of the Owners is a system role.
TablesOK(T) ==
    /\ IsFunction(T)
    /\ \A k \in DOMAIN T : IsKey(k) /\ IsRow(k, T[k]) /\ Parents(k, T[k]) \subseteq DOMAIN T
    /\ RoleKey(Owner) \in DOMAIN T /\ T[RoleKey(Owner)].system = TRUE
    /\ \A t \in Licensed : IsFiniteSet(RowsOf(T, t))

QuotaOK(T, over) ==
    /\ over \in [Licensed -> Nat]
    /\ \A t \in Licensed : Limit(t) >= 0 => Cardinality(RowsOf(T, t)) <= Limit(t) + over[t]

DisabledIn(T) == IF Settings \in DOMAIN T THEN T[Settings].disabled ELSE {}

StandingOK(T, S) ==
    \A d \in S : d = <<d[1], d[2]>> /\
        \/ /\ d[1][1] = "agent" /\ d[2] = ""
           /\ d[1] \in DOMAIN T => T[d[1]].status = "DISABLED"
        \/ d[1] = Settings /\ d[1] \in DOMAIN T /\ d[2] \in T[Settings].disabled
        \/ /\ d[1][1] = "analysis" /\ d[1] \in DOMAIN T
           /\ d[2] \in {"ACCEPTED", "REJECTED"} /\ T[d[1]].status = d[2]

\* The soak of an environment is counted from when monitor mode was entered.
SoakOK(T, from, blur, now) ==
    /\ IsFunction(from)
    /\ \A k \in RowsOf(T, "env") \ blur :
          /\ T[k].soak # Never => k \in DOMAIN from /\ from[k] + Soak = T[k].soak
          /\ k[3] = "PRODUCTION" /\ T[k].mode = "BLOCK" => T[k].soak # Never /\ T[k].soak <= now

-----------------------------------------------------------------------------
(* A decision: what was decided, about what, by whom with which permissions *)
(* held, e the effect, when it was taken, S the rows that others have       *)
(* committed since.                                                         *)

IsEffect(e) ==
    /\ e = [new |-> e.new, set |-> e.set, gone |-> e.gone, unlink |-> e.unlink]
    /\ IsFunction(e.new) /\ IsFunction(e.set)
    /\ DOMAIN e.new \cap DOMAIN e.set = {}
    /\ \A k \in DOMAIN e.new : IsKey(k) /\ IsRow(k, e.new[k]) /\ k # Settings
    /\ \A k \in DOMAIN e.set : IsKey(k) /\ IsRow(k, e.set[k]) /\ k[1] \notin {"link", "member"}
    /\ e.unlink = {} => \A k \in e.gone : k[1] \in {"member", "role", "app"}
    /\ e.unlink # {} => \A k \in e.gone : k[1] = "link" /\ k[2] \in e.unlink
    /\ RoleKey(Owner) \notin e.gone /\ RoleKey(Owner) \notin DOMAIN e.set

\* One row of a licensed table at a time, and room for it.
WithinLicence(T, e, S) ==
    \A t \in Licensed :
        LET made == {k \in DOMAIN e.new : k[1] = t}
        IN /\ \A k, l \in made : k = l
           /\ made # {} /\ {k \in S : k[1] = t} = {} /\ Limit(t) >= 0
                => Cardinality(RowsOf(T, t)) < Limit(t)

NextMode(old, new, k, now) ==
    /\ new.soak = IF new.mode = "MONITOR" /\ old.mode # "MONITOR" THEN now + Soak ELSE old.soak
    /\ k[3] = "PRODUCTION" /\ new.mode = "BLOCK" => old.soak # Never /\ old.soak <= now

ModesOK(T, did, e, now, S) ==
    /\ \A k \in DOMAIN e.new : k[1] = "env" => e.new[k] = NewEnv
    /\ \A k \in DOMAIN e.set : k[1] = "env" => did = "set mode"
    /\ did = "set mode" =>
          /\ DOMAIN e.new = {}
          /\ \A k \in DOMAIN e.set :
                k[1] = "env" /\ (k \notin S => k \in DOMAIN T /\ NextMode(T[k], e.set[k], k, now))

\* What an agent's new row says of the one that was read.
AgentChange(did, old, new) ==
    /\ did = "pin" => new.status = old.status
    /\ did \in {"heartbeat", "sweep"} => old.status # "DISABLED"

ChangesOK(T, did, about, e, S) ==
    /\ \A k \in DOMAIN e.new : k[1] = "agent" => did = "register" /\ about = ""
    /\ did \in {"disable", "rule off", "review"} => DOMAIN e.new = {}
    /\ did = "disable" => \A k \in DOMAIN e.set : k[1] = "agent" /\ e.set[k].status = "DISABLED"
    /\ did = "rule off" => \A k \in DOMAIN e.set : k = Settings
    /\ did = "review" => \A k \in DOMAIN e.set : k[1] = "analysis"
    /\ \A k \in DOMAIN e.set : k[1] = "agent" =>
          /\ did \in {"register", "enable", "disable", "pin", "heartbeat", "sweep"} /\ about = ""
          /\ k \notin S => k \in DOMAIN T /\ AgentChange(did, T[k], e.set[k])
    /\ \A k \in DOMAIN e.set : k = Settings =>
          /\ did \in {"rule on", "rule off"}
          /\ did = "rule off" => about \in e.set[k].disabled
          /\ k \notin S => \A x \in DisabledIn(T) : x \in e.set[k].disabled \/ (did = "rule on" /\ x = about)
    /\ \A k \in DOMAIN e.set : k[1] = "analysis" =>
          /\ did = "review" /\ about \in {"ACCEPTED", "REJECTED"} /\ e.set[k].status = about
          /\ k \notin S => k \in DOMAIN T /\ T[k].status = "DRAFT"

\* The members whose Owner role it takes away.
Losing(e, i) == Member(i) \in e.gone \/ (i \in e.unlink /\ Link(i, Owner) \notin DOMAIN e.new)

SparesAnOwner(T, e, S) ==
    (\E i : Owns(T, i) /\ Losing(e, i)) /\ ~Loses(S) => \E j : Owns(T, j) /\ ~Losing(e, j)

\* What it hands out was held, or was there when it was read.
Covered(T, held, e, S) ==
    /\ \A k \in DOMAIN e.new : k[1] = "link" /\ RoleKey(k[3]) \notin S =>
          RoleKey(k[3]) \in DOMAIN T /\ T[RoleKey(k[3])].permissions \subseteq held
    /\ \A k \in DOMAIN e.new : k[1] \in {"role", "key"} => e.new[k].permissions \subseteq held
    /\ \A k \in DOMAIN e.set : k[1] = "role" /\ k \notin S =>
          \/ e.set[k].permissions \subseteq held
          \/ k \in DOMAIN T /\ e.set[k].permissions = T[k].permissions

DecisionOK(T, did, about, held, e, now, S) ==
    /\ IsEffect(e)
    /\ WithinLicence(T, e, S)
    /\ ModesOK(T, did, e, now, S)
    /\ ChangesOK(T, did, about, e, S)
    /\ SparesAnOwner(T, e, S)
    /\ Covered(T, held, e, S)

-----------------------------------------------------------------------------
(* What a request has written, o, on rows it has locked                     *)

Keys(o) == DOMAIN o.put \cup o.gone

Wrote(T, e, o) ==
    /\ o = [put |-> Overlay(e.new, e.set), gone |-> o.gone, refs |-> o.refs]
    /\ o.refs = UNION {Parents(k, o.put[k]) : k \in DOMAIN o.put}
    /\ DOMAIN e.set \ Saved \subseteq DOMAIN T \ o.gone
    /\ DOMAIN e.new \cap (DOMAIN T \ o.gone) = {}
    /\ o.refs \subseteq (DOMAIN T \ o.gone) \cup DOMAIN e.new
    /\ \A k \in DOMAIN T \ o.gone : Parents(k, T[k]) \cap o.gone = {}
    /\ \A k \in o.gone :
          /\ k[1] \in {"member", "role", "app", "link", "env", "agent"}
          /\ k[1] \in {"member", "role", "app"} => k \in e.gone
          /\ k[1] = "link" => k[2] \in e.unlink \/ {Member(k[2]), RoleKey(k[3])} \cap e.gone # {}

Apart(o, p) == Keys(o) \cap Keys(p) = {} /\ o.gone \cap p.refs = {} /\ p.gone \cap o.refs = {}

Busy(w) == w.pc \in {"unlink", "write", "commit"}

IsDecided(w) ==
    w = [pc |-> w.pc, did |-> w.did, about |-> w.about, who |-> w.who,
         permissions |-> w.permissions, effect |-> w.effect, now |-> w.now, stale |-> w.stale]

\* One client, with its request w and what it wrote, o.
Fine(T, w, o, time) ==
    /\ w.pc # "commit" => o = Nothing
    /\ w.pc = "commit" => Wrote(T, w.effect, o)
    /\ Busy(w) =>
          /\ IsDecided(w) /\ w.now \in Nat /\ w.now <= time
          /\ w.pc = "unlink" => w.effect.unlink # {}
          /\ DecisionOK(T, w.did, w.about, w.permissions, w.effect, w.now, w.stale)

IInv ==
    /\ clock \in Nat
    /\ work = [c \in Clients |-> work[c]] /\ own = [c \in Clients |-> own[c]]
    /\ TablesOK(db)
    /\ \A c \in Clients : Fine(db, work[c], own[c], clock)
    /\ \A c, d \in Clients : c # d => Apart(own[c], own[d])
    /\ QuotaOK(db, overrun)
    /\ StandingOK(db, standing)
    /\ SoakOK(db, since, blurred, clock)
    /\ (\E i : Owns(db, i)) \/ deposed = TRUE

-----------------------------------------------------------------------------
(* Functions                                                                *)

\* One row, and no row.
LEMMA OneRow ==
    ASSUME NEW k, NEW row
    PROVE  IsFunction(Row(k, row)) /\ DOMAIN Row(k, row) = {k} /\ Row(k, row)[k] = row
  BY DEF Row, IsFunction

\* The empty sequence is the function without a row.
LEMMA NoRow == IsFunction(<<>>) /\ DOMAIN <<>> = {}
  BY DEF IsFunction

\* The rows once a request has committed.
After(T, o) == Overlay(o.put, Restrict(T, DOMAIN T \ o.gone))

-----------------------------------------------------------------------------
(* Keys                                                                     *)

\* A key says its table and its columns.
LEMMA KeyFacts ==
    ASSUME NEW i, NEW r
    PROVE  /\ IsKey(Member(i)) /\ Member(i)[1] = "member" /\ Member(i)[2] = i
           /\ IsKey(Link(i, r)) /\ Link(i, r)[1] = "link" /\ Link(i, r)[2] = i /\ Link(i, r)[3] = r
           /\ IsKey(RoleKey(i)) /\ RoleKey(i)[1] = "role" /\ RoleKey(i)[2] = i
           /\ IsKey(ApiKey(i)) /\ ApiKey(i)[1] = "key" /\ ApiKey(i)[2] = i
           /\ IsKey(App(i)) /\ App(i)[1] = "app" /\ App(i)[2] = i
           /\ IsKey(Env(i, r)) /\ Env(i, r)[1] = "env" /\ Env(i, r)[2] = i /\ Env(i, r)[3] = r
           /\ IsKey(Agent(i)) /\ Agent(i)[1] = "agent" /\ Agent(i)[2] = i
           /\ IsKey(Bundle(i)) /\ Bundle(i)[1] = "bundle"
           /\ IsKey(Analysis(i)) /\ Analysis(i)[1] = "analysis"
           /\ IsKey(Settings) /\ Settings[1] = "settings"
  BY DEF IsKey, Member, Link, RoleKey, ApiKey, App, Env, Agent, Bundle, Analysis, Settings

\* A key is told by its table and its ids.
LEMMA NamedByTable ==
    ASSUME NEW k, IsKey(k)
    PROVE  /\ k[1] = "member" => k = Member(k[2])
           /\ k[1] = "link" => k = Link(k[2], k[3])
           /\ k[1] = "role" => k = RoleKey(k[2])
           /\ k[1] = "app" => k = App(k[2])
           /\ k[1] = "env" => k = Env(k[2], k[3])
           /\ k[1] = "agent" => k = Agent(k[2])
           /\ k[1] = "settings" <=> k = Settings
  BY DEF IsKey, Member, Link, RoleKey, App, Env, Agent, Settings

\* What a row hangs on.
LEMMA ParentsAre ==
    ASSUME NEW k, NEW row
    PROVE  /\ k[1] = "link" => Parents(k, row) = {Member(k[2]), RoleKey(k[3])}
           /\ k[1] = "env" => Parents(k, row) = {App(k[2])}
           /\ k[1] = "agent" => Parents(k, row) = {row.env}
           /\ k[1] \notin {"link", "env", "agent"} => Parents(k, row) = {}
  BY DEF Parents

\* What a row refers to lies in the tables its foreign keys name.
LEMMA ParentTables ==
    ASSUME NEW k, NEW row, IsKey(k), IsRow(k, row), NEW p \in Parents(k, row)
    PROVE  /\ k[1] = "link" => p[1] \in {"member", "role"}
           /\ k[1] = "env" => p[1] = "app"
           /\ k[1] = "agent" => p[1] = "env"
           /\ k[1] \in {"link", "env", "agent"}
           /\ p[1] \in {"member", "role", "app", "env"}
  <1>1. k[1] \in {"link", "env", "agent"}
    BY ParentsAre
  <1>2. CASE k[1] = "link"
    <2>1. p \in {Member(k[2]), RoleKey(k[3])}
      BY <1>2, ParentsAre
    <2> QED  BY <1>2, <2>1, KeyFacts
  <1>3. CASE k[1] = "env"
    <2>1. p = App(k[2])
      BY <1>3, ParentsAre
    <2> QED  BY <1>3, <2>1, KeyFacts
  <1>4. CASE k[1] = "agent"
    <2>1. p = row.env
      BY <1>4, ParentsAre
    <2> QED  BY <1>4, <2>1 DEF IsRow
  <1> QED  BY <1>1, <1>2, <1>3, <1>4

\* ON DELETE CASCADE: what is deleted leaves no row that hangs on it.
LEMMA CascadeIsClosed ==
    ASSUME NEW T, TablesOK(T), NEW K, \A k \in K : k[1] \in {"member", "role", "app"},
           NEW G, G = Cascade(T, K)
    PROVE  /\ K \subseteq G
           /\ \A k \in G : k[1] \in {"member", "role", "app", "link", "env", "agent"}
           /\ \A k \in G : k[1] \in {"member", "role", "app"} => k \in K
           /\ \A k \in G : k[1] = "link" => {Member(k[2]), RoleKey(k[3])} \cap K # {}
           /\ \A k \in DOMAIN T \ G : Parents(k, T[k]) \cap G = {}
  <1> DEFINE Hang(S) == S \cup {k \in DOMAIN T : Parents(k, T[k]) \cap S # {}}
             H == Hang(K)
  <1>1. G = Hang(H)
    BY DEF Cascade
  <1>2. \A k \in DOMAIN T : IsKey(k) /\ IsRow(k, T[k])
    BY DEF TablesOK
  <1>3. \A k \in H : k \in K \/ (k \in DOMAIN T /\ k[1] \in {"link", "env"} /\ Parents(k, T[k]) \cap K # {})
    <2> SUFFICES ASSUME NEW k \in H, k \notin K
                 PROVE  k \in DOMAIN T /\ k[1] \in {"link", "env"} /\ Parents(k, T[k]) \cap K # {}
      OBVIOUS
    <2>1. k \in DOMAIN T /\ Parents(k, T[k]) \cap K # {}
      OBVIOUS
    <2>2. PICK p \in Parents(k, T[k]) : p \in K
      BY <2>1
    <2>3. p[1] \in {"member", "role", "app"}
      BY <2>2
    <2>4. k[1] \in {"link", "env", "agent"} /\ (k[1] = "agent" => p[1] = "env")
      BY <1>2, <2>1, ParentTables
    <2> QED  BY <2>1, <2>3, <2>4
  <1>4. \A k \in G : k \in H \/ (k \in DOMAIN T /\ k[1] = "agent" /\ Parents(k, T[k]) \cap H # {})
    <2> SUFFICES ASSUME NEW k \in G, k \notin H
                 PROVE  k \in DOMAIN T /\ k[1] = "agent" /\ Parents(k, T[k]) \cap H # {}
      OBVIOUS
    <2>1. k \in DOMAIN T /\ Parents(k, T[k]) \cap H # {}
      BY <1>1
    <2>2. PICK p \in Parents(k, T[k]) : p \in H
      BY <2>1
    <2>3. p \notin K
      BY <2>1, <2>2
    <2>4. p[1] \in {"link", "env"}
      BY <1>3, <2>2, <2>3
    <2>5. /\ k[1] \in {"link", "env", "agent"} /\ (k[1] = "link" => p[1] \in {"member", "role"})
          /\ (k[1] = "env" => p[1] = "app")
      BY <1>2, <2>1, ParentTables
    <2> QED  BY <2>1, <2>4, <2>5
  <1>5. K \subseteq G
    BY <1>1
  <1>6. \A k \in G : k[1] \in {"member", "role", "app", "link", "env", "agent"}
    BY <1>3, <1>4
  <1>7. \A k \in G : k[1] \in {"member", "role", "app"} => k \in K
    BY <1>3, <1>4
  <1>8. ASSUME NEW k \in G, k[1] = "link" PROVE {Member(k[2]), RoleKey(k[3])} \cap K # {}
    <2>1. k \in H /\ k \notin K
      BY <1>4, <1>8
    <2>2. Parents(k, T[k]) \cap K # {}
      BY <1>3, <2>1
    <2> QED  BY <1>8, <2>2, ParentsAre
  <1>9. ASSUME NEW k \in DOMAIN T, k \notin G, NEW p \in Parents(k, T[k]), p \in G PROVE FALSE
    <2>1. p \notin H
      BY <1>1, <1>9
    <2>2. p[1] = "agent"
      BY <1>4, <1>9, <2>1
    <2>3. p[1] \in {"member", "role", "app", "env"}
      BY <1>2, <1>9, ParentTables
    <2> QED  BY <2>2, <2>3
  <1> QED  BY <1>5, <1>6, <1>7, <1>8, <1>9

-----------------------------------------------------------------------------
(* What another request commits leaves a decision as good as it was, up to  *)
(* the rows in S.                                                           *)

\* T1 is T but for the rows in K.
Same(T, T1, K) ==
    \A k : k \notin K => /\ k \in DOMAIN T <=> k \in DOMAIN T1
                         /\ k \in DOMAIN T => T1[k] = T[k]

\* A commit of another leaves the room a creation was checked against, or is noted.
LEMMA LicenceKeeps ==
    ASSUME NEW T, NEW T1, NEW K, Same(T, T1, K), NEW e, NEW S, WithinLicence(T, e, S)
    PROVE  WithinLicence(T1, e, S \cup K)
  <1> SUFFICES ASSUME NEW t \in Licensed
               PROVE  LET made == {k \in DOMAIN e.new : k[1] = t}
                      IN /\ \A k, l \in made : k = l
                         /\ made # {} /\ {k \in S \cup K : k[1] = t} = {} /\ Limit(t) >= 0
                              => Cardinality(RowsOf(T1, t)) < Limit(t)
    BY DEF WithinLicence
  <1> DEFINE made == {k \in DOMAIN e.new : k[1] = t}
  <1>1. \A k, l \in made : k = l
    BY DEF WithinLicence
  <1>2. ASSUME made # {}, {k \in S \cup K : k[1] = t} = {}, Limit(t) >= 0
        PROVE  Cardinality(RowsOf(T1, t)) < Limit(t)
    <2>1. {k \in S : k[1] = t} = {} /\ \A k : k[1] = t => k \notin K
      BY <1>2
    <2>2. RowsOf(T1, t) = RowsOf(T, t)
      BY <2>1 DEF RowsOf, Same
    <2> QED  BY <1>2, <2>1, <2>2 DEF WithinLicence
  <1> QED  BY <1>1, <1>2

\* A commit of another leaves the row a mode was read from, or is noted.
LEMMA ModesKeep ==
    ASSUME NEW T, NEW T1, NEW K, Same(T, T1, K), NEW did, NEW e, NEW now, NEW S,
           ModesOK(T, did, e, now, S)
    PROVE  ModesOK(T1, did, e, now, S \cup K)
  BY DEF ModesOK, Same

\* A commit of another leaves the agent or analysis a change was decided on, or is noted.
LEMMA ChangesKeep ==
    ASSUME NEW T, NEW T1, NEW K, Same(T, T1, K), NEW did, NEW about, NEW e, NEW S,
           ChangesOK(T, did, about, e, S)
    PROVE  ChangesOK(T1, did, about, e, S \cup K)
  <1>1. \A k \in DOMAIN e.set : k[1] = "agent" /\ k \notin S \cup K =>
            k \in DOMAIN T1 /\ AgentChange(did, T1[k], e.set[k])
    BY DEF ChangesOK, Same
  <1>2. \A k \in DOMAIN e.set : k = Settings /\ k \notin S \cup K =>
            \A x \in DisabledIn(T1) : x \in e.set[k].disabled \/ (did = "rule on" /\ x = about)
    <2>1. Settings \notin K => DisabledIn(T1) = DisabledIn(T)
      BY DEF DisabledIn, Same
    <2> QED  BY <2>1 DEF ChangesOK
  <1>3. \A k \in DOMAIN e.set : k[1] = "analysis" /\ k \notin S \cup K =>
            k \in DOMAIN T1 /\ T1[k].status = "DRAFT"
    BY DEF ChangesOK, Same
  <1> QED  BY <1>1, <1>2, <1>3 DEF ChangesOK

\* A commit that takes no Owner role away leaves the owners who they are.
LEMMA OwnersKeep ==
    ASSUME NEW T, NEW T1, NEW K, Same(T, T1, K), TablesOK(T), TablesOK(T1), ~Loses(K), NEW i
    PROVE  Owns(T1, i) <=> Owns(T, i)
  <1>1. Link(i, Owner) \notin K
    BY KeyFacts DEF Loses
  <1>2. Link(i, Owner) \in DOMAIN T <=> Link(i, Owner) \in DOMAIN T1
    BY <1>1 DEF Same
  <1>3. \A row : Parents(Link(i, Owner), row) = {Member(i), RoleKey(Owner)}
    BY KeyFacts, ParentsAre
  <1> QED  BY <1>2, <1>3 DEF Owns, TablesOK

\* Who is spared as an Owner stays one while no loss is committed beside it.
LEMMA SparingKeeps ==
    ASSUME NEW T, NEW T1, NEW K, Same(T, T1, K), TablesOK(T), TablesOK(T1), NEW e, NEW S,
           SparesAnOwner(T, e, S)
    PROVE  SparesAnOwner(T1, e, S \cup K)
  <1> SUFFICES ASSUME NEW i, Owns(T1, i), Losing(e, i), ~Loses(S \cup K)
               PROVE  \E j : Owns(T1, j) /\ ~Losing(e, j)
    BY DEF SparesAnOwner
  <1>1. ~Loses(K) /\ ~Loses(S)
    BY DEF Loses
  <1>2. Owns(T, i)
    BY <1>1, OwnersKeep
  <1>3. PICK j : Owns(T, j) /\ ~Losing(e, j)
    BY <1>1, <1>2 DEF SparesAnOwner
  <1>4. Owns(T1, j)
    BY <1>1, <1>3, OwnersKeep
  <1> QED  BY <1>3, <1>4

\* Roles that were read and not written since grant what they granted.
LEMMA CoveredKeeps ==
    ASSUME NEW T, NEW T1, NEW K, Same(T, T1, K), NEW held, NEW e, NEW S, Covered(T, held, e, S)
    PROVE  Covered(T1, held, e, S \cup K)
  <1>1. \A k \in DOMAIN e.new : k[1] = "link" /\ RoleKey(k[3]) \notin S \cup K =>
            RoleKey(k[3]) \in DOMAIN T1 /\ T1[RoleKey(k[3])].permissions \subseteq held
    BY DEF Covered, Same
  <1>2. \A k \in DOMAIN e.set : k[1] = "role" /\ k \notin S \cup K =>
            \/ e.set[k].permissions \subseteq held
            \/ k \in DOMAIN T1 /\ e.set[k].permissions = T1[k].permissions
    BY DEF Covered, Same
  <1> QED  BY <1>1, <1>2 DEF Covered

\* A decision in progress stays as good as it was, up to the rows that changed.
LEMMA DecisionKeeps ==
    ASSUME NEW T, NEW T1, NEW K, Same(T, T1, K), TablesOK(T), TablesOK(T1),
           NEW did, NEW about, NEW held, NEW e, NEW now, NEW S,
           DecisionOK(T, did, about, held, e, now, S)
    PROVE  DecisionOK(T1, did, about, held, e, now, S \cup K)
  BY LicenceKeeps, ModesKeep, ChangesKeep, SparingKeeps, CoveredKeeps DEF DecisionOK

\* What is locked by another request does not move.
LEMMA WroteKeeps ==
    ASSUME NEW T, NEW e, NEW o, Wrote(T, e, o), NEW p, Apart(o, p),
           p.refs = UNION {Parents(k, p.put[k]) : k \in DOMAIN p.put},
           NEW T1, T1 = After(T, p)
    PROVE  Wrote(T1, e, o)
  <1>1. /\ DOMAIN T1 = DOMAIN p.put \cup (DOMAIN T \ p.gone)
        /\ \A k \in DOMAIN p.put : T1[k] = p.put[k]
        /\ \A k \in DOMAIN T \ (p.gone \cup DOMAIN p.put) : T1[k] = T[k]
    BY DEF After, Overlay, Restrict
  <1>2. DOMAIN o.put = DOMAIN e.new \cup DOMAIN e.set
    <2>1. o.put = Overlay(e.new, e.set)
      BY DEF Wrote
    <2> QED  BY <2>1 DEF Overlay
  <1>3. DOMAIN e.set \ Saved \subseteq DOMAIN T1 \ o.gone
    BY <1>1, <1>2 DEF Wrote, Apart, Keys
  <1>4. DOMAIN e.new \cap (DOMAIN T1 \ o.gone) = {}
    BY <1>1, <1>2 DEF Wrote, Apart, Keys
  <1>5. o.refs \subseteq (DOMAIN T1 \ o.gone) \cup DOMAIN e.new
    BY <1>1 DEF Wrote, Apart
  <1>6. ASSUME NEW k \in DOMAIN T1 \ o.gone PROVE Parents(k, T1[k]) \cap o.gone = {}
    <2>1. CASE k \in DOMAIN p.put
      <3>1. Parents(k, T1[k]) \subseteq p.refs
        BY <1>1, <2>1
      <3> QED  BY <3>1 DEF Apart
    <2>2. CASE k \notin DOMAIN p.put
      BY <1>1, <1>6, <2>2 DEF Wrote
    <2> QED  BY <2>1, <2>2
  <1> QED  BY <1>3, <1>4, <1>5, <1>6 DEF Wrote

-----------------------------------------------------------------------------
(* The commit                                                               *)

LEMMA PutFacts ==
    ASSUME NEW T, NEW e, NEW o, Wrote(T, e, o), IsEffect(e)
    PROVE  /\ DOMAIN o.put = DOMAIN e.new \cup DOMAIN e.set
           /\ \A k \in DOMAIN e.new : o.put[k] = e.new[k]
           /\ \A k \in DOMAIN e.set : o.put[k] = e.set[k] /\ k \notin DOMAIN e.new
           /\ \A k \in DOMAIN o.put : IsKey(k) /\ IsRow(k, o.put[k])
  <1>1. o.put = Overlay(e.new, e.set)
    BY DEF Wrote
  <1>2. /\ DOMAIN o.put = DOMAIN e.new \cup DOMAIN e.set
        /\ \A k \in DOMAIN e.new : o.put[k] = e.new[k]
        /\ \A k \in DOMAIN e.set \ DOMAIN e.new : o.put[k] = e.set[k]
    BY <1>1 DEF Overlay
  <1>3. \A k \in DOMAIN e.set : k \notin DOMAIN e.new
    BY DEF IsEffect
  <1> QED  BY <1>2, <1>3 DEF IsEffect

\* A commit changes only the rows it wrote or deleted.
LEMMA CommitSame ==
    ASSUME NEW T, NEW o, NEW T1, T1 = After(T, o)
    PROVE  Same(T, T1, Keys(o))
  BY DEF Same, Keys, After, Overlay, Restrict

\* A request adds one row of a licensed table or none.
LEMMA MadeOne ==
    ASSUME NEW T, NEW e, NEW S, WithinLicence(T, e, S), NEW t \in Licensed,
           NEW made, made = {k \in DOMAIN e.new : k[1] = t}
    PROVE  IsFiniteSet(made) /\ Cardinality(made) \in {0, 1} /\ (Cardinality(made) = 0 <=> made = {})
  <1>1. \A k, l \in made : k = l
    BY DEF WithinLicence
  <1>2. made = {} \/ \E k : made = {k}
    <2> SUFFICES ASSUME made # {} PROVE \E k : made = {k}
      OBVIOUS
    <2>1. PICK k : k \in made
      OBVIOUS
    <2>2. made = {k}
      BY <1>1, <2>1
    <2> QED  BY <2>2
  <1>3. CASE made = {}
    <2>1. IsFiniteSet(made) /\ Cardinality(made) = 0
      BY <1>3, FS_EmptySet
    <2> QED  BY <1>3, <2>1
  <1>4. CASE \E k : made = {k}
    <2>1. PICK k : made = {k}
      BY <1>4
    <2>2. IsFiniteSet({k}) /\ Cardinality({k}) = 1
      BY FS_Singleton
    <2>3. IsFiniteSet(made) /\ Cardinality(made) = 1 /\ made # {}
      BY <2>1, <2>2
    <2> QED  BY <2>3
  <1> QED  BY <1>2, <1>3, <1>4

\* A licensed table grows by no more than the rows that were added.
LEMMA CommitRows ==
    ASSUME NEW T, NEW e, NEW o, Wrote(T, e, o), IsEffect(e), NEW T1, T1 = After(T, o),
           NEW t \in Licensed
    PROVE  RowsOf(T1, t) \subseteq RowsOf(T, t) \cup {k \in DOMAIN e.new : k[1] = t}
  <1> SUFFICES ASSUME NEW k \in DOMAIN T1, k[1] = t
               PROVE  k \in DOMAIN T \/ k \in DOMAIN e.new
    BY DEF RowsOf
  <1>1. k \in DOMAIN o.put \/ k \in DOMAIN T
    BY DEF After, Overlay, Restrict, IsFunction
  <1>2. k \in DOMAIN e.new \/ k \in DOMAIN e.set \/ k \in DOMAIN T
    BY <1>1, PutFacts
  <1>3. k # Settings
    BY DEF Licensed, Settings
  <1> QED  BY <1>2, <1>3 DEF Wrote, Saved, Settings

\* A commit leaves well-formed rows whose references hold.
LEMMA CommitTables ==
    ASSUME NEW T, TablesOK(T), NEW e, NEW o, Wrote(T, e, o), IsEffect(e),
           NEW S, WithinLicence(T, e, S), NEW T1, T1 = After(T, o)
    PROVE  TablesOK(T1)
  <1>1. /\ IsFunction(T1)
        /\ DOMAIN T1 = DOMAIN o.put \cup (DOMAIN T \ o.gone)
        /\ \A k \in DOMAIN o.put : T1[k] = o.put[k]
        /\ \A k \in DOMAIN T \ (o.gone \cup DOMAIN o.put) : T1[k] = T[k]
    BY DEF After, Overlay, Restrict, IsFunction
  <1>2. /\ DOMAIN o.put = DOMAIN e.new \cup DOMAIN e.set
        /\ \A k \in DOMAIN o.put : IsKey(k) /\ IsRow(k, o.put[k])
    BY PutFacts
  <1>3. ASSUME NEW k \in DOMAIN T1
        PROVE  IsKey(k) /\ IsRow(k, T1[k]) /\ Parents(k, T1[k]) \subseteq DOMAIN T1
    <2>1. CASE k \in DOMAIN o.put
      <3>1. Parents(k, T1[k]) \subseteq o.refs
        BY <1>1, <2>1 DEF Wrote
      <3>2. o.refs \subseteq DOMAIN T1
        BY <1>1, <1>2 DEF Wrote
      <3> QED  BY <1>1, <1>2, <2>1, <3>1, <3>2
    <2>2. CASE k \notin DOMAIN o.put
      <3>1. k \in DOMAIN T \ o.gone /\ T1[k] = T[k]
        BY <1>1, <1>3, <2>2
      <3>2. Parents(k, T[k]) \subseteq DOMAIN T \ o.gone
        BY <3>1 DEF TablesOK, Wrote
      <3> QED  BY <1>1, <3>1, <3>2 DEF TablesOK
    <2> QED  BY <2>1, <2>2
  <1>4. RoleKey(Owner) \in DOMAIN T1 /\ T1[RoleKey(Owner)].system = TRUE
    <2>1. RoleKey(Owner) \notin o.gone
      <3>1. RoleKey(Owner)[1] = "role"
        BY KeyFacts
      <3> QED  BY <3>1 DEF Wrote, IsEffect
    <2>2. RoleKey(Owner) \notin DOMAIN o.put
      BY <1>2, <2>1 DEF TablesOK, Wrote, IsEffect
    <2> QED  BY <1>1, <2>1, <2>2 DEF TablesOK
  <1>5. ASSUME NEW t \in Licensed PROVE IsFiniteSet(RowsOf(T1, t))
    <2> DEFINE made == {k \in DOMAIN e.new : k[1] = t}
    <2>1. IsFiniteSet(made)
      BY MadeOne
    <2>2. IsFiniteSet(RowsOf(T, t))
      BY DEF TablesOK
    <2>3. RowsOf(T1, t) \subseteq RowsOf(T, t) \cup made
      BY CommitRows
    <2> HIDE DEF made
    <2>4. IsFiniteSet(RowsOf(T, t) \cup made)
      BY <2>1, <2>2, FS_Union
    <2> QED  BY <2>3, <2>4, FS_Subset
  <1> QED  BY <1>1, <1>3, <1>4, <1>5 DEF TablesOK

\* What is counted against the licence once a request has committed.
OverrunAfter(over, e, S) ==
    [t \in Licensed |-> over[t] +
        IF {k \in S : k[1] = t} = {} THEN 0 ELSE Cardinality({k \in DOMAIN e.new : k[1] = t})]

\* A commit keeps the licence, or counts what was created beside another change.
LEMMA CommitQuota ==
    ASSUME NEW T, TablesOK(T), NEW e, NEW o, Wrote(T, e, o), IsEffect(e),
           NEW S, WithinLicence(T, e, S), NEW T1, T1 = After(T, o),
           NEW over, QuotaOK(T, over), NEW over1, over1 = OverrunAfter(over, e, S)
    PROVE  QuotaOK(T1, over1)
  <1>1. ASSUME NEW t \in Licensed
        PROVE  over1[t] \in Nat /\ (Limit(t) >= 0 => Cardinality(RowsOf(T1, t)) <= Limit(t) + over1[t])
    <2> DEFINE made == {k \in DOMAIN e.new : k[1] = t}
               beside == {k \in S : k[1] = t}
    <2>1. over[t] \in Nat /\ over1[t] = over[t] + IF beside = {} THEN 0 ELSE Cardinality(made)
      BY DEF QuotaOK, OverrunAfter
    <2>2. IsFiniteSet(made) /\ Cardinality(made) \in {0, 1} /\ (Cardinality(made) = 0 <=> made = {})
      BY MadeOne
    <2>3. IsFiniteSet(RowsOf(T, t))
      BY DEF TablesOK
    <2>4. RowsOf(T1, t) \subseteq RowsOf(T, t) \cup made
      BY CommitRows
    <2>5. made # {} /\ beside = {} /\ Limit(t) >= 0 => Cardinality(RowsOf(T, t)) < Limit(t)
      BY DEF WithinLicence
    <2>6. Limit(t) >= 0 => Cardinality(RowsOf(T, t)) <= Limit(t) + over[t]
      BY DEF QuotaOK
    <2> HIDE DEF made, beside
    <2>7. /\ IsFiniteSet(RowsOf(T, t) \cup made)
          /\ Cardinality(RowsOf(T, t) \cup made) <= Cardinality(RowsOf(T, t)) + Cardinality(made)
      <3>1. IsFiniteSet(RowsOf(T, t) \cap made)
        BY <2>2, FS_Intersection
      <3>2. Cardinality(RowsOf(T, t) \cap made) \in Nat
        BY <3>1, FS_CardinalityType
      <3>3. Cardinality(RowsOf(T, t)) \in Nat
        BY <2>3, FS_CardinalityType
      <3>4. /\ IsFiniteSet(RowsOf(T, t) \cup made)
            /\ Cardinality(RowsOf(T, t) \cup made)
                 = Cardinality(RowsOf(T, t)) + Cardinality(made) - Cardinality(RowsOf(T, t) \cap made)
        BY <2>2, <2>3, FS_Union
      <3> QED  BY <2>2, <3>2, <3>3, <3>4
    <2>8. /\ Cardinality(RowsOf(T1, t)) <= Cardinality(RowsOf(T, t) \cup made)
          /\ Cardinality(RowsOf(T1, t)) \in Nat
      <3>1. /\ IsFiniteSet(RowsOf(T1, t))
            /\ Cardinality(RowsOf(T1, t)) <= Cardinality(RowsOf(T, t) \cup made)
        BY <2>4, <2>7, FS_Subset
      <3> QED  BY <3>1, FS_CardinalityType
    <2>9. Cardinality(RowsOf(T, t)) \in Nat /\ Cardinality(RowsOf(T, t) \cup made) \in Nat
      BY <2>3, <2>7, FS_CardinalityType
    <2>10. Limit(t) \in Int
      BY LicenceAssumption DEF Limit
    <2> QED  BY <2>1, <2>2, <2>5, <2>6, <2>7, <2>8, <2>9, <2>10
  <1>2. over1 \in [Licensed -> Nat]
    BY <1>1 DEF OverrunAfter
  <1> QED  BY <1>1, <1>2 DEF QuotaOK

\* The rows a request sets stay rows; what it deletes is never a decision.
LEMMA CommitFacts ==
    ASSUME NEW T, TablesOK(T), NEW e, NEW o, Wrote(T, e, o), IsEffect(e), NEW T1, T1 = After(T, o)
    PROVE  /\ \A k \in DOMAIN T1 : k \in DOMAIN o.put \/ (k \in DOMAIN T /\ T1[k] = T[k])
           /\ \A k \in DOMAIN e.new : k \in DOMAIN T1 /\ T1[k] = e.new[k] /\ (k \in DOMAIN T => k \in o.gone)
           /\ \A k \in DOMAIN e.set : k \in DOMAIN T1 /\ T1[k] = e.set[k]
           /\ \A k \in DOMAIN T : k \in DOMAIN T1 \/ k \in o.gone
           /\ \A k \in o.gone : k[1] \in {"member", "role", "app", "link", "env", "agent"}
  <1>1. /\ DOMAIN T1 = DOMAIN o.put \cup (DOMAIN T \ o.gone)
        /\ \A k \in DOMAIN o.put : T1[k] = o.put[k]
        /\ \A k \in DOMAIN T \ (o.gone \cup DOMAIN o.put) : T1[k] = T[k]
    BY DEF After, Overlay, Restrict
  <1>2. /\ DOMAIN o.put = DOMAIN e.new \cup DOMAIN e.set
        /\ \A k \in DOMAIN e.new : o.put[k] = e.new[k]
        /\ \A k \in DOMAIN e.set : o.put[k] = e.set[k]
    BY PutFacts
  <1> QED  BY <1>1, <1>2 DEF Wrote

\* The decisions that stand once a request has committed.
Done(did, about, o) ==
    IF did \in {"disable", "rule off", "review"} THEN {<<k, about>> : k \in DOMAIN o.put} ELSE {}

Undone(did, about, o) ==
    IF did \in {"enable", "register", "rule on"} THEN {<<k, about>> : k \in DOMAIN o.put} ELSE {}

StandingAfter(held, did, about, o, S) ==
    {d \in held : d[1] \notin DOMAIN o.put \cap S /\ d \notin Undone(did, about, o)}
        \cup Done(did, about, o)

\* A commit undoes no decision but the ones it withdraws or overwrites.
LEMMA CommitStanding ==
    ASSUME NEW T, TablesOK(T), NEW e, NEW o, Wrote(T, e, o), IsEffect(e), NEW T1, T1 = After(T, o),
           NEW did, NEW about, NEW S, ChangesOK(T, did, about, e, S),
           NEW held, StandingOK(T, held), NEW held1,
           held1 = StandingAfter(held, did, about, o, S)
    PROVE  StandingOK(T1, held1)
  <1> DEFINE Moves(d) ==
        \/ /\ d \in held /\ d[1] \notin DOMAIN o.put \cap S
           /\ ~(did \in {"enable", "register", "rule on"} /\ d[1] \in DOMAIN o.put /\ d[2] = about)
        \/ did \in {"disable", "rule off", "review"} /\ d[1] \in DOMAIN o.put /\ d[2] = about
  <1>0. \A d \in held1 : d = <<d[1], d[2]>> /\ Moves(d)
    <2>1. ASSUME NEW d \in held, d[1] \notin DOMAIN o.put \cap S, d \notin Undone(did, about, o)
          PROVE  d = <<d[1], d[2]>> /\ Moves(d)
      <3>1. d = <<d[1], d[2]>>
        BY DEF StandingOK
      <3> QED  BY <2>1, <3>1 DEF Undone
    <2>2. ASSUME NEW d \in Done(did, about, o) PROVE d = <<d[1], d[2]>> /\ Moves(d)
      <3>1. did \in {"disable", "rule off", "review"} /\ \E k \in DOMAIN o.put : d = <<k, about>>
        BY DEF Done
      <3>2. PICK k \in DOMAIN o.put : d = <<k, about>>
        BY <3>1
      <3>3. d[1] = k /\ d[2] = about
        BY <3>2
      <3> QED  BY <3>1, <3>2, <3>3
    <2> HIDE DEF Moves
    <2>3. \A d \in held1 : \/ d \in held /\ d[1] \notin DOMAIN o.put \cap S /\ d \notin Undone(did, about, o)
                           \/ d \in Done(did, about, o)
      BY DEF StandingAfter
    <2> QED  BY <2>1, <2>2, <2>3
  <1>1. /\ \A r \in DOMAIN T1 : r \in DOMAIN o.put \/ (r \in DOMAIN T /\ T1[r] = T[r])
        /\ \A r \in DOMAIN e.new : r \in DOMAIN T => r \in o.gone
        /\ \A r \in DOMAIN e.set : r \in DOMAIN T1 /\ T1[r] = e.set[r]
        /\ \A r \in DOMAIN T : r \in DOMAIN T1 \/ r \in o.gone
        /\ \A r \in o.gone : r[1] \in {"member", "role", "app", "link", "env", "agent"}
    BY CommitFacts
  <1>2. DOMAIN o.put = DOMAIN e.new \cup DOMAIN e.set
    BY PutFacts
  <1>3. Settings[1] = "settings"
    BY KeyFacts
  <1> SUFFICES ASSUME NEW d, d = <<d[1], d[2]>>, Moves(d)
      PROVE  \/ /\ d[1][1] = "agent" /\ d[2] = ""
                /\ d[1] \in DOMAIN T1 => T1[d[1]].status = "DISABLED"
             \/ d[1] = Settings /\ d[1] \in DOMAIN T1 /\ d[2] \in T1[Settings].disabled
             \/ /\ d[1][1] = "analysis" /\ d[1] \in DOMAIN T1
                /\ d[2] \in {"ACCEPTED", "REJECTED"} /\ T1[d[1]].status = d[2]
    BY <1>0 DEF StandingOK
  <1> DEFINE k == d[1]  x == d[2]
  <1> HIDE DEF k, x
  <1>4. CASE did \in {"disable", "rule off", "review"} /\ k \in DOMAIN o.put /\ x = about
    <2>1. k \in DOMAIN e.set /\ k \in DOMAIN T1 /\ T1[k] = e.set[k]
      BY <1>1, <1>2, <1>4 DEF ChangesOK
    <2>2. CASE did = "disable"
      BY <1>4, <2>1, <2>2 DEF ChangesOK, k, x
    <2>3. CASE did = "rule off"
      BY <1>3, <1>4, <2>1, <2>3 DEF ChangesOK, k, x
    <2>4. CASE did = "review"
      BY <1>4, <2>1, <2>4 DEF ChangesOK, k, x
    <2> QED  BY <1>4, <2>2, <2>3, <2>4
  <1>5. CASE /\ d \in held /\ k \notin DOMAIN o.put \cap S
             /\ ~(did \in {"enable", "register", "rule on"} /\ k \in DOMAIN o.put /\ x = about)
    <2>1. CASE k[1] = "agent" /\ x = "" /\ (k \in DOMAIN T => T[k].status = "DISABLED")
      <3>1. ASSUME k \in DOMAIN T1 PROVE T1[k].status = "DISABLED"
        <4>1. CASE k \notin DOMAIN o.put
          BY <1>1, <2>1, <3>1, <4>1
        <4>2. CASE k \in DOMAIN e.new
          BY <1>2, <1>5, <2>1, <4>2 DEF ChangesOK
        <4>3. CASE k \in DOMAIN e.set
          <5>1. k \notin S /\ k \in DOMAIN T /\ AgentChange(did, T[k], e.set[k]) /\ about = ""
                /\ did \in {"register", "enable", "disable", "pin", "heartbeat", "sweep"}
            BY <1>2, <1>5, <2>1, <4>3 DEF ChangesOK
          <5>2. did \notin {"enable", "register"}
            BY <1>2, <1>5, <2>1, <4>3, <5>1
          <5>3. T1[k] = e.set[k]
            BY <1>1, <4>3
          <5>4. did = "disable" => e.set[k].status = "DISABLED"
            BY <4>3 DEF ChangesOK
          <5> QED  BY <2>1, <5>1, <5>2, <5>3, <5>4 DEF AgentChange
        <4> QED  BY <1>2, <4>1, <4>2, <4>3
      <3> QED  BY <2>1, <3>1 DEF k, x
    <2>2. CASE k = Settings /\ k \in DOMAIN T /\ x \in T[Settings].disabled
      <3>1. k \in DOMAIN T1
        BY <1>1, <1>3, <2>2
      <3>2. x \in T1[k].disabled
        <4>1. CASE k \notin DOMAIN o.put
          BY <1>1, <2>2, <3>1, <4>1
        <4>2. CASE k \in DOMAIN e.new
          BY <2>2, <4>2 DEF IsEffect
        <4>3. CASE k \in DOMAIN e.set
          <5>1. x \in DisabledIn(T)
            BY <2>2 DEF DisabledIn
          <5>2. x \in e.set[k].disabled \/ (did = "rule on" /\ x = about)
            BY <1>2, <1>5, <2>2, <4>3, <5>1 DEF ChangesOK
          <5>3. x \in e.set[k].disabled
            BY <1>2, <1>5, <4>3, <5>2
          <5> QED  BY <1>1, <4>3, <5>3
        <4> QED  BY <1>2, <4>1, <4>2, <4>3
      <3> QED  BY <2>2, <3>1, <3>2 DEF k, x
    <2>3. CASE k[1] = "analysis" /\ k \in DOMAIN T /\ x \in {"ACCEPTED", "REJECTED"} /\ T[k].status = x
      <3>1. k \in DOMAIN T1 /\ k \notin o.gone
        BY <1>1, <2>3
      <3>2. T1[k].status = x
        <4>1. CASE k \notin DOMAIN o.put
          BY <1>1, <2>3, <3>1, <4>1
        <4>2. CASE k \in DOMAIN e.new
          BY <1>1, <2>3, <3>1, <4>2
        <4>3. CASE k \in DOMAIN e.set
          <5>1. T[k].status = "DRAFT"
            BY <1>2, <1>5, <2>3, <4>3 DEF ChangesOK
          <5> QED  BY <2>3, <5>1
        <4> QED  BY <1>2, <4>1, <4>2, <4>3
      <3> QED  BY <2>3, <3>1, <3>2 DEF k, x
    <2>4. \/ k[1] = "agent" /\ x = "" /\ (k \in DOMAIN T => T[k].status = "DISABLED")
          \/ k = Settings /\ k \in DOMAIN T /\ x \in T[Settings].disabled
          \/ k[1] = "analysis" /\ k \in DOMAIN T /\ x \in {"ACCEPTED", "REJECTED"} /\ T[k].status = x
      BY <1>5 DEF StandingOK, k, x
    <2> QED  BY <2>1, <2>2, <2>3, <2>4
  <1> QED  BY <1>4, <1>5 DEF k, x

\* The environments a request puts into monitor mode.
Entering(T, did, o) ==
    {k \in DOMAIN o.put : did = "set mode" /\ T[k].mode # "MONITOR" /\ o.put[k].mode = "MONITOR"}

SinceAfter(T, did, o, now, from) == Overlay([k \in Entering(T, did, o) |-> now], from)
BlurredAfter(blur, o, S) == blur \cup {k \in DOMAIN o.put \cap S : k[1] = "env"}

\* A commit lets production block only after its soak, or from a row that had changed.
LEMMA CommitSoak ==
    ASSUME NEW T, TablesOK(T), NEW e, NEW o, Wrote(T, e, o), IsEffect(e), NEW T1, T1 = After(T, o),
           NEW did, NEW S, NEW now \in Nat, NEW time \in Nat, now <= time, ModesOK(T, did, e, now, S),
           NEW from, NEW blur, SoakOK(T, from, blur, time), NEW from1, NEW blur1,
           from1 = SinceAfter(T, did, o, now, from), blur1 = BlurredAfter(blur, o, S)
    PROVE  SoakOK(T1, from1, blur1, time)
  <1>1. /\ \A r \in DOMAIN T1 : r \in DOMAIN o.put \/ (r \in DOMAIN T /\ T1[r] = T[r])
        /\ \A r \in DOMAIN e.new : r \in DOMAIN T1 /\ T1[r] = e.new[r]
        /\ \A r \in DOMAIN e.set : r \in DOMAIN T1 /\ T1[r] = e.set[r]
    BY CommitFacts
  <1>2. /\ DOMAIN o.put = DOMAIN e.new \cup DOMAIN e.set
        /\ \A k \in DOMAIN e.set : o.put[k] = e.set[k]
    BY PutFacts
  <1>3. /\ IsFunction(from1)
        /\ \A k \in DOMAIN from \ Entering(T, did, o) : k \in DOMAIN from1 /\ from1[k] = from[k]
        /\ \A k \in Entering(T, did, o) : k \in DOMAIN from1 /\ from1[k] = now
    BY DEF SinceAfter, Overlay, IsFunction
  <1>4. ASSUME NEW k \in RowsOf(T1, "env") \ blur1
        PROVE  /\ T1[k].soak # Never => k \in DOMAIN from1 /\ from1[k] + Soak = T1[k].soak
               /\ k[3] = "PRODUCTION" /\ T1[k].mode = "BLOCK" => T1[k].soak # Never /\ T1[k].soak <= time
    <2>1. k \in DOMAIN T1 /\ k[1] = "env" /\ k \notin blur /\ ~(k \in DOMAIN o.put /\ k \in S)
      BY <1>4 DEF BlurredAfter, RowsOf
    <2>2. k \in DOMAIN T => /\ T[k].soak # Never => k \in DOMAIN from /\ from[k] + Soak = T[k].soak
                            /\ k[3] = "PRODUCTION" /\ T[k].mode = "BLOCK" =>
                                  T[k].soak # Never /\ T[k].soak <= time
      BY <2>1 DEF SoakOK, RowsOf
    <2>3. CASE k \notin DOMAIN o.put
      <3>1. k \in DOMAIN T /\ T1[k] = T[k] /\ k \notin Entering(T, did, o)
        BY <1>1, <2>1, <2>3 DEF Entering
      <3> QED  BY <1>3, <2>2, <3>1
    <2>4. CASE k \in DOMAIN e.new
      <3>1. T1[k] = NewEnv
        BY <1>1, <2>1, <2>4 DEF ModesOK
      <3> QED  BY <3>1 DEF NewEnv
    <2>5. CASE k \in DOMAIN e.set
      <3>1. did = "set mode" /\ k \in DOMAIN T /\ NextMode(T[k], e.set[k], k, now)
        BY <1>2, <2>1, <2>5 DEF ModesOK
      <3>2. T1[k] = e.set[k] /\ o.put[k] = e.set[k] /\ k \in DOMAIN o.put
        BY <1>1, <1>2, <2>5
      <3>3. T[k].soak \in Int
        BY <2>1, <3>1 DEF TablesOK, IsRow
      <3>4. CASE k \in Entering(T, did, o)
        <4>1. T[k].mode # "MONITOR" /\ e.set[k].mode = "MONITOR"
          BY <3>2, <3>4 DEF Entering
        <4>2. e.set[k].soak = now + Soak
          BY <3>1, <4>1 DEF NextMode
        <4> QED  BY <1>3, <3>2, <3>4, <4>1, <4>2
      <3>5. CASE k \notin Entering(T, did, o)
        <4>1. e.set[k].soak = T[k].soak
          BY <3>1, <3>2, <3>5 DEF Entering, NextMode
        <4>2. k[3] = "PRODUCTION" /\ e.set[k].mode = "BLOCK" => T[k].soak # Never /\ T[k].soak <= time
          <5>1. k[3] = "PRODUCTION" /\ e.set[k].mode = "BLOCK" => T[k].soak # Never /\ T[k].soak <= now
            BY <3>1 DEF NextMode
          <5> QED  BY <3>3, <5>1
        <4> QED  BY <1>3, <2>2, <3>1, <3>2, <3>5, <4>1, <4>2
      <3> QED  BY <3>4, <3>5
    <2> QED  BY <1>2, <2>3, <2>4, <2>5
  <1> QED  BY <1>3, <1>4 DEF SoakOK

\* Who does not lose the Owner role in a commit has it after.
LEMMA OwnerStays ==
    ASSUME NEW T, TablesOK(T), NEW e, NEW o, Wrote(T, e, o), IsEffect(e), NEW T1, T1 = After(T, o),
           NEW i, Owns(T, i), ~Losing(e, i)
    PROVE  Owns(T1, i)
  <1>1. /\ \A k \in DOMAIN e.new : k \in DOMAIN T1
        /\ \A k \in DOMAIN T : k \in DOMAIN T1 \/ k \in o.gone
    BY CommitFacts
  <1>2. Member(i) \notin o.gone
    <2>1. Member(i)[1] = "member"
      BY KeyFacts
    <2> QED  BY <2>1 DEF Losing, Wrote
  <1>3. Link(i, Owner) \in o.gone => Link(i, Owner) \in DOMAIN e.new
    <2>1. Link(i, Owner)[1] = "link" /\ Link(i, Owner)[2] = i /\ Link(i, Owner)[3] = Owner
      BY KeyFacts
    <2>2. Link(i, Owner) \in o.gone => i \in e.unlink \/ {Member(i), RoleKey(Owner)} \cap e.gone # {}
      BY <2>1 DEF Wrote
    <2> QED  BY <2>2 DEF Losing, IsEffect
  <1> QED  BY <1>1, <1>2, <1>3 DEF Owns

\* A commit leaves an Owner, or is a loss beside another loss.
LEMMA CommitOwners ==
    ASSUME NEW T, TablesOK(T), NEW e, NEW o, Wrote(T, e, o), IsEffect(e), NEW T1, T1 = After(T, o),
           TablesOK(T1), NEW S, SparesAnOwner(T, e, S), \E i : Owns(T, i)
    PROVE  \/ \E i : Owns(T1, i)
           \/ Loses({k \in o.gone : k \in DOMAIN T /\ k \notin DOMAIN o.put}) /\ Loses(S)
  <1>1. PICK i : Owns(T, i)
    OBVIOUS
  <1>2. CASE \E j : Owns(T, j) /\ ~Losing(e, j)
    BY <1>2, OwnerStays
  <1>3. CASE \A j : Owns(T, j) => Losing(e, j)
    <2>1. Loses(S)
      BY <1>1, <1>3 DEF SparesAnOwner
    <2>2. CASE Link(i, Owner) \in DOMAIN T1
      <3>1. Parents(Link(i, Owner), T1[Link(i, Owner)]) = {Member(i), RoleKey(Owner)}
        BY KeyFacts, ParentsAre
      <3>2. Owns(T1, i)
        BY <2>2, <3>1 DEF Owns, TablesOK
      <3> QED  BY <3>2
    <2>3. CASE Link(i, Owner) \notin DOMAIN T1
      <3> DEFINE lost == {k \in o.gone : k \in DOMAIN T /\ k \notin DOMAIN o.put}
      <3>1. Link(i, Owner) \in lost
        BY <1>1, <2>3 DEF After, Overlay, Restrict, Owns
      <3>2. Link(i, Owner)[1] = "link" /\ Link(i, Owner)[3] = Owner
        BY KeyFacts
      <3>3. Loses(lost)
        BY <3>1, <3>2 DEF Loses
      <3> QED  BY <2>1, <3>3
    <2> QED  BY <2>2, <2>3
  <1> QED  BY <1>2, <1>3

-----------------------------------------------------------------------------
(* One client moves                                                         *)

LEMMA ApartIsMutual ==
    ASSUME NEW o, NEW p, Apart(o, p)
    PROVE  Apart(p, o)
  BY DEF Apart

\* Whoever has written nothing is in nobody's way.
LEMMA NothingIsApart ==
    ASSUME NEW o
    PROVE  Apart(Nothing, o)
  <1>1. DOMAIN Nothing.put = {} /\ Nothing.gone = {} /\ Nothing.refs = {}
    BY NoRow DEF Nothing
  <1>2. Keys(Nothing) = {}
    BY <1>1 DEF Keys
  <1> QED  BY <1>1, <1>2 DEF Apart

\* What does not touch the rows that are committed.
LEMMA OneClient ==
    ASSUME IInv, NEW c \in Clients, NEW w, NEW o,
           work' = [work EXCEPT ![c] = w], own' = [own EXCEPT ![c] = o],
           UNCHANGED <<db, clock, history>>,
           Fine(db, w, o, clock), \A d \in Clients \ {c} : Apart(o, own[d])
    PROVE  IInv'
  <1>1. /\ work' = [d \in Clients |-> IF d = c THEN w ELSE work[d]]
        /\ own' = [d \in Clients |-> IF d = c THEN o ELSE own[d]]
    BY DEF IInv
  <1>2. /\ work' = [d \in Clients |-> work'[d]] /\ own' = [d \in Clients |-> own'[d]]
        /\ \A d \in Clients : work'[d] = IF d = c THEN w ELSE work[d]
        /\ \A d \in Clients : own'[d] = IF d = c THEN o ELSE own[d]
    BY <1>1
  <1>3. db' = db /\ clock' = clock /\ overrun' = overrun /\ standing' = standing /\ since' = since
        /\ blurred' = blurred /\ deposed' = deposed
    BY DEF history
  <1>4. \A d \in Clients : Fine(db', work'[d], own'[d], clock')
    BY <1>2, <1>3 DEF IInv
  <1>5. \A d, f \in Clients : d # f => Apart(own'[d], own'[f])
    BY <1>2, ApartIsMutual DEF IInv
  <1>6. /\ clock' \in Nat /\ TablesOK(db') /\ QuotaOK(db', overrun') /\ StandingOK(db', standing')
        /\ SoakOK(db', since', blurred', clock') /\ ((\E i : Owns(db', i)) \/ deposed' = TRUE)
    BY <1>3 DEF IInv
  <1> QED  BY <1>2, <1>4, <1>5, <1>6 DEF IInv

\* The same, when it writes nothing.
LEMMA OneClientReads ==
    ASSUME IInv, NEW c \in Clients, NEW w, work' = [work EXCEPT ![c] = w], UNCHANGED <<own, db, clock, history>>,
           Fine(db, w, own[c], clock)
    PROVE  IInv'
  <1>1. own' = [own EXCEPT ![c] = own[c]]
    BY DEF IInv
  <1>2. \A d \in Clients \ {c} : Apart(own[c], own[d])
    BY DEF IInv
  <1> QED  BY <1>1, <1>2, OneClient

\* A request begins.
LEMMA ResolveStep ==
    ASSUME IInv, NEW c \in Clients, NEW who, NEW held, Resolve(c, who, held), Keep
    PROVE  IInv'
  <1> DEFINE w == [pc |-> "called", who |-> who, permissions |-> held, id |-> requests + 1]
  <1>1. work' = [work EXCEPT ![c] = w]
    BY DEF Resolve
  <1>2. own[c] = Nothing
    BY DEF Resolve, Idle, IInv, Fine
  <1>3. Fine(db, w, own[c], clock)
    BY <1>2 DEF Fine, Busy
  <1> QED  BY <1>1, <1>3, OneClientReads DEF Resolve, Keep

\* The rule to be switched is found.
LEMMA FindStep ==
    ASSUME IInv, NEW c \in Clients, FindRule(c), Keep
    PROVE  IInv'
  <1>1. PICK rule \in Current :
          work' = [work EXCEPT ![c] = [pc |-> "found", rule |-> rule, who |-> @.who,
                                       permissions |-> @.permissions]]
    BY DEF FindRule
  <1> DEFINE w == [pc |-> "found", rule |-> rule, who |-> work[c].who, permissions |-> work[c].permissions]
  <1>2. work' = [work EXCEPT ![c] = w]
    BY <1>1
  <1>3. own[c] = Nothing
    BY DEF FindRule, Called, IInv, Fine
  <1>4. Fine(db, w, own[c], clock)
    BY <1>3 DEF Fine, Busy
  <1> QED  BY <1>2, <1>4, OneClientReads DEF FindRule, Keep

\* A decision that is good on the rows as they are keeps the invariant.
LEMMA DecideStep ==
    ASSUME IInv, NEW c \in Clients, work[c].pc \in {"called", "found"}, NEW did, NEW about, NEW e,
           Decide(c, did, about, e), Keep,
           DecisionOK(db, did, about, work[c].permissions, e, clock, {})
    PROVE  IInv'
  <1> DEFINE w == [pc |-> IF e.unlink = {} THEN "write" ELSE "unlink", did |-> did,
                   about |-> about, who |-> work[c].who, permissions |-> work[c].permissions,
                   effect |-> e, now |-> clock, stale |-> {}]
  <1>1. work' = [work EXCEPT ![c] = w]
    BY DEF Decide
  <1>2. own[c] = Nothing
    BY DEF IInv, Fine
  <1>3. IsDecided(w)
    BY DEF IsDecided
  <1>4. /\ w.pc # "commit" /\ w.now = clock /\ w.did = did /\ w.about = about /\ w.effect = e /\ w.stale = {}
        /\ w.permissions = work[c].permissions /\ (w.pc = "unlink" => e.unlink # {})
    OBVIOUS
  <1> HIDE DEF w
  <1>5. Fine(db, w, own[c], clock)
    BY <1>2, <1>3, <1>4 DEF Fine, IInv
  <1> QED  BY <1>1, <1>5, OneClientReads DEF Decide, Keep

\* A request ends without a trace.
LEMMA FailStep ==
    ASSUME IInv, NEW c \in Clients, Fail(c), Keep
    PROVE  IInv'
  <1>1. Fine(db, Idle, Nothing, clock)
    BY DEF Fine, Busy, Idle
  <1>2. \A d \in Clients \ {c} : Apart(Nothing, own[d])
    BY NothingIsApart
  <1> QED  BY <1>1, <1>2, OneClient DEF Fail, Keep

\* DELETE FROM membership_roles picks links of the member only.
LEMMA UnlinkStep ==
    ASSUME IInv, NEW c \in Clients, Unlink(c), Keep
    PROVE  IInv'
  <1> DEFINE w == work[c]
             links == {k \in Table("link") : k[2] \in w.effect.unlink}
             e == [w.effect EXCEPT !.gone = links]
             w1 == [[w EXCEPT !.pc = "write"] EXCEPT !.effect = e]
  <1>1. /\ w.pc = "unlink" /\ Fine(db, w, own[c], clock) /\ IsDecided(w)
        /\ DecisionOK(db, w.did, w.about, w.permissions, w.effect, w.now, w.stale)
        /\ w.now \in Nat /\ w.now <= clock /\ own[c] = Nothing /\ w.effect.unlink # {}
    BY DEF Unlink, IInv, Fine, Busy
  <1>2. work' = [work EXCEPT ![c] = w1]
    BY <1>1 DEF Unlink, IInv, IsDecided
  <1>3. /\ w1.pc = "write" /\ w1.effect = e /\ w1.did = w.did /\ w1.about = w.about /\ w1.now = w.now
        /\ w1.permissions = w.permissions /\ w1.stale = w.stale /\ IsDecided(w1)
    <2>1. w = [pc |-> w.pc, did |-> w.did, about |-> w.about, who |-> w.who,
               permissions |-> w.permissions, effect |-> w.effect, now |-> w.now, stale |-> w.stale]
      BY <1>1 DEF IsDecided
    <2> DEFINE v == [w EXCEPT !.pc = "write"]
    <2> HIDE DEF e, w
    <2>3. v = [pc |-> "write", did |-> w.did, about |-> w.about, who |-> w.who,
               permissions |-> w.permissions, effect |-> w.effect, now |-> w.now, stale |-> w.stale]
      BY <2>1
    <2>4. w1 = [v EXCEPT !.effect = e]
      OBVIOUS
    <2> HIDE DEF v
    <2>2. w1 = [pc |-> "write", did |-> w.did, about |-> w.about, who |-> w.who,
                permissions |-> w.permissions, effect |-> e, now |-> w.now, stale |-> w.stale]
      BY <2>3, <2>4
    <2> HIDE DEF w, w1
    <2> QED  BY <2>2 DEF IsDecided
  <1>4. IsEffect(w.effect)
    BY <1>1 DEF DecisionOK
  <1>5. /\ e.new = w.effect.new /\ e.set = w.effect.set /\ e.gone = links /\ e.unlink = w.effect.unlink
        /\ e = [new |-> e.new, set |-> e.set, gone |-> e.gone, unlink |-> e.unlink]
    <2>1. w.effect = [new |-> w.effect.new, set |-> w.effect.set, gone |-> w.effect.gone,
                      unlink |-> w.effect.unlink]
      BY <1>4 DEF IsEffect
    <2> HIDE DEF links
    <2>2. e = [new |-> w.effect.new, set |-> w.effect.set, gone |-> links, unlink |-> w.effect.unlink]
      BY <2>1
    <2> HIDE DEF e, w
    <2> QED  BY <2>2
  <1>6. \A k \in links : k[1] = "link" /\ k[2] \in w.effect.unlink
    BY DEF Table
  <1>7. RoleKey(Owner)[1] = "role"
    BY KeyFacts
  <1> HIDE DEF w1, e, links
  <1>8. IsEffect(e)
    BY <1>1, <1>4, <1>5, <1>6, <1>7 DEF IsEffect
  <1>9. \A i : Losing(e, i) => Losing(w.effect, i)
    <2> SUFFICES ASSUME NEW i, Member(i) \in links PROVE FALSE
      BY <1>5 DEF Losing
    <2> QED  BY <1>6, KeyFacts
  <1>10. SparesAnOwner(db, e, w.stale)
    <2>1. \A i : Losing(w.effect, i) => Losing(e, i)
      <3> SUFFICES ASSUME NEW i, Member(i) \in w.effect.gone PROVE FALSE
        BY <1>5 DEF Losing
      <3> QED  BY <1>1, <1>4, KeyFacts DEF IsEffect
    <2> QED  BY <1>1, <1>9, <2>1 DEF DecisionOK, SparesAnOwner
  <1>11. DecisionOK(db, w.did, w.about, w.permissions, e, w.now, w.stale)
    <2>1. WithinLicence(db, e, w.stale)
      BY <1>1, <1>5 DEF DecisionOK, WithinLicence
    <2>2. ModesOK(db, w.did, e, w.now, w.stale)
      BY <1>1, <1>5 DEF DecisionOK, ModesOK
    <2>3. ChangesOK(db, w.did, w.about, e, w.stale)
      BY <1>1, <1>5 DEF DecisionOK, ChangesOK
    <2>4. Covered(db, w.permissions, e, w.stale)
      BY <1>1, <1>5 DEF DecisionOK, Covered
    <2> QED  BY <1>8, <1>10, <2>1, <2>2, <2>3, <2>4 DEF DecisionOK
  <1>12. Fine(db, w1, own[c], clock)
    BY <1>1, <1>3, <1>11 DEF Fine
  <1> QED  BY <1>2, <1>12, OneClientReads DEF Unlink, Keep

\* The constraints and locks make what is written applicable.
LEMMA WriteStep ==
    ASSUME IInv, NEW c \in Clients, Write(c), Keep
    PROVE  IInv'
  <1> DEFINE w == work[c]  e == w.effect  o == Written(c)
             w1 == [w EXCEPT !.pc = "commit"]
  <1>1. /\ w.pc = "write" /\ IsDecided(w) /\ w.now \in Nat /\ w.now <= clock
        /\ DecisionOK(db, w.did, w.about, w.permissions, e, w.now, w.stale)
    BY DEF Write, IInv, Fine, Busy
  <1>2. work' = [work EXCEPT ![c] = w1] /\ own' = [own EXCEPT ![c] = o]
    BY DEF Write
  <1>3. /\ w1.pc = "commit" /\ w1.effect = e /\ w1.did = w.did /\ w1.about = w.about /\ w1.now = w.now
        /\ w1.permissions = w.permissions /\ w1.stale = w.stale /\ IsDecided(w1)
    BY <1>1 DEF IsDecided
  <1>4. /\ IsEffect(e) /\ TablesOK(db)
    BY <1>1 DEF DecisionOK, IInv
  <1>5. /\ o = [put |-> Overlay(e.new, e.set), gone |-> o.gone, refs |-> o.refs]
        /\ o.refs = UNION {Parents(k, o.put[k]) : k \in DOMAIN o.put}
        /\ o.gone = IF e.unlink = {} THEN Cascade(db, e.gone) ELSE e.gone
    BY DEF Written
  <1>6. /\ DOMAIN e.set \ Saved \subseteq DOMAIN db \ o.gone
        /\ DOMAIN e.new \cap (DOMAIN db \ o.gone) = {}
        /\ o.refs \subseteq (DOMAIN db \ o.gone) \cup DOMAIN e.new
    BY DEF Write, Consistent
  <1>7. \A d \in Clients \ {c} :
          /\ (DOMAIN own[d].put \cup own[d].gone) \cap (DOMAIN o.put \cup o.gone) = {}
          /\ own[d].gone \cap o.refs = {} /\ own[d].refs \cap o.gone = {}
    BY DEF Write, Free
  <1> HIDE DEF o, w1
  <1>8. \A d \in Clients \ {c} : Apart(o, own[d])
    BY <1>7 DEF Apart, Keys
  <1>9. /\ \A k \in DOMAIN db \ o.gone : Parents(k, db[k]) \cap o.gone = {}
        /\ \A k \in o.gone :
              /\ k[1] \in {"member", "role", "app", "link", "env", "agent"}
              /\ k[1] \in {"member", "role", "app"} => k \in e.gone
              /\ k[1] = "link" => k[2] \in e.unlink \/ {Member(k[2]), RoleKey(k[3])} \cap e.gone # {}
    <2>1. CASE e.unlink = {}
      <3>1. \A k \in e.gone : k[1] \in {"member", "role", "app"}
        BY <1>4, <2>1 DEF IsEffect
      <3>2. o.gone = Cascade(db, e.gone)
        BY <1>5, <2>1
      <3> QED  BY <1>4, <3>1, <3>2, CascadeIsClosed
    <2>2. CASE e.unlink # {}
      <3>1. o.gone = e.gone /\ \A k \in e.gone : k[1] = "link" /\ k[2] \in e.unlink
        BY <1>4, <1>5, <2>2 DEF IsEffect
      <3>2. ASSUME NEW k \in DOMAIN db, NEW p \in Parents(k, db[k]), p \in o.gone PROVE FALSE
        <4>1. p[1] \in {"member", "role", "app", "env"}
          BY <1>4, <3>2, ParentTables DEF TablesOK
        <4> QED  BY <3>1, <3>2, <4>1
      <3> QED  BY <3>1, <3>2
    <2> QED  BY <2>1, <2>2
  <1>10. Wrote(db, e, o)
    BY <1>5, <1>6, <1>9 DEF Wrote
  <1>11. Fine(db, w1, o, clock)
    BY <1>1, <1>3, <1>10 DEF Fine
  <1>12. UNCHANGED <<db, clock, history>>
    BY DEF Write, Keep
  <1> QED  BY <1>2, <1>8, <1>11, <1>12, OneClient

\* Time passes.
LEMMA TickStep ==
    ASSUME IInv, Tick, Keep
    PROVE  IInv'
  <1>1. /\ clock \in Nat /\ clock' = clock + 1 /\ db' = db /\ work' = work /\ own' = own
        /\ overrun' = overrun /\ standing' = standing /\ since' = since /\ blurred' = blurred
        /\ deposed' = deposed
    BY DEF IInv, Tick, Keep, history
  <1>2. \A c \in Clients : Fine(db', work'[c], own'[c], clock')
    BY <1>1 DEF IInv, Fine
  <1>3. SoakOK(db', since', blurred', clock')
    <2> SUFFICES ASSUME NEW k \in RowsOf(db, "env") \ blurred, k[3] = "PRODUCTION", db[k].mode = "BLOCK"
                 PROVE  db[k].soak # Never /\ db[k].soak <= clock + 1
      BY <1>1 DEF IInv, SoakOK
    <2>1. db[k].soak # Never /\ db[k].soak <= clock
      BY DEF IInv, SoakOK
    <2>2. db[k].soak \in Int
      BY DEF IInv, TablesOK, IsRow, RowsOf
    <2> QED  BY <1>1, <2>1, <2>2
  <1> QED  BY <1>1, <1>2, <1>3 DEF IInv

\* A commit keeps the tables, the histories and everyone else's decision.
LEMMA CommitStep ==
    ASSUME IInv, NEW c \in Clients, Commit(c), Record(c)
    PROVE  IInv'
  <1> DEFINE w == work[c]  e == w.effect  o == own[c]  K == Keys(o)
  <1>1. /\ w.pc = "commit" /\ Wrote(db, e, o) /\ w.now \in Nat /\ w.now <= clock
        /\ DecisionOK(db, w.did, w.about, w.permissions, e, w.now, w.stale)
    BY DEF Commit, IInv, Fine, Busy
  <1>2. /\ IsEffect(e) /\ WithinLicence(db, e, w.stale) /\ ModesOK(db, w.did, e, w.now, w.stale)
        /\ ChangesOK(db, w.did, w.about, e, w.stale) /\ SparesAnOwner(db, e, w.stale)
    BY <1>1 DEF DecisionOK
  <1>3. /\ clock' = clock /\ clock \in Nat /\ TablesOK(db) /\ QuotaOK(db, overrun)
        /\ StandingOK(db, standing) /\ SoakOK(db, since, blurred, clock)
    BY DEF Commit, IInv
  <1>4. db' = After(db, o)
    BY DEF Commit, After
  <1>5. Same(db, db', K)
    BY <1>4, CommitSame
  <1>6. TablesOK(db')
    BY <1>1, <1>2, <1>3, <1>4, CommitTables
  <1>7. QuotaOK(db', overrun')
    <2>1. overrun' = OverrunAfter(overrun, e, w.stale)
      BY DEF Record, Beside, Creates, OverrunAfter
    <2>2. Wrote(db, e, o)
      BY <1>1
    <2>3. IsEffect(e) /\ WithinLicence(db, e, w.stale)
      BY <1>2
    <2> HIDE DEF w, e, o
    <2> QED  BY <1>3, <1>4, <2>1, <2>2, <2>3, CommitQuota
  <1>8. StandingOK(db', standing')
    <2>1. standing' = StandingAfter(standing, w.did, w.about, o, w.stale)
      BY DEF Record, StandingAfter, Done, Undone, Taken, Withdrawn
    <2> QED  BY <1>1, <1>2, <1>3, <1>4, <2>1, CommitStanding
  <1>9. SoakOK(db', since', blurred', clock')
    <2>1. since' = Overlay([k \in Entering(db, w.did, o) |-> w.now], since)
      BY DEF Record, EntersMonitor, Entering
    <2>2. blurred' = blurred \cup {k \in DOMAIN o.put \cap w.stale : k[1] = "env"}
      BY DEF Record
    <2>3. since' = SinceAfter(db, w.did, o, w.now, since) /\ blurred' = BlurredAfter(blurred, o, w.stale)
      BY <2>1, <2>2 DEF SinceAfter, BlurredAfter
    <2> QED  BY <1>1, <1>2, <1>3, <1>4, <2>3, CommitSoak
  <1>10. (\E i : Owns(db', i)) \/ deposed' = TRUE
    <2>1. deposed' = (deposed \/ (Loses({k \in o.gone : k \in DOMAIN db /\ k \notin DOMAIN o.put})
                                  /\ Loses(w.stale)))
      BY DEF Record
    <2>2. CASE deposed = TRUE
      BY <2>1, <2>2
    <2>3. CASE \E i : Owns(db, i)
      <3>1. \/ \E i : Owns(db', i)
            \/ Loses({k \in o.gone : k \in DOMAIN db /\ k \notin DOMAIN o.put}) /\ Loses(w.stale)
        BY <1>1, <1>2, <1>3, <1>4, <1>6, <2>3, CommitOwners
      <3> QED  BY <2>1, <3>1
    <2> QED  BY <2>2, <2>3 DEF IInv
  <1>11. /\ work' = [d \in Clients |-> work'[d]] /\ own' = [d \in Clients |-> own'[d]]
         /\ work'[c] = Idle /\ own'[c] = Nothing
         /\ \A d \in Clients \ {c} :
               /\ own'[d] = own[d]
               /\ work'[d] = IF Busy(work[d]) THEN [work[d] EXCEPT !.stale = @ \cup K] ELSE work[d]
    <2>1. own' = [own EXCEPT ![c] = Nothing] /\ own = [d \in Clients |-> own[d]]
      BY DEF Commit, IInv
    <2>2. own' = [d \in Clients |-> own'[d]] /\ own'[c] = Nothing /\ \A d \in Clients \ {c} : own'[d] = own[d]
      BY <2>1
    <2>3. work' = [d \in Clients |->
            IF d = c THEN Idle
            ELSE IF Busy(work[d]) THEN [work[d] EXCEPT !.stale = @ \cup K] ELSE work[d]]
      BY DEF Commit, Busy, Touched, Keys
    <2> QED  BY <2>2, <2>3
  <1>12. ASSUME NEW d \in Clients PROVE Fine(db', work'[d], own'[d], clock')
    <2>1. CASE d = c
      BY <1>11, <2>1 DEF Fine, Busy, Idle
    <2>2. CASE d # c /\ ~Busy(work[d])
      <3>1. work'[d] = work[d] /\ own'[d] = own[d]
        BY <1>11, <2>2
      <3> QED  BY <2>2, <3>1 DEF IInv, Fine, Busy
    <2>3. CASE d # c /\ Busy(work[d])
      <3> DEFINE v == work[d]  v1 == [v EXCEPT !.stale = @ \cup K]
      <3>1. work'[d] = v1 /\ own'[d] = own[d]
        BY <1>11, <2>3
      <3>2. Fine(db, v, own[d], clock) /\ IsDecided(v) /\ v.now \in Nat /\ v.now <= clock
            /\ (v.pc = "unlink" => v.effect.unlink # {})
            /\ DecisionOK(db, v.did, v.about, v.permissions, v.effect, v.now, v.stale)
        BY <2>3 DEF IInv, Fine
      <3>3. v1 = [pc |-> v.pc, did |-> v.did, about |-> v.about, who |-> v.who,
                  permissions |-> v.permissions, effect |-> v.effect, now |-> v.now, stale |-> v.stale \cup K]
        <4> HIDE DEF K, v
        <4> QED  BY <3>2 DEF IsDecided
      <3> HIDE DEF v1, K
      <3>4. /\ v1.pc = v.pc /\ v1.did = v.did /\ v1.about = v.about /\ v1.permissions = v.permissions
            /\ v1.effect = v.effect /\ v1.now = v.now /\ v1.stale = v.stale \cup K /\ IsDecided(v1)
        <4> HIDE DEF v
        <4> QED  BY <3>3 DEF IsDecided
      <3>5. DecisionOK(db', v1.did, v1.about, v1.permissions, v1.effect, v1.now, v1.stale)
        BY <1>3, <1>5, <1>6, <3>2, <3>4, DecisionKeeps
      <3>6. v1.pc = "commit" => Wrote(db', v1.effect, own[d])
        <4> SUFFICES ASSUME v.pc = "commit" PROVE Wrote(db', v.effect, own[d])
          BY <3>4
        <4>1. Wrote(db, v.effect, own[d])
          BY <3>2 DEF Fine
        <4>2. Apart(own[d], o)
          BY <2>3 DEF IInv
        <4>3. o.refs = UNION {Parents(k, o.put[k]) : k \in DOMAIN o.put}
          BY <1>1 DEF Wrote
        <4> QED  BY <1>4, <4>1, <4>2, <4>3, WroteKeeps
      <3>7. v1.pc # "commit" => own[d] = Nothing
        BY <3>2, <3>4 DEF Fine
      <3>8. v1.now \in Nat /\ v1.now <= clock' /\ (v1.pc = "unlink" => v1.effect.unlink # {})
        BY <1>3, <3>2, <3>4
      <3> QED  BY <3>1, <3>4, <3>5, <3>6, <3>7, <3>8 DEF Fine
    <2> QED  BY <2>1, <2>2, <2>3
  <1>13. ASSUME NEW d \in Clients, NEW f \in Clients, d # f PROVE Apart(own'[d], own'[f])
    <2>1. CASE d = c
      BY <1>11, <2>1, NothingIsApart
    <2>2. CASE f = c
      BY <1>11, <2>2, NothingIsApart, ApartIsMutual
    <2>3. CASE d # c /\ f # c
      BY <1>11, <1>13, <2>3 DEF IInv
    <2> QED  BY <2>1, <2>2, <2>3
  <1> QED  BY <1>3, <1>6, <1>7, <1>8, <1>9, <1>10, <1>11, <1>12, <1>13 DEF IInv

-----------------------------------------------------------------------------
(* The decisions, on the rows as they are when they are taken               *)

\* Effects by what they hold.
LEMMA AddOK ==
    ASSUME NEW T, NEW did, NEW about, NEW held, NEW now, NEW new, IsFunction(new), NEW e, e = Add(new),
           \A k \in DOMAIN new : IsKey(k) /\ IsRow(k, new[k]) /\ k # Settings,
           WithinLicence(T, e, {}),
           \A k \in DOMAIN new : k[1] = "env" => new[k] = NewEnv,
           \A k \in DOMAIN new : k[1] = "agent" => did = "register" /\ about = "",
           did \notin {"set mode", "disable", "rule off", "review"},
           \A k \in DOMAIN new : k[1] = "link" =>
              RoleKey(k[3]) \in DOMAIN T /\ T[RoleKey(k[3])].permissions \subseteq held,
           \A k \in DOMAIN new : k[1] \in {"role", "key"} => new[k].permissions \subseteq held
    PROVE  DecisionOK(T, did, about, held, e, now, {})
  <1>1. /\ e = [new |-> new, set |-> <<>>, gone |-> {}, unlink |-> {}]
        /\ e.new = new /\ e.set = <<>> /\ e.gone = {} /\ e.unlink = {}
    BY DEF Add, Effect
  <1>2. IsFunction(e.set) /\ DOMAIN e.set = {}
    BY <1>1, NoRow
  <1>3. IsEffect(e)
    BY <1>1, <1>2 DEF IsEffect
  <1>4. ModesOK(T, did, e, now, {})
    BY <1>1, <1>2 DEF ModesOK
  <1>5. ChangesOK(T, did, about, e, {})
    BY <1>1, <1>2 DEF ChangesOK
  <1>6. SparesAnOwner(T, e, {})
    BY <1>1 DEF SparesAnOwner, Losing
  <1>7. Covered(T, held, e, {})
    BY <1>1, <1>2 DEF Covered
  <1> QED  BY <1>3, <1>4, <1>5, <1>6, <1>7 DEF DecisionOK

\* Tables without a limit need no room.
LEMMA NoLicenceAsked ==
    ASSUME NEW T, NEW e, \A k \in DOMAIN e.new : k[1] \notin Licensed
    PROVE  WithinLicence(T, e, {})
  BY DEF WithinLicence

\* Rows set in place that change no link, member, licence or Owner role.
LEMMA SetOK ==
    ASSUME NEW T, NEW did, NEW about, NEW held, NEW now, NEW rows, IsFunction(rows), NEW e, e = Set(rows),
           \A k \in DOMAIN rows : /\ IsKey(k) /\ IsRow(k, rows[k])
                                  /\ k[1] \notin {"link", "member"} /\ k # RoleKey(Owner),
           \A k \in DOMAIN rows : k[1] = "env" => did = "set mode",
           did = "set mode" => \A k \in DOMAIN rows :
              k[1] = "env" /\ k \in DOMAIN T /\ NextMode(T[k], rows[k], k, now),
           did = "disable" => \A k \in DOMAIN rows : k[1] = "agent" /\ rows[k].status = "DISABLED",
           did = "rule off" => \A k \in DOMAIN rows : k = Settings,
           did = "review" => \A k \in DOMAIN rows : k[1] = "analysis",
           \A k \in DOMAIN rows : k[1] = "agent" =>
              /\ did \in {"register", "enable", "disable", "pin", "heartbeat", "sweep"} /\ about = ""
              /\ k \in DOMAIN T /\ AgentChange(did, T[k], rows[k]),
           \A k \in DOMAIN rows : k = Settings =>
              /\ did \in {"rule on", "rule off"}
              /\ did = "rule off" => about \in rows[k].disabled
              /\ \A x \in DisabledIn(T) : x \in rows[k].disabled \/ (did = "rule on" /\ x = about),
           \A k \in DOMAIN rows : k[1] = "analysis" =>
              /\ did = "review" /\ about \in {"ACCEPTED", "REJECTED"} /\ rows[k].status = about
              /\ k \in DOMAIN T /\ T[k].status = "DRAFT",
           \A k \in DOMAIN rows : k[1] = "role" =>
              \/ rows[k].permissions \subseteq held
              \/ k \in DOMAIN T /\ rows[k].permissions = T[k].permissions
    PROVE  DecisionOK(T, did, about, held, e, now, {})
  <1>1. /\ e = [new |-> <<>>, set |-> rows, gone |-> {}, unlink |-> {}]
        /\ e.new = <<>> /\ e.set = rows /\ e.gone = {} /\ e.unlink = {}
    BY DEF Set, Effect
  <1>2. IsFunction(e.new) /\ DOMAIN e.new = {}
    BY <1>1, NoRow
  <1>3. IsEffect(e)
    BY <1>1, <1>2 DEF IsEffect
  <1>4. WithinLicence(T, e, {})
    BY <1>2, NoLicenceAsked
  <1>5. ModesOK(T, did, e, now, {})
    BY <1>1, <1>2 DEF ModesOK
  <1>6. ChangesOK(T, did, about, e, {})
    BY <1>1, <1>2 DEF ChangesOK
  <1>7. SparesAnOwner(T, e, {})
    BY <1>1 DEF SparesAnOwner, Losing
  <1>8. Covered(T, held, e, {})
    BY <1>1, <1>2 DEF Covered
  <1> QED  BY <1>3, <1>4, <1>5, <1>6, <1>7, <1>8 DEF DecisionOK

\* A row deleted with what hangs on it.
LEMMA DeleteOK ==
    ASSUME NEW T, NEW did, NEW about, NEW held, NEW now, NEW k, NEW e, e = Delete(k),
           k[1] \in {"member", "role", "app"}, k # RoleKey(Owner),
           did \notin {"set mode", "disable", "rule off", "review"},
           SparesAnOwner(T, e, {})
    PROVE  DecisionOK(T, did, about, held, e, now, {})
  <1>1. /\ e = [new |-> <<>>, set |-> <<>>, gone |-> {k}, unlink |-> {}]
        /\ e.new = <<>> /\ e.set = <<>> /\ e.gone = {k} /\ e.unlink = {}
    BY DEF Delete, Effect
  <1>2. /\ IsFunction(e.new) /\ DOMAIN e.new = {}
        /\ IsFunction(e.set) /\ DOMAIN e.set = {}
    BY <1>1, NoRow
  <1>3. IsEffect(e)
    BY <1>1, <1>2 DEF IsEffect
  <1>4. WithinLicence(T, e, {})
    BY <1>2, NoLicenceAsked
  <1>5. ModesOK(T, did, e, now, {})
    BY <1>1, <1>2 DEF ModesOK
  <1>6. ChangesOK(T, did, about, e, {})
    BY <1>1, <1>2 DEF ChangesOK
  <1>7. Covered(T, held, e, {})
    BY <1>1, <1>2 DEF Covered
  <1> QED  BY <1>3, <1>4, <1>5, <1>6, <1>7 DEF DecisionOK

\* No member loses a role by deleting a role or an application.
LEMMA SparesByTable ==
    ASSUME NEW T, NEW k, NEW e, e = Delete(k), k[1] # "member"
    PROVE  SparesAnOwner(T, e, {})
  <1>1. e.gone = {k} /\ e.unlink = {}
    BY DEF Delete, Effect
  <1>2. \A i : Member(i)[1] = "member"
    BY KeyFacts
  <1> QED  BY <1>1, <1>2 DEF SparesAnOwner, Losing

-----------------------------------------------------------------------------
(* Members                                                                  *)

LEMMA RowsOfTables ==
    ASSUME TablesOK(db)
    PROVE  /\ \A k \in DOMAIN db : IsKey(k) /\ IsRow(k, db[k])
           /\ \A r \in Roles : RoleKey(r) \in DOMAIN db
           /\ \A i \in MemberIds : Member(i) \in DOMAIN db
           /\ \A i, r : r \in RolesOf(i) <=> Link(i, r) \in DOMAIN db
           /\ \A i : Member(i) \in DOMAIN db => i \in MemberIds
           /\ \A r : RoleKey(r) \in DOMAIN db => r \in Roles
  <1>1. \A k \in DOMAIN db : IsKey(k) /\ IsRow(k, db[k])
    BY DEF TablesOK
  <1>2. \A r \in Roles : RoleKey(r) \in DOMAIN db
    BY <1>1, NamedByTable DEF Roles, Table
  <1>3. \A i \in MemberIds : Member(i) \in DOMAIN db
    BY <1>1, NamedByTable DEF MemberIds, Table
  <1>4. ASSUME NEW i, NEW r, r \in RolesOf(i) PROVE Link(i, r) \in DOMAIN db
    <2>1. PICK k \in DOMAIN db : k[1] = "link" /\ k[2] = i /\ k[3] = r
      BY <1>4 DEF RolesOf, Table
    <2>2. k = Link(i, r)
      BY <1>1, <2>1, NamedByTable
    <2> QED  BY <2>2
  <1>5. ASSUME NEW i, NEW r, Link(i, r) \in DOMAIN db PROVE r \in RolesOf(i)
    <2>1. Link(i, r)[1] = "link" /\ Link(i, r)[2] = i /\ Link(i, r)[3] = r
      BY KeyFacts
    <2> HIDE DEF Link
    <2> QED  BY <1>5, <2>1 DEF RolesOf, Table
  <1>6. ASSUME NEW i, Member(i) \in DOMAIN db PROVE i \in MemberIds
    <2>1. Member(i)[1] = "member" /\ Member(i)[2] = i
      BY KeyFacts
    <2> QED  BY <1>6, <2>1 DEF MemberIds, Table
  <1>7. ASSUME NEW r, RoleKey(r) \in DOMAIN db PROVE r \in Roles
    <2>1. RoleKey(r)[1] = "role" /\ RoleKey(r)[2] = r
      BY KeyFacts
    <2> QED  BY <1>7, <2>1 DEF Roles, Table
  <1> QED  BY <1>1, <1>2, <1>3, <1>4, <1>5, <1>6, <1>7

OwnerIds == {i \in MemberIds : Owner \in RolesOf(i)}

\* count_owners counts those who have the Owner role.
LEMMA OwnersAre ==
    ASSUME TablesOK(db), NEW i
    PROVE  i \in OwnerIds <=> Owns(db, i)
  BY RowsOfTables DEF OwnerIds, Owns

\* With more than one Owner there is another one.
LEMMA AnotherOwner ==
    ASSUME TablesOK(db), CountOwners > 1, NEW i
    PROVE  \E j : Owns(db, j) /\ j # i
  <1> SUFFICES ASSUME \A j : Owns(db, j) => j = i PROVE FALSE
    OBVIOUS
  <1>1. CountOwners = Cardinality(OwnerIds)
    BY DEF CountOwners, OwnerIds
  <1>2. OwnerIds \subseteq {i}
    BY OwnersAre
  <1>3. OwnerIds = {} \/ OwnerIds = {i}
    BY <1>2
  <1>4. Cardinality(OwnerIds) \in {0, 1}
    BY <1>3, FS_EmptySet, FS_Singleton
  <1> QED  BY <1>1, <1>4

\* _resolve_roles
LEMMA GrantableIsCovered ==
    ASSUME TablesOK(db), NEW c, NEW R, Grantable(c, R), NEW r \in R
    PROVE  RoleKey(r) \in DOMAIN db /\ db[RoleKey(r)].permissions \subseteq work[c].permissions
  BY RowsOfTables DEF Grantable, CanGrant, PermissionsOf

\* The links of a member, one for each role.
LEMMA LinksAre ==
    ASSUME NEW i, NEW R, NEW f, f = Links(i, R)
    PROVE  /\ IsFunction(f)
           /\ \A k \in DOMAIN f : \E r \in R : k = Link(i, r)
           /\ \A r \in R : Link(i, r) \in DOMAIN f
           /\ \A k \in DOMAIN f : IsKey(k) /\ k[1] = "link" /\ k[2] = i /\ k[3] \in R
  <1>1. IsFunction(f) /\ DOMAIN f = {Link(i, r) : r \in R}
    BY DEF Links, IsFunction
  <1>2. \A r \in R : IsKey(Link(i, r)) /\ Link(i, r)[1] = "link" /\ Link(i, r)[2] = i /\ Link(i, r)[3] = r
    BY KeyFacts
  <1> QED  BY <1>1, <1>2

\* InviteMember.
LEMMA InviteStep ==
    ASSUME IInv, NEW c \in Clients, InviteMember(c), Keep
    PROVE  IInv'
  <1>1. PICK u \in Users, R \in SUBSET Roles :
          /\ Grantable(c, R)
          /\ Decide(c, "invite", "",
                    Add(Overlay(Row(Member(work[c].id), Invited(u)), Links(work[c].id, R))))
    BY DEF InviteMember
  <1> DEFINE i == work[c].id  links == Links(i, R)  row == Row(Member(i), Invited(u))
             new == Overlay(row, links)  e == Add(new)  held == work[c].permissions
  <1>2. TablesOK(db) /\ work[c].pc \in {"called", "found"} /\ Under(MaxUsers, "member")
    BY DEF IInv, InviteMember, Called
  <1>3. IsKey(Member(i)) /\ Member(i)[1] = "member"
    BY KeyFacts
  <1>4. DOMAIN row = {Member(i)} /\ row[Member(i)] = Invited(u)
    BY OneRow
  <1>5. /\ \A k \in DOMAIN links : IsKey(k) /\ k[1] = "link" /\ k[3] \in R
    BY LinksAre
  <1>6. e.new = new
    BY DEF Add, Effect
  <1> HIDE DEF links, row, i
  <1>7. IsFunction(new) /\ DOMAIN new = {Member(i)} \cup DOMAIN links
    BY <1>4 DEF Overlay, IsFunction
  <1> HIDE DEF new, e
  <1>8. WithinLicence(db, e, {})
    <2> SUFFICES ASSUME NEW t \in Licensed
                 PROVE  LET made == {k \in DOMAIN e.new : k[1] = t}
                        IN /\ \A k, l \in made : k = l
                           /\ made # {} /\ {k \in {} : k[1] = t} = {} /\ Limit(t) >= 0
                                => Cardinality(RowsOf(db, t)) < Limit(t)
      BY DEF WithinLicence
    <2>1. \A k \in DOMAIN e.new : k[1] = t => t = "member" /\ k = Member(i)
      BY <1>3, <1>5, <1>6, <1>7 DEF Licensed
    <2>2. t = "member" /\ Limit(t) >= 0 => Cardinality(RowsOf(db, t)) < Limit(t)
      BY <1>2, LicenceAssumption DEF Limit, Under, Table, RowsOf
    <2> QED  BY <2>1, <2>2
  <1>9. \A k \in DOMAIN new : IsKey(k) /\ k[1] \in {"member", "link"}
    BY <1>3, <1>5, <1>7
  <1>10. \A k \in DOMAIN new : k # Settings
    BY <1>9, KeyFacts
  <1>11. \A k \in DOMAIN new : k[1] = "link" =>
            RoleKey(k[3]) \in DOMAIN db /\ db[RoleKey(k[3])].permissions \subseteq held
    BY <1>1, <1>2, <1>3, <1>5, <1>7, GrantableIsCovered
  <1>12. \A k \in DOMAIN new : IsRow(k, new[k])
    BY <1>9 DEF IsRow
  <1>13. e = Add(new)
    BY DEF e
  <1>14. DecisionOK(db, "invite", "", held, e, clock, {})
    BY <1>7, <1>8, <1>9, <1>10, <1>11, <1>12, <1>13, AddOK
  <1>15. Decide(c, "invite", "", e)
    BY <1>1 DEF e, new, row, links, i
  <1> QED  BY <1>2, <1>14, <1>15, DecideStep

\* The last Owner is neither demoted nor removed.
LEMMA AnOwnerIsKept ==
    ASSUME TablesOK(db), NEW i, NEW R, KeepsAnOwner(i, R), Owns(db, i), Owner \notin R
    PROVE  \E j : Owns(db, j) /\ j # i
  <1>1. Owner \in RolesOf(i)
    BY OwnersAre DEF OwnerIds
  <1>2. CountOwners > 1
    BY <1>1 DEF KeepsAnOwner
  <1> QED  BY <1>2, AnotherOwner

\* UpdateMemberRoles: another Owner is there, or the roles include it.
LEMMA AssignStep ==
    ASSUME IInv, NEW c \in Clients, UpdateMemberRoles(c), Keep
    PROVE  IInv'
  <1>1. PICK i \in MemberIds, R \in SUBSET Roles :
          /\ Grantable(c, R) /\ KeepsAnOwner(i, R)
          /\ Decide(c, "assign", "", Effect(Links(i, R), <<>>, {}, {i}))
    BY DEF UpdateMemberRoles
  <1> DEFINE links == Links(i, R)  e == Effect(links, <<>>, {}, {i})  held == work[c].permissions
  <1>2. TablesOK(db) /\ work[c].pc \in {"called", "found"}
    BY DEF IInv, UpdateMemberRoles, Called
  <1>3. /\ IsFunction(links)
        /\ \A k \in DOMAIN links : IsKey(k) /\ k[1] = "link" /\ k[2] = i /\ k[3] \in R
        /\ \A r \in R : Link(i, r) \in DOMAIN links
    BY LinksAre
  <1> HIDE DEF links
  <1>4. /\ e = [new |-> links, set |-> <<>>, gone |-> {}, unlink |-> {i}]
        /\ e.new = links /\ e.set = <<>> /\ e.gone = {} /\ e.unlink = {i}
    BY DEF Effect
  <1>5. IsFunction(e.set) /\ DOMAIN e.set = {}
    BY <1>4, NoRow
  <1>6. Decide(c, "assign", "", e)
    BY <1>1 DEF links
  <1> HIDE DEF e
  <1>7. IsEffect(e)
    <2>1. \A k \in DOMAIN links : IsRow(k, links[k]) /\ k # Settings
      BY <1>3, KeyFacts DEF IsRow
    <2> QED  BY <1>3, <1>4, <1>5, <2>1 DEF IsEffect
  <1>8. WithinLicence(db, e, {})
    BY <1>3, <1>4, NoLicenceAsked DEF Licensed
  <1>9. ModesOK(db, "assign", e, clock, {})
    BY <1>3, <1>4, <1>5 DEF ModesOK
  <1>10. ChangesOK(db, "assign", "", e, {})
    BY <1>3, <1>4, <1>5 DEF ChangesOK
  <1>11. SparesAnOwner(db, e, {})
    <2>1. \A j : Losing(e, j) => j = i /\ Owner \notin R
      BY <1>3, <1>4 DEF Losing
    <2> SUFFICES ASSUME NEW h, Owns(db, h), Losing(e, h)
                 PROVE  \E j : Owns(db, j) /\ ~Losing(e, j)
      BY DEF SparesAnOwner
    <2>2. KeepsAnOwner(i, R) /\ Owns(db, i) /\ Owner \notin R
      BY <1>1, <2>1
    <2>3. \E j : Owns(db, j) /\ j # i
      BY <1>2, <2>2, AnOwnerIsKept
    <2> QED  BY <2>1, <2>3
  <1>12. Covered(db, held, e, {})
    <2>1. \A k \in DOMAIN e.new : RoleKey(k[3]) \in DOMAIN db /\ db[RoleKey(k[3])].permissions \subseteq held
      BY <1>1, <1>2, <1>3, <1>4, GrantableIsCovered
    <2> QED  BY <1>3, <1>4, <1>5, <2>1 DEF Covered
  <1>13. DecisionOK(db, "assign", "", held, e, clock, {})
    BY <1>7, <1>8, <1>9, <1>10, <1>11, <1>12 DEF DecisionOK
  <1> QED  BY <1>2, <1>6, <1>13, DecideStep

\* RemoveMember: another Owner is there.
LEMMA RemoveStep ==
    ASSUME IInv, NEW c \in Clients, RemoveMember(c), Keep
    PROVE  IInv'
  <1>1. PICK i \in MemberIds : KeepsAnOwner(i, {}) /\ Decide(c, "remove", "", Delete(Member(i)))
    BY DEF RemoveMember
  <1> DEFINE e == Delete(Member(i))
  <1>2. TablesOK(db) /\ work[c].pc \in {"called", "found"}
    BY DEF IInv, RemoveMember, Called
  <1>3. e.gone = {Member(i)} /\ e.unlink = {}
    BY DEF Delete, Effect
  <1>4. Member(i)[1] = "member" /\ Member(i) # RoleKey(Owner)
    BY KeyFacts
  <1>5. \A j : Losing(e, j) => j = i
    BY <1>3, KeyFacts DEF Losing
  <1> HIDE DEF e
  <1>6. SparesAnOwner(db, e, {})
    <2> SUFFICES ASSUME NEW h, Owns(db, h), Losing(e, h)
                 PROVE  \E j : Owns(db, j) /\ ~Losing(e, j)
      BY DEF SparesAnOwner
    <2>1. KeepsAnOwner(i, {}) /\ Owns(db, i) /\ Owner \notin {}
      BY <1>1, <1>5
    <2>2. \E j : Owns(db, j) /\ j # i
      BY <1>2, <2>1, AnOwnerIsKept
    <2> QED  BY <1>5, <2>2
  <1>7. e = Delete(Member(i)) /\ Decide(c, "remove", "", e)
    BY <1>1 DEF e
  <1>8. DecisionOK(db, "remove", "", work[c].permissions, e, clock, {})
    BY <1>4, <1>6, <1>7, DeleteOK
  <1> QED  BY <1>2, <1>7, <1>8, DecideStep

-----------------------------------------------------------------------------
(* Roles and keys                                                           *)

\* A new row of a table that is neither licensed nor an agent's.
LEMMA AddRowStep ==
    ASSUME IInv, NEW c \in Clients, work[c].pc \in {"called", "found"}, Keep,
           NEW did, did \notin {"set mode", "disable", "rule off", "review"},
           NEW k, NEW row, Decide(c, did, "", Add(Row(k, row))),
           IsKey(k), IsRow(k, row), k[1] \in {"role", "key", "env", "bundle", "analysis"},
           k[1] = "env" => row = NewEnv,
           k[1] \in {"role", "key"} => row.permissions \subseteq work[c].permissions
    PROVE  IInv'
  <1> DEFINE new == Row(k, row)  e == Add(new)
  <1>1. IsFunction(new) /\ DOMAIN new = {k} /\ new[k] = row
    BY OneRow
  <1>2. e.new = new
    BY DEF Add, Effect
  <1>3. k # Settings
    BY KeyFacts
  <1>4. e = Add(new) /\ Decide(c, did, "", e)
    OBVIOUS
  <1> HIDE DEF new, e
  <1>5. WithinLicence(db, e, {})
    BY <1>1, <1>2, NoLicenceAsked DEF Licensed
  <1>6. DecisionOK(db, did, "", work[c].permissions, e, clock, {})
    BY <1>1, <1>3, <1>4, <1>5, AddOK
  <1> QED  BY <1>4, <1>6, DecideStep

\* CreateRole.
LEMMA NewRoleStep ==
    ASSUME IInv, NEW c \in Clients, CreateRole(c), Keep
    PROVE  IInv'
  <1>1. PICK P \in RoleGrants, name \in RoleNames :
          /\ P \subseteq work[c].permissions
          /\ Decide(c, "create role", "", Add(Row(RoleKey(work[c].id), RoleRow(name, P, FALSE))))
    BY DEF CreateRole, CanGrant
  <1> DEFINE k == RoleKey(work[c].id)  row == RoleRow(name, P, FALSE)
  <1>2. work[c].pc \in {"called", "found"}
    BY DEF CreateRole, Called
  <1>3. IsKey(k) /\ k[1] = "role"
    BY KeyFacts
  <1>4. IsRow(k, row) /\ row.permissions = P
    BY <1>3 DEF IsRow, RoleRow
  <1> HIDE DEF k, row
  <1>5. Decide(c, "create role", "", Add(Row(k, row)))
    BY <1>1 DEF k, row
  <1> QED  BY <1>1, <1>2, <1>3, <1>4, <1>5, AddRowStep

\* CreateApiKey.
LEMMA NewKeyStep ==
    ASSUME IInv, NEW c \in Clients, CreateApiKey(c), Keep
    PROVE  IInv'
  <1>1. PICK P \in KeyGrants :
          /\ P \subseteq work[c].permissions
          /\ Decide(c, "create key", "", Add(Row(ApiKey(work[c].id), KeyRow(P))))
    BY DEF CreateApiKey, CanGrant
  <1> DEFINE k == ApiKey(work[c].id)  row == KeyRow(P)
  <1>2. work[c].pc \in {"called", "found"}
    BY DEF CreateApiKey, Called
  <1>3. IsKey(k) /\ k[1] = "key"
    BY KeyFacts
  <1>4. IsRow(k, row) /\ row.permissions = P
    BY <1>3 DEF IsRow, KeyRow
  <1> HIDE DEF k, row
  <1>5. Decide(c, "create key", "", Add(Row(k, row)))
    BY <1>1 DEF k, row
  <1> QED  BY <1>1, <1>2, <1>3, <1>4, <1>5, AddRowStep

\* A row is set that is neither a decision that may stand nor an environment.
LEMMA SetRowStep ==
    ASSUME IInv, NEW c \in Clients, work[c].pc \in {"called", "found"}, Keep,
           NEW did, did \notin {"set mode", "disable", "rule off", "review"},
           NEW k, NEW row, Decide(c, did, "", Set(Row(k, row))),
           IsKey(k), IsRow(k, row), k[1] \in {"role", "key"}, k # RoleKey(Owner),
           k[1] = "role" => \/ row.permissions \subseteq work[c].permissions
                            \/ k \in DOMAIN db /\ row.permissions = db[k].permissions
    PROVE  IInv'
  <1> DEFINE rows == Row(k, row)  e == Set(rows)
  <1>1. IsFunction(rows) /\ DOMAIN rows = {k} /\ rows[k] = row
    BY OneRow
  <1>2. k # Settings
    BY KeyFacts
  <1>3. e = Set(rows) /\ Decide(c, did, "", e)
    OBVIOUS
  <1> HIDE DEF rows, e
  <1>4. DecisionOK(db, did, "", work[c].permissions, e, clock, {})
    BY <1>1, <1>2, <1>3, SetOK
  <1> QED  BY <1>3, <1>4, DecideStep

\* A role that is not a system role is not the Owner's.
LEMMA CustomRole ==
    ASSUME TablesOK(db), NEW r \in Roles, ~db[RoleKey(r)].system
    PROVE  RoleKey(r) # RoleKey(Owner) /\ RoleKey(r) \in DOMAIN db
  BY RowsOfTables DEF TablesOK

\* UpdateRole: system roles are refused.
LEMMA EditRoleStep ==
    ASSUME IInv, NEW c \in Clients, UpdateRole(c), Keep
    PROVE  IInv'
  <1>1. PICK r \in Roles, name \in RoleNames :
          /\ ~db[RoleKey(r)].system
          /\ \/ \E P \in RoleGrants :
                  /\ P \subseteq work[c].permissions
                  /\ Decide(c, "update role", "", Set(Row(RoleKey(r), RoleRow(name, P, FALSE))))
             \/ Decide(c, "rename role", "",
                       Set(Row(RoleKey(r), [db[RoleKey(r)] EXCEPT !.name = name])))
    BY DEF UpdateRole, CanGrant
  <1>2. TablesOK(db) /\ work[c].pc \in {"called", "found"}
    BY DEF IInv, UpdateRole, Called
  <1> DEFINE k == RoleKey(r)
  <1>3. IsKey(k) /\ k[1] = "role" /\ k # RoleKey(Owner) /\ k \in DOMAIN db
    BY <1>1, <1>2, CustomRole, KeyFacts
  <1>4. IsRow(k, db[k])
    BY <1>2, <1>3 DEF TablesOK
  <1>5. ASSUME NEW P \in RoleGrants, P \subseteq work[c].permissions,
               Decide(c, "update role", "", Set(Row(RoleKey(r), RoleRow(name, P, FALSE))))
        PROVE  IInv'
    <2> DEFINE row == RoleRow(name, P, FALSE)
    <2>1. IsRow(k, row) /\ row.permissions = P
      BY <1>3 DEF IsRow, RoleRow
    <2> HIDE DEF k, row
    <2>2. Decide(c, "update role", "", Set(Row(k, row)))
      BY <1>5 DEF k, row
    <2> QED  BY <1>2, <1>3, <1>5, <2>1, <2>2, SetRowStep
  <1>6. ASSUME Decide(c, "rename role", "", Set(Row(RoleKey(r), [db[RoleKey(r)] EXCEPT !.name = name])))
        PROVE  IInv'
    <2> DEFINE row == [db[k] EXCEPT !.name = name]
    <2>1. IsRow(k, row) /\ row.permissions = db[k].permissions
      BY <1>3, <1>4 DEF IsRow
    <2> HIDE DEF k, row
    <2>2. Decide(c, "rename role", "", Set(Row(k, row)))
      BY <1>6 DEF k, row
    <2> QED  BY <1>2, <1>3, <2>1, <2>2, SetRowStep
  <1> QED  BY <1>1, <1>5, <1>6

\* DeleteRole: system roles are refused.
LEMMA DropRoleStep ==
    ASSUME IInv, NEW c \in Clients, DeleteRole(c), Keep
    PROVE  IInv'
  <1>1. PICK r \in Roles : ~db[RoleKey(r)].system /\ Decide(c, "delete role", "", Delete(RoleKey(r)))
    BY DEF DeleteRole
  <1> DEFINE k == RoleKey(r)  e == Delete(k)
  <1>2. TablesOK(db) /\ work[c].pc \in {"called", "found"}
    BY DEF IInv, DeleteRole, Called
  <1>3. k[1] = "role" /\ k # RoleKey(Owner)
    BY <1>1, <1>2, CustomRole, KeyFacts
  <1>4. e = Delete(k) /\ Decide(c, "delete role", "", e)
    BY <1>1
  <1> HIDE DEF k, e
  <1>5. SparesAnOwner(db, e, {})
    BY <1>3, <1>4, SparesByTable
  <1>6. DecisionOK(db, "delete role", "", work[c].permissions, e, clock, {})
    BY <1>3, <1>4, <1>5, DeleteOK
  <1> QED  BY <1>2, <1>4, <1>6, DecideStep

\* RevokeApiKey.
LEMMA DropKeyStep ==
    ASSUME IInv, NEW c \in Clients, RevokeApiKey(c), Keep
    PROVE  IInv'
  <1>1. PICK k \in Table("key") : Decide(c, "revoke key", "", Set(Row(k, [db[k] EXCEPT !.revoked = TRUE])))
    BY DEF RevokeApiKey
  <1> DEFINE row == [db[k] EXCEPT !.revoked = TRUE]
  <1>2. TablesOK(db) /\ work[c].pc \in {"called", "found"}
    BY DEF IInv, RevokeApiKey, Called
  <1>3. k \in DOMAIN db /\ k[1] = "key" /\ IsKey(k)
    BY <1>2, RowsOfTables DEF Table
  <1>4. k # RoleKey(Owner)
    BY <1>3, KeyFacts
  <1>5. IsRow(k, row)
    BY <1>3 DEF IsRow
  <1> HIDE DEF row
  <1>6. Decide(c, "revoke key", "", Set(Row(k, row)))
    BY <1>1 DEF row
  <1> QED  BY <1>2, <1>3, <1>4, <1>5, <1>6, SetRowStep

-----------------------------------------------------------------------------
(* Applications and environments                                            *)

LEMMA NewAppStep ==
    ASSUME IInv, NEW c \in Clients, CreateApplication(c), Keep
    PROVE  IInv'
  <1>1. PICK slug \in Slugs, kind \in Kinds :
          Decide(c, "create app", "",
                 Add(Overlay(Row(App(work[c].id), AppRow(slug)), Row(Env(work[c].id, kind), NewEnv))))
    BY DEF CreateApplication
  <1> DEFINE a == App(work[c].id)  v == Env(work[c].id, kind)
             apps == Row(a, AppRow(slug))  envs == Row(v, NewEnv)
             new == Overlay(apps, envs)  e == Add(new)
  <1>2. work[c].pc \in {"called", "found"} /\ Under(MaxApplications, "app")
    BY DEF CreateApplication, Called
  <1>3. IsKey(a) /\ a[1] = "app" /\ IsKey(v) /\ v[1] = "env"
    BY KeyFacts
  <1>4. DOMAIN apps = {a} /\ DOMAIN envs = {v} /\ envs[v] = NewEnv
    BY OneRow
  <1>5. e.new = new /\ e = Add(new) /\ Decide(c, "create app", "", e)
    BY <1>1 DEF Add, Effect
  <1> HIDE DEF e
  <1>6. IsFunction(new) /\ DOMAIN new = {a, v} /\ new[v] = NewEnv
    <2> HIDE DEF a, v, apps, envs
    <2> QED  BY <1>3, <1>4 DEF Overlay, IsFunction
  <1> HIDE DEF new, a, v
  <1>7. WithinLicence(db, e, {})
    <2> SUFFICES ASSUME NEW t \in Licensed
                 PROVE  LET made == {k \in DOMAIN e.new : k[1] = t}
                        IN /\ \A k, l \in made : k = l
                           /\ made # {} /\ {k \in {} : k[1] = t} = {} /\ Limit(t) >= 0
                                => Cardinality(RowsOf(db, t)) < Limit(t)
      BY DEF WithinLicence
    <2>1. \A k \in DOMAIN e.new : k[1] = t => t = "app" /\ k = a
      BY <1>3, <1>5, <1>6 DEF Licensed
    <2>2. t = "app" /\ Limit(t) >= 0 => Cardinality(RowsOf(db, t)) < Limit(t)
      BY <1>2, LicenceAssumption DEF Limit, Under, Table, RowsOf
    <2> QED  BY <2>1, <2>2
  <1>8. \A k \in DOMAIN new : IsKey(k) /\ k[1] \in {"app", "env"}
    BY <1>3, <1>6
  <1>9. \A k \in DOMAIN new : k # Settings
    BY <1>8, KeyFacts
  <1>10. \A k \in DOMAIN new : k[1] = "env" => new[k] = NewEnv
    BY <1>3, <1>6
  <1>11. \A k \in DOMAIN new : IsRow(k, new[k])
    BY <1>8, <1>10 DEF IsRow, NewEnv, Never
  <1>12. DecisionOK(db, "create app", "", work[c].permissions, e, clock, {})
    BY <1>5, <1>6, <1>7, <1>8, <1>9, <1>10, <1>11, AddOK
  <1> QED  BY <1>2, <1>5, <1>12, DecideStep

\* CreateEnvironment.
LEMMA NewEnvStep ==
    ASSUME IInv, NEW c \in Clients, CreateEnvironment(c), Keep
    PROVE  IInv'
  <1>1. PICK app \in Table("app"), kind \in Kinds :
          Decide(c, "create env", "", Add(Row(Env(app[2], kind), NewEnv)))
    BY DEF CreateEnvironment
  <1> DEFINE k == Env(app[2], kind)
  <1>2. work[c].pc \in {"called", "found"}
    BY DEF CreateEnvironment, Called
  <1>3. IsKey(k) /\ k[1] = "env"
    BY KeyFacts
  <1>4. IsRow(k, NewEnv)
    BY <1>3 DEF IsRow, NewEnv, Never
  <1>5. Decide(c, "create env", "", Add(Row(k, NewEnv)))
    BY <1>1
  <1> HIDE DEF k
  <1> QED  BY <1>2, <1>3, <1>4, <1>5, AddRowStep

\* DeleteApplication.
LEMMA DropAppStep ==
    ASSUME IInv, NEW c \in Clients, DeleteApplication(c), Keep
    PROVE  IInv'
  <1>1. PICK k \in Table("app") : Decide(c, "delete app", "", Delete(k))
    BY DEF DeleteApplication
  <1> DEFINE e == Delete(k)
  <1>2. work[c].pc \in {"called", "found"}
    BY DEF DeleteApplication, Called
  <1>3. k[1] = "app" /\ k # RoleKey(Owner)
    BY KeyFacts DEF Table
  <1>4. e = Delete(k) /\ Decide(c, "delete app", "", e)
    BY <1>1
  <1> HIDE DEF e
  <1>5. SparesAnOwner(db, e, {})
    BY <1>3, <1>4, SparesByTable
  <1>6. DecisionOK(db, "delete app", "", work[c].permissions, e, clock, {})
    BY <1>3, <1>4, <1>5, DeleteOK
  <1> QED  BY <1>2, <1>4, <1>6, DecideStep

\* SetProtectionMode: production blocks when its soak has passed.
LEMMA ProtectStep ==
    ASSUME IInv, NEW c \in Clients, SetProtectionMode(c), Keep
    PROVE  IInv'
  <1>1. PICK k \in Table("env"), mode \in {"OFF", "MONITOR", "BLOCK"} :
          /\ mode = "BLOCK" /\ k[3] = "PRODUCTION" => SoakSatisfied(db[k])
          /\ Decide(c, "set mode", "", Set(Row(k, WithMode(db[k], mode))))
    BY DEF SetProtectionMode
  <1> DEFINE row == WithMode(db[k], mode)  rows == Row(k, row)  e == Set(rows)
  <1>2. TablesOK(db) /\ work[c].pc \in {"called", "found"} /\ clock \in Nat
    BY DEF IInv, SetProtectionMode, Called
  <1>3. k \in DOMAIN db /\ k[1] = "env" /\ IsKey(k) /\ IsRow(k, db[k])
    BY <1>2, RowsOfTables DEF Table
  <1>4. k # RoleKey(Owner) /\ k # Settings
    BY <1>3, KeyFacts
  <1>5. IsRow(k, row)
    BY <1>2, <1>3, FleetAssumption DEF IsRow, WithMode
  <1>6. NextMode(db[k], row, k, clock)
    BY <1>1 DEF NextMode, WithMode, SoakSatisfied
  <1>7. IsFunction(rows) /\ DOMAIN rows = {k} /\ rows[k] = row
    BY OneRow
  <1>8. e = Set(rows) /\ Decide(c, "set mode", "", e)
    BY <1>1
  <1> HIDE DEF row, rows, e
  <1>9. DecisionOK(db, "set mode", "", work[c].permissions, e, clock, {})
    BY <1>3, <1>4, <1>5, <1>6, <1>7, <1>8, SetOK
  <1> QED  BY <1>2, <1>8, <1>9, DecideStep

-----------------------------------------------------------------------------
(* Agents                                                                   *)

LEMMA StatusRow ==
    ASSUME NEW k, k[1] = "agent", NEW row, IsRow(k, row), NEW s, NEW row1, row1 = [row EXCEPT !.status = s]
    PROVE  IsRow(k, row1) /\ row1.status = s
  <1>1. row = [name |-> row.name, env |-> row.env, status |-> row.status, seen |-> row.seen] /\ row.env[1] = "env"
    BY DEF IsRow
  <1>2. row1 = [name |-> row.name, env |-> row.env, status |-> s, seen |-> row.seen]
    BY <1>1
  <1> QED  BY <1>1, <1>2 DEF IsRow

\* A heartbeat leaves an agent's row well formed.
LEMMA SeenRow ==
    ASSUME NEW k, k[1] = "agent", NEW row, IsRow(k, row), NEW x, NEW row1, row1 = [row EXCEPT !.seen = x]
    PROVE  IsRow(k, row1)
  <1>1. row = [name |-> row.name, env |-> row.env, status |-> row.status, seen |-> row.seen] /\ row.env[1] = "env"
    BY DEF IsRow
  <1>2. row1 = [name |-> row.name, env |-> row.env, status |-> row.status, seen |-> x]
    BY <1>1
  <1> QED  BY <1>1, <1>2 DEF IsRow

\* An agent that registers elsewhere keeps a well-formed row.
LEMMA MovedRow ==
    ASSUME NEW k, k[1] = "agent", NEW row, IsRow(k, row), NEW v, v[1] = "env", NEW row1,
           row1 = [row EXCEPT !.env = v]
    PROVE  IsRow(k, row1)
  <1>1. row = [name |-> row.name, env |-> row.env, status |-> row.status, seen |-> row.seen]
    BY DEF IsRow
  <1>2. row1 = [name |-> row.name, env |-> v, status |-> row.status, seen |-> row.seen]
    BY <1>1
  <1> QED  BY <1>2 DEF IsRow

\* Agents whose rows are written back.
LEMMA SetAgentsStep ==
    ASSUME IInv, NEW c \in Clients, work[c].pc \in {"called", "found"}, Keep,
           NEW did \in {"enable", "disable", "pin", "heartbeat", "sweep"},
           NEW rows, IsFunction(rows), Decide(c, did, "", Set(rows)),
           \A k \in DOMAIN rows : k \in Table("agent") /\ IsRow(k, rows[k]) /\ AgentChange(did, db[k], rows[k]),
           did = "disable" => \A k \in DOMAIN rows : rows[k].status = "DISABLED"
    PROVE  IInv'
  <1> DEFINE e == Set(rows)
  <1>1. \A k \in DOMAIN rows : k \in DOMAIN db /\ k[1] = "agent" /\ IsKey(k)
    BY RowsOfTables DEF Table, IInv
  <1>2. \A k \in DOMAIN rows : k # RoleKey(Owner) /\ k # Settings
    <2>1. RoleKey(Owner)[1] = "role" /\ Settings[1] = "settings"
      BY KeyFacts
    <2> QED  BY <1>1, <2>1
  <1>3. e = Set(rows) /\ Decide(c, did, "", e)
    OBVIOUS
  <1> HIDE DEF e
  <1>4. DecisionOK(db, did, "", work[c].permissions, e, clock, {})
    BY <1>1, <1>2, <1>3, SetOK
  <1> QED  BY <1>3, <1>4, DecideStep

\* RecordHeartbeat: a disabled agent is refused.
LEMMA HeartbeatStep ==
    ASSUME IInv, NEW c \in Clients, RecordHeartbeat(c), Keep
    PROVE  IInv'
  <1> DEFINE k == work[c].who  row == [db[k] EXCEPT !.status = "ONLINE", !.seen = clock]  rows == Row(k, row)
  <1>1. /\ work[c].pc \in {"called", "found"} /\ k \in Table("agent") /\ db[k].status # "DISABLED"
        /\ Decide(c, "heartbeat", "", Set(rows))
    BY DEF RecordHeartbeat, Called
  <1>2. IsRow(k, db[k]) /\ k[1] = "agent"
    BY <1>1, RowsOfTables DEF Table, IInv
  <1>3. IsRow(k, row)
    <2> DEFINE mid == [db[k] EXCEPT !.status = "ONLINE"]
    <2>1. IsRow(k, mid)
      BY <1>2, StatusRow
    <2>2. row = [mid EXCEPT !.seen = clock]
      OBVIOUS
    <2> HIDE DEF mid, row
    <2> QED  BY <1>2, <2>1, <2>2, SeenRow
  <1>4. IsFunction(rows) /\ DOMAIN rows = {k} /\ rows[k] = row
    BY OneRow
  <1> HIDE DEF rows, row, k
  <1>5. AgentChange("heartbeat", db[k], row)
    BY <1>1 DEF AgentChange
  <1> QED  BY <1>1, <1>3, <1>4, <1>5, SetAgentsStep

\* UpdateAgent.
LEMMA ManageStep ==
    ASSUME IInv, NEW c \in Clients, UpdateAgent(c), Keep
    PROVE  IInv'
  <1>1. PICK k \in Table("agent"), change \in {"enable", "disable", "pin"} :
          Decide(c, change, "",
                 Set(Row(k, [db[k] EXCEPT !.status =
                        CASE change = "enable" -> Enabled(@) [] change = "disable" -> "DISABLED"
                          [] OTHER -> @])))
    BY DEF UpdateAgent
  <1> DEFINE s == CASE change = "enable" -> Enabled(db[k].status) [] change = "disable" -> "DISABLED"
                    [] OTHER -> db[k].status
             row == [db[k] EXCEPT !.status = s]  rows == Row(k, row)
  <1>2. work[c].pc \in {"called", "found"} /\ Decide(c, change, "", Set(rows))
    BY <1>1 DEF UpdateAgent, Called
  <1>3. IsRow(k, db[k]) /\ k[1] = "agent"
    BY <1>1, RowsOfTables DEF Table, IInv
  <1>4. IsRow(k, row) /\ row.status = s
    <2> HIDE DEF s
    <2>1. row = [db[k] EXCEPT !.status = s]
      OBVIOUS
    <2> HIDE DEF row
    <2> QED  BY <1>3, <2>1, StatusRow
  <1>5. IsFunction(rows) /\ DOMAIN rows = {k} /\ rows[k] = row
    BY OneRow
  <1>6. (change = "disable" => s = "DISABLED") /\ (change = "pin" => s = db[k].status)
    BY <1>1
  <1> HIDE DEF rows, row, s
  <1>7. AgentChange(change, db[k], row)
    BY <1>1, <1>4, <1>6 DEF AgentChange
  <1> QED  BY <1>1, <1>2, <1>4, <1>5, <1>6, <1>7, SetAgentsStep

\* SweepOfflineAgents passes over what is disabled.
LEMMA SweepStep ==
    ASSUME IInv, NEW c \in Clients, SweepOfflineAgents(c), Keep
    PROVE  IInv'
  <1> DEFINE late == {k \in Table("agent") : Silent(db[k]) /\ db[k].status # "OFFLINE"}
             rows == [k \in late |-> [db[k] EXCEPT !.status = "OFFLINE"]]
  <1>1. work[c].pc \in {"called", "found"} /\ Decide(c, "sweep", "", Set(rows))
    BY DEF SweepOfflineAgents, Called
  <1>2. IsFunction(rows) /\ DOMAIN rows = late
    BY DEF IsFunction
  <1>3. ASSUME NEW k \in late
        PROVE  k \in Table("agent") /\ IsRow(k, rows[k]) /\ AgentChange("sweep", db[k], rows[k])
    <2>1. k \in Table("agent") /\ db[k].status # "DISABLED"
      BY <1>3 DEF Silent
    <2>2. IsRow(k, db[k]) /\ k[1] = "agent"
      BY <2>1, RowsOfTables DEF Table, IInv
    <2>3. rows[k] = [db[k] EXCEPT !.status = "OFFLINE"]
      BY <1>3
    <2> HIDE DEF rows
    <2>4. IsRow(k, rows[k])
      BY <2>2, <2>3, StatusRow
    <2> QED  BY <2>1, <2>4 DEF AgentChange
  <1> HIDE DEF rows, late
  <1> QED  BY <1>1, <1>2, <1>3, SetAgentsStep

\* RegisterAgent, with the application and environment it may add.
LEMMA RegisterStep ==
    ASSUME IInv, NEW c \in Clients, RegisterAgent(c), Keep
    PROVE  IInv'
  <1>1. PICK slug \in Slugs, kind \in Kinds, f \in Fingerprints :
          LET apps   == Named("app", slug)
              app    == IF apps = {} THEN App(work[c].id) ELSE CHOOSE a \in apps : TRUE
              env    == Env(app[2], kind)
              agents == Named("agent", f)
              new    == [k \in {app, env} \ DOMAIN db |-> IF k = app THEN AppRow(slug) ELSE NewEnv]
          IN /\ RoomFor(apps = {}, agents = {})
             /\ Decide(c, "register", "",
                   IF agents = {}
                   THEN Add(Overlay(new, Row(Agent(work[c].id), AgentRow(f, env))))
                   ELSE Effect(new, [k \in agents |-> [db[k] EXCEPT !.env = env,
                                                              !.status = Enabled(@)]], {}, {}))
    BY DEF RegisterAgent
  <1> DEFINE apps   == Named("app", slug)
             app    == IF apps = {} THEN App(work[c].id) ELSE CHOOSE a \in apps : TRUE
             env    == Env(app[2], kind)
             agents == Named("agent", f)
             new    == [k \in {app, env} \ DOMAIN db |-> IF k = app THEN AppRow(slug) ELSE NewEnv]
             held   == work[c].permissions
             shown  == Agent(work[c].id)
  <1>2. /\ RoomFor(apps = {}, agents = {})
        /\ agents = {} => Decide(c, "register", "", Add(Overlay(new, Row(shown, AgentRow(f, env)))))
        /\ agents # {} => Decide(c, "register", "",
                             Effect(new, [k \in agents |-> [db[k] EXCEPT !.env = env, !.status = Enabled(@)]],
                                    {}, {}))
    BY <1>1
  <1>3. TablesOK(db) /\ work[c].pc \in {"called", "found"} /\ \A k \in DOMAIN db : IsKey(k) /\ IsRow(k, db[k])
    BY RowsOfTables DEF IInv, RegisterAgent, Called
  <1>4. IsKey(app) /\ app[1] = "app" /\ (app \notin DOMAIN db => apps = {})
    <2>1. CASE apps = {}
      BY <2>1, KeyFacts
    <2>2. CASE apps # {}
      <3>1. app \in apps
        BY <2>2
      <3> HIDE DEF app
      <3> QED  BY <1>3, <2>2, <3>1 DEF Named, Table
    <2> QED  BY <2>1, <2>2
  <1>5. IsKey(env) /\ env[1] = "env"
    BY KeyFacts
  <1>6. IsKey(shown) /\ shown[1] = "agent"
    BY KeyFacts
  <1>7. \A k \in agents : k \in DOMAIN db /\ k[1] = "agent"
    BY DEF Named, Table
  <1> HIDE DEF apps, app, env, agents, shown
  <1>8. /\ IsFunction(new) /\ DOMAIN new = {app, env} \ DOMAIN db
        /\ \A k \in DOMAIN new : IsKey(k) /\ k[1] \in {"app", "env"}
        /\ \A k \in DOMAIN new : k[1] = "app" => k = app
        /\ \A k \in DOMAIN new : k[1] = "env" => new[k] = NewEnv
    BY <1>4, <1>5 DEF IsFunction
  <1> HIDE DEF new
  <1>9. /\ \A k \in DOMAIN new : IsRow(k, new[k])
        /\ \A k \in DOMAIN new : k # Settings
    <2>1. \A k \in DOMAIN new : IsRow(k, new[k])
      BY <1>8 DEF IsRow, NewEnv, Never
    <2>2. \A k \in DOMAIN new : k # Settings
      BY <1>8, KeyFacts
    <2> QED  BY <2>1, <2>2
  <1>10. /\ (\E k \in DOMAIN new : k[1] = "app") /\ Limit("app") >= 0
               => Cardinality(RowsOf(db, "app")) < Limit("app")
         /\ agents = {} /\ Limit("agent") >= 0 => Cardinality(RowsOf(db, "agent")) < Limit("agent")
    <2>1. \A t : Table(t) = RowsOf(db, t)
      BY DEF Table, RowsOf
    <2>2. Limit("app") = MaxApplications /\ Limit("agent") = MaxAgents
      BY DEF Limit
    <2>3. apps = {} => (MaxApplications < 0 \/ Cardinality(RowsOf(db, "app")) < MaxApplications)
      BY <1>2, <2>1 DEF RoomFor, Under
    <2>4. agents = {} => (MaxAgents < 0 \/ Cardinality(RowsOf(db, "agent")) < MaxAgents)
      BY <1>2, <2>1 DEF RoomFor, Under
    <2>5. (\E k \in DOMAIN new : k[1] = "app") => apps = {}
      BY <1>4, <1>8
    <2>6. MaxApplications \in Int /\ MaxAgents \in Int
      BY LicenceAssumption
    <2> QED  BY <2>2, <2>3, <2>4, <2>5, <2>6
  <1>11. CASE agents = {}
    <2> DEFINE row == AgentRow(f, env)  one == Row(shown, row)  all == Overlay(new, one)  e == Add(all)
    <2>1. DOMAIN one = {shown} /\ one[shown] = row
      BY OneRow
    <2>2. e.new = all /\ e = Add(all) /\ Decide(c, "register", "", e)
      BY <1>2, <1>11 DEF Add, Effect
    <2> HIDE DEF one, e
    <2>3. /\ IsFunction(all) /\ DOMAIN all = DOMAIN new \cup {shown}
          /\ \A k \in DOMAIN new : all[k] = new[k]
          /\ all[shown] = row
      <3> HIDE DEF row
      <3> QED  BY <1>6, <1>8, <2>1 DEF Overlay, IsFunction
    <2> HIDE DEF all
    <2>4. WithinLicence(db, e, {})
      <3> SUFFICES ASSUME NEW t \in Licensed
                   PROVE  LET made == {k \in DOMAIN e.new : k[1] = t}
                          IN /\ \A k, l \in made : k = l
                             /\ made # {} /\ {k \in {} : k[1] = t} = {} /\ Limit(t) >= 0
                                  => Cardinality(RowsOf(db, t)) < Limit(t)
        BY DEF WithinLicence
      <3>1. \A k \in DOMAIN e.new : k[1] = t =>
               (t = "app" /\ k = app /\ k \in DOMAIN new) \/ (t = "agent" /\ k = shown)
        BY <1>6, <1>8, <2>2, <2>3 DEF Licensed
      <3> QED  BY <1>10, <1>11, <3>1
    <2>5. IsRow(shown, row)
      BY <1>5, <1>6 DEF IsRow, AgentRow
    <2> HIDE DEF row
    <2>6. \A k \in DOMAIN all : IsKey(k) /\ IsRow(k, all[k])
      BY <1>6, <1>8, <1>9, <2>3, <2>5
    <2>7. \A k \in DOMAIN all : k # Settings /\ k[1] \in {"app", "env", "agent"}
      BY <1>6, <1>8, <1>9, <2>3, KeyFacts
    <2>8. \A k \in DOMAIN all : k[1] = "env" => all[k] = NewEnv
      BY <1>6, <1>8, <2>3
    <2>9. DecisionOK(db, "register", "", held, e, clock, {})
      <3>1. IsFunction(all) /\ e = Add(all)
        BY <2>2, <2>3
      <3>2. \A k \in DOMAIN all : IsKey(k) /\ IsRow(k, all[k]) /\ k # Settings
        BY <2>6, <2>7
      <3>3. \A k \in DOMAIN all : k[1] \notin {"link", "role", "key"}
        BY <2>7
      <3> QED  BY <2>4, <2>8, <3>1, <3>2, <3>3, AddOK
    <2> QED  BY <1>3, <2>2, <2>9, DecideStep
  <1>12. CASE agents # {}
    <2> DEFINE rows == [k \in agents |-> [db[k] EXCEPT !.env = env, !.status = Enabled(@)]]
               e == Effect(new, rows, {}, {})
    <2>1. /\ e = [new |-> new, set |-> rows, gone |-> {}, unlink |-> {}]
          /\ e.new = new /\ e.set = rows /\ e.gone = {} /\ e.unlink = {}
          /\ Decide(c, "register", "", e)
      BY <1>2, <1>12 DEF Effect
    <2>2. IsFunction(rows) /\ DOMAIN rows = agents
      BY DEF IsFunction
    <2>3. ASSUME NEW k \in agents
          PROVE  IsKey(k) /\ IsRow(k, rows[k]) /\ k # Settings /\ k # RoleKey(Owner)
      <3>1. rows[k] = [db[k] EXCEPT !.env = env, !.status = Enabled(db[k].status)]
        BY <2>3
      <3>2. IsKey(k) /\ IsRow(k, db[k]) /\ k[1] = "agent"
        BY <1>3, <1>7, <2>3
      <3> HIDE DEF rows
      <3>3. IsRow(k, rows[k])
        <4> DEFINE s == Enabled(db[k].status)  mid == [db[k] EXCEPT !.env = env]
        <4>1. IsRow(k, mid)
          BY <1>5, <3>2, MovedRow
        <4> HIDE DEF s
        <4>2. rows[k] = [mid EXCEPT !.status = s]
          BY <3>1 DEF s
        <4> HIDE DEF mid
        <4> QED  BY <3>2, <4>1, <4>2, StatusRow
      <3>4. k # Settings /\ k # RoleKey(Owner)
        BY <3>2, KeyFacts
      <3> QED  BY <3>2, <3>3, <3>4
    <2> HIDE DEF rows, e
    <2>4. IsEffect(e)
      <3>1. DOMAIN new \cap agents = {}
        BY <1>7, <1>8
      <3>2. \A k \in DOMAIN e.set : k[1] \notin {"link", "member"}
        BY <1>7, <2>1, <2>2
      <3> QED  BY <1>8, <1>9, <2>1, <2>2, <2>3, <3>1, <3>2 DEF IsEffect
    <2>5. WithinLicence(db, e, {})
      <3> SUFFICES ASSUME NEW t \in Licensed
                   PROVE  LET made == {k \in DOMAIN e.new : k[1] = t}
                          IN /\ \A k, l \in made : k = l
                             /\ made # {} /\ {k \in {} : k[1] = t} = {} /\ Limit(t) >= 0
                                  => Cardinality(RowsOf(db, t)) < Limit(t)
        BY DEF WithinLicence
      <3>1. \A k \in DOMAIN e.new : k[1] = t => t = "app" /\ k = app /\ k \in DOMAIN new
        BY <1>8, <2>1 DEF Licensed
      <3> QED  BY <1>10, <3>1
    <2>6. ModesOK(db, "register", e, clock, {})
      BY <1>7, <1>8, <2>1, <2>2 DEF ModesOK
    <2>7. ChangesOK(db, "register", "", e, {})
      BY <1>7, <1>8, <2>1, <2>2, <2>3 DEF ChangesOK, AgentChange
    <2>8. SparesAnOwner(db, e, {})
      BY <2>1 DEF SparesAnOwner, Losing
    <2>9. Covered(db, held, e, {})
      BY <1>7, <1>8, <2>1, <2>2 DEF Covered
    <2>10. DecisionOK(db, "register", "", held, e, clock, {})
      BY <2>4, <2>5, <2>6, <2>7, <2>8, <2>9 DEF DecisionOK
    <2> QED  BY <1>3, <2>1, <2>10, DecideStep
  <1> QED  BY <1>11, <1>12

-----------------------------------------------------------------------------
(* Rules and analyses                                                       *)

LEMMA PublishStep ==
    ASSUME IInv, NEW c \in Clients, PublishRuleBundle(c), Keep
    PROVE  IInv'
  <1>1. PICK v \in Versions, rules \in RuleSets :
          Decide(c, "publish", "", Add(Row(Bundle(v), [rules |-> rules])))
    BY DEF PublishRuleBundle
  <1> DEFINE k == Bundle(v)  row == [rules |-> rules]
  <1>2. work[c].pc \in {"called", "found"}
    BY DEF PublishRuleBundle, Called
  <1>3. IsKey(k) /\ k[1] = "bundle"
    BY KeyFacts
  <1> HIDE DEF k, row
  <1>4. IsRow(k, row)
    BY <1>3 DEF IsRow
  <1>5. Decide(c, "publish", "", Add(Row(k, row)))
    BY <1>1 DEF k, row
  <1> QED  BY <1>2, <1>3, <1>4, <1>5, AddRowStep

\* AnalyseFinding.
LEMMA AnalyseStep ==
    ASSUME IInv, NEW c \in Clients, AnalyseFinding(c), Keep
    PROVE  IInv'
  <1>1. PICK status \in {"DRAFT", "FAILED"} :
          Decide(c, "analyse", "", Add(Row(Analysis(work[c].id), [status |-> status])))
    BY DEF AnalyseFinding
  <1> DEFINE k == Analysis(work[c].id)  row == [status |-> status]
  <1>2. work[c].pc \in {"called", "found"}
    BY DEF AnalyseFinding, Called
  <1>3. IsKey(k) /\ k[1] = "analysis"
    BY KeyFacts
  <1>4. IsRow(k, row)
    BY <1>3 DEF IsRow
  <1> HIDE DEF k, row
  <1>5. Decide(c, "analyse", "", Add(Row(k, row)))
    BY <1>1 DEF k, row
  <1> QED  BY <1>2, <1>3, <1>4, <1>5, AddRowStep

\* ReviewAnalysis: only a draft is reviewed.
LEMMA ReviewStep ==
    ASSUME IInv, NEW c \in Clients, ReviewAnalysis(c), Keep
    PROVE  IInv'
  <1>1. PICK k \in Table("analysis"), verdict \in {"ACCEPTED", "REJECTED"} :
          /\ Reviewable(db[k])
          /\ Decide(c, "review", verdict, Set(Row(k, [db[k] EXCEPT !.status = verdict])))
    BY DEF ReviewAnalysis
  <1> DEFINE row == [db[k] EXCEPT !.status = verdict]  rows == Row(k, row)  e == Set(rows)
  <1>2. work[c].pc \in {"called", "found"}
    BY DEF ReviewAnalysis, Called
  <1>3. k \in DOMAIN db /\ k[1] = "analysis" /\ IsKey(k) /\ IsRow(k, db[k])
    BY RowsOfTables DEF Table, IInv
  <1>4. k # RoleKey(Owner) /\ k # Settings
    BY <1>3, KeyFacts
  <1>5. IsRow(k, row) /\ row.status = verdict
    BY <1>3 DEF IsRow
  <1>6. IsFunction(rows) /\ DOMAIN rows = {k} /\ rows[k] = row
    BY OneRow
  <1>7. e = Set(rows) /\ Decide(c, "review", verdict, e) /\ db[k].status = "DRAFT"
    BY <1>1 DEF Reviewable
  <1> HIDE DEF row, rows, e
  <1>8. DecisionOK(db, "review", verdict, work[c].permissions, e, clock, {})
    BY <1>1, <1>3, <1>4, <1>5, <1>6, <1>7, SetOK
  <1> QED  BY <1>2, <1>7, <1>8, DecideStep

\* The settings row with one rule more or less.
LEMMA ToggleRow ==
    ASSUME IInv, NEW c \in Clients, work[c].pc = "found", Keep,
           NEW did, NEW disabled,
           \/ did = "rule off" /\ disabled = Disabled \cup {work[c].rule}
           \/ did = "rule on" /\ disabled = Disabled \ {work[c].rule},
           Decide(c, did, work[c].rule, Set(Row(Settings, [disabled |-> disabled])))
    PROVE  IInv'
  <1> DEFINE row == [disabled |-> disabled]  rows == Row(Settings, row)  e == Set(rows)  about == work[c].rule
  <1>1. IsKey(Settings) /\ Settings[1] = "settings" /\ Settings # RoleKey(Owner)
    <2>1. IsKey(Settings) /\ Settings[1] = "settings"
      BY KeyFacts
    <2>2. RoleKey(Owner)[1] = "role"
      BY KeyFacts
    <2> QED  BY <2>1, <2>2
  <1>2. IsFunction(rows) /\ DOMAIN rows = {Settings} /\ rows[Settings] = row
    BY OneRow
  <1>3. e = Set(rows) /\ Decide(c, did, about, e) /\ row.disabled = disabled
    OBVIOUS
  <1>4. DisabledIn(db) = Disabled
    BY DEF DisabledIn, Disabled
  <1>5. /\ did \in {"rule on", "rule off"}
        /\ did = "rule off" => about \in disabled
        /\ \A x \in DisabledIn(db) : x \in disabled \/ (did = "rule on" /\ x = about)
    BY <1>4
  <1> HIDE DEF row, rows, e, about
  <1>6. IsRow(Settings, row)
    BY <1>1 DEF IsRow
  <1>7. DecisionOK(db, did, about, work[c].permissions, e, clock, {})
    <2>1. /\ IsFunction(rows) /\ e = Set(rows) /\ did \in {"rule on", "rule off"}
          /\ \A k \in DOMAIN rows : /\ k = Settings /\ IsKey(k) /\ IsRow(k, rows[k])
                                     /\ k[1] = "settings" /\ k # RoleKey(Owner)
      BY <1>1, <1>2, <1>3, <1>5, <1>6
    <2>2. \A k \in DOMAIN rows :
             /\ did = "rule off" => about \in rows[k].disabled
             /\ \A x \in DisabledIn(db) : x \in rows[k].disabled \/ (did = "rule on" /\ x = about)
      BY <1>2, <1>3, <1>5
    <2> QED  BY <2>1, <2>2, SetOK
  <1>8. work[c].pc \in {"called", "found"}
    OBVIOUS
  <1> QED  BY <1>3, <1>7, <1>8, DecideStep

\* SetRuleEnabled.
LEMMA ToggleStep ==
    ASSUME IInv, NEW c \in Clients, SetRuleEnabled(c), Keep
    PROVE  IInv'
  <1>1. CASE Decide(c, "rule off", work[c].rule,
                    Set(Row(Settings, [disabled |-> Disabled \cup {work[c].rule}])))
    <2> DEFINE D == Disabled \cup {work[c].rule}
    <2>1. work[c].pc = "found" /\ D = Disabled \cup {work[c].rule}
          /\ Decide(c, "rule off", work[c].rule, Set(Row(Settings, [disabled |-> D])))
      BY <1>1 DEF SetRuleEnabled
    <2> HIDE DEF D
    <2> QED  BY <2>1, ToggleRow
  <1>2. CASE Decide(c, "rule on", work[c].rule,
                    Set(Row(Settings, [disabled |-> Disabled \ {work[c].rule}])))
    <2> DEFINE D == Disabled \ {work[c].rule}
    <2>1. work[c].pc = "found" /\ D = Disabled \ {work[c].rule}
          /\ Decide(c, "rule on", work[c].rule, Set(Row(Settings, [disabled |-> D])))
      BY <1>2 DEF SetRuleEnabled
    <2> HIDE DEF D
    <2> QED  BY <2>1, ToggleRow
  <1> QED  BY <1>1, <1>2 DEF SetRuleEnabled

-----------------------------------------------------------------------------
(* The invariant                                                            *)

LEMMA Initially ==
    ASSUME Init
    PROVE  IInv
  <1>1. /\ db = InitialRows /\ clock = 1 /\ overrun = [t \in Licensed |-> 0] /\ standing = {} /\ blurred = {}
        /\ work = [c \in Clients |-> Idle] /\ own = [c \in Clients |-> Nothing]
        /\ since = [k \in {x \in Table("env") : db[x].soak # Never} |-> db[k].soak - Soak]
    BY DEF Init, StoreInit
  <1>2. TablesOK(db)
    BY <1>1, RowsAssumption DEF TablesOK, IsFunction, RowsOf
  <1>3. QuotaOK(db, overrun)
    <2>1. ASSUME NEW t \in Licensed, Limit(t) >= 0
          PROVE  Cardinality(RowsOf(db, t)) <= Limit(t) + overrun[t]
      <3>1. Cardinality(RowsOf(db, t)) <= Limit(t) /\ overrun[t] = 0
        BY <1>1, <2>1, RowsAssumption DEF RowsOf
      <3>2. Cardinality(RowsOf(db, t)) \in Nat
        BY <1>2, FS_CardinalityType DEF TablesOK
      <3>3. Limit(t) \in Int
        BY LicenceAssumption DEF Limit
      <3> QED  BY <3>1, <3>2, <3>3
    <2>2. overrun \in [Licensed -> Nat]
      BY <1>1
    <2> QED  BY <2>1, <2>2 DEF QuotaOK
  <1>4. StandingOK(db, standing)
    BY <1>1 DEF StandingOK
  <1>5. SoakOK(db, since, blurred, clock)
    <2>1. ASSUME NEW k \in RowsOf(db, "env")
          PROVE  /\ db[k].soak # Never => k \in DOMAIN since /\ since[k] + Soak = db[k].soak
                 /\ k[3] = "PRODUCTION" /\ db[k].mode = "BLOCK" => db[k].soak # Never /\ db[k].soak <= clock
      <3>1. k \in Table("env") /\ k \in DOMAIN db /\ k[1] = "env"
        BY DEF RowsOf, Table
      <3>2. db[k].soak \in Int /\ Soak \in Int
        BY <1>2, <3>1, FleetAssumption DEF TablesOK, IsRow
      <3>3. db[k].soak # Never => k \in DOMAIN since /\ since[k] = db[k].soak - Soak
        BY <1>1, <3>1
      <3>4. k[3] = "PRODUCTION" /\ db[k].mode = "BLOCK" => db[k].soak # Never /\ db[k].soak <= clock
        BY <1>1, <3>1, RowsAssumption
      <3> QED  BY <3>2, <3>3, <3>4
    <2>2. IsFunction(since)
      BY <1>1 DEF IsFunction
    <2> QED  BY <2>1, <2>2 DEF SoakOK
  <1>6. \E i : Owns(db, i)
    <2>1. PICK k \in DOMAIN InitialRows : k[1] = "member" /\ Link(k[2], Owner) \in DOMAIN InitialRows
      BY RowsAssumption
    <2>2. k = Member(k[2])
      BY <1>1, <1>2, <2>1, NamedByTable DEF TablesOK
    <2> QED  BY <1>1, <2>1, <2>2 DEF Owns
  <1>7. \A c \in Clients : Fine(db, work[c], own[c], clock)
    BY <1>1 DEF Fine, Busy, Idle
  <1>8. \A c, d \in Clients : Apart(own[c], own[d])
    BY <1>1, NothingIsApart
  <1>9. work = [c \in Clients |-> work[c]] /\ own = [c \in Clients |-> own[c]] /\ clock \in Nat
    BY <1>1
  <1> QED  BY <1>2, <1>3, <1>4, <1>5, <1>6, <1>7, <1>8, <1>9 DEF IInv

\* A step of nobody.
LEMMA Stutter ==
    ASSUME IInv, UNCHANGED vars
    PROVE  IInv'
  <1>1. /\ db' = db /\ work' = work /\ own' = own /\ clock' = clock /\ overrun' = overrun
        /\ deposed' = deposed /\ standing' = standing /\ since' = since /\ blurred' = blurred
    BY DEF vars, store, history
  <1> QED  BY <1>1 DEF IInv

\* Every step keeps the invariant.
LEMMA Steps ==
    ASSUME IInv, [Next]_vars
    PROVE  IInv'
  <1>1. ASSUME NEW c \in Clients,
               User(c) \/ Key(c) \/ AgentOf(c) \/ Sweeper(c) \/ Operator(c)
        PROVE  IInv'
    <2>1. Keep /\ \E who, held : Resolve(c, who, held)
      BY <1>1 DEF User, Key, AgentOf, Sweeper, Operator, ResolveUserPrincipal, ResolveApiKeyPrincipal,
                  ResolveAgentPrincipal, StartSweep, StartPublishing
    <2> QED  BY <2>1, ResolveStep
  <1>2. ASSUME NEW c \in Clients, Invite(c) \/ Assign(c) \/ Remove(c) PROVE IInv'
    BY <1>2, InviteStep, AssignStep, RemoveStep DEF Invite, Assign, Remove
  <1>3. ASSUME NEW c \in Clients, NewRole(c) \/ EditRole(c) \/ DropRole(c) \/ NewKey(c) \/ DropKey(c)
        PROVE  IInv'
    BY <1>3, NewRoleStep, EditRoleStep, DropRoleStep, NewKeyStep, DropKeyStep
       DEF NewRole, EditRole, DropRole, NewKey, DropKey
  <1>4. ASSUME NEW c \in Clients, NewApp(c) \/ DropApp(c) \/ NewEnvOf(c) \/ Protect(c) PROVE IInv'
    BY <1>4, NewAppStep, DropAppStep, NewEnvStep, ProtectStep DEF NewApp, DropApp, NewEnvOf, Protect
  <1>5. ASSUME NEW c \in Clients, Register(c) \/ Manage(c) \/ Heartbeat(c) \/ Sweep(c) PROVE IInv'
    BY <1>5, RegisterStep, ManageStep, HeartbeatStep, SweepStep DEF Register, Manage, Heartbeat, Sweep
  <1>6. ASSUME NEW c \in Clients, Publish(c) \/ Look(c) \/ Toggle(c) \/ Analyse(c) \/ Review(c)
        PROVE  IInv'
    BY <1>6, PublishStep, FindStep, ToggleStep, AnalyseStep, ReviewStep
       DEF Publish, Look, Toggle, Analyse, Review
  <1>7. ASSUME NEW c \in Clients, DeleteLinks(c) \/ WriteRows(c) \/ CommitRequest(c) \/ FailRequest(c)
        PROVE  IInv'
    BY <1>7, UnlinkStep, WriteStep, CommitStep, FailStep
       DEF DeleteLinks, WriteRows, CommitRequest, FailRequest
  <1>8. ASSUME Wait PROVE IInv'
    BY <1>8, TickStep DEF Wait
  <1>9. ASSUME UNCHANGED vars PROVE IInv'
    BY <1>9, Stutter
  <1> QED  BY <1>1, <1>2, <1>3, <1>4, <1>5, <1>6, <1>7, <1>8, <1>9 DEF Next

\* Rows and references are well formed, what others have committed leaves every
\* decision in progress as good as it was, and the histories account for the rest.
THEOREM AlwaysIInv == Spec => []IInv
  <1>1. Init => IInv
    BY Initially
  <1>2. IInv /\ [Next]_vars => IInv'
    BY Steps
  <1> QED  BY <1>1, <1>2, PTL DEF Spec

-----------------------------------------------------------------------------
(* The theorems                                                             *)

\* An organization keeps an Owner (KeepsAnOwner: rbac.py counts the Owners before it
\* demotes or removes one), unless two losses overlapped.
LEMMA OwnerIsThere ==
    ASSUME IInv
    PROVE  OwnerRemains
  <1>1. CASE deposed = TRUE
    BY <1>1 DEF OwnerRemains
  <1>2. CASE \E i : Owns(db, i)
    <2>1. TablesOK(db)
      BY DEF IInv
    <2>2. OwnerIds # {}
      BY <1>2, <2>1, OwnersAre
    <2>3. IsFiniteSet(OwnerIds)
      <3>1. IsFiniteSet(RowsOf(db, "member"))
        BY <2>1 DEF TablesOK, Licensed
      <3> DEFINE f == [i \in OwnerIds |-> Member(i)]
      <3>2. \A i \in OwnerIds : Member(i) \in RowsOf(db, "member") /\ Member(i)[2] = i
        BY <2>1, OwnersAre, KeyFacts DEF Owns, RowsOf
      <3>3. f \in Injection(OwnerIds, RowsOf(db, "member"))
        BY <3>2 DEF Injection, IsInjective
      <3> HIDE DEF f
      <3> QED  BY <3>1, <3>3, FS_Injection
    <2>4. Cardinality(OwnerIds) \in Nat /\ Cardinality(OwnerIds) # 0
      BY <2>2, <2>3, FS_CardinalityType, FS_EmptySet
    <2>5. CountOwners = Cardinality(OwnerIds)
      BY DEF CountOwners, OwnerIds
    <2> QED  BY <2>4, <2>5 DEF OwnerRemains
  <1> QED  BY <1>1, <1>2 DEF IInv

\* An organization keeps an Owner, for any number of requests and any rows to
\* begin with; only two losses that overlap take the last two (rbac.py, count_owners).
THEOREM OwnerAlwaysRemains == Spec => []OwnerRemains
  BY AlwaysIInv, OwnerIsThere, PTL

\* A licence is exceeded by no more than the creations that were checked beside
\* another change of the same table (License.check_* counts before the insert).
THEOREM QuotaAlwaysHolds == Spec => []QuotaHolds
  <1>1. IInv => QuotaHolds
    BY DEF IInv, QuotaOK, QuotaHolds, Table, RowsOf
  <1> QED  BY <1>1, AlwaysIInv, PTL

\* A disabled agent, a rule that is off and a reviewed answer stay so until the
\* decision is withdrawn or written back by a request that had read the row before.
LEMMA DecisionsAreKept ==
    ASSUME IInv
    PROVE  DecisionsStand
  <1> SUFFICES ASSUME NEW d \in standing, d[1] \in DOMAIN db PROVE Stands(d)
    BY DEF DecisionsStand
  <1>1. Settings[1] = "settings"
    BY KeyFacts
  <1>2. \/ d[1][1] = "agent" /\ db[d[1]].status = "DISABLED"
        \/ d[1] = Settings /\ d[1] \in DOMAIN db /\ d[2] \in db[Settings].disabled
        \/ d[1][1] = "analysis" /\ db[d[1]].status = d[2]
    BY DEF IInv, StandingOK
  <1>3. CASE d[1][1] = "agent" /\ db[d[1]].status = "DISABLED"
    BY <1>3 DEF Stands
  <1>4. CASE d[1] = Settings /\ d[1] \in DOMAIN db /\ d[2] \in db[Settings].disabled
    BY <1>1, <1>4 DEF Stands, Disabled
  <1>5. CASE d[1][1] = "analysis" /\ db[d[1]].status = d[2]
    BY <1>5 DEF Stands
  <1> QED  BY <1>2, <1>3, <1>4, <1>5

\* A disabled agent, a rule that is off and a reviewed analysis stay so until it is
\* withdrawn or written back from a row that had changed (agents.py, rules.py, ai.py).
THEOREM DecisionsAlwaysStand == Spec => []DecisionsStand
  BY AlwaysIInv, DecisionsAreKept, PTL

\* Production blocks only when the soak has passed since monitor mode was last
\* entered (with_mode and SoakSatisfied of inventory.py).
LEMMA SoakComesFirst ==
    ASSUME IInv
    PROVE  SoakBeforeBlock
  <1> SUFFICES ASSUME NEW k \in Table("env") \ blurred, k[3] = "PRODUCTION", db[k].mode = "BLOCK"
               PROVE  k \in DOMAIN since /\ since[k] + Soak <= clock
    BY DEF SoakBeforeBlock
  <1>1. k \in RowsOf(db, "env") \ blurred
    BY DEF Table, RowsOf
  <1> QED  BY <1>1 DEF IInv, SoakOK

\* Production blocks only when the soak has passed since monitor mode was last
\* entered (SetProtectionMode), unless the mode was written back from a stale row.
THEOREM SoakAlwaysBeforeBlock == Spec => []SoakBeforeBlock
  BY AlwaysIInv, SoakComesFirst, PTL

-----------------------------------------------------------------------------
(* Permissions                                                              *)

\* What a member may do, with the rows T.
RightsIn(T, i) ==
    UNION {T[RoleKey(r)].permissions : r \in {k[3] : k \in {l \in RowsOf(T, "link") : l[2] = i}}}

\* A right of a member is a permission of a role it has.
LEMMA RightsAre ==
    ASSUME NEW T, TablesOK(T), NEW i, NEW p
    PROVE  p \in RightsIn(T, i) <=> \E r : Link(i, r) \in DOMAIN T /\ p \in T[RoleKey(r)].permissions
  <1>1. ASSUME NEW r, Link(i, r) \in DOMAIN T, p \in T[RoleKey(r)].permissions
        PROVE  p \in RightsIn(T, i)
    <2> DEFINE k == Link(i, r)
    <2>1. k[1] = "link" /\ k[2] = i /\ k[3] = r /\ k \in DOMAIN T
      BY <1>1, KeyFacts
    <2> HIDE DEF k
    <2>2. r \in {l[3] : l \in {m \in RowsOf(T, "link") : m[2] = i}}
      BY <2>1 DEF RowsOf
    <2> QED  BY <1>1, <2>2 DEF RightsIn
  <1>2. ASSUME p \in RightsIn(T, i)
        PROVE  \E r : Link(i, r) \in DOMAIN T /\ p \in T[RoleKey(r)].permissions
    <2>1. PICK k \in DOMAIN T : k[1] = "link" /\ k[2] = i /\ p \in T[RoleKey(k[3])].permissions
      BY <1>2 DEF RightsIn, RowsOf
    <2>2. k = Link(k[2], k[3])
      BY <2>1, NamedByTable DEF TablesOK
    <2> QED  BY <2>1, <2>2
  <1> QED  BY <1>1, <1>2

\* What a commit changes of a role was held, or was not changed.
LEMMA RoleWritten ==
    ASSUME NEW T, TablesOK(T), NEW e, NEW o, Wrote(T, e, o), IsEffect(e), NEW T1, T1 = After(T, o),
           NEW held, NEW S, Covered(T, held, e, S),
           NEW k, k[1] = "role", k \in DOMAIN o.put => k \notin S, k \in DOMAIN T1
    PROVE  T1[k].permissions \subseteq held \/ (k \in DOMAIN T /\ T1[k].permissions = T[k].permissions)
  <1>1. /\ k \in DOMAIN o.put \/ (k \in DOMAIN T /\ T1[k] = T[k])
        /\ k \in DOMAIN e.new => T1[k] = e.new[k]
        /\ k \in DOMAIN e.set => T1[k] = e.set[k]
    BY CommitFacts
  <1>2. DOMAIN o.put = DOMAIN e.new \cup DOMAIN e.set
    BY PutFacts
  <1>3. CASE k \in DOMAIN e.new
    BY <1>1, <1>3 DEF Covered
  <1>4. CASE k \in DOMAIN e.set
    BY <1>1, <1>2, <1>4 DEF Covered
  <1> QED  BY <1>1, <1>2, <1>3, <1>4

\* What a commit adds to a member's rights, the caller held.
LEMMA RightsGrow ==
    ASSUME NEW T, TablesOK(T), NEW e, NEW o, Wrote(T, e, o), IsEffect(e), NEW T1, T1 = After(T, o), TablesOK(T1),
           NEW held, NEW S, Covered(T, held, e, S),
           \A k \in DOMAIN o.put : /\ k[1] = "role" => k \notin S
                                   /\ k[1] = "link" => RoleKey(k[3]) \notin S,
           NEW i, NEW p, p \in RightsIn(T1, i), p \notin RightsIn(T, i)
    PROVE  p \in held
  <1>1. PICK r : Link(i, r) \in DOMAIN T1 /\ p \in T1[RoleKey(r)].permissions
    BY RightsAre
  <1> DEFINE l == Link(i, r)  k == RoleKey(r)
  <1>2. l[1] = "link" /\ l[2] = i /\ l[3] = r /\ k[1] = "role"
    BY KeyFacts
  <1>3. \A row : Parents(l, row) = {Member(i), k}
    BY <1>2, ParentsAre
  <1>4. k \in DOMAIN T1 /\ (l \in DOMAIN T => k \in DOMAIN T)
    BY <1>1, <1>3 DEF TablesOK
  <1>5. l \in DOMAIN T => p \notin T[k].permissions
    BY RightsAre
  <1>6. RoleKey(l[3]) = k
    BY <1>2
  <1>7. l \in DOMAIN T1 /\ p \in T1[k].permissions
    BY <1>1
  <1> HIDE DEF l, k
  <1>8. T1[k].permissions \subseteq held \/ (k \in DOMAIN T /\ T1[k].permissions = T[k].permissions)
    BY <1>2, <1>4, RoleWritten
  <1>9. CASE l \in DOMAIN T
    BY <1>5, <1>7, <1>8, <1>9
  <1>10. CASE l \notin DOMAIN T
    <2>1. l \in DOMAIN o.put /\ DOMAIN o.put = DOMAIN e.new \cup DOMAIN e.set
      BY <1>7, <1>10, CommitFacts, PutFacts
    <2>2. l \in DOMAIN e.new
      BY <1>2, <2>1 DEF IsEffect
    <2>3. k \notin S
      BY <1>2, <1>6, <2>1
    <2>4. k \in DOMAIN T /\ T[k].permissions \subseteq held
      BY <1>2, <1>6, <2>2, <2>3 DEF Covered
    <2> QED  BY <1>7, <1>8, <2>4
  <1> QED  BY <1>9, <1>10

\* What a commit adds to a key, the caller held.
LEMMA KeysGrow ==
    ASSUME NEW T, TablesOK(T), NEW e, NEW o, Wrote(T, e, o), IsEffect(e), NEW T1, T1 = After(T, o),
           NEW held, NEW S, Covered(T, held, e, S), NEW k \in DOMAIN T1, k \notin DOMAIN T, k[1] = "key"
    PROVE  T1[k].permissions \subseteq held
  <1>1. k \in DOMAIN o.put /\ DOMAIN o.put = DOMAIN e.new \cup DOMAIN e.set
    BY CommitFacts, PutFacts
  <1>2. k # Settings
    BY KeyFacts
  <1>3. k \in DOMAIN e.new
    BY <1>1, <1>2 DEF Wrote, Saved, Settings
  <1>4. T1[k] = e.new[k]
    BY <1>3, CommitFacts
  <1> QED  BY <1>3, <1>4 DEF Covered

\* Only a commit changes a row.
LEMMA OnlyCommits ==
    ASSUME IInv, [Next]_vars
    PROVE  db' = db \/ \E c \in Clients : Commit(c)
  <1>1. \A c, did, about, e : Decide(c, did, about, e) => db' = db
    BY DEF Decide
  <1>2. \A c, who, held : Resolve(c, who, held) => db' = db
    BY DEF Resolve
  <1>3. ASSUME NEW c \in Clients,
               User(c) \/ Key(c) \/ AgentOf(c) \/ Sweeper(c) \/ Operator(c)
        PROVE  db' = db
    BY <1>2, <1>3 DEF User, Key, AgentOf, Sweeper, Operator, ResolveUserPrincipal, ResolveApiKeyPrincipal,
                      ResolveAgentPrincipal, StartSweep, StartPublishing
  <1>4. ASSUME NEW c \in Clients, Invite(c) \/ Assign(c) \/ Remove(c) PROVE db' = db
    BY <1>1, <1>4 DEF Invite, Assign, Remove, InviteMember, UpdateMemberRoles, RemoveMember
  <1>5. ASSUME NEW c \in Clients, NewRole(c) \/ EditRole(c) \/ DropRole(c) \/ NewKey(c) \/ DropKey(c)
        PROVE  db' = db
    BY <1>1, <1>5 DEF NewRole, EditRole, DropRole, NewKey, DropKey, CreateRole, UpdateRole, DeleteRole,
                      CreateApiKey, RevokeApiKey
  <1>6. ASSUME NEW c \in Clients, NewApp(c) \/ DropApp(c) \/ NewEnvOf(c) \/ Protect(c) PROVE db' = db
    BY <1>1, <1>6 DEF NewApp, DropApp, NewEnvOf, Protect, CreateApplication, DeleteApplication,
                      CreateEnvironment, SetProtectionMode
  <1>7. ASSUME NEW c \in Clients, Manage(c) \/ Heartbeat(c) \/ Sweep(c) PROVE db' = db
    BY <1>1, <1>7 DEF Manage, Heartbeat, Sweep, UpdateAgent, RecordHeartbeat, SweepOfflineAgents
  <1>8. ASSUME NEW c \in Clients, Register(c) PROVE db' = db
    <2>1. \E e : Decide(c, "register", "", e)
      BY <1>8, ZenonT(60) DEF Register, RegisterAgent
    <2> QED  BY <1>1, <2>1
  <1>9. ASSUME NEW c \in Clients, Publish(c) \/ Look(c) \/ Toggle(c) \/ Analyse(c) \/ Review(c)
        PROVE  db' = db
    BY <1>1, <1>9 DEF Publish, Look, Toggle, Analyse, Review, PublishRuleBundle, FindRule, SetRuleEnabled,
                      AnalyseFinding, ReviewAnalysis
  <1>10. ASSUME NEW c \in Clients, DeleteLinks(c) \/ WriteRows(c) \/ FailRequest(c) PROVE db' = db
    BY <1>10 DEF DeleteLinks, WriteRows, FailRequest, Unlink, Write, Fail
  <1>11. ASSUME NEW c \in Clients, CommitRequest(c) PROVE Commit(c)
    BY <1>11 DEF CommitRequest
  <1>12. ASSUME Wait \/ UNCHANGED vars PROVE db' = db
    BY <1>12 DEF Wait, Tick, vars, store
  <1> QED  BY <1>3, <1>4, <1>5, <1>6, <1>7, <1>8, <1>9, <1>10, <1>11, <1>12 DEF Next

\* One step of GrantsAreCovered.
LEMMA GrantedByOne ==
    ASSUME IInv, IInv', [Next]_vars, NEW c \in Clients, work[c].pc = "commit", work'[c] = Idle,
           \A k \in DOMAIN own[c].put : /\ k[1] = "role" => k \notin work[c].stale
                                        /\ k[1] = "link" => RoleKey(k[3]) \notin work[c].stale
    PROVE  /\ \A i : RightsIn(db', i) \ RightsIn(db, i) \subseteq work[c].permissions
           /\ \A k \in RowsOf(db', "key") \ RowsOf(db, "key") : db'[k].permissions \subseteq work[c].permissions
  <1>1. CASE db' = db
    BY <1>1
  <1>2. ASSUME NEW d \in Clients, Commit(d), d # c PROVE FALSE
    <2>1. work'[c] = [work[c] EXCEPT !.stale = @ \cup Touched(d)]
      BY <1>2 DEF Commit
    <2>2. IsDecided(work[c])
      BY DEF IInv, Fine, Busy
    <2> DEFINE w == work[c]  S == w.stale \cup Touched(d)
    <2>3. w = [pc |-> w.pc, did |-> w.did, about |-> w.about, who |-> w.who,
               permissions |-> w.permissions, effect |-> w.effect, now |-> w.now, stale |-> w.stale]
      BY <2>2 DEF IsDecided
    <2>4. [w EXCEPT !.stale = S].pc = w.pc
      <3> HIDE DEF w, S
      <3> QED  BY <2>3
    <2>5. Idle.pc = "idle"
      BY DEF Idle
    <2> QED  BY <2>1, <2>4, <2>5
  <1>3. CASE Commit(c)
    <2> DEFINE w == work[c]  e == w.effect  o == own[c]  held == w.permissions
    <2>1. /\ Wrote(db, e, o) /\ TablesOK(db) /\ TablesOK(db')
          /\ DecisionOK(db, w.did, w.about, held, e, w.now, w.stale)
      BY DEF IInv, Fine, Busy
    <2>2. IsEffect(e) /\ Covered(db, held, e, w.stale)
      BY <2>1 DEF DecisionOK
    <2>3. db' = After(db, o)
      BY <1>3 DEF Commit, After
    <2> HIDE DEF e, o, held
    <2>4. \A k \in DOMAIN o.put : /\ k[1] = "role" => k \notin w.stale
                                  /\ k[1] = "link" => RoleKey(k[3]) \notin w.stale
      BY DEF o
    <2> HIDE DEF w
    <2>5. ASSUME NEW i, NEW p, p \in RightsIn(db', i), p \notin RightsIn(db, i) PROVE p \in held
      BY <2>1, <2>2, <2>3, <2>4, <2>5, RightsGrow
    <2>6. ASSUME NEW k \in RowsOf(db', "key") \ RowsOf(db, "key") PROVE db'[k].permissions \subseteq held
      BY <2>1, <2>2, <2>3, <2>6, KeysGrow DEF RowsOf
    <2> QED  BY <2>5, <2>6 DEF held, w
  <1> QED  BY <1>1, <1>2, <1>3, OnlyCommits

\* What a commit adds to a member's rights or to a key the caller held, unless the
\* role it wrote or assigned changed after it was read (assert_can_grant of rbac.py).
THEOREM GrantsAreAlwaysCovered == Spec => GrantsAreCovered
  <1> DEFINE A ==
        \A c \in Clients :
         LET held == work[c].permissions
             read == {k \in DOMAIN own[c].put : k[1] = "role"}
                       \cup {RoleKey(k[3]) : k \in {l \in DOMAIN own[c].put : l[1] = "link"}}
         IN (work[c].pc = "commit" /\ work'[c] = Idle /\ read \cap work[c].stale = {}) =>
              /\ \A i \in MemberIds' :
                    PermissionsOf(RolesOf(i))' \ PermissionsOf(RolesOf(i)) \subseteq held
              /\ \A k \in Table("key")' \ Table("key") : db'[k].permissions \subseteq held
  <1>1. ASSUME IInv, IInv', [Next]_vars PROVE A
    <2> SUFFICES ASSUME NEW c \in Clients, work[c].pc = "commit", work'[c] = Idle,
                        ({k \in DOMAIN own[c].put : k[1] = "role"}
                           \cup {RoleKey(k[3]) : k \in {l \in DOMAIN own[c].put : l[1] = "link"}})
                           \cap work[c].stale = {}
                 PROVE  /\ \A i \in MemberIds' :
                              PermissionsOf(RolesOf(i))' \ PermissionsOf(RolesOf(i)) \subseteq work[c].permissions
                        /\ \A k \in Table("key")' \ Table("key") : db'[k].permissions \subseteq work[c].permissions
      OBVIOUS
    <2>1. \A k \in DOMAIN own[c].put : /\ k[1] = "role" => k \notin work[c].stale
                                       /\ k[1] = "link" => RoleKey(k[3]) \notin work[c].stale
      OBVIOUS
    <2>2. /\ \A i : RightsIn(db', i) \ RightsIn(db, i) \subseteq work[c].permissions
          /\ \A k \in RowsOf(db', "key") \ RowsOf(db, "key") : db'[k].permissions \subseteq work[c].permissions
      BY <1>1, <2>1, GrantedByOne
    <2>3. \A i : PermissionsOf(RolesOf(i)) = RightsIn(db, i)
      BY DEF PermissionsOf, RolesOf, Table, RightsIn, RowsOf
    <2>4. \A i : PermissionsOf(RolesOf(i))' = RightsIn(db', i)
      BY DEF PermissionsOf, RolesOf, Table, RightsIn, RowsOf
    <2>5. Table("key") = RowsOf(db, "key") /\ Table("key")' = RowsOf(db', "key")
      BY DEF Table, RowsOf
    <2> QED  BY <2>2, <2>3, <2>4, <2>5
  <1>2. IInv /\ IInv' /\ [Next]_vars => [A]_vars
    BY <1>1
  <1> HIDE DEF A
  <1>3. Spec => [][A]_vars
    BY <1>2, AlwaysIInv, PTL DEF Spec
  <1> QED  BY <1>3 DEF GrantsAreCovered, A

=============================================================================
