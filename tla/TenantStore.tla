----------------------------- MODULE TenantStore -----------------------------
(***************************************************************************)
(* The tables of one tenant and the life of a request on them.  A request  *)
(* resolves its principal in a transaction of its own; then it opens a     *)
(* second one, READ COMMITTED, reads and decides, writes, and commits.     *)
(* What it writes was decided on what it read.  Rows are named by table    *)
(* and id; foreign keys cascade.                                           *)
(*                                                                         *)
(* The reads of a request are one step, and so are its writes: the second  *)
(* read of update() and the statements one by one are in FindingRecords    *)
(* and Sessions.  The one statement that matters by itself here, DELETE of *)
(* a member's roles, picks its rows in a step of its own.                  *)
(***************************************************************************)
EXTENDS Integers, Sequences, FiniteSets, Functions

CONSTANTS
    Clients,            \* requests in progress at once
    InitialRows,        \* what the tenant starts with
    MaxClock, MaxRequests   \* bounds on the environment

ASSUME StoreBounds == MaxClock \in Nat /\ MaxRequests \in Nat

VARIABLES
    db,         \* committed rows, by key
    work,       \* per client: the request in progress
    own,        \* per client: what it wrote and has not yet committed
    clock, requests

store == <<db, work, own, clock, requests>>

Never == 0

(***************************************************************************)
(* Keys, references and what a row must not share with another             *)
(***************************************************************************)
Member(i)    == <<"member", i>>
Link(i, r)   == <<"link", i, r>>        \* the member, the role
RoleKey(i)   == <<"role", i>>
ApiKey(i)    == <<"key", i>>
App(i)       == <<"app", i>>
Env(i, kind) == <<"env", i, kind>>      \* the application, the kind
Agent(i)     == <<"agent", i>>

\* One row, and rows over others.
Row(k, columns) == [i \in {k} |-> columns]

Overlay(new, old) ==
    [k \in DOMAIN new \cup DOMAIN old |-> IF k \in DOMAIN new THEN new[k] ELSE old[k]]

Table(name) == {k \in DOMAIN db : k[1] = name}

\* License.check_*: -1 is unlimited.
Under(limit, table) == limit < 0 \/ Cardinality(Table(table)) < limit

\* Foreign keys: the rows a row hangs on, with ON DELETE CASCADE.
Parents(k, row) ==
    CASE k[1] = "link"  -> {Member(k[2]), RoleKey(k[3])}
      [] k[1] = "env"   -> {App(k[2])}
      [] k[1] = "agent" -> {row.env}
      [] OTHER          -> {}

Cascade(rows, keys) ==
    LET hang(S) == S \cup {k \in DOMAIN rows : Parents(k, rows[k]) \cap S # {}}
    IN hang(hang(keys))

\* Unique indexes beside the primary keys: user, role name, slug, fingerprint.
Unique(k, row) ==
    IF k[1] \in {"member", "role", "app", "agent"} THEN {<<k[1], row.name>>} ELSE {}

Named(table, name) == {k \in Table(table) : db[k].name = name}

Uniques(rows) == UNION {Unique(k, rows[k]) : k \in DOMAIN rows}

(***************************************************************************)
(* A request                                                               *)
(***************************************************************************)
Idle    == [pc |-> "idle"]
Nothing == [put |-> <<>>, gone |-> {}, refs |-> {}]

StoreInit ==
    /\ db = InitialRows
    /\ work = [c \in Clients |-> Idle]
    /\ own = [c \in Clients |-> Nothing]
    /\ clock = 1 /\ requests = 0

\* The principal is resolved: who asks, and with which permissions.
Resolve(c, who, permissions) ==
    /\ work[c] = Idle /\ requests < MaxRequests
    /\ requests' = requests + 1
    /\ work' = [work EXCEPT ![c] =
          [pc |-> "called", who |-> who, permissions |-> permissions, id |-> requests + 1]]
    /\ UNCHANGED <<db, own, clock>>

Called(c)            == work[c].pc = "called"
Requires(c, p)       == p \in work[c].permissions
CanGrant(c, granted) == granted \subseteq work[c].permissions

\* What a request is about to write: rows it adds, rows it sets, rows it
\* deletes, and the member whose roles it replaces.
Effect(new, set, gone, unlink) == [new |-> new, set |-> set, gone |-> gone, unlink |-> unlink]
Add(new)   == Effect(new, <<>>, {}, {})
Set(rows)  == Effect(<<>>, rows, {}, {})
Delete(k)  == Effect(<<>>, <<>>, {k}, {})

\* The decision, on what is committed now: what is done, about what.
Decide(c, did, about, effect) ==
    /\ work' = [work EXCEPT ![c] =
          [pc |-> IF effect.unlink = {} THEN "write" ELSE "unlink", did |-> did,
           about |-> about, who |-> @.who, permissions |-> @.permissions, effect |-> effect, now |-> clock,
           stale |-> {}]]
    /\ UNCHANGED <<db, own, clock, requests>>

\* DELETE FROM membership_roles: the rows there are when the statement starts.
Unlink(c) ==
    /\ work[c].pc = "unlink"
    /\ work' = [work EXCEPT ![c].pc = "write",
                            ![c].effect.gone = {k \in Table("link") : k[2] \in work[c].effect.unlink}]
    /\ UNCHANGED <<db, own, clock, requests>>

(***************************************************************************)
(* Writing: locks, constraints, commit                                     *)
(***************************************************************************)
Written(c) ==
    LET e == work[c].effect
        put == Overlay(e.new, e.set)
    IN [put |-> put,
        gone |-> IF e.unlink = {} THEN Cascade(db, e.gone) ELSE e.gone,
        refs |-> UNION {Parents(k, put[k]) : k \in DOMAIN put}]

\* A row that is written waits for whoever wrote it; a reference waits for a
\* deletion of what it points at, and the other way round.
Free(c) ==
    LET w == Written(c)
    IN \A d \in Clients \ {c} :
          /\ (DOMAIN own[d].put \cup own[d].gone) \cap (DOMAIN w.put \cup w.gone) = {}
          /\ own[d].gone \cap w.refs = {} /\ own[d].refs \cap w.gone = {}
          /\ Uniques(own[d].put) \cap Uniques(work[c].effect.new) = {}

\* Rows that save() inserts or updates, whichever fits when it looks.
Saved == {<<"settings", 0>>}

\* Rows to be set are still there, rows to be added are not, references hold.
Consistent(c) ==
    LET w == Written(c)
        left == DOMAIN db \ w.gone
    IN /\ DOMAIN work[c].effect.set \ Saved \subseteq left
       /\ DOMAIN work[c].effect.new \cap left = {}
       /\ w.refs \subseteq left \cup DOMAIN work[c].effect.new
       /\ Uniques(w.put) \cap Uniques(Restrict(db, left \ DOMAIN w.put)) = {}

Write(c) ==
    /\ work[c].pc = "write" /\ Free(c) /\ Consistent(c)
    /\ own' = [own EXCEPT ![c] = Written(c)]
    /\ work' = [work EXCEPT ![c].pc = "commit"]
    /\ UNCHANGED <<db, clock, requests>>

Touched(c) == DOMAIN own[c].put \cup own[c].gone

Commit(c) ==
    /\ work[c].pc = "commit"
    /\ db' = Overlay(own[c].put, Restrict(db, DOMAIN db \ own[c].gone))
    \* whoever has decided and not committed did so on rows that are no longer
    /\ work' = [d \in Clients |->
          IF d = c THEN Idle
          ELSE IF work[d].pc \in {"unlink", "write", "commit"}
               THEN [work[d] EXCEPT !.stale = @ \cup Touched(c)] ELSE work[d]]
    /\ own' = [own EXCEPT ![c] = Nothing]
    /\ UNCHANGED <<clock, requests>>

\* A request that is refused, meets a constraint or loses its session ends
\* without a trace.
Fail(c) ==
    /\ work[c] # Idle
    /\ work' = [work EXCEPT ![c] = Idle]
    /\ own' = [own EXCEPT ![c] = Nothing]
    /\ UNCHANGED <<db, clock, requests>>

Tick ==
    /\ clock < MaxClock /\ clock' = clock + 1
    /\ UNCHANGED <<db, work, own, requests>>
=============================================================================
