------------------------------ MODULE Sessions ------------------------------
(***************************************************************************)
(* One user's account and its refresh sessions under concurrent requests:  *)
(* sign-in with lockout, the second factor, refresh with rotation and      *)
(* reuse detection, sign-out, password change, MFA enrolment and removal   *)
(* from the organization.  Each use case is one READ COMMITTED             *)
(* transaction: it loads, decides on what it loaded, and then writes row   *)
(* by row.  update() reads the row again and the flush sends every column  *)
(* that differs from this second read; bulk UPDATEs act on what is         *)
(* committed when they run.  A written row stays locked until the commit.  *)
(***************************************************************************)
EXTENDS Integers, Sequences, FiniteSets

CONSTANTS
    Clients,                        \* requests that can be in progress at once
    Passwords, FirstPassword,
    RecoveryCodes,                  \* codes of one enrolment
    MaxSessions,                    \* TokenPolicy.max_sessions_per_user
    RefreshTtl, Grace, ChallengeTtl,
    Threshold, LockBase, LockMax,   \* LockoutPolicy
    MfaAtStart,                     \* whether the account starts with a second factor: a set
    HashAtStart,                    \* whether its hash has today's parameters: a set
    Asked,                          \* kinds of requests that are made
    MaxClock, MaxRequests, MaxId    \* bounds on the environment

ASSUME PolicyAssumption ==
    /\ {MaxSessions, RefreshTtl, Threshold, LockBase, LockMax} \subseteq Nat \ {0}
    /\ {Grace, ChallengeTtl} \subseteq Nat
ASSUME AccountAssumption == FirstPassword \in Passwords /\ {MfaAtStart, HashAtStart} \subseteq SUBSET BOOLEAN
ASSUME BoundAssumption == {MaxClock, MaxRequests, MaxId} \subseteq Nat

Never == 0

VARIABLES
    user,       \* [password, mfa, failed, lockedUntil], the password as a hash
    member,     \* the membership is there and active
    sessions,   \* id -> [family, created, expires, rotated, by, revoked]
    factors,    \* stored credentials: [kind, code, set, state], set being the enrolment
    challenges, \* expiries of the challenge tokens handed out
    work,       \* per client: the request in progress
    own,        \* per client: what it wrote and not yet committed; its locks
    clock, nextId, requests,
    races,      \* history: pairs of a commit and a request it overlapped that commits later
    ended,      \* history: families ended while no other request was running
    failures,   \* history: failed attempts since the last success
    uses        \* history: sign-ins completed with each recovery code

account == <<user, member, sessions, factors, challenges>>
history == <<races, ended, failures, uses>>
vars    == <<account, work, own, clock, nextId, requests, history>>

(***************************************************************************)
(* Policies and entities                                                   *)
(***************************************************************************)
AtMost(x, y) == IF x < y THEN x ELSE y

\* Mutant of LockDuration: the threshold is passed one failure later.
LockDurationLate(failed) ==
    IF failed <= Threshold THEN 0 ELSE AtMost(LockBase * 2^(failed - Threshold), LockMax)

LockDuration(failed) ==
    IF failed < Threshold THEN 0 ELSE AtMost(LockBase * 2^(failed - Threshold), LockMax)

Locked(u, now) == u.lockedUntil > now

RecordFailedLogin(u, now) ==
    LET count == u.failed + 1
    IN [u EXCEPT !.failed = count,
                 !.lockedUntil = IF LockDuration(count) > 0 THEN now + LockDuration(count) ELSE @]

RecordSuccessfulLogin(u) == [u EXCEPT !.failed = 0, !.lockedUntil = Never]

\* A hash made now; needs_rehash of one made with other parameters.
Hashed(p) == [of |-> p, current |-> TRUE]

SetPassword(u, hash) == [RecordSuccessfulLogin(u) EXCEPT !.password = hash]

\* A sign-in with the right password stores its hash again when the stored one
\* was made with other parameters.
SignedIn(u) == SetPassword(u, [u.password EXCEPT !.current = TRUE])

Start(id, now) ==
    [family |-> id, created |-> now, expires |-> now + RefreshTtl,
     rotated |-> Never, by |-> 0, revoked |-> Never]

Rotated(s, id, now) == [s EXCEPT !.rotated = now, !.by = id]

\* Mutant of Successor: a refresh starts a new lifetime.
SuccessorRenewed(s, now) ==
    [s EXCEPT !.created = now, !.expires = now + RefreshTtl, !.rotated = Never, !.by = 0,
              !.revoked = Never]

\* Rotation extends nothing: the successor inherits the expiry.
Successor(s, now) ==
    [s EXCEPT !.created = now, !.rotated = Never, !.by = 0, !.revoked = Never]

Revoked(s, now) == IF s.revoked = Never THEN [s EXCEPT !.revoked = now] ELSE s

Expired(s, now) == s.expires <= now
Active(s, now)  == s.revoked = Never /\ s.rotated = Never /\ ~Expired(s, now)
WithinGrace(s, now) == now - s.rotated <= Grace

(***************************************************************************)
(* The database                                                            *)
(***************************************************************************)
Nothing == [user |-> <<>>, sessions |-> <<>>, dropped |-> {}, added |-> {}, left |-> FALSE]
Idle == [kind |-> "idle", steps |-> <<>>]

Overlay(new, old) ==
    [i \in DOMAIN new \cup DOMAIN old |-> IF i \in DOMAIN new THEN new[i] ELSE old[i]]

SessionsSeen(c) == Overlay(own[c].sessions, sessions)
UserSeen(c)     == IF own[c].user = <<>> THEN user ELSE Head(own[c].user)
FactorsSeen(c)  == (factors \ own[c].dropped) \cup own[c].added

Others(c) == Clients \ {c}

\* The columns of obj that differ from what was seen, over what is there now.
Merge(current, obj, seen) ==
    [k \in DOMAIN obj |-> IF obj[k] # seen[k] THEN obj[k] ELSE current[k]]

\* ResolveUserPrincipal: whether an access token of this session is accepted.
Accepted(id) ==
    /\ ~Locked(user, clock) /\ member
    /\ id \in DOMAIN sessions /\ sessions[id].revoked = Never

(***************************************************************************)
(* The writes of a request, in order                                       *)
(***************************************************************************)
UserStep(u)         == [op |-> "user", obj |-> u]
SessionStep(id, s)  == [op |-> "session", id |-> id, obj |-> s]
InsertStep(id, s)   == [op |-> "insert", id |-> id, obj |-> s]
FamilyStep(f)       == [op |-> "revoke", families |-> {f}, except |-> 0]
EveryoneStep(id)    == [op |-> "revoke", families |-> 1..MaxId, except |-> id]
\* Mutant of FactorStep: the code is checked and not consumed.
FactorStepUnused(f, state) == [op |-> "factor", row |-> f, obj |-> f]

FactorStep(f, state) == [op |-> "factor", row |-> f, obj |-> [f EXCEPT !.state = state]]
DiscardStep(new)    == [op |-> "discard", added |-> new]
LeaveStep           == [op |-> "leave"]
CapStep             == [op |-> "cap"]

Enrolment(n, state) ==
    {[kind |-> "TOTP", code |-> "app", set |-> n, state |-> state]}
        \cup {[kind |-> "RECOVERY", code |-> r, set |-> n, state |-> "unused"] :
                  r \in RecoveryCodes}

Init ==
    /\ \E mfa \in MfaAtStart, current \in HashAtStart :
          /\ user = [password |-> [of |-> FirstPassword, current |-> current], mfa |-> mfa,
                     failed |-> 0, lockedUntil |-> Never]
          /\ factors = IF mfa THEN Enrolment(0, "confirmed") ELSE {}
    /\ member = TRUE
    /\ sessions = <<Start(1, 1)>>
    /\ challenges = {}
    /\ work = [c \in Clients |-> Idle]
    /\ own = [c \in Clients |-> Nothing]
    /\ clock = 1 /\ nextId = 2 /\ requests = 0
    /\ races = 0 /\ ended = {} /\ failures = 0
    /\ uses = [r \in RecoveryCodes \X (0..MaxRequests) |-> 0]

\* A request loads and decides; `said' is what its answer will mean, `note' the
\* session it spares or the recovery code it takes.
Begin(c, kind, steps, said, note) ==
    /\ work[c] = Idle /\ requests < MaxRequests /\ kind \in Asked
    /\ requests' = requests + 1
    /\ work' = [work EXCEPT ![c] =
          [kind |-> kind, steps |-> steps, said |-> said, note |-> note, now |-> clock,
           seen |-> <<>>, beside |-> 0]]
    /\ UNCHANGED <<account, own, clock, history>>

(***************************************************************************)
(* Sign-in                                                                 *)
(***************************************************************************)
\* AuthenticateUser: a locked account is refused before the password is looked
\* at, and a wrong password counts whether or not there is a membership.
SignIn(c) ==
    /\ ~Locked(user, clock)
    /\ \E p \in Passwords :
         \/ /\ p # user.password.of
            /\ Begin(c, "signin", <<UserStep(RecordFailedLogin(user, clock))>>, "failure", 0)
         \/ /\ p = user.password.of /\ member
            /\ IF user.mfa
               THEN Begin(c, "signin", <<UserStep(SignedIn(user))>>, "challenge", 0)
               ELSE Begin(c, "signin", <<UserStep(SignedIn(user)), CapStep>>, "tokens", 0)
    /\ UNCHANGED nextId

\* CompleteMfaChallenge: the challenge is good until it expires; the code is the
\* app's, an unused recovery code, or wrong.  A code of the app updates its
\* credential too (last_used_at, a column left out).
CompleteMfa(c) ==
    /\ \E t \in challenges : t > clock
    /\ ~Locked(user, clock) /\ member
    /\ \/ Begin(c, "mfa", <<UserStep(RecordFailedLogin(user, clock))>>, "failure", 0)
       \/ \E f \in factors :
            /\ f.kind = "TOTP" /\ f.state = "confirmed"
            /\ Begin(c, "mfa",
                     <<FactorStep(f, "confirmed"), UserStep(RecordSuccessfulLogin(user)), CapStep>>,
                     "tokens", 0)
       \/ \E f \in factors :
            /\ f.kind = "RECOVERY" /\ f.state = "unused"
            /\ Begin(c, "mfa",
                     <<FactorStep(f, "used"), UserStep(RecordSuccessfulLogin(user)), CapStep>>,
                     "recovered", <<f.code, f.set>>)
    /\ UNCHANGED nextId

(***************************************************************************)
(* Refresh                                                                 *)
(***************************************************************************)
\* Mutant of Verdict: the revocation is not looked at.
VerdictIgnoringRevoked(s, now) ==
    IF s.rotated # Never THEN (IF WithinGrace(s, now) THEN "reissued" ELSE "reuse")
    ELSE IF Expired(s, now) \/ Locked(user, now) THEN "refused"
    ELSE IF ~member THEN "left"
    ELSE "rotate"

\* Mutant of Verdict: a consumed token is accepted again.
VerdictIgnoringRotated(s, now) ==
    IF s.revoked # Never \/ Expired(s, now) \/ Locked(user, now) THEN "refused"
    ELSE IF ~member THEN "left"
    ELSE "rotate"

\* What RefreshSession does with a token, from the session it names.
Verdict(s, now) ==
    IF s.revoked # Never THEN "refused"
    ELSE IF s.rotated # Never THEN (IF WithinGrace(s, now) THEN "reissued" ELSE "reuse")
    ELSE IF Expired(s, now) \/ Locked(user, now) THEN "refused"
    ELSE IF ~member THEN "left"
    ELSE "rotate"

Refresh(c) ==
    \E id \in DOMAIN sessions :
        LET s == sessions[id]
        IN \/ /\ Verdict(s, clock) \in {"reuse", "left"}
              /\ Begin(c, "refresh", <<FamilyStep(s.family)>>, "ended", 0)
              /\ UNCHANGED nextId
           \/ /\ Verdict(s, clock) = "rotate" /\ nextId <= MaxId
              /\ nextId' = nextId + 1
              /\ Begin(c, "refresh",
                       <<SessionStep(id, Rotated(s, nextId, clock)),
                         InsertStep(nextId, Successor(s, clock))>>, "rotated", 0)

(***************************************************************************)
(* Requests of a signed-in user                                            *)
(***************************************************************************)
SignOut(c) ==
    /\ \E id \in DOMAIN sessions :
          /\ Accepted(id)
          /\ Begin(c, "signout", <<FamilyStep(sessions[id].family)>>, "ended", 0)
    /\ UNCHANGED nextId

SignOutEverywhere(c) ==
    /\ \E id \in DOMAIN sessions : Accepted(id)
    /\ Begin(c, "signout all", <<EveryoneStep(0)>>, "ended", 0)
    /\ UNCHANGED nextId

ChangePassword(c) ==
    /\ \E id \in DOMAIN sessions, p \in Passwords \ {user.password.of} :
          /\ Accepted(id)
          /\ Begin(c, "password", <<UserStep(SetPassword(user, Hashed(p))), EveryoneStep(id)>>, "ended", id)
    /\ UNCHANGED nextId

\* EnrolMfa discards what is stored and stores a pending secret with its codes.
EnrolMfa(c) ==
    /\ ~user.mfa /\ \E id \in DOMAIN sessions : Accepted(id)
    /\ Begin(c, "enrol",
             <<DiscardStep(Enrolment(requests + 1, "pending"))>>, "done", 0)
    /\ UNCHANGED nextId

ConfirmMfa(c) ==
    /\ \E id \in DOMAIN sessions : Accepted(id)
    /\ \E f \in factors :
          /\ f.kind = "TOTP" /\ f.state = "pending"
          /\ Begin(c, "confirm", <<FactorStep(f, "confirmed"),
                                   UserStep([user EXCEPT !.mfa = TRUE])>>, "done", 0)
    /\ UNCHANGED nextId

DisableMfa(c) ==
    /\ user.mfa /\ \E id \in DOMAIN sessions : Accepted(id)
    /\ Begin(c, "disable", <<DiscardStep({}),
                             UserStep([user EXCEPT !.mfa = FALSE])>>, "done", 0)
    /\ UNCHANGED nextId

\* RemoveMember (application/rbac.py), asked for by somebody else.
RemoveMember(c) ==
    /\ member
    /\ Begin(c, "remove", <<LeaveStep, EveryoneStep(0)>>, "ended", 0)
    /\ UNCHANGED nextId

(***************************************************************************)
(* Writing                                                                 *)
(***************************************************************************)
Next1(c) == Head(work[c].steps)
Owes(c, op) == work[c].steps # <<>> /\ Next1(c).op = op

UserHeld(c)        == \E d \in Others(c) : own[d].user # <<>>
SessionHeld(c, id) == id \in DOMAIN sessions /\ \E d \in Others(c) : id \in DOMAIN own[d].sessions
SameRow(f, g)      == f.kind = g.kind /\ f.code = g.code /\ f.set = g.set
FactorHeld(c, f)   == \E d \in Others(c) : \E g \in own[d].dropped : SameRow(f, g)

Advance(c, more) ==
    work' = [work EXCEPT ![c].steps = more \o Tail(@), ![c].seen = <<>>]

unwritten == <<account, clock, requests, history>>

\* The second read of update().
Reread(c) ==
    /\ (Owes(c, "user") \/ Owes(c, "session")) /\ work[c].seen = <<>>
    /\ work' = [work EXCEPT ![c].seen =
          IF Next1(c).op = "user" THEN <<UserSeen(c)>> ELSE <<SessionsSeen(c)[Next1(c).id]>>]
    /\ UNCHANGED <<unwritten, own, nextId>>

WriteUser(c) ==
    /\ Owes(c, "user") /\ work[c].seen # <<>> /\ ~UserHeld(c)
    /\ own' = [own EXCEPT ![c].user =
                  <<Merge(UserSeen(c), Next1(c).obj, Head(work[c].seen))>>]
    /\ Advance(c, <<>>)
    /\ UNCHANGED <<unwritten, nextId>>

WriteSession(c) ==
    /\ Owes(c, "session") /\ work[c].seen # <<>> /\ ~SessionHeld(c, Next1(c).id)
    /\ LET id  == Next1(c).id
           row == Merge(SessionsSeen(c)[id], Next1(c).obj, Head(work[c].seen))
       IN own' = [own EXCEPT ![c].sessions = Overlay([i \in {id} |-> row], @)]
    /\ Advance(c, <<>>)
    /\ UNCHANGED <<unwritten, nextId>>

InsertSession(c) ==
    /\ Owes(c, "insert")
    /\ own' = [own EXCEPT ![c].sessions =
                  Overlay([i \in {Next1(c).id} |-> Next1(c).obj], @)]
    /\ Advance(c, <<>>)
    /\ UNCHANGED <<unwritten, nextId>>

\* revoke_family and revoke_all_for_user: the statement picks its rows when it
\* starts and looks at each again when it gets the lock.
PickRows(c) ==
    /\ Owes(c, "revoke") /\ work[c].seen = <<>>
    /\ LET step == Next1(c)
       IN work' = [work EXCEPT ![c].seen =
            <<{i \in DOMAIN SessionsSeen(c) :
                  /\ SessionsSeen(c)[i].family \in step.families
                  /\ i # step.except /\ SessionsSeen(c)[i].revoked = Never}>>]
    /\ UNCHANGED <<unwritten, own, nextId>>

Revoke(c) ==
    /\ Owes(c, "revoke") /\ work[c].seen # <<>>
    /\ LET picked == Head(work[c].seen)
       IN /\ \A i \in picked : ~SessionHeld(c, i)
          /\ own' = [own EXCEPT ![c].sessions =
                Overlay([i \in picked |-> Revoked(SessionsSeen(c)[i], work[c].now)], @)]
    /\ Advance(c, <<>>)
    /\ UNCHANGED <<unwritten, nextId>>

\* Mutant of EnforceCap: makes room for the sessions there are, not for the new one.
EnforceCapLate(c) ==
    /\ Owes(c, "cap") /\ nextId <= MaxId
    /\ LET seen   == SessionsSeen(c)
           now    == work[c].now
           active == {i \in DOMAIN seen : Active(seen[i], now)}
           before(i, j) == \/ seen[i].created < seen[j].created
                           \/ seen[i].created = seen[j].created /\ i < j
           rank(i) == Cardinality({j \in active : before(j, i)}) + 1
           oldest == [n \in 1..(Cardinality(active) - MaxSessions) |->
                        CHOOSE i \in active : rank(i) = n]
       IN Advance(c, [n \in DOMAIN oldest |->
                        SessionStep(oldest[n], Revoked(seen[oldest[n]], now))]
                        \o <<InsertStep(nextId, Start(nextId, now))>>)
    /\ nextId' = nextId + 1
    /\ UNCHANGED <<unwritten, own>>

\* _enforce_session_cap, then a new family.
EnforceCap(c) ==
    /\ Owes(c, "cap") /\ nextId <= MaxId
    /\ LET seen   == SessionsSeen(c)
           now    == work[c].now
           active == {i \in DOMAIN seen : Active(seen[i], now)}
           before(i, j) == \/ seen[i].created < seen[j].created
                           \/ seen[i].created = seen[j].created /\ i < j
           rank(i) == Cardinality({j \in active : before(j, i)}) + 1
           oldest == [n \in 1..(Cardinality(active) - MaxSessions + 1) |->
                        CHOOSE i \in active : rank(i) = n]
       IN Advance(c, [n \in DOMAIN oldest |->
                        SessionStep(oldest[n], Revoked(seen[oldest[n]], now))]
                        \o <<InsertStep(nextId, Start(nextId, now))>>)
    /\ nextId' = nextId + 1
    /\ UNCHANGED <<unwritten, own>>

\* update() of a credential that is gone raises, and the request fails.
WriteFactor(c) ==
    /\ Owes(c, "factor") /\ ~FactorHeld(c, Next1(c).row)
    /\ Next1(c).row \in factors \/ Next1(c).obj \in factors
    /\ own' = [own EXCEPT ![c].dropped = @ \cup ({Next1(c).row, Next1(c).obj} \cap factors),
                          ![c].added = @ \cup {Next1(c).obj}]
    /\ Advance(c, <<>>)
    /\ UNCHANGED <<unwritten, nextId>>

Discard(c) ==
    /\ Owes(c, "discard") /\ \A f \in factors : ~FactorHeld(c, f)
    /\ own' = [own EXCEPT ![c].dropped = factors, ![c].added = Next1(c).added]
    /\ Advance(c, <<>>)
    /\ UNCHANGED <<unwritten, nextId>>

Leave(c) ==
    /\ Owes(c, "leave") /\ \A d \in Others(c) : ~own[d].left
    /\ own' = [own EXCEPT ![c].left = TRUE]
    /\ Advance(c, <<>>)
    /\ UNCHANGED <<unwritten, nextId>>

(***************************************************************************)
(* The end of a transaction                                                *)
(***************************************************************************)
RunningBeside(c) == {d \in Others(c) : work[d] # Idle}

Release(c) == own' = [own EXCEPT ![c] = Nothing]

FamiliesOf(ids) == {sessions[i].family : i \in ids \cap DOMAIN sessions}

Commit(c) ==
    /\ work[c] # Idle /\ work[c].steps = <<>>
    /\ user' = UserSeen(c)
    /\ member' = (member /\ ~own[c].left)
    /\ sessions' = SessionsSeen(c)
    /\ factors' = FactorsSeen(c)
    /\ challenges' = IF work[c].said = "challenge"
                     THEN challenges \cup {work[c].now + ChallengeTtl} ELSE challenges
    /\ races' = races + work[c].beside
    /\ ended' = IF work[c].said = "ended" /\ work[c].beside = 0 /\ RunningBeside(c) = {}
                THEN ended \cup (FamiliesOf(DOMAIN own[c].sessions) \ FamiliesOf({work[c].note}))
                ELSE ended
    /\ failures' = IF work[c].said = "failure" THEN failures + 1
                   ELSE IF work[c].said \in {"tokens", "recovered", "challenge"}
                           \/ work[c].kind = "password"
                   THEN 0 ELSE failures
    /\ uses' = IF work[c].said = "recovered"
               THEN [uses EXCEPT ![work[c].note] = @ + 1] ELSE uses
    \* whoever is still running decided on less than what is committed now
    /\ work' = [d \in Clients |->
                   IF d = c \/ work[d] = Idle THEN Idle ELSE [work[d] EXCEPT !.beside = @ + 1]]
    /\ Release(c)
    /\ UNCHANGED <<clock, nextId, requests>>

\* The request fails: a lost session, a credential that is gone, or a deadlock
\* PostgreSQL breaks.  Everything it wrote is rolled back.
Fail(c) ==
    /\ work[c] # Idle
    /\ work' = [work EXCEPT ![c] = Idle]
    /\ Release(c)
    /\ UNCHANGED <<account, clock, nextId, requests, history>>

Tick ==
    /\ clock < MaxClock
    /\ clock' = clock + 1
    /\ UNCHANGED <<account, work, own, nextId, requests, history>>

Next ==
    \/ \E c \in Clients : SignIn(c)
    \/ \E c \in Clients : CompleteMfa(c)
    \/ \E c \in Clients : Refresh(c)
    \/ \E c \in Clients : SignOut(c)
    \/ \E c \in Clients : SignOutEverywhere(c)
    \/ \E c \in Clients : ChangePassword(c)
    \/ \E c \in Clients : EnrolMfa(c)
    \/ \E c \in Clients : ConfirmMfa(c)
    \/ \E c \in Clients : DisableMfa(c)
    \/ \E c \in Clients : RemoveMember(c)
    \/ \E c \in Clients : Reread(c)
    \/ \E c \in Clients : WriteUser(c)
    \/ \E c \in Clients : WriteSession(c)
    \/ \E c \in Clients : InsertSession(c)
    \/ \E c \in Clients : PickRows(c)
    \/ \E c \in Clients : Revoke(c)
    \/ \E c \in Clients : EnforceCap(c)
    \/ \E c \in Clients : WriteFactor(c)
    \/ \E c \in Clients : Discard(c)
    \/ \E c \in Clients : Leave(c)
    \/ \E c \in Clients : Commit(c)
    \/ \E c \in Clients : Fail(c)
    \/ Tick

Spec == Init /\ [][Next]_vars

(***************************************************************************)
(* Properties                                                              *)
(***************************************************************************)
\* Sign-out, reuse detection, password change and removal end a family for good
\* when no other request runs beside them: every session of the family is
\* revoked, and whatever is requested later no session of it comes back.
EndedStaysEnded ==
    \A i \in DOMAIN sessions : sessions[i].family \in ended => sessions[i].revoked # Never

Heads(f) == {i \in DOMAIN sessions : sessions[i].family = f /\ sessions[i].rotated = Never
                                       /\ sessions[i].revoked = Never}

\* Rotation (ADR-0006): a family has one usable token.  Tabs that refresh at the
\* same moment may branch it, but by no more than one branch for each request
\* that another committed beside.
OneBranchPerRace == \A f \in 1..MaxId : Cardinality(Heads(f)) <= 1 + races

\* max_sessions_per_user: sign-ins that overlap take turns on the user's row, so
\* only a refresh beside one can carry the number of live sessions over the cap.
CapHolds ==
    Cardinality({i \in DOMAIN sessions : Active(sessions[i], clock)}) <= MaxSessions + races

\* The family: however often it is refreshed, by whichever interleaving, every
\* session of it expires when the first one does, and what a racing tab is sent
\* to (_reissue_from_successor) exists, is younger and of the same family, so
\* that following replacements ends.  That a session is rotated just when it has
\* a successor is sure while no requests overlap: a rotation and a stale write of
\* _enforce_session_cap each send the columns they see changed.
FamilyIsIntact ==
    \A i \in DOMAIN sessions :
        /\ sessions[i].family \in DOMAIN sessions
        /\ sessions[i].expires = sessions[sessions[i].family].expires
        /\ races = 0 => (sessions[i].rotated = Never <=> sessions[i].by = 0)
        /\ sessions[i].by # 0 => /\ sessions[i].by \in DOMAIN sessions /\ sessions[i].by > i
                                 /\ sessions[sessions[i].by].family = sessions[i].family

\* Lockout: every failed attempt since the last success counts, however old it
\* is and whether or not the account is still a member; concurrent attempts
\* overwrite each other's count, but each overlap hides at most one failure, so
\* the lock is at most that late.  (LockoutPolicy.decay_seconds, after which
\* failures should no longer count, is read nowhere.)
FailuresAreCounted ==
    /\ failures <= user.failed + races
    /\ failures >= Threshold + races => user.lockedUntil # Never

\* Recovery codes are used up: without overlapping requests each works once.
CodesWorkOnce == \A k \in DOMAIN uses : uses[k] <= 1 + races

=============================================================================
