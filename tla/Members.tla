------------------------------- MODULE Members -------------------------------
(***************************************************************************)
(* Who may do what in an organization: memberships, roles and API keys     *)
(* (application/rbac.py, application/api_keys.py).  Invited members stay   *)
(* INVITED: nothing in the program activates a membership.                 *)
(***************************************************************************)
EXTENDS TenantStore

CONSTANTS
    Users, Permission, OwnerOnly,   \* OWNER_ONLY_PERMISSIONS
    RoleNames,                      \* names of custom roles
    RoleGrants, KeyGrants,          \* permission sets requests ask for
    MaxUsers                        \* licence

ASSUME PermissionAssumption ==
    OwnerOnly \subseteq Permission /\ RoleGrants \cup KeyGrants \subseteq SUBSET Permission

Owner == 0      \* the id of the system role Owner

RolesOf(i)       == {k[3] : k \in {l \in Table("link") : l[2] = i}}
PermissionsOf(R) == UNION {db[RoleKey(r)].permissions : r \in R}
Roles            == {k[2] : k \in Table("role")}
MemberIds        == {k[2] : k \in Table("member")}
CountOwners      == Cardinality({i \in MemberIds : Owner \in RolesOf(i)})

(***************************************************************************)
(* Principals                                                              *)
(***************************************************************************)
ResolveUserPrincipal(c) ==
    \E i \in MemberIds :
        /\ db[Member(i)].status = "ACTIVE"
        /\ Resolve(c, Member(i), PermissionsOf(RolesOf(i)))

ResolveApiKeyPrincipal(c) ==
    \E k \in Table("key") :
        /\ ~db[k].revoked
        /\ Resolve(c, k, db[k].permissions)

(***************************************************************************)
(* Members                                                                 *)
(***************************************************************************)
Invited(u)  == [name |-> u, status |-> "INVITED"]
Links(i, R) == [k \in {Link(i, r) : r \in R} |-> [linked |-> TRUE]]

\* Mutant of Grantable: whoever may write roles may assign any of them.
GrantableByAll(c, R) == R # {} /\ R \subseteq Roles

\* _resolve_roles: the roles exist and carry nothing the caller lacks.
Grantable(c, R) == R # {} /\ R \subseteq Roles /\ CanGrant(c, PermissionsOf(R))

InviteMember(c) ==
    /\ Called(c) /\ Requires(c, "user:invite")
    /\ Under(MaxUsers, "member")
    /\ \E u \in Users, R \in SUBSET Roles :
          /\ Grantable(c, R)
          /\ Named("member", u) = {}
          /\ Decide(c, "invite", "",
                    Add(Overlay(Row(Member(work[c].id), Invited(u)), Links(work[c].id, R))))

\* Mutant of KeepsAnOwner: an owner may go while there is one.
KeepsNoOwner(i, R) == Owner \in RolesOf(i) /\ Owner \notin R => CountOwners >= 1

\* The last Owner is not demoted or removed.
KeepsAnOwner(i, R) == Owner \in RolesOf(i) /\ Owner \notin R => CountOwners > 1

UpdateMemberRoles(c) ==
    /\ Called(c) /\ Requires(c, "role:write")
    /\ \E i \in MemberIds, R \in SUBSET Roles :
          /\ Grantable(c, R)
          /\ KeepsAnOwner(i, R)
          /\ Decide(c, "assign", "", Effect(Links(i, R), <<>>, {}, {i}))

RemoveMember(c) ==
    /\ Called(c) /\ Requires(c, "user:remove")
    /\ \E i \in MemberIds :
          /\ work[c].who # Member(i)
          /\ KeepsAnOwner(i, {})
          /\ Decide(c, "remove", "", Delete(Member(i)))

(***************************************************************************)
(* Roles                                                                   *)
(***************************************************************************)
RoleRow(name, permissions, system) ==
    [name |-> name, permissions |-> permissions, system |-> system]

NameTaken(name) == Named("role", name) # {}

CreateRole(c) ==
    /\ Called(c) /\ Requires(c, "role:write")
    /\ \E P \in RoleGrants, name \in RoleNames :
          /\ CanGrant(c, P) /\ ~NameTaken(name) /\ P \cap OwnerOnly = {}
          /\ Decide(c, "create role", "", Add(Row(RoleKey(work[c].id), RoleRow(name, P, FALSE))))

\* Permissions, a new name, or both; what is not given is written back as read.
UpdateRole(c) ==
    /\ Called(c) /\ Requires(c, "role:write")
    /\ \E r \in Roles, name \in RoleNames :
          /\ ~db[RoleKey(r)].system
          /\ name # db[RoleKey(r)].name => ~NameTaken(name)
          /\ \/ \E P \in RoleGrants :
                  /\ CanGrant(c, P) /\ P \cap OwnerOnly = {}
                  /\ Decide(c, "update role", "", Set(Row(RoleKey(r), RoleRow(name, P, FALSE))))
             \/ Decide(c, "rename role", "",
                       Set(Row(RoleKey(r), [db[RoleKey(r)] EXCEPT !.name = name])))

DeleteRole(c) ==
    /\ Called(c) /\ Requires(c, "role:write")
    /\ \E r \in Roles :
          /\ ~db[RoleKey(r)].system
          /\ \A i \in MemberIds : r \notin RolesOf(i)
          /\ Decide(c, "delete role", "", Delete(RoleKey(r)))

\* What RegisterOrganization leaves: the Owner role and its first member.
RegisterOrganization(u) ==
    Overlay(Row(Member(0), [name |-> u, status |-> "ACTIVE"]),
            Overlay(Links(0, {Owner}), Row(RoleKey(Owner), RoleRow("Owner", Permission, TRUE))))

(***************************************************************************)
(* API keys                                                                *)
(***************************************************************************)
KeyRow(permissions) == [permissions |-> permissions, revoked |-> FALSE]

CreateApiKey(c) ==
    /\ Called(c) /\ Requires(c, "settings:write")
    /\ \E P \in KeyGrants :
          /\ P # {} /\ CanGrant(c, P)
          /\ Decide(c, "create key", "", Add(Row(ApiKey(work[c].id), KeyRow(P))))

RevokeApiKey(c) ==
    /\ Called(c) /\ Requires(c, "settings:write")
    /\ \E k \in Table("key") :
          Decide(c, "revoke key", "", Set(Row(k, [db[k] EXCEPT !.revoked = TRUE])))
=============================================================================
