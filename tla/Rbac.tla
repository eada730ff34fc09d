-------------------------------- MODULE Rbac --------------------------------
(***************************************************************************)
(* RbacService on top of Tenancy, which it asks for memberships and        *)
(* locations.  Its repositories write at once; assignments are also found  *)
(* by their scope, through an index the repository keeps.  A role is known *)
(* by its name: a role key is looked up in the same way.                   *)
(***************************************************************************)
EXTENDS Tenancy

CONSTANTS
  Permission,
  Manage,         \* rbac.assignment.manage
  AdminPermissions, \* those of the administrator template
  RoleId,         \* roleIds that may be drawn
  RoleName,
  Admin,          \* name of the administrator template
  Platform,       \* the organizationId null of system templates
  Assignment,     \* assignmentIds that may be drawn
  OrgWide         \* the locationId null

\* assignmentKey
Scope(a) == <<"scope", a.principal, a.org, a.role, a.location>>

Grant(p, o, r, l) == [principal |-> p, org |-> o, role |-> r, location |-> l]

Grants == {Grant(p, o, r, l) : p \in Principal, o \in Organization, r \in RoleId,
                               l \in Location \union {OrgWide}}

Scopes == {Scope(g) : g \in Grants}

PermissionRecord == [deprecated : BOOLEAN]

RoleRecord ==
  [org : Organization \union {Platform}, name : RoleName \union {Admin},
   permissions : SUBSET Permission, deleted : BOOLEAN]

\* The ids of Tenancy and of Rbac are apart.
ASSUME RbacAssumption ==
  /\ Permission \union RoleId \union Assignment \union Scopes \subseteq Key
  /\ (Permission \union RoleId \union Assignment \union Scopes)
       \intersect (Organization \union Invitation \union Members) = {}
  /\ Permission \intersect (RoleId \union Assignment \union Scopes) = {}
  /\ RoleId \intersect (Assignment \union Scopes) = {}
  /\ Assignment \intersect Scopes = {}
  /\ Manage \in Permission /\ AdminPermissions \subseteq Permission
  /\ IsFiniteSet(AdminPermissions) /\ IsFiniteSet(Assignment)
  /\ NoRecord \notin PermissionRecord \union RoleRecord \union Grants \union Assignment

-----------------------------------------------------------------------------
(***************************************************************************)
(* The answer of authorize, for the records seen, and the permissions that *)
(* listEffectivePermissions makes of them.  l is where access is asked for.*)
(***************************************************************************)
IsLive(role) == Exists(role) /\ ~role.deleted

Held(seen, p, o) ==
  {a \in Assignment : Exists(seen[a]) /\ seen[a].principal = p /\ seen[a].org = o}

Authorized(seen, p, permission, o, l) ==
  /\ Exists(seen[permission])
  /\ seen[Member(o, p)] = "active"
  /\ l # OrgWide => IsOrg(seen[o]) /\ l \in DOMAIN seen[o].locations
  /\ \E a \in Held(seen, p, o) :
       /\ IsLive(seen[seen[a].role])
       /\ permission \in seen[seen[a].role].permissions
       /\ seen[a].location \in {OrgWide, l}

\* Mutant of EffectivePermissions: permissions at any location count everywhere.
EffectiveAnywhere(seen, p, o, l) ==
  IF seen[Member(o, p)] # "active" THEN {}
  ELSE UNION {seen[r].permissions :
                r \in {seen[a].role : a \in Held(seen, p, o)} \intersect
                      {s \in RoleId : IsLive(seen[s])}}

EffectivePermissions(seen, p, o, l) ==
  IF seen[Member(o, p)] # "active" THEN {}
  ELSE UNION {seen[seen[a].role].permissions :
                a \in {b \in Held(seen, p, o) : /\ seen[b].location \in {OrgWide, l}
                                                /\ IsLive(seen[seen[b].role])}}

-----------------------------------------------------------------------------
(***************************************************************************)
(* The catalog of permissions and the roles.                               *)
(***************************************************************************)
\* requirePermissionKeys, which reads them one by one.
AreGood(seen, permissions) ==
  \A k \in permissions : Exists(seen[k]) /\ ~seen[k].deprecated

RolesNamed(seen, name, o) ==
  {r \in RoleId : IsLive(seen[r]) /\ seen[r].name = name /\ seen[r].org = o}

RegisterPermission(c) ==
  \E k \in Permission :
    /\ IsIdle(c) /\ ~Exists(store[k])
    /\ Stage(c, << {k} >>, << k :> [deprecated |-> FALSE] >>, k :> "registered")

DeprecatePermission(c) ==
  \E k \in Permission :
    /\ IsIdle(c) /\ Exists(store[k]) /\ ~store[k].deprecated
    /\ Stage(c, << {k} >>, << k :> [deprecated |-> TRUE] >>, k :> "deprecated")

\* seedCoreCatalog, also called by ensureSystemRoles when there is no administrator
\* template. The missing permissions are taken in one go.
SeedPermissions(c) ==
  LET order == Seqs!SetToSeq({k \in AdminPermissions : ~Exists(store[k])})
  IN  /\ IsIdle(c)
      /\ StageFor(c, <<"seedTemplate">>, << AdminPermissions >>,
                  [i \in DOMAIN order |-> order[i] :> [deprecated |-> FALSE]],
                  [k \in Seqs!ToSet(order) |-> "registered"])

NewRole(o, name, permissions) ==
  [org |-> o, name |-> name, permissions |-> permissions, deleted |-> FALSE]

\* A permission of the template that is deprecated: the call throws, and those it has
\* registered stay without their events.
SeedTemplate(c) ==
  /\ Reached(c, <<"seedTemplate">>)
  /\ \/ /\ RolesNamed(store, Admin, Platform) # {}
        /\ StageMore(c, <<"commit">>, RoleId, <<>>, <<>>)
     \/ \E r \in Fresh(RoleId) :
          /\ RolesNamed(store, Admin, Platform) = {} /\ AreGood(store, AdminPermissions)
          /\ StageMore(c, <<"commit">>, RoleId,
                       << r :> NewRole(Platform, Admin, AdminPermissions) >>, r :> "created")
     \/ /\ RolesNamed(store, Admin, Platform) = {} /\ ~AreGood(store, AdminPermissions)
        /\ work' = [work EXCEPT ![c] = Idle]
        /\ UNCHANGED <<store, told, raced>>

CreateRole(c) ==
  /\ May(c, "createRole")
  /\ \E r \in Fresh(RoleId), o \in Organization, name \in RoleName,
        permissions \in SUBSET Permission :
       LET op == <<"createRole", r, o, name, permissions>>
           reads == << permissions, RoleId >>
       IN  \/ AreGood(store, permissions) /\ Read(c, op, reads)
           \/ /\ LastRead(c, op, reads)
              /\ RolesNamed(store, name, o) = {}
              /\ Stage(c, reads, << r :> NewRole(o, name, permissions) >>, r :> "created")

UpdateRolePermissions(c) ==
  /\ May(c, "updateRole")
  /\ \E r \in RoleId, permissions \in SUBSET Permission :
       LET op == <<"updateRole", r, permissions>>
           reads == << {r}, permissions >>
       IN  \/ IsLive(store[r]) /\ store[r].org # Platform /\ Read(c, op, reads)
           \/ /\ LastRead(c, op, reads)
              /\ AreGood(store, permissions)
              /\ Stage(c, reads,
                       << r :> [work[c].seen[r] EXCEPT !.permissions = permissions] >>,
                       r :> "updated")

\* Mutant of DeleteRole: its assignments stay.
DeleteRoleOnly(c) ==
  \E r \in RoleId :
    /\ IsIdle(c) /\ IsLive(store[r]) /\ store[r].org # Platform
    /\ Stage(c, << {r} >>, << r :> [store[r] EXCEPT !.deleted = TRUE] >>, r :> "deleted")

DeleteRole(c) ==
  \E r \in RoleId :
    /\ IsIdle(c) /\ IsLive(store[r]) /\ store[r].org # Platform
    /\ StageFor(c, <<"deleteAssignments", r>>, << {r} >>,
                << r :> [store[r] EXCEPT !.deleted = TRUE] >>, r :> "deleted")

\* Once the role is saved, those listed are deleted one after the other.
DeleteAssignments(c) ==
  \E r \in RoleId :
    LET order == Seqs!SetToSeq({a \in Assignment : Exists(store[a]) /\ store[a].role = r})
    IN  /\ Reached(c, <<"deleteAssignments", r>>)
        /\ StageMore(c, <<"commit">>, Assignment,
                     [i \in DOMAIN order |-> order[i] :> NoRecord],
                     [a \in Seqs!ToSet(order) |-> "revoked"])

-----------------------------------------------------------------------------
(***************************************************************************)
(* Assignments.                                                            *)
(***************************************************************************)
\* What authorize reads for an actor, taken as one read.
Asked(o, actor) == {Manage, Member(o, actor)} \union Assignment \union RoleId

MayManage(seen, o, actor) == Authorized(seen, actor, Manage, o, OrgWide)

\* findUnique
FindUnique(seen, grant) ==
  IF Exists(seen[Scope(grant)]) THEN seen[seen[Scope(grant)]] ELSE NoRecord

\* requireLocationInOrg
IsOpen(seen, o, l) ==
  l # OrgWide => IsOrg(seen[o]) /\ l \in DOMAIN seen[o].locations /\ seen[o].locations[l].active

MayBeGiven(role, o) == IsLive(role) /\ role.org \in {Platform, o}

\* assignRole: the member and the location, the role, the actor, and last the scope.
AssignRole(c) ==
  /\ May(c, "assign")
  /\ \E grant \in Grants, actor \in Principal, a \in Fresh(Assignment) :
       LET op == <<"assign", grant, actor, a>>
           o == grant.org
           m == Member(o, grant.principal)
           reads == << {o, m}, {grant.role}, Asked(o, actor) \ {m, grant.role},
                       Assignment \union {Scope(grant)} >>
       IN  \/ /\ Nth(c, op, reads) = 1 => store[m] = "active" /\ IsOpen(store, o, grant.location)
              /\ Nth(c, op, reads) = 2 => MayBeGiven(store[grant.role], o)
              /\ Nth(c, op, reads) = 3 => MayManage(store, o, actor)
              /\ Read(c, op, reads)
           \/ /\ LastRead(c, op, reads)
              /\ ~Exists(FindUnique(store, grant))
              /\ Stage(c, reads, << a :> grant >>, a :> "granted")

\* bootstrapOrganizationAdministrator, when the template is there: it returns at once
\* if the owner has the role; otherwise assignRole goes on without an actor.
BootstrapAdministrator(c) ==
  /\ May(c, "bootstrap")
  /\ \E o \in Organization, p \in Principal, r \in RoleId, a \in Fresh(Assignment) :
       LET grant == Grant(p, o, r, OrgWide)
           op == <<"bootstrap", grant, a>>
           m == Member(o, p)
           scope == Assignment \union {Scope(grant)}
           reads == << RoleId, scope, {m}, {r}, scope >>
       IN  \/ /\ Nth(c, op, reads) = 1 => r \in RolesNamed(store, Admin, Platform)
              /\ Nth(c, op, reads) = 2 => ~Exists(FindUnique(store, grant))
              /\ Nth(c, op, reads) = 3 => store[m] = "active"
              /\ Nth(c, op, reads) = 4 => MayBeGiven(store[r], o)
              /\ Read(c, op, reads)
           \/ /\ LastRead(c, op, reads)
              /\ ~Exists(FindUnique(store, grant))
              /\ Stage(c, reads, << a :> grant >>, a :> "granted")

RevokeRole(c) ==
  /\ May(c, "revoke")
  /\ \E grant \in Grants, actor \in Principal :
       LET op == <<"revoke", grant, actor>>
           o == grant.org
           reads == << Asked(o, actor), Assignment \union {Scope(grant)} >>
           a == store[Scope(grant)]
       IN  \/ MayManage(store, o, actor) /\ Read(c, op, reads)
           \/ /\ LastRead(c, op, reads)
              /\ Exists(FindUnique(store, grant))
              /\ Stage(c, reads, << a :> NoRecord >>, a :> "revoked")

ChangeAssignmentScope(c) ==
  /\ May(c, "changeScope")
  /\ \E a \in Assignment, grant \in Grants, actor \in Principal :
       LET op == <<"changeScope", a, grant, actor>>
           o == grant.org
           reads == << {a}, Asked(o, actor) \ {a}, {o}, (Assignment \ {a}) \union {Scope(grant)} >>
       IN  \/ /\ Nth(c, op, reads) = 1 =>
                   Exists(store[a]) /\ [store[a] EXCEPT !.location = grant.location] = grant
              /\ Nth(c, op, reads) = 2 => MayManage(store, o, actor)
              /\ Nth(c, op, reads) = 3 => IsOpen(store, o, grant.location)
              /\ Read(c, op, reads)
           \/ /\ LastRead(c, op, reads)
              /\ Exists(FindUnique(store, grant)) => store[Scope(grant)] = a
              /\ Stage(c, reads, << a :> grant >>, a :> "scopeChanged")

\* save and delete take the record they replace out of the index, as it is now.
IsAssignmentSave(c) ==
  Committing(c) /\ work[c].writes # <<>> /\ DOMAIN work[c].writes[1] \subseteq Assignment

Indexed(a, old, new) ==
  (a :> new) @@ (IF Exists(new) THEN Scope(new) :> a ELSE <<>>)
             @@ (IF Exists(old) THEN Scope(old) :> NoRecord ELSE <<>>)

SaveAssignment(c) ==
  \E a \in Assignment :
    LET write == work[c].writes[1]
        saved == Indexed(a, store[a], write[a])
    IN  /\ IsAssignmentSave(c) /\ DOMAIN write = {a}
        /\ store' = saved @@ store
        /\ raced' = raced \union (IF Stale(work[c].seen) THEN DOMAIN saved ELSE {})
        /\ work' = [work EXCEPT ![c].writes = Tail(@), ![c].seen = saved @@ @]
        /\ UNCHANGED told

RbacStep(c) ==
  \/ RegisterPermission(c)
  \/ DeprecatePermission(c)
  \/ SeedPermissions(c)
  \/ CreateRole(c)
  \/ UpdateRolePermissions(c)
  \/ DeleteRole(c)
  \/ AssignRole(c)
  \/ BootstrapAdministrator(c)
  \/ RevokeRole(c)
  \/ ChangeAssignmentScope(c)

RbacSave(c) ==
  \/ SaveAssignment(c)
  \/ Save(c) /\ ~IsAssignmentSave(c)
  \/ SeedTemplate(c)
  \/ DeleteAssignments(c)
=============================================================================
