------------------------------- MODULE Access -------------------------------
(***************************************************************************)
(* Tenancy and Rbac together: who belongs to an organization and what they *)
(* may do there.                                                           *)
(***************************************************************************)
EXTENDS Rbac, BoundedCalls

CONSTANTS
  Openings        \* what the repositories may hold at the start

\* The records in the repositories s; a role is made of permissions that are registered.
Records(s) ==
  /\ \A o \in Organization : s[o] \in OrgRecord \union {NoRecord}
  /\ \A m \in Members : s[m] \in MemberState \union {NoRecord}
  /\ \A i \in Invitation : s[i] \in InvitationRecord \union {NoRecord}
  /\ \A k \in Permission : s[k] \in PermissionRecord \union {NoRecord}
  /\ \A r \in RoleId : s[r] \in RoleRecord \union {NoRecord}
  /\ \A a \in Assignment : s[a] \in Grants \union {NoRecord}
  /\ \A x \in Scopes : s[x] \in Assignment \union {NoRecord}
  /\ \A r \in RoleId : Exists(s[r]) => \A k \in s[r].permissions : Exists(s[k])

\* What calls that never overlapped have left.
Consistent(s) ==
  /\ \A o \in Organization : IsOrg(s[o]) => s[Member(o, s[o].owner)] \in {"active", "suspended"}
  /\ \A o, q \in Organization : IsOrg(s[o]) /\ IsOrg(s[q]) /\ o # q =>
       s[o].slug # s[q].slug \/ s[o].slug = NoSlug
  /\ \A a \in Assignment : Exists(s[a]) =>
       /\ s[Scope(s[a])] = a /\ IsLive(s[s[a].role])
       /\ \/ s[a].location = OrgWide
          \/ Exists(s[s[a].org]) /\ s[a].location \in DOMAIN s[s[a].org].locations

ASSUME AccessAssumption ==
  \A opening \in Openings :
    LET s == [k \in Key |-> IF k \in DOMAIN opening THEN opening[k] ELSE NoRecord]
    IN  Records(s) /\ Consistent(s)

vars == <<serviceVars, calls>>

Init == (\E opening \in Openings : ServiceInit(opening)) /\ calls = 0

Step(c) ==
  \/ ~Committing(c) /\ (TenancyStep(c) \/ RbacStep(c))
  \/ GiveUp(c)
  \/ RbacSave(c)
  \/ Publish(c)

Next == \E c \in Call : Bounded(c) /\ Step(c)

Spec == Init /\ [][Next]_vars
-----------------------------------------------------------------------------
(***************************************************************************)
(* Properties.                                                             *)
(***************************************************************************)
\* docs/modules/tenancy/design.md:105-106,128: whenever no call is running, the owner
\* of an organization is a member who has not left it, and a slug names one
\* organization, unless the organization or the membership was saved past another call.
OrganizationsAreOwned ==
  AtRest => \A o \in Organization : IsOrg(store[o]) /\ o \notin raced =>
    /\ Member(o, store[o].owner) \in raced
         \/ store[Member(o, store[o].owner)] \in {"active", "suspended"}
    /\ store[o].slug # NoSlug => FindBySlug(store[o].slug) \ raced = {o}

\* docs/modules/tenancy/design.md:137: an invitation is settled once: a step that
\* changes one that is no longer pending was taken past another call.
SettledOnce ==
  [][\A i \in Invitation :
       Exists(store[i]) /\ store[i].state # "pending" /\ store'[i] # store[i]
         => i \in raced']_vars

\* Whenever no call is running, an assignment is of a role that is not deleted and at a
\* location of its organization, unless one of them was saved past another call; and it
\* is the only one of its scope and found under it, unless the entry of the scope was.
GrantsHold ==
  AtRest => \A a \in Assignment : Exists(store[a]) =>
    LET grant == store[a]
    IN  /\ {a, grant.role, grant.org} \intersect raced = {} =>
             /\ IsLive(store[grant.role])
             /\ grant.location = OrgWide \/ grant.location \in DOMAIN store[grant.org].locations
        /\ Scope(grant) \notin raced =>
             {b \in Assignment : store[b] = grant} = {a} /\ store[Scope(grant)] = a

\* authorize and listEffectivePermissions agree about every principal, at every
\* location of the organization, whatever calls overlap.
AnswersAgree ==
  \A o \in {x \in Organization : IsOrg(store[x])}, p \in Principal, k \in Permission :
    \A l \in DOMAIN store[o].locations \union {OrgWide} :
      Authorized(store, p, k, o, l) <=> k \in EffectivePermissions(store, p, o, l)
=============================================================================
