------------------------------ MODULE Tenancy ------------------------------
(***************************************************************************)
(* TenancyService over its repositories of organizations (with their       *)
(* locations), memberships and invitations.  A membership is its state and *)
(* is kept under its organization and principal.  Of the events those of a *)
(* status and of a new location are kept.  That a principal exists and may *)
(* sign in is answered by Identity: a call it refuses gives up.            *)
(***************************************************************************)
EXTENDS ServiceCalls

CONSTANTS
  Organization,   \* organizationIds that may be drawn
  Location,       \* locationIds that may be drawn
  LocationCode,
  Slug,
  NoSlug,
  Principal,      \* each has an address of its own that invitations are sent to
  Invitation      \* invitationIds that may be drawn

Member(o, p) == <<"member", o, p>>

Members == {Member(o, p) : o \in Organization, p \in Principal}

Locations ==
  UNION {[L -> [code : LocationCode, active : BOOLEAN]] : L \in SUBSET Location}

OrgRecord ==
  [status : {"active", "suspended", "archived", "deleted"}, owner : Principal,
   slug : Slug \union {NoSlug}, locations : Locations]

MemberState == {"active", "suspended", "left", "removed"}

InvitationRecord ==
  [org : Organization, to : Principal, state : {"pending", "accepted", "declined", "revoked"}]

\* Ids are drawn apart.
ASSUME TenancyAssumption ==
  /\ Organization \union Location \union Invitation \union Members \subseteq Key
  /\ Organization \intersect Invitation = {}
  /\ Members \intersect (Organization \union Invitation) = {}
  /\ NoSlug \notin Slug
  /\ NoRecord \notin OrgRecord \union MemberState \union InvitationRecord

-----------------------------------------------------------------------------
IsOrg(org) == Exists(org) /\ org.status # "deleted"

FindBySlug(slug) == {o \in Organization : IsOrg(store[o]) /\ store[o].slug = slug}

IsTerminal(membership) == membership \in {"left", "removed"}

NewOrganization(p, slug) ==
  [status |-> "active", owner |-> p, slug |-> slug, locations |-> <<>>]

-----------------------------------------------------------------------------
(***************************************************************************)
(* Organizations and their locations.                                      *)
(***************************************************************************)
\* Without a slug nothing is looked up.
CreateOrganization(c) ==
  \E o \in Fresh(Organization), p \in Principal, slug \in Slug \union {NoSlug} :
    /\ IsIdle(c)
    /\ FindBySlug(slug) = {} \/ slug = NoSlug
    /\ Stage(c, << IF slug = NoSlug THEN {} ELSE Organization >>,
             << o :> NewOrganization(p, slug), Member(o, p) :> "active" >>,
             (o :> "active") @@ (Member(o, p) :> "active"))

ChangeOrganization(c, o, next, news) ==
  /\ IsIdle(c) /\ IsOrg(store[o])
  /\ Stage(c, << {o} >>, << o :> next >>, news)

SetStatus(c, to) ==
  \E o \in Organization : ChangeOrganization(c, o, [store[o] EXCEPT !.status = to], o :> to)

ActivateOrganization(c) == SetStatus(c, "active")
SuspendOrganization(c) == SetStatus(c, "suspended")
ArchiveOrganization(c) == SetStatus(c, "archived")
DeleteOrganization(c) == SetStatus(c, "deleted")

\* renameOrganization to a new name and a slug.
RenameOrganization(c) ==
  \E o \in Organization, slug \in Slug :
    LET op == <<"rename", o, slug>>
        reads == << {o}, Organization \ {o} >>
    IN  \/ IsOrg(store[o]) /\ Read(c, op, reads)
        \/ /\ LastRead(c, op, reads)
           /\ FindBySlug(slug) \subseteq {o}
           /\ Stage(c, reads, << o :> [work[c].seen[o] EXCEPT !.slug = slug] >>, <<>>)

\* renameOrganization to no slug.
DropSlug(c) ==
  \E o \in Organization : ChangeOrganization(c, o, [store[o] EXCEPT !.slug = NoSlug], <<>>)

\* renameOrganization without a slug and updateLocation: names are left out, but the
\* organization is saved as it was read.
ChangeNames(c) == \E o \in Organization : ChangeOrganization(c, o, store[o], <<>>)

\* Mutant of TransferOwnership: any member may become the owner.
TransferToAnyMember(c) ==
  \E o \in Organization, q \in Principal :
    LET op == <<"transfer", o, q>>
        reads == << {o}, {Member(o, q)} >>
        seen == Saw(c, reads)
    IN  \/ IsOrg(store[o]) /\ Read(c, op, reads)
        \/ /\ LastRead(c, op, reads)
           /\ Exists(seen[Member(o, q)])
           /\ Stage(c, reads, << o :> [seen[o] EXCEPT !.owner = q] >>, <<>>)

\* The owner read is the one named by the caller.
TransferOwnership(c) ==
  \E o \in Organization, q \in Principal :
    LET op == <<"transfer", o, q>>
        reads == << {o}, {Member(o, q)} >>
        seen == Saw(c, reads)
    IN  \/ IsOrg(store[o]) /\ Read(c, op, reads)
        \/ /\ LastRead(c, op, reads)
           /\ seen[Member(o, q)] = "active"
           /\ Stage(c, reads, << o :> [seen[o] EXCEPT !.owner = q] >>, <<>>)

AddLocation(c) ==
  \E o \in Organization, l \in Fresh(Location), code \in LocationCode :
    LET org == store[o]
        location == [code |-> code, active |-> TRUE]
    IN  /\ IsOrg(org)
        /\ \A k \in DOMAIN org.locations : org.locations[k].code # code
        /\ ChangeOrganization(c, o, [org EXCEPT !.locations = (l :> location) @@ @],
                              l :> "created")

DeactivateLocation(c) ==
  \E o \in Organization, l \in Location :
    /\ IsOrg(store[o]) /\ l \in DOMAIN store[o].locations
    /\ ChangeOrganization(c, o, [store[o] EXCEPT !.locations[l].active = FALSE], <<>>)

-----------------------------------------------------------------------------
(***************************************************************************)
(* Memberships.                                                            *)
(***************************************************************************)
\* The status of the organization is not looked at, nor that of a former member.
AddMembership(c) ==
  \E o \in Organization, p \in Principal :
    LET op == <<"add", o, p>>
        m == Member(o, p)
        reads == << {o}, {m} >>
        membership == Saw(c, reads)[m]
    IN  \/ IsOrg(store[o]) /\ Read(c, op, reads)
        \/ /\ LastRead(c, op, reads)
           /\ ~Exists(membership) \/ IsTerminal(membership)
           /\ Stage(c, reads, << m :> "active" >>, m :> "active")

\* Anybody's, the owner's too.
SetMembershipState(c, to) ==
  \E o \in Organization, p \in Principal :
    LET m == Member(o, p)
    IN  /\ IsIdle(c) /\ Exists(store[m])
        /\ Stage(c, << {m} >>, << m :> to >>, m :> to)

SuspendMembership(c) == SetMembershipState(c, "suspended")
ActivateMembership(c) == SetMembershipState(c, "active")

\* removeMembership and leaveOrganization.
EndMembership(c, to) ==
  \E o \in Organization, p \in Principal :
    LET op == <<to, o, p>>
        m == Member(o, p)
        reads == << {o}, {m} >>
    IN  \/ IsOrg(store[o]) /\ store[o].owner # p /\ Read(c, op, reads)
        \/ /\ LastRead(c, op, reads)
           /\ Exists(store[m])
           /\ Stage(c, reads, << m :> to >>, m :> to)

RemoveMembership(c) == EndMembership(c, "removed")
LeaveOrganization(c) == EndMembership(c, "left")

-----------------------------------------------------------------------------
(***************************************************************************)
(* Invitations.                                                            *)
(***************************************************************************)
CreateInvitation(c) ==
  \E o \in Organization, p \in Principal, i \in Fresh(Invitation) :
    /\ IsIdle(c)
    /\ Exists(store[o]) /\ store[o].status = "active"
    /\ Stage(c, << {o} >>, << i :> [org |-> o, to |-> p, state |-> "pending"] >>,
             i :> "pending")

\* Mutant of IsPending: a revoked invitation is as good as a pending one.
IsPendingOrRevoked(invitation) ==
  Exists(invitation) /\ invitation.state \in {"pending", "revoked"}

IsPending(invitation) == Exists(invitation) /\ invitation.state = "pending"

CloseInvitation(c, to) ==
  \E i \in Invitation :
    /\ IsIdle(c) /\ IsPending(store[i])
    /\ Stage(c, << {i} >>, << i :> [store[i] EXCEPT !.state = to] >>, i :> to)

RevokeInvitation(c) == CloseInvitation(c, "revoked")
DeclineInvitation(c) == CloseInvitation(c, "declined")

\* By the principal it was sent to, before it expires.
AcceptInvitation(c) ==
  \E i \in Invitation, o \in Organization, p \in Principal :
    LET op == <<"accept", i, o, p>>
        m == Member(o, p)
        reads == << {i}, {o}, {m} >>
        seen == Saw(c, reads)
    IN  \/ /\ Nth(c, op, reads) = 1 =>
                IsPending(store[i]) /\ store[i].org = o /\ store[i].to = p
           /\ Nth(c, op, reads) = 2 => store[o].status = "active"
           /\ Read(c, op, reads)
        \/ /\ LastRead(c, op, reads)
           /\ store[m] \notin {"active", "suspended"}
           /\ Stage(c, reads,
                    << m :> "active", i :> [seen[i] EXCEPT !.state = "accepted"] >>,
                    (i :> "accepted") @@ (m :> "active"))

TenancyStep(c) ==
  \/ CreateOrganization(c)
  \/ ActivateOrganization(c)
  \/ SuspendOrganization(c)
  \/ ArchiveOrganization(c)
  \/ DeleteOrganization(c)
  \/ RenameOrganization(c)
  \/ DropSlug(c)
  \/ ChangeNames(c)
  \/ TransferOwnership(c)
  \/ AddLocation(c)
  \/ DeactivateLocation(c)
  \/ AddMembership(c)
  \/ SuspendMembership(c)
  \/ ActivateMembership(c)
  \/ RemoveMembership(c)
  \/ LeaveOrganization(c)
  \/ CreateInvitation(c)
  \/ RevokeInvitation(c)
  \/ DeclineInvitation(c)
  \/ AcceptInvitation(c)
=============================================================================
