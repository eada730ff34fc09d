------------------------------ MODULE MCAccess ------------------------------
(***************************************************************************)
(* Access for TLC: an empty platform, or a company with a location and an  *)
(* administrator.  A second principal has left it or not, may still hold a *)
(* role at the location, and has an invitation that is open or revoked.    *)
(***************************************************************************)
EXTENDS Access

TLC == INSTANCE TLC

CONSTANTS o1, l1, p1, p2, r1, r2, a1, a2, i1, n1, s1

Admins == {Manage}

Granted(a, grant) == (a :> grant) @@ (Scope(grant) :> a)

Company(membership, invitation, grants) ==
  (o1 :> [NewOrganization(p1, s1) EXCEPT
            !.locations = l1 :> [code |-> "main", active |-> TRUE]])
    @@ (Member(o1, p1) :> "active") @@ (Member(o1, p2) :> membership)
    @@ (i1 :> [org |-> o1, to |-> p2, state |-> invitation])
    @@ (Manage :> [deprecated |-> FALSE])
    @@ (r1 :> NewRole(Platform, Admin, Admins)) @@ (r2 :> NewRole(o1, n1, Admins))
    @@ Granted(a1, Grant(p1, o1, r1, OrgWide)) @@ grants

Starts ==
  {<<>>} \union {Company(membership, invitation, grants) :
                   membership \in {"active", "left"}, invitation \in {"pending", "revoked"},
                   grants \in {<<>>, Granted(a2, Grant(p2, o1, r2, l1))}}

Keys ==
  Organization \union Location \union Invitation \union Permission \union RoleId
    \union Assignment \union {Member(o, p) : o \in Organization, p \in Principal}
    \union {Scope(g) : g \in Grants}

Symmetry == TLC!Permutations(Call)
=============================================================================
