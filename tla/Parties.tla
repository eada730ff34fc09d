------------------------------ MODULE Parties ------------------------------
(***************************************************************************)
(* PartiesService over its repositories of parties and relationships,      *)
(* which write at once.  Names, addresses and contact persons are left     *)
(* out, but each call saves the party as it read it.  Whether the actor is *)
(* authorized is answered by Tenancy and Rbac before anything is read.     *)
(***************************************************************************)
EXTENDS ServiceCalls

CONSTANTS
  Party,          \* partyIds that may be drawn
  Principal,
  NoPrincipal,
  NoParty,        \* the null of mergedIntoPartyId
  RoleKey,
  Channel,        \* channelIds that may be drawn
  Relationship,   \* relationshipIds that may be drawn
  RelationshipType  \* the types isAllowlistedRelationshipType admits

PartyRecord ==
  [status : {"draft", "active", "inactive", "merged", "deleted"}, roles : SUBSET RoleKey,
   principal : Principal \union {NoPrincipal}, primaries : SUBSET Channel,
   others : SUBSET Channel, into : Party \union {NoParty}]

RelationshipRecord ==
  [from : Party, to : Party, type : RelationshipType, removed : BOOLEAN]

ASSUME PartiesAssumption ==
  /\ Party \union Channel \union Relationship \subseteq Key
  /\ NoPrincipal \notin Principal /\ NoParty \notin Party
  /\ NoRecord \notin PartyRecord \union RelationshipRecord

-----------------------------------------------------------------------------
IsTerminal(party) == party.status \in {"deleted", "merged"}

CanReceiveNewBusiness(party) == party.status \in {"active", "draft"}

\* Mutant of FindByPrincipal: an inactive party does not keep its principal.
FindActiveByPrincipal(x) ==
  {p \in Party : Exists(store[p]) /\ store[p].principal = x /\ store[p].status = "active"}

FindByPrincipal(x) ==
  {p \in Party : Exists(store[p]) /\ store[p].principal = x /\ ~IsTerminal(store[p])}

FindActive(from, to, type) ==
  {r \in Relationship : Exists(store[r]) /\ ~store[r].removed
                          /\ store[r].from = from /\ store[r].to = to /\ store[r].type = type}

NewParty(status, roles, principal, primaries, others) ==
  [status |-> status, roles |-> roles, principal |-> principal,
   primaries |-> primaries, others |-> others, into |-> NoParty]

-----------------------------------------------------------------------------
(***************************************************************************)
(* Operations that read a party and save it.                               *)
(***************************************************************************)
SaveParty(c, p, next, news) == Stage(c, << {p} >>, << p :> next >>, news)

\* createIndividual and createOrganizationParty; any number of its channels may be
\* primary. Only a principal is looked up.
CreateParty(c) ==
  \E p \in Fresh(Party), status \in {"draft", "active"}, roles \in SUBSET RoleKey,
     x \in Principal \union {NoPrincipal}, channels \in SUBSET Fresh(Channel) :
    \E primaries \in SUBSET channels :
      /\ IsIdle(c)
      /\ x = NoPrincipal \/ FindByPrincipal(x) = {}
      /\ Stage(c, << IF x = NoPrincipal THEN {} ELSE Party >>,
               << p :> NewParty(status, roles, x, primaries, channels \ primaries) >>,
               (p :> status) @@ [ch \in channels |-> "added"])

UpdatePartyProfile(c) ==
  \E p \in Party :
    /\ IsIdle(c) /\ Exists(store[p]) /\ ~IsTerminal(store[p])
    /\ SaveParty(c, p, store[p], <<>>)

\* Names and addresses apart, the same save under the same condition.
AddPostalAddress(c) == UpdatePartyProfile(c)

\* Also on a terminal party.
AddContactPerson(c) ==
  \E p \in Party : IsIdle(c) /\ Exists(store[p]) /\ SaveParty(c, p, store[p], <<>>)

TransitionStatus(c, from, to) ==
  \E p \in Party :
    /\ IsIdle(c) /\ Exists(store[p]) /\ store[p].status \in from
    /\ SaveParty(c, p, [store[p] EXCEPT !.status = to], p :> to)

ActivateParty(c) == TransitionStatus(c, {"draft", "inactive"}, "active")
InactivateParty(c) == TransitionStatus(c, {"active", "draft"}, "inactive")
DeleteParty(c) == TransitionStatus(c, {"draft", "active", "inactive"}, "deleted")

GrantClassification(c) ==
  \E p \in Party, role \in RoleKey :
    /\ IsIdle(c) /\ Exists(store[p])
    /\ CanReceiveNewBusiness(store[p]) \/ store[p].status = "inactive"
    /\ role \notin store[p].roles
    /\ SaveParty(c, p, [store[p] EXCEPT !.roles = @ \union {role}], <<>>)

RevokeClassification(c) ==
  \E p \in Party, role \in RoleKey :
    /\ IsIdle(c) /\ Exists(store[p]) /\ role \in store[p].roles
    /\ SaveParty(c, p, [store[p] EXCEPT !.roles = @ \ {role}], <<>>)

\* A primary channel takes the place of the primary ones there are.
AddContactChannel(c) ==
  \E p \in Party, ch \in Fresh(Channel), primary \in BOOLEAN :
    LET party == store[p]
        next == IF primary
                  THEN [party EXCEPT !.primaries = {ch}, !.others = @ \union party.primaries]
                  ELSE [party EXCEPT !.others = @ \union {ch}]
    IN  /\ IsIdle(c) /\ Exists(party) /\ ~IsTerminal(party)
        /\ SaveParty(c, p, next, ch :> "added")

RemoveContactChannel(c) ==
  \E p \in Party, ch \in Channel :
    /\ IsIdle(c) /\ Exists(store[p]) /\ ch \in store[p].primaries \union store[p].others
    /\ SaveParty(c, p, [store[p] EXCEPT !.primaries = @ \ {ch}, !.others = @ \ {ch}],
                 ch :> "removed")

\* The principal is looked for once the party has been read.
LinkPrincipal(c) ==
  \E p \in Party, x \in Principal :
    LET op == <<"link", p, x>>
        reads == << {p}, Party \ {p} >>
    IN  \/ Exists(store[p]) /\ ~IsTerminal(store[p]) /\ Read(c, op, reads)
        \/ /\ LastRead(c, op, reads)
           /\ FindByPrincipal(x) \subseteq {p}
           /\ Stage(c, reads, << p :> [work[c].seen[p] EXCEPT !.principal = x] >>, <<>>)

UnlinkPrincipal(c) ==
  \E p \in Party :
    /\ IsIdle(c) /\ Exists(store[p]) /\ store[p].principal # NoPrincipal
    /\ SaveParty(c, p, [store[p] EXCEPT !.principal = NoPrincipal], <<>>)

-----------------------------------------------------------------------------
(***************************************************************************)
(* Operations on two parties.                                              *)
(***************************************************************************)
CreateRelationship(c) ==
  \E r \in Fresh(Relationship), from, to \in Party, type \in RelationshipType :
    LET op == <<"relate", r, from, to, type>>
        reads == << {from}, {to}, Relationship >>
    IN  \/ /\ from # to
           /\ Nth(c, op, reads) = 1 => Exists(store[from])
           /\ Nth(c, op, reads) = 2 => Exists(store[to])
           /\ Read(c, op, reads)
        \/ /\ LastRead(c, op, reads)
           /\ CanReceiveNewBusiness(work[c].seen[from])
           /\ CanReceiveNewBusiness(work[c].seen[to])
           /\ FindActive(from, to, type) = {}
           /\ Stage(c, reads,
                    << r :> [from |-> from, to |-> to, type |-> type, removed |-> FALSE] >>,
                    r :> "created")

RemoveRelationship(c) ==
  \E r \in Relationship :
    /\ IsIdle(c) /\ Exists(store[r]) /\ ~store[r].removed
    /\ Stage(c, << {r} >>, << r :> [store[r] EXCEPT !.removed = TRUE] >>, r :> "removed")

\* Mutant of MergeParties: a party may be merged once more.
MergeAgain(c) ==
  \E s, a \in Party :
    LET op == <<"merge", s, a>>
        reads == << {s}, {a} >>
        surviving == Saw(c, reads)[s]
        absorbed == Saw(c, reads)[a]
    IN  \/ s # a /\ Exists(store[s]) /\ Read(c, op, reads)
        \/ /\ LastRead(c, op, reads)
           /\ Exists(absorbed) /\ absorbed.status # "deleted" /\ surviving.status # "deleted"
           /\ Stage(c, reads,
                    << s :> [surviving EXCEPT !.roles = @ \union absorbed.roles],
                       a :> [absorbed EXCEPT !.status = "merged", !.into = s] >>,
                    a :> "merged")

\* The surviving party is read and saved first.
MergeParties(c) ==
  \E s, a \in Party :
    LET op == <<"merge", s, a>>
        reads == << {s}, {a} >>
        surviving == Saw(c, reads)[s]
        absorbed == Saw(c, reads)[a]
    IN  \/ s # a /\ Exists(store[s]) /\ Read(c, op, reads)
        \/ /\ LastRead(c, op, reads)
           /\ Exists(absorbed) /\ ~IsTerminal(surviving) /\ ~IsTerminal(absorbed)
           /\ Stage(c, reads,
                    << s :> [surviving EXCEPT !.roles = @ \union absorbed.roles],
                       a :> [absorbed EXCEPT !.status = "merged", !.into = s] >>,
                    a :> "merged")

PartiesStep(c) ==
  \/ CreateParty(c)
  \/ UpdatePartyProfile(c)
  \/ AddPostalAddress(c)
  \/ AddContactPerson(c)
  \/ ActivateParty(c)
  \/ InactivateParty(c)
  \/ DeleteParty(c)
  \/ GrantClassification(c)
  \/ RevokeClassification(c)
  \/ AddContactChannel(c)
  \/ RemoveContactChannel(c)
  \/ LinkPrincipal(c)
  \/ UnlinkPrincipal(c)
  \/ CreateRelationship(c)
  \/ RemoveRelationship(c)
  \/ MergeParties(c)
=============================================================================
