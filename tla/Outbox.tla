------------------------------- MODULE Outbox -------------------------------
(***************************************************************************)
(* The outbox end to end: units of work writing into the store that relays *)
(* and replays deliver from.  The row a unit inserts is the row a relay    *)
(* lists: inserting is the one joint step of the two components.           *)
(***************************************************************************)
EXTENDS UnitOfWork, OutboxRelay

vars == <<uowVars, relayVars>>

Init == UowInit /\ RelayInit

UnitInserts(u) == InsertUnpublished(u) /\ InsertRows(pending[u])

CommitContinues(u) == CommitStep(u) /\ UNCHANGED relayVars

WriterStep(u) ==
  \/ UnitInserts(u)
  \/ CommitContinues(u)
  \/ CallerStep(u) /\ UNCHANGED relayVars

DeliveryStep == RelayNext /\ UNCHANGED uowVars

Next == (\E u \in Uow : WriterStep(u)) \/ DeliveryStep

\* A commit() that has begun is run to its end, and so is the host's relay.
Fairness ==
  /\ \A u \in Uow : WF_vars(UnitInserts(u)) /\ WF_vars(CommitContinues(u))
  /\ \A r \in Relay : WF_vars(RelayStep(r) /\ UNCHANGED uowVars)

Spec == Init /\ [][Next]_vars /\ Fairness
-----------------------------------------------------------------------------
\* A consumer never acts on an event whose unit has not applied every one of
\* its mutations: what the event announces can be read by its consumers.
EffectsFollowMutations ==
  \A c \in Consumer, e \in Event :
    effects[c][e] > 0 => owner[e] \in Uow /\ Complete(owner[e])

\* Every event of a commit that was begun is published or quarantined in the
\* end, unless the committer was told that the commit failed or rolled it back.
BegunCommitsAreDelivered ==
  \A u \in Uow, e \in Event :
    commit[u] = "running" /\ e \in pending[u] ~>
      \/ status[e] \in {"published", "poison"}
      \/ commit[u] \in {"duplicate", "threw", "collided"}
      \/ rolledBack[u]
=============================================================================
