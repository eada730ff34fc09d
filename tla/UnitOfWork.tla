----------------------------- MODULE UnitOfWork -----------------------------
(***************************************************************************)
(* The unit of work of @nbcp/outbox (packages/outbox/src/unit-of-work.ts)  *)
(* over the in-memory outbox store.  A unit stages mutations of aggregates *)
(* and outbox rows, and commit() performs them one await at a time, so the *)
(* commits of several units, and a rollback, interleave.                   *)
(***************************************************************************)
EXTENDS EventIds, Naturals, FiniteSets

CONSTANTS
  Uow,            \* units of work handed out by the factory
  NoUow,          \* owner of an eventId that has no row
  MaxMutations    \* bound: mutations staged by one unit

ASSUME UowAssumption ==
  /\ NoUow \notin Uow
  /\ MaxMutations \in Nat

VARIABLES
  active,         \* InMemoryUnitOfWork.active
  settled,        \* InMemoryUnitOfWork.settled
  mutations,      \* length of InMemoryUnitOfWork.mutations
  pending,        \* InMemoryUnitOfWork.pending, by eventId
  unchecked,      \* ids the first loop of commit() has still to look up
  applied,        \* mutations whose callback has run
  commit,         \* where the promise returned by commit() stands
  owner,          \* the store: the unit whose row holds an eventId
  rolledBack,     \* history: rollback() has returned
  planned         \* history: what the unit had staged when commit() began

uowVars == <<active, settled, mutations, pending, unchecked, applied, commit,
             owner, rolledBack, planned>>

Stage == {"none", "running", "inserted", "resolved", "duplicate", "threw",
          "collided"}

UowTypeOK ==
  /\ active \in [Uow -> BOOLEAN]
  /\ settled \in [Uow -> BOOLEAN]
  /\ mutations \in [Uow -> 0..MaxMutations]
  /\ pending \in [Uow -> SUBSET Event]
  /\ unchecked \in [Uow -> SUBSET Event]
  /\ applied \in [Uow -> 0..MaxMutations]
  /\ commit \in [Uow -> Stage]
  /\ owner \in [Event -> Uow \union {NoUow}]
  /\ rolledBack \in [Uow -> BOOLEAN]
  /\ planned \in [Uow -> [mutations: 0..MaxMutations, rows: SUBSET Event]]

UowInit ==
  /\ active = [u \in Uow |-> TRUE]
  /\ settled = [u \in Uow |-> FALSE]
  /\ mutations = [u \in Uow |-> 0]
  /\ pending = [u \in Uow |-> {}]
  /\ unchecked = [u \in Uow |-> {}]
  /\ applied = [u \in Uow |-> 0]
  /\ commit = [u \in Uow |-> "none"]
  /\ owner = [e \in Event |-> NoUow]
  /\ rolledBack = [u \in Uow |-> FALSE]
  /\ planned = [u \in Uow |-> [mutations |-> 0, rows |-> {}]]

-----------------------------------------------------------------------------
(***************************************************************************)
(* Building the unit.                                                      *)
(***************************************************************************)
IsActive(u) == active[u] /\ ~settled[u]

HasEventId(e) == owner[e] # NoUow

StageMutation(u) ==
  /\ IsActive(u)
  /\ mutations[u] < MaxMutations
  /\ mutations' = [mutations EXCEPT ![u] = @ + 1]
  /\ UNCHANGED <<active, settled, pending, unchecked, applied, commit, owner,
                 rolledBack, planned>>

\* An eventId the unit already holds is refused with DuplicateEventIdError.
AppendOutbox(u, e) ==
  /\ IsActive(u)
  /\ e \notin pending[u]
  /\ pending' = [pending EXCEPT ![u] = @ \union {e}]
  /\ UNCHANGED <<active, settled, mutations, unchecked, applied, commit, owner,
                 rolledBack, planned>>

-----------------------------------------------------------------------------
(***************************************************************************)
(* commit(): look every pending id up, run every mutation, insert the rows *)
(* and settle.  Each step is the code between two awaits.                  *)
(***************************************************************************)
BeginCommit(u) ==
  /\ IsActive(u)
  /\ active' = [active EXCEPT ![u] = FALSE]
  /\ commit' = [commit EXCEPT ![u] = "running"]
  /\ unchecked' = [unchecked EXCEPT ![u] = pending[u]]
  /\ planned' = [planned EXCEPT ![u] = [mutations |-> mutations[u],
                                         rows |-> pending[u]]]
  /\ UNCHANGED <<settled, mutations, pending, applied, owner, rolledBack>>

CheckEventId(u, e) ==
  /\ commit[u] = "running"
  /\ e \in unchecked[u]
  /\ \/ /\ HasEventId(e)
        /\ settled' = [settled EXCEPT ![u] = TRUE]
        /\ commit' = [commit EXCEPT ![u] = "duplicate"]
        /\ UNCHANGED unchecked
     \/ /\ ~HasEventId(e)
        /\ unchecked' = [unchecked EXCEPT ![u] = @ \ {e}]
        /\ UNCHANGED <<settled, commit>>
  /\ UNCHANGED <<active, mutations, pending, applied, owner, rolledBack, planned>>

\* Mutant of Checked: the mutations do not wait for the lookups.
CheckedTooEarly(u) == commit[u] = "running"

Checked(u) == commit[u] = "running" /\ unchecked[u] = {}

ApplyMutation(u) ==
  /\ Checked(u)
  /\ applied[u] < mutations[u]
  /\ applied' = [applied EXCEPT ![u] = @ + 1]
  /\ UNCHANGED <<active, settled, mutations, pending, unchecked, commit, owner,
                 rolledBack, planned>>

\* The callback throws: commit() rejects and leaves settled false.
MutationThrows(u) ==
  /\ Checked(u)
  /\ applied[u] < mutations[u]
  /\ commit' = [commit EXCEPT ![u] = "threw"]
  /\ UNCHANGED <<active, settled, mutations, pending, unchecked, applied, owner,
                 rolledBack, planned>>

\* Mutant of InsertUnpublished: the rows go in before the mutations are done.
InsertTooEarly(u) ==
  /\ Checked(u)
  /\ pending[u] # {}
  /\ \A e \in pending[u] : ~HasEventId(e)
  /\ commit' = [commit EXCEPT ![u] = "inserted"]
  /\ owner' = [e \in Event |-> IF e \in pending[u] THEN u ELSE owner[e]]
  /\ UNCHANGED <<active, settled, mutations, pending, unchecked, applied,
                 rolledBack, planned>>

\* insertUnpublished looks all ids up again and adds all rows or none.
InsertUnpublished(u) ==
  /\ Checked(u)
  /\ applied[u] >= mutations[u]
  /\ pending[u] # {}
  /\ \A e \in pending[u] : ~HasEventId(e)
  /\ commit' = [commit EXCEPT ![u] = "inserted"]
  /\ owner' = [e \in Event |-> IF e \in pending[u] THEN u ELSE owner[e]]
  /\ UNCHANGED <<active, settled, mutations, pending, unchecked, applied,
                 rolledBack, planned>>

\* Mutant of InsertCollides: a row that is there already is replaced.
InsertOverwrites(u) ==
  /\ Checked(u)
  /\ applied[u] >= mutations[u]
  /\ \E e \in pending[u] : HasEventId(e)
  /\ commit' = [commit EXCEPT ![u] = "inserted"]
  /\ owner' = [e \in Event |-> IF e \in pending[u] THEN u ELSE owner[e]]
  /\ UNCHANGED <<active, settled, mutations, pending, unchecked, applied,
                 rolledBack, planned>>

InsertCollides(u) ==
  /\ Checked(u)
  /\ applied[u] >= mutations[u]
  /\ \E e \in pending[u] : HasEventId(e)
  /\ commit' = [commit EXCEPT ![u] = "collided"]
  /\ UNCHANGED <<active, settled, mutations, pending, unchecked, applied, owner,
                 rolledBack, planned>>

\* Mutant of Settle: the insert is not awaited.
SettleTooEarly(u) ==
  /\ Checked(u)
  /\ applied[u] >= mutations[u]
  /\ settled' = [settled EXCEPT ![u] = TRUE]
  /\ commit' = [commit EXCEPT ![u] = "resolved"]
  /\ UNCHANGED <<active, mutations, pending, unchecked, applied, owner,
                 rolledBack, planned>>

Settle(u) ==
  /\ \/ commit[u] = "inserted"
     \/ /\ Checked(u)
        /\ applied[u] >= mutations[u]
        /\ pending[u] = {}
  /\ settled' = [settled EXCEPT ![u] = TRUE]
  /\ commit' = [commit EXCEPT ![u] = "resolved"]
  /\ UNCHANGED <<active, mutations, pending, unchecked, applied, owner,
                 rolledBack, planned>>

-----------------------------------------------------------------------------
\* rollback() asks only whether the unit is settled: it is accepted while
\* commit() is between two awaits, whose loops then find empty collections,
\* and after a commit() that rejected without settling.
Rollback(u) ==
  /\ ~settled[u]
  /\ active' = [active EXCEPT ![u] = FALSE]
  /\ settled' = [settled EXCEPT ![u] = TRUE]
  /\ mutations' = [mutations EXCEPT ![u] = 0]
  /\ pending' = [pending EXCEPT ![u] = {}]
  /\ unchecked' = [unchecked EXCEPT ![u] = {}]
  /\ rolledBack' = [rolledBack EXCEPT ![u] = TRUE]
  /\ UNCHANGED <<applied, commit, owner, planned>>

CallerStep(u) ==
  \/ StageMutation(u)
  \/ \E e \in Event : AppendOutbox(u, e)
  \/ BeginCommit(u)
  \/ Rollback(u)

\* The steps of commit() other than the one that writes to the store.
CommitStep(u) ==
  \/ \E e \in Event : CheckEventId(u, e)
  \/ ApplyMutation(u)
  \/ MutationThrows(u)
  \/ InsertCollides(u)
  \/ Settle(u)

UowNext == \E u \in Uow : CallerStep(u) \/ CommitStep(u) \/ InsertUnpublished(u)

UowSpec == UowInit /\ [][UowNext]_uowVars
-----------------------------------------------------------------------------
(***************************************************************************)
(* Properties.                                                             *)
(***************************************************************************)
RowsOf(u) == {e \in Event : owner[e] = u}

Complete(u) == applied[u] = planned[u].mutations /\ RowsOf(u) = planned[u].rows

Untouched(u) == applied[u] = 0 /\ RowsOf(u) = {}

Finished == {"resolved", "duplicate", "threw", "collided"}

AtRest(u) == settled[u] \/ commit[u] \in Finished

\* A row is never visible to the relay before every mutation of the unit that
\* wrote it has been applied, whatever rollback or failure comes in between,
\* and the rows of a unit become visible together.
RowsFollowMutations ==
  \A u \in Uow : RowsOf(u) # {} => Complete(u)

\* What the caller of commit() may conclude: if it resolves and no rollback
\* was accepted in the meantime everything is done; if the first lookup finds
\* a duplicate nothing is; and a unit nobody committed has left no trace.
OutcomeIsTruthful ==
  \A u \in Uow :
    /\ commit[u] = "resolved" /\ ~rolledBack[u] => Complete(u)
    /\ commit[u] \in {"none", "duplicate"} => Untouched(u)

\* Once commit() or rollback() is over, a unit has only some of its effects if a
\* mutation threw, if its insert lost the race for an eventId, or if it was
\* rolled back after commit() had begun: the three gaps of commit().
TornOnlyThroughGaps ==
  \A u \in Uow :
    AtRest(u) /\ ~Complete(u) /\ ~Untouched(u) =>
      rolledBack[u] \/ commit[u] \in {"threw", "collided"}

\* The owner of a row never changes: two units that raced for one eventId do
\* not overwrite each other's envelope.
RowsKeepOwner ==
  [][\A e \in Event : HasEventId(e) => owner'[e] = owner[e]]_uowVars
=============================================================================
