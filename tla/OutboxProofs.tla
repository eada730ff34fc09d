---------------------------- MODULE OutboxProofs ----------------------------
(***************************************************************************)
(* What a unit of work guarantees for any number of units, events and      *)
(* mutations, and what its consumers may rely on once the relay delivers   *)
(* its rows.                                                               *)
(***************************************************************************)
EXTENDS Outbox, FiniteSetTheorems, WellFoundedInduction, TLAPS

\* What each stage of commit() says of one unit.
StageInv(u) ==
  /\ active[u] => commit[u] = "none"
  /\ commit[u] \in {"none", "duplicate"} => Untouched(u)
  /\ commit[u] \in {"running", "threw", "collided"} => RowsOf(u) = {}
  /\ commit[u] = "running" /\ unchecked[u] # {} => applied[u] = 0
  /\ commit[u] = "running" /\ ~rolledBack[u] =>
       /\ mutations[u] = planned[u].mutations
       /\ pending[u] = planned[u].rows
       /\ applied[u] <= mutations[u]
  /\ commit[u] = "inserted" => Complete(u)
  /\ commit[u] = "resolved" =>
       \/ Complete(u)
       \/ rolledBack[u] /\ RowsOf(u) = {}

\* A unit whose rollback was accepted is settled and empty; any other settled
\* unit was settled by commit().
RollbackInv(u) ==
  /\ rolledBack[u] =>
       /\ settled[u]
       /\ mutations[u] = 0
       /\ pending[u] = {}
       /\ unchecked[u] = {}
  /\ settled[u] /\ ~rolledBack[u] => commit[u] \in {"resolved", "duplicate"}

UowInv == UowTypeOK /\ \A u \in Uow : StageInv(u) /\ RollbackInv(u)

-----------------------------------------------------------------------------
\* Every variable keeps its type whatever a step does.
LEMMA UowTypeStep == UowTypeOK /\ [UowNext]_uowVars => UowTypeOK'
<1> SUFFICES ASSUME UowTypeOK, [UowNext]_uowVars
             PROVE  UowTypeOK'
  OBVIOUS
<1> USE UowAssumption DEF UowTypeOK, Stage
<1>1. CASE UNCHANGED uowVars
  BY <1>1 DEF uowVars
<1>2. ASSUME NEW u \in Uow, StageMutation(u) PROVE UowTypeOK'
  BY <1>2 DEF StageMutation
<1>3. ASSUME NEW u \in Uow, NEW e \in Event, AppendOutbox(u, e)
      PROVE  UowTypeOK'
  BY <1>3 DEF AppendOutbox
<1>4. ASSUME NEW u \in Uow, BeginCommit(u) PROVE UowTypeOK'
  BY <1>4 DEF BeginCommit
<1>5. ASSUME NEW u \in Uow, NEW e \in Event, CheckEventId(u, e)
      PROVE  UowTypeOK'
  BY <1>5 DEF CheckEventId
<1>6. ASSUME NEW u \in Uow, ApplyMutation(u) PROVE UowTypeOK'
  BY <1>6 DEF ApplyMutation
<1>7. ASSUME NEW u \in Uow, MutationThrows(u) PROVE UowTypeOK'
  BY <1>7 DEF MutationThrows
<1>8. ASSUME NEW u \in Uow, InsertUnpublished(u) PROVE UowTypeOK'
  <2>1. owner' = [e \in Event |-> IF e \in pending[u] THEN u ELSE owner[e]]
    BY <1>8 DEF InsertUnpublished
  <2>2. owner' \in [Event -> Uow \union {NoUow}]
    BY <2>1
  <2>3. QED
    BY <1>8, <2>2 DEF InsertUnpublished
<1>9. ASSUME NEW u \in Uow, Settle(u) PROVE UowTypeOK'
  BY <1>9 DEF Settle
<1>10. ASSUME NEW u \in Uow, Rollback(u) PROVE UowTypeOK'
  BY <1>10 DEF Rollback
<1>11. ASSUME NEW u \in Uow, InsertCollides(u) PROVE UowTypeOK'
  BY <1>11 DEF InsertCollides
<1>12. QED
  BY <1>1, <1>2, <1>3, <1>4, <1>5, <1>6, <1>7, <1>8, <1>9, <1>10, <1>11
     DEF UowNext, CallerStep, CommitStep

\* Type correctness, for any number of units, events and mutations.
THEOREM UowTypeCorrect == UowSpec => []UowTypeOK
<1>1. UowInit => UowTypeOK
  BY UowAssumption DEF UowInit, UowTypeOK, Stage
<1>2. QED
  BY <1>1, UowTypeStep, PTL DEF UowSpec

\* A unit that takes no part in a step keeps its invariant as long as its own
\* rows stay the same.
LEMMA UninvolvedUnit ==
  ASSUME NEW v \in Uow, StageInv(v), RollbackInv(v),
         active'[v] = active[v], settled'[v] = settled[v],
         mutations'[v] = mutations[v], pending'[v] = pending[v],
         unchecked'[v] = unchecked[v], applied'[v] = applied[v],
         commit'[v] = commit[v], rolledBack'[v] = rolledBack[v],
         planned'[v] = planned[v], RowsOf(v)' = RowsOf(v)
  PROVE  StageInv(v)' /\ RollbackInv(v)'
BY DEF StageInv, RollbackInv, Complete, Untouched

LEMMA AtMostAndAtLeast == \A x, y \in Nat : x <= y /\ x >= y => x = y
OBVIOUS

LEMMA UowInvInit == UowInit => UowInv
BY UowAssumption
   DEF UowInit, UowInv, UowTypeOK, StageInv, RollbackInv, Stage, Complete,
       Untouched, RowsOf

LEMMA UowInvStep == UowInv /\ UowTypeOK' /\ [UowNext]_uowVars => UowInv'
<1> SUFFICES ASSUME UowInv, UowTypeOK', [UowNext]_uowVars,
                    NEW v \in Uow
             PROVE  StageInv(v)' /\ RollbackInv(v)'
  BY DEF UowInv
<1>0. UowTypeOK /\ StageInv(v) /\ RollbackInv(v)
  BY DEF UowInv
<1> USE <1>0 DEF UowTypeOK
<1>a. \A u \in Uow : applied[u] \in Nat /\ mutations[u] \in Nat
  BY UowAssumption
<1>1. CASE UNCHANGED uowVars
  BY <1>1, UninvolvedUnit DEF uowVars, RowsOf
<1>2. ASSUME NEW u \in Uow, StageMutation(u)
      PROVE  StageInv(v)' /\ RollbackInv(v)'
  <2>1. RowsOf(v)' = RowsOf(v)
    BY <1>2 DEF StageMutation, RowsOf
  <2>2. CASE u = v
    BY <1>2, <2>1, <2>2
       DEF StageMutation, IsActive, StageInv, RollbackInv, Complete, Untouched
  <2>3. QED
    BY <1>2, <2>1, <2>2, UninvolvedUnit DEF StageMutation
<1>3. ASSUME NEW u \in Uow, NEW e \in Event, AppendOutbox(u, e)
      PROVE  StageInv(v)' /\ RollbackInv(v)'
  <2>1. RowsOf(v)' = RowsOf(v)
    BY <1>3 DEF AppendOutbox, RowsOf
  <2>2. CASE u = v
    BY <1>3, <2>1, <2>2
       DEF AppendOutbox, IsActive, StageInv, RollbackInv, Complete, Untouched
  <2>3. QED
    BY <1>3, <2>1, <2>2, UninvolvedUnit DEF AppendOutbox
<1>4. ASSUME NEW u \in Uow, BeginCommit(u)
      PROVE  StageInv(v)' /\ RollbackInv(v)'
  <2>1. RowsOf(v)' = RowsOf(v)
    BY <1>4 DEF BeginCommit, RowsOf
  <2>2. CASE u = v
    BY <1>4, <2>1, <2>2
       DEF BeginCommit, IsActive, StageInv, RollbackInv, Complete, Untouched
  <2>3. QED
    BY <1>4, <2>1, <2>2, UninvolvedUnit DEF BeginCommit
<1>5. ASSUME NEW u \in Uow, NEW e \in Event, CheckEventId(u, e)
      PROVE  StageInv(v)' /\ RollbackInv(v)'
  <2>1. RowsOf(v)' = RowsOf(v)
    BY <1>5 DEF CheckEventId, RowsOf
  <2>2. CASE u = v
    BY <1>5, <2>1, <2>2
       DEF CheckEventId, StageInv, RollbackInv, Complete, Untouched
  <2>3. QED
    BY <1>5, <2>1, <2>2, UninvolvedUnit DEF CheckEventId
<1>6. ASSUME NEW u \in Uow, ApplyMutation(u)
      PROVE  StageInv(v)' /\ RollbackInv(v)'
  <2>1. RowsOf(v)' = RowsOf(v)
    BY <1>6 DEF ApplyMutation, RowsOf
  <2>2. CASE u = v
    BY <1>6, <2>1, <2>2
       DEF ApplyMutation, Checked, StageInv, RollbackInv, Complete, Untouched
  <2>3. QED
    BY <1>6, <2>1, <2>2, UninvolvedUnit DEF ApplyMutation
<1>7. ASSUME NEW u \in Uow, MutationThrows(u)
      PROVE  StageInv(v)' /\ RollbackInv(v)'
  <2>1. RowsOf(v)' = RowsOf(v)
    BY <1>7 DEF MutationThrows, RowsOf
  <2>2. CASE u = v
    BY <1>7, <2>1, <2>2
       DEF MutationThrows, Checked, StageInv, RollbackInv, Complete, Untouched
  <2>3. QED
    BY <1>7, <2>1, <2>2, UninvolvedUnit DEF MutationThrows
<1>8. ASSUME NEW u \in Uow, InsertUnpublished(u)
      PROVE  StageInv(v)' /\ RollbackInv(v)'
  <2>1. owner' = [e \in Event |-> IF e \in pending[u] THEN u ELSE owner[e]]
    BY <1>8 DEF InsertUnpublished
  <2>2. \A e \in pending[u] : owner[e] = NoUow
    BY <1>8 DEF InsertUnpublished, HasEventId
  <2>3. CASE u = v
    <3>1. RowsOf(v) = {} /\ ~rolledBack[v]
      BY <1>8, <2>3 DEF InsertUnpublished, Checked, StageInv, RollbackInv
    <3>2. RowsOf(v)' = pending[v]
      BY <2>1, <2>3, <3>1 DEF RowsOf
    <3>3. /\ commit[v] = "running"
          /\ commit' = [commit EXCEPT ![v] = "inserted"]
          /\ applied[v] >= mutations[v]
          /\ UNCHANGED <<active, settled, mutations, pending, unchecked,
                         applied, rolledBack, planned>>
      BY <1>8, <2>3 DEF InsertUnpublished, Checked
    <3>4. applied[v] = mutations[v]
      <4>1. applied[v] <= mutations[v]
        BY <3>1, <3>3 DEF StageInv
      <4>2. QED
        BY <1>a, <3>3, <4>1, AtMostAndAtLeast
    <3>5. Complete(v)'
      BY <3>1, <3>2, <3>3, <3>4 DEF StageInv, Complete
    <3>6. QED
      BY <3>1, <3>3, <3>5 DEF StageInv, RollbackInv
  <2>4. CASE u # v
    <3>1. RowsOf(v)' = RowsOf(v)
      BY <2>1, <2>2, <2>4, UowAssumption DEF RowsOf
    <3>2. QED
      BY <1>8, <2>4, <3>1, UninvolvedUnit DEF InsertUnpublished
  <2>5. QED
    BY <2>3, <2>4
<1>9. ASSUME NEW u \in Uow, Settle(u)
      PROVE  StageInv(v)' /\ RollbackInv(v)'
  <2>1. RowsOf(v)' = RowsOf(v)
    BY <1>9 DEF Settle, RowsOf
  <2>2. CASE u = v
    <3>1. CASE commit[v] = "inserted"
      BY <1>9, <2>1, <2>2, <3>1
         DEF Settle, Checked, StageInv, RollbackInv, Complete
    <3>2. CASE commit[v] = "running"
      <4>1. rolledBack[v] \/ Complete(v)
        <5>1. applied[v] >= mutations[v] /\ pending[v] = {}
          BY <1>9, <2>2, <3>2 DEF Settle
        <5>2. ~rolledBack[v] => applied[v] = mutations[v]
          <6>1. ~rolledBack[v] => applied[v] <= mutations[v]
            BY <3>2 DEF StageInv
          <6>2. QED
            BY <1>a, <5>1, <6>1, AtMostAndAtLeast
        <5>3. QED
          BY <3>2, <5>1, <5>2 DEF StageInv, Complete
      <4>2. RowsOf(v) = {} /\ ~active[v]
        BY <3>2 DEF StageInv
      <4>3. /\ settled' = [settled EXCEPT ![v] = TRUE]
            /\ commit' = [commit EXCEPT ![v] = "resolved"]
            /\ UNCHANGED <<active, mutations, pending, unchecked, applied,
                           owner, rolledBack, planned>>
        BY <1>9, <2>2 DEF Settle
      <4>4. QED
        BY <2>1, <3>2, <4>1, <4>2, <4>3 DEF StageInv, RollbackInv, Complete
    <3>3. QED
      BY <1>9, <2>2, <3>1, <3>2 DEF Settle, Checked
  <2>3. QED
    BY <1>9, <2>1, <2>2, UninvolvedUnit DEF Settle
<1>10. ASSUME NEW u \in Uow, Rollback(u)
       PROVE  StageInv(v)' /\ RollbackInv(v)'
  <2>1. RowsOf(v)' = RowsOf(v)
    BY <1>10 DEF Rollback, RowsOf
  <2>2. CASE u = v
    BY <1>10, <2>1, <2>2
       DEF Rollback, StageInv, RollbackInv, Complete, Untouched
  <2>3. QED
    BY <1>10, <2>1, <2>2, UninvolvedUnit DEF Rollback
<1>11. ASSUME NEW u \in Uow, InsertCollides(u)
       PROVE  StageInv(v)' /\ RollbackInv(v)'
  <2>1. RowsOf(v)' = RowsOf(v)
    BY <1>11 DEF InsertCollides, RowsOf
  <2>2. CASE u = v
    BY <1>11, <2>1, <2>2
       DEF InsertCollides, Checked, StageInv, RollbackInv, Complete, Untouched
  <2>3. QED
    BY <1>11, <2>1, <2>2, UninvolvedUnit DEF InsertCollides
<1>12. QED
  BY <1>1, <1>2, <1>3, <1>4, <1>5, <1>6, <1>7, <1>8, <1>9, <1>10, <1>11
     DEF UowNext, CallerStep, CommitStep

THEOREM UowInvariant == UowSpec => []UowInv
<1>1. QED
  BY UowInvInit, UowInvStep, UowTypeCorrect, PTL DEF UowSpec

-----------------------------------------------------------------------------
\* For every number of units: no row is visible before all the mutations of
\* its unit, and the rows of a unit appear together.
THEOREM RowsFollowMutationsAlways == UowSpec => []RowsFollowMutations
<1>1. UowInv => RowsFollowMutations
  BY DEF UowInv, UowTypeOK, Stage, StageInv, Untouched, RowsFollowMutations
<1>2. QED
  BY <1>1, UowInvariant, PTL

\* For every number of units: what commit() reports is what it did.
THEOREM OutcomeIsTruthfulAlways == UowSpec => []OutcomeIsTruthful
<1>1. UowInv => OutcomeIsTruthful
  BY DEF UowInv, StageInv, OutcomeIsTruthful
<1>2. QED
  BY <1>1, UowInvariant, PTL

\* The three gaps of commit() are the only ones.
THEOREM TornOnlyThroughGapsAlways == UowSpec => []TornOnlyThroughGaps
<1>1. UowInv => TornOnlyThroughGaps
  BY DEF UowInv, StageInv, RollbackInv, TornOnlyThroughGaps, AtRest, Finished
<1>2. QED
  BY <1>1, UowInvariant, PTL

\* No step takes an eventId away from the unit whose row holds it.
THEOREM RowsKeepOwnerAlways == UowSpec => RowsKeepOwner
<1>1. UowTypeOK /\ [UowNext]_uowVars =>
        [\A e \in Event : HasEventId(e) => owner'[e] = owner[e]]_uowVars
  <2> SUFFICES ASSUME UowTypeOK, UowNext, NEW e \in Event, HasEventId(e)
               PROVE  owner'[e] = owner[e]
    OBVIOUS
  <2>1. ASSUME NEW u \in Uow, InsertUnpublished(u)
        PROVE  owner'[e] = owner[e]
    BY <2>1 DEF InsertUnpublished, UowTypeOK
  <2>2. (\A u \in Uow : ~InsertUnpublished(u)) => owner' = owner
    BY DEF UowNext, CallerStep, CommitStep, InsertCollides, StageMutation, AppendOutbox, BeginCommit,
           CheckEventId, ApplyMutation, MutationThrows, Settle, Rollback
  <2>3. QED
    BY <2>1, <2>2
<1>2. QED
  BY <1>1, UowTypeCorrect, PTL DEF UowSpec, RowsKeepOwner

-----------------------------------------------------------------------------
(***************************************************************************)
(* Delivery for any number of relays, replays, consumers and events.       *)
(***************************************************************************)
\* What the place a worker has reached says of the record it is busy with.
WorkerInv(w) ==
  /\ pc[w] # "idle" => batch[w] # {}
  /\ \A e \in batch[w] : status[e] # "absent"
  /\ w \in Relay => first[w] = 1 /\ last[w] = NumConsumers
  /\ pc[w] \in {"handle", "mark"} => next[w] <= last[w]
  /\ pc[w] = "mark" => effects[next[w]][Current(w)] > 0
  /\ w \in Relay /\ pc[w] \in {"lookup", "handle", "mark"} =>
       \A c \in Consumer : c < next[w] => Current(w) \in processed[c]
  /\ w \in Relay /\ pc[w] = "publish" =>
       Current(w) \in archived /\ \A c \in Consumer : Current(w) \in processed[c]

\* A mark in the ProcessedEventsStore stands for an effect, and a published row
\* has all its marks.
StoreInv ==
  /\ \A c \in Consumer : \A e \in processed[c] : effects[c][e] > 0
  /\ \A e \in Event : status[e] = "published" =>
       e \in archived /\ \A c \in Consumer : e \in processed[c]

RelayInv == RelayTypeOK /\ StoreInv /\ \A w \in Worker : WorkerInv(w)

-----------------------------------------------------------------------------
LEMMA MinimumExists ==
  ASSUME NEW S, S \subseteq Nat, S # {}
  PROVE  \E e \in S : \A f \in S : e <= f
<1>1. PICK e \in S : \A f \in S : ~ (<<f, e>> \in OpToRel(<, Nat))
  BY NatLessThanWellFounded, WFMin
<1>2. \A f \in S : ~ (f < e)
  BY <1>1 DEF OpToRel
<1>3. \A f \in S : e <= f
  BY <1>2
<1>4. QED
  BY <1>3

\* A worker with a batch is busy with a record of it.
LEMMA CurrentInBatch ==
  ASSUME NEW w \in Worker, batch[w] \subseteq Event, batch[w] # {}
  PROVE  Current(w) \in batch[w]
<1>1. \E e \in batch[w] : \A f \in batch[w] : e <= f
  BY MinimumExists, RelayAssumption
<1>2. QED
  BY <1>1 DEF Current

\* A batch is listed from any non-empty set of rows.
LEMMA OldestNotEmpty ==
  ASSUME NEW S, S \subseteq Event, S # {}
  PROVE  Oldest(S, BatchLimit) # {}
<1>1. PICK e \in S : \A f \in S : e <= f
  BY MinimumExists, RelayAssumption
<1>2. {f \in S : f < e} = {}
  <2>1. S \subseteq Nat
    BY RelayAssumption
  <2>2. \A f \in S : ~ (f < e)
    BY <1>1, <2>1
  <2>3. QED
    BY <2>2
<1>3. Cardinality({f \in S : f < e}) < BatchLimit
  BY <1>2, FS_EmptySet, RelayAssumption
<1>4. QED
  BY <1>3 DEF Oldest

\* The stores only ever gain: marks, archived envelopes, effects and rows.
Grows ==
  /\ \A c \in Consumer : processed[c] \subseteq processed'[c]
  /\ archived \subseteq archived'
  /\ \A c \in Consumer, e \in Event : effects[c][e] > 0 => effects'[c][e] > 0
  /\ \A e \in Event : status[e] # "absent" => status'[e] # "absent"

Unmoved(v) ==
  /\ pc'[v] = pc[v]
  /\ batch'[v] = batch[v]
  /\ next'[v] = next[v]
  /\ first'[v] = first[v]
  /\ last'[v] = last[v]

\* A worker that does not move keeps its invariant while the stores grow.
LEMMA UnmovedWorker ==
  ASSUME NEW v \in Worker, RelayTypeOK, WorkerInv(v), Grows, Unmoved(v)
  PROVE  WorkerInv(v)'
<1>1. Current(v)' = Current(v)
  BY DEF Unmoved, Current
<1>2. batch[v] \subseteq Event
  BY DEF RelayTypeOK
<1>3. pc[v] # "idle" => Current(v) \in Event
  BY <1>2, CurrentInBatch DEF WorkerInv
<1>4. pc[v] = "mark" => next[v] \in Consumer
  BY RelayAssumption DEF RelayTypeOK, WorkerInv, Consumer
<1>5. QED
  BY <1>1, <1>2, <1>3, <1>4 DEF WorkerInv, Grows, Unmoved

-----------------------------------------------------------------------------
\* Every variable keeps its type whatever a step does.
LEMMA RelayTypeInit == RelayInit => RelayTypeOK
BY RelayAssumption DEF RelayInit, RelayTypeOK, Status, Place, Consumer

LEMMA NextRecordType ==
  ASSUME RelayTypeOK, NEW w \in Worker, NextRecord(w)
  PROVE  /\ pc' \in [Worker -> Place]
         /\ batch' \in [Worker -> SUBSET Event]
         /\ seen' \in [Worker -> [Event -> Nat]]
         /\ next' \in [Worker -> 1..(NumConsumers + 1)]
         /\ first' \in [Worker -> Consumer]
         /\ last' \in [Worker -> Consumer]
<1>1. first[w] \in 1..(NumConsumers + 1)
  BY RelayAssumption DEF RelayTypeOK, Consumer
<1>2. QED
  BY <1>1 DEF NextRecord, Goto, RelayTypeOK, Place

LEMMA RelayTypeStep ==
  RelayTypeOK /\ (\A w \in Worker : WorkerInv(w)) /\ [OpenNext]_relayVars
    => RelayTypeOK'
<1> SUFFICES ASSUME RelayTypeOK, \A w \in Worker : WorkerInv(w),
                    [OpenNext]_relayVars
             PROVE  RelayTypeOK'
  OBVIOUS
<1>0. ASSUME NEW w \in Worker, pc[w] # "idle"
      PROVE  Current(w) \in Event
  BY <1>0, CurrentInBatch DEF WorkerInv, RelayTypeOK
<1>a. ASSUME NEW w \in Worker, pc[w] \in {"handle", "mark"}
      PROVE  next[w] \in Consumer
  BY <1>a, RelayAssumption DEF WorkerInv, RelayTypeOK, Consumer
<1> USE DEF RelayTypeOK, Status, Place, store, consumers, worker, At, Goto
<1>1. CASE UNCHANGED relayVars
  BY <1>1 DEF relayVars
<1>2. ASSUME NEW rows \in SUBSET Event, InsertRows(rows) PROVE RelayTypeOK'
  BY <1>2 DEF InsertRows
<1>3. ASSUME NEW r \in Relay, ListUnpublished(r) PROVE RelayTypeOK'
  <2>1. Oldest(RowsWith("unpublished"), BatchLimit) \in SUBSET Event
    BY DEF Oldest, RowsWith
  <2>2. 1 \in 1..(NumConsumers + 1)
    BY RelayAssumption
  <2>3. QED
    BY <1>3, <2>1, <2>2 DEF ListUnpublished, Worker
<1>4. ASSUME NEW w \in Worker, LookUp(w) PROVE RelayTypeOK'
  <2>1. next[w] + 1 \in 1..(NumConsumers + 1)
    BY <1>4, RelayAssumption DEF LookUp, Consumer
  <2>2. QED
    BY <1>4, <2>1 DEF LookUp
<1>5. ASSUME NEW w \in Worker, Handle(w) PROVE RelayTypeOK'
  <2>1. Current(w) \in Event /\ next[w] \in Consumer
    BY <1>5, <1>0, <1>a DEF Handle
  <2>2. effects' \in [Consumer -> [Event -> Nat]]
    BY <1>5, <2>1 DEF Handle
  <2>3. QED
    BY <1>5, <2>2 DEF Handle
<1>6. ASSUME NEW w \in Worker, Mark(w) PROVE RelayTypeOK'
  <2>1. Current(w) \in Event /\ next[w] \in Consumer
    BY <1>6, <1>0, <1>a DEF Mark
  <2>2. next[w] + 1 \in 1..(NumConsumers + 1)
    BY <2>1, RelayAssumption DEF Consumer
  <2>3. QED
    BY <1>6, <2>1, <2>2 DEF Mark
<1>7. ASSUME NEW w \in Worker, HandlerThrows(w) PROVE RelayTypeOK'
  BY <1>7 DEF HandlerThrows
<1>8. ASSUME NEW r \in Relay, ArchiveEnvelope(r) PROVE RelayTypeOK'
  <2>1. Current(r) \in Event
    BY <1>8, <1>0 DEF ArchiveEnvelope, Dispatched, Worker
  <2>2. QED
    BY <1>8, <2>1 DEF ArchiveEnvelope, Worker
<1>9. ASSUME NEW r \in Relay, ArchiveThrows(r) PROVE RelayTypeOK'
  BY <1>9 DEF ArchiveThrows, Worker
<1>10. ASSUME NEW r \in Relay, MarkPublished(r) PROVE RelayTypeOK'
  BY <1>10, NextRecordType DEF MarkPublished, Worker
<1>11. ASSUME NEW r \in Relay, RecordAttemptFailure(r) PROVE RelayTypeOK'
  <2>1. attempts' \in [Event -> Nat]
    <3>1. attempts' = [attempts EXCEPT ![Current(r)] = @ + 1]
      BY <1>11 DEF RecordAttemptFailure
    <3>2. attempts[Current(r)] + 1 \in Nat
      BY <1>0, <1>11 DEF RecordAttemptFailure, Worker
    <3>3. QED
      BY <3>1, <3>2
  <2>2. status' \in [Event -> Status]
    BY <1>11 DEF RecordAttemptFailure
  <2>3. QED
    BY <1>11, <2>1, <2>2, NextRecordType DEF RecordAttemptFailure, Worker
<1>12. ASSUME NEW p \in Replayer, NEW s \in ReplayStatus, NEW c \in Consumer,
              NEW d \in Consumer, StartReplay(p, s, c, d)
       PROVE  RelayTypeOK'
  <2>1. c \in 1..(NumConsumers + 1) /\ RowsWith(s) \in SUBSET Event
    BY RelayAssumption DEF Consumer, RowsWith
  <2>2. replays' \in 0..MaxReplays
    BY <1>12, RelayAssumption DEF StartReplay
  <2>3. QED
    BY <1>12, <2>1, <2>2 DEF StartReplay, Worker
<1>13. ASSUME NEW p \in Replayer, ReplayNext(p) PROVE RelayTypeOK'
  BY <1>13, NextRecordType DEF ReplayNext, Worker
<1> HIDE DEF RelayTypeOK, Status, Place, store, consumers, worker, At, Goto
<1>14. ASSUME NEW w \in Worker, Deliver(w) PROVE RelayTypeOK'
  BY <1>14, <1>4, <1>5, <1>6, <1>7 DEF Deliver
<1>15. ASSUME NEW r \in Relay, RelayStep(r) PROVE RelayTypeOK'
  BY <1>15, <1>3, <1>8, <1>9, <1>10, <1>11, <1>14 DEF RelayStep, Worker
<1>16. ASSUME NEW p \in Replayer, ReplayStep(p) PROVE RelayTypeOK'
  BY <1>16, <1>12, <1>13, <1>14 DEF ReplayStep, Worker
<1>17. QED
  BY <1>1, <1>2, <1>15, <1>16 DEF OpenNext, RelayNext

-----------------------------------------------------------------------------
(***************************************************************************)
(* The inductive invariant.  Each step is described by what it does to the *)
(* stores (Grows), to the worker that takes it, and by leaving the other   *)
(* workers alone (Unmoved).                                                *)
(***************************************************************************)
LEMMA RelayInvInit == RelayInit => RelayInv
BY RelayTypeInit, RelayAssumption
   DEF RelayInit, RelayInv, RelayTypeOK, StoreInv, WorkerInv, Worker, Consumer

\* Every step of the relay or of a unit of work lets the stores only grow.
LEMMA StoresGrow == RelayInv /\ [OpenNext]_relayVars => Grows
<1> SUFFICES ASSUME RelayInv, [OpenNext]_relayVars PROVE Grows
  OBVIOUS
<1>0. RelayTypeOK /\ \A w \in Worker : WorkerInv(w)
  BY DEF RelayInv
<1>a. ASSUME NEW w \in Worker, pc[w] # "idle"
      PROVE  Current(w) \in batch[w] /\ Current(w) \in Event
  BY <1>0, <1>a, CurrentInBatch DEF WorkerInv, RelayTypeOK
<1>b. ASSUME NEW w \in Worker, pc[w] \in {"handle", "mark"}
      PROVE  next[w] \in Consumer
  BY <1>0, <1>b, RelayAssumption DEF WorkerInv, RelayTypeOK, Consumer
<1>1. CASE UNCHANGED <<status, processed, archived, effects>>
  BY <1>1 DEF Grows
<1>2. ASSUME NEW rows \in SUBSET Event, InsertRows(rows) PROVE Grows
  BY <1>0, <1>2 DEF InsertRows, consumers, Grows, RelayTypeOK
<1>3. ASSUME NEW w \in Worker, Handle(w) PROVE Grows
  <2>1. Current(w) \in Event /\ next[w] \in Consumer
    BY <1>3, <1>a, <1>b DEF Handle, At
  <2>2. \A c \in Consumer, e \in Event : effects[c][e] > 0 => effects'[c][e] > 0
    BY <1>0, <1>3, <2>1 DEF Handle, RelayTypeOK
  <2>3. QED
    BY <1>3, <2>2 DEF Handle, store, Grows
<1>4. ASSUME NEW w \in Worker, Mark(w) PROVE Grows
  BY <1>0, <1>4 DEF Mark, store, Grows, RelayTypeOK
<1>5. ASSUME NEW r \in Relay, ArchiveEnvelope(r) PROVE Grows
  BY <1>5 DEF ArchiveEnvelope, store, consumers, Grows
<1>6. ASSUME NEW r \in Relay, MarkPublished(r) PROVE Grows
  BY <1>0, <1>6 DEF MarkPublished, consumers, Grows, RelayTypeOK
<1>7. ASSUME NEW r \in Relay, RecordAttemptFailure(r) PROVE Grows
  BY <1>0, <1>7 DEF RecordAttemptFailure, consumers, Grows, RelayTypeOK
<1>8. ASSUME NEW w \in Worker, Deliver(w) PROVE Grows
  BY <1>1, <1>3, <1>4, <1>8
     DEF Deliver, LookUp, HandlerThrows, store, consumers
<1>9. ASSUME NEW r \in Relay, RelayStep(r) PROVE Grows
  BY <1>1, <1>5, <1>6, <1>7, <1>8, <1>9
     DEF RelayStep, ListUnpublished, ArchiveThrows, store, consumers, Worker
<1>10. ASSUME NEW p \in Replayer, ReplayStep(p) PROVE Grows
  BY <1>1, <1>8, <1>10
     DEF ReplayStep, StartReplay, ReplayNext, store, consumers, Worker
<1>11. QED
  BY <1>1, <1>2, <1>9, <1>10 DEF OpenNext, RelayNext, relayVars

\* A relay or a replay touches and delivers only events that have a row.
LEMMA RelayActsOnRows ==
  ASSUME RelayInv, [RelayNext]_relayVars, NEW e \in Event, status[e] = "absent"
  PROVE  /\ status'[e] = "absent"
         /\ \A c \in Consumer : effects'[c][e] = effects[c][e]
<1> DEFINE Same == /\ status'[e] = "absent"
                   /\ \A c \in Consumer : effects'[c][e] = effects[c][e]
<1>0. RelayTypeOK
  BY DEF RelayInv
<1>1. ASSUME NEW w \in Worker, pc[w] # "idle" PROVE Current(w) # e
  BY <1>1, CurrentInBatch DEF RelayInv, RelayTypeOK, WorkerInv
<1>2. CASE UNCHANGED <<status, effects>>
  BY <1>2
<1>3. ASSUME NEW w \in Worker, Handle(w) PROVE Same
  <2>1. /\ pc[w] = "handle" /\ UNCHANGED status
        /\ effects' = [effects EXCEPT ![next[w]][Current(w)] = @ + 1]
    BY <1>3 DEF Handle, At, store
  <2>2. \A c \in Consumer : effects'[c][e] = effects[c][e]
    BY <1>0, <1>1, <2>1 DEF RelayTypeOK
  <2>3. QED
    BY <2>1, <2>2
<1>4. ASSUME NEW r \in Relay, MarkPublished(r) \/ RecordAttemptFailure(r) PROVE Same
  <2>1. r \in Worker /\ pc[r] # "idle" /\ UNCHANGED effects
    BY <1>4 DEF MarkPublished, RecordAttemptFailure, At, consumers, Worker
  <2>2. status'[e] = status[e]
    BY <1>0, <1>1, <1>4, <2>1 DEF MarkPublished, RecordAttemptFailure, RelayTypeOK
  <2>3. QED
    BY <2>1, <2>2
<1>5. ASSUME NEW w \in Worker, Deliver(w) PROVE Same
  BY <1>2, <1>3, <1>5 DEF Deliver, LookUp, Mark, HandlerThrows, store, consumers
<1>6. ASSUME NEW r \in Relay, RelayStep(r) PROVE Same
  BY <1>2, <1>4, <1>5, <1>6
     DEF RelayStep, ListUnpublished, ArchiveEnvelope, ArchiveThrows, store, consumers, Worker
<1>7. ASSUME NEW p \in Replayer, ReplayStep(p) PROVE Same
  BY <1>2, <1>5, <1>7 DEF ReplayStep, StartReplay, ReplayNext, store, consumers, Worker
<1>8. QED
  BY <1>2, <1>6, <1>7 DEF RelayNext, relayVars

LEMMA StoreInvStep == RelayInv /\ [OpenNext]_relayVars => StoreInv'
<1> SUFFICES ASSUME RelayInv, [OpenNext]_relayVars PROVE StoreInv'
  OBVIOUS
<1>0. RelayTypeOK /\ StoreInv /\ Grows /\ \A w \in Worker : WorkerInv(w)
  BY StoresGrow DEF RelayInv
<1>1. CASE UNCHANGED <<status, processed, archived, effects>>
  BY <1>0, <1>1 DEF StoreInv
<1>2. ASSUME NEW rows \in SUBSET Event, InsertRows(rows) PROVE StoreInv'
  BY <1>0, <1>2 DEF InsertRows, consumers, StoreInv
<1>3. ASSUME NEW w \in Worker, Handle(w) PROVE StoreInv'
  BY <1>0, <1>3 DEF Handle, store, StoreInv, Grows, RelayTypeOK
<1>4. ASSUME NEW w \in Worker, Mark(w) PROVE StoreInv'
  <2>1. effects[next[w]][Current(w)] > 0
    BY <1>0, <1>4 DEF Mark, At, WorkerInv
  <2>2. \A c \in Consumer : \A e \in processed'[c] : effects[c][e] > 0
    BY <1>0, <1>4, <2>1 DEF Mark, StoreInv, RelayTypeOK
  <2>3. QED
    BY <1>0, <1>4, <2>2 DEF Mark, store, StoreInv, Grows
<1>5. ASSUME NEW r \in Relay, ArchiveEnvelope(r) PROVE StoreInv'
  BY <1>0, <1>5 DEF ArchiveEnvelope, store, consumers, StoreInv
<1>6. ASSUME NEW r \in Relay, MarkPublished(r) PROVE StoreInv'
  <2>1. Current(r) \in archived /\ \A c \in Consumer : Current(r) \in processed[c]
    BY <1>0, <1>6 DEF MarkPublished, At, WorkerInv, Worker
  <2>2. QED
    BY <1>0, <1>6, <2>1 DEF MarkPublished, consumers, StoreInv, RelayTypeOK
<1>7. ASSUME NEW r \in Relay, RecordAttemptFailure(r) PROVE StoreInv'
  <2>1. \A e \in Event : status'[e] = "published" => status[e] = "published"
    BY <1>0, <1>7 DEF RecordAttemptFailure, RelayTypeOK
  <2>2. QED
    BY <1>0, <1>7, <2>1 DEF RecordAttemptFailure, consumers, StoreInv
<1>8. ASSUME NEW w \in Worker, Deliver(w) PROVE StoreInv'
  BY <1>1, <1>3, <1>4, <1>8
     DEF Deliver, LookUp, HandlerThrows, store, consumers
<1>9. ASSUME NEW r \in Relay, RelayStep(r) PROVE StoreInv'
  BY <1>1, <1>5, <1>6, <1>7, <1>8, <1>9
     DEF RelayStep, ListUnpublished, ArchiveThrows, store, consumers, Worker
<1>10. ASSUME NEW p \in Replayer, ReplayStep(p) PROVE StoreInv'
  BY <1>1, <1>8, <1>10
     DEF ReplayStep, StartReplay, ReplayNext, store, consumers, Worker
<1>11. QED
  BY <1>1, <1>2, <1>9, <1>10 DEF OpenNext, RelayNext, relayVars

\* Moving on to the next record, or returning, starts the dispatch afresh.
LEMMA NextRecordInv ==
  ASSUME RelayTypeOK, Grows, NEW w \in Worker, WorkerInv(w), NextRecord(w)
  PROVE  WorkerInv(w)'
<1>1. /\ batch'[w] = batch[w] \ {Current(w)}
      /\ next'[w] = first[w]
      /\ pc'[w] = IF batch'[w] = {} THEN "idle" ELSE "lookup"
      /\ first' = first
      /\ last' = last
  BY DEF NextRecord, Goto, RelayTypeOK
<1>2. w \in Relay => \A c \in Consumer : ~ (c < next'[w])
  BY <1>1, RelayAssumption DEF WorkerInv, Consumer
<1>3. \A e \in batch'[w] : status'[e] # "absent"
  BY <1>1 DEF WorkerInv, Grows, RelayTypeOK
<1>4. QED
  BY <1>1, <1>2, <1>3 DEF WorkerInv

LEMMA WorkerInvStep ==
  RelayInv /\ [OpenNext]_relayVars => \A w \in Worker : WorkerInv(w)'
<1> SUFFICES ASSUME RelayInv, [OpenNext]_relayVars, NEW v \in Worker
             PROVE  WorkerInv(v)'
  OBVIOUS
<1>0. RelayTypeOK /\ Grows /\ WorkerInv(v)
  BY StoresGrow DEF RelayInv
<1>a. Unmoved(v) => WorkerInv(v)'
  BY <1>0, UnmovedWorker
<1>b. ASSUME pc[v] # "idle" PROVE Current(v) \in batch[v]
  BY <1>0, <1>b, CurrentInBatch DEF WorkerInv, RelayTypeOK
<1>1. CASE UNCHANGED worker
  BY <1>a, <1>1 DEF worker, Unmoved
<1>2. ASSUME NEW r \in Relay, ListUnpublished(r) PROVE WorkerInv(v)'
  <2>1. CASE r = v
    <3>1. /\ pc'[v] = "lookup"
          /\ batch'[v] = Oldest(RowsWith("unpublished"), BatchLimit)
          /\ next'[v] = 1
          /\ status' = status /\ first' = first /\ last' = last
      BY <1>0, <1>2, <2>1 DEF ListUnpublished, Goto, store, RelayTypeOK
    <3>2. batch'[v] # {}
      <4>1. RowsWith("unpublished") \subseteq Event /\ RowsWith("unpublished") # {}
        BY <1>2 DEF ListUnpublished, RowsWith
      <4>2. QED
        BY <3>1, <4>1, OldestNotEmpty
    <3>3. \A e \in batch'[v] : status'[e] # "absent"
      BY <3>1 DEF Oldest, RowsWith
    <3>4. \A c \in Consumer : ~ (c < next'[v])
      BY <3>1, RelayAssumption DEF Consumer
    <3>5. QED
      BY <1>0, <3>1, <3>2, <3>3, <3>4 DEF WorkerInv
  <2>2. CASE r # v
    BY <1>0, <1>a, <1>2, <2>2 DEF ListUnpublished, Goto, Unmoved, RelayTypeOK
  <2>3. QED
    BY <2>1, <2>2
<1>3. ASSUME NEW w \in Worker, LookUp(w) PROVE WorkerInv(v)'
  <2>1. CASE w = v /\ Current(v) \in processed[next[v]]
    <3>1. /\ pc[v] = "lookup" /\ pc' = pc /\ batch' = batch
          /\ next'[v] = next[v] + 1
          /\ UNCHANGED <<first, last, status, processed>>
      BY <1>0, <1>3, <2>1
         DEF LookUp, At, store, consumers, RelayTypeOK
    <3>2. Current(v)' = Current(v)
      BY <3>1 DEF Current
    <3>3. \A c \in Consumer : c < next'[v] => c < next[v] \/ c = next[v]
      BY <1>0, <3>1, RelayAssumption DEF RelayTypeOK, Consumer
    <3>4. QED
      BY <1>0, <2>1, <3>1, <3>2, <3>3 DEF WorkerInv
  <2>2. CASE w = v /\ Current(v) \notin processed[next[v]]
    <3>1. /\ pc[v] = "lookup" /\ pc'[v] = "handle"
          /\ next[v] <= last[v]
          /\ UNCHANGED <<batch, next, first, last, status, processed>>
      BY <1>0, <1>3, <2>2
         DEF LookUp, At, Goto, store, consumers, RelayTypeOK
    <3>2. Current(v)' = Current(v)
      BY <3>1 DEF Current
    <3>3. QED
      BY <1>0, <3>1, <3>2 DEF WorkerInv
  <2>3. CASE w # v
    BY <1>0, <1>a, <1>3, <2>3 DEF LookUp, Goto, Unmoved, RelayTypeOK
  <2>4. QED
    BY <2>1, <2>2, <2>3
<1>4. ASSUME NEW w \in Worker, Handle(w) PROVE WorkerInv(v)'
  <2>1. CASE w = v
    <3>1. /\ pc[v] = "handle" /\ pc'[v] = "mark"
          /\ UNCHANGED <<batch, next, first, last, status, processed>>
      BY <1>0, <1>4, <2>1 DEF Handle, At, Goto, store, RelayTypeOK
    <3>2. Current(v)' = Current(v)
      BY <3>1 DEF Current
    <3>3. next[v] \in Consumer /\ Current(v) \in Event
      BY <1>0, <1>b, <3>1, RelayAssumption DEF WorkerInv, RelayTypeOK, Consumer
    <3>4. effects[next[v]][Current(v)] \in Nat
      BY <1>0, <3>3 DEF RelayTypeOK
    <3>5. effects'[next[v]][Current(v)] = effects[next[v]][Current(v)] + 1
      BY <1>0, <1>4, <2>1, <3>3 DEF Handle, RelayTypeOK
    <3>6. effects'[next'[v]][Current(v)'] > 0
      BY <3>1, <3>2, <3>4, <3>5
    <3>7. QED
      BY <1>0, <3>1, <3>2, <3>6 DEF WorkerInv
  <2>2. CASE w # v
    BY <1>0, <1>a, <1>4, <2>2 DEF Handle, Goto, Unmoved, RelayTypeOK
  <2>3. QED
    BY <2>1, <2>2
<1>5. ASSUME NEW w \in Worker, Mark(w) PROVE WorkerInv(v)'
  <2>1. CASE w = v
    <3>1. /\ pc[v] = "mark" /\ pc'[v] = "lookup"
          /\ next'[v] = next[v] + 1
          /\ UNCHANGED <<batch, first, last, status>>
      BY <1>0, <1>5, <2>1 DEF Mark, At, Goto, store, RelayTypeOK
    <3>2. Current(v)' = Current(v)
      BY <3>1 DEF Current
    <3>3. next[v] \in Consumer
      BY <1>0, <3>1, RelayAssumption DEF WorkerInv, RelayTypeOK, Consumer
    <3>4. Current(v) \in processed'[next[v]]
      BY <1>0, <1>5, <2>1, <3>3 DEF Mark, RelayTypeOK
    <3>5. \A c \in Consumer : c < next'[v] => c < next[v] \/ c = next[v]
      BY <1>0, <3>1, RelayAssumption DEF RelayTypeOK, Consumer
    <3>6. QED
      BY <1>0, <3>1, <3>2, <3>4, <3>5 DEF WorkerInv, Grows
  <2>2. CASE w # v
    BY <1>0, <1>a, <1>5, <2>2 DEF Mark, Goto, Unmoved, RelayTypeOK
  <2>3. QED
    BY <2>1, <2>2
<1>6. ASSUME NEW w \in Worker, HandlerThrows(w) PROVE WorkerInv(v)'
  <2>1. CASE w = v /\ w \in Relay
    <3>1. /\ pc[v] # "idle" /\ pc'[v] = "fail"
          /\ UNCHANGED <<batch, first, last, status>>
      BY <1>0, <1>6, <2>1 DEF HandlerThrows, At, Goto, store, RelayTypeOK
    <3>2. QED
      BY <1>0, <3>1 DEF WorkerInv
  <2>2. CASE w = v /\ w \notin Relay
    <3>1. pc'[v] = "idle" /\ batch'[v] = {} /\ UNCHANGED <<first, last>>
      BY <1>0, <1>6, <2>2 DEF HandlerThrows, Goto, RelayTypeOK
    <3>2. QED
      BY <1>0, <2>2, <3>1 DEF WorkerInv
  <2>3. CASE w # v
    BY <1>0, <1>a, <1>6, <2>3 DEF HandlerThrows, Goto, Unmoved, RelayTypeOK
  <2>4. QED
    BY <2>1, <2>2, <2>3
<1>7. ASSUME NEW r \in Relay, ArchiveEnvelope(r) PROVE WorkerInv(v)'
  <2>1. CASE r = v
    <3>1. /\ pc[v] = "lookup" /\ pc'[v] = "publish" /\ next[v] > last[v]
          /\ archived' = archived \union {Current(v)}
          /\ UNCHANGED <<batch, next, first, last, status, processed>>
      BY <1>0, <1>7, <2>1
         DEF ArchiveEnvelope, Dispatched, At, Goto, store, consumers, RelayTypeOK
    <3>2. Current(v)' = Current(v)
      BY <3>1 DEF Current
    <3>3. \A c \in Consumer : c < next[v]
      <4>1. last[v] = NumConsumers
        BY <1>0, <1>7, <2>1 DEF WorkerInv
      <4>2. QED
        BY <1>0, <3>1, <4>1, RelayAssumption DEF RelayTypeOK, Consumer
    <3>4. \A c \in Consumer : Current(v) \in processed[c]
      BY <1>0, <1>7, <2>1, <3>1, <3>3 DEF WorkerInv
    <3>5. QED
      BY <1>0, <3>1, <3>2, <3>4 DEF WorkerInv
  <2>2. CASE r # v
    BY <1>0, <1>a, <1>7, <2>2 DEF ArchiveEnvelope, Goto, Unmoved, RelayTypeOK
  <2>3. QED
    BY <2>1, <2>2
<1>8. ASSUME NEW r \in Relay, ArchiveThrows(r) PROVE WorkerInv(v)'
  <2>1. CASE r = v
    <3>1. /\ pc[v] # "idle" /\ pc'[v] = "fail"
          /\ UNCHANGED <<batch, first, last, status>>
      BY <1>0, <1>8, <2>1
         DEF ArchiveThrows, Dispatched, At, Goto, store, RelayTypeOK
    <3>2. QED
      BY <1>0, <3>1 DEF WorkerInv
  <2>2. CASE r # v
    BY <1>0, <1>a, <1>8, <2>2 DEF ArchiveThrows, Goto, Unmoved, RelayTypeOK
  <2>3. QED
    BY <2>1, <2>2
<1>9. ASSUME NEW w \in Worker, NextRecord(w) PROVE WorkerInv(v)'
  <2>1. CASE w = v
    BY <1>0, <1>9, <2>1, NextRecordInv
  <2>2. CASE w # v
    BY <1>0, <1>a, <1>9, <2>2 DEF NextRecord, Goto, Unmoved, RelayTypeOK
  <2>3. QED
    BY <2>1, <2>2
<1>10. ASSUME NEW p \in Replayer, NEW s \in ReplayStatus, NEW c \in Consumer,
              NEW d \in Consumer, StartReplay(p, s, c, d)
       PROVE  WorkerInv(v)'
  <2>1. CASE p = v
    <3>1. /\ pc'[v] = "lookup" /\ batch'[v] = RowsWith(s)
          /\ RowsWith(s) # {} /\ status' = status
      BY <1>0, <1>10, <2>1 DEF StartReplay, Goto, store, RelayTypeOK
    <3>2. s # "absent"
      BY RelayAssumption
    <3>3. v \notin Relay
      BY <2>1, RelayAssumption
    <3>4. QED
      BY <3>1, <3>2, <3>3 DEF WorkerInv, RowsWith
  <2>2. CASE p # v
    BY <1>0, <1>a, <1>10, <2>2 DEF StartReplay, Goto, Unmoved, RelayTypeOK
  <2>3. QED
    BY <2>1, <2>2
<1>11. ASSUME NEW w \in Worker, Deliver(w) PROVE WorkerInv(v)'
  BY <1>3, <1>4, <1>5, <1>6, <1>11 DEF Deliver
<1>12. ASSUME NEW r \in Relay, RelayStep(r) PROVE WorkerInv(v)'
  BY <1>2, <1>7, <1>8, <1>9, <1>11, <1>12
     DEF RelayStep, MarkPublished, RecordAttemptFailure, Worker
<1>13. ASSUME NEW p \in Replayer, ReplayStep(p) PROVE WorkerInv(v)'
  BY <1>9, <1>10, <1>11, <1>13 DEF ReplayStep, ReplayNext, Worker
<1>14. QED
  BY <1>1, <1>12, <1>13 DEF OpenNext, RelayNext, InsertRows, relayVars, worker

THEOREM RelayInvariant == RelaySpec => []RelayInv
<1>1. RelayInv /\ [OpenNext]_relayVars => RelayInv'
  <2>1. RelayInv /\ [OpenNext]_relayVars => RelayTypeOK'
    BY RelayTypeStep DEF RelayInv
  <2>2. QED
    BY <2>1, StoreInvStep, WorkerInvStep DEF RelayInv
<1>2. QED
  BY RelayInvInit, <1>1, PTL DEF RelaySpec

\* For any number of relays and replays: every variable keeps its type.
THEOREM RelayTypeCorrect == RelaySpec => []RelayTypeOK
<1>1. RelayInv => RelayTypeOK
  BY DEF RelayInv
<1>2. QED
  BY <1>1, RelayInvariant, PTL

\* For any number of overlapping relays and replays, consumers and attempts: a
\* published row has taken effect at every consumer and is archived.
THEOREM PublishedReachedEveryoneAlways == RelaySpec => []PublishedReachedEveryone
<1>1. ASSUME RelayInv, NEW e \in Event, status[e] = "published"
      PROVE  e \in archived /\ \A c \in Consumer : effects[c][e] >= 1
  <2>1. e \in archived /\ \A c \in Consumer : effects[c][e] > 0
    BY <1>1 DEF RelayInv, StoreInv
  <2>2. \A c \in Consumer : effects[c][e] \in Nat
    BY <1>1 DEF RelayInv, RelayTypeOK
  <2>3. QED
    BY <2>1, <2>2
<1>2. RelayInv => PublishedReachedEveryone
  BY <1>1, Zenon DEF PublishedReachedEveryone
<1>3. QED
  BY <1>2, RelayInvariant, PTL

-----------------------------------------------------------------------------
\* The steps that matter to AtLeastOnce: a row changes status or a handler takes
\* effect. All others leave the store's statuses and the effects alone.
LEMMA OtherStepsStutter ==
  ASSUME [OpenNext]_relayVars,
         ~ \E rows \in SUBSET Event : InsertRows(rows),
         ~ \E w \in Worker : Handle(w),
         ~ \E r \in Relay : MarkPublished(r) \/ RecordAttemptFailure(r)
  PROVE  UNCHANGED <<status, effects>>
<1> USE DEF store, consumers
<1>1. ASSUME NEW w \in Worker, Deliver(w) PROVE UNCHANGED <<status, effects>>
  BY <1>1 DEF Deliver, LookUp, Mark, HandlerThrows
<1>2. ASSUME NEW r \in Relay, RelayStep(r) PROVE UNCHANGED <<status, effects>>
  BY <1>1, <1>2 DEF RelayStep, Worker, ListUnpublished, ArchiveEnvelope, ArchiveThrows
<1>3. ASSUME NEW p \in Replayer, ReplayStep(p) PROVE UNCHANGED <<status, effects>>
  BY <1>1, <1>3 DEF ReplayStep, Worker, StartReplay, ReplayNext
<1>4. QED
  BY <1>2, <1>3 DEF OpenNext, RelayNext, relayVars

\* A handler that takes effect is a delivery.
LEMMA HandleDelivers ==
  ASSUME RelayInv, NEW w \in Worker, Handle(w)
  PROVE  \E e \in Event, c \in Consumer : Promise!Deliver(c, e)
<1> DEFINE Given(c) == {e \in Event : effects[c][e] > 0}
<1>1. /\ pc[w] = "handle"
      /\ effects' = [effects EXCEPT ![next[w]][Current(w)] = @ + 1]
      /\ UNCHANGED status
  BY DEF Handle, At, store
<1>2. PICK x \in Event : x = Current(w) /\ status[x] # "absent"
  BY <1>1, CurrentInBatch DEF RelayInv, WorkerInv, RelayTypeOK
<1>3. PICK n \in Consumer : n = next[w]
  BY <1>1, RelayAssumption DEF RelayInv, WorkerInv, RelayTypeOK, Consumer
<1>4. \A c \in Consumer, e \in Event :
        effects'[c][e] = IF c = n /\ e = x THEN effects[c][e] + 1
                                           ELSE effects[c][e]
  BY <1>1, <1>2, <1>3 DEF RelayInv, RelayTypeOK
<1>5. \A c \in Consumer, e \in Event : effects[c][e] \in Nat
  BY DEF RelayInv, RelayTypeOK
<1>6. ASSUME NEW c \in Consumer
      PROVE  {e \in Event : effects'[c][e] > 0} =
               IF c = n THEN Given(c) \union {x} ELSE Given(c)
  <2>1. CASE c = n
    BY <1>2, <1>4, <1>5, <2>1
  <2>2. CASE c # n
    BY <1>4, <2>2
  <2>3. QED
    BY <2>1, <2>2
<1>7. [c \in Consumer |-> {e \in Event : effects'[c][e] > 0}] =
        [[c \in Consumer |-> Given(c)] EXCEPT ![n] = @ \union {x}]
  BY <1>3, <1>6
<1>8. Promise!Deliver(n, x)
  BY <1>1, <1>2, <1>7 DEF Promise!Deliver
<1>9. QED
  BY <1>8

\* A relay publishes only what every consumer has been given.
LEMMA MarkPublishedPublishes ==
  ASSUME RelayInv, NEW r \in Relay, MarkPublished(r)
  PROVE  \E e \in Event : Promise!Resolve(e)
<1>1. /\ pc[r] = "publish"
      /\ status' = [status EXCEPT ![Current(r)] = "published"]
      /\ UNCHANGED effects
  BY DEF MarkPublished, At, consumers
<1>2. r \in Worker
  BY DEF Worker
<1>3. PICK x \in Event : x = Current(r) /\ status[x] # "absent"
  BY <1>1, <1>2, CurrentInBatch DEF RelayInv, WorkerInv, RelayTypeOK
<1>4. \A c \in Consumer : effects[c][x] > 0
  BY <1>1, <1>2, <1>3 DEF RelayInv, WorkerInv, StoreInv
<1>5. Promise!Publish(x)
  BY <1>1, <1>3, <1>4 DEF Promise!Publish
<1>6. QED
  BY <1>5 DEF Promise!Resolve

\* A failed attempt quarantines the row or changes nothing AtLeastOnce sees.
LEMMA FailureQuarantinesOrStutters ==
  ASSUME RelayInv, NEW r \in Relay, RecordAttemptFailure(r)
  PROVE  (\E e \in Event : Promise!Resolve(e)) \/ UNCHANGED <<status, effects>>
<1>1. /\ pc[r] = "fail"
      /\ \/ status' = [status EXCEPT ![Current(r)] = "poison"]
         \/ status' = status
      /\ UNCHANGED effects
  BY DEF RecordAttemptFailure, At, consumers
<1>2. r \in Worker
  BY DEF Worker
<1>3. PICK x \in Event : x = Current(r) /\ status[x] # "absent"
  BY <1>1, <1>2, CurrentInBatch DEF RelayInv, WorkerInv, RelayTypeOK
<1>4. CASE status' = status
  BY <1>1, <1>4
<1>5. CASE status' = [status EXCEPT ![x] = "poison"]
  <2>1. Promise!Quarantine(x)
    BY <1>1, <1>3, <1>5 DEF Promise!Quarantine
  <2>2. QED
    BY <2>1 DEF Promise!Resolve
<1>6. QED
  BY <1>1, <1>3, <1>4, <1>5

\* The relay implements the safety part of AtLeastOnce for any number of relays
\* and replays that overlap: redeliveries, skips and retries are stuttering.
THEOREM RelayImplementsAtLeastOnce == RelaySpec => Promise!SafeSpec
<1>1. RelayInit => Promise!Init
  BY DEF RelayInit, Promise!Init
<1>2. RelayInv /\ [OpenNext]_relayVars => [Promise!Next]_(Promise!vars)
  <2> SUFFICES ASSUME RelayInv, [OpenNext]_relayVars
               PROVE  [Promise!Next]_(Promise!vars)
    OBVIOUS
  <2>1. UNCHANGED <<status, effects>> => UNCHANGED Promise!vars
    BY DEF Promise!vars
  <2>2. ASSUME NEW rows \in SUBSET Event, InsertRows(rows)
        PROVE  Promise!Next
    <3>1. Promise!Accept(rows)
      BY <2>2 DEF InsertRows, consumers, Promise!Accept
    <3>2. \E added \in SUBSET Event : Promise!Accept(added)
      BY <3>1, Zenon
    <3>3. QED
      BY <3>2, Zenon DEF Promise!Next
  <2>3. ASSUME NEW w \in Worker, Handle(w)
        PROVE  Promise!Next
    BY <2>3, HandleDelivers, Zenon DEF Promise!Next
  <2>4. ASSUME NEW r \in Relay, MarkPublished(r) \/ RecordAttemptFailure(r)
        PROVE  Promise!Next \/ UNCHANGED <<status, effects>>
    BY <2>4, MarkPublishedPublishes, FailureQuarantinesOrStutters, Zenon
       DEF Promise!Next
  <2>5. QED
    BY <2>1, <2>2, <2>3, <2>4, OtherStepsStutter
<1>3. QED
  BY <1>1, <1>2, RelayInvariant, PTL DEF RelaySpec, Promise!SafeSpec

-----------------------------------------------------------------------------
(***************************************************************************)
(* How often a handler takes effect.  A worker adds an effect only between *)
(* a lookup that found no mark and its own mark.                           *)
(***************************************************************************)
Handling(c, e) == {w \in Worker : pc[w] = "handle" /\ next[w] = c /\ Current(w) = e}

Marking(c, e) == {w \in Worker : pc[w] = "mark" /\ next[w] = c /\ Current(w) = e}

\* Until an event is marked, whoever has given it is about to mark it; from then on
\* it is given again by those only that had looked it up before.
OverlapInv ==
  \A c \in Consumer, e \in Event :
    IF e \in processed[c]
      THEN effects[c][e] + Cardinality(Handling(c, e)) <= Cardinality(Worker)
      ELSE effects[c][e] <= Cardinality(Marking(c, e))

\* A step that gives and marks nothing, and sends no worker to a handler whose
\* consumer has marked the event.
Calm ==
  /\ UNCHANGED <<processed, effects>>
  /\ \A c \in Consumer, e \in Event :
       /\ Marking(c, e)' = Marking(c, e)
       /\ e \in processed[c] => Handling(c, e)' \subseteq Handling(c, e)

OthersUnmoved(w) == \A v \in Worker : v # w => Unmoved(v)

LEMMA CalmMove ==
  ASSUME NEW w \in Worker, OthersUnmoved(w), UNCHANGED <<processed, effects>>,
         pc[w] # "mark", pc'[w] # "mark",
         pc'[w] = "handle" => Current(w)' \notin processed[next'[w]]
  PROVE  Calm
<1>1. \A v \in Worker : v # w => Current(v)' = Current(v)
  BY DEF OthersUnmoved, Unmoved, Current
<1>2. QED
  BY <1>1 DEF Calm, Marking, Handling, OthersUnmoved, Unmoved

LEMMA CalmKeepsOverlapInv ==
  ASSUME IsFiniteSet(Worker), RelayTypeOK, OverlapInv, Calm
  PROVE  OverlapInv'
<1> SUFFICES ASSUME NEW c \in Consumer, NEW e \in Event
             PROVE  IF e \in processed'[c]
                      THEN effects'[c][e] + Cardinality(Handling(c, e)') <= Cardinality(Worker)
                      ELSE effects'[c][e] <= Cardinality(Marking(c, e)')
  BY DEF OverlapInv
<1>1. /\ processed'[c] = processed[c] /\ effects'[c][e] = effects[c][e]
      /\ Marking(c, e)' = Marking(c, e)
      /\ e \in processed[c] => Handling(c, e)' \subseteq Handling(c, e)
  BY DEF Calm
<1>2. IsFiniteSet(Handling(c, e))
  BY FS_Subset DEF Handling
<1>3. e \in processed[c] =>
        /\ Cardinality(Handling(c, e)') <= Cardinality(Handling(c, e))
        /\ Cardinality(Handling(c, e)') \in Nat
  BY <1>1, <1>2, FS_Subset, FS_CardinalityType
<1>4. /\ effects[c][e] \in Nat
      /\ Cardinality(Handling(c, e)) \in Nat /\ Cardinality(Worker) \in Nat
  BY <1>2, FS_CardinalityType DEF RelayTypeOK
<1>5. CASE e \in processed[c]
  <2>1. effects[c][e] + Cardinality(Handling(c, e)) <= Cardinality(Worker)
    BY <1>5 DEF OverlapInv
  <2>2. effects[c][e] + Cardinality(Handling(c, e)') <= Cardinality(Worker)
    BY <1>3, <1>4, <1>5, <2>1
  <2>3. QED
    BY <1>1, <1>5, <2>2
<1>6. CASE e \notin processed[c]
  BY <1>1, <1>6 DEF OverlapInv
<1>7. QED
  BY <1>5, <1>6

\* Three facts on the sizes of finite sets.
LEMMA OneLess ==
  ASSUME NEW S, IsFiniteSet(S), NEW x \in S, NEW T, T = S \ {x}
  PROVE  Cardinality(T) = Cardinality(S) - 1
BY FS_RemoveElement

LEMMA OneMore ==
  ASSUME NEW S, IsFiniteSet(S), NEW x, x \notin S, NEW T, T = S \union {x}
  PROVE  Cardinality(T) = Cardinality(S) + 1
BY FS_AddElement

LEMMA DisjointParts ==
  ASSUME NEW W, IsFiniteSet(W), NEW S, NEW T, S \subseteq W, T \subseteq W,
         S \intersect T = {}
  PROVE  Cardinality(S) + Cardinality(T) <= Cardinality(W)
<1>1. IsFiniteSet(S) /\ IsFiniteSet(T) /\ S \union T \subseteq W
  BY FS_Subset
<1>2. /\ Cardinality(S) \in Nat /\ Cardinality(T) \in Nat /\ Cardinality(W) \in Nat
      /\ Cardinality(S \intersect T) = 0
  BY <1>1, FS_CardinalityType, FS_EmptySet
<1>3. Cardinality(S \union T) = Cardinality(S) + Cardinality(T) - Cardinality(S \intersect T)
  BY <1>1, FS_Union
<1>4. Cardinality(S \union T) <= Cardinality(W)
  BY <1>1, FS_Subset
<1>5. QED
  BY <1>2, <1>3, <1>4

\* A handler takes effect: its worker has looked the event up and is to mark it.
LEMMA HandleKeepsOverlapInv ==
  ASSUME IsFiniteSet(Worker), RelayInv, OverlapInv, NEW w \in Worker, Handle(w)
  PROVE  OverlapInv'
<1> SUFFICES ASSUME NEW c \in Consumer, NEW e \in Event
             PROVE  IF e \in processed'[c]
                      THEN effects'[c][e] + Cardinality(Handling(c, e)') <= Cardinality(Worker)
                      ELSE effects'[c][e] <= Cardinality(Marking(c, e)')
  BY DEF OverlapInv
<1>1. /\ pc[w] = "handle" /\ pc' = [pc EXCEPT ![w] = "mark"]
      /\ UNCHANGED <<processed, next, batch>>
      /\ effects' = [effects EXCEPT ![next[w]][Current(w)] = @ + 1]
      /\ RelayTypeOK /\ WorkerInv(w)
  BY DEF Handle, At, Goto, RelayInv
<1>2. next[w] \in Consumer /\ Current(w) \in Event
  <2>1. batch[w] \subseteq Event /\ batch[w] # {}
    BY <1>1 DEF RelayTypeOK, WorkerInv
  <2>2. next[w] <= last[w] /\ next[w] \in 1..(NumConsumers + 1) /\ last[w] \in Consumer
    BY <1>1 DEF RelayTypeOK, WorkerInv
  <2>3. next[w] \in Consumer
    BY <2>2, RelayAssumption DEF Consumer
  <2>4. QED
    BY <2>1, <2>3, CurrentInBatch
<1>3. \A v : Current(v)' = Current(v)
  BY <1>1 DEF Current
<1>4. /\ \A v \in Worker : pc'[v] = IF v = w THEN "mark" ELSE pc[v]
      /\ effects'[c][e] = IF next[w] = c /\ Current(w) = e
                            THEN effects[c][e] + 1 ELSE effects[c][e]
  BY <1>1, <1>2 DEF RelayTypeOK
<1>5. /\ IsFiniteSet(Handling(c, e)) /\ IsFiniteSet(Marking(c, e))
      /\ Cardinality(Handling(c, e)) \in Nat /\ Cardinality(Marking(c, e)) \in Nat
      /\ Cardinality(Worker) \in Nat /\ effects[c][e] \in Nat
  BY <1>1, FS_Subset, FS_CardinalityType DEF Handling, Marking, RelayTypeOK
<1>6. CASE next[w] = c /\ Current(w) = e
  <2>1. /\ Handling(c, e)' = Handling(c, e) \ {w} /\ w \in Handling(c, e)
        /\ Marking(c, e)' = Marking(c, e) \union {w} /\ w \notin Marking(c, e)
    BY <1>1, <1>3, <1>4, <1>6 DEF Handling, Marking
  <2>2. /\ Cardinality(Handling(c, e)') = Cardinality(Handling(c, e)) - 1
        /\ Cardinality(Marking(c, e)') = Cardinality(Marking(c, e)) + 1
    BY <2>1, <1>5, OneLess, OneMore
  <2>3. QED
    BY <1>1, <1>4, <1>5, <1>6, <2>2 DEF OverlapInv
<1>7. CASE ~ (next[w] = c /\ Current(w) = e)
  <2>1. Handling(c, e)' = Handling(c, e) /\ Marking(c, e)' = Marking(c, e)
    BY <1>1, <1>3, <1>4, <1>7 DEF Handling, Marking
  <2>2. QED
    BY <1>1, <1>4, <1>7, <2>1 DEF OverlapInv
<1>8. QED
  BY <1>6, <1>7

\* A worker marks what it has given.
LEMMA MarkKeepsOverlapInv ==
  ASSUME IsFiniteSet(Worker), RelayInv, OverlapInv, NEW w \in Worker, Mark(w)
  PROVE  OverlapInv'
<1> SUFFICES ASSUME NEW c \in Consumer, NEW e \in Event
             PROVE  IF e \in processed'[c]
                      THEN effects'[c][e] + Cardinality(Handling(c, e)') <= Cardinality(Worker)
                      ELSE effects'[c][e] <= Cardinality(Marking(c, e)')
  BY DEF OverlapInv
<1>1. /\ pc[w] = "mark" /\ pc' = [pc EXCEPT ![w] = "lookup"]
      /\ next' = [next EXCEPT ![w] = @ + 1]
      /\ UNCHANGED <<effects, batch>>
      /\ processed' = [processed EXCEPT ![next[w]] = @ \union {Current(w)}]
      /\ RelayTypeOK
  BY DEF Mark, At, Goto, RelayInv
<1>2. \A v : Current(v)' = Current(v)
  BY <1>1 DEF Current
<1>3. /\ \A v \in Worker : pc'[v] = IF v = w THEN "lookup" ELSE pc[v]
      /\ \A v \in Worker : v # w => next'[v] = next[v]
      /\ e \in processed'[c] <=> e \in processed[c] \/ (next[w] = c /\ Current(w) = e)
  BY <1>1 DEF RelayTypeOK
<1>4. /\ IsFiniteSet(Handling(c, e)) /\ IsFiniteSet(Marking(c, e))
      /\ Cardinality(Handling(c, e)) \in Nat /\ Cardinality(Marking(c, e)) \in Nat
      /\ Cardinality(Worker) \in Nat /\ effects[c][e] \in Nat
  BY <1>1, FS_Subset, FS_CardinalityType DEF Handling, Marking, RelayTypeOK
<1>5. Handling(c, e)' = Handling(c, e)
  BY <1>1, <1>2, <1>3 DEF Handling
<1>6. CASE e \in processed[c]
  BY <1>1, <1>3, <1>5, <1>6 DEF OverlapInv
<1>7. CASE e \notin processed[c] /\ next[w] = c /\ Current(w) = e
  <2>1. /\ Handling(c, e) \union Marking(c, e) \subseteq Worker
        /\ Handling(c, e) \intersect Marking(c, e) = {}
    BY DEF Handling, Marking
  <2>2. Cardinality(Handling(c, e)) + Cardinality(Marking(c, e)) <= Cardinality(Worker)
    BY <2>1, DisjointParts
  <2>3. effects[c][e] <= Cardinality(Marking(c, e))
    BY <1>7 DEF OverlapInv
  <2>4. effects[c][e] + Cardinality(Handling(c, e)) <= Cardinality(Worker)
    BY <1>4, <2>2, <2>3
  <2>5. QED
    BY <1>1, <1>3, <1>5, <1>7, <2>4
<1>8. CASE e \notin processed[c] /\ ~ (next[w] = c /\ Current(w) = e)
  <2>1. Marking(c, e)' = Marking(c, e)
    BY <1>1, <1>2, <1>3, <1>8 DEF Marking
  <2>2. QED
    BY <1>1, <1>3, <1>8, <2>1 DEF OverlapInv
<1>9. QED
  BY <1>6, <1>7, <1>8

\* All other steps are calm.
LEMMA OtherStepsAreCalm ==
  ASSUME RelayInv, [OpenNext]_relayVars, ~ \E w \in Worker : Handle(w) \/ Mark(w)
  PROVE  Calm
<1>0. RelayTypeOK
  BY DEF RelayInv
<1> USE <1>0 DEF At, Goto, store, consumers
<1>1. CASE UNCHANGED <<processed, effects, pc, next, batch>>
  BY <1>1 DEF Calm, Marking, Handling, Current
<1>2. ASSUME NEW w \in Worker, NextRecord(w), pc[w] \notin {"handle", "mark"},
             UNCHANGED <<processed, effects>>
      PROVE  Calm
  <2>1. OthersUnmoved(w)
    BY <1>2 DEF NextRecord, OthersUnmoved, Unmoved, RelayTypeOK
  <2>2. pc'[w] \in {"idle", "lookup"}
    BY <1>2 DEF NextRecord, RelayTypeOK
  <2>3. QED
    BY <1>2, <2>1, <2>2, CalmMove
<1>3. ASSUME NEW w \in Worker, LookUp(w) PROVE Calm
  <2>1. OthersUnmoved(w)
    BY <1>3 DEF LookUp, OthersUnmoved, Unmoved, RelayTypeOK
  <2>2. /\ pc[w] = "lookup" /\ pc'[w] # "mark" /\ Current(w)' = Current(w)
        /\ pc'[w] = "handle" => next' = next /\ Current(w) \notin processed[next[w]]
    BY <1>3 DEF LookUp, RelayTypeOK, Current
  <2>3. QED
    BY <1>3, <2>1, <2>2, CalmMove DEF LookUp
<1>4. ASSUME NEW w \in Worker, HandlerThrows(w) PROVE Calm
  <2>1. OthersUnmoved(w)
    BY <1>4 DEF HandlerThrows, OthersUnmoved, Unmoved, RelayTypeOK
  <2>2. pc[w] = "handle" /\ pc'[w] \in {"fail", "idle"}
    BY <1>4 DEF HandlerThrows, RelayTypeOK
  <2>3. QED
    BY <1>4, <2>1, <2>2, CalmMove DEF HandlerThrows
<1>5. ASSUME NEW w \in Worker, Deliver(w) PROVE Calm
  BY <1>3, <1>4, <1>5 DEF Deliver
<1>6. ASSUME NEW r \in Relay, ListUnpublished(r) PROVE Calm
  <2>1. OthersUnmoved(r)
    BY <1>6 DEF ListUnpublished, OthersUnmoved, Unmoved, RelayTypeOK
  <2>2. r \in Worker /\ pc[r] = "idle" /\ pc'[r] = "lookup"
    BY <1>6 DEF ListUnpublished, RelayTypeOK, Worker
  <2>3. QED
    BY <1>6, <2>1, <2>2, CalmMove DEF ListUnpublished
<1>7. ASSUME NEW r \in Relay, ArchiveEnvelope(r) \/ ArchiveThrows(r) PROVE Calm
  <2>1. OthersUnmoved(r)
    BY <1>7 DEF ArchiveEnvelope, ArchiveThrows, OthersUnmoved, Unmoved, RelayTypeOK
  <2>2. r \in Worker /\ pc[r] = "lookup" /\ pc'[r] \in {"publish", "fail"}
    BY <1>7 DEF ArchiveEnvelope, ArchiveThrows, Dispatched, RelayTypeOK, Worker
  <2>3. QED
    BY <1>7, <2>1, <2>2, CalmMove DEF ArchiveEnvelope, ArchiveThrows
<1>8. ASSUME NEW r \in Relay, RelayStep(r) PROVE Calm
  BY <1>2, <1>5, <1>6, <1>7, <1>8
     DEF RelayStep, MarkPublished, RecordAttemptFailure, Worker
<1>9. ASSUME NEW p \in Replayer, NEW s \in ReplayStatus, NEW c \in Consumer,
             NEW d \in Consumer, StartReplay(p, s, c, d)
      PROVE  Calm
  <2>1. OthersUnmoved(p)
    BY <1>9 DEF StartReplay, OthersUnmoved, Unmoved, RelayTypeOK
  <2>2. p \in Worker /\ pc[p] = "idle" /\ pc'[p] = "lookup"
    BY <1>9 DEF StartReplay, RelayTypeOK, Worker
  <2>3. QED
    BY <1>9, <2>1, <2>2, CalmMove DEF StartReplay
<1>10. ASSUME NEW p \in Replayer, ReplayStep(p) PROVE Calm
  BY <1>2, <1>5, <1>9, <1>10 DEF ReplayStep, ReplayNext, Dispatched, Worker
<1>11. QED
  BY <1>1, <1>8, <1>10 DEF OpenNext, RelayNext, InsertRows, relayVars, worker

\* For any number of relays and replays that overlap: an event takes effect at a
\* consumer no more often than there are workers, however often it is retried,
\* listed again or replayed.
THEOREM EffectsBoundedByOverlapAlways ==
  ASSUME IsFiniteSet(Worker)
  PROVE  RelaySpec => []EffectsBoundedByOverlap
<1>1. RelayInit => OverlapInv
  <2> SUFFICES ASSUME RelayInit, NEW c \in Consumer, NEW e \in Event
               PROVE  e \notin processed[c] /\ effects[c][e] <= Cardinality(Marking(c, e))
    BY DEF OverlapInv
  <2>1. e \notin processed[c] /\ effects[c][e] = 0 /\ Marking(c, e) = {}
    BY DEF RelayInit, Marking
  <2>2. QED
    BY <2>1, FS_EmptySet
<1>2. RelayInv /\ OverlapInv /\ [OpenNext]_relayVars => OverlapInv'
  <2> SUFFICES ASSUME RelayInv, OverlapInv, [OpenNext]_relayVars PROVE OverlapInv'
    OBVIOUS
  <2>1. ASSUME NEW w \in Worker, Handle(w) \/ Mark(w) PROVE OverlapInv'
    BY <2>1, HandleKeepsOverlapInv, MarkKeepsOverlapInv
  <2>2. CASE ~ \E w \in Worker : Handle(w) \/ Mark(w)
    BY <2>2, OtherStepsAreCalm, CalmKeepsOverlapInv DEF RelayInv
  <2>3. QED
    BY <2>1, <2>2
<1>3. RelayInv /\ OverlapInv => EffectsBoundedByOverlap
  <2> SUFFICES ASSUME RelayInv, OverlapInv, NEW c \in Consumer, NEW e \in Event
               PROVE  effects[c][e] <= Cardinality(Worker)
    BY DEF EffectsBoundedByOverlap
  <2>1. /\ Handling(c, e) \subseteq Worker /\ Marking(c, e) \subseteq Worker
        /\ effects[c][e] \in Nat
    BY DEF Handling, Marking, RelayInv, RelayTypeOK
  <2>2. /\ Cardinality(Handling(c, e)) \in Nat /\ Cardinality(Marking(c, e)) \in Nat
        /\ Cardinality(Worker) \in Nat
        /\ Cardinality(Marking(c, e)) <= Cardinality(Worker)
    BY <2>1, FS_Subset, FS_CardinalityType
  <2>3. QED
    BY <2>1, <2>2 DEF OverlapInv
<1>4. QED
  BY <1>1, <1>2, <1>3, RelayInvariant, PTL DEF RelaySpec

-----------------------------------------------------------------------------
(***************************************************************************)
(* One relay, and replays of what it has published: the deployment the     *)
(* comment on deliverIdempotent has in mind.                               *)
(***************************************************************************)
Serial == (\A q, r \in Relay : q = r) /\ ReplayStatus \subseteq {"published"}

\* The relay's batch is still unpublished. Replays find every mark and call nobody.
BatchesInv ==
  /\ \A r \in Relay : \A e \in batch[r] : status[e] = "unpublished"
  /\ \A p \in Replayer : /\ pc[p] \in {"idle", "lookup"}
                         /\ \A e \in batch[p] : status[e] = "published"

\* What has taken effect without a mark is what the relay is about to mark.
OnceInv ==
  /\ \A w \in Worker : pc[w] = "handle" => Current(w) \notin processed[next[w]]
  /\ \A c \in Consumer, e \in Event :
       /\ effects[c][e] <= 1
       /\ e \notin processed[c] =>
            \/ effects[c][e] = 0
            \/ \E r \in Relay : pc[r] = "mark" /\ next[r] = c /\ Current(r) = e

SerialInv == BatchesInv /\ OnceInv

\* No step takes back what became of a row.
LEMMA ResolvedStays ==
  ASSUME RelayInv, BatchesInv, [OpenNext]_relayVars, NEW e \in Event,
         status[e] \in {"published", "poison"}
  PROVE  status'[e] = status[e]
<1>0. RelayTypeOK
  BY DEF RelayInv
<1>1. ASSUME NEW r \in Relay, pc[r] # "idle" PROVE Current(r) # e
  <2>1. r \in Worker
    BY DEF Worker
  <2>2. Current(r) \in batch[r]
    BY <1>1, <2>1, CurrentInBatch DEF RelayInv, RelayTypeOK, WorkerInv
  <2>3. QED
    BY <2>2 DEF BatchesInv
<1>2. ASSUME NEW r \in Relay, MarkPublished(r) \/ RecordAttemptFailure(r)
      PROVE  status'[e] = status[e]
  BY <1>0, <1>1, <1>2 DEF MarkPublished, RecordAttemptFailure, At, RelayTypeOK
<1>3. ASSUME NEW rows \in SUBSET Event, InsertRows(rows) PROVE status'[e] = status[e]
  BY <1>3 DEF InsertRows
<1>4. ASSUME NEW w \in Worker, Deliver(w) PROVE status'[e] = status[e]
  BY <1>4 DEF Deliver, LookUp, Handle, Mark, HandlerThrows, store
<1>5. ASSUME NEW r \in Relay, RelayStep(r) PROVE status'[e] = status[e]
  BY <1>2, <1>4, <1>5
     DEF RelayStep, ListUnpublished, ArchiveEnvelope, ArchiveThrows, store, Worker
<1>6. ASSUME NEW p \in Replayer, ReplayStep(p) PROVE status'[e] = status[e]
  BY <1>4, <1>6 DEF ReplayStep, StartReplay, ReplayNext, store, Worker
<1>7. QED
  BY <1>3, <1>5, <1>6 DEF OpenNext, RelayNext, relayVars

LEMMA BatchesInvStep ==
  ASSUME Serial, RelayInv, BatchesInv, [OpenNext]_relayVars
  PROVE  BatchesInv'
<1>0. RelayTypeOK /\ RelayTypeOK' /\ Relay \subseteq Worker /\ Replayer \subseteq Worker
  BY RelayTypeStep DEF RelayInv, Worker
<1>a. ASSUME NEW w \in Worker, pc[w] # "idle"
      PROVE  Current(w) \in batch[w] /\ Current(w) \in Event
  BY <1>a, CurrentInBatch DEF RelayInv, RelayTypeOK, WorkerInv
<1>b. \A w \in Worker : batch[w] \subseteq Event
  BY <1>0 DEF RelayTypeOK
<1>1. ASSUME UNCHANGED batch, NEW p \in Replayer PROVE \A e \in batch'[p] : status'[e] = "published"
  BY <1>0, <1>1, <1>b, ResolvedStays DEF BatchesInv
<1>2. CASE UNCHANGED <<status, batch, pc>>
  BY <1>2 DEF BatchesInv
<1>3. ASSUME NEW rows \in SUBSET Event, InsertRows(rows) PROVE BatchesInv'
  <2>1. \A e \in Event : status[e] # "absent" => status'[e] = status[e]
    BY <1>3 DEF InsertRows
  <2>2. UNCHANGED <<batch, pc>>
    BY <1>3 DEF InsertRows, worker
  <2>3. QED
    BY <1>0, <1>b, <2>1, <2>2 DEF BatchesInv
<1>4. ASSUME NEW r \in Relay, UNCHANGED <<status, batch>>, OthersUnmoved(r)
      PROVE  BatchesInv'
  BY <1>0, <1>4, RelayAssumption DEF BatchesInv, OthersUnmoved, Unmoved
<1>5. ASSUME NEW r \in Relay, ListUnpublished(r) PROVE BatchesInv'
  <2>1. /\ OthersUnmoved(r) /\ status' = status
        /\ \A e \in batch'[r] : status[e] = "unpublished"
    BY <1>0, <1>5
       DEF ListUnpublished, Goto, store, OthersUnmoved, Unmoved, RelayTypeOK, Oldest, RowsWith
  <2>2. QED
    BY <1>0, <2>1, RelayAssumption DEF BatchesInv, OthersUnmoved, Unmoved, Serial
<1>6. ASSUME NEW r \in Relay, MarkPublished(r) \/ RecordAttemptFailure(r) PROVE BatchesInv'
  <2>1. /\ OthersUnmoved(r) /\ batch'[r] = batch[r] \ {Current(r)}
        /\ \A e \in Event : e # Current(r) => status'[e] = status[e]
    BY <1>0, <1>6
       DEF MarkPublished, RecordAttemptFailure, NextRecord, Goto, OthersUnmoved, Unmoved,
           RelayTypeOK
  <2>2. \A e \in batch'[r] : status'[e] = "unpublished"
    BY <1>0, <1>b, <2>1 DEF BatchesInv
  <2>3. \A p \in Replayer : /\ pc'[p] \in {"idle", "lookup"}
                            /\ \A e \in batch'[p] : status'[e] = "published"
    <3> SUFFICES ASSUME NEW p \in Replayer
                 PROVE  /\ pc'[p] \in {"idle", "lookup"}
                        /\ \A e \in batch'[p] : status'[e] = "published"
      OBVIOUS
    <3>1. p # r /\ pc'[p] = pc[p] /\ batch'[p] = batch[p]
      BY <1>0, <2>1, RelayAssumption DEF OthersUnmoved, Unmoved
    <3>2. QED
      BY <1>0, <1>b, <3>1, ResolvedStays DEF BatchesInv
  <2>4. QED
    BY <2>2, <2>3 DEF BatchesInv, Serial
<1>7. ASSUME NEW r \in Relay, Deliver(r) PROVE BatchesInv'
  <2>1. status' = status /\ batch' = batch /\ OthersUnmoved(r)
    BY <1>0, <1>7
       DEF Deliver, LookUp, Handle, Mark, HandlerThrows, Goto, store, OthersUnmoved, Unmoved,
           RelayTypeOK
  <2>2. QED
    BY <1>4, <2>1
<1>8. ASSUME NEW r \in Relay, ArchiveEnvelope(r) \/ ArchiveThrows(r) PROVE BatchesInv'
  <2>1. status' = status /\ batch' = batch /\ OthersUnmoved(r)
    BY <1>0, <1>8
       DEF ArchiveEnvelope, ArchiveThrows, Goto, store, OthersUnmoved, Unmoved, RelayTypeOK
  <2>2. QED
    BY <1>4, <2>1
<1>9. ASSUME NEW r \in Relay, RelayStep(r) PROVE BatchesInv'
  BY <1>5, <1>6, <1>7, <1>8, <1>9 DEF RelayStep
<1>10. ASSUME NEW p \in Replayer, NEW s \in ReplayStatus, NEW c \in Consumer,
              NEW d \in Consumer, StartReplay(p, s, c, d)
       PROVE  BatchesInv'
  <2>1. /\ OthersUnmoved(p) /\ status' = status /\ pc'[p] = "lookup"
        /\ \A e \in batch'[p] : status[e] = s
    BY <1>0, <1>10
       DEF StartReplay, Goto, store, OthersUnmoved, Unmoved, RelayTypeOK, RowsWith
  <2>2. QED
    BY <1>0, <2>1, RelayAssumption DEF BatchesInv, OthersUnmoved, Unmoved, Serial
<1>11. ASSUME NEW p \in Replayer, LookUp(p) PROVE BatchesInv'
  <2>1. pc[p] = "lookup" /\ next[p] <= last[p] /\ UNCHANGED <<status, batch>>
    BY <1>11 DEF LookUp, At, store
  <2>2. next[p] \in 1..(NumConsumers + 1) /\ last[p] \in Consumer
    BY <1>0 DEF RelayTypeOK
  <2>3. next[p] \in Consumer
    BY <2>1, <2>2, RelayAssumption DEF Consumer
  <2>4. Current(p) \in Event /\ status[Current(p)] = "published"
    BY <1>0, <1>a, <2>1 DEF BatchesInv
  <2>5. Current(p) \in processed[next[p]]
    BY <2>3, <2>4 DEF RelayInv, StoreInv
  <2>6. UNCHANGED pc
    BY <1>11, <2>5 DEF LookUp
  <2>7. QED
    BY <1>2, <2>1, <2>6
<1>12. ASSUME NEW p \in Replayer, ReplayNext(p) PROVE BatchesInv'
  <2>1. /\ OthersUnmoved(p) /\ status' = status /\ pc'[p] \in {"idle", "lookup"}
        /\ batch'[p] \subseteq batch[p]
    BY <1>0, <1>12
       DEF ReplayNext, NextRecord, Goto, store, OthersUnmoved, Unmoved, RelayTypeOK
  <2>2. QED
    BY <1>0, <2>1, RelayAssumption DEF BatchesInv, OthersUnmoved, Unmoved
<1>13. ASSUME NEW p \in Replayer, Deliver(p) PROVE BatchesInv'
  BY <1>11, <1>13 DEF Deliver, Handle, Mark, HandlerThrows, At, BatchesInv
<1>14. ASSUME NEW p \in Replayer, ReplayStep(p) PROVE BatchesInv'
  BY <1>10, <1>12, <1>13, <1>14 DEF ReplayStep
<1>15. QED
  BY <1>2, <1>3, <1>9, <1>14 DEF OpenNext, RelayNext, relayVars, worker

LEMMA OnceInvStep ==
  ASSUME Serial, RelayInv, SerialInv, [OpenNext]_relayVars
  PROVE  OnceInv'
<1>0. /\ RelayTypeOK /\ Relay \subseteq Worker /\ Replayer \subseteq Worker
      /\ OnceInv /\ BatchesInv /\ Worker = Relay \union Replayer
  BY DEF RelayInv, SerialInv, Worker
<1>a. ASSUME NEW w \in Worker, pc[w] \in {"handle", "mark"}
      PROVE  /\ w \in Relay /\ Current(w) \in Event /\ next[w] \in Consumer
             /\ \A v \in Worker : pc[v] \in {"handle", "mark"} => v = w
  <2>1. w \in Relay /\ \A v \in Worker : pc[v] \in {"handle", "mark"} => v = w
    BY <1>0, <1>a DEF BatchesInv, Serial
  <2>2. Current(w) \in batch[w] /\ batch[w] \subseteq Event
    BY <1>0, <1>a, CurrentInBatch DEF RelayInv, RelayTypeOK, WorkerInv
  <2>3. next[w] <= last[w] /\ next[w] \in 1..(NumConsumers + 1) /\ last[w] \in Consumer
    BY <1>0, <1>a DEF RelayInv, RelayTypeOK, WorkerInv
  <2>4. next[w] \in Consumer
    BY <2>3, RelayAssumption DEF Consumer
  <2>5. QED
    BY <2>1, <2>2, <2>4
<1>1. CASE Calm
  <2>1. ASSUME NEW w \in Worker, pc'[w] = "handle", Current(w)' \in processed'[next'[w]]
        PROVE  FALSE
    <3>1. RelayInv'
      BY RelayTypeStep, StoreInvStep, WorkerInvStep DEF RelayInv
    <3>2. /\ Current(w)' \in batch'[w] /\ batch'[w] \subseteq Event
          /\ next'[w] <= last'[w] /\ next'[w] \in 1..(NumConsumers + 1)
          /\ last'[w] \in Consumer
      <4>1. batch'[w] \subseteq Event /\ batch'[w] # {}
        BY <2>1, <3>1 DEF RelayInv, RelayTypeOK, WorkerInv
      <4>2. \E e \in batch'[w] : \A f \in batch'[w] : e <= f
        BY <4>1, MinimumExists, RelayAssumption
      <4>3. Current(w)' \in batch'[w]
        BY <4>2 DEF Current
      <4>4. QED
        BY <2>1, <3>1, <4>1, <4>3 DEF RelayInv, RelayTypeOK, WorkerInv
    <3>a. next'[w] \in Consumer
      BY <3>2, RelayAssumption DEF Consumer
    <3>b. Current(w)' \in Event
      BY <3>2
    <3>3. PICK c \in Consumer, e \in Event : c = next'[w] /\ e = Current(w)'
      BY <3>a, <3>b, Zenon
    <3>4. w \in Handling(c, e)' /\ e \in processed[c]
      BY <1>1, <2>1, <3>3 DEF Handling, Calm
    <3>5. w \in Handling(c, e)
      BY <1>1, <3>4 DEF Calm
    <3>6. QED
      BY <1>0, <3>4, <3>5 DEF OnceInv, Handling
  <2>2. ASSUME NEW c \in Consumer, NEW e \in Event
        PROVE  /\ effects'[c][e] <= 1
               /\ e \notin processed'[c] =>
                    \/ effects'[c][e] = 0
                    \/ \E r \in Relay : pc'[r] = "mark" /\ next'[r] = c /\ Current(r)' = e
    <3>1. /\ effects' = effects /\ processed' = processed
          /\ Marking(c, e)' = Marking(c, e)
      BY <1>1 DEF Calm
    <3>2. \A r \in Relay : r \in Marking(c, e) <=>
             pc[r] = "mark" /\ next[r] = c /\ Current(r) = e
      BY <1>0 DEF Marking
    <3>3. \A r \in Relay : r \in Marking(c, e)' <=>
             pc'[r] = "mark" /\ next'[r] = c /\ Current(r)' = e
      BY <1>0 DEF Marking
    <3>4. QED
      BY <1>0, <3>1, <3>2, <3>3 DEF OnceInv
  <2>3. QED
    BY <2>1, <2>2 DEF OnceInv
<1>2. ASSUME NEW w \in Worker, Handle(w) PROVE OnceInv'
  <2>1. /\ pc[w] = "handle" /\ pc' = [pc EXCEPT ![w] = "mark"]
        /\ UNCHANGED <<processed, next, batch>>
        /\ effects' = [effects EXCEPT ![next[w]][Current(w)] = @ + 1]
    BY <1>2 DEF Handle, At, Goto
  <2>2. /\ w \in Relay /\ Current(w) \in Event /\ next[w] \in Consumer
        /\ Current(w)' = Current(w) /\ pc'[w] = "mark"
        /\ \A v \in Worker : pc[v] # "mark" /\ pc'[v] # "handle"
    BY <1>0, <1>a, <2>1 DEF RelayTypeOK, Current
  <2>3. \A c \in Consumer, e \in Event :
          effects'[c][e] = IF c = next[w] /\ e = Current(w)
                             THEN effects[c][e] + 1 ELSE effects[c][e]
    BY <1>0, <2>1, <2>2 DEF RelayTypeOK
  <2>4. \A c \in Consumer, e \in Event : e \notin processed[c] => effects[c][e] = 0
    BY <1>0, <2>2 DEF OnceInv
  <2>5. Current(w) \notin processed[next[w]]
    BY <1>0, <2>1 DEF OnceInv
  <2>6. ASSUME NEW c \in Consumer, NEW e \in Event
        PROVE  /\ effects'[c][e] <= 1
               /\ e \notin processed'[c] =>
                    \/ effects'[c][e] = 0
                    \/ \E r \in Relay : pc'[r] = "mark" /\ next'[r] = c /\ Current(r)' = e
    <3>1. CASE c = next[w] /\ e = Current(w)
      BY <2>1, <2>2, <2>3, <2>4, <2>5, <3>1
    <3>2. CASE ~ (c = next[w] /\ e = Current(w))
      BY <1>0, <2>1, <2>3, <2>4, <3>2 DEF OnceInv
    <3>3. QED
      BY <3>1, <3>2
  <2>7. QED
    BY <2>2, <2>6 DEF OnceInv
<1>3. ASSUME NEW w \in Worker, Mark(w) PROVE OnceInv'
  <2>1. /\ pc[w] = "mark" /\ pc' = [pc EXCEPT ![w] = "lookup"]
        /\ UNCHANGED <<effects, batch>>
        /\ processed' = [processed EXCEPT ![next[w]] = @ \union {Current(w)}]
    BY <1>3 DEF Mark, At, Goto
  <2>2. /\ next[w] \in Consumer
        /\ \A v \in Worker : pc[v] = "mark" => v = w
        /\ \A v \in Worker : pc'[v] # "handle"
    BY <1>0, <1>a, <2>1 DEF RelayTypeOK
  <2>3. \A c \in Consumer, e \in Event : e \notin processed'[c] => effects[c][e] = 0
    BY <1>0, <2>1, <2>2 DEF OnceInv, RelayTypeOK
  <2>4. QED
    BY <1>0, <2>1, <2>2, <2>3 DEF OnceInv
<1>4. QED
  BY <1>1, <1>2, <1>3, OtherStepsAreCalm

\* What one relay, and replays of published rows, keep whatever handlers, archive
\* and units of work do.
LEMMA SerialInvariant == ASSUME Serial PROVE RelaySpec => []SerialInv
<1>1. RelayInit => SerialInv
  BY DEF RelayInit, SerialInv, BatchesInv, OnceInv, Worker
<1>2. RelayInv /\ SerialInv /\ [OpenNext]_relayVars => SerialInv'
  BY BatchesInvStep, OnceInvStep DEF SerialInv
<1>3. QED
  BY <1>1, <1>2, RelayInvariant, PTL DEF RelaySpec

\* deliverIdempotent keeps its word when no two relays overlap and only published
\* rows are replayed: an event takes effect at most once at each consumer.
THEOREM HandlerOncePerEventAlways ==
  ASSUME Serial
  PROVE  RelaySpec => []HandlerOncePerEvent
<1>1. SerialInv => HandlerOncePerEvent
  BY DEF SerialInv, OnceInv, HandlerOncePerEvent
<1>2. QED
  BY <1>1, SerialInvariant, PTL

\* Under the same conditions a row that was published or quarantined stays so.
THEOREM ResolvedIsFinalAlways ==
  ASSUME Serial
  PROVE  RelaySpec => ResolvedIsFinal
<1>1. RelayInv /\ SerialInv /\ [OpenNext]_relayVars =>
        [\A e \in Event : status[e] \in {"published", "poison"} =>
           status'[e] = status[e]]_relayVars
  BY ResolvedStays DEF SerialInv
<1>2. QED
  BY <1>1, SerialInvariant, RelayInvariant, PTL DEF RelaySpec, ResolvedIsFinal

-----------------------------------------------------------------------------
(***************************************************************************)
(* The outbox end to end.  Each component takes a step of its own or lets  *)
(* the other one move, so what was proved of each holds of both together.  *)
(***************************************************************************)
\* What a joint step is to the unit of work and to the relay.
LEMMA JointStep ==
  ASSUME UowTypeOK, [Next]_vars
  PROVE  /\ [UowNext]_uowVars
         /\ [OpenNext]_relayVars
         /\ \/ \E u \in Uow : UnitInserts(u)
            \/ UNCHANGED owner /\ [RelayNext]_relayVars
<1>1. CASE UNCHANGED vars
  BY <1>1 DEF vars, uowVars, relayVars
<1>2. ASSUME NEW u \in Uow, UnitInserts(u)
      PROVE  UowNext /\ OpenNext
  <2>1. pending[u] \in SUBSET Event
    BY DEF UowTypeOK
  <2>2. QED
    BY <1>2, <2>1 DEF UnitInserts, UowNext, OpenNext
<1>3. ASSUME NEW u \in Uow, CommitContinues(u) \/ (CallerStep(u) /\ UNCHANGED relayVars)
      PROVE  /\ UowNext /\ UNCHANGED owner /\ UNCHANGED relayVars
  <2>1. CommitStep(u) => UNCHANGED owner
    BY DEF CommitStep, CheckEventId, ApplyMutation, MutationThrows, InsertCollides, Settle
  <2>2. CallerStep(u) => UNCHANGED owner
    BY DEF CallerStep, StageMutation, AppendOutbox, BeginCommit, Rollback
  <2>3. QED
    BY <1>3, <2>1, <2>2 DEF CommitContinues, UowNext, relayVars
<1>4. CASE DeliveryStep
  BY <1>4 DEF DeliveryStep, uowVars, OpenNext
<1>5. QED
  BY <1>1, <1>2, <1>3, <1>4 DEF Next, WriterStep

\* Both components behave in the composition as they do on their own: whatever is
\* proved of a unit of work among units, and of a relay facing any units that commit
\* whenever they like, holds of the outbox.
THEOREM OutboxImplementsItsParts == Spec => UowSpec /\ RelaySpec
<1>1. Init => UowInit /\ RelayInit
  BY DEF Init
<1>2. UowTypeOK /\ [Next]_vars =>
        [UowNext]_uowVars /\ [OpenNext]_relayVars
  BY JointStep
<1>3. UowInit => UowTypeOK
  BY UowInvInit DEF UowInv
<1>4. UowTypeOK /\ [UowNext]_uowVars => UowTypeOK'
  BY UowTypeStep
<1>5. QED
  BY <1>1, <1>2, <1>3, <1>4, PTL DEF Spec, UowSpec, RelaySpec

\* The inductive invariants of the parts, for the composition.
LEMMA PartsInvariant == Spec => []UowInv /\ []RelayInv
<1>1. QED
  BY OutboxImplementsItsParts, UowInvariant, RelayInvariant, PTL

\* A row that has been listed, or has taken effect anywhere, is owned by a unit.
RowsAreOwned ==
  /\ \A e \in Event : status[e] # "absent" => owner[e] # NoUow
  /\ \A c \in Consumer, e \in Event : effects[c][e] > 0 => status[e] # "absent"

LEMMA RowsAreOwnedStep ==
  ASSUME UowInv, RelayInv, RowsAreOwned, [Next]_vars
  PROVE  RowsAreOwned'
<1>0. UowTypeOK /\ RelayTypeOK
  BY DEF UowInv, RelayInv
<1>1. \A e \in Event : status[e] # "absent" => status'[e] # "absent"
  BY <1>0, JointStep, StoresGrow DEF Grows
<1>2. ASSUME NEW u \in Uow, UnitInserts(u) PROVE RowsAreOwned'
  <2>1. /\ status' = [e \in Event |-> IF e \in pending[u] THEN "unpublished" ELSE status[e]]
        /\ owner' = [e \in Event |-> IF e \in pending[u] THEN u ELSE owner[e]]
        /\ UNCHANGED effects
    BY <1>2 DEF UnitInserts, InsertRows, consumers, InsertUnpublished
  <2>2. QED
    BY <1>0, <2>1, UowAssumption DEF RowsAreOwned
<1>3. ASSUME UNCHANGED owner, [RelayNext]_relayVars PROVE RowsAreOwned'
  <2>1. \A e \in Event : status[e] = "absent" =>
          /\ status'[e] = "absent"
          /\ \A c \in Consumer : effects'[c][e] = effects[c][e]
    BY <1>0, <1>3, RelayActsOnRows
  <2>2. ASSUME NEW c \in Consumer, NEW e \in Event, effects'[c][e] > 0
        PROVE  status[e] # "absent"
    BY <2>1, <2>2 DEF RowsAreOwned
  <2>3. QED
    BY <1>1, <1>3, <2>1, <2>2 DEF RowsAreOwned
<1>4. QED
  BY <1>0, <1>2, <1>3, JointStep

\* End to end, for any number of units, relays, replays and consumers: a consumer
\* never acts on an event whose unit has not applied every one of its mutations.
THEOREM EffectsFollowMutationsAlways == Spec => []EffectsFollowMutations
<1>1. Init => RowsAreOwned
  <2>1. RelayInit => RowsAreOwned
    BY DEF RelayInit, RowsAreOwned
  <2>2. QED
    BY <2>1 DEF Init
<1>2. UowInv /\ RelayInv /\ RowsAreOwned /\ [Next]_vars => RowsAreOwned'
  BY RowsAreOwnedStep
<1>3. UowInv => RowsFollowMutations
  BY DEF UowInv, UowTypeOK, Stage, StageInv, Untouched, RowsFollowMutations
<1>4. ASSUME UowInv, RowsAreOwned,
             NEW c \in Consumer, NEW e \in Event, effects[c][e] > 0
      PROVE  owner[e] \in Uow /\ Complete(owner[e])
  <2>1. owner[e] \in Uow
    BY <1>4 DEF RowsAreOwned, UowInv, UowTypeOK, Consumer
  <2>2. RowsOf(owner[e]) # {}
    BY DEF RowsOf
  <2>3. QED
    BY <1>3, <1>4, <2>1, <2>2 DEF RowsFollowMutations
<1>5. UowInv /\ RowsAreOwned => EffectsFollowMutations
  BY <1>4 DEF EffectsFollowMutations
<1>6. QED
  BY <1>1, <1>2, <1>5, PartsInvariant, PTL DEF Spec
=============================================================================
