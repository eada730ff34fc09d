---------------------------- MODULE OutboxRelay ----------------------------
(***************************************************************************)
(* Delivery out of the outbox: OutboxRelay.processBatch, the in-process    *)
(* dispatcher with consumers that subscribe through deliverIdempotent, the *)
(* archive hook, and EventReplaySupport re-delivering stored rows.         *)
(*                                                                         *)
(* Relays and replays are asynchronous functions of one JavaScript         *)
(* process: each action is the code between two awaits.                    *)
(***************************************************************************)
EXTENDS EventIds, Naturals, FiniteSets

CONSTANTS
  Relay,           \* calls of processBatch that may overlap
  Replayer,        \* calls of EventReplaySupport that may overlap
  NumConsumers,    \* handlers subscribed to the dispatcher
  MaxAttempts,     \* OutboxRelayOptions.maxAttempts
  BatchLimit,      \* argument of processBatch
  ReplayStatus,    \* values of ReplayFilter.status in use
  MaxReplays       \* bound: replays started in a behaviour

Consumer == 1..NumConsumers
Worker == Relay \union Replayer

ASSUME RelayAssumption ==
  /\ Event \subseteq Nat
  /\ Relay \intersect Replayer = {}
  /\ NumConsumers \in Nat \ {0}
  /\ MaxAttempts \in Nat \ {0}
  /\ BatchLimit \in Nat \ {0}
  /\ ReplayStatus \subseteq {"unpublished", "published", "poison"}
  /\ MaxReplays \in Nat

VARIABLES
  status,       \* the store: OutboxRecord.status, "absent" if there is no row
  attempts,     \* the store: OutboxRecord.attemptCount
  processed,    \* ProcessedEventsStore: eventIds marked for each consumer
  archived,     \* eventIds in the archive
  pc,           \* where each worker stands
  batch,        \* records a worker has listed and not finished
  seen,         \* attemptCount of those records when they were listed
  next,         \* consumer the worker's dispatch has come to
  first, last,  \* first and last consumer of its dispatch
  effects,      \* history: times a consumer's handler has taken effect
  replays       \* number of replays started

store == <<status, attempts>>
consumers == <<processed, effects>>
worker == <<pc, batch, seen, next, first, last>>
relayVars == <<status, attempts, processed, archived, pc, batch, seen, next,
               first, last, effects, replays>>

Status == {"absent", "unpublished", "published", "poison"}

Place == {"idle", "lookup", "handle", "mark", "publish", "fail"}

RelayTypeOK ==
  /\ status \in [Event -> Status]
  /\ attempts \in [Event -> Nat]
  /\ processed \in [Consumer -> SUBSET Event]
  /\ archived \subseteq Event
  /\ pc \in [Worker -> Place]
  /\ batch \in [Worker -> SUBSET Event]
  /\ seen \in [Worker -> [Event -> Nat]]
  /\ next \in [Worker -> 1..(NumConsumers + 1)]
  /\ first \in [Worker -> Consumer]
  /\ last \in [Worker -> Consumer]
  /\ effects \in [Consumer -> [Event -> Nat]]
  /\ replays \in 0..MaxReplays

RelayInit ==
  /\ status = [e \in Event |-> "absent"]
  /\ attempts = [e \in Event |-> 0]
  /\ processed = [c \in Consumer |-> {}]
  /\ archived = {}
  /\ pc = [w \in Worker |-> "idle"]
  /\ batch = [w \in Worker |-> {}]
  /\ seen = [w \in Worker |-> [e \in Event |-> 0]]
  /\ next = [w \in Worker |-> 1]
  /\ first = [w \in Worker |-> 1]
  /\ last = [w \in Worker |-> NumConsumers]
  /\ effects = [c \in Consumer |-> [e \in Event |-> 0]]
  /\ replays = 0

-----------------------------------------------------------------------------
RowsWith(s) == {e \in Event : status[e] = s}

\* The n oldest of a set of rows.
Oldest(rows, n) ==
  {e \in rows : Cardinality({f \in rows : f < e}) < n}

\* The record a worker is busy with: its batch is in createdAt order.
Current(w) == CHOOSE e \in batch[w] : \A f \in batch[w] : e <= f

At(w, place) == pc[w] = place

Goto(w, place) == pc' = [pc EXCEPT ![w] = place]

\* A committing unit of work inserts its rows.
InsertRows(rows) ==
  /\ rows # {}
  /\ \A e \in rows : status[e] = "absent"
  /\ status' = [e \in Event |-> IF e \in rows THEN "unpublished" ELSE status[e]]
  /\ UNCHANGED <<attempts, consumers, archived, worker, replays>>

-----------------------------------------------------------------------------
(***************************************************************************)
(* processBatch and dispatch.                                              *)
(***************************************************************************)
\* Mutant of NextRecord: the next record does not start at the first consumer.
NextRecordKeepsPosition(w) ==
  LET rest == batch[w] \ {Current(w)}
  IN  /\ batch' = [batch EXCEPT ![w] = rest]
      /\ Goto(w, IF rest = {} THEN "idle" ELSE "lookup")
      /\ UNCHANGED <<seen, next, first, last>>

\* Go on to the next record of the batch, or return when there is none.
NextRecord(w) ==
  LET rest == batch[w] \ {Current(w)}
  IN  /\ batch' = [batch EXCEPT ![w] = rest]
      /\ next' = [next EXCEPT ![w] = first[w]]
      /\ Goto(w, IF rest = {} THEN "idle" ELSE "lookup")
      /\ UNCHANGED <<seen, first, last>>

\* Mutant of ListUnpublished: it lists rows in quarantine as well.
ListUnresolved(r) ==
  LET open == RowsWith("unpublished") \union RowsWith("poison")
  IN  /\ At(r, "idle")
      /\ open # {}
      /\ batch' = [batch EXCEPT ![r] = Oldest(open, BatchLimit)]
      /\ seen' = [seen EXCEPT ![r] = attempts]
      /\ next' = [next EXCEPT ![r] = 1]
      /\ Goto(r, "lookup")
      /\ UNCHANGED <<store, consumers, archived, first, last, replays>>

\* listUnpublished clones the rows; nothing tells another relay they are taken.
ListUnpublished(r) ==
  /\ At(r, "idle")
  /\ RowsWith("unpublished") # {}
  /\ batch' = [batch EXCEPT ![r] = Oldest(RowsWith("unpublished"), BatchLimit)]
  /\ seen' = [seen EXCEPT ![r] = attempts]
  /\ next' = [next EXCEPT ![r] = 1]
  /\ Goto(r, "lookup")
  /\ UNCHANGED <<store, consumers, archived, first, last, replays>>

\* deliverIdempotent: has(), then the handler, then mark(), an await each.
LookUp(w) ==
  /\ At(w, "lookup")
  /\ next[w] <= last[w]
  /\ IF Current(w) \in processed[next[w]]
       THEN /\ next' = [next EXCEPT ![w] = @ + 1]
            /\ UNCHANGED pc
       ELSE /\ Goto(w, "handle")
            /\ UNCHANGED next
  /\ UNCHANGED <<store, consumers, archived, batch, seen, first, last, replays>>

Handle(w) ==
  /\ At(w, "handle")
  /\ effects' = [effects EXCEPT ![next[w]][Current(w)] = @ + 1]
  /\ Goto(w, "mark")
  /\ UNCHANGED <<store, processed, archived, batch, seen, next, first, last, replays>>

\* Mutant of Mark: what has been processed is not remembered.
MarkNothing(w) ==
  /\ At(w, "mark")
  /\ next' = [next EXCEPT ![w] = @ + 1]
  /\ Goto(w, "lookup")
  /\ UNCHANGED <<store, processed, effects, archived, batch, seen, first, last, replays>>

Mark(w) ==
  /\ At(w, "mark")
  /\ processed' = [processed EXCEPT ![next[w]] = @ \union {Current(w)}]
  /\ next' = [next EXCEPT ![w] = @ + 1]
  /\ Goto(w, "lookup")
  /\ UNCHANGED <<store, effects, archived, batch, seen, first, last, replays>>

\* Mutant of HandlerThrows: the dispatcher swallows the error.
HandlerFailsSilently(w) ==
  /\ At(w, "handle")
  /\ next' = [next EXCEPT ![w] = @ + 1]
  /\ Goto(w, "lookup")
  /\ UNCHANGED <<store, consumers, archived, batch, seen, first, last, replays>>

\* A handler throws without effect: the relay catches, a replay gives up.
HandlerThrows(w) ==
  /\ At(w, "handle")
  /\ IF w \in Relay
       THEN Goto(w, "fail") /\ UNCHANGED batch
       ELSE Goto(w, "idle") /\ batch' = [batch EXCEPT ![w] = {}]
  /\ UNCHANGED <<store, consumers, archived, seen, next, first, last, replays>>

Dispatched(w) == At(w, "lookup") /\ next[w] > last[w]

ArchiveEnvelope(r) ==
  /\ Dispatched(r)
  /\ archived' = archived \union {Current(r)}
  /\ Goto(r, "publish")
  /\ UNCHANGED <<store, consumers, batch, seen, next, first, last, replays>>

ArchiveThrows(r) ==
  /\ Dispatched(r)
  /\ Goto(r, "fail")
  /\ UNCHANGED <<store, consumers, archived, batch, seen, next, first, last, replays>>

\* markPublished asks nothing of the row's present status.
MarkPublished(r) ==
  /\ At(r, "publish")
  /\ status' = [status EXCEPT ![Current(r)] = "published"]
  /\ NextRecord(r)
  /\ UNCHANGED <<attempts, consumers, archived, replays>>

\* Mutant of RecordAttemptFailure: the attempt is counted on the clone.
FailureNotCounted(r) ==
  /\ At(r, "fail")
  /\ NextRecord(r)
  /\ UNCHANGED <<store, consumers, archived, replays>>

\* The attempt is counted on the row, but judged by the listed record.
RecordAttemptFailure(r) ==
  /\ At(r, "fail")
  /\ LET e == Current(r)
     IN  /\ attempts' = [attempts EXCEPT ![e] = @ + 1]
         /\ status' = IF seen[r][e] + 1 >= MaxAttempts
                        THEN [status EXCEPT ![e] = "poison"]
                        ELSE status
  /\ NextRecord(r)
  /\ UNCHANGED <<consumers, archived, replays>>

-----------------------------------------------------------------------------
(***************************************************************************)
(* EventReplaySupport: replayToDispatcher goes through every consumer,     *)
(* replayIdempotent through one.                                           *)
(***************************************************************************)
StartReplay(p, s, from, to) ==
  /\ At(p, "idle")
  /\ replays < MaxReplays
  /\ RowsWith(s) # {}
  /\ from = to \/ (from = 1 /\ to = NumConsumers)
  /\ batch' = [batch EXCEPT ![p] = RowsWith(s)]
  /\ next' = [next EXCEPT ![p] = from]
  /\ first' = [first EXCEPT ![p] = from]
  /\ last' = [last EXCEPT ![p] = to]
  /\ Goto(p, "lookup")
  /\ replays' = replays + 1
  /\ UNCHANGED <<store, consumers, archived, seen>>

ReplayNext(p) ==
  /\ Dispatched(p)
  /\ NextRecord(p)
  /\ UNCHANGED <<store, consumers, archived, replays>>

Deliver(w) == LookUp(w) \/ Handle(w) \/ Mark(w) \/ HandlerThrows(w)

RelayStep(r) ==
  \/ ListUnpublished(r)
  \/ Deliver(r)
  \/ ArchiveEnvelope(r)
  \/ ArchiveThrows(r)
  \/ MarkPublished(r)
  \/ RecordAttemptFailure(r)

ReplayStep(p) ==
  \/ \E s \in ReplayStatus, c, d \in Consumer : StartReplay(p, s, c, d)
  \/ Deliver(p)
  \/ ReplayNext(p)

RelayNext ==
  \/ \E r \in Relay : RelayStep(r)
  \/ \E p \in Replayer : ReplayStep(p)

\* On its own the relay faces units of work that commit whenever they like.
OpenNext == (\E rows \in SUBSET Event : InsertRows(rows)) \/ RelayNext

RelaySpec == RelayInit /\ [][OpenNext]_relayVars

\* The host calls processBatch again and again and promises are run.
RelayFairness == \A r \in Relay : WF_relayVars(RelayStep(r))

FairRelaySpec == RelaySpec /\ RelayFairness
-----------------------------------------------------------------------------
(***************************************************************************)
(* Properties.                                                             *)
(***************************************************************************)
\* A published row has taken effect at every consumer and is archived, however
\* many relays and replays skipped, repeated or abandoned parts of the work.
PublishedReachedEveryone ==
  \A e \in Event : status[e] = "published" =>
    e \in archived /\ \A c \in Consumer : effects[c][e] >= 1

\* Retries never multiply an effect, only overlap does: each worker that may
\* run at the same time adds at most one application.
EffectsBoundedByOverlap ==
  \A c \in Consumer, e \in Event : effects[c][e] <= Cardinality(Worker)

\* idempotency.ts:32, "Invokes handler only if eventId not yet processed for
\* this consumer": an event takes effect at most once at each consumer.
HandlerOncePerEvent ==
  \A c \in Consumer, e \in Event : effects[c][e] <= 1

\* With relays that never overlap, a row that was published or quarantined is
\* out of the relay's hands.
ResolvedIsFinal ==
  [][\A e \in Event : status[e] \in {"published", "poison"} =>
       status'[e] = status[e]]_relayVars

\* No row is left behind: whatever its handlers do and however many younger or
\* older rows there are, it ends up published or in quarantine.
EveryRowIsResolved ==
  \A e \in Event :
    status[e] = "unpublished" ~> status[e] \in {"published", "poison"}

\* The abstract row is the status, an event is delivered to a consumer when it
\* has taken effect there.
Promise == INSTANCE AtLeastOnce WITH
             row <- status,
             delivered <- [c \in Consumer |-> {e \in Event : effects[c][e] > 0}]

\* The relay keeps the whole promise of the outbox, liveness included:
\* redeliveries are stuttering steps of AtLeastOnce.
KeepsPromise == Promise!Spec
=============================================================================
