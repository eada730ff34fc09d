# NBCP in TLA+

Specifications, model checking and proofs for the NBCP modular monolith: the
transactional outbox of `packages/outbox` and the business modules of `modules/`
that publish and consume events through it. File names below are relative to the
repository root.

## 1. The system

NBCP is one Node.js process. A module is a service class over repositories; an
operation of a service

1. reads committed state through its repositories, with an `await` at each read,
2. checks what it has read, and often awaits other modules (tenancy, rbac, catalog),
3. stages whole-record saves and event envelopes in a unit of work,
4. `await`s `commit()`, which runs the staged callbacks and inserts the event rows.

A relay dispatches the rows to handlers, which call the consuming module's service.
Nothing is locked and no record has a version, so two calls that overlap at their
awaits work on snapshots that may be out of date. That, with at-least-once delivery,
is where the difficulty lies. State lives in memory behind ports meant for database
adapters (`unit-of-work.ts:44`, "Production adapters wrap a real DB transaction with
the same port"): there is no recovery code, so crashes are not modelled, and every
await is taken as a point at which any other call may run.

### Inventory of components

| Component | State | Operations | Interacts with | Hard behaviour | Correct when |
| --- | --- | --- | --- | --- | --- |
| Unit of work, outbox store | staged callbacks and rows; `active`, `settled`; rows by eventId | stageMutation, appendOutbox, commit, rollback, insertUnpublished | every service | commit in several awaits, rollback in the middle, two units with one eventId | rows only after mutations; the outcome reported is the outcome |
| Relay, dispatcher, idempotency, archive | row status and attempts; processed keys; archive | processBatch, dispatch, deliverIdempotent, archive, markPublished, recordAttemptFailure | store, consumers | overlapping batches, failing consumers and archive, stale clones | published means delivered everywhere; no row stays open |
| Replay | none | replayToDispatcher, replayIdempotent | store, consumers | runs beside the relay | no effect is repeated |
| Orders | orders with their lines | createOrder, addLine, updateLineQuantity, removeLine, commitOrder, fulfillOrder, fulfillLines, cancelOrder | catalog, parties (reads), outbox | stale whole-order saves | status table, announced lifecycle, immutable once committed |
| Inventory | balances, movements | consumeOrderEvent, receiveStock, adjustStock | outbox (in and out) | lost updates, repeated and reordered events | availability, balance = history, one movement per key |
| Payments | payments | create, authorize, capture, void, refund, fail | orders (reads), outbox, audit | overlapping refunds, capture against void | refunded <= captured, status table |
| Ledger | journals | consumeFinancialEvent, reverseJournal | outbox (in and out) | duplicate delivery, double reversal | one journal per event, balanced, immutable |
| Reporting | projections, processed keys | consumeEvent, rebuildFromEvents, reports | events of four modules | partial projection, reordering | each report counts what was projected, once |
| Audit | records | record, ingestEnvelope, appendCorrection, archive, purge | envelopes of all modules | repeated envelopes, purge against replay | append-only, one record per event |
| Identity | users, sessions, challenges, links | register, verify, authenticate, reset, change password, status, sessions | outbox | hashing awaits between read and save | no session outlives its revocation; lockout counts |
| Tenancy | organisations, locations, memberships, invitations | lifecycle, transferOwnership, memberships, invitations | identity | accept against revoke, transfer against leave | the owner is an active member |
| RBAC | permissions, roles, assignments | roles, assign, revoke, change scope, authorize | tenancy, identity | revoke against change of scope | no access without a live assignment |
| Catalog | items, variants, prices | lifecycle, pricing, suppliers | parties, outbox | stale whole-item saves | what was announced of an item is what Orders finds |
| Parties | parties, links, relationships | lifecycle, merge, principal links | tenancy, identity | merging both ways at once | merges are acyclic, links unique |
| Architecture enforcement | none | static checks of files | file system | none | not a protocol |

Notifications and scheduling are design documents without code. `PROJECT.json` lists
all components with their status, and under `hazards` what is hard to test, at its line.

## 2. What is modelled

### Outbox, Orders and Inventory: one action for each stretch between two awaits

| Module | Models | State and actions |
| --- | --- | --- |
| `UnitOfWork` | `unit-of-work.ts`, `in-memory-outbox-store.ts` | the class fields of each unit, `owner` for the rows of the store; one action for each piece of `commit()` between two awaits, and one per method |
| `OutboxRelay` | `relay.ts`, `dispatcher.ts`, `idempotency.ts`, `archive.ts`, `replay.ts` | status and attempts of each row, processed keys, and a program counter, batch and consumer position for each overlapping call |
| `AtLeastOnce` | the promise of the outbox (ADR-0003) | rows and what has been delivered; the abstract specification `OutboxRelay` implements |
| `Outbox` | both, over one store | extends both, which share the eventIds of `EventIds`; `UnitInserts` is the joint step: the unit inserts, the relay can list |
| `Inventory` | `inventory-service.ts`, `inventory-item.ts`, its stores | balances, bag of movements, bag of published movements, and for each running call its position, the balance it has read and the callbacks it has staged |
| `Orders` | `orders-service.ts`, `order.ts`, its store | orders with quantities and fulfilled quantities, each client's staged save and events, and the log of inserted rows |
| `OrderStock` | Orders and Inventory joined by events (ADR-0007) | `Orders` extended, `Inventory` instantiated; `StockActions` is `resolveStockActions`; a delivery takes any row of the log, any number of times |

### The other services: over `ServiceCalls`

The remaining services have one shape: await some reads, decide, save whole records,
commit. `ServiceCalls` states it once. `store` maps ids and unique indexes to records,
`told` is the outbox (the last event about a key), and `work[c]` is a running call: the
operation with its arguments, the reads still to come, the answers so far, the writes
and news staged. An operation is then an operator with `reads`, a sequence of sets of
keys with one set for each await, a condition for each read, and the writes and news it
stages. Any other call may run at each await and between any two saves, and a call may
throw at each await (`GiveUp`). The module defines `:>` and `@@` as the module `TLC` does:
the proof system has no definition of those. `BoundedCalls` adds the bound on the calls
made to the modules whose behaviours nothing else ends.

| Module | Models | State and actions |
| --- | --- | --- |
| `Payments` | `payments-service.ts`, `payment.ts` | payments with status, amount and refunded amount; `log` keeps all payment events in order |
| `Ledger` | `ledger-service.ts`, `posting-rules.ts`, `journal.ts`, its store | journals by id and by source event; posting from an event, reversal |
| `Finance` | both, joined by the relay | any event of the log reaches `consumeFinancialEvent`, any number of times |
| `Reporting` | `reporting-service.ts`, `kpis.ts`, the projection store | facts, balances and processed keys, written at once, await by await; the orders a report counts and the sum it gives as revenue |
| `Audit` | `audit-service.ts`, the event ingestor, its store | records by id and by source event, ingested keys; archive and purge |
| `EventConsumers` | Reporting or Audit behind the relay | any event of a stream, again and at once; the history `timely` of the journals that came after their capture was projected |
| `Identity` | `identity-service.ts`, `user.ts`, its stores | users, sessions, challenges |
| `Tenancy` | `tenancy-service.ts`, its stores | organizations with locations, memberships, invitations |
| `Rbac` | `rbac-service.ts`, its stores | extends `Tenancy`, which it asks for members and locations; permissions, roles, assignments and the index of their scopes |
| `Access` | Tenancy and Rbac together | calls of both overlap; the answers of `authorize` and `listEffectivePermissions` |
| `Parties` | `parties-service.ts`, its stores | parties with roles, channels and principal, relationships with their type |
| `Catalog` | `catalog-service.ts`, `catalog-item.ts`, its store | extends `Parties`, which it asks for suppliers; items with variants and prices |
| `Suppliers` | Catalog and Parties together | calls of both overlap; an opening is what calls that never overlapped have left |

**`raced`.** Because nothing is locked, hardly any invariant over two records survives
two calls that read before either has saved. What the code does promise is that
nothing goes wrong *without* such a race, however the calls overlap otherwise. `raced` is
a history variable that collects the keys a call saved, or announced, while one of the
records it had read was no longer what it had read; saving an assignment also counts
its entry in the index of scopes, which another assignment may have taken. Most properties of these modules leave out the
keys in `raced` and no others: a record whose own saves did not race must be right even
when every record around it did. Such a property does not exclude the race itself, which
the code does not exclude either; the `hazards` of `PROJECT.json` say of each race what
is still true of it. The properties that hold without the exception say so
by not naming it (`AnswersAgree`, `AuditTrailIsExact`, `RevenueFollowsJournals`, the
codes of variants in `OneOfEach`, the first part of `ReversedIsCancelled`).

`MC*` modules give the constants of the runs their values. `*Proofs` modules hold the
theorems. Variables marked *history* in the modules record what happened and are not
in the code; no guard of a modelled step reads them, except `requested`, which makes
each stock request happen once because its id is drawn afresh. `calls` and `delivered`
count towards a bound.

Operators whose comment begins with *Mutant* are wrong versions of the operator that
follows: with the one in the place of the other, the property named in `PROJECT.json`
must fail. No specification uses them.

`resolveStockActions` filters and maps the lines of an event in their order. `OrderStock`
says so with `Nth`, the n-th of a set of numbers, rather than with a recursive operator on
sequences, which a module with proofs cannot use.

### What is abstracted

* An envelope is its eventId, or its type and the quantities consumers read. Field
  validation, totals, currencies, names, clocks and logging are left out; so are the
  tokens and hashes of Identity, and everything that expires (sessions, locks,
  challenges, invitations).
* Authorisation, tenancy, catalog and party lookups that a service only uses to refuse
  a call change nothing: a refusal before anything is read is no step, later it is
  `CatalogRefuses` in Orders and `GiveUp` in the modules over `ServiceCalls`. Between
  Rbac and Tenancy, and between Catalog and Parties, the answers matter and are read.
  `seedCoreCatalog`, which finds a permission of its template deprecated after it has
  registered others, is a step of its own (`SeedTemplate`): those stay, without their events.
* A query and the test of its answer are one step: the state the query saw is the
  state the test decides on. Two queries are two steps. Queries that read many records
  (`authorize` for an actor, the missing permissions of `seedCoreCatalog`) are one read.
* An operation of Orders reads, checks and stages in one step, saves in a second and
  inserts its rows in a third: the awaits in between read nothing of the order again.
* A field nothing depends on (a name, an address, a tax category) is left out, but the
  call that changes it is there, because it saves the whole record as it read it.
* A handler takes effect or throws without effect. The effect of a consumer is a
  count in `OutboxRelay`; `Inventory`, `Ledger`, `Reporting` and `Audit` show what real
  consumers do.
* A journal event has the type and the source its payload has, and `journal.posted` and
  `journal.reversed` are one kind, as in `projectLedgerEvent`. Periods, currencies and the
  refunds of the reports are left out.
* A fresh id never equals an earlier one. `OrderStock` only delivers payloads as
  Orders publishes them; the alternative payload with `lines` is not used by Orders.

### Not modelled

Envelope validation and observability (pure checks and sinks); notifications and
scheduling (documents without code); architecture enforcement (a static checker);
`dryRun`, `listArchived` and the date filters of replay, and the plain queries of the
services, which only read; the composition roots (`create-*-kernel.ts`), which wire
the parts the composing modules join.

## 3. The runs

Passing runs (bounds in the cfg named in `PROJECT.json`):

| Run | Bounds | What it shows |
| --- | --- | --- |
| `outbox_end_to_end` | 2 units, 2 events, 2 mutations each, 1 relay, 1 consumer | under throws, late collisions and rollbacks at every await: rows and consumers see complete units only, what `commit()` reports is true, a unit is torn only through the three gaps of `commit()`, and a begun commit is delivered or reported. A collision takes two units; two mutations are what it takes to be half done. |
| `relay_overlap` | 2 events, 2 relays, 1 replay, 1 consumer, 2 attempts | what is left when batches overlap: `PublishedReachedEveryone`, and a bound on effects. Two batches over two rows give every order of list, handle, mark, publish and fail. |
| `relay_serial` | 2 events, 1 relay, 2 replays of published rows, 2 consumers, 2 attempts | without overlapping batches an event has at most one effect (`HandlerOncePerEvent`) and its outcome is final; with fairness every row is resolved and `AtLeastOnce` is implemented, liveness included (`KeepsPromise`). Two consumers are what a partly failed dispatch needs. |
| `inventory_overlap` | 2 skus, 3 order events, 2 stock requests, 2 overlapping calls | availability, the record of consumed events and the number of duplicates survive the lost updates. |
| `orders_overlap` | 2 orders, 2 clients, 2 lines, 7 rows | an order on file makes sense and has been announced, whatever overwrote what. |
| `order_stock` | 2 orders, 3 lines, 2 skus, 8 rows | with any redelivery and with refusals in the middle of an event, balance = history, one movement per key, the published lifecycle is in order and adds up, and when every event is consumed stock and orders agree. |
| `finance` | 1 payment of 1 or 2 units, 5 payment events, 3 journals, 2 calls | what consumers were told of a payment adds up to the payment, cash clearing to what was captured less refunded, and a reversed journal is cancelled. Two partial refunds and a reversal fit in. |
| `event_consumers` | 3 of 9 events (order, two payments, two events of one journal, stock), 2 envelopes, 2 records, 2 calls | the report of orders counts those whose commitment was projected, a balance each movement once, and the revenue is at most what the journal events filed are worth and at least what those filed in time are worth; one audit record for an event. A capture and the two events of its journal make three, and so do a capture, a refund and a journal; a payment of another amount shows what a wrong lookup would add. |
| `identity` | 2 users, 1 address, 1 external identity, 2 sessions, 1 challenge, 4 calls, 2 at once | sessions do not outlive the password or standing they were opened with; lockout counts; addresses and identities are unique. Sign-in, change of password, sign-in again and withdrawal are four calls. |
| `access` | 2 organizations, 1 location, 2 principals, 1 invitation, 2 roles, 3 assignments, any 2 calls that may overlap, from 9 openings | the owner is a member, invitations settle once, grants hold, and the two ways of asking for permissions agree. The openings are nothing at all and a company whose second principal is a member or has left, holds a role at its location or none, and has an open or a revoked invitation: they stand for the calls made before, so that two more reach every operation and every race of two. |
| `suppliers` | 3 parties, 1 principal, 1 channel, 2 relationships of 2 types, 2 items, 2 variants, 2 prices, 3 calls, 2 at once | uniqueness of what must be unique, merges end at a party, and what was announced of an item is what Orders finds. |

In `order_stock` the use cases leave out the two the disagreements below are about
(`completeOrder`: fulfilling what is partly fulfilled; `discardOrder`: cancelling a
draft), there is one client and one delivery at a time, and no order has two lines of
one stockable item.

The run that expects a violation, `order_stock_issue`, shows that the code and a sentence
of the repository disagree: ADR-0007:150 says "Issue exactly the fulfilled quantity",
and a part followed by `fulfillOrder` issues the part twice.

### Disagreements without a run of their own

The models contain these behaviours; the passing runs choose bounds, or state
properties, that allow for them.

Outbox, Orders, Inventory:

* A throwing callback, or a collision found only at the insertion, leaves mutations
  without rows (`unit-of-work.ts:101`); `packages/outbox/README.md:10` says aggregate
  mutations and outbox append "commit/rollback together". One of the three gaps
  `TornOnlyThroughGaps` names.
* `rollback()` tests only `settled` (`unit-of-work.ts:113`) and is accepted between two
  awaits of `commit()`, when mutations are applied; `testing/harness.ts:134` says
  "Rollback must not apply staged mutations". Another gap.
* `listUnpublished` (`relay.ts:48`) claims nothing, though `relay.ts:26` says "Claims
  unpublished outbox rows", and `has`, handler and `mark` of `deliverIdempotent` are
  three awaits, though `idempotency.ts:32` says "only if eventId not yet processed".
  `relay_serial` shows one effect for one relay, `relay_overlap` how many there may be.
* A throwing `archive()` (`relay.ts:54`) keeps a row from being published until it is
  quarantined; `archive.ts:5` says "publish must not depend solely on archive".
* A late `addLine` makes a committed order a draft again (`orders-service.ts:309`);
  `docs/modules/orders/design.md:119` says "committed is immutable except
  fulfillment/cancel transitions". `FirmOrdersAreAnnounced` allows for it.
* Two lines of one event with one catalog item record one key twice
  (`inventory-service.ts:229`; `modules/inventory/README.md:48`): no event of the runs
  has such a pair, and `order_stock` has no order with two stockable lines of an item.
* Overlapping calls lose an update of a balance (`inventory-service.ts:235`;
  `docs/modules/inventory/design.md:100`): `inventory_overlap` states what survives,
  `order_stock` that the balance is right without overlap.
* Cancelling a draft publishes the event that releases stock (`orders-service.ts:687`;
  ADR-0007:52, :119 "No Inventory effect"): left out of `order_stock` as above.

* `fulfillLines` accepts an empty list of lines (`orders-service.ts:595`): the order
  becomes partially fulfilled, and the list of its event, being empty, makes Inventory
  issue every line in full (`inventory-service.ts:169`), where ADR-0007:150 says "Issue
  exactly the fulfilled quantity". No request of the runs is empty, and the
  theorems that it would break exclude it.

Reporting:

* Every journal event of a capture adds the captured amount to the revenue (`kpis.ts:44`): a
  journal posted twice, and a journal that is reversed, since `journal.reversed` carries
  the source of the original (`ledger-service.ts:364`) and becomes a fact of its own
  (`reporting-service.ts:363`). So a reversal doubles the revenue instead of taking it back,
  while `docs/adr/0005-financial-truth-and-projection-ownership.md:101` leaves such
  outcomes to the Ledger. No sentence says what a reversal does to the revenue, so no run
  expects a violation: `RevenueFollowsJournals` bounds the revenue by the journal *events*
  on file, and the stream of its run has a journal that is posted and reversed.
* A journal event that comes before its capture is filed with amount 0, and so is one that
  comes after a later event of the payment (`getPaymentFactBySourceEvent` knows the last event
  only). The lower bound of `RevenueFollowsJournals` speaks of the others.

Identity:

* `lockUser` and a lockout revoke no session; `docs/modules/identity/design.md:119` names
  lockout among the reasons to. `ActiveSessionsAreCurrent` speaks of status and password.
* `resetPassword` lifts a lock without the event `unlockUser` publishes, and
  `verifyEmail` makes a suspended user active. `StandingIsAnnounced` holds nevertheless:
  the second is announced, the first is no status.

Tenancy and Rbac:

* `suspendMembership` accepts the owner; `docs/modules/tenancy/design.md:128` says the
  owner "must always retain an `active` membership". `OrganizationsAreOwned` says active
  or suspended.
* `addMembership` does not look at the status of the organization; design.md:108 says an
  archived one "cannot accept new memberships". Nor are assignments revoked with a
  membership (design.md:192): `authorize` asks for the membership instead.
* An assignment saved past another takes its place in the index of scopes, and
  `revokeRole` then does not find the other. The entry of that scope has raced: the last
  part of `GrantsHold` is about entries that have not.
* Two `seedCoreCatalog` calls at once create two administrator templates.

Parties:

* Two overlapping merges can merge each party into the other
  (`parties-service.ts:876`), though `docs/modules/parties/design.md:133` says "Surviving
  party exists": `MergesEnd` is about saves that have not raced.
* A party may be created with several primary channels of one type, and an email may
  be primary for several parties (design.md:122).

### Bounds

`MaxMutations`, `MaxReplays`, `MaxLines`, `MaxEvents`, `MaxCalls`, `MaxDelivered` and
`MaxPasswords` bound counters that have no bound in the code; each is a guard of the
action that counts. `MaxAttempts`, `BatchLimit` and `MaxFailedLogins` are parameters of
the code. Sets of ids are finite: an operation that draws one waits for a fresh one. An
event may be delivered again for ever. Runs whose system may really stop (units
settled, rows resolved, calls or ids used up) switch the check for deadlock off; the
inventory runs check it, since an event can always be delivered again.

Symmetry is used for calls, and for ids that no constant names; no run with a liveness
property uses it.

### Fairness

Only `FairRelaySpec` and `Outbox` assume fairness: the host calls `processBatch`
again and again and the promises of a call that has begun are run by the event loop
(weak fairness of `RelayStep`), and so are those of a begun `commit()`. Nothing is
assumed of callers, handlers or replays. The attempts limit is what makes this enough:
a handler that always fails still leads to quarantine. The services promise nothing
that must eventually happen beyond what the outbox promises for them.

## 4. The proofs

TLAPS proves the theorems below for every value of the constants, from the named
assumption each module makes about its constants and nothing else, unless a hypothesis is
mentioned. The properties are not inductive as they stand; what each invariant adds is
said with it.

**`OutboxProofs`** (`UowAssumption`, `RelayAssumption`).

* `UowTypeCorrect`, `RowsFollowMutationsAlways`, `OutcomeIsTruthfulAlways`,
  `TornOnlyThroughGapsAlways`, `RowsKeepOwnerAlways`. That rows are complete when they
  appear depends on the stage of `commit()`: `UowInv` ties `pending`, `unchecked`,
  `applied` and `planned` to the stage of each unit, separately for units that were
  rolled back.
* `RelayTypeCorrect`, `PublishedReachedEveryoneAlways`, and `RelayImplementsAtLeastOnce`, the
  refinement of the safety part of `AtLeastOnce`, with a lemma for each kind of step.
  `RelayInv` says that a worker at its n-th consumer has seen an effect at every consumer
  before, that a processed key implies an effect, and that a worker about to publish has
  archived; it speaks about every worker at once because any other worker may publish the
  same row.
* `EffectsBoundedByOverlapAlways`: an event has at most one effect at a consumer for each
  worker. `OverlapInv` counts workers: until the event is marked, every effect is one of a
  worker about to mark it; from then on only those that had looked it up before add one.
* `HandlerOncePerEventAlways` and `ResolvedIsFinalAlways`, under the hypothesis `Serial`, that
  no two batches overlap and replays are of published rows: what `relay_serial` checks
  for one relay and two consumers. `SerialInv`: the rows of the relay's batch are still
  unpublished, replays find every mark and call nobody, and an effect without a mark is
  one the relay is about to mark.
* `OutboxImplementsItsParts`: every step of the composition is a step or a stutter of the
  unit of work and of the relay, so that the theorems of both hold of `Outbox`. With
  them, `EffectsFollowMutationsAlways`: an effect is of a row (the relay), a row is of a
  unit that has applied all its mutations (the unit of work).

**`SumTheorems`** is what the proofs about amounts rest on. The properties that add up, and
the models where the code does, use `MapThenSumSet`, a fold that takes the elements of a
set in an order nobody knows. The module proves that the sum exists, that it does not
depend on that order (`SumStep`), that it is linear and monotone, what it does when a term
changes, and that two sums in a row may change places. Where one would use induction it
takes the least number (`LeastNumber`) or a smallest set (`LeastSubset`) that is a
counterexample.

**`InventoryProofs`** (`InventoryAssumption`).

* `InventoryTypeCorrect` and `AvailableNeverNegativeAlways`. What is read may be out of
  date, so the invariant bounds every balance in flight: each committed, each read and
  each staged balance has `reserved <= onHand`. Each save writes a balance that is right
  in itself, which is why lost updates cannot make availability negative though they make
  the balance wrong.
* `ConsumedIsRecordedAlways`. The property speaks of the moments at which no call runs.
  `EventInv` says what is true meanwhile: each action of the event a call is busy with
  is on file, among the callbacks the call has staged, or among those it has yet to look at.
* `DuplicatesBoundedByOverlapAlways`, under `SkusApart`, that no event and no stock request
  asks twice for one item (see the disagreements). `CopiesInv`: a movement is not on file at all, or the
  copies on file and the calls that have it staged are together no more than the calls.
  A call stages a movement only when it has found none, which is why the first copy ends
  the growth.
* `BalanceFollowsMovementsAlways` and `OncePerKeyAlways`, under `SkusApart` and `OneCallOnly`, that
  calls do not overlap: with overlap an update of a balance is lost and both are false, as
  the disagreements say. `BalanceInv` is about the middle of an event: the balances on
  file are what the movements add up to, after the callbacks that the call has staged but
  not yet run. A refusal before the commit drops them all.

**`OrdersProofs`** (`OrdersAssumption`, `StockAssumption`) is about `Orders` and `OrderStock`.

* `OrdersTypeCorrect`, `OrdersAreConsistentAlways` and `FirmOrdersAreAnnouncedAlways`, for any
  overlap. A save replaces the whole order, so the invariant is about each staged order
  by itself: it makes sense, and if it is firm, its event is staged with it. That
  filling an order by any sequence of requests never exceeds what was ordered needs a
  number without a counterexample below it, in place of induction.
* `LifecycleInOrderAlways`, under the hypothesis `Serial`, that there is one client, as in the run
  `order_stock`. `StepsInv` says which rows an order of each status may have, and that
  what a call has staged continues them.
* `PartsAddUpAlways`, under `Serial`: the rows on file together with those a call has still to
  insert report what is on file, or saved.
* `StockOncePerKey` and `StockBalanceFollowsMovements`. Every step of `OrderStock` is a step or
  a stutter of an Inventory that is served arbitrary events (`FollowsOrders` and the
  lemmas before it), so the invariants of `InventoryProofs` hold of it, for one delivery at
  a time (`OneHandler`), if no request names a line twice and no order ever has two lines
  for one item (`RequestsNameOnce`, `[]OrdersApart`). `RowsInv` carries the last two over to
  the rows.
* `StockMatchesOrdersAlways` and `IssueWithinFulfilmentAlways`, under the same hypotheses and
  `Serial`. Three invariants meet: the rows tell what each order holds and has shipped of
  each item (`TrackInv`); the movements on file are movements the rows ask for, and every
  one a consumed row asks for (`MovesInv`), each once; and the balances are what the
  movements add up to. The sum over movements is then a sum over rows, and that a sum
  over orders. `"completeOrder" \notin UseCases` and `<<>> \notin FulfilRequests` exclude the two
  ways to have Inventory issue more than was fulfilled, `"discardOrder" \notin UseCases` the
  release for a draft; all three are disagreements named above, the first the run that
  expects a violation.

**`ServiceCallsProofs`** proves what the proofs about the services share: how a call that has
read on remembers what it has seen, that a save outside `raced` was made on what is on file,
what a step leaves alone.

**`FinanceSuppliersProofs`** is about `Finance` and about `Suppliers`, which share only the
form of their calls.

Finance (`PaymentsAssumption`, `LedgerAssumption`, `FinanceAssumption`), for any payments,
refunds, journals, overlapping calls and redeliveries:

* `PaymentEventsAddUpAlways`. `PaymentInv` compares the log with the record on file in four
  terms: captured, closed (captured or voided), refunded, and cash. What the log says of a payment,
  and what calls that have saved it are still to publish, adds up to what the record is
  worth, unless the payment has raced. A save moves the record and the news together, a
  publication moves the news to the log.
* `BooksFollowPaymentsAlways`. A journal posted from an event has the lines of that event and
  is found under its source unless two postings raced, and ids are drawn once
  (`DrawsInv`), so the sum over the journals of a payment is a sum over its events,
  whose cash `PaymentInv` knows.
* `ReversedIsCancelledAlways`. `reverseJournal` saves the reversal before it saves the
  original, and any call may run in between: a reversal of a journal that has not raced
  is complete, or a call is half way (`ReversalOK`). That a reversed line takes back what
  the line moved, account by account, is a sum of negated terms.

Suppliers (`PartiesAssumption`, `CatalogAssumption`, and `SuppliersAssumption`: the keys of
different repositories differ, there are finitely many parties, and an opening is a
state that calls which never overlapped can leave), for any parties, items and
overlapping calls. `SuppliersInv` has the form of each running call: what it is about to
save of a party, a relationship or an item follows from what it saw, or the key has raced.

* `OneOfEachAlways`. `Unique` is about the records that have not raced; a relationship is told
  from another by its two parties and its type. Such a save follows a
  query that found no other record of the kind, on what is still on file, or keeps
  what made the record unique. That the codes of the variants of an item differ needs
  no exception: a save replaces the item with all its variants.
* `OffersAreAnnouncedAlways`. A save and its event are two steps: the last status or price
  told is the one on file, *or* a call that has saved it is still to tell it (`ToTell`),
  *or* the item or the price has raced (`StatusTold`, `PricesTold`).
* `MergesEndAlways`. A survivor may be merged itself later, so chains have any length. The
  invariant is that the parties have an order in which every merged party comes before
  the one it was merged into (`MergesInOrder`). A merge moves the survivor up past the
  absorbed, which disturbs nothing, for the survivor was not merged. As places only grow
  along a chain, it comes to no party twice, so after as many steps as there are
  parties it has met one that is not merged.

**`EventConsumersProofs`** (`ReportingAssumption`, `AuditAssumption`, `EventConsumersAssumption`):
`ReportCountsCommittedOrdersAlways`, `BalanceCountsMovementsAlways`,
`RevenueFollowsJournalsAlways`, `AuditTrailIsExactAlways`. `ConsumersInv` has the form of each
running call (which reads it has done, which writes are left), that facts on file agree with
the stream, and for each of the four properties the part of the work already done. For the
orders that is said in both directions: what a call has saved or is still to mark says which
commitments there are. For the revenue it bounds each fact on file or staged by
the capture behind it, from below if the journal is timely and nothing else of its payment
was delivered; the sums then follow from `SumTheorems`. `ReportingAssumption` says that payments
are of positive amounts, that the journal of a capture is posted from a payment event of
the stream, and that no answer is a number where there is no record.

**`IdentityAccessProofs`** is about `Identity` and about `Access`, which share only their form.

* Identity (`IdentityAssumption`): `IdentitiesAreUniqueAlways`,
  `ActiveSessionsAreCurrentAlways`, `StandingIsAnnouncedAlways`. A session is current, *or* a call
  that has saved its user is still to save it as revoked, or the session or its user has
  raced; and the standing on file has been told, or is told by a call about to publish it.
* Access (`TenancyAssumption`, `RbacAssumption`, `AccessAssumption`: the openings are
  states in which the repositories agree with each other): `AnswersAgreeAlways`,
  `OrganizationsAreOwnedAlways`, `GrantsHoldAlways`, and the action property `SettledOnceAlways`.
  `AccessInv` has the form of each running call, the type of each repository, drafts, slugs,
  owners, places of assignments, the index of scopes and deleted roles. Each of these
  parts is about a record and its neighbours, "or has raced", "or a call is about to
  save what makes it true". `MovesKeep` disposes of the steps that save nothing, `SavesKeep` of
  the saves of all operations but two, `AssignmentSavesKeep` of those that save assignments
  and the index.

The type invariants `UowTypeOK`, `RelayTypeOK`, `InventoryTypeOK` and `OrdersTypeOK` are proved
and therefore in no run.

Only model-checked is liveness, which is out of the reach of the prover:
`EveryRowIsResolved`, `BegunCommitsAreDelivered`, and `KeepsPromise` with its fairness (its
safety part is proved). `IssueWithinFulfilment` is a theorem under the hypotheses named
above, and fails in the run `order_stock_issue` that is without them.

## 5. Plan

Every component with code and state is modelled, and every safety property of the runs is
a theorem. What is left is what the proofs exclude by a hypothesis: `SkusApart`, `OrdersApart`
and the use cases named under `StockMatchesOrders` stand for disagreements of section 3. If the
code comes to settle one, the hypothesis goes, and the theorem is to be proved
without it.
