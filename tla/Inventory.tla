----------------------------- MODULE Inventory -----------------------------
(***************************************************************************)
(* InventoryService: consumeOrderEvent, receiveStock and adjustStock run   *)
(* applyMovement once per stock action and commit one unit of work.        *)
(*                                                                         *)
(* Calls overlap at their awaits. Every read is of committed state, every  *)
(* write is staged in the unit of work: an item is read, changed and saved *)
(* whole, a movement is appended under a key that is looked up, not locked.*)
(***************************************************************************)
EXTENDS Integers, Sequences, FiniteSetsExt, Bags

CONSTANTS
  Sku,            \* catalogItemIds of stockable goods
  Call,           \* calls of the service that may overlap
  Event,          \* eventIds of consumed order events
  Request,        \* ids drawn by receiveStock and adjustStock
  OrderEvent,     \* the consumed events: [type, actions], by eventId
  StockRequest,   \* what receiveStock and adjustStock are asked: [type, actions]
  Opening         \* on-hand quantity of the skus that have an item at the start

Source == Event \union Request

OrderMovement == {"reserve", "release", "issue"}
MovementType == OrderMovement \union {"receipt", "adjustment"}

Action == [sku : Sku, quantity : Int]
Work(types) == [type : types, actions : Seq(Action)]

ASSUME InventoryAssumption ==
  /\ Source # {} /\ Event \intersect Request = {}
  /\ \E S \in SUBSET Event : OrderEvent \in [S -> Work(OrderMovement)]
  /\ StockRequest \in [Request -> Work({"receipt", "adjustment"})]
  /\ \E S \in SUBSET Sku : Opening \in [S -> Nat]

VARIABLES
  items,        \* InventoryItemRepository: balance by sku
  existing,     \* skus that have an item
  movements,    \* MovementRepository: bag of movements
  announced,    \* the outbox: bag of movements published as inventory.stock.*
  call,         \* the running calls
  pending,      \* the movements their units of work are to publish
  consumed,     \* history: sources a call has processed to the end
  requested     \* stock requests made

stores == <<items, existing, movements, announced>>
inventoryVars == <<items, existing, movements, announced, call, pending, consumed,
                    requested>>

Balance == [onHand : Nat, reserved : Nat]
Zero == [onHand |-> 0, reserved |-> 0]

Movement == [source : Source, type : MovementType, sku : Sku, quantity : Int]

\* Staged callbacks: an item is written whole, a movement is added.
Mutation ==
  [store : {"items"}, sku : Sku, value : Balance] \union
  [store : {"movements"}, value : Movement]

Place == {"idle", "find", "ensure", "apply", "append", "commit"}

CallState ==
  [at : Place, source : Source, type : MovementType, todo : Seq(Action),
   read : Balance, staged : Seq(Mutation)]

Fresh ==
  [at |-> "idle", source |-> CHOOSE s \in Source : TRUE, type |-> "reserve",
   todo |-> <<>>, read |-> Zero, staged |-> <<>>]

IsHistory(bag) == IsABag(bag) /\ BagToSet(bag) \subseteq Movement

InventoryTypeOK ==
  /\ items \in [Sku -> Balance]
  /\ existing \subseteq Sku
  /\ IsHistory(movements)
  /\ IsHistory(announced)
  /\ call \in [Call -> CallState]
  /\ \A c \in Call : IsHistory(pending[c])
  /\ consumed \subseteq Source
  /\ requested \subseteq Request

InventoryInit ==
  /\ items = [s \in Sku |-> [onHand |-> IF s \in DOMAIN Opening THEN Opening[s] ELSE 0,
                             reserved |-> 0]]
  /\ existing = DOMAIN Opening
  /\ movements = EmptyBag
  /\ announced = EmptyBag
  /\ call = [c \in Call |-> Fresh]
  /\ pending = [c \in Call |-> EmptyBag]
  /\ consumed = {}
  /\ requested = {}

-----------------------------------------------------------------------------
(***************************************************************************)
(* inventory-item.ts: what a movement asks of a balance and does to it.    *)
(***************************************************************************)
Available(balance) == balance.onHand - balance.reserved

\* Mutant of Allowed: what is reserved already is not taken off.
AllowedOnHand(balance, type, q) ==
  \/ type = "reserve" /\ q > 0 /\ balance.onHand >= q
  \/ type = "release" /\ q > 0 /\ balance.reserved >= q
  \/ type = "issue" /\ q > 0 /\ balance.reserved >= q /\ balance.onHand >= q
  \/ type = "receipt" /\ q > 0
  \/ type = "adjustment" /\ q # 0 /\ balance.onHand + q >= balance.reserved

Allowed(balance, type, q) ==
  \/ type = "reserve" /\ q > 0 /\ Available(balance) >= q
  \/ type = "release" /\ q > 0 /\ balance.reserved >= q
  \/ type = "issue" /\ q > 0 /\ balance.reserved >= q /\ balance.onHand >= q
  \/ type = "receipt" /\ q > 0
  \/ type = "adjustment" /\ q # 0 /\ balance.onHand + q >= balance.reserved
                         /\ balance.onHand + q >= 0

\* By how much a movement changes each side of the balance.
OnHandChange(type, q) ==
  CASE type \in {"receipt", "adjustment"} -> q
    [] type = "issue"                     -> -q
    [] OTHER                              -> 0

ReservedChange(type, q) ==
  CASE type = "reserve"              -> q
    [] type \in {"release", "issue"} -> -q
    [] OTHER                         -> 0

\* Mutant of Moved: issuing ends the reservation but leaves the goods on hand.
MovedReservedOnly(balance, type, q) ==
  [onHand   |-> balance.onHand + (IF type = "issue" THEN 0 ELSE OnHandChange(type, q)),
   reserved |-> balance.reserved + ReservedChange(type, q)]

Moved(balance, type, q) ==
  [onHand   |-> balance.onHand + OnHandChange(type, q),
   reserved |-> balance.reserved + ReservedChange(type, q)]

-----------------------------------------------------------------------------
At(c, place) == call[c].at = place

ActionOf(c) == Head(call[c].todo)

MovementOf(c) ==
  [source |-> call[c].source, type |-> call[c].type,
   sku |-> ActionOf(c).sku, quantity |-> ActionOf(c).quantity]

\* idempotencyKey leaves the quantity out.
SameKey(m, n) == m.source = n.source /\ m.sku = n.sku /\ m.type = n.type

\* Mutant of Recorded: the key also holds the time, and is never found again.
NeverRecorded(m) == FALSE

Recorded(m) == \E n \in BagToSet(movements) : SameKey(m, n)

Begin(c, source, type, actions) ==
  /\ At(c, "idle")
  /\ call' = [call EXCEPT ![c] = [Fresh EXCEPT !.at = "find", !.source = source,
                                               !.type = type, !.todo = actions]]
  /\ UNCHANGED <<stores, pending, consumed>>

\* consumeOrderEvent, past its authorisation; the same event may come again.
ConsumeOrderEvent(c, e, type, actions) ==
  /\ Begin(c, e, type, actions)
  /\ UNCHANGED requested

ReceiveStock(c, r) ==
  /\ r \notin requested /\ StockRequest[r].type = "receipt"
  /\ Begin(c, r, "receipt", StockRequest[r].actions)
  /\ requested' = requested \union {r}

\* adjustStock wants the item to exist before it starts.
AdjustStock(c, r) ==
  /\ r \notin requested /\ StockRequest[r].type = "adjustment"
  /\ StockRequest[r].actions[1].sku \in existing
  /\ Begin(c, r, "adjustment", StockRequest[r].actions)
  /\ requested' = requested \union {r}

\* Mutant of FindMovement: a known key ends the whole event, not only its action.
FindMovementEndsEvent(c) ==
  /\ At(c, "find") /\ call[c].todo # <<>>
  /\ IF Recorded(MovementOf(c))
       THEN call' = [call EXCEPT ![c].todo = <<>>]
       ELSE call' = [call EXCEPT ![c].at = "ensure"]
  /\ UNCHANGED <<stores, pending, consumed, requested>>

\* applyMovement returns early when the key is known.
FindMovement(c) ==
  /\ At(c, "find") /\ call[c].todo # <<>>
  /\ IF Recorded(MovementOf(c))
       THEN call' = [call EXCEPT ![c].todo = Tail(@)]
       ELSE call' = [call EXCEPT ![c].at = "ensure"]
  /\ UNCHANGED <<stores, pending, consumed, requested>>

\* ensureItem: the committed balance, or a zero item staged for a new sku.
EnsureItem(c) ==
  LET s == ActionOf(c).sku
      zero == [store |-> "items", sku |-> s, value |-> Zero]
  IN  /\ At(c, "ensure")
      /\ call' = [call EXCEPT
           ![c].at = "apply",
           ![c].read = IF s \in existing THEN items[s] ELSE Zero,
           ![c].staged = IF s \in existing THEN @ ELSE Append(@, zero)]
      /\ UNCHANGED <<stores, pending, consumed, requested>>

ApplyAndSave(c) ==
  LET a == ActionOf(c)
      save == [store |-> "items", sku |-> a.sku,
               value |-> Moved(call[c].read, call[c].type, a.quantity)]
  IN  /\ At(c, "apply")
      /\ Allowed(call[c].read, call[c].type, a.quantity)
      /\ call' = [call EXCEPT ![c].at = "append", ![c].staged = Append(@, save)]
      /\ UNCHANGED <<stores, pending, consumed, requested>>

\* InsufficientStockError: the call throws and its unit of work is dropped.
Refuse(c) ==
  /\ At(c, "apply")
  /\ ~ Allowed(call[c].read, call[c].type, ActionOf(c).quantity)
  /\ call' = [call EXCEPT ![c] = Fresh]
  /\ pending' = [pending EXCEPT ![c] = EmptyBag]
  /\ UNCHANGED <<stores, consumed, requested>>

\* append passes over a key that has been recorded meanwhile, but the saved item
\* stays staged and the event is published all the same.
AppendAndPublish(c) ==
  LET m == MovementOf(c)
      add == [store |-> "movements", value |-> m]
  IN  /\ At(c, "append")
      /\ call' = [call EXCEPT
           ![c].at = "find",
           ![c].staged = IF Recorded(m) THEN @ ELSE Append(@, add),
           ![c].todo = Tail(@)]
      /\ pending' = [pending EXCEPT ![c] = @ (+) SetToBag({m})]
      /\ UNCHANGED <<stores, consumed, requested>>

StartCommit(c) ==
  /\ At(c, "find") /\ call[c].todo = <<>>
  /\ call' = [call EXCEPT ![c].at = "commit"]
  /\ UNCHANGED <<stores, pending, consumed, requested>>

\* commit runs the staged callbacks one await at a time.
CommitMutation(c) ==
  LET m == Head(call[c].staged)
  IN  /\ At(c, "commit") /\ call[c].staged # <<>>
      /\ IF m.store = "items"
           THEN /\ items' = [items EXCEPT ![m.sku] = m.value]
                /\ existing' = existing \union {m.sku}
                /\ UNCHANGED movements
           ELSE /\ movements' = movements (+) SetToBag({m.value})
                /\ UNCHANGED <<items, existing>>
      /\ call' = [call EXCEPT ![c].staged = Tail(@)]
      /\ UNCHANGED <<announced, pending, consumed, requested>>

\* The fresh eventIds never collide: the rows go in and the call returns.
InsertRows(c) ==
  /\ At(c, "commit") /\ call[c].staged = <<>>
  /\ announced' = announced (+) pending[c]
  /\ pending' = [pending EXCEPT ![c] = EmptyBag]
  /\ consumed' = consumed \union {call[c].source}
  /\ call' = [call EXCEPT ![c] = Fresh]
  /\ UNCHANGED <<items, existing, movements, requested>>

CallStep(c) ==
  \/ FindMovement(c)
  \/ EnsureItem(c)
  \/ ApplyAndSave(c)
  \/ Refuse(c)
  \/ AppendAndPublish(c)
  \/ StartCommit(c)
  \/ CommitMutation(c)
  \/ InsertRows(c)

StockRequestStep(c) == \E r \in Request : ReceiveStock(c, r) \/ AdjustStock(c, r)

InventoryNext ==
  \E c \in Call :
    \/ \E e \in DOMAIN OrderEvent :
         ConsumeOrderEvent(c, e, OrderEvent[e].type, OrderEvent[e].actions)
    \/ StockRequestStep(c)
    \/ CallStep(c)

InventorySpec == InventoryInit /\ [][InventoryNext]_inventoryVars
-----------------------------------------------------------------------------
(***************************************************************************)
(* Properties.                                                             *)
(***************************************************************************)
AtRest == \A c \in Call : At(c, "idle")

Total(s, Change(_, _)) ==
  MapThenSumSet(LAMBDA m : movements[m] * Change(m.type, m.quantity),
                {m \in BagToSet(movements) : m.sku = s})

Copies(m) ==
  MapThenSumSet(LAMBDA n : movements[n],
                {n \in BagToSet(movements) : SameKey(m, n)})

\* modules/inventory/README.md:52 and docs/modules/inventory/design.md:132: the
\* available stock is never negative, whichever calls overlap and whatever they
\* overwrite of one another.
AvailableNeverNegative == \A s \in Sku : Available(items[s]) >= 0

\* Once a call has processed an event every one of its actions is in the movement
\* history, also those a concurrent or an earlier delivery was to record.
ConsumedIsRecorded ==
  \A e \in consumed \intersect DOMAIN OrderEvent :
    \A i \in DOMAIN OrderEvent[e].actions :
      Recorded([source |-> e, type |-> OrderEvent[e].type,
                sku |-> OrderEvent[e].actions[i].sku])

\* Redelivery after redelivery multiplies a movement by no more than the number of
\* calls that run at the same time.
DuplicatesBoundedByOverlap ==
  \A m \in BagToSet(movements) : Copies(m) <= Cardinality(Call)

\* modules/inventory/README.md:48, "Event-driven movements dedupe on organizationId
\* + sourceEventId + sku + movementType": no key is recorded twice.
OncePerKey == \A m \in BagToSet(movements) : Copies(m) = 1

\* docs/modules/inventory/design.md:100, each movement "applies qty changes to
\* StockItem(s) in one transaction": whenever no call is running the balances are
\* what the movements add up to.
BalanceFollowsMovements ==
  AtRest => \A s \in Sku :
    /\ items[s].reserved = Total(s, ReservedChange)
    /\ items[s].onHand = Total(s, OnHandChange)
                           + (IF s \in DOMAIN Opening THEN Opening[s] ELSE 0)
=============================================================================
