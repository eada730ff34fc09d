---------------------------- MODULE OrderStock ----------------------------
(***************************************************************************)
(* Orders and Inventory joined by the outbox (ADR-0007): a stock event is  *)
(* any row of the log with a lifecycle type; its delivery calls            *)
(* consumeOrderEvent, at least once, in no particular order, and again     *)
(* after a refusal.                                                        *)
(***************************************************************************)
EXTENDS Orders

CONSTANTS
  Sku,
  Handler,        \* deliveries to Inventory that may overlap
  SkuOf,          \* catalogItemId of a line, by orderLineId
  Stockable,      \* orderLineIds of stockable items
  Opening         \* stock at the start

ASSUME OrderStockAssumption ==
  /\ MaxEvents > 0
  /\ SkuOf \in [Line -> Sku]
  /\ Stockable \subseteq Line
  /\ Opening \in [Sku -> Nat]

VARIABLES items, existing, movements, announced, handling, pending, consumed, requested

stockVars == <<items, existing, movements, announced, handling, pending, consumed, requested>>
vars == <<ordersVars, stockVars>>

Stock == INSTANCE Inventory WITH
           Call <- Handler, Event <- 1..MaxEvents, Request <- {},
           OrderEvent <- <<>>, StockRequest <- <<>>, call <- handling

Init == OrdersInit /\ Stock!InventoryInit

-----------------------------------------------------------------------------
(***************************************************************************)
(* resolveStockActions: what an event asks of the stock.                   *)
(***************************************************************************)
MovementFor(type) ==
  CASE type = "committed" -> "reserve"
    [] type = "cancelled" -> "release"
    [] OTHER              -> "issue"

\* The i-th of a set of numbers, from the smallest on.
Nth(S, i) == CHOOSE n \in S : Cardinality({k \in S : k <= n}) = i

\* One action for each of a set of lines, in the order of the lines.
ActionsFor(lines, amount) ==
  [i \in 1..Cardinality(lines) |->
     [sku |-> SkuOf[Nth(lines, i)], quantity |-> amount[Nth(lines, i)]]]

\* One action for each part of a request that is for a stockable line.
PartActions(request, stockable) ==
  LET parts == {n \in DOMAIN request : request[n].line \in stockable}
  IN  [i \in 1..Cardinality(parts) |->
         [sku |-> SkuOf[request[Nth(parts, i)].line], quantity |-> request[Nth(parts, i)].quantity]]

\* Mutant of StockActions: a cancellation releases what was ordered.
ReleaseWholeLines(event) ==
  LET stockable == Present(event) \intersect Stockable
      whole == [l \in stockable |-> event.lines[l].quantity]
  IN  CASE event.request # <<>> -> PartActions(event.request, stockable)
        [] OTHER -> ActionsFor(stockable, whole)

\* Mutant of StockActions: a part issues what was ordered.
IssueWholeLines(event) ==
  LET stockable == Present(event) \intersect Stockable
      left == [l \in stockable |-> Remaining(event, l)]
      whole == [l \in stockable |-> event.lines[l].quantity]
  IN  IF event.type = "cancelled"
        THEN ActionsFor({l \in stockable : left[l] > 0}, left)
        ELSE ActionsFor(stockable, whole)

StockActions(event) ==
  LET stockable == Present(event) \intersect Stockable
      left == [l \in stockable |-> Remaining(event, l)]
      whole == [l \in stockable |-> event.lines[l].quantity]
  IN  CASE event.type = "cancelled" -> ActionsFor({l \in stockable : left[l] > 0}, left)
        [] event.type # "cancelled" /\ event.request # <<>> ->
             PartActions(event.request, stockable)
        [] OTHER -> ActionsFor(stockable, whole)

\* The relay, or a replay, hands an event to Inventory.
DeliverToInventory(h, e) ==
  /\ log[e].type \in Lifecycle
  /\ Stock!ConsumeOrderEvent(h, e, MovementFor(log[e].type), StockActions(log[e]))

Next ==
  \/ OrdersNext /\ UNCHANGED stockVars
  \/ /\ \E h \in Handler :
          \/ \E e \in DOMAIN log : DeliverToInventory(h, e)
          \/ Stock!CallStep(h)
     /\ UNCHANGED ordersVars

Spec == Init /\ [][Next]_vars
-----------------------------------------------------------------------------
(***************************************************************************)
(* Properties.                                                             *)
(***************************************************************************)
LinesOf(s) == {l \in Stockable : SkuOf[l] = s}

Ordered(s, Amount(_, _)) ==
  MapThenSumSet(LAMBDA p : Amount(p[1], p[2]), Order \X LinesOf(s))

Held(o, l) ==
  IF orders[o].status \in {"committed", "partially_fulfilled"}
    THEN Remaining(orders[o], l) ELSE 0

Shipped(o, l) == orders[o].lines[l].fulfilled

Settled ==
  /\ OrdersAtRest /\ Stock!AtRest
  /\ \A e \in DOMAIN log : log[e].type \in Lifecycle => e \in consumed

\* Once every event has been consumed, in whatever order and however often, the
\* reserved quantity is what open orders still wait for, and what has left the
\* shelf is what orders count as fulfilled.
StockMatchesOrders ==
  Settled => \A s \in Sku :
    /\ items[s].reserved = Ordered(s, Held)
    /\ items[s].onHand = Opening[s] - Ordered(s, Shipped)

\* modules/inventory/README.md:48, of the events Orders publishes: redelivered and
\* refused half way, no movement of theirs is recorded twice.
OncePerKey == Stock!OncePerKey

\* docs/modules/inventory/design.md:100: an event refused at its second line has moved
\* neither stock nor history, and every other one has moved both.
BalanceFollowsMovements == Stock!BalanceFollowsMovements

Issued(o, s) ==
  MapThenSumSet(LAMBDA m : m.quantity * movements[m],
    {m \in DOMAIN movements : m.type = "issue" /\ m.sku = s /\ log[m.source].order = o})

\* docs/adr/0007:150, "Issue exactly the fulfilled quantity for stockable lines":
\* the goods issued for an order never exceed what it counts as fulfilled.
IssueWithinFulfilment ==
  \A o \in Order, s \in Sku :
    Issued(o, s) <= MapThenSumSet(LAMBDA l : Shipped(o, l), LinesOf(s))
=============================================================================
