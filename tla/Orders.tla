------------------------------- MODULE Orders -------------------------------
(***************************************************************************)
(* OrdersService: every operation reads the whole order, decides on what   *)
(* it has read, and commits a unit of work that saves the whole order and  *)
(* publishes its events. Operations of several clients overlap at their    *)
(* awaits; nothing checks that an order is still what was read.            *)
(*                                                                         *)
(* Prices, totals and the customer are left out: they follow from the      *)
(* catalog and the parties, and decide only whether a call is refused.     *)
(***************************************************************************)
EXTENDS Naturals, Sequences, FiniteSetsExt

CONSTANTS
  Order,          \* orderIds
  Client,         \* calls of the service that may overlap
  MaxLines,       \* bound: orderLineIds drawn in a behaviour
  MaxEvents,      \* bound: rows the service inserts into the outbox
  Quantities,     \* quantities clients ask for
  FulfilRequests, \* values of fulfillLines' input.lines, sequences of [line, quantity]
  UseCases,       \* what clients do, see UseCase
  Drafts          \* lines of the orders that are drafts at the start

Line == 1..MaxLines

UseCase == {"createOrder", "addLine", "updateLineQuantity", "removeLine",
            "commitOrder", "fulfillLines", "fulfillOrder", "cancelOrder",
            "completeOrder",   \* fulfillOrder of a partially fulfilled order
            "discardOrder"}    \* cancelOrder of a draft

Fulfilment == [line : Line, quantity : Nat \ {0}]

ASSUME OrdersAssumption ==
  /\ Order # {}
  /\ MaxLines \in Nat /\ MaxEvents \in Nat
  /\ Quantities \subseteq Nat \ {0}
  /\ FulfilRequests \subseteq Seq(Fulfilment)
  /\ UseCases \subseteq UseCase
  /\ \E S \in SUBSET Order : Drafts \in [S -> [Line -> Nat]]

VARIABLES
  orders,       \* OrderRepository, status "none" for an order not created yet
  lineCount,    \* orderLineIds drawn
  running,      \* the clients' calls: what they are about to save and publish
  log           \* the outbox rows, in the order of their insertion

ordersVars == <<orders, lineCount, running, log>>

Status == {"none", "draft", "committed", "partially_fulfilled", "fulfilled", "cancelled"}

\* A line is absent when its quantity is 0.
Lines == [Line -> [quantity : Nat, fulfilled : Nat]]
OrderState == [status : Status, lines : Lines]

Lifecycle == {"committed", "partially_fulfilled", "fulfilled", "cancelled"}
EventType == Lifecycle \union
  {"created", "updated", "line_added", "line_removed", "pricing_finalized"}

Event == [type : EventType, order : Order, lines : Lines, request : Seq(Fulfilment)]

CallState ==
  [at : {"idle", "save", "insert"}, op : UseCase, order : Order,
   next : OrderState, events : Seq(Event)]

NoLines == [l \in Line |-> [quantity |-> 0, fulfilled |-> 0]]
NoOrder == [status |-> "none", lines |-> NoLines]

DraftOf(quantity) ==
  [status |-> "draft",
   lines |-> [l \in Line |-> [quantity |-> quantity[l], fulfilled |-> 0]]]

Fresh ==
  [at |-> "idle", op |-> "createOrder", order |-> CHOOSE o \in Order : TRUE,
   next |-> NoOrder, events |-> <<>>]

OrdersTypeOK ==
  /\ orders \in [Order -> OrderState]
  /\ lineCount \in 0..MaxLines
  /\ running \in [Client -> CallState]
  /\ log \in Seq(Event)

OrdersInit ==
  /\ orders = [o \in Order |-> IF o \in DOMAIN Drafts THEN DraftOf(Drafts[o]) ELSE NoOrder]
  /\ lineCount = Cardinality({l \in Line : \E o \in DOMAIN Drafts : Drafts[o][l] > 0})
  /\ running = [c \in Client |-> Fresh]
  /\ log = <<>>

-----------------------------------------------------------------------------
Present(order) == {l \in Line : order.lines[l].quantity > 0}

Remaining(order, l) == order.lines[l].quantity - order.lines[l].fulfilled

AllDone(order) == \A l \in Present(order) : order.lines[l].fulfilled >= order.lines[l].quantity

CanTransition(from, to) ==
  \/ from = "draft" /\ to \in {"committed", "cancelled"}
  \/ from = "committed" /\ to \in {"partially_fulfilled", "fulfilled", "cancelled"}
  \/ from = "partially_fulfilled" /\ to \in {"fulfilled", "cancelled"}

\* What a fulfillLines request asks for of a line, which it may name repeatedly.
Asked(request, l) ==
  LET sum[n \in 0..Len(request)] ==
        IF n = 0 THEN 0
        ELSE sum[n - 1] + (IF request[n].line = l THEN request[n].quantity ELSE 0)
  IN  sum[Len(request)]

\* Mutant of Fulfilled: a part replaces what has been fulfilled before.
FulfilledAnew(order, request) ==
  [order EXCEPT !.lines = [l \in Line |->
     [order.lines[l] EXCEPT !.fulfilled =
        IF Asked(request, l) > 0 THEN Asked(request, l) ELSE @]]]

Fulfilled(order, request) ==
  [order EXCEPT !.lines = [l \in Line |->
     [order.lines[l] EXCEPT !.fulfilled = @ + Asked(request, l)]]]

\* Rows inserted and about to be.
Rows == Len(log) + MapThenSumSet(LAMBDA c : Len(running[c].events), Client)

-----------------------------------------------------------------------------
(***************************************************************************)
(* A call reads the order, checks it and stages its save and its events;   *)
(* it has the checks of the catalog and the lookups of the commit before   *)
(* it when it saves, and one more await before its rows are inserted.      *)
(***************************************************************************)
Stage(c, op, o, next, types, request) ==
  /\ op \in UseCases
  /\ running[c].at = "idle"
  /\ Rows + Len(types) <= MaxEvents
  /\ running' = [running EXCEPT ![c] =
       [at |-> "save", op |-> op, order |-> o, next |-> next,
        events |-> [i \in DOMAIN types |->
          [type |-> types[i], order |-> o, lines |-> next.lines, request |-> request]]]]
  /\ UNCHANGED <<orders, log>>

\* The orderId is a fresh one.
CreateOrder(c, o) ==
  /\ orders[o].status = "none"
  /\ \A d \in Client : running[d].at # "idle" => running[d].order # o
  /\ Stage(c, "createOrder", o, [NoOrder EXCEPT !.status = "draft"], <<"created">>, <<>>)
  /\ UNCHANGED lineCount

AddLine(c, o, q) ==
  LET l == lineCount + 1
      next == [orders[o] EXCEPT !.lines[l] = [quantity |-> q, fulfilled |-> 0]]
  IN  /\ orders[o].status = "draft"
      /\ l \in Line
      /\ Stage(c, "addLine", o, next, <<"line_added", "updated">>, <<>>)
      /\ lineCount' = l

UpdateLineQuantity(c, o, l, q) ==
  /\ orders[o].status = "draft"
  /\ l \in Present(orders[o])
  /\ Stage(c, "updateLineQuantity", o, [orders[o] EXCEPT !.lines[l].quantity = q],
           <<"updated">>, <<>>)
  /\ UNCHANGED lineCount

RemoveLine(c, o, l) ==
  /\ orders[o].status = "draft"
  /\ l \in Present(orders[o])
  /\ Stage(c, "removeLine", o, [orders[o] EXCEPT !.lines[l] = NoLines[l]],
           <<"line_removed", "updated">>, <<>>)
  /\ UNCHANGED lineCount

\* Mutant of CommitOrder: it publishes the prices only.
CommitOrderSilently(c, o) ==
  /\ CanTransition(orders[o].status, "committed")
  /\ Present(orders[o]) # {}
  /\ Stage(c, "commitOrder", o, [orders[o] EXCEPT !.status = "committed"],
           <<"pricing_finalized">>, <<>>)
  /\ UNCHANGED lineCount

CommitOrder(c, o) ==
  /\ CanTransition(orders[o].status, "committed")
  /\ Present(orders[o]) # {}
  /\ Stage(c, "commitOrder", o, [orders[o] EXCEPT !.status = "committed"],
           <<"committed", "pricing_finalized">>, <<>>)
  /\ UNCHANGED lineCount

\* fulfillOrder does not say what it adds to what has been fulfilled before.
FulfillOrder(c, o) ==
  LET next == [status |-> "fulfilled",
               lines |-> [l \in Line |->
                 [orders[o].lines[l] EXCEPT !.fulfilled = orders[o].lines[l].quantity]]]
      op == IF orders[o].status = "committed" THEN "fulfillOrder" ELSE "completeOrder"
  IN  /\ orders[o].status \in {"committed", "partially_fulfilled"}
      /\ Stage(c, op, o, next, <<"fulfilled">>, <<>>)
      /\ UNCHANGED lineCount

\* Mutant of FulfillLines: the new status is decided on the order as it was.
FulfillLinesStale(c, o, request) ==
  LET to == IF AllDone(orders[o]) THEN "fulfilled" ELSE "partially_fulfilled"
  IN  /\ orders[o].status \in {"committed", "partially_fulfilled"}
      /\ \A i \in DOMAIN request :
           /\ request[i].line \in Present(orders[o])
           /\ Asked(request, request[i].line) <= Remaining(orders[o], request[i].line)
      /\ Stage(c, "fulfillLines", o, [Fulfilled(orders[o], request) EXCEPT !.status = to],
               <<to>>, request)
      /\ UNCHANGED lineCount

FulfillLines(c, o, request) ==
  LET filled == Fulfilled(orders[o], request)
      to == IF AllDone(filled) THEN "fulfilled" ELSE "partially_fulfilled"
  IN  /\ orders[o].status \in {"committed", "partially_fulfilled"}
      /\ \A i \in DOMAIN request :
           /\ request[i].line \in Present(orders[o])
           /\ Asked(request, request[i].line) <= Remaining(orders[o], request[i].line)
      /\ Stage(c, "fulfillLines", o, [filled EXCEPT !.status = to], <<to>>, request)
      /\ UNCHANGED lineCount

\* Mutant of CancelOrder: an order can be cancelled when it is complete.
CancelAnyOrder(c, o) ==
  /\ orders[o].status \notin {"none", "draft"}
  /\ Stage(c, "cancelOrder", o, [orders[o] EXCEPT !.status = "cancelled"],
           <<"cancelled">>, <<>>)
  /\ UNCHANGED lineCount

CancelOrder(c, o) ==
  LET op == IF orders[o].status = "draft" THEN "discardOrder" ELSE "cancelOrder"
  IN  /\ CanTransition(orders[o].status, "cancelled")
      /\ Stage(c, op, o, [orders[o] EXCEPT !.status = "cancelled"], <<"cancelled">>, <<>>)
      /\ UNCHANGED lineCount

\* The catalog refuses a line after the order has been read: the call throws.
CatalogRefuses(c) ==
  /\ running[c].at = "save"
  /\ running[c].op \in {"addLine", "commitOrder"}
  /\ running' = [running EXCEPT ![c] = Fresh]
  /\ UNCHANGED <<orders, lineCount, log>>

SaveOrder(c) ==
  /\ running[c].at = "save"
  /\ orders' = [orders EXCEPT ![running[c].order] = running[c].next]
  /\ running' = [running EXCEPT ![c].at = "insert"]
  /\ UNCHANGED <<lineCount, log>>

InsertRows(c) ==
  /\ running[c].at = "insert"
  /\ log' = log \o running[c].events
  /\ running' = [running EXCEPT ![c] = Fresh]
  /\ UNCHANGED <<orders, lineCount>>

Operate(c, o) ==
  \/ CreateOrder(c, o)
  \/ \E q \in Quantities : AddLine(c, o, q)
  \/ \E l \in Line, q \in Quantities : UpdateLineQuantity(c, o, l, q)
  \/ \E l \in Line : RemoveLine(c, o, l)
  \/ CommitOrder(c, o)
  \/ FulfillOrder(c, o)
  \/ \E request \in FulfilRequests : FulfillLines(c, o, request)
  \/ CancelOrder(c, o)

OrdersNext ==
  \E c \in Client :
    \/ \E o \in Order : Operate(c, o)
    \/ CatalogRefuses(c)
    \/ SaveOrder(c)
    \/ InsertRows(c)

OrdersSpec == OrdersInit /\ [][OrdersNext]_ordersVars
-----------------------------------------------------------------------------
(***************************************************************************)
(* Properties.                                                             *)
(***************************************************************************)
OrdersAtRest == \A c \in Client : running[c].at = "idle"

\* Whatever calls overwrite of one another, an order on file makes sense: nothing
\* is fulfilled twice over, and its status tells what has been fulfilled.
Consistent(order) ==
  /\ \A l \in Line : order.lines[l].fulfilled <= order.lines[l].quantity
  /\ order.status \in {"none", "draft", "committed"} =>
       \A l \in Line : order.lines[l].fulfilled = 0
  /\ order.status \in {"committed", "partially_fulfilled", "fulfilled"} =>
       Present(order) # {}
  /\ order.status = "partially_fulfilled" => ~ AllDone(order)
  /\ order.status = "fulfilled" => AllDone(order)

OrdersAreConsistent == \A o \in Order : Consistent(orders[o])

\* Consumers can know every firm order: when no call is running, what is on file
\* is what some lifecycle event of the order has told.
FirmOrdersAreAnnounced ==
  OrdersAtRest => \A o \in Order : orders[o].status \in Lifecycle =>
    \E i \in DOMAIN log : /\ log[i].order = o
                          /\ log[i].type = orders[o].status
                          /\ log[i].lines = orders[o].lines

\* The lifecycle events of an order come in an order that makes sense to its
\* consumers: one commit, before any fulfilment, and nothing after the end.
LifecycleInOrder ==
  \A i, j \in DOMAIN log :
    i < j /\ log[i].order = log[j].order
          /\ log[i].type \in Lifecycle /\ log[j].type \in Lifecycle =>
      /\ log[j].type # "committed"
      /\ log[i].type \notin {"fulfilled", "cancelled"}

\* The parts that events report add up to what is on file as fulfilled, unless
\* fulfillOrder has closed the order.
PartsAddUp ==
  OrdersAtRest => \A o \in Order, l \in Line :
    LET own == {i \in DOMAIN log : log[i].order = o}
        closed == \E i \in own : log[i].type = "fulfilled" /\ log[i].request = <<>>
    IN  ~ closed => orders[o].lines[l].fulfilled =
                      MapThenSumSet(LAMBDA i : Asked(log[i].request, l), own)
=============================================================================
