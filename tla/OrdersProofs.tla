---------------------------- MODULE OrdersProofs ----------------------------
(***************************************************************************)
(* Proofs about Orders, for any number of orders and of overlapping calls, *)
(* and about OrderStock, for any number of items and redeliveries.         *)
(***************************************************************************)
EXTENDS OrderStock, FiniteSetTheorems, NaturalsInduction, TLAPS

\* Induction, as the provers can use it: a set of numbers has a least one.
LEMMA LeastExists ==
  ASSUME NEW S, S \subseteq Nat, S # {}
  PROVE  \E k \in S : \A j \in Nat : j < k => j \notin S
<1>1. PICK k \in S : \A j \in S : ~ (<<j, k>> \in OpToRel(<, Nat))
  BY NatLessThanWellFounded, WFMin
<1>2. \A j \in S : ~ (j < k)
  BY <1>1 DEF OpToRel
<1>3. QED
  BY <1>2

(***************************************************************************)
(* What a request asks for of a line.                                      *)
(***************************************************************************)
Part(request, l, n) == IF request[n].line = l THEN request[n].quantity ELSE 0

IsSum(sum, request, l, m) ==
  sum = [n \in 0..m |-> IF n = 0 THEN 0 ELSE sum[n - 1] + Part(request, l, n)]

\* The sum over the first m parts of a request is well defined.
LEMMA SumExists ==
  ASSUME NEW request, NEW l, NEW m \in Nat
  PROVE  \E sum : IsSum(sum, request, l, m)
<1> DEFINE Bad == {n \in Nat : ~ \E sum : IsSum(sum, request, l, n)}
<1>1. SUFFICES ASSUME Bad # {} PROVE FALSE
  OBVIOUS
<1>2. Bad \subseteq Nat
  OBVIOUS
<1>3. PICK k \in Bad : \A j \in Nat : j < k => j \notin Bad
  BY <1>1, <1>2, LeastExists
<1>4. k \in Nat
  OBVIOUS
<1>5. CASE k = 0
  <2>1. IsSum([n \in 0..0 |-> 0], request, l, 0)
    BY DEF IsSum
  <2>2. QED
    BY <2>1, <1>5
<1>6. CASE k # 0
  <2>1. k - 1 \in Nat /\ k - 1 < k /\ k - 1 \notin Bad
    BY <1>3, <1>4, <1>6
  <2>2. PICK sum : IsSum(sum, request, l, k - 1)
    BY <2>1
  <2> DEFINE longer == [n \in 0..k |-> IF n = k THEN sum[k - 1] + Part(request, l, k) ELSE sum[n]]
  <2>3. \A n \in 0..(k - 1) : longer[n] = sum[n]
    BY <1>4
  <2>4. \A n \in 0..k : longer[n] = IF n = 0 THEN 0 ELSE longer[n - 1] + Part(request, l, n)
    <3>1. TAKE n \in 0..k
    <3>2. CASE n = k
      BY <3>2, <2>3, <1>4, <1>6
    <3>3. CASE n # k
      <4>1. n \in 0..(k - 1) /\ (n # 0 => n - 1 \in 0..(k - 1))
        BY <3>3, <1>4
      <4>2. sum[n] = IF n = 0 THEN 0 ELSE sum[n - 1] + Part(request, l, n)
        BY <2>2, <4>1 DEF IsSum
      <4>3. QED
        BY <4>1, <4>2, <2>3
    <3>4. QED
      BY <3>2, <3>3
  <2>5. IsSum(longer, request, l, k)
    BY <2>4 DEF IsSum
  <2>6. QED
    BY <2>5
<1>7. QED
  BY <1>5, <1>6

\* A property of the sums of the prefixes that each part keeps holds of the whole.
LEMMA AskedIsSum ==
  ASSUME NEW request \in Seq(Fulfilment), NEW l
  PROVE  \E sum : IsSum(sum, request, l, Len(request)) /\ Asked(request, l) = sum[Len(request)]
<1> DEFINE whole == CHOOSE sum : IsSum(sum, request, l, Len(request))
<1>1. Len(request) \in Nat
  OBVIOUS
<1>2. IsSum(whole, request, l, Len(request))
  BY <1>1, SumExists
<1>3. Asked(request, l) = whole[Len(request)]
  BY DEF Asked, IsSum, Part
<1>4. QED
  BY <1>2, <1>3

\* What is asked for is a number, and nothing of a line the request does not name.
LEMMA AskedIsNumber ==
  ASSUME NEW request \in Seq(Fulfilment), NEW l
  PROVE  /\ Asked(request, l) \in Nat
         /\ (\A i \in DOMAIN request : request[i].line # l) => Asked(request, l) = 0
<1>1. PICK sum : IsSum(sum, request, l, Len(request)) /\ Asked(request, l) = sum[Len(request)]
  BY AskedIsSum
<1>2. Len(request) \in Nat /\ DOMAIN request = 1..Len(request)
  OBVIOUS
<1>3. ASSUME NEW n \in 1..Len(request) PROVE Part(request, l, n) \in Nat
  <2>1. request[n] \in Fulfilment
    OBVIOUS
  <2>2. request[n].quantity \in Nat
    BY <2>1 DEF Fulfilment
  <2>3. QED
    BY <2>2 DEF Part
<1>4. \A n \in 0..Len(request) :
        sum[n] = IF n = 0 THEN 0 ELSE sum[n - 1] + Part(request, l, n)
  BY <1>1 DEF IsSum
<1> DEFINE Unnamed == \A i \in DOMAIN request : request[i].line # l
           Good(n) == sum[n] \in Nat /\ (Unnamed => sum[n] = 0)
           Bad == {n \in 0..Len(request) : ~ Good(n)}
<1>5. Bad = {}
  <2>1. SUFFICES ASSUME Bad # {} PROVE FALSE
    OBVIOUS
  <2>2. Bad \subseteq Nat
    OBVIOUS
  <2>3. PICK k \in Bad : \A j \in Nat : j < k => j \notin Bad
    BY <2>1, <2>2, LeastExists
  <2>4. k # 0
    BY <1>2, <1>4
  <2>5. k - 1 \in 0..Len(request) /\ k \in 1..Len(request) /\ k - 1 < k
    BY <2>4, <1>2
  <2>6. Good(k - 1)
    BY <2>3, <2>5
  <2>7. Unnamed => Part(request, l, k) = 0
    BY <2>5, <1>2 DEF Part
  <2>8. Good(k)
    BY <2>4, <2>5, <2>6, <2>7, <1>3, <1>4
  <2>9. QED
    BY <2>8
<1>6. Good(Len(request))
  BY <1>2, <1>5
<1>7. QED
  BY <1>1, <1>6

(***************************************************************************)
(* What every operation stages: an order that makes sense, and with a new  *)
(* status the event that tells of it.                                      *)
(***************************************************************************)
Tells(events, o, order) ==
  \E i \in DOMAIN events : /\ events[i].order = o
                           /\ events[i].type = order.status
                           /\ events[i].lines = order.lines

\* With a new status goes one event of the lifecycle, and without one there is none.
Advances(from, types, to) ==
  \/ /\ from \in {"none", "draft"} /\ to = "draft"
     /\ \A i \in DOMAIN types : types[i] \notin Lifecycle
  \/ /\ CanTransition(from, to) \/ (from = "partially_fulfilled" /\ to = from)
     /\ \A i \in DOMAIN types : types[i] \in Lifecycle => i = 1 /\ types[i] = to

StagesWell(c, o) ==
  \E op \in UseCase, next \in OrderState, types \in Seq(EventType), request \in Seq(Fulfilment) :
    /\ Stage(c, op, o, next, types, request)
    /\ Consistent(next)
    /\ next.status \in Lifecycle => \E i \in DOMAIN types : types[i] = next.status
    /\ Advances(orders[o].status, types, next.status)

\* The sequences of types that operations publish.
LEMMA TypesAreTypes ==
  /\ \A t \in EventType : << t >> \in Seq(EventType) /\ 1 \in DOMAIN << t >> /\ << t >>[1] = t
  /\ \A t, u \in EventType :
       << t, u >> \in Seq(EventType) /\ 1 \in DOMAIN << t, u >> /\ << t, u >>[1] = t
  /\ << >> \in Seq(Fulfilment)
OBVIOUS

LEMMA DraftsAdvance ==
  ASSUME NEW from \in {"none", "draft"}
  PROVE  /\ Advances(from, <<"created">>, "draft")
         /\ Advances(from, <<"updated">>, "draft")
         /\ Advances(from, <<"line_added", "updated">>, "draft")
         /\ Advances(from, <<"line_removed", "updated">>, "draft")
<1>1. \A t, u : t \notin Lifecycle /\ u \notin Lifecycle =>
        /\ \A i \in DOMAIN << t >> : << t >>[i] \notin Lifecycle
        /\ \A i \in DOMAIN << t, u >> : << t, u >>[i] \notin Lifecycle
  OBVIOUS
<1>2. {"created", "updated", "line_added", "line_removed"} \intersect Lifecycle = {}
  BY DEF Lifecycle
<1>3. QED
  BY <1>1, <1>2 DEF Advances

LEMMA OrdersAdvance ==
  ASSUME NEW from
  PROVE  /\ CanTransition(from, "committed") =>
              Advances(from, <<"committed", "pricing_finalized">>, "committed")
         /\ CanTransition(from, "cancelled") => Advances(from, <<"cancelled">>, "cancelled")
         /\ \A to \in {"partially_fulfilled", "fulfilled"} :
              from \in {"committed", "partially_fulfilled"} => Advances(from, << to >>, to)
<1>1. \A t : \A i \in DOMAIN << t >> : i = 1 /\ << t >>[i] = t
  OBVIOUS
<1>2. \A i \in DOMAIN <<"committed", "pricing_finalized">> :
        (i = 1 /\ <<"committed", "pricing_finalized">>[i] = "committed")
        \/ <<"committed", "pricing_finalized">>[i] = "pricing_finalized"
  OBVIOUS
<1>3. "pricing_finalized" \notin Lifecycle
  BY DEF Lifecycle
<1>4. CanTransition(from, "committed") =>
        Advances(from, <<"committed", "pricing_finalized">>, "committed")
  BY <1>2, <1>3 DEF Advances
<1>5. CanTransition(from, "cancelled") => Advances(from, <<"cancelled">>, "cancelled")
  BY <1>1 DEF Advances
<1>6. ASSUME NEW to \in {"partially_fulfilled", "fulfilled"},
             from \in {"committed", "partially_fulfilled"}
      PROVE  Advances(from, << to >>, to)
  <2>1. CanTransition(from, to) \/ (from = "partially_fulfilled" /\ to = from)
    BY <1>6 DEF CanTransition
  <2>2. QED
    BY <1>1, <2>1 DEF Advances
<1>7. QED
  BY <1>4, <1>5, <1>6

LEMMA ShowsStagesWell ==
  ASSUME NEW c, NEW o, NEW op \in UseCase, NEW next \in OrderState,
         NEW types \in Seq(EventType), NEW request \in Seq(Fulfilment),
         Stage(c, op, o, next, types, request),
         Consistent(next),
         next.status \notin Lifecycle \/ (1 \in DOMAIN types /\ types[1] = next.status),
         Advances(orders[o].status, types, next.status)
  PROVE  StagesWell(c, o)
BY DEF StagesWell

\* Creating an order and working on a draft leave nothing fulfilled.
LEMMA DraftsStageWell ==
  ASSUME OrdersTypeOK, OrdersAreConsistent, NEW c \in Client, NEW o \in Order,
         \/ CreateOrder(c, o)
         \/ \E q \in Quantities : AddLine(c, o, q)
         \/ \E l \in Line, q \in Quantities : UpdateLineQuantity(c, o, l, q)
         \/ \E l \in Line : RemoveLine(c, o, l)
  PROVE  StagesWell(c, o) /\ lineCount' \in 0..MaxLines
<1> DEFINE Blank(order) == order.status = "draft" /\ \A l \in Line : order.lines[l].fulfilled = 0
<1>1. orders[o] \in OrderState /\ Consistent(orders[o]) /\ lineCount \in 0..MaxLines
  BY DEF OrdersTypeOK, OrdersAreConsistent
<1>2. ASSUME NEW order \in OrderState, Blank(order) PROVE Consistent(order)
  BY <1>2 DEF Consistent, OrderState, Lines
<1>3. \A order : order.status = "draft" => order.status \notin Lifecycle
  BY DEF Lifecycle
<1>4. {"created", "line_added", "updated", "line_removed"} \subseteq EventType
  BY DEF EventType
<1>5. {"createOrder", "addLine", "updateLineQuantity", "removeLine"} \subseteq UseCase
  BY DEF UseCase
<1>6. orders[o].status = "draft" => Blank(orders[o])
  BY <1>1 DEF Consistent
<1>0. orders[o].status \in {"none", "draft"}
  BY DEF CreateOrder, AddLine, UpdateLineQuantity, RemoveLine
<1>7. CASE CreateOrder(c, o)
  <2> DEFINE next == [NoOrder EXCEPT !.status = "draft"]
  <2>1. next \in OrderState /\ Blank(next)
    BY DEF NoOrder, NoLines, OrderState, Lines, Status
  <2>2. Stage(c, "createOrder", o, next, <<"created">>, <<>>) /\ lineCount' = lineCount
    BY <1>7 DEF CreateOrder
  <2>3. Consistent(next) /\ next.status \notin Lifecycle
    BY <1>2, <1>3, <2>1
  <2>4. Advances(orders[o].status, <<"created">>, next.status)
    BY <1>0, <2>1, DraftsAdvance
  <2> HIDE DEF next
  <2>5. QED
    BY <1>1, <1>4, <1>5, <2>1, <2>2, <2>3, <2>4, TypesAreTypes, ShowsStagesWell
<1>8. CASE \E q \in Quantities : AddLine(c, o, q)
  <2>1. PICK q \in Quantities : AddLine(c, o, q)
    BY <1>8
  <2> DEFINE l == lineCount + 1
             next == [orders[o] EXCEPT !.lines[l] = [quantity |-> q, fulfilled |-> 0]]
  <2>2. l \in Line /\ q \in Nat /\ Blank(orders[o])
    BY <2>1, <1>6, OrdersAssumption DEF AddLine
  <2>3. next \in OrderState /\ Blank(next)
    BY <2>2, <1>1 DEF OrderState, Lines
  <2>4. Stage(c, "addLine", o, next, <<"line_added", "updated">>, <<>>) /\ lineCount' = l
    BY <2>1 DEF AddLine
  <2>5. lineCount' \in 0..MaxLines
    BY <2>2, <2>4, OrdersAssumption DEF Line
  <2>6. Consistent(next) /\ next.status \notin Lifecycle
    BY <1>2, <1>3, <2>3
  <2>7. Advances(orders[o].status, <<"line_added", "updated">>, next.status)
    BY <1>0, <2>3, DraftsAdvance
  <2> HIDE DEF next
  <2>8. QED
    BY <1>4, <1>5, <2>3, <2>4, <2>5, <2>6, <2>7, TypesAreTypes, ShowsStagesWell
<1>9. CASE \E l \in Line, q \in Quantities : UpdateLineQuantity(c, o, l, q)
  <2>1. PICK l \in Line, q \in Quantities : UpdateLineQuantity(c, o, l, q)
    BY <1>9
  <2> DEFINE next == [orders[o] EXCEPT !.lines[l].quantity = q]
  <2>2. q \in Nat /\ Blank(orders[o])
    BY <2>1, <1>6, OrdersAssumption DEF UpdateLineQuantity
  <2>3. next \in OrderState /\ Blank(next)
    BY <2>2, <1>1 DEF OrderState, Lines
  <2>4. Stage(c, "updateLineQuantity", o, next, <<"updated">>, <<>>) /\ lineCount' = lineCount
    BY <2>1 DEF UpdateLineQuantity
  <2>5. Consistent(next) /\ next.status \notin Lifecycle
    BY <1>2, <1>3, <2>3
  <2>6. Advances(orders[o].status, <<"updated">>, next.status)
    BY <1>0, <2>3, DraftsAdvance
  <2> HIDE DEF next
  <2>7. QED
    BY <1>1, <1>4, <1>5, <2>3, <2>4, <2>5, <2>6, TypesAreTypes, ShowsStagesWell
<1>10. CASE \E l \in Line : RemoveLine(c, o, l)
  <2>1. PICK l \in Line : RemoveLine(c, o, l)
    BY <1>10
  <2> DEFINE next == [orders[o] EXCEPT !.lines[l] = NoLines[l]]
  <2>2. Blank(orders[o]) /\ NoLines[l] = [quantity |-> 0, fulfilled |-> 0]
    BY <2>1, <1>6 DEF RemoveLine, NoLines
  <2>3. next \in OrderState /\ Blank(next)
    BY <2>2, <1>1 DEF OrderState, Lines
  <2>4. Stage(c, "removeLine", o, next, <<"line_removed", "updated">>, <<>>)
          /\ lineCount' = lineCount
    BY <2>1 DEF RemoveLine
  <2>5. Consistent(next) /\ next.status \notin Lifecycle
    BY <1>2, <1>3, <2>3
  <2>6. Advances(orders[o].status, <<"line_removed", "updated">>, next.status)
    BY <1>0, <2>3, DraftsAdvance
  <2> HIDE DEF next
  <2>7. QED
    BY <1>1, <1>4, <1>5, <2>3, <2>4, <2>5, <2>6, TypesAreTypes, ShowsStagesWell
<1>11. QED
  BY <1>7, <1>8, <1>9, <1>10

\* Commit, cancel and fulfil everything.
LEMMA WholeOrdersStageWell ==
  ASSUME OrdersTypeOK, OrdersAreConsistent, NEW c \in Client, NEW o \in Order,
         CommitOrder(c, o) \/ CancelOrder(c, o) \/ FulfillOrder(c, o)
  PROVE  StagesWell(c, o) /\ lineCount' \in 0..MaxLines
<1>1. orders[o] \in OrderState /\ Consistent(orders[o]) /\ lineCount \in 0..MaxLines
  BY DEF OrdersTypeOK, OrdersAreConsistent
<1>2. {"committed", "pricing_finalized", "cancelled", "fulfilled"} \subseteq EventType
  BY DEF EventType, Lifecycle
<1>3. {"commitOrder", "discardOrder", "cancelOrder", "fulfillOrder", "completeOrder"} \subseteq UseCase
  BY DEF UseCase
<1>4. CASE CommitOrder(c, o)
  <2> DEFINE next == [orders[o] EXCEPT !.status = "committed"]
  <2>1. next \in OrderState /\ next.status = "committed"
    BY <1>1 DEF OrderState, Status
  <2>2. orders[o].status = "draft" /\ Present(orders[o]) # {}
    BY <1>4 DEF CommitOrder, CanTransition
  <2>3. Consistent(next)
    BY <1>1, <2>2 DEF Consistent, OrderState, Lines, Present
  <2>4. Stage(c, "commitOrder", o, next, <<"committed", "pricing_finalized">>, <<>>)
          /\ lineCount' = lineCount
    BY <1>4 DEF CommitOrder
  <2>9. Advances(orders[o].status, <<"committed", "pricing_finalized">>, next.status)
    BY <1>4, <2>1, OrdersAdvance DEF CommitOrder
  <2> HIDE DEF next
  <2>5. QED
    BY <1>1, <1>2, <1>3, <2>1, <2>3, <2>4, <2>9, TypesAreTypes, ShowsStagesWell
<1>5. CASE CancelOrder(c, o)
  <2> DEFINE next == [orders[o] EXCEPT !.status = "cancelled"]
             op == IF orders[o].status = "draft" THEN "discardOrder" ELSE "cancelOrder"
  <2>1. next \in OrderState /\ next.status = "cancelled"
    BY <1>1 DEF OrderState, Status
  <2>2. Consistent(next)
    BY <1>1 DEF Consistent, OrderState, Lines
  <2>3. Stage(c, op, o, next, <<"cancelled">>, <<>>) /\ lineCount' = lineCount
    BY <1>5 DEF CancelOrder
  <2>4. op \in UseCase
    BY <1>3
  <2>9. Advances(orders[o].status, <<"cancelled">>, next.status)
    BY <1>5, <2>1, OrdersAdvance DEF CancelOrder
  <2> HIDE DEF next, op
  <2>5. QED
    BY <1>1, <1>2, <2>1, <2>2, <2>3, <2>4, <2>9, TypesAreTypes, ShowsStagesWell
<1>6. CASE FulfillOrder(c, o)
  <2> DEFINE lines == [l \in Line |->
               [orders[o].lines[l] EXCEPT !.fulfilled = orders[o].lines[l].quantity]]
             next == [status |-> "fulfilled", lines |-> lines]
             op == IF orders[o].status = "committed" THEN "fulfillOrder" ELSE "completeOrder"
  <2>1. \A l \in Line : /\ lines[l] \in [quantity : Nat, fulfilled : Nat]
                        /\ lines[l].quantity = orders[o].lines[l].quantity
                        /\ lines[l].fulfilled = orders[o].lines[l].quantity
    BY <1>1 DEF OrderState, Lines
  <2>2. next \in OrderState /\ next.status = "fulfilled"
    BY <2>1 DEF OrderState, Status, Lines
  <2>3. Present(orders[o]) # {}
    BY <1>1, <1>6 DEF FulfillOrder, Consistent
  <2>4. Present(next) # {} /\ AllDone(next)
    BY <1>1, <2>1, <2>3 DEF Present, AllDone, OrderState, Lines
  <2>5. Consistent(next)
    <3>1. \A l \in Line : next.lines[l].fulfilled <= next.lines[l].quantity
      BY <1>1, <2>1 DEF OrderState, Lines
    <3> HIDE DEF next, lines
    <3>2. QED
      BY <2>2, <2>4, <3>1 DEF Consistent
  <2>6. Stage(c, op, o, next, <<"fulfilled">>, <<>>) /\ lineCount' = lineCount
    BY <1>6 DEF FulfillOrder
  <2>7. op \in UseCase
    BY <1>3
  <2>9. Advances(orders[o].status, <<"fulfilled">>, next.status)
    BY <1>6, <2>2, OrdersAdvance DEF FulfillOrder
  <2> HIDE DEF next, op
  <2>8. QED
    BY <1>1, <1>2, <2>2, <2>5, <2>6, <2>7, <2>9, TypesAreTypes, ShowsStagesWell
<1>7. QED
  BY <1>4, <1>5, <1>6

\* A part that is accepted never exceeds what is left of a line.
LEMMA PartsStageWell ==
  ASSUME OrdersTypeOK, OrdersAreConsistent, NEW c \in Client, NEW o \in Order,
         NEW request \in FulfilRequests, FulfillLines(c, o, request)
  PROVE  StagesWell(c, o) /\ lineCount' \in 0..MaxLines
<1> DEFINE filled == Fulfilled(orders[o], request)
           to == IF AllDone(filled) THEN "fulfilled" ELSE "partially_fulfilled"
           next == [filled EXCEPT !.status = to]
<1>1. orders[o] \in OrderState /\ Consistent(orders[o]) /\ lineCount \in 0..MaxLines
  BY DEF OrdersTypeOK, OrdersAreConsistent
<1>2. request \in Seq(Fulfilment)
  BY OrdersAssumption
<1>3. \A l \in Line : Asked(request, l) \in Nat
  BY <1>2, AskedIsNumber
<1>4. \A l \in Line : orders[o].lines[l] \in [quantity : Nat, fulfilled : Nat]
  BY <1>1 DEF OrderState, Lines
<1>5. \A l \in Line : /\ filled.lines[l] \in [quantity : Nat, fulfilled : Nat]
                      /\ filled.lines[l].quantity = orders[o].lines[l].quantity
                      /\ filled.lines[l].fulfilled =
                           orders[o].lines[l].fulfilled + Asked(request, l)
  BY <1>1, <1>3, <1>4 DEF Fulfilled, OrderState, Lines
<1>6. filled \in OrderState
  BY <1>1, <1>5 DEF Fulfilled, OrderState, Lines
<1>7. ASSUME NEW l \in Line PROVE filled.lines[l].fulfilled <= filled.lines[l].quantity
  <2>1. CASE \E i \in DOMAIN request : request[i].line = l
    <3>1. Asked(request, l) <= Remaining(orders[o], l)
      BY <2>1 DEF FulfillLines
    <3>2. QED
      BY <3>1, <1>3, <1>4, <1>5 DEF Remaining
  <2>2. CASE \A i \in DOMAIN request : request[i].line # l
    <3>1. Asked(request, l) = 0
      BY <2>2, <1>2, AskedIsNumber
    <3>2. orders[o].lines[l].fulfilled <= orders[o].lines[l].quantity
      BY <1>1 DEF Consistent
    <3>3. QED
      BY <3>1, <3>2, <1>4, <1>5
  <2>3. QED
    BY <2>1, <2>2
<1>8. orders[o].status \in {"committed", "partially_fulfilled"}
        /\ Stage(c, "fulfillLines", o, next, << to >>, request) /\ lineCount' = lineCount
  BY DEF FulfillLines
<1>9. Present(filled) # {}
  <2>1. Present(orders[o]) # {}
    BY <1>1, <1>8 DEF Consistent
  <2>2. QED
    BY <2>1, <1>5 DEF Present
<1>10. to \in {"fulfilled", "partially_fulfilled"}
         /\ (to = "fulfilled" <=> AllDone(filled))
  OBVIOUS
<1>11. next \in OrderState /\ next.status = to /\ next.lines = filled.lines
  BY <1>6, <1>10 DEF OrderState, Status
<1>12. Consistent(next)
  <2>1. Present(next) # {} /\ (AllDone(next) <=> AllDone(filled))
    BY <1>9, <1>11 DEF Present, AllDone
  <2> HIDE DEF next, filled, to
  <2>2. QED
    BY <2>1, <1>7, <1>10, <1>11 DEF Consistent
<1>13. "fulfillLines" \in UseCase /\ to \in EventType
  BY <1>10 DEF UseCase, EventType, Lifecycle
<1>14. Advances(orders[o].status, << to >>, next.status)
  BY <1>8, <1>10, <1>11, OrdersAdvance
<1> HIDE DEF next, filled, to
<1>15. QED
  BY <1>1, <1>2, <1>8, <1>11, <1>12, <1>13, <1>14, TypesAreTypes, ShowsStagesWell

LEMMA OperationsStageWell ==
  ASSUME OrdersTypeOK, OrdersAreConsistent, NEW c \in Client, NEW o \in Order, Operate(c, o)
  PROVE  StagesWell(c, o) /\ lineCount' \in 0..MaxLines
BY DraftsStageWell, WholeOrdersStageWell, PartsStageWell DEF Operate

-----------------------------------------------------------------------------
(***************************************************************************)
(* The inductive invariant: what calls are about to save makes sense as    *)
(* well, and what is on file has been told or is about to be told by the   *)
(* call that saved it.                                                     *)
(***************************************************************************)
CallsAreConsistent ==
  \A c \in Client :
    /\ Consistent(running[c].next)
    /\ running[c].at # "idle" /\ running[c].next.status \in Lifecycle
         => Tells(running[c].events, running[c].order, running[c].next)

Announced(o) ==
  \/ Tells(log, o, orders[o])
  \/ \E c \in Client : running[c].at = "insert" /\ Tells(running[c].events, o, orders[o])

OrdersInv ==
  /\ OrdersTypeOK
  /\ OrdersAreConsistent
  /\ CallsAreConsistent
  /\ \A o \in Order : orders[o].status \in Lifecycle => Announced(o)

LEMMA FreshIsIdle ==
  /\ Fresh \in CallState
  /\ Fresh.at = "idle" /\ Fresh.events = <<>>
  /\ Consistent(Fresh.next)
<1>1. NoOrder \in OrderState /\ Consistent(NoOrder)
  BY DEF NoOrder, NoLines, OrderState, Lines, Status, Consistent
<1>2. (CHOOSE o \in Order : TRUE) \in Order
  BY OrdersAssumption
<1>3. QED
  BY <1>1, <1>2 DEF Fresh, CallState, UseCase

LEMMA OrdersInvInit ==
  ASSUME OrdersInit
  PROVE  OrdersInv
<1>1. PICK S \in SUBSET Order : Drafts \in [S -> [Line -> Nat]]
  BY OrdersAssumption
<1>2. NoOrder \in OrderState /\ Consistent(NoOrder) /\ NoOrder.status = "none"
  BY DEF NoOrder, NoLines, OrderState, Lines, Status, Consistent
<1>3. ASSUME NEW o \in S
      PROVE  DraftOf(Drafts[o]) \in OrderState /\ Consistent(DraftOf(Drafts[o]))
               /\ DraftOf(Drafts[o]).status = "draft"
  <2>1. Drafts[o] \in [Line -> Nat]
    BY <1>1
  <2>2. QED
    BY <2>1 DEF DraftOf, OrderState, Lines, Status, Consistent
<1>4. \A o \in Order : /\ orders[o] \in OrderState /\ Consistent(orders[o])
                       /\ orders[o].status \in {"none", "draft"}
  BY <1>1, <1>2, <1>3 DEF OrdersInit
<1>5. lineCount \in 0..MaxLines
  <2> DEFINE used == {l \in Line : \E o \in DOMAIN Drafts : Drafts[o][l] > 0}
  <2>1. IsFiniteSet(Line) /\ Cardinality(Line) = MaxLines
    BY FS_Interval, OrdersAssumption DEF Line
  <2>2. IsFiniteSet(used) /\ Cardinality(used) <= MaxLines
    BY <2>1, FS_Subset
  <2>3. Cardinality(used) \in Nat
    BY <2>2, FS_CardinalityType
  <2>4. QED
    BY <2>2, <2>3, OrdersAssumption DEF OrdersInit
<1>6. OrdersTypeOK
  BY <1>4, <1>5, FreshIsIdle DEF OrdersInit, OrdersTypeOK
<1>7. \A c \in Client : running[c] = Fresh
  BY DEF OrdersInit
<1>8. QED
  BY <1>4, <1>6, <1>7, FreshIsIdle
     DEF OrdersInv, OrdersAreConsistent, CallsAreConsistent, Lifecycle

LEMMA StageKeepsInv ==
  ASSUME OrdersInv, NEW c \in Client, NEW o \in Order, StagesWell(c, o),
         lineCount' \in 0..MaxLines
  PROVE  OrdersInv'
<1>1. PICK op \in UseCase, next \in OrderState, types \in Seq(EventType),
           request \in Seq(Fulfilment) :
             /\ Stage(c, op, o, next, types, request)
             /\ Consistent(next)
             /\ next.status \in Lifecycle => \E i \in DOMAIN types : types[i] = next.status
  BY DEF StagesWell
<1> DEFINE events == [i \in DOMAIN types |->
             [type |-> types[i], order |-> o, lines |-> next.lines, request |-> request]]
           call == [at |-> "save", op |-> op, order |-> o, next |-> next, events |-> events]
<1>2. events \in Seq(Event)
  <2>1. next.lines \in Lines
    BY DEF OrderState
  <2>2. \A i \in DOMAIN types : types[i] \in EventType
    OBVIOUS
  <2>3. \A i \in DOMAIN types : events[i] \in Event
    BY <2>1, <2>2 DEF Event
  <2>4. Len(types) \in Nat /\ DOMAIN types = 1..Len(types)
    OBVIOUS
  <2>5. QED
    BY <2>3, <2>4
<1>3. call \in CallState
  BY <1>2 DEF CallState
<1>4. next.status \in Lifecycle => Tells(events, o, next)
  BY <1>1 DEF Tells
<1>5. /\ running' = [running EXCEPT ![c] = call] /\ running[c].at = "idle"
      /\ orders' = orders /\ log' = log
  BY <1>1 DEF Stage
<1>6. call.at = "save" /\ call.next = next /\ call.order = o /\ call.events = events
  OBVIOUS
<1> HIDE DEF events, call
<1>7. OrdersTypeOK' /\ OrdersAreConsistent'
  BY <1>3, <1>5 DEF OrdersInv, OrdersTypeOK, OrdersAreConsistent
<1>8. running'[c] = call /\ \A d \in Client \ {c} : running'[d] = running[d]
  BY <1>5 DEF OrdersInv, OrdersTypeOK
<1>9. CallsAreConsistent'
  BY <1>1, <1>4, <1>6, <1>8 DEF OrdersInv, CallsAreConsistent
<1>10. ASSUME NEW p \in Order, orders'[p].status \in Lifecycle PROVE Announced(p)'
  <2>1. Announced(p)
    BY <1>5, <1>10 DEF OrdersInv
  <2>2. \A d \in Client : running[d].at = "insert" => running'[d] = running[d]
    BY <1>5, <1>8
  <2>3. QED
    BY <2>1, <2>2, <1>5 DEF Announced
<1>11. QED
  BY <1>7, <1>9, <1>10 DEF OrdersInv

\* Once saved, an order is as its last call has it, and that call will tell.
LEMMA SaveKeepsInv ==
  ASSUME OrdersInv, NEW c \in Client, SaveOrder(c)
  PROVE  OrdersInv'
<1> DEFINE p == running[c].order
<1>1. running[c] \in CallState /\ running[c].at = "save"
  BY DEF OrdersInv, OrdersTypeOK, SaveOrder
<1>2. p \in Order /\ running[c].next \in OrderState
  BY <1>1 DEF CallState
<1>3. /\ orders'[p] = running[c].next
      /\ \A o \in Order \ {p} : orders'[o] = orders[o]
      /\ orders' \in [Order -> OrderState]
  BY <1>2 DEF OrdersInv, OrdersTypeOK, SaveOrder
<1>4. /\ running'[c] = [running[c] EXCEPT !.at = "insert"]
      /\ \A d \in Client \ {c} : running'[d] = running[d]
      /\ running' \in [Client -> CallState]
  BY <1>1 DEF OrdersInv, OrdersTypeOK, SaveOrder, CallState
<1>5. /\ running'[c].at = "insert" /\ running'[c].events = running[c].events
      /\ running'[c].order = p /\ running'[c].next = running[c].next
  BY <1>1, <1>4 DEF CallState
<1>6. OrdersTypeOK'
  BY <1>3, <1>4 DEF OrdersInv, OrdersTypeOK, SaveOrder
<1>7. OrdersAreConsistent'
  BY <1>2, <1>3 DEF OrdersInv, OrdersAreConsistent, CallsAreConsistent
<1>8. CallsAreConsistent'
  BY <1>1, <1>4, <1>5 DEF OrdersInv, CallsAreConsistent
<1>9. ASSUME NEW o \in Order, orders'[o].status \in Lifecycle PROVE Announced(o)'
  <2>1. CASE o = p
    <3>1. Tells(running[c].events, p, running[c].next)
      BY <1>1, <1>3, <1>9, <2>1 DEF OrdersInv, CallsAreConsistent
    <3>2. QED
      BY <3>1, <2>1, <1>3, <1>5 DEF Announced
  <2>2. CASE o # p
    <3>1. Announced(o) /\ orders'[o] = orders[o] /\ log' = log
      BY <2>2, <1>3, <1>9 DEF OrdersInv, SaveOrder
    <3>2. \A d \in Client : running[d].at = "insert" => running'[d] = running[d]
      BY <1>1, <1>4
    <3>3. QED
      BY <3>1, <3>2 DEF Announced
  <2>3. QED
    BY <2>1, <2>2
<1>10. QED
  BY <1>6, <1>7, <1>8, <1>9 DEF OrdersInv

LEMMA TellsGrows ==
  ASSUME NEW s \in Seq(Event), NEW t \in Seq(Event), NEW o, NEW order
  PROVE  Tells(s, o, order) \/ Tells(t, o, order) => Tells(s \o t, o, order)
<1>1. Len(s) \in Nat /\ Len(t) \in Nat /\ DOMAIN s = 1..Len(s) /\ DOMAIN t = 1..Len(t)
  OBVIOUS
<1>2. DOMAIN (s \o t) = 1..(Len(s) + Len(t))
  BY <1>1
<1>3. \A i \in DOMAIN s : i \in DOMAIN (s \o t) /\ (s \o t)[i] = s[i]
  BY <1>1, <1>2
<1>4. \A i \in DOMAIN t : Len(s) + i \in DOMAIN (s \o t) /\ (s \o t)[Len(s) + i] = t[i]
  BY <1>1, <1>2
<1>5. QED
  BY <1>3, <1>4 DEF Tells

LEMMA InsertKeepsInv ==
  ASSUME OrdersInv, NEW c \in Client, InsertRows(c)
  PROVE  OrdersInv'
<1>1. running[c] \in CallState /\ running[c].at = "insert" /\ log \in Seq(Event)
  BY DEF OrdersInv, OrdersTypeOK, InsertRows
<1>2. running[c].events \in Seq(Event)
  BY <1>1 DEF CallState
<1>3. /\ log' = log \o running[c].events
      /\ orders' = orders /\ lineCount' = lineCount
      /\ running'[c] = Fresh
      /\ \A d \in Client \ {c} : running'[d] = running[d]
      /\ running' \in [Client -> CallState]
  BY FreshIsIdle DEF OrdersInv, OrdersTypeOK, InsertRows
<1>4. OrdersTypeOK' /\ OrdersAreConsistent'
  BY <1>1, <1>2, <1>3 DEF OrdersInv, OrdersTypeOK, OrdersAreConsistent
<1>5. CallsAreConsistent'
  BY <1>3, FreshIsIdle DEF OrdersInv, CallsAreConsistent
<1>6. ASSUME NEW o \in Order, orders'[o].status \in Lifecycle PROVE Announced(o)'
  <2>1. Announced(o)
    BY <1>3, <1>6 DEF OrdersInv
  <2>2. Tells(log, o, orders[o]) \/ Tells(running[c].events, o, orders[o]) => Announced(o)'
    BY <1>1, <1>2, <1>3, TellsGrows DEF Announced
  <2>3. QED
    BY <2>1, <2>2, <1>3 DEF Announced
<1>7. QED
  BY <1>4, <1>5, <1>6 DEF OrdersInv

LEMMA RefusalKeepsInv ==
  ASSUME OrdersInv, NEW c \in Client, CatalogRefuses(c)
  PROVE  OrdersInv'
<1>1. /\ orders' = orders /\ lineCount' = lineCount /\ log' = log
      /\ running'[c] = Fresh
      /\ \A d \in Client \ {c} : running'[d] = running[d]
      /\ running' \in [Client -> CallState]
      /\ running[c].at = "save"
  BY FreshIsIdle DEF OrdersInv, OrdersTypeOK, CatalogRefuses
<1>2. OrdersTypeOK' /\ OrdersAreConsistent'
  BY <1>1 DEF OrdersInv, OrdersTypeOK, OrdersAreConsistent
<1>3. CallsAreConsistent'
  BY <1>1, FreshIsIdle DEF OrdersInv, CallsAreConsistent
<1>4. \A o \in Order : Announced(o) => Announced(o)'
  BY <1>1 DEF Announced
<1>5. QED
  BY <1>1, <1>2, <1>3, <1>4 DEF OrdersInv

LEMMA OrdersInvStep ==
  ASSUME OrdersInv, [OrdersNext]_ordersVars
  PROVE  OrdersInv'
<1>1. CASE OrdersNext
  <2>1. PICK c \in Client : \/ \E o \in Order : Operate(c, o)
                            \/ CatalogRefuses(c)
                            \/ SaveOrder(c)
                            \/ InsertRows(c)
    BY <1>1 DEF OrdersNext
  <2>2. ASSUME NEW o \in Order, Operate(c, o) PROVE OrdersInv'
    BY <2>2, OperationsStageWell, StageKeepsInv DEF OrdersInv
  <2>3. QED
    BY <2>1, <2>2, RefusalKeepsInv, SaveKeepsInv, InsertKeepsInv
<1>2. CASE UNCHANGED ordersVars
  BY <1>2 DEF ordersVars, OrdersInv, OrdersTypeOK, OrdersAreConsistent, CallsAreConsistent,
              Announced
<1>3. QED
  BY <1>1, <1>2

-----------------------------------------------------------------------------
THEOREM OrdersInvariant == OrdersSpec => []OrdersInv
BY OrdersInvInit, OrdersInvStep, PTL DEF OrdersSpec

\* The orders, the calls and the outbox keep their types.
THEOREM OrdersTypeCorrect == OrdersSpec => []OrdersTypeOK
BY OrdersInvariant, PTL DEF OrdersInv

\* Whatever overlapping calls of the service overwrite of one another, every order
\* that OrderRepository.save has stored makes sense: nothing is fulfilled twice over.
THEOREM OrdersAreConsistentAlways == OrdersSpec => []OrdersAreConsistent
BY OrdersInvariant, PTL DEF OrdersInv

\* When no call is running, some row of the outbox tells of every firm order what
\* the repository holds: its status and how much of each line is fulfilled.
THEOREM FirmOrdersAreAnnouncedAlways == OrdersSpec => []FirmOrdersAreAnnounced
<1>1. OrdersInv => FirmOrdersAreAnnounced
  BY DEF OrdersInv, Announced, Tells, FirmOrdersAreAnnounced, OrdersAtRest
<1>2. QED
  BY <1>1, OrdersInvariant, PTL

-----------------------------------------------------------------------------
(***************************************************************************)
(* Calls that do not overlap.  A call then saves what follows from the     *)
(* order on file, and the rows before its own are those of that order.     *)
(***************************************************************************)
Serial == \A c, d \in Client : c = d

IsStep(row, o) == row.order = o /\ row.type \in Lifecycle

\* The rows of an order of this status.
LogFits(o, status) ==
  \A i \in DOMAIN log : IsStep(log[i], o) =>
    /\ status \notin {"none", "draft"}
    /\ status \in {"committed", "partially_fulfilled"} =>
         log[i].type \notin {"fulfilled", "cancelled"}

\* What a call publishes of an order that had this status.
CallFits(call, from) ==
  /\ Advances(from, [i \in DOMAIN call.events |-> call.events[i].type], call.next.status)
  /\ \A i \in DOMAIN call.events : call.events[i].order = call.order

StepsInv ==
  /\ LifecycleInOrder
  /\ \A o \in Order :
       (\A c \in Client : running[c].at = "insert" => running[c].order # o) =>
         LogFits(o, orders[o].status)
  /\ \A c \in Client :
       /\ running[c].at = "save" => CallFits(running[c], orders[running[c].order].status)
       /\ running[c].at = "insert" =>
            /\ orders[running[c].order].status = running[c].next.status
            /\ \E from : LogFits(running[c].order, from) /\ CallFits(running[c], from)

LEMMA StageKeepsSteps ==
  ASSUME Serial, OrdersInv, StepsInv, NEW c \in Client, NEW o \in Order, StagesWell(c, o)
  PROVE  StepsInv'
<1>1. PICK op \in UseCase, next \in OrderState, types \in Seq(EventType),
           request \in Seq(Fulfilment) :
             /\ Stage(c, op, o, next, types, request)
             /\ Advances(orders[o].status, types, next.status)
  BY DEF StagesWell
<1> DEFINE events == [i \in DOMAIN types |->
             [type |-> types[i], order |-> o, lines |-> next.lines, request |-> request]]
           call == [at |-> "save", op |-> op, order |-> o, next |-> next, events |-> events]
<1>2. /\ running[c].at = "idle" /\ running' = [running EXCEPT ![c] = call]
      /\ orders' = orders /\ log' = log
  BY <1>1 DEF Stage
<1>3. /\ DOMAIN events = DOMAIN types
      /\ \A i \in DOMAIN types : events[i].type = types[i] /\ events[i].order = o
  OBVIOUS
<1>4. call.at = "save" /\ call.order = o /\ call.next = next /\ call.events = events
  OBVIOUS
<1> HIDE DEF events, call
<1>5. [i \in DOMAIN events |-> events[i].type] = types
  <2>1. types = [i \in DOMAIN types |-> types[i]]
    OBVIOUS
  <2>2. QED
    BY <1>3, <2>1
<1>6. CallFits(call, orders[o].status)
  BY <1>1, <1>3, <1>4, <1>5 DEF CallFits
<1>7. running'[c] = call
  BY <1>2 DEF OrdersInv, OrdersTypeOK
<1>8. \A d \in Client : d = c
  BY DEF Serial
<1>9. LifecycleInOrder'
  BY <1>2 DEF StepsInv, LifecycleInOrder
<1>10. \A p \in Order : LogFits(p, orders[p].status)'
  BY <1>2, <1>8 DEF StepsInv, LogFits
<1>11. QED
  BY <1>2, <1>4, <1>6, <1>7, <1>8, <1>9, <1>10 DEF StepsInv

LEMMA SaveKeepsSteps ==
  ASSUME Serial, OrdersInv, StepsInv, NEW c \in Client, SaveOrder(c)
  PROVE  StepsInv'
<1> DEFINE o == running[c].order
<1>1. running[c] \in CallState /\ running[c].at = "save" /\ log' = log
  BY DEF OrdersInv, OrdersTypeOK, SaveOrder
<1>2. o \in Order
  BY <1>1 DEF CallState
<1>3. /\ orders'[o] = running[c].next
      /\ \A p \in Order \ {o} : orders'[p] = orders[p]
  BY <1>2 DEF OrdersInv, OrdersTypeOK, SaveOrder
<1>4. /\ running'[c].at = "insert" /\ running'[c].events = running[c].events
      /\ running'[c].order = o /\ running'[c].next = running[c].next
  BY <1>1 DEF OrdersInv, OrdersTypeOK, SaveOrder, CallState
<1>5. \A d \in Client : d = c
  BY DEF Serial
<1>6. \A p \in Order : LogFits(p, orders[p].status)
  BY <1>1, <1>5 DEF StepsInv
<1>7. CallFits(running[c], orders[o].status)
  BY <1>1 DEF StepsInv
<1>8. CallFits(running'[c], orders[o].status)
  BY <1>4, <1>7 DEF CallFits
<1>9. LifecycleInOrder'
  BY <1>1 DEF StepsInv, LifecycleInOrder
<1>10. \A p \in Order : \A from : LogFits(p, from)' <=> LogFits(p, from)
  BY <1>1 DEF LogFits
<1>11. QED
  BY <1>2, <1>3, <1>4, <1>5, <1>6, <1>8, <1>9, <1>10 DEF StepsInv

\* A row of the lifecycle among those a call publishes is the first, and goes on from
\* the rows before it.
LEMMA OneStep ==
  ASSUME NEW o, NEW from, LogFits(o, from), NEW call, call.order = o, CallFits(call, from)
  PROVE  /\ \A j \in DOMAIN call.events : IsStep(call.events[j], o) =>
              /\ j = 1
              /\ call.events[j].type = call.next.status
              /\ \A i \in DOMAIN log : IsStep(log[i], o) =>
                   /\ call.events[j].type # "committed"
                   /\ log[i].type \notin {"fulfilled", "cancelled"}
         /\ \A i \in DOMAIN log : IsStep(log[i], o) =>
              /\ call.next.status \notin {"none", "draft"}
              /\ log[i].type \notin {"fulfilled", "cancelled"}
         /\ call.next.status = "draft" =>
              \A j \in DOMAIN call.events : ~ IsStep(call.events[j], o)
         /\ call.next.status # "none"
<1> DEFINE types == [i \in DOMAIN call.events |-> call.events[i].type]
<1>1. Advances(from, types, call.next.status)
  BY DEF CallFits
<1>2. /\ DOMAIN types = DOMAIN call.events
      /\ \A j \in DOMAIN call.events : types[j] = call.events[j].type
  OBVIOUS
<1> HIDE DEF types
<1>3. CASE /\ from \in {"none", "draft"} /\ call.next.status = "draft"
           /\ \A i \in DOMAIN types : types[i] \notin Lifecycle
  <2>1. \A i \in DOMAIN log : ~ IsStep(log[i], o)
    BY <1>3 DEF LogFits
  <2>2. \A j \in DOMAIN call.events : ~ IsStep(call.events[j], o)
    BY <1>2, <1>3 DEF IsStep
  <2>3. QED
    BY <1>3, <2>1, <2>2
<1>4. CASE /\ CanTransition(from, call.next.status)
                \/ (from = "partially_fulfilled" /\ call.next.status = from)
           /\ \A i \in DOMAIN types : types[i] \in Lifecycle => i = 1 /\ types[i] = call.next.status
  <2>1. /\ from \in {"draft", "committed", "partially_fulfilled"}
        /\ call.next.status \notin {"none", "draft"}
        /\ call.next.status = "committed" => from = "draft"
    BY <1>4 DEF CanTransition
  <2>2. \A i \in DOMAIN log : IsStep(log[i], o) =>
          from # "draft" /\ log[i].type \notin {"fulfilled", "cancelled"}
    BY <2>1 DEF LogFits
  <2>3. \A j \in DOMAIN call.events : IsStep(call.events[j], o) =>
          j = 1 /\ call.events[j].type = call.next.status
    BY <1>2, <1>4 DEF IsStep
  <2>4. QED
    BY <2>1, <2>2, <2>3
<1>5. QED
  BY <1>1, <1>3, <1>4 DEF Advances

LEMMA InsertKeepsSteps ==
  ASSUME Serial, OrdersInv, StepsInv, NEW c \in Client, InsertRows(c)
  PROVE  StepsInv'
<1> DEFINE o == running[c].order
           events == running[c].events
           to == running[c].next.status
<1>1. /\ running[c] \in CallState /\ running[c].at = "insert" /\ log \in Seq(Event)
      /\ log' = log \o events /\ orders' = orders
  BY DEF OrdersInv, OrdersTypeOK, InsertRows
<1>2. o \in Order /\ events \in Seq(Event)
  BY <1>1 DEF CallState
<1>3. /\ running'[c].at = "idle" /\ \A d \in Client : d = c
  BY FreshIsIdle DEF OrdersInv, OrdersTypeOK, InsertRows, Serial
<1>4. PICK from : LogFits(o, from) /\ CallFits(running[c], from)
  BY <1>1 DEF StepsInv
<1>5. orders[o].status = to
  BY <1>1 DEF StepsInv
<1>6. \A p \in Order \ {o} : LogFits(p, orders[p].status)
  BY <1>1, <1>3 DEF StepsInv
<1>7. \A j \in DOMAIN events : events[j].order = o
  BY <1>4 DEF CallFits
<1>8. /\ \A j \in DOMAIN events : IsStep(events[j], o) =>
           /\ j = 1 /\ events[j].type = to
           /\ \A i \in DOMAIN log : IsStep(log[i], o) =>
                events[j].type # "committed" /\ log[i].type \notin {"fulfilled", "cancelled"}
      /\ \A i \in DOMAIN log : IsStep(log[i], o) =>
           to \notin {"none", "draft"} /\ log[i].type \notin {"fulfilled", "cancelled"}
      /\ to = "draft" => \A j \in DOMAIN events : ~ IsStep(events[j], o)
      /\ to # "none"
  BY <1>4, OneStep
<1>9. /\ Len(log) \in Nat /\ DOMAIN log = 1..Len(log)
      /\ Len(events) \in Nat /\ DOMAIN events = 1..Len(events)
      /\ DOMAIN log' = 1..(Len(log) + Len(events))
      /\ \A i \in 1..Len(log) : log'[i] = log[i]
      /\ \A j \in 1..Len(events) : log'[Len(log) + j] = events[j]
  BY <1>1, <1>2
<1> HIDE DEF o, events, to
<1>10. \A i \in DOMAIN log' :
         \/ i \in DOMAIN log /\ log'[i] = log[i]
         \/ \E j \in DOMAIN events : i = Len(log) + j /\ log'[i] = events[j]
  <2>1. SUFFICES ASSUME NEW i \in DOMAIN log', i \notin DOMAIN log
                 PROVE  \E j \in DOMAIN events : i = Len(log) + j /\ log'[i] = events[j]
    BY <1>9
  <2>2. i - Len(log) \in DOMAIN events /\ i = Len(log) + (i - Len(log))
    BY <1>9, <2>1
  <2>3. QED
    BY <1>9, <2>2
<1>11. ASSUME NEW p \in Order PROVE LogFits(p, orders[p].status)'
  <2>1. SUFFICES ASSUME NEW i \in DOMAIN log', IsStep(log'[i], p)
                 PROVE  /\ orders[p].status \notin {"none", "draft"}
                        /\ orders[p].status \in {"committed", "partially_fulfilled"} =>
                             log'[i].type \notin {"fulfilled", "cancelled"}
    BY <1>1 DEF LogFits
  <2>2. CASE p = o
    BY <1>5, <1>8, <1>10, <2>1, <2>2
  <2>3. CASE p # o
    <3>1. i \in DOMAIN log /\ log'[i] = log[i]
      BY <1>7, <1>10, <2>1, <2>3 DEF IsStep
    <3>2. QED
      BY <1>6, <2>1, <2>3, <3>1 DEF LogFits
  <2>4. QED
    BY <2>2, <2>3
<1>12. LifecycleInOrder'
  <2>1. SUFFICES ASSUME NEW i \in DOMAIN log', NEW j \in DOMAIN log', i < j,
                        log'[i].order = log'[j].order,
                        log'[i].type \in Lifecycle, log'[j].type \in Lifecycle
                 PROVE  log'[j].type # "committed" /\ log'[i].type \notin {"fulfilled", "cancelled"}
    BY DEF LifecycleInOrder
  <2>2. CASE j \in DOMAIN log
    <3>1. i \in DOMAIN log
      BY <1>9, <2>1, <2>2
    <3>2. log'[i] = log[i] /\ log'[j] = log[j]
      BY <1>9, <2>2, <3>1
    <3>3. QED
      BY <2>1, <2>2, <3>1, <3>2 DEF StepsInv, LifecycleInOrder
  <2>3. CASE j \notin DOMAIN log
    <3>1. PICK n \in DOMAIN events : j = Len(log) + n /\ log'[j] = events[n]
      BY <1>10, <2>3
    <3>2. IsStep(events[n], o) /\ IsStep(log'[i], o)
      BY <1>7, <2>1, <3>1 DEF IsStep
    <3>3. i \in DOMAIN log /\ log'[i] = log[i]
      <4>1. SUFFICES ASSUME NEW k \in DOMAIN events, i = Len(log) + k, log'[i] = events[k]
                     PROVE  FALSE
        BY <1>10
      <4>2. k = 1 /\ n = 1
        BY <1>8, <3>2, <4>1
      <4>3. QED
        BY <1>9, <2>1, <3>1, <4>1, <4>2
    <3>4. QED
      BY <1>8, <3>1, <3>2, <3>3
  <2>4. QED
    BY <2>2, <2>3
<1>13. QED
  BY <1>3, <1>11, <1>12 DEF StepsInv

LEMMA RefusalKeepsSteps ==
  ASSUME Serial, OrdersInv, StepsInv, NEW c \in Client, CatalogRefuses(c)
  PROVE  StepsInv'
<1>1. /\ orders' = orders /\ log' = log /\ running[c].at = "save" /\ running'[c].at = "idle"
      /\ \A d \in Client : d = c
  BY FreshIsIdle DEF OrdersInv, OrdersTypeOK, CatalogRefuses, Serial
<1>2. \A p \in Order : LogFits(p, orders[p].status)'
  BY <1>1 DEF StepsInv, LogFits
<1>3. LifecycleInOrder'
  BY <1>1 DEF StepsInv, LifecycleInOrder
<1>4. QED
  BY <1>1, <1>2, <1>3 DEF StepsInv

LEMMA StepsInvariant == ASSUME Serial PROVE OrdersSpec => []StepsInv
<1>1. OrdersInit => StepsInv
  <2>1. SUFFICES ASSUME OrdersInit PROVE StepsInv
    OBVIOUS
  <2>2. log = <<>> /\ \A c \in Client : running[c] = Fresh
    BY <2>1 DEF OrdersInit
  <2>3. QED
    BY <2>2, FreshIsIdle DEF StepsInv, LifecycleInOrder, LogFits
<1>2. OrdersInv /\ StepsInv /\ [OrdersNext]_ordersVars => StepsInv'
  <2>1. SUFFICES ASSUME OrdersInv, StepsInv, [OrdersNext]_ordersVars PROVE StepsInv'
    OBVIOUS
  <2>2. CASE OrdersNext
    <3>1. PICK c \in Client : \/ \E o \in Order : Operate(c, o)
                              \/ CatalogRefuses(c)
                              \/ SaveOrder(c)
                              \/ InsertRows(c)
      BY <2>2 DEF OrdersNext
    <3>2. ASSUME NEW o \in Order, Operate(c, o) PROVE StepsInv'
      BY <2>1, <3>2, OperationsStageWell, StageKeepsSteps DEF OrdersInv
    <3>3. QED
      BY <2>1, <3>1, <3>2, RefusalKeepsSteps, SaveKeepsSteps, InsertKeepsSteps
  <2>3. CASE UNCHANGED ordersVars
    BY <2>1, <2>3 DEF ordersVars, StepsInv, LifecycleInOrder, LogFits, CallFits
  <2>4. QED
    BY <2>1, <2>2, <2>3
<1>3. QED
  BY <1>1, <1>2, OrdersInvariant, PTL DEF OrdersSpec

\* When no two calls of the service overlap, consumers read of one commit of an order,
\* before any fulfilment, and of nothing after its end.
THEOREM LifecycleInOrderAlways ==
  ASSUME Serial
  PROVE  OrdersSpec => []LifecycleInOrder
<1>1. StepsInv => LifecycleInOrder
  BY DEF StepsInv
<1>2. QED
  BY <1>1, StepsInvariant, PTL

-----------------------------------------------------------------------------
(***************************************************************************)
(* What a call makes of the order it has read, line by line, and the rows  *)
(* it is to publish about it.                                              *)
(***************************************************************************)
Plain(row) == row.type \notin Lifecycle /\ row.request = <<>>

\* An order becomes one of this type, with what has been asked for or is left.
Follows(call, from, type, request) ==
  /\ call.next.status = type
  /\ \A l \in Line : call.next.lines[l].quantity = from.lines[l].quantity
  /\ \/ /\ type = "committed" /\ request = <<>> /\ from.status = "draft"
        /\ \A l \in Line : call.next.lines[l].fulfilled = 0 /\ from.lines[l].fulfilled = 0
     \/ /\ type = "fulfilled" /\ request = <<>>
        /\ from.status = "committed" \/ call.op = "completeOrder"
        /\ from.status \in {"committed", "partially_fulfilled"}
        /\ \A l \in Line : call.next.lines[l].fulfilled = from.lines[l].quantity
     \/ /\ type \in {"partially_fulfilled", "fulfilled"} /\ request \in FulfilRequests
        /\ from.status \in {"committed", "partially_fulfilled"}
        /\ \A l \in Line :
             call.next.lines[l].fulfilled = from.lines[l].fulfilled + Asked(request, l)
     \/ /\ type = "cancelled" /\ request = <<>>
        /\ from.status \in {"committed", "partially_fulfilled"}
             \/ (from.status = "draft" /\ call.op = "discardOrder")
        /\ \A l \in Line : call.next.lines[l].fulfilled = from.lines[l].fulfilled

Drafting(call, from) ==
  /\ from.status \in {"none", "draft"} /\ call.next.status = "draft"
  /\ \A l \in Line : from.lines[l].fulfilled = 0 /\ call.next.lines[l].fulfilled = 0
  /\ \A i \in DOMAIN call.events : Plain(call.events[i])

Turns(call, from) ==
  \E type \in Lifecycle, request \in Seq(Fulfilment) :
    /\ 1 \in DOMAIN call.events
    /\ call.events[1].type = type /\ call.events[1].request = request
    /\ \A i \in DOMAIN call.events : i # 1 => Plain(call.events[i])
    /\ Follows(call, from, type, request)

Outcome(call, from) ==
  /\ \A i \in DOMAIN call.events : /\ call.events[i].order = call.order
                                   /\ call.events[i].lines = call.next.lines
  /\ Drafting(call, from) \/ Turns(call, from)

StagesOutcome(c, o) ==
  \E call \in CallState :
    /\ running[c].at = "idle" /\ running' = [running EXCEPT ![c] = call]
    /\ call.at = "save" /\ call.order = o /\ call.op \in UseCases
    /\ Rows + Len(call.events) <= MaxEvents
    /\ UNCHANGED <<orders, log>>
    /\ Outcome(call, orders[o])

\* The order that is staged and the types of its rows, as the operations give them.
DraftStaged(from, next, types, request) ==
  /\ from.status \in {"none", "draft"} /\ next.status = "draft" /\ request = <<>>
  /\ \A l \in Line : from.lines[l].fulfilled = 0 /\ next.lines[l].fulfilled = 0
  /\ \A i \in DOMAIN types : types[i] \notin Lifecycle

TurnStaged(op, from, next, types, request) ==
  /\ 1 \in DOMAIN types /\ types[1] \in Lifecycle
  /\ \A i \in DOMAIN types : i # 1 => types[i] \notin Lifecycle /\ request = <<>>
  /\ Follows([next |-> next, op |-> op], from, types[1], request)

LEMMA ShowsOutcome ==
  ASSUME NEW c, NEW o \in Order, NEW op, NEW next \in OrderState,
         NEW types \in Seq(EventType), NEW request \in Seq(Fulfilment),
         Stage(c, op, o, next, types, request),
         \/ DraftStaged(orders[o], next, types, request)
         \/ TurnStaged(op, orders[o], next, types, request)
  PROVE  StagesOutcome(c, o)
<1> DEFINE events == [i \in DOMAIN types |->
             [type |-> types[i], order |-> o, lines |-> next.lines, request |-> request]]
           call == [at |-> "save", op |-> op, order |-> o, next |-> next, events |-> events]
<1>1. /\ op \in UseCases /\ running[c].at = "idle" /\ Rows + Len(types) <= MaxEvents
      /\ running' = [running EXCEPT ![c] = call] /\ UNCHANGED <<orders, log>>
  BY DEF Stage
<1>2. Len(types) \in Nat /\ DOMAIN types = 1..Len(types) /\ DOMAIN events = DOMAIN types
  OBVIOUS
<1>3. /\ \A i \in DOMAIN events :
           /\ events[i].type = types[i] /\ events[i].order = o
           /\ events[i].lines = next.lines /\ events[i].request = request
      /\ \A i \in DOMAIN events : events[i] \in Event
  <2>1. next.lines \in Lines /\ \A i \in DOMAIN types : types[i] \in EventType
    BY DEF OrderState
  <2>2. QED
    BY <1>2, <2>1 DEF Event
<1>4. events \in Seq(Event) /\ Len(events) = Len(types)
  BY <1>2, <1>3
<1>5. /\ call.at = "save" /\ call.op = op /\ call.order = o /\ call.next = next
      /\ call.events = events
  OBVIOUS
<1>6. call \in CallState
  BY <1>1, <1>4, OrdersAssumption DEF CallState
<1> HIDE DEF events, call
<1>7. \A i \in DOMAIN call.events : /\ call.events[i].order = call.order
                                    /\ call.events[i].lines = call.next.lines
  BY <1>3, <1>5
<1>8. CASE DraftStaged(orders[o], next, types, request)
  <2>1. Drafting(call, orders[o])
    BY <1>2, <1>3, <1>5, <1>8 DEF DraftStaged, Drafting, Plain
  <2>2. QED
    BY <1>1, <1>4, <1>5, <1>6, <1>7, <2>1 DEF StagesOutcome, Outcome
<1>9. CASE TurnStaged(op, orders[o], next, types, request)
  <2>1. Follows(call, orders[o], types[1], request)
    BY <1>5, <1>9 DEF TurnStaged, Follows
  <2>2. Turns(call, orders[o])
    <3>1. 1 \in DOMAIN events /\ events[1].type = types[1] /\ events[1].request = request
      BY <1>2, <1>3, <1>9 DEF TurnStaged
    <3>2. types[1] \in Lifecycle /\ \A i \in DOMAIN events : i # 1 => Plain(events[i])
      BY <1>2, <1>3, <1>9 DEF TurnStaged, Plain
    <3>3. QED
      BY <1>5, <2>1, <3>1, <3>2 DEF Turns
  <2>3. QED
    BY <1>1, <1>4, <1>5, <1>6, <1>7, <2>2 DEF StagesOutcome, Outcome
<1>10. QED
  BY <1>8, <1>9

LEMMA DraftsOutcome ==
  ASSUME OrdersTypeOK, OrdersAreConsistent, NEW c \in Client, NEW o \in Order,
         \/ CreateOrder(c, o)
         \/ \E q \in Quantities : AddLine(c, o, q)
         \/ \E l \in Line, q \in Quantities : UpdateLineQuantity(c, o, l, q)
         \/ \E l \in Line : RemoveLine(c, o, l)
  PROVE  StagesOutcome(c, o)
<1>1. orders[o] \in OrderState /\ Consistent(orders[o])
  BY DEF OrdersTypeOK, OrdersAreConsistent
<1>2. orders[o].status \in {"none", "draft"}
  BY DEF CreateOrder, AddLine, UpdateLineQuantity, RemoveLine
<1>3. \A l \in Line : /\ orders[o].lines[l].fulfilled = 0
                      /\ orders[o].lines[l] \in [quantity : Nat, fulfilled : Nat]
  BY <1>1, <1>2 DEF Consistent, OrderState, Lines
<1>4. \A t, u \in {"created", "line_added", "updated", "line_removed"} :
        /\ << t >> \in Seq(EventType) /\ << t, u >> \in Seq(EventType)
        /\ \A i \in DOMAIN << t >> : << t >>[i] \notin Lifecycle
        /\ \A i \in DOMAIN << t, u >> : << t, u >>[i] \notin Lifecycle
  <2> SUFFICES ASSUME NEW t \in {"created", "line_added", "updated", "line_removed"},
                      NEW u \in {"created", "line_added", "updated", "line_removed"}
               PROVE  /\ << t >> \in Seq(EventType) /\ << t, u >> \in Seq(EventType)
                      /\ \A i \in DOMAIN << t >> : << t >>[i] \notin Lifecycle
                      /\ \A i \in DOMAIN << t, u >> : << t, u >>[i] \notin Lifecycle
    OBVIOUS
  <2>1. t \in EventType /\ u \in EventType /\ t \notin Lifecycle /\ u \notin Lifecycle
    BY DEF EventType, Lifecycle
  <2>2. QED
    BY <2>1
\* With such an order and such types the rest follows.
<1>a. ASSUME NEW op, NEW next \in OrderState, next.status = "draft",
             \A l \in Line : next.lines[l].fulfilled = 0,
             NEW types \in Seq(EventType), \A i \in DOMAIN types : types[i] \notin Lifecycle,
             Stage(c, op, o, next, types, <<>>)
      PROVE  StagesOutcome(c, o)
  <2>1. DraftStaged(orders[o], next, types, <<>>)
    BY <1>2, <1>3, <1>a DEF DraftStaged
  <2>2. QED
    BY <1>a, <2>1, TypesAreTypes, ShowsOutcome
<1>5. CASE CreateOrder(c, o)
  <2> DEFINE next == [NoOrder EXCEPT !.status = "draft"]
  <2>1. next \in OrderState /\ next.status = "draft" /\ \A l \in Line : next.lines[l].fulfilled = 0
    BY DEF NoOrder, NoLines, OrderState, Lines, Status
  <2>2. Stage(c, "createOrder", o, next, <<"created">>, <<>>)
    BY <1>5 DEF CreateOrder
  <2> HIDE DEF next
  <2>3. QED
    BY <1>4, <1>a, <2>1, <2>2
<1>6. ASSUME NEW q \in Quantities, AddLine(c, o, q) PROVE StagesOutcome(c, o)
  <2> DEFINE k == lineCount + 1
             next == [orders[o] EXCEPT !.lines[k] = [quantity |-> q, fulfilled |-> 0]]
  <2>1. q \in Nat /\ k \in Line /\ orders[o].status = "draft"
    BY <1>6, OrdersAssumption DEF AddLine
  <2>2. Stage(c, "addLine", o, next, <<"line_added", "updated">>, <<>>)
    BY <1>6 DEF AddLine
  <2> HIDE DEF k
  <2>3. next \in OrderState /\ next.status = "draft" /\ \A l \in Line : next.lines[l].fulfilled = 0
    BY <1>1, <1>3, <2>1 DEF OrderState, Lines
  <2> HIDE DEF next
  <2>4. QED
    BY <1>4, <1>a, <2>2, <2>3
<1>7. ASSUME NEW k \in Line, NEW q \in Quantities, UpdateLineQuantity(c, o, k, q)
      PROVE  StagesOutcome(c, o)
  <2> DEFINE next == [orders[o] EXCEPT !.lines[k].quantity = q]
  <2>1. q \in Nat /\ orders[o].status = "draft"
    BY <1>7, OrdersAssumption DEF UpdateLineQuantity
  <2>2. Stage(c, "updateLineQuantity", o, next, <<"updated">>, <<>>)
    BY <1>7 DEF UpdateLineQuantity
  <2>3. next \in OrderState /\ next.status = "draft" /\ \A l \in Line : next.lines[l].fulfilled = 0
    BY <1>1, <1>3, <2>1 DEF OrderState, Lines
  <2> HIDE DEF next
  <2>4. QED
    BY <1>4, <1>a, <2>2, <2>3
<1>8. ASSUME NEW k \in Line, RemoveLine(c, o, k) PROVE StagesOutcome(c, o)
  <2> DEFINE next == [orders[o] EXCEPT !.lines[k] = NoLines[k]]
  <2>1. orders[o].status = "draft" /\ NoLines[k] = [quantity |-> 0, fulfilled |-> 0]
    BY <1>8 DEF RemoveLine, NoLines
  <2>2. Stage(c, "removeLine", o, next, <<"line_removed", "updated">>, <<>>)
    BY <1>8 DEF RemoveLine
  <2>3. next \in OrderState /\ next.status = "draft" /\ \A l \in Line : next.lines[l].fulfilled = 0
    BY <1>1, <1>3, <2>1 DEF OrderState, Lines
  <2> HIDE DEF next
  <2>4. QED
    BY <1>4, <1>a, <2>2, <2>3
<1>9. QED
  BY <1>5, <1>6, <1>7, <1>8

LEMMA TurnsOutcome ==
  ASSUME OrdersTypeOK, OrdersAreConsistent, NEW c \in Client, NEW o \in Order,
         \/ CommitOrder(c, o) \/ CancelOrder(c, o) \/ FulfillOrder(c, o)
         \/ \E request \in FulfilRequests : FulfillLines(c, o, request)
  PROVE  StagesOutcome(c, o)
<1>1. orders[o] \in OrderState /\ Consistent(orders[o])
  BY DEF OrdersTypeOK, OrdersAreConsistent
<1>2. \A l \in Line : orders[o].lines[l] \in [quantity : Nat, fulfilled : Nat]
  BY <1>1 DEF OrderState, Lines
<1>3. {"committed", "cancelled", "fulfilled", "partially_fulfilled"} \subseteq EventType \intersect Lifecycle
      /\ "pricing_finalized" \in EventType /\ "pricing_finalized" \notin Lifecycle
  BY DEF EventType, Lifecycle
<1>4. \A t : /\ 1 \in DOMAIN << t >> /\ << t >>[1] = t /\ (\A i \in DOMAIN << t >> : i = 1)
  OBVIOUS
<1>5. CASE CommitOrder(c, o)
  <2> DEFINE next == [orders[o] EXCEPT !.status = "committed"]
             types == <<"committed", "pricing_finalized">>
  <2>1. next \in OrderState /\ next.status = "committed" /\ next.lines = orders[o].lines
    BY <1>1 DEF OrderState, Status
  <2>2. orders[o].status = "draft"
    BY <1>5 DEF CommitOrder, CanTransition
  <2>3. Stage(c, "commitOrder", o, next, types, <<>>)
    BY <1>5 DEF CommitOrder
  <2>4. \A l \in Line : orders[o].lines[l].fulfilled = 0
    BY <1>1, <2>2 DEF Consistent
  <2>5. /\ types \in Seq(EventType) /\ 1 \in DOMAIN types /\ types[1] = "committed"
        /\ \A i \in DOMAIN types : i # 1 => types[i] \notin Lifecycle
    BY <1>3, TypesAreTypes
  <2> HIDE DEF next, types
  <2>6. Follows([next |-> next, op |-> "commitOrder"], orders[o], "committed", <<>>)
    BY <2>1, <2>2, <2>4 DEF Follows
  <2>7. TurnStaged("commitOrder", orders[o], next, types, <<>>)
    BY <1>3, <2>5, <2>6 DEF TurnStaged
  <2>8. QED
    BY <2>1, <2>3, <2>5, <2>7, TypesAreTypes, ShowsOutcome
<1>6. CASE CancelOrder(c, o)
  <2> DEFINE next == [orders[o] EXCEPT !.status = "cancelled"]
             op == IF orders[o].status = "draft" THEN "discardOrder" ELSE "cancelOrder"
  <2>1. next \in OrderState /\ next.status = "cancelled" /\ next.lines = orders[o].lines
    BY <1>1 DEF OrderState, Status
  <2>2. \/ orders[o].status = "draft" /\ op = "discardOrder"
        \/ orders[o].status \in {"committed", "partially_fulfilled"}
    BY <1>6 DEF CancelOrder, CanTransition
  <2>3. Stage(c, op, o, next, <<"cancelled">>, <<>>)
    BY <1>6 DEF CancelOrder
  <2> HIDE DEF next, op
  <2>4. Follows([next |-> next, op |-> op], orders[o], "cancelled", <<>>)
    BY <2>1, <2>2 DEF Follows
  <2>5. TurnStaged(op, orders[o], next, <<"cancelled">>, <<>>)
    BY <1>3, <1>4, <2>4 DEF TurnStaged
  <2>6. QED
    BY <1>3, <2>1, <2>3, <2>5, TypesAreTypes, ShowsOutcome
<1>7. CASE FulfillOrder(c, o)
  <2> DEFINE lines == [l \in Line |->
               [orders[o].lines[l] EXCEPT !.fulfilled = orders[o].lines[l].quantity]]
             next == [status |-> "fulfilled", lines |-> lines]
             op == IF orders[o].status = "committed" THEN "fulfillOrder" ELSE "completeOrder"
  <2>1. \A l \in Line : /\ lines[l] \in [quantity : Nat, fulfilled : Nat]
                        /\ lines[l].quantity = orders[o].lines[l].quantity
                        /\ lines[l].fulfilled = orders[o].lines[l].quantity
    BY <1>2
  <2>2. next \in OrderState /\ next.status = "fulfilled" /\ next.lines = lines
    BY <2>1 DEF OrderState, Status, Lines
  <2>3. /\ orders[o].status \in {"committed", "partially_fulfilled"}
        /\ orders[o].status = "committed" \/ op = "completeOrder"
    BY <1>7 DEF FulfillOrder
  <2>4. Stage(c, op, o, next, <<"fulfilled">>, <<>>)
    BY <1>7 DEF FulfillOrder
  <2> HIDE DEF next, op, lines
  <2>5. Follows([next |-> next, op |-> op], orders[o], "fulfilled", <<>>)
    BY <2>1, <2>2, <2>3 DEF Follows
  <2>6. TurnStaged(op, orders[o], next, <<"fulfilled">>, <<>>)
    BY <1>3, <1>4, <2>5 DEF TurnStaged
  <2>7. QED
    BY <1>3, <2>2, <2>4, <2>6, TypesAreTypes, ShowsOutcome
<1>8. ASSUME NEW request \in FulfilRequests, FulfillLines(c, o, request)
      PROVE  StagesOutcome(c, o)
  <2> DEFINE filled == Fulfilled(orders[o], request)
             to == IF AllDone(filled) THEN "fulfilled" ELSE "partially_fulfilled"
             next == [filled EXCEPT !.status = to]
  <2>1. request \in Seq(Fulfilment) /\ \A l \in Line : Asked(request, l) \in Nat
    BY OrdersAssumption, AskedIsNumber
  <2>2. \A l \in Line : /\ filled.lines[l] \in [quantity : Nat, fulfilled : Nat]
                        /\ filled.lines[l].quantity = orders[o].lines[l].quantity
                        /\ filled.lines[l].fulfilled =
                             orders[o].lines[l].fulfilled + Asked(request, l)
    <3>1. filled.lines = [l \in Line |-> [orders[o].lines[l] EXCEPT
                            !.fulfilled = orders[o].lines[l].fulfilled + Asked(request, l)]]
      BY <1>1 DEF Fulfilled, OrderState
    <3> HIDE DEF filled
    <3>2. QED
      BY <1>2, <2>1, <3>1
  <2>3. filled \in OrderState
    BY <1>1, <2>2 DEF Fulfilled, OrderState, Lines
  <2>4. to \in {"fulfilled", "partially_fulfilled"}
    OBVIOUS
  <2>5. next \in OrderState /\ next.status = to /\ next.lines = filled.lines
    BY <2>3, <2>4 DEF OrderState, Status
  <2>6. orders[o].status \in {"committed", "partially_fulfilled"}
          /\ Stage(c, "fulfillLines", o, next, << to >>, request)
    BY <1>8 DEF FulfillLines
  <2> HIDE DEF next, filled, to
  <2>7. Follows([next |-> next, op |-> "fulfillLines"], orders[o], to, request)
    BY <2>2, <2>4, <2>5, <2>6 DEF Follows
  <2>8. TurnStaged("fulfillLines", orders[o], next, << to >>, request)
    BY <1>3, <1>4, <2>4, <2>7 DEF TurnStaged
  <2>9. QED
    BY <1>3, <2>1, <2>4, <2>5, <2>6, <2>8, TypesAreTypes, ShowsOutcome
<1>9. QED
  BY <1>5, <1>6, <1>7, <1>8

LEMMA OperationsOutcome ==
  ASSUME OrdersTypeOK, OrdersAreConsistent, NEW c \in Client, NEW o \in Order, Operate(c, o)
  PROVE  StagesOutcome(c, o)
BY DraftsOutcome, TurnsOutcome DEF Operate

-----------------------------------------------------------------------------
(***************************************************************************)
(* Sums over the rows of an order.                                         *)
(***************************************************************************)
StockProofs == INSTANCE InventoryProofs WITH
                 Call <- Handler, Event <- 1..MaxEvents, Request <- {},
                 OrderEvent <- <<>>, StockRequest <- <<>>, call <- handling

LEMMA StockAssumption == StockProofs!InventoryAssumption
<1> DEFINE Works == StockProofs!Work(StockProofs!OrderMovement)
<1>1. 1 \in 1..MaxEvents
  BY OrdersAssumption, OrderStockAssumption
<1>2. <<>> \in [{} -> Works] /\ {} \in SUBSET (1..MaxEvents)
  OBVIOUS
<1>3. \E S \in SUBSET (1..MaxEvents) : <<>> \in [S -> Works]
  <2> HIDE DEF Works
  <2>1. QED
    BY <1>2
<1>4. \E S \in SUBSET Sku : Opening \in [S -> Nat]
  BY OrderStockAssumption
<1>5. <<>> \in [{} -> StockProofs!Work({"receipt", "adjustment"})]
  OBVIOUS
<1>6. QED
  BY <1>1, <1>3, <1>4, <1>5 DEF StockProofs!InventoryAssumption, StockProofs!Source

\* The sums of InventoryProofs, of which its lemmas speak here.
SumOver(g, S) == StockProofs!SumOver(g, S)

IntOn(g, S) == \A x \in S : g[x] \in Int

Agree(g, h, S) == \A x \in S : g[x] = h[x]

LEMMA FiniteThere ==
  ASSUME NEW S, IsFiniteSet(S)
  PROVE  StockProofs!IsFiniteSet(S)
BY DEF IsFiniteSet, StockProofs!IsFiniteSet

Pick(s) == CHOOSE x \in s : TRUE

\* f gives the sum over each subset of S.
Sums(f, g, S) ==
  f = [s \in SUBSET S |-> IF s = {} THEN 0 ELSE g[Pick(s)] + f[s \ {Pick(s)}]]

LEMMA SumsAreSums ==
  ASSUME NEW S, IsFiniteSet(S), NEW g
  PROVE  /\ \E f : Sums(f, g, S)
         /\ \A f : Sums(f, g, S) => f[S] = SumOver(g, S)
<1>1. StockProofs!IsFiniteSet(S)
  BY FiniteThere
<1>2. \A f : Sums(f, g, S) <=> StockProofs!Sums(f, g, SUBSET S)
  BY DEF Sums, StockProofs!Sums, Pick, StockProofs!Pick
<1>3. \E f : StockProofs!Sums(f, g, SUBSET S)
  BY <1>1, StockAssumption, StockProofs!SumsExist
<1>4. PICK U \in SUBSET S : U = S
  OBVIOUS
<1>5. PICK h : h = g
  OBVIOUS
<1>6. StockProofs!IsFiniteSet(U) /\ StockProofs!Agree(g, h, U)
  BY <1>1, <1>4, <1>5 DEF StockProofs!Agree
<1>7. ASSUME NEW f, StockProofs!Sums(f, g, SUBSET S) PROVE f[S] = SumOver(g, S)
  <2>1. f[U] = StockProofs!SumOver(h, U)
    BY <1>6, <1>7, StockAssumption, StockProofs!SumIs
  <2>2. QED
    BY <1>4, <1>5, <2>1 DEF SumOver
<1>8. QED
  BY <1>2, <1>3, <1>7

LEMMA SumEmpty == ASSUME NEW g PROVE SumOver(g, {}) = 0
BY StockAssumption, StockProofs!SumEmpty DEF SumOver

LEMMA SumStep ==
  ASSUME NEW S, IsFiniteSet(S), NEW g, IntOn(g, S)
  PROVE  /\ SumOver(g, S) \in Int
         /\ \A x \in S : SumOver(g, S) = g[x] + SumOver(g, S \ {x})
BY FiniteThere, StockAssumption, StockProofs!SumStep DEF SumOver, IntOn, StockProofs!IntOn

LEMMA SumSame ==
  ASSUME NEW S, IsFiniteSet(S), NEW g, NEW h, Agree(g, h, S)
  PROVE  SumOver(g, S) = SumOver(h, S)
BY FiniteThere, StockAssumption, StockProofs!SumSame DEF SumOver, Agree, StockProofs!Agree

LEMMA SumPad ==
  ASSUME NEW S, IsFiniteSet(S), NEW T, T \subseteq S, NEW g, IntOn(g, S),
         \A x \in S \ T : g[x] = 0
  PROVE  SumOver(g, S) = SumOver(g, T)
BY FiniteThere, StockAssumption, StockProofs!SumPad DEF SumOver, IntOn, StockProofs!IntOn

\* What the rows of an order contribute, by F.
Shares(rows, o, F) == [i \in DOMAIN rows |-> IF rows[i].order = o THEN F[rows[i]] ELSE 0]

Tally(rows, o, F) == SumOver(Shares(rows, o, F), DOMAIN rows)

LEMMA SharesAreInts ==
  ASSUME NEW rows \in Seq(Event), NEW o, NEW F \in [Event -> Int]
  PROVE  /\ IsFiniteSet(DOMAIN rows)
         /\ IntOn(Shares(rows, o, F), DOMAIN rows)
<1>1. DOMAIN rows = 1..Len(rows) /\ Len(rows) \in Nat
  OBVIOUS
<1>2. IsFiniteSet(DOMAIN rows)
  BY <1>1, FS_Interval
<1>3. QED
  BY <1>2 DEF IntOn, Shares

LEMMA TallyIsInt ==
  ASSUME NEW rows \in Seq(Event), NEW o, NEW F \in [Event -> Int]
  PROVE  Tally(rows, o, F) \in Int
BY SharesAreInts, SumStep DEF Tally

LEMMA TallyEmpty ==
  ASSUME NEW o, NEW F
  PROVE  Tally(<<>>, o, F) = 0
BY SumEmpty DEF Tally

\* Of the rows of one call only the first counts.
LEMMA TallyMore ==
  ASSUME NEW rows \in Seq(Event), NEW events \in Seq(Event), NEW o, NEW F \in [Event -> Int],
         \A i \in DOMAIN events : i # 1 /\ events[i].order = o => F[events[i]] = 0
  PROVE  Tally(rows \o events, o, F) =
           Tally(rows, o, F)
             + (IF 1 \in DOMAIN events /\ events[1].order = o THEN F[events[1]] ELSE 0)
<1> DEFINE all == rows \o events
           old == DOMAIN rows
           last == Len(rows) + 1
           g == Shares(rows, o, F)
           h == Shares(all, o, F)
<1>1. /\ Len(rows) \in Nat /\ Len(events) \in Nat /\ all \in Seq(Event)
      /\ old = 1..Len(rows) /\ DOMAIN events = 1..Len(events)
      /\ Len(all) = Len(rows) + Len(events)
  OBVIOUS
<1>2. DOMAIN all = 1..(Len(rows) + Len(events))
  BY <1>1
<1>3. /\ \A i \in old : all[i] = rows[i]
      /\ \A i \in DOMAIN all \ old : i - Len(rows) \in DOMAIN events /\ all[i] = events[i - Len(rows)]
  BY <1>1, <1>2
<1>4. Tally(all, o, F) = SumOver(h, DOMAIN all) /\ Tally(rows, o, F) = SumOver(g, old)
  BY DEF Tally
<1>5. /\ IsFiniteSet(old) /\ IsFiniteSet(DOMAIN all)
      /\ IntOn(g, old) /\ IntOn(h, DOMAIN all)
  BY <1>1, SharesAreInts
<1>6. \A i \in DOMAIN all \ old :
        h[i] = IF events[i - Len(rows)].order = o THEN F[events[i - Len(rows)]] ELSE 0
  BY <1>1, <1>2, <1>3 DEF Shares
<1>7. \A i \in old : g[i] = h[i]
  BY <1>1, <1>2, <1>3 DEF Shares
<1>8. old \subseteq DOMAIN all
  BY <1>1, <1>2
<1>9. \A i \in DOMAIN all \ (old \union {last}) : h[i] = 0
  <2> SUFFICES ASSUME NEW i \in DOMAIN all \ (old \union {last}) PROVE h[i] = 0
    OBVIOUS
  <2>1. /\ i - Len(rows) \in DOMAIN events
        /\ h[i] = IF events[i - Len(rows)].order = o THEN F[events[i - Len(rows)]] ELSE 0
    BY <1>3, <1>6
  <2>2. i - Len(rows) # 1
    BY <1>1, <1>2
  <2>3. QED
    BY <2>1, <2>2
<1> HIDE DEF g, h
<1>10. CASE 1 \in DOMAIN events /\ events[1].order = o
  <2>1. last \in DOMAIN all \ old
    BY <1>1, <1>2, <1>10
  <2>2. h[last] = F[events[1]]
    <3>1. last - Len(rows) = 1
      BY <1>1
    <3>2. QED
      BY <1>6, <1>10, <2>1, <3>1
  <2>3. F[events[1]] \in Int
    BY <1>10
  <2> DEFINE more == old \union {last}
             d == F[events[1]]
  <2>4. more \subseteq DOMAIN all /\ \A i \in DOMAIN all \ more : h[i] = 0
    BY <1>8, <1>9, <2>1
  <2> HIDE DEF all, old, last, d
  <2>5. SumOver(h, DOMAIN all) = SumOver(h, more)
    BY <1>5, <2>4, SumPad
  <2>6. SumOver(h, old) = SumOver(g, old)
    <3>1. Agree(g, h, old)
      BY <1>7 DEF Agree
    <3>2. QED
      BY <1>5, <3>1, SumSame
  <2>7. IsFiniteSet(more) /\ IntOn(h, more) /\ more \ {last} = old /\ last \in more
    BY <1>5, <2>1, <2>4, FS_Subset DEF IntOn, more
  <2>8. SumOver(h, more) = h[last] + SumOver(g, old)
    <3>1. SumOver(h, more) = h[last] + SumOver(h, more \ {last})
      BY <2>7, SumStep
    <3>2. QED
      BY <2>6, <2>7, <3>1
  <2>a. SumOver(g, old) \in Int /\ h[last] = d /\ d \in Int
    BY <1>5, <2>2, <2>3, SumStep DEF d
  <2>9. Tally(all, o, F) = Tally(rows, o, F) + d
    BY <1>4, <2>5, <2>8, <2>a
  <2>10. QED
    BY <1>10, <2>9 DEF d, all
<1>11. CASE 1 \notin DOMAIN events \/ events[1].order # o
  <2>1. \A i \in DOMAIN all \ old : h[i] = 0
    <3> SUFFICES ASSUME NEW i \in DOMAIN all \ old PROVE h[i] = 0
      OBVIOUS
    <3>1. CASE i = last
      <4>1. i - Len(rows) = 1
        BY <1>1, <3>1
      <4>2. QED
        BY <1>3, <1>6, <1>11, <4>1
    <3>2. CASE i # last
      BY <1>9, <3>2
    <3>3. QED
      BY <3>1, <3>2
  <2> HIDE DEF all, old
  <2>2. SumOver(h, DOMAIN all) = SumOver(h, old)
    BY <1>5, <1>8, <2>1, SumPad
  <2>3. SumOver(h, old) = SumOver(g, old)
    <3>1. Agree(g, h, old)
      BY <1>7 DEF Agree
    <3>2. QED
      BY <1>5, <3>1, SumSame
  <2>4. Tally(rows, o, F) \in Int
    BY TallyIsInt
  <2>5. Tally(all, o, F) = Tally(rows, o, F) + 0
    BY <1>4, <2>2, <2>3, <2>4
  <2>6. QED
    BY <1>11, <2>5 DEF all
<1>12. QED
  BY <1>10, <1>11

-----------------------------------------------------------------------------
(***************************************************************************)
(* The rows of the orders on file: those inserted, and those of the call   *)
(* that has saved its order and is about to insert its own.                *)
(***************************************************************************)
Saved == {c \in Client : running[c].at = "insert"}

Due == IF Saved = {} THEN log ELSE log \o running[CHOOSE c \in Client : TRUE].events

\* A call that is to save still has the order on file before it.
SavesRight ==
  \A c \in Client : running[c].at = "save" =>
    running[c].op \in UseCases /\ Outcome(running[c], orders[running[c].order])

\* A step that changes an order, and the rows that go with it.
Saves(call) ==
  /\ call \in CallState /\ call.op \in UseCases
  /\ Outcome(call, orders[call.order])
  /\ orders' = [orders EXCEPT ![call.order] = call.next]
  /\ Due' = Due \o call.events

LEMMA DueIsSequence == ASSUME OrdersTypeOK PROVE Due \in Seq(Event)
<1>1. CASE Saved = {}
  BY <1>1 DEF Due, OrdersTypeOK
<1>2. CASE Saved # {}
  <2> DEFINE d == CHOOSE c \in Client : TRUE
  <2>1. d \in Client
    BY <1>2 DEF Saved
  <2>2. running[d] \in CallState
    BY <2>1 DEF OrdersTypeOK
  <2>3. running[d].events \in Seq(Event) /\ log \in Seq(Event)
    BY <2>2 DEF CallState, OrdersTypeOK
  <2>4. QED
    BY <1>2, <2>3 DEF Due
<1>3. QED
  BY <1>1, <1>2

LEMMA DueOfSingle ==
  ASSUME Serial, NEW c \in Client
  PROVE  Due = IF running[c].at = "insert" THEN log \o running[c].events ELSE log
<1>1. (CHOOSE d \in Client : TRUE) = c
  BY DEF Serial
<1>2. Saved = IF running[c].at = "insert" THEN {c} ELSE {}
  BY DEF Serial, Saved
<1>3. QED
  BY <1>1, <1>2 DEF Due

LEMMA StageLeavesDue ==
  ASSUME Serial, OrdersTypeOK, NEW c \in Client, NEW o \in Order, StagesOutcome(c, o)
  PROVE  SavesRight' /\ orders' = orders /\ Due' = Due
<1>1. PICK call \in CallState :
        /\ running[c].at = "idle" /\ running' = [running EXCEPT ![c] = call]
        /\ call.at = "save" /\ call.order = o /\ call.op \in UseCases
        /\ UNCHANGED <<orders, log>>
        /\ Outcome(call, orders[o])
  BY DEF StagesOutcome
<1>2. running'[c] = call /\ \A d \in Client : d = c
  BY <1>1 DEF OrdersTypeOK, Serial
<1>3. SavesRight'
  BY <1>1, <1>2 DEF SavesRight
<1>4. Due = log
  BY <1>1, DueOfSingle
<1>5. Due' = log
  <2>1. Saved' = {}
    BY <1>1, <1>2 DEF Saved
  <2>2. QED
    BY <1>1, <2>1 DEF Due
<1>6. QED
  BY <1>1, <1>3, <1>4, <1>5

LEMMA SaveMakesDue ==
  ASSUME Serial, OrdersTypeOK, SavesRight, NEW c \in Client, SaveOrder(c)
  PROVE  SavesRight' /\ Saves(running[c])
<1>1. running[c] \in CallState /\ running[c].at = "save"
  BY DEF SaveOrder, OrdersTypeOK
<1>2. /\ running'[c].at = "insert" /\ running'[c].events = running[c].events
      /\ \A d \in Client : d = c
  BY <1>1 DEF SaveOrder, OrdersTypeOK, Serial, CallState
<1>3. SavesRight'
  BY <1>2 DEF SavesRight
<1>4. Due = log
  BY <1>1, DueOfSingle
<1>5. Due' = log \o running[c].events
  <2>1. Saved' # {} /\ (CHOOSE d \in Client : TRUE) = c
    BY <1>2 DEF Saved
  <2>2. log' = log
    BY DEF SaveOrder
  <2>3. QED
    BY <1>2, <2>1, <2>2 DEF Due
<1>6. running[c].op \in UseCases /\ Outcome(running[c], orders[running[c].order])
  BY <1>1 DEF SavesRight
<1>7. orders' = [orders EXCEPT ![running[c].order] = running[c].next]
  BY DEF SaveOrder
<1>8. QED
  BY <1>1, <1>3, <1>4, <1>5, <1>6, <1>7 DEF Saves

LEMMA EndLeavesDue ==
  ASSUME Serial, OrdersTypeOK, NEW c \in Client, InsertRows(c) \/ CatalogRefuses(c)
  PROVE  SavesRight' /\ orders' = orders /\ Due' = Due
<1>1. /\ running'[c] = Fresh /\ orders' = orders /\ \A d \in Client : d = c
      /\ log' = IF running[c].at = "insert" THEN log \o running[c].events ELSE log
  BY DEF InsertRows, CatalogRefuses, OrdersTypeOK, Serial
<1>2. Saved' = {} /\ SavesRight'
  BY <1>1, FreshIsIdle DEF Saved, SavesRight
<1>3. Due' = log'
  BY <1>2 DEF Due
<1>4. Due = log'
  BY <1>1, DueOfSingle
<1>5. QED
  BY <1>1, <1>2, <1>3, <1>4

\* A step saves one order together with what tells of it, or changes neither.
LEMMA DueStep ==
  ASSUME Serial, OrdersInv, SavesRight, [OrdersNext]_ordersVars
  PROVE  /\ SavesRight'
         /\ (orders' = orders /\ Due' = Due) \/ \E c \in Client : Saves(running[c])
<1>0. OrdersTypeOK /\ OrdersAreConsistent
  BY DEF OrdersInv
<1>1. CASE OrdersNext
  <2>1. PICK c \in Client : \/ \E o \in Order : Operate(c, o)
                            \/ CatalogRefuses(c)
                            \/ SaveOrder(c)
                            \/ InsertRows(c)
    BY <1>1 DEF OrdersNext
  <2>2. ASSUME NEW o \in Order, Operate(c, o) PROVE SavesRight' /\ orders' = orders /\ Due' = Due
    BY <1>0, <2>2, OperationsOutcome, StageLeavesDue
  <2>3. QED
    BY <1>0, <2>1, <2>2, SaveMakesDue, EndLeavesDue
<1>2. CASE UNCHANGED ordersVars
  <2>1. orders' = orders /\ running' = running /\ log' = log
    BY <1>2 DEF ordersVars
  <2>2. QED
    BY <2>1 DEF SavesRight, Due, Saved
<1>3. QED
  BY <1>1, <1>2

LEMMA DueAtFirst ==
  ASSUME OrdersInit
  PROVE  SavesRight /\ Due = <<>>
<1>1. log = <<>> /\ \A c \in Client : running[c].at = "idle"
  BY FreshIsIdle DEF OrdersInit
<1>2. Saved = {}
  BY <1>1 DEF Saved
<1>3. QED
  BY <1>1, <1>2 DEF SavesRight, Due

-----------------------------------------------------------------------------
(***************************************************************************)
(* The parts that the rows of an order tell of.                            *)
(***************************************************************************)
AskedOf(l) == [row \in Event |-> Asked(row.request, l)]

ClosesWhole(row) == row.type = "fulfilled" /\ row.request = <<>>

Closed(rows, o) == \E i \in DOMAIN rows : rows[i].order = o /\ ClosesWhole(rows[i])

PartsFit ==
  \A o \in Order, l \in Line :
    ~ Closed(Due, o) => orders[o].lines[l].fulfilled = Tally(Due, o, AskedOf(l))

LEMMA NothingAsked == ASSUME NEW l PROVE Asked(<<>>, l) = 0
<1>1. <<>> \in Seq(Fulfilment) /\ \A i \in DOMAIN <<>> : <<>>[i].line # l
  OBVIOUS
<1>2. QED
  BY <1>1, AskedIsNumber

LEMMA AskedOfIsInt == ASSUME NEW l PROVE AskedOf(l) \in [Event -> Int]
<1>1. \A row \in Event : Asked(row.request, l) \in Int
  BY AskedIsNumber DEF Event
<1>2. QED
  BY <1>1 DEF AskedOf

\* One call adds what it asks for, unless it closes the order.
LEMMA OutcomeAddsParts ==
  ASSUME NEW call \in CallState, NEW from \in OrderState, Outcome(call, from), NEW l \in Line
  PROVE  /\ \A i \in DOMAIN call.events : i # 1 => AskedOf(l)[call.events[i]] = 0
         /\ ~ (1 \in DOMAIN call.events /\ ClosesWhole(call.events[1])) =>
              call.next.lines[l].fulfilled = from.lines[l].fulfilled
                + (IF 1 \in DOMAIN call.events THEN AskedOf(l)[call.events[1]] ELSE 0)
<1>1. call.events \in Seq(Event) /\ \A i \in DOMAIN call.events : call.events[i] \in Event
  BY DEF CallState
<1>2. \A i \in DOMAIN call.events : AskedOf(l)[call.events[i]] = Asked(call.events[i].request, l)
  BY <1>1 DEF AskedOf
<1>3. from.lines[l].fulfilled \in Nat
  BY DEF OrderState, Lines
<1>4. CASE Drafting(call, from)
  <2>1. \A i \in DOMAIN call.events : AskedOf(l)[call.events[i]] = 0
    BY <1>2, <1>4, NothingAsked DEF Drafting, Plain
  <2>2. call.next.lines[l].fulfilled = 0 /\ from.lines[l].fulfilled = 0
    BY <1>4 DEF Drafting
  <2>3. QED
    BY <2>1, <2>2
<1>5. CASE Turns(call, from)
  <2>1. PICK type \in Lifecycle, request \in Seq(Fulfilment) :
          /\ 1 \in DOMAIN call.events
          /\ call.events[1].type = type /\ call.events[1].request = request
          /\ \A i \in DOMAIN call.events : i # 1 => Plain(call.events[i])
          /\ Follows(call, from, type, request)
    BY <1>5 DEF Turns
  <2>2. \A i \in DOMAIN call.events : i # 1 => AskedOf(l)[call.events[i]] = 0
    BY <1>2, <2>1, NothingAsked DEF Plain
  <2>3. AskedOf(l)[call.events[1]] = Asked(request, l) /\ Asked(request, l) \in Nat
    BY <1>2, <2>1, AskedIsNumber
  <2>4. ASSUME ~ ClosesWhole(call.events[1])
        PROVE  call.next.lines[l].fulfilled = from.lines[l].fulfilled + Asked(request, l)
    <3>1. type # "fulfilled" \/ request # <<>>
      BY <2>1, <2>4 DEF ClosesWhole
    <3>2. request = <<>> => Asked(request, l) = 0
      BY NothingAsked
    <3>3. \/ /\ call.next.lines[l].fulfilled = 0 /\ from.lines[l].fulfilled = 0
             /\ request = <<>>
          \/ call.next.lines[l].fulfilled = from.lines[l].fulfilled + Asked(request, l)
          \/ call.next.lines[l].fulfilled = from.lines[l].fulfilled /\ request = <<>>
      BY <2>1, <3>1 DEF Follows
    <3>4. PICK n \in Nat, a \in Nat : n = from.lines[l].fulfilled /\ a = Asked(request, l)
      BY <1>3, <2>3
    <3>5. CASE request = <<>>
      <4>1. a = 0
        BY <3>2, <3>4, <3>5
      <4>2. n + a = n
        BY <3>4, <4>1
      <4>3. QED
        BY <3>3, <3>4, <4>1, <4>2
    <3>6. QED
      BY <3>3, <3>5
  <2>5. QED
    BY <2>1, <2>2, <2>3, <2>4
<1>6. QED
  BY <1>4, <1>5 DEF Outcome

LEMMA ClosedGrows ==
  ASSUME NEW rows \in Seq(Event), NEW events \in Seq(Event), NEW o, ~ Closed(rows \o events, o)
  PROVE  /\ ~ Closed(rows, o)
         /\ \A i \in DOMAIN events : ~ (events[i].order = o /\ ClosesWhole(events[i]))
<1>1. /\ \A i \in DOMAIN rows : i \in DOMAIN (rows \o events) /\ (rows \o events)[i] = rows[i]
      /\ \A i \in DOMAIN events :
           Len(rows) + i \in DOMAIN (rows \o events) /\ (rows \o events)[Len(rows) + i] = events[i]
  OBVIOUS
<1>2. QED
  BY <1>1 DEF Closed

LEMMA SavesKeepParts ==
  ASSUME OrdersTypeOK, PartsFit, NEW call, Saves(call)
  PROVE  PartsFit'
<1>1. /\ call \in CallState /\ call.order \in Order /\ call.events \in Seq(Event)
      /\ orders[call.order] \in OrderState
  BY DEF Saves, CallState, OrdersTypeOK
<1>2. Due \in Seq(Event) /\ Due' = Due \o call.events
  BY DueIsSequence DEF Saves
<1>3. ASSUME NEW o \in Order, NEW l \in Line, ~ Closed(Due', o)
      PROVE  orders'[o].lines[l].fulfilled = Tally(Due', o, AskedOf(l))
  <2>1. /\ orders[o].lines[l].fulfilled = Tally(Due, o, AskedOf(l))
        /\ \A i \in DOMAIN call.events : ~ (call.events[i].order = o /\ ClosesWhole(call.events[i]))
    BY <1>1, <1>2, <1>3, ClosedGrows DEF PartsFit
  <2>2. \A i \in DOMAIN call.events : i # 1 => AskedOf(l)[call.events[i]] = 0
    BY <1>1, OutcomeAddsParts DEF Saves
  <2>3. Tally(Due', o, AskedOf(l)) = Tally(Due, o, AskedOf(l))
          + (IF 1 \in DOMAIN call.events /\ call.events[1].order = o
               THEN AskedOf(l)[call.events[1]] ELSE 0)
    BY <1>1, <1>2, <2>2, AskedOfIsInt, TallyMore
  <2>4. Tally(Due, o, AskedOf(l)) \in Int
    BY <1>2, AskedOfIsInt, TallyIsInt
  <2>5. \A i \in DOMAIN call.events : call.events[i].order = call.order
    BY DEF Saves, Outcome
  <2>6. CASE o = call.order
    <3>1. orders'[o] = call.next
      BY <1>1, <2>6 DEF Saves, OrdersTypeOK
    <3>2. ~ (1 \in DOMAIN call.events /\ ClosesWhole(call.events[1]))
      BY <2>1, <2>5, <2>6
    <3>3. call.next.lines[l].fulfilled = orders[o].lines[l].fulfilled
            + (IF 1 \in DOMAIN call.events THEN AskedOf(l)[call.events[1]] ELSE 0)
      BY <1>1, <2>6, <3>2, OutcomeAddsParts DEF Saves
    <3>4. QED
      BY <2>1, <2>3, <2>5, <2>6, <3>1, <3>3
  <2>7. CASE o # call.order
    <3>1. orders'[o] = orders[o]
      BY <1>1, <2>7 DEF Saves, OrdersTypeOK
    <3>2. QED
      BY <2>1, <2>3, <2>4, <2>5, <2>7, <3>1
  <2>8. QED
    BY <2>6, <2>7
<1>4. QED
  BY <1>3 DEF PartsFit

PartsInv == SavesRight /\ PartsFit

LEMMA PartsInvariant == ASSUME Serial PROVE OrdersSpec => []PartsInv
<1>1. OrdersInit => PartsInv
  <2>1. SUFFICES ASSUME OrdersInit PROVE PartsInv
    OBVIOUS
  <2>2. SavesRight /\ Due = <<>>
    BY <2>1, DueAtFirst
  <2>3. \A o \in Order, l \in Line : orders[o].lines[l].fulfilled = 0
    BY <2>1 DEF OrdersInit, DraftOf, NoOrder, NoLines
  <2>4. \A o \in Order, l \in Line : Tally(Due, o, AskedOf(l)) = 0
    BY <2>2, TallyEmpty
  <2>5. QED
    BY <2>2, <2>3, <2>4 DEF PartsInv, PartsFit
<1>2. OrdersInv /\ PartsInv /\ [OrdersNext]_ordersVars => PartsInv'
  <2>1. SUFFICES ASSUME OrdersInv, PartsInv, [OrdersNext]_ordersVars PROVE PartsInv'
    OBVIOUS
  <2>2. /\ SavesRight'
        /\ (orders' = orders /\ Due' = Due) \/ \E c \in Client : Saves(running[c])
    BY <2>1, DueStep DEF PartsInv
  <2>3. ASSUME NEW c \in Client, Saves(running[c]) PROVE PartsFit'
    BY <2>1, <2>3, SavesKeepParts DEF PartsInv, OrdersInv
  <2>4. CASE orders' = orders /\ Due' = Due
    BY <2>1, <2>2, <2>4 DEF PartsInv, PartsFit
  <2>5. QED
    BY <2>2, <2>3, <2>4 DEF PartsInv
<1>3. QED
  BY <1>1, <1>2, OrdersInvariant, PTL DEF OrdersSpec

\* The sum of PartsAddUp is the tally.
LEMMA OwnRowsTally ==
  ASSUME log \in Seq(Event), NEW o, NEW l, NEW own, own = {i \in DOMAIN log : log[i].order = o}
  PROVE  MapThenSumSet(LAMBDA i : Asked(log[i].request, l), own) = Tally(log, o, AskedOf(l))
<1> DEFINE asked == [i \in DOMAIN log |-> Asked(log[i].request, l)]
           shares == Shares(log, o, AskedOf(l))
<1>1. /\ IsFiniteSet(DOMAIN log) /\ IntOn(shares, DOMAIN log) /\ own \subseteq DOMAIN log
      /\ IsFiniteSet(own)
  BY AskedOfIsInt, SharesAreInts, FS_Subset
<1>2. \A i \in DOMAIN log : log[i] \in Event
  OBVIOUS
<1>3. \A i \in own : asked[i] = shares[i]
  BY <1>2 DEF Shares, AskedOf
<1>4. \A i \in DOMAIN log \ own : shares[i] = 0
  BY DEF Shares
<1>5. MapThenSumSet(LAMBDA i : Asked(log[i].request, l), own) = SumOver(asked, own)
  <2> DEFINE F(f) == f = [t \in SUBSET own |-> IF t = {} THEN 0
                            ELSE Asked(log[Pick(t)].request, l) + f[t \ {Pick(t)}]]
  <2>1. \A t \in SUBSET own : t # {} => asked[Pick(t)] = Asked(log[Pick(t)].request, l)
    BY DEF Pick
  <2> HIDE DEF asked
  <2>2. \A f : F(f) <=> Sums(f, asked, own)
    BY <2>1 DEF Sums
  <2>3. PICK e : e = (CHOOSE f : F(f))
    OBVIOUS
  <2>4. MapThenSumSet(LAMBDA i : Asked(log[i].request, l), own) = e[own]
    BY <2>3 DEF MapThenSumSet, MapThenFoldSet, Pick
  <2> HIDE DEF F
  <2>5. Sums(e, asked, own)
    BY <1>1, <2>2, <2>3, SumsAreSums
  <2>6. QED
    BY <1>1, <2>4, <2>5, SumsAreSums
<1> HIDE DEF asked, shares
<1>6. SumOver(asked, own) = SumOver(shares, own)
  BY <1>1, <1>3, SumSame DEF Agree
<1>7. SumOver(shares, DOMAIN log) = SumOver(shares, own)
  BY <1>1, <1>4, SumPad
<1>8. QED
  BY <1>5, <1>6, <1>7 DEF Tally, shares

\* When no two calls of the service overlap, the parts that the fulfilment events of
\* an order report add up to what is on file, unless fulfillOrder has closed it.
THEOREM PartsAddUpAlways ==
  ASSUME Serial
  PROVE  OrdersSpec => []PartsAddUp
<1>1. OrdersTypeOK /\ PartsInv => PartsAddUp
  <2>1. SUFFICES ASSUME OrdersTypeOK, PartsInv, OrdersAtRest, NEW o \in Order, NEW l \in Line,
                        NEW own, own = {i \in DOMAIN log : log[i].order = o},
                        ~ \E i \in own : log[i].type = "fulfilled" /\ log[i].request = <<>>
                 PROVE  orders[o].lines[l].fulfilled =
                          MapThenSumSet(LAMBDA i : Asked(log[i].request, l), own)
    BY DEF PartsAddUp
  <2>2. Due = log /\ log \in Seq(Event)
    BY <2>1 DEF OrdersAtRest, Saved, Due, OrdersTypeOK
  <2>3. ~ Closed(Due, o)
    BY <2>1, <2>2 DEF Closed, ClosesWhole
  <2>4. orders[o].lines[l].fulfilled = Tally(log, o, AskedOf(l))
    BY <2>1, <2>2, <2>3 DEF PartsInv, PartsFit
  <2>5. MapThenSumSet(LAMBDA i : Asked(log[i].request, l), own) = Tally(log, o, AskedOf(l))
    BY <2>1, <2>2, OwnRowsTally
  <2>6. QED
    BY <2>4, <2>5
<1>2. QED
  BY <1>1, OrdersTypeCorrect, PartsInvariant, PTL

-----------------------------------------------------------------------------
(***************************************************************************)
(* The stock of OrderStock is the Inventory that InventoryProofs is about. *)
(***************************************************************************)
LEMMA SameInit ==
  ASSUME Stock!InventoryInit
  PROVE  StockProofs!InventoryInit
BY DEF Stock!InventoryInit, StockProofs!InventoryInit, Stock!EmptyBag, StockProofs!EmptyBag,
       Stock!SetToBag, StockProofs!SetToBag, Stock!Fresh, StockProofs!Fresh,
       Stock!Source, StockProofs!Source, Stock!Zero, StockProofs!Zero

LEMMA SameBegin ==
  ASSUME NEW h, NEW e, NEW type, NEW actions, Stock!ConsumeOrderEvent(h, e, type, actions)
  PROVE  StockProofs!Begin(h, e, type, actions) /\ requested' = requested
BY DEF Stock!ConsumeOrderEvent, Stock!Begin, StockProofs!Begin, Stock!At, StockProofs!At,
       Stock!Fresh, StockProofs!Fresh, Stock!Source, StockProofs!Source, Stock!Zero, StockProofs!Zero,
       Stock!stores, StockProofs!stores

LEMMA SameMove ==
  ASSUME NEW h
  PROVE  /\ Stock!MovementOf(h) = StockProofs!MovementOf(h)
         /\ Stock!ActionOf(h) = StockProofs!ActionOf(h)
         /\ \A p : Stock!At(h, p) <=> StockProofs!At(h, p)
         /\ \A m : Stock!Recorded(m) <=> StockProofs!Recorded(m)
         /\ Stock!Zero = StockProofs!Zero /\ Stock!Fresh = StockProofs!Fresh
         /\ Stock!EmptyBag = StockProofs!EmptyBag
         /\ Stock!stores = StockProofs!stores
         /\ \A b, type, q : /\ Stock!Allowed(b, type, q) <=> StockProofs!Allowed(b, type, q)
                            /\ Stock!Moved(b, type, q) = StockProofs!Moved(b, type, q)
BY DEF Stock!MovementOf, StockProofs!MovementOf, Stock!ActionOf, StockProofs!ActionOf,
       Stock!At, StockProofs!At, Stock!Recorded, StockProofs!Recorded,
       Stock!SameKey, StockProofs!SameKey, Stock!BagToSet, StockProofs!BagToSet,
       Stock!EmptyBag, StockProofs!EmptyBag, Stock!SetToBag, StockProofs!SetToBag,
       Stock!Fresh, StockProofs!Fresh, Stock!Source, StockProofs!Source, Stock!Zero, StockProofs!Zero,
       Stock!stores, StockProofs!stores, Stock!Allowed, StockProofs!Allowed,
       Stock!Available, StockProofs!Available, Stock!Moved, StockProofs!Moved,
       Stock!OnHandChange, StockProofs!OnHandChange, Stock!ReservedChange, StockProofs!ReservedChange

LEMMA SameAdded ==
  ASSUME NEW b, NEW m
  PROVE  Stock!(+)(b, Stock!SetToBag({m})) = StockProofs!(+)(b, StockProofs!SetToBag({m}))
BY DEF Stock!(+), StockProofs!(+), Stock!SetToBag, StockProofs!SetToBag

\* EnsureItem and AppendAndPublish, of an action, an empty balance and a movement.
Ensured(h, a, none) ==
  handling' = [handling EXCEPT
    ![h].at = "apply",
    ![h].read = IF a.sku \in existing THEN items[a.sku] ELSE none,
    ![h].staged = IF a.sku \in existing THEN @
                    ELSE Append(@, [store |-> "items", sku |-> a.sku, value |-> none])]

Appended(h, m, recorded) ==
  handling' = [handling EXCEPT
    ![h].at = "find",
    ![h].staged = IF recorded THEN @ ELSE Append(@, [store |-> "movements", value |-> m]),
    ![h].todo = Tail(@)]

LEMMA SameStep ==
  ASSUME NEW h, Stock!CallStep(h)
  PROVE  StockProofs!CallStep(h) /\ requested' = requested
<1> USE SameMove DEF Stock!stores, StockProofs!stores
<1>1. CASE Stock!FindMovement(h)
  BY <1>1 DEF Stock!FindMovement, StockProofs!CallStep, StockProofs!FindMovement
<1>2. CASE Stock!EnsureItem(h)
  <2>1. StockProofs!EnsureItem(h)
    <3>1. Ensured(h, Stock!ActionOf(h), Stock!Zero)
      BY <1>2 DEF Stock!EnsureItem, Ensured
    <3>2. Ensured(h, StockProofs!ActionOf(h), StockProofs!Zero)
      BY <3>1
    <3>3. StockProofs!At(h, "ensure") /\ UNCHANGED <<items, existing, movements, announced, pending, consumed, requested>>
      BY <1>2 DEF Stock!EnsureItem
    <3>4. QED
      BY <3>2, <3>3 DEF StockProofs!EnsureItem, Ensured
  <2>2. QED
    BY <1>2, <2>1 DEF Stock!EnsureItem, StockProofs!CallStep
<1>3. CASE Stock!ApplyAndSave(h)
  BY <1>3 DEF Stock!ApplyAndSave, StockProofs!CallStep, StockProofs!ApplyAndSave
<1>4. CASE Stock!Refuse(h)
  BY <1>4 DEF Stock!Refuse, StockProofs!CallStep, StockProofs!Refuse
<1>5. CASE Stock!AppendAndPublish(h)
  <2>1. StockProofs!AppendAndPublish(h)
    <3> DEFINE M == Stock!MovementOf(h)
    <3>1. Appended(h, M, Stock!Recorded(M)) /\ pending' = [pending EXCEPT ![h] = Stock!(+)(@, Stock!SetToBag({M}))]
      BY <1>5 DEF Stock!AppendAndPublish, Appended
    <3>2. StockProofs!At(h, "append") /\ UNCHANGED <<items, existing, movements, announced, consumed, requested>>
      BY <1>5 DEF Stock!AppendAndPublish
    <3>3. M = StockProofs!MovementOf(h) /\ (Stock!Recorded(M) <=> StockProofs!Recorded(M))
      OBVIOUS
    <3>4. Stock!(+)(pending[h], Stock!SetToBag({M})) = StockProofs!(+)(pending[h], StockProofs!SetToBag({M}))
      BY SameAdded
    <3> HIDE DEF M
    <3>5. Appended(h, M, StockProofs!Recorded(M)) /\ pending' = [pending EXCEPT ![h] = StockProofs!(+)(@, StockProofs!SetToBag({M}))]
      BY <3>1, <3>3, <3>4 DEF Appended
    <3>6. QED
      BY <3>2, <3>3, <3>5 DEF StockProofs!AppendAndPublish, Appended
  <2>2. QED
    BY <1>5, <2>1 DEF Stock!AppendAndPublish, StockProofs!CallStep
<1>6. CASE Stock!StartCommit(h)
  BY <1>6 DEF Stock!StartCommit, StockProofs!CallStep, StockProofs!StartCommit
<1>7. CASE Stock!CommitMutation(h)
  BY <1>7, SameAdded DEF Stock!CommitMutation, StockProofs!CallStep, StockProofs!CommitMutation
<1>8. CASE Stock!InsertRows(h)
  BY <1>8, SameAdded DEF Stock!InsertRows, StockProofs!CallStep, StockProofs!InsertRows,
     Stock!(+), StockProofs!(+)
<1>9. QED
  BY <1>1, <1>2, <1>3, <1>4, <1>5, <1>6, <1>7, <1>8 DEF Stock!CallStep

LEMMA SameProperties ==
  /\ Stock!AtRest <=> StockProofs!AtRest
  /\ StockProofs!OncePerKey => OncePerKey
  /\ StockProofs!BalanceFollowsMovements => BalanceFollowsMovements
<1>1. Stock!AtRest <=> StockProofs!AtRest
  BY SameMove DEF Stock!AtRest, StockProofs!AtRest, Stock!At, StockProofs!At
<1>2. ASSUME StockProofs!OncePerKey PROVE OncePerKey
  BY <1>2 DEF OncePerKey, Stock!OncePerKey, StockProofs!OncePerKey, Stock!Copies, StockProofs!Copies,
     Stock!BagToSet, StockProofs!BagToSet, Stock!SameKey, StockProofs!SameKey,
     Stock!MapThenSumSet, StockProofs!MapThenSumSet, Stock!MapThenFoldSet, StockProofs!MapThenFoldSet
<1>3. ASSUME StockProofs!BalanceFollowsMovements PROVE BalanceFollowsMovements
  BY <1>1, <1>3 DEF BalanceFollowsMovements, Stock!BalanceFollowsMovements,
     StockProofs!BalanceFollowsMovements, Stock!Total, StockProofs!Total,
     Stock!BagToSet, StockProofs!BagToSet, Stock!OnHandChange, StockProofs!OnHandChange,
     Stock!ReservedChange, StockProofs!ReservedChange,
     Stock!MapThenSumSet, StockProofs!MapThenSumSet, Stock!MapThenFoldSet, StockProofs!MapThenFoldSet
<1>4. QED
  BY <1>1, <1>2, <1>3

-----------------------------------------------------------------------------
(***************************************************************************)
(* What an event asks of the stock: the numbered lines, and their actions. *)
(***************************************************************************)
LowTo(S, n) == {k \in S : k <= n}

LEMMA LowToCounted ==
  ASSUME NEW S, S \subseteq Nat, IsFiniteSet(S), NEW n
  PROVE  /\ IsFiniteSet(LowTo(S, n)) /\ Cardinality(LowTo(S, n)) \in Nat
         /\ Cardinality(LowTo(S, n)) <= Cardinality(S)
<1>1. LowTo(S, n) \subseteq S
  BY DEF LowTo
<1>2. QED
  BY <1>1, FS_Subset, FS_CardinalityType

LEMMA NextOfSet ==
  ASSUME NEW S, S \subseteq Nat, IsFiniteSet(S), NEW L, L \subseteq S, L # S,
         \A j \in L : \A k \in S : k <= j => k \in L
  PROVE  \E n \in S : LowTo(S, n) = L \union {n} /\ n \notin L
<1>1. S \ L \subseteq Nat /\ S \ L # {}
  OBVIOUS
<1>2. PICK n \in S \ L : \A j \in Nat : j < n => j \notin S \ L
  BY <1>1, LeastExists
<1>3. \A k \in S : k <= n <=> k \in L \union {n}
  BY <1>2
<1>4. LowTo(S, n) = L \union {n}
  BY <1>2, <1>3 DEF LowTo
<1>5. QED
  BY <1>2, <1>4

LEMMA RanksReached ==
  ASSUME NEW S, S \subseteq Nat, IsFiniteSet(S), NEW i \in 1..Cardinality(S)
  PROVE  \E n \in S : Cardinality(LowTo(S, n)) = i
<1> DEFINE Bad == {j \in Nat : j + 1 <= Cardinality(S)
                                 /\ ~ \E n \in S : Cardinality(LowTo(S, n)) = j + 1}
<1>0. Cardinality(S) \in Nat
  BY FS_CardinalityType
<1>1. SUFFICES ASSUME Bad # {} PROVE FALSE
  <2>1. i - 1 \in Nat /\ (i - 1) + 1 = i /\ i <= Cardinality(S)
    BY <1>0
  <2>2. QED
    BY <1>1, <2>1
<1>2. Bad \subseteq Nat
  OBVIOUS
<1>3. PICK j \in Bad : \A k \in Nat : k < j => k \notin Bad
  BY <1>1, <1>2, LeastExists
<1>4. \E L : /\ L \subseteq S /\ IsFiniteSet(L) /\ Cardinality(L) = j
             /\ \A m \in L : \A k \in S : k <= m => k \in L
  <2>1. CASE j = 0
    <3>1. IsFiniteSet({}) /\ Cardinality({}) = 0
      BY FS_EmptySet
    <3>2. QED
      BY <2>1, <3>1
  <2>2. CASE j # 0
    <3>1. j - 1 \in Nat /\ j - 1 < j /\ (j - 1) + 1 = j /\ j <= Cardinality(S)
      BY <1>0, <1>3, <2>2
    <3>2. PICK n \in S : Cardinality(LowTo(S, n)) = j
      BY <1>3, <3>1
    <3>3. \A m \in LowTo(S, n) : \A k \in S : k <= m => k \in LowTo(S, n)
      BY DEF LowTo
    <3>4. IsFiniteSet(LowTo(S, n)) /\ LowTo(S, n) \subseteq S
      BY LowToCounted DEF LowTo
    <3>5. QED
      BY <3>2, <3>3, <3>4
  <2>3. QED
    BY <2>1, <2>2
<1>5. PICK L : /\ L \subseteq S /\ IsFiniteSet(L) /\ Cardinality(L) = j
               /\ \A m \in L : \A k \in S : k <= m => k \in L
  BY <1>4
<1>6. L # S
  BY <1>0, <1>3, <1>5
<1>7. PICK n \in S : LowTo(S, n) = L \union {n} /\ n \notin L
  BY <1>5, <1>6, NextOfSet
<1>8. Cardinality(L \union {n}) = j + 1
  BY <1>5, <1>7, FS_AddElement
<1>9. QED
  BY <1>3, <1>7, <1>8

LEMMA LowToGrows ==
  ASSUME NEW S, S \subseteq Nat, NEW j \in S, NEW k \in S, j < k
  PROVE  LowTo(S, j) \subseteq LowTo(S, k) /\ k \in LowTo(S, k) /\ k \notin LowTo(S, j)
<1>1. k \in Nat /\ j \in Nat
  OBVIOUS
<1>2. ASSUME NEW x \in S, x <= j PROVE x <= k
  <2>1. x \in Nat
    OBVIOUS
  <2>2. QED
    BY <1>1, <1>2, <2>1
<1>3. ~ (k <= j) /\ k <= k
  BY <1>1
<1>4. \A x, n : x \in LowTo(S, n) <=> x \in S /\ x <= n
  BY DEF LowTo
<1>5. QED
  BY <1>2, <1>3, <1>4

LEMMA RanksDiffer ==
  ASSUME NEW S, S \subseteq Nat, IsFiniteSet(S), NEW m \in S, NEW n \in S,
         Cardinality(LowTo(S, m)) = Cardinality(LowTo(S, n))
  PROVE  m = n
<1>1. ASSUME NEW j \in S, NEW k \in S, j < k
      PROVE  Cardinality(LowTo(S, j)) # Cardinality(LowTo(S, k))
  <2>1. LowTo(S, j) \subseteq LowTo(S, k) /\ k \in LowTo(S, k) /\ k \notin LowTo(S, j)
    BY <1>1, LowToGrows
  <2>2. IsFiniteSet(LowTo(S, k))
    BY LowToCounted
  <2>3. QED
    BY <2>1, <2>2, FS_Subset
<1>2. QED
  BY <1>1

\* Nth numbers the members of a set.
LEMMA NthIsRank ==
  ASSUME NEW S, S \subseteq Nat, IsFiniteSet(S)
  PROVE  /\ \A i \in 1..Cardinality(S) :
              Nth(S, i) \in S /\ Cardinality(LowTo(S, Nth(S, i))) = i
         /\ \A n \in S : \E i \in 1..Cardinality(S) : Nth(S, i) = n
<1>1. ASSUME NEW i \in 1..Cardinality(S)
      PROVE  Nth(S, i) \in S /\ Cardinality(LowTo(S, Nth(S, i))) = i
  <2>1. \E n \in S : Cardinality({k \in S : k <= n}) = i
    BY RanksReached DEF LowTo
  <2>2. QED
    BY <2>1 DEF Nth, LowTo
<1>2. ASSUME NEW n \in S PROVE \E i \in 1..Cardinality(S) : Nth(S, i) = n
  <2>1. PICK i : i = Cardinality(LowTo(S, n))
    OBVIOUS
  <2>2. i \in 1..Cardinality(S)
    <3>1. n \in LowTo(S, n)
      BY DEF LowTo
    <3>2. i # 0
      BY <2>1, <3>1, LowToCounted, FS_EmptySet
    <3>3. i \in Nat /\ i <= Cardinality(S) /\ Cardinality(S) \in Nat
      BY <2>1, LowToCounted, FS_CardinalityType
    <3>4. QED
      BY <3>2, <3>3
  <2>3. Nth(S, i) \in S /\ Cardinality(LowTo(S, Nth(S, i))) = Cardinality(LowTo(S, n))
    BY <1>1, <2>1, <2>2
  <2>4. Nth(S, i) = n
    BY <2>3, RanksDiffer
  <2>5. QED
    BY <2>2, <2>4
<1>3. QED
  BY <1>1, <1>2

NamedOnce(request) == \A i, j \in DOMAIN request : request[i].line = request[j].line => i = j

LEMMA AskedOnce ==
  ASSUME NEW request \in Seq(Fulfilment), NamedOnce(request), NEW p \in DOMAIN request
  PROVE  Asked(request, request[p].line) = request[p].quantity
<1>1. PICK l : l = request[p].line
  OBVIOUS
<1>2. PICK sum : IsSum(sum, request, l, Len(request)) /\ Asked(request, l) = sum[Len(request)]
  BY AskedIsSum
<1>3. /\ Len(request) \in Nat /\ DOMAIN request = 1..Len(request) /\ p \in 1..Len(request)
      /\ request[p].quantity \in Nat
  <2>1. request[p] \in Fulfilment
    OBVIOUS
  <2>2. QED
    BY <2>1 DEF Fulfilment
<1>4. PICK q \in Nat : q = request[p].quantity
  BY <1>3
<1>5. \A n \in 1..Len(request) : Part(request, l, n) = IF n = p THEN q ELSE 0
  BY <1>1, <1>3, <1>4 DEF Part, NamedOnce
<1>6. \A n \in 0..Len(request) :
        sum[n] = IF n = 0 THEN 0 ELSE sum[n - 1] + Part(request, l, n)
  BY <1>2 DEF IsSum
<1> DEFINE Good(n) == sum[n] = IF n < p THEN 0 ELSE q
           Bad == {n \in 0..Len(request) : ~ Good(n)}
<1>7. Bad = {}
  <2>1. SUFFICES ASSUME Bad # {} PROVE FALSE
    OBVIOUS
  <2>2. Bad \subseteq Nat
    OBVIOUS
  <2>3. PICK k \in Bad : \A j \in Nat : j < k => j \notin Bad
    BY <2>1, <2>2, LeastExists
  <2>4. k # 0
    BY <1>3, <1>6
  <2>5. k - 1 \in 0..Len(request) /\ k \in 1..Len(request) /\ k - 1 < k
    BY <2>4, <1>3
  <2>6. Good(k - 1)
    BY <2>3, <2>5
  <2>7. sum[k] = sum[k - 1] + (IF k = p THEN q ELSE 0)
    BY <1>5, <1>6, <2>4, <2>5
  <2>8. Good(k)
    BY <1>3, <1>4, <2>5, <2>6, <2>7
  <2>9. QED
    BY <2>8
<1>8. Good(Len(request))
  BY <1>3, <1>7
<1>9. QED
  BY <1>1, <1>2, <1>3, <1>4, <1>8

Moving(row) == Present(row) \intersect Stockable

\* How much of a line an event moves.
Amount(row, l) ==
  IF l \notin Moving(row) THEN 0
  ELSE IF row.type = "cancelled"
         THEN IF Remaining(row, l) > 0 THEN Remaining(row, l) ELSE 0
  ELSE IF row.request # <<>> THEN Asked(row.request, l)
  ELSE row.lines[l].quantity

\* No two lines of an order are for the same stockable item.
ItemsApart(order) == \A l, k \in Moving(order) : SkuOf[l] = SkuOf[k] => l = k

LEMMA AmountIsNumber ==
  ASSUME NEW row \in Event, NEW l
  PROVE  Amount(row, l) \in Nat
<1>1. row.request \in Seq(Fulfilment) /\ row.lines \in Lines
  BY DEF Event
<1>2. Asked(row.request, l) \in Nat
  BY <1>1, AskedIsNumber
<1>3. l \in Moving(row) => Remaining(row, l) \in Int /\ row.lines[l].quantity \in Nat
  BY <1>1 DEF Moving, Present, Lines, Remaining
<1>4. QED
  BY <1>2, <1>3 DEF Amount

MovesLine(action, row, l) ==
  action.sku = SkuOf[l] /\ action.quantity = Amount(row, l)

\* The actions of an event move the amounts of its lines, each line once.
ActionsMove(row, actions) ==
  /\ actions \in Seq(Stock!Action)
  /\ \A i \in DOMAIN actions : \E l \in Moving(row) : MovesLine(actions[i], row, l)
  /\ \A l \in Moving(row) : Amount(row, l) # 0 =>
       \E i \in DOMAIN actions : MovesLine(actions[i], row, l)
  /\ StockProofs!SkuOnce(actions)

LEMMA ActionsForMoves ==
  ASSUME NEW row \in Event, ItemsApart(row), NEW S, S \subseteq Moving(row), NEW amount,
         \A l \in S : amount[l] = Amount(row, l),
         \A l \in Moving(row) \ S : Amount(row, l) = 0
  PROVE  ActionsMove(row, ActionsFor(S, amount))
<1>1. S \subseteq Nat /\ IsFiniteSet(S) /\ S \subseteq Stockable /\ Cardinality(S) \in Nat
  <2>1. \A l \in Moving(row) : l \in 1..MaxLines /\ l \in Stockable
    BY DEF Moving, Present, Line
  <2>2. MaxLines \in Nat /\ S \subseteq 1..MaxLines /\ S \subseteq Stockable
    BY <2>1, OrdersAssumption
  <2>3. IsFiniteSet(1..MaxLines) /\ 1..MaxLines \subseteq Nat
    BY <2>2, FS_Interval
  <2>4. QED
    BY <2>2, <2>3, FS_Subset, FS_CardinalityType
<1> DEFINE actions == ActionsFor(S, amount)
<1>2. /\ DOMAIN actions = 1..Cardinality(S)
      /\ \A i \in 1..Cardinality(S) :
           actions[i] = [sku |-> SkuOf[Nth(S, i)], quantity |-> amount[Nth(S, i)]]
      /\ \A T : (\A i \in 1..Cardinality(S) : actions[i] \in T) => actions \in Seq(T)
  BY <1>1 DEF ActionsFor
<1> HIDE DEF actions
<1>3. /\ \A i \in 1..Cardinality(S) : Nth(S, i) \in S /\ Cardinality(LowTo(S, Nth(S, i))) = i
      /\ \A n \in S : \E i \in 1..Cardinality(S) : Nth(S, i) = n
  BY <1>1, NthIsRank
<1>4. \A i \in DOMAIN actions : Nth(S, i) \in S /\ MovesLine(actions[i], row, Nth(S, i))
  BY <1>2, <1>3 DEF MovesLine
<1>5. actions \in Seq(Stock!Action)
  <2>1. ASSUME NEW i \in 1..Cardinality(S) PROVE actions[i] \in Stock!Action
    <3>1. PICK l \in S : l = Nth(S, i)
      BY <1>3
    <3>2. SkuOf[l] \in Sku
      BY <1>1, OrderStockAssumption
    <3>3. amount[l] = Amount(row, l) /\ Amount(row, l) \in Nat
      BY AmountIsNumber
    <3>4. QED
      BY <1>2, <3>1, <3>2, <3>3 DEF Stock!Action
  <2>2. QED
    BY <1>2, <2>1
<1>6. StockProofs!SkuOnce(actions)
  <2>1. ASSUME NEW i \in DOMAIN actions, NEW j \in DOMAIN actions, actions[i].sku = actions[j].sku
        PROVE  i = j
    <3>1. SkuOf[Nth(S, i)] = SkuOf[Nth(S, j)] /\ Nth(S, i) \in Moving(row) /\ Nth(S, j) \in Moving(row)
      BY <1>4, <2>1 DEF MovesLine
    <3>2. Nth(S, i) = Nth(S, j)
      BY <3>1 DEF ItemsApart
    <3>3. QED
      BY <1>2, <1>3, <3>2
  <2>2. QED
    BY <2>1 DEF StockProofs!SkuOnce
<1>7. ASSUME NEW l \in Moving(row), Amount(row, l) # 0
      PROVE  \E i \in DOMAIN actions : MovesLine(actions[i], row, l)
  <2>1. l \in S
    BY <1>7
  <2>2. QED
    BY <1>2, <1>3, <1>4, <2>1
<1>8. QED
  BY <1>4, <1>5, <1>6, <1>7 DEF ActionsMove, actions

LEMMA PartActionsMove ==
  ASSUME NEW row \in Event, ItemsApart(row), NamedOnce(row.request),
         row.type # "cancelled", row.request # <<>>
  PROVE  ActionsMove(row, PartActions(row.request, Moving(row)))
<1>0. PICK request \in Seq(Fulfilment) : request = row.request
  BY DEF Event
<1> DEFINE actions == PartActions(request, Moving(row))
           S == {n \in DOMAIN request : request[n].line \in Moving(row)}
<1>1. S \subseteq Nat /\ IsFiniteSet(S) /\ Cardinality(S) \in Nat /\ S \subseteq DOMAIN request
  <2>1. DOMAIN request = 1..Len(request) /\ Len(request) \in Nat
    OBVIOUS
  <2>2. IsFiniteSet(1..Len(request))
    BY <2>1, FS_Interval
  <2>3. QED
    BY <2>1, <2>2, FS_Subset, FS_CardinalityType
<1>2. /\ DOMAIN actions = 1..Cardinality(S)
      /\ \A i \in 1..Cardinality(S) :
           actions[i] = [sku |-> SkuOf[request[Nth(S, i)].line],
                         quantity |-> request[Nth(S, i)].quantity]
      /\ \A T : (\A i \in 1..Cardinality(S) : actions[i] \in T) => actions \in Seq(T)
  <2>1. actions = [i \in 1..Cardinality(S) |->
                     [sku |-> SkuOf[request[Nth(S, i)].line],
                      quantity |-> request[Nth(S, i)].quantity]]
    BY DEF PartActions
  <2> HIDE DEF actions, S
  <2>2. QED
    BY <1>1, <2>1
<1>3. \A n \in S : request[n].line \in Moving(row) /\ n \in DOMAIN request
  OBVIOUS
<1>4. \A n \in DOMAIN request : request[n].line \in Moving(row) => n \in S
  OBVIOUS
<1> HIDE DEF actions, S
<1>5. /\ \A i \in 1..Cardinality(S) : Nth(S, i) \in S /\ Cardinality(LowTo(S, Nth(S, i))) = i
      /\ \A n \in S : \E i \in 1..Cardinality(S) : Nth(S, i) = n
  BY <1>1, NthIsRank
<1>6. \A n \in S : Amount(row, request[n].line) = request[n].quantity
  <2>1. ASSUME NEW n \in S PROVE Asked(request, request[n].line) = request[n].quantity
    BY <1>0, <1>3, AskedOnce
  <2>2. \A l \in Moving(row) : Amount(row, l) = Asked(request, l)
    BY <1>0 DEF Amount
  <2>3. QED
    BY <1>3, <2>1, <2>2
<1>7. ASSUME NEW i \in DOMAIN actions
      PROVE  /\ Nth(S, i) \in S /\ request[Nth(S, i)].line \in Moving(row)
             /\ MovesLine(actions[i], row, request[Nth(S, i)].line)
  BY <1>2, <1>3, <1>5, <1>6 DEF MovesLine
<1>8. actions \in Seq(Stock!Action)
  <2>1. ASSUME NEW i \in 1..Cardinality(S) PROVE actions[i] \in Stock!Action
    <3>1. PICK n \in S : n = Nth(S, i)
      BY <1>5
    <3>2. request[n].line \in Line
      BY <1>3 DEF Moving, Present
    <3>3. SkuOf[request[n].line] \in Sku
      BY <3>2, OrderStockAssumption
    <3>4. request[n].quantity \in Int
      BY <1>6, AmountIsNumber
    <3>5. QED
      BY <1>2, <3>1, <3>3, <3>4 DEF Stock!Action
  <2>2. QED
    BY <1>2, <2>1
<1>9. StockProofs!SkuOnce(actions)
  <2>1. ASSUME NEW i \in DOMAIN actions, NEW j \in DOMAIN actions, actions[i].sku = actions[j].sku
        PROVE  i = j
    <3>1. /\ SkuOf[request[Nth(S, i)].line] = SkuOf[request[Nth(S, j)].line]
          /\ request[Nth(S, i)].line \in Moving(row) /\ request[Nth(S, j)].line \in Moving(row)
      BY <1>7, <2>1 DEF MovesLine
    <3>2. request[Nth(S, i)].line = request[Nth(S, j)].line
      BY <3>1 DEF ItemsApart
    <3>3. Nth(S, i) \in DOMAIN request /\ Nth(S, j) \in DOMAIN request
      BY <1>3, <1>7
    <3>4. Nth(S, i) = Nth(S, j)
      BY <1>0, <3>2, <3>3 DEF NamedOnce
    <3>5. QED
      BY <1>2, <1>5, <3>4
  <2>2. QED
    BY <2>1 DEF StockProofs!SkuOnce
<1>10. ASSUME NEW l \in Moving(row), Amount(row, l) # 0
       PROVE  \E i \in DOMAIN actions : MovesLine(actions[i], row, l)
  <2>1. Asked(request, l) # 0
    BY <1>0, <1>10 DEF Amount
  <2>2. PICK n \in DOMAIN request : request[n].line = l
    BY <1>0, <2>1, AskedIsNumber
  <2>3. n \in S
    BY <1>4, <1>10, <2>2
  <2>4. QED
    BY <1>2, <1>5, <1>7, <2>2, <2>3
<1>11. ActionsMove(row, actions)
  BY <1>7, <1>8, <1>9, <1>10 DEF ActionsMove
<1>12. QED
  BY <1>0, <1>11 DEF actions

LEMMA StockActionsMove ==
  ASSUME NEW row \in Event, ItemsApart(row), NamedOnce(row.request)
  PROVE  ActionsMove(row, StockActions(row))
<1> DEFINE left == [l \in Moving(row) |-> Remaining(row, l)]
           whole == [l \in Moving(row) |-> row.lines[l].quantity]
<1>1. CASE row.type = "cancelled"
  <2> DEFINE S == {l \in Moving(row) : left[l] > 0}
  <2>1. \A l \in S : left[l] = Amount(row, l)
    BY <1>1 DEF Amount
  <2>2. \A l \in Moving(row) \ S : Amount(row, l) = 0
    BY <1>1 DEF Amount
  <2>3. S \subseteq Moving(row)
    OBVIOUS
  <2>4. StockActions(row) = ActionsFor(S, left)
    BY <1>1 DEF StockActions, Moving
  <2> HIDE DEF S, left
  <2>5. QED
    BY <2>1, <2>2, <2>3, <2>4, ActionsForMoves
<1>2. CASE row.type # "cancelled" /\ row.request # <<>>
  <2>1. StockActions(row) = PartActions(row.request, Moving(row))
    BY <1>2 DEF StockActions, Moving
  <2>2. QED
    BY <1>2, <2>1, PartActionsMove
<1>3. CASE row.type # "cancelled" /\ row.request = <<>>
  <2>1. \A l \in Moving(row) : whole[l] = Amount(row, l)
    BY <1>3 DEF Amount
  <2>2. StockActions(row) = ActionsFor(Moving(row), whole)
    BY <1>3 DEF StockActions, Moving
  <2> HIDE DEF whole
  <2>3. QED
    BY <2>1, <2>2, ActionsForMoves
<1>4. QED
  BY <1>1, <1>2, <1>3

-----------------------------------------------------------------------------
(***************************************************************************)
(* The rows have room, and no row asks for two movements of the same item. *)
(***************************************************************************)
LEMMA SumOneChanged ==
  ASSUME NEW S, IsFiniteSet(S), NEW x \in S, NEW g, NEW h, NEW d \in Int,
         IntOn(g, S), Agree(g, h, S \ {x}), h[x] = g[x] + d
  PROVE  SumOver(h, S) = SumOver(g, S) + d
<1>1. PICK R : R = S \ {x}
  OBVIOUS
<1>2. IsFiniteSet(R) /\ IntOn(h, S) /\ Agree(g, h, R) /\ IntOn(g, R)
  BY <1>1, FS_Subset DEF IntOn, Agree
<1>3. SumOver(g, R) = SumOver(h, R) /\ SumOver(g, R) \in Int
  BY <1>2, SumSame, SumStep
<1>4. SumOver(g, S) = g[x] + SumOver(g, R) /\ SumOver(h, S) = h[x] + SumOver(h, R)
  BY <1>1, <1>2, SumStep
<1>5. g[x] \in Int
  BY DEF IntOn
<1>6. QED
  BY <1>3, <1>4, <1>5

LEMMA SumNotNegative ==
  ASSUME NEW S, IsFiniteSet(S), NEW g, \A x \in S : g[x] \in Nat
  PROVE  SumOver(g, S) \in Nat
<1>1. PICK z : z = [x \in S |-> 0]
  OBVIOUS
<1>2. StockProofs!IntOn(g, S) /\ StockProofs!IntOn(z, S) /\ StockProofs!IsFiniteSet(S)
  BY <1>1, FiniteThere DEF StockProofs!IntOn
<1>3. \A x \in S : z[x] = 0 /\ z[x] <= g[x]
  BY <1>1
<1>4. SumOver(z, S) = 0
  BY <1>2, <1>3, StockAssumption, StockProofs!SumZero DEF SumOver
<1>5. SumOver(z, S) <= SumOver(g, S)
  BY <1>2, <1>3, StockAssumption, StockProofs!SumLeq DEF SumOver
<1>6. SumOver(g, S) \in Int
  BY SumStep DEF IntOn
<1>7. QED
  BY <1>4, <1>5, <1>6

Coming == [c \in Client |-> Len(running[c].events)]

LengthSums(f, calls) ==
  f = [t \in SUBSET Client |->
         IF t = {} THEN 0 ELSE Len(calls[Pick(t)].events) + f[t \ {Pick(t)}]]

LEMMA LengthsAdd ==
  ASSUME IsFiniteSet(Client), NEW calls, NEW g, g = [c \in Client |-> Len(calls[c].events)],
         NEW e, e = (CHOOSE f : LengthSums(f, calls))
  PROVE  e[Client] = SumOver(g, Client)
<1>1. \A t \in SUBSET Client : t # {} => g[Pick(t)] = Len(calls[Pick(t)].events)
  BY DEF Pick
<1>2. \A f : LengthSums(f, calls) <=> Sums(f, g, Client)
  BY <1>1 DEF Sums, LengthSums
<1>3. Sums(e, g, Client)
  BY <1>2, SumsAreSums
<1>4. QED
  BY <1>3, SumsAreSums

LEMMA RowsCounted ==
  ASSUME IsFiniteSet(Client)
  PROVE  /\ Rows = Len(log) + SumOver(Coming, Client)
         /\ Rows' = Len(log') + SumOver(Coming, Client)'
<1>1. PICK e : e = (CHOOSE f : LengthSums(f, running))
  OBVIOUS
<1>2. PICK d : d = (CHOOSE f : LengthSums(f, running'))
  OBVIOUS
<1>3. Rows = Len(log) + e[Client]
  BY <1>1 DEF Rows, MapThenSumSet, MapThenFoldSet, Pick, LengthSums
<1>4. Rows' = Len(log') + d[Client]
  BY <1>2 DEF Rows, MapThenSumSet, MapThenFoldSet, Pick, LengthSums
<1>5. PICK g, h : /\ g = [c \in Client |-> Len(running[c].events)]
                  /\ h = [c \in Client |-> Len(running'[c].events)]
  OBVIOUS
<1>6. e[Client] = SumOver(g, Client) /\ d[Client] = SumOver(h, Client)
  BY <1>1, <1>2, <1>5, LengthsAdd
<1>7. g = Coming /\ h = Coming'
  BY <1>5 DEF Coming
<1>8. SumOver(Coming, Client)' = SumOver(h, Client)
  BY <1>7 DEF SumOver
<1>9. QED
  BY <1>3, <1>4, <1>6, <1>7, <1>8

\* A call that is replaced takes its rows with it.
LEMMA RowsOfOne ==
  ASSUME IsFiniteSet(Client), OrdersTypeOK, NEW c \in Client, NEW call \in CallState,
         running' = [running EXCEPT ![c] = call]
  PROVE  /\ SumOver(Coming, Client) \in Nat
         /\ SumOver(Coming, Client)' =
              SumOver(Coming, Client) + (Len(call.events) - Len(running[c].events))
<1>1. \A d \in Client : Coming[d] \in Nat /\ running[d] \in CallState
  BY DEF OrdersTypeOK, Coming, CallState
<1>2. PICK new : new = [d \in Client |-> Len(running'[d].events)]
  OBVIOUS
<1>3. Agree(Coming, new, Client \ {c}) /\ IntOn(Coming, Client)
  BY <1>1, <1>2 DEF Agree, IntOn, Coming, OrdersTypeOK
<1>4. PICK k : k = Len(call.events) - Len(running[c].events)
  OBVIOUS
<1>5. k \in Int /\ new[c] = Coming[c] + k
  <2>1. Len(call.events) \in Nat /\ Len(running[c].events) \in Nat
    BY <1>1 DEF CallState
  <2>2. new[c] = Len(call.events) /\ Coming[c] = Len(running[c].events)
    BY <1>2 DEF OrdersTypeOK, Coming
  <2>3. QED
    BY <1>4, <2>1, <2>2
<1>6. SumOver(new, Client) = SumOver(Coming, Client) + k
  BY <1>3, <1>5, SumOneChanged
<1>7. SumOver(Coming, Client)' = SumOver(new, Client)
  BY <1>2 DEF SumOver, Coming
<1>8. SumOver(Coming, Client) \in Nat
  BY <1>1, SumNotNegative
<1>9. QED
  BY <1>4, <1>6, <1>7, <1>8

\* What the theorems below ask of the clients: no request names a line twice, and no
\* order has two lines for the same stockable item.
RequestsNameOnce == \A request \in FulfilRequests : NamedOnce(request)

OrdersApart == \A o \in Order : ItemsApart(orders[o])

TellsOf(call) ==
  \A i \in DOMAIN call.events : /\ call.events[i].lines = call.next.lines
                                /\ NamedOnce(call.events[i].request)

RowsInv ==
  /\ Rows <= MaxEvents
  /\ \A c \in Client : TellsOf(running[c])
  /\ \A c \in Client : running[c].at = "insert" => ItemsApart(running[c].next)
  /\ \A i \in DOMAIN log : ItemsApart(log[i]) /\ NamedOnce(log[i].request)

LEMMA SameLinesApart ==
  ASSUME NEW row, NEW order, row.lines = order.lines, ItemsApart(order)
  PROVE  ItemsApart(row)
BY DEF ItemsApart, Moving, Present

LEMMA NothingTold ==
  /\ NamedOnce(<<>>)
  /\ Fresh.events = <<>> /\ Fresh.at = "idle" /\ Fresh \in CallState /\ TellsOf(Fresh)
<1>1. DOMAIN <<>> = {}
  OBVIOUS
<1>2. Fresh.events = <<>> /\ Fresh.at = "idle" /\ Fresh \in CallState
  BY FreshIsIdle
<1>3. QED
  BY <1>1, <1>2 DEF NamedOnce, TellsOf

LEMMA OutcomeTells ==
  ASSUME RequestsNameOnce, NEW call, NEW from, Outcome(call, from)
  PROVE  TellsOf(call)
<1>1. \A i \in DOMAIN call.events : Plain(call.events[i]) => NamedOnce(call.events[i].request)
  BY NothingTold DEF Plain
<1>2. CASE Drafting(call, from)
  BY <1>1, <1>2 DEF Drafting, Outcome, TellsOf
<1>3. CASE Turns(call, from)
  <2>1. PICK type \in Lifecycle, request \in Seq(Fulfilment) :
          /\ call.events[1].type = type /\ call.events[1].request = request
          /\ \A i \in DOMAIN call.events : i # 1 => Plain(call.events[i])
          /\ Follows(call, from, type, request)
    BY <1>3 DEF Turns
  <2>2. request = <<>> \/ request \in FulfilRequests
    BY <2>1 DEF Follows
  <2>3. NamedOnce(request)
    BY <2>2, NothingTold DEF RequestsNameOnce
  <2>4. QED
    BY <1>1, <2>1, <2>3 DEF Outcome, TellsOf
<1>4. QED
  BY <1>2, <1>3 DEF Outcome

LEMMA RowsInvAtFirst ==
  ASSUME IsFiniteSet(Client), OrdersInit
  PROVE  RowsInv
<1>1. log = <<>> /\ \A c \in Client : running[c] = Fresh
  BY DEF OrdersInit
<1>2. \A c \in Client : Coming[c] = 0
  BY <1>1, NothingTold DEF Coming
<1>3. SumOver(Coming, Client) = 0
  BY <1>2, StockAssumption, FiniteThere, StockProofs!SumZero DEF SumOver
<1>4. Rows = 0
  BY <1>1, <1>3, RowsCounted
<1>5. QED
  BY <1>1, <1>4, NothingTold, OrdersAssumption DEF RowsInv

\* A step of one call, which keeps its rows or drops them.
LEMMA OneCallRows ==
  ASSUME IsFiniteSet(Client), OrdersTypeOK, RowsInv, NEW c \in Client, NEW call \in CallState,
         running' = [running EXCEPT ![c] = call], TellsOf(call),
         call.at = "insert" => ItemsApart(call.next),
         \A i \in DOMAIN log' : ItemsApart(log'[i]) /\ NamedOnce(log'[i].request),
         Rows' <= MaxEvents
  PROVE  RowsInv'
<1>1. running'[c] = call /\ \A d \in Client \ {c} : running'[d] = running[d]
  BY DEF OrdersTypeOK
<1>2. \A d \in Client : /\ TellsOf(running'[d])
                        /\ running'[d].at = "insert" => ItemsApart(running'[d].next)
  BY <1>1 DEF RowsInv
<1>3. QED
  BY <1>2 DEF RowsInv

LEMMA StageKeepsRows ==
  ASSUME IsFiniteSet(Client), RequestsNameOnce, OrdersTypeOK, RowsInv,
         NEW c \in Client, NEW o \in Order, StagesOutcome(c, o)
  PROVE  RowsInv'
<1>1. PICK call \in CallState :
        /\ running' = [running EXCEPT ![c] = call] /\ call.at = "save"
        /\ Rows + Len(call.events) <= MaxEvents /\ log' = log
        /\ Outcome(call, orders[o])
  BY DEF StagesOutcome
<1>2. TellsOf(call)
  BY <1>1, OutcomeTells
<1>3. Rows' <= MaxEvents
  <2>1. Len(call.events) \in Nat /\ Len(running[c].events) \in Nat /\ Len(log) \in Nat
    BY DEF OrdersTypeOK, CallState
  <2>2. /\ SumOver(Coming, Client) \in Nat
        /\ SumOver(Coming, Client)' =
             SumOver(Coming, Client) + (Len(call.events) - Len(running[c].events))
    BY <1>1, RowsOfOne
  <2>3. Rows = Len(log) + SumOver(Coming, Client)
    BY RowsCounted
  <2>4. Rows' = Len(log) + SumOver(Coming, Client)'
    BY <1>1, RowsCounted
  <2>5. PICK a \in Nat, b \in Nat, d \in Nat, s \in Nat :
          a = Len(call.events) /\ b = Len(running[c].events) /\ d = Len(log)
            /\ s = SumOver(Coming, Client)
    BY <2>1, <2>2
  <2>6. Rows' = d + (s + (a - b)) /\ (d + s) + a <= MaxEvents
    BY <1>1, <2>2, <2>3, <2>4, <2>5
  <2>7. MaxEvents \in Nat
    BY OrdersAssumption
  <2>8. \A w, x, y, z \in Nat :
          (w + x) + y <= MaxEvents => w + (x + (y - z)) <= MaxEvents
    BY <2>7
  <2>9. d + (s + (a - b)) <= MaxEvents
    BY <2>5, <2>6, <2>8
  <2>10. QED
    BY <2>6, <2>9
<1>4. QED
  BY <1>1, <1>2, <1>3, OneCallRows DEF RowsInv

LEMMA SaveKeepsRows ==
  ASSUME IsFiniteSet(Client), OrdersTypeOK, RowsInv, OrdersApart', NEW c \in Client, SaveOrder(c)
  PROVE  RowsInv'
<1>1. PICK call : call = [running[c] EXCEPT !.at = "insert"]
  OBVIOUS
<1>2. running[c] \in CallState
  BY DEF OrdersTypeOK
<1>3. /\ call \in CallState /\ call.events = running[c].events /\ call.next = running[c].next
      /\ call.order = running[c].order
  BY <1>1, <1>2 DEF CallState
<1>4. running' = [running EXCEPT ![c] = call] /\ log' = log
  BY <1>1 DEF SaveOrder
<1>5. orders'[call.order] = call.next /\ call.order \in Order
  BY <1>2, <1>3 DEF SaveOrder, OrdersTypeOK, CallState
<1>6. ItemsApart(call.next)
  BY <1>5 DEF OrdersApart
<1>7. TellsOf(call)
  BY <1>3 DEF RowsInv, TellsOf
<1>8. Rows' <= MaxEvents
  <2>1. \A d \in Client : running'[d].events = running[d].events
    BY <1>3, <1>4 DEF OrdersTypeOK
  <2>2. Coming' = Coming
    BY <2>1 DEF Coming
  <2>3. Rows' = Len(log') + SumOver(Coming, Client)' /\ Rows = Len(log) + SumOver(Coming, Client)
    BY RowsCounted
  <2>4. SumOver(Coming, Client)' = SumOver(Coming, Client)
    BY <2>2 DEF SumOver
  <2>5. QED
    BY <1>4, <2>3, <2>4 DEF RowsInv
<1>9. QED
  BY <1>3, <1>4, <1>6, <1>7, <1>8, OneCallRows DEF RowsInv

LEMMA EndKeepsRows ==
  ASSUME IsFiniteSet(Client), OrdersTypeOK, RowsInv, NEW c \in Client,
         InsertRows(c) \/ CatalogRefuses(c)
  PROVE  RowsInv'
<1>1. running[c] \in CallState /\ running[c].events \in Seq(Event) /\ log \in Seq(Event)
  BY DEF OrdersTypeOK, CallState
<1>2. running' = [running EXCEPT ![c] = Fresh]
  BY DEF InsertRows, CatalogRefuses
<1>3. PICK more \in Seq(Event) :
        /\ log' = log \o more /\ more \in {<<>>, running[c].events}
        /\ more # <<>> => running[c].at = "insert"
  <2>1. CASE InsertRows(c)
    BY <1>1, <2>1 DEF InsertRows
  <2>2. CASE CatalogRefuses(c)
    <3>1. log' = log \o <<>> /\ <<>> \in Seq(Event)
      BY <1>1, <2>2 DEF CatalogRefuses
    <3>2. QED
      BY <3>1
  <2>3. QED
    BY <2>1, <2>2
<1>4. \A i \in DOMAIN more : ItemsApart(more[i]) /\ NamedOnce(more[i].request)
  <2>1. SUFFICES ASSUME NEW i \in DOMAIN more PROVE ItemsApart(more[i]) /\ NamedOnce(more[i].request)
    OBVIOUS
  <2>2. more = running[c].events /\ running[c].at = "insert"
    BY <1>3
  <2>3. ItemsApart(running[c].next) /\ TellsOf(running[c])
    BY <2>2 DEF RowsInv
  <2>4. QED
    BY <2>2, <2>3, SameLinesApart DEF TellsOf
<1>5. \A i \in DOMAIN log' : ItemsApart(log'[i]) /\ NamedOnce(log'[i].request)
  <2>1. \A i \in DOMAIN log' : \/ i \in DOMAIN log /\ log'[i] = log[i]
                               \/ \E k \in DOMAIN more : log'[i] = more[k]
    BY <1>1, <1>3
  <2>2. QED
    BY <1>4, <2>1 DEF RowsInv
<1>6. Rows' <= MaxEvents
  <2>1. PICK a \in Nat, b \in Nat, m \in Nat :
          a = Len(log) /\ b = Len(running[c].events) /\ m = Len(more)
    BY <1>1
  <2>2. /\ SumOver(Coming, Client) \in Nat
        /\ SumOver(Coming, Client)' =
             SumOver(Coming, Client) + (Len(Fresh.events) - Len(running[c].events))
    BY <1>2, NothingTold, RowsOfOne
  <2>3. PICK s \in Nat : s = SumOver(Coming, Client)
    BY <2>2
  <2>4. Len(Fresh.events) = 0 /\ Len(log') = a + m /\ m <= b
    BY <1>1, <1>3, <2>1, NothingTold
  <2>5. Rows' = (a + m) + (s + (0 - b)) /\ Rows = a + s
    BY <2>1, <2>2, <2>3, <2>4, RowsCounted
  <2>6. QED
    BY <2>1, <2>3, <2>4, <2>5, OrdersAssumption DEF RowsInv
<1>7. QED
  BY <1>2, <1>5, <1>6, NothingTold, OneCallRows

LEMMA RowsStep ==
  ASSUME IsFiniteSet(Client), RequestsNameOnce, OrdersInv, RowsInv, OrdersApart',
         [OrdersNext]_ordersVars
  PROVE  RowsInv'
<1>0. OrdersTypeOK /\ OrdersAreConsistent
  BY DEF OrdersInv
<1>1. CASE OrdersNext
  <2>1. PICK c \in Client : \/ \E o \in Order : Operate(c, o)
                            \/ CatalogRefuses(c)
                            \/ SaveOrder(c)
                            \/ InsertRows(c)
    BY <1>1 DEF OrdersNext
  <2>2. ASSUME NEW o \in Order, Operate(c, o) PROVE RowsInv'
    BY <1>0, <2>2, OperationsOutcome, StageKeepsRows
  <2>3. QED
    BY <1>0, <2>1, <2>2, SaveKeepsRows, EndKeepsRows
<1>2. CASE UNCHANGED ordersVars
  <2>1. running' = running /\ log' = log
    BY <1>2 DEF ordersVars
  <2>2. SumOver(Coming, Client)' = SumOver(Coming, Client)
    BY <2>1 DEF Coming, SumOver
  <2>3. Rows' = Rows
    BY <2>1, <2>2, RowsCounted
  <2>4. QED
    BY <2>1, <2>3 DEF RowsInv
<1>3. QED
  BY <1>1, <1>2

\* The rows there are: their numbers, and what they are.
LEMMA RowsThere ==
  ASSUME IsFiniteSet(Client), OrdersTypeOK, RowsInv, NEW e \in DOMAIN log
  PROVE  /\ e \in 1..MaxEvents
         /\ log[e] \in Event
         /\ ActionsMove(log[e], StockActions(log[e]))
<1>1. log \in Seq(Event) /\ e \in 1..Len(log) /\ log[e] \in Event
  BY DEF OrdersTypeOK
<1>2. \A c \in Client : Coming[c] \in Nat
  BY DEF OrdersTypeOK, CallState, Coming
<1>3. SumOver(Coming, Client) \in Nat
  BY <1>2, SumNotNegative
<1>4. e \in 1..MaxEvents
  <2>1. Rows = Len(log) + SumOver(Coming, Client)
    BY RowsCounted
  <2>2. Rows <= MaxEvents
    BY DEF RowsInv
  <2>3. Len(log) \in Nat /\ MaxEvents \in Nat
    BY <1>1, OrdersAssumption
  <2>4. \A k, s, m \in Nat : \A i \in 1..k : k + s <= m => i \in 1..m
    OBVIOUS
  <2>5. QED
    BY <1>1, <1>3, <2>1, <2>2, <2>3, <2>4
<1>5. ItemsApart(log[e]) /\ NamedOnce(log[e].request)
  BY DEF RowsInv
<1>6. QED
  BY <1>1, <1>4, <1>5, StockActionsMove

-----------------------------------------------------------------------------
(***************************************************************************)
(* The deliveries are steps of the Inventory, on events as it wants them.  *)
(***************************************************************************)
OneHandler == IsFiniteSet(Handler) /\ \A g, h \in Handler : g = h

LEMMA DeliveryBegins ==
  ASSUME IsFiniteSet(Client), OrdersTypeOK, RowsInv, NEW h \in Handler, NEW e \in DOMAIN log,
         DeliverToInventory(h, e)
  PROVE  /\ e \in StockProofs!Source
         /\ MovementFor(log[e].type) \in StockProofs!MovementType
         /\ StockActions(log[e]) \in Seq(StockProofs!Action)
         /\ StockProofs!SkuOnce(StockActions(log[e]))
         /\ StockProofs!Begin(h, e, MovementFor(log[e].type), StockActions(log[e]))
         /\ requested' = requested
<1>1. e \in 1..MaxEvents /\ log[e] \in Event /\ ActionsMove(log[e], StockActions(log[e]))
  BY RowsThere
<1>2. e \in StockProofs!Source /\ MovementFor(log[e].type) \in StockProofs!MovementType
  BY <1>1 DEF StockProofs!Source, MovementFor, StockProofs!MovementType, StockProofs!OrderMovement
<1>3. Stock!Action = StockProofs!Action
  BY DEF Stock!Action, StockProofs!Action
<1>4. /\ StockActions(log[e]) \in Seq(StockProofs!Action)
      /\ StockProofs!SkuOnce(StockActions(log[e]))
  BY <1>1, <1>3 DEF ActionsMove
<1>5. Stock!ConsumeOrderEvent(h, e, MovementFor(log[e].type), StockActions(log[e]))
  BY DEF DeliverToInventory
<1>6. QED
  BY <1>2, <1>4, <1>5, SameBegin

LEMMA DeliveriesStep ==
  ASSUME IsFiniteSet(Client), OrdersTypeOK, RowsInv, NEW h \in Handler,
         (\E e \in DOMAIN log : DeliverToInventory(h, e)) \/ Stock!CallStep(h)
  PROVE  StockProofs!StockStep /\ requested' = requested
<1>1. CASE Stock!CallStep(h)
  BY <1>1, SameStep DEF StockProofs!StockStep
<1>2. ASSUME NEW e \in DOMAIN log, DeliverToInventory(h, e)
      PROVE  StockProofs!StockStep /\ requested' = requested
  BY <1>2, DeliveryBegins DEF StockProofs!StockStep
<1>3. QED
  BY <1>1, <1>2

LEMMA StockSafeStep ==
  ASSUME IsFiniteSet(Client), OneHandler, OrdersTypeOK, RowsInv, StockProofs!StockSafe,
         [Next]_vars
  PROVE  StockProofs!StockSafe'
<1>1. StockProofs!IsFiniteSet(Handler) /\ StockProofs!OneCallOnly
  BY FiniteThere DEF OneHandler, StockProofs!OneCallOnly
<1>2. ASSUME StockProofs!StockStep, requested' = requested PROVE StockProofs!StockSafe'
  <2>1. requested \subseteq {}
    BY DEF StockProofs!StockSafe, StockProofs!InventoryInv, StockProofs!HistoryOK
  <2>2. QED
    BY <1>1, <1>2, <2>1, StockAssumption, StockProofs!StockStepSafe
<1>3. CASE UNCHANGED stockVars
  <2>1. /\ items' = items /\ existing' = existing /\ movements' = movements
        /\ announced' = announced /\ handling' = handling /\ pending' = pending
        /\ consumed' = consumed /\ requested' = requested
    BY <1>3 DEF stockVars
  <2>2. StockProofs!InventoryInv'
    <3>1. StockProofs!InventoryInv
      BY DEF StockProofs!StockSafe
    <3>2. QED
      BY <2>1, <3>1 DEF StockProofs!InventoryInv, StockProofs!CallsOK, StockProofs!CallInv,
           StockProofs!ItemsOK, StockProofs!HistoryOK, StockProofs!AvailableNeverNegative
  <2>3. StockProofs!CopiesInv'
    <3>1. StockProofs!CopiesInv
      BY DEF StockProofs!StockSafe
    <3>2. QED
      BY <2>1, <3>1 DEF StockProofs!CopiesInv
  <2>4. StockProofs!BalanceInv'
    <3>1. StockProofs!BalanceInv
      BY DEF StockProofs!StockSafe
    <3>2. QED
      BY <2>1, <3>1 DEF StockProofs!BalanceInv, StockProofs!NewItemsAreZero
  <2>5. QED
    BY <2>2, <2>3, <2>4 DEF StockProofs!StockSafe
<1>4. UNCHANGED stockVars \/ \E h \in Handler :
        (\E e \in DOMAIN log : DeliverToInventory(h, e)) \/ Stock!CallStep(h)
  BY DEF Next, vars, stockVars
<1>5. QED
  BY <1>2, <1>3, <1>4, DeliveriesStep

LEMMA FollowsOrders == Spec => OrdersSpec
<1>1. Init => OrdersInit
  BY DEF Init
<1>2. [Next]_vars => [OrdersNext]_ordersVars
  BY DEF Next, vars
<1>3. QED
  BY <1>1, <1>2, PTL DEF Spec, OrdersSpec

LEMMA RowsInvariant ==
  ASSUME IsFiniteSet(Client), RequestsNameOnce
  PROVE  Spec /\ []OrdersApart => []RowsInv
<1>1. Init => RowsInv
  BY RowsInvAtFirst DEF Init
<1>2. OrdersInv /\ RowsInv /\ OrdersApart' /\ [Next]_vars => RowsInv'
  <2>1. [Next]_vars => [OrdersNext]_ordersVars
    BY DEF Next, vars
  <2>2. QED
    BY <2>1, RowsStep
<1>3. QED
  BY <1>1, <1>2, FollowsOrders, OrdersInvariant, PTL DEF Spec

LEMMA StockSafeInvariant ==
  ASSUME IsFiniteSet(Client), RequestsNameOnce, OneHandler
  PROVE  Spec /\ []OrdersApart => []StockProofs!StockSafe
<1>1. Init => StockProofs!StockSafe
  BY SameInit, StockAssumption, StockProofs!StockAtFirst DEF Init
<1>2. OrdersTypeOK /\ RowsInv /\ StockProofs!StockSafe /\ [Next]_vars => StockProofs!StockSafe'
  BY StockSafeStep
<1>3. QED
  BY <1>1, <1>2, FollowsOrders, OrdersTypeCorrect, RowsInvariant, PTL DEF Spec

\* One delivery at a time, redelivered and refused half way as may be: no movement of an
\* order event is recorded twice, as long as no order has two lines for the same item.
THEOREM StockOncePerKey ==
  ASSUME IsFiniteSet(Client), RequestsNameOnce, OneHandler
  PROVE  Spec /\ []OrdersApart => []OncePerKey
<1>1. StockProofs!StockSafe => OncePerKey
  <2>1. SUFFICES ASSUME StockProofs!StockSafe PROVE StockProofs!OncePerKey
    BY SameProperties
  <2>2. StockProofs!IsFiniteSet(Handler) /\ StockProofs!OneCallOnly
    BY FiniteThere DEF OneHandler, StockProofs!OneCallOnly
  <2>3. StockProofs!InventoryInv /\ StockProofs!CopiesInv
    BY <2>1 DEF StockProofs!StockSafe
  <2>4. QED
    BY <2>2, <2>3, StockAssumption, StockProofs!RecordedOnce
<1>2. QED
  BY <1>1, StockSafeInvariant, PTL

\* And the balances are what the movements add up to when no delivery is under way.
THEOREM StockBalanceFollowsMovements ==
  ASSUME IsFiniteSet(Client), RequestsNameOnce, OneHandler, Handler # {}
  PROVE  Spec /\ []OrdersApart => []BalanceFollowsMovements
<1>1. StockProofs!StockSafe => BalanceFollowsMovements
  <2>1. SUFFICES ASSUME StockProofs!StockSafe PROVE StockProofs!BalanceFollowsMovements
    BY SameProperties
  <2>2. QED
    BY <2>1, StockAssumption, StockProofs!AddsUpAtRest DEF StockProofs!StockSafe
<1>2. QED
  BY <1>1, StockSafeInvariant, PTL

-----------------------------------------------------------------------------
(***************************************************************************)
(* What the rows of an order move in sum is what the order holds and has   *)
(* shipped.                                                                *)
(***************************************************************************)
\* What orders are worth, W, is what their rows add to it, F.
Tracks(W, F) == \A o \in Order : W[orders[o]] = Tally(Due, o, F)

\* What a call adds to W is F of its first row.
AddsTo(call, from, W, F) ==
  /\ \A i \in DOMAIN call.events : i # 1 => F[call.events[i]] = 0
  /\ W[call.next] = W[from] + (IF 1 \in DOMAIN call.events THEN F[call.events[1]] ELSE 0)

LEMMA SavesKeepTrack ==
  ASSUME OrdersTypeOK, NEW W, NEW F \in [Event -> Int], Tracks(W, F),
         NEW call, Saves(call), AddsTo(call, orders[call.order], W, F)
  PROVE  Tracks(W, F)'
<1>1. /\ call \in CallState /\ call.order \in Order /\ call.events \in Seq(Event)
      /\ orders[call.order] \in OrderState
  BY DEF Saves, CallState, OrdersTypeOK
<1>2. Due \in Seq(Event) /\ Due' = Due \o call.events
  BY DueIsSequence DEF Saves
<1>3. ASSUME NEW o \in Order PROVE W[orders'[o]] = Tally(Due', o, F)
  <2>1. W[orders[o]] = Tally(Due, o, F) /\ Tally(Due, o, F) \in Int
    BY <1>2, TallyIsInt DEF Tracks
  <2>2. \A i \in DOMAIN call.events : i # 1 => F[call.events[i]] = 0
    BY DEF AddsTo
  <2>3. Tally(Due', o, F) = Tally(Due, o, F)
          + (IF 1 \in DOMAIN call.events /\ call.events[1].order = o THEN F[call.events[1]] ELSE 0)
    BY <1>1, <1>2, <2>2, TallyMore
  <2>4. \A i \in DOMAIN call.events : call.events[i].order = call.order
    BY DEF Saves, Outcome
  <2>5. CASE o = call.order
    <3>1. orders'[o] = call.next
      BY <1>1, <2>5 DEF Saves, OrdersTypeOK
    <3>2. W[call.next] = W[orders[o]]
            + (IF 1 \in DOMAIN call.events THEN F[call.events[1]] ELSE 0)
      BY <2>5 DEF AddsTo
    <3>3. QED
      BY <2>1, <2>3, <2>4, <2>5, <3>1, <3>2
  <2>6. CASE o # call.order
    <3>1. orders'[o] = orders[o]
      BY <1>1, <2>6 DEF Saves, OrdersTypeOK
    <3>2. QED
      BY <2>1, <2>3, <2>4, <2>6, <3>1
  <2>7. QED
    BY <2>5, <2>6
<1>4. QED
  BY <1>3 DEF Tracks

HeldOf(l) == [order \in OrderState |->
  IF order.status \in {"committed", "partially_fulfilled"} THEN Remaining(order, l) ELSE 0]

ShippedOf(l) == [order \in OrderState |-> order.lines[l].fulfilled]

\* By how much a row changes what is reserved, and what is issued, for a line.
Reserving(l) == [row \in Event |->
  IF row.type = "committed" THEN Amount(row, l)
  ELSE IF row.type \in Lifecycle THEN -Amount(row, l) ELSE 0]

Issuing(l) == [row \in Event |->
  IF row.type \in {"partially_fulfilled", "fulfilled"} THEN Amount(row, l) ELSE 0]

LEMMA ShiftsTyped ==
  ASSUME NEW l
  PROVE  /\ Reserving(l) \in [Event -> Int]
         /\ Issuing(l) \in [Event -> Int] /\ \A row \in Event : Issuing(l)[row] \in Nat
<1>1. \A row \in Event : Amount(row, l) \in Nat
  BY AmountIsNumber
<1>2. QED
  BY <1>1 DEF Reserving, Issuing

\* The first row of a turn, and the lines before and after it.
LEMMA TurnMoves ==
  ASSUME NEW call \in CallState, NEW from \in OrderState, Consistent(from), Consistent(call.next),
         NEW type \in Lifecycle, NEW request \in Seq(Fulfilment), NEW row \in Event,
         row.type = type, row.request = request, row.lines = call.next.lines,
         Follows(call, from, type, request),
         call.op # "completeOrder", <<>> \notin FulfilRequests, NEW l \in Stockable
  PROVE  /\ ShippedOf(l)[call.next] = ShippedOf(l)[from] + Issuing(l)[row]
         /\ call.op # "discardOrder" =>
              HeldOf(l)[call.next] = HeldOf(l)[from] + Reserving(l)[row]
<1>1. l \in Line /\ call.next \in OrderState
  BY OrderStockAssumption DEF CallState
<1>2. PICK next : next = call.next
  OBVIOUS
<1>3. /\ from.lines[l].quantity \in Nat /\ from.lines[l].fulfilled \in Nat
      /\ next.lines[l].quantity \in Nat /\ next.lines[l].fulfilled \in Nat
  BY <1>1, <1>2 DEF OrderState, Lines
<1>4. PICK q \in Nat, f \in Nat, n \in Nat :
        /\ q = from.lines[l].quantity /\ f = from.lines[l].fulfilled
        /\ n = next.lines[l].fulfilled
  BY <1>3
<1>5. /\ next.lines[l].quantity = q /\ next.status = type
      /\ f <= q /\ n <= q
  BY <1>1, <1>2, <1>4 DEF Follows, Consistent
<1>6. /\ HeldOf(l)[from] = IF from.status \in {"committed", "partially_fulfilled"} THEN q - f ELSE 0
      /\ HeldOf(l)[call.next] = IF type \in {"committed", "partially_fulfilled"} THEN q - n ELSE 0
      /\ ShippedOf(l)[from] = f /\ ShippedOf(l)[call.next] = n
  BY <1>1, <1>2, <1>4, <1>5 DEF HeldOf, ShippedOf, Remaining
<1>7. l \in Moving(row) <=> q > 0
  BY <1>1, <1>2, <1>5 DEF Moving, Present
<1>8. /\ row.lines[l].quantity = q /\ Remaining(row, l) = q - n
  BY <1>2, <1>4, <1>5 DEF Remaining
<1>9. /\ Reserving(l)[row] = IF type = "committed" THEN Amount(row, l) ELSE -Amount(row, l)
      /\ Issuing(l)[row] = IF type \in {"partially_fulfilled", "fulfilled"} THEN Amount(row, l) ELSE 0
  BY DEF Reserving, Issuing
<1>10. CASE /\ type = "committed" /\ request = <<>> /\ from.status = "draft"
            /\ \A k \in Line : call.next.lines[k].fulfilled = 0 /\ from.lines[k].fulfilled = 0
  <2>1. n = 0 /\ f = 0
    BY <1>1, <1>2, <1>4, <1>10
  <2>2. Amount(row, l) = q
    BY <1>4, <1>7, <1>8, <1>10 DEF Amount
  <2>3. QED
    BY <1>4, <1>6, <1>9, <1>10, <2>1, <2>2
<1>11. CASE /\ type = "fulfilled" /\ request = <<>>
            /\ from.status = "committed" \/ call.op = "completeOrder"
            /\ \A k \in Line : call.next.lines[k].fulfilled = from.lines[k].quantity
  <2>1. from.status = "committed" /\ n = q /\ f = 0
    BY <1>1, <1>2, <1>4, <1>11 DEF Consistent
  <2>2. Amount(row, l) = q
    BY <1>4, <1>7, <1>8, <1>11 DEF Amount
  <2>3. QED
    BY <1>4, <1>6, <1>9, <1>11, <2>1, <2>2
<1>12. CASE /\ type \in {"partially_fulfilled", "fulfilled"} /\ request \in FulfilRequests
            /\ from.status \in {"committed", "partially_fulfilled"}
            /\ \A k \in Line :
                 call.next.lines[k].fulfilled = from.lines[k].fulfilled + Asked(request, k)
  <2>1. PICK a \in Nat : a = Asked(request, l)
    BY AskedIsNumber
  <2>2. n = f + a
    BY <1>1, <1>2, <1>4, <1>12, <2>1
  <2>3. Amount(row, l) = a
    <3>1. q > 0 => Amount(row, l) = a
      BY <1>7, <1>12, <2>1 DEF Amount
    <3>2. ~ (q > 0) => Amount(row, l) = 0 /\ a = 0
      BY <1>4, <1>5, <1>7, <2>2 DEF Amount
    <3>3. QED
      BY <3>1, <3>2
  <2>4. type = "fulfilled" => n = q
    <3>1. SUFFICES ASSUME type = "fulfilled" PROVE n >= q
      BY <1>4, <1>5
    <3>2. AllDone(next)
      BY <1>2, <1>5, <3>1 DEF Consistent
    <3>3. q > 0 => n >= q
      BY <1>1, <1>4, <1>5, <3>2 DEF AllDone, Present
    <3>4. QED
      BY <1>4, <3>3
  <2>5. QED
    BY <1>4, <1>5, <1>6, <1>9, <1>12, <2>1, <2>2, <2>3, <2>4
<1>13. CASE /\ type = "cancelled" /\ request = <<>>
            /\ from.status \in {"committed", "partially_fulfilled"}
                 \/ (from.status = "draft" /\ call.op = "discardOrder")
            /\ \A k \in Line : call.next.lines[k].fulfilled = from.lines[k].fulfilled
  <2>1. n = f
    BY <1>1, <1>2, <1>4, <1>13
  <2>2. Amount(row, l) = q - n
    BY <1>4, <1>5, <1>7, <1>8, <1>13 DEF Amount
  <2>3. /\ Issuing(l)[row] = 0 /\ Reserving(l)[row] = -(q - n)
        /\ HeldOf(l)[call.next] = 0
    BY <1>6, <1>9, <1>13, <2>2
  <2>4. call.op # "discardOrder" => HeldOf(l)[from] = q - f
    BY <1>6, <1>13
  <2>5. q - f + (-(q - n)) = 0
    BY <1>4, <2>1
  <2>6. ShippedOf(l)[call.next] = ShippedOf(l)[from] + Issuing(l)[row]
    BY <1>4, <1>6, <2>1, <2>3
  <2>7. QED
    BY <2>3, <2>4, <2>5, <2>6
<1>14. QED
  BY <1>10, <1>11, <1>12, <1>13 DEF Follows

LEMMA OutcomeTracks ==
  ASSUME NEW call \in CallState, NEW from \in OrderState, Outcome(call, from),
         Consistent(from), Consistent(call.next), call.op # "completeOrder",
         <<>> \notin FulfilRequests, NEW l \in Stockable
  PROVE  /\ AddsTo(call, from, ShippedOf(l), Issuing(l))
         /\ call.op # "discardOrder" => AddsTo(call, from, HeldOf(l), Reserving(l))
<1>1. /\ call.next \in OrderState /\ l \in Line
      /\ \A i \in DOMAIN call.events : call.events[i] \in Event
  BY OrderStockAssumption DEF CallState
<1>2. \A i \in DOMAIN call.events : Plain(call.events[i]) =>
        Issuing(l)[call.events[i]] = 0 /\ Reserving(l)[call.events[i]] = 0
  BY <1>1 DEF Plain, Issuing, Reserving, Lifecycle
<1>3. CASE Drafting(call, from)
  <2>1. \A i \in DOMAIN call.events :
          Issuing(l)[call.events[i]] = 0 /\ Reserving(l)[call.events[i]] = 0
    BY <1>2, <1>3 DEF Drafting
  <2>2. /\ ShippedOf(l)[from] = 0 /\ ShippedOf(l)[call.next] = 0
        /\ HeldOf(l)[from] = 0 /\ HeldOf(l)[call.next] = 0
    BY <1>1, <1>3 DEF Drafting, ShippedOf, HeldOf
  <2>3. QED
    BY <2>1, <2>2 DEF AddsTo
<1>4. CASE Turns(call, from)
  <2>1. PICK type \in Lifecycle, request \in Seq(Fulfilment) :
          /\ 1 \in DOMAIN call.events
          /\ call.events[1].type = type /\ call.events[1].request = request
          /\ \A i \in DOMAIN call.events : i # 1 => Plain(call.events[i])
          /\ Follows(call, from, type, request)
    BY <1>4 DEF Turns
  <2>2. PICK row \in Event : row = call.events[1]
    BY <1>1, <2>1
  <2>3. row.type = type /\ row.request = request /\ row.lines = call.next.lines
    BY <2>1, <2>2 DEF Outcome
  <2>4. /\ ShippedOf(l)[call.next] = ShippedOf(l)[from] + Issuing(l)[row]
        /\ call.op # "discardOrder" =>
             HeldOf(l)[call.next] = HeldOf(l)[from] + Reserving(l)[row]
    BY <2>1, <2>3, TurnMoves
  <2>5. \A i \in DOMAIN call.events : i # 1 =>
          Issuing(l)[call.events[i]] = 0 /\ Reserving(l)[call.events[i]] = 0
    BY <1>2, <2>1
  <2>6. QED
    BY <2>1, <2>2, <2>4, <2>5 DEF AddsTo
<1>5. QED
  BY <1>3, <1>4 DEF Outcome

\* Unless a draft is discarded or a part of an order fulfilled as a whole, the rows tell
\* of what orders hold and have shipped.
TrackInv ==
  /\ SavesRight
  /\ \A l \in Stockable :
       /\ Tracks(ShippedOf(l), Issuing(l))
       /\ "discardOrder" \notin UseCases => Tracks(HeldOf(l), Reserving(l))

LEMMA SavesKeepBoth ==
  ASSUME OrdersInv, TrackInv, "completeOrder" \notin UseCases, <<>> \notin FulfilRequests,
         NEW c \in Client, Saves(running[c]), NEW l \in Stockable
  PROVE  /\ Tracks(ShippedOf(l), Issuing(l))'
         /\ "discardOrder" \notin UseCases => Tracks(HeldOf(l), Reserving(l))'
<1>1. PICK call \in CallState : call = running[c]
  BY DEF Saves
<1>2. /\ call.order \in Order /\ orders[call.order] \in OrderState
      /\ Consistent(orders[call.order]) /\ Consistent(call.next)
  BY <1>1 DEF OrdersInv, OrdersTypeOK, OrdersAreConsistent, CallsAreConsistent, CallState
<1>3. /\ Outcome(call, orders[call.order]) /\ call.op \in UseCases /\ Saves(call)
  BY <1>1 DEF Saves
<1>4. /\ AddsTo(call, orders[call.order], ShippedOf(l), Issuing(l))
      /\ "discardOrder" \notin UseCases =>
           AddsTo(call, orders[call.order], HeldOf(l), Reserving(l))
  BY <1>2, <1>3, OutcomeTracks
<1>5. Issuing(l) \in [Event -> Int] /\ Reserving(l) \in [Event -> Int]
  BY ShiftsTyped
<1>6. OrdersTypeOK /\ Tracks(ShippedOf(l), Issuing(l))
      /\ ("discardOrder" \notin UseCases => Tracks(HeldOf(l), Reserving(l)))
  BY DEF OrdersInv, TrackInv
<1>7. PICK W1, W2, F1, F2 :
        /\ W1 = ShippedOf(l) /\ W2 = HeldOf(l) /\ F1 = Issuing(l) /\ F2 = Reserving(l)
  OBVIOUS
<1>8. Tracks(W1, F1)'
  BY <1>3, <1>4, <1>5, <1>6, <1>7, SavesKeepTrack
<1>9. "discardOrder" \notin UseCases => Tracks(W2, F2)'
  BY <1>3, <1>4, <1>5, <1>6, <1>7, SavesKeepTrack
<1>10. QED
  BY <1>7, <1>8, <1>9

LEMMA TracksAtFirst ==
  ASSUME OrdersInit
  PROVE  TrackInv
<1>1. SavesRight /\ Due = <<>>
  BY DueAtFirst
<1>2. \A o \in Order : /\ orders[o].status \in {"none", "draft"} /\ orders[o] \in OrderState
                       /\ \A l \in Line : orders[o].lines[l].fulfilled = 0
  <2>1. OrdersTypeOK
    BY OrdersInvInit DEF OrdersInv
  <2>2. QED
    BY <2>1 DEF OrdersInit, DraftOf, NoOrder, NoLines, OrdersTypeOK
<1>3. \A l \in Stockable, o \in Order : ShippedOf(l)[orders[o]] = 0 /\ HeldOf(l)[orders[o]] = 0
  BY <1>2, OrderStockAssumption DEF ShippedOf, HeldOf
<1>4. \A o, F : Tally(Due, o, F) = 0
  BY <1>1, TallyEmpty
<1>5. QED
  BY <1>1, <1>3, <1>4 DEF TrackInv, Tracks

LEMMA TrackInvariant ==
  ASSUME Serial, "completeOrder" \notin UseCases, <<>> \notin FulfilRequests
  PROVE  OrdersSpec => []TrackInv
<1>1. OrdersInit => TrackInv
  BY TracksAtFirst
<1>2. OrdersInv /\ TrackInv /\ [OrdersNext]_ordersVars => TrackInv'
  <2>1. SUFFICES ASSUME OrdersInv, TrackInv, [OrdersNext]_ordersVars PROVE TrackInv'
    OBVIOUS
  <2>2. /\ SavesRight'
        /\ (orders' = orders /\ Due' = Due) \/ \E c \in Client : Saves(running[c])
    BY <2>1, DueStep DEF TrackInv
  <2>3. ASSUME NEW c \in Client, Saves(running[c]) PROVE TrackInv'
    BY <2>1, <2>2, <2>3, SavesKeepBoth DEF TrackInv
  <2>4. CASE orders' = orders /\ Due' = Due
    <3>1. ASSUME NEW W, NEW F, Tracks(W, F) PROVE Tracks(W, F)'
      BY <2>4, <3>1 DEF Tracks
    <3>2. \A l \in Stockable :
            /\ Tracks(ShippedOf(l), Issuing(l))'
            /\ "discardOrder" \notin UseCases => Tracks(HeldOf(l), Reserving(l))'
      <4> SUFFICES ASSUME NEW l \in Stockable
                   PROVE  /\ Tracks(ShippedOf(l), Issuing(l))'
                          /\ "discardOrder" \notin UseCases => Tracks(HeldOf(l), Reserving(l))'
        OBVIOUS
      <4>1. PICK W1, W2, F1, F2 :
              /\ W1 = ShippedOf(l) /\ W2 = HeldOf(l) /\ F1 = Issuing(l) /\ F2 = Reserving(l)
        OBVIOUS
      <4>2. Tracks(W1, F1) /\ ("discardOrder" \notin UseCases => Tracks(W2, F2))
        BY <2>1, <4>1 DEF TrackInv
      <4>3. Tracks(W1, F1)' /\ ("discardOrder" \notin UseCases => Tracks(W2, F2)')
        BY <3>1, <4>2
      <4>4. QED
        BY <4>1, <4>3
    <3>3. QED
      BY <2>2, <3>2 DEF TrackInv
  <2>5. QED
    BY <2>2, <2>3, <2>4
<1>3. QED
  BY <1>1, <1>2, OrdersInvariant, PTL DEF OrdersSpec

-----------------------------------------------------------------------------
(***************************************************************************)
(* What the stock records is what the rows ask for, and of a row that has  *)
(* been consumed it records everything.                                    *)
(***************************************************************************)
KeyFor(row, e, l) == [source |-> e, type |-> MovementFor(row.type), sku |-> SkuOf[l]]

\* A movement of one of these rows.
MoveOf(m, rows) ==
  /\ m.source \in DOMAIN rows /\ rows[m.source].type \in Lifecycle
  /\ m.type = MovementFor(rows[m.source].type)
  /\ \E l \in Moving(rows[m.source]) :
       m.sku = SkuOf[l] /\ m.quantity = Amount(rows[m.source], l)

MovesOf(rows) == {m \in StockProofs!Movement : MoveOf(m, rows)}

Asks(row, l) == row.type \in Lifecycle /\ l \in Moving(row) /\ Amount(row, l) # 0

\* The keys of the movements that the rows ask for.
Wanted(rows, key) ==
  \E e \in DOMAIN rows : \E l : Asks(rows[e], l) /\ key = KeyFor(rows[e], e, l)

MovesInv ==
  /\ StockProofs!Within(MovesOf(log))
  /\ StockProofs!SourcesIn(DOMAIN log)
  /\ \A key : Wanted(log, key) => StockProofs!KeyInv(key)

\* The rows that come later ask for movements of their own.
LEMMA LaterRows ==
  ASSUME NEW rows \in Seq(Event), NEW more \in Seq(Event)
  PROVE  /\ MovesOf(rows) \subseteq MovesOf(rows \o more)
         /\ DOMAIN rows \subseteq DOMAIN (rows \o more)
         /\ \A e \in DOMAIN rows : (rows \o more)[e] = rows[e]
<1>1. /\ DOMAIN rows \subseteq DOMAIN (rows \o more)
      /\ \A e \in DOMAIN rows : (rows \o more)[e] = rows[e]
  OBVIOUS
<1>2. PICK all : all = rows \o more
  OBVIOUS
<1>3. \A m : MoveOf(m, rows) => MoveOf(m, all)
  BY <1>1, <1>2 DEF MoveOf
<1>4. MovesOf(rows) \subseteq MovesOf(all)
  BY <1>3 DEF MovesOf
<1>5. QED
  BY <1>1, <1>2, <1>4

LEMMA InsertKeepsMoves ==
  ASSUME OrdersTypeOK, MovesInv, NEW more \in Seq(Event), log' = log \o more,
         UNCHANGED stockVars
  PROVE  MovesInv'
<1>1. /\ handling' = handling /\ movements' = movements /\ consumed' = consumed
  BY DEF stockVars
<1>2. log \in Seq(Event)
  BY DEF OrdersTypeOK
<1>3. PICK L, M : L = MovesOf(log) /\ M = MovesOf(log')
  OBVIOUS
<1>4. /\ L \subseteq M /\ DOMAIN log \subseteq DOMAIN log'
      /\ \A e \in DOMAIN log : log'[e] = log[e]
  BY <1>2, <1>3, LaterRows
<1>5. StockProofs!Within(M)'
  <2>1. StockProofs!Within(L)
    BY <1>3 DEF MovesInv
  <2>2. \A h \in Handler : StockProofs!AsksWithin(handling[h], L) => StockProofs!AsksWithin(handling[h], M)
    BY <1>4 DEF StockProofs!AsksWithin
  <2>3. QED
    BY <1>1, <1>4, <2>1, <2>2 DEF StockProofs!Within
<1>6. PICK X, Y : X = DOMAIN log /\ Y = DOMAIN log'
  OBVIOUS
<1>7. StockProofs!SourcesIn(X) /\ StockProofs!SourcesIn(Y)'
  <2>1. StockProofs!SourcesIn(X)
    BY <1>6 DEF MovesInv
  <2>2. QED
    BY <1>1, <1>4, <1>6, <2>1 DEF StockProofs!SourcesIn
<1>8. ASSUME NEW key, Wanted(log', key)
      PROVE  StockProofs!KeyInv(key)'
  <2>1. PICK e \in DOMAIN log' : \E l : Asks(log'[e], l) /\ key = KeyFor(log'[e], e, l)
    BY <1>8 DEF Wanted
  <2>2. key.source = e
    BY <2>1 DEF KeyFor
  <2>3. StockProofs!KeyInv(key)
    <3>1. CASE e \in DOMAIN log
      <4>1. Wanted(log, key)
        BY <1>4, <2>1, <3>1 DEF Wanted
      <4>2. QED
        BY <4>1 DEF MovesInv
    <3>2. CASE e \notin DOMAIN log
      BY <1>6, <1>7, <2>2, <3>2 DEF StockProofs!SourcesIn, StockProofs!KeyInv, StockProofs!Accounts
    <3>3. QED
      BY <3>1, <3>2
  <2>4. QED
    BY <1>1, <2>3 DEF StockProofs!KeyInv
<1>9. QED
  BY <1>3, <1>5, <1>6, <1>7, <1>8 DEF MovesInv

LEMMA DeliveryKeepsMoves ==
  ASSUME IsFiniteSet(Client), OrdersTypeOK, RowsInv, StockProofs!InventoryInv, MovesInv,
         log' = log, NEW h \in Handler, NEW e \in DOMAIN log, DeliverToInventory(h, e)
  PROVE  MovesInv'
<1>0. StockProofs!CallsOK
  BY DEF StockProofs!InventoryInv
<1>1. /\ e \in StockProofs!Source
      /\ MovementFor(log[e].type) \in StockProofs!MovementType
      /\ StockActions(log[e]) \in Seq(StockProofs!Action)
      /\ StockProofs!Begin(h, e, MovementFor(log[e].type), StockActions(log[e]))
  BY DeliveryBegins
<1>2. log[e].type \in Lifecycle /\ ActionsMove(log[e], StockActions(log[e]))
  BY RowsThere DEF DeliverToInventory
<1>3. PICK type, actions : type = MovementFor(log[e].type) /\ actions = StockActions(log[e])
  OBVIOUS
<1>4. PICK L : L = MovesOf(log)
  OBVIOUS
<1>5. \A i \in DOMAIN actions :
        [source |-> e, type |-> type,
         sku |-> actions[i].sku, quantity |-> actions[i].quantity] \in L
  <2> SUFFICES ASSUME NEW i \in DOMAIN actions
               PROVE  [source |-> e, type |-> type,
                       sku |-> actions[i].sku, quantity |-> actions[i].quantity] \in L
    OBVIOUS
  <2>1. PICK m : m = [source |-> e, type |-> type,
                      sku |-> actions[i].sku, quantity |-> actions[i].quantity]
    OBVIOUS
  <2>2. actions[i] \in StockProofs!Action
    BY <1>1, <1>3
  <2>3. m \in StockProofs!Movement
    BY <1>1, <1>3, <2>1, <2>2 DEF StockProofs!Movement, StockProofs!Action
  <2>4. PICK l \in Moving(log[e]) : MovesLine(actions[i], log[e], l)
    BY <1>2, <1>3 DEF ActionsMove
  <2>5. MoveOf(m, log)
    BY <1>2, <1>3, <2>1, <2>4 DEF MoveOf, MovesLine
  <2>6. QED
    BY <1>4, <2>1, <2>3, <2>5 DEF MovesOf
<1>6. StockProofs!Begin(h, e, type, actions)
  BY <1>1, <1>3
<1>7. StockProofs!Within(L)'
  <2>1. StockProofs!Within(L)
    BY <1>4 DEF MovesInv
  <2>2. QED
    BY <1>0, <1>5, <1>6, <2>1, StockAssumption, StockProofs!BeginWithin
<1>8. PICK X : X = DOMAIN log
  OBVIOUS
<1>9. StockProofs!SourcesIn(X)'
  <2>1. StockProofs!SourcesIn(X)
    BY <1>8 DEF MovesInv
  <2>2. QED
    BY <1>0, <1>6, <1>8, <2>1, StockAssumption, StockProofs!BeginSources
<1>10. ASSUME NEW key, Wanted(log, key)
       PROVE  StockProofs!KeyInv(key)'
  <2>1. PICK d \in DOMAIN log : \E l : Asks(log[d], l) /\ key = KeyFor(log[d], d, l)
    BY <1>10 DEF Wanted
  <2>2. StockProofs!KeyInv(key)
    BY <1>10 DEF MovesInv
  <2>3. e = key.source => type = key.type /\ StockProofs!Intends(actions, key)
    <3>1. SUFFICES ASSUME e = d PROVE type = key.type /\ StockProofs!Intends(actions, key)
      BY <2>1 DEF KeyFor
    <3>2. PICK l : Asks(log[e], l) /\ key = KeyFor(log[e], e, l)
      BY <2>1, <3>1
    <3>3. type = key.type /\ key.sku = SkuOf[l]
      BY <1>3, <3>2 DEF KeyFor
    <3>4. PICK i \in DOMAIN actions : MovesLine(actions[i], log[e], l)
      BY <1>2, <1>3, <3>2 DEF ActionsMove, Asks
    <3>5. QED
      BY <3>3, <3>4 DEF MovesLine, StockProofs!Intends
  <2>4. QED
    BY <1>0, <1>6, <2>2, <2>3, StockAssumption, StockProofs!BeginAccounts
<1>11. QED
  BY <1>4, <1>7, <1>8, <1>9, <1>10 DEF MovesInv

LEMMA StockStepKeepsMoves ==
  ASSUME StockProofs!InventoryInv, MovesInv, log' = log, NEW h \in Handler, Stock!CallStep(h)
  PROVE  MovesInv'
<1>0. StockProofs!CallsOK /\ StockProofs!CallStep(h)
  BY SameStep DEF StockProofs!InventoryInv
<1>1. PICK L, X : L = MovesOf(log) /\ X = DOMAIN log
  OBVIOUS
<1>2. StockProofs!Within(L) /\ StockProofs!SourcesIn(X)
  BY <1>1 DEF MovesInv
<1>3. StockProofs!Within(L)'
  BY <1>0, <1>2, StockAssumption, StockProofs!CallStepWithin
<1>4. StockProofs!SourcesIn(X)'
  BY <1>0, <1>2, StockAssumption, StockProofs!CallStepSources
<1>5. ASSUME NEW key, Wanted(log, key) PROVE StockProofs!KeyInv(key)'
  <2>1. StockProofs!KeyInv(key)
    BY <1>5 DEF MovesInv
  <2>2. QED
    BY <1>0, <2>1, StockAssumption, StockProofs!CallStepAccounts
<1>6. QED
  BY <1>1, <1>3, <1>4, <1>5 DEF MovesInv

\* A step of the orders only adds rows.
LEMMA LogGrows ==
  ASSUME OrdersInv, OrdersNext
  PROVE  \E more \in Seq(Event) : log' = log \o more
<1>0. OrdersTypeOK /\ OrdersAreConsistent
  BY DEF OrdersInv
<1>1. log \in Seq(Event) /\ log = log \o <<>> /\ <<>> \in Seq(Event)
  BY <1>0 DEF OrdersTypeOK
<1>2. log' = log \/ \E c \in Client : log' = log \o running[c].events
  <2>1. PICK c \in Client : \/ \E o \in Order : Operate(c, o)
                            \/ CatalogRefuses(c)
                            \/ SaveOrder(c)
                            \/ InsertRows(c)
    BY DEF OrdersNext
  <2>2. ASSUME NEW o \in Order, Operate(c, o) PROVE log' = log
    BY <1>0, <2>2, OperationsOutcome DEF StagesOutcome
  <2>3. QED
    BY <2>1, <2>2 DEF CatalogRefuses, SaveOrder, InsertRows
<1>3. \A c \in Client : running[c].events \in Seq(Event)
  BY <1>0 DEF OrdersTypeOK, CallState
<1>4. QED
  BY <1>1, <1>2, <1>3

LEMMA MovesStep ==
  ASSUME IsFiniteSet(Client), OrdersInv, RowsInv, StockProofs!InventoryInv, MovesInv, [Next]_vars
  PROVE  MovesInv'
<1>0. OrdersTypeOK
  BY DEF OrdersInv
<1>1. CASE OrdersNext /\ UNCHANGED stockVars
  BY <1>0, <1>1, LogGrows, InsertKeepsMoves
<1>2. CASE UNCHANGED vars
  <2>1. log' = log \o <<>> /\ <<>> \in Seq(Event) /\ UNCHANGED stockVars
    BY <1>0, <1>2 DEF vars, ordersVars, stockVars, OrdersTypeOK
  <2>2. QED
    BY <1>0, <2>1, InsertKeepsMoves
<1>3. ASSUME NEW h \in Handler, UNCHANGED ordersVars,
             (\E e \in DOMAIN log : DeliverToInventory(h, e)) \/ Stock!CallStep(h)
      PROVE  MovesInv'
  <2>1. log' = log
    BY <1>3 DEF ordersVars
  <2>2. QED
    BY <1>0, <1>3, <2>1, DeliveryKeepsMoves, StockStepKeepsMoves
<1>4. QED
  BY <1>1, <1>2, <1>3 DEF Next

LEMMA MovesAtFirst ==
  ASSUME Init
  PROVE  MovesInv
<1>1. /\ StockProofs!InventoryInit /\ log = <<>>
  BY SameInit DEF Init, OrdersInit
<1>2. /\ consumed = {} /\ StockProofs!BagToSet(movements) = {}
      /\ \A h \in Handler : handling[h].at = "idle"
  <2>1. \A h \in Handler : handling[h] = StockProofs!Fresh
    BY <1>1 DEF StockProofs!InventoryInit
  <2>2. StockProofs!Fresh.at = "idle"
    BY StockAssumption, StockProofs!FreshOK
  <2>3. movements = StockProofs!EmptyBag /\ consumed = {}
    BY <1>1 DEF StockProofs!InventoryInit
  <2>4. StockProofs!BagToSet(movements) = {}
    BY <2>3 DEF StockProofs!BagToSet, StockProofs!EmptyBag, StockProofs!SetToBag
  <2>5. QED
    BY <2>1, <2>2, <2>3, <2>4
<1>3. DOMAIN log = {}
  BY <1>1
<1>4. \A key : ~ Wanted(log, key)
  BY <1>3 DEF Wanted
<1>5. QED
  BY <1>2, <1>4 DEF MovesInv, StockProofs!Within, StockProofs!AsksWithin, StockProofs!SourcesIn

LEMMA MovesInvariant ==
  ASSUME IsFiniteSet(Client), RequestsNameOnce, OneHandler
  PROVE  Spec /\ []OrdersApart => []MovesInv
<1>1. Init => MovesInv
  BY MovesAtFirst
<1>2. OrdersInv /\ RowsInv /\ StockProofs!StockSafe /\ MovesInv /\ [Next]_vars => MovesInv'
  BY MovesStep DEF StockProofs!StockSafe
<1>3. QED
  BY <1>1, <1>2, FollowsOrders, OrdersInvariant, RowsInvariant, StockSafeInvariant, PTL DEF Spec

-----------------------------------------------------------------------------
(***************************************************************************)
(* The movements of an item, summed by the rows that asked for them and    *)
(* then by the orders and lines of those rows.                             *)
(***************************************************************************)
\* By line, what a row counts for; nothing where it asks for nothing.
Shifts(F) ==
  \A l \in Stockable : /\ F[l] \in [Event -> Int]
                       /\ \A row \in Event : ~ Asks(row, l) => F[l][row] = 0

\* What a row counts for, by order and line.
Cells(row, F, N) == [p \in N |-> IF row.order = p[1] THEN F[p[2]][row] ELSE 0]

LEMMA LinesFinite ==
  ASSUME NEW s
  PROVE  IsFiniteSet(LinesOf(s)) /\ LinesOf(s) \subseteq Stockable /\ LinesOf(s) \subseteq Line
<1>1. IsFiniteSet(Line)
  BY FS_Interval, OrdersAssumption DEF Line
<1>2. LinesOf(s) \subseteq Stockable /\ LinesOf(s) \subseteq Line
  BY OrderStockAssumption DEF LinesOf
<1>3. QED
  BY <1>1, <1>2, FS_Subset

LEMMA RowSum ==
  ASSUME NEW O \in SUBSET Order, IsFiniteSet(O), NEW s, NEW F, Shifts(F),
         NEW row \in Event, ItemsApart(row), NEW N, N = O \X LinesOf(s)
  PROVE  /\ IsFiniteSet(N) /\ IntOn(Cells(row, F, N), N)
         /\ \A l \in LinesOf(s) : l \in Moving(row) /\ row.order \in O =>
              SumOver(Cells(row, F, N), N) = F[l][row]
         /\ (\A l \in LinesOf(s) : F[l][row] = 0) => SumOver(Cells(row, F, N), N) = 0
<1>1. IsFiniteSet(N)
  BY LinesFinite, FS_Product
<1>2. PICK t : t = Cells(row, F, N)
  OBVIOUS
<1>3. \A p \in N : /\ p[1] \in O /\ p[2] \in LinesOf(s) /\ p = <<p[1], p[2]>>
                   /\ t[p] = IF row.order = p[1] THEN F[p[2]][row] ELSE 0
  BY <1>2 DEF Cells
<1>4. \A l \in LinesOf(s) : F[l][row] \in Int
  BY LinesFinite DEF Shifts
<1>5. IntOn(t, N)
  BY <1>3, <1>4 DEF IntOn
<1>6. ASSUME NEW l \in LinesOf(s), l \in Moving(row), row.order \in O
      PROVE  SumOver(t, N) = F[l][row]
  <2>1. PICK x \in N : x = <<row.order, l>>
    BY <1>6
  <2>2. \A k \in LinesOf(s) : k # l => F[k][row] = 0
    <3>1. ASSUME NEW k \in LinesOf(s), k # l PROVE F[k][row] = 0
      <4>1. k \notin Moving(row)
        BY <1>6, <3>1 DEF LinesOf, ItemsApart
      <4>2. QED
        BY <4>1, LinesFinite DEF Shifts, Asks
    <3>2. QED
      BY <3>1
  <2>3. t[x] = F[l][row]
    BY <1>3, <2>1
  <2>4. \A y \in N \ {x} : t[y] = 0
    BY <1>3, <2>1, <2>2
  <2>6. PICK M : M = N \ {x}
    OBVIOUS
  <2>7. SumOver(t, N) = t[x] + SumOver(t, M) /\ t[x] \in Int
    BY <1>1, <1>5, <2>1, <2>6, SumStep DEF IntOn
  <2>8. SumOver(t, M) = 0
    <3>1. StockProofs!IsFiniteSet(M)
      BY <1>1, <2>6, FS_Subset, FiniteThere
    <3>2. \A y \in M : t[y] = 0
      BY <2>4, <2>6
    <3>3. QED
      BY <3>1, <3>2, StockAssumption, StockProofs!SumZero DEF SumOver
  <2>9. QED
    BY <2>3, <2>7, <2>8
<1>7. ASSUME \A l \in LinesOf(s) : F[l][row] = 0
      PROVE  SumOver(t, N) = 0
  <2>1. \A p \in N : t[p] = 0
    BY <1>3, <1>7
  <2>2. StockProofs!IsFiniteSet(N)
    BY <1>1, FiniteThere
  <2>3. QED
    BY <2>1, <2>2, StockAssumption, StockProofs!SumZero DEF SumOver
<1>8. QED
  BY <1>1, <1>2, <1>5, <1>6, <1>7

\* Every movement counts for what its row does.
CountsAs(m, s, F, x) ==
  /\ m.sku = s
  /\ \A l \in LinesOf(s) : l \in Moving(log[m.source]) /\ m.type = MovementFor(log[m.source].type)
                             /\ m.quantity = Amount(log[m.source], l) =>
       x = F[l][log[m.source]]

AllCount(R, O, s, F, w) == \A m \in R : log[m.source].order \in O /\ CountsAs(m, s, F, w[m])

Summed(R, F, N) ==
  [e \in DOMAIN log |-> IF \E m \in R : m.source = e THEN SumOver(Cells(log[e], F, N), N) ELSE 0]

LEMMA WeightThere ==
  ASSUME StockProofs!IsFiniteSet(DOMAIN movements), NEW K, NEW w, StockProofs!IntOn(w, K),
         NEW R, R = K \intersect DOMAIN movements, NEW P, StockProofs!IsFiniteSet(P),
         NEW g, StockProofs!Sourced(R, w, P, g)
  PROVE  StockProofs!Weight(movements, w, K) = SumOver(g, P)
BY StockAssumption, StockProofs!WeightBySource DEF SumOver

LEMMA MovesInSum ==
  ASSUME OrdersTypeOK, RowsInv, MovesInv, StockProofs!IsFiniteSet(DOMAIN movements),
         \A m \in DOMAIN movements : movements[m] = 1,
         NEW O \in SUBSET Order, IsFiniteSet(O), NEW s, NEW F, Shifts(F),
         NEW N, N = O \X LinesOf(s), NEW K, NEW w, StockProofs!IntOn(w, K),
         NEW R, R = K \intersect DOMAIN movements, AllCount(R, O, s, F, w),
         NEW g, g = Summed(R, F, N)
  PROVE  StockProofs!Weight(movements, w, K) = SumOver(g, DOMAIN log)
<1>0. \A m \in R : log[m.source].order \in O /\ CountsAs(m, s, F, w[m])
  BY DEF AllCount
<1>1. PICK P : P = DOMAIN log
  OBVIOUS
<1>2. StockProofs!IsFiniteSet(P)
  <2>1. log \in Seq(Event) /\ P = 1..Len(log)
    BY <1>1 DEF OrdersTypeOK
  <2>2. IsFiniteSet(P)
    BY <2>1, FS_Interval
  <2>3. QED
    BY <2>2, FiniteThere
<1>3. ASSUME NEW m \in R
      PROVE  m \in StockProofs!Movement /\ MoveOf(m, log)
  <2>1. StockProofs!BagToSet(movements) \subseteq MovesOf(log)
    BY DEF MovesInv, StockProofs!Within
  <2>2. m \in MovesOf(log)
    BY <2>1 DEF StockProofs!BagToSet
  <2>3. QED
    BY <2>2 DEF MovesOf
<1>4. ASSUME NEW m \in R
      PROVE  \E l \in LinesOf(s) :
               /\ l \in Moving(log[m.source]) /\ m.type = MovementFor(log[m.source].type)
               /\ m.quantity = Amount(log[m.source], l)
  <2>1. PICK l \in Moving(log[m.source]) : m.sku = SkuOf[l] /\ m.quantity = Amount(log[m.source], l)
    BY <1>3 DEF MoveOf
  <2>2. l \in LinesOf(s)
    BY <1>0, <2>1 DEF CountsAs, LinesOf, Moving
  <2>3. QED
    BY <1>3, <2>1, <2>2 DEF MoveOf
<1>5. \A e \in DOMAIN log : log[e] \in Event /\ ItemsApart(log[e])
  BY DEF OrdersTypeOK, RowsInv
<1>6. ASSUME NEW m \in R
      PROVE  movements[m] = 1 /\ m.source \in P /\ g[m.source] = w[m]
  <2>1. m.source \in DOMAIN log
    BY <1>3 DEF MoveOf
  <2>2. PICK l \in LinesOf(s) :
          /\ l \in Moving(log[m.source]) /\ m.type = MovementFor(log[m.source].type)
          /\ m.quantity = Amount(log[m.source], l)
    BY <1>4
  <2>3. w[m] = F[l][log[m.source]] /\ log[m.source].order \in O
    BY <1>0, <2>2 DEF CountsAs
  <2>4. g[m.source] = SumOver(Cells(log[m.source], F, N), N)
    BY <2>1 DEF Summed
  <2>5. SumOver(Cells(log[m.source], F, N), N) = F[l][log[m.source]]
    BY <1>5, <2>1, <2>2, <2>3, RowSum
  <2>6. QED
    BY <1>1, <2>1, <2>3, <2>4, <2>5
<1>7. ASSUME NEW m \in R, NEW n \in R, m.source = n.source
      PROVE  m = n
  <2>1. PICK l \in LinesOf(s) :
          /\ l \in Moving(log[m.source]) /\ m.type = MovementFor(log[m.source].type)
          /\ m.quantity = Amount(log[m.source], l)
    BY <1>4
  <2>2. PICK k \in LinesOf(s) :
          /\ k \in Moving(log[m.source]) /\ n.type = MovementFor(log[m.source].type)
          /\ n.quantity = Amount(log[m.source], k)
    BY <1>4, <1>7
  <2>3. m.source \in DOMAIN log
    BY <1>3 DEF MoveOf
  <2>4. l = k
    BY <1>5, <2>1, <2>2, <2>3 DEF ItemsApart, LinesOf
  <2>5. m.sku = n.sku
    BY <1>0 DEF CountsAs
  <2>6. QED
    BY <1>3, <1>7, <2>1, <2>2, <2>4, <2>5 DEF StockProofs!Movement
<1>8. \A p \in P : g[p] # 0 => \E m \in R : m.source = p
  BY <1>1 DEF Summed
<1>9. StockProofs!Weight(movements, w, K) = SumOver(g, P)
  <2>1. StockProofs!Sourced(R, w, P, g)
    BY <1>6, <1>7, <1>8 DEF StockProofs!Sourced
  <2>2. QED
    BY <1>2, <2>1, WeightThere
<1>10. QED
  BY <1>1, <1>9

\* All rows, by orders and lines.
LEMMA TableSum ==
  ASSUME OrdersTypeOK, RowsInv, NEW O \in SUBSET Order, IsFiniteSet(O), NEW s, NEW F, Shifts(F),
         NEW N, N = O \X LinesOf(s),
         NEW g, g = [e \in DOMAIN log |-> SumOver(Cells(log[e], F, N), N)],
         NEW h, h = [p \in N |-> Tally(log, p[1], F[p[2]])]
  PROVE  SumOver(g, DOMAIN log) = SumOver(h, N)
<1>1. PICK P, t : P = DOMAIN log /\ t = [e \in DOMAIN log |-> Cells(log[e], F, N)]
  OBVIOUS
<1>2. \A e \in P : log[e] \in Event /\ ItemsApart(log[e])
  BY <1>1 DEF OrdersTypeOK, RowsInv
<1>3. StockProofs!IsFiniteSet(P) /\ StockProofs!IsFiniteSet(N)
  <2>1. log \in Seq(Event) /\ P = 1..Len(log)
    BY <1>1 DEF OrdersTypeOK
  <2>2. IsFiniteSet(P)
    BY <2>1, FS_Interval
  <2>3. IsFiniteSet(N)
    BY LinesFinite, FS_Product
  <2>4. QED
    BY <2>2, <2>3, FiniteThere
<1>4. StockProofs!IsTable(t, P, N)
  BY <1>1, <1>2, RowSum DEF IntOn, StockProofs!IsTable
<1>5. StockProofs!SumOver(StockProofs!RowSums(t, P, N), P)
        = StockProofs!SumOver(StockProofs!ColumnSums(t, P, N), N)
  BY <1>3, <1>4, StockAssumption, StockProofs!SumSwap
<1>6. g = StockProofs!RowSums(t, P, N)
  BY <1>1 DEF SumOver, StockProofs!RowSums
<1>7. \A p \in N : [e \in P |-> t[e][p]] = Shares(log, p[1], F[p[2]])
  BY <1>1 DEF Cells, Shares
<1>8. h = StockProofs!ColumnSums(t, P, N)
  BY <1>1, <1>7 DEF Tally, SumOver, StockProofs!ColumnSums
<1>9. QED
  BY <1>1, <1>5, <1>6, <1>8 DEF SumOver

\* What a row counts for is what its movements change on one side of a balance.
ChangesAs(F, x) ==
  \A l \in Stockable, row \in Event, m \in StockProofs!Movement :
    row.type \in Lifecycle /\ m.type = MovementFor(row.type) /\ m.quantity = Amount(row, l) =>
      StockProofs!ChangeOf(m)[x] = F[l][row]

\* Of a row that has been consumed everything it asks for has been recorded.
LEMMA AllRecorded ==
  ASSUME MovesInv, Settled, NEW e \in DOMAIN log, NEW s, NEW l \in LinesOf(s), Asks(log[e], l)
  PROVE  \E m \in StockProofs!Of(s) \intersect DOMAIN movements : m.source = e
<1>1. PICK key : key = KeyFor(log[e], e, l)
  OBVIOUS
<1>2. key.source = e /\ key.sku = s
  BY <1>1 DEF KeyFor, LinesOf
<1>3. StockProofs!KeyInv(key)
  BY <1>1 DEF MovesInv, Wanted
<1>4. e \in consumed
  BY DEF Settled, Asks
<1>5. StockProofs!In(movements, key)
  BY <1>2, <1>3, <1>4 DEF StockProofs!KeyInv
<1>6. PICK m \in DOMAIN movements : m.source = e /\ m.sku = s
  BY <1>2, <1>5 DEF StockProofs!In, StockProofs!SameKey, StockProofs!BagToSet
<1>7. m \in StockProofs!Movement
  BY DEF MovesInv, StockProofs!Within, StockProofs!BagToSet, MovesOf
<1>8. QED
  BY <1>6, <1>7 DEF StockProofs!Of

LEMMA SettledSide ==
  ASSUME OrdersTypeOK, RowsInv, StockProofs!StockSafe, MovesInv, OneHandler, Settled,
         IsFiniteSet(Order), NEW s \in Sku, NEW x \in StockProofs!Side,
         NEW F, Shifts(F), ChangesAs(F, x), NEW N, N = Order \X LinesOf(s),
         NEW h, h = [p \in N |-> Tally(log, p[1], F[p[2]])]
  PROVE  StockProofs!Weight(movements, StockProofs!Changes(x), StockProofs!Of(s)) = SumOver(h, N)
<1>1. PICK K, w, R : /\ K = StockProofs!Of(s) /\ w = StockProofs!Changes(x)
                     /\ R = K \intersect DOMAIN movements
  OBVIOUS
<1>2. StockProofs!InventoryInv /\ StockProofs!CopiesInv
  BY DEF StockProofs!StockSafe
<1>3. StockProofs!IsFiniteSet(DOMAIN movements)
  BY <1>2 DEF StockProofs!CopiesInv
<1>4. \A m \in DOMAIN movements : movements[m] = 1
  <2>1. StockProofs!IsFiniteSet(Handler) /\ StockProofs!OneCallOnly
    BY FiniteThere DEF OneHandler, StockProofs!OneCallOnly
  <2>2. \A m \in StockProofs!BagToSet(movements) : movements[m] = 1
    BY <1>2, <2>1, StockAssumption, StockProofs!RecordedOnce
  <2>3. QED
    BY <2>2 DEF StockProofs!BagToSet
<1>5. \A m \in StockProofs!Movement : w[m] \in Int /\ w[m] = StockProofs!ChangeOf(m)[x]
  BY <1>1, StockAssumption, StockProofs!ChangeTyped
<1>6. StockProofs!IntOn(w, K)
  BY <1>1, <1>5 DEF StockProofs!IntOn, StockProofs!Of
<1>7. AllCount(R, Order, s, F, w)
  <2> SUFFICES ASSUME NEW m \in R
               PROVE  log[m.source].order \in Order /\ CountsAs(m, s, F, w[m])
    BY DEF AllCount
  <2>1. m \in StockProofs!Movement /\ m.sku = s
    BY <1>1 DEF StockProofs!Of
  <2>2. MoveOf(m, log)
    BY <1>1 DEF MovesInv, StockProofs!Within, StockProofs!BagToSet, MovesOf
  <2>3. /\ m.source \in DOMAIN log /\ log[m.source] \in Event
        /\ log[m.source].type \in Lifecycle
    BY <2>2 DEF MoveOf, OrdersTypeOK
  <2>4. log[m.source].order \in Order
    BY <2>3 DEF Event
  <2>5. \A l \in LinesOf(s) : l \in Stockable
    BY DEF LinesOf
  <2>6. CountsAs(m, s, F, w[m])
    BY <1>5, <2>1, <2>3, <2>5 DEF CountsAs, ChangesAs
  <2>7. QED
    BY <2>4, <2>6
<1>8. PICK g, k : /\ g = Summed(R, F, N)
                  /\ k = [e \in DOMAIN log |-> SumOver(Cells(log[e], F, N), N)]
  OBVIOUS
<1>9. g = k
  <2>1. ASSUME NEW e \in DOMAIN log, ~ \E m \in R : m.source = e
        PROVE  SumOver(Cells(log[e], F, N), N) = 0
    <3>1. \A l \in LinesOf(s) : ~ Asks(log[e], l)
      BY <1>1, <2>1, AllRecorded
    <3>2. log[e] \in Event /\ ItemsApart(log[e])
      BY DEF OrdersTypeOK, RowsInv
    <3>3. \A l \in LinesOf(s) : F[l][log[e]] = 0
      BY <3>1, <3>2 DEF Shifts, LinesOf
    <3>4. QED
      BY <3>2, <3>3, RowSum
  <2>2. QED
    BY <1>8, <2>1 DEF Summed
<1>10. StockProofs!Weight(movements, w, K) = SumOver(g, DOMAIN log)
  <2>1. Order \in SUBSET Order
    OBVIOUS
  <2>2. QED
    BY <1>1, <1>3, <1>4, <1>6, <1>7, <1>8, <2>1, MovesInSum
<1>11. SumOver(k, DOMAIN log) = SumOver(h, N)
  BY <1>8, TableSum
<1>12. QED
  BY <1>1, <1>9, <1>10, <1>11

Draining(l) == [row \in Event |-> -Issuing(l)[row]]

LEMMA SidesShift ==
  ASSUME NEW F, F = [l \in Stockable |-> Reserving(l)],
         NEW G, G = [l \in Stockable |-> Draining(l)]
  PROVE  /\ Shifts(F) /\ ChangesAs(F, "reserved")
         /\ Shifts(G) /\ ChangesAs(G, "onHand")
<1>1. \A row \in Event : \A l : Amount(row, l) \in Nat
  BY AmountIsNumber
<1>2. \A row \in Event : \A l : ~ Asks(row, l) =>
        row.type \notin Lifecycle \/ Amount(row, l) = 0
  BY DEF Asks, Amount
<1>3. {"committed", "partially_fulfilled", "fulfilled"} \subseteq Lifecycle
  BY DEF Lifecycle
<1>4. \A l : Reserving(l) \in [Event -> Int] /\ Draining(l) \in [Event -> Int]
  BY <1>1 DEF Reserving, Draining, Issuing
<1>5. ASSUME NEW l, NEW row \in Event, ~ Asks(row, l)
      PROVE  Reserving(l)[row] = 0 /\ Draining(l)[row] = 0
  <2>1. row.type \notin Lifecycle \/ Amount(row, l) = 0
    BY <1>2, <1>5
  <2>2. Reserving(l)[row] = 0
    BY <1>3, <2>1 DEF Reserving
  <2>3. Issuing(l)[row] = 0
    BY <1>3, <2>1 DEF Issuing
  <2>4. QED
    BY <2>2, <2>3 DEF Draining
<1>6. ASSUME NEW l \in Stockable, NEW row \in Event, NEW m \in StockProofs!Movement,
             row.type \in Lifecycle, m.type = MovementFor(row.type),
             m.quantity = Amount(row, l)
      PROVE  /\ StockProofs!ChangeOf(m)["reserved"] = Reserving(l)[row]
             /\ StockProofs!ChangeOf(m)["onHand"] = Draining(l)[row]
  <2>1. PICK q \in Nat : q = Amount(row, l)
    BY <1>1
  <2>2. StockProofs!ChangeOf(m)["reserved"] =
            (IF row.type = "committed" THEN q ELSE -q)
    BY <1>6, <2>1 DEF StockProofs!ChangeOf, StockProofs!ReservedChange, MovementFor
  <2>3. StockProofs!ChangeOf(m)["onHand"] =
            (IF row.type \in {"committed", "cancelled"} THEN 0 ELSE -q)
    BY <1>6, <2>1 DEF StockProofs!ChangeOf, StockProofs!OnHandChange, MovementFor
  <2>4. QED
    BY <1>6, <2>1, <2>2, <2>3 DEF Reserving, Draining, Issuing, Lifecycle
<1>7. Shifts(F) /\ Shifts(G)
  BY <1>4, <1>5 DEF Shifts
<1>8. ChangesAs(F, "reserved") /\ ChangesAs(G, "onHand")
  BY <1>6 DEF ChangesAs
<1>9. QED
  BY <1>7, <1>8

LEMMA TallyMinus ==
  ASSUME NEW rows \in Seq(Event), NEW o, NEW l
  PROVE  /\ Tally(rows, o, Draining(l)) = -Tally(rows, o, Issuing(l))
         /\ Tally(rows, o, Issuing(l)) \in Int
<1>1. PICK g, h, D : /\ g = Shares(rows, o, Issuing(l)) /\ h = Shares(rows, o, Draining(l))
                     /\ D = DOMAIN rows
  OBVIOUS
<1>2. /\ IsFiniteSet(D) /\ IntOn(g, D) /\ Tally(rows, o, Issuing(l)) \in Int
  BY <1>1, ShiftsTyped, SharesAreInts, TallyIsInt
<1>3. \A x \in D : h[x] = -g[x]
  BY <1>1, ShiftsTyped DEF Shares, Draining
<1>4. StockProofs!IsFiniteSet(D) /\ StockProofs!IntOn(g, D)
  BY <1>2, FiniteThere DEF IntOn, StockProofs!IntOn
<1>5. SumOver(h, D) = -SumOver(g, D)
  BY <1>3, <1>4, StockAssumption, StockProofs!SumMinus DEF SumOver
<1>6. QED
  BY <1>1, <1>2, <1>5 DEF Tally

\* The sums of StockMatchesOrders.
LEMMA OrderedSums ==
  ASSUME IsFiniteSet(Order), NEW s, NEW N, N = Order \X LinesOf(s),
         NEW h, h = [p \in N |-> Held(p[1], p[2])],
         NEW k, k = [p \in N |-> Shipped(p[1], p[2])]
  PROVE  Ordered(s, Held) = SumOver(h, N) /\ Ordered(s, Shipped) = SumOver(k, N)
<1>1. IsFiniteSet(N)
  BY LinesFinite, FS_Product
<1> DEFINE H(f) == f = [t \in SUBSET N |-> IF t = {} THEN 0
                          ELSE Held(Pick(t)[1], Pick(t)[2]) + f[t \ {Pick(t)}]]
           K(f) == f = [t \in SUBSET N |-> IF t = {} THEN 0
                          ELSE Shipped(Pick(t)[1], Pick(t)[2]) + f[t \ {Pick(t)}]]
<1>2. \A t \in SUBSET N : t # {} =>
        h[Pick(t)] = Held(Pick(t)[1], Pick(t)[2]) /\ k[Pick(t)] = Shipped(Pick(t)[1], Pick(t)[2])
  BY DEF Pick
<1>3. PICK d, e : d = (CHOOSE f : H(f)) /\ e = (CHOOSE f : K(f))
  OBVIOUS
<1>4. Ordered(s, Held) = d[N]
  BY <1>3 DEF Ordered, MapThenSumSet, MapThenFoldSet, Pick
<1>5. Ordered(s, Shipped) = e[N]
  BY <1>3 DEF Ordered, MapThenSumSet, MapThenFoldSet, Pick
<1>6. \A f : (H(f) <=> Sums(f, h, N)) /\ (K(f) <=> Sums(f, k, N))
  BY <1>2 DEF Sums
<1> HIDE DEF H, K
<1>7. Sums(d, h, N)
  BY <1>1, <1>3, <1>6, SumsAreSums
<1>8. Sums(e, k, N)
  BY <1>1, <1>3, <1>6, SumsAreSums
<1>9. d[N] = SumOver(h, N) /\ e[N] = SumOver(k, N)
  BY <1>1, <1>7, <1>8, SumsAreSums
<1>10. QED
  BY <1>4, <1>5, <1>9

\* What is to be true in every state for the stock to match the orders when it is settled.
SettledInv ==
  /\ OrdersTypeOK /\ RowsInv /\ TrackInv
  /\ StockProofs!StockSafe /\ MovesInv

LEMMA SettledStock ==
  ASSUME OneHandler, Handler # {}, IsFiniteSet(Order), "discardOrder" \notin UseCases,
         SettledInv, Settled, NEW s \in Sku
  PROVE  /\ items[s].reserved = Ordered(s, Held)
         /\ items[s].onHand = Opening[s] - Ordered(s, Shipped)
<1>0. OrdersTypeOK /\ RowsInv /\ TrackInv /\ StockProofs!StockSafe /\ MovesInv
  BY DEF SettledInv
<1>1. Due = log /\ log \in Seq(Event)
  BY <1>0 DEF Settled, OrdersAtRest, Saved, Due, OrdersTypeOK
<1>2. /\ items[s].reserved =
           StockProofs!Weight(movements, StockProofs!Changes("reserved"), StockProofs!Of(s))
      /\ items[s].onHand =
           StockProofs!Weight(movements, StockProofs!Changes("onHand"), StockProofs!Of(s))
             + Opening[s]
  <2>1. StockProofs!AtRest
    BY SameProperties DEF Settled
  <2>2. s \in DOMAIN Opening
    BY OrderStockAssumption
  <2>3. QED
    BY <1>0, <2>1, <2>2, StockAssumption, StockProofs!BalanceAtRest DEF StockProofs!StockSafe
<1>3. PICK N, F, G : /\ N = Order \X LinesOf(s)
                     /\ F = [l \in Stockable |-> Reserving(l)]
                     /\ G = [l \in Stockable |-> Draining(l)]
  OBVIOUS
<1>4. PICK h, d : /\ h = [p \in N |-> Tally(log, p[1], F[p[2]])]
                  /\ d = [p \in N |-> Tally(log, p[1], G[p[2]])]
  OBVIOUS
<1>5. "reserved" \in StockProofs!Side /\ "onHand" \in StockProofs!Side
  BY DEF StockProofs!Side
<1>6. /\ items[s].reserved = SumOver(h, N)
      /\ items[s].onHand = SumOver(d, N) + Opening[s]
  BY <1>0, <1>2, <1>3, <1>4, <1>5, SidesShift, SettledSide
<1>7. PICK held, shipped : /\ held = [p \in N |-> Held(p[1], p[2])]
                           /\ shipped = [p \in N |-> Shipped(p[1], p[2])]
  OBVIOUS
<1>8. ASSUME NEW p \in N
      PROVE  h[p] = held[p] /\ d[p] = -shipped[p] /\ shipped[p] \in Int
  <2>1. p[1] \in Order /\ p[2] \in Stockable /\ orders[p[1]] \in OrderState
    BY <1>0, <1>3, LinesFinite DEF OrdersTypeOK
  <2>2. /\ HeldOf(p[2])[orders[p[1]]] = Tally(log, p[1], Reserving(p[2]))
        /\ ShippedOf(p[2])[orders[p[1]]] = Tally(log, p[1], Issuing(p[2]))
    BY <1>0, <1>1, <2>1 DEF TrackInv, Tracks
  <2>3. /\ HeldOf(p[2])[orders[p[1]]] = Held(p[1], p[2])
        /\ ShippedOf(p[2])[orders[p[1]]] = Shipped(p[1], p[2])
    BY <2>1 DEF HeldOf, ShippedOf, Held, Shipped
  <2>4. /\ Tally(log, p[1], Draining(p[2])) = -Tally(log, p[1], Issuing(p[2]))
        /\ Tally(log, p[1], Issuing(p[2])) \in Int
    BY <1>1, TallyMinus
  <2>5. /\ h[p] = Tally(log, p[1], Reserving(p[2])) /\ d[p] = Tally(log, p[1], Draining(p[2]))
        /\ held[p] = Held(p[1], p[2]) /\ shipped[p] = Shipped(p[1], p[2])
    BY <1>3, <1>4, <1>7, <2>1
  <2>6. QED
    BY <2>2, <2>3, <2>4, <2>5
<1>9. IsFiniteSet(N) /\ StockProofs!IsFiniteSet(N)
  BY <1>3, LinesFinite, FS_Product, FiniteThere
<1>10. SumOver(h, N) = SumOver(held, N)
  BY <1>8, <1>9, SumSame DEF Agree
<1>11. SumOver(d, N) = -SumOver(shipped, N) /\ SumOver(shipped, N) \in Int
  <2>1. IntOn(shipped, N) /\ StockProofs!IntOn(shipped, N)
    BY <1>8 DEF IntOn, StockProofs!IntOn
  <2>2. SumOver(d, N) = -SumOver(shipped, N)
    BY <1>8, <1>9, <2>1, StockAssumption, StockProofs!SumMinus DEF SumOver
  <2>3. QED
    BY <1>9, <2>1, <2>2, SumStep
<1>12. Ordered(s, Held) = SumOver(held, N) /\ Ordered(s, Shipped) = SumOver(shipped, N)
  BY <1>3, <1>7, OrderedSums
<1>13. Opening[s] \in Int
  BY OrderStockAssumption
<1>14. QED
  BY <1>6, <1>10, <1>11, <1>12, <1>13

LEMMA SerialIsFinite == ASSUME Serial PROVE IsFiniteSet(Client)
<1>1. CASE Client = {}
  BY <1>1, FS_EmptySet
<1>2. CASE Client # {}
  <2>1. PICK c : Client = {c}
    BY <1>2 DEF Serial
  <2>2. QED
    BY <2>1, FS_Singleton
<1>3. QED
  BY <1>1, <1>2

\* One call of either service at a time, and no draft discarded, order completed or
\* request left empty: once every event has been consumed, the reservations are what open
\* orders still wait for, and what has left the shelf is what they count as fulfilled.
THEOREM StockMatchesOrdersAlways ==
  ASSUME Serial, RequestsNameOnce, OneHandler, Handler # {}, IsFiniteSet(Order),
         "discardOrder" \notin UseCases, "completeOrder" \notin UseCases,
         <<>> \notin FulfilRequests
  PROVE  Spec /\ []OrdersApart => []StockMatchesOrders
<1>1. IsFiniteSet(Client)
  BY SerialIsFinite
<1>2. SettledInv => StockMatchesOrders
  BY SettledStock DEF StockMatchesOrders
<1>4. OrdersTypeOK /\ RowsInv /\ TrackInv /\ StockProofs!StockSafe /\ MovesInv => SettledInv
  BY DEF SettledInv
<1>5. Spec /\ []OrdersApart => []RowsInv
  BY <1>1, RowsInvariant
<1>6. Spec /\ []OrdersApart => []StockProofs!StockSafe
  BY <1>1, StockSafeInvariant
<1>7. Spec /\ []OrdersApart => []MovesInv
  BY <1>1, MovesInvariant
<1>8. OrdersSpec => []TrackInv
  BY TrackInvariant
<1>9. QED
  BY <1>2, <1>4, <1>5, <1>6, <1>7, <1>8, FollowsOrders, OrdersTypeCorrect, PTL

-----------------------------------------------------------------------------
(***************************************************************************)
(* What has been issued for an order, in any state.                        *)
(***************************************************************************)
LEMMA TallyGrows ==
  ASSUME NEW rows \in Seq(Event), NEW more \in Seq(Event), NEW o, NEW F \in [Event -> Nat]
  PROVE  Tally(rows, o, F) <= Tally(rows \o more, o, F)
<1>1. PICK all : all = rows \o more
  OBVIOUS
<1>2. /\ all \in Seq(Event) /\ DOMAIN rows \subseteq DOMAIN all
      /\ \A i \in DOMAIN rows : all[i] = rows[i]
  BY <1>1
<1>3. PICK D, E, g, h : /\ D = DOMAIN rows /\ E = DOMAIN all
                        /\ g = Shares(all, o, F)
                        /\ h = [i \in E |-> IF i \in D THEN g[i] ELSE 0]
  OBVIOUS
<1>4. F \in [Event -> Int]
  OBVIOUS
<1>5. IsFiniteSet(D) /\ IsFiniteSet(E)
  BY <1>2, <1>3, <1>4, SharesAreInts
<1>6. \A i \in E : g[i] \in Nat
  <2>1. \A i \in E : all[i] \in Event
    BY <1>2, <1>3
  <2>2. QED
    BY <1>3, <2>1 DEF Shares
<1>7. \A i \in E : h[i] \in Int /\ g[i] \in Int /\ h[i] <= g[i]
  BY <1>3, <1>6
<1>8. SumOver(h, E) <= SumOver(g, E)
  <2>1. StockProofs!IsFiniteSet(E) /\ StockProofs!IntOn(h, E) /\ StockProofs!IntOn(g, E)
    BY <1>5, <1>7, FiniteThere DEF StockProofs!IntOn
  <2>2. QED
    BY <1>7, <2>1, StockAssumption, StockProofs!SumLeq DEF SumOver
<1>9. SumOver(h, E) = SumOver(h, D)
  <2>1. IntOn(h, E) /\ \A i \in E \ D : h[i] = 0
    BY <1>3, <1>7 DEF IntOn
  <2>2. QED
    BY <1>2, <1>3, <1>5, <2>1, SumPad
<1>10. SumOver(h, D) = Tally(rows, o, F)
  <2>1. PICK k : k = Shares(rows, o, F)
    OBVIOUS
  <2>2. \A i \in D : h[i] = k[i]
    BY <1>2, <1>3, <2>1 DEF Shares
  <2>3. SumOver(h, D) = SumOver(k, D)
    BY <1>5, <2>2, SumSame DEF Agree
  <2>4. QED
    BY <1>3, <2>1, <2>3 DEF Tally
<1>11. QED
  BY <1>1, <1>3, <1>8, <1>9, <1>10 DEF Tally

Issues(o, s) ==
  {m \in StockProofs!Movement : m.type = "issue" /\ m.sku = s /\ log[m.source].order = o}

QuantityOf == [m \in StockProofs!Movement |-> m.quantity]

LEMMA IssuesShift ==
  ASSUME NEW F, F = [l \in Stockable |-> Issuing(l)]
  PROVE  Shifts(F)
<1>1. \A row \in Event : \A l : ~ Asks(row, l) =>
        row.type \notin Lifecycle \/ Amount(row, l) = 0
  BY DEF Asks, Amount
<1>2. \A l : \A row \in Event : ~ Asks(row, l) => Issuing(l)[row] = 0
  BY <1>1 DEF Issuing, Lifecycle
<1>3. \A l : Issuing(l) \in [Event -> Int]
  BY ShiftsTyped
<1>4. QED
  BY <1>2, <1>3 DEF Shifts

\* The issues recorded are of rows inserted.
LEMMA IssuesCount ==
  ASSUME OrdersTypeOK, MovesInv, NEW o, NEW s,
         NEW F, F = [l \in Stockable |-> Issuing(l)],
         NEW R, R = Issues(o, s) \intersect DOMAIN movements
  PROVE  AllCount(R, {o}, s, F, QuantityOf)
<1> SUFFICES ASSUME NEW m \in R
             PROVE  log[m.source].order \in {o} /\ CountsAs(m, s, F, QuantityOf[m])
  BY DEF AllCount
<1>1. /\ m \in StockProofs!Movement /\ m.type = "issue" /\ m.sku = s
      /\ log[m.source].order = o
  BY DEF Issues
<1>2. MoveOf(m, log)
  BY DEF MovesInv, StockProofs!Within, StockProofs!BagToSet, MovesOf
<1>3. /\ m.source \in DOMAIN log /\ log[m.source] \in Event
      /\ log[m.source].type \in Lifecycle /\ m.type = MovementFor(log[m.source].type)
  BY <1>2 DEF MoveOf, OrdersTypeOK
<1>4. log[m.source].type \in {"partially_fulfilled", "fulfilled"}
  BY <1>1, <1>3 DEF MovementFor, Lifecycle
<1>5. ASSUME NEW l \in LinesOf(s), m.quantity = Amount(log[m.source], l)
      PROVE  QuantityOf[m] = F[l][log[m.source]]
  <2>1. l \in Stockable
    BY DEF LinesOf
  <2>2. Issuing(l)[log[m.source]] = Amount(log[m.source], l)
    BY <1>3, <1>4 DEF Issuing
  <2>3. QED
    BY <1>1, <1>5, <2>1, <2>2 DEF QuantityOf
<1>6. CountsAs(m, s, F, QuantityOf[m])
  BY <1>1, <1>5 DEF CountsAs
<1>7. QED
  BY <1>1, <1>6

LEMMA IssuedIsWeight ==
  ASSUME MovesInv, IsFiniteSet(DOMAIN movements), \A m \in DOMAIN movements : movements[m] = 1,
         NEW o, NEW s
  PROVE  Issued(o, s) = StockProofs!Weight(movements, QuantityOf, Issues(o, s))
<1>1. PICK R : R = Issues(o, s) \intersect DOMAIN movements
  OBVIOUS
<1>2. \A m \in DOMAIN movements : m \in StockProofs!Movement
  BY DEF MovesInv, StockProofs!Within, StockProofs!BagToSet, MovesOf
<1>3. R = {m \in DOMAIN movements : m.type = "issue" /\ m.sku = s /\ log[m.source].order = o}
  BY <1>1, <1>2 DEF Issues
<1>4. IsFiniteSet(R)
  BY <1>1, FS_Subset
<1>5. PICK g, h : /\ g = [m \in R |-> m.quantity * movements[m]]
                  /\ h = [m \in R |-> movements[m] * QuantityOf[m]]
  OBVIOUS
<1>6. \A m \in R : g[m] = h[m]
  <2>1. ASSUME NEW m \in R PROVE g[m] = h[m]
    <3>1. movements[m] = 1 /\ QuantityOf[m] = m.quantity /\ m.quantity \in Int
      BY <1>1, <1>2 DEF QuantityOf, StockProofs!Movement
    <3>2. PICK q \in Int : q = m.quantity
      BY <3>1
    <3>3. g[m] = q * 1 /\ h[m] = 1 * q
      BY <1>5, <3>1, <3>2
    <3>4. QED
      BY <3>3
  <2>2. QED
    BY <2>1
<1>7. SumOver(g, R) = SumOver(h, R)
  BY <1>4, <1>6, SumSame DEF Agree
<1>8. StockProofs!Weight(movements, QuantityOf, Issues(o, s)) = SumOver(h, R)
  BY <1>1, <1>5 DEF StockProofs!Weight, SumOver
<1> DEFINE G(f) == f = [t \in SUBSET R |-> IF t = {} THEN 0
                          ELSE Pick(t).quantity * movements[Pick(t)] + f[t \ {Pick(t)}]]
<1>9. \A t \in SUBSET R : t # {} => g[Pick(t)] = Pick(t).quantity * movements[Pick(t)]
  BY <1>5 DEF Pick
<1>10. PICK e : e = (CHOOSE f : G(f))
  OBVIOUS
<1>11. Issued(o, s) = e[R]
  BY <1>3, <1>10 DEF Issued, MapThenSumSet, MapThenFoldSet, Pick
<1>12. \A f : G(f) <=> Sums(f, g, R)
  BY <1>9 DEF Sums
<1> HIDE DEF G
<1>13. Sums(e, g, R)
  BY <1>4, <1>10, <1>12, SumsAreSums
<1>14. e[R] = SumOver(g, R)
  BY <1>4, <1>13, SumsAreSums
<1>15. QED
  BY <1>7, <1>8, <1>11, <1>14

\* What an order counts as fulfilled of an item, as a sum over its lines.
LEMMA ShippedSum ==
  ASSUME NEW o, NEW s, NEW g, g = [l \in LinesOf(s) |-> Shipped(o, l)]
  PROVE  MapThenSumSet(LAMBDA l : Shipped(o, l), LinesOf(s)) = SumOver(g, LinesOf(s))
<1>1. PICK L : L = LinesOf(s)
  OBVIOUS
<1>2. IsFiniteSet(L)
  BY <1>1, LinesFinite
<1> DEFINE G(f) == f = [t \in SUBSET L |-> IF t = {} THEN 0
                          ELSE Shipped(o, Pick(t)) + f[t \ {Pick(t)}]]
<1>3. \A t \in SUBSET L : t # {} => g[Pick(t)] = Shipped(o, Pick(t))
  BY <1>1 DEF Pick
<1>4. PICK e : e = (CHOOSE f : G(f))
  OBVIOUS
<1>5. MapThenSumSet(LAMBDA l : Shipped(o, l), LinesOf(s)) = e[L]
  BY <1>1, <1>4 DEF MapThenSumSet, MapThenFoldSet, Pick
<1>6. \A f : G(f) <=> Sums(f, g, L)
  BY <1>3 DEF Sums
<1> HIDE DEF G
<1>7. Sums(e, g, L)
  BY <1>2, <1>4, <1>6, SumsAreSums
<1>8. QED
  BY <1>1, <1>2, <1>5, <1>7, SumsAreSums

\* The rows inserted count for no more than the order counts as fulfilled.
LEMMA TallyWithinShipped ==
  ASSUME OrdersTypeOK, TrackInv, NEW o \in Order, NEW l \in Stockable
  PROVE  /\ Tally(log, o, Issuing(l)) \in Int /\ Shipped(o, l) \in Int
         /\ Tally(log, o, Issuing(l)) <= Shipped(o, l)
<1>1. log \in Seq(Event) /\ orders[o] \in OrderState
  BY DEF OrdersTypeOK
<1>2. PICK F : F = Issuing(l)
  OBVIOUS
<1>3. F \in [Event -> Int] /\ F \in [Event -> Nat]
  <2>1. F \in [Event -> Int] /\ \A row \in Event : F[row] \in Nat
    BY <1>2, ShiftsTyped
  <2>2. QED
    BY <2>1
<1>4. Shipped(o, l) = Tally(Due, o, F)
  <2>1. ShippedOf(l)[orders[o]] = Tally(Due, o, F)
    BY <1>2 DEF TrackInv, Tracks
  <2>2. QED
    BY <1>1, <2>1 DEF ShippedOf, Shipped
<1>5. Tally(log, o, F) \in Int /\ Tally(Due, o, F) \in Int
  BY <1>1, <1>3, DueIsSequence, TallyIsInt
<1>6. Tally(log, o, F) <= Tally(Due, o, F)
  <2>1. CASE Saved = {}
    BY <1>5, <2>1 DEF Due
  <2>2. CASE Saved # {}
    <3>1. PICK d : d = CHOOSE c \in Client : TRUE
      OBVIOUS
    <3>2. d \in Client
      BY <2>2, <3>1 DEF Saved
    <3>3. running[d].events \in Seq(Event)
      BY <3>2 DEF OrdersTypeOK, CallState
    <3>4. Due = log \o running[d].events
      BY <2>2, <3>1 DEF Due
    <3>5. QED
      BY <1>1, <1>3, <3>3, <3>4, TallyGrows
  <2>3. QED
    BY <2>1, <2>2
<1>7. QED
  BY <1>2, <1>4, <1>5, <1>6

\* What has been issued is at most what all rows of the order issue.
LEMMA IssuedOfRows ==
  ASSUME OneHandler, SettledInv, NEW o, NEW O \in SUBSET Order, IsFiniteSet(O), NEW s \in Sku,
         NEW F, Shifts(F), \A l \in Stockable : \A row \in Event : F[l][row] \in Nat,
         AllCount(Issues(o, s) \intersect DOMAIN movements, O, s, F, QuantityOf),
         NEW N, N = O \X LinesOf(s), NEW h, h = [p \in N |-> Tally(log, p[1], F[p[2]])]
  PROVE  SumOver(h, N) \in Int /\ Issued(o, s) \in Int /\ Issued(o, s) <= SumOver(h, N)
<1>0. OrdersTypeOK /\ RowsInv /\ TrackInv /\ StockProofs!StockSafe /\ MovesInv
  BY DEF SettledInv
<1>1. PICK K, w, R : /\ K = Issues(o, s) /\ w = QuantityOf
                     /\ R = K \intersect DOMAIN movements
  OBVIOUS
<1>2. StockProofs!InventoryInv /\ StockProofs!CopiesInv
  BY <1>0 DEF StockProofs!StockSafe
<1>3. StockProofs!IsFiniteSet(DOMAIN movements) /\ IsFiniteSet(DOMAIN movements)
  BY <1>2 DEF StockProofs!CopiesInv, StockProofs!IsFiniteSet, IsFiniteSet
<1>4. \A m \in DOMAIN movements : movements[m] = 1
  <2>1. StockProofs!IsFiniteSet(Handler) /\ StockProofs!OneCallOnly
    BY FiniteThere DEF OneHandler, StockProofs!OneCallOnly
  <2>2. \A m \in StockProofs!BagToSet(movements) : movements[m] = 1
    BY <1>2, <2>1, StockAssumption, StockProofs!RecordedOnce
  <2>3. QED
    BY <2>2 DEF StockProofs!BagToSet
<1>5. StockProofs!IntOn(w, K)
  BY <1>1 DEF StockProofs!IntOn, Issues, QuantityOf, StockProofs!Movement
<1>6. AllCount(R, O, s, F, w)
  BY <1>1
<1>8. PICK g, k : /\ g = Summed(R, F, N)
                  /\ k = [e \in DOMAIN log |-> SumOver(Cells(log[e], F, N), N)]
  OBVIOUS
<1>9. StockProofs!Weight(movements, w, K) = SumOver(g, DOMAIN log)
  BY <1>0, <1>1, <1>3, <1>4, <1>5, <1>6, <1>8, MovesInSum
<1>10. SumOver(k, DOMAIN log) = SumOver(h, N)
  BY <1>0, <1>8, TableSum
<1>11. \A e \in DOMAIN log : k[e] \in Nat
  <2>1. ASSUME NEW e \in DOMAIN log PROVE SumOver(Cells(log[e], F, N), N) \in Nat
    <3>1. log[e] \in Event
      BY <1>0 DEF OrdersTypeOK
    <3>2. IsFiniteSet(N)
      BY LinesFinite, FS_Product
    <3>3. PICK t : t = Cells(log[e], F, N)
      OBVIOUS
    <3>4. \A p \in N : p[2] \in Stockable
      BY LinesFinite
    <3>5. \A p \in N : F[p[2]][log[e]] \in Nat
      BY <3>1, <3>4
    <3>6. \A p \in N : t[p] \in Nat
      BY <3>3, <3>5 DEF Cells
    <3>7. QED
      BY <3>2, <3>3, <3>6, SumNotNegative
  <2>2. QED
    BY <1>8, <2>1
<1>12. \A e \in DOMAIN log : g[e] \in Int /\ k[e] \in Int /\ g[e] <= k[e]
  <2>1. \A e \in DOMAIN log : g[e] = k[e] \/ g[e] = 0
    BY <1>8 DEF Summed
  <2>2. QED
    BY <1>11, <2>1
<1>13. IsFiniteSet(DOMAIN log)
  <2>1. log \in Seq(Event) /\ DOMAIN log = 1..Len(log)
    BY <1>0 DEF OrdersTypeOK
  <2>2. QED
    BY <2>1, FS_Interval
<1>14. /\ SumOver(g, DOMAIN log) <= SumOver(k, DOMAIN log)
       /\ SumOver(g, DOMAIN log) \in Int /\ SumOver(k, DOMAIN log) \in Int
  <2>1. /\ IntOn(g, DOMAIN log) /\ IntOn(k, DOMAIN log)
        /\ StockProofs!IntOn(g, DOMAIN log) /\ StockProofs!IntOn(k, DOMAIN log)
        /\ StockProofs!IsFiniteSet(DOMAIN log)
    BY <1>12, <1>13, FiniteThere DEF IntOn, StockProofs!IntOn
  <2>2. SumOver(g, DOMAIN log) <= SumOver(k, DOMAIN log)
    BY <1>12, <2>1, StockAssumption, StockProofs!SumLeq DEF SumOver
  <2>3. QED
    BY <1>13, <2>1, <2>2, SumStep
<1>15. Issued(o, s) = StockProofs!Weight(movements, w, K)
  BY <1>0, <1>1, <1>3, <1>4, IssuedIsWeight
<1>16. QED
  BY <1>9, <1>10, <1>14, <1>15

LEMMA IssuedWithin ==
  ASSUME OneHandler, SettledInv, NEW o \in Order, NEW s \in Sku
  PROVE  Issued(o, s) <= MapThenSumSet(LAMBDA l : Shipped(o, l), LinesOf(s))
<1>0. OrdersTypeOK /\ TrackInv /\ MovesInv
  BY DEF SettledInv
<1>1. PICK F, O, N : /\ F = [l \in Stockable |-> Issuing(l)]
                     /\ O = {o} /\ N = O \X LinesOf(s)
  OBVIOUS
<1>2. PICK h : h = [p \in N |-> Tally(log, p[1], F[p[2]])]
  OBVIOUS
<1>3. SumOver(h, N) \in Int /\ Issued(o, s) \in Int /\ Issued(o, s) <= SumOver(h, N)
  <2>1. Shifts(F) /\ AllCount(Issues(o, s) \intersect DOMAIN movements, O, s, F, QuantityOf)
    BY <1>0, <1>1, IssuesShift, IssuesCount
  <2>2. \A l \in Stockable : \A row \in Event : F[l][row] \in Nat
    BY <1>1, ShiftsTyped
  <2>3. O \in SUBSET Order /\ IsFiniteSet(O)
    BY <1>1, FS_Singleton
  <2>4. QED
    BY <1>1, <1>2, <2>1, <2>2, <2>3, IssuedOfRows
<1>4. PICK L : L = LinesOf(s) /\ IsFiniteSet(L) /\ L \subseteq Stockable
  BY LinesFinite
<1>5. PICK f, v, g : /\ f = [l \in L |-> <<o, l>>]
                     /\ v = [l \in L |-> h[f[l]]]
                     /\ g = [l \in L |-> Shipped(o, l)]
  OBVIOUS
<1>6. \A l \in L : v[l] = Tally(log, o, Issuing(l)) /\ h[f[l]] = v[l]
  BY <1>1, <1>2, <1>4, <1>5
<1>7. \A l \in L : v[l] \in Int /\ g[l] \in Int /\ v[l] <= g[l]
  BY <1>0, <1>4, <1>5, <1>6, TallyWithinShipped
<1>8. SumOver(v, L) = SumOver(h, N)
  <2>1. StockProofs!Through(f, v, h, L)
    BY <1>5, <1>6, <1>7 DEF StockProofs!Through
  <2>2. PICK I : I = {f[l] : l \in L}
    OBVIOUS
  <2>3. I = N
    BY <1>1, <1>4, <1>5, <2>2
  <2>4. StockProofs!IsFiniteSet(L)
    BY <1>4, FiniteThere
  <2>5. SumOver(v, L) = SumOver(h, I)
    BY <2>1, <2>2, <2>4, StockAssumption, StockProofs!SumMap DEF SumOver
  <2>6. QED
    BY <2>3, <2>5
<1>9. SumOver(v, L) <= SumOver(g, L) /\ SumOver(g, L) \in Int
  <2>1. /\ IntOn(g, L) /\ StockProofs!IntOn(v, L) /\ StockProofs!IntOn(g, L)
        /\ StockProofs!IsFiniteSet(L)
    BY <1>4, <1>7, FiniteThere DEF IntOn, StockProofs!IntOn
  <2>2. SumOver(v, L) <= SumOver(g, L)
    BY <1>7, <2>1, StockAssumption, StockProofs!SumLeq DEF SumOver
  <2>3. QED
    BY <1>4, <2>1, <2>2, SumStep
<1>10. MapThenSumSet(LAMBDA l : Shipped(o, l), LinesOf(s)) = SumOver(g, L)
  BY <1>4, <1>5, ShippedSum
<1>11. QED
  BY <1>3, <1>8, <1>9, <1>10

\* One call of either service at a time, and no order completed or request left empty:
\* at every moment, however often and in whatever order its events are delivered, the
\* goods issued for an order are no more than it counts as fulfilled.
THEOREM IssueWithinFulfilmentAlways ==
  ASSUME Serial, RequestsNameOnce, OneHandler,
         "completeOrder" \notin UseCases, <<>> \notin FulfilRequests
  PROVE  Spec /\ []OrdersApart => []IssueWithinFulfilment
<1>1. IsFiniteSet(Client)
  BY SerialIsFinite
<1>2. SettledInv => IssueWithinFulfilment
  BY IssuedWithin DEF IssueWithinFulfilment
<1>3. OrdersTypeOK /\ RowsInv /\ TrackInv /\ StockProofs!StockSafe /\ MovesInv => SettledInv
  BY DEF SettledInv
<1>4. Spec /\ []OrdersApart => []RowsInv
  BY <1>1, RowsInvariant
<1>5. Spec /\ []OrdersApart => []StockProofs!StockSafe
  BY <1>1, StockSafeInvariant
<1>6. Spec /\ []OrdersApart => []MovesInv
  BY <1>1, MovesInvariant
<1>7. OrdersSpec => []TrackInv
  BY TrackInvariant
<1>8. QED
  BY <1>2, <1>3, <1>4, <1>5, <1>6, <1>7, FollowsOrders, OrdersTypeCorrect, PTL
=============================================================================
