-------------------------- MODULE InventoryProofs --------------------------
(***************************************************************************)
(* Inventory for any number of skus, events, requests and calls.           *)
(***************************************************************************)
EXTENDS Inventory, SumTheorems

-----------------------------------------------------------------------------
(***************************************************************************)
(* The state of the stock and of the calls.                                *)
(***************************************************************************)

\* A call works on a balance that was good when it was read, and stages only
\* balances that are good by themselves.
CallInv(c) ==
  /\ call[c].at \in {"ensure", "apply", "append"} => call[c].todo # <<>>
  /\ Available(call[c].read) >= 0
  /\ \A i \in DOMAIN call[c].staged :
       call[c].staged[i].store = "items" => Available(call[c].staged[i].value) >= 0

CallsOK == call \in [Call -> CallState] /\ \A c \in Call : CallInv(c)

ItemsOK ==
  /\ items \in [Sku -> Balance]
  /\ existing \subseteq Sku
  /\ AvailableNeverNegative

HistoryOK ==
  /\ IsHistory(movements)
  /\ IsHistory(announced)
  /\ \A c \in Call : IsHistory(pending[c])
  /\ consumed \subseteq Source
  /\ requested \subseteq Request

InventoryInv == CallsOK /\ ItemsOK /\ HistoryOK /\ DOMAIN pending = Call

-----------------------------------------------------------------------------
\* A movement that is allowed leads from a good balance to a good balance.
LEMMA MovedIsGood ==
  ASSUME NEW b \in Balance, Available(b) >= 0, NEW type \in MovementType,
         NEW q \in Int, Allowed(b, type, q)
  PROVE  Moved(b, type, q) \in Balance /\ Available(Moved(b, type, q)) >= 0
<1> USE DEF Balance, Available, Allowed, Moved, OnHandChange, ReservedChange
<1>1. CASE type = "reserve"
  BY <1>1
<1>2. CASE type = "release"
  BY <1>2
<1>3. CASE type = "issue"
  BY <1>3
<1>4. CASE type \in {"receipt", "adjustment"}
  BY <1>4
<1>5. QED
  BY <1>1, <1>2, <1>3, <1>4 DEF MovementType, OrderMovement

LEMMA FreshOK == Fresh \in CallState /\ Fresh.at = "idle"
                 /\ Fresh.staged = <<>> /\ Fresh.read = Zero
BY InventoryAssumption DEF Fresh, CallState, Zero, Balance, Place, MovementType, OrderMovement

\* What a call does next it does with an action and a movement of the right type.
LEMMA ActionTyped ==
  ASSUME CallsOK, NEW c \in Call, call[c].todo # <<>>
  PROVE  /\ ActionOf(c) \in Action
         /\ MovementOf(c) \in Movement
         /\ Tail(call[c].todo) \in Seq(Action)
<1>1. call[c].todo \in Seq(Action) /\ call[c].source \in Source /\ call[c].type \in MovementType
  BY DEF CallsOK, CallState
<1>2. ActionOf(c) \in Action /\ Tail(call[c].todo) \in Seq(Action)
  BY <1>1 DEF ActionOf
<1>3. QED
  BY <1>1, <1>2 DEF MovementOf, Movement, Action

\* Staging one more good mutation keeps the staged mutations good.
LEMMA StageOne ==
  ASSUME NEW staged \in Seq(Mutation), NEW m \in Mutation,
         \A i \in DOMAIN staged :
           staged[i].store = "items" => Available(staged[i].value) >= 0,
         m.store = "items" => Available(m.value) >= 0
  PROVE  /\ Append(staged, m) \in Seq(Mutation)
         /\ \A i \in DOMAIN Append(staged, m) :
              Append(staged, m)[i].store = "items" => Available(Append(staged, m)[i].value) >= 0
<1> DEFINE longer == Append(staged, m)
<1>1. longer \in Seq(Mutation) /\ Len(longer) = Len(staged) + 1
  OBVIOUS
<1>2. ASSUME NEW i \in DOMAIN longer
      PROVE  longer[i] = m \/ (i \in DOMAIN staged /\ longer[i] = staged[i])
  BY <1>1
<1>3. QED
  BY <1>1, <1>2

\* One more copy of a movement in a history.
LEMMA HistoryAdd ==
  ASSUME NEW bag, IsHistory(bag), NEW m \in Movement
  PROVE  IsHistory(bag (+) SetToBag({m}))
BY DEF IsHistory, IsABag, BagToSet, (+), SetToBag

LEMMA HistoryUnion ==
  ASSUME NEW one, NEW other, IsHistory(one), IsHistory(other)
  PROVE  IsHistory(one (+) other)
BY DEF IsHistory, IsABag, BagToSet, (+)

LEMMA HistoryEmpty == IsHistory(EmptyBag)
BY DEF IsHistory, IsABag, BagToSet, EmptyBag, SetToBag

\* Staged mutations keep being good when the first has been run.
LEMMA UnstageOne ==
  ASSUME NEW staged \in Seq(Mutation), staged # <<>>,
         \A i \in DOMAIN staged :
           staged[i].store = "items" => Available(staged[i].value) >= 0
  PROVE  /\ Head(staged) \in Mutation
         /\ Head(staged).store = "items" => Available(Head(staged).value) >= 0
         /\ Tail(staged) \in Seq(Mutation)
         /\ \A i \in DOMAIN Tail(staged) :
              Tail(staged)[i].store = "items" => Available(Tail(staged)[i].value) >= 0
<1>1. Tail(staged) \in Seq(Mutation) /\ Len(Tail(staged)) = Len(staged) - 1
  OBVIOUS
<1>2. \A i \in DOMAIN Tail(staged) : i + 1 \in DOMAIN staged /\ Tail(staged)[i] = staged[i + 1]
  BY <1>1
<1>3. Head(staged) = staged[1] /\ 1 \in DOMAIN staged
  OBVIOUS
<1>4. QED
  BY <1>1, <1>2, <1>3

-----------------------------------------------------------------------------
\* It is enough that the call which moves ends up in a good state.
LEMMA OneCallMoves ==
  ASSUME CallsOK, NEW c \in Call, NEW to \in CallState,
         call' = [call EXCEPT ![c] = to],
         to.at \in {"ensure", "apply", "append"} => to.todo # <<>>,
         Available(to.read) >= 0,
         \A i \in DOMAIN to.staged :
           to.staged[i].store = "items" => Available(to.staged[i].value) >= 0
  PROVE  CallsOK'
<1>1. call' \in [Call -> CallState]
  BY DEF CallsOK
<1>2. ASSUME NEW d \in Call PROVE CallInv(d)'
  <2>1. CASE d = c
    <3>1. call'[d] = to
      BY <2>1 DEF CallsOK
    <3>2. QED
      BY <3>1 DEF CallInv
  <2>2. CASE d # c
    <3>1. call'[d] = call[d]
      BY <2>2 DEF CallsOK
    <3>2. QED
      BY <3>1 DEF CallInv, CallsOK
  <2>3. QED
    BY <2>1, <2>2
<1>3. QED
  BY <1>1, <1>2 DEF CallsOK

LEMMA BackToFresh ==
  ASSUME CallsOK, NEW c \in Call, call' = [call EXCEPT ![c] = Fresh]
  PROVE  CallsOK'
<1>1. Available(Fresh.read) >= 0 /\ DOMAIN Fresh.staged = {}
  BY FreshOK DEF Available, Zero
<1>2. QED
  BY <1>1, FreshOK, OneCallMoves

LEMMA BeginCalls ==
  ASSUME CallsOK, NEW c \in Call, NEW source \in Source, NEW type \in MovementType,
         NEW actions \in Seq(Action), Begin(c, source, type, actions)
  PROVE  CallsOK'
<1> DEFINE to == [Fresh EXCEPT !.at = "find", !.source = source,
                               !.type = type, !.todo = actions]
<1>1. to \in CallState /\ to.at = "find" /\ to.read = Zero /\ to.staged = <<>>
  BY FreshOK DEF CallState, Place
<1>2. Available(to.read) >= 0 /\ DOMAIN to.staged = {}
  BY <1>1 DEF Available, Zero
<1>3. call' = [call EXCEPT ![c] = to]
  BY DEF Begin
<1> HIDE DEF to
<1>4. QED
  BY <1>1, <1>2, <1>3, OneCallMoves

\* The steps of a running call.
LEMMA CallStepCalls ==
  ASSUME CallsOK, ItemsOK, NEW c \in Call, CallStep(c)
  PROVE  CallsOK'
<1> DEFINE old == call[c]
<1>0. /\ old \in CallState
      /\ Available(old.read) >= 0
      /\ \A i \in DOMAIN old.staged :
           old.staged[i].store = "items" => Available(old.staged[i].value) >= 0
      /\ old.at \in {"ensure", "apply", "append"} => old.todo # <<>>
      /\ call \in [Call -> CallState]
  BY DEF CallsOK, CallInv
<1>1. CASE FindMovement(c)
  <2>1. old.at = "find" /\ old.todo # <<>>
    BY <1>1 DEF FindMovement, At
  <2>2. CASE call' = [call EXCEPT ![c].todo = Tail(@)]
    <3> DEFINE to == [old EXCEPT !.todo = Tail(old.todo)]
    <3>1. to \in CallState /\ to.at = "find" /\ to.read = old.read /\ to.staged = old.staged
      BY <1>0, <2>1, ActionTyped DEF CallState
    <3>2. call' = [call EXCEPT ![c] = to]
      BY <1>0, <2>2
    <3> HIDE DEF to
    <3>3. QED
      BY <1>0, <3>1, <3>2, OneCallMoves
  <2>3. CASE call' = [call EXCEPT ![c].at = "ensure"]
    <3> DEFINE to == [old EXCEPT !.at = "ensure"]
    <3>1. to \in CallState /\ to.todo = old.todo /\ to.read = old.read /\ to.staged = old.staged
      BY <1>0 DEF CallState, Place
    <3>2. call' = [call EXCEPT ![c] = to]
      BY <1>0, <2>3
    <3> HIDE DEF to
    <3>3. QED
      BY <1>0, <2>1, <3>1, <3>2, OneCallMoves
  <2>4. QED
    BY <1>1, <2>2, <2>3 DEF FindMovement
<1>2. CASE EnsureItem(c)
  <2> DEFINE s == ActionOf(c).sku
             zero == [store |-> "items", sku |-> s, value |-> Zero]
             read == IF s \in existing THEN items[s] ELSE Zero
             staged == IF s \in existing THEN old.staged ELSE Append(old.staged, zero)
             to == [old EXCEPT !.at = "apply", !.read = read, !.staged = staged]
  <2>1. old.at = "ensure"
    BY <1>2 DEF EnsureItem, At
  <2>2. s \in Sku
    BY <1>0, <2>1, ActionTyped DEF Action
  <2>3. read \in Balance /\ Available(read) >= 0
    BY <2>2 DEF ItemsOK, AvailableNeverNegative, Zero, Balance, Available
  <2>4. zero \in Mutation /\ Available(zero.value) >= 0
    BY <2>2 DEF Mutation, Zero, Balance, Available
  <2>5. old.staged \in Seq(Mutation)
    BY <1>0 DEF CallState
  <2> HIDE DEF zero, read
  <2>6. /\ staged \in Seq(Mutation)
        /\ \A i \in DOMAIN staged :
             staged[i].store = "items" => Available(staged[i].value) >= 0
    BY <1>0, <2>4, <2>5, StageOne
  <2>7. call' = [call EXCEPT ![c] = to]
    BY <1>0, <1>2 DEF EnsureItem, zero, read
  <2> HIDE DEF staged
  <2>8. to \in CallState /\ to.todo = old.todo /\ to.read = read /\ to.staged = staged
    BY <1>0, <2>3, <2>6 DEF CallState, Place
  <2> HIDE DEF to
  <2>9. QED
    BY <1>0, <2>1, <2>3, <2>6, <2>7, <2>8, OneCallMoves
<1>3. CASE ApplyAndSave(c)
  <2> DEFINE a == ActionOf(c)
             moved == Moved(old.read, old.type, a.quantity)
             save == [store |-> "items", sku |-> a.sku, value |-> moved]
             staged == Append(old.staged, save)
             to == [old EXCEPT !.at = "append", !.staged = staged]
  <2>1. old.at = "apply" /\ Allowed(old.read, old.type, a.quantity)
    BY <1>3 DEF ApplyAndSave, At
  <2>2. a \in Action
    BY <1>0, <2>1, ActionTyped
  <2>3. moved \in Balance /\ Available(moved) >= 0
    BY <1>0, <2>1, <2>2, MovedIsGood DEF CallState, Action
  <2> HIDE DEF moved
  <2>4. save \in Mutation /\ Available(save.value) >= 0
    BY <2>2, <2>3 DEF Mutation, Action
  <2>5. old.staged \in Seq(Mutation)
    BY <1>0 DEF CallState
  <2>6. call' = [call EXCEPT ![c] = to]
    BY <1>0, <1>3 DEF ApplyAndSave, moved
  <2> HIDE DEF save
  <2>7. /\ staged \in Seq(Mutation)
        /\ \A i \in DOMAIN staged :
             staged[i].store = "items" => Available(staged[i].value) >= 0
    BY <1>0, <2>4, <2>5, StageOne
  <2> HIDE DEF staged
  <2>8. to \in CallState /\ to.todo = old.todo /\ to.read = old.read /\ to.staged = staged
    BY <1>0, <2>7 DEF CallState, Place
  <2> HIDE DEF to
  <2>9. QED
    BY <1>0, <2>1, <2>6, <2>7, <2>8, OneCallMoves
<1>4. CASE Refuse(c)
  BY <1>4, BackToFresh DEF Refuse
<1>5. CASE AppendAndPublish(c)
  <2> DEFINE m == MovementOf(c)
             add == [store |-> "movements", value |-> m]
             staged == IF Recorded(m) THEN old.staged ELSE Append(old.staged, add)
             to == [old EXCEPT !.at = "find", !.staged = staged, !.todo = Tail(old.todo)]
  <2>1. old.at = "append"
    BY <1>5 DEF AppendAndPublish, At
  <2>2. m \in Movement /\ Tail(old.todo) \in Seq(Action)
    BY <1>0, <2>1, ActionTyped
  <2>3. add \in Mutation /\ add.store # "items"
    BY <2>2 DEF Mutation
  <2>4. old.staged \in Seq(Mutation)
    BY <1>0 DEF CallState
  <2>5. call' = [call EXCEPT ![c] = to]
    BY <1>0, <1>5 DEF AppendAndPublish
  <2> HIDE DEF add
  <2>6. /\ staged \in Seq(Mutation)
        /\ \A i \in DOMAIN staged :
             staged[i].store = "items" => Available(staged[i].value) >= 0
    BY <1>0, <2>3, <2>4, StageOne
  <2> HIDE DEF staged
  <2>7. to \in CallState /\ to.at = "find" /\ to.read = old.read /\ to.staged = staged
    BY <1>0, <2>2, <2>6 DEF CallState, Place
  <2> HIDE DEF to
  <2>8. QED
    BY <1>0, <2>5, <2>6, <2>7, OneCallMoves
<1>6. CASE StartCommit(c)
  <2> DEFINE to == [old EXCEPT !.at = "commit"]
  <2>1. to \in CallState /\ to.at = "commit" /\ to.read = old.read /\ to.staged = old.staged
    BY <1>0 DEF CallState, Place
  <2>2. call' = [call EXCEPT ![c] = to]
    BY <1>0, <1>6 DEF StartCommit
  <2> HIDE DEF to
  <2>3. QED
    BY <1>0, <2>1, <2>2, OneCallMoves
<1>7. CASE CommitMutation(c)
  <2> DEFINE to == [old EXCEPT !.staged = Tail(old.staged)]
  <2>1. old.staged \in Seq(Mutation) /\ old.staged # <<>> /\ old.at = "commit"
    BY <1>0, <1>7 DEF CallState, CommitMutation, At
  <2>2. /\ Tail(old.staged) \in Seq(Mutation)
        /\ \A i \in DOMAIN Tail(old.staged) :
             Tail(old.staged)[i].store = "items" => Available(Tail(old.staged)[i].value) >= 0
    BY <1>0, <2>1, UnstageOne
  <2>3. to \in CallState /\ to.at = "commit" /\ to.read = old.read /\ to.staged = Tail(old.staged)
    BY <1>0, <2>1, <2>2 DEF CallState
  <2>4. call' = [call EXCEPT ![c] = to]
    BY <1>0, <1>7 DEF CommitMutation
  <2> HIDE DEF to
  <2>5. QED
    BY <1>0, <2>2, <2>3, <2>4, OneCallMoves
<1>8. CASE InsertRows(c)
  BY <1>8, BackToFresh DEF InsertRows
<1>9. QED
  BY <1>1, <1>2, <1>3, <1>4, <1>5, <1>6, <1>7, <1>8 DEF CallStep

\* What the steps of a call do to the stores.
LEMMA CallStepStores ==
  ASSUME InventoryInv, NEW c \in Call, CallStep(c)
  PROVE  ItemsOK' /\ HistoryOK' /\ DOMAIN pending' = Call
<1> DEFINE old == call[c]
<1>0. old \in CallState /\ CallInv(c)
  BY DEF InventoryInv, CallsOK
<1>1. CASE UNCHANGED <<items, existing, movements, announced, pending, consumed, requested>>
  BY <1>1 DEF InventoryInv, ItemsOK, HistoryOK, AvailableNeverNegative
<1>2. CASE AppendAndPublish(c)
  <2>1. old.todo # <<>>
    BY <1>0, <1>2 DEF CallInv, AppendAndPublish, At
  <2>2. MovementOf(c) \in Movement
    BY <2>1, ActionTyped DEF InventoryInv
  <2>3. IsHistory(pending[c] (+) SetToBag({MovementOf(c)}))
    BY <2>2, HistoryAdd DEF InventoryInv, HistoryOK
  <2>4. /\ pending' = [pending EXCEPT ![c] = @ (+) SetToBag({MovementOf(c)})]
        /\ UNCHANGED <<items, existing, movements, announced, consumed, requested>>
    BY <1>2 DEF AppendAndPublish, stores
  <2>5. DOMAIN pending' = Call /\ \A d \in Call : IsHistory(pending'[d])
    BY <2>3, <2>4 DEF InventoryInv, HistoryOK
  <2>6. QED
    BY <2>4, <2>5 DEF InventoryInv, ItemsOK, HistoryOK, AvailableNeverNegative
<1>3. CASE Refuse(c)
  <2>1. /\ pending' = [pending EXCEPT ![c] = EmptyBag]
        /\ UNCHANGED <<items, existing, movements, announced, consumed, requested>>
    BY <1>3 DEF Refuse, stores
  <2>2. DOMAIN pending' = Call /\ \A d \in Call : IsHistory(pending'[d])
    BY <2>1, HistoryEmpty DEF InventoryInv, HistoryOK
  <2>3. QED
    BY <2>1, <2>2 DEF InventoryInv, ItemsOK, HistoryOK, AvailableNeverNegative
<1>4. CASE CommitMutation(c)
  <2> DEFINE m == Head(old.staged)
  <2>1. old.staged \in Seq(Mutation) /\ old.staged # <<>>
    BY <1>0, <1>4 DEF CallState, CommitMutation
  <2>2. m \in Mutation /\ (m.store = "items" => Available(m.value) >= 0)
    BY <1>0, <2>1, UnstageOne DEF CallInv
  <2>3. UNCHANGED <<announced, pending, consumed, requested>>
    BY <1>4 DEF CommitMutation
  <2>4. CASE m.store = "items"
    <3>1. m.sku \in Sku /\ m.value \in Balance
      BY <2>2, <2>4 DEF Mutation
    <3>2. /\ items' = [items EXCEPT ![m.sku] = m.value]
          /\ existing' = existing \union {m.sku}
          /\ UNCHANGED movements
      BY <1>4, <2>4 DEF CommitMutation
    <3> HIDE DEF m
    <3>3. ItemsOK'
      BY <2>2, <2>4, <3>1, <3>2 DEF InventoryInv, ItemsOK, AvailableNeverNegative
    <3>4. QED
      BY <2>3, <3>2, <3>3 DEF InventoryInv, HistoryOK
  <2>5. CASE m.store # "items"
    <3>1. m.value \in Movement
      BY <2>2, <2>5 DEF Mutation
    <3>2. movements' = movements (+) SetToBag({m.value}) /\ UNCHANGED <<items, existing>>
      BY <1>4, <2>5 DEF CommitMutation
    <3> HIDE DEF m
    <3>3. IsHistory(movements')
      BY <3>1, <3>2, HistoryAdd DEF InventoryInv, HistoryOK
    <3>4. QED
      BY <2>3, <3>2, <3>3 DEF InventoryInv, HistoryOK, ItemsOK, AvailableNeverNegative
  <2>6. QED
    BY <2>4, <2>5
<1>5. CASE InsertRows(c)
  <2>1. /\ announced' = announced (+) pending[c]
        /\ pending' = [pending EXCEPT ![c] = EmptyBag]
        /\ consumed' = consumed \union {old.source}
        /\ UNCHANGED <<items, existing, movements, requested>>
    BY <1>5 DEF InsertRows
  <2>2. old.source \in Source
    BY <1>0 DEF CallState
  <2>3. IsHistory(announced')
    BY <2>1, HistoryUnion DEF InventoryInv, HistoryOK
  <2>4. DOMAIN pending' = Call /\ \A d \in Call : IsHistory(pending'[d])
    BY <2>1, HistoryEmpty DEF InventoryInv, HistoryOK
  <2>5. QED
    BY <2>1, <2>2, <2>3, <2>4 DEF InventoryInv, HistoryOK, ItemsOK, AvailableNeverNegative
<1>6. QED
  BY <1>1, <1>2, <1>3, <1>4, <1>5
     DEF CallStep, FindMovement, EnsureItem, ApplyAndSave, StartCommit, stores

LEMMA BeginStep ==
  ASSUME InventoryInv, NEW c \in Call, NEW source \in Source, NEW type \in MovementType,
         NEW actions \in Seq(Action), Begin(c, source, type, actions),
         requested' \subseteq Request
  PROVE  InventoryInv'
<1>1. CallsOK'
  BY BeginCalls DEF InventoryInv
<1>2. UNCHANGED <<items, existing, movements, announced, pending, consumed>>
  BY DEF Begin, stores
<1>3. QED
  BY <1>1, <1>2 DEF InventoryInv, ItemsOK, HistoryOK, AvailableNeverNegative

-----------------------------------------------------------------------------
LEMMA InventoryInvAtFirst == InventoryInit => InventoryInv
<1> SUFFICES ASSUME InventoryInit PROVE InventoryInv
  OBVIOUS
<1>1. CallsOK
  <2>1. Available(Fresh.read) >= 0 /\ DOMAIN Fresh.staged = {}
    BY FreshOK DEF Available, Zero
  <2>2. QED
    BY <2>1, FreshOK DEF InventoryInit, CallsOK, CallInv
<1>2. ItemsOK
  BY InventoryAssumption
     DEF InventoryInit, ItemsOK, AvailableNeverNegative, Balance, Available
<1>3. HistoryOK /\ DOMAIN pending = Call
  BY HistoryEmpty DEF InventoryInit, HistoryOK
<1>4. QED
  BY <1>1, <1>2, <1>3 DEF InventoryInv

THEOREM InventoryInvariant == InventorySpec => []InventoryInv
<1>1. InventoryInit => InventoryInv
  BY InventoryInvAtFirst
<1>2. InventoryInv /\ [InventoryNext]_inventoryVars => InventoryInv'
  <2> SUFFICES ASSUME InventoryInv, [InventoryNext]_inventoryVars PROVE InventoryInv'
    OBVIOUS
  <2>1. CASE UNCHANGED inventoryVars
    <3>1. UNCHANGED call /\ UNCHANGED items
      BY <2>1 DEF inventoryVars
    <3>2. CallsOK'
      BY <3>1 DEF InventoryInv, CallsOK, CallInv
    <3>3. QED
      BY <2>1, <3>2 DEF inventoryVars, InventoryInv, ItemsOK, HistoryOK, AvailableNeverNegative
  <2>2. ASSUME NEW c \in Call, NEW e \in DOMAIN OrderEvent,
               ConsumeOrderEvent(c, e, OrderEvent[e].type, OrderEvent[e].actions)
        PROVE  InventoryInv'
    <3>1. /\ e \in Source /\ OrderEvent[e].type \in MovementType
          /\ OrderEvent[e].actions \in Seq(Action)
      BY InventoryAssumption DEF Source, Work, MovementType
    <3>2. requested' \subseteq Request
      BY <2>2 DEF ConsumeOrderEvent, InventoryInv, HistoryOK
    <3>3. QED
      BY <2>2, <3>1, <3>2, BeginStep DEF ConsumeOrderEvent
  <2>3. ASSUME NEW c \in Call, NEW r \in Request, ReceiveStock(c, r) \/ AdjustStock(c, r)
        PROVE  InventoryInv'
    <3>1. r \in Source /\ StockRequest[r].actions \in Seq(Action)
      BY InventoryAssumption DEF Source, Work
    <3>2. requested' \subseteq Request
      BY <2>3 DEF ReceiveStock, AdjustStock, InventoryInv, HistoryOK
    <3>3. "receipt" \in MovementType /\ "adjustment" \in MovementType
      BY DEF MovementType
    <3>4. QED
      BY <2>3, <3>1, <3>2, <3>3, BeginStep DEF ReceiveStock, AdjustStock
  <2>4. ASSUME NEW c \in Call, CallStep(c)
        PROVE  InventoryInv'
    BY <2>4, CallStepCalls, CallStepStores DEF InventoryInv
  <2>5. QED
    BY <2>1, <2>2, <2>3, <2>4 DEF InventoryNext, StockRequestStep
<1>3. QED
  BY <1>1, <1>2, PTL DEF InventorySpec

\* For any events, requests and calls: every variable keeps its type.
THEOREM InventoryTypeCorrect == InventorySpec => []InventoryTypeOK
<1>1. InventoryInv => InventoryTypeOK
  BY DEF InventoryInv, CallsOK, ItemsOK, HistoryOK, InventoryTypeOK
<1>2. QED
  BY <1>1, InventoryInvariant, PTL

\* For any number of calls that overlap, and whatever they overwrite of one
\* another: available stock is never negative.
THEOREM AvailableNeverNegativeAlways == InventorySpec => []AvailableNeverNegative
<1>1. InventoryInv => AvailableNeverNegative
  BY DEF InventoryInv, ItemsOK
<1>2. QED
  BY <1>1, InventoryInvariant, PTL

-----------------------------------------------------------------------------
(***************************************************************************)
(* What becomes of the actions of an event.  Until the call returns each   *)
(* of them is recorded, or staged, or still to be looked at.               *)
(***************************************************************************)
In(history, key) == \E n \in BagToSet(history) : SameKey(key, n)

KeyOf(e, i) ==
  [source |-> e, type |-> OrderEvent[e].type, sku |-> OrderEvent[e].actions[i].sku]

Stages(staged, key) ==
  \E n \in DOMAIN staged : staged[n].store = "movements" /\ SameKey(key, staged[n].value)

Intends(todo, key) == \E n \in DOMAIN todo : todo[n].sku = key.sku

Accounts(to, history, key) ==
  to.at # "idle" /\ to.source = key.source =>
    /\ to.type = key.type
    /\ to.at = "commit" => to.todo = <<>>
    /\ In(history, key) \/ Stages(to.staged, key) \/ Intends(to.todo, key)

\* This action of this source is not lost.
KeyInv(key) ==
  /\ key.source \in consumed => In(movements, key)
  /\ \A c \in Call : Accounts(call[c], movements, key)

EventInv ==
  \A e \in DOMAIN OrderEvent : \A i \in DOMAIN OrderEvent[e].actions : KeyInv(KeyOf(e, i))

LEMMA AddedIn ==
  ASSUME NEW bag, NEW m
  PROVE  BagToSet(bag (+) SetToBag({m})) = BagToSet(bag) \union {m}
BY DEF BagToSet, (+), SetToBag

\* An action that has been seen to is not missed when the next is looked at.
LEMMA NextAction ==
  ASSUME NEW todo \in Seq(Action), todo # <<>>, NEW key, Intends(todo, key)
  PROVE  Head(todo).sku = key.sku \/ Intends(Tail(todo), key)
<1>1. PICK n \in DOMAIN todo : todo[n].sku = key.sku
  BY DEF Intends
<1>2. CASE n = 1
  BY <1>1, <1>2
<1>3. CASE n # 1
  <2>1. Len(todo) \in Nat /\ DOMAIN todo = 1..Len(todo) /\ Len(Tail(todo)) = Len(todo) - 1
    OBVIOUS
  <2>2. n - 1 \in 1..Len(Tail(todo)) /\ Tail(todo) \in Seq(Action)
    BY <1>3, <2>1
  <2>3. n - 1 \in DOMAIN Tail(todo) /\ Tail(todo)[n - 1] = todo[n]
    BY <2>1, <2>2
  <2>4. QED
    BY <1>1, <2>3 DEF Intends
<1>4. QED
  BY <1>2, <1>3

LEMMA StagesMore ==
  ASSUME NEW staged \in Seq(Mutation), NEW m \in Mutation
  PROVE  /\ \A key : Stages(staged, key) => Stages(Append(staged, m), key)
         /\ \A key : m.store = "movements" /\ SameKey(key, m.value) => Stages(Append(staged, m), key)
<1>1. /\ DOMAIN Append(staged, m) = 1..(Len(staged) + 1) /\ DOMAIN staged = 1..Len(staged)
      /\ Len(staged) \in Nat
      /\ \A n \in 1..Len(staged) : Append(staged, m)[n] = staged[n]
      /\ Append(staged, m)[Len(staged) + 1] = m
  OBVIOUS
<1>2. /\ \A n \in 1..Len(staged) : n \in 1..(Len(staged) + 1)
      /\ Len(staged) + 1 \in 1..(Len(staged) + 1)
  BY <1>1
<1>3. QED
  BY <1>1, <1>2 DEF Stages

LEMMA StagesLess ==
  ASSUME NEW staged \in Seq(Mutation), staged # <<>>, NEW key, Stages(staged, key)
  PROVE  \/ Head(staged).store = "movements" /\ SameKey(key, Head(staged).value)
         \/ Stages(Tail(staged), key)
<1>1. PICK n \in DOMAIN staged : staged[n].store = "movements" /\ SameKey(key, staged[n].value)
  BY DEF Stages
<1>2. CASE n = 1
  BY <1>1, <1>2
<1>3. CASE n # 1
  <2>1. /\ Len(staged) \in Nat /\ DOMAIN staged = 1..Len(staged)
        /\ Len(Tail(staged)) = Len(staged) - 1
    OBVIOUS
  <2>2. n - 1 \in 1..Len(Tail(staged)) /\ Tail(staged) \in Seq(Mutation)
    BY <1>3, <2>1
  <2>3. n - 1 \in DOMAIN Tail(staged) /\ Tail(staged)[n - 1] = staged[n]
    BY <2>1, <2>2
  <2>4. QED
    BY <1>1, <2>3 DEF Stages
<1>4. QED
  BY <1>2, <1>3

\* It is enough that the call which moves accounts for the action.
LEMMA OneCallAccounts ==
  ASSUME CallsOK, NEW key, KeyInv(key), NEW c \in Call, NEW to, call' = [call EXCEPT ![c] = to],
         BagToSet(movements) \subseteq BagToSet(movements'), Accounts(to, movements', key),
         key.source \in consumed' \ consumed => In(movements', key)
  PROVE  KeyInv(key)'
<1>1. In(movements, key) => In(movements', key)
  BY DEF In
<1>2. ASSUME NEW d \in Call PROVE Accounts(call'[d], movements', key)
  <2>1. CASE d = c
    BY <2>1 DEF CallsOK
  <2>2. CASE d # c
    <3>1. call'[d] = call[d] /\ Accounts(call[d], movements, key)
      BY <2>2 DEF CallsOK, KeyInv
    <3>2. QED
      BY <1>1, <3>1 DEF Accounts
  <2>3. QED
    BY <2>1, <2>2
<1>3. key.source \in consumed' => In(movements', key)
  BY <1>1 DEF KeyInv
<1>4. QED
  BY <1>2, <1>3 DEF KeyInv

LEMMA BeginAccounts ==
  ASSUME CallsOK, NEW key, KeyInv(key), NEW c \in Call, NEW source, NEW type, NEW actions,
         Begin(c, source, type, actions),
         source = key.source => type = key.type /\ Intends(actions, key)
  PROVE  KeyInv(key)'
<1> DEFINE to == [Fresh EXCEPT !.at = "find", !.source = source,
                               !.type = type, !.todo = actions]
<1>1. to.at = "find" /\ to.source = source /\ to.type = type /\ to.todo = actions
  BY FreshOK DEF CallState
<1>2. call' = [call EXCEPT ![c] = to] /\ movements' = movements /\ consumed' = consumed
  BY DEF Begin, stores
<1> HIDE DEF to
<1>3. Accounts(to, movements', key)
  BY <1>1 DEF Accounts
<1>4. QED
  BY <1>2, <1>3, OneCallAccounts

LEMMA CallStepAccounts ==
  ASSUME CallsOK, NEW key, KeyInv(key), NEW c \in Call, CallStep(c)
  PROVE  KeyInv(key)'
<1> DEFINE old == call[c]
           m == MovementOf(c)
<1>0. /\ old \in CallState /\ CallInv(c) /\ Accounts(old, movements, key)
      /\ old.todo \in Seq(Action) /\ old.staged \in Seq(Mutation)
  BY DEF CallsOK, KeyInv, CallState
<1>1. /\ m.source = old.source /\ m.type = old.type /\ m.sku = Head(old.todo).sku
  BY DEF MovementOf, ActionOf
<1>2. ASSUME old.source = key.source, old.at # "idle", old.todo # <<>>, Intends(old.todo, key)
      PROVE  SameKey(key, m) \/ Intends(Tail(old.todo), key)
  <2>1. Head(old.todo).sku = key.sku \/ Intends(Tail(old.todo), key)
    BY <1>0, <1>2, NextAction
  <2>2. old.type = key.type
    BY <1>0, <1>2 DEF Accounts
  <2>3. QED
    BY <1>1, <1>2, <2>1, <2>2 DEF SameKey
<1>3. CASE FindMovement(c)
  <2>1. /\ old.at = "find" /\ old.todo # <<>>
        /\ movements' = movements /\ consumed' = consumed
    BY <1>3 DEF FindMovement, At, stores
  <2>2. CASE Recorded(m)
    <3> DEFINE to == [old EXCEPT !.todo = Tail(old.todo)]
    <3>1. call' = [call EXCEPT ![c] = to]
      BY <1>3, <2>2 DEF FindMovement
    <3>2. /\ to.at = "find" /\ to.source = old.source /\ to.type = old.type
          /\ to.staged = old.staged /\ to.todo = Tail(old.todo)
      BY <1>0, <2>1 DEF CallState
    <3> HIDE DEF to
    <3>3. SameKey(key, m) => In(movements, key)
      BY <2>2 DEF Recorded, In, SameKey
    <3>4. Accounts(to, movements, key)
      <4> HIDE DEF m
      <4>1. QED
        BY <1>0, <1>2, <2>1, <3>2, <3>3 DEF Accounts
    <3>5. QED
      BY <2>1, <3>1, <3>4, OneCallAccounts
  <2>3. CASE ~ Recorded(m)
    <3> DEFINE to == [old EXCEPT !.at = "ensure"]
    <3>1. call' = [call EXCEPT ![c] = to]
      BY <1>3, <2>3 DEF FindMovement
    <3>2. /\ to.at = "ensure" /\ to.source = old.source /\ to.type = old.type
          /\ to.staged = old.staged /\ to.todo = old.todo
      BY <1>0, <2>1 DEF CallState
    <3> HIDE DEF to
    <3>3. Accounts(to, movements, key)
      BY <1>0, <2>1, <3>2 DEF Accounts
    <3>4. QED
      BY <2>1, <3>1, <3>3, OneCallAccounts
  <2>4. QED
    BY <2>2, <2>3
<1>4. CASE EnsureItem(c)
  <2> DEFINE s == ActionOf(c).sku
             zero == [store |-> "items", sku |-> s, value |-> Zero]
             staged == IF s \in existing THEN old.staged ELSE Append(old.staged, zero)
             read == IF s \in existing THEN items[s] ELSE Zero
             to == [old EXCEPT !.at = "apply", !.read = read, !.staged = staged]
  <2>1. old.at = "ensure" /\ movements' = movements /\ consumed' = consumed
    BY <1>4 DEF EnsureItem, At, stores
  <2>2. call' = [call EXCEPT ![c] = to]
    BY <1>4 DEF EnsureItem
  <2>3. s \in Sku
    BY <1>0, <2>1, ActionTyped DEF CallInv, Action
  <2>4. zero \in Mutation
    BY <2>3 DEF Mutation, Zero, Balance
  <2> HIDE DEF zero, read
  <2>5. Stages(old.staged, key) => Stages(staged, key)
    BY <1>0, <2>4, StagesMore
  <2> HIDE DEF staged
  <2>6. /\ to.at = "apply" /\ to.source = old.source /\ to.type = old.type
        /\ to.staged = staged /\ to.todo = old.todo
    BY <1>0 DEF CallState
  <2> HIDE DEF to
  <2>7. Accounts(to, movements, key)
    BY <1>0, <2>1, <2>5, <2>6 DEF Accounts
  <2>8. QED
    BY <2>1, <2>2, <2>7, OneCallAccounts
<1>5. CASE ApplyAndSave(c)
  <2> DEFINE a == ActionOf(c)
             save == [store |-> "items", sku |-> a.sku,
                      value |-> Moved(old.read, old.type, a.quantity)]
             staged == Append(old.staged, save)
             to == [old EXCEPT !.at = "append", !.staged = staged]
  <2>1. /\ old.at = "apply" /\ Allowed(old.read, old.type, a.quantity)
        /\ movements' = movements /\ consumed' = consumed
    BY <1>5 DEF ApplyAndSave, At, stores
  <2>2. call' = [call EXCEPT ![c] = to]
    BY <1>5 DEF ApplyAndSave
  <2>3. a \in Action /\ Moved(old.read, old.type, a.quantity) \in Balance
    BY <1>0, <2>1, ActionTyped, MovedIsGood DEF CallInv, CallState, Action
  <2>4. save \in Mutation
    BY <2>3 DEF Mutation, Action
  <2> HIDE DEF save
  <2>5. Stages(old.staged, key) => Stages(staged, key)
    BY <1>0, <2>4, StagesMore
  <2> HIDE DEF staged
  <2>6. /\ to.at = "append" /\ to.source = old.source /\ to.type = old.type
        /\ to.staged = staged /\ to.todo = old.todo
    BY <1>0 DEF CallState
  <2> HIDE DEF to
  <2>7. Accounts(to, movements, key)
    BY <1>0, <2>1, <2>5, <2>6 DEF Accounts
  <2>8. QED
    BY <2>1, <2>2, <2>7, OneCallAccounts
<1>6. CASE Refuse(c)
  <2>1. Accounts(Fresh, movements', key)
    BY FreshOK DEF Accounts
  <2>2. call' = [call EXCEPT ![c] = Fresh] /\ movements' = movements /\ consumed' = consumed
    BY <1>6 DEF Refuse, stores
  <2>3. QED
    BY <2>1, <2>2, OneCallAccounts
<1>7. CASE AppendAndPublish(c)
  <2> DEFINE add == [store |-> "movements", value |-> m]
             staged == IF Recorded(m) THEN old.staged ELSE Append(old.staged, add)
             to == [old EXCEPT !.at = "find", !.staged = staged, !.todo = Tail(old.todo)]
  <2>1. /\ old.at = "append" /\ old.todo # <<>>
        /\ movements' = movements /\ consumed' = consumed
    BY <1>0, <1>7 DEF AppendAndPublish, At, stores, CallInv
  <2>2. call' = [call EXCEPT ![c] = to]
    BY <1>7 DEF AppendAndPublish
  <2>3. m \in Movement
    BY <2>1, ActionTyped
  <2>4. add \in Mutation /\ add.store = "movements" /\ add.value = m
    BY <2>3 DEF Mutation
  <2> HIDE DEF add, m
  <2>5. Stages(old.staged, key) => Stages(staged, key)
    BY <1>0, <2>4, StagesMore
  <2>6. SameKey(key, m) => In(movements, key) \/ Stages(staged, key)
    <3>1. CASE Recorded(m)
      BY <3>1 DEF Recorded, In, SameKey
    <3>2. CASE ~ Recorded(m)
      BY <1>0, <2>4, <3>2, StagesMore
    <3>3. QED
      BY <3>1, <3>2
  <2> HIDE DEF staged
  <2>7. /\ to.at = "find" /\ to.source = old.source /\ to.type = old.type
        /\ to.staged = staged /\ to.todo = Tail(old.todo)
    BY <1>0 DEF CallState
  <2> HIDE DEF to
  <2>8. Accounts(to, movements, key)
    BY <1>0, <1>2, <2>1, <2>5, <2>6, <2>7 DEF Accounts
  <2>9. QED
    BY <2>1, <2>2, <2>8, OneCallAccounts
<1>8. CASE StartCommit(c)
  <2> DEFINE to == [old EXCEPT !.at = "commit"]
  <2>1. /\ old.at = "find" /\ old.todo = <<>>
        /\ movements' = movements /\ consumed' = consumed
    BY <1>8 DEF StartCommit, At, stores
  <2>2. call' = [call EXCEPT ![c] = to]
    BY <1>8 DEF StartCommit
  <2>3. /\ to.at = "commit" /\ to.source = old.source /\ to.type = old.type
        /\ to.staged = old.staged /\ to.todo = <<>>
    BY <1>0, <2>1 DEF CallState
  <2> HIDE DEF to
  <2>4. Accounts(to, movements, key)
    BY <1>0, <2>1, <2>3 DEF Accounts
  <2>5. QED
    BY <2>1, <2>2, <2>4, OneCallAccounts
<1>9. CASE CommitMutation(c)
  <2> DEFINE first == Head(old.staged)
             to == [old EXCEPT !.staged = Tail(old.staged)]
  <2>1. old.at = "commit" /\ old.staged # <<>> /\ consumed' = consumed
    BY <1>9 DEF CommitMutation, At
  <2>2. call' = [call EXCEPT ![c] = to]
    BY <1>9 DEF CommitMutation
  <2>3. /\ first.store = "items" => movements' = movements
        /\ first.store # "items" => movements' = movements (+) SetToBag({first.value})
    BY <1>9 DEF CommitMutation
  <2> HIDE DEF first
  <2>4. /\ BagToSet(movements) \subseteq BagToSet(movements')
        /\ first.store = "movements" => first.value \in BagToSet(movements')
    <3>1. BagToSet(movements (+) SetToBag({first.value})) = BagToSet(movements) \union {first.value}
      BY AddedIn
    <3>2. QED
      BY <2>3, <3>1
  <2>5. In(movements, key) => In(movements', key)
    BY <2>4 DEF In
  <2>6. ASSUME Stages(old.staged, key)
        PROVE  In(movements', key) \/ Stages(Tail(old.staged), key)
    <3>1. (first.store = "movements" /\ SameKey(key, first.value)) \/ Stages(Tail(old.staged), key)
      BY <1>0, <2>1, <2>6, StagesLess DEF first
    <3>2. QED
      BY <2>4, <3>1 DEF In
  <2>7. /\ to.at = old.at /\ to.source = old.source /\ to.type = old.type
        /\ to.staged = Tail(old.staged) /\ to.todo = old.todo
    BY <1>0 DEF CallState
  <2> HIDE DEF to
  <2>8. Accounts(to, movements', key)
    BY <1>0, <2>1, <2>5, <2>6, <2>7 DEF Accounts
  <2>9. QED
    BY <2>1, <2>2, <2>4, <2>8, OneCallAccounts
<1>10. CASE InsertRows(c)
  <2>1. /\ old.at = "commit" /\ old.staged = <<>> /\ movements' = movements
        /\ consumed' = consumed \union {old.source}
    BY <1>10 DEF InsertRows, At
  <2>2. call' = [call EXCEPT ![c] = Fresh]
    BY <1>10 DEF InsertRows
  <2>3. Accounts(Fresh, movements', key)
    BY FreshOK DEF Accounts
  <2>4. ~ Stages(<<>>, key) /\ ~ Intends(<<>>, key)
    BY DEF Stages, Intends
  <2>5. old.source = key.source => In(movements, key)
    BY <1>0, <2>1, <2>4 DEF Accounts
  <2>6. key.source \in consumed' \ consumed => In(movements', key)
    BY <2>1, <2>5
  <2>7. QED
    BY <2>1, <2>2, <2>3, <2>6, OneCallAccounts
<1>11. QED
  BY <1>3, <1>4, <1>5, <1>6, <1>7, <1>8, <1>9, <1>10 DEF CallStep

LEMMA EventInvariant == InventorySpec => []EventInv
<1>1. InventoryInit => EventInv
  <2>1. SUFFICES ASSUME InventoryInit PROVE EventInv
    OBVIOUS
  <2>2. consumed = {} /\ \A c \in Call : call[c].at = "idle"
    BY <2>1, FreshOK DEF InventoryInit
  <2>3. QED
    BY <2>2 DEF EventInv, KeyInv, Accounts
<1>2. InventoryInv /\ EventInv /\ [InventoryNext]_inventoryVars => EventInv'
  <2>1. SUFFICES ASSUME CallsOK, EventInv, [InventoryNext]_inventoryVars,
                        NEW e \in DOMAIN OrderEvent, NEW i \in DOMAIN OrderEvent[e].actions,
                        NEW key, key = KeyOf(e, i)
                 PROVE  KeyInv(key)'
    BY DEF InventoryInv, EventInv
  <2>2. KeyInv(key)
    BY <2>1 DEF EventInv
  <2>3. CASE UNCHANGED inventoryVars
    <3>1. call' = call /\ movements' = movements /\ consumed' = consumed
      BY <2>3 DEF inventoryVars
    <3>2. QED
      BY <2>2, <3>1 DEF KeyInv
  <2>4. /\ key.source = e /\ key.type = OrderEvent[e].type
        /\ Intends(OrderEvent[e].actions, key)
    BY <2>1 DEF KeyOf, Intends
  <2>5. ASSUME NEW c \in Call, NEW d \in DOMAIN OrderEvent,
               ConsumeOrderEvent(c, d, OrderEvent[d].type, OrderEvent[d].actions)
        PROVE  KeyInv(key)'
    BY <2>1, <2>2, <2>4, <2>5, BeginAccounts DEF ConsumeOrderEvent
  <2>6. ASSUME NEW c \in Call, NEW r \in Request, ReceiveStock(c, r) \/ AdjustStock(c, r)
        PROVE  KeyInv(key)'
    <3>1. r # e
      BY InventoryAssumption
    <3>2. QED
      BY <2>1, <2>2, <2>4, <2>6, <3>1, BeginAccounts DEF ReceiveStock, AdjustStock
  <2>7. ASSUME NEW c \in Call, CallStep(c)
        PROVE  KeyInv(key)'
    BY <2>1, <2>2, <2>7, CallStepAccounts
  <2>8. QED
    BY <2>1, <2>3, <2>5, <2>6, <2>7 DEF InventoryNext, StockRequestStep
<1>3. QED
  BY <1>1, <1>2, InventoryInvariant, PTL DEF InventorySpec

\* Whatever deliveries overlap, repeat or are refused: once a call has processed an
\* event, each of its movements is in the history.
THEOREM ConsumedIsRecordedAlways == InventorySpec => []ConsumedIsRecorded
<1>1. EventInv => ConsumedIsRecorded
  <2>1. SUFFICES ASSUME EventInv, NEW e \in consumed \intersect DOMAIN OrderEvent,
                        NEW i \in DOMAIN OrderEvent[e].actions
                 PROVE  Recorded(KeyOf(e, i))
    BY DEF ConsumedIsRecorded, KeyOf
  <2>2. KeyInv(KeyOf(e, i)) /\ KeyOf(e, i).source = e
    BY <2>1 DEF EventInv, KeyOf
  <2>3. In(movements, KeyOf(e, i))
    BY <2>2 DEF KeyInv
  <2>4. QED
    BY <2>3 DEF In, Recorded
<1>2. QED
  BY <1>1, EventInvariant, PTL

-----------------------------------------------------------------------------
(***************************************************************************)
(* How often a movement is recorded.  Calls that overlap can each stage it *)
(* as long as none has recorded it; from then on no further call does.     *)
(***************************************************************************)
\* The sum of the weights of the members of K that a bag holds.
Weight(bag, w, K) ==
  SumOver([m \in K \intersect DOMAIN bag |-> bag[m] * w[m]], K \intersect DOMAIN bag)

LEMMA WeightIsInt ==
  ASSUME NEW bag, IsABag(bag), IsFiniteSet(DOMAIN bag), NEW K, NEW w, IntOn(w, K)
  PROVE  Weight(bag, w, K) \in Int
<1> DEFINE S == K \intersect DOMAIN bag
           g == [m \in S |-> bag[m] * w[m]]
<1>1. IsFiniteSet(S)
  BY FS_Subset
<1>2. ASSUME NEW m \in S PROVE bag[m] * w[m] \in Int
  <2>1. bag[m] \in Nat /\ w[m] \in Int
    BY DEF IsABag, IntOn
  <2>2. QED
    BY <2>1
<1>3. IntOn(g, S)
  BY <1>2 DEF IntOn
<1> HIDE DEF g
<1>4. SumOver(g, S) \in Int
  BY <1>1, <1>3, SumStep
<1>5. QED
  BY <1>4 DEF Weight, g

LEMMA WeightOneMore ==
  ASSUME NEW bag, IsABag(bag), IsFiniteSet(DOMAIN bag), NEW v, NEW K, NEW w, IntOn(w, K)
  PROVE  Weight(bag (+) SetToBag({v}), w, K) = Weight(bag, w, K) + (IF v \in K THEN w[v] ELSE 0)
<1> DEFINE more == bag (+) SetToBag({v})
           S == K \intersect DOMAIN bag
           T == K \intersect DOMAIN more
           g == [m \in S |-> bag[m] * w[m]]
           h == [m \in T |-> more[m] * w[m]]
<1>1. /\ DOMAIN more = DOMAIN bag \union {v}
      /\ \A m \in DOMAIN bag : bag[m] \in Nat
      /\ \A m \in DOMAIN bag : m # v => more[m] = bag[m]
      /\ more[v] = (IF v \in DOMAIN bag THEN bag[v] ELSE 0) + 1
  BY DEF IsABag, (+), SetToBag
<1> HIDE DEF more
<1>2. IsFiniteSet(S)
  BY FS_Subset
<1>3. ASSUME NEW m \in S PROVE bag[m] * w[m] \in Int
  <2>1. bag[m] \in Nat /\ w[m] \in Int
    BY <1>1 DEF IntOn
  <2>2. QED
    BY <2>1
<1>4. IntOn(g, S)
  BY <1>3 DEF IntOn
<1>5. Agree(g, h, S \ {v})
  BY <1>1 DEF Agree
<1>6. CASE v \in K
  <2>1. T = S \union {v}
    BY <1>1, <1>6
  <2>2. w[v] \in Int /\ h[v] = more[v] * w[v]
    BY <1>6, <2>1 DEF IntOn
  <2>3. h[v] = (IF v \in S THEN g[v] ELSE 0) + w[v]
    <3>1. CASE v \in S
      <4>1. bag[v] \in Nat /\ more[v] = bag[v] + 1 /\ g[v] = bag[v] * w[v]
        BY <1>1, <3>1
      <4>2. \A b \in Nat, k \in Int : (b + 1) * k = b * k + k
        OBVIOUS
      <4>3. h[v] = g[v] + w[v]
        BY <2>2, <4>1, <4>2
      <4>4. QED
        BY <3>1, <4>3
    <3>2. CASE v \notin S
      <4>1. more[v] = 1
        BY <1>1, <1>6, <3>2
      <4>2. h[v] = 0 + w[v]
        BY <2>2, <4>1
      <4>3. QED
        BY <3>2, <4>2
    <3>3. QED
      BY <3>1, <3>2
  <2>4. w[v] \in Int
    BY <1>6 DEF IntOn
  <2> HIDE DEF g, h, S, T
  <2>5. SumOver(h, S \union {v}) = SumOver(g, S) + w[v]
    BY <1>2, <1>4, <1>5, <2>3, <2>4, SumBump
  <2>6. Weight(more, w, K) = SumOver(h, T) /\ Weight(bag, w, K) = SumOver(g, S)
    BY DEF Weight, g, h, S, T
  <2>7. Weight(more, w, K) = Weight(bag, w, K) + w[v]
    BY <2>1, <2>5, <2>6
  <2>8. QED
    BY <1>6, <2>7 DEF more
<1>7. CASE v \notin K
  <2>1. T = S /\ Agree(h, g, S)
    BY <1>1, <1>7 DEF Agree
  <2> HIDE DEF g, h, S, T
  <2>2. SumOver(h, S) = SumOver(g, S)
    BY <1>2, <2>1, SumSame
  <2>3. Weight(more, w, K) = SumOver(h, T) /\ Weight(bag, w, K) = SumOver(g, S)
    BY DEF Weight, g, h, S, T
  <2>4. Weight(bag, w, K) \in Int
    BY WeightIsInt
  <2>5. Weight(more, w, K) = Weight(bag, w, K) + 0
    BY <2>1, <2>2, <2>3, <2>4
  <2>6. QED
    BY <1>7, <2>5 DEF more
<1>8. QED
  BY <1>6, <1>7

Same(key) == {m \in Movement : SameKey(key, m)}

TimesIn(history, key) == Weight(history, [m \in Movement |-> 1], Same(key))

LEMMA CopiesCounted ==
  ASSUME IsHistory(movements), IsFiniteSet(DOMAIN movements), NEW key
  PROVE  Copies(key) = TimesIn(movements, key)
<1> DEFINE S == {n \in DOMAIN movements : SameKey(key, n)}
           one == [m \in Movement |-> 1]
           g == [m \in S |-> movements[m] * one[m]]
<1>1. S = Same(key) \intersect DOMAIN movements /\ IsFiniteSet(S)
  BY FS_Subset DEF IsHistory, BagToSet, Same
<1>2. Agree(movements, g, S)
  BY DEF IsHistory, IsABag, BagToSet, Agree
<1>3. Copies(key) = SumOver(movements, S)
  BY DEF Copies, SumOver, BagToSet
<1>4. TimesIn(movements, key) = SumOver(g, S)
  BY <1>1 DEF TimesIn, Weight
<1> HIDE DEF S, g
<1>5. QED
  BY <1>1, <1>2, <1>3, <1>4, SumSame

LEMMA CopiesOneMore ==
  ASSUME NEW history, IsHistory(history), IsFiniteSet(DOMAIN history), NEW m \in Movement, NEW key
  PROVE  /\ TimesIn(history, key) \in Int
         /\ TimesIn(history (+) SetToBag({m}), key) =
              TimesIn(history, key) + (IF SameKey(key, m) THEN 1 ELSE 0)
<1> DEFINE one == [n \in Movement |-> 1]
<1>1. IsABag(history) /\ IntOn(one, Same(key))
  BY DEF IsHistory, Same, IntOn
<1>2. m \in Same(key) <=> SameKey(key, m)
  BY DEF Same
<1>3. one[m] = 1
  OBVIOUS
<1> HIDE DEF one
<1>4. /\ Weight(history, one, Same(key)) \in Int
      /\ Weight(history (+) SetToBag({m}), one, Same(key)) =
           Weight(history, one, Same(key)) + (IF m \in Same(key) THEN one[m] ELSE 0)
  BY <1>1, WeightIsInt, WeightOneMore
<1>5. QED
  BY <1>2, <1>3, <1>4 DEF TimesIn, one

LEMMA NoCopies ==
  ASSUME NEW history, NEW key, ~ In(history, key)
  PROVE  TimesIn(history, key) = 0
<1>1. Same(key) \intersect DOMAIN history = {}
  BY DEF In, Same, BagToSet
<1>2. QED
  BY <1>1, SumEmpty DEF TimesIn, Weight

-----------------------------------------------------------------------------
\* No event asks for two movements of the same item, and no stock request does.
SkuOnce(todo) == \A i, j \in DOMAIN todo : todo[i].sku = todo[j].sku => i = j

SkusApart ==
  /\ \A e \in DOMAIN OrderEvent : SkuOnce(OrderEvent[e].actions)
  /\ \A r \in Request : SkuOnce(StockRequest[r].actions)

IsMove(mutation) == mutation.store = "movements"

\* A call stages the movements of its own source, each once, and none that it has
\* still to look at.
OwnMoves(to) ==
  /\ SkuOnce(to.todo)
  /\ to.at = "commit" => to.todo = <<>>
  /\ \A n \in DOMAIN to.staged : IsMove(to.staged[n]) =>
       /\ to.staged[n].value.source = to.source
       /\ to.staged[n].value.type = to.type
       /\ \A i \in DOMAIN to.todo : to.todo[i].sku # to.staged[n].value.sku
  /\ \A n, k \in DOMAIN to.staged :
       IsMove(to.staged[n]) /\ IsMove(to.staged[k])
         /\ SameKey(to.staged[n].value, to.staged[k].value) => n = k

Stagers(calls, key) == {c \in Call : Stages(calls[c].staged, key)}

Bounded(calls, history, key) ==
  \/ TimesIn(history, key) = 0
  \/ TimesIn(history, key) + Cardinality(Stagers(calls, key)) <= Cardinality(Call)

CopiesInv ==
  /\ IsFiniteSet(DOMAIN movements)
  /\ \A c \in Call : OwnMoves(call[c])
  /\ \A key \in Movement : Bounded(call, movements, key)

LEMMA FreshMoves == OwnMoves(Fresh) /\ \A key : ~ Stages(Fresh.staged, key)
<1>1. Fresh.staged = <<>> /\ Fresh.todo = <<>>
  BY DEF Fresh
<1>2. DOMAIN <<>> = {}
  OBVIOUS
<1>3. QED
  BY <1>1, <1>2 DEF OwnMoves, SkuOnce, Stages

\* It is enough that the call which moves keeps to its own movements.
LEMMA OneCallMovesOnce ==
  ASSUME CallsOK, HistoryOK, CopiesInv, IsFiniteSet(Call), NEW c \in Call, NEW to,
         call' = [call EXCEPT ![c] = to], movements' = movements, OwnMoves(to),
         \A key : Stages(to.staged, key) => Stages(call[c].staged, key) \/ ~ In(movements, key)
  PROVE  CopiesInv'
<1>1. \A d \in Call : call'[d] = IF d = c THEN to ELSE call[d]
  BY DEF CallsOK
<1>2. \A d \in Call : OwnMoves(call'[d])
  BY <1>1 DEF CopiesInv
<1>3. ASSUME NEW key \in Movement PROVE Bounded(call', movements, key)
  <2>1. CASE In(movements, key)
    <3>1. Stagers(call', key) \subseteq Stagers(call, key)
      BY <1>1, <2>1 DEF Stagers
    <3>2. IsFiniteSet(Stagers(call, key)) /\ IsFiniteSet(Stagers(call', key))
      BY FS_Subset DEF Stagers
    <3>3. /\ Cardinality(Stagers(call', key)) <= Cardinality(Stagers(call, key))
          /\ Cardinality(Stagers(call', key)) \in Nat
          /\ Cardinality(Stagers(call, key)) \in Nat
          /\ Cardinality(Call) \in Nat
      BY <3>1, <3>2, FS_Subset, FS_CardinalityType
    <3>4. CASE TimesIn(movements, key) = 0
      BY <3>4 DEF Bounded
    <3>5. CASE TimesIn(movements, key) # 0
      <4>1. TimesIn(movements, key) \in Int
        BY CopiesOneMore DEF HistoryOK, CopiesInv
      <4>2. TimesIn(movements, key) + Cardinality(Stagers(call, key)) <= Cardinality(Call)
        BY <3>5 DEF CopiesInv, Bounded
      <4>3. QED
        BY <3>3, <4>1, <4>2 DEF Bounded
    <3>6. QED
      BY <3>4, <3>5
  <2>2. CASE ~ In(movements, key)
    BY <2>2, NoCopies DEF Bounded
  <2>3. QED
    BY <2>1, <2>2
<1>4. QED
  BY <1>2, <1>3 DEF CopiesInv

\* What comes after the first p elements of a sequence.
After(part, seq, p) == \A i \in DOMAIN part : i + p \in DOMAIN seq /\ part[i] = seq[i + p]

MovesAfter(part, staged, q) ==
  \A n \in DOMAIN part : IsMove(part[n]) => n + q \in DOMAIN staged /\ part[n] = staged[n + q]

\* The rest of what a call had staged and of what it had to do is its own as well.
LEMMA MovesKept ==
  ASSUME NEW old, OwnMoves(old), DOMAIN old.todo \subseteq Nat, DOMAIN old.staged \subseteq Nat,
         NEW to, to.source = old.source, to.type = old.type,
         to.at = "commit" => to.todo = <<>>,
         DOMAIN to.todo \subseteq Nat, DOMAIN to.staged \subseteq Nat,
         NEW p \in Nat, NEW q \in Nat,
         After(to.todo, old.todo, p), MovesAfter(to.staged, old.staged, q)
  PROVE  /\ OwnMoves(to)
         /\ \A key : Stages(to.staged, key) => Stages(old.staged, key)
<1>0. /\ \A i \in DOMAIN to.todo : i + p \in DOMAIN old.todo /\ to.todo[i] = old.todo[i + p]
      /\ \A n \in DOMAIN to.staged : IsMove(to.staged[n]) =>
           n + q \in DOMAIN old.staged /\ to.staged[n] = old.staged[n + q]
  BY DEF After, MovesAfter
<1>1. SkuOnce(to.todo)
  <2> SUFFICES ASSUME NEW i \in DOMAIN to.todo, NEW j \in DOMAIN to.todo,
                      to.todo[i].sku = to.todo[j].sku
               PROVE  i = j
    BY DEF SkuOnce
  <2>1. i + p = j + p
    BY <1>0 DEF OwnMoves, SkuOnce
  <2>2. i \in Nat /\ j \in Nat
    OBVIOUS
  <2>3. QED
    BY <2>1, <2>2
<1>2. ASSUME NEW n \in DOMAIN to.staged, IsMove(to.staged[n])
      PROVE  /\ to.staged[n].value.source = to.source
             /\ to.staged[n].value.type = to.type
             /\ \A i \in DOMAIN to.todo : to.todo[i].sku # to.staged[n].value.sku
  <2>1. n + q \in DOMAIN old.staged /\ to.staged[n] = old.staged[n + q]
    BY <1>0, <1>2
  <2>2. QED
    BY <1>0, <1>2, <2>1 DEF OwnMoves
<1>3. ASSUME NEW n \in DOMAIN to.staged, NEW k \in DOMAIN to.staged,
             IsMove(to.staged[n]), IsMove(to.staged[k]),
             SameKey(to.staged[n].value, to.staged[k].value)
      PROVE  n = k
  <2>1. /\ n + q \in DOMAIN old.staged /\ to.staged[n] = old.staged[n + q]
        /\ k + q \in DOMAIN old.staged /\ to.staged[k] = old.staged[k + q]
    BY <1>0, <1>3
  <2>2. n + q = k + q
    BY <1>3, <2>1 DEF OwnMoves
  <2>3. n \in Nat /\ k \in Nat
    OBVIOUS
  <2>4. QED
    BY <2>2, <2>3
<1>4. ASSUME NEW key, Stages(to.staged, key) PROVE Stages(old.staged, key)
  BY <1>0, <1>4 DEF Stages, IsMove
<1>5. QED
  BY <1>1, <1>2, <1>3, <1>4 DEF OwnMoves

LEMMA OneMoreStaged ==
  ASSUME NEW staged \in Seq(Mutation), NEW m \in Mutation
  PROVE  /\ DOMAIN Append(staged, m) = DOMAIN staged \union {Len(staged) + 1}
         /\ Len(staged) + 1 \notin DOMAIN staged
         /\ DOMAIN staged \subseteq Nat /\ DOMAIN Append(staged, m) \subseteq Nat
         /\ \A n \in DOMAIN staged : Append(staged, m)[n] = staged[n]
         /\ Append(staged, m)[Len(staged) + 1] = m
<1>1. /\ DOMAIN Append(staged, m) = 1..(Len(staged) + 1) /\ DOMAIN staged = 1..Len(staged)
      /\ Len(staged) \in Nat
      /\ \A n \in 1..Len(staged) : Append(staged, m)[n] = staged[n]
      /\ Append(staged, m)[Len(staged) + 1] = m
  OBVIOUS
<1>2. QED
  BY <1>1

LEMMA OneLess ==
  ASSUME NEW T, NEW seq \in Seq(T), seq # <<>>
  PROVE  /\ Tail(seq) \in Seq(T) /\ Head(seq) = seq[1] /\ 1 \in DOMAIN seq
         /\ DOMAIN seq \subseteq Nat \ {0} /\ DOMAIN Tail(seq) \subseteq Nat \ {0}
         /\ \A i \in DOMAIN Tail(seq) : i + 1 \in DOMAIN seq /\ Tail(seq)[i] = seq[i + 1]
         /\ \A n \in DOMAIN seq : n # 1 => n - 1 \in DOMAIN Tail(seq) /\ Tail(seq)[n - 1] = seq[n]
<1>1. /\ Tail(seq) \in Seq(T) /\ Len(Tail(seq)) = Len(seq) - 1 /\ Len(seq) \in Nat
      /\ DOMAIN seq = 1..Len(seq)
  OBVIOUS
<1>2. DOMAIN Tail(seq) = 1..(Len(seq) - 1)
  BY <1>1
<1>3. \A i \in DOMAIN Tail(seq) : Tail(seq)[i] = seq[i + 1]
  BY <1>1, <1>2
<1>4. Len(seq) > 0 /\ Head(seq) = seq[1]
  OBVIOUS
<1>5. ASSUME NEW n \in DOMAIN seq, n # 1
      PROVE  n - 1 \in DOMAIN Tail(seq) /\ Tail(seq)[n - 1] = seq[n]
  <2>1. n - 1 \in 1..(Len(seq) - 1) /\ (n - 1) + 1 = n
    BY <1>1, <1>5
  <2>2. Tail(seq)[n - 1] = seq[(n - 1) + 1]
    BY <1>2, <1>3, <2>1
  <2>3. QED
    BY <1>2, <2>1, <2>2
<1>6. QED
  BY <1>1, <1>2, <1>3, <1>4, <1>5

LEMMA MoveStaged ==
  ASSUME NEW old \in CallState, OwnMoves(old), old.todo # <<>>,
         NEW add \in Mutation, IsMove(add), add.value.source = old.source,
         add.value.type = old.type, add.value.sku = Head(old.todo).sku,
         NEW to, to.source = old.source, to.type = old.type, to.at # "commit",
         to.todo = Tail(old.todo), to.staged = Append(old.staged, add)
  PROVE  OwnMoves(to)
<1> DEFINE last == Len(old.staged) + 1
<1>1. /\ old.todo \in Seq(Action) /\ old.staged \in Seq(Mutation)
  BY DEF CallState
<1>2. /\ DOMAIN to.staged = DOMAIN old.staged \union {last} /\ last \notin DOMAIN old.staged
      /\ \A n \in DOMAIN old.staged : to.staged[n] = old.staged[n]
      /\ to.staged[last] = add
  BY <1>1, OneMoreStaged
<1>3. /\ Head(old.todo) = old.todo[1] /\ 1 \in DOMAIN old.todo
      /\ DOMAIN to.todo \subseteq Nat \ {0}
      /\ \A i \in DOMAIN to.todo : i + 1 \in DOMAIN old.todo /\ to.todo[i] = old.todo[i + 1]
  BY <1>1, OneLess
<1> HIDE DEF last
<1>4. SkuOnce(to.todo)
  <2> SUFFICES ASSUME NEW i \in DOMAIN to.todo, NEW j \in DOMAIN to.todo,
                      to.todo[i].sku = to.todo[j].sku
               PROVE  i = j
    BY DEF SkuOnce
  <2>1. i + 1 = j + 1
    BY <1>3 DEF OwnMoves, SkuOnce
  <2>2. i \in Nat /\ j \in Nat
    BY <1>3
  <2>3. QED
    BY <2>1, <2>2
<1>5. \A i \in DOMAIN to.todo : to.todo[i].sku # add.value.sku
  <2> SUFFICES ASSUME NEW i \in DOMAIN to.todo, to.todo[i].sku = add.value.sku PROVE FALSE
    OBVIOUS
  <2>1. i + 1 = 1
    BY <1>3 DEF OwnMoves, SkuOnce
  <2>2. i \in Nat \ {0}
    BY <1>3
  <2>3. QED
    BY <2>1, <2>2
<1>6. ASSUME NEW n \in DOMAIN to.staged, IsMove(to.staged[n])
      PROVE  /\ to.staged[n].value.source = to.source
             /\ to.staged[n].value.type = to.type
             /\ \A i \in DOMAIN to.todo : to.todo[i].sku # to.staged[n].value.sku
  <2>1. CASE n = last
    BY <1>2, <1>5, <2>1
  <2>2. CASE n # last
    <3>1. n \in DOMAIN old.staged /\ to.staged[n] = old.staged[n]
      BY <1>2, <2>2
    <3>2. QED
      BY <1>3, <1>6, <3>1 DEF OwnMoves
  <2>3. QED
    BY <2>1, <2>2
<1>7. ASSUME NEW n \in DOMAIN old.staged, IsMove(old.staged[n]), SameKey(old.staged[n].value, add.value)
      PROVE  FALSE
  BY <1>3, <1>7 DEF OwnMoves, SameKey
<1>8. ASSUME NEW n \in DOMAIN to.staged, NEW k \in DOMAIN to.staged,
             IsMove(to.staged[n]), IsMove(to.staged[k]),
             SameKey(to.staged[n].value, to.staged[k].value)
      PROVE  n = k
  <2>1. CASE n = last /\ k # last
    <3>1. k \in DOMAIN old.staged /\ to.staged[k] = old.staged[k] /\ to.staged[n] = add
      BY <1>2, <2>1
    <3>2. SameKey(old.staged[k].value, add.value)
      BY <1>8, <3>1 DEF SameKey
    <3>3. QED
      BY <1>7, <1>8, <3>1, <3>2
  <2>2. CASE n # last /\ k = last
    <3>1. n \in DOMAIN old.staged /\ to.staged[n] = old.staged[n] /\ to.staged[k] = add
      BY <1>2, <2>2
    <3>2. QED
      BY <1>7, <1>8, <3>1
  <2>3. CASE n # last /\ k # last
    <3>1. /\ n \in DOMAIN old.staged /\ to.staged[n] = old.staged[n]
          /\ k \in DOMAIN old.staged /\ to.staged[k] = old.staged[k]
      BY <1>2, <2>3
    <3>2. QED
      BY <1>8, <3>1 DEF OwnMoves
  <2>4. QED
    BY <2>1, <2>2, <2>3
<1>9. QED
  BY <1>4, <1>6, <1>8 DEF OwnMoves

LEMMA StillFinite ==
  ASSUME NEW bag, IsFiniteSet(DOMAIN bag), NEW m
  PROVE  IsFiniteSet(DOMAIN (bag (+) SetToBag({m})))
<1>1. DOMAIN (bag (+) SetToBag({m})) = DOMAIN bag \union {m}
  BY DEF (+), SetToBag
<1>2. IsFiniteSet(DOMAIN bag \union {m})
  BY FS_AddElement
<1>3. QED
  BY <1>1, <1>2

\* The first of the staged movements is recorded: one copy more, one call less
\* that has it to record.
LEMMA CommitMovesOnce ==
  ASSUME CallsOK, HistoryOK, CopiesInv, IsFiniteSet(Call), NEW c \in Call, NEW to,
         call' = [call EXCEPT ![c] = to], OwnMoves(to),
         call[c].staged # <<>>, to.staged = Tail(call[c].staged),
         IsMove(Head(call[c].staged)),
         movements' = movements (+) SetToBag({Head(call[c].staged).value})
  PROVE  CopiesInv'
<1> DEFINE old == call[c]
           m == Head(old.staged).value
<1>0. /\ old \in CallState /\ old.staged \in Seq(Mutation) /\ OwnMoves(old)
      /\ \A d \in Call : call'[d] = IF d = c THEN to ELSE call[d]
  BY DEF CallsOK, CallState, CopiesInv
<1>1. /\ Head(old.staged) = old.staged[1] /\ 1 \in DOMAIN old.staged
      /\ DOMAIN to.staged \subseteq Nat \ {0}
      /\ \A n \in DOMAIN to.staged : n + 1 \in DOMAIN old.staged /\ to.staged[n] = old.staged[n + 1]
  BY <1>0, OneLess
<1>2. m \in Movement
  <2>1. Head(old.staged) \in Mutation /\ IsMove(Head(old.staged))
    BY <1>0
  <2>2. QED
    BY <2>1 DEF Mutation, IsMove
<1>3. movements' = movements (+) SetToBag({m})
  OBVIOUS
<1>4. IsFiniteSet(DOMAIN movements')
  <2>1. IsFiniteSet(DOMAIN movements)
    BY DEF CopiesInv
  <2>2. QED
    BY <1>3, <2>1, StillFinite
<1>5. \A d \in Call : OwnMoves(call'[d])
  BY <1>0 DEF CopiesInv
<1>6. ASSUME NEW key, Stages(to.staged, key)
      PROVE  Stages(old.staged, key) /\ ~ SameKey(key, m)
  <2>1. PICK n \in DOMAIN to.staged : IsMove(to.staged[n]) /\ SameKey(key, to.staged[n].value)
    BY <1>6 DEF Stages, IsMove
  <2>2. n + 1 \in DOMAIN old.staged /\ to.staged[n] = old.staged[n + 1] /\ n + 1 # 1
    BY <1>1
  <2>3. Stages(old.staged, key)
    BY <2>1, <2>2 DEF Stages, IsMove
  <2>4. ~ SameKey(old.staged[n + 1].value, old.staged[1].value)
    BY <1>0, <1>1, <2>1, <2>2 DEF OwnMoves
  <2>5. QED
    BY <1>1, <2>1, <2>2, <2>3, <2>4 DEF SameKey
<1>7. \A key : SameKey(key, m) => Stages(old.staged, key)
  BY <1>1 DEF Stages, IsMove
<1> HIDE DEF m, old
<1>8. ASSUME NEW key \in Movement PROVE Bounded(call', movements', key)
  <2> DEFINE now == Stagers(call, key)
             then == Stagers(call', key)
  <2>1. /\ TimesIn(movements, key) \in Int
        /\ TimesIn(movements', key) = TimesIn(movements, key) + (IF SameKey(key, m) THEN 1 ELSE 0)
    BY <1>2, <1>3, CopiesOneMore DEF HistoryOK, CopiesInv
  <2>2. now \subseteq Call /\ then \subseteq Call /\ then \subseteq now
    BY <1>0, <1>6 DEF Stagers, old
  <2>3. /\ IsFiniteSet(now) /\ IsFiniteSet(then)
        /\ Cardinality(now) \in Nat /\ Cardinality(then) \in Nat /\ Cardinality(Call) \in Nat
        /\ Cardinality(now) <= Cardinality(Call) /\ Cardinality(then) <= Cardinality(now)
    BY <2>2, FS_Subset, FS_CardinalityType
  <2>4. CASE SameKey(key, m)
    <3>1. c \in now /\ c \notin then
      BY <1>0, <1>6, <1>7, <2>4 DEF Stagers, old
    <3>2. then \subseteq now \ {c}
      BY <2>2, <3>1
    <3>3. Cardinality(now \ {c}) = Cardinality(now) - 1 /\ IsFiniteSet(now \ {c})
      BY <2>3, <3>1, FS_RemoveElement
    <3> HIDE DEF now, then
    <3>4. Cardinality(then) <= Cardinality(now) - 1
      BY <2>3, <3>2, <3>3, FS_Subset
    <3>5. TimesIn(movements', key) = TimesIn(movements, key) + 1
      BY <2>1, <2>4
    <3>6. TimesIn(movements, key) = 0 \/ TimesIn(movements, key) + Cardinality(now) <= Cardinality(Call)
      BY DEF CopiesInv, Bounded, now
    <3>7. TimesIn(movements', key) + Cardinality(then) <= Cardinality(Call)
      BY <2>1, <2>3, <3>4, <3>5, <3>6
    <3>8. QED
      BY <3>7 DEF Bounded, then
  <2>5. CASE ~ SameKey(key, m)
    <3> HIDE DEF now, then
    <3>1. TimesIn(movements', key) = TimesIn(movements, key)
      BY <2>1, <2>5
    <3>2. TimesIn(movements, key) = 0 \/ TimesIn(movements, key) + Cardinality(now) <= Cardinality(Call)
      BY DEF CopiesInv, Bounded, now
    <3>3. \/ TimesIn(movements', key) = 0
          \/ TimesIn(movements', key) + Cardinality(then) <= Cardinality(Call)
      BY <2>1, <2>3, <3>1, <3>2
    <3>4. QED
      BY <3>3 DEF Bounded, then
  <2>6. QED
    BY <2>4, <2>5
<1>9. QED
  BY <1>4, <1>5, <1>8 DEF CopiesInv

LEMMA BeginMovesOnce ==
  ASSUME CallsOK, HistoryOK, CopiesInv, IsFiniteSet(Call), NEW c \in Call,
         NEW source, NEW type, NEW actions, SkuOnce(actions), Begin(c, source, type, actions)
  PROVE  CopiesInv'
<1> DEFINE to == [Fresh EXCEPT !.at = "find", !.source = source,
                               !.type = type, !.todo = actions]
<1>1. to.at = "find" /\ to.todo = actions /\ to.staged = <<>>
  BY FreshOK DEF CallState
<1>2. call' = [call EXCEPT ![c] = to] /\ movements' = movements
  BY DEF Begin, stores
<1> HIDE DEF to
<1>3. OwnMoves(to) /\ \A key : ~ Stages(to.staged, key)
  BY <1>1 DEF OwnMoves, Stages
<1>4. QED
  BY <1>2, <1>3, OneCallMovesOnce

LEMMA CallStepMovesOnce ==
  ASSUME CallsOK, ItemsOK, HistoryOK, CopiesInv, IsFiniteSet(Call), NEW c \in Call, CallStep(c)
  PROVE  CopiesInv'
<1> DEFINE old == call[c]
<1>0. /\ old \in CallState /\ CallInv(c) /\ OwnMoves(old)
      /\ old.todo \in Seq(Action) /\ old.staged \in Seq(Mutation)
      /\ DOMAIN old.todo \subseteq Nat /\ DOMAIN old.staged \subseteq Nat
  BY DEF CallsOK, CallState, CopiesInv
\* What a call does may leave its movements alone but for the next action.
<1>a. ASSUME NEW to, call' = [call EXCEPT ![c] = to], movements' = movements,
             to.source = old.source, to.type = old.type, to.at = "commit" => to.todo = <<>>,
             to.todo = old.todo \/ (old.todo # <<>> /\ to.todo = Tail(old.todo)),
             to.staged = old.staged \/ \E m \in Mutation : ~ IsMove(m) /\ to.staged = Append(old.staged, m)
      PROVE  CopiesInv'
  <2>1. After(to.todo, old.todo, 0) \/ After(to.todo, old.todo, 1)
    <3>1. CASE to.todo = old.todo
      BY <1>0, <3>1 DEF After
    <3>2. CASE old.todo # <<>> /\ to.todo = Tail(old.todo)
      BY <1>0, <3>2, OneLess DEF After
    <3>3. QED
      BY <1>a, <3>1, <3>2
  <2>2. DOMAIN to.todo \subseteq Nat
    BY <1>0, <1>a, OneLess
  <2>3. DOMAIN to.staged \subseteq Nat /\ MovesAfter(to.staged, old.staged, 0)
    <3>1. CASE to.staged = old.staged
      BY <1>0, <3>1 DEF MovesAfter
    <3>2. ASSUME NEW m \in Mutation, ~ IsMove(m), to.staged = Append(old.staged, m)
          PROVE  DOMAIN to.staged \subseteq Nat /\ MovesAfter(to.staged, old.staged, 0)
      <4>1. /\ DOMAIN to.staged = DOMAIN old.staged \union {Len(old.staged) + 1}
            /\ DOMAIN to.staged \subseteq Nat
            /\ \A n \in DOMAIN old.staged : to.staged[n] = old.staged[n]
            /\ to.staged[Len(old.staged) + 1] = m
        BY <1>0, <3>2, OneMoreStaged
      <4>2. QED
        BY <1>0, <3>2, <4>1 DEF MovesAfter
    <3>3. QED
      BY <1>a, <3>1, <3>2
  <2>4. /\ OwnMoves(to)
        /\ \A key : Stages(to.staged, key) => Stages(old.staged, key)
    BY <1>0, <1>a, <2>1, <2>2, <2>3, MovesKept
  <2>5. QED
    BY <1>a, <2>4, OneCallMovesOnce
<1>1. CASE FindMovement(c)
  <2>1. old.at = "find" /\ old.todo # <<>> /\ movements' = movements
    BY <1>1 DEF FindMovement, At, stores
  <2>2. CASE Recorded(MovementOf(c))
    <3> DEFINE to == [old EXCEPT !.todo = Tail(old.todo)]
    <3>1. call' = [call EXCEPT ![c] = to]
      BY <1>1, <2>2 DEF FindMovement
    <3>2. /\ to.at = "find" /\ to.source = old.source /\ to.type = old.type
          /\ to.staged = old.staged /\ to.todo = Tail(old.todo)
      BY <1>0, <2>1 DEF CallState
    <3> HIDE DEF to
    <3>3. QED
      BY <1>a, <2>1, <3>1, <3>2
  <2>3. CASE ~ Recorded(MovementOf(c))
    <3> DEFINE to == [old EXCEPT !.at = "ensure"]
    <3>1. call' = [call EXCEPT ![c] = to]
      BY <1>1, <2>3 DEF FindMovement
    <3>2. /\ to.at = "ensure" /\ to.source = old.source /\ to.type = old.type
          /\ to.staged = old.staged /\ to.todo = old.todo
      BY <1>0, <2>1 DEF CallState
    <3> HIDE DEF to
    <3>3. QED
      BY <1>a, <2>1, <3>1, <3>2
  <2>4. QED
    BY <2>2, <2>3
<1>2. CASE EnsureItem(c)
  <2> DEFINE s == ActionOf(c).sku
             zero == [store |-> "items", sku |-> s, value |-> Zero]
             staged == IF s \in existing THEN old.staged ELSE Append(old.staged, zero)
             read == IF s \in existing THEN items[s] ELSE Zero
             to == [old EXCEPT !.at = "apply", !.read = read, !.staged = staged]
  <2>1. old.at = "ensure" /\ movements' = movements
    BY <1>2 DEF EnsureItem, At, stores
  <2>2. call' = [call EXCEPT ![c] = to]
    BY <1>2 DEF EnsureItem
  <2>3. s \in Sku
    BY <1>0, <2>1, ActionTyped DEF CallInv, Action
  <2>4. zero \in Mutation /\ ~ IsMove(zero)
    BY <2>3 DEF Mutation, Zero, Balance, IsMove
  <2> HIDE DEF zero, read
  <2>5. staged = old.staged \/ \E m \in Mutation : ~ IsMove(m) /\ staged = Append(old.staged, m)
    BY <2>4
  <2> HIDE DEF staged
  <2>6. /\ to.at = "apply" /\ to.source = old.source /\ to.type = old.type
        /\ to.staged = staged /\ to.todo = old.todo
    BY <1>0 DEF CallState
  <2> HIDE DEF to
  <2>7. QED
    BY <1>a, <2>1, <2>2, <2>5, <2>6
<1>3. CASE ApplyAndSave(c)
  <2> DEFINE a == ActionOf(c)
             save == [store |-> "items", sku |-> a.sku,
                      value |-> Moved(old.read, old.type, a.quantity)]
             to == [old EXCEPT !.at = "append", !.staged = Append(old.staged, save)]
  <2>1. /\ old.at = "apply" /\ Allowed(old.read, old.type, a.quantity) /\ movements' = movements
    BY <1>3 DEF ApplyAndSave, At, stores
  <2>2. call' = [call EXCEPT ![c] = to]
    BY <1>3 DEF ApplyAndSave
  <2>3. a \in Action /\ Moved(old.read, old.type, a.quantity) \in Balance
    BY <1>0, <2>1, ActionTyped, MovedIsGood DEF CallInv, CallState, Action
  <2>4. save \in Mutation /\ ~ IsMove(save)
    BY <2>3 DEF Mutation, Action, IsMove
  <2> HIDE DEF save
  <2>5. /\ to.at = "append" /\ to.source = old.source /\ to.type = old.type
        /\ to.staged = Append(old.staged, save) /\ to.todo = old.todo
    BY <1>0 DEF CallState
  <2> HIDE DEF to
  <2>6. QED
    BY <1>a, <2>1, <2>2, <2>4, <2>5
<1>4. CASE Refuse(c)
  BY <1>4, FreshMoves, OneCallMovesOnce DEF Refuse, stores
<1>5. CASE AppendAndPublish(c)
  <2> DEFINE m == MovementOf(c)
             add == [store |-> "movements", value |-> m]
             staged == IF Recorded(m) THEN old.staged ELSE Append(old.staged, add)
             to == [old EXCEPT !.at = "find", !.staged = staged, !.todo = Tail(old.todo)]
  <2>1. /\ old.at = "append" /\ old.todo # <<>> /\ movements' = movements
    BY <1>0, <1>5 DEF AppendAndPublish, At, stores, CallInv
  <2>2. call' = [call EXCEPT ![c] = to]
    BY <1>5 DEF AppendAndPublish
  <2>3. /\ m \in Movement /\ m.source = old.source /\ m.type = old.type
        /\ m.sku = Head(old.todo).sku
    BY <2>1, ActionTyped DEF MovementOf, ActionOf
  <2>4. add \in Mutation /\ IsMove(add) /\ add.value = m /\ add.store = "movements"
    BY <2>3 DEF Mutation, IsMove
  <2> HIDE DEF add, m
  <2>5. /\ to.at = "find" /\ to.source = old.source /\ to.type = old.type
        /\ to.staged = staged /\ to.todo = Tail(old.todo)
    BY <1>0 DEF CallState
  <2> HIDE DEF to
  <2>6. CASE Recorded(m)
    BY <1>a, <2>1, <2>2, <2>5, <2>6
  <2>7. CASE ~ Recorded(m)
    <3>1. to.staged = Append(old.staged, add)
      BY <2>5, <2>7
    <3>2. OwnMoves(to)
      BY <1>0, <2>1, <2>3, <2>4, <2>5, <3>1, MoveStaged
    <3>3. ASSUME NEW key, Stages(to.staged, key), ~ Stages(old.staged, key)
          PROVE  ~ In(movements, key)
      <4>1. /\ DOMAIN to.staged = DOMAIN old.staged \union {Len(old.staged) + 1}
            /\ \A n \in DOMAIN old.staged : to.staged[n] = old.staged[n]
            /\ to.staged[Len(old.staged) + 1] = add
        BY <1>0, <2>4, <3>1, OneMoreStaged
      <4>2. SameKey(key, m)
        BY <2>4, <3>3, <4>1 DEF Stages
      <4>3. QED
        BY <2>7, <4>2 DEF In, Recorded, SameKey
    <3>4. QED
      BY <2>1, <2>2, <3>2, <3>3, OneCallMovesOnce
  <2>8. QED
    BY <2>6, <2>7
<1>6. CASE StartCommit(c)
  <2> DEFINE to == [old EXCEPT !.at = "commit"]
  <2>1. old.at = "find" /\ old.todo = <<>> /\ movements' = movements
    BY <1>6 DEF StartCommit, At, stores
  <2>2. call' = [call EXCEPT ![c] = to]
    BY <1>6 DEF StartCommit
  <2>3. /\ to.at = "commit" /\ to.source = old.source /\ to.type = old.type
        /\ to.staged = old.staged /\ to.todo = old.todo
    BY <1>0, <2>1 DEF CallState
  <2> HIDE DEF to
  <2>4. QED
    BY <1>a, <2>1, <2>2, <2>3
<1>7. CASE CommitMutation(c)
  <2> DEFINE first == Head(old.staged)
             to == [old EXCEPT !.staged = Tail(old.staged)]
  <2>1. old.at = "commit" /\ old.staged # <<>> /\ first \in Mutation
    BY <1>0, <1>7 DEF CommitMutation, At
  <2>2. call' = [call EXCEPT ![c] = to]
    BY <1>7 DEF CommitMutation
  <2>3. /\ first.store = "items" => movements' = movements
        /\ first.store # "items" => movements' = movements (+) SetToBag({first.value})
    BY <1>7 DEF CommitMutation
  <2>4. /\ to.at = old.at /\ to.source = old.source /\ to.type = old.type
        /\ to.staged = Tail(old.staged) /\ to.todo = old.todo
    BY <1>0 DEF CallState
  <2>5. IsMove(first) <=> first.store # "items"
    BY <2>1 DEF Mutation, IsMove
  <2>6. DOMAIN to.staged \subseteq Nat /\ MovesAfter(to.staged, old.staged, 1)
    BY <1>0, <2>1, <2>4, OneLess DEF MovesAfter
  <2> HIDE DEF to
  <2>7. OwnMoves(to) /\ \A key : Stages(to.staged, key) => Stages(old.staged, key)
    <3>1. to.at = "commit" => to.todo = <<>>
      BY <1>0, <2>4 DEF OwnMoves
    <3>2. After(to.todo, old.todo, 0)
      BY <1>0, <2>4 DEF After
    <3>3. DOMAIN to.todo \subseteq Nat
      BY <1>0, <2>4
    <3>4. QED
      BY <1>0, <2>4, <2>6, <3>1, <3>2, <3>3, MovesKept
  <2>8. CASE IsMove(first)
    BY <2>1, <2>2, <2>3, <2>4, <2>5, <2>7, <2>8, CommitMovesOnce
  <2>9. CASE ~ IsMove(first)
    BY <2>2, <2>3, <2>5, <2>7, <2>9, OneCallMovesOnce
  <2>10. QED
    BY <2>8, <2>9
<1>8. CASE InsertRows(c)
  BY <1>8, FreshMoves, OneCallMovesOnce DEF InsertRows
<1>9. QED
  BY <1>1, <1>2, <1>3, <1>4, <1>5, <1>6, <1>7, <1>8 DEF CallStep

LEMMA CopiesAtFirst == InventoryInit => CopiesInv
<1> SUFFICES ASSUME InventoryInit PROVE CopiesInv
  OBVIOUS
<1>1. movements = EmptyBag /\ \A c \in Call : call[c] = Fresh
  BY DEF InventoryInit
<1>2. DOMAIN movements = {}
  BY <1>1 DEF EmptyBag, SetToBag
<1>3. \A key : ~ In(movements, key)
  BY <1>2 DEF In, BagToSet
<1>4. QED
  BY <1>1, <1>2, <1>3, NoCopies, FreshMoves, FS_EmptySet DEF CopiesInv, Bounded

LEMMA CopiesInvariant ==
  ASSUME IsFiniteSet(Call), SkusApart
  PROVE  InventorySpec => []CopiesInv
<1>1. InventoryInit => CopiesInv
  BY CopiesAtFirst
<1>2. InventoryInv /\ CopiesInv /\ [InventoryNext]_inventoryVars => CopiesInv'
  <2> SUFFICES ASSUME InventoryInv, CopiesInv, [InventoryNext]_inventoryVars PROVE CopiesInv'
    OBVIOUS
  <2>0. CallsOK /\ ItemsOK /\ HistoryOK
    BY DEF InventoryInv
  <2>1. CASE UNCHANGED inventoryVars
    <3>1. call' = call /\ movements' = movements
      BY <2>1 DEF inventoryVars
    <3>2. QED
      BY <3>1 DEF CopiesInv, Bounded
  <2>2. ASSUME NEW c \in Call, NEW e \in DOMAIN OrderEvent,
               ConsumeOrderEvent(c, e, OrderEvent[e].type, OrderEvent[e].actions)
        PROVE  CopiesInv'
    BY <2>0, <2>2, BeginMovesOnce DEF ConsumeOrderEvent, SkusApart
  <2>3. ASSUME NEW c \in Call, NEW r \in Request, ReceiveStock(c, r) \/ AdjustStock(c, r)
        PROVE  CopiesInv'
    <3>1. PICK type : Begin(c, r, type, StockRequest[r].actions)
      BY <2>3 DEF ReceiveStock, AdjustStock
    <3>2. SkuOnce(StockRequest[r].actions)
      BY DEF SkusApart
    <3>3. QED
      BY <2>0, <3>1, <3>2, BeginMovesOnce
  <2>4. ASSUME NEW c \in Call, CallStep(c)
        PROVE  CopiesInv'
    BY <2>0, <2>4, CallStepMovesOnce
  <2>5. QED
    BY <2>1, <2>2, <2>3, <2>4 DEF InventoryNext, StockRequestStep
<1>3. QED
  BY <1>1, <1>2, InventoryInvariant, PTL DEF InventorySpec

\* However often events come again: when none asks twice for the same item, a movement
\* is never recorded more often than there are calls that can overlap.
THEOREM DuplicatesBoundedByOverlapAlways ==
  ASSUME IsFiniteSet(Call), SkusApart
  PROVE  InventorySpec => []DuplicatesBoundedByOverlap
<1>1. InventoryInv /\ CopiesInv => DuplicatesBoundedByOverlap
  <2> SUFFICES ASSUME InventoryInv, CopiesInv, NEW m \in BagToSet(movements)
               PROVE  Copies(m) <= Cardinality(Call)
    BY DEF DuplicatesBoundedByOverlap
  <2>1. /\ IsHistory(movements) /\ IsFiniteSet(DOMAIN movements) /\ m \in Movement
    BY DEF InventoryInv, HistoryOK, CopiesInv, IsHistory
  <2>2. Copies(m) = TimesIn(movements, m) /\ TimesIn(movements, m) \in Int
    BY <2>1, CopiesCounted, CopiesOneMore
  <2>3. Stagers(call, m) \subseteq Call
    BY DEF Stagers
  <2>4. Cardinality(Stagers(call, m)) \in Nat /\ Cardinality(Call) \in Nat
    BY <2>3, FS_Subset, FS_CardinalityType
  <2>5. Bounded(call, movements, m)
    BY <2>1 DEF CopiesInv
  <2>6. QED
    BY <2>2, <2>4, <2>5 DEF Bounded
<1>2. QED
  BY <1>1, CopiesInvariant, InventoryInvariant, PTL

-----------------------------------------------------------------------------
(***************************************************************************)
(* What the balances add up to when calls do not overlap.                  *)
(***************************************************************************)
Side == {"onHand", "reserved"}

ChangeOf(m) ==
  [onHand |-> OnHandChange(m.type, m.quantity), reserved |-> ReservedChange(m.type, m.quantity)]

Changes(x) == [m \in Movement |-> ChangeOf(m)[x]]

Of(s) == {m \in Movement : m.sku = s}

Start(s) == [onHand |-> IF s \in DOMAIN Opening THEN Opening[s] ELSE 0, reserved |-> 0]

\* The side x of the balance of s that a history of movements leads to.
Expected(history, s, x) == Start(s)[x] + Weight(history, Changes(x), Of(s))

LEMMA ChangeTyped ==
  ASSUME NEW m \in Movement, NEW x \in Side
  PROVE  /\ ChangeOf(m)[x] \in Int /\ Changes(x)[m] = ChangeOf(m)[x]
<1>1. m.quantity \in Int /\ m.type \in MovementType
  BY DEF Movement
<1>2. OnHandChange(m.type, m.quantity) \in Int /\ ReservedChange(m.type, m.quantity) \in Int
  BY <1>1 DEF OnHandChange, ReservedChange
<1>3. QED
  BY <1>2 DEF ChangeOf, Changes, Side

LEMMA StartTyped ==
  ASSUME NEW s \in Sku, NEW x \in Side
  PROVE  Start(s) \in Balance /\ Start(s)[x] \in Int
BY InventoryAssumption DEF Start, Balance, Side

LEMMA ExpectedOneMore ==
  ASSUME NEW history, IsHistory(history), IsFiniteSet(DOMAIN history), NEW m \in Movement,
         NEW s \in Sku, NEW x \in Side
  PROVE  /\ Expected(history, s, x) \in Int
         /\ Expected(history (+) SetToBag({m}), s, x) =
              Expected(history, s, x) + (IF m.sku = s THEN ChangeOf(m)[x] ELSE 0)
<1> DEFINE w == Changes(x)
           K == Of(s)
<1>1. IsABag(history) /\ IntOn(w, K)
  BY ChangeTyped DEF IsHistory, Of, IntOn
<1>2. m \in K <=> m.sku = s
  BY DEF Of
<1>3. Start(s)[x] \in Int /\ w[m] = ChangeOf(m)[x] /\ ChangeOf(m)[x] \in Int
  BY StartTyped, ChangeTyped
<1>4. \A h : Expected(h, s, x) = Start(s)[x] + Weight(h, w, K)
  BY DEF Expected
<1> HIDE DEF w, K
<1>5. Weight(history, w, K) \in Int
  BY <1>1, WeightIsInt
<1>6. Weight(history (+) SetToBag({m}), w, K) =
        Weight(history, w, K) + (IF m \in K THEN w[m] ELSE 0)
  BY <1>1, WeightOneMore
<1>7. QED
  BY <1>2, <1>3, <1>4, <1>5, <1>6

LEMMA ExpectedAtFirst ==
  ASSUME NEW s \in Sku, NEW x \in Side
  PROVE  Expected(EmptyBag, s, x) = Start(s)[x]
<1>1. Of(s) \intersect DOMAIN EmptyBag = {}
  BY DEF EmptyBag, SetToBag
<1>2. Weight(EmptyBag, Changes(x), Of(s)) = 0
  BY <1>1, SumEmpty DEF Weight
<1>3. QED
  BY <1>2, StartTyped DEF Expected

LEMMA TotalCounted ==
  ASSUME IsHistory(movements), IsFiniteSet(DOMAIN movements), NEW s
  PROVE  /\ Total(s, OnHandChange) = Weight(movements, Changes("onHand"), Of(s))
         /\ Total(s, ReservedChange) = Weight(movements, Changes("reserved"), Of(s))
<1> DEFINE S == {m \in DOMAIN movements : m.sku = s}
           g(x) == [m \in S |-> movements[m] * Changes(x)[m]]
<1>1. S = Of(s) \intersect DOMAIN movements /\ IsFiniteSet(S) /\ S \subseteq Movement
  BY FS_Subset DEF IsHistory, BagToSet, Of
<1>2. \A x : Weight(movements, Changes(x), Of(s)) = SumOver(g(x), S)
  BY <1>1 DEF Weight
<1>3. \A t \in SUBSET S : t # {} => Pick(t) \in S
  BY DEF Pick
<1>4. Total(s, OnHandChange) = SumOver(g("onHand"), S)
  <2> DEFINE F(f) == f = [t \in SUBSET S |-> IF t = {} THEN 0
                ELSE movements[Pick(t)] * OnHandChange(Pick(t).type, Pick(t).quantity)
                       + f[t \ {Pick(t)}]]
  <2>1. \A t \in SUBSET S : t # {} =>
          g("onHand")[Pick(t)] = movements[Pick(t)] * OnHandChange(Pick(t).type, Pick(t).quantity)
    BY <1>1, <1>3 DEF Changes, ChangeOf
  <2> HIDE DEF g
  <2>2. \A f : F(f) <=> Sums(f, g("onHand"), SUBSET S)
    BY <2>1 DEF Sums
  <2>3. PICK e : e = (CHOOSE f : F(f))
    OBVIOUS
  <2>4. Total(s, OnHandChange) = e[S]
    BY <2>3 DEF Total, MapThenSumSet, MapThenFoldSet, Pick, BagToSet
  <2> HIDE DEF F
  <2>5. \E f : F(f)
    BY <1>1, <2>2, SumsExist
  <2>6. Sums(e, g("onHand"), SUBSET S)
    BY <2>2, <2>3, <2>5
  <2>7. PICK h : h = g("onHand")
    OBVIOUS
  <2>8. Sums(e, h, SUBSET S) /\ Agree(h, h, S) /\ S \in SUBSET S
    BY <2>6, <2>7 DEF Agree
  <2> HIDE DEF S
  <2>9. e[S] = SumOver(h, S)
    BY <1>1, <2>8, SumIs
  <2>10. QED
    BY <2>4, <2>7, <2>9
<1>5. Total(s, ReservedChange) = SumOver(g("reserved"), S)
  <2> DEFINE F(f) == f = [t \in SUBSET S |-> IF t = {} THEN 0
                ELSE movements[Pick(t)] * ReservedChange(Pick(t).type, Pick(t).quantity)
                       + f[t \ {Pick(t)}]]
  <2>1. \A t \in SUBSET S : t # {} =>
          g("reserved")[Pick(t)] = movements[Pick(t)] * ReservedChange(Pick(t).type, Pick(t).quantity)
    BY <1>1, <1>3 DEF Changes, ChangeOf
  <2> HIDE DEF g
  <2>2. \A f : F(f) <=> Sums(f, g("reserved"), SUBSET S)
    BY <2>1 DEF Sums
  <2>3. PICK e : e = (CHOOSE f : F(f))
    OBVIOUS
  <2>4. Total(s, ReservedChange) = e[S]
    BY <2>3 DEF Total, MapThenSumSet, MapThenFoldSet, Pick, BagToSet
  <2> HIDE DEF F
  <2>5. \E f : F(f)
    BY <1>1, <2>2, SumsExist
  <2>6. Sums(e, g("reserved"), SUBSET S)
    BY <2>2, <2>3, <2>5
  <2>7. PICK h : h = g("reserved")
    OBVIOUS
  <2>8. Sums(e, h, SUBSET S) /\ Agree(h, h, S) /\ S \in SUBSET S
    BY <2>6, <2>7 DEF Agree
  <2> HIDE DEF S
  <2>9. e[S] = SumOver(h, S)
    BY <1>1, <2>8, SumIs
  <2>10. QED
    BY <2>4, <2>7, <2>9
<1>6. QED
  BY <1>2, <1>4, <1>5

-----------------------------------------------------------------------------
(***************************************************************************)
(* What the staged mutations will make of the balance and the movements of *)
(* a sku.                                                                  *)
(***************************************************************************)
ItemFor(mutation, s) == mutation.store = "items" /\ mutation.sku = s

MoveFor(mutation, s) == IsMove(mutation) /\ mutation.value.sku = s

\* The balance b of s is v in the end.
EndsAs(staged, s, b, v) ==
  \/ v = b /\ \A n \in DOMAIN staged : ~ ItemFor(staged[n], s)
  \/ \E n \in DOMAIN staged :
       /\ ItemFor(staged[n], s) /\ v = staged[n].value
       /\ \A k \in DOMAIN staged : k > n => ~ ItemFor(staged[k], s)

\* The movement that is staged for s changes it by d.
ChangesBy(staged, s, d) ==
  \/ d = Zero /\ \A n \in DOMAIN staged : ~ MoveFor(staged[n], s)
  \/ \E n \in DOMAIN staged : MoveFor(staged[n], s) /\ d = ChangeOf(staged[n].value)

LEMMA EndsAsOne ==
  ASSUME NEW staged \in Seq(Mutation), NEW s, NEW b, NEW v, NEW w,
         EndsAs(staged, s, b, v), EndsAs(staged, s, b, w)
  PROVE  v = w
<1>1. DOMAIN staged \subseteq Nat
  OBVIOUS
<1>2. CASE \A n \in DOMAIN staged : ~ ItemFor(staged[n], s)
  BY <1>2 DEF EndsAs
<1>3. CASE \E n \in DOMAIN staged : ItemFor(staged[n], s)
  <2>1. PICK n \in DOMAIN staged :
          /\ ItemFor(staged[n], s) /\ v = staged[n].value
          /\ \A k \in DOMAIN staged : k > n => ~ ItemFor(staged[k], s)
    BY <1>3 DEF EndsAs
  <2>2. PICK m \in DOMAIN staged :
          /\ ItemFor(staged[m], s) /\ w = staged[m].value
          /\ \A k \in DOMAIN staged : k > m => ~ ItemFor(staged[k], s)
    BY <1>3 DEF EndsAs
  <2>3. ~ (n > m) /\ ~ (m > n) /\ n \in Nat /\ m \in Nat
    BY <1>1, <2>1, <2>2
  <2>4. QED
    BY <2>1, <2>2, <2>3
<1>4. QED
  BY <1>2, <1>3

LEMMA EndsAsMore ==
  ASSUME NEW staged \in Seq(Mutation), NEW m \in Mutation, NEW s, NEW b, NEW v
  PROVE  /\ ItemFor(m, s) => EndsAs(Append(staged, m), s, b, m.value)
         /\ ~ ItemFor(m, s) /\ EndsAs(staged, s, b, v) => EndsAs(Append(staged, m), s, b, v)
<1> DEFINE longer == Append(staged, m)
           last == Len(staged) + 1
<1>1. /\ DOMAIN longer = DOMAIN staged \union {last} /\ last \notin DOMAIN staged
      /\ \A n \in DOMAIN staged : longer[n] = staged[n]
      /\ longer[last] = m
  BY OneMoreStaged
<1>2. \A n \in DOMAIN longer : ~ (n > last) /\ n \in Nat
  OBVIOUS
<1> HIDE DEF longer, last
<1>3. ItemFor(m, s) => EndsAs(longer, s, b, m.value)
  BY <1>1, <1>2 DEF EndsAs
<1>4. ASSUME ~ ItemFor(m, s), EndsAs(staged, s, b, v)
      PROVE  EndsAs(longer, s, b, v)
  <2>1. CASE v = b /\ \A n \in DOMAIN staged : ~ ItemFor(staged[n], s)
    BY <1>1, <1>4, <2>1 DEF EndsAs
  <2>2. ASSUME NEW n \in DOMAIN staged, ItemFor(staged[n], s), v = staged[n].value,
               \A k \in DOMAIN staged : k > n => ~ ItemFor(staged[k], s)
        PROVE  EndsAs(longer, s, b, v)
    <3>1. n \in DOMAIN longer /\ ItemFor(longer[n], s) /\ v = longer[n].value
      BY <1>1, <2>2
    <3>2. \A k \in DOMAIN longer : k > n => ~ ItemFor(longer[k], s)
      BY <1>1, <1>4, <2>2
    <3>3. QED
      BY <3>1, <3>2 DEF EndsAs
  <2>3. QED
    BY <1>4, <2>1, <2>2 DEF EndsAs
<1>5. QED
  BY <1>3, <1>4 DEF longer

LEMMA EndsAsLess ==
  ASSUME NEW staged \in Seq(Mutation), staged # <<>>, NEW s, NEW b, NEW v, EndsAs(staged, s, b, v)
  PROVE  EndsAs(Tail(staged), s, IF ItemFor(Head(staged), s) THEN Head(staged).value ELSE b, v)
<1> DEFINE rest == Tail(staged)
           c == IF ItemFor(Head(staged), s) THEN Head(staged).value ELSE b
<1>1. /\ Head(staged) = staged[1] /\ 1 \in DOMAIN staged
      /\ DOMAIN staged \subseteq Nat \ {0} /\ DOMAIN rest \subseteq Nat \ {0}
      /\ \A i \in DOMAIN rest : i + 1 \in DOMAIN staged /\ rest[i] = staged[i + 1]
  BY OneLess
<1>2. \A n \in DOMAIN staged : n # 1 => n - 1 \in DOMAIN rest /\ rest[n - 1] = staged[n]
  BY OneLess
<1> HIDE DEF rest
<1>3. CASE v = b /\ \A n \in DOMAIN staged : ~ ItemFor(staged[n], s)
  BY <1>1, <1>3 DEF EndsAs
<1>4. ASSUME NEW n \in DOMAIN staged, ItemFor(staged[n], s), v = staged[n].value,
             \A k \in DOMAIN staged : k > n => ~ ItemFor(staged[k], s)
      PROVE  EndsAs(rest, s, c, v)
  <2>1. CASE n = 1
    <3>1. \A i \in DOMAIN rest : i \in Nat \ {0} /\ i + 1 > 1
      BY <1>1
    <3>2. \A i \in DOMAIN rest : ~ ItemFor(rest[i], s)
      BY <1>1, <1>4, <2>1, <3>1
    <3>3. c = v
      BY <1>1, <1>4, <2>1
    <3>4. QED
      BY <3>2, <3>3 DEF EndsAs
  <2>2. CASE n # 1
    <3>1. n - 1 \in DOMAIN rest /\ rest[n - 1] = staged[n]
      BY <1>2, <2>2
    <3>2. \A i \in DOMAIN rest : i > n - 1 => i + 1 > n
      BY <1>1
    <3>3. \A i \in DOMAIN rest : i > n - 1 => ~ ItemFor(rest[i], s)
      BY <1>1, <1>4, <3>2
    <3>4. QED
      BY <1>4, <3>1, <3>3 DEF EndsAs
  <2>3. QED
    BY <2>1, <2>2
<1>5. QED
  BY <1>3, <1>4 DEF EndsAs, rest

LEMMA ChangesByMore ==
  ASSUME NEW staged \in Seq(Mutation), NEW m \in Mutation, NEW s, NEW d
  PROVE  /\ MoveFor(m, s) => ChangesBy(Append(staged, m), s, ChangeOf(m.value))
         /\ ~ MoveFor(m, s) /\ ChangesBy(staged, s, d) => ChangesBy(Append(staged, m), s, d)
<1> DEFINE longer == Append(staged, m)
           last == Len(staged) + 1
<1>1. /\ DOMAIN longer = DOMAIN staged \union {last} /\ last \notin DOMAIN staged
      /\ \A n \in DOMAIN staged : longer[n] = staged[n]
      /\ longer[last] = m
  BY OneMoreStaged
<1> HIDE DEF longer, last
<1>2. MoveFor(m, s) => ChangesBy(longer, s, ChangeOf(m.value))
  BY <1>1 DEF ChangesBy
<1>3. ~ MoveFor(m, s) /\ ChangesBy(staged, s, d) => ChangesBy(longer, s, d)
  BY <1>1 DEF ChangesBy
<1>4. QED
  BY <1>2, <1>3 DEF longer

\* A call has at most one movement of a sku staged.
LEMMA OneMove ==
  ASSUME NEW to, OwnMoves(to), NEW s, NEW n \in DOMAIN to.staged, NEW k \in DOMAIN to.staged,
         MoveFor(to.staged[n], s), MoveFor(to.staged[k], s)
  PROVE  n = k
BY DEF OwnMoves, MoveFor, SameKey

LEMMA ChangesByLess ==
  ASSUME NEW to, OwnMoves(to), to.staged \in Seq(Mutation), to.staged # <<>>,
         NEW s, NEW d, ChangesBy(to.staged, s, d)
  PROVE  /\ MoveFor(Head(to.staged), s) =>
              d = ChangeOf(Head(to.staged).value) /\ ChangesBy(Tail(to.staged), s, Zero)
         /\ ~ MoveFor(Head(to.staged), s) => ChangesBy(Tail(to.staged), s, d)
<1> DEFINE staged == to.staged
           rest == Tail(staged)
<1>1. /\ Head(staged) = staged[1] /\ 1 \in DOMAIN staged
      /\ DOMAIN staged \subseteq Nat \ {0} /\ DOMAIN rest \subseteq Nat \ {0}
      /\ \A i \in DOMAIN rest : i + 1 \in DOMAIN staged /\ rest[i] = staged[i + 1]
  BY OneLess
<1>2. \A n \in DOMAIN staged : n # 1 => n - 1 \in DOMAIN rest /\ rest[n - 1] = staged[n]
  BY OneLess
<1> HIDE DEF rest
<1>3. ASSUME MoveFor(staged[1], s)
      PROVE  d = ChangeOf(staged[1].value) /\ ChangesBy(rest, s, Zero)
  <2>1. \A n \in DOMAIN staged : MoveFor(staged[n], s) => n = 1
    BY <1>1, <1>3, OneMove
  <2>2. d = ChangeOf(staged[1].value)
    BY <1>1, <1>3, <2>1 DEF ChangesBy
  <2>3. \A i \in DOMAIN rest : i + 1 # 1
    BY <1>1
  <2>4. \A i \in DOMAIN rest : ~ MoveFor(rest[i], s)
    BY <1>1, <2>1, <2>3
  <2>5. QED
    BY <2>2, <2>4 DEF ChangesBy
<1>4. ASSUME ~ MoveFor(staged[1], s)
      PROVE  ChangesBy(rest, s, d)
  <2>1. CASE d = Zero /\ \A n \in DOMAIN staged : ~ MoveFor(staged[n], s)
    BY <1>1, <2>1 DEF ChangesBy
  <2>2. ASSUME NEW n \in DOMAIN staged, MoveFor(staged[n], s), d = ChangeOf(staged[n].value)
        PROVE  ChangesBy(rest, s, d)
    <3>1. n # 1
      BY <1>4, <2>2
    <3>2. n - 1 \in DOMAIN rest /\ rest[n - 1] = staged[n]
      BY <1>2, <3>1
    <3>3. QED
      BY <2>2, <3>2 DEF ChangesBy
  <2>3. QED
    BY <2>1, <2>2 DEF ChangesBy
<1>5. QED
  BY <1>1, <1>3, <1>4 DEF rest

-----------------------------------------------------------------------------
NextMove(to) ==
  [source |-> to.source, type |-> to.type,
   sku |-> Head(to.todo).sku, quantity |-> Head(to.todo).quantity]

\* Between save and append a balance is ahead of the movements by the next one.
Applied(to, s) ==
  IF to.at = "append" /\ Head(to.todo).sku = s THEN ChangeOf(NextMove(to)) ELSE Zero

Meets(history, s, v, d, e) ==
  \A x \in Side : d[x] \in Int /\ v[x] = Expected(history, s, x) + d[x] + e[x]

\* What is staged brings the balance of s to what the movements will then add up to.
Settles(to, stock, history, s) ==
  \E v, d : /\ EndsAs(to.staged, s, stock[s], v) /\ ChangesBy(to.staged, s, d)
            /\ Meets(history, s, v, d, Applied(to, s))

AddsUp(stock, history) ==
  \A s \in Sku : \A x \in Side : stock[s][x] = Expected(history, s, x)

\* No balance is staged for a sku whose action is still to come.
Untouched(to) ==
  \A i \in DOMAIN to.todo : i > 1 \/ to.at \in {"find", "ensure"} =>
    \A n \in DOMAIN to.staged : ~ ItemFor(to.staged[n], to.todo[i].sku)

CallBalances(to, stock, history) ==
  /\ \A s \in Sku : Settles(to, stock, history, s)
  /\ to.at # "commit" => AddsUp(stock, history)
  /\ to.at \in {"ensure", "apply", "append"} => ~ In(history, NextMove(to))
  /\ Untouched(to)
  /\ to.at = "apply" =>
       EndsAs(to.staged, Head(to.todo).sku, stock[Head(to.todo).sku], to.read)

NewItemsAreZero == \A s \in Sku \ existing : items[s] = Zero

BalanceInv == NewItemsAreZero /\ \A c \in Call : CallBalances(call[c], items, movements)

OneCallOnly == \A c, d \in Call : c = d

LEMMA NothingStaged ==
  ASSUME NEW stock, NEW history, AddsUp(stock, history), NEW to, to.staged = <<>>,
         to.at \in {"idle", "find"}, \A s \in Sku : \A x \in Side : Expected(history, s, x) \in Int
  PROVE  CallBalances(to, stock, history)
<1>1. DOMAIN to.staged = {}
  OBVIOUS
<1>2. ASSUME NEW s \in Sku PROVE Settles(to, stock, history, s)
  <2>1. EndsAs(to.staged, s, stock[s], stock[s]) /\ ChangesBy(to.staged, s, Zero)
    BY <1>1 DEF EndsAs, ChangesBy
  <2>2. Applied(to, s) = Zero
    BY DEF Applied
  <2>3. \A x \in Side : Zero[x] = 0
    BY DEF Side, Zero
  <2>4. \A x \in Side : stock[s][x] = Expected(history, s, x) /\ Expected(history, s, x) \in Int
    BY DEF AddsUp
  <2>5. Meets(history, s, stock[s], Zero, Applied(to, s))
    BY <2>2, <2>3, <2>4 DEF Meets
  <2>6. QED
    BY <2>1, <2>5 DEF Settles
<1>3. Untouched(to)
  BY <1>1 DEF Untouched
<1>4. QED
  BY <1>2, <1>3 DEF CallBalances

\* At the end of a commit nothing is left to be settled.
LEMMA AllSettled ==
  ASSUME NEW stock, NEW history, NEW to, CallBalances(to, stock, history), to.staged = <<>>,
         to.at # "append", \A s \in Sku : \A x \in Side : Expected(history, s, x) \in Int
  PROVE  AddsUp(stock, history)
<1> SUFFICES ASSUME NEW s \in Sku, NEW x \in Side
             PROVE  stock[s][x] = Expected(history, s, x)
  BY DEF AddsUp
<1>1. PICK v, d : /\ EndsAs(to.staged, s, stock[s], v) /\ ChangesBy(to.staged, s, d)
                  /\ v[x] = Expected(history, s, x) + d[x] + Applied(to, s)[x]
  BY DEF CallBalances, Settles, Meets
<1>2. DOMAIN to.staged = {}
  OBVIOUS
<1>3. v = stock[s] /\ d = Zero /\ Applied(to, s) = Zero
  BY <1>1, <1>2 DEF EndsAs, ChangesBy, Applied
<1>4. Zero[x] = 0 /\ Expected(history, s, x) \in Int
  BY DEF Side, Zero
<1>5. QED
  BY <1>1, <1>3, <1>4

LEMMA ExpectedTyped ==
  ASSUME NEW history, IsHistory(history), IsFiniteSet(DOMAIN history), NEW s \in Sku, NEW x \in Side
  PROVE  Expected(history, s, x) \in Int
<1> DEFINE w == Changes(x)
           K == Of(s)
<1>1. IsABag(history) /\ IntOn(w, K)
  BY ChangeTyped DEF IsHistory, Of, IntOn
<1>2. Start(s)[x] \in Int /\ Expected(history, s, x) = Start(s)[x] + Weight(history, w, K)
  BY StartTyped DEF Expected
<1> HIDE DEF w, K
<1>3. Weight(history, w, K) \in Int
  BY <1>1, WeightIsInt
<1>4. QED
  BY <1>2, <1>3

LEMMA OneCallBalances ==
  ASSUME CallsOK, OneCallOnly, NEW c \in Call, NEW to, call' = [call EXCEPT ![c] = to],
         NewItemsAreZero', CallBalances(to, items', movements')
  PROVE  BalanceInv'
<1>1. \A d \in Call : call'[d] = to
  BY DEF CallsOK, OneCallOnly
<1>2. QED
  BY <1>1 DEF BalanceInv

LEMMA BeginBalances ==
  ASSUME CallsOK, HistoryOK, CopiesInv, BalanceInv, OneCallOnly, NEW c \in Call,
         NEW source, NEW type, NEW actions, Begin(c, source, type, actions)
  PROVE  BalanceInv'
<1> DEFINE to == [Fresh EXCEPT !.at = "find", !.source = source,
                               !.type = type, !.todo = actions]
<1>1. to.at = "find" /\ to.staged = <<>>
  BY FreshOK DEF CallState
<1>2. /\ call' = [call EXCEPT ![c] = to] /\ movements' = movements /\ items' = items
      /\ existing' = existing /\ call[c].at = "idle"
  BY DEF Begin, stores, At
<1> HIDE DEF to
<1>3. \A s \in Sku : \A x \in Side : Expected(movements, s, x) \in Int
  BY ExpectedTyped DEF HistoryOK, CopiesInv
<1>4. AddsUp(items, movements)
  BY <1>2 DEF BalanceInv, CallBalances
<1>5. CallBalances(to, items, movements)
  BY <1>1, <1>3, <1>4, NothingStaged
<1>6. NewItemsAreZero'
  BY <1>2 DEF BalanceInv, NewItemsAreZero
<1>7. QED
  BY <1>2, <1>5, <1>6, OneCallBalances

LEMMA AppliedElsewhere ==
  ASSUME NEW to, NEW s, to.at # "append" \/ Head(to.todo).sku # s
  PROVE  Applied(to, s) = Zero
BY DEF Applied

\* One more item is staged for a sku, and no movement.
LEMMA ItemStaged ==
  ASSUME NEW stock, NEW history, NEW old, NEW to, old.staged \in Seq(Mutation),
         NEW m \in Mutation, m.store = "items", to.staged = Append(old.staged, m),
         NEW s, Settles(old, stock, history, s),
         ~ ItemFor(m, s), Applied(to, s) = Applied(old, s)
  PROVE  Settles(to, stock, history, s)
<1>1. PICK v, d : /\ EndsAs(old.staged, s, stock[s], v) /\ ChangesBy(old.staged, s, d)
                  /\ Meets(history, s, v, d, Applied(old, s))
  BY DEF Settles
<1>2. ~ MoveFor(m, s)
  BY DEF MoveFor, IsMove
<1>3. EndsAs(to.staged, s, stock[s], v)
  BY <1>1, EndsAsMore
<1>4. ChangesBy(to.staged, s, d)
  BY <1>1, <1>2, ChangesByMore
<1>5. QED
  BY <1>1, <1>3, <1>4 DEF Settles

\* It is saved: only the skus of the actions behind it are still untouched.
LEMMA SavedNext ==
  ASSUME NEW old, Untouched(old), OwnMoves(old), old.todo \in Seq(Action), old.todo # <<>>,
         old.staged \in Seq(Mutation), NEW m \in Mutation, m.store = "items",
         m.sku = Head(old.todo).sku, NEW to, to.todo = old.todo,
         to.staged = old.staged \/ to.staged = Append(old.staged, m),
         to.at \in {"apply", "append"}
  PROVE  Untouched(to)
<1> SUFFICES ASSUME NEW i \in DOMAIN old.todo, i > 1, NEW n \in DOMAIN to.staged
             PROVE  ~ ItemFor(to.staged[n], old.todo[i].sku)
  BY DEF Untouched
<1>1. 1 \in DOMAIN old.todo /\ Head(old.todo) = old.todo[1] /\ i \in Nat
  BY OneLess
<1>2. ~ ItemFor(m, old.todo[i].sku)
  <2>1. old.todo[i].sku # old.todo[1].sku
    BY <1>1 DEF OwnMoves, SkuOnce
  <2>2. QED
    BY <1>1, <2>1 DEF ItemFor
<1>3. \A k \in DOMAIN old.staged : ~ ItemFor(old.staged[k], old.todo[i].sku)
  BY DEF Untouched
<1>4. CASE to.staged = old.staged
  BY <1>3, <1>4
<1>5. CASE to.staged = Append(old.staged, m)
  <2>1. /\ DOMAIN to.staged = DOMAIN old.staged \union {Len(old.staged) + 1}
        /\ \A k \in DOMAIN old.staged : to.staged[k] = old.staged[k]
        /\ to.staged[Len(old.staged) + 1] = m
    BY <1>5, OneMoreStaged
  <2>2. QED
    BY <1>2, <1>3, <2>1
<1>6. QED
  BY <1>4, <1>5

\* An item is committed: the balance it is for becomes what it holds.
LEMMA ItemCommitted ==
  ASSUME NEW stock, NEW history, NEW old, NEW to, OwnMoves(old),
         old.staged \in Seq(Mutation), old.staged # <<>>, to.staged = Tail(old.staged),
         Head(old.staged).store = "items", old.at = "commit", to.at = "commit",
         NEW after, NEW s, Settles(old, stock, history, s),
         after[s] = IF ItemFor(Head(old.staged), s) THEN Head(old.staged).value ELSE stock[s]
  PROVE  Settles(to, after, history, s)
<1>1. PICK v, d : /\ EndsAs(old.staged, s, stock[s], v) /\ ChangesBy(old.staged, s, d)
                  /\ Meets(history, s, v, d, Applied(old, s))
  BY DEF Settles
<1>2. ~ MoveFor(Head(old.staged), s)
  BY DEF MoveFor, IsMove
<1>3. EndsAs(to.staged, s, after[s], v)
  BY <1>1, EndsAsLess
<1>4. ChangesBy(to.staged, s, d)
  BY <1>1, <1>2, ChangesByLess
<1>5. Applied(old, s) = Zero /\ Applied(to, s) = Zero
  BY DEF Applied
<1>6. QED
  BY <1>1, <1>3, <1>4, <1>5 DEF Settles

\* A movement is recorded: the history catches up with the balance.
LEMMA MoveCommitted ==
  ASSUME NEW stock, NEW history, NEW old, NEW to, OwnMoves(old),
         IsHistory(history), IsFiniteSet(DOMAIN history),
         old.staged \in Seq(Mutation), old.staged # <<>>, to.staged = Tail(old.staged),
         Head(old.staged).store # "items", old.at = "commit", to.at = "commit",
         NEW s \in Sku, Settles(old, stock, history, s)
  PROVE  Settles(to, stock, history (+) SetToBag({Head(old.staged).value}), s)
<1> DEFINE first == Head(old.staged)
           m == first.value
           longer == history (+) SetToBag({m})
<1>1. PICK v, d : /\ EndsAs(old.staged, s, stock[s], v) /\ ChangesBy(old.staged, s, d)
                  /\ Meets(history, s, v, d, Applied(old, s))
  BY DEF Settles
<1>2. first \in Mutation /\ IsMove(first) /\ m \in Movement
  <2>1. first \in Mutation
    OBVIOUS
  <2>2. QED
    BY <2>1 DEF Mutation, IsMove
<1>3. EndsAs(to.staged, s, stock[s], v)
  <2>1. ~ ItemFor(first, s)
    BY DEF ItemFor
  <2>2. QED
    BY <1>1, <2>1, EndsAsLess
<1>4. Applied(old, s) = Zero /\ Applied(to, s) = Zero
  BY DEF Applied
<1>5. \A x \in Side : Zero[x] = 0
  BY DEF Side, Zero
<1>6. \A x \in Side :
        /\ Expected(history, s, x) \in Int
        /\ Expected(longer, s, x) = Expected(history, s, x) + (IF m.sku = s THEN ChangeOf(m)[x] ELSE 0)
        /\ ChangeOf(m)[x] \in Int
  BY <1>2, ExpectedOneMore, ChangeTyped
<1> HIDE DEF longer
<1>7. CASE MoveFor(first, s)
  <2>1. d = ChangeOf(m) /\ ChangesBy(to.staged, s, Zero)
    BY <1>1, <1>7, ChangesByLess
  <2>2. m.sku = s
    BY <1>7 DEF MoveFor
  <2>3. Meets(longer, s, v, Zero, Applied(to, s))
    BY <1>1, <1>4, <1>5, <1>6, <2>1, <2>2 DEF Meets
  <2>4. Settles(to, stock, longer, s)
    BY <1>3, <2>1, <2>3 DEF Settles
  <2>5. QED
    BY <2>4 DEF longer
<1>8. CASE ~ MoveFor(first, s)
  <2>1. ChangesBy(to.staged, s, d)
    BY <1>1, <1>8, ChangesByLess
  <2>2. m.sku # s
    BY <1>2, <1>8 DEF MoveFor
  <2>3. Meets(longer, s, v, d, Applied(to, s))
    BY <1>1, <1>4, <1>5, <1>6, <2>1, <2>2 DEF Meets
  <2>4. Settles(to, stock, longer, s)
    BY <1>3, <2>1, <2>3 DEF Settles
  <2>5. QED
    BY <2>4 DEF longer
<1>9. QED
  BY <1>7, <1>8

\* ApplyAndSave: the balance that is saved is ahead by the movement to be appended.
LEMMA SaveSettles ==
  ASSUME NEW stock, NEW history, NEW old, NEW to, old.staged \in Seq(Mutation),
         NEW m \in Mutation, m.store = "items", m.sku = Head(old.todo).sku,
         m.value = Moved(old.read, old.type, Head(old.todo).quantity),
         Head(old.todo).sku \in Sku, Head(old.todo).quantity \in Int, old.type \in MovementType,
         to.staged = Append(old.staged, m), to.todo = old.todo,
         to.type = old.type, to.source = old.source,
         old.at = "apply", to.at = "append", CallBalances(old, stock, history),
         \A s \in Sku : \A x \in Side : Expected(history, s, x) \in Int,
         NEW s \in Sku
  PROVE  Settles(to, stock, history, s)
<1>1. Settles(old, stock, history, s)
  BY DEF CallBalances
<1>2. CASE m.sku # s
  <2>1. Applied(to, s) = Applied(old, s)
    BY <1>2 DEF Applied
  <2>2. ~ ItemFor(m, s)
    BY <1>2 DEF ItemFor
  <2>3. QED
    BY <1>1, <2>1, <2>2, ItemStaged
<1>3. CASE m.sku = s
  <2>1. PICK v, d : /\ EndsAs(old.staged, s, stock[s], v) /\ ChangesBy(old.staged, s, d)
                    /\ Meets(history, s, v, d, Applied(old, s))
    BY <1>1 DEF Settles
  <2>2. EndsAs(old.staged, s, stock[s], old.read)
    BY <1>3 DEF CallBalances
  <2>3. v = old.read
    BY <2>1, <2>2, EndsAsOne
  <2>4. EndsAs(to.staged, s, stock[s], m.value)
    BY <1>3, EndsAsMore DEF ItemFor
  <2>5. ~ MoveFor(m, s)
    BY DEF MoveFor, IsMove
  <2>6. ChangesBy(to.staged, s, d)
    BY <2>1, <2>5, ChangesByMore
  <2>7. Applied(old, s) = Zero /\ Applied(to, s) = ChangeOf(NextMove(to))
    BY <1>3 DEF Applied
  <2>8. \A x \in Side : Zero[x] = 0
    BY DEF Side, Zero
  <2>9. \A x \in Side : /\ ChangeOf(NextMove(to))[x] \in Int
                        /\ m.value[x] = old.read[x] + ChangeOf(NextMove(to))[x]
    BY DEF Moved, ChangeOf, NextMove, OnHandChange, ReservedChange, MovementType,
           OrderMovement, Side
  <2>10. \A x \in Side : Expected(history, s, x) \in Int
    OBVIOUS
  <2>11. Meets(history, s, m.value, d, Applied(to, s))
    <3> SUFFICES ASSUME NEW x \in Side
                 PROVE  d[x] \in Int
                        /\ m.value[x] = Expected(history, s, x) + d[x] + ChangeOf(NextMove(to))[x]
      BY <2>7 DEF Meets
    <3>1. d[x] \in Int /\ old.read[x] = Expected(history, s, x) + d[x] + 0
      BY <2>1, <2>3, <2>7, <2>8 DEF Meets
    <3>2. QED
      BY <2>9, <2>10, <3>1
  <2>12. QED
    BY <2>4, <2>6, <2>11 DEF Settles
<1>4. QED
  BY <1>2, <1>3

\* AppendAndPublish: the movement that was ahead is staged.
LEMMA AppendSettles ==
  ASSUME NEW stock, NEW history, NEW old, NEW to, old.staged \in Seq(Mutation),
         old.todo \in Seq(Action), old.todo # <<>>, OwnMoves(old),
         NEW m \in Mutation, IsMove(m), m.value = NextMove(old),
         to.staged = Append(old.staged, m), old.at = "append", to.at = "find",
         NEW s \in Sku, Settles(old, stock, history, s),
         \A x \in Side : Expected(history, s, x) \in Int
  PROVE  Settles(to, stock, history, s)
<1>1. PICK v, d : /\ EndsAs(old.staged, s, stock[s], v) /\ ChangesBy(old.staged, s, d)
                  /\ Meets(history, s, v, d, Applied(old, s))
  BY DEF Settles
<1>2. ~ ItemFor(m, s)
  BY DEF ItemFor, IsMove
<1>3. EndsAs(to.staged, s, stock[s], v)
  BY <1>1, <1>2, EndsAsMore
<1>4. Applied(to, s) = Zero
  BY DEF Applied
<1>5. m.value.sku = Head(old.todo).sku
  BY DEF NextMove
<1>6. CASE Head(old.todo).sku = s
  <2>1. 1 \in DOMAIN old.todo /\ old.todo[1].sku = s
    BY <1>6, OneLess
  <2>2. \A n \in DOMAIN old.staged : ~ MoveFor(old.staged[n], s)
    BY <2>1 DEF OwnMoves, MoveFor
  <2>3. d = Zero
    BY <1>1, <2>2 DEF ChangesBy
  <2>4. Applied(old, s) = ChangeOf(m.value)
    BY <1>6 DEF Applied
  <2>5. ChangesBy(to.staged, s, ChangeOf(m.value))
    BY <1>5, <1>6, ChangesByMore DEF MoveFor
  <2>6. \A x \in Side : ChangeOf(m.value)[x] \in Int
    <3>1. m.value \in Movement
      BY DEF IsMove, Mutation
    <3>2. QED
      BY <3>1, ChangeTyped
  <2>7. Zero.onHand = 0 /\ Zero.reserved = 0
    BY DEF Zero
  <2>8. \A x \in Side : Zero[x] = 0
    BY <2>7 DEF Side
  <2>9. Meets(history, s, v, ChangeOf(m.value), Applied(to, s))
    <3> SUFFICES ASSUME NEW x \in Side
                 PROVE  v[x] = Expected(history, s, x) + ChangeOf(m.value)[x] + Zero[x]
      BY <1>4, <2>6 DEF Meets
    <3>1. v[x] = Expected(history, s, x) + 0 + ChangeOf(m.value)[x]
      BY <1>1, <2>3, <2>4, <2>8 DEF Meets
    <3>2. QED
      BY <2>6, <2>8, <3>1
  <2>10. QED
    BY <1>3, <2>5, <2>9 DEF Settles
<1>7. CASE Head(old.todo).sku # s
  <2>1. ChangesBy(to.staged, s, d)
    BY <1>1, <1>5, <1>7, ChangesByMore DEF MoveFor
  <2>2. Applied(old, s) = Zero
    BY <1>7 DEF Applied
  <2>3. QED
    BY <1>1, <1>3, <1>4, <2>1, <2>2 DEF Settles
<1>8. QED
  BY <1>6, <1>7

\* EnsureItem for a new sku: its balance is zero, before and after.
LEMMA NewItemSettles ==
  ASSUME NEW stock, NEW history, NEW old, NEW to, old.staged \in Seq(Mutation),
         old.todo \in Seq(Action), old.todo # <<>>, Untouched(old),
         NEW m \in Mutation, m.store = "items", m.value = Zero, m.sku = Head(old.todo).sku,
         stock[m.sku] = Zero, to.staged = Append(old.staged, m),
         old.at = "ensure", to.at = "apply",
         NEW s \in Sku, Settles(old, stock, history, s)
  PROVE  Settles(to, stock, history, s)
<1>1. Applied(old, s) = Zero /\ Applied(to, s) = Zero
  BY DEF Applied
<1>2. CASE m.sku # s
  BY <1>1, <1>2, ItemStaged DEF ItemFor
<1>3. CASE m.sku = s
  <2>1. PICK v, d : /\ EndsAs(old.staged, s, stock[s], v) /\ ChangesBy(old.staged, s, d)
                    /\ Meets(history, s, v, d, Applied(old, s))
    BY DEF Settles
  <2>2. v = Zero
    <3>1. s = Head(old.todo).sku /\ stock[s] = Zero
      BY <1>3
    <3>2. PICK todo, b, staged : todo = old.todo /\ b = stock[s] /\ staged = old.staged
      OBVIOUS
    <3>3. \A n \in DOMAIN staged : ~ ItemFor(staged[n], s)
      <4>1. 1 \in DOMAIN todo /\ Head(todo) = todo[1]
        BY <3>2, OneLess
      <4>2. QED
        BY <3>1, <3>2, <4>1 DEF Untouched
    <3>4. EndsAs(staged, s, b, v)
      BY <2>1, <3>2
    <3>5. QED
      BY <3>1, <3>2, <3>3, <3>4 DEF EndsAs
  <2>3. EndsAs(to.staged, s, stock[s], v)
    BY <1>3, <2>2, EndsAsMore DEF ItemFor
  <2>4. ~ MoveFor(m, s)
    BY DEF MoveFor, IsMove
  <2>5. ChangesBy(to.staged, s, d)
    BY <2>1, <2>4, ChangesByMore
  <2>6. QED
    BY <1>1, <2>1, <2>3, <2>5 DEF Settles
<1>4. QED
  BY <1>2, <1>3

\* What comes behind the next action stays untouched when it is done with.
LEMMA NextDone ==
  ASSUME NEW old, Untouched(old), old.todo \in Seq(Action), old.todo # <<>>,
         old.staged \in Seq(Mutation),
         NEW to, to.todo = Tail(old.todo),
         to.staged = old.staged
           \/ \E m \in Mutation : IsMove(m) /\ to.staged = Append(old.staged, m)
  PROVE  Untouched(to)
<1> SUFFICES ASSUME NEW i \in DOMAIN to.todo, NEW n \in DOMAIN to.staged
             PROVE  ~ ItemFor(to.staged[n], to.todo[i].sku)
  BY DEF Untouched
<1>1. /\ i \in Nat \ {0} /\ i + 1 \in DOMAIN old.todo /\ to.todo[i] = old.todo[i + 1]
  BY OneLess
<1>2. \A k \in DOMAIN old.staged : ~ ItemFor(old.staged[k], to.todo[i].sku)
  BY <1>1 DEF Untouched
<1>3. CASE to.staged = old.staged
  BY <1>2, <1>3
<1>4. ASSUME NEW m \in Mutation, IsMove(m), to.staged = Append(old.staged, m)
      PROVE  ~ ItemFor(to.staged[n], to.todo[i].sku)
  <2>1. /\ DOMAIN to.staged = DOMAIN old.staged \union {Len(old.staged) + 1}
        /\ \A k \in DOMAIN old.staged : to.staged[k] = old.staged[k]
        /\ to.staged[Len(old.staged) + 1] = m
    BY <1>4, OneMoreStaged
  <2>2. QED
    BY <1>2, <1>4, <2>1 DEF ItemFor, IsMove
<1>5. QED
  BY <1>3, <1>4

LEMMA CallStepBalances ==
  ASSUME CallsOK, ItemsOK, HistoryOK, CopiesInv, BalanceInv, OneCallOnly,
         NEW c \in Call, CallStep(c)
  PROVE  BalanceInv'
<1> DEFINE old == call[c]
<1>0. /\ old \in CallState /\ CallInv(c) /\ OwnMoves(old)
      /\ old.todo \in Seq(Action) /\ old.staged \in Seq(Mutation)
      /\ old.type \in MovementType /\ old.source \in Source
  BY DEF CallsOK, CallState, CopiesInv
<1>i. IsHistory(movements) /\ IsFiniteSet(DOMAIN movements)
  BY DEF HistoryOK, CopiesInv
<1>x. \A s \in Sku : \A x \in Side : Expected(movements, s, x) \in Int
  BY <1>i, ExpectedTyped
<1>b. CallBalances(old, items, movements) /\ NewItemsAreZero
  BY DEF BalanceInv
<1>s. /\ \A s \in Sku : Settles(old, items, movements, s)
      /\ old.at # "commit" => AddsUp(items, movements)
      /\ Untouched(old)
  BY <1>b DEF CallBalances
\* The stores are left alone.
<1>a. ASSUME NEW to, call' = [call EXCEPT ![c] = to], UNCHANGED stores,
             CallBalances(to, items, movements)
      PROVE  BalanceInv'
  <2>1. items' = items /\ movements' = movements /\ existing' = existing
    BY <1>a DEF stores
  <2>2. NewItemsAreZero'
    BY <1>b, <2>1 DEF NewItemsAreZero
  <2>3. QED
    BY <1>a, <2>1, <2>2, OneCallBalances
<1>1. CASE FindMovement(c)
  <2>1. old.at = "find" /\ old.todo # <<>> /\ UNCHANGED stores
    BY <1>1 DEF FindMovement, At
  <2>2. CASE Recorded(MovementOf(c))
    <3> DEFINE to == [old EXCEPT !.todo = Tail(old.todo)]
    <3>1. call' = [call EXCEPT ![c] = to]
      BY <1>1, <2>2 DEF FindMovement
    <3>2. /\ to.at = "find" /\ to.staged = old.staged /\ to.todo = Tail(old.todo)
      BY <1>0, <2>1 DEF CallState
    <3> HIDE DEF to
    <3>3. Untouched(to)
      BY <1>0, <1>s, <2>1, <3>2, NextDone
    <3>4. ASSUME NEW s \in Sku PROVE Settles(to, items, movements, s)
      <4>1. Settles(old, items, movements, s)
        BY <1>s
      <4>2. Applied(to, s) = Applied(old, s)
        BY <2>1, <3>2 DEF Applied
      <4>3. QED
        BY <3>2, <4>1, <4>2 DEF Settles
    <3>5. CallBalances(to, items, movements)
      BY <1>s, <2>1, <3>2, <3>3, <3>4 DEF CallBalances
    <3>6. QED
      BY <1>a, <2>1, <3>1, <3>5
  <2>3. CASE ~ Recorded(MovementOf(c))
    <3> DEFINE to == [old EXCEPT !.at = "ensure"]
    <3>1. call' = [call EXCEPT ![c] = to]
      BY <1>1, <2>3 DEF FindMovement
    <3>2. /\ to.at = "ensure" /\ to.staged = old.staged /\ to.todo = old.todo
          /\ to.source = old.source /\ to.type = old.type
      BY <1>0, <2>1 DEF CallState
    <3> HIDE DEF to
    <3>3. Untouched(to)
      BY <1>s, <2>1, <3>2 DEF Untouched
    <3>4. ASSUME NEW s \in Sku PROVE Settles(to, items, movements, s)
      <4>1. Settles(old, items, movements, s)
        BY <1>s
      <4>2. Applied(to, s) = Applied(old, s)
        BY <2>1, <3>2 DEF Applied
      <4>3. QED
        BY <3>2, <4>1, <4>2 DEF Settles
    <3>5. ~ In(movements, NextMove(to))
      <4>1. NextMove(to) = MovementOf(c)
        BY <3>2 DEF NextMove, MovementOf, ActionOf
      <4>2. QED
        BY <2>3, <4>1 DEF Recorded, In
    <3>6. CallBalances(to, items, movements)
      BY <1>s, <2>1, <3>2, <3>3, <3>4, <3>5 DEF CallBalances
    <3>7. QED
      BY <1>a, <2>1, <3>1, <3>6
  <2>4. QED
    BY <2>2, <2>3
<1>2. CASE EnsureItem(c)
  <2> DEFINE s == ActionOf(c).sku
             zero == [store |-> "items", sku |-> s, value |-> Zero]
             read == IF s \in existing THEN items[s] ELSE Zero
             staged == IF s \in existing THEN old.staged ELSE Append(old.staged, zero)
             to == [old EXCEPT !.at = "apply", !.read = read, !.staged = staged]
  <2>1. old.at = "ensure" /\ old.todo # <<>> /\ UNCHANGED stores
    BY <1>0, <1>2 DEF EnsureItem, At, CallInv
  <2>2. call' = [call EXCEPT ![c] = to]
    BY <1>2 DEF EnsureItem
  <2>3. s \in Sku /\ s = Head(old.todo).sku
    BY <2>1, ActionTyped DEF Action, ActionOf
  <2>4. zero \in Mutation /\ zero.store = "items" /\ zero.sku = s /\ zero.value = Zero
    BY <2>3 DEF Mutation, Zero, Balance
  <2>5. /\ to.at = "apply" /\ to.staged = staged /\ to.todo = old.todo /\ to.read = read
        /\ to.source = old.source /\ to.type = old.type
    BY <1>0 DEF CallState
  <2>6. read = items[s]
    BY <1>b, <2>3 DEF NewItemsAreZero
  <2>7. staged = old.staged \/ (staged = Append(old.staged, zero) /\ items[s] = Zero)
    BY <1>b, <2>3 DEF NewItemsAreZero
  <2> HIDE DEF s, zero, read, staged, to
  <2>8. Untouched(to)
    <3>1. to.staged = old.staged \/ to.staged = Append(old.staged, zero)
      BY <2>5, <2>7
    <3>2. QED
      BY <1>0, <1>s, <2>1, <2>3, <2>4, <2>5, <3>1, SavedNext
  <2>9. ASSUME NEW t \in Sku PROVE Settles(to, items, movements, t)
    <3>1. Settles(old, items, movements, t)
      BY <1>s
    <3>2. CASE staged = old.staged
      <4>1. Applied(to, t) = Applied(old, t)
        BY <2>1, <2>5 DEF Applied
      <4>2. QED
        BY <2>5, <3>1, <3>2, <4>1 DEF Settles
    <3>3. CASE staged = Append(old.staged, zero) /\ items[s] = Zero
      BY <1>0, <1>s, <2>1, <2>3, <2>4, <2>5, <3>1, <3>3, NewItemSettles
    <3>4. QED
      BY <2>7, <3>2, <3>3
  <2>10. EndsAs(to.staged, Head(to.todo).sku, items[Head(to.todo).sku], to.read)
    <3>1. CASE staged = old.staged
      <4>1. 1 \in DOMAIN old.todo /\ Head(old.todo) = old.todo[1]
        BY <1>0, <2>1, OneLess
      <4>2. \A n \in DOMAIN old.staged : ~ ItemFor(old.staged[n], s)
        BY <1>s, <2>1, <2>3, <4>1 DEF Untouched
      <4>3. QED
        BY <2>3, <2>5, <2>6, <3>1, <4>2 DEF EndsAs
    <3>2. CASE staged = Append(old.staged, zero) /\ items[s] = Zero
      <4>1. ItemFor(zero, s)
        BY <2>4 DEF ItemFor
      <4>2. EndsAs(staged, s, items[s], zero.value)
        BY <1>0, <2>4, <3>2, <4>1, EndsAsMore
      <4>3. QED
        BY <2>3, <2>4, <2>5, <2>6, <3>2, <4>2
    <3>3. QED
      BY <2>7, <3>1, <3>2
  <2>11. ~ In(movements, NextMove(to))
    <3>1. NextMove(to) = NextMove(old)
      BY <2>5 DEF NextMove
    <3>2. QED
      BY <1>b, <2>1, <3>1 DEF CallBalances
  <2>12. CallBalances(to, items, movements)
    BY <1>s, <2>1, <2>5, <2>8, <2>9, <2>10, <2>11 DEF CallBalances
  <2>13. QED
    BY <1>a, <2>1, <2>2, <2>12
<1>3. CASE ApplyAndSave(c)
  <2> DEFINE a == ActionOf(c)
             save == [store |-> "items", sku |-> a.sku,
                      value |-> Moved(old.read, old.type, a.quantity)]
             to == [old EXCEPT !.at = "append", !.staged = Append(old.staged, save)]
  <2>1. /\ old.at = "apply" /\ Allowed(old.read, old.type, a.quantity) /\ UNCHANGED stores
        /\ old.todo # <<>>
    BY <1>0, <1>3 DEF ApplyAndSave, At, CallInv
  <2>2. call' = [call EXCEPT ![c] = to]
    BY <1>3 DEF ApplyAndSave
  <2>3. /\ a \in Action /\ Moved(old.read, old.type, a.quantity) \in Balance
        /\ a = Head(old.todo)
    BY <1>0, <2>1, ActionTyped, MovedIsGood DEF CallInv, CallState, Action, ActionOf
  <2>4. /\ save \in Mutation /\ save.store = "items" /\ save.sku = Head(old.todo).sku
        /\ save.value = Moved(old.read, old.type, Head(old.todo).quantity)
    BY <2>3 DEF Mutation, Action
  <2>5. Head(old.todo).sku \in Sku /\ Head(old.todo).quantity \in Int
    BY <2>3 DEF Action
  <2> HIDE DEF save, a
  <2>6. /\ to.at = "append" /\ to.source = old.source /\ to.type = old.type
        /\ to.staged = Append(old.staged, save) /\ to.todo = old.todo
    BY <1>0 DEF CallState
  <2> HIDE DEF to
  <2>7. Untouched(to)
    BY <1>0, <1>s, <2>1, <2>4, <2>6, SavedNext
  <2>8. ASSUME NEW t \in Sku PROVE Settles(to, items, movements, t)
    BY <1>0, <1>b, <1>x, <2>1, <2>4, <2>5, <2>6, SaveSettles
  <2>9. ~ In(movements, NextMove(to))
    <3>1. NextMove(to) = NextMove(old)
      BY <2>6 DEF NextMove
    <3>2. QED
      BY <1>b, <2>1, <3>1 DEF CallBalances
  <2>10. CallBalances(to, items, movements)
    BY <1>s, <2>1, <2>6, <2>7, <2>8, <2>9 DEF CallBalances
  <2>11. QED
    BY <1>a, <2>1, <2>2, <2>10
<1>4. CASE Refuse(c)
  <2>1. old.at = "apply" /\ call' = [call EXCEPT ![c] = Fresh] /\ UNCHANGED stores
    BY <1>4 DEF Refuse, At
  <2>2. CallBalances(Fresh, items, movements)
    BY <1>s, <1>x, <2>1, FreshOK, NothingStaged
  <2>3. QED
    BY <1>a, <2>1, <2>2
<1>5. CASE AppendAndPublish(c)
  <2> DEFINE m == MovementOf(c)
             add == [store |-> "movements", value |-> m]
             to == [old EXCEPT !.at = "find", !.staged = Append(old.staged, add),
                               !.todo = Tail(old.todo)]
  <2>1. old.at = "append" /\ old.todo # <<>> /\ UNCHANGED stores
    BY <1>0, <1>5 DEF AppendAndPublish, At, CallInv
  <2>2. m = NextMove(old) /\ m \in Movement
    BY <2>1, ActionTyped DEF MovementOf, ActionOf, NextMove
  <2>3. ~ Recorded(m)
    <3>1. ~ In(movements, m)
      BY <1>b, <2>1, <2>2 DEF CallBalances
    <3>2. QED
      BY <3>1 DEF In, Recorded
  <2>4. call' = [call EXCEPT ![c] = to]
    BY <1>5, <2>3 DEF AppendAndPublish
  <2>5. add \in Mutation /\ IsMove(add) /\ add.value = NextMove(old)
    BY <2>2 DEF Mutation, IsMove
  <2> HIDE DEF add, m
  <2>6. /\ to.at = "find" /\ to.staged = Append(old.staged, add) /\ to.todo = Tail(old.todo)
    BY <1>0 DEF CallState
  <2> HIDE DEF to
  <2>7. Untouched(to)
    BY <1>0, <1>s, <2>1, <2>5, <2>6, NextDone
  <2>8. ASSUME NEW t \in Sku PROVE Settles(to, items, movements, t)
    BY <1>0, <1>s, <1>x, <2>1, <2>5, <2>6, AppendSettles
  <2>9. CallBalances(to, items, movements)
    BY <1>s, <2>1, <2>6, <2>7, <2>8 DEF CallBalances
  <2>10. QED
    BY <1>a, <2>1, <2>4, <2>9
<1>6. CASE StartCommit(c)
  <2> DEFINE to == [old EXCEPT !.at = "commit"]
  <2>1. old.at = "find" /\ old.todo = <<>> /\ UNCHANGED stores
    BY <1>6 DEF StartCommit, At
  <2>2. call' = [call EXCEPT ![c] = to]
    BY <1>6 DEF StartCommit
  <2>3. to.at = "commit" /\ to.staged = old.staged /\ to.todo = old.todo
    BY <1>0 DEF CallState
  <2> HIDE DEF to
  <2>4. ASSUME NEW s \in Sku PROVE Settles(to, items, movements, s)
    <3>1. Settles(old, items, movements, s)
      BY <1>s
    <3>2. Applied(to, s) = Applied(old, s)
      BY <2>1, <2>3 DEF Applied
    <3>3. QED
      BY <2>3, <3>1, <3>2 DEF Settles
  <2>5. Untouched(to)
    BY <1>s, <2>1, <2>3 DEF Untouched
  <2>6. CallBalances(to, items, movements)
    BY <2>3, <2>4, <2>5 DEF CallBalances
  <2>7. QED
    BY <1>a, <2>1, <2>2, <2>6
<1>7. CASE CommitMutation(c)
  <2> DEFINE first == Head(old.staged)
             to == [old EXCEPT !.staged = Tail(old.staged)]
  <2>1. old.at = "commit" /\ old.staged # <<>> /\ first \in Mutation
    BY <1>0, <1>7 DEF CommitMutation, At
  <2>2. call' = [call EXCEPT ![c] = to]
    BY <1>7 DEF CommitMutation
  <2>3. to.at = "commit" /\ to.staged = Tail(old.staged) /\ to.todo = <<>>
    BY <1>0, <2>1 DEF CallState, OwnMoves
  <2> HIDE DEF to
  <2>4. Untouched(to)
    BY <2>3 DEF Untouched
  <2>5. CASE first.store = "items"
    <3>1. /\ items' = [items EXCEPT ![first.sku] = first.value]
          /\ existing' = existing \union {first.sku} /\ movements' = movements
      BY <1>7, <2>5 DEF CommitMutation
    <3>2. first.sku \in Sku /\ items \in [Sku -> Balance]
      BY <2>1, <2>5 DEF Mutation, ItemsOK
    <3>3. ASSUME NEW s \in Sku PROVE Settles(to, items', movements, s)
      <4>1. items'[s] = IF ItemFor(first, s) THEN first.value ELSE items[s]
        BY <2>5, <3>1, <3>2 DEF ItemFor
      <4>2. Settles(old, items, movements, s)
        BY <1>s
      <4>3. QED
        BY <1>0, <2>1, <2>3, <2>5, <4>1, <4>2, ItemCommitted
    <3>4. CallBalances(to, items', movements')
      BY <2>3, <2>4, <3>1, <3>3 DEF CallBalances
    <3>5. NewItemsAreZero'
      BY <1>b, <3>1, <3>2 DEF NewItemsAreZero
    <3>6. QED
      BY <2>2, <3>4, <3>5, OneCallBalances
  <2>6. CASE first.store # "items"
    <3>1. /\ movements' = movements (+) SetToBag({first.value})
          /\ items' = items /\ existing' = existing
      BY <1>7, <2>6 DEF CommitMutation
    <3>2. ASSUME NEW s \in Sku PROVE Settles(to, items, movements (+) SetToBag({first.value}), s)
      <4>1. Settles(old, items, movements, s)
        BY <1>s
      <4>2. QED
        BY <1>0, <1>i, <2>1, <2>3, <2>6, <4>1, MoveCommitted
    <3>3. CallBalances(to, items', movements')
      BY <2>3, <2>4, <3>1, <3>2 DEF CallBalances
    <3>4. NewItemsAreZero'
      BY <1>b, <3>1 DEF NewItemsAreZero
    <3>5. QED
      BY <2>2, <3>3, <3>4, OneCallBalances
  <2>7. QED
    BY <2>5, <2>6
<1>8. CASE InsertRows(c)
  <2>1. /\ old.at = "commit" /\ old.staged = <<>> /\ call' = [call EXCEPT ![c] = Fresh]
        /\ items' = items /\ movements' = movements /\ existing' = existing
    BY <1>8 DEF InsertRows, At
  <2>2. AddsUp(items, movements)
    BY <1>b, <1>x, <2>1, AllSettled
  <2>3. CallBalances(Fresh, items, movements)
    BY <1>x, <2>2, FreshOK, NothingStaged
  <2>4. NewItemsAreZero'
    BY <1>b, <2>1 DEF NewItemsAreZero
  <2>5. QED
    BY <2>1, <2>3, <2>4, OneCallBalances
<1>9. QED
  BY <1>1, <1>2, <1>3, <1>4, <1>5, <1>6, <1>7, <1>8 DEF CallStep

\* One call takes its next step, or starts on actions that name a sku once.
StockStep ==
  \E c \in Call :
    \/ CallStep(c)
    \/ \E source \in Source, type \in MovementType, actions \in Seq(Action) :
         SkuOnce(actions) /\ Begin(c, source, type, actions)

StockSafe == InventoryInv /\ CopiesInv /\ BalanceInv

LEMMA StockStepSafe ==
  ASSUME IsFiniteSet(Call), OneCallOnly, StockSafe, StockStep, requested' \subseteq Request
  PROVE  StockSafe'
<1>0. CallsOK /\ ItemsOK /\ HistoryOK
  BY DEF StockSafe, InventoryInv
<1>1. ASSUME NEW c \in Call, CallStep(c)
      PROVE  StockSafe'
  <2>1. CallsOK'
    BY <1>0, <1>1, CallStepCalls
  <2>2. ItemsOK' /\ HistoryOK' /\ DOMAIN pending' = Call
    BY <1>1, CallStepStores DEF StockSafe
  <2>3. CopiesInv'
    BY <1>0, <1>1, CallStepMovesOnce DEF StockSafe
  <2>4. BalanceInv'
    BY <1>0, <1>1, CallStepBalances DEF StockSafe
  <2>5. QED
    BY <2>1, <2>2, <2>3, <2>4 DEF StockSafe, InventoryInv
<1>2. ASSUME NEW c \in Call, NEW source \in Source, NEW type \in MovementType,
             NEW actions \in Seq(Action), SkuOnce(actions), Begin(c, source, type, actions)
      PROVE  StockSafe'
  <2>1. InventoryInv'
    BY <1>2, BeginStep DEF StockSafe
  <2>2. CopiesInv'
    BY <1>0, <1>2, BeginMovesOnce DEF StockSafe
  <2>3. BalanceInv'
    BY <1>0, <1>2, BeginBalances DEF StockSafe
  <2>4. QED
    BY <2>1, <2>2, <2>3 DEF StockSafe
<1>3. QED
  BY <1>1, <1>2 DEF StockStep

LEMMA StockAtFirst ==
  ASSUME InventoryInit
  PROVE  StockSafe
<1>1. /\ movements = EmptyBag /\ existing = DOMAIN Opening
      /\ items = [s \in Sku |-> Start(s)]
      /\ \A c \in Call : call[c] = Fresh
  BY DEF InventoryInit, Start
<1>2. NewItemsAreZero
  BY <1>1 DEF NewItemsAreZero, Start, Zero
<1>3. \A s \in Sku : \A x \in Side : Expected(movements, s, x) = Start(s)[x] /\ Start(s)[x] \in Int
  BY <1>1, ExpectedAtFirst, StartTyped
<1>4. AddsUp(items, movements)
  BY <1>1, <1>3 DEF AddsUp
<1>5. CallBalances(Fresh, items, movements)
  BY <1>3, <1>4, FreshOK, NothingStaged
<1>6. QED
  BY <1>1, <1>2, <1>5, InventoryInvAtFirst, CopiesAtFirst DEF StockSafe, BalanceInv

LEMMA BalanceInvariant ==
  ASSUME IsFiniteSet(Call), OneCallOnly, SkusApart
  PROVE  InventorySpec => []BalanceInv
<1>1. InventoryInit => BalanceInv
  BY StockAtFirst DEF StockSafe
<1>2. InventoryInv /\ CopiesInv /\ BalanceInv /\ [InventoryNext]_inventoryVars => BalanceInv'
  <2> SUFFICES ASSUME InventoryInv, CopiesInv, BalanceInv, [InventoryNext]_inventoryVars
               PROVE  BalanceInv'
    OBVIOUS
  <2>0. CallsOK /\ ItemsOK /\ HistoryOK
    BY DEF InventoryInv
  <2>1. CASE UNCHANGED inventoryVars
    <3>1. call' = call /\ movements' = movements /\ items' = items /\ existing' = existing
      BY <2>1 DEF inventoryVars
    <3>2. QED
      BY <3>1 DEF BalanceInv, NewItemsAreZero
  <2>2. ASSUME NEW c \in Call, NEW e \in DOMAIN OrderEvent,
               ConsumeOrderEvent(c, e, OrderEvent[e].type, OrderEvent[e].actions)
        PROVE  BalanceInv'
    BY <2>0, <2>2, BeginBalances DEF ConsumeOrderEvent
  <2>3. ASSUME NEW c \in Call, NEW r \in Request, ReceiveStock(c, r) \/ AdjustStock(c, r)
        PROVE  BalanceInv'
    <3>1. PICK type : Begin(c, r, type, StockRequest[r].actions)
      BY <2>3 DEF ReceiveStock, AdjustStock
    <3>2. QED
      BY <2>0, <3>1, BeginBalances
  <2>4. ASSUME NEW c \in Call, CallStep(c)
        PROVE  BalanceInv'
    BY <2>0, <2>4, CallStepBalances
  <2>5. QED
    BY <2>1, <2>2, <2>3, <2>4 DEF InventoryNext, StockRequestStep
<1>3. QED
  BY <1>1, <1>2, InventoryInvariant, CopiesInvariant, PTL DEF InventorySpec

\* Both sides of a balance, when no call is running.
LEMMA BalanceAtRest ==
  ASSUME InventoryInv, CopiesInv, BalanceInv, Call # {}, AtRest, NEW s \in Sku
  PROVE  /\ items[s].reserved = Weight(movements, Changes("reserved"), Of(s))
         /\ items[s].onHand = Weight(movements, Changes("onHand"), Of(s))
              + (IF s \in DOMAIN Opening THEN Opening[s] ELSE 0)
<1>1. PICK c \in Call : call[c].at = "idle"
  BY DEF AtRest, At
<1>2. \A x \in Side : items[s][x] = Expected(movements, s, x)
  BY <1>1 DEF BalanceInv, CallBalances, AddsUp
<1>3. IsHistory(movements) /\ IsFiniteSet(DOMAIN movements)
  BY DEF InventoryInv, HistoryOK, CopiesInv
<1>4. \A x \in Side : /\ Expected(movements, s, x) = Start(s)[x] + Weight(movements, Changes(x), Of(s))
                      /\ Weight(movements, Changes(x), Of(s)) \in Int /\ Start(s)[x] \in Int
  <2> SUFFICES ASSUME NEW x \in Side
               PROVE  /\ Weight(movements, Changes(x), Of(s)) \in Int /\ Start(s)[x] \in Int
    BY DEF Expected
  <2>1. IsABag(movements) /\ IntOn(Changes(x), Of(s))
    BY <1>3, ChangeTyped DEF IsHistory, Of, IntOn
  <2>2. QED
    BY <1>3, <2>1, WeightIsInt, StartTyped
<1>5. Start(s).reserved = 0 /\ Start(s).onHand = IF s \in DOMAIN Opening THEN Opening[s] ELSE 0
  BY DEF Start
<1>6. "onHand" \in Side /\ "reserved" \in Side
  BY DEF Side
<1>7. items[s]["reserved"] = Weight(movements, Changes("reserved"), Of(s))
  BY <1>2, <1>4, <1>5, <1>6
<1>8. items[s]["onHand"] = Weight(movements, Changes("onHand"), Of(s))
        + (IF s \in DOMAIN Opening THEN Opening[s] ELSE 0)
  BY <1>2, <1>4, <1>5, <1>6
<1>9. QED
  BY <1>7, <1>8

LEMMA AddsUpAtRest ==
  ASSUME InventoryInv, CopiesInv, BalanceInv, Call # {}
  PROVE  BalanceFollowsMovements
<1>1. IsHistory(movements) /\ IsFiniteSet(DOMAIN movements)
  BY DEF InventoryInv, HistoryOK, CopiesInv
<1>2. \A s : /\ Total(s, OnHandChange) = Weight(movements, Changes("onHand"), Of(s))
             /\ Total(s, ReservedChange) = Weight(movements, Changes("reserved"), Of(s))
  BY <1>1, TotalCounted
<1>3. QED
  BY <1>2, BalanceAtRest DEF BalanceFollowsMovements

\* With one call at a time, which no event asks twice for the same item, the balances are
\* at rest what the movements add up to.
THEOREM BalanceFollowsMovementsAlways ==
  ASSUME IsFiniteSet(Call), Call # {}, OneCallOnly, SkusApart
  PROVE  InventorySpec => []BalanceFollowsMovements
BY AddsUpAtRest, InventoryInvariant, CopiesInvariant, BalanceInvariant, PTL

LEMMA RecordedOnce ==
  ASSUME IsFiniteSet(Call), OneCallOnly, InventoryInv, CopiesInv
  PROVE  OncePerKey /\ \A m \in BagToSet(movements) : movements[m] = 1
<1> SUFFICES ASSUME NEW m \in BagToSet(movements) PROVE Copies(m) = 1 /\ movements[m] = 1
  BY DEF OncePerKey
<1>1. /\ IsHistory(movements) /\ IsFiniteSet(DOMAIN movements) /\ m \in Movement
  BY DEF InventoryInv, HistoryOK, CopiesInv, IsHistory
<1>2. Copies(m) = TimesIn(movements, m) /\ TimesIn(movements, m) \in Int
  BY <1>1, CopiesCounted, CopiesOneMore
<1>3. Bounded(call, movements, m)
  BY <1>1 DEF CopiesInv
<1>4. Cardinality(Call) \in Nat /\ Cardinality(Call) <= 1
  <2>1. CASE Call = {}
    BY <2>1, FS_EmptySet
  <2>2. CASE Call # {}
    <3>1. PICK c : Call = {c}
      BY <2>2 DEF OneCallOnly
    <3>2. QED
      BY <3>1, FS_Singleton
  <2>3. QED
    BY <2>1, <2>2
<1>5. Stagers(call, m) \subseteq Call /\ Cardinality(Stagers(call, m)) \in Nat
  BY FS_Subset, FS_CardinalityType DEF Stagers
<1>6. TimesIn(movements, m) <= 1
  BY <1>2, <1>3, <1>4, <1>5 DEF Bounded
<1>7. movements[m] \in Nat \ {0} /\ TimesIn(movements, m) >= movements[m]
  <2> DEFINE S == Same(m) \intersect DOMAIN movements
             g == [n \in S |-> movements[n] * [k \in Movement |-> 1][n]]
  <2>1. m \in S /\ IsFiniteSet(S) /\ S \subseteq Movement
    BY <1>1, FS_Subset DEF Same, SameKey, BagToSet
  <2>2. (\A n \in S : g[n] \in Nat \ {0}) /\ g[m] = movements[m]
    BY <1>1, <2>1 DEF IsHistory, IsABag
  <2>3. TimesIn(movements, m) = SumOver(g, S)
    BY <2>1 DEF TimesIn, Weight
  <2>4. IntOn(g, S)
    BY <2>2 DEF IntOn
  <2> HIDE DEF g
  <2>5. SumOver(g, S) = g[m] + SumOver(g, S \ {m})
    BY <2>1, <2>4, SumStep
  <2>6. PICK R, z : R = S \ {m} /\ z = [n \in R |-> 0]
    OBVIOUS
  <2>7. IsFiniteSet(R) /\ IntOn(g, R) /\ IntOn(z, R) /\ \A n \in R : z[n] <= g[n]
    BY <2>1, <2>2, <2>6, FS_Subset DEF IntOn
  <2>8. SumOver(z, R) = 0
    BY <2>6, <2>7, SumZero
  <2>9. 0 <= SumOver(g, R) /\ SumOver(g, R) \in Int
    BY <2>7, <2>8, SumLeq, SumStep
  <2>10. QED
    BY <1>2, <2>1, <2>2, <2>3, <2>5, <2>6, <2>9
<1>8. QED
  BY <1>2, <1>6, <1>7

\* With one call at a time, which no event asks twice for the same item, no key is
\* recorded twice, however often its event comes.
THEOREM OncePerKeyAlways ==
  ASSUME IsFiniteSet(Call), OneCallOnly, SkusApart
  PROVE  InventorySpec => []OncePerKey
BY RecordedOnce, InventoryInvariant, CopiesInvariant, PTL

-----------------------------------------------------------------------------
(***************************************************************************)
(* What is recorded is what was asked for.                                 *)
(***************************************************************************)
MoveBy(to, a) ==
  [source |-> to.source, type |-> to.type, sku |-> a.sku, quantity |-> a.quantity]

\* A call is about to record movements of L only.
AsksWithin(to, L) ==
  to.at # "idle" =>
    /\ \A i \in DOMAIN to.todo : MoveBy(to, to.todo[i]) \in L
    /\ \A n \in DOMAIN to.staged : IsMove(to.staged[n]) => to.staged[n].value \in L

Within(L) == BagToSet(movements) \subseteq L /\ \A c \in Call : AsksWithin(call[c], L)

LEMMA OneCallWithin ==
  ASSUME CallsOK, NEW L, Within(L), NEW c \in Call, NEW to, call' = [call EXCEPT ![c] = to],
         AsksWithin(to, L), BagToSet(movements') \subseteq L
  PROVE  Within(L)'
BY DEF CallsOK, Within

LEMMA BeginWithin ==
  ASSUME CallsOK, NEW L, Within(L), NEW c \in Call, NEW source, NEW type, NEW actions,
         Begin(c, source, type, actions),
         \A i \in DOMAIN actions :
           [source |-> source, type |-> type,
            sku |-> actions[i].sku, quantity |-> actions[i].quantity] \in L
  PROVE  Within(L)'
<1> DEFINE to == [Fresh EXCEPT !.at = "find", !.source = source,
                               !.type = type, !.todo = actions]
<1>1. to.source = source /\ to.type = type /\ to.todo = actions /\ to.staged = <<>>
  BY FreshOK DEF CallState
<1>2. call' = [call EXCEPT ![c] = to] /\ movements' = movements
  BY DEF Begin, stores
<1> HIDE DEF to
<1>3. AsksWithin(to, L)
  BY <1>1 DEF AsksWithin, MoveBy
<1>4. QED
  BY <1>2, <1>3, OneCallWithin DEF Within

\* What is left of what a call had to do and had staged it was asked for as well.
LEMMA LessWithin ==
  ASSUME NEW L, NEW old, AsksWithin(old, L), old.at # "idle", NEW to,
         to.source = old.source, to.type = old.type,
         old.todo \in Seq(Action), old.staged \in Seq(Mutation),
         to.todo = old.todo \/ (old.todo # <<>> /\ to.todo = Tail(old.todo)),
         \/ to.staged = old.staged
         \/ old.staged # <<>> /\ to.staged = Tail(old.staged)
         \/ \E m \in Mutation : to.staged = Append(old.staged, m) /\ (IsMove(m) => m.value \in L)
  PROVE  AsksWithin(to, L)
<1>1. \A i \in DOMAIN to.todo : MoveBy(to, to.todo[i]) \in L
  <2>1. \A i \in DOMAIN to.todo : \E k \in DOMAIN old.todo : to.todo[i] = old.todo[k]
    <3>1. CASE to.todo = old.todo
      BY <3>1
    <3>2. CASE old.todo # <<>> /\ to.todo = Tail(old.todo)
      <4>1. \A i \in DOMAIN Tail(old.todo) : i + 1 \in DOMAIN old.todo /\ Tail(old.todo)[i] = old.todo[i + 1]
        BY <3>2, OneLess
      <4>2. QED
        BY <3>2, <4>1
    <3>3. QED
      BY <3>1, <3>2
  <2>2. \A k \in DOMAIN old.todo : MoveBy(old, old.todo[k]) \in L
    BY DEF AsksWithin
  <2>3. \A a : MoveBy(to, a) = MoveBy(old, a)
    BY DEF MoveBy
  <2>4. QED
    BY <2>1, <2>2, <2>3
<1>2. \A n \in DOMAIN to.staged : IsMove(to.staged[n]) => to.staged[n].value \in L
  <2>1. \A n \in DOMAIN old.staged : IsMove(old.staged[n]) => old.staged[n].value \in L
    BY DEF AsksWithin
  <2>2. CASE to.staged = old.staged
    BY <2>1, <2>2
  <2>3. CASE old.staged # <<>> /\ to.staged = Tail(old.staged)
    <3>1. \A n \in DOMAIN to.staged : \E k \in DOMAIN old.staged : to.staged[n] = old.staged[k]
      BY <2>3, OneLess
    <3>2. QED
      BY <2>1, <3>1
  <2>4. ASSUME NEW m \in Mutation, to.staged = Append(old.staged, m), IsMove(m) => m.value \in L
        PROVE  \A n \in DOMAIN to.staged : IsMove(to.staged[n]) => to.staged[n].value \in L
    <3>1. \A n \in DOMAIN to.staged :
            to.staged[n] = m \/ \E k \in DOMAIN old.staged : to.staged[n] = old.staged[k]
      BY <2>4, OneMoreStaged
    <3>2. QED
      BY <2>1, <2>4, <3>1
  <2>5. QED
    BY <2>2, <2>3, <2>4
<1>3. QED
  BY <1>1, <1>2 DEF AsksWithin

LEMMA CallStepWithin ==
  ASSUME CallsOK, NEW L, Within(L), NEW c \in Call, CallStep(c)
  PROVE  Within(L)'
<1> DEFINE old == call[c]
<1>0. /\ old \in CallState /\ AsksWithin(old, L) /\ CallInv(c)
      /\ old.todo \in Seq(Action) /\ old.staged \in Seq(Mutation)
  BY DEF CallsOK, Within, CallState
<1>1. /\ BagToSet(movements) \subseteq L
      /\ old.at # "idle" /\ old.todo # <<>> => MovementOf(c) \in L
  <2>1. ASSUME old.at # "idle", old.todo # <<>> PROVE MovementOf(c) \in L
    <3>1. 1 \in DOMAIN old.todo /\ Head(old.todo) = old.todo[1]
      BY <1>0, <2>1, OneLess
    <3>2. MovementOf(c) = MoveBy(old, old.todo[1])
      BY <3>1 DEF MovementOf, ActionOf, MoveBy
    <3>3. QED
      BY <1>0, <2>1, <3>1, <3>2 DEF AsksWithin
  <2>2. QED
    BY <2>1 DEF Within
\* A step of a call that goes on.
<1>a. ASSUME NEW to, call' = [call EXCEPT ![c] = to], old.at # "idle",
             to.source = old.source, to.type = old.type,
             to.todo = old.todo \/ (old.todo # <<>> /\ to.todo = Tail(old.todo)),
             \/ to.staged = old.staged
             \/ old.staged # <<>> /\ to.staged = Tail(old.staged)
             \/ \E m \in Mutation : to.staged = Append(old.staged, m) /\ (IsMove(m) => m.value \in L),
             BagToSet(movements') \subseteq L
      PROVE  Within(L)'
  BY <1>0, <1>a, LessWithin, OneCallWithin
<1>b. ASSUME call' = [call EXCEPT ![c] = Fresh], movements' = movements
      PROVE  Within(L)'
  <2>1. AsksWithin(Fresh, L)
    BY FreshOK DEF AsksWithin
  <2>2. QED
    BY <1>1, <1>b, <2>1, OneCallWithin
<1>2. CASE FindMovement(c)
  <2> DEFINE to == IF Recorded(MovementOf(c)) THEN [old EXCEPT !.todo = Tail(old.todo)]
                                              ELSE [old EXCEPT !.at = "ensure"]
  <2>1. old.at = "find" /\ old.todo # <<>> /\ movements' = movements
    BY <1>2 DEF FindMovement, At, stores
  <2>2. call' = [call EXCEPT ![c] = to]
    BY <1>2 DEF FindMovement
  <2>3. /\ to.source = old.source /\ to.type = old.type /\ to.staged = old.staged
        /\ to.todo = old.todo \/ to.todo = Tail(old.todo)
    BY <1>0 DEF CallState
  <2> HIDE DEF to
  <2>4. QED
    BY <1>1, <1>a, <2>1, <2>2, <2>3
<1>3. CASE EnsureItem(c)
  <2> DEFINE s == ActionOf(c).sku
             zero == [store |-> "items", sku |-> s, value |-> Zero]
             staged == IF s \in existing THEN old.staged ELSE Append(old.staged, zero)
             read == IF s \in existing THEN items[s] ELSE Zero
             to == [old EXCEPT !.at = "apply", !.read = read, !.staged = staged]
  <2>1. old.at = "ensure" /\ movements' = movements
    BY <1>3 DEF EnsureItem, At, stores
  <2>2. call' = [call EXCEPT ![c] = to]
    BY <1>3 DEF EnsureItem
  <2>3. s \in Sku
    BY <1>0, <2>1, ActionTyped DEF CallInv, Action
  <2>4. zero \in Mutation /\ ~ IsMove(zero)
    BY <2>3 DEF Mutation, Zero, Balance, IsMove
  <2> HIDE DEF zero, read
  <2>5. \/ staged = old.staged
        \/ \E m \in Mutation : staged = Append(old.staged, m) /\ (IsMove(m) => m.value \in L)
    BY <2>4
  <2> HIDE DEF staged
  <2>6. /\ to.source = old.source /\ to.type = old.type
        /\ to.staged = staged /\ to.todo = old.todo
    BY <1>0 DEF CallState
  <2> HIDE DEF to
  <2>7. QED
    BY <1>1, <1>a, <2>1, <2>2, <2>5, <2>6
<1>4. CASE ApplyAndSave(c)
  <2> DEFINE a == ActionOf(c)
             save == [store |-> "items", sku |-> a.sku,
                      value |-> Moved(old.read, old.type, a.quantity)]
             to == [old EXCEPT !.at = "append", !.staged = Append(old.staged, save)]
  <2>1. /\ old.at = "apply" /\ Allowed(old.read, old.type, a.quantity) /\ movements' = movements
    BY <1>4 DEF ApplyAndSave, At, stores
  <2>2. call' = [call EXCEPT ![c] = to]
    BY <1>4 DEF ApplyAndSave
  <2>3. a \in Action /\ Moved(old.read, old.type, a.quantity) \in Balance
    BY <1>0, <2>1, ActionTyped, MovedIsGood DEF CallInv, CallState, Action
  <2>4. save \in Mutation /\ ~ IsMove(save)
    BY <2>3 DEF Mutation, Action, IsMove
  <2> HIDE DEF save
  <2>5. /\ to.source = old.source /\ to.type = old.type
        /\ to.staged = Append(old.staged, save) /\ to.todo = old.todo
    BY <1>0 DEF CallState
  <2> HIDE DEF to
  <2>6. QED
    BY <1>1, <1>a, <2>1, <2>2, <2>4, <2>5
<1>5. CASE Refuse(c)
  BY <1>5, <1>b DEF Refuse, stores
<1>6. CASE AppendAndPublish(c)
  <2> DEFINE m == MovementOf(c)
             add == [store |-> "movements", value |-> m]
             staged == IF Recorded(m) THEN old.staged ELSE Append(old.staged, add)
             to == [old EXCEPT !.at = "find", !.staged = staged, !.todo = Tail(old.todo)]
  <2>1. old.at = "append" /\ old.todo # <<>> /\ movements' = movements
    BY <1>0, <1>6 DEF AppendAndPublish, At, stores, CallInv
  <2>2. call' = [call EXCEPT ![c] = to]
    BY <1>6 DEF AppendAndPublish
  <2>3. m \in Movement /\ m \in L
    BY <1>1, <2>1, ActionTyped
  <2> HIDE DEF m
  <2>4. add \in Mutation /\ add.value \in L
    BY <2>3 DEF Mutation
  <2> HIDE DEF add
  <2>5. \/ staged = old.staged
        \/ \E n \in Mutation : staged = Append(old.staged, n) /\ (IsMove(n) => n.value \in L)
    BY <2>4
  <2> HIDE DEF staged
  <2>6. /\ to.source = old.source /\ to.type = old.type
        /\ to.staged = staged /\ to.todo = Tail(old.todo)
    BY <1>0 DEF CallState
  <2> HIDE DEF to
  <2>7. QED
    BY <1>1, <1>a, <2>1, <2>2, <2>5, <2>6
<1>7. CASE StartCommit(c)
  <2> DEFINE to == [old EXCEPT !.at = "commit"]
  <2>1. old.at = "find" /\ movements' = movements
    BY <1>7 DEF StartCommit, At, stores
  <2>2. call' = [call EXCEPT ![c] = to]
    BY <1>7 DEF StartCommit
  <2>3. /\ to.source = old.source /\ to.type = old.type
        /\ to.staged = old.staged /\ to.todo = old.todo
    BY <1>0 DEF CallState
  <2> HIDE DEF to
  <2>4. QED
    BY <1>1, <1>a, <2>1, <2>2, <2>3
<1>8. CASE CommitMutation(c)
  <2> DEFINE first == Head(old.staged)
             to == [old EXCEPT !.staged = Tail(old.staged)]
  <2>1. old.at = "commit" /\ old.staged # <<>>
    BY <1>8 DEF CommitMutation, At
  <2>2. call' = [call EXCEPT ![c] = to]
    BY <1>8 DEF CommitMutation
  <2>3. /\ ~ IsMove(first) => movements' = movements
        /\ IsMove(first) => movements' = movements (+) SetToBag({first.value}) /\ first.value \in L
    <3>1. first = old.staged[1] /\ 1 \in DOMAIN old.staged /\ first \in Mutation
      BY <1>0, <2>1, OneLess
    <3>2. IsMove(first) => first.value \in L
      BY <1>0, <2>1, <3>1 DEF AsksWithin
    <3>3. first.store = "items" \/ IsMove(first)
      BY <3>1 DEF Mutation, IsMove
    <3>4. QED
      BY <1>8, <3>2, <3>3 DEF CommitMutation, IsMove
  <2> HIDE DEF first
  <2>4. BagToSet(movements') \subseteq L
    <3>1. BagToSet(movements (+) SetToBag({first.value})) = BagToSet(movements) \union {first.value}
      BY AddedIn
    <3>2. QED
      BY <1>1, <2>3, <3>1
  <2>5. /\ to.source = old.source /\ to.type = old.type
        /\ to.staged = Tail(old.staged) /\ to.todo = old.todo
    BY <1>0 DEF CallState
  <2> HIDE DEF to
  <2>6. QED
    BY <1>a, <2>1, <2>2, <2>4, <2>5
<1>9. CASE InsertRows(c)
  BY <1>9, <1>b DEF InsertRows
<1>10. QED
  BY <1>2, <1>3, <1>4, <1>5, <1>6, <1>7, <1>8, <1>9 DEF CallStep

\* When each movement is recorded once, at most one of K for a source, their weights add
\* up to what their sources contribute.
Sourced(R, w, P, g) ==
  /\ \A m \in R : movements[m] = 1 /\ m.source \in P /\ g[m.source] = w[m]
  /\ \A m, n \in R : m.source = n.source => m = n
  /\ \A p \in P : g[p] # 0 => \E m \in R : m.source = p

LEMMA WeightBySource ==
  ASSUME IsFiniteSet(DOMAIN movements), NEW K, NEW w, IntOn(w, K), NEW g, NEW P, IsFiniteSet(P),
         NEW R, R = K \intersect DOMAIN movements, Sourced(R, w, P, g)
  PROVE  Weight(movements, w, K) = SumOver(g, P)
<1>0. /\ \A m \in R : movements[m] = 1 /\ m.source \in P /\ g[m.source] = w[m]
      /\ \A m, n \in R : m.source = n.source => m = n
      /\ \A p \in P : g[p] # 0 => \E m \in R : m.source = p
  BY DEF Sourced
<1> DEFINE h == [m \in R |-> movements[m] * w[m]]
           f == [m \in R |-> m.source]
           Image == {f[m] : m \in R}
<1>1. IsFiniteSet(R) /\ Image \subseteq P
  BY <1>0, FS_Subset
<1>2. \A m \in R : w[m] \in Int /\ h[m] = w[m]
  BY <1>0 DEF IntOn
<1>3. Weight(movements, w, K) = SumOver(h, R)
  BY DEF Weight
<1>4. \A m, n \in R : f[m] = f[n] => m = n
  BY <1>0
<1>5. \A m \in R : h[m] = g[f[m]] /\ g[f[m]] \in Int
  BY <1>0, <1>2
<1>6. \A p \in P \ Image : g[p] = 0
  BY <1>0
<1>7. IntOn(g, P)
  BY <1>0, <1>2, <1>6 DEF IntOn
<1> HIDE DEF h, f
<1>8. SumOver(h, R) = SumOver(g, Image)
  <2>1. Through(f, h, g, R)
    BY <1>4, <1>5 DEF Through
  <2>2. PICK I : I = Image
    OBVIOUS
  <2>3. SumOver(h, R) = SumOver(g, I)
    BY <1>1, <2>1, <2>2, SumMap
  <2>4. QED
    BY <2>2, <2>3
<1> HIDE DEF Image
<1>9. SumOver(g, P) = SumOver(g, Image)
  BY <1>1, <1>6, <1>7, SumPad
<1>10. QED
  BY <1>3, <1>8, <1>9

\* What runs or has run is for a source among X.
SourcesIn(X) == consumed \subseteq X /\ \A c \in Call : call[c].at # "idle" => call[c].source \in X

LEMMA CallStepSources ==
  ASSUME CallsOK, NEW X, SourcesIn(X), NEW c \in Call, CallStep(c)
  PROVE  SourcesIn(X)'
<1>0. call[c] \in CallState /\ (call[c].at # "idle" => call[c].source \in X)
  BY DEF CallsOK, SourcesIn
<1>1. ASSUME NEW to, call' = [call EXCEPT ![c] = to], to.at # "idle" => to.source \in X,
             consumed' \subseteq X
      PROVE  SourcesIn(X)'
  BY <1>1 DEF SourcesIn, CallsOK
<1>2. Fresh.at = "idle" /\ consumed \subseteq X
  BY FreshOK DEF SourcesIn
<1>3. CASE InsertRows(c)
  <2>1. consumed' \subseteq X
    BY <1>0, <1>2, <1>3 DEF InsertRows, At
  <2>2. QED
    BY <1>1, <1>2, <1>3, <2>1 DEF InsertRows
<1>4. CASE Refuse(c)
  BY <1>1, <1>2, <1>4 DEF Refuse
<1>5. ASSUME NEW to, call' = [call EXCEPT ![c] = to], to.source = call[c].source,
             call[c].at # "idle", consumed' = consumed
      PROVE  SourcesIn(X)'
  BY <1>0, <1>1, <1>2, <1>5
<1>6. CASE FindMovement(c)
  <2>1. PICK to : to = IF Recorded(MovementOf(c)) THEN [call[c] EXCEPT !.todo = Tail(@)]
                                                  ELSE [call[c] EXCEPT !.at = "ensure"]
    OBVIOUS
  <2>2. call' = [call EXCEPT ![c] = to]
    BY <1>6, <2>1 DEF FindMovement
  <2>3. to.source = call[c].source
    BY <1>0, <2>1 DEF CallState
  <2>4. QED
    BY <1>5, <1>6, <2>2, <2>3 DEF FindMovement, At
<1>7. CASE EnsureItem(c)
  <2>1. PICK s : s = ActionOf(c).sku
    OBVIOUS
  <2>2. PICK to : to = [call[c] EXCEPT
           !.at = "apply",
           !.read = IF s \in existing THEN items[s] ELSE Zero,
           !.staged = IF s \in existing THEN @
                        ELSE Append(@, [store |-> "items", sku |-> s, value |-> Zero])]
    OBVIOUS
  <2>3. call' = [call EXCEPT ![c] = to]
    BY <1>7, <2>1, <2>2 DEF EnsureItem
  <2>4. to.source = call[c].source
    BY <1>0, <2>2 DEF CallState
  <2>5. QED
    BY <1>5, <1>7, <2>3, <2>4 DEF EnsureItem, At
<1>8. CASE ApplyAndSave(c)
  <2>1. PICK save : call' = [call EXCEPT ![c].at = "append", ![c].staged = Append(@, save)]
    BY <1>8 DEF ApplyAndSave
  <2>2. PICK to : to = [call[c] EXCEPT !.at = "append", !.staged = Append(@, save)]
    OBVIOUS
  <2>3. call' = [call EXCEPT ![c] = to]
    BY <2>1, <2>2
  <2>4. to.source = call[c].source
    BY <1>0, <2>2 DEF CallState
  <2>5. QED
    BY <1>5, <1>8, <2>3, <2>4 DEF ApplyAndSave, At
<1>9. CASE AppendAndPublish(c)
  <2>1. PICK m : m = MovementOf(c)
    OBVIOUS
  <2>2. PICK to : to = [call[c] EXCEPT
           !.at = "find",
           !.staged = IF Recorded(m) THEN @ ELSE Append(@, [store |-> "movements", value |-> m]),
           !.todo = Tail(@)]
    OBVIOUS
  <2>3. call' = [call EXCEPT ![c] = to]
    BY <1>9, <2>1, <2>2 DEF AppendAndPublish
  <2>4. to.source = call[c].source
    BY <1>0, <2>2 DEF CallState
  <2>5. QED
    BY <1>5, <1>9, <2>3, <2>4 DEF AppendAndPublish, At
<1>10. CASE StartCommit(c) \/ CommitMutation(c)
  <2>1. PICK to : /\ call' = [call EXCEPT ![c] = to]
                  /\ \/ to = [call[c] EXCEPT !.at = "commit"]
                     \/ to = [call[c] EXCEPT !.staged = Tail(@)]
    <3>1. CASE StartCommit(c)
      <4>1. call' = [call EXCEPT ![c] = [call[c] EXCEPT !.at = "commit"]]
        BY <3>1 DEF StartCommit
      <4>2. QED
        BY <4>1
    <3>2. CASE CommitMutation(c)
      <4>1. call' = [call EXCEPT ![c] = [call[c] EXCEPT !.staged = Tail(@)]]
        BY <3>2 DEF CommitMutation
      <4>2. QED
        BY <4>1
    <3>3. QED
      BY <1>10, <3>1, <3>2
  <2>2. to.source = call[c].source
    BY <1>0, <2>1 DEF CallState
  <2>3. call[c].at # "idle" /\ consumed' = consumed
    BY <1>10 DEF StartCommit, CommitMutation, At
  <2>4. QED
    BY <1>5, <2>1, <2>2, <2>3
<1>11. QED
  BY <1>3, <1>4, <1>6, <1>7, <1>8, <1>9, <1>10 DEF CallStep

LEMMA BeginSources ==
  ASSUME CallsOK, NEW X, SourcesIn(X), NEW c \in Call, NEW source \in X, NEW type, NEW actions,
         Begin(c, source, type, actions)
  PROVE  SourcesIn(X)'
<1>1. PICK to : to = [Fresh EXCEPT !.at = "find", !.source = source,
                                   !.type = type, !.todo = actions]
  OBVIOUS
<1>2. to.source = source
  BY <1>1, FreshOK DEF CallState
<1>3. call' = [call EXCEPT ![c] = to] /\ consumed' = consumed
  BY <1>1 DEF Begin, stores
<1>4. QED
  BY <1>2, <1>3 DEF SourcesIn, CallsOK
=============================================================================
