------------------------ MODULE EventConsumersProofs ------------------------
(***************************************************************************)
(* Proofs about EventConsumers, for any stream of events and any number of *)
(* overlapping deliveries.                                                 *)
(***************************************************************************)
EXTENDS EventConsumers, ServiceCallsProofs, SumTheorems

Mark(e) == Processed(e) :> TRUE

\* Nothing that is filed under one key of Reporting is filed under another.
LEMMA KeysApart ==
  ASSUME NEW d \in DOMAIN Stream, NEW e \in DOMAIN Stream
  PROVE  /\ Processed(d) = Processed(e) => d = e
         /\ FinancialFact(d) = FinancialFact(e) => d = e
         /\ MovementFact(d) = MovementFact(e) => d = e
         /\ Processed(d) # MovementFact(e) /\ Processed(d) # FinancialFact(e)
         /\ MovementFact(d) # FinancialFact(e)
         /\ Stream[d].of \notin {Processed(e), MovementFact(e), FinancialFact(e)}
         /\ Mark(d) = Mark(e) => d = e
<1>1. Mark(d) = Mark(e) => Processed(d) = Processed(e)
  <2>1. DOMAIN Mark(d) = {Processed(d)} /\ DOMAIN Mark(e) = {Processed(e)}
    BY DEF Mark, :>
  <2>2. QED
    BY <2>1
<1>2. Processed(d) = Processed(e) => d = e
  BY DEF Processed
<1>3. QED
  BY <1>1, <1>2, ReportingAssumption DEF Processed, FinancialFact, MovementFact

LEMMA EventTypes ==
  ASSUME NEW e \in DOMAIN Stream
  PROVE  /\ Stream[e] \in DomainEvent
         /\ Stream[e].kind \in {"order", "payment", "stock", "journal"}
         /\ Stream[e].type \in STRING /\ Stream[e].of \in Key /\ Stream[e].amount \in Int
<1>1. Stream \in Seq(DomainEvent)
  BY ReportingAssumption
<1>2. Stream[e] \in DomainEvent
  BY <1>1
<1>3. QED
  BY <1>2 DEF DomainEvent

\* Orders, payments and skus are three things.
LEMMA IdsApart ==
  ASSUME NEW d \in DOMAIN Stream, NEW e \in DOMAIN Stream, Stream[d].of = Stream[e].of
  PROVE  /\ Stream[d].kind = "order" => Stream[e].kind = "order"
         /\ Stream[d].kind = "stock" => Stream[e].kind = "stock"
         /\ Stream[d].kind = "payment" => Stream[e].kind \in {"payment", "journal"}
<1>1. \/ Stream[d].kind = Stream[e].kind
      \/ {Stream[d].kind, Stream[e].kind} = {"payment", "journal"}
  BY ReportingAssumption
<1>2. QED
  BY <1>1

LEMMA Put ==
  ASSUME Key \subseteq DOMAIN store, NEW k, NEW v, store' = (k :> v) @@ store
  PROVE  /\ store'[k] = v
         /\ \A x \in Key : x # k => store'[x] = store[x]
         /\ DOMAIN store \subseteq DOMAIN store'
BY DEF :>, @@

-----------------------------------------------------------------------------
(***************************************************************************)
(* What Reporting has on file and is about to write.                       *)
(***************************************************************************)
GoodOrder(fact) == fact = NoRecord \/ fact \in OrderFacts

GoodPayment(fact) ==
  fact = NoRecord \/ (fact \in PaymentFacts /\ fact.amount = Stream[fact.last].amount)

GoodBalance(fact) == fact = NoRecord \/ (fact \in Balances /\ IsSane(fact))

\* A journal of an event that is not in the stream finds no payment.
Amounts(e) == {0} \union {Stream[s].amount : s \in DOMAIN Stream \intersect {Stream[e].source}}

\* The first write of a projection, for the records the call has seen.
FactOf(e, seen, write) ==
  LET o == Stream[e].of
  IN  /\ Stream[e].kind = "order" =>
           /\ o \in DOMAIN seen /\ GoodOrder(seen[o])
           /\ write = o :> OrderFact(seen[o], Stream[e])
      /\ Stream[e].kind = "payment" =>
           \E fact \in PaymentFacts : GoodPayment(fact) /\ fact.last = e /\ write = o :> fact
      /\ Stream[e].kind = "stock" =>
           /\ o \in DOMAIN seen /\ GoodBalance(seen[o])
           /\ IsSane(NextBalance(seen[o], Stream[e]))
           /\ write = o :> NextBalance(seen[o], Stream[e])
      /\ Stream[e].kind = "journal" =>
           \E amount \in Amounts(e) : write = FinancialFact(e) :> amount

\* The fact a journal is projected to now.
Valued(e) == FinancialFact(e) :> AmountFor(Answers(Payments), Stream[e].source)

HasFact(c, e) ==
  \E write : FactOf(e, work[c].seen, write) /\ work[c].writes = << write, Mark(e) >>

HasMark(c, e) == work[c].writes = << Mark(e) >>

ReportingWrites(c) ==
  \/ work[c].writes = <<>>
  \/ \E e \in DOMAIN Stream : HasFact(c, e) \/ HasMark(c, e)

Applying(c, e) == work[c].op = <<"balance", e>>

ReportingInv ==
  /\ CallsOK
  /\ \A c \in Call : ReportingWrites(c)
  /\ \A c \in Call, e \in DOMAIN Stream :
       Applying(c, e) => /\ Stream[e].kind = "stock" /\ work[c].todo = << {Stream[e].of} >>
  /\ \A e \in DOMAIN Stream :
       /\ Stream[e].kind = "order" => GoodOrder(store[Stream[e].of])
       /\ Stream[e].kind = "payment" => GoodPayment(store[Stream[e].of])
       /\ Stream[e].kind = "stock" => GoodBalance(store[Stream[e].of])
       /\ Stream[e].kind = "journal" =>
            store[FinancialFact(e)] \in Amounts(e) \union {NoRecord}

(***************************************************************************)
(* The seven things a call of consumeEvent can do in a step.               *)
(***************************************************************************)
NotApplying(c) == \A e \in DOMAIN Stream : work[c].op # <<"balance", e>>

\* It reads, gives up or returns.
Pauses(c) ==
  /\ store' = store /\ work[c].writes = <<>> /\ work'[c].writes = <<>> /\ NotApplying(c)'
  /\ dropped' = dropped \union {e \in DOMAIN Stream : Applying(c, e)}

Projects(c, e) ==
  /\ store' = store /\ raced' = raced /\ work[c].writes = <<>>
  /\ HasFact(c, e)' /\ NotApplying(c)' /\ dropped' = dropped
  /\ IF Stream[e].kind = "stock" THEN Applying(c, e) ELSE NotApplying(c)
  /\ e \in InHand
  /\ Stream[e].kind = "order" => work'[c].seen[Stream[e].of] = store[Stream[e].of]
  /\ Stream[e].kind = "journal" => work'[c].writes[1] = Valued(e)

FindsMovement(c, e) ==
  /\ store' = store /\ raced' = raced /\ work[c].writes = <<>>
  /\ Stream[e].kind = "stock" /\ HasMark(c, e)'
  /\ NotApplying(c) /\ NotApplying(c)' /\ dropped' = dropped

FilesMovement(c, e) ==
  /\ store' = (MovementFact(e) :> TRUE) @@ store /\ raced' = raced /\ work[c].writes = <<>>
  /\ Stream[e].kind = "stock" /\ ~Exists(store[MovementFact(e)])
  /\ work'[c].writes = <<>> /\ Applying(c, e)' /\ work'[c].todo = << {Stream[e].of} >>
  /\ NotApplying(c) /\ dropped' = dropped

PassesOver(c, e) ==
  /\ store' = store /\ raced' = raced /\ Stream[e].kind = "journal"
  /\ HasFact(c, e) /\ HasMark(c, e)' /\ Exists(store[FinancialFact(e)])
  /\ NotApplying(c) /\ NotApplying(c)' /\ dropped' = dropped

SavesFact(c, e) ==
  /\ \E write : /\ FactOf(e, work[c].seen, write) /\ work[c].writes = << write, Mark(e) >>
                /\ store' = write @@ store
                /\ raced \subseteq raced'
                /\ \A k \in DOMAIN write : k \notin raced' =>
                     \A s \in DOMAIN work[c].seen : work[c].seen[s] = store[s]
  /\ HasMark(c, e)'
  /\ NotApplying(c) /\ NotApplying(c)' /\ dropped' = dropped

SavesMark(c, e) ==
  /\ store' = Mark(e) @@ store /\ HasMark(c, e) /\ work'[c].writes = <<>>
  /\ NotApplying(c) /\ NotApplying(c)' /\ dropped' = dropped

ReportingMove(c) ==
  /\ CallsOK' /\ OthersStay(c) /\ raced \subseteq raced'
  /\ \/ Pauses(c)
     \/ \E e \in DOMAIN Stream :
          \/ Projects(c, e) \/ FindsMovement(c, e) \/ FilesMovement(c, e)
          \/ PassesOver(c, e) \/ SavesFact(c, e) \/ SavesMark(c, e)

LEMMA ReadsOfKeys ==
  ASSUME NEW e \in DOMAIN Stream
  PROVE  /\ << {Processed(e)}, {Stream[e].of} >> \in Seq(SUBSET Key)
         /\ << {Processed(e)}, Payments >> \in Seq(SUBSET Key)
         /\ << {Processed(e)}, {} >> \in Seq(SUBSET Key)
         /\ << {Stream[e].of} >> \in Seq(SUBSET Key)
<1>1. Processed(e) \in Key /\ Stream[e].of \in Key
  BY ReportingAssumption, EventTypes
<1>2. Payments \subseteq Key
  BY EventTypes DEF Payments
<1>3. QED
  BY <1>1, <1>2

\* A projection that starts, or that has read for the last time.
LEMMA LooksPauses ==
  ASSUME ReportingInv, NEW c \in Call, NEW op, \A d : op # <<"balance", d>>,
         NEW e \in DOMAIN Stream, NEW reads \in Seq(SUBSET Key),
         Looks(c, op, reads, e), dropped' = dropped
  PROVE  ReportingMove(c)
<1>1. Read(c, op, reads)
  BY DEF Looks
<1>2. /\ CallsOK' /\ OthersStay(c) /\ store' = store /\ raced' = raced
      /\ work'[c].op = op /\ work'[c].writes = <<>>
  BY <1>1, ReadEffect DEF ReportingInv
<1>3. (work[c].op = op \/ work[c] = Idle) /\ work[c].writes = <<>>
  <2>1. CASE IsIdle(c)
    BY <2>1, IdleCall DEF IsIdle
  <2>2. CASE work[c].op = op /\ Len(work[c].todo) > 1
    <3>1. work[c].todo # <<>>
      BY <2>2
    <3>2. QED
      BY <3>1, <2>2 DEF ReportingInv, CallsOK, IsCall
  <2>3. QED
    BY <1>1, <2>1, <2>2 DEF Read
<1>4. NotApplying(c) /\ NotApplying(c)'
  <2>1. \A d : <<>> # <<"balance", d>>
    OBVIOUS
  <2>2. QED
    BY <2>1, <1>2, <1>3, IdleCall DEF NotApplying
<1>5. {d \in DOMAIN Stream : Applying(c, d)} = {}
  BY <1>4 DEF Applying, NotApplying
<1>6. Pauses(c)
  BY <1>2, <1>3, <1>4, <1>5 DEF Pauses
<1>7. QED
  BY <1>2, <1>6 DEF ReportingMove

\* A call at the last of the two reads of its operation has staged nothing.
LEMMA AtLastRead ==
  ASSUME CallsOK, NEW c \in Call, NEW op, \A d : op # <<"balance", d>>,
         NEW reads, Len(reads) = 2, LastRead(c, op, reads)
  PROVE  /\ work[c].op = op /\ work[c].todo # <<>> /\ work[c].writes = <<>>
         /\ NotApplying(c)
<1>1. work[c].op = op /\ Len(work[c].todo) = 1
  BY DEF LastRead
<1>2. work[c].todo # <<>>
  <2>1. work[c].todo \in Seq(SUBSET Key) /\ Len(work[c].todo) > 0
    BY <1>1 DEF CallsOK, IsCall
  <2>2. QED
    BY <2>1, NotEmpty
<1>3. QED
  BY <1>1, <1>2 DEF CallsOK, IsCall, NotApplying

\* A projection that stages its fact and its mark.
LEMMA StagesFact ==
  ASSUME ReportingInv, NEW c \in Call, NEW e \in DOMAIN Stream,
         NEW reads, NEW write,
         Stage(c, reads, << write, Mark(e) >>, <<>>),
         FactOf(e, Saw(c, reads), write),
         work[c].writes = <<>>,
         IF Stream[e].kind = "stock" THEN Applying(c, e) ELSE NotApplying(c),
         Len(work[c].op) = 2, work[c].op[2] = e,
         Stream[e].kind = "order" => Saw(c, reads)[Stream[e].of] = store[Stream[e].of],
         Stream[e].kind = "journal" => write = Valued(e),
         dropped' = dropped
  PROVE  ReportingMove(c)
<1>1. /\ CallsOK' /\ OthersStay(c) /\ store' = store /\ raced' = raced
      /\ work'[c].op = <<"commit">> /\ work'[c].seen = Saw(c, reads)
      /\ work'[c].writes = << write, Mark(e) >>
  BY StageEffect DEF ReportingInv
<1>2. NotApplying(c)'
  <2>1. \A d : <<"commit">> # <<"balance", d>>
    OBVIOUS
  <2>2. QED
    BY <1>1, <2>1 DEF NotApplying
<1>3. HasFact(c, e)'
  BY <1>1 DEF HasFact
<1>4. e \in InHand
  BY DEF InHand
<1>5. work'[c].writes[1] = write
  BY <1>1
<1>6. Projects(c, e)
  BY <1>1, <1>2, <1>3, <1>4, <1>5 DEF Projects
<1>7. QED
  BY <1>1, <1>6 DEF ReportingMove

LEMMA ConsumeOrderMoves ==
  ASSUME ReportingInv, NEW c \in Call, ProjectOrderEvent(c), dropped' = dropped
  PROVE  ReportingMove(c)
<1>1. PICK e \in DOMAIN Stream :
        LET op == <<"order_fact", e>>
            o == Stream[e].of
            reads == << {Processed(e)}, {o} >>
        IN  /\ Stream[e].kind = "order"
            /\ \/ Looks(c, op, reads, e)
               \/ /\ LastRead(c, op, reads)
                  /\ Stage(c, reads, << o :> OrderFact(store[o], Stream[e]),
                                        Processed(e) :> TRUE >>, <<>>)
  BY DEF ProjectOrderEvent
<1> DEFINE op == <<"order_fact", e>>
           o == Stream[e].of
           reads == << {Processed(e)}, {o} >>
           write == o :> OrderFact(store[o], Stream[e])
<1>2. /\ reads \in Seq(SUBSET Key) /\ Len(reads) = 2 /\ reads[2] = {o}
      /\ \A d : op # <<"balance", d>>
      /\ Len(op) = 2 /\ op[2] = e
  BY ReadsOfKeys
<1> HIDE DEF op, reads, write
<1>3. CASE Looks(c, op, reads, e)
  BY <1>2, <1>3, LooksPauses
<1>4. CASE /\ LastRead(c, op, reads)
           /\ Stage(c, reads, << write, Mark(e) >>, <<>>)
  <2>1. work[c].writes = <<>> /\ NotApplying(c) /\ work[c].op = op
    BY <1>2, <1>4, AtLastRead DEF ReportingInv
  <2>2. o \in DOMAIN Saw(c, reads) /\ Saw(c, reads)[o] = store[o]
    BY <1>2, SawLast
  <2>3. FactOf(e, Saw(c, reads), write)
    BY <1>1, <2>2 DEF FactOf, ReportingInv, write
  <2>4. QED
    BY <1>1, <1>2, <1>4, <2>1, <2>2, <2>3, StagesFact
<1>5. QED
  BY <1>1, <1>3, <1>4 DEF Mark, op, reads, write

LEMMA ConsumePaymentMoves ==
  ASSUME ReportingInv, NEW c \in Call, ProjectPaymentEvent(c), dropped' = dropped
  PROVE  ReportingMove(c)
<1>1. PICK e \in DOMAIN Stream :
        LET op == <<"payment_fact", e>>
            p == Stream[e].of
            reads == << {Processed(e)}, {p} >>
        IN  /\ Stream[e].kind = "payment"
            /\ \/ Looks(c, op, reads, e)
               \/ /\ LastRead(c, op, reads)
                  /\ Stage(c, reads, << p :> PaymentFact(store[p], e),
                                        Processed(e) :> TRUE >>, <<>>)
  BY DEF ProjectPaymentEvent
<1> DEFINE op == <<"payment_fact", e>>
           p == Stream[e].of
           reads == << {Processed(e)}, {p} >>
           write == p :> PaymentFact(store[p], e)
<1>2. /\ reads \in Seq(SUBSET Key) /\ Len(reads) = 2
      /\ \A d : op # <<"balance", d>>
      /\ Len(op) = 2 /\ op[2] = e
  BY ReadsOfKeys
<1> HIDE DEF op, reads, write
<1>3. CASE Looks(c, op, reads, e)
  BY <1>2, <1>3, LooksPauses
<1>4. CASE /\ LastRead(c, op, reads)
           /\ Stage(c, reads, << write, Mark(e) >>, <<>>)
  <2>1. work[c].writes = <<>> /\ NotApplying(c) /\ work[c].op = op
    BY <1>2, <1>4, AtLastRead DEF ReportingInv
  <2>2. /\ GoodPayment(PaymentFact(store[p], e)) /\ PaymentFact(store[p], e) \in PaymentFacts
        /\ PaymentFact(store[p], e).last = e
    <3>1. /\ GoodPayment(store[p]) /\ Stream[e].type \in STRING
          /\ Stream[e].amount \in Int /\ Stream[e].amount > 0
      BY <1>1, EventTypes, ReportingAssumption DEF ReportingInv
    <3>2. store[p] # NoRecord => store[p].at \subseteq STRING
      BY <3>1 DEF GoodPayment, PaymentFacts
    <3> DEFINE at == (IF Exists(store[p]) THEN store[p].at ELSE {})
                       \union ({Stream[e].type} \intersect {"authorized", "captured", "refunded"})
    <3>3. at \subseteq STRING
      BY <3>1, <3>2 DEF Exists
    <3>4. PaymentFact(store[p], e) = [status |-> Stream[e].type, at |-> at,
                                      amount |-> Stream[e].amount, last |-> e]
      BY <3>1 DEF PaymentFact
    <3> HIDE DEF at
    <3>5. QED
      BY <3>1, <3>3, <3>4 DEF GoodPayment, PaymentFacts
  <2>3. FactOf(e, Saw(c, reads), write)
    BY <1>1, <2>2 DEF FactOf, write
  <2>4. QED
    BY <1>1, <1>2, <1>4, <2>1, <2>3, StagesFact
<1>5. QED
  BY <1>1, <1>3, <1>4 DEF Mark, op, reads, write

\* Which payment is found does not matter: its amount is that of its last event.
LEMMA ConsumeJournalMoves ==
  ASSUME ReportingInv, NEW c \in Call, ProjectLedgerEvent(c), dropped' = dropped
  PROVE  ReportingMove(c)
<1>1. PICK e \in DOMAIN Stream :
        LET op == <<"financial_fact", e>>
            reads == << {Processed(e)}, Payments >>
        IN  /\ Stream[e].kind = "journal"
            /\ \/ Looks(c, op, reads, e)
               \/ /\ LastRead(c, op, reads)
                  /\ Stage(c, reads,
                           << FinancialFact(e) :> AmountFor(Answers(Payments), Stream[e].source),
                              Processed(e) :> TRUE >>, <<>>)
  BY DEF ProjectLedgerEvent
<1> DEFINE op == <<"financial_fact", e>>
           reads == << {Processed(e)}, Payments >>
           amount == AmountFor(Answers(Payments), Stream[e].source)
           write == FinancialFact(e) :> amount
<1>2. /\ reads \in Seq(SUBSET Key) /\ Len(reads) = 2
      /\ \A d : op # <<"balance", d>>
      /\ Len(op) = 2 /\ op[2] = e
  BY ReadsOfKeys
<1> HIDE DEF op, reads, write, amount
<1>3. CASE Looks(c, op, reads, e)
  BY <1>2, <1>3, LooksPauses
<1>4. CASE /\ LastRead(c, op, reads)
           /\ Stage(c, reads, << write, Mark(e) >>, <<>>)
  <2>1. work[c].writes = <<>> /\ NotApplying(c) /\ work[c].op = op
    BY <1>2, <1>4, AtLastRead DEF ReportingInv
  <2>2. amount \in Amounts(e)
    <3> DEFINE source == Stream[e].source
               found == {p \in DOMAIN Answers(Payments) :
                           Exists(Answers(Payments)[p]) /\ Answers(Payments)[p].last = source}
    <3>1. found = {p \in Payments : Exists(store[p]) /\ store[p].last = source}
      BY DEF Answers
    <3>2. ASSUME NEW p \in found
          PROVE  source \in DOMAIN Stream /\ Answers(Payments)[p].amount = Stream[source].amount
      <4>1. p \in Payments /\ Exists(store[p]) /\ store[p].last = source
        BY <3>1
      <4>2. GoodPayment(store[p])
        BY <4>1 DEF Payments, ReportingInv
      <4>3. QED
        BY <4>1, <4>2 DEF GoodPayment, PaymentFacts, Exists, Answers
    <3>3. amount = IF found = {} THEN 0
                   ELSE Answers(Payments)[CHOOSE p \in found : TRUE].amount
      BY DEF AmountFor, amount
    <3>4. found # {} => (CHOOSE p \in found : TRUE) \in found
      OBVIOUS
    <3> HIDE DEF found
    <3>5. QED
      BY <3>2, <3>3, <3>4 DEF Amounts
  <2>3. FactOf(e, Saw(c, reads), write)
    BY <1>1, <2>2 DEF FactOf, write
  <2>4. QED
    BY <1>1, <1>2, <1>4, <2>1, <2>3, StagesFact DEF Valued, write, amount
<1>5. QED
  BY <1>1, <1>3, <1>4 DEF Mark, op, reads, write, amount

LEMMA AppendMoves ==
  ASSUME ReportingInv, NEW c \in Call, AppendMovement(c), dropped' = dropped
  PROVE  ReportingMove(c)
<1>1. PICK e \in DOMAIN Stream :
        LET op == <<"inventory_movement", e>>
            reads == << {Processed(e)}, {} >>
        IN  /\ Stream[e].kind = "stock"
            /\ \/ Looks(c, op, reads, e)
               \/ /\ LastRead(c, op, reads)
                  /\ Exists(store[MovementFact(e)])
                  /\ Stage(c, reads, << Processed(e) :> TRUE >>, <<>>)
               \/ /\ LastRead(c, op, reads)
                  /\ ~Exists(store[MovementFact(e)])
                  /\ store' = MovementFact(e) :> TRUE @@ store
                  /\ work' = [work EXCEPT ![c] = [Idle EXCEPT !.op = <<"balance", e>>,
                                                              !.todo = << {Stream[e].of} >>]]
                  /\ UNCHANGED <<told, raced>>
  BY DEF AppendMovement
<1> DEFINE op == <<"inventory_movement", e>>
           reads == << {Processed(e)}, {} >>
<1>2. reads \in Seq(SUBSET Key) /\ Len(reads) = 2 /\ \A d : op # <<"balance", d>>
  BY ReadsOfKeys
<1>3. \A d : <<"commit">> # <<"balance", d>>
  OBVIOUS
<1> HIDE DEF op, reads
<1>4. CASE Looks(c, op, reads, e)
  BY <1>2, <1>4, LooksPauses
<1>5. CASE /\ LastRead(c, op, reads)
           /\ Stage(c, reads, << Mark(e) >>, <<>>)
  <2>1. work[c].writes = <<>> /\ NotApplying(c)
    BY <1>2, <1>5, AtLastRead DEF ReportingInv
  <2>2. /\ CallsOK' /\ OthersStay(c) /\ store' = store /\ raced' = raced
        /\ work'[c].op = <<"commit">> /\ work'[c].writes = << Mark(e) >>
    BY <1>5, StageEffect DEF ReportingInv
  <2>3. FindsMovement(c, e)
    BY <1>1, <1>3, <2>1, <2>2 DEF FindsMovement, HasMark, NotApplying
  <2>4. QED
    BY <2>2, <2>3 DEF ReportingMove
<1>6. CASE /\ LastRead(c, op, reads)
           /\ ~Exists(store[MovementFact(e)])
           /\ store' = MovementFact(e) :> TRUE @@ store
           /\ work' = [work EXCEPT ![c] = [Idle EXCEPT !.op = <<"balance", e>>,
                                                       !.todo = << {Stream[e].of} >>]]
           /\ UNCHANGED <<told, raced>>
  <2>1. work[c].writes = <<>> /\ NotApplying(c)
    BY <1>2, <1>6, AtLastRead DEF ReportingInv
  <2> DEFINE balance == <<"balance", e>>
             todo == << {Stream[e].of} >>
  <2>2. todo \in Seq(SUBSET Key)
    BY ReadsOfKeys
  <2>3. work' = [work EXCEPT ![c] = [Idle EXCEPT !.op = balance, !.todo = todo]]
    BY <1>6
  <2> HIDE DEF balance, todo
  <2>4. /\ DOMAIN work' = Call /\ OthersStay(c)
        /\ DOMAIN work'[c] = {"op", "todo", "seen", "writes", "news"}
        /\ work'[c].op = balance /\ work'[c].todo = todo
        /\ work'[c].writes = <<>> /\ work'[c].news = <<>>
    BY <2>3 DEF ReportingInv, CallsOK, Idle, OthersStay
  <2>5. IsCall(work'[c])
    BY <2>2, <2>4 DEF IsCall
  <2>6. DOMAIN store \subseteq DOMAIN store'
    BY <1>6 DEF :>, @@
  <2>7. CallsOK'
    BY <2>4, <2>5, <2>6, CallsKept DEF ReportingInv
  <2>8. FilesMovement(c, e)
    BY <1>1, <1>6, <2>1, <2>4 DEF FilesMovement, Applying, balance, todo
  <2>9. QED
    BY <1>6, <2>4, <2>7, <2>8 DEF ReportingMove
<1>7. QED
  BY <1>1, <1>4, <1>5, <1>6 DEF Mark, op, reads

LEMMA NextBalanceType ==
  ASSUME NEW balance, GoodBalance(balance), NEW e \in DOMAIN Stream
  PROVE  /\ NextBalance(balance, Stream[e]) \in Balances
         /\ NextBalance(balance, Stream[e]).count =
              (IF balance = NoRecord THEN 0 ELSE balance.count) + 1
<1> DEFINE old == IF Exists(balance) THEN balance ELSE [onHand |-> 0, reserved |-> 0, count |-> 0]
           q == Stream[e].amount
<1>1. q \in Int
  BY EventTypes
<1>2. /\ old.onHand \in Int /\ old.reserved \in Int /\ old.count \in Nat
      /\ old.count = IF balance = NoRecord THEN 0 ELSE balance.count
  BY DEF GoodBalance, Balances, Exists
<1>3. NextBalance(balance, Stream[e]) =
        [onHand   |-> old.onHand + (CASE Stream[e].type \in {"receipt", "adjustment"} -> q
                                      [] Stream[e].type = "issue" -> -q
                                      [] OTHER -> 0),
         reserved |-> old.reserved + (CASE Stream[e].type = "reserve" -> q
                                        [] Stream[e].type \in {"release", "issue"} -> -q
                                        [] OTHER -> 0),
         count    |-> old.count + 1]
  BY DEF NextBalance
<1>4. (CASE Stream[e].type \in {"receipt", "adjustment"} -> q
         [] Stream[e].type = "issue" -> -q
         [] OTHER -> 0) \in Int
  BY <1>1
<1>5. (CASE Stream[e].type = "reserve" -> q
         [] Stream[e].type \in {"release", "issue"} -> -q
         [] OTHER -> 0) \in Int
  BY <1>1
<1> HIDE DEF old, q
<1>6. QED
  BY <1>2, <1>3, <1>4, <1>5 DEF Balances

LEMMA ApplyMoves ==
  ASSUME ReportingInv, NEW c \in Call, ApplyMovement(c)
  PROVE  ReportingMove(c)
<1>1. PICK e \in DOMAIN Stream :
        LET sku == Stream[e].of
            next == NextBalance(store[sku], Stream[e])
        IN  /\ work[c].op = <<"balance", e>>
            /\ IF IsSane(next)
                 THEN /\ Stage(c, << {sku} >>, << sku :> next, Processed(e) :> TRUE >>, <<>>)
                      /\ UNCHANGED dropped
                 ELSE /\ work' = [work EXCEPT ![c] = Idle]
                      /\ dropped' = dropped \union {e}
                      /\ UNCHANGED <<store, told, raced>>
  BY DEF ApplyMovement
<1> DEFINE sku == Stream[e].of
           next == NextBalance(store[sku], Stream[e])
           reads == << {sku} >>
           write == sku :> next
<1>2. Applying(c, e) /\ Stream[e].kind = "stock" /\ work[c].todo = << {sku} >>
  BY <1>1 DEF Applying, ReportingInv
<1>3. work[c].writes = <<>>
  <2>1. work[c].todo # <<>>
    BY <1>2
  <2>2. QED
    BY <2>1 DEF ReportingInv, CallsOK, IsCall
<1>4. reads[Len(reads)] = {sku} /\ GoodBalance(store[sku])
  BY <1>2 DEF ReportingInv
<1>7. Len(work[c].op) = 2 /\ work[c].op[2] = e
  BY <1>2 DEF Applying
<1> HIDE DEF reads, write
<1>5. CASE IsSane(next) /\ Stage(c, reads, << write, Mark(e) >>, <<>>) /\ dropped' = dropped
  <2>1. sku \in DOMAIN Saw(c, reads) /\ Saw(c, reads)[sku] = store[sku]
    BY <1>4, SawLast
  <2>2. FactOf(e, Saw(c, reads), write)
    BY <1>2, <1>4, <1>5, <2>1 DEF FactOf, write
  <2>3. QED
    BY <1>2, <1>3, <1>5, <1>7, <2>2, StagesFact
<1>6. CASE /\ work' = [work EXCEPT ![c] = Idle]
           /\ dropped' = dropped \union {e}
           /\ UNCHANGED <<store, told, raced>>
  <2>1. work'[c] = Idle /\ OthersStay(c) /\ DOMAIN work' = Call
    BY <1>6 DEF ReportingInv, CallsOK, OthersStay
  <2>2. CallsOK'
    BY <1>6, <2>1, IdleCall, CallsKept DEF ReportingInv
  <2>3. NotApplying(c)'
    <3>1. \A d : <<>> # <<"balance", d>>
      OBVIOUS
    <3>2. QED
      BY <2>1, <3>1, IdleCall DEF NotApplying
  <2>4. {d \in DOMAIN Stream : Applying(c, d)} = {e}
    BY <1>2 DEF Applying
  <2>5. Pauses(c)
    BY <1>3, <1>6, <2>1, <2>3, <2>4, IdleCall DEF Pauses
  <2>6. QED
    BY <1>6, <2>1, <2>2, <2>5 DEF ReportingMove
<1>8. QED
  BY <1>1, <1>5, <1>6 DEF Mark, reads, write

\* A call past its reads is not waiting for a balance.
LEMMA CommittingNotApplying ==
  ASSUME ReportingInv, NEW c \in Call, work[c].todo = <<>>
  PROVE  NotApplying(c) /\ {e \in DOMAIN Stream : Applying(c, e)} = {}
<1>1. \A k : << {k} >> # <<>>
  OBVIOUS
<1>2. QED
  BY <1>1 DEF ReportingInv, NotApplying, Applying

LEMMA ThrowMoves ==
  ASSUME ReportingInv, NEW c \in Call, Throw(c)
  PROVE  ReportingMove(c)
<1>1. /\ CallsOK' /\ OthersStay(c) /\ work'[c] = Idle /\ store' = store /\ raced' = raced
      /\ work[c].writes = <<>>
  BY GiveUpEffect DEF Throw, ReportingInv
<1>2. NotApplying(c)'
  <2>1. \A d : <<>> # <<"balance", d>>
    OBVIOUS
  <2>2. QED
    BY <1>1, <2>1, IdleCall DEF NotApplying
<1>3. Pauses(c)
  BY <1>1, <1>2, IdleCall DEF Throw, Pauses, Applying
<1>4. QED
  BY <1>1, <1>3 DEF ReportingMove

LEMMA ReportingPublishMoves ==
  ASSUME ReportingInv, NEW c \in Call, Publish(c), dropped' = dropped
  PROVE  ReportingMove(c)
<1>1. /\ CallsOK' /\ OthersStay(c) /\ work'[c] = Idle /\ store' = store /\ raced \subseteq raced'
      /\ work[c].todo = <<>> /\ work[c].writes = <<>>
  BY PublishEffect DEF ReportingInv
<1>2. NotApplying(c)'
  <2>1. \A d : <<>> # <<"balance", d>>
    OBVIOUS
  <2>2. QED
    BY <1>1, <2>1, IdleCall DEF NotApplying
<1>3. Pauses(c)
  BY <1>1, <1>2, IdleCall, CommittingNotApplying DEF Pauses
<1>4. QED
  BY <1>1, <1>3 DEF ReportingMove

\* The call saves its fact, or after that its mark.
LEMMA ReportingSaveMoves ==
  ASSUME ReportingInv, NEW c \in Call, Save(c), dropped' = dropped
  PROVE  ReportingMove(c)
<1> DEFINE write == work[c].writes[1]
<1>1. /\ CallsOK' /\ OthersStay(c)
      /\ work[c].todo = <<>> /\ work[c].writes # <<>>
      /\ store' = write @@ store /\ raced \subseteq raced'
      /\ \A k \in DOMAIN write : k \notin raced' =>
           \A s \in DOMAIN work[c].seen : work[c].seen[s] = store[s]
      /\ work'[c].op = work[c].op /\ work'[c].writes = Tail(work[c].writes)
  BY SaveEffect DEF ReportingInv
<1>2. NotApplying(c) /\ NotApplying(c)'
  BY <1>1, CommittingNotApplying DEF NotApplying
<1>3. PICK e \in DOMAIN Stream : HasFact(c, e) \/ HasMark(c, e)
  BY <1>1 DEF ReportingInv, ReportingWrites
<1>4. CASE HasFact(c, e)
  <2>1. PICK w : FactOf(e, work[c].seen, w) /\ work[c].writes = << w, Mark(e) >>
    BY <1>4 DEF HasFact
  <2>2. write = w /\ work'[c].writes = << Mark(e) >>
    BY <1>1, <2>1, Tails
  <2> HIDE DEF write
  <2>3. SavesFact(c, e)
    BY <1>1, <1>2, <2>1, <2>2 DEF SavesFact, HasMark
  <2>4. QED
    BY <1>1, <2>3 DEF ReportingMove
<1>5. CASE HasMark(c, e)
  <2>1. write = Mark(e) /\ work'[c].writes = <<>>
    BY <1>1, <1>5, Tails DEF HasMark
  <2>2. SavesMark(c, e)
    BY <1>1, <1>2, <1>5, <2>1 DEF SavesMark
  <2>3. QED
    BY <1>1, <2>2 DEF ReportingMove
<1>6. QED
  BY <1>3, <1>4, <1>5

\* What a projection writes first is one record of Reporting.
LEMMA FactKeys ==
  ASSUME NEW e \in DOMAIN Stream, NEW seen, NEW write, FactOf(e, seen, write)
  PROVE  DOMAIN write = {IF Stream[e].kind = "journal" THEN FinancialFact(e) ELSE Stream[e].of}
<1>1. \A k, v : DOMAIN (k :> v) = {k}
  BY OneKey
<1>2. Stream[e].kind \in {"order", "payment", "stock", "journal"}
  BY EventTypes
<1>3. QED
  BY <1>1, <1>2 DEF FactOf

LEMMA WritesOneKey ==
  ASSUME ReportingInv, NEW c \in Call, work[c].writes # <<>>
  PROVE  \E e \in DOMAIN Stream :
           \/ HasFact(c, e) /\ DOMAIN work[c].writes[1] =
                {IF Stream[e].kind = "journal" THEN FinancialFact(e) ELSE Stream[e].of}
           \/ HasMark(c, e) /\ DOMAIN work[c].writes[1] = {Processed(e)}
<1>1. PICK e \in DOMAIN Stream : HasFact(c, e) \/ HasMark(c, e)
  BY DEF ReportingInv, ReportingWrites
<1>2. CASE HasFact(c, e)
  <2>1. PICK w : FactOf(e, work[c].seen, w) /\ work[c].writes = << w, Mark(e) >>
    BY <1>2 DEF HasFact
  <2>2. work[c].writes[1] = w
    BY <2>1, Tails
  <2>3. QED
    BY <1>2, <2>1, <2>2, FactKeys
<1>3. CASE HasMark(c, e)
  <2>1. work[c].writes[1] = Mark(e)
    BY <1>3, Tails DEF HasMark
  <2>2. DOMAIN Mark(e) = {Processed(e)}
    BY DEF Mark, :>
  <2>3. QED
    BY <1>3, <2>1, <2>2
<1>4. QED
  BY <1>1, <1>2, <1>3

\* Reporting never takes anything for an audit record.
LEMMA ReportingFindsNoDuplicate ==
  ASSUME ReportingInv, NEW c \in Call
  PROVE  ~FindDuplicate(c)
<1>1. SUFFICES ASSUME FindDuplicate(c) PROVE FALSE
  OBVIOUS
<1>2. /\ work[c].writes # <<>>
      /\ \E a \in Envelope : AuditedAs(a) \in DOMAIN work[c].writes[1]
  BY <1>1 DEF FindDuplicate, IsDuplicate
<1>3. PICK e \in DOMAIN Stream :
        DOMAIN work[c].writes[1] \subseteq {Stream[e].of, Processed(e), FinancialFact(e)}
  BY <1>2, WritesOneKey
<1>4. {Stream[e].of, Processed(e), FinancialFact(e)} \subseteq ReportingKeys
  BY DEF ReportingKeys
<1>5. \A a \in Envelope : AuditedAs(a) \in AuditKeys
  BY DEF AuditKeys
<1>6. QED
  BY <1>2, <1>3, <1>4, <1>5, EventConsumersAssumption

LEMMA PassOverMoves ==
  ASSUME ReportingInv, NEW c \in Call, PassOverFact(c), dropped' = dropped
  PROVE  ReportingMove(c)
<1>1. PICK d \in EventsOf("journal") :
        FinancialFact(d) \in DOMAIN work[c].writes[1] /\ Exists(store[FinancialFact(d)])
  BY DEF PassOverFact, IsKnownFact
<1>2. d \in DOMAIN Stream /\ work[c].writes # <<>> /\ work[c].todo = <<>>
  BY DEF EventsOf, PassOverFact, IsKnownFact, Committing
<1>3. PICK e \in DOMAIN Stream :
           \/ HasFact(c, e) /\ DOMAIN work[c].writes[1] =
                {IF Stream[e].kind = "journal" THEN FinancialFact(e) ELSE Stream[e].of}
           \/ HasMark(c, e) /\ DOMAIN work[c].writes[1] = {Processed(e)}
  BY <1>2, WritesOneKey
<1>4. HasFact(c, e) /\ Stream[e].kind = "journal"
  BY <1>1, <1>2, <1>3, KeysApart
<1>5. PICK w : work[c].writes = << w, Mark(e) >>
  BY <1>4 DEF HasFact
<1>6. /\ DOMAIN work' = Call /\ OthersStay(c)
      /\ DOMAIN work'[c] = {"op", "todo", "seen", "writes", "news"}
      /\ work'[c].op = work[c].op /\ work'[c].todo = work[c].todo
      /\ work'[c].writes = Tail(work[c].writes) /\ work'[c].news = work[c].news
      /\ store' = store /\ raced' = raced
  BY DEF PassOverFact, ReportingInv, CallsOK, IsCall, OthersStay
<1>7. CallsOK'
  BY <1>2, <1>6, CallsKept DEF ReportingInv, CallsOK, IsCall
<1>8. HasMark(c, e)'
  BY <1>5, <1>6, Tails DEF HasMark
<1>9. NotApplying(c) /\ NotApplying(c)'
  BY <1>2, <1>6, CommittingNotApplying DEF NotApplying
<1>10. Exists(store[FinancialFact(e)])
  BY <1>1, <1>2, <1>3, KeysApart
<1>11. PassesOver(c, e)
  BY <1>4, <1>6, <1>8, <1>9, <1>10 DEF PassesOver
<1>12. QED
  BY <1>6, <1>7, <1>11 DEF ReportingMove

LEMMA ReportingStep ==
  ASSUME ReportingInv, NEW c \in Call, Step(c), subscriber = "reporting"
  PROVE  ReportingMove(c)
<1>1. CASE ConsumeEvent(c)
  BY <1>1, ConsumeOrderMoves, ConsumePaymentMoves, ConsumeJournalMoves, AppendMoves, ApplyMoves
     DEF ConsumeEvent
<1>2. CASE Throw(c)
  BY <1>2, ThrowMoves
<1>3. CASE \/ Save(c) /\ dropped' = dropped
           \/ FindDuplicate(c)
           \/ PassOverFact(c) /\ dropped' = dropped
           \/ Publish(c) /\ dropped' = dropped
  BY <1>3, ReportingSaveMoves, ReportingFindsNoDuplicate, PassOverMoves, ReportingPublishMoves
<1>4. QED
  BY <1>1, <1>2, <1>3 DEF Step

-----------------------------------------------------------------------------
(***************************************************************************)
(* What the seven steps do to the records on file.                         *)
(***************************************************************************)
\* The facts of kinds other than the one saved, and those of other ids, stay.
LEMMA FactSaved ==
  ASSUME ReportingInv, NEW e \in DOMAIN Stream, NEW seen, NEW write, FactOf(e, seen, write),
         store' = write @@ store
  PROVE  /\ Stream[e].kind = "order" =>
              store'[Stream[e].of] = OrderFact(seen[Stream[e].of], Stream[e])
         /\ Stream[e].kind = "payment" => GoodPayment(store'[Stream[e].of])
         /\ Stream[e].kind = "stock" =>
              store'[Stream[e].of] = NextBalance(seen[Stream[e].of], Stream[e])
         /\ Stream[e].kind = "journal" => store'[FinancialFact(e)] \in Amounts(e)
         /\ \A x \in Key : x # (IF Stream[e].kind = "journal" THEN FinancialFact(e)
                                ELSE Stream[e].of) => store'[x] = store[x]
<1>1. Stream[e].kind \in {"order", "payment", "stock", "journal"}
  BY EventTypes
<1>2. DOMAIN write = {IF Stream[e].kind = "journal" THEN FinancialFact(e) ELSE Stream[e].of}
  BY FactKeys
<1>3. Key \subseteq DOMAIN store
  BY DEF ReportingInv, CallsOK
<1>4. \A x \in Key : x \notin DOMAIN write => store'[x] = store[x]
  BY <1>3 DEF @@
<1>5. \A x \in DOMAIN write : store'[x] = write[x]
  BY DEF @@
<1>6. CASE Stream[e].kind = "order"
  <2>1. write[Stream[e].of] = OrderFact(seen[Stream[e].of], Stream[e])
    BY <1>6 DEF FactOf, :>
  <2>2. QED
    BY <1>2, <1>4, <1>5, <1>6, <2>1
<1>7. CASE Stream[e].kind = "payment"
  <2>1. GoodPayment(write[Stream[e].of])
    BY <1>7 DEF FactOf, :>
  <2>2. QED
    BY <1>2, <1>4, <1>5, <1>7, <2>1
<1>8. CASE Stream[e].kind = "stock"
  <2>1. write[Stream[e].of] = NextBalance(seen[Stream[e].of], Stream[e])
    BY <1>8 DEF FactOf, :>
  <2>2. QED
    BY <1>2, <1>4, <1>5, <1>8, <2>1
<1>9. CASE Stream[e].kind = "journal"
  <2>1. write[FinancialFact(e)] \in Amounts(e)
    BY <1>9, OneKey DEF FactOf
  <2>2. QED
    BY <1>2, <1>4, <1>5, <1>9, <2>1
<1>10. QED
  BY <1>1, <1>6, <1>7, <1>8, <1>9

\* A mark changes nothing but itself, nor does a movement.
LEMMA MarkSaved ==
  ASSUME ReportingInv, NEW e \in DOMAIN Stream, store' = Mark(e) @@ store
  PROVE  /\ store'[Processed(e)] = TRUE
         /\ \A x \in Key : x # Processed(e) => store'[x] = store[x]
BY Put DEF Mark, ReportingInv, CallsOK

LEMMA MovementFiled ==
  ASSUME ReportingInv, NEW e \in DOMAIN Stream, store' = (MovementFact(e) :> TRUE) @@ store
  PROVE  /\ store'[MovementFact(e)] = TRUE
         /\ \A x \in Key : x # MovementFact(e) => store'[x] = store[x]
BY Put DEF ReportingInv, CallsOK

LEMMA OrderFactGood ==
  ASSUME NEW e \in EventsOf("order"), NEW fact, GoodOrder(fact)
  PROVE  /\ GoodOrder(OrderFact(fact, Stream[e]))
         /\ OrderFact(fact, Stream[e]) # NoRecord
         /\ Stream[e].type = "committed" \/ (fact # NoRecord /\ "committed" \in fact.at)
              <=> "committed" \in OrderFact(fact, Stream[e]).at
<1> DEFINE old == IF Exists(fact) THEN fact ELSE [status |-> "draft", at |-> {}, total |-> 0]
           at == old.at \union ({Stream[e].type} \intersect {"committed", "fulfilled", "cancelled"})
           total == IF Stream[e].amount # 0 THEN Stream[e].amount ELSE old.total
<1>1. e \in DOMAIN Stream
  BY DEF EventsOf
<1>2. Stream[e].type \in STRING /\ Stream[e].amount \in Int
  BY <1>1, EventTypes
<1>3. old.at \subseteq STRING /\ old.total \in Int
  BY DEF GoodOrder, OrderFacts, Exists
<1>4. at \subseteq STRING /\ total \in Int
  BY <1>2, <1>3
<1>5. OrderFact(fact, Stream[e]) = [status |-> Stream[e].type, at |-> at, total |-> total]
  BY DEF OrderFact
<1>6. "committed" \in at <=> "committed" \in old.at \/ Stream[e].type = "committed"
  OBVIOUS
<1>7. "committed" \in old.at <=> fact # NoRecord /\ "committed" \in fact.at
  BY DEF Exists
<1> HIDE DEF at, total, old
<1>8. OrderFact(fact, Stream[e]) \in OrderFacts
  BY <1>2, <1>4, <1>5 DEF OrderFacts
<1>9. QED
  BY <1>5, <1>6, <1>7, <1>8, ReportingAssumption DEF GoodOrder

LEMMA ReportingFactsKept ==
  ASSUME ReportingInv, NEW c \in Call, ReportingMove(c), NEW d \in DOMAIN Stream
  PROVE  /\ Stream[d].kind = "order" => GoodOrder(store'[Stream[d].of])
         /\ Stream[d].kind = "payment" => GoodPayment(store'[Stream[d].of])
         /\ Stream[d].kind = "stock" => GoodBalance(store'[Stream[d].of])
         /\ Stream[d].kind = "journal" =>
              store'[FinancialFact(d)] \in Amounts(d) \union {NoRecord}
<1>1. /\ Stream[d].kind = "order" => GoodOrder(store[Stream[d].of])
      /\ Stream[d].kind = "payment" => GoodPayment(store[Stream[d].of])
      /\ Stream[d].kind = "stock" => GoodBalance(store[Stream[d].of])
      /\ Stream[d].kind = "journal" =>
           store[FinancialFact(d)] \in Amounts(d) \union {NoRecord}
  BY DEF ReportingInv
<1>2. Stream[d].of \in Key /\ (Stream[d].kind = "journal" => FinancialFact(d) \in Key)
  BY EventTypes, ReportingAssumption
<1>3. CASE store' = store
  BY <1>1, <1>3
<1>4. ASSUME NEW e \in DOMAIN Stream, FilesMovement(c, e) \/ SavesMark(c, e)
      PROVE  /\ store'[Stream[d].of] = store[Stream[d].of]
             /\ Stream[d].kind = "journal" => store'[FinancialFact(d)] = store[FinancialFact(d)]
  BY <1>2, <1>4, MarkSaved, MovementFiled, KeysApart DEF FilesMovement, SavesMark
<1>5. ASSUME NEW e \in DOMAIN Stream, SavesFact(c, e)
      PROVE  /\ Stream[d].kind = "order" => GoodOrder(store'[Stream[d].of])
             /\ Stream[d].kind = "payment" => GoodPayment(store'[Stream[d].of])
             /\ Stream[d].kind = "stock" => GoodBalance(store'[Stream[d].of])
             /\ Stream[d].kind = "journal" =>
                  store'[FinancialFact(d)] \in Amounts(d) \union {NoRecord}
  <2>1. PICK write : FactOf(e, work[c].seen, write) /\ store' = write @@ store
    BY <1>5 DEF SavesFact
  <2> DEFINE seen == work[c].seen
             key == IF Stream[e].kind = "journal" THEN FinancialFact(e) ELSE Stream[e].of
  <2>2. \A x \in Key : x # key => store'[x] = store[x]
    BY <2>1, FactSaved
  <2>3. CASE Stream[d].kind # "journal" /\ Stream[d].of # key
    BY <1>1, <1>2, <2>2, <2>3
  <2>4. CASE Stream[d].kind = "journal" /\ FinancialFact(d) # key
    BY <1>1, <1>2, <2>2, <2>4
  <2>5. CASE Stream[d].kind = "journal" /\ FinancialFact(d) = key
    <3>1. d = e
      BY <2>5, KeysApart
    <3>2. QED
      BY <2>1, <2>5, <3>1, FactSaved
  <2>6. CASE Stream[d].kind # "journal" /\ Stream[d].of = key
    <3>1. Stream[e].kind # "journal" /\ Stream[d].of = Stream[e].of
      BY <2>6, KeysApart
    <3>2. Stream[d].kind = Stream[e].kind
      BY <2>6, <3>1, IdsApart, EventTypes
    <3>3. CASE Stream[e].kind = "order"
      <4>1. e \in EventsOf("order") /\ GoodOrder(seen[Stream[e].of])
        BY <2>1, <3>3 DEF EventsOf, FactOf
      <4>2. QED
        BY <2>1, <3>1, <3>2, <3>3, <4>1, FactSaved, OrderFactGood
    <3>4. CASE Stream[e].kind = "payment"
      BY <2>1, <3>1, <3>2, <3>4, FactSaved
    <3>5. CASE Stream[e].kind = "stock"
      <4>1. GoodBalance(seen[Stream[e].of]) /\ IsSane(NextBalance(seen[Stream[e].of], Stream[e]))
        BY <2>1, <3>5 DEF FactOf
      <4>2. GoodBalance(NextBalance(seen[Stream[e].of], Stream[e]))
        BY <4>1, NextBalanceType DEF GoodBalance
      <4>3. QED
        BY <2>1, <3>1, <3>2, <3>5, <4>2, FactSaved
    <3>6. QED
      BY <3>1, <3>3, <3>4, <3>5, EventTypes
  <2>7. QED
    BY <2>3, <2>4, <2>5, <2>6
<1>6. QED
  BY <1>1, <1>3, <1>4, <1>5 DEF ReportingMove, Pauses, Projects, FindsMovement, PassesOver

LEMMA ReportingInvStep ==
  ASSUME ReportingInv, NEW c \in Call, ReportingMove(c)
  PROVE  ReportingInv'
<1>1. CallsOK' /\ OthersStay(c)
  BY DEF ReportingMove
<1>2. ReportingWrites(c)'
  BY DEF ReportingMove, Pauses, Projects, FindsMovement, FilesMovement, PassesOver, SavesFact,
         SavesMark, ReportingWrites
<1>3. \A d \in Call : ReportingWrites(d)'
  <2>1. \A d \in Call \ {c} : ReportingWrites(d)'
    BY <1>1 DEF ReportingInv, OthersStay, ReportingWrites, HasFact, HasMark
  <2>2. QED
    BY <1>2, <2>1
<1>4. \A e \in DOMAIN Stream :
        Applying(c, e)' => Stream[e].kind = "stock" /\ work'[c].todo = << {Stream[e].of} >>
  <2>1. ASSUME NotApplying(c)', NEW e \in DOMAIN Stream PROVE ~Applying(c, e)'
    BY <2>1 DEF NotApplying, Applying
  <2>2. ASSUME NEW d \in DOMAIN Stream, FilesMovement(c, d), NEW e \in DOMAIN Stream, Applying(c, e)'
        PROVE  Stream[e].kind = "stock" /\ work'[c].todo = << {Stream[e].of} >>
    <3>1. <<"balance", d>> = <<"balance", e>>
      BY <2>2 DEF FilesMovement, Applying
    <3>2. d = e
      BY <3>1
    <3>3. QED
      BY <2>2, <3>2 DEF FilesMovement
  <2>3. QED
    BY <2>1, <2>2 DEF ReportingMove, Pauses, Projects, FindsMovement, PassesOver, SavesFact,
                      SavesMark
<1>5. \A d \in Call, e \in DOMAIN Stream :
        Applying(d, e)' => Stream[e].kind = "stock" /\ work'[d].todo = << {Stream[e].of} >>
  <2>1. \A d \in Call \ {c}, e \in DOMAIN Stream :
          Applying(d, e)' => Stream[e].kind = "stock" /\ work'[d].todo = << {Stream[e].of} >>
    BY <1>1 DEF ReportingInv, OthersStay, Applying
  <2>2. QED
    BY <1>4, <2>1
<1>6. QED
  BY <1>1, <1>3, <1>5, ReportingFactsKept DEF ReportingInv

\* Reporting leaves the repositories of Audit alone.
LEMMA ReportingKeysOnly ==
  ASSUME ReportingInv, NEW c \in Call, ReportingMove(c), NEW k \in Key \ ReportingKeys
  PROVE  store'[k] = store[k]
<1>1. \A e \in DOMAIN Stream :
        {Stream[e].of, Processed(e), MovementFact(e), FinancialFact(e)} \subseteq ReportingKeys
  BY DEF ReportingKeys
<1>2. ASSUME NEW e \in DOMAIN Stream, SavesFact(c, e) PROVE store'[k] = store[k]
  BY <1>1, <1>2, FactSaved DEF SavesFact
<1>3. ASSUME NEW e \in DOMAIN Stream, FilesMovement(c, e) \/ SavesMark(c, e)
      PROVE  store'[k] = store[k]
  BY <1>1, <1>3, MarkSaved, MovementFiled DEF FilesMovement, SavesMark
<1>4. QED
  BY <1>2, <1>3 DEF ReportingMove, Pauses, Projects, FindsMovement, PassesOver

\* What a call is about to write tells the event it projects.
LEMMA WriteShapes ==
  ASSUME NEW d \in DOMAIN Stream, NEW e \in DOMAIN Stream, NEW v, NEW w
  PROVE  /\ << v, Mark(d) >> = << w, Mark(e) >> => d = e
         /\ << Mark(d) >> = << Mark(e) >> => d = e
         /\ << v, Mark(d) >> # << Mark(e) >>
         /\ << v, Mark(d) >> # <<>> /\ << Mark(d) >> # <<>>
<1>1. /\ << v, Mark(d) >> = << w, Mark(e) >> => Mark(d) = Mark(e)
      /\ << Mark(d) >> = << Mark(e) >> => Mark(d) = Mark(e)
  BY Tails
<1>2. Len(<< v, Mark(d) >>) = 2 /\ Len(<< Mark(e) >>) = 1
  BY Tails
<1>3. QED
  BY <1>1, <1>2, KeysApart, Tails

LEMMA OneFact ==
  ASSUME NEW c \in Call, NEW d \in DOMAIN Stream, NEW e \in DOMAIN Stream
  PROVE  /\ HasFact(c, d) /\ HasFact(c, e) => d = e
         /\ HasMark(c, d) /\ HasMark(c, e) => d = e
         /\ ~(HasMark(c, d) /\ HasFact(c, e))
         /\ work[c].writes = <<>> => ~HasFact(c, d) /\ ~HasMark(c, d)
BY WriteShapes DEF HasFact, HasMark

\* A fact comes from a read, a mark behind its fact; marks are saved and stay.
LEMMA FactComes ==
  ASSUME ReportingInv, NEW c \in Call, ReportingMove(c), NEW e \in DOMAIN Stream
  PROVE  /\ HasFact(c, e)' => Projects(c, e)
         /\ HasMark(c, e)' => SavesFact(c, e) \/ PassesOver(c, e) \/ FindsMovement(c, e)
         /\ HasMark(c, e) => SavesMark(c, e)
         /\ store'[Processed(e)] # store[Processed(e)] => SavesMark(c, e)
<1>1. Processed(e) \in Key
  BY ReportingAssumption
<1>2. ASSUME HasFact(c, e)' PROVE Projects(c, e)
  <2>1. \A d \in DOMAIN Stream : ~HasMark(c, d)' /\ (HasFact(c, d)' => d = e)
    BY <1>2, WriteShapes DEF HasFact, HasMark
  <2>2. work'[c].writes # <<>>
    BY <1>2, WriteShapes DEF HasFact
  <2>3. QED
    BY <2>1, <2>2 DEF ReportingMove, Pauses, Projects, FindsMovement, FilesMovement, PassesOver,
                      SavesFact, SavesMark
<1>3. ASSUME HasMark(c, e)' PROVE SavesFact(c, e) \/ PassesOver(c, e) \/ FindsMovement(c, e)
  <2>1. \A d \in DOMAIN Stream : ~HasFact(c, d)' /\ (HasMark(c, d)' => d = e)
    BY <1>3, WriteShapes DEF HasFact, HasMark
  <2>2. work'[c].writes # <<>>
    BY <1>3, WriteShapes DEF HasMark
  <2>3. QED
    BY <2>1, <2>2 DEF ReportingMove, Pauses, Projects, FindsMovement, FilesMovement, PassesOver,
                      SavesFact, SavesMark
<1>4. ASSUME HasMark(c, e) PROVE SavesMark(c, e)
  <2>1. \A d \in DOMAIN Stream : ~HasFact(c, d) /\ (HasMark(c, d) => d = e)
    BY <1>4, OneFact
  <2>2. work[c].writes # <<>>
    BY <1>4, OneFact
  <2>3. \A d \in DOMAIN Stream : ~SavesFact(c, d)
    BY <2>1 DEF SavesFact, HasFact
  <2>4. QED
    BY <2>1, <2>2, <2>3 DEF ReportingMove, Pauses, Projects, FindsMovement, FilesMovement,
                            PassesOver, SavesMark
<1>5. ASSUME store'[Processed(e)] # store[Processed(e)] PROVE SavesMark(c, e)
  <2>1. ASSUME NEW d \in DOMAIN Stream, SavesFact(c, d) PROVE FALSE
    BY <1>1, <1>5, <2>1, FactSaved, KeysApart DEF SavesFact
  <2>2. ASSUME NEW d \in DOMAIN Stream, FilesMovement(c, d) PROVE FALSE
    BY <1>1, <1>5, <2>2, MovementFiled, KeysApart DEF FilesMovement
  <2>3. ASSUME NEW d \in DOMAIN Stream, SavesMark(c, d) PROVE d = e
    BY <1>1, <1>5, <2>3, MarkSaved, KeysApart DEF SavesMark
  <2>4. QED
    BY <1>5, <2>1, <2>2, <2>3 DEF ReportingMove, Pauses, Projects, FindsMovement, PassesOver
<1>6. QED
  BY <1>2, <1>3, <1>4, <1>5

\* An event is marked, or will be before its call returns.
Marked(e) == Exists(store[Processed(e)]) \/ \E c \in Call : HasMark(c, e)

LEMMA MarkedStays ==
  ASSUME ReportingInv, NEW c \in Call, ReportingMove(c), NEW e \in DOMAIN Stream
  PROVE  /\ Exists(store[Processed(e)]) => Exists(store[Processed(e)])'
         /\ Marked(e) => Marked(e)'
<1>1. SavesMark(c, e) => Exists(store[Processed(e)])'
  BY MarkSaved, ReportingAssumption DEF SavesMark, Exists
<1>2. Exists(store[Processed(e)]) => Exists(store[Processed(e)])'
  BY <1>1, FactComes DEF Exists
<1>3. ASSUME NEW d \in Call, HasMark(d, e) PROVE Marked(e)'
  <2>1. CASE d = c
    BY <1>1, <1>3, <2>1, FactComes DEF Marked
  <2>2. CASE d # c
    BY <1>3, <2>2 DEF Marked, ReportingMove, OthersStay, HasMark
  <2>3. QED
    BY <2>1, <2>2
<1>4. QED
  BY <1>2, <1>3 DEF Marked

-----------------------------------------------------------------------------
(***************************************************************************)
(* Committed orders are counted: the commitment is on file by the time the *)
(* event is marked, and only a stale save takes it off again.              *)
(***************************************************************************)
Counted(o) == Exists(store[o]) /\ "committed" \in store[o].at

OrdersCounted ==
  \A e \in EventsOf("order") :
    Stream[e].type = "committed" /\ Stream[e].of \notin raced =>
      /\ Exists(store[Processed(e)]) => Counted(Stream[e].of)
      /\ \A c \in Call : HasMark(c, e) => Counted(Stream[e].of)

LEMMA CountedStays ==
  ASSUME ReportingInv, NEW c \in Call, ReportingMove(c), NEW e \in EventsOf("order"),
         Stream[e].of \notin raced', Counted(Stream[e].of)
  PROVE  Counted(Stream[e].of)'
<1>1. e \in DOMAIN Stream /\ Stream[e].kind = "order" /\ Stream[e].of \in Key
  BY EventTypes DEF EventsOf
<1>2. ASSUME NEW d \in DOMAIN Stream, FilesMovement(c, d) \/ SavesMark(c, d)
      PROVE  store'[Stream[e].of] = store[Stream[e].of]
  BY <1>1, <1>2, MarkSaved, MovementFiled, KeysApart DEF FilesMovement, SavesMark
<1>3. ASSUME NEW d \in DOMAIN Stream, SavesFact(c, d)
      PROVE  Counted(Stream[e].of)'
  <2>1. PICK write : /\ FactOf(d, work[c].seen, write) /\ store' = write @@ store
                     /\ \A k \in DOMAIN write : k \notin raced' =>
                          \A s \in DOMAIN work[c].seen : work[c].seen[s] = store[s]
    BY <1>3 DEF SavesFact
  <2> DEFINE key == IF Stream[d].kind = "journal" THEN FinancialFact(d) ELSE Stream[d].of
  <2>2. CASE Stream[e].of # key
    BY <1>1, <2>1, <2>2, FactSaved DEF Counted
  <2>3. CASE Stream[e].of = key
    <3>1. Stream[d].of = Stream[e].of /\ Stream[d].kind = "order"
      BY <1>1, <2>3, KeysApart, IdsApart
    <3>2. Stream[e].of \in DOMAIN write
      BY <2>1, <2>3, FactKeys
    <3>3. /\ Stream[e].of \in DOMAIN work[c].seen
          /\ work[c].seen[Stream[e].of] = store[Stream[e].of]
          /\ GoodOrder(store[Stream[e].of])
      BY <2>1, <3>1, <3>2 DEF FactOf
    <3>4. store'[Stream[e].of] = OrderFact(store[Stream[e].of], Stream[d])
      BY <2>1, <3>1, <3>3, FactSaved
    <3>5. d \in EventsOf("order")
      BY <3>1 DEF EventsOf
    <3>6. QED
      BY <3>1, <3>3, <3>4, <3>5, OrderFactGood DEF Counted, Exists
  <2>4. QED
    BY <2>2, <2>3
<1>4. QED
  BY <1>2, <1>3 DEF ReportingMove, Pauses, Projects, FindsMovement, PassesOver, Counted

LEMMA OrdersCountedStep ==
  ASSUME ReportingInv, OrdersCounted, NEW c \in Call, ReportingMove(c)
  PROVE  OrdersCounted'
<1>1. SUFFICES ASSUME NEW e \in EventsOf("order"), Stream[e].type = "committed",
                      Stream[e].of \notin raced'
               PROVE  /\ Exists(store[Processed(e)])' => Counted(Stream[e].of)'
                      /\ \A d \in Call : HasMark(d, e)' => Counted(Stream[e].of)'
  BY DEF OrdersCounted, EventsOf
<1>2. /\ e \in DOMAIN Stream /\ Stream[e].kind = "order" /\ Stream[e].of \in Key
      /\ Processed(e) \in Key
  BY EventTypes, ReportingAssumption DEF EventsOf
<1>3. Stream[e].of \notin raced
  BY <1>1 DEF ReportingMove
<1>4. Counted(Stream[e].of) => Counted(Stream[e].of)'
  BY <1>1, CountedStays
<1>5. ASSUME HasMark(c, e)' PROVE Counted(Stream[e].of)'
  <2>1. SavesFact(c, e)
    BY <1>2, <1>5, FactComes DEF PassesOver, FindsMovement
  <2>2. PICK write : /\ FactOf(e, work[c].seen, write) /\ store' = write @@ store
    BY <2>1 DEF SavesFact
  <2>3. store'[Stream[e].of] = OrderFact(work[c].seen[Stream[e].of], Stream[e])
    BY <1>2, <2>2, FactSaved
  <2>4. GoodOrder(work[c].seen[Stream[e].of])
    BY <1>2, <2>2 DEF FactOf
  <2>5. QED
    BY <1>1, <2>3, <2>4, OrderFactGood DEF Counted, Exists
<1>6. ASSUME NEW d \in Call, HasMark(d, e)' PROVE Counted(Stream[e].of)'
  <2>1. CASE d = c
    BY <1>5, <1>6, <2>1
  <2>2. CASE d # c
    <3>1. HasMark(d, e)
      BY <1>6, <2>2 DEF ReportingMove, OthersStay, HasMark
    <3>2. QED
      BY <1>1, <1>3, <1>4, <3>1 DEF OrdersCounted
  <2>3. QED
    BY <2>1, <2>2
<1>7. ASSUME Exists(store[Processed(e)])' PROVE Counted(Stream[e].of)'
  <2>1. CASE Exists(store[Processed(e)])
    BY <1>1, <1>3, <1>4, <2>1 DEF OrdersCounted
  <2>2. CASE store'[Processed(e)] # store[Processed(e)]
    <3>1. SavesMark(c, e)
      BY <1>2, <2>2, FactComes
    <3>2. HasMark(c, e)
      BY <3>1 DEF SavesMark
    <3>3. QED
      BY <1>1, <1>3, <1>4, <3>2 DEF OrdersCounted
  <2>3. QED
    BY <1>7, <2>1, <2>2 DEF Exists
<1>8. QED
  BY <1>6, <1>7

-----------------------------------------------------------------------------
(***************************************************************************)
(* And no other order is: a fact says "committed" only after a commitment  *)
(* whose mark is saved or is the next thing its call saves.                *)
(***************************************************************************)
Traced(o) == \E x \in EventsOf("order") :
               Stream[x].of = o /\ Stream[x].type = "committed" /\ Marked(x)

CommitsTraced ==
  \A e \in EventsOf("order") :
    /\ Counted(Stream[e].of) => Traced(Stream[e].of)
    /\ \A c \in Call : LET seen == work[c].seen[Stream[e].of] IN
         HasFact(c, e) /\ seen # NoRecord /\ "committed" \in seen.at => Traced(Stream[e].of)

LEMMA CommitsTracedStep ==
  ASSUME ReportingInv, CommitsTraced, NEW c \in Call, ReportingMove(c)
  PROVE  CommitsTraced'
<1>1. ASSUME NEW o, Traced(o) PROVE Traced(o)'
  BY <1>1, MarkedStays DEF Traced, EventsOf
<1>2. SUFFICES ASSUME NEW e \in EventsOf("order")
               PROVE  /\ Counted(Stream[e].of)' => Traced(Stream[e].of)'
                      /\ \A d \in Call : LET seen == work'[d].seen[Stream[e].of] IN
                           HasFact(d, e)' /\ seen # NoRecord /\ "committed" \in seen.at =>
                             Traced(Stream[e].of)'
  BY DEF CommitsTraced, EventsOf
<1>3. e \in DOMAIN Stream /\ Stream[e].kind = "order" /\ Stream[e].of \in Key
  BY EventTypes DEF EventsOf
<1>4. ASSUME NEW d \in Call, HasFact(d, e)', work'[d].seen[Stream[e].of] # NoRecord,
             "committed" \in work'[d].seen[Stream[e].of].at
      PROVE  Traced(Stream[e].of)'
  <2>1. CASE d = c
    <3>1. Counted(Stream[e].of)
      BY <1>3, <1>4, <2>1, FactComes DEF Projects, Counted, Exists
    <3>2. QED
      BY <1>1, <3>1 DEF CommitsTraced
  <2>2. CASE d # c
    <3>1. work'[d] = work[d] /\ HasFact(d, e)
      BY <1>4, <2>2 DEF ReportingMove, OthersStay, HasFact
    <3>2. QED
      BY <1>1, <1>4, <3>1 DEF CommitsTraced
  <2>3. QED
    BY <2>1, <2>2
<1>5. ASSUME Counted(Stream[e].of)' PROVE Traced(Stream[e].of)'
  <2>1. CASE store'[Stream[e].of] = store[Stream[e].of]
    BY <1>1, <1>5, <2>1 DEF CommitsTraced, Counted
  <2>2. CASE store'[Stream[e].of] # store[Stream[e].of]
    <3>1. PICK x \in DOMAIN Stream : SavesFact(c, x)
      BY <1>3, <2>2, MarkSaved, MovementFiled, KeysApart
         DEF ReportingMove, Pauses, Projects, FindsMovement, FilesMovement, PassesOver, SavesMark
    <3>2. PICK write : FactOf(x, work[c].seen, write) /\ store' = write @@ store
      BY <3>1 DEF SavesFact
    <3>3. Stream[e].of = (IF Stream[x].kind = "journal" THEN FinancialFact(x) ELSE Stream[x].of)
      BY <1>3, <2>2, <3>2, FactSaved
    <3>4. Stream[x].of = Stream[e].of /\ Stream[x].kind = "order" /\ x \in EventsOf("order")
      BY <1>3, <3>3, KeysApart, IdsApart DEF EventsOf
    <3> DEFINE seen == work[c].seen[Stream[x].of]
    <3>5. GoodOrder(seen) /\ store'[Stream[x].of] = OrderFact(seen, Stream[x])
      BY <3>2, <3>4, FactSaved DEF FactOf
    <3>6. Stream[x].type = "committed" \/ (seen # NoRecord /\ "committed" \in seen.at)
      BY <1>5, <3>4, <3>5, OrderFactGood DEF Counted
    <3>7. CASE Stream[x].type = "committed"
      BY <3>1, <3>4, <3>7 DEF SavesFact, Traced, Marked
    <3>8. CASE seen # NoRecord /\ "committed" \in seen.at
      <4>1. HasFact(c, x)
        BY <3>1 DEF SavesFact, HasFact
      <4>2. QED
        BY <1>1, <3>4, <3>8, <4>1 DEF CommitsTraced
    <3>9. QED
      BY <3>6, <3>7, <3>8
  <2>3. QED
    BY <2>1, <2>2
<1>6. QED
  BY <1>4, <1>5

-----------------------------------------------------------------------------
(***************************************************************************)
(* Payment facts and journals: a mark stands behind a fact, and a fact     *)
(* comes from an event that was delivered.                                 *)
(***************************************************************************)
FactKey(e) == IF Stream[e].kind = "journal" THEN FinancialFact(e) ELSE Stream[e].of

Money == EventsOf("payment") \union EventsOf("journal")

Deliveries ==
  /\ InHand \subseteq delivered
  /\ \A c \in Call, e \in Money : HasFact(c, e) => e \in delivered
  /\ \A e \in Money : Marked(e) => Exists(store[FactKey(e)])
  /\ \A e \in EventsOf("payment") : Exists(store[Stream[e].of]) =>
       /\ store[Stream[e].of].last \in EventsOf("payment") \intersect delivered
       /\ Stream[store[Stream[e].of].last].of = Stream[e].of
  /\ \A e \in EventsOf("journal") : Exists(store[FinancialFact(e)]) => e \in delivered

LEMMA MoneyTypes ==
  ASSUME NEW e \in Money
  PROVE  /\ e \in DOMAIN Stream /\ Stream[e].kind \in {"payment", "journal"}
         /\ FactKey(e) \in Key /\ \A d \in DOMAIN Stream : FactKey(e) # Processed(d)
         /\ \A d \in DOMAIN Stream : FactKey(e) # MovementFact(d)
BY EventTypes, KeysApart, ReportingAssumption DEF Money, EventsOf, FactKey

\* The record of a payment or a journal changes when a fact of its own is saved.
LEMMA MoneySaved ==
  ASSUME ReportingInv, NEW c \in Call, ReportingMove(c), NEW e \in Money,
         store'[FactKey(e)] # store[FactKey(e)]
  PROVE  \E x \in Money :
           /\ SavesFact(c, x) /\ HasFact(c, x) /\ FactKey(x) = FactKey(e)
           /\ Stream[x].kind = Stream[e].kind
           /\ Stream[e].kind = "journal" => x = e
           /\ Stream[e].kind = "payment" => Stream[x].of = Stream[e].of
<1>1. /\ e \in DOMAIN Stream /\ Stream[e].kind \in {"payment", "journal"} /\ FactKey(e) \in Key
      /\ \A d \in DOMAIN Stream : FactKey(e) # Processed(d) /\ FactKey(e) # MovementFact(d)
  BY MoneyTypes
<1>2. PICK x \in DOMAIN Stream : SavesFact(c, x)
  BY <1>1, MarkSaved, MovementFiled
     DEF ReportingMove, Pauses, Projects, FindsMovement, FilesMovement, PassesOver, SavesMark
<1>3. FactKey(x) = FactKey(e)
  BY <1>1, <1>2, FactSaved DEF SavesFact, FactKey
<1>4. CASE Stream[e].kind = "journal"
  <2>1. Stream[x].kind = "journal" /\ x = e
    BY <1>1, <1>3, <1>4, KeysApart DEF FactKey
  <2>2. QED
    BY <1>2, <1>3, <1>4, <2>1 DEF SavesFact, HasFact
<1>5. CASE Stream[e].kind = "payment"
  <2>1. Stream[x].kind # "journal" /\ Stream[x].of = Stream[e].of
    BY <1>1, <1>3, <1>5, KeysApart DEF FactKey
  <2>2. Stream[x].kind = "payment"
    BY <1>1, <1>5, <2>1, IdsApart
  <2>3. x \in Money
    BY <2>2 DEF Money, EventsOf
  <2>4. QED
    BY <1>2, <1>3, <1>5, <2>1, <2>2, <2>3 DEF SavesFact, HasFact
<1>6. QED
  BY <1>1, <1>4, <1>5

\* What a fact of a payment or a journal leaves behind.
LEMMA MoneyFact ==
  ASSUME ReportingInv, NEW c \in Call, ReportingMove(c), NEW e \in Money, SavesFact(c, e)
  PROVE  /\ Exists(store'[FactKey(e)])
         /\ Stream[e].kind = "payment" => store'[Stream[e].of].last = e
         /\ Stream[e].kind = "journal" =>
              \A v : work[c].writes[1] = FinancialFact(e) :> v => store'[FinancialFact(e)] = v
<1>1. e \in DOMAIN Stream /\ Stream[e].kind \in {"payment", "journal"} /\ FactKey(e) \in Key
  BY MoneyTypes
<1>2. PICK write : /\ FactOf(e, work[c].seen, write) /\ work[c].writes = << write, Mark(e) >>
                   /\ store' = write @@ store
  BY DEF SavesFact
<1>3. ASSUME NEW k, NEW v, write = k :> v PROVE store'[k] = v
  <2>1. store' = (k :> v) @@ store
    BY <1>2, <1>3
  <2>2. QED
    BY <2>1, OneMerged
<1>4. CASE Stream[e].kind = "payment"
  <2>1. PICK fact \in PaymentFacts : fact.last = e /\ write = Stream[e].of :> fact
    BY <1>2, <1>4 DEF FactOf
  <2>2. QED
    BY <1>3, <1>4, <2>1, ReportingAssumption DEF FactKey, Exists
<1>5. CASE Stream[e].kind = "journal"
  <2>1. PICK amount \in Amounts(e) : write = FinancialFact(e) :> amount
    BY <1>2, <1>5 DEF FactOf
  <2>2. amount \in Int
    BY EventTypes DEF Amounts
  <2>3. work[c].writes[1] = write
    BY <1>2
  <2>4. QED
    BY <1>3, <1>5, <2>1, <2>2, <2>3, ReportingAssumption DEF FactKey, Exists
<1>6. QED
  BY <1>1, <1>4, <1>5

LEMMA DeliveriesStep ==
  ASSUME ReportingInv, Deliveries, NEW c \in Call, ReportingMove(c),
         delivered' = delivered \union InHand'
  PROVE  Deliveries'
<1>1. \A d \in Call, e \in Money : HasFact(d, e)' => e \in delivered
  <2>1. SUFFICES ASSUME NEW d \in Call, NEW e \in Money, HasFact(d, e)'
                 PROVE  e \in delivered
    OBVIOUS
  <2>2. e \in DOMAIN Stream
    BY MoneyTypes
  <2>3. CASE d = c
    BY <2>1, <2>2, <2>3, FactComes DEF Projects, Deliveries
  <2>4. CASE d # c
    BY <2>1, <2>4 DEF ReportingMove, OthersStay, HasFact, Deliveries
  <2>5. QED
    BY <2>3, <2>4
<1>2. ASSUME NEW e \in Money, Exists(store[FactKey(e)]) PROVE Exists(store'[FactKey(e)])
  <2>1. CASE store'[FactKey(e)] = store[FactKey(e)]
    BY <1>2, <2>1
  <2>2. CASE store'[FactKey(e)] # store[FactKey(e)]
    BY <2>2, MoneySaved, MoneyFact
  <2>3. QED
    BY <2>1, <2>2
<1>3. ASSUME NEW e \in Money, Marked(e)' PROVE Exists(store'[FactKey(e)])
  <2>1. e \in DOMAIN Stream /\ Stream[e].kind \in {"payment", "journal"}
    BY MoneyTypes
  <2>2. CASE Marked(e)
    BY <1>2, <2>2 DEF Deliveries
  <2>3. CASE ~Marked(e)
    <3>1. store'[Processed(e)] = store[Processed(e)]
      BY <2>1, <2>3, FactComes DEF Marked, SavesMark
    <3>2. PICK d \in Call : HasMark(d, e)'
      BY <1>3, <2>3, <3>1 DEF Marked, Exists
    <3>3. d = c
      BY <2>3, <3>2 DEF ReportingMove, OthersStay, Marked, HasMark
    <3>4. SavesFact(c, e) \/ PassesOver(c, e)
      BY <2>1, <3>2, <3>3, FactComes DEF FindsMovement
    <3>5. CASE SavesFact(c, e)
      BY <3>5, MoneyFact
    <3>6. CASE PassesOver(c, e)
      BY <1>2, <3>6 DEF PassesOver, FactKey
    <3>7. QED
      BY <3>4, <3>5, <3>6
  <2>4. QED
    BY <2>2, <2>3
<1>4. ASSUME NEW e \in EventsOf("payment"), Exists(store'[Stream[e].of])
      PROVE  /\ store'[Stream[e].of].last \in EventsOf("payment") \intersect delivered'
             /\ Stream[store'[Stream[e].of].last].of = Stream[e].of
  <2>1. e \in Money /\ Stream[e].kind = "payment" /\ FactKey(e) = Stream[e].of
    BY DEF Money, EventsOf, FactKey
  <2>2. CASE store'[Stream[e].of] = store[Stream[e].of]
    BY <1>4, <2>2 DEF Deliveries
  <2>3. CASE store'[Stream[e].of] # store[Stream[e].of]
    <3>1. PICK x \in Money : /\ SavesFact(c, x) /\ HasFact(c, x) /\ Stream[x].kind = "payment"
                             /\ Stream[x].of = Stream[e].of
      BY <2>1, <2>3, MoneySaved
    <3>2. store'[Stream[x].of].last = x
      BY <3>1, MoneyFact
    <3>3. x \in EventsOf("payment") /\ x \in delivered
      BY <3>1 DEF Deliveries, EventsOf, Money
    <3>4. QED
      BY <3>1, <3>2, <3>3
  <2>4. QED
    BY <2>2, <2>3
<1>5. ASSUME NEW e \in EventsOf("journal"), Exists(store'[FinancialFact(e)])
      PROVE  e \in delivered
  <2>1. e \in Money /\ Stream[e].kind = "journal" /\ FactKey(e) = FinancialFact(e)
    BY DEF Money, EventsOf, FactKey
  <2>2. CASE store'[FinancialFact(e)] = store[FinancialFact(e)]
    BY <1>5, <2>2 DEF Deliveries
  <2>3. CASE store'[FinancialFact(e)] # store[FinancialFact(e)]
    <3>1. HasFact(c, e)
      BY <2>1, <2>3, MoneySaved
    <3>2. QED
      BY <2>1, <3>1 DEF Deliveries
  <2>4. QED
    BY <2>2, <2>3
<1>6. QED
  BY <1>1, <1>3, <1>4, <1>5 DEF Deliveries, EventsOf, Money

-----------------------------------------------------------------------------
(***************************************************************************)
(* A timely journal finds its payment, while its capture is the last event *)
(* of the payment that was delivered.                                      *)
(***************************************************************************)
Captured(e) == Stream[Stream[e].source].amount

TimelyInFull ==
  \A e \in timely :
    /\ e \in CaptureJournals /\ Exists(store[Processed(Stream[e].source)])
    /\ IsLastOfPayment(Stream[e].source) =>
         /\ Exists(store[FinancialFact(e)]) => store[FinancialFact(e)] = Captured(e)
         /\ \A c \in Call : HasFact(c, e) => work[c].writes[1] = FinancialFact(e) :> Captured(e)

LEMMA CaptureTypes ==
  ASSUME NEW e \in CaptureJournals
  PROVE  /\ e \in DOMAIN Stream /\ e \in EventsOf("journal") /\ e \in Money
         /\ Stream[e].kind = "journal"
         /\ Stream[e].source \in EventsOf("payment") /\ Stream[e].source \in Money
         /\ Stream[e].source \in DOMAIN Stream
         /\ Captured(e) \in Int /\ Captured(e) > 0
<1>1. e \in DOMAIN Stream /\ Stream[e].kind = "journal" /\ Stream[e].type = "captured"
  BY DEF CaptureJournals, EventsOf
<1>2. Stream[e].source \in DOMAIN Stream /\ Stream[Stream[e].source].kind = "payment"
  BY <1>1, ReportingAssumption
<1>3. Stream[Stream[e].source].amount > 0
  BY <1>2, ReportingAssumption
<1>4. QED
  BY <1>1, <1>2, <1>3, EventTypes DEF CaptureJournals, EventsOf, Money, Captured

LEMMA ValuedInFull ==
  ASSUME ReportingInv, Deliveries, NEW e \in CaptureJournals,
         Exists(store[Processed(Stream[e].source)]), IsLastOfPayment(Stream[e].source)
  PROVE  Valued(e) = FinancialFact(e) :> Captured(e)
<1> DEFINE s == Stream[e].source
           p == Stream[s].of
           found == {q \in DOMAIN Answers(Payments) :
                       Exists(Answers(Payments)[q]) /\ Answers(Payments)[q].last = s}
<1>1. s \in EventsOf("payment") /\ s \in Money /\ s \in DOMAIN Stream /\ Stream[s].kind = "payment"
  BY CaptureTypes DEF EventsOf
<1>2. p \in Payments /\ FactKey(s) = p
  BY <1>1 DEF Payments, FactKey
<1>3. Exists(store[p])
  BY <1>1, <1>2 DEF Deliveries, Marked
<1>4. store[p].last = s
  BY <1>1, <1>3 DEF Deliveries, IsLastOfPayment
<1>5. found = {q \in Payments : Exists(store[q]) /\ store[q].last = s}
  BY DEF Answers
<1>6. ASSUME NEW q \in found PROVE q = p
  <2>1. q \in Payments /\ Exists(store[q]) /\ store[q].last = s
    BY <1>5
  <2>2. PICK x \in EventsOf("payment") : Stream[x].of = q
    BY <2>1 DEF Payments, EventsOf
  <2>3. QED
    BY <2>1, <2>2 DEF Deliveries
<1>7. p \in found
  BY <1>2, <1>3, <1>4, <1>5
<1>8. (CHOOSE q \in found : TRUE) = p
  <2> HIDE DEF found
  <2>1. QED
    BY <1>6, <1>7
<1>9. Answers(Payments)[p].amount = Stream[s].amount
  BY <1>1, <1>2, <1>3, <1>4 DEF ReportingInv, GoodPayment, Exists, Answers
<1>10. AmountFor(Answers(Payments), s) = Stream[s].amount
  BY <1>7, <1>8, <1>9 DEF AmountFor
<1>11. QED
  BY <1>10 DEF Valued, Captured

LEMMA TimelyStep ==
  ASSUME ReportingInv, Deliveries, TimelyInFull, NEW c \in Call, ReportingMove(c),
         delivered' = delivered \union InHand',
         timely' = timely \union {e \in CaptureJournals \intersect (delivered' \ delivered) :
                                     Exists(store[Processed(Stream[e].source)])}
  PROVE  TimelyInFull'
<1>1. SUFFICES ASSUME NEW e \in timely'
               PROVE  /\ e \in CaptureJournals /\ Exists(store'[Processed(Stream[e].source)])
                      /\ IsLastOfPayment(Stream[e].source)' =>
                           /\ Exists(store'[FinancialFact(e)]) => store'[FinancialFact(e)] = Captured(e)
                           /\ \A d \in Call : HasFact(d, e)' =>
                                work'[d].writes[1] = FinancialFact(e) :> Captured(e)
  BY DEF TimelyInFull, CaptureJournals, EventsOf, Captured
<1>2. /\ e \in CaptureJournals /\ Exists(store[Processed(Stream[e].source)])
      /\ e \in timely \/ e \notin delivered
  BY <1>1 DEF TimelyInFull
<1>3. /\ e \in DOMAIN Stream /\ e \in EventsOf("journal") /\ e \in Money
      /\ Stream[e].kind = "journal" /\ Stream[e].source \in DOMAIN Stream
      /\ FactKey(e) = FinancialFact(e)
  BY <1>2, CaptureTypes DEF FactKey
<1>4. Exists(store'[Processed(Stream[e].source)])
  BY <1>2, <1>3, MarkedStays
<1>5. ASSUME IsLastOfPayment(Stream[e].source)' PROVE IsLastOfPayment(Stream[e].source)
  BY <1>5 DEF IsLastOfPayment, EventsOf
\* Nothing is known of a journal that was not delivered.
<1>6. ASSUME e \notin delivered
      PROVE  ~Exists(store[FinancialFact(e)]) /\ \A d \in Call : ~HasFact(d, e)
  BY <1>3, <1>6 DEF Deliveries
<1>7. ASSUME IsLastOfPayment(Stream[e].source)', Exists(store'[FinancialFact(e)])
      PROVE  store'[FinancialFact(e)] = Captured(e)
  <2>1. CASE store'[FinancialFact(e)] = store[FinancialFact(e)]
    BY <1>2, <1>5, <1>6, <1>7, <2>1 DEF TimelyInFull
  <2>2. CASE store'[FinancialFact(e)] # store[FinancialFact(e)]
    <3>1. SavesFact(c, e) /\ HasFact(c, e)
      BY <1>3, <2>2, MoneySaved
    <3>2. work[c].writes[1] = FinancialFact(e) :> Captured(e)
      BY <1>2, <1>5, <1>6, <1>7, <3>1 DEF TimelyInFull
    <3>3. QED
      BY <1>3, <3>1, <3>2, MoneyFact
  <2>3. QED
    BY <2>1, <2>2
<1>8. ASSUME IsLastOfPayment(Stream[e].source)', NEW d \in Call, HasFact(d, e)'
      PROVE  work'[d].writes[1] = FinancialFact(e) :> Captured(e)
  <2>1. CASE d = c
    <3>1. work'[c].writes[1] = Valued(e)
      BY <1>3, <1>8, <2>1, FactComes DEF Projects
    <3>2. QED
      BY <1>2, <1>5, <1>8, <2>1, <3>1, ValuedInFull
  <2>2. CASE d # c
    <3>1. work'[d] = work[d] /\ HasFact(d, e)
      BY <1>8, <2>2 DEF ReportingMove, OthersStay, HasFact
    <3>2. QED
      BY <1>2, <1>5, <1>6, <1>8, <3>1 DEF TimelyInFull
  <2>3. QED
    BY <2>1, <2>2
<1>9. QED
  BY <1>2, <1>4, <1>7, <1>8

-----------------------------------------------------------------------------
(***************************************************************************)
(* A balance counts the movements on file but those a call is applying and *)
(* those whose projection threw.                                           *)
(***************************************************************************)
OnFile(e) == Exists(store[MovementFact(e)])

Applies(c, e) == Applying(c, e) \/ (Stream[e].kind = "stock" /\ HasFact(c, e))

Settled(sku) ==
  {e \in EventsOf("stock") : /\ Stream[e].of = sku /\ OnFile(e) /\ e \notin dropped
                             /\ \A c \in Call : ~Applies(c, e)}

CountOf(sku) == IF Exists(store[sku]) THEN store[sku].count ELSE 0

BalancesCount ==
  /\ \A e \in EventsOf("stock"), c \in Call : Applies(c, e) => OnFile(e) /\ e \notin dropped
  /\ \A e \in EventsOf("stock") : e \in dropped => OnFile(e)
  /\ \A e \in EventsOf("stock"), c, d \in Call : Applies(c, e) /\ Applies(d, e) => c = d
  /\ \A e \in EventsOf("stock") : Stream[e].of \notin raced =>
       CountOf(Stream[e].of) = Cardinality(Settled(Stream[e].of))

\* What a step does to one movement.
MovementStays(c, e) ==
  OnFile(e)' = OnFile(e) /\ (e \in dropped' <=> e \in dropped) /\ (Applies(c, e)' <=> Applies(c, e))

MovementFiles(c, e) ==
  ~OnFile(e) /\ OnFile(e)' /\ (e \in dropped' <=> e \in dropped) /\ Applies(c, e)'

MovementDrops(c, e) ==
  OnFile(e)' = OnFile(e) /\ Applies(c, e) /\ e \in dropped' /\ ~Applies(c, e)'

MovementSaves(c, e) ==
  /\ OnFile(e)' = OnFile(e) /\ (e \in dropped' <=> e \in dropped)
  /\ Applies(c, e) /\ ~Applies(c, e)'
  /\ SavesFact(c, e)

LEMMA MovementKept ==
  ASSUME ReportingInv, NEW c \in Call, ReportingMove(c), NEW e \in EventsOf("stock"),
         \A d \in DOMAIN Stream : ~FilesMovement(c, d) \/ d # e
  PROVE  OnFile(e)' = OnFile(e)
<1>1. e \in DOMAIN Stream /\ MovementFact(e) \in Key
  BY ReportingAssumption DEF EventsOf
<1>2. ASSUME NEW d \in DOMAIN Stream, SavesFact(c, d)
      PROVE  store'[MovementFact(e)] = store[MovementFact(e)]
  BY <1>1, <1>2, FactSaved, KeysApart DEF SavesFact
<1>3. ASSUME NEW d \in DOMAIN Stream, FilesMovement(c, d), d # e
      PROVE  store'[MovementFact(e)] = store[MovementFact(e)]
  BY <1>1, <1>3, MovementFiled, KeysApart DEF FilesMovement
<1>4. ASSUME NEW d \in DOMAIN Stream, SavesMark(c, d)
      PROVE  store'[MovementFact(e)] = store[MovementFact(e)]
  BY <1>1, <1>4, MarkSaved, KeysApart DEF SavesMark
<1>5. store'[MovementFact(e)] = store[MovementFact(e)]
  BY <1>2, <1>3, <1>4 DEF ReportingMove, Pauses, Projects, FindsMovement, PassesOver
<1>6. QED
  BY <1>5 DEF OnFile, Exists

LEMMA MovementCases ==
  ASSUME ReportingInv, NEW c \in Call, ReportingMove(c), NEW e \in EventsOf("stock")
  PROVE  \/ MovementStays(c, e) \/ MovementFiles(c, e)
         \/ MovementDrops(c, e) \/ MovementSaves(c, e)
<1>1. e \in DOMAIN Stream /\ Stream[e].kind = "stock" /\ MovementFact(e) \in Key
  BY ReportingAssumption DEF EventsOf
<1>2. /\ NotApplying(c) => ~Applying(c, e)
      /\ NotApplying(c)' => ~Applying(c, e)'
  BY <1>1 DEF NotApplying, Applying
<1>3. /\ work[c].writes = <<>> => ~HasFact(c, e)
      /\ work'[c].writes = <<>> => ~HasFact(c, e)'
  BY <1>1, Tails DEF HasFact
<1>4. \A d \in DOMAIN Stream : /\ HasMark(c, d) => ~HasFact(c, e)
                               /\ HasMark(c, d)' => ~HasFact(c, e)'
  BY <1>1, Tails DEF HasFact, HasMark
<1>5. \A d \in DOMAIN Stream : /\ HasFact(c, d) /\ HasFact(c, e) => d = e
  BY <1>1, OneFact
<1>6. \A d \in DOMAIN Stream : /\ HasFact(c, d)' /\ HasFact(c, e)' => d = e
  <2>1. ASSUME NEW d \in DOMAIN Stream, HasFact(c, d)', HasFact(c, e)' PROVE d = e
    <3>1. PICK v, w : work'[c].writes = << v, Mark(d) >> /\ work'[c].writes = << w, Mark(e) >>
      BY <2>1 DEF HasFact
    <3>2. Mark(d) = Mark(e)
      BY <3>1, Tails
    <3>3. QED
      BY <1>1, <3>2, KeysApart
  <2>2. QED
    BY <2>1
<1>7. CASE Pauses(c)
  <2>1. \A d \in DOMAIN Stream : ~FilesMovement(c, d) \/ d # e
    BY <1>1, <1>2, <1>7 DEF Pauses, FilesMovement, Applying, NotApplying
  <2>2. OnFile(e)' = OnFile(e)
    BY <2>1, MovementKept
  <2>3. CASE Applying(c, e)
    BY <1>1, <1>2, <1>3, <1>7, <2>2, <2>3 DEF Pauses, MovementDrops, Applies
  <2>4. CASE ~Applying(c, e)
    BY <1>1, <1>2, <1>3, <1>7, <2>2, <2>4 DEF Pauses, MovementStays, Applies
  <2>5. QED
    BY <2>3, <2>4
<1>8. ASSUME NEW d \in DOMAIN Stream, Projects(c, d) PROVE MovementStays(c, e)
  <2>1. OnFile(e)' = OnFile(e)
    BY <1>8 DEF Projects, OnFile
  <2>2. CASE d = e
    BY <1>1, <1>2, <1>8, <2>1, <2>2 DEF Projects, MovementStays, Applies
  <2>3. CASE d # e
    <3>1. ~Applying(c, e)
      <4>1. CASE Stream[d].kind = "stock"
        <5>1. Applying(c, d)
          BY <1>8, <4>1 DEF Projects
        <5>2. Applying(c, e) => d = e
          BY <5>1 DEF Applying
        <5>3. QED
          BY <2>3, <5>2
      <4>2. CASE Stream[d].kind # "stock"
        BY <1>2, <1>8, <4>2 DEF Projects
      <4>3. QED
        BY <4>1, <4>2
    <3>2. ~Applies(c, e)
      BY <1>3, <1>8, <3>1 DEF Projects, Applies
    <3>3. ~Applies(c, e)'
      BY <1>2, <1>6, <1>8, <2>3 DEF Projects, Applies
    <3>4. QED
      BY <1>8, <2>1, <3>2, <3>3 DEF Projects, MovementStays
  <2>4. QED
    BY <2>2, <2>3
<1>9. ASSUME NEW d \in DOMAIN Stream, FindsMovement(c, d) PROVE MovementStays(c, e)
  BY <1>2, <1>3, <1>4, <1>9 DEF FindsMovement, MovementStays, Applies, OnFile
<1>10. ASSUME NEW d \in DOMAIN Stream, FilesMovement(c, d)
       PROVE  MovementStays(c, e) \/ MovementFiles(c, e)
  <2>1. CASE d = e
    <3>1. OnFile(e)'
      BY <1>10, <2>1, MovementFiled, ReportingAssumption DEF FilesMovement, OnFile, Exists
    <3>2. QED
      BY <1>10, <2>1, <3>1 DEF FilesMovement, MovementFiles, OnFile, Applies
  <2>2. CASE d # e
    <3>1. OnFile(e)' = OnFile(e)
      <4>1. store'[MovementFact(e)] = store[MovementFact(e)]
        BY <1>1, <1>10, <2>2, MovementFiled, KeysApart DEF FilesMovement
      <4>2. QED
        BY <4>1 DEF OnFile, Exists
    <3>2. Applying(c, e)' => d = e
      BY <1>10 DEF FilesMovement, Applying
    <3>3. ~Applies(c, e) /\ ~Applies(c, e)'
      BY <1>2, <1>3, <1>10, <2>2, <3>2 DEF FilesMovement, Applies
    <3>4. QED
      BY <1>10, <3>1, <3>3 DEF FilesMovement, MovementStays
  <2>3. QED
    BY <2>1, <2>2
<1>11. ASSUME NEW d \in DOMAIN Stream, PassesOver(c, d) PROVE MovementStays(c, e)
  <2>1. ~HasFact(c, e)
    BY <1>1, <1>5, <1>11 DEF PassesOver
  <2>2. QED
    BY <1>2, <1>4, <1>11, <2>1 DEF PassesOver, MovementStays, Applies, OnFile
<1>12. ASSUME NEW d \in DOMAIN Stream, SavesFact(c, d)
       PROVE  MovementStays(c, e) \/ MovementSaves(c, e)
  <2>1. ~\E x \in DOMAIN Stream : FilesMovement(c, x)
    <3>1. HasMark(c, d)'
      BY <1>12 DEF SavesFact
    <3>2. QED
      BY <3>1, Tails DEF FilesMovement, HasMark
  <2>2. OnFile(e)' = OnFile(e)
    BY <2>1, MovementKept
  <2>3. HasFact(c, d)
    BY <1>12 DEF SavesFact, HasFact
  <2>4. ~Applies(c, e)'
    BY <1>2, <1>4, <1>12 DEF SavesFact, Applies
  <2>5. CASE d = e
    BY <1>1, <1>12, <2>2, <2>3, <2>4, <2>5 DEF SavesFact, MovementSaves, Applies
  <2>6. CASE d # e
    <3>1. ~Applies(c, e)
      BY <1>2, <1>5, <1>12, <2>3, <2>6 DEF SavesFact, Applies
    <3>2. QED
      BY <1>12, <2>2, <2>4, <3>1 DEF SavesFact, MovementStays
  <2>7. QED
    BY <2>5, <2>6
<1>13. ASSUME NEW d \in DOMAIN Stream, SavesMark(c, d) PROVE MovementStays(c, e)
  <2>1. store'[MovementFact(e)] = store[MovementFact(e)]
    BY <1>1, <1>13, MarkSaved, KeysApart DEF SavesMark
  <2>2. QED
    BY <1>2, <1>3, <1>4, <1>13, <2>1 DEF SavesMark, MovementStays, Applies, OnFile, Exists
<1>14. QED
  BY <1>7, <1>8, <1>9, <1>10, <1>11, <1>12, <1>13 DEF ReportingMove

\* The count on file, and the movements settled in it.
LEMMA SettledFinite ==
  ASSUME NEW sku
  PROVE  IsFiniteSet(Settled(sku)) /\ Cardinality(Settled(sku)) \in Nat
<1>1. Stream \in Seq(DomainEvent)
  BY ReportingAssumption
<1>2. IsFiniteSet(DOMAIN Stream)
  <2>1. DOMAIN Stream = 1 .. Len(Stream) /\ Len(Stream) \in Int
    BY <1>1
  <2>2. QED
    BY <2>1, FS_Interval
<1>3. Settled(sku) \in SUBSET DOMAIN Stream
  BY DEF Settled, EventsOf
<1>4. QED
  BY <1>2, <1>3, FS_Subset, FS_CardinalityType

\* A step that saves no movement of a sku leaves its balance and what settles it.
LEMMA SettledKept ==
  ASSUME ReportingInv, BalancesCount, NEW c \in Call, ReportingMove(c),
         NEW sku, \A e \in EventsOf("stock") : Stream[e].of = sku => ~MovementSaves(c, e)
  PROVE  Settled(sku)' = Settled(sku)
<1>1. ASSUME NEW e \in EventsOf("stock"), Stream[e].of = sku
      PROVE  (/\ OnFile(e) /\ e \notin dropped /\ \A d \in Call : ~Applies(d, e)) <=>
             (/\ OnFile(e)' /\ e \notin dropped' /\ \A d \in Call : ~Applies(d, e)')
  <2>1. \A d \in Call \ {c} : Applies(d, e)' <=> Applies(d, e)
    BY DEF ReportingMove, OthersStay, Applies, Applying, HasFact
  <2>2. MovementStays(c, e) \/ MovementFiles(c, e) \/ MovementDrops(c, e)
    BY <1>1, MovementCases
  <2>3. CASE MovementStays(c, e)
    <3>1. \A d \in Call : Applies(d, e)' <=> Applies(d, e)
      BY <2>1, <2>3 DEF MovementStays
    <3>2. QED
      BY <2>3, <3>1 DEF MovementStays
  <2>4. CASE MovementFiles(c, e)
    BY <2>4 DEF MovementFiles
  <2>5. CASE MovementDrops(c, e)
    BY <2>5 DEF MovementDrops
  <2>6. QED
    BY <2>2, <2>3, <2>4, <2>5
<1> DEFINE Old(e) == OnFile(e) /\ e \notin dropped /\ \A d \in Call : ~Applies(d, e)
           New(e) == OnFile(e)' /\ e \notin dropped' /\ \A d \in Call : ~Applies(d, e)'
<1>2. Settled(sku) = {e \in EventsOf("stock") : Stream[e].of = sku /\ Old(e)}
  BY DEF Settled
<1>3. Settled(sku)' = {e \in EventsOf("stock") : Stream[e].of = sku /\ New(e)}
  BY DEF Settled, EventsOf
<1>4. \A e \in EventsOf("stock") : Stream[e].of = sku => (Old(e) <=> New(e))
  BY <1>1
<1> HIDE DEF Old, New
<1>5. QED
  BY <1>2, <1>3, <1>4

LEMMA BalanceKept ==
  ASSUME ReportingInv, NEW c \in Call, ReportingMove(c), NEW e \in EventsOf("stock"),
         \A d \in EventsOf("stock") : Stream[d].of = Stream[e].of => ~MovementSaves(c, d)
  PROVE  CountOf(Stream[e].of)' = CountOf(Stream[e].of)
<1>1. e \in DOMAIN Stream /\ Stream[e].kind = "stock" /\ Stream[e].of \in Key
  BY EventTypes DEF EventsOf
<1>2. ASSUME NEW d \in DOMAIN Stream, FilesMovement(c, d) \/ SavesMark(c, d)
      PROVE  store'[Stream[e].of] = store[Stream[e].of]
  BY <1>1, <1>2, MarkSaved, MovementFiled, KeysApart DEF FilesMovement, SavesMark
<1>3. ASSUME NEW d \in DOMAIN Stream, SavesFact(c, d)
      PROVE  store'[Stream[e].of] = store[Stream[e].of]
  <2>1. PICK write : FactOf(d, work[c].seen, write) /\ store' = write @@ store
    BY <1>3 DEF SavesFact
  <2>2. CASE Stream[d].kind = "stock"
    <3>1. d \in EventsOf("stock")
      BY <2>2 DEF EventsOf
    <3>2. HasFact(c, d)
      BY <1>3 DEF SavesFact, HasFact
    <3>3. Applies(c, d)
      BY <2>2, <3>2 DEF Applies
    <3>4. HasMark(c, d)' /\ NotApplying(c)'
      BY <1>3 DEF SavesFact
    <3>5. ~Applies(c, d)'
      <4>1. ~HasFact(c, d)'
        BY <3>4, Tails DEF HasMark, HasFact
      <4>2. QED
        BY <3>4, <4>1 DEF Applies, NotApplying, Applying
    <3>6. MovementSaves(c, d)
      <4>1. ~\E x \in DOMAIN Stream : FilesMovement(c, x)
        BY <3>4, Tails DEF FilesMovement, HasMark
      <4>2. OnFile(d)' = OnFile(d)
        BY <3>1, <4>1, MovementKept
      <4>3. QED
        BY <1>3, <3>3, <3>5, <4>2 DEF SavesFact, MovementSaves
    <3>7. Stream[d].of # Stream[e].of
      BY <3>1, <3>6
    <3>8. QED
      BY <1>1, <2>1, <2>2, <3>7, FactSaved
  <2>3. CASE Stream[d].kind # "stock"
    <3>1. Stream[e].of # (IF Stream[d].kind = "journal" THEN FinancialFact(d) ELSE Stream[d].of)
      BY <1>1, <2>3, KeysApart, IdsApart
    <3>2. QED
      BY <1>1, <2>1, <3>1, FactSaved
  <2>4. QED
    BY <2>2, <2>3
<1>4. store'[Stream[e].of] = store[Stream[e].of]
  BY <1>2, <1>3 DEF ReportingMove, Pauses, Projects, FindsMovement, PassesOver
<1>5. QED
  BY <1>4 DEF CountOf, Exists

\* A balance that is saved counts one movement more, unless the save was stale.
LEMMA BalanceSaved ==
  ASSUME ReportingInv, BalancesCount, NEW c \in Call, ReportingMove(c),
         NEW e \in EventsOf("stock"), MovementSaves(c, e), Stream[e].of \notin raced'
  PROVE  CountOf(Stream[e].of)' = Cardinality(Settled(Stream[e].of)')
<1> DEFINE sku == Stream[e].of
<1>1. e \in DOMAIN Stream /\ Stream[e].kind = "stock" /\ sku \in Key
  BY EventTypes DEF EventsOf
<1>2. PICK write : /\ FactOf(e, work[c].seen, write) /\ store' = write @@ store
                   /\ \A k \in DOMAIN write : k \notin raced' =>
                        \A s \in DOMAIN work[c].seen : work[c].seen[s] = store[s]
  BY DEF MovementSaves, SavesFact
<1>3. sku \in DOMAIN write
  BY <1>1, <1>2, FactKeys
<1>4. /\ sku \in DOMAIN work[c].seen /\ work[c].seen[sku] = store[sku]
      /\ GoodBalance(store[sku]) /\ IsSane(NextBalance(store[sku], Stream[e]))
  BY <1>1, <1>2, <1>3 DEF FactOf
<1>5. store'[sku] = NextBalance(store[sku], Stream[e])
  BY <1>1, <1>2, <1>4, FactSaved
<1>6. CountOf(sku)' = CountOf(sku) + 1
  <2>1. /\ NextBalance(store[sku], Stream[e]) \in Balances
        /\ NextBalance(store[sku], Stream[e]).count = CountOf(sku) + 1
    BY <1>1, <1>4, NextBalanceType DEF CountOf, NextBalance
  <2>2. NoRecord \notin Balances
    BY ReportingAssumption
  <2>3. QED
    BY <1>5, <2>1, <2>2 DEF CountOf, Exists
<1>7. CountOf(sku) = Cardinality(Settled(sku))
  BY DEF BalancesCount, ReportingMove
<1>8. e \notin Settled(sku)
  BY DEF Settled, MovementSaves
<1>9. Settled(sku)' = Settled(sku) \union {e}
  <2>1. ASSUME NEW d \in EventsOf("stock"), d # e, MovementSaves(c, d) PROVE FALSE
    <3>1. d \in DOMAIN Stream /\ HasFact(c, d) /\ HasFact(c, e)
      BY <2>1 DEF MovementSaves, SavesFact, HasFact, EventsOf
    <3>2. QED
      BY <1>1, <2>1, <3>1, OneFact
  <2>2. ASSUME NEW d \in EventsOf("stock"), Stream[d].of = sku, d # e
        PROVE  (/\ OnFile(d) /\ d \notin dropped /\ \A x \in Call : ~Applies(x, d)) <=>
               (/\ OnFile(d)' /\ d \notin dropped' /\ \A x \in Call : ~Applies(x, d)')
    <3>1. \A x \in Call \ {c} : Applies(x, d)' <=> Applies(x, d)
      BY DEF ReportingMove, OthersStay, Applies, Applying, HasFact
    <3>2. MovementStays(c, d) \/ MovementFiles(c, d) \/ MovementDrops(c, d)
      BY <2>1, <2>2, MovementCases
    <3>3. CASE MovementStays(c, d)
      <4>1. \A x \in Call : Applies(x, d)' <=> Applies(x, d)
        BY <3>1, <3>3 DEF MovementStays
      <4>2. QED
        BY <3>3, <4>1 DEF MovementStays
    <3>4. QED
      BY <3>2, <3>3 DEF MovementFiles, MovementDrops
  <2>3. OnFile(e)' /\ e \notin dropped' /\ \A x \in Call : ~Applies(x, e)'
    <3>1. OnFile(e) /\ e \notin dropped /\ \A x \in Call : Applies(x, e) => x = c
      BY DEF BalancesCount, MovementSaves
    <3>2. \A x \in Call \ {c} : Applies(x, e)' <=> Applies(x, e)
      BY DEF ReportingMove, OthersStay, Applies, Applying, HasFact
    <3>3. QED
      BY <3>1, <3>2 DEF MovementSaves
  <2> DEFINE Old(d) == OnFile(d) /\ d \notin dropped /\ \A x \in Call : ~Applies(x, d)
             New(d) == OnFile(d)' /\ d \notin dropped' /\ \A x \in Call : ~Applies(x, d)'
  <2>4. Settled(sku) = {d \in EventsOf("stock") : Stream[d].of = sku /\ Old(d)}
    BY DEF Settled
  <2>5. Settled(sku)' = {d \in EventsOf("stock") : Stream[d].of = sku /\ New(d)}
    BY DEF Settled, EventsOf
  <2>6. \A d \in EventsOf("stock") : Stream[d].of = sku /\ d # e => (Old(d) <=> New(d))
    BY <2>2
  <2>7. New(e)
    BY <2>3
  <2> HIDE DEF Old, New
  <2>8. QED
    BY <2>4, <2>5, <2>6, <2>7
<1> HIDE DEF sku
<1>10. Cardinality(Settled(sku) \union {e}) = Cardinality(Settled(sku)) + 1
  BY <1>8, SettledFinite, FS_AddElement
<1>11. QED
  BY <1>6, <1>7, <1>9, <1>10 DEF sku

LEMMA BalancesCountStep ==
  ASSUME ReportingInv, BalancesCount, NEW c \in Call, ReportingMove(c)
  PROVE  BalancesCount'
<1>1. \A e \in EventsOf("stock"), d \in Call \ {c} : Applies(d, e)' <=> Applies(d, e)
  BY DEF ReportingMove, OthersStay, Applies, Applying, HasFact
<1>2. ASSUME NEW e \in EventsOf("stock"), NEW d \in Call, Applies(d, e)'
      PROVE  OnFile(e)' /\ e \notin dropped'
  <2>1. MovementStays(c, e) \/ MovementFiles(c, e) \/ MovementDrops(c, e) \/ MovementSaves(c, e)
    BY MovementCases
  <2>2. Applies(d, e) \/ d = c
    BY <1>1, <1>2
  <2>3. CASE MovementStays(c, e)
    BY <1>2, <2>2, <2>3 DEF BalancesCount, MovementStays
  <2>4. CASE MovementFiles(c, e)
    BY <2>4 DEF BalancesCount, MovementFiles, EventsOf
  <2>5. CASE MovementDrops(c, e) \/ MovementSaves(c, e)
    <3>1. d # c
      BY <1>2, <2>5 DEF MovementDrops, MovementSaves
    <3>2. Applies(d, e) /\ Applies(c, e)
      BY <2>2, <2>5, <3>1 DEF MovementDrops, MovementSaves
    <3>3. QED
      BY <3>1, <3>2 DEF BalancesCount
  <2>6. QED
    BY <2>1, <2>3, <2>4, <2>5
<1>3. ASSUME NEW e \in EventsOf("stock"), e \in dropped' PROVE OnFile(e)'
  <2>1. MovementStays(c, e) \/ MovementFiles(c, e) \/ MovementDrops(c, e) \/ MovementSaves(c, e)
    BY MovementCases
  <2>2. QED
    BY <1>3, <2>1 DEF BalancesCount, MovementStays, MovementFiles, MovementDrops, MovementSaves
<1>4. ASSUME NEW e \in EventsOf("stock"), NEW d \in Call, NEW x \in Call,
             Applies(d, e)', Applies(x, e)'
      PROVE  d = x
  <2>1. MovementStays(c, e) \/ MovementFiles(c, e) \/ MovementDrops(c, e) \/ MovementSaves(c, e)
    BY MovementCases
  <2>2. CASE MovementStays(c, e)
    <3>1. Applies(d, e) /\ Applies(x, e)
      BY <1>1, <1>4, <2>2 DEF MovementStays
    <3>2. QED
      BY <3>1 DEF BalancesCount
  <2>3. CASE MovementFiles(c, e)
    BY <1>1, <1>4, <2>3 DEF BalancesCount, MovementFiles
  <2>4. CASE MovementDrops(c, e) \/ MovementSaves(c, e)
    <3>1. d # c /\ x # c
      BY <1>4, <2>4 DEF MovementDrops, MovementSaves
    <3>2. Applies(d, e) /\ Applies(x, e)
      BY <1>1, <1>4, <3>1
    <3>3. QED
      BY <3>2 DEF BalancesCount
  <2>5. QED
    BY <2>1, <2>2, <2>3, <2>4
<1>5. ASSUME NEW e \in EventsOf("stock"), Stream[e].of \notin raced'
      PROVE  CountOf(Stream[e].of)' = Cardinality(Settled(Stream[e].of)')
  <2>1. CASE \A d \in EventsOf("stock") : Stream[d].of = Stream[e].of => ~MovementSaves(c, d)
    <3>1. Settled(Stream[e].of)' = Settled(Stream[e].of)
      BY <2>1, SettledKept
    <3>2. CountOf(Stream[e].of)' = CountOf(Stream[e].of)
      BY <2>1, BalanceKept
    <3>3. Stream[e].of \notin raced
      BY <1>5 DEF ReportingMove
    <3>4. QED
      BY <3>1, <3>2, <3>3 DEF BalancesCount
  <2>2. CASE \E d \in EventsOf("stock") : Stream[d].of = Stream[e].of /\ MovementSaves(c, d)
    BY <1>5, <2>2, BalanceSaved
  <2>3. QED
    BY <2>1, <2>2
<1>6. QED
  BY <1>2, <1>3, <1>4, <1>5 DEF BalancesCount, EventsOf

-----------------------------------------------------------------------------
(***************************************************************************)
(* What Audit has on file and is about to write.  A mark is staged behind  *)
(* the record it stands for, and what frees a source event again is said.  *)
(***************************************************************************)
AuditMark(e) == Ingested(e) :> TRUE

Correction(r, prior) == r :> [source |-> prior, archived |-> FALSE]

AppendsNext(c, r, e) ==
  work[c].writes \in {<< Appended(r, e) >>, << Appended(r, e), AuditMark(e) >>}

CorrectsNext(c, r, prior) == work[c].writes = << Correction(r, prior) >>

MarksNext(c, e) == work[c].writes = << AuditMark(e) >>

AuditWrites(c) ==
  \/ work[c].writes = <<>>
  \/ \E r \in Record, e \in Envelope : AppendsNext(c, r, e)
  \/ \E r, prior \in Record : CorrectsNext(c, r, prior)
  \/ \E e \in Envelope : MarksNext(c, e)

AuditRecords == [source : Envelope \union Record, archived : BOOLEAN]

HadRecord(e) ==
  \/ Exists(store[AuditedAs(e)])
  \/ Exists(told[AuditedAs(e)])
  \/ \E c \in Call : AuditedAs(e) \in DOMAIN work[c].news

AuditInv ==
  /\ CallsOK
  /\ Key \subseteq DOMAIN told
  /\ \A c \in Call : AuditWrites(c)
  /\ \A r \in Record : store[r] \in AuditRecords \union {NoRecord}
  /\ \A e \in Envelope, r \in Record :
       Exists(store[r]) /\ store[r].source = e => store[AuditedAs(e)] = r
  /\ \A e \in Envelope, c \in Call :
       AuditedAs(e) \in DOMAIN work[c].news => work[c].news[AuditedAs(e)] = "purged"
  /\ \A e \in Projected : /\ Exists(store[Ingested(e)]) => HadRecord(e)
                          /\ \A c \in Call : MarksNext(c, e) => HadRecord(e)

(***************************************************************************)
(* The seven things a call of Audit can do in a step.                      *)
(***************************************************************************)
\* It reads, gives up or stages.
AuditStages(c) ==
  /\ store' = store /\ told' = told /\ work[c].news = <<>> /\ work'[c].news = <<>>
  /\ AuditWrites(c)'
  /\ \A e \in Projected : MarksNext(c, e)' => Exists(store[AuditedAs(e)])

AuditAppends(c, r, e) ==
  /\ store' = Appended(r, e) @@ store /\ told' = told /\ work'[c].news = work[c].news
  /\ ~Exists(store[AuditedAs(e)])
  /\ work'[c].writes = <<>> \/ MarksNext(c, e)'

AuditFinds(c, e) ==
  /\ store' = store /\ told' = told /\ work'[c].news = work[c].news
  /\ Exists(store[AuditedAs(e)])
  /\ work'[c].writes = <<>> \/ MarksNext(c, e)'

AuditCorrects(c, r, prior) ==
  /\ store' = Correction(r, prior) @@ store /\ told' = told /\ work'[c].news = work[c].news
  /\ work'[c].writes = <<>>

AuditMarks(c, e) ==
  /\ store' = AuditMark(e) @@ store /\ told' = told /\ work'[c].news = work[c].news
  /\ MarksNext(c, e) /\ work'[c].writes = <<>>

AuditArchives(c, r) ==
  /\ Exists(store[r]) /\ store' = (r :> [store[r] EXCEPT !.archived = TRUE]) @@ store
  /\ told' = told /\ work[c].news = <<>> /\ work'[c].news = r :> "archived"
  /\ work'[c].writes = <<>>

AuditPurges(c, r) ==
  /\ Exists(store[r]) /\ store' = Purged(r) @@ store
  /\ told' = told /\ work[c].news = <<>> /\ work'[c].news = [k \in DOMAIN Purged(r) |-> "purged"]
  /\ work'[c].writes = <<>>

AuditTells(c) ==
  /\ store' = store /\ told' = work[c].news @@ told /\ work'[c] = Idle

AuditMove(c) ==
  /\ CallsOK' /\ OthersStay(c)
  /\ \/ AuditStages(c) \/ AuditTells(c)
     \/ \E e \in Envelope : AuditFinds(c, e) \/ AuditMarks(c, e)
     \/ \E r \in Record : AuditArchives(c, r) \/ AuditPurges(c, r)
     \/ \E r \in Record, e \in Envelope : AuditAppends(c, r, e)
     \/ \E r, prior \in Record : AuditCorrects(c, r, prior)

LEMMA AuditKeysApart ==
  ASSUME NEW e \in Envelope
  PROVE  /\ AuditedAs(e) \in Key /\ Ingested(e) \in Key
         /\ AuditedAs(e) \notin Record /\ Ingested(e) \notin Record
         /\ \A d : (AuditedAs(d) = AuditedAs(e) => d = e) /\ AuditedAs(d) # Ingested(e)
         /\ \A d : (Ingested(d) = Ingested(e) => d = e)
         /\ e \notin Record
BY AuditAssumption DEF AuditedAs, Ingested

\* Each write of Audit names its keys, and no two shapes are taken for one another.
LEMMA AppendedKeys ==
  ASSUME NEW r \in Record, NEW e \in Envelope
  PROVE  /\ DOMAIN Appended(r, e) = {r, AuditedAs(e)}
         /\ Appended(r, e)[r] = [source |-> e, archived |-> FALSE]
         /\ Appended(r, e)[AuditedAs(e)] = r
BY AuditKeysApart DEF Appended, :>, @@

LEMMA AuditMarkKeys ==
  ASSUME NEW e \in Envelope
  PROVE  DOMAIN AuditMark(e) = {Ingested(e)} /\ AuditMark(e)[Ingested(e)] = TRUE
BY DEF AuditMark, :>

LEMMA CorrectionKeys ==
  ASSUME NEW r \in Record, NEW prior
  PROVE  /\ DOMAIN Correction(r, prior) = {r}
         /\ Correction(r, prior)[r] = [source |-> prior, archived |-> FALSE]
BY DEF Correction, :>

LEMMA AuditShapes ==
  ASSUME NEW c \in Call, NEW r \in Record, NEW e \in Envelope
  PROVE  /\ AppendsNext(c, r, e) => /\ work[c].writes # <<>> /\ work[c].writes[1] = Appended(r, e)
                                    /\ Tail(work[c].writes) \in {<<>>, << AuditMark(e) >>}
                                    /\ \A d \in Envelope : ~MarksNext(c, d)
         /\ MarksNext(c, e) => /\ work[c].writes # <<>> /\ work[c].writes[1] = AuditMark(e)
                               /\ Tail(work[c].writes) = <<>>
                               /\ \A d \in Envelope : MarksNext(c, d) => d = e
         /\ \A prior : CorrectsNext(c, r, prior) =>
              /\ work[c].writes # <<>> /\ work[c].writes[1] = Correction(r, prior)
              /\ Tail(work[c].writes) = <<>> /\ ~MarksNext(c, e)
         /\ work[c].writes = <<>> => ~MarksNext(c, e)
<1>1. ASSUME AppendsNext(c, r, e)
      PROVE  /\ work[c].writes # <<>> /\ work[c].writes[1] = Appended(r, e)
             /\ Tail(work[c].writes) \in {<<>>, << AuditMark(e) >>}
             /\ \A d \in Envelope : ~MarksNext(c, d)
  <2>1. /\ work[c].writes # <<>> /\ work[c].writes[1] = Appended(r, e)
        /\ Tail(work[c].writes) \in {<<>>, << AuditMark(e) >>}
    <3> DEFINE a == Appended(r, e)
               m == AuditMark(e)
    <3>1. work[c].writes = << a >> \/ work[c].writes = << a, m >>
      BY <1>1 DEF AppendsNext
    <3> HIDE DEF a, m
    <3>2. work[c].writes # <<>> /\ work[c].writes[1] = a /\ Tail(work[c].writes) \in {<<>>, << m >>}
      <4>1. CASE work[c].writes = << a >>
        BY <4>1
      <4>2. CASE work[c].writes = << a, m >>
        BY <4>2
      <4>3. QED
        BY <3>1, <4>1, <4>2
    <3>3. QED
      BY <3>2 DEF a, m
  <2>2. ASSUME NEW d \in Envelope, MarksNext(c, d) PROVE FALSE
    <3>1. work[c].writes[1] = AuditMark(d)
      BY <2>2, Tails DEF MarksNext
    <3>2. DOMAIN AuditMark(d) = {Ingested(d)}
      BY AuditMarkKeys
    <3>3. DOMAIN Appended(r, e) = {r, AuditedAs(e)}
      BY AppendedKeys
    <3>4. QED
      BY <2>1, <3>1, <3>2, <3>3, AuditKeysApart
  <2>3. QED
    BY <2>1, <2>2
<1>2. ASSUME MarksNext(c, e)
      PROVE  /\ work[c].writes # <<>> /\ work[c].writes[1] = AuditMark(e)
             /\ Tail(work[c].writes) = <<>>
             /\ \A d \in Envelope : MarksNext(c, d) => d = e
  <2>1. /\ work[c].writes # <<>> /\ work[c].writes[1] = AuditMark(e)
        /\ Tail(work[c].writes) = <<>>
    BY <1>2, Tails DEF MarksNext
  <2>2. ASSUME NEW d \in Envelope, MarksNext(c, d) PROVE d = e
    <3>1. work[c].writes[1] = AuditMark(d)
      BY <2>2, Tails DEF MarksNext
    <3>2. DOMAIN AuditMark(d) = {Ingested(d)}
      BY AuditMarkKeys
    <3>3. DOMAIN AuditMark(e) = {Ingested(e)}
      BY AuditMarkKeys
    <3>4. QED
      BY <2>1, <3>1, <3>2, <3>3, AuditKeysApart
  <2>3. QED
    BY <2>1, <2>2
<1>3. ASSUME NEW prior, CorrectsNext(c, r, prior)
      PROVE  /\ work[c].writes # <<>> /\ work[c].writes[1] = Correction(r, prior)
             /\ Tail(work[c].writes) = <<>> /\ ~MarksNext(c, e)
  <2>1. /\ work[c].writes # <<>> /\ work[c].writes[1] = Correction(r, prior)
        /\ Tail(work[c].writes) = <<>>
    BY <1>3, Tails DEF CorrectsNext
  <2>2. ASSUME MarksNext(c, e) PROVE FALSE
    <3>1. AuditMark(e) = Correction(r, prior)
      BY <1>2, <2>1, <2>2
    <3>2. DOMAIN AuditMark(e) = {Ingested(e)}
      BY AuditMarkKeys
    <3>3. DOMAIN Correction(r, prior) = {r}
      BY CorrectionKeys
    <3>4. QED
      BY <3>1, <3>2, <3>3, AuditKeysApart
  <2>3. QED
    BY <2>1, <2>2
<1>4. work[c].writes = <<>> => ~MarksNext(c, e)
  BY Tails DEF MarksNext
<1>5. QED
  BY <1>1, <1>2, <1>3, <1>4

\* A call that is reading, or has not begun, has staged nothing and says nothing.
LEMMA NothingStaged ==
  ASSUME CallsOK, NEW c \in Call, IsIdle(c) \/ work[c].todo # <<>>
  PROVE  work[c].writes = <<>> /\ work[c].news = <<>>
BY IdleCall DEF CallsOK, IsCall, IsIdle

LEMMA ReadingBefore ==
  ASSUME CallsOK, NEW c \in Call, NEW op, NEW reads, Read(c, op, reads) \/ LastRead(c, op, reads)
  PROVE  work[c].writes = <<>> /\ work[c].news = <<>>
<1>1. IsIdle(c) \/ Len(work[c].todo) > 0
  BY DEF Read, LastRead
<1>2. CASE Len(work[c].todo) > 0
  <2>1. work[c].todo # <<>>
    BY <1>2, NotEmpty DEF CallsOK, IsCall
  <2>2. QED
    BY <2>1, NothingStaged
<1>3. QED
  BY <1>1, <1>2, NothingStaged

\* A call that stages writes of one of the shapes, and says nothing yet.
LEMMA AuditStaged ==
  ASSUME AuditInv, NEW c \in Call, work[c].news = <<>>, NEW reads, NEW writes,
         Stage(c, reads, writes, <<>>),
         \/ \E r \in Record, e \in Envelope :
              writes \in {<< Appended(r, e) >>, << Appended(r, e), AuditMark(e) >>}
         \/ \E r, prior \in Record : writes = << Correction(r, prior) >>
         \/ \E e \in Envelope : /\ writes = << AuditMark(e) >>
                                /\ e \in Projected => Exists(store[AuditedAs(e)])
  PROVE  AuditMove(c)
<1>1. /\ CallsOK' /\ OthersStay(c) /\ store' = store /\ told' = told
      /\ work'[c].writes = writes /\ work'[c].news = <<>>
  BY StageEffect DEF AuditInv
<1>2. AuditWrites(c)'
  BY <1>1 DEF AuditWrites, AppendsNext, CorrectsNext, MarksNext
<1>3. ASSUME NEW d \in Projected, MarksNext(c, d)' PROVE Exists(store[AuditedAs(d)])
  <2>1. d \in Envelope /\ writes = << AuditMark(d) >>
    BY <1>1, <1>3, AuditAssumption DEF MarksNext
  <2>2. DOMAIN writes[1] = {Ingested(d)} /\ writes[1] = AuditMark(d)
    BY <2>1, Tails DEF AuditMark, :>
  <2>3. ASSUME NEW r \in Record, NEW e \in Envelope,
               writes \in {<< Appended(r, e) >>, << Appended(r, e), AuditMark(e) >>}
        PROVE  FALSE
    <3>1. writes[1] = Appended(r, e)
      BY <2>3, Tails
    <3>2. DOMAIN Appended(r, e) = {r, AuditedAs(e)}
      BY AppendedKeys
    <3>3. QED
      BY <2>1, <2>2, <3>1, <3>2, AuditKeysApart
  <2>4. ASSUME NEW r \in Record, NEW prior \in Record, writes = << Correction(r, prior) >>
        PROVE  FALSE
    <3>1. writes[1] = Correction(r, prior)
      BY <2>4, Tails
    <3>2. DOMAIN Correction(r, prior) = {r}
      BY DEF Correction, :>
    <3>3. QED
      BY <2>1, <2>2, <3>1, <3>2, AuditKeysApart
  <2>5. PICK e \in Envelope : /\ writes = << AuditMark(e) >>
                              /\ e \in Projected => Exists(store[AuditedAs(e)])
    BY <2>3, <2>4
  <2>6. writes[1] = AuditMark(e)
    BY <2>5, Tails
  <2>7. DOMAIN AuditMark(e) = {Ingested(e)}
    BY DEF AuditMark, :>
  <2>8. d = e
    BY <2>1, <2>2, <2>6, <2>7, AuditKeysApart
  <2>9. QED
    BY <2>5, <2>8
<1>4. AuditStages(c)
  BY <1>1, <1>2, <1>3 DEF AuditStages
<1>5. QED
  BY <1>1, <1>4 DEF AuditMove

\* A call that reads on or gives up.
LEMMA AuditPauses ==
  ASSUME AuditInv, NEW c \in Call, CallsOK', OthersStay(c), store' = store, told' = told,
         work[c].news = <<>>, work'[c].news = <<>>, work'[c].writes = <<>>
  PROVE  AuditMove(c)
<1>1. \A e \in Projected : ~MarksNext(c, e)'
  BY Tails DEF MarksNext
<1>2. AuditStages(c)
  BY <1>1 DEF AuditStages, AuditWrites
<1>3. QED
  BY <1>2 DEF AuditMove

LEMMA RecordMoves ==
  ASSUME AuditInv, NEW c \in Call, RecordAudit(c)
  PROVE  AuditMove(c)
<1>1. PICK e \in Envelope, r \in Record :
        /\ IsIdle(c)
        /\ Stage(c, << {AuditedAs(e)} >>, << Appended(r, e) >>, <<>>)
  BY DEF RecordAudit
<1>2. work[c].news = <<>>
  BY <1>1, NothingStaged DEF AuditInv
<1> DEFINE reads == << {AuditedAs(e)} >>
           writes == << Appended(r, e) >>
<1>3. \E s \in Record, d \in Envelope :
        writes \in {<< Appended(s, d) >>, << Appended(s, d), AuditMark(d) >>}
  OBVIOUS
<1> HIDE DEF writes, reads
<1>4. Stage(c, reads, writes, <<>>)
  BY <1>1 DEF reads, writes
<1>5. QED
  BY <1>2, <1>3, <1>4, AuditStaged

LEMMA IngestMoves ==
  ASSUME AuditInv, NEW c \in Call, IngestEnvelope(c)
  PROVE  AuditMove(c)
<1>1. PICK e \in Envelope, r \in Record :
        LET op == <<"ingest", e>>
            reads == << {Ingested(e)}, {AuditedAs(e)} >>
            known == e \notin Projected \/ Exists(store[AuditedAs(e)])
            mark == Ingested(e) :> TRUE
        IN  \/ ~Exists(store[Ingested(e)]) /\ Read(c, op, reads)
            \/ /\ LastRead(c, op, reads)
               /\ known \/ r \in Fresh(Record)
               /\ Stage(c, reads, IF known THEN << mark >> ELSE << Appended(r, e), mark >>, <<>>)
  BY DEF IngestEnvelope
<1> DEFINE op == <<"ingest", e>>
           reads == << {Ingested(e)}, {AuditedAs(e)} >>
           known == e \notin Projected \/ Exists(store[AuditedAs(e)])
<1>2. reads \in Seq(SUBSET Key)
  <2>1. Ingested(e) \in Key /\ AuditedAs(e) \in Key
    BY AuditKeysApart
  <2>2. QED
    BY <2>1
<1>3. \/ Read(c, op, reads)
      \/ /\ LastRead(c, op, reads)
         /\ Stage(c, reads, IF known THEN << AuditMark(e) >>
                            ELSE << Appended(r, e), AuditMark(e) >>, <<>>)
  BY <1>1 DEF AuditMark
<1> HIDE DEF op, reads
<1>4. work[c].writes = <<>> /\ work[c].news = <<>>
  BY <1>3, ReadingBefore DEF AuditInv
<1>5. CASE Read(c, op, reads)
  <2>1. /\ CallsOK' /\ OthersStay(c) /\ store' = store /\ told' = told
        /\ work'[c].writes = <<>> /\ work'[c].news = <<>>
    BY <1>2, <1>5, ReadEffect DEF AuditInv
  <2>2. QED
    BY <1>4, <2>1, AuditPauses
<1>6. CASE /\ LastRead(c, op, reads) /\ known
           /\ Stage(c, reads, << AuditMark(e) >>, <<>>)
  <2> DEFINE writes == << AuditMark(e) >>
  <2>1. \E d \in Envelope : /\ writes = << AuditMark(d) >>
                            /\ d \in Projected => Exists(store[AuditedAs(d)])
    BY <1>6
  <2>2. Stage(c, reads, writes, <<>>)
    BY <1>6
  <2> HIDE DEF writes
  <2>3. QED
    BY <1>4, <2>1, <2>2, AuditStaged
<1>7. CASE /\ LastRead(c, op, reads) /\ ~known
           /\ Stage(c, reads, << Appended(r, e), AuditMark(e) >>, <<>>)
  <2> DEFINE writes == << Appended(r, e), AuditMark(e) >>
  <2>1. \E s \in Record, d \in Envelope :
          writes \in {<< Appended(s, d) >>, << Appended(s, d), AuditMark(d) >>}
    OBVIOUS
  <2>2. Stage(c, reads, writes, <<>>)
    BY <1>7
  <2> HIDE DEF writes
  <2>3. QED
    BY <1>4, <2>1, <2>2, AuditStaged
<1>8. QED
  BY <1>3, <1>5, <1>6, <1>7

LEMMA CorrectionMoves ==
  ASSUME AuditInv, NEW c \in Call, AppendCorrection(c)
  PROVE  AuditMove(c)
<1>1. PICK prior, r \in Record :
        /\ IsIdle(c)
        /\ Stage(c, << {prior} >>, << r :> [source |-> prior, archived |-> FALSE] >>, <<>>)
  BY DEF AppendCorrection
<1>2. work[c].news = <<>>
  BY <1>1, NothingStaged DEF AuditInv
<1> DEFINE reads == << {prior} >>
           writes == << Correction(r, prior) >>
<1>3. Stage(c, reads, writes, <<>>)
  BY <1>1 DEF Correction
<1>4. \E s, d \in Record : writes = << Correction(s, d) >>
  OBVIOUS
<1> HIDE DEF reads, writes
<1>5. QED
  BY <1>2, <1>3, <1>4, AuditStaged

\* What is done without an await.
LEMMA AtOnceEffect ==
  ASSUME CallsOK, NEW c \in Call, NEW write, NEW news, AtOnce(c, write, news)
  PROVE  /\ CallsOK' /\ OthersStay(c) /\ store' = write @@ store /\ told' = told
         /\ work[c].writes = <<>> /\ work[c].news = <<>>
         /\ work'[c].writes = <<>> /\ work'[c].news = news
<1>1. /\ DOMAIN work' = Call /\ OthersStay(c)
      /\ DOMAIN work'[c] = {"op", "todo", "seen", "writes", "news"}
      /\ work'[c].todo = <<>> /\ work'[c].writes = <<>> /\ work'[c].news = news
  BY DEF AtOnce, CallsOK, OthersStay, Idle
<1>2. store' = write @@ store /\ told' = told
  BY DEF AtOnce
<1>3. DOMAIN store \subseteq DOMAIN store'
  BY <1>2, Merged
<1>4. IsCall(work'[c])
  BY <1>1 DEF IsCall
<1>5. work[c].writes = <<>> /\ work[c].news = <<>>
  BY NothingStaged DEF AtOnce
<1>6. QED
  BY <1>1, <1>2, <1>3, <1>4, <1>5, CallsKept

LEMMA ArchiveMoves ==
  ASSUME AuditInv, NEW c \in Call, ArchiveRecords(c)
  PROVE  AuditMove(c)
<1>1. PICK r \in Record :
        /\ Exists(store[r])
        /\ AtOnce(c, r :> [store[r] EXCEPT !.archived = TRUE], r :> "archived")
  BY DEF ArchiveRecords
<1> DEFINE write == r :> [store[r] EXCEPT !.archived = TRUE]
           news == r :> "archived"
<1>2. AtOnce(c, write, news)
  BY <1>1
<1> HIDE DEF write, news
<1>3. /\ CallsOK' /\ OthersStay(c) /\ store' = write @@ store /\ told' = told
      /\ work[c].news = <<>> /\ work'[c].writes = <<>> /\ work'[c].news = news
  BY <1>2, AtOnceEffect DEF AuditInv
<1>4. AuditArchives(c, r)
  BY <1>1, <1>3 DEF AuditArchives, write, news
<1>5. QED
  BY <1>3, <1>4 DEF AuditMove

LEMMA PurgeMoves ==
  ASSUME AuditInv, NEW c \in Call, PurgeArchivedRecords(c)
  PROVE  AuditMove(c)
<1>1. PICK r \in Record :
        /\ Exists(store[r])
        /\ AtOnce(c, Purged(r), [k \in DOMAIN Purged(r) |-> "purged"])
  BY DEF PurgeArchivedRecords
<1> DEFINE write == Purged(r)
           news == [k \in DOMAIN Purged(r) |-> "purged"]
<1>2. AtOnce(c, write, news)
  BY <1>1
<1> HIDE DEF write, news
<1>3. /\ CallsOK' /\ OthersStay(c) /\ store' = write @@ store /\ told' = told
      /\ work[c].news = <<>> /\ work'[c].writes = <<>> /\ work'[c].news = news
  BY <1>2, AtOnceEffect DEF AuditInv
<1>4. AuditPurges(c, r)
  BY <1>1, <1>3 DEF AuditPurges, write, news
<1>5. QED
  BY <1>3, <1>4 DEF AuditMove

LEMMA AuditSaveMoves ==
  ASSUME AuditInv, NEW c \in Call, Save(c), ~IsDuplicate(c)
  PROVE  AuditMove(c)
<1> DEFINE write == work[c].writes[1]
<1>1. /\ CallsOK' /\ OthersStay(c) /\ work[c].writes # <<>>
      /\ store' = write @@ store /\ told' = told
      /\ work'[c].writes = Tail(work[c].writes) /\ work'[c].news = work[c].news
  BY SaveEffect DEF AuditInv
<1>2. ASSUME NEW e \in Envelope, AuditedAs(e) \in DOMAIN write PROVE ~Exists(store[AuditedAs(e)])
  BY <1>2 DEF IsDuplicate, Save
<1>3. ASSUME NEW r \in Record, NEW e \in Envelope, AppendsNext(c, r, e)
      PROVE  AuditMove(c)
  <2>1. write = Appended(r, e) /\ Tail(work[c].writes) \in {<<>>, << AuditMark(e) >>}
    BY <1>3, AuditShapes
  <2>2. DOMAIN Appended(r, e) = {r, AuditedAs(e)}
    BY AppendedKeys
  <2>3. ~Exists(store[AuditedAs(e)])
    BY <1>2, <2>1, <2>2
  <2>4. AuditAppends(c, r, e)
    BY <1>1, <2>1, <2>3 DEF AuditAppends, MarksNext
  <2>5. QED
    BY <1>1, <2>4 DEF AuditMove
<1>4. ASSUME NEW r \in Record, NEW prior \in Record, CorrectsNext(c, r, prior)
      PROVE  AuditMove(c)
  <2>1. write = Correction(r, prior) /\ Tail(work[c].writes) = <<>>
    BY <1>4, Tails DEF CorrectsNext
  <2>2. AuditCorrects(c, r, prior)
    BY <1>1, <2>1 DEF AuditCorrects
  <2>3. QED
    BY <1>1, <2>2 DEF AuditMove
<1>5. ASSUME NEW e \in Envelope, MarksNext(c, e)
      PROVE  AuditMove(c)
  <2>1. write = AuditMark(e) /\ Tail(work[c].writes) = <<>>
    BY <1>5, Tails DEF MarksNext
  <2>2. AuditMarks(c, e)
    BY <1>1, <1>5, <2>1 DEF AuditMarks
  <2>3. QED
    BY <1>1, <2>2 DEF AuditMove
<1>6. QED
  BY <1>1, <1>3, <1>4, <1>5 DEF AuditInv, AuditWrites

\* The call goes on behind a write it has not made.
LEMMA SkipEffect ==
  ASSUME CallsOK, NEW c \in Call, Committing(c),
         work' = [work EXCEPT ![c].writes = Tail(@)], store' = store
  PROVE  /\ CallsOK' /\ OthersStay(c)
         /\ work'[c].writes = Tail(work[c].writes) /\ work'[c].news = work[c].news
<1>1. /\ DOMAIN work' = Call /\ OthersStay(c)
      /\ DOMAIN work'[c] = {"op", "todo", "seen", "writes", "news"}
      /\ work'[c].todo = work[c].todo
      /\ work'[c].writes = Tail(work[c].writes) /\ work'[c].news = work[c].news
  BY DEF CallsOK, IsCall, OthersStay
<1>2. IsCall(work'[c])
  BY <1>1 DEF CallsOK, IsCall, Committing
<1>3. QED
  BY <1>1, <1>2, CallsKept

LEMMA AuditFindMoves ==
  ASSUME AuditInv, NEW c \in Call, FindDuplicate(c)
  PROVE  AuditMove(c)
<1>1. PICK d \in Envelope : AuditedAs(d) \in DOMAIN work[c].writes[1] /\ Exists(store[AuditedAs(d)])
  BY DEF FindDuplicate, IsDuplicate
<1>2. /\ Committing(c) /\ work[c].writes # <<>> /\ store' = store /\ told' = told
      /\ work' = [work EXCEPT ![c].writes = Tail(@)]
  BY DEF FindDuplicate, IsDuplicate
<1>3. /\ CallsOK' /\ OthersStay(c)
      /\ work'[c].writes = Tail(work[c].writes) /\ work'[c].news = work[c].news
  BY <1>2, SkipEffect DEF AuditInv
<1>4. ASSUME NEW r \in Record, NEW e \in Envelope, AppendsNext(c, r, e)
      PROVE  AuditMove(c)
  <2>1. work[c].writes[1] = Appended(r, e) /\ Tail(work[c].writes) \in {<<>>, << AuditMark(e) >>}
    BY <1>4, AuditShapes
  <2>2. DOMAIN Appended(r, e) = {r, AuditedAs(e)}
    BY AppendedKeys
  <2>3. d = e
    BY <1>1, <2>1, <2>2, AuditKeysApart
  <2>4. AuditFinds(c, e)
    BY <1>1, <1>2, <1>3, <2>1, <2>3 DEF AuditFinds, MarksNext
  <2>5. QED
    BY <1>3, <2>4 DEF AuditMove
<1>5. ASSUME NEW r \in Record, NEW prior \in Record, CorrectsNext(c, r, prior)
      PROVE  FALSE
  <2>1. work[c].writes[1] = Correction(r, prior)
    BY <1>5, Tails DEF CorrectsNext
  <2>2. DOMAIN Correction(r, prior) = {r}
    BY CorrectionKeys
  <2>3. QED
    BY <1>1, <2>1, <2>2, AuditKeysApart
<1>6. ASSUME NEW e \in Envelope, MarksNext(c, e)
      PROVE  FALSE
  <2>1. work[c].writes[1] = AuditMark(e)
    BY <1>6, Tails DEF MarksNext
  <2>2. DOMAIN AuditMark(e) = {Ingested(e)}
    BY AuditMarkKeys
  <2>3. QED
    BY <1>1, <2>1, <2>2, AuditKeysApart
<1>7. QED
  BY <1>2, <1>4, <1>5, <1>6 DEF AuditInv, AuditWrites

\* Audit never takes anything for a financial fact.
LEMMA AuditKnowsNoFact ==
  ASSUME AuditInv, NEW c \in Call
  PROVE  ~IsKnownFact(c)
<1>1. SUFFICES ASSUME IsKnownFact(c) PROVE FALSE
  OBVIOUS
<1>2. PICK d \in EventsOf("journal") : FinancialFact(d) \in DOMAIN work[c].writes[1]
  BY <1>1 DEF IsKnownFact
<1>3. work[c].writes # <<>>
  BY <1>1 DEF IsKnownFact
<1>4. FinancialFact(d) \in ReportingKeys
  BY DEF ReportingKeys, EventsOf
<1>5. \A e \in Envelope : AuditedAs(e) \in AuditKeys /\ Ingested(e) \in AuditKeys
  BY DEF AuditKeys
<1>6. Record \subseteq AuditKeys
  BY DEF AuditKeys
<1>7. ASSUME NEW r \in Record, NEW e \in Envelope, AppendsNext(c, r, e) PROVE FALSE
  <2>1. work[c].writes[1] = Appended(r, e)
    BY <1>7, AuditShapes
  <2>2. DOMAIN Appended(r, e) = {r, AuditedAs(e)}
    BY AppendedKeys
  <2>3. QED
    BY <1>2, <1>4, <1>5, <1>6, <2>1, <2>2, EventConsumersAssumption
<1>8. ASSUME NEW r \in Record, NEW prior \in Record, CorrectsNext(c, r, prior) PROVE FALSE
  <2>1. work[c].writes[1] = Correction(r, prior)
    BY <1>8, Tails DEF CorrectsNext
  <2>2. DOMAIN Correction(r, prior) = {r}
    BY CorrectionKeys
  <2>3. QED
    BY <1>2, <1>4, <1>6, <2>1, <2>2, EventConsumersAssumption
<1>9. ASSUME NEW e \in Envelope, MarksNext(c, e) PROVE FALSE
  <2>1. work[c].writes[1] = AuditMark(e)
    BY <1>9, Tails DEF MarksNext
  <2>2. DOMAIN AuditMark(e) = {Ingested(e)}
    BY AuditMarkKeys
  <2>3. QED
    BY <1>2, <1>4, <1>5, <2>1, <2>2, EventConsumersAssumption
<1>10. QED
  BY <1>3, <1>7, <1>8, <1>9 DEF AuditInv, AuditWrites

LEMMA AuditStepMoves ==
  ASSUME AuditInv, NEW c \in Call, Step(c), subscriber = "audit"
  PROVE  AuditMove(c)
<1>1. CASE Throw(c)
  <2>1. /\ CallsOK' /\ OthersStay(c) /\ work'[c] = Idle /\ store' = store /\ told' = told
        /\ work[c].news = <<>>
    BY <1>1, GiveUpEffect DEF Throw, AuditInv
  <2>2. QED
    BY <2>1, IdleCall, AuditPauses
<1>2. CASE AuditStep(c)
  BY <1>2, RecordMoves, IngestMoves, CorrectionMoves, ArchiveMoves, PurgeMoves DEF AuditStep
<1>3. CASE Save(c) /\ ~IsDuplicate(c)
  BY <1>3, AuditSaveMoves
<1>4. CASE FindDuplicate(c)
  BY <1>4, AuditFindMoves
<1>5. CASE Publish(c)
  <2>1. /\ CallsOK' /\ OthersStay(c) /\ work'[c] = Idle /\ store' = store
        /\ told' = work[c].news @@ told
    BY <1>5, PublishEffect DEF AuditInv
  <2>2. AuditTells(c)
    BY <2>1 DEF AuditTells
  <2>3. QED
    BY <2>1, <2>2 DEF AuditMove
<1>6. ~PassOverFact(c)
  BY AuditKnowsNoFact DEF PassOverFact
<1>7. ~(subscriber = "reporting")
  OBVIOUS
<1>8. QED
  BY <1>1, <1>2, <1>3, <1>4, <1>5, <1>6, <1>7 DEF Step

(***************************************************************************)
(* What the steps of Audit do to the records on file.                      *)
(***************************************************************************)
LEMMA StoreAppended ==
  ASSUME AuditInv, NEW r \in Record, NEW e \in Envelope, store' = Appended(r, e) @@ store
  PROVE  /\ store'[r] = [source |-> e, archived |-> FALSE]
         /\ store'[AuditedAs(e)] = r
         /\ \A k \in Key : k # r /\ k # AuditedAs(e) => store'[k] = store[k]
<1>1. /\ DOMAIN Appended(r, e) = {r, AuditedAs(e)}
      /\ Appended(r, e)[r] = [source |-> e, archived |-> FALSE]
      /\ Appended(r, e)[AuditedAs(e)] = r
  BY AppendedKeys
<1>2. Key \subseteq DOMAIN store
  BY DEF AuditInv, CallsOK
<1>3. QED
  BY <1>1, <1>2 DEF @@

LEMMA StoreCorrected ==
  ASSUME AuditInv, NEW r \in Record, NEW prior, store' = Correction(r, prior) @@ store
  PROVE  /\ store'[r] = [source |-> prior, archived |-> FALSE]
         /\ \A k \in Key : k # r => store'[k] = store[k]
BY Put DEF AuditInv, CallsOK, Correction

LEMMA StoreMarked ==
  ASSUME AuditInv, NEW e \in Envelope, store' = AuditMark(e) @@ store
  PROVE  \A k \in Key : k # Ingested(e) => store'[k] = store[k]
BY Put DEF AuditInv, CallsOK, AuditMark

LEMMA StorePurged ==
  ASSUME AuditInv, NEW r \in Record, store' = Purged(r) @@ store
  PROVE  /\ store'[r] = NoRecord
         /\ store[r].source \in Envelope => /\ DOMAIN Purged(r) = {r, AuditedAs(store[r].source)}
                                            /\ store'[AuditedAs(store[r].source)] = NoRecord
         /\ store[r].source \notin Envelope => DOMAIN Purged(r) = {r}
         /\ \A k \in Key : k \notin DOMAIN Purged(r) => store'[k] = store[k]
<1>1. Key \subseteq DOMAIN store
  BY DEF AuditInv, CallsOK
<1>2. \A k \in Key : k \notin DOMAIN Purged(r) => store'[k] = store[k]
  BY <1>1 DEF @@
<1>3. CASE store[r].source \in Envelope
  <2>1. Purged(r) = (r :> NoRecord) @@ (AuditedAs(store[r].source) :> NoRecord)
    BY <1>3 DEF Purged
  <2>2. /\ DOMAIN Purged(r) = {r, AuditedAs(store[r].source)}
        /\ \A k \in DOMAIN Purged(r) : Purged(r)[k] = NoRecord
    BY <2>1 DEF :>, @@
  <2>3. \A k \in DOMAIN Purged(r) : store'[k] = NoRecord
    BY <2>2 DEF @@
  <2>4. QED
    BY <1>2, <1>3, <2>2, <2>3
<1>4. CASE store[r].source \notin Envelope
  <2>1. Purged(r) = (r :> NoRecord) @@ <<>>
    BY <1>4 DEF Purged
  <2>2. /\ DOMAIN Purged(r) = {r}
        /\ \A k \in DOMAIN Purged(r) : Purged(r)[k] = NoRecord
    BY <2>1 DEF :>, @@
  <2>3. \A k \in DOMAIN Purged(r) : store'[k] = NoRecord
    BY <2>2 DEF @@
  <2>4. QED
    BY <1>2, <1>4, <2>2, <2>3
<1>5. QED
  BY <1>3, <1>4

\* The archive keeps the source of a record.
LEMMA StoreArchived ==
  ASSUME AuditInv, NEW r \in Record, Exists(store[r]),
         store' = (r :> [store[r] EXCEPT !.archived = TRUE]) @@ store
  PROVE  /\ store'[r] \in AuditRecords /\ store'[r].source = store[r].source
         /\ \A k \in Key : k # r => store'[k] = store[k]
<1>1. store[r] \in AuditRecords
  BY DEF AuditInv, Exists
<1> DEFINE record == [store[r] EXCEPT !.archived = TRUE]
<1>2. record \in AuditRecords /\ record.source = store[r].source
  BY <1>1 DEF AuditRecords
<1> HIDE DEF record
<1>3. store'[r] = record /\ \A k \in Key : k # r => store'[k] = store[k]
  BY Put DEF AuditInv, CallsOK, record
<1>4. QED
  BY <1>2, <1>3

LEMMA AuditRecordsKept ==
  ASSUME AuditInv, NEW c \in Call, AuditMove(c), NEW s \in Record
  PROVE  /\ store'[s] \in AuditRecords \union {NoRecord}
         /\ \A d \in Envelope : Exists(store'[s]) /\ store'[s].source = d =>
              store'[AuditedAs(d)] = s
<1>1. s \in Key /\ store[s] \in AuditRecords \union {NoRecord}
  BY AuditAssumption DEF AuditInv
<1>2. \A d \in Envelope : Exists(store[s]) /\ store[s].source = d => store[AuditedAs(d)] = s
  BY DEF AuditInv
<1>3. \A d \in Envelope : AuditedAs(d) \in Key /\ AuditedAs(d) \notin Record
  BY AuditKeysApart
<1>4. CASE store' = store
  BY <1>1, <1>2, <1>4
<1>5. ASSUME NEW e \in Envelope, AuditMarks(c, e)
      PROVE  store'[s] = store[s] /\ \A d \in Envelope : store'[AuditedAs(d)] = store[AuditedAs(d)]
  BY <1>1, <1>3, <1>5, StoreMarked, AuditKeysApart DEF AuditMarks
<1>6. ASSUME NEW r \in Record, AuditArchives(c, r)
      PROVE  /\ store'[s] \in AuditRecords \union {NoRecord}
             /\ \A d \in Envelope : Exists(store'[s]) /\ store'[s].source = d =>
                  store'[AuditedAs(d)] = s
  <2>1. \A d \in Envelope : store'[AuditedAs(d)] = store[AuditedAs(d)]
    BY <1>3, <1>6, StoreArchived DEF AuditArchives
  <2>2. CASE s = r
    BY <1>2, <1>6, <2>1, <2>2, StoreArchived DEF AuditArchives
  <2>3. CASE s # r
    BY <1>1, <1>2, <1>6, <2>1, <2>3, StoreArchived DEF AuditArchives
  <2>4. QED
    BY <2>2, <2>3
<1>7. ASSUME NEW r \in Record, AuditPurges(c, r)
      PROVE  /\ store'[s] \in AuditRecords \union {NoRecord}
             /\ \A d \in Envelope : Exists(store'[s]) /\ store'[s].source = d =>
                  store'[AuditedAs(d)] = s
  <2>1. store' = Purged(r) @@ store /\ Exists(store[r])
    BY <1>7 DEF AuditPurges
  <2>2. CASE s = r
    BY <2>1, <2>2, StorePurged DEF Exists
  <2>3. CASE s # r
    <3>1. s \notin DOMAIN Purged(r)
      BY <1>3, <2>1, <2>3, StorePurged
    <3>2. store'[s] = store[s]
      BY <1>1, <2>1, <3>1, StorePurged
    <3>3. ASSUME NEW d \in Envelope, Exists(store[s]), store[s].source = d
          PROVE  store'[AuditedAs(d)] = s
      <4>1. store[AuditedAs(d)] = s
        BY <1>2, <3>3
      <4>2. AuditedAs(d) \notin DOMAIN Purged(r)
        <5>1. ASSUME store[r].source \in Envelope, AuditedAs(d) = AuditedAs(store[r].source)
              PROVE  FALSE
          <6>1. store[AuditedAs(store[r].source)] = r
            BY <2>1, <5>1 DEF AuditInv
          <6>2. QED
            BY <2>3, <4>1, <5>1, <6>1
        <5>2. AuditedAs(d) # r
          BY <1>3
        <5>3. QED
          BY <2>1, <5>1, <5>2, StorePurged
      <4>3. QED
        BY <1>3, <2>1, <4>1, <4>2, StorePurged
    <3>4. QED
      BY <1>1, <3>2, <3>3
  <2>4. QED
    BY <2>2, <2>3
<1>8. ASSUME NEW r \in Record, NEW e \in Envelope, AuditAppends(c, r, e)
      PROVE  /\ store'[s] \in AuditRecords \union {NoRecord}
             /\ \A d \in Envelope : Exists(store'[s]) /\ store'[s].source = d =>
                  store'[AuditedAs(d)] = s
  <2>1. store' = Appended(r, e) @@ store /\ ~Exists(store[AuditedAs(e)])
    BY <1>8 DEF AuditAppends
  <2>2. CASE s = r
    <3>1. store'[s] = [source |-> e, archived |-> FALSE] /\ store'[AuditedAs(e)] = s
      BY <2>1, <2>2, StoreAppended
    <3>2. store'[s] \in AuditRecords
      BY <3>1 DEF AuditRecords
    <3>3. store'[s].source = e
      BY <3>1
    <3>4. QED
      BY <3>1, <3>2, <3>3
  <2>3. CASE s # r
    <3>1. store'[s] = store[s]
      BY <1>1, <1>3, <2>1, <2>3, StoreAppended
    <3>2. ASSUME NEW d \in Envelope, Exists(store[s]), store[s].source = d
          PROVE  store'[AuditedAs(d)] = s
      <4>1. store[AuditedAs(d)] = s
        BY <1>2, <3>2
      <4>2. s # NoRecord
        BY AuditAssumption
      <4>3. AuditedAs(d) # AuditedAs(e)
        BY <2>1, <4>1, <4>2 DEF Exists
      <4>4. AuditedAs(d) \in Key /\ AuditedAs(d) # r
        BY <1>3
      <4>5. QED
        BY <2>1, <4>1, <4>3, <4>4, StoreAppended
    <3>3. QED
      BY <1>1, <3>1, <3>2
  <2>4. QED
    BY <2>2, <2>3
<1>9. ASSUME NEW r \in Record, NEW prior \in Record, AuditCorrects(c, r, prior)
      PROVE  /\ store'[s] \in AuditRecords \union {NoRecord}
             /\ \A d \in Envelope : Exists(store'[s]) /\ store'[s].source = d =>
                  store'[AuditedAs(d)] = s
  <2>1. store' = Correction(r, prior) @@ store
    BY <1>9 DEF AuditCorrects
  <2>2. \A d \in Envelope : store'[AuditedAs(d)] = store[AuditedAs(d)]
    BY <1>3, <2>1, StoreCorrected
  <2>3. CASE s = r
    <3>1. store'[s] = [source |-> prior, archived |-> FALSE]
      BY <2>1, <2>3, StoreCorrected
    <3>2. store'[s] \in AuditRecords /\ store'[s].source = prior
      BY <3>1 DEF AuditRecords
    <3>3. prior \notin Envelope
      BY AuditAssumption
    <3>4. QED
      BY <3>2, <3>3
  <2>4. CASE s # r
    BY <1>1, <1>2, <2>1, <2>2, <2>4, StoreCorrected
  <2>5. QED
    BY <2>3, <2>4
<1>10. QED
  BY <1>1, <1>2, <1>4, <1>5, <1>6, <1>7, <1>8, <1>9 DEF AuditMove, AuditStages, AuditTells, AuditFinds

\* A source event that had a record keeps it, or its purge is said.
LEMMA HadRecordStays ==
  ASSUME AuditInv, NEW c \in Call, AuditMove(c), NEW e \in Envelope, HadRecord(e)
  PROVE  HadRecord(e)'
<1>1. AuditedAs(e) \in Key /\ AuditedAs(e) \notin Record
  BY AuditKeysApart
<1>2. "purged" # NoRecord /\ \A r \in Record : r # NoRecord
  BY AuditAssumption
<1>3. \A d \in Call \ {c} : work'[d] = work[d]
  BY DEF AuditMove, OthersStay
<1>4. DOMAIN <<>> = {}
  OBVIOUS
<1>5. CASE AuditTells(c)
  <2>1. CASE AuditedAs(e) \in DOMAIN work[c].news
    <3>1. work[c].news[AuditedAs(e)] = "purged"
      BY <2>1 DEF AuditInv
    <3>2. told'[AuditedAs(e)] = "purged"
      BY <1>5, <2>1, <3>1 DEF AuditTells, @@
    <3>3. QED
      BY <1>2, <3>2 DEF HadRecord, Exists
  <2>2. CASE AuditedAs(e) \notin DOMAIN work[c].news
    <3>1. AuditedAs(e) \in DOMAIN told
      BY <1>1 DEF AuditInv
    <3>2. told'[AuditedAs(e)] = told[AuditedAs(e)] /\ store' = store
      BY <1>5, <2>2, <3>1 DEF AuditTells, @@
    <3>3. QED
      BY <1>3, <2>2, <3>2 DEF HadRecord, Exists
  <2>3. QED
    BY <2>1, <2>2
<1>6. CASE ~AuditTells(c)
  <2>1. told' = told
    BY <1>6 DEF AuditMove, AuditStages, AuditFinds, AuditMarks, AuditArchives, AuditPurges,
                AuditAppends, AuditCorrects
  <2>2. work'[c].news = work[c].news \/ work[c].news = <<>>
    BY <1>6 DEF AuditMove, AuditStages, AuditFinds, AuditMarks, AuditArchives, AuditPurges,
                AuditAppends, AuditCorrects
  <2>3. (\E d \in Call : AuditedAs(e) \in DOMAIN work[d].news) =>
        \E d \in Call : AuditedAs(e) \in DOMAIN work'[d].news
    BY <1>3, <1>4, <2>2
  <2>4. ASSUME Exists(store[AuditedAs(e)])
        PROVE  Exists(store'[AuditedAs(e)]) \/ AuditedAs(e) \in DOMAIN work'[c].news
    <3>1. ASSUME NEW d \in Envelope, AuditMarks(c, d) PROVE store'[AuditedAs(e)] = store[AuditedAs(e)]
      BY <1>1, <3>1, StoreMarked, AuditKeysApart DEF AuditMarks
    <3>2. ASSUME NEW r \in Record, AuditArchives(c, r) PROVE store'[AuditedAs(e)] = store[AuditedAs(e)]
      BY <1>1, <3>2, StoreArchived DEF AuditArchives
    <3>3. ASSUME NEW r \in Record, AuditPurges(c, r)
          PROVE  store'[AuditedAs(e)] = store[AuditedAs(e)] \/ AuditedAs(e) \in DOMAIN work'[c].news
      <4>1. DOMAIN work'[c].news = DOMAIN Purged(r)
        BY <3>3 DEF AuditPurges
      <4>2. QED
        BY <1>1, <3>3, <4>1, StorePurged DEF AuditPurges
    <3>4. ASSUME NEW r \in Record, NEW d \in Envelope, AuditAppends(c, r, d)
          PROVE  Exists(store'[AuditedAs(e)])
      BY <1>1, <1>2, <2>4, <3>4, StoreAppended DEF AuditAppends, Exists
    <3>5. ASSUME NEW r \in Record, NEW prior \in Record, AuditCorrects(c, r, prior)
          PROVE  store'[AuditedAs(e)] = store[AuditedAs(e)]
      BY <1>1, <3>5, StoreCorrected DEF AuditCorrects
    <3>6. QED
      BY <1>6, <2>4, <3>1, <3>2, <3>3, <3>4, <3>5 DEF AuditMove, AuditStages, AuditFinds, Exists
  <2>5. QED
    BY <2>1, <2>3, <2>4 DEF HadRecord, Exists
<1>7. QED
  BY <1>5, <1>6

LEMMA AuditInvStep ==
  ASSUME AuditInv, NEW c \in Call, AuditMove(c)
  PROVE  AuditInv'
<1>1. CallsOK' /\ OthersStay(c)
  BY DEF AuditMove
<1>2. Key \subseteq DOMAIN told'
  <2>1. told' = told \/ told' = work[c].news @@ told
    BY DEF AuditMove, AuditStages, AuditFinds, AuditMarks, AuditArchives, AuditPurges,
           AuditAppends, AuditCorrects, AuditTells
  <2>2. DOMAIN told \subseteq DOMAIN told'
    BY <2>1 DEF @@
  <2>3. QED
    BY <2>2 DEF AuditInv
<1>3. \A d \in Call : AuditWrites(d)'
  <2>1. \A d \in Call \ {c} : AuditWrites(d)'
    BY <1>1 DEF AuditInv, OthersStay, AuditWrites, AppendsNext, CorrectsNext, MarksNext
  <2>2. AuditWrites(c)'
    BY IdleCall DEF AuditMove, AuditStages, AuditFinds, AuditMarks, AuditArchives, AuditPurges,
           AuditAppends, AuditCorrects, AuditTells, AuditWrites
  <2>3. QED
    BY <2>1, <2>2
<1>4. \A e \in Envelope, d \in Call :
        AuditedAs(e) \in DOMAIN work'[d].news => work'[d].news[AuditedAs(e)] = "purged"
  <2>1. \A e \in Envelope, d \in Call \ {c} :
          AuditedAs(e) \in DOMAIN work'[d].news => work'[d].news[AuditedAs(e)] = "purged"
    BY <1>1 DEF AuditInv, OthersStay
  <2>2. ASSUME NEW e \in Envelope, AuditedAs(e) \in DOMAIN work'[c].news
        PROVE  work'[c].news[AuditedAs(e)] = "purged"
    <3>1. DOMAIN <<>> = {}
      OBVIOUS
    <3>2. ASSUME NEW r \in Record, AuditArchives(c, r) PROVE FALSE
      <4>1. DOMAIN work'[c].news = {r}
        BY <3>2 DEF AuditArchives, :>
      <4>2. QED
        BY <2>2, <4>1, AuditKeysApart
    <3>3. ASSUME NEW r \in Record, AuditPurges(c, r) PROVE work'[c].news[AuditedAs(e)] = "purged"
      BY <2>2, <3>3 DEF AuditPurges
    <3>4. CASE work'[c].news = work[c].news
      BY <2>2, <3>4 DEF AuditInv
    <3>5. work'[c].news # <<>>
      BY <2>2, <3>1
    <3>6. QED
      BY <3>2, <3>3, <3>4, <3>5, IdleCall
         DEF AuditMove, AuditStages, AuditFinds, AuditMarks, AuditAppends, AuditCorrects, AuditTells
  <2>3. QED
    BY <2>1, <2>2
<1>5. \A e \in Projected, d \in Call : MarksNext(d, e)' => HadRecord(e)'
  <2>1. \A e \in Projected : e \in Envelope
    BY AuditAssumption
  <2>2. ASSUME NEW e \in Projected, NEW d \in Call \ {c}, MarksNext(d, e)' PROVE HadRecord(e)'
    <3>1. MarksNext(d, e)
      BY <1>1, <2>2 DEF OthersStay, MarksNext
    <3>2. QED
      BY <2>1, <3>1, HadRecordStays DEF AuditInv
  <2>3. ASSUME NEW e \in Projected, MarksNext(c, e)' PROVE HadRecord(e)'
    <3>1. work'[c].writes # <<>> /\ \A d \in Envelope : MarksNext(c, d)' => d = e
      <4>1. ASSUME NEW d \in Envelope, MarksNext(c, d)' PROVE d = e
        <5>1. AuditMark(d) = AuditMark(e)
          BY <2>3, <4>1, Tails DEF MarksNext
        <5>2. DOMAIN AuditMark(d) = {Ingested(d)}
          BY AuditMarkKeys
        <5>3. DOMAIN AuditMark(e) = {Ingested(e)}
          BY <2>1, AuditMarkKeys
        <5>4. QED
          BY <2>1, <5>1, <5>2, <5>3, AuditKeysApart
      <4>2. QED
        BY <2>3, <4>1, Tails DEF MarksNext
    <3>2. CASE AuditStages(c)
      BY <2>3, <3>2 DEF AuditStages, HadRecord
    <3>3. ASSUME NEW r \in Record, NEW d \in Envelope, AuditAppends(c, r, d) PROVE HadRecord(e)'
      <4>1. d = e
        BY <3>1, <3>3 DEF AuditAppends
      <4>2. store'[AuditedAs(e)] = r
        BY <3>3, <4>1, StoreAppended DEF AuditAppends
      <4>3. QED
        BY <4>2, AuditAssumption DEF HadRecord, Exists
    <3>4. ASSUME NEW d \in Envelope, AuditFinds(c, d) PROVE HadRecord(e)'
      BY <3>1, <3>4 DEF AuditFinds, HadRecord
    <3>5. ~AuditTells(c)
      BY <3>1, IdleCall DEF AuditTells
    <3>6. QED
      BY <3>1, <3>2, <3>3, <3>4, <3>5
         DEF AuditMove, AuditMarks, AuditArchives, AuditPurges, AuditCorrects
  <2>4. QED
    BY <2>2, <2>3
<1>6. ASSUME NEW e \in Projected, Exists(store'[Ingested(e)]) PROVE HadRecord(e)'
  <2>1. e \in Envelope /\ Ingested(e) \in Key /\ Ingested(e) \notin Record
    BY AuditAssumption
  <2>2. \A d \in Envelope : AuditedAs(d) # Ingested(e)
    BY <2>1, AuditKeysApart
  <2>3. CASE Exists(store[Ingested(e)])
    BY <2>1, <2>3, HadRecordStays DEF AuditInv
  <2>4. CASE store'[Ingested(e)] # store[Ingested(e)]
    <3>1. ASSUME NEW r \in Record, AuditArchives(c, r) PROVE FALSE
      BY <2>1, <2>4, <3>1, StoreArchived DEF AuditArchives
    <3>2. ASSUME NEW r \in Record, AuditPurges(c, r) PROVE FALSE
      BY <2>1, <2>2, <2>4, <3>2, StorePurged DEF AuditPurges
    <3>3. ASSUME NEW r \in Record, NEW d \in Envelope, AuditAppends(c, r, d) PROVE FALSE
      BY <2>1, <2>2, <2>4, <3>3, StoreAppended DEF AuditAppends
    <3>4. ASSUME NEW r \in Record, NEW prior \in Record, AuditCorrects(c, r, prior) PROVE FALSE
      BY <2>1, <2>4, <3>4, StoreCorrected DEF AuditCorrects
    <3>5. PICK d \in Envelope : AuditMarks(c, d)
      BY <2>4, <3>1, <3>2, <3>3, <3>4 DEF AuditMove, AuditStages, AuditFinds, AuditTells
    <3>6. d = e
      BY <2>1, <2>4, <3>5, StoreMarked, AuditKeysApart DEF AuditMarks
    <3>7. HadRecord(e)
      BY <3>5, <3>6 DEF AuditMarks, AuditInv
    <3>8. QED
      BY <2>1, <3>7, HadRecordStays
  <2>5. QED
    BY <1>6, <2>3, <2>4 DEF Exists
<1>7. QED
  BY <1>1, <1>2, <1>3, <1>4, <1>5, <1>6, AuditRecordsKept DEF AuditInv, Exists

\* Audit leaves the repositories of Reporting alone.
LEMMA AuditKeysOnly ==
  ASSUME AuditInv, NEW c \in Call, AuditMove(c), NEW k \in Key \ AuditKeys
  PROVE  store'[k] = store[k]
<1>1. k \notin Record /\ \A e \in Envelope : k # AuditedAs(e) /\ k # Ingested(e)
  BY DEF AuditKeys
<1>2. ASSUME NEW r \in Record, AuditArchives(c, r) PROVE store'[k] = store[k]
  BY <1>1, <1>2, StoreArchived DEF AuditArchives
<1>3. ASSUME NEW r \in Record, AuditPurges(c, r) PROVE store'[k] = store[k]
  BY <1>1, <1>3, StorePurged DEF AuditPurges
<1>4. ASSUME NEW r \in Record, NEW e \in Envelope, AuditAppends(c, r, e) PROVE store'[k] = store[k]
  BY <1>1, <1>4, StoreAppended DEF AuditAppends
<1>5. ASSUME NEW r \in Record, NEW prior \in Record, AuditCorrects(c, r, prior)
      PROVE  store'[k] = store[k]
  BY <1>1, <1>5, StoreCorrected DEF AuditCorrects
<1>6. ASSUME NEW e \in Envelope, AuditMarks(c, e) PROVE store'[k] = store[k]
  BY <1>1, <1>6, StoreMarked DEF AuditMarks
<1>7. QED
  BY <1>2, <1>3, <1>4, <1>5, <1>6 DEF AuditMove, AuditStages, AuditFinds, AuditTells

-----------------------------------------------------------------------------
(***************************************************************************)
(* The two consumers, one of which is subscribed.                          *)
(***************************************************************************)
ConsumersInv ==
  /\ subscriber \in {"reporting", "audit"} /\ timely \subseteq CaptureJournals
  /\ subscriber = "reporting" =>
       /\ ReportingInv /\ OrdersCounted /\ CommitsTraced /\ BalancesCount
       /\ Deliveries /\ TimelyInFull
       /\ \A k \in AuditKeys : store[k] = NoRecord
  /\ subscriber = "audit" =>
       /\ AuditInv
       /\ \A k \in ReportingKeys \intersect Key : store[k] = NoRecord

LEMMA AuditKeysAreKeys == AuditKeys \subseteq Key
BY AuditAssumption DEF AuditKeys

LEMMA ReportingKeysOf ==
  ASSUME NEW e \in DOMAIN Stream
  PROVE  /\ {Stream[e].of, Processed(e)} \subseteq ReportingKeys \intersect Key
         /\ Stream[e].kind = "stock" => MovementFact(e) \in ReportingKeys \intersect Key
         /\ Stream[e].kind = "journal" => FinancialFact(e) \in ReportingKeys \intersect Key
<1>1. {Stream[e].of, Processed(e), MovementFact(e), FinancialFact(e)} \subseteq ReportingKeys
  BY DEF ReportingKeys
<1>2. QED
  BY <1>1, EventTypes, ReportingAssumption

LEMMA ConsumersStart ==
  ASSUME Init
  PROVE  ConsumersInv
<1>1. CallsOK /\ \A c \in Call : work[c] = Idle
  BY CallsStart DEF Init
<1>2. /\ \A k \in Key : store[k] = NoRecord
      /\ told = [k \in Key |-> NoRecord]
  <2>1. DOMAIN <<>> = {}
    OBVIOUS
  <2>2. QED
    BY <2>1 DEF Init, ServiceInit
<1>3. \A c \in Call : work[c].op = <<>> /\ work[c].writes = <<>> /\ work[c].news = <<>>
  BY <1>1, IdleCall
<1>4. \A c \in Call, e \in DOMAIN Stream : ~Applying(c, e) /\ ~HasFact(c, e) /\ ~HasMark(c, e)
  <2>1. \A e : <<>> # <<"balance", e>>
    OBVIOUS
  <2>2. QED
    BY <1>3, <2>1, Tails DEF Applying, HasFact, HasMark
<1>5. \A e \in DOMAIN Stream :
        /\ store[Stream[e].of] = NoRecord /\ store[Processed(e)] = NoRecord
        /\ Stream[e].kind = "stock" => store[MovementFact(e)] = NoRecord
        /\ Stream[e].kind = "journal" => store[FinancialFact(e)] = NoRecord
  BY <1>2, ReportingKeysOf
<1>6. ReportingInv
  <2>1. \A c \in Call : ReportingWrites(c)
    BY <1>3 DEF ReportingWrites
  <2>2. GoodOrder(NoRecord) /\ GoodPayment(NoRecord) /\ GoodBalance(NoRecord)
    BY DEF GoodOrder, GoodPayment, GoodBalance
  <2>3. QED
    BY <1>1, <1>4, <1>5, <2>1, <2>2 DEF ReportingInv
<1>7. OrdersCounted
  BY <1>4, <1>5 DEF OrdersCounted, Exists, EventsOf
<1>8. CommitsTraced
  BY <1>4, <1>5 DEF CommitsTraced, Counted, Exists, EventsOf
<1>9. Deliveries
  <2>1. InHand = {}
    BY <1>3 DEF InHand
  <2>2. \A e \in Money : e \in DOMAIN Stream /\ ~Marked(e)
    BY <1>4, <1>5 DEF Marked, Exists, Money, EventsOf
  <2>3. QED
    BY <1>4, <1>5, <2>1, <2>2 DEF Deliveries, Exists, EventsOf
<1>10. TimelyInFull /\ timely = {}
  BY DEF Init, TimelyInFull
<1>11. BalancesCount
  <2>1. \A e \in EventsOf("stock") :
          /\ e \in DOMAIN Stream /\ store[Stream[e].of] = NoRecord /\ ~OnFile(e)
          /\ \A c \in Call : ~Applies(c, e)
    BY <1>4, <1>5 DEF EventsOf, OnFile, Exists, Applies
  <2>2. \A sku : Settled(sku) = {}
    BY <2>1 DEF Settled
  <2>3. \A e \in EventsOf("stock") : CountOf(Stream[e].of) = 0
    BY <2>1 DEF CountOf, Exists
  <2>4. dropped = {}
    BY DEF Init
  <2>5. QED
    BY <2>1, <2>2, <2>3, <2>4, FS_EmptySet DEF BalancesCount
<1>12. AuditInv
  <2>1. Key \subseteq DOMAIN told
    BY <1>2
  <2>2. \A c \in Call : AuditWrites(c)
    BY <1>3 DEF AuditWrites
  <2>3. \A r \in Record : store[r] = NoRecord
    BY <1>2, AuditAssumption
  <2>4. \A e \in Envelope, c \in Call : AuditedAs(e) \notin DOMAIN work[c].news
    BY <1>3
  <2>5. \A e \in Projected : store[Ingested(e)] = NoRecord /\ \A c \in Call : ~MarksNext(c, e)
    BY <1>2, <1>3, Tails, AuditAssumption DEF MarksNext
  <2>6. QED
    BY <1>1, <2>1, <2>2, <2>3, <2>4, <2>5 DEF AuditInv, Exists
<1>13. QED
  BY <1>2, <1>6, <1>7, <1>8, <1>9, <1>10, <1>11, <1>12, AuditKeysAreKeys DEF ConsumersInv, Init

LEMMA ConsumersStutter ==
  ASSUME ConsumersInv, UNCHANGED vars
  PROVE  ConsumersInv'
<1>1. /\ store' = store /\ told' = told /\ work' = work /\ raced' = raced
      /\ dropped' = dropped /\ subscriber' = subscriber
      /\ delivered' = delivered /\ timely' = timely
  BY DEF vars, serviceVars
<1>2. /\ \A c, e : HasFact(c, e)' <=> HasFact(c, e)
      /\ \A c, e : HasMark(c, e)' <=> HasMark(c, e)
      /\ \A c, e : Applying(c, e)' <=> Applying(c, e)
      /\ \A c, e : Applies(c, e)' <=> Applies(c, e)
      /\ \A c, e : MarksNext(c, e)' <=> MarksNext(c, e)
      /\ \A e : HadRecord(e)' <=> HadRecord(e)
      /\ \A e : Marked(e)' <=> Marked(e)
      /\ InHand' = InHand
  BY <1>1 DEF HasFact, HasMark, Applying, Applies, MarksNext, HadRecord, Marked, InHand
<1>3. ReportingInv => ReportingInv'
  BY <1>1, <1>2 DEF ReportingInv, CallsOK, ReportingWrites
<1>4. OrdersCounted => OrdersCounted'
  BY <1>1, <1>2 DEF OrdersCounted, Counted, EventsOf
<1>5. BalancesCount => BalancesCount'
  BY <1>1, <1>2 DEF BalancesCount, CountOf, Settled, OnFile, EventsOf
<1>6. AuditInv => AuditInv'
  BY <1>1, <1>2 DEF AuditInv, CallsOK, AuditWrites, AppendsNext, CorrectsNext
<1>7. CommitsTraced => CommitsTraced'
  BY <1>1, <1>2 DEF CommitsTraced, Traced, Counted, EventsOf
<1>8. Deliveries => Deliveries'
  BY <1>1, <1>2 DEF Deliveries, Money, FactKey, EventsOf
<1>9. TimelyInFull => TimelyInFull'
  BY <1>1, <1>2 DEF TimelyInFull, IsLastOfPayment, Captured, CaptureJournals, EventsOf
<1>10. timely \subseteq CaptureJournals => timely' \subseteq CaptureJournals'
  BY <1>1 DEF CaptureJournals, EventsOf
<1>11. QED
  BY <1>1, <1>3, <1>4, <1>5, <1>6, <1>7, <1>8, <1>9, <1>10 DEF ConsumersInv

LEMMA ConsumersStep ==
  ASSUME ConsumersInv, NEW c \in Call, Step(c), UNCHANGED subscriber,
         delivered' = delivered \union InHand',
         timely' = timely \union {e \in CaptureJournals \intersect (delivered' \ delivered) :
                                     Exists(store[Processed(Stream[e].source)])}
  PROVE  ConsumersInv'
<1>1. timely' \subseteq CaptureJournals'
  BY DEF ConsumersInv, CaptureJournals, EventsOf
<1>2. CASE subscriber = "reporting"
  <2>1. /\ ReportingInv /\ OrdersCounted /\ CommitsTraced /\ BalancesCount
        /\ Deliveries /\ TimelyInFull
        /\ \A k \in AuditKeys : store[k] = NoRecord
    BY <1>2 DEF ConsumersInv
  <2>2. ReportingMove(c)
    BY <1>2, <2>1, ReportingStep
  <2>3. ReportingInv' /\ OrdersCounted' /\ CommitsTraced' /\ BalancesCount'
    BY <2>1, <2>2, ReportingInvStep, OrdersCountedStep, CommitsTracedStep, BalancesCountStep
  <2>4. Deliveries' /\ TimelyInFull'
    BY <2>1, <2>2, DeliveriesStep, TimelyStep
  <2>5. \A k \in AuditKeys : store'[k] = NoRecord
    BY <2>1, <2>2, ReportingKeysOnly, AuditKeysAreKeys, EventConsumersAssumption
  <2>6. QED
    BY <1>1, <1>2, <2>3, <2>4, <2>5 DEF ConsumersInv
<1>3. CASE subscriber = "audit"
  <2>1. AuditInv /\ \A k \in ReportingKeys \intersect Key : store[k] = NoRecord
    BY <1>3 DEF ConsumersInv
  <2>2. AuditMove(c)
    BY <1>3, <2>1, AuditStepMoves
  <2>3. AuditInv'
    BY <2>1, <2>2, AuditInvStep
  <2>4. \A k \in ReportingKeys \intersect Key : store'[k] = NoRecord
    BY <2>1, <2>2, AuditKeysOnly, EventConsumersAssumption
  <2>5. QED
    BY <1>1, <1>3, <2>3, <2>4 DEF ConsumersInv
<1>4. QED
  BY <1>2, <1>3 DEF ConsumersInv

\* What both consumers keep, whichever events are delivered to them, in which order,
\* how often, and to how many calls at once.
THEOREM ConsumersInvariant == Spec => []ConsumersInv
<1>1. ConsumersInv /\ [Next]_vars => ConsumersInv'
  BY ConsumersStep, ConsumersStutter DEF Next
<1>2. QED
  BY <1>1, ConsumersStart, PTL DEF Spec

\* ReportingService.consumeEvent: for every stream and number of calls the order KPI
\* counts each order whose commitment is marked as projected, unless two projections of
\* the order have raced, and whenever no call is running it counts no other order.
THEOREM ReportCountsCommittedOrdersAlways == Spec => []ReportCountsCommittedOrders
<1>1. ASSUME ConsumersInv PROVE Committed \ raced \subseteq CountedOrders
  <2>1. SUFFICES ASSUME NEW e \in Commitments, Stream[e].of \notin raced
                 PROVE  Stream[e].of \in CountedOrders
    BY DEF Committed
  <2>2. /\ e \in EventsOf("order") /\ Stream[e].type = "committed" /\ Exists(store[Processed(e)])
        /\ e \in DOMAIN Stream
    BY DEF Commitments, EventsOf
  <2>3. CASE subscriber = "reporting"
    BY <1>1, <2>1, <2>2, <2>3 DEF ConsumersInv, OrdersCounted, Counted, CountedOrders
  <2>4. CASE subscriber = "audit"
    BY <1>1, <2>2, <2>4, ReportingKeysOf DEF ConsumersInv, Exists
  <2>5. QED
    BY <1>1, <2>3, <2>4 DEF ConsumersInv
<1>2. ASSUME ConsumersInv, AtRest PROVE CountedOrders \subseteq Committed
  <2>1. SUFFICES ASSUME NEW e \in EventsOf("order"), Counted(Stream[e].of)
                 PROVE  Stream[e].of \in Committed
    BY DEF CountedOrders, Counted
  <2>2. e \in DOMAIN Stream
    BY DEF EventsOf
  <2>3. CASE subscriber = "reporting"
    <3>1. PICK x \in EventsOf("order") :
            Stream[x].of = Stream[e].of /\ Stream[x].type = "committed" /\ Marked(x)
      BY <1>2, <2>1, <2>3 DEF ConsumersInv, CommitsTraced, Traced
    <3>2. \A c \in Call : ~HasMark(c, x)
      BY <1>2, IdleCall, Tails DEF AtRest, IsIdle, HasMark
    <3>3. QED
      BY <3>1, <3>2 DEF Marked, Commitments, Committed
  <2>4. CASE subscriber = "audit"
    BY <1>2, <2>1, <2>2, <2>4, ReportingKeysOf DEF ConsumersInv, Counted, Exists
  <2>5. QED
    BY <1>2, <2>3, <2>4 DEF ConsumersInv
<1>3. ConsumersInv => ReportCountsCommittedOrders
  BY <1>1, <1>2 DEF ReportCountsCommittedOrders
<1>4. QED
  BY <1>3, ConsumersInvariant, PTL

\* appendInventoryMovement and the balance behind it: whenever no call is running a
\* balance has counted every movement on file once, but those whose projection threw,
\* unless two projections of the balance have raced.
THEOREM BalanceCountsMovementsAlways == Spec => []BalanceCountsMovements
<1>1. ASSUME ConsumersInv, AtRest, NEW e \in EventsOf("stock"), Stream[e].of \notin raced
      PROVE  IF Exists(store[Stream[e].of])
               THEN /\ store[Stream[e].of].count = Cardinality(Applied(Stream[e].of))
                    /\ IsSane(store[Stream[e].of])
               ELSE Applied(Stream[e].of) = {}
  <2>1. e \in DOMAIN Stream /\ Stream[e].kind = "stock"
    BY DEF EventsOf
  <2>2. CASE subscriber = "reporting"
    <3>1. ReportingInv /\ BalancesCount /\ GoodBalance(store[Stream[e].of])
      BY <1>1, <2>1, <2>2 DEF ConsumersInv, ReportingInv
    <3>2. \A c \in Call, d \in DOMAIN Stream : ~Applies(c, d)
      <4>1. \A c \in Call : work[c].op = <<>> /\ work[c].writes = <<>>
        BY <1>1, IdleCall DEF AtRest, IsIdle
      <4>2. \A d : <<>> # <<"balance", d>>
        OBVIOUS
      <4>3. QED
        BY <4>1, <4>2, Tails DEF Applies, Applying, HasFact
    <3>3. Settled(Stream[e].of) = Applied(Stream[e].of)
      BY <3>2 DEF Settled, Applied, OnFile, EventsOf
    <3>4. CountOf(Stream[e].of) = Cardinality(Applied(Stream[e].of))
      BY <1>1, <3>1, <3>3 DEF BalancesCount
    <3>5. IsFiniteSet(Applied(Stream[e].of))
      BY <3>3, SettledFinite
    <3>6. QED
      BY <3>1, <3>4, <3>5, FS_EmptySet DEF CountOf, GoodBalance, Exists
  <2>3. CASE subscriber = "audit"
    <3>1. store[Stream[e].of] = NoRecord
      BY <1>1, <2>1, <2>3, ReportingKeysOf DEF ConsumersInv
    <3>2. \A d \in EventsOf("stock") : store[MovementFact(d)] = NoRecord
      BY <1>1, <2>3, ReportingKeysOf DEF ConsumersInv, EventsOf
    <3>3. Applied(Stream[e].of) = {}
      BY <3>2 DEF Applied, Exists
    <3>4. QED
      BY <3>1, <3>3 DEF Exists
  <2>4. QED
    BY <1>1, <2>2, <2>3 DEF ConsumersInv
<1>2. ConsumersInv => BalanceCountsMovements
  BY <1>1 DEF BalanceCountsMovements
<1>3. QED
  BY <1>2, ConsumersInvariant, PTL

\* Worth and Revenue, as sums of a function.
LEMMA WorthSum ==
  ASSUME NEW S, IsFiniteSet(S), NEW g, \A e \in S : g[e] = Captured(e)
  PROVE  Worth(S) = SumOver(g, S)
<1> DEFINE G(f) == f = [t \in SUBSET S |-> IF t = {} THEN 0
                          ELSE Stream[Stream[Pick(t)].source].amount + f[t \ {Pick(t)}]]
<1>1. \A t \in SUBSET S : t # {} => g[Pick(t)] = Stream[Stream[Pick(t)].source].amount
  BY DEF Pick, Captured
<1>2. PICK e : e = (CHOOSE f : G(f))
  OBVIOUS
<1>3. Worth(S) = e[S]
  BY <1>2 DEF Worth, MapThenSumSet, MapThenFoldSet, Pick
<1>4. \A f : G(f) <=> Sums(f, g, SUBSET S)
  BY <1>1 DEF Sums
<1> HIDE DEF G
<1>5. Sums(e, g, SUBSET S) /\ Agree(g, g, S)
  BY <1>2, <1>4, SumsExist DEF Agree
<1>6. QED
  BY <1>3, <1>5, SumIs

LEMMA RevenueSum ==
  ASSUME NEW S, S = RevenueFacts, IsFiniteSet(S),
         NEW g, \A e \in S : g[e] = store[FinancialFact(e)]
  PROVE  Revenue = SumOver(g, S)
<1> DEFINE G(f) == f = [t \in SUBSET S |-> IF t = {} THEN 0
                          ELSE store[FinancialFact(Pick(t))] + f[t \ {Pick(t)}]]
<1>1. \A t \in SUBSET S : t # {} => g[Pick(t)] = store[FinancialFact(Pick(t))]
  BY DEF Pick
<1>2. PICK e : e = (CHOOSE f : G(f))
  OBVIOUS
<1>3. Revenue = e[S]
  BY <1>2 DEF Revenue, MapThenSumSet, MapThenFoldSet, Pick
<1>4. \A f : G(f) <=> Sums(f, g, SUBSET S)
  BY <1>1 DEF Sums
<1> HIDE DEF G
<1>5. Sums(e, g, SUBSET S) /\ Agree(g, g, S)
  BY <1>2, <1>4, SumsExist DEF Agree
<1>6. QED
  BY <1>3, <1>5, SumIs

\* A fact counts for its capture or for nothing; a journal that is due counts in full.
LEMMA FactsOfJournals ==
  ASSUME ConsumersInv
  PROVE  /\ Due \subseteq RevenueFacts
         /\ \A e \in RevenueFacts : store[FinancialFact(e)] \in {0, Captured(e)}
         /\ \A e \in Due : store[FinancialFact(e)] = Captured(e)
<1>1. CASE subscriber = "reporting"
  <2>1. ReportingInv /\ Deliveries /\ TimelyInFull
    BY <1>1 DEF ConsumersInv
  <2>2. ASSUME NEW e \in Due
        PROVE  e \in RevenueFacts /\ store[FinancialFact(e)] = Captured(e)
    <3>1. /\ e \in timely /\ e \in CaptureJournals /\ IsLastOfPayment(Stream[e].source)
          /\ Exists(store[Processed(e)])
      BY <2>1 DEF Due, TimelyInFull
    <3>2. e \in Money /\ FactKey(e) = FinancialFact(e)
      BY <3>1, CaptureTypes DEF FactKey
    <3>3. Exists(store[FinancialFact(e)])
      BY <2>1, <3>1, <3>2 DEF Deliveries, Marked
    <3>4. QED
      BY <2>1, <3>1, <3>3 DEF TimelyInFull, RevenueFacts
  <2>3. ASSUME NEW e \in RevenueFacts
        PROVE  store[FinancialFact(e)] \in {0, Captured(e)}
    <3>1. e \in CaptureJournals /\ Exists(store[FinancialFact(e)])
      BY DEF RevenueFacts
    <3>2. e \in DOMAIN Stream /\ Stream[e].kind = "journal"
      BY <3>1, CaptureTypes
    <3>3. QED
      BY <2>1, <3>1, <3>2 DEF ReportingInv, Amounts, Captured, Exists
  <2>4. QED
    BY <2>2, <2>3
<1>2. CASE subscriber = "audit"
  <2>1. \A e \in CaptureJournals : ~Exists(store[FinancialFact(e)]) /\ ~Exists(store[Processed(e)])
    BY <1>2, CaptureTypes, ReportingKeysOf DEF ConsumersInv, Exists
  <2>2. RevenueFacts = {}
    BY <2>1 DEF RevenueFacts
  <2>3. Due = {}
    BY <2>1 DEF Due, ConsumersInv
  <2>4. QED
    BY <2>2, <2>3
<1>3. QED
  BY <1>1, <1>2 DEF ConsumersInv

\* calculateRevenueKpi over what projectLedgerEvent files: for every stream and number of
\* calls the revenue is at most what each journal event of a capture adds once, and at
\* least what is due: the captures of the journals that came after their capture was
\* projected, with nothing else of the payment delivered.
THEOREM RevenueFollowsJournalsAlways == Spec => []RevenueFollowsJournals
<1>1. ASSUME ConsumersInv PROVE RevenueFollowsJournals
  <2>1. PICK S, g, h, k :
          /\ S = RevenueFacts
          /\ g = [e \in S |-> store[FinancialFact(e)]]
          /\ h = [e \in S |-> Captured(e)]
          /\ k = [e \in S |-> IF e \in Due THEN Captured(e) ELSE 0]
    OBVIOUS
  <2>2. /\ Due \subseteq S
        /\ \A e \in S : g[e] \in {0, Captured(e)}
        /\ \A e \in Due : g[e] = Captured(e)
    BY <1>1, <2>1, FactsOfJournals
  <2>3. \A e \in S : e \in CaptureJournals /\ Captured(e) \in Int /\ Captured(e) > 0
    BY <2>1, CaptureTypes DEF RevenueFacts
  <2>4. IsFiniteSet(S) /\ IsFiniteSet(Due)
    <3>1. Stream \in Seq(DomainEvent)
      BY ReportingAssumption
    <3>2. DOMAIN Stream = 1 .. Len(Stream) /\ Len(Stream) \in Nat
      BY <3>1
    <3>3. S \subseteq 1 .. Len(Stream)
      BY <2>3, <3>2, CaptureTypes
    <3>4. IsFiniteSet(1 .. Len(Stream))
      BY <3>2, FS_Interval
    <3>5. IsFiniteSet(S)
      BY <3>3, <3>4, FS_Subset
    <3>6. QED
      BY <2>2, <3>5, FS_Subset
  <2>5. IntOn(g, S) /\ IntOn(h, S) /\ IntOn(k, S)
    BY <2>1, <2>2, <2>3 DEF IntOn
  <2>6. Revenue = SumOver(g, S) /\ Worth(S) = SumOver(h, S) /\ Worth(Due) = SumOver(k, Due)
    BY <2>1, <2>2, <2>4, RevenueSum, WorthSum
  <2>7. \A e \in S : g[e] <= h[e] /\ k[e] <= g[e]
    BY <2>1, <2>2, <2>3
  <2>8. SumOver(g, S) <= SumOver(h, S) /\ SumOver(k, S) <= SumOver(g, S)
    BY <2>4, <2>5, <2>7, SumLeq
  <2>9. SumOver(k, S) = SumOver(k, Due)
    BY <2>1, <2>2, <2>4, <2>5, SumPad
  <2>10. QED
    BY <2>1, <2>6, <2>8, <2>9 DEF RevenueFollowsJournals
<1>2. QED
  BY <1>1, ConsumersInvariant, PTL

\* AuditService.record and ingestEnvelope: for every set of events and number of calls
\* there is one record for a source event at most, and an event marked as ingested has
\* one, or has had one that was purged.
THEOREM AuditTrailIsExactAlways == Spec => []AuditTrailIsExact
<1>1. ASSUME ConsumersInv, NEW e \in Envelope
      PROVE  /\ \A r \in Record : Exists(store[r]) /\ store[r].source = e => store[AuditedAs(e)] = r
             /\ Exists(store[Ingested(e)]) /\ e \in Projected => HadRecord(e)
  <2>1. CASE subscriber = "reporting"
    <3>1. Ingested(e) \in AuditKeys /\ Record \subseteq AuditKeys
      BY DEF AuditKeys
    <3>2. QED
      BY <1>1, <2>1, <3>1 DEF ConsumersInv, Exists
  <2>2. CASE subscriber = "audit"
    BY <1>1, <2>2 DEF ConsumersInv, AuditInv
  <2>3. QED
    BY <1>1, <2>1, <2>2 DEF ConsumersInv
<1>2. ConsumersInv => AuditTrailIsExact
  BY <1>1 DEF AuditTrailIsExact, HadRecord
<1>3. QED
  BY <1>2, ConsumersInvariant, PTL
=============================================================================
