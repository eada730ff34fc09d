----------------------------- MODULE Reporting -----------------------------
(***************************************************************************)
(* ReportingService.consumeEvent: each event is looked up under its own    *)
(* handler name, projected and marked.  The projection store knows no unit *)
(* of work: every await writes or reads at once, and facts are saved whole.*)
(* rebuildFromEvents delivers a list of events again.                      *)
(***************************************************************************)
EXTENDS ServiceCalls, FiniteSetsExt

CONSTANT Stream   \* the domain events that may be delivered, by number

VARIABLE dropped  \* history: stock events whose projection threw

Processed(e) == <<"processed", e>>
MovementFact(e) == <<"movement", e>>
FinancialFact(e) == <<"financial", e>>

\* of: the order, payment or sku the event is about; amount: money or a signed quantity.
\* An event of kind journal is journal.posted or journal.reversed: both carry the type
\* and, as source, the number of the event the journal was posted from.
DomainEvent ==
  [kind : {"order", "payment", "stock", "journal"}, type : STRING, of : Key,
   amount : Int, source : Nat]

OrderFacts == [status : STRING, at : SUBSET STRING, total : Int]
PaymentFacts == [status : STRING, at : SUBSET STRING, amount : Int, last : DOMAIN Stream]
Balances == [onHand : Int, reserved : Int, count : Nat]

\* Ids of orders, payments and skus differ, payments are of positive amounts, the journal
\* of a capture is posted from a payment event, and facts are kept apart from one another.
ASSUME ReportingAssumption ==
  /\ Stream \in Seq(DomainEvent)
  /\ \A d, e \in DOMAIN Stream : Stream[d].of = Stream[e].of =>
       \/ Stream[d].kind = Stream[e].kind
       \/ {Stream[d].kind, Stream[e].kind} = {"payment", "journal"}
  /\ \A e \in DOMAIN Stream :
       /\ Stream[e].kind = "payment" => Stream[e].amount > 0
       /\ Stream[e].kind = "journal" /\ Stream[e].type = "captured" =>
            Stream[e].source \in DOMAIN Stream /\ Stream[Stream[e].source].kind = "payment"
       /\ Processed(e) \in Key
       /\ Stream[e].kind = "stock" => MovementFact(e) \in Key
       /\ Stream[e].kind = "journal" => FinancialFact(e) \in Key
       /\ \A d \in DOMAIN Stream :
            Stream[d].of \notin {Processed(e), MovementFact(e), FinancialFact(e)}
  /\ NoRecord \notin OrderFacts /\ NoRecord \notin PaymentFacts /\ NoRecord \notin Balances
  /\ NoRecord # TRUE /\ NoRecord \notin Int

Payments == {Stream[e].of : e \in {x \in DOMAIN Stream : Stream[x].kind = "payment"}}

-----------------------------------------------------------------------------
\* The call returns at its first read when the event has been processed.
Looks(c, op, reads, e) == ~Exists(store[Processed(e)]) /\ Read(c, op, reads)

\* Mutant of OrderFact: only the milestone of the event itself is set.
OrderFactAnew(fact, event) ==
  [status |-> event.type, at |-> {event.type}, total |-> event.amount]

OrderFact(fact, event) ==
  LET old == IF Exists(fact) THEN fact ELSE [status |-> "draft", at |-> {}, total |-> 0]
  IN  [status |-> event.type,
       at     |-> old.at \union ({event.type} \intersect {"committed", "fulfilled", "cancelled"}),
       total  |-> IF event.amount # 0 THEN event.amount ELSE old.total]

ProjectOrderEvent(c) ==
  \E e \in DOMAIN Stream :
    LET op == <<"order_fact", e>>
        o == Stream[e].of
        reads == << {Processed(e)}, {o} >>
    IN  /\ Stream[e].kind = "order"
        /\ \/ Looks(c, op, reads, e)
           \/ /\ LastRead(c, op, reads)
              /\ Stage(c, reads, << o :> OrderFact(store[o], Stream[e]),
                                    Processed(e) :> TRUE >>, <<>>)

PaymentFact(fact, e) ==
  LET event == Stream[e]
      old == IF Exists(fact) THEN fact ELSE [at |-> {}, amount |-> 0]
  IN  [status |-> event.type,
       at     |-> old.at \union ({event.type} \intersect {"authorized", "captured", "refunded"}),
       amount |-> IF event.amount # 0 THEN event.amount ELSE old.amount,
       last   |-> e]

ProjectPaymentEvent(c) ==
  \E e \in DOMAIN Stream :
    LET op == <<"payment_fact", e>>
        p == Stream[e].of
        reads == << {Processed(e)}, {p} >>
    IN  /\ Stream[e].kind = "payment"
        /\ \/ Looks(c, op, reads, e)
           \/ /\ LastRead(c, op, reads)
              /\ Stage(c, reads, << p :> PaymentFact(store[p], e),
                                    Processed(e) :> TRUE >>, <<>>)

-----------------------------------------------------------------------------
NextBalance(balance, event) ==
  LET q == event.amount
      old == IF Exists(balance) THEN balance ELSE [onHand |-> 0, reserved |-> 0, count |-> 0]
  IN  [onHand   |-> old.onHand + (CASE event.type \in {"receipt", "adjustment"} -> q
                                    [] event.type = "issue" -> -q
                                    [] OTHER -> 0),
       reserved |-> old.reserved + (CASE event.type = "reserve" -> q
                                      [] event.type \in {"release", "issue"} -> -q
                                      [] OTHER -> 0),
       count    |-> old.count + 1]

IsSane(balance) == balance.reserved >= 0 /\ balance.onHand >= balance.reserved

\* Mutant of AppendMovement: the answer of appendInventoryMovement is ignored.
AppendAnyMovement(c) ==
  \E e \in DOMAIN Stream :
    LET op == <<"inventory_movement", e>>
        reads == << {Processed(e)}, {} >>
    IN  /\ Stream[e].kind = "stock"
        /\ \/ Looks(c, op, reads, e)
           \/ /\ LastRead(c, op, reads)
              /\ store' = MovementFact(e) :> TRUE @@ store
              /\ work' = [work EXCEPT ![c] = [Idle EXCEPT !.op = <<"balance", e>>,
                                                          !.todo = << {Stream[e].of} >>]]
              /\ UNCHANGED <<told, raced>>

\* appendInventoryMovement tells whether the movement is new; one that is not is
\* taken as projected.
AppendMovement(c) ==
  \E e \in DOMAIN Stream :
    LET op == <<"inventory_movement", e>>
        reads == << {Processed(e)}, {} >>
    IN  /\ Stream[e].kind = "stock"
        /\ \/ Looks(c, op, reads, e)
           \/ /\ LastRead(c, op, reads)
              /\ Exists(store[MovementFact(e)])
              /\ Stage(c, reads, << Processed(e) :> TRUE >>, <<>>)
           \/ /\ LastRead(c, op, reads)
              /\ ~Exists(store[MovementFact(e)])
              /\ store' = MovementFact(e) :> TRUE @@ store
              /\ work' = [work EXCEPT ![c] = [Idle EXCEPT !.op = <<"balance", e>>,
                                                          !.todo = << {Stream[e].of} >>]]
              /\ UNCHANGED <<told, raced>>

\* The balance is read after the movement is on file; a projection that throws
\* leaves it there.
ApplyMovement(c) ==
  \E e \in DOMAIN Stream :
    LET sku == Stream[e].of
        next == NextBalance(store[sku], Stream[e])
    IN  /\ work[c].op = <<"balance", e>>
        /\ IF IsSane(next)
             THEN /\ Stage(c, << {sku} >>, << sku :> next, Processed(e) :> TRUE >>, <<>>)
                  /\ UNCHANGED dropped
             ELSE /\ work' = [work EXCEPT ![c] = Idle]
                  /\ dropped' = dropped \union {e}
                  /\ UNCHANGED <<store, told, raced>>

-----------------------------------------------------------------------------
\* Mutant of AmountFor: the payment is not looked for by the source event.
AmountOfAnyPayment(payments, source) ==
  IF \E p \in DOMAIN payments : Exists(payments[p])
    THEN payments[CHOOSE p \in DOMAIN payments : Exists(payments[p])].amount ELSE 0

\* getPaymentFactBySourceEvent finds the payment only while the source event is the
\* last one projected for it.
AmountFor(payments, source) ==
  LET found == {p \in DOMAIN payments : Exists(payments[p]) /\ payments[p].last = source}
  IN  IF found = {} THEN 0 ELSE payments[CHOOSE p \in found : TRUE].amount

ProjectLedgerEvent(c) ==
  \E e \in DOMAIN Stream :
    LET op == <<"financial_fact", e>>
        reads == << {Processed(e)}, Payments >>
    IN  /\ Stream[e].kind = "journal"
        /\ \/ Looks(c, op, reads, e)
           \/ /\ LastRead(c, op, reads)
              /\ Stage(c, reads,
                       << FinancialFact(e) :> AmountFor(Answers(Payments), Stream[e].source),
                          Processed(e) :> TRUE >>, <<>>)

ConsumeEvent(c) ==
  \/ ProjectOrderEvent(c) /\ UNCHANGED dropped
  \/ ProjectPaymentEvent(c) /\ UNCHANGED dropped
  \/ AppendMovement(c) /\ UNCHANGED dropped
  \/ ApplyMovement(c)
  \/ ProjectLedgerEvent(c) /\ UNCHANGED dropped

-----------------------------------------------------------------------------
(***************************************************************************)
(* kpis.ts, over the facts on file.                                        *)
(***************************************************************************)
EventsOf(kind) == {e \in DOMAIN Stream : Stream[e].kind = kind}

\* The orders calculateOrderKpi counts.
CountedOrders ==
  {o \in {Stream[e].of : e \in EventsOf("order")} :
     Exists(store[o]) /\ "committed" \in store[o].at}

CaptureJournals == {e \in EventsOf("journal") : Stream[e].type = "captured"}

\* What calculateRevenueKpi adds up: the facts of a journal posted from a capture.
RevenueFacts == {e \in CaptureJournals : Exists(store[FinancialFact(e)])}

Revenue == MapThenSumSet(LAMBDA e : store[FinancialFact(e)], RevenueFacts)
=============================================================================
