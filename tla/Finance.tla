------------------------------ MODULE Finance ------------------------------
(***************************************************************************)
(* Payments and Ledger joined by the outbox: the relay or a replay hands   *)
(* any payment event to consumeFinancialEvent, at least once, in no        *)
(* particular order.                                                       *)
(***************************************************************************)
EXTENDS Payments, Ledger, FiniteSetsExt

\* Ids are drawn apart, and an event is numbered by its place in the log.
ASSUME FinanceAssumption ==
  /\ Payment \intersect Journal = {}
  /\ {Source(e) : e \in SourceEvent} \intersect (Payment \union Journal) = {}
  /\ SourceEvent \intersect Journal = {}
  /\ 1 .. MaxEvents \subseteq SourceEvent
  /\ IsFiniteSet(Call)

vars == <<serviceVars, log>>

Init == ServiceInit(<<>>) /\ log = <<>>

ConsumeFinancialEvent(c) == \E e \in DOMAIN log : PostJournal(c, e, log[e])

Step(c) ==
  \/ /\ \/ Room /\ PaymentsStep(c)
        \/ ConsumeFinancialEvent(c)
        \/ ReverseJournal(c)
        \/ GiveUp(c)
        \/ Save(c)
     /\ UNCHANGED log
  \/ Publish(c) /\ LogNews(c)

Next == \E c \in Call : Step(c)

Spec == Init /\ [][Next]_vars
-----------------------------------------------------------------------------
(***************************************************************************)
(* Properties.                                                             *)
(***************************************************************************)
EventsOf(p, type) == {i \in DOMAIN log : log[i].payment = p /\ log[i].type = type}

Refunded(p) == MapThenSumSet(LAMBDA i : log[i].refund, EventsOf(p, "refunded"))

\* What consumers have been told of a payment adds up to the payment, unless one of
\* its saves has raced: it is captured or voided once and not both, the refunds
\* announced are the refunds on file, and never more than was captured.
PaymentEventsAddUp ==
  AtRest => \A p \in Payment \ raced : Exists(store[p]) =>
    /\ Cardinality(EventsOf(p, "captured") \union EventsOf(p, "voided")) <= 1
    /\ Refunded(p) = store[p].refunded
    /\ store[p].refunded <= store[p].amount
    /\ store[p].refunded > 0 => EventsOf(p, "captured") # {}

Journals == {j \in Journal : Exists(store[j])}

Signed(line) == IF line.direction = "debit" THEN line.amount ELSE -line.amount

Moved(j, account) ==
  MapThenSumSet(LAMBDA i : IF store[j].lines[i].account = account
                             THEN Signed(store[j].lines[i]) ELSE 0,
                DOMAIN store[j].lines)

Posted(p) == {j \in Journals : store[j].source \in DOMAIN log /\ log[store[j].source].payment = p}

Booked == {log[i].payment : i \in {e \in DOMAIN log :
             log[e].type \in {"captured", "refunded"} /\ Source(e) \in raced}}

\* docs/modules/ledger/design.md:230, "idempotent on eventId": once every event of a payment
\* has been consumed, in whatever order and however often, cash clearing has moved by
\* what was captured less what was refunded, unless a save of the payment or two
\* postings of one event have raced.
BooksFollowPayments ==
  AtRest => \A p \in Payment \ (raced \union Booked) :
    /\ Exists(store[p])
    /\ \A e \in EventsOf(p, "captured") \union EventsOf(p, "refunded") : Exists(store[Source(e)])
    => MapThenSumSet(LAMBDA j : Moved(j, "CASH_CLEARING"), Posted(p))
         = (IF EventsOf(p, "captured") = {} THEN 0 ELSE store[p].amount) - store[p].refunded

ReversalsOf(j) == {r \in Journals : store[r].reverses = j}

\* modules/ledger/README.md:51, "Use `reverseJournal` to create reversing entries":
\* whichever reversals overlap, a journal that counts as reversed is cancelled by a
\* journal on file; and by exactly one, unless two reversals have raced.
ReversedIsCancelled ==
  \A j \in Journals :
    LET cancels(r) == \A account \in Accounts :
                        Moved(r, account) = -Moved(j, account)
    IN  /\ store[j].status = "reversed" =>
             store[j].reversedBy \in ReversalsOf(j) /\ cancels(store[j].reversedBy)
        /\ AtRest /\ j \notin raced =>
             Cardinality(ReversalsOf(j)) = (IF store[j].status = "reversed" THEN 1 ELSE 0)
=============================================================================
