--------------------------- MODULE EventConsumers ---------------------------
(***************************************************************************)
(* Reporting and Audit behind the relay: any event may be delivered at any *)
(* time, again, and to two calls at once.  The two consumers share nothing,*)
(* so one of them is subscribed in each behaviour.                         *)
(***************************************************************************)
EXTENDS Reporting, Audit

CONSTANT MaxDelivered   \* bound: different events that are delivered

VARIABLES
  subscriber,           \* the consumer behind the dispatcher
  delivered,            \* the events that have been delivered
  timely                \* history: journals that came after their capture was projected

ReportingKeys ==
  UNION {{Stream[e].of, Processed(e), MovementFact(e), FinancialFact(e)} : e \in DOMAIN Stream}

AuditKeys == Record \union {AuditedAs(e) : e \in Envelope} \union {Ingested(e) : e \in Envelope}

\* The consumers have repositories of their own.
ASSUME EventConsumersAssumption == ReportingKeys \intersect AuditKeys = {}

vars == <<serviceVars, dropped, subscriber, delivered, timely>>

Init ==
  /\ ServiceInit(<<>>)
  /\ dropped = {}
  /\ subscriber \in {"reporting", "audit"}
  /\ delivered = {}
  /\ timely = {}

\* appendFinancialFact passes over a fact there is already.
IsKnownFact(c) ==
  /\ Committing(c) /\ work[c].writes # <<>>
  /\ \E e \in EventsOf("journal") : FinancialFact(e) \in DOMAIN work[c].writes[1]
                                      /\ Exists(store[FinancialFact(e)])

PassOverFact(c) ==
  /\ IsKnownFact(c)
  /\ work' = [work EXCEPT ![c].writes = Tail(@)]
  /\ UNCHANGED <<store, told, raced>>

\* A store that throws after the movement is on file leaves it there as well.
Throw(c) ==
  /\ GiveUp(c)
  /\ dropped' = dropped \union {e \in DOMAIN Stream : work[c].op = <<"balance", e>>}

Step(c) ==
  \/ subscriber = "reporting" /\ ConsumeEvent(c)
  \/ Throw(c)
  \/ /\ \/ subscriber = "audit" /\ AuditStep(c)
        \/ Save(c) /\ ~IsDuplicate(c) /\ ~IsKnownFact(c)
        \/ FindDuplicate(c)
        \/ PassOverFact(c)
        \/ Publish(c)
     /\ UNCHANGED dropped

InHand == {work[c].op[2] : c \in {d \in Call : Len(work[d].op) = 2}}

Next ==
  /\ \E c \in Call : Step(c)
  /\ UNCHANGED subscriber
  /\ delivered' = delivered \union InHand'
  /\ timely' = timely \union {e \in CaptureJournals \intersect (delivered' \ delivered) :
                                Exists(store[Processed(Stream[e].source)])}
  /\ Cardinality(delivered') <= MaxDelivered

Spec == Init /\ [][Next]_vars
-----------------------------------------------------------------------------
(***************************************************************************)
(* Properties.                                                             *)
(***************************************************************************)
Commitments ==
  {e \in EventsOf("order") : Stream[e].type = "committed" /\ Exists(store[Processed(e)])}

Committed == {Stream[e].of : e \in Commitments}

\* docs/modules/reporting/design.md:133, projectors "are idempotent on eventId", and
\* events come in any order: an order whose commitment is marked as projected is counted
\* by the orders report, unless two projections of the order have raced; and whenever no
\* call is running the report counts no order but those.
ReportCountsCommittedOrders ==
  /\ Committed \ raced \subseteq CountedOrders
  /\ AtRest => CountedOrders \subseteq Committed

Applied(sku) ==
  {e \in EventsOf("stock") \ dropped :
     Stream[e].of = sku /\ Exists(store[MovementFact(e)])}

\* Whenever no call is running a projected balance has counted every movement on
\* file once, except those whose projection threw and those that have raced.
BalanceCountsMovements ==
  AtRest => \A sku \in {Stream[e].of : e \in EventsOf("stock")} \ raced :
    IF Exists(store[sku])
      THEN store[sku].count = Cardinality(Applied(sku)) /\ IsSane(store[sku])
      ELSE Applied(sku) = {}

\* What the captures of these journals come to.
Worth(journals) == MapThenSumSet(LAMBDA e : Stream[Stream[e].source].amount, journals)

\* No event of the payment but the capture has been delivered.
IsLastOfPayment(source) ==
  \A x \in EventsOf("payment") \intersect delivered :
    Stream[x].of = Stream[source].of => x = source

Due ==
  {e \in timely : Exists(store[Processed(e)]) /\ IsLastOfPayment(Stream[e].source)}

\* The revenue of the report, summed over the financial facts, follows the journals:
\* whatever is delivered twice, late or at once, each journal event of a capture adds the
\* captured amount once at most; and it adds it in full when it came after the capture was
\* projected, and nothing else of the payment has been delivered.
RevenueFollowsJournals ==
  /\ Revenue <= Worth(RevenueFacts)
  /\ Worth(Due) <= Revenue

\* modules/audit/README.md, "Re-delivery is safe": whichever deliveries and direct
\* records of an event overlap there is one record for it at most, and an event
\* marked as ingested has one, or has had one that was purged.
AuditTrailIsExact ==
  \A e \in Envelope :
    /\ \A r \in Record : Exists(store[r]) /\ store[r].source = e => store[AuditedAs(e)] = r
    /\ Exists(store[Ingested(e)]) /\ e \in Projected =>
         \/ Exists(store[AuditedAs(e)])
         \/ Exists(told[AuditedAs(e)])
         \/ \E c \in Call : AuditedAs(e) \in DOMAIN work[c].news
=============================================================================
