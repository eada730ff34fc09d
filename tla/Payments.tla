------------------------------ MODULE Payments ------------------------------
(***************************************************************************)
(* PaymentsService over its in-memory repository.                          *)
(***************************************************************************)
EXTENDS ServiceCalls

CONSTANTS
  Payment,        \* paymentIds that may be drawn
  OrderStatus,    \* what the orders port answers, by orderId
  Amounts,        \* amounts in minor units, of payments and of refunds
  MaxEvents       \* bound: payment events published

VARIABLE log      \* the outbox: payment events in the order they were inserted

PaymentRecord ==
  [order : DOMAIN OrderStatus,
   status : {"pending", "authorized", "captured", "partially_refunded", "refunded", "voided", "failed"},
   amount : Nat, refunded : Nat]

ASSUME PaymentsAssumption ==
  /\ Payment \subseteq Key
  /\ Amounts \subseteq Nat \ {0}
  /\ MaxEvents \in Nat
  /\ NoRecord \notin PaymentRecord

-----------------------------------------------------------------------------
\* Mutant of CanTransition: a captured payment may still be voided.
VoidAnyPayment(from, to) ==
  \/ from = "pending" /\ to \in {"authorized", "failed"}
  \/ from = "authorized" /\ to \in {"captured", "voided", "failed"}
  \/ from = "captured" /\ to \in {"partially_refunded", "refunded", "voided"}
  \/ from = "partially_refunded" /\ to = "refunded"

CanTransition(from, to) ==
  \/ from = "pending" /\ to \in {"authorized", "failed"}
  \/ from = "authorized" /\ to \in {"captured", "voided", "failed"}
  \/ from = "captured" /\ to \in {"partially_refunded", "refunded"}
  \/ from = "partially_refunded" /\ to = "refunded"

Payable == {"committed", "partially_fulfilled", "fulfilled"}

PaymentEvent(type, p, payment, refund) ==
  p :> [type |-> type, payment |-> p, amount |-> payment.amount, refund |-> refund]

CreatePayment(c) ==
  \E p \in Fresh(Payment), o \in DOMAIN OrderStatus, amount \in Amounts :
    LET payment == [order |-> o, status |-> "pending", amount |-> amount, refunded |-> 0]
        reads == << {p} >>
    IN  /\ IsIdle(c)
        /\ OrderStatus[o] \in Payable
        /\ Stage(c, reads, << p :> payment >>, PaymentEvent("created", p, payment, 0))

\* authorizePayment, capturePayment, voidPayment and failPayment: only the last
\* publishes nothing.
Transition(c, to) ==
  \E p \in Payment :
    LET reads == << {p} >>
        next == [store[p] EXCEPT !.status = to]
    IN  /\ IsIdle(c)
        /\ Exists(store[p])
        /\ CanTransition(store[p].status, to)
        /\ Stage(c, reads, << p :> next >>,
                 IF to = "failed" THEN <<>> ELSE PaymentEvent(to, p, next, 0))

AuthorizePayment(c) == Transition(c, "authorized")
CapturePayment(c) == Transition(c, "captured")
VoidPayment(c) == Transition(c, "voided")
FailPayment(c) == Transition(c, "failed")

RefundStatus(payment, part) ==
  IF payment.refunded + part = payment.amount THEN "refunded" ELSE "partially_refunded"

RefundPayment(c) ==
  \E p \in Payment, part \in Amounts :
    LET reads == << {p} >>
        payment == store[p]
        to == RefundStatus(payment, part)
        next == [payment EXCEPT !.status = to, !.refunded = @ + part]
    IN  /\ IsIdle(c)
        /\ Exists(payment)
        /\ payment.status \in {"captured", "partially_refunded"}
        /\ payment.refunded + part <= payment.amount
        /\ CanTransition(payment.status, to)
        /\ Stage(c, reads, << p :> next >>, PaymentEvent("refunded", p, next, part))

PaymentsStep(c) ==
  \/ CreatePayment(c)
  \/ AuthorizePayment(c)
  \/ CapturePayment(c)
  \/ VoidPayment(c)
  \/ FailPayment(c)
  \/ RefundPayment(c)

\* Events in the log and events still to be inserted.
Announcing == {c \in Call : ~IsIdle(c) /\ DOMAIN work[c].news \intersect Payment # {}}

Room == Len(log) + Cardinality(Announcing) < MaxEvents

\* The payment event of a call that commits joins the log.
LogNews(c) ==
  log' = IF c \in Announcing
           THEN Append(log, work[c].news[CHOOSE p \in Payment : p \in DOMAIN work[c].news])
           ELSE log
=============================================================================
