-------------------------- MODULE MCEventConsumers --------------------------
(***************************************************************************)
(* EventConsumers for TLC: an order, a payment with its journal and the    *)
(* reversal of that, another payment, a sku.                               *)
(***************************************************************************)
EXTENDS EventConsumers

TLC == INSTANCE TLC

CONSTANTS o1, p1, p2, cup

Event(kind, type, of, amount, source) ==
  [kind |-> kind, type |-> type, of |-> of, amount |-> amount, source |-> source]

\* The journal of the capture of p1 is posted, then reversed.
Events == <<
  Event("order", "committed", o1, 3, 0),
  Event("order", "fulfilled", o1, 3, 0),
  Event("payment", "captured", p1, 3, 0),
  Event("payment", "refunded", p1, 3, 0),
  Event("payment", "captured", p2, 5, 0),
  Event("journal", "captured", p1, 0, 3),
  Event("journal", "captured", p1, 0, 3),
  Event("stock", "receipt", cup, 1, 0),
  Event("stock", "reserve", cup, 1, 0) >>

Of(kind) == {e \in DOMAIN Events : Events[e].kind = kind}

Keys ==
  {o1, p1, p2, cup} \union Record
    \union {Processed(e) : e \in DOMAIN Events}
    \union {MovementFact(e) : e \in Of("stock")}
    \union {FinancialFact(e) : e \in Of("journal")}
    \union {AuditedAs(e) : e \in Envelope} \union {Ingested(e) : e \in Envelope}

Symmetry == TLC!Permutations(Call) \union TLC!Permutations(Record)
=============================================================================
