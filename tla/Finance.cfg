SPECIFICATION Spec
CONSTANTS
  o1 = o1
  o2 = o2
  Payment = {p1}
  Journal = {j1, j2, j3}
  Call = {c1, c2}
  NoRecord = NoRecord
  NoJournal = NoJournal
  Key <- Keys
  OrderStatus <- Orders
  Amounts = {1, 2}
  MaxEvents = 5
  SourceEvent = {1, 2, 3, 4, 5}
SYMMETRY Symmetry
INVARIANTS
  PaymentEventsAddUp
  BooksFollowPayments
  ReversedIsCancelled
\* A settled payment leaves nothing to do.
CHECK_DEADLOCK FALSE
