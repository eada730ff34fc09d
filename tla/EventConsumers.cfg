SPECIFICATION Spec
CONSTANTS
  o1 = o1
  p1 = p1
  p2 = p2
  cup = cup
  Call = {c1, c2}
  NoRecord = NoRecord
  Key <- Keys
  Stream <- Events
  Record = {r1, r2}
  Envelope = {a1, a2}
  Projected = {a1}
  MaxDelivered = 3
SYMMETRY Symmetry
INVARIANTS
  ReportCountsCommittedOrders
  BalanceCountsMovements
  RevenueFollowsJournals
  AuditTrailIsExact
\* All events may have been consumed.
CHECK_DEADLOCK FALSE
