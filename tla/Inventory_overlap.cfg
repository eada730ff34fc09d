SPECIFICATION InventorySpec
CONSTANTS
  cup = cup
  tea = tea
  Sku = {cup, tea}
  Call = {c1, c2}
  Event = {"commit1", "commit2", "fulfil1"}
  Request = {"tea_in", "cup_out"}
  OrderEvent <- OrderEvents
  StockRequest <- StockRequests
  Opening <- ThreeCups
SYMMETRY Symmetry
INVARIANTS
  AvailableNeverNegative
  ConsumedIsRecorded
  DuplicatesBoundedByOverlap
