SPECIFICATION Spec
CONSTANTS
  o1 = o1
  o2 = o2
  cup = cup
  tea = tea
  Order = {o1, o2}
  Client = {c1}
  Handler = {h1}
  MaxLines = 3
  MaxEvents = 8
  Quantities = {1}
  FulfilRequests <- Parts
  UseCases = {"commitOrder", "fulfillLines", "fulfillOrder", "cancelOrder"}
  Drafts <- TwoDrafts
  Sku = {cup, tea}
  SkuOf <- Items
  Stockable = {1, 2, 3}
  Opening <- Shelf
INVARIANTS
  StockMatchesOrders
  IssueWithinFulfilment
  OncePerKey
  BalanceFollowsMovements
  LifecycleInOrder
  PartsAddUp
CHECK_DEADLOCK FALSE
