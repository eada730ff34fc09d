SPECIFICATION OrdersSpec
CONSTANTS
  o1 = o1
  Order = {o1, o2}
  Client = {c1, c2}
  MaxLines = 2
  MaxEvents = 7
  Quantities = {1}
  FulfilRequests <- FewFulfilments
  UseCases = {"createOrder", "addLine", "updateLineQuantity", "removeLine", "commitOrder", "fulfillLines", "fulfillOrder", "cancelOrder", "completeOrder", "discardOrder"}
  Drafts <- OneDraft
SYMMETRY Symmetry
INVARIANTS
  OrdersAreConsistent
  FirmOrdersAreAnnounced
CHECK_DEADLOCK FALSE
