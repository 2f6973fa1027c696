\* One order whose offers come, go and are miscounted under the page.
SPECIFICATION BoardSpec
CONSTANTS
  o1 = o1
  c1 = c1
  none = none
  Order = {o1}
  Courier = {c1}
  first = c1
  Price <- OnePrice
  MaxActs = 4
CONSTRAINT FewPending
INVARIANTS BoardHidesOwnBids
PROPERTIES CardsAreOpenOrders BidLeavesBoard
CHECK_DEADLOCK FALSE
