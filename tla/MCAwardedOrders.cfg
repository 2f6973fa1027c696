\* Two couriers take turns on a phone while an order is finished or lost.
SPECIFICATION AwardsSpec
CONSTANTS
  o1 = o1
  o2 = o2
  c1 = c1
  c2 = c2
  none = none
  Order = {o1}
  Courier = {c1, c2}
  first = c1
  Price = {10}
  MaxActs = 3
CONSTRAINTS OneListens FewPending OnePage
PROPERTIES CurrentCardsAreUnderWay PastCardsAreDone
CHECK_DEADLOCK FALSE
