\* Two orders on a phone that two couriers use.
SPECIFICATION Spec
CONSTANTS
  o1 = o1
  o2 = o2
  c1 = c1
  c2 = c2
  none = none
  Order = {o1, o2}
  Courier = {c1, c2}
  first = c1
  Price = {10, 20}
  MaxActs = 2
INVARIANTS TypeOK CardsAreMyOffers StopsOnlyOnRegress EntriesInPlace
CHECK_DEADLOCK FALSE
