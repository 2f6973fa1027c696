\* Two couriers, both tracked on one member's phone in turn, which the second
\* uses himself in between.
SPECIFICATION Spec
CONSTANTS
  c1 = c1
  c2 = c2
  Courier = {c1, c2}
  Guest = {c2}
  MaxActs = 4
  MaxOffers = 2
  MaxPlace = 2
  MaxAsked = 2
INVARIANTS PointWasTracked
PROPERTIES NoWayBack MapFollows
\* A run may stop when MaxActs is used up and nobody opened a page.
CHECK_DEADLOCK FALSE
