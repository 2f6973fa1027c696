\* Two couriers compete for one order with two offers.
SPECIFICATION Spec
CONSTANTS
  Order = {o1}
  Member = {m1}
  Courier = {c1, c2}
  Owner <- OneOwner
  Price = {5, 7}
  OfferId = {f1, f2}
  NoCourier = NoCourier
SYMMETRY AllAlike
CONSTRAINT FewPending
INVARIANTS AwardProvenance OfferAfterStatus ProgressIsAwarded
PROPERTIES AwardNeverWithdrawn ImplementsContract
