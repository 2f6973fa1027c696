\* Two offers on two orders: the listeners of one screen serve both orders.
SPECIFICATION Spec
CONSTANTS
  Order = {o1, o2}
  Courier = {c1}
  OfferId = {f1, f2}
  MaxListeners = 3
  MaxFailures = 1
SYMMETRY AllAlike
CONSTRAINTS OrdersFirst FewPending FewListeners
INVARIANTS StatusExplained LeftoversAreLate NoDeletedOfferListed
