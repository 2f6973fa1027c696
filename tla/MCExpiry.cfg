\* Two members take turns on one phone, with an order each; a courier's phone.
SPECIFICATION ExpirySpec
CONSTANTS
  Order = {o1, o2}
  Member = {m1, m2}
  Phone = {p1}
  Courier = {c1}
  Unassigned = unassigned
  Owner <- OneEach
  MaxChecks = 1
CONSTRAINTS FewListeners FewOffered
INVARIANTS ExpiryTypeOK
PROPERTIES ChecksExpire 
