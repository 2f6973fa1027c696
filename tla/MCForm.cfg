\* Two members take turns on one phone and send three orders.
SPECIFICATION Spec
CONSTANTS
  Member = {m1, m2}
  Place = {p1, p2}
  Room = {r1}
  Text = {t1, t2}
  None = None
  MaxOrders = 3
SYMMETRY Symmetry
INVARIANTS DocsComplete UntouchedMap FormInv
