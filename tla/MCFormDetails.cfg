\* The same phone; is every order sent with the details typed for it?
SPECIFICATION Spec
CONSTANTS
  Member = {m1, m2}
  Place = {p1}
  Room = {r1}
  Text = {t1}
  None = None
  MaxOrders = 2
PROPERTIES SendsWhatIsTyped
