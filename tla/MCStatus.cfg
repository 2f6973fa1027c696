\* Three orders, two of them with the same details, two phones.
SPECIFICATION Spec
CONSTANTS
  Order = {1, 2, 3}
  Details = {1, 2}
  Text <- OneTwin
  MaxListeners = 2
INVARIANTS LiveIsReal
PROPERTIES ForwardIfShownRight
