\* Two orders whose chats are opened in turn, two messages.
SPECIFICATION Spec
CONSTANTS
  o1 = o1
  o2 = o2
  Order = {o1, o2}
  none = none
  Skew <- Clocks
  MaxMessages = 2
INVARIANTS NoMessageTwice StrangersAreLate OnlyOwnMisplaced OwnInOrder
PROPERTIES ChatCompletes
