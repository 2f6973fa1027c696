------------------------------- MODULE MCChat -------------------------------
\* Model values for Chat: a phone's clock that is slow, right or fast by more
\* than one message.
EXTENDS Chat

CONSTANTS o1, o2

Clocks == {-4, 0, 4}
=============================================================================
