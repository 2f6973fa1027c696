--------------------------- MODULE MCCourierBoard ---------------------------
EXTENDS CourierBoard, TLC
CONSTANTS o1, c1
OnePrice == {10}

\* At most one call of addOffer is under way, and one of cancelOffer or
\* cancelOrder.
FewPending == Cardinality(posting) <= 1 /\ Cardinality(withdrawals) + Cardinality(purges) <= 1
=============================================================================
