-------------------------- MODULE MCAwardedOrders ---------------------------
EXTENDS AwardedOrders
CONSTANTS o1, o2, c1, c2

\* The properties are about phones that listen for one courier.
OneListens == \E c \in Courier : \A q \in DOMAIN told \cup starting : q.of \in {none, c}

\* At most one call of addOffer or cancelOffer is under way.
FewPending == Cardinality(posting) + Cardinality(withdrawals) <= 1

\* The pages keep apart what they show: one of them is opened, again and again.
OnePage == Cardinality(opened) <= 1
=============================================================================
