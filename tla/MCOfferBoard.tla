---------------------------- MODULE MCOfferBoard ----------------------------
(* Instances of OfferBoard for TLC.                                        *)
EXTENDS OfferBoard, TLC

\* Couriers, orders and offer ids are interchangeable.
AllAlike == Permutations(Courier) \cup Permutations(Order) \cup Permutations(OfferId)

\* Bound: all orders are placed before anything else happens to one of them.
\* No operation on an order reads whether another one was placed.
OrdersFirst == Placed = Order \/ (made = {} /\ posting = {} /\ decided = {})

\* Bound: at most 2 answers and queues of counting blocks wait at once.
FewPending ==
    Cardinality(posting) + Cardinality(purges) + Cardinality(withdrawals)
        + Cardinality({s \in Screen : blocks[s] # <<>>}) <= 2

\* Bound: at most 3 listeners, or 2 and a failure.
FewListeners == Cardinality(listeners) + failures <= 3
=============================================================================
