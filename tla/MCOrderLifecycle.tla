-------------------------- MODULE MCOrderLifecycle --------------------------
(* Instances of OrderLifecycle for TLC: one member owns every order.       *)
EXTENDS OrderLifecycle, FiniteSets, TLC

OneOwner == [o \in Order |-> CHOOSE m \in Member : TRUE]

\* Couriers, orders and offer ids are interchangeable.
AllAlike == Permutations(Courier) \cup Permutations(Order) \cup Permutations(OfferId)
\* Bound: at most 3 answers, writes and listeners wait at once.
FewPending ==
    Cardinality(posting) + Cardinality(purges) + Cardinality(withdrawals)
        + Cardinality(starts) + Cardinality(recounting) <= 3
=============================================================================
