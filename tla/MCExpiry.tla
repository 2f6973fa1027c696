------------------------------- MODULE MCExpiry -------------------------------
(* Instances of Expiry for TLC.                                            *)
EXTENDS Expiry, FiniteSets

\* Each order is another member's.
OneEach == CHOOSE f \in [Order -> Member] :
              \A o, n \in Order : o # n => f[o] # f[n]

\* At most two listeners at a time: both of the shared phone, or one of them and
\* the courier's.
FewListeners == Cardinality(attached) <= 2

\* At most one order with an offer or awarded.
FewOffered == Cardinality({o \in Order : status[o] \in {"have an offer", "assigned"}}) <= 1
=============================================================================
