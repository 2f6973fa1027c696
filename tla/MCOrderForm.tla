----------------------------- MODULE MCOrderForm -----------------------------
(* Instances of OrderForm for TLC.                                         *)
EXTENDS OrderForm, TLC

\* Nothing depends on which member, point or text it is.
Symmetry == Permutations(Member) \cup Permutations(Place) \cup Permutations(Text)
=============================================================================
