----------------------------- MODULE MCLiveStatus -----------------------------
(* Instances of LiveStatus for TLC: the texts are numbers too.             *)
EXTENDS LiveStatus

\* Order 3 has a text of its own, the others have one text.
OneTwin == [o \in Order |-> IF o = 3 THEN 2 ELSE 1]
=============================================================================
