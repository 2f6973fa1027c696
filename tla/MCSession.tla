------------------------------ MODULE MCSession ------------------------------
\* Model values for Session: a member's account and a courier's.
EXTENDS Session

CONSTANTS m1, c1

Roles == [a \in Account |-> IF a = m1 THEN "Member" ELSE "Courier"]
=============================================================================
