-------------------------- MODULE DeliveryContract --------------------------
(***************************************************************************)
(* What the service promises its two users, without devices, documents or  *)
(* callbacks: orders are placed once, couriers bid on placed orders, an    *)
(* order is awarded on the terms of one of its bids, and only a courier    *)
(* who was awarded the order ever reports progress on it.  Anybody may     *)
(* send a placed order back to open, or cancel it.                         *)
(***************************************************************************)
CONSTANTS
    Order,     \* the orders
    Courier,   \* the couriers
    Bid,       \* the bids: records with at least the fields order, courier, price
    Report     \* what a courier can report on the way

VARIABLES
    stage,     \* stage[o]: "absent", "open", "assigned", "cancled" or a report
    bids,      \* the bids made so far
    award,     \* award[o]: the terms the order was last awarded on, or none
    awardees   \* awardees[o]: the couriers the order was ever awarded to

vars == <<stage, bids, award, awardees>>

Terms(b) == [courier |-> b.courier, price |-> b.price]
NoAward  == [courier |-> "nobody", price |-> 0]

Init ==
    /\ stage = [o \in Order |-> "absent"]
    /\ bids = {}
    /\ award = [o \in Order |-> NoAward]
    /\ awardees = [o \in Order |-> {}]

Place(o) ==
    /\ stage[o] = "absent"
    /\ stage' = [stage EXCEPT ![o] = "open"]
    /\ UNCHANGED <<bids, award, awardees>>

MakeBid(b) ==
    /\ stage[b.order] # "absent"
    /\ bids' = bids \cup {b}
    /\ UNCHANGED <<stage, award, awardees>>

Reopen(o) ==
    /\ stage[o] # "absent"
    /\ stage' = [stage EXCEPT ![o] = "open"]
    /\ UNCHANGED <<bids, award, awardees>>

Grant(b) ==
    /\ b \in bids
    /\ stage' = [stage EXCEPT ![b.order] = "assigned"]
    /\ award' = [award EXCEPT ![b.order] = Terms(b)]
    /\ awardees' = [awardees EXCEPT ![b.order] = @ \cup {b.courier}]
    /\ UNCHANGED bids

Advance(c, o, s) ==
    /\ c \in awardees[o]
    /\ stage' = [stage EXCEPT ![o] = s]
    /\ UNCHANGED <<bids, award, awardees>>

Cancel(S) ==
    /\ \A o \in S : stage[o] # "absent"
    /\ stage' = [o \in Order |-> IF o \in S THEN "cancled" ELSE stage[o]]
    /\ UNCHANGED <<bids, award, awardees>>

Next ==
    \/ \E o \in Order : Place(o) \/ Reopen(o)
    \/ \E b \in Bid : MakeBid(b) \/ Grant(b)
    \/ \E c \in Courier, o \in Order, s \in Report : Advance(c, o, s)
    \/ \E S \in SUBSET Order : Cancel(S)

Spec == Init /\ [][Next]_vars
=============================================================================
