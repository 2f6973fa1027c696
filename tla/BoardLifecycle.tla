--------------------------- MODULE BoardLifecycle ---------------------------
(***************************************************************************)
(* OfferBoard as one way an order's life can go.  The board tells which    *)
(* offers a screen lists and what a block counts; here acceptOffer also    *)
(* writes the rest of the order's document, and a history of the couriers  *)
(* it was given to makes every step a step of OrderLifecycle.              *)
(***************************************************************************)
EXTENDS OfferBoard

VARIABLES
    courierID,  \* courierID[o]: the field CourierID of order o, or "nobody"
    holders     \* holders[o]: the couriers whose offer on o was ever accepted (history)

awards    == <<courierID, holders>>
boardVars == <<vars, awards>>

-----------------------------------------------------------------------------
\* acceptOffer writes the courier, and with it Assigned: "true", with the status.
AwardTo(f) ==
    /\ AcceptOffer(f)
    /\ courierID' = [courierID EXCEPT ![f.order] = f.courier]
    /\ holders' = [holders EXCEPT ![f.order] = @ \cup {f.courier}]

BoardInit ==
    /\ Init
    /\ courierID = [o \in Order |-> "nobody"]
    /\ holders = [o \in Order |-> {}]

\* Nothing else writes these fields: the other writes merge.
BoardNext ==
    \/ \E f \in made : AwardTo(f)
    \/ (Tap \/ Callback \/ Failure) /\ UNCHANGED awards

BoardSpec == BoardInit /\ [][BoardNext]_boardVars

-----------------------------------------------------------------------------
(* The board implements the lifecycle.                                     *)

\* Offers at the one price that this module tells apart.
Priced(f)     == [id |-> f.id, order |-> f.order, courier |-> f.courier, price |-> 0]
AtOnePrice(S) == {Priced(f) : f \in S}

Docs == [o \in Order |-> [status   |-> status[o],
                         assigned |-> courierID[o] # "nobody",
                         courier  |-> courierID[o],
                         price    |-> 0]]

\* The orders on which an offer was ever announced, even if it never came.
Announced == {f.order : f \in made \cup posting} \cup lost

\* The cards of a placed order have shown its first status, and "have an offer"
\* once an offer on it was announced.
Shown == [o \in Order |-> {"waiting for offer" : q \in Placed \cap {o}} \cup
                         {"have an offer" : q \in Announced \cap {o}}]

\* The Tracking documents are never written: here they stay on their way.
Started     == UNION {holders[o] : o \in Order}
Purging     == {<<"member", o>> : o \in purges}
Withdrawing == {<<DeviceOf(w[1]), w[2], w[3]>> : w \in withdrawals}
Recounting  == {<<DeviceOf(l.at), l.order>> : l \in {k \in listeners : k.counts}}

Lifecycle == INSTANCE OrderLifecycle WITH
    Member      <- {"member"},
    Owner       <- [o \in Order |-> "member"],
    Price       <- {0},
    NoCourier   <- "nobody",
    orders      <- Docs,
    shown       <- Shown,
    overdue     <- {},
    offers      <- AtOnePrice(offers),
    made        <- AtOnePrice(made),
    posting     <- AtOnePrice(posting),
    tracking    <- {},
    starts      <- Started,
    untracked   <- {},
    purges      <- Purging,
    withdrawals <- Withdrawing,
    recounting  <- Recounting

\* Without the arrays, the queues and the screens, every step is a step of the
\* order's life: in particular a block that counts writes only to an order of
\* which a device left cancelOffer's listener, whatever filled the array and
\* however long the block waited (cancelOffer, getOffers).
ImplementsLifecycle == Lifecycle!Spec
=============================================================================
