--------------------------- MODULE OrderLifecycle ---------------------------
(***************************************************************************)
(* The life of a delivery order: the documents of the Firestore            *)
(* collections Order, Offers and Tracking, every operation of class Order  *)
(* (classes.swift) that writes them, and the callbacks those operations    *)
(* leave behind.                                                           *)
(*                                                                         *)
(* Each setData, addDocument or delete is one atomic step of the shared    *)
(* database.  What a device decides on is never the database itself but a  *)
(* listener's copy, a card copied from that list when it was tapped, or a  *)
(* query result delivered later.  These copies have many ages at once, so  *)
(* this module lets a device act on any card the order has ever given rise *)
(* to: shown and holders collect them.  OfferBoard keeps single copies.    *)
(***************************************************************************)
EXTENDS Naturals

CONSTANTS
    Order,      \* ids of the documents of collection Order
    Member,     \* the users who place orders
    Courier,    \* the users who deliver them
    Owner,      \* Owner[o]: the member whose id is the MemberID of order o
    Price,      \* the delivery prices a courier can offer
    OfferId,    \* ids of the documents of Offers; its size bounds the offers made
    NoCourier   \* the CourierID of an order that has none

ASSUME LifecycleAssumption ==
    /\ Owner \in [Order -> Member]
    /\ Price \subseteq Nat
    /\ NoCourier \notin Courier

VARIABLES
    orders,     \* orders[o]: the document o of collection Order
    shown,      \* shown[o]: the open statuses that cards of order o have ever shown
    holders,    \* holders[o]: the couriers who ever had o among their assigned cards
    overdue,    \* the orders placed 15 minutes ago or more
    offers,     \* the documents of collection Offers
    made,       \* every document Offers has ever had
    tracking,   \* the couriers with a document in collection Tracking
    starts,     \* the couriers whose Tracking document acceptOffer has on its way
    untracked,  \* the couriers one of whose Tracking writes was refused (history)
    posting,    \* addOffer calls between the status write and its callback
    purges,     \* <<d, o>>: device d awaits the offers of o in order to delete them
    withdrawals,\* <<d, c, o>>: device d awaits c's offers on o in order to delete them
    recounting  \* <<d, o>>: the listener cancelOffer left on the offers of o in device d

docs     == <<orders, shown, holders>>
pending  == <<posting, purges, withdrawals>>
courses  == <<tracking, starts, untracked>>
vars == <<docs, overdue, offers, made, courses, pending, recounting>>

-----------------------------------------------------------------------------
(* The documents.                                                          *)

Device == Member \cup Courier

\* The strings of Order.status, in two groups: a courier's progress and the rest.
Progress == {"pick Up", "on The Way", "drop off", "completed"}
Status   == {"waiting for offer", "cancled", "have an offer", "assigned"} \cup Progress

OrderDoc == {doc \in [status   : Status \cup {"absent"},
                      assigned : BOOLEAN,
                      courier  : Courier \cup {NoCourier},
                      price    : Price \cup {0}] :
             doc.assigned => doc.courier \in Courier}

Absent == [status |-> "absent", assigned |-> FALSE, courier |-> NoCourier, price |-> 0]

OfferDoc == [id : OfferId, order : Order, courier : Courier, price : Price]

\* An order in one of these is on the couriers' board and in its member's list.
Open == {"waiting for offer", "have an offer"}

IsOver(doc) == doc.status \in {"absent", "cancled", "completed"}

\* The courier whose list of assigned orders has a card for the order.
Holder(doc) == IF doc.assigned /\ ~IsOver(doc) THEN {doc.courier} ELSE {}

OffersOn(o)      == {f \in offers : f.order = o}
OffersBy(c, o)   == {f \in OffersOn(o) : f.courier = c}

\* setData on document o: nothing in the code reads it back before writing.
Write(o, doc) ==
    /\ orders'  = [orders  EXCEPT ![o] = doc]
    /\ shown'   = [shown   EXCEPT ![o] = @ \cup ({doc.status} \cap Open)]
    /\ holders' = [holders EXCEPT ![o] = @ \cup Holder(doc)]

\* Mutant: without merge: true the write replaces the document.
WithStatusUnmerged(doc, s) == [Absent EXCEPT !.status = s]

\* setData(["Status": s], merge: true): every other field stays.
WithStatus(doc, s) == [doc EXCEPT !.status = s]

SetStatus(o, s) == Write(o, WithStatus(orders[o], s))

\* The same write issued in a loop over the orders of a set: they are over.
CancelAll(S) ==
    /\ orders' = [o \in Order |-> IF o \in S THEN WithStatus(orders[o], "cancled")
                                            ELSE orders[o]]
    /\ UNCHANGED <<shown, holders>>

-----------------------------------------------------------------------------
(* Placing an order, and time.                                             *)

\* Mutant: the document id is reused instead of generated.
AddOrderAgain(o) ==
    /\ Write(o, WithStatus(Absent, "waiting for offer"))
    /\ UNCHANGED <<overdue, offers, made, courses, pending, recounting>>

\* addOrder: a new document, unassigned, with the first status.
AddOrder(o) ==
    /\ orders[o] = Absent
    /\ Write(o, WithStatus(Absent, "waiting for offer"))
    /\ UNCHANGED <<overdue, offers, made, courses, pending, recounting>>

\* The age createdAt is compared with: 60 seconds * 15 minutes.
BecomeOverdue(o) ==
    /\ orders[o] # Absent
    /\ o \notin overdue
    /\ overdue' = overdue \cup {o}
    /\ UNCHANGED <<docs, offers, made, courses, pending, recounting>>

-----------------------------------------------------------------------------
(* Offers.                                                                 *)

\* Mutant: the document is added without the status write before it.
AddOfferQuietly(c, o, p) ==
    /\ shown[o] # {}
    /\ \E id \in OfferId \ {f.id : f \in made \cup posting} :
          posting' = posting \cup {[id |-> id, order |-> o, courier |-> c, price |-> p]}
    /\ UNCHANGED <<docs, overdue, offers, made, courses, purges, withdrawals, recounting>>

\* "Make an Offer" on a card of the courier's board.  The board hides the
\* orders the courier has bid on, but the list it hides by is emptied and
\* refilled asynchronously on each visit, so it is no guard.
AddOffer(c, o, p) ==
    /\ shown[o] # {}
    /\ \E id \in OfferId \ {f.id : f \in made \cup posting} :
          posting' = posting \cup {[id |-> id, order |-> o, courier |-> c, price |-> p]}
    /\ SetStatus(o, "have an offer")
    /\ UNCHANGED <<overdue, offers, made, courses, purges, withdrawals, recounting>>

\* The callback of that status write adds the offer document.
PostOffer(f) ==
    /\ f \in posting
    /\ posting' = posting \ {f}
    /\ offers' = offers \cup {f}
    /\ made' = made \cup {f}
    /\ UNCHANGED <<docs, overdue, courses, purges, withdrawals, recounting>>

\* cancelOffer: a new listener on the order's offers and a query for the
\* courier's offers; both answer later.
CancelOffer(d, c, o) ==
    /\ recounting' = recounting \cup {<<d, o>>}
    /\ withdrawals' = withdrawals \cup {<<d, c, o>>}
    /\ UNCHANGED <<docs, overdue, offers, made, courses, posting, purges>>

\* "Decline" on an offer card of the member's offers page.
DeclineOffer(f) ==
    /\ f \in made
    /\ CancelOffer(Owner[f.order], f.courier, f.order)

\* "Cancel offer" on a card of the courier's current orders.
CancelOwnOffer(f) ==
    /\ f \in made
    /\ "have an offer" \in shown[f.order]
    /\ CancelOffer(f.courier, f.courier, f.order)

\* The query's answer: the courier's offers on the order are deleted.
Withdraw(d, c, o) ==
    /\ <<d, c, o>> \in withdrawals
    /\ withdrawals' = withdrawals \ {<<d, c, o>>}
    /\ offers' = offers \ OffersBy(c, o)
    /\ UNCHANGED <<docs, overdue, made, courses, posting, purges, recounting>>

\* A snapshot reaches the listener cancelOffer left, which is never removed:
\* when its device counts one offer the order goes back to waiting.  The count
\* is taken in a later block of the main queue, from an array that every
\* getOffers listener of the device refills with the offers just added on its
\* own order: it excludes nothing here.  OfferBoard keeps the array.
Recount(d, o) ==
    /\ <<d, o>> \in recounting
    /\ SetStatus(o, "waiting for offer")
    /\ UNCHANGED <<overdue, offers, made, courses, pending, recounting>>

\* Mutant: the price is read from the order card, which has none yet.
AcceptAtCardPrice(f) ==
    LET o == f.order IN
    /\ f \in made
    /\ "have an offer" \in shown[o]
    /\ Write(o, [status |-> "assigned", assigned |-> TRUE,
                 courier |-> f.courier, price |-> orders[o].price])
    /\ starts' = starts \cup {f.courier}
    /\ purges' = purges \cup {<<Owner[o], o>>}
    /\ UNCHANGED <<overdue, offers, made, tracking, untracked, posting, withdrawals,
                   recounting>>

\* "Accept" on an offer card: a write of the order, a write of the courier's
\* Tracking document behind it, and a query for the offers to delete.
AcceptOffer(f) ==
    LET o == f.order IN
    /\ f \in made
    /\ "have an offer" \in shown[o]
    /\ Write(o, [status |-> "assigned", assigned |-> TRUE,
                 courier |-> f.courier, price |-> f.price])
    /\ starts' = starts \cup {f.courier}
    /\ purges' = purges \cup {<<Owner[o], o>>}
    /\ UNCHANGED <<overdue, offers, made, tracking, untracked, posting, withdrawals,
                   recounting>>

\* The Tracking document is written after the order's, whatever happened to
\* the order meanwhile: it waits on the phone until the server takes it.
StartTracking(c) ==
    /\ c \in starts
    /\ starts' = starts \ {c}
    /\ tracking' = tracking \cup {c}
    /\ UNCHANGED <<docs, overdue, offers, made, untracked, pending, recounting>>

\* The server may also refuse it, which nothing in the code looks at.
StartFails(c) ==
    /\ c \in starts
    /\ starts' = starts \ {c}
    /\ untracked' = untracked \cup {c}
    /\ UNCHANGED <<docs, overdue, offers, made, tracking, pending, recounting>>

\* Adding the offer may end in its error branch, which only logs.
PostFails(f) ==
    /\ f \in posting
    /\ posting' = posting \ {f}
    /\ UNCHANGED <<docs, overdue, offers, made, courses, purges, withdrawals, recounting>>

\* So may the query, or the deletion of any of the offers it found.
WithdrawFails(d, c, o) ==
    /\ <<d, c, o>> \in withdrawals
    /\ withdrawals' = withdrawals \ {<<d, c, o>>}
    /\ \E S \in SUBSET OffersBy(c, o) : offers' = offers \ S
    /\ UNCHANGED <<docs, overdue, made, courses, posting, purges, recounting>>

-----------------------------------------------------------------------------
(* Cancelling an order.                                                    *)

\* cancelOrder on every order of S.
CancelOrders(d, S) ==
    /\ CancelAll(S)
    /\ purges' = purges \cup {<<d, o>> : o \in S}
    /\ UNCHANGED <<overdue, offers, made, courses, posting, withdrawals, recounting>>

\* "Cancel order" on a card of the member's current orders.  The 90 minutes
\* rule hides the button from a card that says "assigned", and a card opened
\* before that keeps it: it excludes no order here.
MemberCancels(o) ==
    /\ shown[o] # {}
    /\ CancelOrders(Owner[o], {o})

\* "Cancel order" on a card of the courier's assigned orders.
CourierCancels(c, o) ==
    /\ c \in holders[o]
    /\ CancelOrders(c, {o})

\* checkOrders: a member's device cancels the member's orders that its copy
\* shows waiting after 15 minutes.
CheckOrders(m) ==
    \E S \in SUBSET {o \in Order : Owner[o] = m} :
       /\ S # {}
       /\ \A o \in S : o \in overdue /\ "waiting for offer" \in shown[o]
       /\ CancelOrders(m, S)

\* checkOrdersForCourier: so does every courier's device, for everybody's
\* unassigned orders; every order waits unassigned when it is added.
CheckOrdersForCourier(c) ==
    \E S \in SUBSET Order :
       /\ S # {}
       /\ \A o \in S : o \in overdue /\ "waiting for offer" \in shown[o]
       /\ CancelOrders(c, S)

\* The answer of the query that cancelOrder or acceptOffer issued.
PurgeOffers(d, o) ==
    /\ <<d, o>> \in purges
    /\ purges' = purges \ {<<d, o>>}
    /\ offers' = offers \ OffersOn(o)
    /\ UNCHANGED <<docs, overdue, made, courses, posting, withdrawals, recounting>>

\* The query fails, or the deletion of some of the offers it found.
PurgeFails(d, o) ==
    /\ <<d, o>> \in purges
    /\ purges' = purges \ {<<d, o>>}
    /\ \E S \in SUBSET OffersOn(o) : offers' = offers \ S
    /\ UNCHANGED <<docs, overdue, made, courses, posting, withdrawals, recounting>>

-----------------------------------------------------------------------------
(* The courier's progress, and the end of a process.                       *)

\* Mutant: the rows are offered on every card, not on the courier's own.
ChangeAnyState(c, o, s) ==
    /\ shown[o] # {}
    /\ SetStatus(o, s)
    /\ UNCHANGED <<overdue, offers, made, courses, pending, recounting>>

\* changeState, from a tap on one of the four progress rows of an assigned
\* order.  The tap compares the row with liveStatus, which starts as
\* "assigned" and may be any order's, so no row is excluded here.
ChangeState(c, o, s) ==
    /\ c \in holders[o]
    /\ SetStatus(o, s)
    /\ UNCHANGED <<overdue, offers, made, courses, pending, recounting>>

\* The app is killed: callbacks and listeners are gone; documents, and the
\* writes of documents that wait for the server, are not.
Kill(d) ==
    /\ posting' = {f \in posting : f.courier # d}
    /\ purges' = {q \in purges : q[1] # d}
    /\ withdrawals' = {q \in withdrawals : q[1] # d}
    /\ recounting' = {q \in recounting : q[1] # d}
    /\ UNCHANGED <<docs, overdue, offers, made, courses>>

-----------------------------------------------------------------------------
Init ==
    /\ orders = [o \in Order |-> Absent]
    /\ shown = [o \in Order |-> {}]
    /\ holders = [o \in Order |-> {}]
    /\ overdue = {} /\ offers = {} /\ made = {}
    /\ tracking = {} /\ starts = {} /\ untracked = {}
    /\ posting = {} /\ purges = {} /\ withdrawals = {}
    /\ recounting = {}

UserStep ==
    \/ \E o \in Order : AddOrder(o) \/ MemberCancels(o)
    \/ \E c \in Courier, o \in Order, p \in Price : AddOffer(c, o, p)
    \/ \E f \in made : DeclineOffer(f) \/ CancelOwnOffer(f) \/ AcceptOffer(f)
    \/ \E c \in Courier, o \in Order : CourierCancels(c, o)
    \/ \E c \in Courier, o \in Order, s \in Progress : ChangeState(c, o, s)

TimedStep ==
    \/ \E o \in Order : BecomeOverdue(o)
    \/ \E m \in Member : CheckOrders(m)
    \/ \E c \in Courier : CheckOrdersForCourier(c)

Callback ==
    \/ \E f \in posting : PostOffer(f)
    \/ \E d \in Device, o \in Order : PurgeOffers(d, o) \/ Recount(d, o)
    \/ \E d \in Device, c \in Courier, o \in Order : Withdraw(d, c, o)
    \/ \E c \in Courier : StartTracking(c)

Failure ==
    \/ \E f \in posting : PostFails(f)
    \/ \E d \in Device, o \in Order : PurgeFails(d, o)
    \/ \E d \in Device, c \in Courier, o \in Order : WithdrawFails(d, c, o)
    \/ \E c \in Courier : StartFails(c)
    \/ \E d \in Device : Kill(d)

Next == UserStep \/ TimedStep \/ Callback \/ Failure

Spec == Init /\ [][Next]_vars

-----------------------------------------------------------------------------
TypeOK ==
    /\ orders \in [Order -> OrderDoc]
    /\ shown \in [Order -> SUBSET Open]
    /\ holders \in [Order -> SUBSET Courier]
    /\ overdue \subseteq Order
    /\ made \subseteq OfferDoc
    /\ offers \subseteq made
    /\ tracking \subseteq Courier /\ starts \subseteq Courier /\ untracked \subseteq Courier
    /\ posting \subseteq OfferDoc
    /\ purges \subseteq Device \X Order
    /\ withdrawals \subseteq Device \X Courier \X Order
    /\ recounting \subseteq Device \X Order

-----------------------------------------------------------------------------
(* What the documents must always say of each other.                       *)

\* The price and the courier an assigned order carries are those of one offer
\* that this courier posted for this order: cards, lists and callbacks of
\* different ages never mix two offers (acceptOffer).
AwardProvenance ==
    \A o \in Order : orders[o].assigned =>
        \E f \in made : /\ f.order = o
                       /\ f.courier = orders[o].courier
                       /\ f.price = orders[o].price

\* The couriers whom the map can follow, now or once the server has what a
\* phone has sent, and those it refused a document for.
Followed == tracking \cup starts \cup untracked

\* No courier's progress is ever written on an order nobody was awarded, and
\* an order that says "assigned" or more names a courier whose Tracking
\* document, which the map of both users reads, exists, is on its way or was
\* refused: nothing but an award starts it (changeState, acceptOffer).
ProgressIsAwarded ==
    \A o \in Order : orders[o].status \in Progress \cup {"assigned"} =>
        orders[o].assigned /\ orders[o].courier \in Followed

\* An offer document never exists before its order has shown "have an offer",
\* the status that lets the member open the offers (addOffer writes the status
\* first and the document from its callback).
OfferAfterStatus ==
    \A f \in offers : "have an offer" \in shown[f.order]

\* Once awarded, an order names a courier for ever: no later write, by any
\* device and however late, clears the fields acceptOffer set, which
\* getMemberOrder reads without a check once Assigned is "true".
AwardNeverWithdrawn ==
    [][\A o \in Order : orders[o].assigned =>
          orders'[o].assigned /\ orders'[o].courier # NoCourier]_vars

-----------------------------------------------------------------------------
(* The inductive invariant.                                                *)

\* An order is awarded once it has a holder; nothing happens to one that is
\* not placed yet, and whoever it is awarded to holds it and is followed.
AwardsHeld ==
    \A o \in Order :
       /\ orders[o].status = "absent" => orders[o] = Absent /\ shown[o] = {}
       /\ orders[o].assigned => orders[o].courier \in Followed \cap holders[o]
       /\ holders[o] # {} => orders[o].assigned

\* Every offer posted or on its way is on an order that has shown it.
OffersShown == \A f \in made \cup posting : "have an offer" \in shown[f.order]

\* Listeners are left on placed orders.
RecountsPlaced == \A q \in recounting : shown[q[2]] # {}

\* What the documents say of each other in every state.
Consistent ==
    AwardsHeld /\ OffersShown /\ RecountsPlaced /\ AwardProvenance /\ ProgressIsAwarded

\* Inductive.
LifecycleInv == TypeOK /\ Consistent

-----------------------------------------------------------------------------
(* The lifecycle implements the contract.                                  *)

StageOf(doc) == IF doc.status \in Open THEN "open" ELSE doc.status

AwardOf(doc) ==
    IF doc.assigned THEN [courier |-> doc.courier, price |-> doc.price]
                    ELSE [courier |-> "nobody", price |-> 0]

Contract == INSTANCE DeliveryContract WITH
    Bid      <- OfferDoc,
    Report   <- Progress,
    stage    <- [o \in Order |-> StageOf(orders[o])],
    bids     <- made,
    award    <- [o \in Order |-> AwardOf(orders[o])],
    awardees <- holders

\* Seen without devices and callbacks, every step of the code is a step of the
\* contract: an award is one of the order's own bids, only a courier who was
\* awarded the order moves it on, no order is bid on, cancelled or moved before
\* it is placed (all of classes.swift that writes Order and Offers).
ImplementsContract == Contract!Spec
=============================================================================
