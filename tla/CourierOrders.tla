---------------------------- MODULE CourierOrders ---------------------------
(***************************************************************************)
(* The offers of a courier that wait for an answer, on his page "Current   *)
(* Orders".                                                                *)
(*                                                                         *)
(* The list takes two kinds of listeners.  One fills an array with the     *)
(* courier's offers, and each time it is told attaches one more of the     *)
(* other kind, which looks every order that has an offer up in that array  *)
(* and then goes through the orders that were changed.  The array is       *)
(* emptied at each visit, and no listener is removed: they outlive the     *)
(* courier who signs out.                                                  *)
(***************************************************************************)
EXTENDS CourierPhone

VARIABLES
    collected,  \* collectAllOffersForCourier: the courier's offers
    offered,    \* CourierOrderOfferedWaiting: an entry per order with an offer
    stopped     \* the app ran into an index out of range

lists == <<collected, offered, stopped>>
vars == <<phoneVars, lists>>

-----------------------------------------------------------------------------
\* An entry of offered: the order with the price of an offer, or blank when
\* the courier has none.
Entry == [order : Order, price : Price]
Blank == [order |-> none, price |-> none]

OffersFor(o) == {f \in collected : f.order = o}

\* offerDetails[0]: the first in the order of the documents' ids.
FirstPrice(o) == (CHOOSE f \in OffersFor(o) : TRUE).price

\* Mutant: an order without an offer is listed without a price.
MappedAnyway(o) ==
    [order |-> o, price |-> IF OffersFor(o) = {} THEN none ELSE FirstPrice(o)]

Mapped(o) == IF OffersFor(o) = {} THEN Blank ELSE [order |-> o, price |-> FirstPrice(o)]

\* The place of an order in the array; the first place when it is not there.
Place(o, A) == IF A[o].order = o THEN o ELSE CHOOSE k \in DOMAIN A : TRUE

\* The array once the changed orders have been put in place.
Replaced(A, changed, New(_)) ==
    [k \in DOMAIN A |-> LET here == {o \in changed : Place(o, A) = k} IN
                        IF here = {} THEN A[k] ELSE New(CHOOSE o \in here : TRUE)]

Empty == [o \in {} |-> Blank]

-----------------------------------------------------------------------------
\* The page appears.
Visit ==
    /\ AllReported
    /\ Listen({Mine(user)})
    /\ collected' = {}
    /\ UNCHANGED <<server, user, cache, told, offered, stopped>>

\* Mutant: one listener of the orders is taken to be enough.
ReportOffersOnce(q) ==
    /\ q.on = "mine"
    /\ Tell(q, {Offered} \ DOMAIN told)
    /\ collected' = DOMAIN Answer(q, cache)
    /\ UNCHANGED <<offered, stopped>>

\* getAllOffersFromCourierInCurrentOrder.
ReportOffers(q) ==
    /\ q.on = "mine"
    /\ Tell(q, {Offered})
    /\ collected' = DOMAIN Answer(q, cache)
    /\ UNCHANGED <<offered, stopped>>

\* Mutant: a price of an order without an offer is made up.
ReportOfferedLeniently(q) ==
    LET A == [o \in DOMAIN Answer(q, cache) |-> Mapped(o)]
        anyPrice == CHOOSE p \in Price : TRUE IN
    /\ q.on = "offered"
    /\ Tell(q, {})
    /\ offered' = Replaced(A, Changed(q), LAMBDA o : [order |-> o, price |-> anyPrice])
    /\ UNCHANGED <<collected, stopped>>

\* Mutant: every order is looked up without asking whether it has an offer.
ReportOfferedBlindly(q) ==
    LET A == [o \in DOMAIN Answer(q, cache) |-> Mapped(o)] IN
    /\ q.on = "offered"
    /\ Tell(q, {})
    /\ IF \E o \in DOMAIN A : OffersFor(o) = {}
       THEN stopped' = TRUE /\ UNCHANGED offered
       ELSE offered' = A /\ UNCHANGED stopped
    /\ UNCHANGED collected

\* getOrderForCourierCurrentOrder: all orders are mapped, and each changed one
\* is looked up again, now without asking whether it has an offer.
ReportOffered(q) ==
    LET A == [o \in DOMAIN Answer(q, cache) |-> Mapped(o)] IN
    /\ q.on = "offered"
    /\ Tell(q, {})
    /\ IF \E o \in Changed(q) : OffersFor(o) = {}
       THEN stopped' = TRUE /\ UNCHANGED offered
       ELSE offered' = Replaced(A, Changed(q), Mapped) /\ UNCHANGED stopped
    /\ UNCHANGED collected

\* The cards, as getCards makes them.
Cards == {e \in {offered[k] : k \in DOMAIN offered} : e.order # none}

-----------------------------------------------------------------------------
(* What this courier and the others do.                                    *)

Here ==
    /\ \/ \E o \in Order, p \in Price : AddOffer(TRUE, user, o, p)
       \/ \E f \in OfferDoc : PostOffer(TRUE, f)
       \/ \E e \in Cards : Withdraw(TRUE, user, e.order)
       \/ \E c \in Courier, o \in Order : DeleteOffers(TRUE, c, o)
       \/ \E o \in Order : Reopen(TRUE, o)
    /\ UNCHANGED lists

Elsewhere ==
    /\ \/ \E c \in Courier, o \in Order, p \in Price : AddOffer(FALSE, c, o, p)
       \/ \E f \in OfferDoc : PostOffer(FALSE, f)
       \/ \E c \in Courier, o \in Order : Withdraw(FALSE, c, o) \/ DeleteOffers(FALSE, c, o)
       \/ \E f \in db.offers : AcceptOffer(f)
       \/ \E o \in Order : Reopen(FALSE, o) \/ CancelOrder(FALSE, o) \/ PurgeOffers(FALSE, o)
    /\ UNCHANGED lists

CatchUp == Sync /\ UNCHANGED lists

\* Logout and login of another courier on the phone.
SignInAs(c) == AllReported /\ SignIn(c) /\ UNCHANGED lists

\* The app starts again after it stopped: listeners and lists are gone, the
\* courier is still signed in.
Relaunch ==
    /\ stopped
    /\ stopped' = FALSE
    /\ told' = [q \in {} |-> {}] /\ starting' = {}
    /\ collected' = {} /\ offered' = Empty
    /\ UNCHANGED <<server, user, cache>>

-----------------------------------------------------------------------------
Init ==
    /\ PhoneInit
    /\ collected = {} /\ offered = Empty
    /\ stopped = FALSE

Running ==
    \/ Visit
    \/ \E q \in DOMAIN told \cup starting : ReportOffers(q) \/ ReportOffered(q)
    \/ \E c \in Courier : SignInAs(c)
    \/ Here
    \/ CatchUp

Next == (~stopped /\ Running) \/ Elsewhere \/ Relaunch

Spec == Init /\ [][Next]_vars

-----------------------------------------------------------------------------
TypeOK ==
    /\ PhoneTypeOK
    /\ collected \subseteq OfferDoc
    /\ DOMAIN offered \subseteq Order
    /\ \A k \in DOMAIN offered : offered[k] \in Entry \cup {Blank}
    /\ stopped \in BOOLEAN

Settled == AllReported /\ starting = {} /\ ~stopped

OwnOffers(o) == {f \in cache.offers : f.order = o /\ f.courier = user}

\* Where nothing is left to report, the page has for every order that has an
\* offer of the courier one card, at a price he asked, and no other: the
\* listener of the orders and the array it looks in agree in the end, although
\* either may be told first and the array is emptied at each visit
\* (getOrderForCourierCurrentOrder).
CardsAreMyOffers ==
    Settled /\ Alone /\ Mine(user) \in DOMAIN told =>
       /\ {e.order : e \in Cards} =
             {o \in Order : cache.order[o].status = "have an offer" /\ OwnOffers(o) # {}}
       /\ \A e \in Cards : \E f \in OwnOffers(e.order) : f.price = e.price

\* The app stops on an index out of range only after an order that had been
\* awarded was given an offer again from a late card (the lookup without a
\* check in getOrderForCourierCurrentOrder, and addOffer).
StopsOnlyOnRegress == stopped => regressed # {}

\* No change of an order is written over the entry of another: the fallback to
\* index 0 is never taken, because the lookup before it fails first
\* (getOrderForCourierCurrentOrder).
EntriesInPlace == \A k \in DOMAIN offered : offered[k].order \in {k, none}
=============================================================================
