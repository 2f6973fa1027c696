---------------------------- MODULE AwardedOrders ---------------------------
(***************************************************************************)
(* The orders awarded to a courier: those under way on his page "Current   *)
(* Orders", the others on "Past Orders".                                   *)
(*                                                                         *)
(* Both lists come from one query, each through listeners of its own that  *)
(* fill an array and then apply the changes they are told one by one.  The *)
(* array is emptied at each visit, and the listeners outlive the courier   *)
(* who signs out.  An order that was cancelled from a card, or whose offer *)
(* was, is kept off the current orders by its id.                          *)
(*                                                                         *)
(* No report of these listeners shows anything.  A page is what its        *)
(* getCards last made of the array, half a second after the page appeared  *)
(* or a card was cancelled, and when a listener of the orders with an      *)
(* offer, which either page attaches with the courier's offers, is told.   *)
(* The cards of those offers on "Current Orders" are those of              *)
(* CourierOrders.                                                          *)
(***************************************************************************)
EXTENDS CourierPhone, TLC

VARIABLES
    assign,     \* CourierOrderOfferedAssign: by order its document
    past,       \* CourierOrderCancelled: by order the status it is listed with
    cancelCardOrderId, \* the order last cancelled, or whose offer was, from a card
    opened,     \* the pages opened so far
    renewals,   \* the calls of getCards to come, each with its page
    shown,      \* by page, the orders on it
    changed     \* the orders told as changed since "Past Orders" last appeared

arrays == <<assign, past, cancelCardOrderId>>
pages  == <<opened, renewals, shown>>
awards == <<arrays, pages, changed>>
awardsVars == <<phoneVars, awards>>

Page == {"current", "past"}

NoAwards == [o \in {} |-> none]

\* Nothing waits in the main queue.
Served == AllReported /\ \A p \in Page : <<p, "queued">> \notin renewals

-----------------------------------------------------------------------------
(* Opening the pages.                                                      *)

Open(p, Q) ==
    /\ Served
    /\ Listen(Q \cup {Mine(user)})
    /\ opened' = opened \cup {p}
    /\ renewals' = renewals \cup {<<p, "delayed">>}
    /\ UNCHANGED <<server, user, cache, told, shown, cancelCardOrderId>>

VisitCurrent ==
    /\ Open("current", {Awarded(user)})
    /\ assign' = NoAwards
    /\ UNCHANGED <<past, changed>>

\* This page asks for the awarded orders as well, for an array it does not show.
VisitPast ==
    /\ Open("past", {Past(user)})
    /\ past' = NoAwards
    /\ changed' = {}
    /\ UNCHANGED assign

-----------------------------------------------------------------------------
(* Callbacks.                                                              *)

\* Mutant: the order's document is kept as it was first listed.
ReportAwardedOnce(q) ==
    /\ q.on = "awarded"
    /\ Tell(q, {})
    /\ assign' = assign @@ Answer(q, cache)
    /\ UNCHANGED <<past, cancelCardOrderId, pages, changed>>

\* getCourierOrderAssign: a changed order is put where it already is.
ReportAwarded(q) ==
    /\ q.on = "awarded"
    /\ Tell(q, {})
    /\ assign' = Answer(q, cache)
    /\ UNCHANGED <<past, cancelCardOrderId, pages, changed>>

\* Mutant: the orders of a first report lose their status as well.
ReportPastBlank(q) ==
    /\ q.on = "past"
    /\ Tell(q, {})
    /\ past' = [o \in DOMAIN Answer(q, cache) |-> ""]
    /\ changed' = changed \cup Changed(q)
    /\ UNCHANGED <<assign, cancelCardOrderId, pages>>

\* getCourierOrderCancelledAndCompleted: a changed order loses its status, for
\* it always differs from "cancled" or from "completed".
ReportPast(q) ==
    LET now == Answer(q, cache) IN
    /\ q.on = "past"
    /\ Tell(q, {})
    /\ past' = [o \in DOMAIN now |-> IF o \in Changed(q) THEN "" ELSE now[o].status]
    /\ changed' = changed \cup Changed(q)
    /\ UNCHANGED <<assign, cancelCardOrderId, pages>>

\* getAllOffersFromCourierInCurrentOrder of either page: each report attaches one
\* more listener of the orders with an offer.
ReportBids(q) ==
    /\ q.on = "mine"
    /\ Tell(q, {Offered})
    /\ UNCHANGED awards

\* getOrderForCourierCurrentOrder: its completion queues getCards.
ReportBidOrders(q) ==
    /\ q.on = "offered"
    /\ Tell(q, {})
    /\ renewals' = renewals \cup {<<p, "queued">> : p \in opened}
    /\ UNCHANGED <<arrays, opened, shown, changed>>

-----------------------------------------------------------------------------
(* getCards.                                                               *)

Closed == {"cancled", "completed"}

CurrentCards ==
    {o \in DOMAIN assign : assign[o].status \notin Closed /\ o # cancelCardOrderId}

PastCards == {o \in DOMAIN past : past[o] \in Closed}

RenewCards(p, k) ==
    /\ <<p, k>> \in renewals
    /\ k = "queued" => AllReported
    /\ renewals' = renewals \ {<<p, k>>}
    /\ shown' = [shown EXCEPT ![p] = IF p = "current" THEN CurrentCards ELSE PastCards]
    /\ UNCHANGED <<phoneVars, arrays, opened, changed>>

-----------------------------------------------------------------------------
(* What this courier and the others do.                                    *)

\* The card of o is cancelled: its id is kept, and getCards is called later.
Hide(o) ==
    /\ Served
    /\ cancelCardOrderId' = o
    /\ renewals' = renewals \cup {<<"current", "delayed">>}
    /\ UNCHANGED <<assign, past, opened, shown, changed>>

\* "Cancel Offer" on the card of an offer.
CancelOwnOffer(o) == "current" \in opened /\ Withdraw(TRUE, user, o) /\ Hide(o)

\* "Cancel" on the card of an order under way.
CancelOwnOrder(o) == o \in shown["current"] /\ CancelOrder(TRUE, o) /\ Hide(o)

AwardsHere ==
    /\ Served
    /\ \/ \E o \in Order, p \in Price : AddOffer(TRUE, user, o, p)
       \/ \E f \in OfferDoc : PostOffer(TRUE, f)
       \/ \E c \in Courier, o \in Order : DeleteOffers(TRUE, c, o)
       \/ \E o \in shown["current"] : Complete(TRUE, o)
    /\ UNCHANGED awards

AwardsElsewhere ==
    /\ \/ \E c \in Courier, o \in Order, p \in Price : AddOffer(FALSE, c, o, p)
       \/ \E f \in OfferDoc : PostOffer(FALSE, f)
       \/ \E c \in Courier, o \in Order : Withdraw(FALSE, c, o) \/ DeleteOffers(FALSE, c, o)
       \/ \E f \in db.offers : AcceptOffer(f)
       \/ \E o \in Order : \/ CancelOrder(FALSE, o) \/ PurgeOffers(FALSE, o)
                           \/ Complete(FALSE, o)
    /\ UNCHANGED awards

AwardsCatchUp == Served /\ Sync /\ UNCHANGED awards

\* Logout and login of another courier on the phone.
AwardsSignIn(c) == Served /\ SignIn(c) /\ UNCHANGED awards

-----------------------------------------------------------------------------
AwardsInit ==
    /\ PhoneInit
    /\ assign = NoAwards /\ past = NoAwards
    /\ cancelCardOrderId = none
    /\ opened = {} /\ renewals = {} /\ changed = {}
    /\ shown = [p \in Page |-> {}]

AwardsReport(q) ==
    ReportAwarded(q) \/ ReportPast(q) \/ ReportBids(q) \/ ReportBidOrders(q)

AwardsNext ==
    \/ VisitCurrent \/ VisitPast
    \/ \E q \in DOMAIN told \cup starting : AwardsReport(q)
    \/ \E p \in Page, k \in {"queued", "delayed"} : RenewCards(p, k)
    \/ \E o \in Order : CancelOwnOffer(o) \/ CancelOwnOrder(o)
    \/ \E c \in Courier : AwardsSignIn(c)
    \/ AwardsHere \/ AwardsElsewhere
    \/ AwardsCatchUp

AwardsSpec == AwardsInit /\ [][AwardsNext]_awardsVars

-----------------------------------------------------------------------------
AwardsTypeOK ==
    /\ PhoneTypeOK
    /\ DOMAIN assign \subseteq Order /\ \A o \in DOMAIN assign : assign[o] \in OrderDoc
    /\ DOMAIN past \subseteq Order /\ \A o \in DOMAIN past : past[o] \in Status \cup {""}
    /\ cancelCardOrderId \in Order \cup {none}
    /\ opened \subseteq Page /\ renewals \subseteq Page \X {"queued", "delayed"}
    /\ shown \in [Page -> SUBSET Order] /\ changed \subseteq Order

AwardsSettled == AllReported /\ starting = {}

UnderWay(o) == cache.order[o].courier = user /\ cache.order[o].status \notin Closed
Done(o)     == cache.order[o].courier = user /\ cache.order[o].status \in Closed

\* What getCards puts on "Current Orders" when nothing is left to report are the
\* orders awarded to the courier that are neither cancelled nor completed,
\* except the one he last cancelled or took his offer back from, whatever
\* listeners of earlier visits told; a report that comes later renews nothing
\* (getCourierOrderAssign, getCards of CurrentCarouselCViewModel).
CurrentRenewed ==
    \A k \in {"queued", "delayed"} :
       RenewCards("current", k) /\ AwardsSettled /\ Alone /\ Awarded(user) \in DOMAIN told =>
          shown'["current"] = {o \in Order : UnderWay(o)} \ {cancelCardOrderId}
CurrentCardsAreUnderWay == [][CurrentRenewed]_awardsVars

\* What getCards puts on "Past Orders" then are orders awarded to the courier
\* that are cancelled or completed; it leaves one out only if it changed since
\* the page appeared, for then a listener blanked its status: the next visit
\* brings it back (getCourierOrderCancelledAndCompleted, getCards of
\* HistoryCarouselCViewModel).
PastRenewed ==
    \A k \in {"queued", "delayed"} :
       RenewCards("past", k) /\ AwardsSettled /\ Alone /\ Past(user) \in DOMAIN told =>
          /\ \A o \in shown'["past"] : Done(o)
          /\ \A o \in Order : Done(o) => o \in shown'["past"] \cup changed
PastCardsAreDone == [][PastRenewed]_awardsVars
=============================================================================
