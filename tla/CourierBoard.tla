---------------------------- MODULE CourierBoard ----------------------------
(***************************************************************************)
(* The page "Available Orders" of a courier (DeliverOrderView).            *)
(*                                                                         *)
(* Opening the page attaches three listeners: the orders that wait for an  *)
(* offer, the orders that have one, and the offers of the courier, whose   *)
(* orders are left out.  The cards are a copy, made by getCards half a     *)
(* second later and whenever the courier's offers are reported; a change   *)
(* of the orders alone does not renew them.  One courier uses the phone    *)
(* here, and perhaps another phone as well; CourierOrders has several.     *)
(***************************************************************************)
EXTENDS CourierPhone

VARIABLES
    orderID,    \* the orders that the courier's offers were last reported for
    refresh,    \* the calls of getCards to come: "queued", "delayed"
    cards       \* the orders on the page, as getCards found them

board == <<orderID, refresh, cards>>
boardVars == <<phoneVars, board>>

\* The arrays WaitingOrders and orders are what their listeners were last told.
Listed(q) == IF q \in DOMAIN told THEN DOMAIN told[q] ELSE {}

\* The orders of the offers in an answer.
OrdersOf(answer) == {f.order : f \in DOMAIN answer}

\* Nothing waits in the main queue.
Quiet == AllReported /\ "queued" \notin refresh

-----------------------------------------------------------------------------
\* The page appears.
VisitBoard ==
    /\ Quiet
    /\ Listen({Waiting, Offered, Mine(user)})
    /\ orderID' = {}
    /\ refresh' = refresh \cup {"delayed"}
    /\ UNCHANGED <<server, user, cache, told, cards>>

\* Mutant: the completion does not renew the cards.
ReportQuietly(q) ==
    /\ Tell(q, {})
    /\ orderID' = IF q.on = "mine" THEN OrdersOf(Answer(q, cache)) ELSE orderID
    /\ UNCHANGED <<refresh, cards>>

\* Mutant: the ids are added to those of the snapshot before.
ReportAdding(q) ==
    /\ Tell(q, {})
    /\ IF q.on = "mine"
       THEN /\ orderID' = orderID \cup OrdersOf(Answer(q, cache))
            /\ refresh' = refresh \cup {"queued"}
       ELSE UNCHANGED <<orderID, refresh>>
    /\ UNCHANGED cards

\* A listener's callback; that of the offers queues getCards.
Report(q) ==
    /\ Tell(q, {})
    /\ IF q.on = "mine"
       THEN /\ orderID' = OrdersOf(Answer(q, cache))
            /\ refresh' = refresh \cup {"queued"}
       ELSE UNCHANGED <<orderID, refresh>>
    /\ UNCHANGED cards

\* Mutant: the orders that have an offer are not filtered.
GetCardsUnfiltered(k) ==
    /\ k \in refresh
    /\ k = "queued" => AllReported
    /\ refresh' = refresh \ {k}
    /\ cards' = Listed(Waiting) \cup Listed(Offered)
    /\ UNCHANGED <<phoneVars, orderID>>

\* getCards, as the block queued by the offers' listener or after the delay.
GetCards(k) ==
    /\ k \in refresh
    /\ k = "queued" => AllReported
    /\ refresh' = refresh \ {k}
    /\ cards' = Listed(Waiting) \cup (Listed(Offered) \ orderID)
    /\ UNCHANGED <<phoneVars, orderID>>

-----------------------------------------------------------------------------
BoardInit ==
    /\ PhoneInit
    /\ orderID = {} /\ refresh = {} /\ cards = {}

\* An offer is made from a card, which may be a late copy; on another phone
\* from any.
MakeOffer(here, c, o, p) ==
    /\ here => Quiet /\ c = user /\ o \in cards
    /\ AddOffer(here, c, o, p)
    /\ UNCHANGED board

OtherWrites(here) ==
    /\ here => Quiet
    /\ \/ \E f \in OfferDoc : PostOffer(here, f)
       \/ \E c \in Courier, o \in Order : 
             (here => c = user) /\ (Withdraw(here, c, o) \/ DeleteOffers(here, c, o))
       \/ \E o \in Order : Reopen(here, o)
       \/ ~here /\ \E o \in Order : CancelOrder(here, o) \/ PurgeOffers(here, o)
       \/ ~here /\ \E f \in db.offers : AcceptOffer(f)
    /\ UNCHANGED board

BoardCatchUp == Quiet /\ Sync /\ UNCHANGED board

BoardNext ==
    \/ \E here \in BOOLEAN :
          \/ \E c \in Courier, o \in Order, p \in Price : MakeOffer(here, c, o, p)
          \/ OtherWrites(here)
    \/ VisitBoard
    \/ \E q \in DOMAIN told \cup starting : Report(q)
    \/ \E k \in refresh : GetCards(k)
    \/ BoardCatchUp

\* The main queue is served; the cache catches up again and again, whatever
\* the person holding the phone does in between.
BoardFairness ==
    /\ \A q \in Query : WF_boardVars(Report(q))
    /\ \A k \in {"queued", "delayed"} : WF_boardVars(GetCards(k))
    /\ SF_boardVars(BoardCatchUp)

BoardSpec == BoardInit /\ [][BoardNext]_boardVars /\ BoardFairness

-----------------------------------------------------------------------------
OwnOffer(o, d) == \E f \in d.offers : f.order = o /\ f.courier = user

\* "get all order id that the courier has offer in order": the page does not
\* offer the courier an order he has an offer on, as soon as that offer was
\* reported.  Excepted are the orders that went back to
\* waiting with offers left, which the page shows without looking at orderID
\* (getCards, getAllOffersFromCourier, cancelOffer).
BoardHidesOwnBids ==
    Quiet /\ Mine(user) \notin starting =>
       \A o \in cards : OwnOffer(o, cache) => o \in disputed

\* What getCards puts on the page when nothing is left to report are the orders
\* that are open and not yet bid on: two listeners and an array of ids emptied
\* at every visit agree in the end (getCards after getAllOffersFromCourier).
FreshCards ==
    \A k \in refresh :
       GetCards(k) /\ starting = {} /\ DOMAIN told # {} /\ AllReported =>
          cards' = {o \in Order : \/ cache.order[o].status = "waiting for offer"
                                  \/ /\ cache.order[o].status = "have an offer"
                                     /\ ~OwnOffer(o, cache)}
CardsAreOpenOrders == [][FreshCards]_boardVars

\* An order a courier has bid on leaves his page: the report of his own offer
\* renews the cards even when no page is opened again (getAllOffersFromCourier).
BidLeavesBoard ==
    \A o \in Order :
       o \in cards /\ OwnOffer(o, db) ~>
          o \notin cards \/ ~OwnOffer(o, db) \/ o \in disputed
=============================================================================
