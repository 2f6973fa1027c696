----------------------------- MODULE OfferBoard -----------------------------
(***************************************************************************)
(* How devices list and count the offers of an order.                      *)
(*                                                                         *)
(* Every screen has an object of class Order with one array, offers.       *)
(* getOffers attaches a Firestore listener that refills the array at each  *)
(* snapshot and then queues a block on the main queue; nothing ever        *)
(* removes a listener, and all listeners of a screen share the array.      *)
(* cancelOffer is such a listener whose block counts the array.            *)
(*                                                                         *)
(* OrderLifecycle lets that block decide anything; here it decides on what *)
(* it really reads, and BoardLifecycle maps it there.  Requests fail and   *)
(* apps are killed; the courier's progress and time are left to the other  *)
(* modules.                                                                *)
(***************************************************************************)
EXTENDS Naturals, FiniteSets, Sequences

CONSTANTS
    Order,      \* the orders, all placed by one member
    Courier,    \* the couriers
    OfferId,    \* ids of the documents of Offers; its size bounds the offers made
    MaxListeners,\* bounds the getOffers listeners attached at once
    MaxFailures \* bounds the requests that fail and the apps that are killed

\* A courier's id is the id of an account: never the name of one of the member's
\* screens, nor (BoardLifecycle) of the member's phone or of an absent field.
ASSUME BoardAssumption ==
    /\ MaxListeners \in Nat /\ MaxFailures \in Nat
    /\ Courier \cap {"list", "page", "member", "nobody"} = {}

VARIABLES
    status,     \* status[o]: the field Status of order o
    offers,     \* the documents of collection Offers
    made,       \* every document Offers has ever had
    posting,    \* addOffer calls between the status write and its callback
    withdrawals,\* <<s, c, o>>: screen s asked for c's offers on o in order to delete them
    purges,     \* the orders whose offers were asked for in order to be deleted
    listeners,  \* the getOffers listeners attached so far
    told,       \* told[l]: the offers in the last snapshot listener l got, once it got one
    array,      \* array[s]: the offers array of the Order object of screen s
    blocks,     \* blocks[s]: orders whose counting block waits in the main queue of s
    cards,      \* the offers on the cards of the member's offers page
    disputed,   \* the orders on which somebody ever cancelled an offer
    decided,    \* the orders that were ever accepted or cancelled
    late,       \* the offers posted on an order already decided
    lost,       \* the orders on which an announced offer was never posted
    uncleared,  \* the orders whose last deletion of all offers failed or was cut short
    failures    \* the requests that failed and the apps killed so far

database == <<status, offers, made, posting, withdrawals, purges>>
queue    == <<listeners, told, array, blocks>>
history  == <<disputed, decided, late>>
failed   == <<lost, uncleared, failures>>
vars == <<database, queue, cards, history, failed>>

-----------------------------------------------------------------------------
Status   == {"waiting for offer", "have an offer", "assigned", "cancled"}
Placed   == {o \in Order : status[o] # "absent"}
OfferDoc == [id : OfferId, order : Order, courier : Courier]

\* The member's list of orders, the page that opens from it, and the current
\* orders of each courier: one Order object each.
Screen == {"list", "page"} \cup Courier

\* cause tells listeners of one order and screen apart: the offer whose card
\* was tapped, or none when the list opens the offers of an order.
Listener == [at : Screen, order : Order, cause : OfferId \cup {"none"}, counts : BOOLEAN]

OffersOn(o)    == {f \in offers : f.order = o}
OffersBy(c, o) == {f \in OffersOn(o) : f.courier = c}

\* The listener has a snapshot to come: its first one, or a change.
Behind(l) == l \in DOMAIN told => told[l] # OffersOn(l.order)

\* addSnapshotListener.  A card is tapped and an order's offers are opened once
\* each, and MaxListeners bounds them all.
Attach(l) ==
    /\ l \notin listeners
    /\ Cardinality(listeners) < MaxListeners
    /\ listeners' = listeners \cup {l}
    /\ UNCHANGED <<told, array, blocks>>

-----------------------------------------------------------------------------
(* Placing an order and making an offer.                                   *)

\* addOrder: a new document with the first status.
AddOrder(o) ==
    /\ o \notin Placed
    /\ status' = [status EXCEPT ![o] = "waiting for offer"]
    /\ UNCHANGED <<offers, made, posting, withdrawals, purges, queue, cards, history, failed>>

NewOffer(c, o) ==
    \E id \in OfferId \ {f.id : f \in made \cup posting} :
       posting' = posting \cup {[id |-> id, order |-> o, courier |-> c]}

\* Mutant: the status is left to the member's device.
AddOfferQuietly(c, o) ==
    /\ o \in Placed
    /\ NewOffer(c, o)
    /\ UNCHANGED <<status, offers, made, withdrawals, purges, queue, cards, history, failed>>

\* addOffer writes the status; cards of the couriers' board may be stale.
AddOffer(c, o) ==
    /\ o \in Placed
    /\ NewOffer(c, o)
    /\ status' = [status EXCEPT ![o] = "have an offer"]
    /\ UNCHANGED <<offers, made, withdrawals, purges, queue, cards, history, failed>>

\* Its callback adds the document.
PostOffer(f) ==
    /\ f \in posting
    /\ posting' = posting \ {f}
    /\ offers' = offers \cup {f}
    /\ made' = made \cup {f}
    /\ late' = IF f.order \in decided THEN late \cup {f} ELSE late
    /\ UNCHANGED <<status, withdrawals, purges, queue, cards, disputed, decided, failed>>

-----------------------------------------------------------------------------
(* Listing offers: getOffers.                                              *)

\* "Delivery offers" on an order that says "have an offer".
OpenOffers(o) ==
    /\ \E f \in made \cup posting : f.order = o
    /\ Attach([at |-> "list", order |-> o, cause |-> "none", counts |-> FALSE])
    /\ UNCHANGED <<database, cards, history, failed>>

\* 0.2 seconds later the page appears with what the list's array holds by then.
OpenPage ==
    /\ \E l \in listeners : l.at = "list"
    /\ array' = [array EXCEPT !["page"] = array["list"]]
    /\ cards' = array["list"]
    /\ UNCHANGED <<database, listeners, told, blocks, history, failed>>

\* getCards: at once, after half a second, and after each getOffers.
GetCards ==
    /\ cards # array["page"]
    /\ cards' = array["page"]
    /\ UNCHANGED <<database, queue, history, failed>>

\* Mutant: the array is not emptied before the added offers are appended.
SnapshotAppends(l) ==
    LET now == OffersOn(l.order)
        before == IF l \in DOMAIN told THEN told[l] ELSE {} IN
    /\ l \in listeners
    /\ Behind(l)
    /\ told' = [k \in DOMAIN told \cup {l} |-> IF k = l THEN now ELSE told[k]]
    /\ array' = [array EXCEPT ![l.at] = @ \cup (now \ before)]
    /\ blocks' = IF l.counts THEN [blocks EXCEPT ![l.at] = Append(@, l.order)] ELSE blocks
    /\ UNCHANGED <<database, listeners, cards, history, failed>>

\* A snapshot: the array is emptied and gets the offers ADDED since the
\* listener's previous snapshot; cancelOffer's listener queues its block.
Snapshot(l) ==
    LET now == OffersOn(l.order)
        before == IF l \in DOMAIN told THEN told[l] ELSE {} IN
    /\ l \in listeners
    /\ Behind(l)
    /\ told' = [k \in DOMAIN told \cup {l} |-> IF k = l THEN now ELSE told[k]]
    /\ array' = [array EXCEPT ![l.at] = now \ before]
    /\ blocks' = IF l.counts THEN [blocks EXCEPT ![l.at] = Append(@, l.order)] ELSE blocks
    /\ UNCHANGED <<database, listeners, cards, history, failed>>

-----------------------------------------------------------------------------
(* Cancelling an offer: cancelOffer.                                       *)

CancelOffer(s, f) ==
    /\ Attach([at |-> s, order |-> f.order, cause |-> f.id, counts |-> TRUE])
    /\ withdrawals' = withdrawals \cup {<<s, f.courier, f.order>>}
    /\ disputed' = disputed \cup {f.order}
    /\ UNCHANGED <<status, offers, made, posting, purges, cards, decided, late,
                   failed>>

\* "Decline" on a card of the page.
Decline(f) ==
    /\ f \in cards
    /\ CancelOffer("page", f)

\* Half a second later the page lists the order's offers again.
ListAgain(l) ==
    /\ l \in listeners
    /\ l.at = "page" /\ l.counts
    /\ Attach([l EXCEPT !.counts = FALSE])
    /\ UNCHANGED <<database, cards, history, failed>>

\* "Cancel Offer" on a card of the courier's current orders.
CancelOwnOffer(f) ==
    /\ f \in made
    /\ CancelOffer(f.courier, f)

\* The block of cancelOffer's listener.
Count(s) ==
    /\ blocks[s] # <<>>
    /\ blocks' = [blocks EXCEPT ![s] = Tail(@)]
    /\ status' = IF Cardinality(array[s]) = 1
                 THEN [status EXCEPT ![Head(blocks[s])] = "waiting for offer"]
                 ELSE status
    /\ UNCHANGED <<offers, made, posting, withdrawals, purges, listeners, told, array,
                   cards, history, failed>>

\* The answer of its query: the courier's offers on the order are deleted.
Withdraw(s, c, o) ==
    /\ <<s, c, o>> \in withdrawals
    /\ withdrawals' = withdrawals \ {<<s, c, o>>}
    /\ offers' = offers \ OffersBy(c, o)
    /\ UNCHANGED <<status, made, posting, purges, queue, cards, history, failed>>

-----------------------------------------------------------------------------
(* Deciding an order: acceptOffer, cancelOrder.                            *)

Decide(o, s) ==
    /\ status' = [status EXCEPT ![o] = s]
    /\ purges' = purges \cup {o}
    /\ decided' = decided \cup {o}
    /\ UNCHANGED <<offers, made, posting, withdrawals, queue, cards, disputed, late, failed>>

\* "Accept" on a card of the page.  The page closes 0.3 seconds later and can
\* be opened again at once, so no tap is excluded.
AcceptOffer(f) ==
    /\ f \in cards
    /\ Decide(f.order, "assigned")

CancelOrder(o) ==
    /\ o \in Placed
    /\ Decide(o, "cancled")

\* Mutant: only the offers on the page are deleted.
PurgeListed(o) ==
    /\ o \in purges
    /\ purges' = purges \ {o}
    /\ offers' = offers \ {f \in array["list"] : f.order = o}
    /\ uncleared' = uncleared \ {o}
    /\ UNCHANGED <<status, made, posting, withdrawals, queue, cards, history, lost, failures>>

\* The answer of their query: the order's offers are deleted.
PurgeOffers(o) ==
    /\ o \in purges
    /\ purges' = purges \ {o}
    /\ offers' = offers \ OffersOn(o)
    /\ uncleared' = uncleared \ {o}
    /\ UNCHANGED <<status, made, posting, withdrawals, queue, cards, history, lost, failures>>

-----------------------------------------------------------------------------
(* Requests that fail, and the app that is killed.                         *)

\* The device a screen is on: the member's list and page are on one phone.
DeviceOf(s) == IF s \in Courier THEN s ELSE "member"

Fail == failures < MaxFailures /\ failures' = failures + 1

\* Adding the document ends in the error branch, which only logs.
PostFails(f) ==
    /\ f \in posting
    /\ Fail
    /\ posting' = posting \ {f}
    /\ lost' = lost \cup {f.order}
    /\ UNCHANGED <<status, offers, made, withdrawals, purges, queue, cards, history, uncleared>>

\* cancelOffer's query fails, or the deletion of some of the offers it found.
WithdrawFails(s, c, o) ==
    /\ <<s, c, o>> \in withdrawals
    /\ Fail
    /\ withdrawals' = withdrawals \ {<<s, c, o>>}
    /\ \E S \in SUBSET OffersBy(c, o) : offers' = offers \ S
    /\ UNCHANGED <<status, made, posting, purges, queue, cards, history, lost, uncleared>>

\* So may acceptOffer's or cancelOrder's.
PurgeFails(o) ==
    /\ o \in purges
    /\ Fail
    /\ purges' = purges \ {o}
    /\ \E S \in SUBSET OffersOn(o) : offers' = offers \ S
    /\ uncleared' = uncleared \cup {o}
    /\ UNCHANGED <<status, made, posting, withdrawals, queue, cards, history, lost>>

\* The app of device d is killed: its calls await no answer, its listeners,
\* arrays, blocks and cards are gone.  Decisions are the member's device's.
Kill(d) ==
    /\ Fail
    /\ posting' = {f \in posting : f.courier # d}
    /\ lost' = lost \cup {f.order : f \in posting \ posting'}
    /\ withdrawals' = {w \in withdrawals : DeviceOf(w[1]) # d}
    /\ purges' = IF d = "member" THEN {} ELSE purges
    /\ uncleared' = uncleared \cup (purges \ purges')
    /\ listeners' = {l \in listeners : DeviceOf(l.at) # d}
    /\ told' = [l \in DOMAIN told \cap listeners' |-> told[l]]
    /\ array' = [s \in Screen |-> IF DeviceOf(s) = d THEN {} ELSE array[s]]
    /\ blocks' = [s \in Screen |-> IF DeviceOf(s) = d THEN <<>> ELSE blocks[s]]
    /\ cards' = IF d = "member" THEN {} ELSE cards
    /\ UNCHANGED <<status, offers, made, history>>

-----------------------------------------------------------------------------
Init ==
    /\ status = [o \in Order |-> "absent"]
    /\ offers = {} /\ made = {} /\ posting = {} /\ withdrawals = {} /\ purges = {}
    /\ listeners = {}
    /\ told = [l \in {} |-> {}]
    /\ array = [s \in Screen |-> {}]
    /\ blocks = [s \in Screen |-> <<>>]
    /\ cards = {}
    /\ disputed = {} /\ decided = {} /\ late = {}
    /\ lost = {} /\ uncleared = {} /\ failures = 0

Tap ==
    \/ \E c \in Courier, o \in Order : AddOffer(c, o)
    \/ \E o \in Order : AddOrder(o) \/ OpenOffers(o) \/ CancelOrder(o)
    \/ OpenPage
    \/ \E f \in made : Decline(f) \/ CancelOwnOffer(f)

Award == \E f \in made : AcceptOffer(f)

Callback ==
    \/ \E f \in posting : PostOffer(f)
    \/ \E l \in listeners : Snapshot(l) \/ ListAgain(l)
    \/ \E s \in Screen : Count(s)
    \/ \E s \in Screen, c \in Courier, o \in Order : Withdraw(s, c, o)
    \/ \E o \in Order : PurgeOffers(o)
    \/ GetCards

Failure ==
    \/ \E f \in posting : PostFails(f)
    \/ \E s \in Screen, c \in Courier, o \in Order : WithdrawFails(s, c, o)
    \/ \E o \in Order : PurgeFails(o)
    \/ \E d \in {"member"} \cup Courier : Kill(d)

Next == Tap \/ Award \/ Callback \/ Failure

Spec == Init /\ [][Next]_vars

-----------------------------------------------------------------------------
TypeOK ==
    /\ status \in [Order -> Status \cup {"absent"}]
    /\ made \subseteq OfferDoc /\ offers \subseteq made /\ posting \subseteq OfferDoc
    /\ withdrawals \subseteq (Screen \ {"list"}) \X Courier \X Order
    /\ purges \subseteq Order
    /\ listeners \subseteq Listener
    /\ DOMAIN told \subseteq listeners /\ \A l \in DOMAIN told : told[l] \subseteq made
    /\ array \in [Screen -> SUBSET made]
    /\ blocks \in [Screen -> Seq(Order)]
    /\ cards \subseteq made
    /\ disputed \subseteq Order /\ decided \subseteq Order /\ late \subseteq made
    /\ lost \subseteq Order /\ uncleared \subseteq Order /\ failures \in Nat

\* Every call has had its answers and every listener its snapshots.
Settled ==
    /\ posting = {} /\ withdrawals = {} /\ purges = {}
    /\ \A l \in listeners : ~Behind(l)
    /\ \A s \in Screen : blocks[s] = <<>>

\* The status tells whether the order has offers, except where somebody
\* cancelled an offer on that very order, had decided it, or announced an offer
\* that was then never posted.  Only cancelling an offer, never a failure or a
\* killed app, makes the board say "waiting for offer" of an order with one;
\* and "have an offer" of one without has one of the three causes (addOffer,
\* cancelOffer).
StatusExplained ==
    \A o \in Order :
       /\ status[o] = "waiting for offer" /\ OffersOn(o) # {} => o \in disputed
       /\ Settled /\ status[o] = "have an offer" /\ OffersOn(o) = {} =>
             o \in disputed \cup decided \cup lost

\* The only offers left on an accepted or cancelled order, once its deletion
\* has gone through, are those whose document came after the decision: only a
\* deletion that failed, or was cut short by a killed app, leaves others
\* (acceptOffer and cancelOrder, against addOffer's callback).
LeftoversAreLate ==
    \A o \in decided \ (purges \cup uncleared) : OffersOn(o) \subseteq late

\* A screen whose listeners have had their snapshots lists no deleted offer,
\* whichever of its listeners filled the array last.  The page is excepted: it
\* starts from a copy of another screen's array (getOffers).
NoDeletedOfferListed ==
    \A s \in Screen \ {"page"} :
       (\A l \in listeners : l.at = s => ~Behind(l)) => array[s] \subseteq offers
=============================================================================
