---------------------------- MODULE CourierPhone ----------------------------
(***************************************************************************)
(* The orders and offers in Firestore and what one phone knows of them.    *)
(*                                                                         *)
(* A phone keeps one cache.  All of its queries are answered from it, so    *)
(* the answers agree with each other; the cache follows the database in    *)
(* jumps, and at once for the phone's own writes.  A listener is told the  *)
(* whole answer and what changed in it since it was last told.  Callbacks  *)
(* wait in the main queue in order: nothing else reaches the phone before   *)
(* the changes that are due have been reported.                            *)
(*                                                                         *)
(* CourierBoard and CourierOrders add the screens that attach listeners.   *)
(***************************************************************************)
EXTENDS Naturals, FiniteSets

CONSTANTS
    Order,      \* the orders, all placed from the start
    Courier,    \* the couriers, any of whom may sign in on the phone
    first,      \* the courier signed in on the phone at first
    Price,      \* the prices they may ask
    none,       \* no courier, no price
    MaxActs     \* bounds the writes and sign-ins of a run

ASSUME PhoneAssumption ==
    none \notin Order \cup Courier \cup Price /\ first \in Courier /\ MaxActs \in Nat

VARIABLES
    db,         \* the collections Order and Offers
    acts,       \* the writes and sign-ins so far
    posting,    \* addOffer calls between the status write and its callback
    withdrawals, \* cancelOffer calls whose deletion is to come: by phone, courier, order
    purges,     \* the orders whose offers were asked for in order to be deleted
    user,       \* the courier signed in on the phone
    cache,      \* the database as the phone knows it
    told,       \* told[q]: the answer the listeners of query q were last told
    starting,   \* the queries with a new listener that was told nothing yet
    disputed,   \* the orders on which somebody ever asked to cancel an offer
    regressed   \* the orders ever given an offer after they were awarded

server == <<db, acts, posting, withdrawals, purges, disputed, regressed>>
phone  == <<user, cache, told, starting>>
phoneVars == <<server, phone>>

-----------------------------------------------------------------------------
Status == {"waiting for offer", "have an offer", "assigned", "completed", "cancled"}

\* The fields of an order these screens read: its status, and the courier and
\* price that acceptOffer adds.
OrderDoc == [status : Status, courier : Courier \cup {none}, price : Price \cup {none}]
OfferDoc == [order : Order, courier : Courier, price : Price]
Database == [order : [Order -> OrderDoc], offers : SUBSET OfferDoc]

\* Queries: the orders of one status ("waiting" and "offered"), the offers of
\* a courier ("mine"), the orders awarded to a courier, for his current orders
\* ("awarded") and for his past ones ("past").
Query == [on : {"waiting", "offered"}, of : {none}]
         \cup [on : {"mine", "awarded", "past"}, of : Courier]

Waiting    == [on |-> "waiting", of |-> none]
Offered    == [on |-> "offered", of |-> none]
Mine(c)    == [on |-> "mine",    of |-> c]
Awarded(c) == [on |-> "awarded", of |-> c]
Past(c)    == [on |-> "past",    of |-> c]

\* An order, by its document r, is in the answer of a query for orders.
Matches(q, r) ==
    \/ q.on = "waiting" /\ r.status = "waiting for offer"
    \/ q.on = "offered" /\ r.status = "have an offer"
    \/ q.on \in {"awarded", "past"} /\ r.courier = q.of

\* The answer of a query: its documents with their contents.
Answer(q, d) ==
    IF q.on = "mine" THEN [f \in {f \in d.offers : f.courier = q.of} |-> f]
                     ELSE [o \in {o \in Order : Matches(q, d.order[o])} |-> d.order[o]]

\* The documents whose change a listener is told as "modified".
Modified(before, now) ==
    {k \in DOMAIN before \cap DOMAIN now : before[k] # now[k]}

\* A change waits to be reported to the listeners of q.
Due(q) == q \in DOMAIN told /\ told[q] # Answer(q, cache)

AllReported == \A q \in DOMAIN told : ~Due(q)

\* addSnapshotListener.
Listen(Q) == starting' = starting \cup Q

\* The listeners of q are told the present answer, all of them a change or the
\* new ones their first; the callback attaches listeners for the queries Q.
Tell(q, Q) ==
    /\ Due(q) \/ q \in starting
    /\ told' = [k \in DOMAIN told \cup {q} |->
                   IF k = q THEN Answer(q, cache) ELSE told[k]]
    /\ starting' = Q \cup IF Due(q) THEN starting ELSE starting \ {q}
    /\ UNCHANGED <<server, user, cache>>

\* What is modified for the listeners of q; to new listeners all is added.
Changed(q) == IF Due(q) THEN Modified(told[q], Answer(q, cache)) ELSE {}

-----------------------------------------------------------------------------
(* Writes, as functions from a database to the next.                       *)

OffersOn(d, o) == {f \in d.offers : f.order = o}
SetStatus(d, o, s) == [d EXCEPT !.order[o].status = s]
Award(d, f) == [d EXCEPT !.order[f.order] =
                   [status |-> "assigned", courier |-> f.courier, price |-> f.price]]
AddDoc(d, f) == [d EXCEPT !.offers = @ \cup {f}]
Delete(d, F) == [d EXCEPT !.offers = @ \ F]

\* A write from this phone or from another: this phone knows its own at once.
Write(here, W(_)) ==
    /\ acts < MaxActs
    /\ acts' = acts + 1
    /\ db' = W(db)
    /\ here => AllReported
    /\ cache' = IF here THEN W(cache) ELSE cache
    /\ UNCHANGED <<user, told, starting>>

\* addOffer writes the status whatever the order has become.
AddOffer(here, c, o, p) ==
    /\ posting' = posting \cup {<<here, [order |-> o, courier |-> c, price |-> p]>>}
    /\ Write(here, LAMBDA d : SetStatus(d, o, "have an offer"))
    /\ regressed' = IF db.order[o].courier # none THEN regressed \cup {o} ELSE regressed
    /\ UNCHANGED <<withdrawals, purges, disputed>>

\* Its callback, on the same phone, adds the document.
PostOffer(here, f) ==
    /\ <<here, f>> \in posting
    /\ posting' = posting \ {<<here, f>>}
    /\ Write(here, LAMBDA d : AddDoc(d, f))
    /\ UNCHANGED <<withdrawals, purges, disputed, regressed>>

\* cancelOffer for courier c, by himself or, declined, by the member, from a
\* card that may be late: the listener that counts is attached, and his offers
\* on the order are asked for.
Withdraw(here, c, o) ==
    /\ <<here, c, o>> \notin withdrawals
    /\ \E f \in OffersOn(db, o) \cup OffersOn(cache, o) : f.courier = c
    /\ here => AllReported
    /\ withdrawals' = withdrawals \cup {<<here, c, o>>}
    /\ disputed' = disputed \cup {o}
    /\ UNCHANGED <<db, acts, posting, purges, regressed, phone>>

\* The offers that were found are deleted; a query or a deletion that fails is
\* one that never comes.
DeleteOffers(here, c, o) ==
    LET F == {f \in OffersOn(db, o) : f.courier = c} IN
    /\ <<here, c, o>> \in withdrawals
    /\ withdrawals' = withdrawals \ {<<here, c, o>>}
    /\ Write(here, LAMBDA d : Delete(d, F))
    /\ UNCHANGED <<posting, purges, disputed, regressed>>

\* The block of cancelOffer's listener, which counts the offers of an array
\* that may be of before or after the deletion (OfferBoard).
Reopen(here, o) ==
    /\ o \in disputed
    /\ Write(here, LAMBDA d : SetStatus(d, o, "waiting for offer"))
    /\ UNCHANGED <<posting, withdrawals, purges, disputed, regressed>>

\* acceptOffer by the member; the offers go later.
AcceptOffer(f) ==
    /\ f \in db.offers
    /\ purges' = purges \cup {f.order}
    /\ Write(FALSE, LAMBDA d : Award(d, f))
    /\ UNCHANGED <<posting, withdrawals, disputed, regressed>>

\* cancelOrder by the member or the courier, also from a late copy.
CancelOrder(here, o) ==
    /\ purges' = purges \cup {o}
    /\ Write(here, LAMBDA d : SetStatus(d, o, "cancled"))
    /\ UNCHANGED <<posting, withdrawals, disputed, regressed>>

PurgeOffers(here, o) ==
    /\ o \in purges
    /\ purges' = purges \ {o}
    /\ Write(here, LAMBDA d : Delete(d, OffersOn(d, o)))
    /\ UNCHANGED <<posting, withdrawals, disputed, regressed>>

\* changeState, down to the last row.
Complete(here, o) ==
    /\ db.order[o].status = "assigned"
    /\ Write(here, LAMBDA d : SetStatus(d, o, "completed"))
    /\ UNCHANGED <<posting, withdrawals, purges, disputed, regressed>>

-----------------------------------------------------------------------------
\* The phone catches up with the database.
Sync ==
    /\ AllReported
    /\ cache # db
    /\ cache' = db
    /\ UNCHANGED <<server, user, told, starting>>

\* Logout and login of another courier: no listener is removed.
SignIn(c) ==
    /\ c # user
    /\ acts < MaxActs
    /\ acts' = acts + 1
    /\ user' = c
    /\ UNCHANGED <<db, posting, withdrawals, purges, disputed, regressed, cache, told, starting>>

\* What may have become of an order so far: nobody offered, one courier did,
\* or he was accepted.
Beginnings(o) ==
    [status : {"waiting for offer"}, courier : {none}, price : {none}, offers : {{}}]
    \cup [status : {"have an offer"}, courier : {none}, price : {none},
          offers : {{f} : f \in [order : {o}, courier : Courier, price : Price]}]
    \cup [status : {"assigned"}, courier : Courier, price : Price, offers : {{}}]

\* The phone starts on a database in which that happened, and knows it.
PhoneInit ==
    /\ \E b \in [Order -> UNION {Beginnings(o) : o \in Order}] :
          /\ \A o \in Order : b[o] \in Beginnings(o)
          /\ db = [order |-> [o \in Order |-> [status |-> b[o].status, courier |-> b[o].courier,
                                              price |-> b[o].price]],
                   offers |-> UNION {b[o].offers : o \in Order}]
    /\ acts = 0
    /\ posting = {} /\ withdrawals = {} /\ purges = {} /\ disputed = {} /\ regressed = {}
    /\ user = first
    /\ cache = db
    /\ told = [q \in {} |-> {}]
    /\ starting = {}

PhoneTypeOK ==
    /\ db \in Database /\ cache \in Database
    /\ acts \in 0..MaxActs
    /\ posting \subseteq BOOLEAN \X OfferDoc
    /\ withdrawals \subseteq BOOLEAN \X Courier \X Order
    /\ purges \subseteq Order /\ disputed \subseteq Order /\ regressed \subseteq Order
    /\ user \in Courier
    /\ DOMAIN told \subseteq Query
    /\ \A q \in DOMAIN told : DOMAIN told[q] \subseteq Order \cup OfferDoc
    /\ starting \subseteq Query

\* No query of another courier was ever attached on the phone.
Alone == \A q \in DOMAIN told \cup starting : q.of \in {none, user}
=============================================================================
