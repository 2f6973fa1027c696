------------------------ MODULE CourierScreens_proofs ------------------------
(***************************************************************************)
(* Proofs about the lists of orders on a courier's phone: his offers       *)
(* (CourierOrders), the orders awarded to him (AwardedOrders) and the open *)
(* ones (CourierBoard), for any orders, couriers, prices and number of     *)
(* writes.  First what all three need of CourierPhone.                     *)
(***************************************************************************)
EXTENDS CourierOrders, AwardedOrders, CourierBoard, TLAPS

-----------------------------------------------------------------------------
(* The phone.                                                              *)

\* Every write of CourierPhone, from this phone or another.
Writes ==
    \E here \in BOOLEAN :
       \/ \E c \in Courier, o \in Order, p \in Price : AddOffer(here, c, o, p)
       \/ \E f \in OfferDoc : PostOffer(here, f)
       \/ \E c \in Courier, o \in Order : Withdraw(here, c, o) \/ DeleteOffers(here, c, o)
       \/ \E f \in OfferDoc \cap db.offers : AcceptOffer(f)
       \/ \E o \in Order : \/ Reopen(here, o) \/ CancelOrder(here, o)
                           \/ PurgeOffers(here, o) \/ Complete(here, o)

\* The documents that a write of each kind leaves.
Edits(d, e) ==
    \/ \E o \in Order, s \in Status : e = SetStatus(d, o, s)
    \/ \E f \in OfferDoc : e = Award(d, f) \/ e = AddDoc(d, f)
    \/ \E F : e = Delete(d, F)

LEMMA EditsType ==
    ASSUME NEW d \in Database, NEW e, Edits(d, e)
    PROVE  e \in Database
<1>1. ASSUME NEW o \in Order, NEW s \in Status, e = SetStatus(d, o, s)
      PROVE  e \in Database
  <2>1. [d.order[o] EXCEPT !.status = s] \in OrderDoc
    BY DEF Database, OrderDoc
  <2>2. [d.order EXCEPT ![o] = [d.order[o] EXCEPT !.status = s]] \in [Order -> OrderDoc]
    BY <2>1 DEF Database
  <2>3. e = [d EXCEPT !.order = [d.order EXCEPT ![o] = [d.order[o] EXCEPT !.status = s]]]
    BY <1>1 DEF SetStatus, Database
  <2> QED
    BY <2>2, <2>3 DEF Database
<1>2. ASSUME NEW f \in OfferDoc, e = Award(d, f)
      PROVE  e \in Database
  <2> DEFINE r == [status |-> "assigned", courier |-> f.courier, price |-> f.price]
  <2>1. r \in OrderDoc /\ f.order \in Order
    BY DEF OfferDoc, OrderDoc, Status
  <2>2. [d.order EXCEPT ![f.order] = r] \in [Order -> OrderDoc]
    BY <2>1 DEF Database
  <2>3. e = [d EXCEPT !.order = [d.order EXCEPT ![f.order] = r]]
    BY <1>2 DEF Award, Database
  <2> QED
    BY <2>2, <2>3 DEF Database
<1>3. ASSUME NEW f \in OfferDoc, e = AddDoc(d, f)
      PROVE  e \in Database
  BY <1>3 DEF AddDoc, Database
<1>4. ASSUME NEW F, e = Delete(d, F)
      PROVE  e \in Database
  BY <1>4 DEF Delete, Database
<1> QED
  BY <1>1, <1>2, <1>3, <1>4 DEF Edits

\* A write edits the database, and the cache alike if it is this phone's own;
\* what the phone's listeners were told stays.
LEMMA Writing ==
    ASSUME PhoneTypeOK, Writes
    PROVE  /\ UNCHANGED <<user, told, starting>>
           /\ acts' \in 0 .. MaxActs
           /\ Edits(db, db')
           /\ cache' = cache \/ Edits(cache, cache')
           /\ posting' \subseteq BOOLEAN \X OfferDoc
           /\ withdrawals' \subseteq BOOLEAN \X Courier \X Order
           /\ purges' \subseteq Order /\ disputed' \subseteq Order /\ regressed' \subseteq Order
<1> DEFINE Goal == /\ UNCHANGED <<user, told, starting>>
                   /\ acts' \in 0 .. MaxActs
                   /\ Edits(db, db')
                   /\ cache' = cache \/ Edits(cache, cache')
                   /\ posting' \subseteq BOOLEAN \X OfferDoc
                   /\ withdrawals' \subseteq BOOLEAN \X Courier \X Order
                   /\ purges' \subseteq Order /\ disputed' \subseteq Order
                   /\ regressed' \subseteq Order
<1>0. ASSUME acts < MaxActs, acts' = acts + 1
      PROVE  acts' \in 0 .. MaxActs
  BY <1>0, PhoneAssumption DEF PhoneTypeOK
<1>1. PICK here \in BOOLEAN :
         \/ \E c \in Courier, o \in Order, p \in Price : AddOffer(here, c, o, p)
         \/ \E f \in OfferDoc : PostOffer(here, f)
         \/ \E c \in Courier, o \in Order : Withdraw(here, c, o) \/ DeleteOffers(here, c, o)
         \/ \E f \in OfferDoc \cap db.offers : AcceptOffer(f)
         \/ \E o \in Order : \/ Reopen(here, o) \/ CancelOrder(here, o)
                             \/ PurgeOffers(here, o) \/ Complete(here, o)
  BY DEF Writes
<1>2. ASSUME NEW c \in Courier, NEW o \in Order, NEW p \in Price, AddOffer(here, c, o, p)
      PROVE  Goal
  <2> DEFINE f == [order |-> o, courier |-> c, price |-> p]
  <2>1. f \in OfferDoc
    BY DEF OfferDoc
  <2>2. posting' = posting \cup {<<here, f>>}
    BY <1>2 DEF AddOffer
  <2> HIDE DEF f
  <2>5. posting' \subseteq BOOLEAN \X OfferDoc
    BY <2>1, <2>2 DEF PhoneTypeOK
  <2>3. \A d : Edits(d, SetStatus(d, o, "have an offer"))
    BY DEF Edits, Status
  <2>4. /\ acts < MaxActs /\ acts' = acts + 1
        /\ db' = SetStatus(db, o, "have an offer")
        /\ cache' = IF here THEN SetStatus(cache, o, "have an offer") ELSE cache
        /\ regressed' = regressed \cup {o} \/ regressed' = regressed
        /\ UNCHANGED <<user, told, starting, withdrawals, purges, disputed>>
    BY <1>2 DEF AddOffer, Write
  <2> QED
    BY <1>0, <2>3, <2>4, <2>5 DEF PhoneTypeOK
<1>3. ASSUME NEW f \in OfferDoc, PostOffer(here, f)
      PROVE  Goal
  <2>1. \A d : Edits(d, AddDoc(d, f))
    BY DEF Edits
  <2> QED
    BY <1>0, <1>3, <2>1 DEF PostOffer, Write, PhoneTypeOK
<1>4. ASSUME NEW c \in Courier, NEW o \in Order, Withdraw(here, c, o)
      PROVE  Goal
  <2>1. db = Delete(db, {})
    BY DEF Delete, PhoneTypeOK, Database
  <2>2. Edits(db, db)
    BY <2>1 DEF Edits
  <2>3. /\ withdrawals' = withdrawals \cup {<<here, c, o>>} /\ disputed' = disputed \cup {o}
        /\ UNCHANGED <<db, acts, posting, purges, regressed, user, cache, told, starting>>
    BY <1>4 DEF Withdraw, phone
  <2>4. <<here, c, o>> \in BOOLEAN \X Courier \X Order
    OBVIOUS
  <2>5. withdrawals' \subseteq BOOLEAN \X Courier \X Order
    BY <2>3, <2>4 DEF PhoneTypeOK
  <2> QED
    BY <2>2, <2>3, <2>5 DEF PhoneTypeOK
<1>10. ASSUME NEW c \in Courier, NEW o \in Order, DeleteOffers(here, c, o)
       PROVE  Goal
  <2> DEFINE F == {f \in OffersOn(db, o) : f.courier = c}
  <2>1. \A d : Edits(d, Delete(d, F))
    BY DEF Edits
  <2>2. /\ acts < MaxActs /\ acts' = acts + 1
        /\ db' = Delete(db, F) /\ cache' = IF here THEN Delete(cache, F) ELSE cache
        /\ withdrawals' \subseteq withdrawals
        /\ UNCHANGED <<user, told, starting, posting, purges, disputed, regressed>>
    BY <1>10 DEF DeleteOffers, Write
  <2> HIDE DEF F
  <2>3. withdrawals' \subseteq BOOLEAN \X Courier \X Order
    BY <2>2 DEF PhoneTypeOK
  <2> QED
    BY <1>0, <2>1, <2>2, <2>3 DEF PhoneTypeOK
<1>5. ASSUME NEW f \in OfferDoc, AcceptOffer(f)
      PROVE  Goal
  <2>1. \A d : Edits(d, Award(d, f))
    BY DEF Edits
  <2>2. f.order \in Order
    BY DEF OfferDoc
  <2> QED
    BY <1>0, <1>5, <2>1, <2>2 DEF AcceptOffer, Write, PhoneTypeOK
<1>6. ASSUME NEW o \in Order, Reopen(here, o)
      PROVE  Goal
  <2>1. \A d : Edits(d, SetStatus(d, o, "waiting for offer"))
    BY DEF Edits, Status
  <2> QED
    BY <1>0, <1>6, <2>1 DEF Reopen, Write, PhoneTypeOK
<1>7. ASSUME NEW o \in Order, CancelOrder(here, o)
      PROVE  Goal
  <2>1. \A d : Edits(d, SetStatus(d, o, "cancled"))
    BY DEF Edits, Status
  <2> QED
    BY <1>0, <1>7, <2>1 DEF CancelOrder, Write, PhoneTypeOK
<1>8. ASSUME NEW o \in Order, PurgeOffers(here, o)
      PROVE  Goal
  <2>1. \A d : Edits(d, Delete(d, OffersOn(d, o)))
    BY DEF Edits
  <2> QED
    BY <1>0, <1>8, <2>1 DEF PurgeOffers, Write, PhoneTypeOK
<1>9. ASSUME NEW o \in Order, Complete(here, o)
      PROVE  Goal
  <2>1. \A d : Edits(d, SetStatus(d, o, "completed"))
    BY DEF Edits, Status
  <2> QED
    BY <1>0, <1>9, <2>1 DEF Complete, Write, PhoneTypeOK
<1> QED
  BY <1>1, <1>2, <1>3, <1>4, <1>5, <1>6, <1>7, <1>8, <1>9, <1>10

LEMMA WritesType == ASSUME PhoneTypeOK, Writes PROVE PhoneTypeOK'
<1>1. db \in Database /\ cache \in Database
  BY DEF PhoneTypeOK
<1>2. db' \in Database /\ cache' \in Database
  BY <1>1, Writing, EditsType
<1>3. /\ UNCHANGED <<user, told, starting>>
      /\ acts' \in 0 .. MaxActs
      /\ posting' \subseteq BOOLEAN \X OfferDoc
      /\ withdrawals' \subseteq BOOLEAN \X Courier \X Order
      /\ purges' \subseteq Order /\ disputed' \subseteq Order /\ regressed' \subseteq Order
  BY Writing
<1> QED
  BY <1>2, <1>3 DEF PhoneTypeOK

\* A query tells by its kind which documents it asks for.
LEMMA Kinds ==
    /\ \A q \in Query : /\ q.on = "waiting" => q = Waiting
                        /\ q.on = "offered" => q = Offered
                        /\ q.on = "mine" => q.of \in Courier /\ q = Mine(q.of)
                        /\ q.on = "awarded" => q.of \in Courier /\ q = Awarded(q.of)
                        /\ q.on = "past" => q.of \in Courier /\ q = Past(q.of)
    /\ Waiting \in Query /\ Waiting.on = "waiting" /\ Waiting.of = none
    /\ Offered \in Query /\ Offered.on = "offered" /\ Offered.of = none
    /\ \A c \in Courier :
          /\ Mine(c) \in Query /\ Mine(c).on = "mine" /\ Mine(c).of = c
          /\ Awarded(c) \in Query /\ Awarded(c).on = "awarded" /\ Awarded(c).of = c
          /\ Past(c) \in Query /\ Past(c).on = "past" /\ Past(c).of = c
<1>1. ASSUME NEW q \in Query
      PROVE  /\ q.on = "waiting" => q = Waiting
             /\ q.on = "offered" => q = Offered
             /\ q.on = "mine" => q.of \in Courier /\ q = Mine(q.of)
             /\ q.on = "awarded" => q.of \in Courier /\ q = Awarded(q.of)
             /\ q.on = "past" => q.of \in Courier /\ q = Past(q.of)
  <2>1. CASE q \in [on : {"waiting", "offered"}, of : {none}]
    BY <2>1 DEF Waiting, Offered
  <2>2. CASE q \in [on : {"mine", "awarded", "past"}, of : Courier]
    BY <2>2 DEF Mine, Awarded, Past
  <2> QED
    BY <2>1, <2>2 DEF Query
<1> QED
  BY <1>1 DEF Query, Waiting, Offered, Mine, Awarded, Past

LEMMA Answers ==
    ASSUME PhoneTypeOK, NEW q \in Query
    PROVE  /\ q.on = "mine" =>
                 DOMAIN Answer(q, cache) = {f \in cache.offers : f.courier = q.of}
           /\ q.on # "mine" =>
                 /\ DOMAIN Answer(q, cache) = {o \in Order : Matches(q, cache.order[o])}
                 /\ \A o \in DOMAIN Answer(q, cache) : Answer(q, cache)[o] = cache.order[o]
           /\ cache.offers \subseteq OfferDoc /\ cache.order \in [Order -> OrderDoc]
           /\ DOMAIN Answer(q, cache) \subseteq Order \cup OfferDoc
BY DEF Answer, Database, PhoneTypeOK

\* The orders with an offer.
LEMMA AnswersOffered ==
    ASSUME PhoneTypeOK
    PROVE  /\ DOMAIN Answer(Offered, cache) =
                 {o \in Order : cache.order[o].status = "have an offer"}
           /\ \A o \in DOMAIN Answer(Offered, cache) : Answer(Offered, cache)[o] = cache.order[o]
<1>1. Offered \in Query /\ Offered.on = "offered"
  BY Kinds
<1>2. \A r : Matches(Offered, r) <=> r.status = "have an offer"
  BY <1>1 DEF Matches
<1> QED
  BY <1>1, <1>2, Answers

\* Listeners that are told change nothing but what these very listeners know.
LEMMA Telling ==
    ASSUME PhoneTypeOK, NEW q \in DOMAIN told \cup starting, NEW Q \in SUBSET Query, Tell(q, Q)
    PROVE  /\ PhoneTypeOK'
           /\ DOMAIN told' = DOMAIN told \cup {q}
           /\ told'[q] = Answer(q, cache)
           /\ \A k \in DOMAIN told : k # q => told'[k] = told[k]
           /\ DOMAIN told' \cup starting' = DOMAIN told \cup starting \cup Q
           /\ starting' \subseteq starting \cup Q /\ Q \subseteq starting'
           /\ \A k \in starting : k # q => k \in starting'
           /\ UNCHANGED <<server, user, cache>>
<1>1. /\ told' = [k \in DOMAIN told \cup {q} |-> IF k = q THEN Answer(q, cache) ELSE told[k]]
      /\ starting' = Q \cup IF Due(q) THEN starting ELSE starting \ {q}
      /\ UNCHANGED <<server, user, cache>>
  BY DEF Tell
<1>2. Due(q) => q \in DOMAIN told
  BY DEF Due
<1>3. /\ DOMAIN told' = DOMAIN told \cup {q} /\ told'[q] = Answer(q, cache)
      /\ \A k \in DOMAIN told : k # q => told'[k] = told[k]
  BY <1>1
<1>4. /\ DOMAIN told' \cup starting' = DOMAIN told \cup starting \cup Q
      /\ starting' \subseteq starting \cup Q /\ Q \subseteq starting'
      /\ \A k \in starting : k # q => k \in starting'
  <2>1. CASE Due(q)
    BY <1>1, <1>2, <1>3, <2>1
  <2>2. CASE ~Due(q)
    BY <1>1, <1>3, <2>2
  <2> QED
    BY <2>1, <2>2
<1>5. PhoneTypeOK'
  <2>1. q \in Query /\ DOMAIN told' \subseteq Query /\ starting' \subseteq Query
    BY <1>3, <1>4 DEF PhoneTypeOK
  <2>2. DOMAIN told'[q] \subseteq Order \cup OfferDoc
    BY <1>3, <2>1, Answers
  <2>3. \A k \in DOMAIN told' : DOMAIN told'[k] \subseteq Order \cup OfferDoc
    BY <1>3, <2>2 DEF PhoneTypeOK
  <2> QED
    BY <1>1, <2>1, <2>3 DEF PhoneTypeOK, server
<1> QED
  BY <1>1, <1>3, <1>4, <1>5

\* A page that appears attaches listeners for some queries.
LEMMA Listening ==
    ASSUME PhoneTypeOK, NEW Q \in SUBSET Query, Listen(Q),
           UNCHANGED <<server, user, cache, told>>
    PROVE  PhoneTypeOK' /\ starting' = starting \cup Q
<1>1. starting' = starting \cup Q
  BY DEF Listen
<1> QED
  BY <1>1 DEF PhoneTypeOK, server

LEMMA CatchingUp ==
    ASSUME PhoneTypeOK, Sync
    PROVE  PhoneTypeOK' /\ cache' = db /\ UNCHANGED <<server, user, told, starting>>
BY DEF Sync, PhoneTypeOK, server

LEMMA SigningIn ==
    ASSUME PhoneTypeOK, NEW c \in Courier, SignIn(c)
    PROVE  PhoneTypeOK' /\ UNCHANGED <<db, cache, told, starting, posting, disputed, regressed>>
<1>1. acts' \in 0 .. MaxActs
  BY PhoneAssumption DEF SignIn, PhoneTypeOK
<1>2. /\ user' = c
      /\ UNCHANGED <<db, posting, withdrawals, purges, disputed, regressed, cache, told, starting>>
  BY DEF SignIn
<1> QED
  BY <1>1, <1>2 DEF PhoneTypeOK

LEMMA Idling ==
    ASSUME PhoneTypeOK, UNCHANGED phoneVars
    PROVE  PhoneTypeOK'
BY DEF PhoneTypeOK, phoneVars, phone, server

\* What became of an order before the phone starts.
LEMMA Beginning ==
    ASSUME NEW o \in Order, NEW r \in Beginnings(o)
    PROVE  /\ r.status \in Status
           /\ r.courier \in Courier \cup {none} /\ r.price \in Price \cup {none}
           /\ r.courier = none => r.price = none
           /\ r.status = "have an offer" => r.courier = none
           /\ \A f \in r.offers : /\ f \in OfferDoc /\ f.order = o
                                  /\ r.status = "have an offer"
<1> DEFINE S == {{f} : f \in [order : {o}, courier : Courier, price : Price]}
<1>1. ASSUME NEW F \in S, NEW f \in F
      PROVE  f \in OfferDoc /\ f.order = o
  BY DEF OfferDoc
<1> DEFINE New  == [status : {"waiting for offer"}, courier : {none}, price : {none},
                    offers : {{}}]
           Bid  == [status : {"have an offer"}, courier : {none}, price : {none}, offers : S]
           Given == [status : {"assigned"}, courier : Courier, price : Price, offers : {{}}]
<1>2. Beginnings(o) = New \cup Bid \cup Given
  BY DEF Beginnings
<1> HIDE DEF S
<1>3. CASE r \in New
  BY <1>3 DEF Status
<1>4. CASE r \in Bid
  BY <1>1, <1>4 DEF Status
<1>5. CASE r \in Given
  BY <1>5, PhoneAssumption DEF Status
<1> HIDE DEF New, Bid, Given
<1> QED
  BY <1>2, <1>3, <1>4, <1>5

\* What a phone starts with: an order with an offer has not been awarded, an
\* order without courier has no price, and offers are on orders that say so.
LEMMA Starting ==
    ASSUME PhoneInit
    PROVE  /\ PhoneTypeOK
           /\ cache = db
           /\ DOMAIN told = {} /\ starting = {} /\ posting = {} /\ user = first
           /\ \A o \in Order :
                 /\ db.order[o].courier = none => db.order[o].price = none
                 /\ db.order[o].status = "have an offer" => db.order[o].courier = none
           /\ \A f \in db.offers : db.order[f.order].status = "have an offer"
<1>1. PICK b \in [Order -> UNION {Beginnings(o) : o \in Order}] :
         /\ \A o \in Order : b[o] \in Beginnings(o)
         /\ db = [order |-> [o \in Order |-> [status |-> b[o].status, courier |-> b[o].courier,
                                              price |-> b[o].price]],
                  offers |-> UNION {b[o].offers : o \in Order}]
  BY DEF PhoneInit
<1>2. ASSUME NEW o \in Order
      PROVE  /\ b[o].status \in Status
             /\ b[o].courier \in Courier \cup {none} /\ b[o].price \in Price \cup {none}
             /\ b[o].courier = none => b[o].price = none
             /\ b[o].status = "have an offer" => b[o].courier = none
             /\ \A f \in b[o].offers : /\ f \in OfferDoc /\ f.order = o
                                       /\ b[o].status = "have an offer"
  BY <1>1, Beginning
<1>3. ASSUME NEW o \in Order
      PROVE  /\ db.order[o].status = b[o].status /\ db.order[o].courier = b[o].courier
             /\ db.order[o].price = b[o].price
  <2>1. db.order = [p \in Order |-> [status |-> b[p].status, courier |-> b[p].courier,
                                     price |-> b[p].price]]
    BY <1>1
  <2>2. db.order[o] = [status |-> b[o].status, courier |-> b[o].courier, price |-> b[o].price]
    BY <2>1
  <2> QED
    BY <2>2
<1>4. ASSUME NEW f \in db.offers
      PROVE  \E o \in Order : f \in b[o].offers
  BY <1>1
<1>5. db \in Database
  <2>1. \A o \in Order : [status |-> b[o].status, courier |-> b[o].courier,
                          price |-> b[o].price] \in OrderDoc
    BY <1>2 DEF OrderDoc
  <2>2. db.offers \subseteq OfferDoc
    BY <1>2, <1>4
  <2> QED
    BY <1>1, <2>1, <2>2 DEF Database
<1>6. ASSUME NEW f \in db.offers
      PROVE  db.order[f.order].status = "have an offer"
  <2>1. PICK o \in Order : f \in b[o].offers
    BY <1>4
  <2>2. f.order = o /\ b[o].status = "have an offer"
    BY <1>2, <2>1
  <2> QED
    BY <1>3, <2>2
<1>7. \A o \in Order : /\ db.order[o].courier = none => db.order[o].price = none
                       /\ db.order[o].status = "have an offer" => db.order[o].courier = none
  BY <1>2, <1>3
<1>8. /\ acts = 0 /\ posting = {} /\ withdrawals = {} /\ purges = {}
      /\ disputed = {} /\ regressed = {}
      /\ user = first /\ cache = db /\ starting = {} /\ told = [q \in {} |-> {}]
  BY DEF PhoneInit
<1>9. PhoneTypeOK
  BY <1>5, <1>8, PhoneAssumption DEF PhoneTypeOK
<1> QED
  BY <1>6, <1>7, <1>8, <1>9

\* What the edits do to an order.
LEMMA StatusEdited ==
    ASSUME NEW d \in Database, NEW o \in Order, NEW p \in Order, NEW s \in Status
    PROVE  /\ SetStatus(d, p, s).order[o].status = IF o = p THEN s ELSE d.order[o].status
           /\ SetStatus(d, p, s).order[o].courier = d.order[o].courier
           /\ SetStatus(d, p, s).order[o].price = d.order[o].price
           /\ SetStatus(d, p, s).offers = d.offers
<1> DEFINE r == [d.order[p] EXCEPT !.status = s]
<1>1. d.order[p] \in OrderDoc /\ d.order \in [Order -> OrderDoc]
  BY DEF Database
<1>2. r.status = s /\ r.courier = d.order[p].courier /\ r.price = d.order[p].price
  BY <1>1 DEF OrderDoc
<1>3. /\ SetStatus(d, p, s).order = [d.order EXCEPT ![p] = r]
      /\ SetStatus(d, p, s).offers = d.offers
  BY DEF SetStatus, Database
<1> HIDE DEF r
<1>4. SetStatus(d, p, s).order[o] = IF o = p THEN r ELSE d.order[o]
  BY <1>1, <1>3
<1> QED
  BY <1>2, <1>3, <1>4

LEMMA AwardEdited ==
    ASSUME NEW d \in Database, NEW o \in Order, NEW f \in OfferDoc
    PROVE  /\ o # f.order => Award(d, f).order[o] = d.order[o]
           /\ o = f.order => /\ Award(d, f).order[o].status = "assigned"
                             /\ Award(d, f).order[o].courier = f.courier
           /\ Award(d, f).offers = d.offers
<1> DEFINE r == [status |-> "assigned", courier |-> f.courier, price |-> f.price]
<1>1. r.status = "assigned" /\ r.courier = f.courier
  OBVIOUS
<1>2. /\ Award(d, f).order = [d.order EXCEPT ![f.order] = r]
      /\ Award(d, f).offers = d.offers
  BY DEF Award, Database
<1> HIDE DEF r
<1>3. Award(d, f).order[o] = IF o = f.order THEN r ELSE d.order[o]
  BY <1>2 DEF Database
<1> QED
  BY <1>1, <1>2, <1>3

\* An order keeps its courier; it gets an offer from addOffer alone, which marks
\* it if it had a courier, and waits again only where an offer was cancelled.
\* The cache is not told of anything that did not happen to the database.
OrderWritten(o) ==
    /\ db'.order[o].courier = none =>
          db.order[o].courier = none /\ db'.order[o].price = db.order[o].price
    /\ cache'.order[o].courier = cache.order[o].courier
    /\ cache'.order[o].price = cache.order[o].price
    /\ db'.order[o].status = "have an offer" =>
          /\ db'.order[o].courier = db.order[o].courier
          /\ db.order[o].status = "have an offer" \/ db.order[o].courier = none \/ regressed' # {}
    /\ cache'.order[o].status = cache.order[o].status
          \/ cache'.order[o].status = db'.order[o].status
    /\ o \notin disputed' =>
          /\ db'.order[o].status = "waiting for offer" => db.order[o].status = "waiting for offer"
          /\ cache'.order[o].status = "waiting for offer" =>
                cache.order[o].status = "waiting for offer"

\* A document of an offer was announced before, by a status on this phone if it
\* is added from here.
OffersWritten ==
    /\ \A f \in db'.offers : f \in db.offers \/ \E b \in posting : b[2] = f
    /\ \A f \in cache'.offers : f \in cache.offers \/ \E b \in posting : b[2] = f /\ b[1]
    /\ \A b \in posting' : \/ b \in posting
                           \/ /\ db'.order[b[2].order].status = "have an offer"
                              /\ b[1] => cache'.order[b[2].order].status = "have an offer"

LEMMA Written ==
    ASSUME PhoneTypeOK, Writes
    PROVE  /\ \A o \in Order : OrderWritten(o)
           /\ OffersWritten
           /\ disputed \subseteq disputed' /\ regressed \subseteq regressed'
<1> DEFINE Goal == /\ \A o \in Order : OrderWritten(o)
                   /\ OffersWritten
                   /\ disputed \subseteq disputed' /\ regressed \subseteq regressed'
<1>0. db \in Database /\ cache \in Database
  BY DEF PhoneTypeOK
<1>1. PICK here \in BOOLEAN :
         \/ \E c \in Courier, o \in Order, p \in Price : AddOffer(here, c, o, p)
         \/ \E f \in OfferDoc : PostOffer(here, f)
         \/ \E c \in Courier, o \in Order : Withdraw(here, c, o) \/ DeleteOffers(here, c, o)
         \/ \E f \in OfferDoc \cap db.offers : AcceptOffer(f)
         \/ \E o \in Order : \/ Reopen(here, o) \/ CancelOrder(here, o)
                             \/ PurgeOffers(here, o) \/ Complete(here, o)
  BY DEF Writes
\* The writes of a status.
<1>2. ASSUME NEW p \in Order, NEW s \in Status,
             db' = SetStatus(db, p, s), cache' = IF here THEN SetStatus(cache, p, s) ELSE cache,
             s = "waiting for offer" => p \in disputed',
             s = "have an offer" => db.order[p].courier = none \/ regressed' # {}
      PROVE  /\ \A o \in Order : OrderWritten(o)
             /\ db'.offers = db.offers /\ cache'.offers = cache.offers
  <2>1. ASSUME NEW o \in Order
        PROVE  OrderWritten(o)
    <3>0. \A d \in Database :
             LET e == SetStatus(d, p, s) IN
             /\ e.order[o].status = IF o = p THEN s ELSE d.order[o].status
             /\ e.order[o].courier = d.order[o].courier
             /\ e.order[o].price = d.order[o].price
      BY StatusEdited
    <3>1. /\ db'.order[o].status = IF o = p THEN s ELSE db.order[o].status
          /\ db'.order[o].courier = db.order[o].courier
          /\ db'.order[o].price = db.order[o].price
      BY <1>0, <1>2, <3>0
    <3>2. /\ cache'.order[o].status = IF here /\ o = p THEN s ELSE cache.order[o].status
          /\ cache'.order[o].courier = cache.order[o].courier
          /\ cache'.order[o].price = cache.order[o].price
      BY <1>0, <1>2, <3>0
    <3> QED
      BY <1>2, <3>1, <3>2 DEF OrderWritten
  <2>2. db'.offers = db.offers /\ cache'.offers = cache.offers
    BY <1>0, <1>2 DEF SetStatus, Database
  <2> QED
    BY <2>1, <2>2
\* The writes that leave the orders alone.
<1>3. ASSUME db'.order = db.order, cache'.order = cache.order
      PROVE  \A o \in Order : OrderWritten(o)
  BY <1>3 DEF OrderWritten
<1>4. ASSUME NEW c \in Courier, NEW o \in Order, NEW p \in Price, AddOffer(here, c, o, p)
      PROVE  Goal
  <2> DEFINE f == [order |-> o, courier |-> c, price |-> p]
  <2>1. /\ db' = SetStatus(db, o, "have an offer")
        /\ cache' = IF here THEN SetStatus(cache, o, "have an offer") ELSE cache
        /\ posting' = posting \cup {<<here, f>>}
        /\ disputed' = disputed
        /\ regressed' = IF db.order[o].courier # none THEN regressed \cup {o} ELSE regressed
    BY <1>4 DEF AddOffer, Write
  <2>2. f.order = o
    OBVIOUS
  <2> HIDE DEF f
  <2>3. "have an offer" \in Status
    BY DEF Status
  <2>4. (\A q \in Order : OrderWritten(q)) /\ db'.offers = db.offers /\ cache'.offers = cache.offers
    BY <1>2, <2>1, <2>3
  <2>5. /\ db'.order[o].status = "have an offer"
        /\ here => cache'.order[o].status = "have an offer"
    <3>1. \A d \in Database : SetStatus(d, o, "have an offer").order[o].status = "have an offer"
      BY <2>3, StatusEdited
    <3> QED
      BY <1>0, <2>1, <3>1
  <2>6. ASSUME NEW b \in posting', b \notin posting
        PROVE  /\ db'.order[b[2].order].status = "have an offer"
               /\ b[1] => cache'.order[b[2].order].status = "have an offer"
    <3>1. b = <<here, f>>
      BY <2>1, <2>6
    <3>2. b[1] = here /\ b[2] = f
      BY <3>1
    <3> QED
      BY <2>2, <2>5, <3>2
  <2>7. OffersWritten
    BY <2>4, <2>6 DEF OffersWritten
  <2> QED
    BY <2>1, <2>4, <2>7
<1>5. ASSUME NEW f \in OfferDoc, PostOffer(here, f)
      PROVE  Goal
  <2>1. /\ db' = AddDoc(db, f) /\ cache' = IF here THEN AddDoc(cache, f) ELSE cache
        /\ <<here, f>> \in posting /\ posting' \subseteq posting
        /\ UNCHANGED <<disputed, regressed>>
    BY <1>5 DEF PostOffer, Write
  <2>2. PICK b \in posting : b = <<here, f>>
    BY <2>1
  <2>3. b[1] = here /\ b[2] = f
    BY <2>2
  <2>4. /\ db'.order = db.order /\ db'.offers = db.offers \cup {f}
        /\ cache'.order = cache.order
        /\ cache'.offers = IF here THEN cache.offers \cup {f} ELSE cache.offers
    BY <1>0, <2>1 DEF AddDoc, Database
  <2>5. OffersWritten
    BY <2>1, <2>3, <2>4 DEF OffersWritten
  <2> QED
    BY <1>3, <2>1, <2>4, <2>5
<1>6. ASSUME NEW c \in Courier, NEW o \in Order, Withdraw(here, c, o)
      PROVE  Goal
  <2>1. disputed' = disputed \cup {o} /\ UNCHANGED <<db, cache, posting, regressed>>
    BY <1>6 DEF Withdraw, phone
  <2> QED
    BY <1>3, <2>1 DEF OffersWritten
<1>12. ASSUME NEW c \in Courier, NEW o \in Order, DeleteOffers(here, c, o)
       PROVE  Goal
  <2> DEFINE F == {f \in OffersOn(db, o) : f.courier = c}
  <2>1. /\ db' = Delete(db, F) /\ cache' = IF here THEN Delete(cache, F) ELSE cache
        /\ UNCHANGED <<posting, disputed, regressed>>
    BY <1>12 DEF DeleteOffers, Write
  <2> HIDE DEF F
  <2>2. /\ db'.order = db.order /\ db'.offers \subseteq db.offers
        /\ cache'.order = cache.order /\ cache'.offers \subseteq cache.offers
    BY <1>0, <2>1 DEF Delete, Database
  <2> QED
    BY <1>3, <2>1, <2>2 DEF OffersWritten
<1>7. ASSUME NEW f \in OfferDoc, AcceptOffer(f)
      PROVE  Goal
  <2>1. db' = Award(db, f) /\ cache' = cache /\ UNCHANGED <<posting, disputed, regressed>>
    BY <1>7 DEF AcceptOffer, Write
  <2>2. f.courier # none
    BY PhoneAssumption DEF OfferDoc
  <2>3. ASSUME NEW o \in Order
        PROVE  OrderWritten(o)
    <3>1. /\ o # f.order => db'.order[o] = db.order[o]
          /\ o = f.order => /\ db'.order[o].status = "assigned"
                            /\ db'.order[o].courier = f.courier
      BY <1>0, <2>1, AwardEdited
    <3> QED
      BY <2>1, <2>2, <3>1 DEF OrderWritten
  <2>4. db'.offers = db.offers
    BY <1>0, <2>1 DEF Award, Database
  <2> QED
    BY <2>1, <2>3, <2>4 DEF OffersWritten
<1>8. ASSUME NEW o \in Order, Reopen(here, o)
      PROVE  Goal
  <2>1. /\ db' = SetStatus(db, o, "waiting for offer")
        /\ cache' = IF here THEN SetStatus(cache, o, "waiting for offer") ELSE cache
        /\ o \in disputed /\ UNCHANGED <<posting, disputed, regressed>>
    BY <1>8 DEF Reopen, Write
  <2>2. "waiting for offer" \in Status
    BY DEF Status
  <2> QED
    BY <1>2, <2>1, <2>2 DEF OffersWritten
<1>9. ASSUME NEW o \in Order, CancelOrder(here, o)
      PROVE  Goal
  <2>1. /\ db' = SetStatus(db, o, "cancled")
        /\ cache' = IF here THEN SetStatus(cache, o, "cancled") ELSE cache
        /\ UNCHANGED <<posting, disputed, regressed>>
    BY <1>9 DEF CancelOrder, Write
  <2>2. "cancled" \in Status
    BY DEF Status
  <2> QED
    BY <1>2, <2>1, <2>2 DEF OffersWritten
<1>10. ASSUME NEW o \in Order, PurgeOffers(here, o)
       PROVE  Goal
  <2>1. /\ db' = Delete(db, OffersOn(db, o))
        /\ cache' = IF here THEN Delete(cache, OffersOn(cache, o)) ELSE cache
        /\ UNCHANGED <<posting, disputed, regressed>>
    BY <1>10 DEF PurgeOffers, Write
  <2>2. /\ db'.order = db.order /\ db'.offers \subseteq db.offers
        /\ cache'.order = cache.order /\ cache'.offers \subseteq cache.offers
    BY <1>0, <2>1 DEF Delete, Database
  <2> QED
    BY <1>3, <2>1, <2>2 DEF OffersWritten
<1>11. ASSUME NEW o \in Order, Complete(here, o)
       PROVE  Goal
  <2>1. /\ db' = SetStatus(db, o, "completed")
        /\ cache' = IF here THEN SetStatus(cache, o, "completed") ELSE cache
        /\ UNCHANGED <<posting, disputed, regressed>>
    BY <1>11 DEF Complete, Write
  <2>2. "completed" \in Status
    BY DEF Status
  <2> QED
    BY <1>2, <2>1, <2>2 DEF OffersWritten
<1> QED
  BY <1>1, <1>4, <1>5, <1>6, <1>7, <1>8, <1>9, <1>10, <1>11, <1>12

-----------------------------------------------------------------------------
(* CourierOrders.                                                          *)

\* The document of an order with an offer, as long as none that was awarded is
\* given an offer again.
Fresh == [status |-> "have an offer", courier |-> none, price |-> none]

\* An order gets its courier with its price, and the phone learns of a courier
\* from the database.
AwardsKept ==
    \A o \in Order :
       /\ db.order[o].courier = none =>
             db.order[o].price = none /\ cache.order[o].courier = none
       /\ cache.order[o].courier = none => cache.order[o].price = none

\* While no awarded order was given an offer, the orders with an offer all look
\* alike, so that no listener is told of a change of one.
OffersComeFirst ==
    regressed = {} =>
       /\ \A o \in Order : db.order[o].status = "have an offer" => db.order[o].courier = none
       /\ \A o \in Order : cache.order[o].status = "have an offer" => cache.order[o].courier = none
       /\ Offered \in DOMAIN told => \A o \in DOMAIN told[Offered] : told[Offered][o] = Fresh

\* On a phone that listens for one courier only, the array of offers is what
\* was last told of his, and the entries are those of the orders last told of,
\* looked up in it, unless a report is still to come.
ListsFollow ==
    \A c \in Courier :
       /\ \A q \in DOMAIN told \cup starting : q.of \in {none, c}
       /\ ~stopped /\ Mine(c) \in DOMAIN told \ starting
       => /\ collected = DOMAIN told[Mine(c)]
          /\ Offered \notin starting =>
                /\ Offered \in DOMAIN told
                /\ offered = [o \in DOMAIN told[Offered] |-> Mapped(o)]

OffersInv == /\ TypeOK /\ AwardsKept /\ OffersComeFirst /\ ListsFollow
             /\ StopsOnlyOnRegress /\ EntriesInPlace

\* What a step of the page may be.
LEMMA OffersSteps ==
    ASSUME TypeOK, [Next]_vars
    PROVE  \/ ~stopped /\ Visit
           \/ ~stopped /\ \E q \in DOMAIN told \cup starting : ReportOffers(q)
           \/ ~stopped /\ \E q \in DOMAIN told \cup starting : ReportOffered(q)
           \/ \E c \in Courier : SignIn(c) /\ UNCHANGED lists
           \/ Writes /\ UNCHANGED lists
           \/ Sync /\ UNCHANGED lists
           \/ Relaunch
           \/ UNCHANGED vars
<1>1. ASSUME Here
      PROVE  Writes /\ UNCHANGED lists
  <2> SUFFICES Writes
    BY <1>1 DEF Here
  <2>1. user \in Courier
    BY DEF TypeOK, PhoneTypeOK
  <2>2. ASSUME NEW e \in Cards
        PROVE  e.order \in Order
    <3>1. PICK k \in DOMAIN offered : e = offered[k] /\ e.order # none
      BY DEF Cards
    <3>2. e \in Entry \cup {Blank}
      BY <3>1 DEF TypeOK
    <3> QED
      BY <3>1, <3>2 DEF Entry, Blank
  <2>3. CASE \E o \in Order, p \in Price : AddOffer(TRUE, user, o, p)
    BY <2>1, <2>3 DEF Writes
  <2>4. CASE \E f \in OfferDoc : PostOffer(TRUE, f)
    BY <2>4 DEF Writes
  <2>5. CASE \E e \in Cards : Withdraw(TRUE, user, e.order)
    BY <2>1, <2>2, <2>5 DEF Writes
  <2>6. CASE \E c \in Courier, o \in Order : DeleteOffers(TRUE, c, o)
    BY <2>6 DEF Writes
  <2>7. CASE \E o \in Order : Reopen(TRUE, o)
    BY <2>7 DEF Writes
  <2> QED
    BY <1>1, <2>3, <2>4, <2>5, <2>6, <2>7 DEF Here
<1>2. ASSUME Elsewhere
      PROVE  Writes /\ UNCHANGED lists
  <2> SUFFICES Writes
    BY <1>2 DEF Elsewhere
  <2>1. db.offers \subseteq OfferDoc
    BY DEF TypeOK, PhoneTypeOK, Database
  <2>2. CASE \E f \in db.offers : AcceptOffer(f)
    BY <2>1, <2>2 DEF Writes
  <2>3. CASE \/ \E c \in Courier, o \in Order, p \in Price : AddOffer(FALSE, c, o, p)
             \/ \E f \in OfferDoc : PostOffer(FALSE, f)
             \/ \E c \in Courier, o \in Order :
                   Withdraw(FALSE, c, o) \/ DeleteOffers(FALSE, c, o)
    BY <2>3 DEF Writes
  <2>4. CASE \E o \in Order : Reopen(FALSE, o) \/ CancelOrder(FALSE, o) \/ PurgeOffers(FALSE, o)
    BY <2>4 DEF Writes
  <2> QED
    BY <1>2, <2>2, <2>3, <2>4 DEF Elsewhere
<1>3. ASSUME Running, ~stopped
      PROVE  \/ Visit
             \/ \E q \in DOMAIN told \cup starting : ReportOffers(q)
             \/ \E q \in DOMAIN told \cup starting : ReportOffered(q)
             \/ \E c \in Courier : SignIn(c) /\ UNCHANGED lists
             \/ Writes /\ UNCHANGED lists
             \/ Sync /\ UNCHANGED lists
  BY <1>1, <1>3 DEF Running, SignInAs, CatchUp
<1> QED
  BY <1>2, <1>3 DEF Next

\* Putting changed orders in place changes nothing where they all have an
\* offer: each stands where it belongs, and is looked up as before.
LEMMA Replacing ==
    ASSUME NEW D, NEW C \in SUBSET D, \A o \in C : OffersFor(o) # {}
    PROVE  Replaced([o \in D |-> Mapped(o)], C, Mapped) = [o \in D |-> Mapped(o)]
<1> DEFINE A == [o \in D |-> Mapped(o)]
<1>1. ASSUME NEW o \in C
      PROVE  Place(o, A) = o
  <2>1. A[o] = Mapped(o) /\ Mapped(o).order = o
    BY <1>1 DEF Mapped
  <2> QED
    BY <2>1 DEF Place
<1>2. ASSUME NEW k \in D
      PROVE  Replaced(A, C, Mapped)[k] = A[k]
  <2> DEFINE here == {o \in C : Place(o, A) = k}
  <2>1. Replaced(A, C, Mapped)[k] = IF here = {} THEN A[k] ELSE Mapped(CHOOSE o \in here : TRUE)
    BY DEF Replaced
  <2>2. here = {} \/ here = {k}
    BY <1>1
  <2>3. here = {k} => Mapped(CHOOSE o \in here : TRUE) = A[k]
    OBVIOUS
  <2> HIDE DEF here, A
  <2> QED
    BY <2>1, <2>2, <2>3
<1>3. Replaced(A, C, Mapped) = [k \in D |-> Replaced(A, C, Mapped)[k]]
  BY DEF Replaced
<1> HIDE DEF A
<1>4. A = [k \in D |-> A[k]]
  BY DEF A
<1> QED
  BY <1>2, <1>3, <1>4 DEF A

\* The report of the orders: the app stops on a changed order without an offer,
\* or every order is looked up in the array of offers.
LEMMA Reporting ==
    ASSUME TypeOK, NEW q \in DOMAIN told \cup starting, ReportOffered(q)
    PROVE  /\ q = Offered /\ Tell(Offered, {})
           /\ collected' = collected
           /\ \/ /\ \E o \in Changed(Offered) : OffersFor(o) = {}
                 /\ stopped' = TRUE /\ offered' = offered
              \/ /\ offered' = [o \in DOMAIN Answer(Offered, cache) |-> Mapped(o)]
                 /\ stopped' = stopped
<1>1. q = Offered
  BY Kinds DEF ReportOffered, TypeOK, PhoneTypeOK
<1> DEFINE D == DOMAIN Answer(Offered, cache)
           C == Changed(Offered)
<1>2. C \subseteq D
  BY DEF Changed, Modified
<1>3. /\ Tell(Offered, {}) /\ collected' = collected
      /\ IF \E o \in C : OffersFor(o) = {}
         THEN stopped' = TRUE /\ UNCHANGED offered
         ELSE /\ offered' = Replaced([o \in D |-> Mapped(o)], C, Mapped)
              /\ UNCHANGED stopped
  BY <1>1 DEF ReportOffered
<1> HIDE DEF D, C
<1>4. (\A o \in C : OffersFor(o) # {}) =>
         Replaced([o \in D |-> Mapped(o)], C, Mapped) = [o \in D |-> Mapped(o)]
  BY <1>2, Replacing
<1> QED
  BY <1>1, <1>3, <1>4 DEF D, C

LEMMA Entries ==
    ASSUME TypeOK, NEW o \in Order
    PROVE  /\ Mapped(o) \in Entry \cup {Blank}
           /\ Mapped(o).order \in {o, none}
<1>1. CASE OffersFor(o) = {}
  BY <1>1 DEF Mapped, Blank
<1>2. CASE OffersFor(o) # {}
  <2>1. (CHOOSE f \in OffersFor(o) : TRUE) \in OffersFor(o)
    BY <1>2
  <2>2. FirstPrice(o) \in Price
    BY <2>1 DEF FirstPrice, OffersFor, TypeOK, OfferDoc
  <2> QED
    BY <1>2, <2>2 DEF Mapped, Entry
<1> QED
  BY <1>1, <1>2

LEMMA OffersType == TypeOK /\ [Next]_vars => TypeOK'
<1> SUFFICES ASSUME TypeOK, [Next]_vars PROVE TypeOK'
  OBVIOUS
<1>0. PhoneTypeOK
  BY DEF TypeOK
<1>1. ASSUME Visit
      PROVE  TypeOK'
  <2>1. {Mine(user)} \subseteq Query
    BY <1>0, Kinds DEF PhoneTypeOK
  <2>2. PhoneTypeOK'
    BY <1>0, <1>1, <2>1, Listening DEF Visit
  <2> QED
    BY <1>1, <2>2 DEF Visit, TypeOK
<1>2. ASSUME NEW q \in DOMAIN told \cup starting, ReportOffers(q)
      PROVE  TypeOK'
  <2>1. {Offered} \subseteq Query
    BY Kinds
  <2>2. PhoneTypeOK'
    BY <1>0, <1>2, <2>1, Telling DEF ReportOffers
  <2>3. DOMAIN Answer(q, cache) \subseteq OfferDoc
    <3>1. q \in Query /\ q.on = "mine"
      BY <1>0, <1>2 DEF PhoneTypeOK, ReportOffers
    <3> QED
      BY <1>0, <3>1, Answers
  <2> QED
    BY <1>2, <2>2, <2>3 DEF ReportOffers, TypeOK
<1>3. ASSUME NEW q \in DOMAIN told \cup starting, ReportOffered(q)
      PROVE  TypeOK'
  <2>1. PhoneTypeOK'
    <3>1. Tell(q, {})
      BY <1>3 DEF ReportOffered
    <3> QED
      BY <1>0, <3>1, Telling
  <2>2. DOMAIN Answer(Offered, cache) \subseteq Order
    BY <1>0, AnswersOffered
  <2>3. /\ collected' = collected
        /\ \/ stopped' = TRUE /\ offered' = offered
           \/ /\ offered' = [o \in DOMAIN Answer(Offered, cache) |-> Mapped(o)]
              /\ stopped' = stopped
    BY <1>3, Reporting
  <2>4. DOMAIN offered' \subseteq Order /\ \A k \in DOMAIN offered' : offered'[k] \in Entry \cup {Blank}
    BY <2>2, <2>3, Entries DEF TypeOK
  <2> QED
    BY <2>1, <2>3, <2>4 DEF TypeOK
<1>4. ASSUME NEW c \in Courier, SignIn(c), UNCHANGED lists
      PROVE  TypeOK'
  BY <1>0, <1>4, SigningIn DEF TypeOK, lists
<1>5. ASSUME Writes, UNCHANGED lists
      PROVE  TypeOK'
  BY <1>0, <1>5, WritesType DEF TypeOK, lists
<1>6. ASSUME Sync, UNCHANGED lists
      PROVE  TypeOK'
  BY <1>0, <1>6, CatchingUp DEF TypeOK, lists
<1>7. ASSUME Relaunch
      PROVE  TypeOK'
  <2>1. PhoneTypeOK'
    BY <1>0, <1>7 DEF Relaunch, PhoneTypeOK, server
  <2> QED
    BY <1>7, <2>1 DEF Relaunch, TypeOK, Empty
<1>8. ASSUME UNCHANGED vars
      PROVE  TypeOK'
  BY <1>0, <1>8, Idling DEF TypeOK, vars, lists
<1> QED
  BY <1>1, <1>2, <1>3, <1>4, <1>5, <1>6, <1>7, <1>8, OffersSteps

\* Where the documents stay, so does what is said of them.
LEMMA KeptAlike ==
    ASSUME AwardsKept, OffersComeFirst,
           UNCHANGED <<db, cache, regressed>>,
           Offered \in DOMAIN told' =>
              \/ Offered \in DOMAIN told /\ told'[Offered] = told[Offered]
              \/ regressed = {} => \A o \in DOMAIN told'[Offered] : told'[Offered][o] = Fresh
    PROVE  AwardsKept' /\ OffersComeFirst'
<1>1. Offered' = Offered /\ Fresh' = Fresh
  BY DEF Offered, Fresh
<1>2. AwardsKept'
  BY DEF AwardsKept
<1>3. OffersComeFirst'
  BY <1>1 DEF OffersComeFirst
<1> QED
  BY <1>2, <1>3

\* The answer for the orders with an offer, as long as none was awarded before.
LEMMA AnswersFresh ==
    ASSUME PhoneTypeOK, AwardsKept, OffersComeFirst, regressed = {},
           NEW o \in DOMAIN Answer(Offered, cache)
    PROVE  Answer(Offered, cache)[o] = Fresh
<1>1. /\ o \in Order /\ cache.order[o].status = "have an offer"
      /\ Answer(Offered, cache)[o] = cache.order[o]
  BY AnswersOffered
<1>2. cache.order[o].courier = none /\ cache.order[o].price = none
  BY <1>1 DEF AwardsKept, OffersComeFirst
<1>3. cache.order[o] \in OrderDoc
  BY <1>1 DEF PhoneTypeOK, Database
<1> QED
  BY <1>1, <1>2, <1>3 DEF OrderDoc, Fresh

LEMMA KeptStep ==
    TypeOK /\ AwardsKept /\ OffersComeFirst /\ [Next]_vars => AwardsKept' /\ OffersComeFirst'
<1> SUFFICES ASSUME TypeOK, AwardsKept, OffersComeFirst, [Next]_vars
             PROVE  AwardsKept' /\ OffersComeFirst'
  OBVIOUS
<1>0. PhoneTypeOK
  BY DEF TypeOK
<1>1. ASSUME Visit
      PROVE  AwardsKept' /\ OffersComeFirst'
  BY <1>1, KeptAlike DEF Visit, server
<1>2. ASSUME NEW q \in DOMAIN told \cup starting, ReportOffers(q)
      PROVE  AwardsKept' /\ OffersComeFirst'
  <2>1. /\ DOMAIN told' = DOMAIN told \cup {q}
        /\ \A k \in DOMAIN told : k # q => told'[k] = told[k]
        /\ UNCHANGED <<server, user, cache>>
    <3>1. {Offered} \in SUBSET Query /\ Tell(q, {Offered})
      BY <1>2, Kinds DEF ReportOffers
    <3> QED
      BY <1>0, <3>1, Telling
  <2>2. q # Offered
    BY <1>2, Kinds DEF ReportOffers
  <2> QED
    BY <2>1, <2>2, KeptAlike DEF server
<1>3. ASSUME NEW q \in DOMAIN told \cup starting, ReportOffered(q)
      PROVE  AwardsKept' /\ OffersComeFirst'
  <2>1. q = Offered /\ Tell(q, {})
    BY <1>3, Reporting
  <2>2. told'[Offered] = Answer(Offered, cache) /\ UNCHANGED <<server, user, cache>>
    BY <1>0, <2>1, Telling
  <2>3. regressed = {} => \A o \in DOMAIN told'[Offered] : told'[Offered][o] = Fresh
    BY <1>0, <2>2, AnswersFresh
  <2> QED
    BY <2>2, <2>3, KeptAlike DEF server
<1>4. ASSUME NEW c \in Courier, SignIn(c), UNCHANGED lists
      PROVE  AwardsKept' /\ OffersComeFirst'
  BY <1>0, <1>4, SigningIn, KeptAlike
<1>5. ASSUME Writes, UNCHANGED lists
      PROVE  AwardsKept' /\ OffersComeFirst'
  <2>1. /\ \A o \in Order : OrderWritten(o)
        /\ regressed \subseteq regressed'
        /\ told' = told
    BY <1>0, <1>5, Written, Writing
  <2>2. ASSUME NEW o \in Order
        PROVE  /\ db'.order[o].courier = none =>
                     db'.order[o].price = none /\ cache'.order[o].courier = none
               /\ cache'.order[o].courier = none => cache'.order[o].price = none
    BY <2>1 DEF OrderWritten, AwardsKept
  <2>3. ASSUME NEW o \in Order, regressed' = {}
        PROVE  /\ db'.order[o].status = "have an offer" => db'.order[o].courier = none
               /\ cache'.order[o].status = "have an offer" => cache'.order[o].courier = none
    <3>1. regressed = {}
      BY <2>1, <2>3
    <3>2. db'.order[o].status = "have an offer" => db'.order[o].courier = none
      BY <2>1, <2>3, <3>1 DEF OrderWritten, OffersComeFirst
    <3>3. cache'.order[o].status = "have an offer" => cache'.order[o].courier = none
      BY <2>1, <2>2, <3>1, <3>2 DEF OrderWritten, OffersComeFirst
    <3> QED
      BY <3>2, <3>3
  <2>4. regressed' = {} /\ Offered' \in DOMAIN told' =>
           \A o \in DOMAIN told'[Offered'] : told'[Offered'][o] = Fresh'
    BY <2>1 DEF OffersComeFirst, Offered, Fresh
  <2> QED
    BY <2>2, <2>3, <2>4 DEF AwardsKept, OffersComeFirst
<1>6. ASSUME Sync, UNCHANGED lists
      PROVE  AwardsKept' /\ OffersComeFirst'
  <2>1. cache' = db /\ UNCHANGED <<server, user, told, starting>>
    BY <1>0, <1>6, CatchingUp
  <2>2. AwardsKept'
    BY <2>1 DEF AwardsKept, server
  <2>3. Offered' = Offered /\ Fresh' = Fresh
    BY DEF Offered, Fresh
  <2>4. OffersComeFirst'
    BY <2>1, <2>3 DEF OffersComeFirst, server
  <2> QED
    BY <2>2, <2>4
<1>7. ASSUME Relaunch
      PROVE  AwardsKept' /\ OffersComeFirst'
  <2>1. DOMAIN told' = {} /\ UNCHANGED <<server, user, cache>>
    BY <1>7 DEF Relaunch
  <2> QED
    BY <2>1, KeptAlike DEF server
<1>8. ASSUME UNCHANGED vars
      PROVE  AwardsKept' /\ OffersComeFirst'
  BY <1>8, KeptAlike DEF vars, phoneVars, server, phone
<1> QED
  BY <1>1, <1>2, <1>3, <1>4, <1>5, <1>6, <1>7, <1>8, OffersSteps

\* The lists stay as they are told of.
LEMMA FollowStep == TypeOK /\ ListsFollow /\ [Next]_vars => ListsFollow'
<1> SUFFICES ASSUME TypeOK, ListsFollow, [Next]_vars, NEW c \in Courier,
                    \A q \in DOMAIN told' \cup starting' : q.of \in {none, c},
                    ~stopped', Mine(c) \in DOMAIN told' \ starting'
             PROVE  /\ collected' = DOMAIN told'[Mine(c)]
                    /\ Offered \notin starting' =>
                          /\ Offered \in DOMAIN told'
                          /\ offered' = [o \in DOMAIN told'[Offered] |-> Mapped(o)']
  BY DEF ListsFollow, Mine, Offered
<1> DEFINE Goal == /\ collected' = DOMAIN told'[Mine(c)]
                   /\ Offered \notin starting' =>
                         /\ Offered \in DOMAIN told'
                         /\ offered' = [o \in DOMAIN told'[Offered] |-> Mapped(o)']
<1>0. /\ PhoneTypeOK
      /\ Mine(c) \in Query /\ Mine(c).on = "mine" /\ Mine(c).of = c /\ c # none
      /\ Offered \in Query /\ Offered.on = "offered" /\ Mine(c) # Offered
  BY Kinds, PhoneAssumption DEF TypeOK
<1>a. collected' = collected => \A o : Mapped(o)' = Mapped(o)
  BY DEF Mapped, OffersFor, FirstPrice, Blank
<1>b. ASSUME \A q \in DOMAIN told \cup starting : q.of \in {none, c},
             ~stopped, Mine(c) \in DOMAIN told \ starting
      PROVE  /\ collected = DOMAIN told[Mine(c)]
             /\ Offered \notin starting =>
                   /\ Offered \in DOMAIN told
                   /\ offered = [o \in DOMAIN told[Offered] |-> Mapped(o)]
  BY <1>b DEF ListsFollow
<1>1. ASSUME Visit, ~stopped
      PROVE  Goal
  <2>1. starting' = starting \cup {Mine(user)} /\ UNCHANGED <<told, offered>>
    BY <1>1 DEF Visit, Listen
  <2>2. user # c
    BY <2>1
  <2>3. user \in Courier /\ Mine(user) \in starting' /\ Mine(user).of = user
    BY <1>0, <2>1, Kinds DEF PhoneTypeOK
  <2> QED
    BY <2>2, <2>3, PhoneAssumption
<1>2. ASSUME NEW q \in DOMAIN told \cup starting, ReportOffers(q)
      PROVE  Goal
  <2>1. /\ DOMAIN told' = DOMAIN told \cup {q} /\ told'[q] = Answer(q, cache)
        /\ Offered \in starting'
    <3>1. {Offered} \in SUBSET Query /\ Tell(q, {Offered})
      BY <1>0, <1>2 DEF ReportOffers
    <3> QED
      BY <1>0, <3>1, Telling
  <2>2. q = Mine(c)
    <3>1. q \in Query /\ q.on = "mine"
      BY <1>0, <1>2 DEF ReportOffers, PhoneTypeOK
    <3>2. q.of \in Courier /\ q = Mine(q.of)
      BY <3>1, Kinds
    <3>3. q.of \in {none, c}
      BY <2>1
    <3> QED
      BY <3>2, <3>3, PhoneAssumption
  <2>3. collected' = DOMAIN Answer(q, cache)
    BY <1>2 DEF ReportOffers
  <2> QED
    BY <2>1, <2>2, <2>3
<1>3. ASSUME NEW q \in DOMAIN told \cup starting, ReportOffered(q), ~stopped
      PROVE  Goal
  <2>1. q = Offered /\ Tell(Offered, {}) /\ collected' = collected
    BY <1>3, Reporting DEF TypeOK
  <2>2. offered' = [o \in DOMAIN Answer(Offered, cache) |-> Mapped(o)]
    BY <1>3, Reporting DEF TypeOK
  <2>3. /\ DOMAIN told' = DOMAIN told \cup {Offered}
        /\ told'[Offered] = Answer(Offered, cache)
        /\ \A k \in DOMAIN told : k # Offered => told'[k] = told[k]
        /\ DOMAIN told' \cup starting' = DOMAIN told \cup starting
        /\ \A k \in starting : k # Offered => k \in starting'
    <3>1. /\ DOMAIN told' = DOMAIN told \cup {q} /\ told'[q] = Answer(q, cache)
          /\ \A k \in DOMAIN told : k # q => told'[k] = told[k]
          /\ DOMAIN told' \cup starting' = DOMAIN told \cup starting \cup {}
          /\ \A k \in starting : k # q => k \in starting'
      BY <1>0, <2>1, Telling
    <3> QED
      BY <2>1, <3>1
  <2>4. Mine(c) \in DOMAIN told \ starting
    BY <1>0, <2>3
  <2>5. collected = DOMAIN told[Mine(c)]
    BY <1>3, <1>b, <2>3, <2>4
  <2>6. offered' = [o \in DOMAIN told'[Offered] |-> Mapped(o)']
    BY <1>a, <2>1, <2>2, <2>3
  <2> QED
    BY <1>0, <2>1, <2>3, <2>4, <2>5, <2>6
<1>4. ASSUME UNCHANGED <<told, starting, lists>>
      PROVE  Goal
  BY <1>4, <1>a, <1>b DEF lists
<1>5. ASSUME NEW d \in Courier, SignIn(d), UNCHANGED lists
      PROVE  Goal
  BY <1>0, <1>4, <1>5, SigningIn
<1>6. ASSUME Writes, UNCHANGED lists
      PROVE  Goal
  BY <1>0, <1>4, <1>6, Writing
<1>7. ASSUME Sync, UNCHANGED lists
      PROVE  Goal
  BY <1>0, <1>4, <1>7, CatchingUp
<1>8. ASSUME Relaunch
      PROVE  Goal
  BY <1>8 DEF Relaunch
<1>9. ASSUME UNCHANGED vars
      PROVE  Goal
  BY <1>4, <1>9 DEF vars, phoneVars, phone
<1> QED
  BY <1>1, <1>2, <1>3, <1>5, <1>6, <1>7, <1>8, <1>9, OffersSteps

\* The app stops on a changed order, and there is none as long as no awarded
\* order was given an offer again.
LEMMA StopStep ==
    TypeOK /\ AwardsKept /\ OffersComeFirst /\ StopsOnlyOnRegress /\ [Next]_vars
       => StopsOnlyOnRegress'
<1> SUFFICES ASSUME TypeOK, AwardsKept, OffersComeFirst, StopsOnlyOnRegress, [Next]_vars
             PROVE  StopsOnlyOnRegress'
  OBVIOUS
<1>0. PhoneTypeOK
  BY DEF TypeOK
<1>1. ASSUME stopped' = stopped, regressed \subseteq regressed'
      PROVE  StopsOnlyOnRegress'
  BY <1>1 DEF StopsOnlyOnRegress
<1>2. ASSUME Visit
      PROVE  StopsOnlyOnRegress'
  BY <1>1, <1>2 DEF Visit, server
<1>3. ASSUME NEW q \in DOMAIN told \cup starting, ReportOffers(q)
      PROVE  StopsOnlyOnRegress'
  BY <1>1, <1>3 DEF ReportOffers, Tell, server
<1>4. ASSUME NEW q \in DOMAIN told \cup starting, ReportOffered(q)
      PROVE  StopsOnlyOnRegress'
  <2>1. regressed' = regressed
    BY <1>4 DEF ReportOffered, Tell, server
  <2>2. ASSUME regressed = {}
        PROVE  Changed(Offered) = {}
    <3>1. ASSUME NEW o \in Modified(told[Offered], Answer(Offered, cache)), Due(Offered)
          PROVE  FALSE
      <4>1. /\ o \in DOMAIN told[Offered] /\ o \in DOMAIN Answer(Offered, cache)
            /\ told[Offered][o] # Answer(Offered, cache)[o]
        BY DEF Modified
      <4>2. Answer(Offered, cache)[o] = Fresh
        BY <1>0, <2>2, <4>1, AnswersFresh
      <4>3. told[Offered][o] = Fresh
        BY <2>2, <3>1, <4>1 DEF OffersComeFirst, Due
      <4> QED
        BY <4>1, <4>2, <4>3
    <3> QED
      BY <3>1 DEF Changed
  <2>3. stopped' = stopped \/ Changed(Offered) # {}
    BY <1>4, Reporting
  <2> QED
    BY <1>1, <2>1, <2>2, <2>3 DEF StopsOnlyOnRegress
<1>5. ASSUME NEW c \in Courier, SignIn(c), UNCHANGED lists
      PROVE  StopsOnlyOnRegress'
  BY <1>1, <1>5 DEF SignIn, lists
<1>6. ASSUME Writes, UNCHANGED lists
      PROVE  StopsOnlyOnRegress'
  BY <1>0, <1>1, <1>6, Written DEF lists
<1>7. ASSUME Sync, UNCHANGED lists
      PROVE  StopsOnlyOnRegress'
  BY <1>1, <1>7 DEF Sync, lists, server
<1>8. ASSUME Relaunch
      PROVE  StopsOnlyOnRegress'
  BY <1>8 DEF Relaunch, StopsOnlyOnRegress
<1>9. ASSUME UNCHANGED vars
      PROVE  StopsOnlyOnRegress'
  BY <1>1, <1>9 DEF vars, lists, phoneVars, server
<1> QED
  BY <1>2, <1>3, <1>4, <1>5, <1>6, <1>7, <1>8, <1>9, OffersSteps

LEMMA PlaceStep == TypeOK /\ EntriesInPlace /\ [Next]_vars => EntriesInPlace'
<1> SUFFICES ASSUME TypeOK, EntriesInPlace, [Next]_vars PROVE EntriesInPlace'
  OBVIOUS
<1>0. PhoneTypeOK
  BY DEF TypeOK
<1>1. ASSUME offered' = offered
      PROVE  EntriesInPlace'
  BY <1>1 DEF EntriesInPlace
<1>2. ASSUME NEW q \in DOMAIN told \cup starting, ReportOffered(q)
      PROVE  EntriesInPlace'
  <2>1. CASE offered' = [o \in DOMAIN Answer(Offered, cache) |-> Mapped(o)]
    <3>1. ASSUME NEW k \in DOMAIN offered'
          PROVE  offered'[k].order \in {k, none}
      <4>1. k \in Order /\ offered'[k] = Mapped(k)
        BY <1>0, <2>1, AnswersOffered
      <4> QED
        BY <4>1, Entries
    <3> QED
      BY <3>1 DEF EntriesInPlace
  <2> QED
    BY <1>1, <1>2, <2>1, Reporting
<1>3. ASSUME Visit \/ \E q \in DOMAIN told \cup starting : ReportOffers(q)
      PROVE  EntriesInPlace'
  BY <1>1, <1>3 DEF Visit, ReportOffers
<1>4. ASSUME Relaunch
      PROVE  EntriesInPlace'
  BY <1>4 DEF Relaunch, EntriesInPlace, Empty
<1> QED
  BY <1>1, <1>2, <1>3, <1>4, OffersSteps DEF lists, vars

LEMMA OffersInit == Init => OffersInv
<1> SUFFICES ASSUME Init PROVE OffersInv
  OBVIOUS
<1>1. /\ PhoneTypeOK /\ cache = db /\ DOMAIN told = {}
      /\ \A o \in Order : /\ db.order[o].courier = none => db.order[o].price = none
                          /\ db.order[o].status = "have an offer" => db.order[o].courier = none
  BY Starting DEF Init
<1>2. TypeOK /\ StopsOnlyOnRegress /\ EntriesInPlace
  BY <1>1 DEF Init, TypeOK, Empty, StopsOnlyOnRegress, EntriesInPlace
<1>3. AwardsKept /\ OffersComeFirst /\ ListsFollow
  BY <1>1 DEF AwardsKept, OffersComeFirst, ListsFollow
<1> QED
  BY <1>2, <1>3 DEF OffersInv

LEMMA OffersStep == OffersInv /\ [Next]_vars => OffersInv'
BY OffersType, KeptStep, FollowStep, StopStep, PlaceStep DEF OffersInv

LEMMA OffersInductive == Spec => []OffersInv
BY OffersInit, OffersStep, PTL DEF Spec

\* Typing: in particular no entry has a price without an order, or an order
\* without a price.
THEOREM OwnOffersAreTyped == Spec => []TypeOK
<1>1. OffersInv => TypeOK
  BY DEF OffersInv
<1> QED
  BY <1>1, OffersInductive, PTL

\* The app stops on an index out of range only after an order that had been
\* awarded was given an offer again (getOrderForCourierCurrentOrder, addOffer).
THEOREM OnlyRegressStops == Spec => []StopsOnlyOnRegress
<1>1. OffersInv => StopsOnlyOnRegress
  BY DEF OffersInv
<1> QED
  BY <1>1, OffersInductive, PTL

\* No change of an order is written over the entry of another
\* (getOrderForCourierCurrentOrder).
THEOREM EntriesStayInPlace == Spec => []EntriesInPlace
<1>1. OffersInv => EntriesInPlace
  BY DEF OffersInv
<1> QED
  BY <1>1, OffersInductive, PTL

\* Where nothing is left to report, the page has one card for every order that
\* has an offer of the courier, at a price he asked, and no other
\* (getOrderForCourierCurrentOrder, getAllOffersFromCourierInCurrentOrder).
THEOREM OwnOffersAreListed == Spec => []CardsAreMyOffers
<1>1. OffersInv => CardsAreMyOffers
  <2> SUFFICES ASSUME OffersInv, Settled, Alone, Mine(user) \in DOMAIN told
               PROVE  /\ {e.order : e \in Cards} =
                            {o \in Order : /\ cache.order[o].status = "have an offer"
                                           /\ OwnOffers(o) # {}}
                      /\ \A e \in Cards : \E f \in OwnOffers(e.order) : f.price = e.price
    BY DEF CardsAreMyOffers
  <2>0. TypeOK /\ PhoneTypeOK /\ user \in Courier /\ Mine(user) \in Query /\ Offered \in Query
    BY Kinds DEF OffersInv, TypeOK, PhoneTypeOK
  <2>1. /\ collected = DOMAIN told[Mine(user)] /\ Offered \in DOMAIN told
        /\ offered = [o \in DOMAIN told[Offered] |-> Mapped(o)]
    BY <2>0 DEF OffersInv, ListsFollow, Alone, Settled
  <2>2. /\ told[Mine(user)] = Answer(Mine(user), cache)
        /\ told[Offered] = Answer(Offered, cache)
    BY <2>1 DEF Settled, AllReported, Due
  <2>3. collected = {f \in cache.offers : f.courier = user}
    <3>1. Mine(user).on = "mine" /\ Mine(user).of = user
      BY <2>0, Kinds
    <3>2. DOMAIN Answer(Mine(user), cache) = {f \in cache.offers : f.courier = Mine(user).of}
      BY <2>0, <3>1, Answers
    <3>3. collected = DOMAIN Answer(Mine(user), cache)
      BY <2>1, <2>2
    <3> QED
      BY <3>1, <3>2, <3>3
  <2>4. DOMAIN offered = {o \in Order : cache.order[o].status = "have an offer"}
    BY <2>0, <2>1, <2>2, AnswersOffered
  <2>5. \A o \in Order : OffersFor(o) = OwnOffers(o)
    BY <2>3 DEF OffersFor, OwnOffers
  <2>6. ASSUME NEW o \in DOMAIN offered
        PROVE  /\ offered[o] = Mapped(o) /\ o \in Order /\ o # none
               /\ OwnOffers(o) = {} => offered[o].order = none
               /\ OwnOffers(o) # {} =>
                     /\ offered[o].order = o
                     /\ \E f \in OwnOffers(o) : f.price = offered[o].price
    <3>1. offered[o] = Mapped(o) /\ o \in Order
      BY <2>1, <2>4
    <3>2. CASE OwnOffers(o) = {}
      BY <2>5, <3>1, <3>2, PhoneAssumption DEF Mapped, Blank
    <3>3. CASE OwnOffers(o) # {}
      <4>1. (CHOOSE f \in OffersFor(o) : TRUE) \in OffersFor(o)
        BY <2>5, <3>1, <3>3
      <4>2. \E f \in OwnOffers(o) : f.price = FirstPrice(o)
        BY <2>5, <3>1, <4>1 DEF FirstPrice
      <4> QED
        BY <2>5, <3>1, <3>3, <4>2, PhoneAssumption DEF Mapped
    <3> QED
      BY <3>2, <3>3
  <2>7. ASSUME NEW e \in Cards
        PROVE  /\ e.order \in Order /\ cache.order[e.order].status = "have an offer"
               /\ \E f \in OwnOffers(e.order) : f.price = e.price
    <3>1. PICK k \in DOMAIN offered : e = offered[k] /\ e.order # none
      BY DEF Cards
    <3> QED
      BY <2>4, <2>6, <3>1
  <2>8. ASSUME NEW o \in Order, cache.order[o].status = "have an offer", OwnOffers(o) # {}
        PROVE  \E e \in Cards : e.order = o
    <3>1. o \in DOMAIN offered
      BY <2>4, <2>8
    <3>2. offered[o].order = o /\ o # none
      BY <2>6, <2>8, <3>1
    <3> QED
      BY <3>1, <3>2 DEF Cards
  <2>9. \A e \in Cards : \E f \in OwnOffers(e.order) : f.price = e.price
    BY <2>7
  <2>10. {e.order : e \in Cards} =
            {o \in Order : cache.order[o].status = "have an offer" /\ OwnOffers(o) # {}}
    <3>1. ASSUME NEW e \in Cards
          PROVE  /\ e.order \in Order /\ cache.order[e.order].status = "have an offer"
                 /\ OwnOffers(e.order) # {}
      BY <2>7
    <3>2. {e.order : e \in Cards} \subseteq
             {o \in Order : cache.order[o].status = "have an offer" /\ OwnOffers(o) # {}}
      BY <3>1
    <3>3. \A o \in Order : cache.order[o].status = "have an offer" /\ OwnOffers(o) # {}
             => o \in {e.order : e \in Cards}
      BY <2>8
    <3> QED
      BY <3>2, <3>3
  <2> QED
    BY <2>9, <2>10
<1> QED
  BY <1>1, OffersInductive, PTL

-----------------------------------------------------------------------------
(* AwardedOrders.                                                          *)

\* On a phone that listens for one courier only, each of the two arrays is what
\* was last told of his orders, unless a first report is still to come: the
\* current orders are their documents, and the past ones have their status or,
\* after a change, none.
AwardsFollow ==
    \A c \in Courier :
       (\A q \in DOMAIN told \cup starting : q.of \in {none, c}) =>
          /\ Awarded(c) \in DOMAIN told \ starting => assign = told[Awarded(c)]
          /\ Past(c) \in DOMAIN told \ starting =>
                /\ DOMAIN past = DOMAIN told[Past(c)]
                /\ \A o \in DOMAIN past : past[o] \in {"", told[Past(c)][o].status}

\* What the pages show, and their arrays, are orders; an order without status
\* changed since the page appeared.
AwardsListed ==
    /\ DOMAIN assign \subseteq Order /\ DOMAIN past \subseteq Order
    /\ shown \in [Page -> SUBSET Order]
    /\ \A o \in DOMAIN past : past[o] = "" => o \in changed

AwardsInv == PhoneTypeOK /\ AwardsListed /\ AwardsFollow

listed == <<assign, past, changed, shown>>

\* What a step of the two pages may be.
LEMMA AwardsSteps ==
    ASSUME PhoneTypeOK, AwardsListed, [AwardsNext]_awardsVars
    PROVE  \/ /\ Listen({Awarded(user), Mine(user)})
              /\ UNCHANGED <<server, user, cache, told, past, changed, shown>>
              /\ DOMAIN assign' = {}
           \/ /\ Listen({Past(user), Mine(user)})
              /\ UNCHANGED <<server, user, cache, told, assign, shown>>
              /\ DOMAIN past' = {}
           \/ \E q \in DOMAIN told \cup starting :
                 /\ q.on = "awarded" /\ Tell(q, {})
                 /\ assign' = Answer(q, cache) /\ UNCHANGED <<past, changed, shown>>
           \/ \E q \in DOMAIN told \cup starting :
                 /\ q.on = "past" /\ Tell(q, {})
                 /\ past' = [o \in DOMAIN Answer(q, cache) |->
                                IF o \in Changed(q) THEN "" ELSE Answer(q, cache)[o].status]
                 /\ changed' = changed \cup Changed(q)
                 /\ UNCHANGED <<assign, shown>>
           \/ \E q \in DOMAIN told \cup starting :
                 /\ q.on \notin {"awarded", "past"}
                 /\ Tell(q, {}) \/ Tell(q, {Offered})
                 /\ UNCHANGED listed
           \/ /\ UNCHANGED <<phoneVars, assign, past, changed>>
              /\ shown' \in [Page -> SUBSET Order]
           \/ (\E c \in Courier : SignIn(c)) /\ UNCHANGED listed
           \/ Writes /\ UNCHANGED listed
           \/ Sync /\ UNCHANGED listed
           \/ UNCHANGED <<phoneVars, listed>>
<1> USE DEF awards, pages, arrays, listed
<1>0. user \in Courier /\ db.offers \subseteq OfferDoc /\ TRUE \in BOOLEAN /\ FALSE \in BOOLEAN
  BY DEF PhoneTypeOK, Database
<1>1. ASSUME VisitCurrent
      PROVE  /\ Listen({Awarded(user), Mine(user)})
             /\ UNCHANGED <<server, user, cache, told, past, changed, shown>>
             /\ DOMAIN assign' = {}
  <2>1. {Awarded(user)} \cup {Mine(user)} = {Awarded(user), Mine(user)}
    OBVIOUS
  <2> QED
    BY <1>1, <2>1 DEF VisitCurrent, Open, Listen, NoAwards
<1>2. ASSUME VisitPast
      PROVE  /\ Listen({Past(user), Mine(user)})
             /\ UNCHANGED <<server, user, cache, told, assign, shown>>
             /\ DOMAIN past' = {}
  <2>1. {Past(user)} \cup {Mine(user)} = {Past(user), Mine(user)}
    OBVIOUS
  <2> QED
    BY <1>2, <2>1 DEF VisitPast, Open, Listen, NoAwards
<1>3. ASSUME NEW q \in DOMAIN told \cup starting, ReportAwarded(q)
      PROVE  /\ q.on = "awarded" /\ Tell(q, {})
             /\ assign' = Answer(q, cache) /\ UNCHANGED <<past, changed, shown>>
  BY <1>3 DEF ReportAwarded
<1>4. ASSUME NEW q \in DOMAIN told \cup starting, ReportPast(q)
      PROVE  /\ q.on = "past" /\ Tell(q, {})
             /\ past' = [o \in DOMAIN Answer(q, cache) |->
                            IF o \in Changed(q) THEN "" ELSE Answer(q, cache)[o].status]
             /\ changed' = changed \cup Changed(q)
             /\ UNCHANGED <<assign, shown>>
  BY <1>4 DEF ReportPast
<1>5. ASSUME NEW q \in DOMAIN told \cup starting, ReportBids(q) \/ ReportBidOrders(q)
      PROVE  /\ q.on \notin {"awarded", "past"}
             /\ Tell(q, {}) \/ Tell(q, {Offered})
             /\ UNCHANGED listed
  BY <1>5 DEF ReportBids, ReportBidOrders
<1>6. ASSUME NEW p \in Page, NEW k \in {"queued", "delayed"}, RenewCards(p, k)
      PROVE  /\ UNCHANGED <<phoneVars, assign, past, changed>>
             /\ shown' \in [Page -> SUBSET Order]
  <2>1. CurrentCards \subseteq Order /\ PastCards \subseteq Order
    BY DEF CurrentCards, PastCards, AwardsListed
  <2> QED
    BY <1>6, <2>1 DEF RenewCards, AwardsListed
<1>7. ASSUME NEW o \in Order, CancelOwnOffer(o)
      PROVE  Writes /\ UNCHANGED listed
  <2>1. Withdraw(TRUE, user, o)
    BY <1>0, <1>7 DEF CancelOwnOffer
  <2>2. Writes
    BY <1>0, <2>1 DEF Writes
  <2> QED
    BY <1>7, <2>2 DEF CancelOwnOffer, Hide
<1>8. ASSUME NEW o \in Order, CancelOwnOrder(o)
      PROVE  Writes /\ UNCHANGED listed
  <2>1. CancelOrder(TRUE, o)
    BY <1>0, <1>8 DEF CancelOwnOrder
  <2>2. Writes
    BY <1>0, <2>1 DEF Writes
  <2> QED
    BY <1>8, <2>2 DEF CancelOwnOrder, Hide
<1>9. ASSUME NEW c \in Courier, AwardsSignIn(c)
      PROVE  SignIn(c) /\ UNCHANGED listed
  BY <1>9 DEF AwardsSignIn
<1>10. ASSUME AwardsHere
       PROVE  Writes /\ UNCHANGED listed
  <2> SUFFICES Writes
    BY <1>10 DEF AwardsHere
  <2>1. CASE \E o \in Order, p \in Price : AddOffer(TRUE, user, o, p)
    BY <1>0, <2>1 DEF Writes
  <2>2. CASE \E f \in OfferDoc : PostOffer(TRUE, f)
    BY <1>0, <2>2 DEF Writes
  <2>3. CASE \E c \in Courier, o \in Order : DeleteOffers(TRUE, c, o)
    BY <1>0, <2>3 DEF Writes
  <2>4. CASE \E o \in shown["current"] : Complete(TRUE, o)
    <3>1. shown["current"] \subseteq Order
      BY DEF AwardsListed, Page
    <3>2. \E o \in Order : Complete(TRUE, o)
      BY <2>4, <3>1
    <3> QED
      BY <1>0, <3>2 DEF Writes
  <2> QED
    BY <1>10, <2>1, <2>2, <2>3, <2>4 DEF AwardsHere
<1>11. ASSUME AwardsElsewhere
       PROVE  Writes /\ UNCHANGED listed
  <2> SUFFICES Writes
    BY <1>11 DEF AwardsElsewhere
  <2>1. CASE \E c \in Courier, o \in Order, p \in Price : AddOffer(FALSE, c, o, p)
    BY <1>0, <2>1 DEF Writes
  <2>2. CASE \E f \in OfferDoc : PostOffer(FALSE, f)
    BY <1>0, <2>2 DEF Writes
  <2>3. CASE \E c \in Courier, o \in Order : Withdraw(FALSE, c, o) \/ DeleteOffers(FALSE, c, o)
    BY <1>0, <2>3 DEF Writes
  <2>4. CASE \E f \in db.offers : AcceptOffer(f)
    BY <1>0, <2>4 DEF Writes
  <2>5. CASE \E o \in Order : \/ CancelOrder(FALSE, o)
                              \/ PurgeOffers(FALSE, o)
                              \/ Complete(FALSE, o)
    BY <1>0, <2>5 DEF Writes
  <2> QED
    BY <1>11, <2>1, <2>2, <2>3, <2>4, <2>5 DEF AwardsElsewhere
<1>12. ASSUME AwardsCatchUp
       PROVE  Sync /\ UNCHANGED listed
  BY <1>12 DEF AwardsCatchUp
<1>13. ASSUME UNCHANGED awardsVars
       PROVE  UNCHANGED <<phoneVars, listed>>
  BY <1>13 DEF awardsVars
<1> HIDE DEF awards, pages, arrays, listed
<1>14. CASE AwardsNext
  <2>1. CASE VisitCurrent \/ VisitPast
    BY <1>1, <1>2, <2>1
  <2>2. CASE \E q \in DOMAIN told \cup starting : AwardsReport(q)
    BY <1>3, <1>4, <1>5, <2>2 DEF AwardsReport
  <2>3. CASE \E p \in Page, k \in {"queued", "delayed"} : RenewCards(p, k)
    BY <1>6, <2>3
  <2>4. CASE \/ \E o \in Order : CancelOwnOffer(o) \/ CancelOwnOrder(o)
             \/ AwardsHere \/ AwardsElsewhere
    BY <1>7, <1>8, <1>10, <1>11, <2>4
  <2>5. CASE (\E c \in Courier : AwardsSignIn(c)) \/ AwardsCatchUp
    BY <1>9, <1>12, <2>5
  <2> QED
    BY <1>14, <2>1, <2>2, <2>3, <2>4, <2>5 DEF AwardsNext
<1> QED
  BY <1>13, <1>14

\* What a listener of the courier's orders is told is kept until the next time.
LEMMA AwardsToldElse ==
    ASSUME PhoneTypeOK, NEW q \in DOMAIN told \cup starting, NEW Q \in SUBSET Query, Tell(q, Q),
           NEW c \in Courier, \A k \in DOMAIN told' \cup starting' : k.of \in {none, c},
           NEW k \in DOMAIN told' \ starting'
    PROVE  /\ \A j \in DOMAIN told \cup starting : j.of \in {none, c}
           /\ q \in Query /\ q.of \in {none, c}
           /\ told'[q] = Answer(q, cache)
           /\ k # q => k \in DOMAIN told \ starting /\ told'[k] = told[k]
<1>1. /\ DOMAIN told' = DOMAIN told \cup {q} /\ told'[q] = Answer(q, cache)
      /\ \A j \in DOMAIN told : j # q => told'[j] = told[j]
      /\ DOMAIN told' \cup starting' = DOMAIN told \cup starting \cup Q
      /\ \A j \in starting : j # q => j \in starting'
  BY Telling
<1>2. q \in Query /\ q \in DOMAIN told'
  BY <1>1 DEF PhoneTypeOK
<1> QED
  BY <1>1, <1>2

LEMMA AwardsStep == AwardsInv /\ [AwardsNext]_awardsVars => AwardsInv'
<1> SUFFICES ASSUME AwardsInv, [AwardsNext]_awardsVars PROVE AwardsInv'
  OBVIOUS
<1>0. PhoneTypeOK /\ AwardsListed /\ user \in Courier
  BY DEF AwardsInv, PhoneTypeOK
<1>a. \A c : Awarded(c)' = Awarded(c) /\ Past(c)' = Past(c)
  BY DEF Awarded, Past
<1>b. {} \in SUBSET Query /\ {Offered} \in SUBSET Query
  BY Kinds
<1>1. ASSUME PhoneTypeOK', AwardsListed',
             ASSUME NEW c \in Courier,
                    \A q \in DOMAIN told' \cup starting' : q.of \in {none, c}
             PROVE  /\ Awarded(c) \in DOMAIN told' \ starting' => assign' = told'[Awarded(c)]
                    /\ Past(c) \in DOMAIN told' \ starting' =>
                          /\ DOMAIN past' = DOMAIN told'[Past(c)]
                          /\ \A o \in DOMAIN past' :
                                past'[o] \in {"", told'[Past(c)][o].status}
      PROVE  AwardsInv'
  BY <1>1, <1>a DEF AwardsInv, AwardsFollow
<1>2. ASSUME NEW c \in Courier, \A q \in DOMAIN told \cup starting : q.of \in {none, c}
      PROVE  /\ Awarded(c) \in DOMAIN told \ starting => assign = told[Awarded(c)]
             /\ Past(c) \in DOMAIN told \ starting =>
                   /\ DOMAIN past = DOMAIN told[Past(c)]
                   /\ \A o \in DOMAIN past : past[o] \in {"", told[Past(c)][o].status}
  BY <1>2 DEF AwardsInv, AwardsFollow
<1>3. ASSUME Listen({Awarded(user), Mine(user)}),
             UNCHANGED <<server, user, cache, told, past, changed, shown>>, DOMAIN assign' = {}
      PROVE  AwardsInv'
  <2>1. /\ Awarded(user) \in Query /\ Awarded(user).on = "awarded" /\ Awarded(user).of = user
        /\ Mine(user) \in Query /\ Mine(user).on = "mine"
        /\ \A c \in Courier : Past(c).on = "past"
    BY <1>0, Kinds
  <2>2. PhoneTypeOK' /\ starting' = starting \cup {Awarded(user), Mine(user)}
    BY <1>0, <1>3, <2>1, Listening
  <2>3. AwardsListed'
    BY <1>0, <1>3 DEF AwardsListed
  <2>4. ASSUME NEW c \in Courier, \A q \in DOMAIN told' \cup starting' : q.of \in {none, c}
        PROVE  c = user
    BY <1>0, <2>1, <2>2, <2>4, PhoneAssumption
  <2> QED
    BY <1>1, <1>2, <1>3, <2>1, <2>2, <2>3, <2>4
<1>4. ASSUME Listen({Past(user), Mine(user)}),
             UNCHANGED <<server, user, cache, told, assign, shown>>, DOMAIN past' = {}
      PROVE  AwardsInv'
  <2>1. /\ Past(user) \in Query /\ Past(user).on = "past" /\ Past(user).of = user
        /\ Mine(user) \in Query /\ Mine(user).on = "mine"
        /\ \A c \in Courier : Awarded(c).on = "awarded"
    BY <1>0, Kinds
  <2>2. PhoneTypeOK' /\ starting' = starting \cup {Past(user), Mine(user)}
    BY <1>0, <1>4, <2>1, Listening
  <2>3. AwardsListed'
    BY <1>0, <1>4 DEF AwardsListed
  <2>4. ASSUME NEW c \in Courier, \A q \in DOMAIN told' \cup starting' : q.of \in {none, c}
        PROVE  c = user
    BY <1>0, <2>1, <2>2, <2>4, PhoneAssumption
  <2> QED
    BY <1>1, <1>2, <1>4, <2>1, <2>2, <2>3, <2>4
<1>5. ASSUME NEW q \in DOMAIN told \cup starting, q.on = "awarded", Tell(q, {}),
             assign' = Answer(q, cache), UNCHANGED <<past, changed, shown>>
      PROVE  AwardsInv'
  <2>0. Tell(q, {})
    BY <1>5
  <2>1. PhoneTypeOK' /\ q \in Query
    BY <1>0, <1>b, <2>0, Telling DEF PhoneTypeOK
  <2>2. AwardsListed'
    <3>1. DOMAIN assign' \subseteq Order
      BY <1>0, <1>5, <2>1, Answers
    <3> QED
      BY <1>0, <1>5, <3>1 DEF AwardsListed
  <2>3. ASSUME NEW c \in Courier, \A k \in DOMAIN told' \cup starting' : k.of \in {none, c}
        PROVE  /\ Awarded(c) \in DOMAIN told' \ starting' => assign' = told'[Awarded(c)]
               /\ Past(c) \in DOMAIN told' \ starting' =>
                     /\ DOMAIN past' = DOMAIN told'[Past(c)]
                     /\ \A o \in DOMAIN past' : past'[o] \in {"", told'[Past(c)][o].status}
    <3>1. Past(c).on = "past" /\ q # Past(c)
      BY <1>5, Kinds
    <3>2. ASSUME Awarded(c) \in DOMAIN told' \ starting'
          PROVE  assign' = told'[Awarded(c)]
      <4>1. q.of \in {none, c} /\ told'[q] = Answer(q, cache)
        BY <1>0, <1>b, <2>0, <2>3, <3>2, AwardsToldElse
      <4>2. q.of \in Courier /\ q = Awarded(q.of)
        BY <1>5, <2>1, Kinds
      <4>3. q = Awarded(c)
        BY <4>1, <4>2, PhoneAssumption
      <4> QED
        BY <1>5, <4>1, <4>3
    <3>3. ASSUME Past(c) \in DOMAIN told' \ starting'
          PROVE  /\ DOMAIN past' = DOMAIN told'[Past(c)]
                 /\ \A o \in DOMAIN past' : past'[o] \in {"", told'[Past(c)][o].status}
      <4>1. /\ \A j \in DOMAIN told \cup starting : j.of \in {none, c}
            /\ Past(c) \in DOMAIN told \ starting /\ told'[Past(c)] = told[Past(c)]
        BY <1>0, <1>b, <2>0, <2>3, <3>1, <3>3, AwardsToldElse
      <4> QED
        BY <1>2, <1>5, <4>1
    <3> QED
      BY <3>2, <3>3
  <2> QED
    BY <1>1, <2>1, <2>2, <2>3
<1>6. ASSUME NEW q \in DOMAIN told \cup starting, q.on = "past", Tell(q, {}),
             past' = [o \in DOMAIN Answer(q, cache) |->
                         IF o \in Changed(q) THEN "" ELSE Answer(q, cache)[o].status],
             changed' = changed \cup Changed(q), UNCHANGED <<assign, shown>>
      PROVE  AwardsInv'
  <2>0. Tell(q, {})
    BY <1>6
  <2>1. PhoneTypeOK' /\ q \in Query
    BY <1>0, <1>b, <2>0, Telling DEF PhoneTypeOK
  <2>2. /\ DOMAIN past' = DOMAIN Answer(q, cache)
        /\ \A o \in DOMAIN past' : past'[o] \in {"", Answer(q, cache)[o].status}
    BY <1>6
  <2>3. AwardsListed'
    <3>1. DOMAIN past' \subseteq Order /\ \A o \in DOMAIN past' : Answer(q, cache)[o] \in OrderDoc
      BY <1>0, <1>6, <2>1, <2>2, Answers
    <3>2. \A o \in DOMAIN past' : Answer(q, cache)[o].status # ""
      BY <3>1 DEF OrderDoc, Status
    <3>3. \A o \in DOMAIN past' : past'[o] = "" => o \in changed'
      BY <1>6, <3>2
    <3> QED
      BY <1>0, <1>6, <3>1, <3>3 DEF AwardsListed
  <2>4. ASSUME NEW c \in Courier, \A k \in DOMAIN told' \cup starting' : k.of \in {none, c}
        PROVE  /\ Awarded(c) \in DOMAIN told' \ starting' => assign' = told'[Awarded(c)]
               /\ Past(c) \in DOMAIN told' \ starting' =>
                     /\ DOMAIN past' = DOMAIN told'[Past(c)]
                     /\ \A o \in DOMAIN past' : past'[o] \in {"", told'[Past(c)][o].status}
    <3>1. Awarded(c).on = "awarded" /\ q # Awarded(c)
      BY <1>6, Kinds
    <3>2. ASSUME Past(c) \in DOMAIN told' \ starting'
          PROVE  /\ DOMAIN past' = DOMAIN told'[Past(c)]
                 /\ \A o \in DOMAIN past' : past'[o] \in {"", told'[Past(c)][o].status}
      <4>1. q.of \in {none, c} /\ told'[q] = Answer(q, cache)
        BY <1>0, <1>b, <2>0, <2>4, <3>2, AwardsToldElse
      <4>2. q.of \in Courier /\ q = Past(q.of)
        BY <1>6, <2>1, Kinds
      <4>3. q = Past(c)
        BY <4>1, <4>2, PhoneAssumption
      <4> QED
        BY <2>2, <4>1, <4>3
    <3>3. ASSUME Awarded(c) \in DOMAIN told' \ starting'
          PROVE  assign' = told'[Awarded(c)]
      <4>1. /\ \A j \in DOMAIN told \cup starting : j.of \in {none, c}
            /\ Awarded(c) \in DOMAIN told \ starting /\ told'[Awarded(c)] = told[Awarded(c)]
        BY <1>0, <1>b, <2>0, <2>4, <3>1, <3>3, AwardsToldElse
      <4> QED
        BY <1>2, <1>6, <4>1
    <3> QED
      BY <3>2, <3>3
  <2> QED
    BY <1>1, <2>1, <2>3, <2>4
<1>c. UNCHANGED listed => UNCHANGED <<assign, past, changed, shown>>
  BY DEF listed
<1>d. UNCHANGED <<assign, past, changed, shown>> => AwardsListed'
  BY <1>0 DEF AwardsListed
<1>7. ASSUME NEW q \in DOMAIN told \cup starting, q.on \notin {"awarded", "past"},
             NEW Q \in SUBSET Query, Tell(q, Q), UNCHANGED listed
      PROVE  AwardsInv'
  <2>1. PhoneTypeOK'
    BY <1>0, <1>7, Telling
  <2>2. ASSUME NEW c \in Courier, \A k \in DOMAIN told' \cup starting' : k.of \in {none, c},
               NEW k \in {Awarded(c), Past(c)}, k \in DOMAIN told' \ starting'
        PROVE  /\ \A j \in DOMAIN told \cup starting : j.of \in {none, c}
               /\ k \in DOMAIN told \ starting /\ told'[k] = told[k]
    <3>1. q # k
      BY <1>7, Kinds
    <3> QED
      BY <1>0, <1>7, <2>2, <3>1, AwardsToldElse
  <2>3. ASSUME NEW c \in Courier, \A k \in DOMAIN told' \cup starting' : k.of \in {none, c},
               Awarded(c) \in DOMAIN told' \ starting'
        PROVE  assign' = told'[Awarded(c)]
    <3>1. /\ \A j \in DOMAIN told \cup starting : j.of \in {none, c}
          /\ Awarded(c) \in DOMAIN told \ starting /\ told'[Awarded(c)] = told[Awarded(c)]
      BY <2>2, <2>3
    <3> QED
      BY <1>2, <1>7, <1>c, <3>1
  <2>4. ASSUME NEW c \in Courier, \A k \in DOMAIN told' \cup starting' : k.of \in {none, c},
               Past(c) \in DOMAIN told' \ starting'
        PROVE  /\ DOMAIN past' = DOMAIN told'[Past(c)]
               /\ \A o \in DOMAIN past' : past'[o] \in {"", told'[Past(c)][o].status}
    <3>1. /\ \A j \in DOMAIN told \cup starting : j.of \in {none, c}
          /\ Past(c) \in DOMAIN told \ starting /\ told'[Past(c)] = told[Past(c)]
      BY <2>2, <2>4
    <3> QED
      BY <1>2, <1>7, <1>c, <3>1
  <2> QED
    BY <1>1, <1>7, <1>c, <1>d, <2>1, <2>3, <2>4
<1>8. ASSUME PhoneTypeOK', AwardsListed', UNCHANGED <<told, starting, assign, past>>
      PROVE  AwardsInv'
  BY <1>1, <1>2, <1>8
<1>9. ASSUME NEW c \in Courier, SignIn(c), UNCHANGED listed
      PROVE  AwardsInv'
  BY <1>0, <1>8, <1>9, <1>c, <1>d, SigningIn
<1>10. ASSUME Writes, UNCHANGED listed
       PROVE  AwardsInv'
  BY <1>0, <1>8, <1>10, <1>c, <1>d, Writing, WritesType
<1>11. ASSUME Sync, UNCHANGED listed
       PROVE  AwardsInv'
  BY <1>0, <1>8, <1>11, <1>c, <1>d, CatchingUp
<1>12. ASSUME UNCHANGED <<phoneVars, listed>>
       PROVE  AwardsInv'
  BY <1>0, <1>8, <1>12, <1>c, <1>d, Idling DEF phoneVars, phone
<1>13. ASSUME UNCHANGED <<phoneVars, assign, past, changed>>, shown' \in [Page -> SUBSET Order]
       PROVE  AwardsInv'
  <2>1. AwardsListed'
    BY <1>0, <1>13 DEF AwardsListed
  <2> QED
    BY <1>0, <1>8, <1>13, <2>1, Idling DEF phoneVars, phone
<1> QED
  BY <1>0, <1>b, <1>3, <1>4, <1>5, <1>6, <1>7, <1>9, <1>10, <1>11, <1>12, <1>13, AwardsSteps

LEMMA AwardsInductive == AwardsSpec => []AwardsInv
<1>1. AwardsInit => AwardsInv
  <2> SUFFICES ASSUME AwardsInit PROVE AwardsInv
    OBVIOUS
  <2>1. PhoneTypeOK /\ DOMAIN told = {}
    BY Starting DEF AwardsInit
  <2> QED
    BY <2>1 DEF AwardsInit, NoAwards, AwardsInv, AwardsFollow, AwardsListed, Page
<1> QED
  BY <1>1, AwardsStep, PTL DEF AwardsSpec

\* What getCards puts on "Current Orders" when nothing is left to report are the
\* orders awarded to the courier that are neither cancelled nor completed, except
\* the one he last cancelled or took his offer back from (getCourierOrderAssign,
\* getCards).
THEOREM CurrentOrdersAreShown == AwardsSpec => CurrentCardsAreUnderWay
<1>1. AwardsInv /\ [AwardsNext]_awardsVars => [CurrentRenewed]_awardsVars
  <2> SUFFICES ASSUME AwardsInv, NEW k \in {"queued", "delayed"}, RenewCards("current", k),
                      AwardsSettled, Alone, Awarded(user) \in DOMAIN told
               PROVE  shown'["current"] = {o \in Order : UnderWay(o)} \ {cancelCardOrderId}
    BY DEF CurrentRenewed
  <2>0. /\ PhoneTypeOK /\ user \in Courier /\ Awarded(user) \in Query
        /\ Awarded(user).on = "awarded" /\ Awarded(user).of = user
    BY Kinds DEF AwardsInv, PhoneTypeOK
  <2>1. assign = told[Awarded(user)]
    BY <2>0 DEF AwardsInv, AwardsFollow, Alone, AwardsSettled
  <2>2. told[Awarded(user)] = Answer(Awarded(user), cache)
    BY DEF AwardsSettled, AllReported, Due
  <2>3. /\ DOMAIN assign = {o \in Order : Matches(Awarded(user), cache.order[o])}
        /\ \A o \in DOMAIN assign : assign[o] = cache.order[o]
    BY <2>0, <2>1, <2>2, Answers
  <2>4. \A r : Matches(Awarded(user), r) <=> r.courier = user
    BY <2>0 DEF Matches
  <2>5. CurrentCards = {o \in Order : UnderWay(o)} \ {cancelCardOrderId}
    BY <2>3, <2>4 DEF CurrentCards, UnderWay, Closed
  <2>6. shown'["current"] = CurrentCards
    BY DEF RenewCards, AwardsInv, AwardsListed, Page
  <2> QED
    BY <2>5, <2>6
<1> QED
  BY <1>1, AwardsInductive, PTL DEF AwardsSpec, CurrentCardsAreUnderWay

\* What getCards puts on "Past Orders" then are orders awarded to the courier
\* that are cancelled or completed, and it leaves one out only when that order
\* changed since the page appeared (getCourierOrderCancelledAndCompleted,
\* getCards).
THEOREM PastOrdersAreOver == AwardsSpec => PastCardsAreDone
<1>1. AwardsInv /\ [AwardsNext]_awardsVars => [PastRenewed]_awardsVars
  <2> SUFFICES ASSUME AwardsInv, NEW k \in {"queued", "delayed"}, RenewCards("past", k),
                      AwardsSettled, Alone, Past(user) \in DOMAIN told
               PROVE  /\ \A o \in shown'["past"] : Done(o)
                      /\ \A o \in Order : Done(o) => o \in shown'["past"] \cup changed
    BY DEF PastRenewed
  <2>0. /\ PhoneTypeOK /\ user \in Courier /\ Past(user) \in Query
        /\ Past(user).on = "past" /\ Past(user).of = user
    BY Kinds DEF AwardsInv, PhoneTypeOK
  <2>1. /\ DOMAIN past = DOMAIN told[Past(user)]
        /\ \A o \in DOMAIN past : past[o] \in {"", told[Past(user)][o].status}
    BY <2>0 DEF AwardsInv, AwardsFollow, Alone, AwardsSettled
  <2>2. told[Past(user)] = Answer(Past(user), cache)
    BY DEF AwardsSettled, AllReported, Due
  <2>3. /\ DOMAIN told[Past(user)] = {o \in Order : Matches(Past(user), cache.order[o])}
        /\ \A o \in DOMAIN told[Past(user)] : told[Past(user)][o] = cache.order[o]
    BY <2>0, <2>2, Answers
  <2>4. \A r : Matches(Past(user), r) <=> r.courier = user
    BY <2>0 DEF Matches
  <2>5. \A o \in DOMAIN past : past[o] \in {"", cache.order[o].status}
    BY <2>1, <2>3
  <2>6. \A o \in DOMAIN past : past[o] = "" => o \in changed
    BY DEF AwardsInv, AwardsListed
  <2>7. shown'["past"] = PastCards
    BY DEF RenewCards, AwardsInv, AwardsListed, Page
  <2> QED
    BY <2>1, <2>3, <2>4, <2>5, <2>6, <2>7 DEF PastCards, Done, Closed
<1> QED
  BY <1>1, AwardsInductive, PTL DEF AwardsSpec, PastCardsAreDone

-----------------------------------------------------------------------------
(* CourierBoard.                                                           *)

Waits(o, d) == d.order[o].status = "waiting for offer"

\* An order on which nobody cancelled an offer no longer waits once somebody
\* made one: not in the database, and not on the phone when it knows the offer,
\* has told the courier of it, or made it itself.
BidsTaken ==
    \A o \in Order \ disputed :
       /\ Waits(o, db) => Waits(o, cache)
       /\ \A f \in db.offers : f.order = o => ~Waits(o, db)
       /\ \A f \in cache.offers : f.order = o => ~Waits(o, cache)
       /\ \A b \in posting : b[2].order = o => ~Waits(o, db) /\ (b[1] => ~Waits(o, cache))
       /\ Mine(user) \in DOMAIN told =>
             \A f \in DOMAIN told[Mine(user)] : f.order = o => ~Waits(o, cache)

\* The page attaches its three listeners together, for one courier, and its ids
\* are those of his offers as last told, unless a first report is to come.
BoardListens ==
    /\ \A q \in DOMAIN told \cup starting : q.on = "mine" => q = Mine(user)
    /\ DOMAIN told \cup starting # {} =>
          {Waiting, Offered, Mine(user)} \subseteq DOMAIN told \cup starting
    /\ cards # {} => DOMAIN told # {}
    /\ Mine(user) \in DOMAIN told \ starting => orderID = OrdersOf(told[Mine(user)])

\* The courier was told of an offer of his on o.
OnBid(o) == Mine(user) \in DOMAIN told /\ o \in OrdersOf(told[Mine(user)])

\* Once the cards were renewed for the offers last told, an order the courier
\* has bid on is neither among the waiting ones nor on a card.
BidsLeftOut ==
    "queued" \notin refresh =>
       \A o \in Order \ disputed :
          OnBid(o) => /\ o \notin Listed(Waiting)
                      /\ Mine(user) \notin starting => o \notin cards

BoardInv == PhoneTypeOK /\ BidsTaken /\ BoardListens /\ BidsLeftOut

\* What a step of the page may be.
LEMMA BoardSteps ==
    ASSUME PhoneTypeOK, [BoardNext]_boardVars
    PROVE  \/ /\ Listen({Waiting, Offered, Mine(user)})
              /\ orderID' = {} /\ refresh' = refresh \cup {"delayed"}
              /\ UNCHANGED <<server, user, cache, told, cards>>
           \/ \E q \in DOMAIN told \cup starting :
                 /\ Tell(q, {})
                 /\ q.on = "mine" => /\ orderID' = OrdersOf(Answer(q, cache))
                                     /\ refresh' = refresh \cup {"queued"}
                 /\ q.on # "mine" => UNCHANGED <<orderID, refresh>>
                 /\ UNCHANGED cards
           \/ \E k \in refresh :
                 /\ k = "queued" => AllReported
                 /\ refresh' = refresh \ {k}
                 /\ cards' = Listed(Waiting) \cup (Listed(Offered) \ orderID)
                 /\ UNCHANGED <<phoneVars, orderID>>
           \/ Writes /\ UNCHANGED <<orderID, refresh, cards>>
           \/ Sync /\ UNCHANGED <<orderID, refresh, cards>>
           \/ UNCHANGED <<phoneVars, orderID, refresh, cards>>
<1> USE DEF board
<1>0. db.offers \subseteq OfferDoc /\ TRUE \in BOOLEAN /\ FALSE \in BOOLEAN
  BY DEF PhoneTypeOK, Database
<1>1. ASSUME VisitBoard
      PROVE  /\ Listen({Waiting, Offered, Mine(user)})
             /\ orderID' = {} /\ refresh' = refresh \cup {"delayed"}
             /\ UNCHANGED <<server, user, cache, told, cards>>
  BY <1>1 DEF VisitBoard, Listen, server
<1>2. ASSUME NEW q \in DOMAIN told \cup starting, Report(q)
      PROVE  /\ Tell(q, {})
             /\ q.on = "mine" => /\ orderID' = OrdersOf(Answer(q, cache))
                                 /\ refresh' = refresh \cup {"queued"}
             /\ q.on # "mine" => UNCHANGED <<orderID, refresh>>
             /\ UNCHANGED cards
  BY <1>2 DEF Report
<1>3. ASSUME NEW k \in refresh, GetCards(k)
      PROVE  /\ k = "queued" => AllReported
             /\ refresh' = refresh \ {k}
             /\ cards' = Listed(Waiting) \cup (Listed(Offered) \ orderID)
             /\ UNCHANGED <<phoneVars, orderID>>
  BY <1>3 DEF GetCards, phoneVars, phone, server
<1>4. ASSUME NEW here \in BOOLEAN, NEW c \in Courier, NEW o \in Order, NEW p \in Price,
             MakeOffer(here, c, o, p)
      PROVE  Writes /\ UNCHANGED <<orderID, refresh, cards>>
  <2>1. AddOffer(here, c, o, p)
    BY <1>4 DEF MakeOffer
  <2>2. Writes
    BY <2>1 DEF Writes
  <2> QED
    BY <1>4, <2>2 DEF MakeOffer
<1>5. ASSUME NEW here \in BOOLEAN, OtherWrites(here)
      PROVE  Writes /\ UNCHANGED <<orderID, refresh, cards>>
  <2> SUFFICES Writes
    BY <1>5 DEF OtherWrites
  <2>1. CASE \E f \in OfferDoc : PostOffer(here, f)
    BY <2>1 DEF Writes
  <2>2. CASE \E c \in Courier, o \in Order : Withdraw(here, c, o) \/ DeleteOffers(here, c, o)
    BY <2>2 DEF Writes
  <2>3. CASE \E o \in Order : \/ Reopen(here, o) \/ CancelOrder(here, o)
                              \/ PurgeOffers(here, o)
    BY <2>3 DEF Writes
  <2>4. CASE \E f \in db.offers : AcceptOffer(f)
    BY <1>0, <2>4 DEF Writes
  <2> QED
    BY <1>5, <2>1, <2>2, <2>3, <2>4 DEF OtherWrites
<1>6. ASSUME BoardCatchUp
      PROVE  Sync /\ UNCHANGED <<orderID, refresh, cards>>
  BY <1>6 DEF BoardCatchUp
<1>7. ASSUME UNCHANGED boardVars
      PROVE  UNCHANGED <<phoneVars, orderID, refresh, cards>>
  BY <1>7 DEF boardVars, phoneVars, phone, server
<1>8. CASE BoardNext
  BY <1>1, <1>2, <1>3, <1>4, <1>5, <1>6, <1>8 DEF BoardNext
<1> QED
  BY <1>7, <1>8

LEMMA BoardKeeps ==
    ASSUME PhoneTypeOK, [BoardNext]_boardVars
    PROVE  PhoneTypeOK' /\ user' = user /\ Mine(user)' = Mine(user) /\ Waiting' = Waiting
<1>1. PhoneTypeOK' /\ user' = user
  <2>0. {Waiting, Offered, Mine(user)} \in SUBSET Query /\ {} \in SUBSET Query
    BY Kinds DEF PhoneTypeOK
  <2>1. ASSUME Listen({Waiting, Offered, Mine(user)}), UNCHANGED <<server, user, cache, told>>
        PROVE  PhoneTypeOK' /\ user' = user
    BY <2>0, <2>1, Listening
  <2>2. ASSUME NEW q \in DOMAIN told \cup starting, Tell(q, {})
        PROVE  PhoneTypeOK' /\ user' = user
    BY <2>0, <2>2, Telling
  <2>3. ASSUME Writes PROVE PhoneTypeOK' /\ user' = user
    BY <2>3, Writing, WritesType
  <2>4. ASSUME Sync PROVE PhoneTypeOK' /\ user' = user
    BY <2>4, CatchingUp
  <2>5. ASSUME UNCHANGED phoneVars PROVE PhoneTypeOK' /\ user' = user
    BY <2>5, Idling DEF phoneVars, phone
  <2> QED
    BY <2>1, <2>2, <2>3, <2>4, <2>5, BoardSteps
<1>2. Mine(user)' = Mine(user) /\ Waiting' = Waiting
  BY <1>1 DEF Mine, Waiting
<1> QED
  BY <1>1, <1>2

\* What the listeners of the page are told by a snapshot of the cache.
LEMMA BoardAnswers ==
    ASSUME PhoneTypeOK
    PROVE  /\ Mine(user) \in Query /\ Mine(user).on = "mine"
           /\ Waiting.on # "mine" /\ Offered.on # "mine"
           /\ DOMAIN Answer(Mine(user), cache) = {f \in cache.offers : f.courier = user}
           /\ DOMAIN Answer(Waiting, cache) = {o \in Order : Waits(o, cache)}
<1>1. /\ user \in Courier /\ Mine(user) \in Query /\ Mine(user).on = "mine"
      /\ Mine(user).of = user
      /\ Waiting \in Query /\ Waiting.on = "waiting" /\ Offered.on = "offered"
  BY Kinds DEF PhoneTypeOK
<1>2. \A r : Matches(Waiting, r) <=> r.status = "waiting for offer"
  BY <1>1 DEF Matches
<1>3. DOMAIN Answer(Mine(user), cache) = {f \in cache.offers : f.courier = user}
  BY <1>1, Answers
<1>4. DOMAIN Answer(Waiting, cache) = {o \in Order : Matches(Waiting, cache.order[o])}
  BY <1>1, Answers
<1>5. DOMAIN Answer(Waiting, cache) = {o \in Order : Waits(o, cache)}
  BY <1>2, <1>4 DEF Waits
<1> QED
  BY <1>1, <1>3, <1>5

LEMMA BidsTakenStep ==
    ASSUME PhoneTypeOK, BidsTaken, [BoardNext]_boardVars
    PROVE  BidsTaken'
<1>0. Mine(user)' = Mine(user)
  BY BoardKeeps
<1>1. ASSUME UNCHANGED <<server, cache, told>> PROVE BidsTaken'
  BY <1>0, <1>1 DEF BidsTaken, Waits, server
<1>2. ASSUME NEW q \in DOMAIN told \cup starting, Tell(q, {})
      PROVE  BidsTaken'
  <2>1. /\ DOMAIN told' = DOMAIN told \cup {q} /\ told'[q] = Answer(q, cache)
        /\ \A k \in DOMAIN told : k # q => told'[k] = told[k]
        /\ UNCHANGED <<server, cache>>
    <3>1. {} \in SUBSET Query
      OBVIOUS
    <3> QED
      BY <1>2, <3>1, Telling
  <2>2. db' = db /\ posting' = posting /\ disputed' = disputed /\ cache' = cache
    BY <2>1 DEF server
  <2>3. ASSUME NEW o \in Order \ disputed, Mine(user) \in DOMAIN told',
               NEW f \in DOMAIN told'[Mine(user)], f.order = o
        PROVE  ~Waits(o, cache)
    <3>1. CASE q = Mine(user)
      <4>1. f \in cache.offers
        BY <2>1, <2>3, <3>1, BoardAnswers
      <4> QED
        BY <2>3, <4>1 DEF BidsTaken
    <3>2. CASE q # Mine(user)
      <4>1. Mine(user) \in DOMAIN told /\ f \in DOMAIN told[Mine(user)]
        BY <2>1, <2>3, <3>2
      <4> QED
        BY <2>3, <4>1 DEF BidsTaken
    <3> QED
      BY <3>1, <3>2
  <2> QED
    BY <1>0, <2>2, <2>3 DEF BidsTaken, Waits
<1>3. ASSUME Writes PROVE BidsTaken'
  <2>1. UNCHANGED <<user, told>> /\ disputed \subseteq disputed'
    BY <1>3, Writing, Written
  <2>2. ASSUME NEW o \in Order \ disputed'
        PROVE  /\ Waits(o, db') => Waits(o, db) /\ Waits(o, cache')
               /\ Waits(o, cache') => Waits(o, cache)
               /\ \A f \in db'.offers : f.order = o => ~Waits(o, db')
               /\ \A f \in cache'.offers : f.order = o => ~Waits(o, cache')
               /\ \A b \in posting' : b[2].order = o =>
                     ~Waits(o, db') /\ (b[1] => ~Waits(o, cache'))
    <3>0. OrderWritten(o) /\ OffersWritten /\ o \in Order \ disputed
      BY <1>3, <2>1, <2>2, Written
    <3>1. /\ Waits(o, db') => Waits(o, db) /\ Waits(o, cache')
          /\ Waits(o, cache') => Waits(o, cache)
      BY <2>2, <3>0 DEF OrderWritten, BidsTaken, Waits
    <3>2. ASSUME NEW f \in db'.offers, f.order = o PROVE ~Waits(o, db')
      <4>1. CASE f \in db.offers
        BY <3>0, <3>1, <3>2, <4>1 DEF BidsTaken
      <4>2. CASE f \notin db.offers
        <5>1. PICK b \in posting : b[2] = f
          BY <3>0, <3>2, <4>2 DEF OffersWritten
        <5> QED
          BY <3>0, <3>1, <3>2, <5>1 DEF BidsTaken
      <4> QED
        BY <4>1, <4>2
    <3>3. ASSUME NEW f \in cache'.offers, f.order = o PROVE ~Waits(o, cache')
      <4>1. CASE f \in cache.offers
        BY <3>0, <3>1, <3>3, <4>1 DEF BidsTaken
      <4>2. CASE f \notin cache.offers
        <5>1. PICK b \in posting : b[2] = f /\ b[1]
          BY <3>0, <3>3, <4>2 DEF OffersWritten
        <5> QED
          BY <3>0, <3>1, <3>3, <5>1 DEF BidsTaken
      <4> QED
        BY <4>1, <4>2
    <3>4. ASSUME NEW b \in posting', b[2].order = o
          PROVE  ~Waits(o, db') /\ (b[1] => ~Waits(o, cache'))
      <4>1. CASE b \in posting
        BY <3>0, <3>1, <3>4, <4>1 DEF BidsTaken
      <4>2. CASE b \notin posting
        BY <3>0, <3>4, <4>2 DEF OffersWritten, Waits
      <4> QED
        BY <4>1, <4>2
    <3> QED
      BY <3>1, <3>2, <3>3, <3>4
  <2> QED
    BY <1>0, <2>1, <2>2 DEF BidsTaken, Waits
<1>4. ASSUME Sync PROVE BidsTaken'
  <2>1. cache' = db /\ UNCHANGED <<server, told>>
    BY <1>4, CatchingUp
  <2>2. db' = db /\ posting' = posting /\ disputed' = disputed /\ told' = told
    BY <2>1 DEF server
  <2> QED
    BY <1>0, <2>1, <2>2 DEF BidsTaken, Waits
<1>5. ASSUME UNCHANGED phoneVars PROVE BidsTaken'
  BY <1>1, <1>5 DEF phoneVars, phone
<1> QED
  BY <1>1, <1>2, <1>3, <1>4, <1>5, BoardSteps

LEMMA BoardListensStep ==
    ASSUME PhoneTypeOK, BoardListens, [BoardNext]_boardVars
    PROVE  BoardListens'
<1>0. Mine(user)' = Mine(user) /\ Waiting' = Waiting /\ Offered' = Offered
  BY BoardKeeps DEF Offered
<1>1. ASSUME UNCHANGED <<told, starting, orderID, cards>> PROVE BoardListens'
  BY <1>0, <1>1 DEF BoardListens, OrdersOf
<1>2. ASSUME Listen({Waiting, Offered, Mine(user)}), UNCHANGED <<told, cards>>
      PROVE  BoardListens'
  <2>1. starting' = starting \cup {Waiting, Offered, Mine(user)}
    BY <1>2 DEF Listen
  <2>2. \A q \in DOMAIN told' \cup starting' : q.on = "mine" => q = Mine(user)
    BY <1>2, <2>1, BoardAnswers DEF BoardListens
  <2>3. {Waiting, Offered, Mine(user)} \subseteq DOMAIN told' \cup starting'
    BY <2>1
  <2>4. cards' # {} => DOMAIN told' # {}
    BY <1>2 DEF BoardListens
  <2>5. Mine(user) \notin DOMAIN told' \ starting'
    BY <2>1
  <2> QED
    BY <1>0, <2>2, <2>3, <2>4, <2>5 DEF BoardListens
<1>3. ASSUME NEW q \in DOMAIN told \cup starting, Tell(q, {}),
             q.on = "mine" => orderID' = OrdersOf(Answer(q, cache)),
             q.on # "mine" => UNCHANGED orderID,
             UNCHANGED cards
      PROVE  BoardListens'
  <2>1. /\ DOMAIN told' = DOMAIN told \cup {q} /\ told'[q] = Answer(q, cache)
        /\ \A k \in DOMAIN told : k # q => told'[k] = told[k]
        /\ DOMAIN told' \cup starting' = DOMAIN told \cup starting \cup {}
        /\ \A k \in starting : k # q => k \in starting'
    <3>1. {} \in SUBSET Query
      OBVIOUS
    <3> QED
      BY <1>3, <3>1, Telling
  <2>2. /\ \A k \in DOMAIN told' \cup starting' : k.on = "mine" => k = Mine(user)
        /\ {Waiting, Offered, Mine(user)} \subseteq DOMAIN told' \cup starting'
        /\ DOMAIN told' # {}
    BY <2>1 DEF BoardListens
  <2>3. ASSUME Mine(user) \in DOMAIN told' \ starting'
        PROVE  orderID' = OrdersOf(told'[Mine(user)])
    <3>1. CASE q = Mine(user)
      BY <1>3, <2>1, <3>1, BoardAnswers
    <3>2. CASE q # Mine(user)
      <4>1. q.on # "mine" /\ Mine(user) \in DOMAIN told \ starting
        BY <2>1, <2>3, <3>2 DEF BoardListens
      <4>2. told'[Mine(user)] = told[Mine(user)]
        BY <2>1, <3>2, <4>1
      <4> QED
        BY <1>3, <4>1, <4>2 DEF BoardListens
    <3> QED
      BY <3>1, <3>2
  <2> QED
    BY <1>0, <2>2, <2>3 DEF BoardListens, OrdersOf
<1>4. ASSUME cards' = Listed(Waiting) \cup (Listed(Offered) \ orderID),
             UNCHANGED <<phoneVars, orderID>>
      PROVE  BoardListens'
  <2>1. UNCHANGED <<told, starting>>
    BY <1>4 DEF phoneVars, phone
  <2>2. cards' # {} => DOMAIN told # {}
    BY <1>4 DEF Listed
  <2> QED
    BY <1>0, <1>4, <2>1, <2>2 DEF BoardListens, OrdersOf
<1>5. ASSUME Writes, UNCHANGED <<orderID, cards>> PROVE BoardListens'
  BY <1>1, <1>5, Writing
<1>6. ASSUME Sync, UNCHANGED <<orderID, cards>> PROVE BoardListens'
  BY <1>1, <1>6, CatchingUp
<1>7. ASSUME UNCHANGED <<phoneVars, orderID, cards>> PROVE BoardListens'
  BY <1>1, <1>7 DEF phoneVars, phone
<1> QED
  BY <1>2, <1>3, <1>4, <1>5, <1>6, <1>7, BoardSteps

LEMMA BidsLeftOutStep ==
    ASSUME PhoneTypeOK, BidsTaken, BoardListens, BidsLeftOut, [BoardNext]_boardVars
    PROVE  BidsLeftOut'
<1>0. Mine(user)' = Mine(user) /\ Waiting' = Waiting
  BY BoardKeeps
<1>1. ASSUME UNCHANGED told, refresh' = refresh \/ refresh' = refresh \cup {"delayed"},
             disputed \subseteq disputed', starting \subseteq starting', UNCHANGED cards
      PROVE  BidsLeftOut'
  BY <1>0, <1>1 DEF BidsLeftOut, OnBid, OrdersOf, Listed
\* An order bid on no longer waits, for all that the phone knows.
<1>2. ASSUME NEW o \in Order \ disputed, OnBid(o) PROVE ~Waits(o, cache)
  BY <1>2 DEF OnBid, OrdersOf, BidsTaken
<1>3. ASSUME Listen({Waiting, Offered, Mine(user)}), refresh' = refresh \cup {"delayed"},
             UNCHANGED <<server, user, cache, told, cards>>
      PROVE  BidsLeftOut'
  <2>1. starting \subseteq starting' /\ disputed' = disputed
    BY <1>3 DEF Listen, server
  <2> QED
    BY <1>1, <1>3, <2>1
<1>4. ASSUME NEW q \in DOMAIN told \cup starting, Tell(q, {}),
             q.on = "mine" => refresh' = refresh \cup {"queued"},
             q.on # "mine" => UNCHANGED refresh,
             UNCHANGED cards
      PROVE  BidsLeftOut'
  <2>1. /\ DOMAIN told' = DOMAIN told \cup {q} /\ told'[q] = Answer(q, cache)
        /\ \A k \in DOMAIN told : k # q => told'[k] = told[k]
        /\ \A k \in starting : k # q => k \in starting'
        /\ UNCHANGED server
    <3>1. {} \in SUBSET Query
      OBVIOUS
    <3> QED
      BY <1>4, <3>1, Telling
  <2>2. disputed' = disputed
    BY <2>1 DEF server
  <2>3. CASE q.on = "mine"
    BY <1>4, <2>3 DEF BidsLeftOut
  <2>4. CASE q.on # "mine"
    <3>0. q # Mine(user) /\ UNCHANGED <<refresh, cards>>
      BY <1>4, <2>4, BoardAnswers
    <3>1. Mine(user) \notin starting' => Mine(user) \notin starting
      BY <2>1, <3>0
    <3>2. \A o : OnBid(o)' <=> OnBid(o)
      BY <1>0, <2>1, <3>0 DEF OnBid, OrdersOf
    <3>3. ASSUME NEW o \in Order \ disputed, OnBid(o), "queued" \notin refresh
          PROVE  o \notin Listed(Waiting)'
      <4>1. CASE q = Waiting
        <5>1. told'[Waiting] = Answer(Waiting, cache)
          BY <2>1, <4>1
        <5> QED
          BY <1>0, <1>2, <3>3, <5>1, BoardAnswers DEF Listed
      <4>2. CASE q # Waiting
        BY <1>0, <2>1, <3>3, <4>2 DEF BidsLeftOut, Listed
      <4> QED
        BY <4>1, <4>2
    <3> QED
      BY <1>0, <2>2, <3>0, <3>1, <3>2, <3>3 DEF BidsLeftOut
  <2> QED
    BY <2>3, <2>4
<1>5. ASSUME NEW k \in refresh, k = "queued" => AllReported, refresh' = refresh \ {k},
             cards' = Listed(Waiting) \cup (Listed(Offered) \ orderID),
             UNCHANGED <<phoneVars, orderID>>
      PROVE  BidsLeftOut'
  <2>1. UNCHANGED <<told, starting, disputed>>
    BY <1>5 DEF phoneVars, phone, server
  <2>2. ASSUME NEW o \in Order \ disputed, OnBid(o), "queued" \notin refresh'
        PROVE  /\ o \notin Listed(Waiting)
               /\ Mine(user) \notin starting => o \notin cards'
    <3>1. o \notin Listed(Waiting)
      <4>1. CASE k = "queued"
        BY <1>2, <1>5, <2>2, <4>1, BoardAnswers DEF Listed, AllReported, Due
      <4>2. CASE k # "queued"
        BY <1>5, <2>2, <4>2 DEF BidsLeftOut
      <4> QED
        BY <4>1, <4>2
    <3>2. Mine(user) \notin starting => o \in orderID
      BY <2>2 DEF OnBid, BoardListens
    <3> QED
      BY <1>5, <3>1, <3>2
  <2>3. \A o : (OnBid(o)' <=> OnBid(o)) /\ Listed(Waiting)' = Listed(Waiting)
    BY <1>0, <2>1 DEF OnBid, OrdersOf, Listed
  <2> QED
    BY <1>0, <2>1, <2>2, <2>3 DEF BidsLeftOut
<1>6. ASSUME Writes, UNCHANGED <<orderID, refresh, cards>> PROVE BidsLeftOut'
  BY <1>1, <1>6, Writing, Written
<1>7. ASSUME Sync, UNCHANGED <<orderID, refresh, cards>> PROVE BidsLeftOut'
  BY <1>1, <1>7, CatchingUp DEF server
<1>8. ASSUME UNCHANGED <<phoneVars, orderID, refresh, cards>> PROVE BidsLeftOut'
  BY <1>1, <1>8 DEF phoneVars, phone, server
<1> QED
  BY <1>3, <1>4, <1>5, <1>6, <1>7, <1>8, BoardSteps

LEMMA BoardStep == BoardInv /\ [BoardNext]_boardVars => BoardInv'
BY BoardKeeps, BidsTakenStep, BoardListensStep, BidsLeftOutStep DEF BoardInv

LEMMA BoardInductive == BoardSpec => []BoardInv
<1>1. BoardInit => BoardInv
  <2> SUFFICES ASSUME BoardInit PROVE BoardInv
    OBVIOUS
  <2>1. /\ PhoneTypeOK /\ cache = db
        /\ DOMAIN told = {} /\ starting = {} /\ posting = {}
        /\ \A f \in db.offers : db.order[f.order].status = "have an offer"
    BY Starting DEF BoardInit
  <2>2. BidsTaken
    BY <2>1 DEF BidsTaken, Waits
  <2>3. BoardListens /\ BidsLeftOut
    BY <2>1 DEF BoardInit, BoardListens, BidsLeftOut, OnBid
  <2> QED
    BY <2>1, <2>2, <2>3 DEF BoardInv
<1> QED
  BY <1>1, BoardStep, PTL DEF BoardSpec

\* "Available Orders" offers the courier no order that he has a reported offer
\* on, unless somebody cancelled an offer on it (getCards,
\* getAllOffersFromCourier).
THEOREM OwnBidsAreHidden == BoardSpec => []BoardHidesOwnBids
<1>1. BoardInv => BoardHidesOwnBids
  <2> SUFFICES ASSUME BoardInv, Quiet, Mine(user) \notin starting,
                      NEW o \in cards, OwnOffer(o, cache), o \notin disputed
               PROVE  FALSE
    BY DEF BoardHidesOwnBids
  <2>1. PhoneTypeOK /\ BidsTaken /\ BoardListens /\ BidsLeftOut
    BY DEF BoardInv
  <2>2. AllReported /\ "queued" \notin refresh
    BY DEF Quiet
  <2>3. Mine(user) \in DOMAIN told
    BY <2>1 DEF BoardListens
  <2>4. told[Mine(user)] = Answer(Mine(user), cache)
    BY <2>2, <2>3 DEF AllReported, Due
  <2>5. PICK f \in cache.offers : f.order = o /\ f.courier = user
    BY DEF OwnOffer
  <2>6. o \in Order
    BY <2>1, <2>5 DEF PhoneTypeOK, Database, OfferDoc
  <2>7. OnBid(o)
    BY <2>1, <2>3, <2>4, <2>5, BoardAnswers DEF OnBid, OrdersOf
  <2> QED
    BY <2>1, <2>2, <2>6, <2>7 DEF BidsLeftOut
<1> QED
  BY <1>1, BoardInductive, PTL

\* Renewed when every listener has reported all it was due, the cards are the
\* orders that wait for an offer and those that have one, but none of the
\* courier's (getCards after getAllOffersFromCourier).
THEOREM BoardIsRenewedWhole == BoardSpec => CardsAreOpenOrders
<1>1. BoardInv => FreshCards
  <2> SUFFICES ASSUME BoardInv, NEW k \in refresh, GetCards(k), starting = {},
                      DOMAIN told # {}, AllReported
               PROVE  cards' = {o \in Order : \/ cache.order[o].status = "waiting for offer"
                                              \/ /\ cache.order[o].status = "have an offer"
                                                 /\ ~OwnOffer(o, cache)}
    BY DEF FreshCards
  <2>1. PhoneTypeOK /\ BoardListens
    BY DEF BoardInv
  <2>2. {Waiting, Offered, Mine(user)} \subseteq DOMAIN told
    BY <2>1 DEF BoardListens
  <2>3. /\ told[Waiting] = Answer(Waiting, cache) /\ told[Offered] = Answer(Offered, cache)
        /\ told[Mine(user)] = Answer(Mine(user), cache)
    BY <2>2 DEF AllReported, Due
  <2>4. /\ Listed(Waiting) = {o \in Order : cache.order[o].status = "waiting for offer"}
        /\ Listed(Offered) = {o \in Order : cache.order[o].status = "have an offer"}
    BY <2>1, <2>2, <2>3, BoardAnswers, AnswersOffered DEF Listed, Waits
  <2>5. orderID = OrdersOf(Answer(Mine(user), cache))
    BY <2>1, <2>2, <2>3 DEF BoardListens
  <2>6. \A o : o \in orderID <=> OwnOffer(o, cache)
    BY <2>1, <2>5, BoardAnswers DEF OrdersOf, OwnOffer
  <2>7. cards' = Listed(Waiting) \cup (Listed(Offered) \ orderID)
    BY DEF GetCards
  <2> QED
    BY <2>4, <2>6, <2>7
<1>2. BoardInv /\ [BoardNext]_boardVars => [FreshCards]_boardVars
  BY <1>1
<1> QED
  BY <1>2, BoardInductive, PTL DEF BoardSpec, CardsAreOpenOrders
=============================================================================
