-------------------------- MODULE OfferBoard_proofs --------------------------
(***************************************************************************)
(* Proofs about OfferBoard: typing, that the status tells whether an order *)
(* has offers unless somebody cancelled one or decided the order, that     *)
(* only late offers outlive a decision, and that a screen which has had    *)
(* its snapshots lists no deleted offer; and that BoardLifecycle is one    *)
(* way an order's life can go, for any orders, couriers, offers and number *)
(* of listeners.                                                           *)
(***************************************************************************)
EXTENDS BoardLifecycle, SequenceTheorems, TLAPS

\* Whatever may still count or delete the offers of an order without deciding
\* it comes from somebody's cancelling of an offer on that order; what purges
\* them comes from a decision.
Disputes ==
    /\ \A l \in listeners : l.counts => l.order \in disputed
    /\ \A s \in Screen : blocks[s] \in Seq(disputed)
    /\ \A s \in Screen, c \in Courier, o \in Order :
          <<s, c, o>> \in withdrawals => o \in disputed
    /\ purges \subseteq decided

\* Offers are announced, and cancelled, on placed orders.
OffersPlaced ==
    /\ \A f \in made \cup posting : f.order \in Placed
    /\ disputed \subseteq Placed

\* The orders on which screen s has left cancelOffer's listener; what waits to
\* be counted there is of these.
Asked(s) == {o \in Order : \E l \in listeners : l.at = s /\ l.order = o /\ l.counts}
CountsLeft == \A s \in Screen : blocks[s] \in Seq(Asked(s))

\* The status, with the offers whose documents are still to be added: they
\* were announced when the status was written.
StatusBacked ==
    \A o \in Order :
       /\ status[o] = "waiting for offer" /\ (\E f \in made \cup posting : f.order = o) =>
             o \in disputed
       /\ status[o] = "have an offer" /\ o \notin disputed \cup decided \cup lost =>
             \E f \in offers \cup posting : f.order = o

\* A screen's array holds only offers that one listener of the screen was told
\* of last: the one that filled it.
ListsTold ==
    \A s \in Screen \ {"page"} :
       array[s] # {} => \E l \in DOMAIN told : l.at = s /\ array[s] \subseteq told[l]

OfferInv ==
    /\ TypeOK /\ Disputes /\ OffersPlaced /\ CountsLeft
    /\ StatusBacked /\ LeftoversAreLate /\ ListsTold

-----------------------------------------------------------------------------
\* What a step may be.  Both ways to cancel an offer, and both ways to decide
\* an order, are one.
LEMMA Steps ==
    ASSUME TypeOK, [Next]_vars
    PROVE  \/ \E o \in Order : AddOrder(o)
           \/ \E c \in Courier, o \in Order : AddOffer(c, o)
           \/ \E f \in posting : PostOffer(f)
           \/ \E o \in Order : OpenOffers(o)
           \/ OpenPage
           \/ GetCards
           \/ \E l \in listeners : Snapshot(l)
           \/ \E l \in listeners : ListAgain(l)
           \/ \E s \in Screen \ {"list"}, f \in made : CancelOffer(s, f)
           \/ \E s \in Screen : Count(s)
           \/ \E s \in Screen, c \in Courier, o \in Order : Withdraw(s, c, o)
           \/ \E o \in Order, s \in {"assigned", "cancled"} : Decide(o, s)
           \/ \E o \in Order : PurgeOffers(o)
           \/ \E f \in posting : PostFails(f)
           \/ \E s \in Screen, c \in Courier, o \in Order : WithdrawFails(s, c, o)
           \/ \E o \in Order : PurgeFails(o)
           \/ \E d \in {"member"} \cup Courier : Kill(d)
           \/ UNCHANGED vars
<1>1. ASSUME NEW f \in made, Decline(f)
      PROVE  \E s \in Screen \ {"list"}, g \in made : CancelOffer(s, g)
  BY <1>1 DEF Decline, Screen
<1>2. ASSUME NEW f \in made, CancelOwnOffer(f)
      PROVE  \E s \in Screen \ {"list"}, g \in made : CancelOffer(s, g)
  <2>1. f.courier \in Screen \ {"list"}
    BY BoardAssumption DEF TypeOK, OfferDoc, Screen
  <2> QED
    BY <1>2, <2>1 DEF CancelOwnOffer
<1>3. ASSUME NEW f \in made, AcceptOffer(f)
      PROVE  \E o \in Order, s \in {"assigned", "cancled"} : Decide(o, s)
  <2>1. f.order \in Order
    BY DEF TypeOK, OfferDoc
  <2> QED
    BY <1>3, <2>1 DEF AcceptOffer
<1>4. ASSUME NEW o \in Order, CancelOrder(o)
      PROVE  \E p \in Order, s \in {"assigned", "cancled"} : Decide(p, s)
  BY <1>4 DEF CancelOrder
<1>5. CASE Tap
  BY <1>1, <1>2, <1>4, <1>5 DEF Tap
<1>6. CASE Award
  BY <1>3, <1>6 DEF Award
<1>7. CASE Callback
  BY <1>7 DEF Callback
<1>8. CASE Failure
  BY <1>8 DEF Failure
<1> QED
  BY <1>5, <1>6, <1>7, <1>8 DEF Next

\* What is left when an app is killed was there before, and the screens of the
\* other devices are as they were.
LEMMA Killed ==
    ASSUME TypeOK, NEW d, Kill(d)
    PROVE  /\ posting' \subseteq posting /\ withdrawals' \subseteq withdrawals
           /\ purges' \subseteq purges /\ listeners' \subseteq listeners /\ cards' \subseteq cards
           /\ DOMAIN told' = DOMAIN told \cap listeners'
           /\ \A l \in DOMAIN told' : told'[l] = told[l]
           /\ \A l \in listeners : DeviceOf(l.at) # d => l \in listeners'
           /\ \A s \in Screen : IF DeviceOf(s) = d
                                THEN array'[s] = {} /\ blocks'[s] = <<>>
                                ELSE array'[s] = array[s] /\ blocks'[s] = blocks[s]
           /\ array' \in [Screen -> SUBSET made]
           /\ lost' = lost \cup {f.order : f \in posting \ posting'}
           /\ uncleared' = uncleared \cup (purges \ purges')
           /\ UNCHANGED <<status, offers, made, disputed, decided, late>>
<1>1. /\ posting' \subseteq posting /\ withdrawals' \subseteq withdrawals
      /\ purges' \subseteq purges /\ listeners' \subseteq listeners /\ cards' \subseteq cards
  BY DEF Kill
<1>2. /\ DOMAIN told' = DOMAIN told \cap listeners'
      /\ \A l \in DOMAIN told' : told'[l] = told[l]
      /\ \A l \in listeners : DeviceOf(l.at) # d => l \in listeners'
  BY DEF Kill
<1>3. /\ array' = [s \in Screen |-> IF DeviceOf(s) = d THEN {} ELSE array[s]]
      /\ blocks' = [s \in Screen |-> IF DeviceOf(s) = d THEN <<>> ELSE blocks[s]]
  BY DEF Kill
<1>4. array' \in [Screen -> SUBSET made]
  BY <1>3 DEF TypeOK
<1>5. /\ lost' = lost \cup {f.order : f \in posting \ posting'}
      /\ uncleared' = uncleared \cup (purges \ purges')
      /\ UNCHANGED <<status, offers, made, disputed, decided, late>>
  BY DEF Kill, history
<1> QED
  BY <1>1, <1>2, <1>3, <1>4, <1>5

\* The listener that an action attaches is one there can be.
LEMMA Attaching ==
    ASSUME TypeOK, NEW l \in Listener, Attach(l)
    PROVE  listeners' = listeners \cup {l} /\ listeners' \subseteq Listener
BY DEF Attach, TypeOK

LEMMA ListingAgain ==
    ASSUME NEW l \in Listener
    PROVE  /\ [l EXCEPT !.counts = FALSE] \in Listener
           /\ [l EXCEPT !.counts = FALSE].counts = FALSE
BY ZenonT(20) DEF Listener

\* A block that is queued leaves the queue with its order; what waits there is
\* of the same orders as before.
LEMMA Queues ==
    ASSUME NEW S, NEW q \in Seq(S)
    PROVE  /\ \A x \in S : Append(q, x) \in Seq(S)
           /\ q # <<>> => Head(q) \in S /\ Tail(q) \in Seq(S)
OBVIOUS

LEMMA OfferType == TypeOK /\ [Next]_vars => TypeOK'
<1> SUFFICES ASSUME TypeOK, [Next]_vars PROVE TypeOK'
  OBVIOUS
<1> USE DEF database, queue, history, failed
<1>1. ASSUME NEW c \in Courier, NEW o \in Order, AddOffer(c, o)
      PROVE  TypeOK'
  <2>1. posting' \subseteq OfferDoc
    <3>1. PICK id \in OfferId : posting' = posting \cup {[id |-> id, order |-> o, courier |-> c]}
      BY <1>1 DEF AddOffer, NewOffer
    <3>2. [id |-> id, order |-> o, courier |-> c] \in OfferDoc
      BY DEF OfferDoc
    <3> QED
      BY <3>1, <3>2 DEF TypeOK
  <2>2. status' \in [Order -> Status \cup {"absent"}]
    BY <1>1 DEF AddOffer, TypeOK, Status
  <2> QED
    BY <1>1, <2>1, <2>2 DEF AddOffer, TypeOK
<1>2. ASSUME NEW f \in posting, PostOffer(f)
      PROVE  TypeOK'
  <2>1. /\ made' \subseteq OfferDoc /\ offers' \subseteq made' /\ posting' \subseteq OfferDoc
        /\ late' \subseteq made' /\ made \subseteq made'
    BY <1>2 DEF PostOffer, TypeOK
  <2>2. /\ \A l \in DOMAIN told : told[l] \subseteq made'
        /\ array \in [Screen -> SUBSET made']
        /\ cards \subseteq made'
    BY <2>1 DEF TypeOK
  <2> QED
    BY <1>2, <2>1, <2>2 DEF PostOffer, TypeOK
<1>3. ASSUME NEW o \in Order, OpenOffers(o)
      PROVE  TypeOK'
  <2> DEFINE l == [at |-> "list", order |-> o, cause |-> "none", counts |-> FALSE]
  <2>1. l \in Listener
    BY DEF Listener, Screen
  <2>2. Attach(l) /\ UNCHANGED <<database, cards, history, failed>>
    BY <1>3 DEF OpenOffers
  <2> HIDE DEF l
  <2>3. listeners \subseteq listeners' /\ listeners' \subseteq Listener
    BY <2>1, <2>2, Attaching
  <2> QED
    BY <2>2, <2>3 DEF Attach, TypeOK
<1>4. CASE OpenPage
  <2>1. array["list"] \subseteq made /\ array' \in [Screen -> SUBSET made]
    BY <1>4 DEF OpenPage, TypeOK, Screen
  <2> QED
    BY <1>4, <2>1 DEF OpenPage, TypeOK
<1>5. CASE GetCards
  <2>1. array["page"] \subseteq made
    BY DEF TypeOK, Screen
  <2> QED
    BY <1>5, <2>1 DEF GetCards, TypeOK
<1>6. ASSUME NEW l \in listeners, Snapshot(l)
      PROVE  TypeOK'
  <2> DEFINE before == IF l \in DOMAIN told THEN told[l] ELSE {}
  <2>1. OffersOn(l.order) \subseteq made
    BY DEF OffersOn, TypeOK
  <2>2. l.at \in Screen /\ l.order \in Order
    BY DEF TypeOK, Listener
  <2>3. DOMAIN told' \subseteq listeners /\ \A k \in DOMAIN told' : told'[k] \subseteq made
    BY <1>6, <2>1 DEF Snapshot, TypeOK
  <2>4. array' = [array EXCEPT ![l.at] = OffersOn(l.order) \ before]
    BY <1>6 DEF Snapshot
  <2>5. array' \in [Screen -> SUBSET made]
    BY <2>1, <2>2, <2>4 DEF TypeOK
  <2>6. blocks' \in [Screen -> Seq(Order)]
    <3>1. Append(blocks[l.at], l.order) \in Seq(Order)
      BY <2>2, Queues DEF TypeOK
    <3> QED
      BY <1>6, <3>1 DEF Snapshot, TypeOK
  <2> QED
    BY <1>6, <2>3, <2>5, <2>6 DEF Snapshot, TypeOK
<1>7. ASSUME NEW l \in listeners, ListAgain(l)
      PROVE  TypeOK'
  <2> DEFINE k == [l EXCEPT !.counts = FALSE]
  <2>1. k \in Listener
    BY ListingAgain DEF TypeOK
  <2>2. Attach(k) /\ UNCHANGED <<database, cards, history, failed>>
    BY <1>7 DEF ListAgain
  <2> HIDE DEF k
  <2>3. listeners \subseteq listeners' /\ listeners' \subseteq Listener
    BY <2>1, <2>2, Attaching
  <2> QED
    BY <2>2, <2>3 DEF Attach, TypeOK
<1>8. ASSUME NEW s \in Screen \ {"list"}, NEW f \in made, CancelOffer(s, f)
      PROVE  TypeOK'
  <2> DEFINE l == [at |-> s, order |-> f.order, cause |-> f.id, counts |-> TRUE]
  <2>1. f.order \in Order /\ f.courier \in Courier /\ f.id \in OfferId
    BY DEF TypeOK, OfferDoc
  <2>2. l \in Listener
    BY <2>1 DEF Listener
  <2>3. Attach(l)
    BY <1>8 DEF CancelOffer
  <2> HIDE DEF l
  <2>4. listeners \subseteq listeners' /\ listeners' \subseteq Listener
    BY <2>2, <2>3, Attaching
  <2>5. withdrawals' \subseteq (Screen \ {"list"}) \X Courier \X Order /\ disputed' \subseteq Order
    BY <1>8, <2>1 DEF CancelOffer, TypeOK
  <2> QED
    BY <1>8, <2>3, <2>4, <2>5 DEF CancelOffer, Attach, TypeOK
<1>9. ASSUME NEW s \in Screen, Count(s)
      PROVE  TypeOK'
  <2>1. blocks[s] \in Seq(Order) /\ blocks[s] # <<>>
    BY <1>9 DEF Count, TypeOK
  <2>2. Head(blocks[s]) \in Order /\ Tail(blocks[s]) \in Seq(Order)
    BY <2>1, Queues
  <2>3. blocks' \in [Screen -> Seq(Order)]
    BY <1>9, <2>2 DEF Count, TypeOK
  <2>4. status' \in [Order -> Status \cup {"absent"}]
    BY <1>9, <2>2 DEF Count, TypeOK, Status
  <2> QED
    BY <1>9, <2>3, <2>4 DEF Count, TypeOK
<1>10. ASSUME NEW s \in Screen, NEW c \in Courier, NEW o \in Order,
              Withdraw(s, c, o)
       PROVE  TypeOK'
  BY <1>10 DEF Withdraw, TypeOK
<1>11. ASSUME NEW o \in Order, NEW s \in {"assigned", "cancled"}, Decide(o, s)
       PROVE  TypeOK'
  <2>1. status' \in [Order -> Status \cup {"absent"}]
    BY <1>11 DEF Decide, TypeOK, Status
  <2> QED
    BY <1>11, <2>1 DEF Decide, TypeOK
<1>12. ASSUME NEW o \in Order, PurgeOffers(o)
       PROVE  TypeOK'
  BY <1>12 DEF PurgeOffers, TypeOK
<1>14. ASSUME NEW o \in Order, AddOrder(o)
       PROVE  TypeOK'
  <2>1. status' \in [Order -> Status \cup {"absent"}]
    BY <1>14 DEF AddOrder, TypeOK, Status
  <2> QED
    BY <1>14, <2>1 DEF AddOrder, TypeOK
<1>15. ASSUME NEW f \in posting, PostFails(f)
       PROVE  TypeOK'
  <2>1. f.order \in Order
    BY DEF TypeOK, OfferDoc
  <2> QED
    BY <1>15, <2>1 DEF PostFails, Fail, TypeOK
<1>16. ASSUME NEW s \in Screen, NEW c \in Courier, NEW o \in Order,
              WithdrawFails(s, c, o)
       PROVE  TypeOK'
  BY <1>16 DEF WithdrawFails, Fail, TypeOK
<1>17. ASSUME NEW o \in Order, PurgeFails(o)
       PROVE  TypeOK'
  BY <1>17 DEF PurgeFails, Fail, TypeOK
<1>18. ASSUME NEW d \in {"member"} \cup Courier, Kill(d)
       PROVE  TypeOK'
  <2>1. failures' \in Nat
    BY <1>18 DEF Kill, Fail, TypeOK
  <2>2. lost' \subseteq Order /\ uncleared' \subseteq Order
    BY <1>18, Killed DEF TypeOK, OfferDoc
  <2>3. blocks' \in [Screen -> Seq(Order)]
    <3>1. blocks' = [s \in Screen |-> IF DeviceOf(s) = d THEN <<>> ELSE blocks[s]]
      BY <1>18 DEF Kill
    <3>2. <<>> \in Seq(Order)
      BY EmptySeq
    <3> QED
      BY <3>1, <3>2 DEF TypeOK
  <2>4. DOMAIN told' \subseteq listeners' /\ \A l \in DOMAIN told' : told'[l] \subseteq made
    BY <1>18, Killed DEF TypeOK
  <2> QED
    BY <1>18, <2>1, <2>2, <2>3, <2>4, Killed DEF TypeOK
<1>13. CASE UNCHANGED vars
  BY <1>13 DEF vars, TypeOK
<1> QED
  BY <1>1, <1>2, <1>3, <1>4, <1>5, <1>6, <1>7, <1>8, <1>9, <1>10, <1>11, <1>12, <1>13, <1>14,
     <1>15, <1>16, <1>17, <1>18, Steps

-----------------------------------------------------------------------------
\* What counts and what deletes stays tied to the disputes and the decisions.
LEMMA DisputesStep == TypeOK /\ Disputes /\ [Next]_vars => Disputes'
<1> SUFFICES ASSUME TypeOK, Disputes, [Next]_vars PROVE Disputes'
  OBVIOUS
<1> USE DEF database, queue, history, failed
<1>1. ASSUME NEW c \in Courier, NEW o \in Order, AddOffer(c, o)
      PROVE  Disputes'
  BY <1>1 DEF AddOffer, Disputes
<1>2. ASSUME NEW f \in posting, PostOffer(f)
      PROVE  Disputes'
  BY <1>2 DEF PostOffer, Disputes
<1>3. ASSUME NEW o \in Order, OpenOffers(o)
      PROVE  Disputes'
  <2> DEFINE l == [at |-> "list", order |-> o, cause |-> "none", counts |-> FALSE]
  <2>1. ~l.counts
    OBVIOUS
  <2>2. Attach(l) /\ UNCHANGED <<database, cards, history, failed>>
    BY <1>3 DEF OpenOffers
  <2> HIDE DEF l
  <2>3. \A k \in listeners' : k.counts => k.order \in disputed
    BY <2>1, <2>2 DEF Attach, Disputes
  <2> QED
    BY <2>2, <2>3 DEF Attach, Disputes
<1>4. CASE OpenPage
  BY <1>4 DEF OpenPage, Disputes
<1>5. CASE GetCards
  BY <1>5 DEF GetCards, Disputes
<1>6. ASSUME NEW l \in listeners, Snapshot(l)
      PROVE  Disputes'
  <2>1. l.at \in Screen
    BY DEF TypeOK, Listener
  <2>2. ASSUME l.counts
        PROVE  Append(blocks[l.at], l.order) \in Seq(disputed)
    BY <2>1, <2>2, Queues DEF Disputes
  <2>3. \A s \in Screen : blocks'[s] \in Seq(disputed)
    BY <1>6, <2>2 DEF Snapshot, Disputes, TypeOK
  <2> QED
    BY <1>6, <2>3 DEF Snapshot, Disputes
<1>7. ASSUME NEW l \in listeners, ListAgain(l)
      PROVE  Disputes'
  <2> DEFINE k == [l EXCEPT !.counts = FALSE]
  <2>1. ~k.counts
    BY ListingAgain DEF TypeOK
  <2>2. Attach(k) /\ UNCHANGED <<database, cards, history, failed>>
    BY <1>7 DEF ListAgain
  <2> HIDE DEF k
  <2>3. \A m \in listeners' : m.counts => m.order \in disputed
    BY <2>1, <2>2 DEF Attach, Disputes
  <2> QED
    BY <2>2, <2>3 DEF Attach, Disputes
<1>8. ASSUME NEW s \in Screen \ {"list"}, NEW f \in made, CancelOffer(s, f)
      PROVE  Disputes'
  <2> DEFINE l == [at |-> s, order |-> f.order, cause |-> f.id, counts |-> TRUE]
  <2>1. l.order = f.order
    OBVIOUS
  <2>2. Attach(l)
    BY <1>8 DEF CancelOffer
  <2> HIDE DEF l
  <2>3. /\ disputed' = disputed \cup {f.order}
        /\ withdrawals' = withdrawals \cup {<<s, f.courier, f.order>>}
        /\ UNCHANGED <<blocks, purges, decided>>
    BY <1>8, <2>2 DEF CancelOffer, Attach
  <2>4. \A k \in listeners' : k.counts => k.order \in disputed'
    BY <2>1, <2>2, <2>3 DEF Attach, Disputes
  <2>5. \A r \in Screen : blocks'[r] \in Seq(disputed')
    BY <2>3 DEF Disputes
  <2>6. \A r \in Screen, c \in Courier, o \in Order :
           <<r, c, o>> \in withdrawals' => o \in disputed'
    BY <2>3 DEF Disputes
  <2> QED
    BY <2>3, <2>4, <2>5, <2>6 DEF Disputes
<1>9. ASSUME NEW s \in Screen, Count(s)
      PROVE  Disputes'
  <2>1. blocks[s] \in Seq(disputed) /\ blocks[s] # <<>>
    BY <1>9 DEF Count, Disputes
  <2>2. Tail(blocks[s]) \in Seq(disputed)
    BY <2>1, Queues
  <2>3. \A r \in Screen : blocks'[r] \in Seq(disputed)
    BY <1>9, <2>2 DEF Count, Disputes, TypeOK
  <2> QED
    BY <1>9, <2>3 DEF Count, Disputes
<1>10. ASSUME NEW s \in Screen, NEW c \in Courier, NEW o \in Order,
              Withdraw(s, c, o)
       PROVE  Disputes'
  BY <1>10 DEF Withdraw, Disputes
<1>11. ASSUME NEW o \in Order, NEW s \in {"assigned", "cancled"}, Decide(o, s)
       PROVE  Disputes'
  BY <1>11 DEF Decide, Disputes
<1>12. ASSUME NEW o \in Order, PurgeOffers(o)
       PROVE  Disputes'
  BY <1>12 DEF PurgeOffers, Disputes
<1>14. ASSUME NEW o \in Order, AddOrder(o)
       PROVE  Disputes'
  BY <1>14 DEF AddOrder, Disputes
<1>15. ASSUME NEW f \in posting, PostFails(f)
       PROVE  Disputes'
  BY <1>15 DEF PostFails, Disputes
<1>16. ASSUME NEW s \in Screen, NEW c \in Courier, NEW o \in Order,
              WithdrawFails(s, c, o)
       PROVE  Disputes'
  BY <1>16 DEF WithdrawFails, Disputes
<1>17. ASSUME NEW o \in Order, PurgeFails(o)
       PROVE  Disputes'
  BY <1>17 DEF PurgeFails, Disputes
<1>18. ASSUME NEW d \in {"member"} \cup Courier, Kill(d)
       PROVE  Disputes'
  <2>1. \A s \in Screen : blocks'[s] \in Seq(disputed)
    BY <1>18, Killed, EmptySeq DEF Disputes
  <2> QED
    BY <1>18, <2>1, Killed DEF Disputes
<1>13. CASE UNCHANGED vars
  BY <1>13 DEF vars, Disputes
<1> QED
  BY <1>1, <1>2, <1>3, <1>4, <1>5, <1>6, <1>7, <1>8, <1>9, <1>10, <1>11, <1>12, <1>13, <1>14,
     <1>15, <1>16, <1>17, <1>18, Steps

-----------------------------------------------------------------------------
\* No step takes back that an order was placed.
LEMMA StaysPlaced == TypeOK /\ Disputes /\ [Next]_vars => Placed \subseteq Placed'
<1> SUFFICES ASSUME TypeOK, Disputes, [Next]_vars PROVE Placed \subseteq Placed'
  OBVIOUS
<1> USE DEF database, queue, history, failed
<1>1. ASSUME NEW p \in Order, NEW s \in Status, status' = [status EXCEPT ![p] = s]
      PROVE  Placed \subseteq Placed'
  <2>1. \A o \in Order : status'[o] = IF o = p THEN s ELSE status[o]
    BY <1>1 DEF TypeOK
  <2>2. s # "absent"
    BY DEF Status
  <2> QED
    BY <2>1, <2>2 DEF Placed
<1>2. ASSUME UNCHANGED status
      PROVE  Placed \subseteq Placed'
  BY <1>2 DEF Placed
<1>3. ASSUME NEW s \in Screen, Count(s)
      PROVE  Placed \subseteq Placed'
  <2>1. Head(blocks[s]) \in Order
    BY <1>3, Queues DEF Count, TypeOK
  <2>2. \/ status' = [status EXCEPT ![Head(blocks[s])] = "waiting for offer"]
        \/ UNCHANGED status
    BY <1>3 DEF Count
  <2>3. "waiting for offer" \in Status
    BY DEF Status
  <2> HIDE DEF Status
  <2> QED
    BY <1>1, <1>2, <2>1, <2>2, <2>3
<1>4. ASSUME NEW o \in Order, NEW s \in {"assigned", "cancled"}, Decide(o, s)
      PROVE  Placed \subseteq Placed'
  <2>1. s \in Status
    BY DEF Status
  <2> QED
    BY <1>1, <1>4, <2>1 DEF Decide
<1>5. ASSUME NEW o \in Order, AddOrder(o)
      PROVE  Placed \subseteq Placed'
  <2>1. "waiting for offer" \in Status
    BY DEF Status
  <2> QED
    BY <1>1, <1>5, <2>1 DEF AddOrder
<1>6. ASSUME NEW c \in Courier, NEW o \in Order, AddOffer(c, o)
      PROVE  Placed \subseteq Placed'
  <2>1. "have an offer" \in Status
    BY DEF Status
  <2> QED
    BY <1>1, <1>6, <2>1 DEF AddOffer
<1>7. CASE UNCHANGED vars
  BY <1>2, <1>7 DEF vars
<1> QED
  BY <1>2, <1>3, <1>4, <1>5, <1>6, <1>7, Steps
     DEF PostOffer, OpenOffers, OpenPage, GetCards, Snapshot, ListAgain, CancelOffer,
         Withdraw, PurgeOffers, PostFails, WithdrawFails, PurgeFails, Kill

\* Offers and disputes stay on placed orders.
LEMMA PlacedStep == TypeOK /\ Disputes /\ OffersPlaced /\ [Next]_vars => OffersPlaced'
<1> SUFFICES ASSUME TypeOK, Disputes, OffersPlaced, [Next]_vars PROVE OffersPlaced'
  OBVIOUS
<1>0. Placed \subseteq Placed'
  BY StaysPlaced
<1> USE DEF database, queue, history, failed
<1>1. ASSUME made' \cup posting' \subseteq made \cup posting, disputed' = disputed
      PROVE  OffersPlaced'
  BY <1>0, <1>1 DEF OffersPlaced
<1>2. ASSUME NEW c \in Courier, NEW o \in Order, AddOffer(c, o)
      PROVE  OffersPlaced'
  <2>1. PICK id \in OfferId : posting' = posting \cup {[id |-> id, order |-> o, courier |-> c]}
    BY <1>2 DEF AddOffer, NewOffer
  <2>2. o \in Placed /\ UNCHANGED <<made, disputed>>
    BY <1>2 DEF AddOffer
  <2>3. \A f \in posting' : f \in posting \/ f.order = o
    BY <2>1
  <2> QED
    BY <1>0, <2>2, <2>3 DEF OffersPlaced
<1>3. ASSUME NEW s \in Screen \ {"list"}, NEW f \in made, CancelOffer(s, f)
      PROVE  OffersPlaced'
  BY <1>0, <1>3 DEF CancelOffer, OffersPlaced
<1>4. ASSUME NEW f \in posting, PostOffer(f)
      PROVE  OffersPlaced'
  BY <1>1, <1>4 DEF PostOffer
<1>6. ASSUME NEW d \in {"member"} \cup Courier, Kill(d)
      PROVE  OffersPlaced'
  BY <1>1, <1>6, Killed
<1>5. CASE UNCHANGED vars
  BY <1>1, <1>5 DEF vars
<1> QED
  BY <1>1, <1>2, <1>3, <1>4, <1>5, <1>6, Steps
     DEF AddOrder, OpenOffers, OpenPage, GetCards, Snapshot, ListAgain, Count,
         Withdraw, Decide, PurgeOffers, PostFails, WithdrawFails, PurgeFails

\* What waits to be counted stays asked for: only the end of the app removes a
\* listener, and what waits there with it.
LEMMA CountsStep == TypeOK /\ CountsLeft /\ [Next]_vars => CountsLeft'
<1> SUFFICES ASSUME TypeOK, CountsLeft, [Next]_vars PROVE CountsLeft'
  OBVIOUS
<1> USE DEF database, queue, history, failed
<1>1. ASSUME listeners \subseteq listeners'
      PROVE  \A s \in Screen : Asked(s) \subseteq Asked(s)'
  BY <1>1 DEF Asked
<1>2. ASSUME listeners \subseteq listeners', UNCHANGED blocks
      PROVE  CountsLeft'
  <2> SUFFICES ASSUME NEW s \in Screen
               PROVE  blocks[s] \in Seq(Asked(s)')
    BY <1>2 DEF CountsLeft
  <2>1. blocks[s] \in Seq(Asked(s)) /\ Asked(s) \subseteq Asked(s)'
    BY <1>1, <1>2 DEF CountsLeft
  <2> HIDE DEF Asked
  <2> QED
    BY <2>1
<1>3. ASSUME NEW l \in listeners, Snapshot(l)
      PROVE  CountsLeft'
  <2>1. UNCHANGED listeners
    BY <1>3 DEF Snapshot
  <2>2. \A s \in Screen : Asked(s)' = Asked(s)
    BY <2>1 DEF Asked
  <2>3. l.at \in Screen /\ l.order \in Order
    BY DEF TypeOK, Listener
  <2>4. ASSUME l.counts
        PROVE  Append(blocks[l.at], l.order) \in Seq(Asked(l.at))
    <3>1. l.order \in Asked(l.at)
      BY <2>3, <2>4 DEF Asked
    <3> QED
      BY <2>3, <3>1, Queues DEF CountsLeft
  <2>5. \A s \in Screen : blocks'[s] \in Seq(Asked(s))
    BY <1>3, <2>3, <2>4 DEF Snapshot, CountsLeft, TypeOK
  <2> QED
    BY <2>2, <2>5 DEF CountsLeft
<1>4. ASSUME NEW s \in Screen, Count(s)
      PROVE  CountsLeft'
  <2>1. \A r \in Screen : Asked(r)' = Asked(r)
    BY <1>4 DEF Count, Asked
  <2>2. Tail(blocks[s]) \in Seq(Asked(s))
    BY <1>4, Queues DEF Count, CountsLeft
  <2>3. \A r \in Screen : blocks'[r] \in Seq(Asked(r))
    BY <1>4, <2>2 DEF Count, CountsLeft, TypeOK
  <2> QED
    BY <2>1, <2>3 DEF CountsLeft
<1>6. ASSUME NEW d \in {"member"} \cup Courier, Kill(d)
      PROVE  CountsLeft'
  <2> SUFFICES ASSUME NEW s \in Screen
               PROVE  blocks'[s] \in Seq(Asked(s)')
    BY DEF CountsLeft
  <2>1. CASE DeviceOf(s) = d
    <3>1. blocks'[s] = <<>>
      BY <1>6, <2>1, Killed
    <3> HIDE DEF Asked
    <3> QED
      BY <3>1, EmptySeq
  <2>2. CASE DeviceOf(s) # d
    <3>1. blocks'[s] = blocks[s] /\ blocks[s] \in Seq(Asked(s))
      BY <1>6, <2>2, Killed DEF CountsLeft
    <3>2. Asked(s) \subseteq Asked(s)'
      <4>1. \A l \in listeners : l.at = s => l \in listeners'
        BY <1>6, <2>2, Killed
      <4> QED
        BY <4>1 DEF Asked
    <3> HIDE DEF Asked
    <3> QED
      BY <3>1, <3>2
  <2> QED
    BY <2>1, <2>2
<1>5. CASE UNCHANGED vars
  BY <1>2, <1>5 DEF vars
<1> QED
  BY <1>2, <1>3, <1>4, <1>5, <1>6, Steps
     DEF AddOrder, AddOffer, PostOffer, OpenOffers, OpenPage, GetCards, ListAgain, CancelOffer,
         Attach, Withdraw, Decide, PurgeOffers, PostFails, WithdrawFails, PurgeFails

\* The status goes on telling whether an order has offers.
LEMMA BackedStep ==
    TypeOK /\ Disputes /\ OffersPlaced /\ StatusBacked /\ [Next]_vars => StatusBacked'
<1> SUFFICES ASSUME TypeOK, Disputes, OffersPlaced, StatusBacked, [Next]_vars,
                    NEW o \in Order
             PROVE  /\ status'[o] = "waiting for offer"
                       /\ (\E f \in made' \cup posting' : f.order = o) => o \in disputed'
                    /\ status'[o] = "have an offer" /\ o \notin disputed' \cup decided' \cup lost' =>
                          \E f \in offers' \cup posting' : f.order = o
  BY DEF StatusBacked
<1> DEFINE Goal == /\ status'[o] = "waiting for offer"
                      /\ (\E f \in made' \cup posting' : f.order = o) => o \in disputed'
                   /\ status'[o] = "have an offer" /\ o \notin disputed' \cup decided' \cup lost' =>
                         \E f \in offers' \cup posting' : f.order = o
<1>0. /\ status[o] = "waiting for offer" /\ (\E f \in made \cup posting : f.order = o) =>
             o \in disputed
      /\ status[o] = "have an offer" /\ o \notin disputed \cup decided \cup lost =>
             \E f \in offers \cup posting : f.order = o
  BY DEF StatusBacked
<1> USE DEF database, queue, history, failed
<1>1. ASSUME NEW c \in Courier, NEW p \in Order, AddOffer(c, p)
      PROVE  Goal
  <2>1. PICK id \in OfferId : posting' = posting \cup {[id |-> id, order |-> p, courier |-> c]}
    BY <1>1 DEF AddOffer, NewOffer
  <2>2. /\ status' = [status EXCEPT ![p] = "have an offer"]
        /\ UNCHANGED <<offers, made, disputed, decided, lost>>
    BY <1>1 DEF AddOffer
  <2>3. status'[o] = IF o = p THEN "have an offer" ELSE status[o]
    BY <2>2 DEF TypeOK
  <2>4. CASE o = p
    <3> DEFINE f == [id |-> id, order |-> p, courier |-> c]
    <3>0. f \in posting' /\ f.order = o
      BY <2>1, <2>4
    <3> HIDE DEF f
    <3>1. \E g \in posting' : g.order = o
      BY <3>0
    <3> QED
      BY <2>3, <2>4, <3>1
  <2>5. CASE o # p
    <3>1. \A f \in posting' : f.order = o => f \in posting
      BY <2>1, <2>5
    <3>2. posting \subseteq posting'
      BY <2>1
    <3> QED
      BY <1>0, <2>2, <2>3, <2>5, <3>1, <3>2
  <2> QED
    BY <2>4, <2>5
<1>2. ASSUME NEW g \in posting, PostOffer(g)
      PROVE  Goal
  <2>1. /\ made' \cup posting' = made \cup posting
        /\ offers \cup posting \subseteq offers' \cup posting'
        /\ UNCHANGED <<status, disputed, decided, lost>>
    BY <1>2 DEF PostOffer
  <2> QED
    BY <1>0, <2>1
<1>3. ASSUME NEW p \in Order, OpenOffers(p)
      PROVE  Goal
  BY <1>0, <1>3 DEF OpenOffers
<1>4. CASE OpenPage
  BY <1>0, <1>4 DEF OpenPage
<1>5. CASE GetCards
  BY <1>0, <1>5 DEF GetCards
<1>6. ASSUME NEW l \in listeners, Snapshot(l)
      PROVE  Goal
  BY <1>0, <1>6 DEF Snapshot
<1>7. ASSUME NEW l \in listeners, ListAgain(l)
      PROVE  Goal
  BY <1>0, <1>7 DEF ListAgain
<1>8. ASSUME NEW s \in Screen \ {"list"}, NEW f \in made, CancelOffer(s, f)
      PROVE  Goal
  <2>1. disputed \subseteq disputed' /\ UNCHANGED <<status, offers, made, posting, decided, lost>>
    BY <1>8 DEF CancelOffer
  <2> QED
    BY <1>0, <2>1
<1>9. ASSUME NEW s \in Screen, Count(s)
      PROVE  Goal
  <2>1. blocks[s] \in Seq(disputed) /\ blocks[s] # <<>>
    BY <1>9 DEF Count, Disputes
  <2>2. Head(blocks[s]) \in disputed
    BY <2>1, Queues
  <2>3. status'[o] = status[o] \/ (o \in disputed /\ status'[o] = "waiting for offer")
    BY <1>9, <2>2 DEF Count, TypeOK
  <2>4. UNCHANGED <<offers, made, posting, disputed, decided, lost>>
    BY <1>9 DEF Count
  <2> QED
    BY <1>0, <2>3, <2>4
<1>10. ASSUME NEW s \in Screen, NEW c \in Courier, NEW p \in Order,
              Withdraw(s, c, p)
       PROVE  Goal
  <2>1. p \in disputed
    BY <1>10 DEF Withdraw, Disputes
  <2>2. \A f \in offers : f.order # p => f \in offers'
    BY <1>10 DEF Withdraw, OffersBy, OffersOn
  <2>3. UNCHANGED <<status, made, posting, disputed, decided, lost>>
    BY <1>10 DEF Withdraw
  <2> QED
    BY <1>0, <2>1, <2>2, <2>3
<1>11. ASSUME NEW p \in Order, NEW s \in {"assigned", "cancled"}, Decide(p, s)
       PROVE  Goal
  <2>1. /\ status' = [status EXCEPT ![p] = s] /\ decided' = decided \cup {p}
        /\ UNCHANGED <<offers, made, posting, disputed, lost>>
    BY <1>11 DEF Decide
  <2>2. status'[o] = IF o = p THEN s ELSE status[o]
    BY <2>1 DEF TypeOK
  <2> QED
    BY <1>0, <2>1, <2>2
<1>12. ASSUME NEW p \in Order, PurgeOffers(p)
       PROVE  Goal
  <2>1. p \in decided
    BY <1>12 DEF PurgeOffers, Disputes
  <2>2. \A f \in offers : f.order # p => f \in offers'
    BY <1>12 DEF PurgeOffers, OffersOn
  <2>3. UNCHANGED <<status, made, posting, disputed, decided, lost>>
    BY <1>12 DEF PurgeOffers
  <2> QED
    BY <1>0, <2>1, <2>2, <2>3
<1>14. ASSUME NEW p \in Order, AddOrder(p)
       PROVE  Goal
  <2>1. /\ status' = [status EXCEPT ![p] = "waiting for offer"] /\ p \notin Placed
        /\ UNCHANGED <<offers, made, posting, disputed, decided, lost>>
    BY <1>14 DEF AddOrder
  <2>2. status'[o] = IF o = p THEN "waiting for offer" ELSE status[o]
    BY <2>1 DEF TypeOK
  <2>3. ~ \E f \in made \cup posting : f.order = p
    BY <2>1 DEF OffersPlaced
  <2>4. CASE o = p
    <3>1. ~ \E f \in made' \cup posting' : f.order = o
      BY <2>1, <2>3, <2>4
    <3>2. status'[o] # "have an offer"
      BY <2>2, <2>4
    <3> QED
      BY <3>1, <3>2
  <2>5. CASE o # p
    BY <1>0, <2>1, <2>2, <2>5
  <2> QED
    BY <2>4, <2>5
<1>15. ASSUME NEW g \in posting, PostFails(g)
       PROVE  Goal
  <2>1. /\ posting' = posting \ {g} /\ lost' = lost \cup {g.order}
        /\ UNCHANGED <<status, offers, made, disputed, decided>>
    BY <1>15 DEF PostFails
  <2> QED
    BY <1>0, <2>1
<1>16. ASSUME NEW s \in Screen, NEW c \in Courier, NEW p \in Order,
              WithdrawFails(s, c, p)
       PROVE  Goal
  <2>1. p \in disputed
    BY <1>16 DEF WithdrawFails, Disputes
  <2>2. \A f \in offers : f.order # p => f \in offers'
    BY <1>16 DEF WithdrawFails, OffersBy, OffersOn
  <2>3. UNCHANGED <<status, made, posting, disputed, decided, lost>>
    BY <1>16 DEF WithdrawFails
  <2> QED
    BY <1>0, <2>1, <2>2, <2>3
<1>17. ASSUME NEW p \in Order, PurgeFails(p)
       PROVE  Goal
  <2>1. p \in decided
    BY <1>17 DEF PurgeFails, Disputes
  <2>2. \A f \in offers : f.order # p => f \in offers'
    BY <1>17 DEF PurgeFails, OffersOn
  <2>3. UNCHANGED <<status, made, posting, disputed, decided, lost>>
    BY <1>17 DEF PurgeFails
  <2> QED
    BY <1>0, <2>1, <2>2, <2>3
<1>18. ASSUME NEW d \in {"member"} \cup Courier, Kill(d)
       PROVE  Goal
  <2>1. /\ posting' \subseteq posting /\ lost' = lost \cup {f.order : f \in posting \ posting'}
        /\ UNCHANGED <<status, offers, made, disputed, decided>>
    BY <1>18, Killed
  <2> QED
    BY <1>0, <2>1
<1>13. CASE UNCHANGED vars
  BY <1>0, <1>13 DEF vars
<1> QED
  BY <1>1, <1>2, <1>3, <1>4, <1>5, <1>6, <1>7, <1>8, <1>9, <1>10, <1>11, <1>12, <1>13, <1>14,
     <1>15, <1>16, <1>17, <1>18, Steps

-----------------------------------------------------------------------------
\* What is left of a decided order's offers goes on being late.
LEMMA LateStep == TypeOK /\ LeftoversAreLate /\ [Next]_vars => LeftoversAreLate'
<1> SUFFICES ASSUME TypeOK, LeftoversAreLate, [Next]_vars,
                    NEW o \in decided' \ (purges' \cup uncleared'), NEW f \in OffersOn(o)'
             PROVE  f \in late'
  BY DEF LeftoversAreLate
<1>0. f \in offers' /\ f.order = o
  BY DEF OffersOn
<1>a. ASSUME o \in decided \ (purges \cup uncleared), f \in offers
      PROVE  f \in late
  BY <1>0, <1>a DEF LeftoversAreLate, OffersOn
<1> USE DEF database, queue, history, failed
<1>1. ASSUME NEW c \in Courier, NEW p \in Order, AddOffer(c, p)
      PROVE  f \in late'
  BY <1>0, <1>1, <1>a DEF AddOffer
<1>2. ASSUME NEW g \in posting, PostOffer(g)
      PROVE  f \in late'
  BY <1>0, <1>2, <1>a DEF PostOffer
<1>3. ASSUME NEW p \in Order, OpenOffers(p)
      PROVE  f \in late'
  BY <1>0, <1>3, <1>a DEF OpenOffers
<1>4. CASE OpenPage
  BY <1>0, <1>4, <1>a DEF OpenPage
<1>5. CASE GetCards
  BY <1>0, <1>5, <1>a DEF GetCards
<1>6. ASSUME NEW l \in listeners, Snapshot(l)
      PROVE  f \in late'
  BY <1>0, <1>6, <1>a DEF Snapshot
<1>7. ASSUME NEW l \in listeners, ListAgain(l)
      PROVE  f \in late'
  BY <1>0, <1>7, <1>a DEF ListAgain
<1>8. ASSUME NEW s \in Screen \ {"list"}, NEW g \in made, CancelOffer(s, g)
      PROVE  f \in late'
  BY <1>0, <1>8, <1>a DEF CancelOffer
<1>9. ASSUME NEW s \in Screen, Count(s)
      PROVE  f \in late'
  BY <1>0, <1>9, <1>a DEF Count
<1>10. ASSUME NEW s \in Screen, NEW c \in Courier, NEW p \in Order,
              Withdraw(s, c, p)
       PROVE  f \in late'
  BY <1>0, <1>10, <1>a DEF Withdraw
<1>11. ASSUME NEW p \in Order, NEW s \in {"assigned", "cancled"}, Decide(p, s)
       PROVE  f \in late'
  BY <1>0, <1>11, <1>a DEF Decide
<1>12. ASSUME NEW p \in Order, PurgeOffers(p)
       PROVE  f \in late'
  BY <1>0, <1>12, <1>a DEF PurgeOffers, OffersOn
<1>14. ASSUME NEW p \in Order, AddOrder(p)
       PROVE  f \in late'
  BY <1>0, <1>14, <1>a DEF AddOrder
<1>15. ASSUME NEW g \in posting, PostFails(g)
       PROVE  f \in late'
  BY <1>0, <1>15, <1>a DEF PostFails
<1>16. ASSUME NEW s \in Screen, NEW c \in Courier, NEW p \in Order,
              WithdrawFails(s, c, p)
       PROVE  f \in late'
  BY <1>0, <1>16, <1>a DEF WithdrawFails
<1>17. ASSUME NEW p \in Order, PurgeFails(p)
       PROVE  f \in late'
  BY <1>0, <1>17, <1>a DEF PurgeFails
<1>18. ASSUME NEW d \in {"member"} \cup Courier, Kill(d)
       PROVE  f \in late'
  BY <1>0, <1>18, <1>a, Killed
<1>13. CASE UNCHANGED vars
  BY <1>0, <1>13, <1>a DEF vars
<1> QED
  BY <1>1, <1>2, <1>3, <1>4, <1>5, <1>6, <1>7, <1>8, <1>9, <1>10, <1>11, <1>12, <1>13, <1>14,
     <1>15, <1>16, <1>17, <1>18, Steps

\* The listener that filled the array goes on accounting for it: only a
\* snapshot tells a listener anything else, and it refills the array.
LEMMA ToldStep == TypeOK /\ ListsTold /\ [Next]_vars => ListsTold'
<1> SUFFICES ASSUME TypeOK, ListsTold, [Next]_vars PROVE ListsTold'
  OBVIOUS
<1> USE DEF database, queue, history, failed
<1>1. ASSUME UNCHANGED <<told, array>>
      PROVE  ListsTold'
  BY <1>1 DEF ListsTold
<1>2. CASE OpenPage
  <2>1. \A s \in Screen \ {"page"} : array'[s] = array[s]
    BY <1>2 DEF OpenPage, TypeOK
  <2>2. UNCHANGED told
    BY <1>2 DEF OpenPage
  <2> QED
    BY <2>1, <2>2 DEF ListsTold
<1>3. ASSUME NEW l \in listeners, Snapshot(l)
      PROVE  ListsTold'
  <2> DEFINE before == IF l \in DOMAIN told THEN told[l] ELSE {}
  <2>1. /\ array' = [array EXCEPT ![l.at] = OffersOn(l.order) \ before]
        /\ told' = [k \in DOMAIN told \cup {l} |->
                       IF k = l THEN OffersOn(l.order) ELSE told[k]]
    BY <1>3 DEF Snapshot
  <2>2. /\ DOMAIN told' = DOMAIN told \cup {l}
        /\ told'[l] = OffersOn(l.order)
        /\ \A k \in DOMAIN told : k # l => told'[k] = told[k]
    BY <2>1
  <2>3. \A s \in Screen : array'[s] = IF s = l.at THEN OffersOn(l.order) \ before ELSE array[s]
    BY <2>1 DEF TypeOK
  <2> SUFFICES ASSUME NEW s \in Screen \ {"page"}, array'[s] # {}
               PROVE  \E k \in DOMAIN told' : k.at = s /\ array'[s] \subseteq told'[k]
    BY DEF ListsTold
  <2>4. CASE s = l.at
    BY <2>2, <2>3, <2>4
  <2>5. CASE s # l.at
    <3>1. array'[s] = array[s]
      BY <2>3, <2>5
    <3>2. PICK k \in DOMAIN told : k.at = s /\ array[s] \subseteq told[k]
      BY <3>1 DEF ListsTold
    <3>3. k # l
      BY <2>5, <3>2
    <3> QED
      BY <2>2, <3>1, <3>2, <3>3
  <2> QED
    BY <2>4, <2>5
<1>4. ASSUME NEW c \in Courier, NEW o \in Order, AddOffer(c, o)
      PROVE  ListsTold'
  BY <1>1, <1>4 DEF AddOffer
<1>5. ASSUME NEW f \in posting, PostOffer(f)
      PROVE  ListsTold'
  BY <1>1, <1>5 DEF PostOffer
<1>6. ASSUME NEW o \in Order, OpenOffers(o)
      PROVE  ListsTold'
  BY <1>1, <1>6 DEF OpenOffers, Attach
<1>7. CASE GetCards
  BY <1>1, <1>7 DEF GetCards
<1>8. ASSUME NEW l \in listeners, ListAgain(l)
      PROVE  ListsTold'
  BY <1>1, <1>8 DEF ListAgain, Attach
<1>9. ASSUME NEW s \in Screen \ {"list"}, NEW f \in made, CancelOffer(s, f)
      PROVE  ListsTold'
  BY <1>1, <1>9 DEF CancelOffer, Attach
<1>10. ASSUME NEW s \in Screen, Count(s)
       PROVE  ListsTold'
  BY <1>1, <1>10 DEF Count
<1>11. ASSUME NEW s \in Screen, NEW c \in Courier, NEW o \in Order,
              Withdraw(s, c, o)
       PROVE  ListsTold'
  BY <1>1, <1>11 DEF Withdraw
<1>12. ASSUME NEW o \in Order, NEW s \in {"assigned", "cancled"}, Decide(o, s)
       PROVE  ListsTold'
  BY <1>1, <1>12 DEF Decide
<1>13. ASSUME NEW o \in Order, PurgeOffers(o)
       PROVE  ListsTold'
  BY <1>1, <1>13 DEF PurgeOffers
<1>15. ASSUME NEW o \in Order, AddOrder(o)
       PROVE  ListsTold'
  BY <1>1, <1>15 DEF AddOrder
<1>16. ASSUME \/ \E f \in posting : PostFails(f)
              \/ \E s \in Screen, c \in Courier, o \in Order : WithdrawFails(s, c, o)
              \/ \E o \in Order : PurgeFails(o)
       PROVE  ListsTold'
  BY <1>1, <1>16 DEF PostFails, WithdrawFails, PurgeFails
<1>17. ASSUME NEW d \in {"member"} \cup Courier, Kill(d)
       PROVE  ListsTold'
  <2> SUFFICES ASSUME NEW s \in Screen \ {"page"}, array'[s] # {}
               PROVE  \E k \in DOMAIN told' : k.at = s /\ array'[s] \subseteq told'[k]
    BY DEF ListsTold
  <2>1. DeviceOf(s) # d /\ array'[s] = array[s]
    BY <1>17, Killed
  <2>2. PICK k \in DOMAIN told : k.at = s /\ array[s] \subseteq told[k]
    BY <2>1 DEF ListsTold
  <2>3. k \in listeners'
    BY <1>17, <2>1, <2>2, Killed DEF TypeOK
  <2>4. k \in DOMAIN told' /\ told'[k] = told[k]
    BY <1>17, <2>2, <2>3, Killed
  <2> QED
    BY <2>1, <2>2, <2>4
<1>14. CASE UNCHANGED vars
  BY <1>1, <1>14 DEF vars
<1> QED
  BY <1>2, <1>3, <1>4, <1>5, <1>6, <1>7, <1>8, <1>9, <1>10, <1>11, <1>12, <1>13, <1>14, <1>15,
     <1>16, <1>17, Steps

-----------------------------------------------------------------------------
LEMMA OfferInit == Init => OfferInv
<1> SUFFICES ASSUME Init PROVE OfferInv
  OBVIOUS
<1>1. TypeOK
  <2>1. status \in [Order -> Status \cup {"absent"}] /\ array \in [Screen -> SUBSET made]
    BY DEF Init, Status
  <2>2. blocks \in [Screen -> Seq(Order)]
    BY EmptySeq DEF Init
  <2> QED
    BY <2>1, <2>2 DEF Init, TypeOK
<1>2. Disputes
  <2>1. \A s \in Screen : blocks[s] \in Seq(disputed)
    BY EmptySeq DEF Init
  <2> QED
    BY <2>1 DEF Init, Disputes
<1>3. OffersPlaced /\ StatusBacked /\ LeftoversAreLate /\ ListsTold
  BY DEF Init, OffersPlaced, StatusBacked, LeftoversAreLate, ListsTold
<1>4. CountsLeft
  BY EmptySeq DEF Init, CountsLeft
<1> QED
  BY <1>1, <1>2, <1>3, <1>4 DEF OfferInv

LEMMA OfferStep == OfferInv /\ [Next]_vars => OfferInv'
BY OfferType, DisputesStep, PlacedStep, CountsStep, BackedStep, LateStep, ToldStep
   DEF OfferInv

LEMMA OfferInductive == Spec => []OfferInv
BY OfferInit, OfferStep, PTL DEF Spec

-----------------------------------------------------------------------------
\* Typing: in particular an array, a card and a listener's last snapshot only
\* ever hold offers that were made.
THEOREM OffersAreTyped == Spec => []TypeOK
<1>1. OfferInv => TypeOK
  BY DEF OfferInv
<1> QED
  BY <1>1, OfferInductive, PTL

\* The status tells whether an order has offers, except where somebody
\* cancelled an offer on it, had decided it, or announced an offer that never
\* came (addOffer, cancelOffer).
THEOREM StatusIsExplained == Spec => []StatusExplained
<1>1. OfferInv => StatusExplained
  <2> SUFFICES ASSUME OfferInv, NEW o \in Order
               PROVE  /\ status[o] = "waiting for offer" /\ OffersOn(o) # {} => o \in disputed
                      /\ Settled /\ status[o] = "have an offer" /\ OffersOn(o) = {} =>
                            o \in disputed \cup decided \cup lost
    BY DEF StatusExplained
  <2>1. /\ status[o] = "waiting for offer" /\ (\E f \in made \cup posting : f.order = o) =>
               o \in disputed
        /\ status[o] = "have an offer" /\ o \notin disputed \cup decided \cup lost =>
               \E f \in offers \cup posting : f.order = o
    BY DEF OfferInv, StatusBacked
  <2>2. OffersOn(o) # {} => \E f \in made \cup posting : f.order = o
    BY DEF OfferInv, TypeOK, OffersOn
  <2>3. Settled /\ (\E f \in offers \cup posting : f.order = o) => OffersOn(o) # {}
    BY DEF Settled, OffersOn
  <2> QED
    BY <2>1, <2>2, <2>3
<1> QED
  BY <1>1, OfferInductive, PTL

\* The only offers left on a decided order, unless the deletion is under way,
\* failed or was cut short, came after the decision (acceptOffer and
\* cancelOrder, against addOffer).
THEOREM LeftoversCameLate == Spec => []LeftoversAreLate
<1>1. OfferInv => LeftoversAreLate
  BY DEF OfferInv
<1> QED
  BY <1>1, OfferInductive, PTL

\* A screen whose listeners have had their snapshots lists no deleted offer,
\* whichever of them filled the array last (getOffers).
THEOREM DeletedOffersLeaveLists == Spec => []NoDeletedOfferListed
<1>1. OfferInv => NoDeletedOfferListed
  <2> SUFFICES ASSUME OfferInv, NEW s \in Screen \ {"page"},
                      \A l \in listeners : l.at = s => ~Behind(l),
                      array[s] # {}
               PROVE  array[s] \subseteq offers
    BY DEF NoDeletedOfferListed
  <2>1. PICK l \in DOMAIN told : l.at = s /\ array[s] \subseteq told[l]
    BY DEF OfferInv, ListsTold
  <2>2. ~Behind(l)
    BY <2>1 DEF OfferInv, TypeOK
  <2> QED
    BY <2>1, <2>2 DEF Behind, OffersOn
<1> QED
  BY <1>1, OfferInductive, PTL

-----------------------------------------------------------------------------
(* The board implements the lifecycle.                                     *)

\* The awards: a courier an order names is one of those it was given to.
AwardInv ==
    /\ courierID \in [Order -> Courier \cup {"nobody"}]
    /\ holders \in [Order -> SUBSET Courier]
    /\ \A o \in Order :
          courierID[o] # "nobody" => courierID[o] \in holders[o] /\ o \in Placed

BoardInv == OfferInv /\ AwardInv

\* With the awards a step is still a step of OfferBoard.
LEMMA BoardSteps == [BoardNext]_boardVars => [Next]_vars
BY DEF BoardNext, boardVars, AwardTo, Award, Next

LEMMA AwardStep == OfferInv /\ AwardInv /\ [BoardNext]_boardVars => AwardInv'
<1> SUFFICES ASSUME TypeOK, Disputes, OffersPlaced, AwardInv, [BoardNext]_boardVars
             PROVE  AwardInv'
  BY DEF OfferInv
<1>0. Placed \subseteq Placed'
  BY BoardSteps, StaysPlaced
<1>1. ASSUME NEW f \in made, AwardTo(f)
      PROVE  AwardInv'
  <2>1. f.order \in Order /\ f.courier \in Courier
    BY DEF TypeOK, OfferDoc
  <2>0. f.order \in Placed'
    BY <1>0 DEF OffersPlaced
  <2>2. /\ courierID' = [courierID EXCEPT ![f.order] = f.courier]
        /\ holders' = [holders EXCEPT ![f.order] = @ \cup {f.courier}]
    BY <1>1 DEF AwardTo
  <2> QED
    BY <1>0, <2>0, <2>1, <2>2 DEF AwardInv
<1>2. CASE UNCHANGED awards
  BY <1>0, <1>2 DEF awards, AwardInv
<1> QED
  BY <1>1, <1>2 DEF BoardNext, boardVars

LEMMA BoardInductive == BoardSpec => []BoardInv
<1>1. BoardInit => BoardInv
  <2>1. BoardInit => AwardInv
    BY BoardAssumption DEF BoardInit, AwardInv
  <2> QED
    BY <2>1, OfferInit DEF BoardInit, BoardInv
<1>2. BoardInv /\ [BoardNext]_boardVars => BoardInv'
  <2>1. OfferInv => TypeOK
    BY DEF OfferInv
  <2> QED
    BY <2>1, BoardSteps, OfferStep, AwardStep DEF BoardInv
<1> QED
  BY <1>1, <1>2, PTL DEF BoardSpec

-----------------------------------------------------------------------------
\* What the price keeps of an offer, and that it tells offers apart.
LEMMA PricedFields ==
    ASSUME NEW f
    PROVE  /\ Priced(f).id = f.id
           /\ Priced(f).order = f.order
           /\ Priced(f).courier = f.courier
           /\ Priced(f).price = 0
BY DEF Priced

LEMMA PricedOnce ==
    ASSUME NEW f \in OfferDoc, NEW g \in OfferDoc, Priced(f) = Priced(g)
    PROVE  f = g
<1>1. f.id = g.id /\ f.order = g.order /\ f.courier = g.courier
  BY PricedFields
<1> QED
  BY <1>1 DEF OfferDoc

LEMMA PricedSets ==
    ASSUME NEW S \in SUBSET OfferDoc, NEW T \in SUBSET OfferDoc
    PROVE  /\ AtOnePrice(S \cup T) = AtOnePrice(S) \cup AtOnePrice(T)
           /\ AtOnePrice(S \ T) = AtOnePrice(S) \ AtOnePrice(T)
<1>1. AtOnePrice(S \cup T) = AtOnePrice(S) \cup AtOnePrice(T)
  BY DEF AtOnePrice
<1>2. \A f \in S, g \in T : Priced(f) = Priced(g) => f = g
  BY PricedOnce
<1>3. AtOnePrice(S \ T) = AtOnePrice(S) \ AtOnePrice(T)
  BY <1>2 DEF AtOnePrice
<1> QED
  BY <1>1, <1>3

\* One offer more, or one less.
LEMMA PricedOne ==
    ASSUME NEW f
    PROVE  AtOnePrice({f}) = {Priced(f)}
BY DEF AtOnePrice

\* A courier's offers on an order, and an order's offers, are told apart alike.
LEMMA PricedOffers ==
    ASSUME TypeOK, NEW c \in Courier, NEW o \in Order
    PROVE  /\ AtOnePrice(OffersOn(o)) = Lifecycle!OffersOn(o)
           /\ AtOnePrice(OffersBy(c, o)) = Lifecycle!OffersBy(c, o)
<1>1. AtOnePrice(OffersOn(o)) = Lifecycle!OffersOn(o)
  BY PricedFields DEF AtOnePrice, OffersOn, Lifecycle!OffersOn
<1>2. AtOnePrice(OffersBy(c, o)) = Lifecycle!OffersBy(c, o)
  BY PricedFields DEF AtOnePrice, OffersOn, OffersBy, Lifecycle!OffersOn, Lifecycle!OffersBy
<1> QED
  BY <1>1, <1>2

\* An id that is free stays free, and the other way round.
LEMMA PricedIds ==
    {f.id : f \in AtOnePrice(made) \cup AtOnePrice(posting)} = {f.id : f \in made \cup posting}
BY PricedFields DEF AtOnePrice

-----------------------------------------------------------------------------
\* What the cards have shown of an order.
LEMMA ShownMapped ==
    ASSUME NEW o \in Order
    PROVE  /\ "waiting for offer" \in Shown[o] <=> o \in Placed
           /\ "have an offer" \in Shown[o] <=> o \in Announced
           /\ Shown[o] \subseteq {"waiting for offer", "have an offer"}
           /\ o \in Placed => Shown[o] # {}
BY DEF Shown

\* They depend on no more than this.
LEMMA ShownSame ==
    ASSUME Placed' = Placed, Announced' = Announced
    PROVE  Shown' = Shown
BY DEF Shown

\* An offer that never comes was announced all the same.
LEMMA StaysAnnounced ==
    ASSUME UNCHANGED made, posting' \subseteq posting,
           lost' = lost \cup {f.order : f \in posting \ posting'}
    PROVE  Announced' = Announced
<1>1. \A x : x \in Announced' <=> x \in Announced
  <2> SUFFICES ASSUME NEW x PROVE x \in Announced' <=> x \in Announced
    OBVIOUS
  <2>1. x \in Announced <=> (\E f \in made \cup posting : f.order = x) \/ x \in lost
    BY DEF Announced
  <2>2. x \in Announced' <=> (\E f \in made \cup posting' : f.order = x) \/ x \in lost'
    BY DEF Announced
  <2>3. x \in lost' <=> x \in lost \/ \E f \in posting \ posting' : f.order = x
    OBVIOUS
  <2> QED
    BY <2>1, <2>2, <2>3
<1> QED
  BY <1>1

LEMMA StatusNames ==
    /\ Lifecycle!Open = {"waiting for offer", "have an offer"}
    /\ Status \subseteq Lifecycle!Status
    /\ "absent" \notin Status
BY DEF Lifecycle!Open, Lifecycle!Status, Status

-----------------------------------------------------------------------------
\* The document an order is seen as, field by field.
LEMMA DocFields ==
    ASSUME NEW o \in Order
    PROVE  /\ Docs[o] = [status   |-> status[o],
                         assigned |-> courierID[o] # "nobody",
                         courier  |-> courierID[o],
                         price    |-> 0]
           /\ Docs[o].status = status[o]
           /\ Docs[o].courier = courierID[o]
           /\ Docs[o].assigned <=> courierID[o] # "nobody"
BY DEF Docs

\* A merged write changes the status and keeps the other fields.
LEMMA MergedFields ==
    ASSUME NEW a, NEW b, NEW c, NEW p, NEW s, NEW doc,
           doc = [status |-> a, assigned |-> b, courier |-> c, price |-> p]
    PROVE  Lifecycle!WithStatus(doc, s) =
              [status |-> s, assigned |-> b, courier |-> c, price |-> p]
BY DEF Lifecycle!WithStatus

LEMMA DocMerged ==
    ASSUME NEW o \in Order, NEW s
    PROVE  Lifecycle!WithStatus(Docs[o], s) =
              [status   |-> s,
               assigned |-> courierID[o] # "nobody",
               courier  |-> courierID[o],
               price    |-> 0]
<1> DEFINE b == courierID[o] # "nobody"
<1>1. Docs[o] = [status |-> status[o], assigned |-> b, courier |-> courierID[o], price |-> 0]
  BY DocFields
<1> HIDE DEF b
<1>2. Lifecycle!WithStatus(Docs[o], s) =
         [status |-> s, assigned |-> b, courier |-> courierID[o], price |-> 0]
  BY <1>1, MergedFields
<1> QED
  BY <1>2, Zenon DEF b

LEMMA MergedMapped ==
    ASSUME NEW o \in Order, NEW s
    PROVE  /\ Lifecycle!WithStatus(Docs[o], s).status = s
           /\ Lifecycle!WithStatus(Docs[o], s).courier = courierID[o]
           /\ Lifecycle!WithStatus(Docs[o], s).assigned <=> courierID[o] # "nobody"
<1> DEFINE doc == [status   |-> s,
                   assigned |-> courierID[o] # "nobody",
                   courier  |-> courierID[o],
                   price    |-> 0]
<1>1. doc.status = s /\ doc.courier = courierID[o] /\ (doc.assigned <=> courierID[o] # "nobody")
  OBVIOUS
<1>2. Lifecycle!WithStatus(Docs[o], s) = doc
  BY DocMerged
<1> HIDE DEF doc
<1> QED
  BY <1>1, <1>2

LEMMA DocWritten ==
    ASSUME NEW o \in Order, NEW s,
           TypeOK, status' = [status EXCEPT ![o] = s], UNCHANGED courierID
    PROVE  Docs' = [Docs EXCEPT ![o] = Lifecycle!WithStatus(Docs[o], s)]
<1> DEFINE doc(q) == [status   |-> status'[q],
                      assigned |-> courierID[q] # "nobody",
                      courier  |-> courierID[q],
                      price    |-> 0]
<1>1. Docs' = [q \in Order |-> doc(q)]
  BY DEF Docs
<1>2. doc(o) = Lifecycle!WithStatus(Docs[o], s)
  <2>1. status'[o] = s
    BY DEF TypeOK
  <2> QED
    BY <2>1, DocMerged
<1>3. ASSUME NEW q \in Order, q # o
      PROVE  doc(q) = Docs[q]
  <2>1. status'[q] = status[q]
    BY <1>3 DEF TypeOK
  <2> QED
    BY <2>1, DocFields
<1>4. Docs = [q \in Order |-> Docs[q]]
  BY DEF Docs
<1> HIDE DEF doc
<1> QED
  BY <1>1, <1>2, <1>3, <1>4

\* The holders a write leaves: none of an order that is over, and otherwise the
\* courier the order names, who holds it already.
LEMMA HolderKnown ==
    ASSUME AwardInv, NEW o \in Order, NEW s
    PROVE  Lifecycle!Holder(Lifecycle!WithStatus(Docs[o], s)) \subseteq holders[o]
<1> DEFINE doc == Lifecycle!WithStatus(Docs[o], s)
<1>1. doc.courier = courierID[o]
  BY MergedMapped
<1>2. doc.assigned <=> courierID[o] # "nobody"
  BY MergedMapped
<1> HIDE DEF doc
<1> QED
  <2>1. CASE courierID[o] = "nobody"
    BY <1>2, <2>1 DEF Lifecycle!Holder, doc
  <2>2. CASE courierID[o] # "nobody"
    <3>1. courierID[o] \in holders[o]
      BY <2>2 DEF AwardInv
    <3> QED
      BY <1>1, <3>1 DEF Lifecycle!Holder, doc
  <2> QED
    BY <2>1, <2>2

\* Writing one of the open statuses: a card shows it from then on.
LEMMA StatusWritten ==
    ASSUME TypeOK, AwardInv, NEW o \in Placed, NEW s \in {"waiting for offer", "have an offer"},
           status' = [status EXCEPT ![o] = s], UNCHANGED awards,
           \A q \in Order : q \in Announced' <=>
                               q \in Announced \/ (q = o /\ s = "have an offer")
    PROVE  Lifecycle!SetStatus(o, s)
<1> DEFINE doc == Lifecycle!WithStatus(Docs[o], s)
<1>0. o \in Order /\ status[o] # "absent"
  BY DEF Placed
<1>1. Docs' = [Docs EXCEPT ![o] = doc]
  BY <1>0, DocWritten DEF awards
<1>2. doc.status = s
  BY <1>0, MergedMapped
<1>3. holders' = [holders EXCEPT ![o] = @ \cup Lifecycle!Holder(doc)]
  <2>1. holders[o] \cup Lifecycle!Holder(doc) = holders[o]
    BY <1>0, HolderKnown
  <2> QED
    BY <1>0, <2>1 DEF awards, AwardInv
<1>4. Placed' = Placed
  <2>1. \A q \in Order : status'[q] = IF q = o THEN s ELSE status[q]
    BY <1>0 DEF TypeOK
  <2>2. s # "absent"
    OBVIOUS
  <2>3. \A q \in Order : status'[q] # "absent" <=> status[q] # "absent"
    BY <1>0, <2>1, <2>2
  <2> QED
    BY <2>3 DEF Placed
<1>5. Shown' = [Shown EXCEPT ![o] = @ \cup ({doc.status} \cap Lifecycle!Open)]
  <2>1. {doc.status} \cap Lifecycle!Open = {s}
    BY <1>2, StatusNames
  <2>2. ASSUME NEW q \in Order
        PROVE  Shown'[q] = IF q = o THEN Shown[q] \cup {s} ELSE Shown[q]
    <3>1. /\ "waiting for offer" \in Shown'[q] <=> q \in Placed'
          /\ "have an offer" \in Shown'[q] <=> q \in Announced'
          /\ Shown'[q] \subseteq {"waiting for offer", "have an offer"}
      BY DEF Shown
    <3>2. /\ "waiting for offer" \in Shown[q] <=> q \in Placed
          /\ "have an offer" \in Shown[q] <=> q \in Announced
          /\ Shown[q] \subseteq {"waiting for offer", "have an offer"}
      BY ShownMapped
    <3>0. q \in Announced' <=> q \in Announced \/ (q = o /\ s = "have an offer")
      OBVIOUS
    <3>a. "waiting for offer" \in Shown'[q] <=> "waiting for offer" \in Shown[q]
      BY <1>4, <3>1, <3>2
    <3>b. "have an offer" \in Shown'[q] <=>
             "have an offer" \in Shown[q] \/ (q = o /\ s = "have an offer")
      BY <3>0, <3>1, <3>2
    <3>c. "waiting for offer" \in Shown[o]
      BY <1>0, ShownMapped
    <3>3. CASE q = o
      <4>1. CASE s = "waiting for offer"
        BY <3>1, <3>2, <3>a, <3>b, <3>c, <3>3, <4>1
      <4>2. CASE s = "have an offer"
        BY <3>1, <3>2, <3>a, <3>b, <3>3, <4>2
      <4> QED
        BY <4>1, <4>2
    <3>4. CASE q # o
      <4>1. "have an offer" \in Shown'[q] <=> "have an offer" \in Shown[q]
        BY <3>b, <3>4
      <4>2. Shown'[q] = Shown[q]
        <5>1. ASSUME NEW x \in {"waiting for offer", "have an offer"}
              PROVE  x \in Shown'[q] <=> x \in Shown[q]
          BY <3>a, <4>1
        <5>2. Shown'[q] \subseteq Shown[q]
          BY <3>1, <5>1
        <5>3. Shown[q] \subseteq Shown'[q]
          BY <3>2, <5>1
        <5> QED
          BY <5>2, <5>3
      <4> QED
        BY <3>4, <4>2
    <3> QED
      BY <3>3, <3>4
  <2>3. Shown = [q \in Order |-> Shown[q]] /\ Shown' = [q \in Order |-> Shown'[q]]
    BY DEF Shown
  <2> QED
    BY <1>0, <2>1, <2>2, <2>3
<1> HIDE DEF doc
<1> QED
  BY <1>1, <1>3, <1>5 DEF Lifecycle!SetStatus, Lifecycle!Write, doc

-----------------------------------------------------------------------------
\* Each mapped variable changes only with what it is made from.
LEMMA MappedSame ==
    /\ UNCHANGED status /\ UNCHANGED courierID => UNCHANGED Docs
    /\ UNCHANGED made /\ UNCHANGED posting /\ UNCHANGED lost => UNCHANGED Announced
    /\ UNCHANGED status /\ UNCHANGED Announced => UNCHANGED Shown
    /\ UNCHANGED offers => UNCHANGED AtOnePrice(offers)
    /\ UNCHANGED made => UNCHANGED AtOnePrice(made)
    /\ UNCHANGED posting => UNCHANGED AtOnePrice(posting)
    /\ UNCHANGED holders => UNCHANGED Started
    /\ UNCHANGED purges => UNCHANGED Purging
    /\ UNCHANGED withdrawals => UNCHANGED Withdrawing
    /\ UNCHANGED listeners => UNCHANGED Recounting
<1>1. UNCHANGED status /\ UNCHANGED courierID => UNCHANGED Docs
  BY DEF Docs
<1>0. UNCHANGED made /\ UNCHANGED posting /\ UNCHANGED lost => UNCHANGED Announced
  BY DEF Announced
<1>2. UNCHANGED status /\ UNCHANGED Announced => UNCHANGED Shown
  <2>1. UNCHANGED status => UNCHANGED Placed
    BY DEF Placed
  <2> QED
    BY <2>1, ShownSame
<1>3. UNCHANGED purges => UNCHANGED Purging
  BY DEF Purging
<1>4. UNCHANGED withdrawals => UNCHANGED Withdrawing
  BY DEF Withdrawing
<1>5. UNCHANGED listeners => UNCHANGED Recounting
  BY DEF Recounting
<1> QED
  BY <1>0, <1>1, <1>2, <1>3, <1>4, <1>5 DEF AtOnePrice, Started

\* A listener that does not count asks for nothing.
LEMMA RecountingSame ==
    ASSUME NEW l, ~l.counts, listeners' = listeners \cup {l}
    PROVE  UNCHANGED Recounting
<1>1. {k \in listeners' : k.counts} = {k \in listeners : k.counts}
  OBVIOUS
<1> QED
  BY <1>1 DEF Recounting

\* What only lists offers writes nothing.
LEMMA ListingMapped ==
    ASSUME UNCHANGED <<status, offers, made, posting, withdrawals, purges, lost>>,
           UNCHANGED awards, UNCHANGED Recounting
    PROVE  UNCHANGED Lifecycle!vars
<1>1. /\ UNCHANGED status /\ UNCHANGED offers /\ UNCHANGED made /\ UNCHANGED posting
      /\ UNCHANGED withdrawals /\ UNCHANGED purges /\ UNCHANGED lost
      /\ UNCHANGED courierID /\ UNCHANGED holders
  BY DEF awards
<1>2. /\ UNCHANGED Docs /\ UNCHANGED Shown /\ UNCHANGED holders
      /\ UNCHANGED AtOnePrice(offers) /\ UNCHANGED AtOnePrice(made)
      /\ UNCHANGED AtOnePrice(posting)
      /\ UNCHANGED Started /\ UNCHANGED Purging /\ UNCHANGED Withdrawing
  BY <1>1, MappedSame
<1> QED
  BY <1>2 DEF Lifecycle!vars, Lifecycle!docs, Lifecycle!pending, Lifecycle!courses

\* addOrder: the document was absent and nobody had been shown it.
LEMMA AddOrderMapped ==
    ASSUME OfferInv, AwardInv, NEW o \in Order, AddOrder(o), UNCHANGED awards
    PROVE  Lifecycle!AddOrder(o)
<1> USE DEF database, queue, history, failed
<1> DEFINE doc == Lifecycle!WithStatus(Docs[o], "waiting for offer")
<1>0. /\ TypeOK /\ OffersPlaced
      /\ o \notin Placed /\ status[o] = "absent" /\ courierID[o] = "nobody"
      /\ status' = [status EXCEPT ![o] = "waiting for offer"]
      /\ UNCHANGED courierID /\ UNCHANGED holders
      /\ UNCHANGED offers /\ UNCHANGED made /\ UNCHANGED posting
      /\ UNCHANGED withdrawals /\ UNCHANGED purges /\ UNCHANGED listeners
      /\ UNCHANGED lost
  BY DEF OfferInv, AddOrder, Placed, AwardInv, awards
<1>1. Docs[o] = Lifecycle!Absent
  <2>1. Docs[o] = [status |-> status[o], assigned |-> courierID[o] # "nobody",
                   courier |-> courierID[o], price |-> 0]
    BY DocFields
  <2>2. (courierID[o] # "nobody") = FALSE
    BY <1>0
  <2> QED
    BY <1>0, <2>1, <2>2 DEF Lifecycle!Absent
<1>2. Docs' = [Docs EXCEPT ![o] = doc]
  BY <1>0, DocWritten
<1>3. /\ doc.status = "waiting for offer"
      /\ ~doc.assigned
  BY <1>0, MergedMapped
<1>4. holders' = [holders EXCEPT ![o] = @ \cup Lifecycle!Holder(doc)]
  <2>1. Lifecycle!Holder(doc) = {}
    BY <1>3 DEF Lifecycle!Holder
  <2> QED
    BY <1>0, <2>1 DEF AwardInv
<1>5. Shown' = [Shown EXCEPT ![o] = @ \cup ({doc.status} \cap Lifecycle!Open)]
  <2>1. {doc.status} \cap Lifecycle!Open = {"waiting for offer"}
    BY <1>3, StatusNames
  <2>2. \A q \in Order : status'[q] = IF q = o THEN "waiting for offer" ELSE status[q]
    BY <1>0 DEF TypeOK
  <2>3. \A q \in Order : q \in Placed' <=> q \in Placed \/ q = o
    BY <2>2 DEF Placed
  <2>4. ASSUME NEW q \in Order
        PROVE  Shown'[q] = IF q = o THEN Shown[q] \cup {"waiting for offer"} ELSE Shown[q]
    <3>1. Announced' = Announced
      BY <1>0, MappedSame
    <3>2. /\ Shown'[q] = {"waiting for offer" : p \in Placed' \cap {q}} \cup
                 {"have an offer" : p \in Announced \cap {q}}
          /\ Shown[q] = {"waiting for offer" : p \in Placed \cap {q}} \cup
                 {"have an offer" : p \in Announced \cap {q}}
      BY <3>1 DEF Shown
    <3>3. CASE q = o
      <4>1. o \in Placed'
        BY <2>3
      <4>2. {"waiting for offer" : p \in Placed' \cap {o}} = {"waiting for offer"}
        BY <4>1
      <4>3. {"waiting for offer" : p \in Placed \cap {o}} = {}
        BY <1>0
      <4> QED
        BY <3>2, <3>3, <4>2, <4>3
    <3>4. CASE q # o
      <4>1. Placed' \cap {q} = Placed \cap {q}
        BY <2>3, <3>4
      <4> QED
        BY <3>2, <3>4, <4>1
    <3> QED
      BY <3>3, <3>4
  <2>5. Shown = [q \in Order |-> Shown[q]] /\ Shown' = [q \in Order |-> Shown'[q]]
    BY DEF Shown
  <2> QED
    BY <2>1, <2>4, <2>5
<1> HIDE DEF doc
<1>6. Lifecycle!Write(o, doc)
  BY <1>2, <1>4, <1>5 DEF Lifecycle!Write
<1>7. doc = Lifecycle!WithStatus(Lifecycle!Absent, "waiting for offer")
  BY <1>1 DEF doc
<1> QED
  BY <1>0, <1>1, <1>6, <1>7, MappedSame DEF Lifecycle!AddOrder, Lifecycle!pending, Lifecycle!courses

\* addOffer: the status is written and the document is on its way.
LEMMA AddOfferMapped ==
    ASSUME OfferInv, AwardInv, NEW c \in Courier, NEW o \in Order, AddOffer(c, o),
           UNCHANGED awards
    PROVE  Lifecycle!AddOffer(c, o, 0)
<1> USE DEF database, queue, history, failed
<1>1. PICK id \in OfferId \ {f.id : f \in made \cup posting} :
         posting' = posting \cup {[id |-> id, order |-> o, courier |-> c]}
  BY DEF AddOffer, NewOffer
<1> DEFINE f == [id |-> id, order |-> o, courier |-> c]
<1>2. /\ TypeOK /\ o \in Placed /\ status' = [status EXCEPT ![o] = "have an offer"]
      /\ UNCHANGED holders /\ UNCHANGED offers /\ UNCHANGED made
      /\ UNCHANGED withdrawals /\ UNCHANGED purges /\ UNCHANGED listeners /\ UNCHANGED lost
  BY DEF OfferInv, AddOffer, awards
<1>3. f \in OfferDoc /\ f.order = o /\ posting' = posting \cup {f}
  BY <1>1 DEF OfferDoc
<1>4. Priced(f) = [id |-> id, order |-> o, courier |-> c, price |-> 0]
  BY DEF Priced
<1> HIDE DEF f
<1>5. AtOnePrice(posting)' = AtOnePrice(posting) \cup {Priced(f)}
  <2>1. AtOnePrice(posting)' = AtOnePrice(posting')
    BY DEF AtOnePrice
  <2>2. posting \in SUBSET OfferDoc /\ {f} \in SUBSET OfferDoc
    BY <1>2, <1>3 DEF TypeOK
  <2>3. AtOnePrice(posting \cup {f}) = AtOnePrice(posting) \cup AtOnePrice({f})
    BY <2>2, PricedSets
  <2> QED
    BY <1>3, <2>1, <2>3, PricedOne
<1>6. Lifecycle!SetStatus(o, "have an offer")
  <2>1. \A q \in Order : q \in Announced' <=>
                            q \in Announced \/ (q = o /\ "have an offer" = "have an offer")
    <3>1. made' \cup posting' = (made \cup posting) \cup {f}
      BY <1>2, <1>3
    <3> QED
      BY <1>2, <1>3, <3>1 DEF Announced
  <2> QED
    BY <1>2, <2>1, StatusWritten
<1>7. Shown[o] # {}
  BY <1>2, ShownMapped
<1>8. id \in OfferId \ {g.id : g \in AtOnePrice(made) \cup AtOnePrice(posting)}
  BY PricedIds
<1> QED
  BY <1>2, <1>4, <1>5, <1>6, <1>7, <1>8, MappedSame DEF Lifecycle!AddOffer, Lifecycle!courses

\* addOffer's callback: the document is there.
LEMMA PostOfferMapped ==
    ASSUME OfferInv, NEW f \in posting, PostOffer(f), UNCHANGED awards
    PROVE  Lifecycle!PostOffer(Priced(f)) /\ Priced(f) \in AtOnePrice(posting)
<1> USE DEF database, queue, history, failed
<1>1. /\ TypeOK
      /\ posting' = posting \ {f} /\ offers' = offers \cup {f} /\ made' = made \cup {f}
      /\ UNCHANGED status /\ UNCHANGED courierID /\ UNCHANGED holders
      /\ UNCHANGED withdrawals /\ UNCHANGED purges /\ UNCHANGED listeners /\ UNCHANGED lost
  BY DEF OfferInv, PostOffer, awards
<1>2. /\ f \in OfferDoc /\ posting \subseteq OfferDoc /\ offers \subseteq OfferDoc
      /\ made \subseteq OfferDoc
  BY <1>1 DEF TypeOK
<1>3. /\ AtOnePrice(posting \ {f}) = AtOnePrice(posting) \ {Priced(f)}
      /\ AtOnePrice(offers \cup {f}) = AtOnePrice(offers) \cup {Priced(f)}
      /\ AtOnePrice(made \cup {f}) = AtOnePrice(made) \cup {Priced(f)}
  <2>1. {f} \in SUBSET OfferDoc
    BY <1>2
  <2>2. /\ AtOnePrice(posting \ {f}) = AtOnePrice(posting) \ AtOnePrice({f})
        /\ AtOnePrice(offers \cup {f}) = AtOnePrice(offers) \cup AtOnePrice({f})
        /\ AtOnePrice(made \cup {f}) = AtOnePrice(made) \cup AtOnePrice({f})
    BY <1>2, <2>1, PricedSets
  <2> QED
    BY <2>2, PricedOne
<1>4. /\ AtOnePrice(posting)' = AtOnePrice(posting')
      /\ AtOnePrice(offers)' = AtOnePrice(offers')
      /\ AtOnePrice(made)' = AtOnePrice(made')
  BY DEF AtOnePrice
<1>5. UNCHANGED Docs /\ UNCHANGED Started /\ UNCHANGED Purging /\ UNCHANGED Withdrawing
      /\ UNCHANGED Recounting
  BY <1>1, MappedSame
<1>6. UNCHANGED Shown
  <2>1. UNCHANGED Placed
    BY <1>1 DEF Placed
  <2>2. made' \cup posting' = made \cup posting
    BY <1>1
  <2>3. Announced' = Announced
    BY <1>1, <2>2 DEF Announced
  <2> QED
    BY <2>1, <2>3, ShownSame
<1>7. Priced(f) \in AtOnePrice(posting)
  BY DEF AtOnePrice
<1> QED
  BY <1>1, <1>3, <1>4, <1>5, <1>6, <1>7 DEF Lifecycle!PostOffer, Lifecycle!docs, Lifecycle!courses

\* cancelOffer, from whichever screen.
LEMMA CancelOfferMapped ==
    ASSUME OfferInv, NEW s \in Screen \ {"list"}, NEW f \in made, CancelOffer(s, f),
           UNCHANGED awards
    PROVE  Lifecycle!CancelOffer(DeviceOf(s), f.courier, f.order)
<1> USE DEF database, queue, history, failed
<1> DEFINE l == [at |-> s, order |-> f.order, cause |-> f.id, counts |-> TRUE]
<1>1. l.at = s /\ l.order = f.order /\ l.counts
  OBVIOUS
<1>2. Attach(l)
  BY DEF CancelOffer
<1> HIDE DEF l
<1>3. /\ listeners' = listeners \cup {l}
      /\ withdrawals' = withdrawals \cup {<<s, f.courier, f.order>>}
      /\ UNCHANGED status /\ UNCHANGED courierID /\ UNCHANGED holders
      /\ UNCHANGED offers /\ UNCHANGED made /\ UNCHANGED posting /\ UNCHANGED purges
      /\ UNCHANGED lost
  BY <1>2 DEF CancelOffer, Attach, awards
<1>4. Recounting' = Recounting \cup {<<DeviceOf(s), f.order>>}
  <2>1. {k \in listeners' : k.counts} = {k \in listeners : k.counts} \cup {l}
    BY <1>1, <1>3
  <2>2. Recounting' = {<<DeviceOf(k.at), k.order>> : k \in {m \in listeners' : m.counts}}
    BY DEF Recounting, DeviceOf
  <2> QED
    BY <1>1, <2>1, <2>2 DEF Recounting
<1>5. Withdrawing' = Withdrawing \cup {<<DeviceOf(s), f.courier, f.order>>}
  <2>1. Withdrawing' = {<<DeviceOf(w[1]), w[2], w[3]>> : w \in withdrawals'}
    BY DEF Withdrawing, DeviceOf
  <2> DEFINE v == <<s, f.courier, f.order>>
  <2>2. v[1] = s /\ v[2] = f.courier /\ v[3] = f.order /\ withdrawals' = withdrawals \cup {v}
    BY <1>3
  <2> HIDE DEF v
  <2> QED
    BY <2>1, <2>2 DEF Withdrawing
<1>6. /\ UNCHANGED Docs /\ UNCHANGED Shown /\ UNCHANGED Started /\ UNCHANGED Purging
      /\ UNCHANGED AtOnePrice(offers) /\ UNCHANGED AtOnePrice(made)
      /\ UNCHANGED AtOnePrice(posting)
  BY <1>3, MappedSame
<1> QED
  BY <1>3, <1>4, <1>5, <1>6 DEF Lifecycle!CancelOffer, Lifecycle!docs, Lifecycle!courses

\* The block of cancelOffer's listener writes nothing, or takes an order back
\* to waiting on which its device left the listener.
LEMMA CountMapped ==
    ASSUME OfferInv, AwardInv, NEW s \in Screen, Count(s), UNCHANGED awards
    PROVE  \/ UNCHANGED Lifecycle!vars
           \/ \E d \in Lifecycle!Device, o \in Order : Lifecycle!Recount(d, o)
<1> USE DEF database, queue, history, failed
<1> DEFINE o == Head(blocks[s])
<1>1. /\ TypeOK /\ blocks[s] # <<>>
      /\ blocks[s] \in Seq(Asked(s)) /\ blocks[s] \in Seq(disputed)
      /\ disputed \subseteq Placed
      /\ UNCHANGED courierID /\ UNCHANGED holders
      /\ UNCHANGED offers /\ UNCHANGED made /\ UNCHANGED posting
      /\ UNCHANGED withdrawals /\ UNCHANGED purges /\ UNCHANGED listeners /\ UNCHANGED lost
  BY DEF OfferInv, CountsLeft, Disputes, OffersPlaced, Count, awards
<1>2. o \in Asked(s) /\ o \in Placed
  <2> HIDE DEF Asked
  <2> QED
    BY <1>1, Queues
<1>3. \/ status' = [status EXCEPT ![o] = "waiting for offer"]
      \/ UNCHANGED status
  BY DEF Count
<1> HIDE DEF o
<1>4. CASE UNCHANGED status
  BY <1>1, <1>4, ListingMapped, MappedSame
<1>5. CASE status' = [status EXCEPT ![o] = "waiting for offer"]
  <2>1. \A q \in Order : q \in Announced' <=>
                            q \in Announced \/ (q = o /\ "waiting for offer" = "have an offer")
    BY <1>1, MappedSame
  <2>2. Lifecycle!SetStatus(o, "waiting for offer")
    BY <1>1, <1>2, <1>5, <2>1, StatusWritten
  <2>3. PICK l \in listeners : l.at = s /\ l.order = o /\ l.counts
    BY <1>2 DEF Asked
  <2>4. <<DeviceOf(s), o>> \in Recounting
    BY <2>3 DEF Recounting
  <2>5. DeviceOf(s) \in Lifecycle!Device /\ o \in Order
    BY <1>2 DEF DeviceOf, Lifecycle!Device, Asked
  <2>6. /\ UNCHANGED AtOnePrice(offers) /\ UNCHANGED AtOnePrice(made)
        /\ UNCHANGED AtOnePrice(posting) /\ UNCHANGED Started /\ UNCHANGED Purging
        /\ UNCHANGED Withdrawing /\ UNCHANGED Recounting
    BY <1>1, MappedSame
  <2>7. Lifecycle!Recount(DeviceOf(s), o)
    BY <2>2, <2>4, <2>6 DEF Lifecycle!Recount, Lifecycle!pending, Lifecycle!courses
  <2> QED
    BY <2>5, <2>7
<1> QED
  BY <1>3, <1>4, <1>5

\* A device that no longer awaits an answer is seen not to: it has one screen
\* on which offers are cancelled.
LEMMA WithdrawingLess ==
    ASSUME TypeOK, NEW s, NEW c, NEW o, <<s, c, o>> \in withdrawals,
           withdrawals' = withdrawals \ {<<s, c, o>>}
    PROVE  /\ <<DeviceOf(s), c, o>> \in Withdrawing
           /\ Withdrawing' = Withdrawing \ {<<DeviceOf(s), c, o>>}
<1>2. ASSUME NEW w \in withdrawals, NEW v \in withdrawals,
             <<DeviceOf(w[1]), w[2], w[3]>> = <<DeviceOf(v[1]), v[2], v[3]>>
      PROVE  w = v
  <2>1. /\ w = <<w[1], w[2], w[3]>> /\ v = <<v[1], v[2], v[3]>>
        /\ w[1] \in {"page"} \cup Courier /\ v[1] \in {"page"} \cup Courier
    BY DEF TypeOK, Screen
  <2>2. w[2] = v[2] /\ w[3] = v[3] /\ DeviceOf(w[1]) = DeviceOf(v[1])
    BY <1>2
  <2>3. w[1] = v[1]
    BY <2>1, <2>2, BoardAssumption DEF DeviceOf
  <2> QED
    BY <2>1, <2>2, <2>3
<1>3. Withdrawing' = Withdrawing \ {<<DeviceOf(s), c, o>>}
  <2>1. Withdrawing' = {<<DeviceOf(w[1]), w[2], w[3]>> : w \in withdrawals'}
    BY DEF Withdrawing, DeviceOf
  <2>2. <<DeviceOf(s), c, o>> \in Withdrawing
    BY DEF Withdrawing
  <2> QED
    BY <1>2, <2>1 DEF Withdrawing
<1> QED
  BY <1>3 DEF Withdrawing

\* The answers of the two queries: each device deletes what it asked for.
LEMMA WithdrawMapped ==
    ASSUME OfferInv, NEW s \in Screen, NEW c \in Courier, NEW o \in Order, Withdraw(s, c, o),
           UNCHANGED awards
    PROVE  Lifecycle!Withdraw(DeviceOf(s), c, o)
<1> USE DEF database, queue, history, failed
<1>1. /\ TypeOK /\ <<s, c, o>> \in withdrawals
      /\ withdrawals' = withdrawals \ {<<s, c, o>>} /\ offers' = offers \ OffersBy(c, o)
      /\ UNCHANGED status /\ UNCHANGED courierID /\ UNCHANGED holders
      /\ UNCHANGED made /\ UNCHANGED posting /\ UNCHANGED purges /\ UNCHANGED listeners
      /\ UNCHANGED lost
  BY DEF OfferInv, Withdraw, awards
<1>2. AtOnePrice(offers)' = AtOnePrice(offers) \ Lifecycle!OffersBy(c, o)
  <2>1. offers \subseteq OfferDoc /\ OffersBy(c, o) \subseteq OfferDoc
    BY <1>1 DEF TypeOK, OffersBy, OffersOn
  <2>2. AtOnePrice(offers \ OffersBy(c, o)) = AtOnePrice(offers) \ AtOnePrice(OffersBy(c, o))
    BY <2>1, PricedSets
  <2>3. AtOnePrice(offers)' = AtOnePrice(offers')
    BY DEF AtOnePrice
  <2> QED
    BY <1>1, <2>2, <2>3, PricedOffers
<1>4. /\ <<DeviceOf(s), c, o>> \in Withdrawing
      /\ Withdrawing' = Withdrawing \ {<<DeviceOf(s), c, o>>}
  BY <1>1, WithdrawingLess
<1>6. /\ UNCHANGED Docs /\ UNCHANGED Shown /\ UNCHANGED Started /\ UNCHANGED Purging
      /\ UNCHANGED AtOnePrice(made) /\ UNCHANGED AtOnePrice(posting) /\ UNCHANGED Recounting
  BY <1>1, MappedSame
<1> QED
  BY <1>1, <1>2, <1>4, <1>6 DEF Lifecycle!Withdraw, Lifecycle!docs, Lifecycle!courses

\* Or some of what it asked for: the deletions may fail.
LEMMA WithdrawFailsMapped ==
    ASSUME OfferInv, NEW s \in Screen, NEW c \in Courier, NEW o \in Order,
           WithdrawFails(s, c, o), UNCHANGED awards
    PROVE  Lifecycle!WithdrawFails(DeviceOf(s), c, o)
<1> USE DEF database, queue, history, failed
<1>1. /\ TypeOK /\ <<s, c, o>> \in withdrawals
      /\ withdrawals' = withdrawals \ {<<s, c, o>>}
      /\ UNCHANGED status /\ UNCHANGED courierID /\ UNCHANGED holders /\ UNCHANGED lost
      /\ UNCHANGED made /\ UNCHANGED posting /\ UNCHANGED purges /\ UNCHANGED listeners
  BY DEF OfferInv, WithdrawFails, awards
<1>2. PICK S \in SUBSET OffersBy(c, o) : offers' = offers \ S
  BY DEF WithdrawFails
<1>3. /\ AtOnePrice(offers)' = AtOnePrice(offers) \ AtOnePrice(S)
      /\ AtOnePrice(S) \in SUBSET Lifecycle!OffersBy(c, o)
  <2>1. S \in SUBSET OfferDoc /\ offers \in SUBSET OfferDoc
    BY <1>1 DEF TypeOK, OffersBy, OffersOn
  <2>2. AtOnePrice(offers \ S) = AtOnePrice(offers) \ AtOnePrice(S)
    BY <2>1, PricedSets
  <2>3. AtOnePrice(offers)' = AtOnePrice(offers')
    BY DEF AtOnePrice
  <2>4. AtOnePrice(S) \subseteq AtOnePrice(OffersBy(c, o))
    BY DEF AtOnePrice
  <2> QED
    BY <1>1, <1>2, <2>2, <2>3, <2>4, PricedOffers
<1>4. /\ <<DeviceOf(s), c, o>> \in Withdrawing
      /\ Withdrawing' = Withdrawing \ {<<DeviceOf(s), c, o>>}
  BY <1>1, WithdrawingLess
<1>5. /\ UNCHANGED Docs /\ UNCHANGED Shown /\ UNCHANGED Started /\ UNCHANGED Purging
      /\ UNCHANGED AtOnePrice(made) /\ UNCHANGED AtOnePrice(posting) /\ UNCHANGED Recounting
  BY <1>1, MappedSame
<1> QED
  BY <1>1, <1>3, <1>4, <1>5 DEF Lifecycle!WithdrawFails, Lifecycle!docs, Lifecycle!courses

LEMMA PurgeMapped ==
    ASSUME OfferInv, NEW o \in Order, PurgeOffers(o), UNCHANGED awards
    PROVE  Lifecycle!PurgeOffers("member", o)
<1> USE DEF database, queue, history, failed
<1>1. /\ TypeOK /\ o \in purges
      /\ purges' = purges \ {o} /\ offers' = offers \ OffersOn(o)
      /\ UNCHANGED status /\ UNCHANGED courierID /\ UNCHANGED holders
      /\ UNCHANGED made /\ UNCHANGED posting /\ UNCHANGED withdrawals /\ UNCHANGED listeners
      /\ UNCHANGED lost
  BY DEF OfferInv, PurgeOffers, awards
<1>2. AtOnePrice(offers)' = AtOnePrice(offers) \ Lifecycle!OffersOn(o)
  <2>1. offers \subseteq OfferDoc /\ OffersOn(o) \subseteq OfferDoc
    BY <1>1 DEF TypeOK, OffersOn
  <2>2. AtOnePrice(offers \ OffersOn(o)) = AtOnePrice(offers) \ AtOnePrice(OffersOn(o))
    BY <2>1, PricedSets
  <2>3. AtOnePrice(OffersOn(o)) = Lifecycle!OffersOn(o)
    BY PricedFields DEF AtOnePrice, OffersOn, Lifecycle!OffersOn
  <2>4. AtOnePrice(offers)' = AtOnePrice(offers')
    BY DEF AtOnePrice
  <2> QED
    BY <1>1, <2>2, <2>3, <2>4
<1>3. Purging' = Purging \ {<<"member", o>>} /\ <<"member", o>> \in Purging
  BY <1>1 DEF Purging
<1>4. /\ UNCHANGED Docs /\ UNCHANGED Shown /\ UNCHANGED Started /\ UNCHANGED Withdrawing
      /\ UNCHANGED AtOnePrice(made) /\ UNCHANGED AtOnePrice(posting) /\ UNCHANGED Recounting
  BY <1>1, MappedSame
<1> QED
  BY <1>1, <1>2, <1>3, <1>4 DEF Lifecycle!PurgeOffers, Lifecycle!docs, Lifecycle!courses

LEMMA PurgeFailsMapped ==
    ASSUME OfferInv, NEW o \in Order, PurgeFails(o), UNCHANGED awards
    PROVE  Lifecycle!PurgeFails("member", o)
<1> USE DEF database, queue, history, failed
<1>1. /\ TypeOK /\ o \in purges /\ purges' = purges \ {o}
      /\ UNCHANGED status /\ UNCHANGED courierID /\ UNCHANGED holders /\ UNCHANGED lost
      /\ UNCHANGED made /\ UNCHANGED posting /\ UNCHANGED withdrawals /\ UNCHANGED listeners
  BY DEF OfferInv, PurgeFails, awards
<1>2. PICK S \in SUBSET OffersOn(o) : offers' = offers \ S
  BY DEF PurgeFails
<1>3. /\ AtOnePrice(offers)' = AtOnePrice(offers) \ AtOnePrice(S)
      /\ AtOnePrice(S) \in SUBSET Lifecycle!OffersOn(o)
  <2>1. S \in SUBSET OfferDoc /\ offers \in SUBSET OfferDoc
    BY <1>1 DEF TypeOK, OffersOn
  <2>2. AtOnePrice(offers \ S) = AtOnePrice(offers) \ AtOnePrice(S)
    BY <2>1, PricedSets
  <2>3. AtOnePrice(offers)' = AtOnePrice(offers')
    BY DEF AtOnePrice
  <2>4. AtOnePrice(S) \subseteq AtOnePrice(OffersOn(o))
    BY DEF AtOnePrice
  <2>5. AtOnePrice(OffersOn(o)) = Lifecycle!OffersOn(o)
    BY PricedFields DEF AtOnePrice, OffersOn, Lifecycle!OffersOn
  <2> QED
    BY <1>2, <2>2, <2>3, <2>4, <2>5
<1>4. Purging' = Purging \ {<<"member", o>>} /\ <<"member", o>> \in Purging
  BY <1>1 DEF Purging
<1>5. /\ UNCHANGED Docs /\ UNCHANGED Shown /\ UNCHANGED Started /\ UNCHANGED Withdrawing
      /\ UNCHANGED AtOnePrice(made) /\ UNCHANGED AtOnePrice(posting) /\ UNCHANGED Recounting
  BY <1>1, MappedSame
<1> QED
  BY <1>1, <1>3, <1>4, <1>5 DEF Lifecycle!PurgeFails, Lifecycle!docs, Lifecycle!courses

\* addOffer's callback: the document is refused, but it was announced.
LEMMA PostFailsMapped ==
    ASSUME OfferInv, NEW f \in posting, PostFails(f), UNCHANGED awards
    PROVE  Lifecycle!PostFails(Priced(f)) /\ Priced(f) \in AtOnePrice(posting)
<1> USE DEF database, queue, history, failed
<1>1. /\ TypeOK /\ posting' = posting \ {f} /\ lost' = lost \cup {f.order}
      /\ UNCHANGED status /\ UNCHANGED courierID /\ UNCHANGED holders
      /\ UNCHANGED offers /\ UNCHANGED made
      /\ UNCHANGED withdrawals /\ UNCHANGED purges /\ UNCHANGED listeners
  BY DEF OfferInv, PostFails, awards
<1>2. AtOnePrice(posting)' = AtOnePrice(posting) \ {Priced(f)}
  <2>1. posting \in SUBSET OfferDoc /\ {f} \in SUBSET OfferDoc
    BY <1>1 DEF TypeOK
  <2>2. AtOnePrice(posting \ {f}) = AtOnePrice(posting) \ AtOnePrice({f})
    BY <2>1, PricedSets
  <2>3. AtOnePrice(posting)' = AtOnePrice(posting')
    BY DEF AtOnePrice
  <2> QED
    BY <1>1, <2>2, <2>3, PricedOne
<1>3. UNCHANGED Announced
  <2>1. lost' = lost \cup {g.order : g \in posting \ posting'}
    BY <1>1
  <2> QED
    BY <1>1, <2>1, StaysAnnounced
<1>4. Priced(f) \in AtOnePrice(posting)
  BY DEF AtOnePrice
<1>5. /\ UNCHANGED Docs /\ UNCHANGED Shown /\ UNCHANGED Started /\ UNCHANGED Withdrawing
      /\ UNCHANGED AtOnePrice(offers) /\ UNCHANGED AtOnePrice(made)
      /\ UNCHANGED Purging /\ UNCHANGED Recounting
  BY <1>1, <1>3, MappedSame
<1> QED
  BY <1>1, <1>2, <1>4, <1>5 DEF Lifecycle!PostFails, Lifecycle!docs, Lifecycle!courses

\* The app is killed: what its screens awaited is what its device awaited.
LEMMA KillMapped ==
    ASSUME OfferInv, NEW d \in {"member"} \cup Courier, Kill(d), UNCHANGED awards
    PROVE  Lifecycle!Kill(d)
<1> USE DEF database, queue, history, failed
<1>1. /\ TypeOK
      /\ UNCHANGED status /\ UNCHANGED offers /\ UNCHANGED made
      /\ UNCHANGED courierID /\ UNCHANGED holders
      /\ posting' = {f \in posting : f.courier # d}
      /\ lost' = lost \cup {f.order : f \in posting \ posting'}
      /\ withdrawals' = {w \in withdrawals : DeviceOf(w[1]) # d}
      /\ purges' = IF d = "member" THEN {} ELSE purges
      /\ listeners' = {l \in listeners : DeviceOf(l.at) # d}
  BY DEF OfferInv, Kill, awards
<1>2. AtOnePrice(posting)' = {f \in AtOnePrice(posting) : f.courier # d}
  <2>1. AtOnePrice(posting)' = AtOnePrice(posting')
    BY DEF AtOnePrice
  <2> QED
    BY <1>1, <2>1, PricedFields DEF AtOnePrice
<1>3. Withdrawing' = {q \in Withdrawing : q[1] # d}
  <2>1. Withdrawing' = {<<DeviceOf(w[1]), w[2], w[3]>> : w \in withdrawals'}
    BY DEF Withdrawing, DeviceOf
  <2> QED
    BY <1>1, <2>1 DEF Withdrawing
<1>4. Purging' = {q \in Purging : q[1] # d}
  <2>1. Purging' = {<<"member", o>> : o \in purges'}
    BY DEF Purging
  <2>2. CASE d = "member"
    BY <1>1, <2>1, <2>2 DEF Purging
  <2>3. CASE d # "member"
    BY <1>1, <2>1, <2>3 DEF Purging
  <2> QED
    BY <2>2, <2>3
<1>5. Recounting' = {q \in Recounting : q[1] # d}
  <2>1. Recounting' = {<<DeviceOf(l.at), l.order>> : l \in {k \in listeners' : k.counts}}
    BY DEF Recounting, DeviceOf
  <2> QED
    BY <1>1, <2>1 DEF Recounting
<1>6. UNCHANGED Announced
  <2>1. posting' \subseteq posting
    BY <1>1
  <2> QED
    BY <1>1, <2>1, StaysAnnounced
<1>7. /\ UNCHANGED Docs /\ UNCHANGED Shown /\ UNCHANGED Started
      /\ UNCHANGED AtOnePrice(offers) /\ UNCHANGED AtOnePrice(made)
  BY <1>1, <1>6, MappedSame
<1> QED
  BY <1>1, <1>2, <1>3, <1>4, <1>5, <1>7 DEF Lifecycle!Kill, Lifecycle!docs, Lifecycle!courses

-----------------------------------------------------------------------------
\* acceptOffer: the order is given to the courier of the offer.
LEMMA AwardMapped ==
    ASSUME OfferInv, AwardInv, NEW f \in made, AwardTo(f)
    PROVE  Lifecycle!AcceptOffer(Priced(f)) /\ Priced(f) \in AtOnePrice(made)
<1> USE DEF database, queue, history, failed
<1> DEFINE o == f.order
           c == f.courier
           doc == [status |-> "assigned", assigned |-> TRUE, courier |-> c, price |-> 0]
<1>0. /\ TypeOK /\ o \in Order /\ c \in Courier /\ c # "nobody"
      /\ o \in Placed
  BY BoardAssumption DEF OfferInv, TypeOK, OfferDoc, OffersPlaced
<1>1. /\ status' = [status EXCEPT ![o] = "assigned"] /\ purges' = purges \cup {o}
      /\ courierID' = [courierID EXCEPT ![o] = c]
      /\ holders' = [holders EXCEPT ![o] = @ \cup {c}]
      /\ UNCHANGED offers /\ UNCHANGED made /\ UNCHANGED posting
      /\ UNCHANGED withdrawals /\ UNCHANGED listeners /\ UNCHANGED lost
  BY DEF AwardTo, AcceptOffer, Decide
<1> HIDE DEF o, c
<1>2. Docs' = [Docs EXCEPT ![o] = doc]
  <2> DEFINE new(q) == [status   |-> status'[q],
                        assigned |-> courierID'[q] # "nobody",
                        courier  |-> courierID'[q],
                        price    |-> 0]
  <2>1. Docs' = [q \in Order |-> new(q)]
    BY DEF Docs
  <2>2. new(o) = doc
    <3>1. status'[o] = "assigned" /\ courierID'[o] = c
      BY <1>0, <1>1 DEF TypeOK, AwardInv
    <3>2. (courierID'[o] # "nobody") = TRUE
      BY <1>0, <3>1
    <3> QED
      BY <3>1, <3>2
  <2>3. ASSUME NEW q \in Order, q # o
        PROVE  new(q) = Docs[q]
    <3>1. status'[q] = status[q] /\ courierID'[q] = courierID[q]
      BY <1>1, <2>3 DEF TypeOK, AwardInv
    <3> QED
      BY <3>1, DocFields
  <2>4. Docs = [q \in Order |-> Docs[q]]
    BY DEF Docs
  <2> HIDE DEF new
  <2> QED
    BY <1>0, <2>1, <2>2, <2>3, <2>4
<1>3. /\ doc.status = "assigned" /\ doc.assigned /\ doc.courier = c
  OBVIOUS
<1>4. holders' = [holders EXCEPT ![o] = @ \cup Lifecycle!Holder(doc)]
  <2>1. ~Lifecycle!IsOver(doc)
    BY <1>3 DEF Lifecycle!IsOver
  <2>2. Lifecycle!Holder(doc) = {c}
    BY <1>3, <2>1 DEF Lifecycle!Holder
  <2> HIDE DEF doc
  <2> QED
    BY <1>1, <2>2
<1>5. Shown' = [Shown EXCEPT ![o] = @ \cup ({doc.status} \cap Lifecycle!Open)]
  <2>1. {doc.status} \cap Lifecycle!Open = {}
    BY <1>3, StatusNames
  <2>2. \A q \in Order : status'[q] # "absent" <=> status[q] # "absent"
    <3>1. \A q \in Order : status'[q] = IF q = o THEN "assigned" ELSE status[q]
      BY <1>1 DEF TypeOK, OfferInv
    <3> QED
      BY <1>0, <3>1 DEF Placed
  <2>3. Placed' = Placed
    BY <2>2 DEF Placed
  <2>4. Shown' = Shown
    BY <1>1, <2>3, ShownSame, MappedSame
  <2>5. Shown = [q \in Order |-> Shown[q]]
    BY DEF Shown
  <2> HIDE DEF doc
  <2> QED
    BY <2>1, <2>4, <2>5
<1>6. Started' = Started \cup {c}
  <2>1. Started' = UNION {holders'[q] : q \in Order}
    BY DEF Started
  <2>2. \A q \in Order : holders'[q] = IF q = o THEN holders[q] \cup {c} ELSE holders[q]
    BY <1>1 DEF AwardInv
  <2> QED
    BY <1>0, <2>1, <2>2 DEF Started
<1>7. Purging' = Purging \cup {<<[q \in Order |-> "member"][o], o>>}
  <2>1. Purging' = {<<"member", q>> : q \in purges'}
    BY DEF Purging
  <2> QED
    BY <1>0, <1>1, <2>1 DEF Purging
<1>8. Priced(f) \in AtOnePrice(made) /\ "have an offer" \in Shown[o]
  BY <1>0, ShownMapped DEF AtOnePrice, Announced, o
<1>9. /\ UNCHANGED AtOnePrice(offers) /\ UNCHANGED AtOnePrice(made)
      /\ UNCHANGED AtOnePrice(posting) /\ UNCHANGED Withdrawing /\ UNCHANGED Recounting
  BY <1>1, MappedSame
<1>10. Priced(f).order = o /\ Priced(f).courier = c /\ Priced(f).price = 0
  BY PricedFields DEF o, c
<1>11. Lifecycle!Write(o, doc)
  <2> HIDE DEF doc
  <2> QED
    BY <1>2, <1>4, <1>5 DEF Lifecycle!Write
<1> QED
  BY <1>6, <1>7, <1>8, <1>9, <1>10, <1>11 DEF Lifecycle!AcceptOffer

\* cancelOrder, by the member.
LEMMA CancelOrderMapped ==
    ASSUME OfferInv, AwardInv, NEW o \in Order, CancelOrder(o), UNCHANGED awards
    PROVE  Lifecycle!MemberCancels(o)
<1> USE DEF database, queue, history, failed
<1>1. /\ TypeOK /\ o \in Placed
      /\ status' = [status EXCEPT ![o] = "cancled"] /\ purges' = purges \cup {o}
      /\ UNCHANGED courierID /\ UNCHANGED holders
      /\ UNCHANGED offers /\ UNCHANGED made /\ UNCHANGED posting
      /\ UNCHANGED withdrawals /\ UNCHANGED listeners /\ UNCHANGED lost
  BY DEF OfferInv, CancelOrder, Decide, awards
<1>2. Docs' = [q \in Order |-> IF q \in {o} THEN Lifecycle!WithStatus(Docs[q], "cancled")
                                            ELSE Docs[q]]
  <2>1. Docs' = [Docs EXCEPT ![o] = Lifecycle!WithStatus(Docs[o], "cancled")]
    BY <1>1, DocWritten
  <2>2. Docs = [q \in Order |-> Docs[q]]
    BY DEF Docs
  <2> QED
    BY <2>1, <2>2
<1>3. UNCHANGED Shown
  <2>1. \A q \in Order : status'[q] # "absent" <=> status[q] # "absent"
    <3>1. \A q \in Order : status'[q] = IF q = o THEN "cancled" ELSE status[q]
      BY <1>1 DEF TypeOK
    <3> QED
      BY <1>1, <3>1 DEF Placed
  <2>2. Placed' = Placed
    BY <2>1 DEF Placed
  <2> QED
    BY <1>1, <2>2, ShownSame, MappedSame
<1>4. Purging' = Purging \cup {<<[q \in Order |-> "member"][o], p>> : p \in {o}}
  <2>1. Purging' = {<<"member", q>> : q \in purges'}
    BY DEF Purging
  <2> QED
    BY <1>1, <2>1 DEF Purging
<1>5. Shown[o] # {}
  BY <1>1, ShownMapped
<1>6. /\ UNCHANGED AtOnePrice(offers) /\ UNCHANGED AtOnePrice(made) /\ UNCHANGED Started
      /\ UNCHANGED AtOnePrice(posting) /\ UNCHANGED Withdrawing /\ UNCHANGED Recounting
  BY <1>1, MappedSame
<1> QED
  BY <1>1, <1>2, <1>3, <1>4, <1>5, <1>6
     DEF Lifecycle!MemberCancels, Lifecycle!CancelOrders, Lifecycle!CancelAll, Lifecycle!courses

-----------------------------------------------------------------------------
LEMMA LifecycleInit == BoardInit => Lifecycle!Init
<1> SUFFICES ASSUME BoardInit PROVE Lifecycle!Init
  OBVIOUS
<1>1. Docs = [o \in Order |-> Lifecycle!Absent]
  <2>1. ASSUME NEW o \in Order
        PROVE  Docs[o] = Lifecycle!Absent
    <3>1. status[o] = "absent" /\ courierID[o] = "nobody"
      BY DEF BoardInit, Init
    <3>2. (courierID[o] # "nobody") = FALSE
      BY <3>1
    <3>3. Docs[o] = [status |-> status[o], assigned |-> courierID[o] # "nobody",
                     courier |-> courierID[o], price |-> 0]
      BY DocFields
    <3> QED
      BY <3>1, <3>2, <3>3 DEF Lifecycle!Absent
  <2>2. Docs = [o \in Order |-> Docs[o]]
    BY DEF Docs
  <2> QED
    BY <2>1, <2>2
<1>2. Shown = [o \in Order |-> {}]
  <2>1. Placed = {} /\ Announced = {}
    BY DEF BoardInit, Init, Placed, Announced
  <2>2. \A o \in Order : Shown[o] = {}
    BY <2>1 DEF Shown
  <2>3. Shown = [o \in Order |-> Shown[o]]
    BY DEF Shown
  <2> QED
    BY <2>2, <2>3
<1>3. /\ AtOnePrice(offers) = {} /\ AtOnePrice(made) = {} /\ AtOnePrice(posting) = {}
  BY DEF BoardInit, Init, AtOnePrice
<1>4. holders = [o \in Order |-> {}] /\ Started = {}
  BY DEF BoardInit, Started
<1>5. Purging = {} /\ Withdrawing = {} /\ Recounting = {}
  BY DEF BoardInit, Init, Purging, Withdrawing, Recounting
<1> QED
  BY <1>1, <1>2, <1>3, <1>4, <1>5 DEF Lifecycle!Init

LEMMA LifecycleStep == BoardInv /\ [BoardNext]_boardVars => [Lifecycle!Next]_(Lifecycle!vars)
<1> SUFFICES ASSUME OfferInv, AwardInv, [BoardNext]_boardVars
             PROVE  Lifecycle!Next \/ UNCHANGED Lifecycle!vars
  BY DEF BoardInv
<1> USE DEF database, queue, history, failed
<1>0. /\ TypeOK /\ \A f \in made : f \in OfferDoc
  BY DEF OfferInv, TypeOK
<1>1. ASSUME NEW f \in made, AwardTo(f)
      PROVE  Lifecycle!Next
  BY <1>1, AwardMapped DEF Lifecycle!Next, Lifecycle!UserStep
<1>2. ASSUME Tap, UNCHANGED awards
      PROVE  Lifecycle!Next \/ UNCHANGED Lifecycle!vars
  <2>1. ASSUME NEW o \in Order, AddOrder(o)
        PROVE  Lifecycle!Next
    BY <1>2, <2>1, AddOrderMapped DEF Lifecycle!Next, Lifecycle!UserStep
  <2>2. ASSUME NEW c \in Courier, NEW o \in Order, AddOffer(c, o)
        PROVE  Lifecycle!Next
    <3>1. Lifecycle!AddOffer(c, o, 0)
      BY <1>2, <2>2, AddOfferMapped
    <3> QED
      BY <3>1 DEF Lifecycle!Next, Lifecycle!UserStep
  <2>3. ASSUME NEW o \in Order, CancelOrder(o)
        PROVE  Lifecycle!Next
    BY <1>2, <2>3, CancelOrderMapped DEF Lifecycle!Next, Lifecycle!UserStep
  <2>4. ASSUME NEW o \in Order, OpenOffers(o)
        PROVE  UNCHANGED Lifecycle!vars
    <3> DEFINE l == [at |-> "list", order |-> o, cause |-> "none", counts |-> FALSE]
    <3>1. ~l.counts
      OBVIOUS
    <3>2. Attach(l) /\ UNCHANGED <<status, offers, made, posting, withdrawals, purges, lost>>
      BY <2>4 DEF OpenOffers
    <3> HIDE DEF l
    <3>3. UNCHANGED Recounting
      BY <3>1, <3>2, RecountingSame DEF Attach
    <3> QED
      BY <1>2, <3>2, <3>3, ListingMapped
  <2>5. CASE OpenPage
    <3>1. /\ UNCHANGED <<status, offers, made, posting, withdrawals, purges, lost>>
          /\ UNCHANGED listeners
      BY <2>5 DEF OpenPage
    <3> QED
      BY <1>2, <3>1, MappedSame, ListingMapped
  <2>6. ASSUME NEW f \in made, Decline(f) \/ CancelOwnOffer(f)
        PROVE  Lifecycle!Next
    <3>0. f.order \in Order /\ f.courier \in Courier /\ Priced(f) \in AtOnePrice(made)
      BY <1>0 DEF OfferDoc, AtOnePrice
    <3>1. Priced(f).order = f.order /\ Priced(f).courier = f.courier
      BY PricedFields
    <3>2. CASE Decline(f)
      <4>1. CancelOffer("page", f) /\ "page" \in Screen \ {"list"}
        BY <3>2 DEF Decline, Screen
      <4>2. DeviceOf("page") = "member"
        BY BoardAssumption DEF DeviceOf
      <4>3. Lifecycle!CancelOffer("member", f.courier, f.order)
        BY <1>2, <4>1, <4>2, CancelOfferMapped
      <4>4. [o \in Order |-> "member"][f.order] = "member"
        BY <3>0
      <4>5. Lifecycle!DeclineOffer(Priced(f))
        BY <3>0, <3>1, <4>3, <4>4 DEF Lifecycle!DeclineOffer
      <4> QED
        BY <3>0, <4>5 DEF Lifecycle!Next, Lifecycle!UserStep
    <3>3. CASE CancelOwnOffer(f)
      <4>1. CancelOffer(f.courier, f) /\ f.courier \in Screen \ {"list"}
        BY <3>0, <3>3, BoardAssumption DEF CancelOwnOffer, Screen
      <4>2. DeviceOf(f.courier) = f.courier
        BY <3>0 DEF DeviceOf
      <4>3. Lifecycle!CancelOffer(f.courier, f.courier, f.order)
        BY <1>2, <4>1, <4>2, CancelOfferMapped
      <4>4. "have an offer" \in Shown[f.order]
        BY <3>0, ShownMapped DEF Announced
      <4>5. Lifecycle!CancelOwnOffer(Priced(f))
        BY <3>0, <3>1, <4>3, <4>4 DEF Lifecycle!CancelOwnOffer
      <4> QED
        BY <3>0, <4>5 DEF Lifecycle!Next, Lifecycle!UserStep
    <3> QED
      BY <2>6, <3>2, <3>3
  <2> QED
    BY <1>2, <2>1, <2>2, <2>3, <2>4, <2>5, <2>6 DEF Tap
<1>3. ASSUME Callback, UNCHANGED awards
      PROVE  Lifecycle!Next \/ UNCHANGED Lifecycle!vars
  <2>1. ASSUME NEW f \in posting, PostOffer(f)
        PROVE  Lifecycle!Next
    BY <1>3, <2>1, PostOfferMapped DEF Lifecycle!Next, Lifecycle!Callback
  <2>2. ASSUME NEW l \in listeners, Snapshot(l)
        PROVE  UNCHANGED Lifecycle!vars
    <3>1. /\ UNCHANGED <<status, offers, made, posting, withdrawals, purges, lost>>
          /\ UNCHANGED listeners
      BY <2>2 DEF Snapshot
    <3> QED
      BY <1>3, <3>1, MappedSame, ListingMapped
  <2>3. ASSUME NEW l \in listeners, ListAgain(l)
        PROVE  UNCHANGED Lifecycle!vars
    <3> DEFINE k == [l EXCEPT !.counts = FALSE]
    <3>1. ~k.counts
      BY <1>0, ListingAgain DEF TypeOK
    <3>2. Attach(k) /\ UNCHANGED <<status, offers, made, posting, withdrawals, purges, lost>>
      BY <2>3 DEF ListAgain
    <3> HIDE DEF k
    <3>3. UNCHANGED Recounting
      BY <3>1, <3>2, RecountingSame DEF Attach
    <3> QED
      BY <1>3, <3>2, <3>3, ListingMapped
  <2>4. ASSUME NEW s \in Screen, Count(s)
        PROVE  Lifecycle!Next \/ UNCHANGED Lifecycle!vars
    BY <1>3, <2>4, CountMapped DEF Lifecycle!Next, Lifecycle!Callback
  <2>5. ASSUME NEW s \in Screen, NEW c \in Courier, NEW o \in Order, Withdraw(s, c, o)
        PROVE  Lifecycle!Next
    <3>1. Lifecycle!Withdraw(DeviceOf(s), c, o)
      BY <1>3, <2>5, WithdrawMapped
    <3>2. DeviceOf(s) \in Lifecycle!Device
      BY DEF DeviceOf, Lifecycle!Device
    <3> QED
      BY <3>1, <3>2 DEF Lifecycle!Next, Lifecycle!Callback
  <2>6. ASSUME NEW o \in Order, PurgeOffers(o)
        PROVE  Lifecycle!Next
    <3>1. Lifecycle!PurgeOffers("member", o) /\ "member" \in Lifecycle!Device
      BY <1>3, <2>6, PurgeMapped DEF Lifecycle!Device
    <3> QED
      BY <3>1 DEF Lifecycle!Next, Lifecycle!Callback
  <2>7. CASE GetCards
    <3>1. /\ UNCHANGED <<status, offers, made, posting, withdrawals, purges, lost>>
          /\ UNCHANGED listeners
      BY <2>7 DEF GetCards
    <3> QED
      BY <1>3, <3>1, MappedSame, ListingMapped
  <2> QED
    BY <1>3, <2>1, <2>2, <2>3, <2>4, <2>5, <2>6, <2>7 DEF Callback
<1>5. ASSUME Failure, UNCHANGED awards
      PROVE  Lifecycle!Next
  <2>1. ASSUME NEW f \in posting, PostFails(f)
        PROVE  Lifecycle!Next
    BY <1>5, <2>1, PostFailsMapped DEF Lifecycle!Next, Lifecycle!Failure
  <2>2. ASSUME NEW s \in Screen, NEW c \in Courier, NEW o \in Order, WithdrawFails(s, c, o)
        PROVE  Lifecycle!Next
    <3>1. Lifecycle!WithdrawFails(DeviceOf(s), c, o)
      BY <1>5, <2>2, WithdrawFailsMapped
    <3>2. DeviceOf(s) \in Lifecycle!Device
      BY DEF DeviceOf, Lifecycle!Device
    <3> QED
      BY <3>1, <3>2 DEF Lifecycle!Next, Lifecycle!Failure
  <2>3. ASSUME NEW o \in Order, PurgeFails(o)
        PROVE  Lifecycle!Next
    <3>1. Lifecycle!PurgeFails("member", o) /\ "member" \in Lifecycle!Device
      BY <1>5, <2>3, PurgeFailsMapped DEF Lifecycle!Device
    <3> QED
      BY <3>1 DEF Lifecycle!Next, Lifecycle!Failure
  <2>4. ASSUME NEW d \in {"member"} \cup Courier, Kill(d)
        PROVE  Lifecycle!Next
    <3>1. Lifecycle!Kill(d) /\ d \in Lifecycle!Device
      BY <1>5, <2>4, KillMapped DEF Lifecycle!Device
    <3> QED
      BY <3>1 DEF Lifecycle!Next, Lifecycle!Failure
  <2> QED
    BY <1>5, <2>1, <2>2, <2>3, <2>4 DEF Failure
<1>4. ASSUME UNCHANGED boardVars
      PROVE  UNCHANGED Lifecycle!vars
  <2>1. /\ UNCHANGED <<status, offers, made, posting, withdrawals, purges, lost>>
        /\ UNCHANGED listeners /\ UNCHANGED awards
    BY <1>4 DEF boardVars, vars
  <2> QED
    BY <2>1, MappedSame, ListingMapped
<1> QED
  BY <1>1, <1>2, <1>3, <1>4, <1>5 DEF BoardNext

\* Without the arrays, the queues and the screens, every step of the board is a
\* step of the order's life (getOffers, cancelOffer, acceptOffer, cancelOrder).
THEOREM BoardRefinement == BoardSpec => ImplementsLifecycle
BY LifecycleInit, LifecycleStep, BoardInductive, PTL
   DEF BoardSpec, ImplementsLifecycle, Lifecycle!Spec

-----------------------------------------------------------------------------
(* What is proved of the lifecycle holds on the board.                     *)

\* The lifecycle as BoardLifecycle has it, with the theorems about it.
Proved == INSTANCE OrderLifecycle_proofs WITH
    Member      <- {"member"},
    Owner       <- [o \in Order |-> "member"],
    Price       <- {0},
    NoCourier   <- "nobody",
    orders      <- Docs,
    shown       <- Shown,
    overdue     <- {},
    offers      <- AtOnePrice(offers),
    made        <- AtOnePrice(made),
    posting     <- AtOnePrice(posting),
    tracking    <- {},
    starts      <- Started,
    untracked   <- {},
    purges      <- Purging,
    withdrawals <- Withdrawing,
    recounting  <- Recounting

LEMMA BoardMeetsAssumption == Proved!LifecycleAssumption
BY BoardAssumption DEF Proved!LifecycleAssumption

\* The two instances are one: they differ in their names.
LEMMA OneLifecycle ==
    /\ Lifecycle!Init => Proved!Init
    /\ [Lifecycle!Next]_(Lifecycle!vars) => [Proved!Next]_(Proved!vars)
<1>1. Lifecycle!Init => Proved!Init
  BY DEF Lifecycle!Init, Proved!Init, Lifecycle!Absent, Proved!Absent
<1>2. Lifecycle!UserStep => Proved!UserStep
  BY Zenon
  DEF Lifecycle!UserStep, Proved!UserStep, Lifecycle!AddOrder,
      Proved!AddOrder, Lifecycle!MemberCancels, Proved!MemberCancels,
      Lifecycle!AddOffer, Proved!AddOffer, Lifecycle!DeclineOffer,
      Proved!DeclineOffer, Lifecycle!CancelOwnOffer,
      Proved!CancelOwnOffer, Lifecycle!AcceptOffer, Proved!AcceptOffer,
      Lifecycle!CourierCancels, Proved!CourierCancels,
      Lifecycle!ChangeState, Proved!ChangeState, Lifecycle!CancelOffer,
      Proved!CancelOffer, Lifecycle!CancelOrders, Proved!CancelOrders,
      Lifecycle!CancelAll, Proved!CancelAll, Lifecycle!Progress,
      Proved!Progress, Lifecycle!pending, Proved!pending,
      Lifecycle!docs, Proved!docs, Lifecycle!Open, Proved!Open,
      Lifecycle!Absent, Proved!Absent, Lifecycle!IsOver, Proved!IsOver,
      Lifecycle!Holder, Proved!Holder, Lifecycle!Write, Proved!Write,
      Lifecycle!WithStatus, Proved!WithStatus, Lifecycle!SetStatus,
      Proved!SetStatus, Lifecycle!courses, Proved!courses
<1>3. Lifecycle!TimedStep => Proved!TimedStep
  BY Zenon
  DEF Lifecycle!TimedStep, Proved!TimedStep, Lifecycle!BecomeOverdue,
      Proved!BecomeOverdue, Lifecycle!CheckOrders, Proved!CheckOrders,
      Lifecycle!CheckOrdersForCourier, Proved!CheckOrdersForCourier,
      Lifecycle!CancelOrders, Proved!CancelOrders, Lifecycle!CancelAll,
      Proved!CancelAll, Lifecycle!docs, Proved!docs, Lifecycle!Absent,
      Proved!Absent, Lifecycle!WithStatus, Proved!WithStatus,
      Lifecycle!pending, Proved!pending, Lifecycle!courses, Proved!courses
<1>4. Lifecycle!Callback => Proved!Callback
  BY Zenon
  DEF Lifecycle!Callback, Proved!Callback, Lifecycle!PostOffer,
      Proved!PostOffer, Lifecycle!PurgeOffers, Proved!PurgeOffers,
      Lifecycle!Recount, Proved!Recount, Lifecycle!Withdraw,
      Proved!Withdraw, Lifecycle!Device, Proved!Device,
      Lifecycle!OffersOn, Proved!OffersOn, Lifecycle!OffersBy,
      Proved!OffersBy, Lifecycle!pending, Proved!pending,
      Lifecycle!docs, Proved!docs, Lifecycle!Open, Proved!Open,
      Lifecycle!Absent, Proved!Absent, Lifecycle!IsOver, Proved!IsOver,
      Lifecycle!Holder, Proved!Holder, Lifecycle!Write, Proved!Write,
      Lifecycle!WithStatus, Proved!WithStatus, Lifecycle!SetStatus,
      Proved!SetStatus, Lifecycle!StartTracking, Proved!StartTracking,
      Lifecycle!courses, Proved!courses
<1>5. Lifecycle!Failure => Proved!Failure
  BY Zenon
  DEF Lifecycle!Failure, Proved!Failure, Lifecycle!PostFails,
      Proved!PostFails, Lifecycle!PurgeFails, Proved!PurgeFails,
      Lifecycle!WithdrawFails, Proved!WithdrawFails, Lifecycle!Kill,
      Proved!Kill, Lifecycle!Device, Proved!Device, Lifecycle!docs,
      Proved!docs, Lifecycle!StartFails, Proved!StartFails,
      Lifecycle!OffersOn, Proved!OffersOn, Lifecycle!OffersBy,
      Proved!OffersBy, Lifecycle!pending, Proved!pending,
      Lifecycle!courses, Proved!courses
<1>6. UNCHANGED Lifecycle!vars => UNCHANGED Proved!vars
  BY Zenon
  DEF Lifecycle!vars, Proved!vars, Lifecycle!docs, Proved!docs,
      Lifecycle!pending, Proved!pending, Lifecycle!courses, Proved!courses
<1> QED
  BY <1>1, <1>2, <1>3, <1>4, <1>5, <1>6, Zenon DEF Lifecycle!Next, Proved!Next

LEMMA BoardIsProved == BoardSpec => Proved!Spec
BY OneLifecycle, BoardRefinement, PTL DEF ImplementsLifecycle, Lifecycle!Spec, Proved!Spec

\* Whatever its screens list and its blocks count, the board keeps what the
\* service promises its users: orders are placed once, awarded on the terms of
\* one of their own bids and moved on by nobody else (DeliveryContract).
THEOREM BoardKeepsContract == BoardSpec => Proved!ImplementsContract
<1>1. Proved!Spec => Proved!ImplementsContract
  BY Proved!Refinement, BoardMeetsAssumption
<1> QED
  BY <1>1, BoardIsProved, PTL

\* The courier of an order is one who made an offer on it, though acceptOffer
\* reads neither the offer nor the order and a card may be of any age.
AwardWasOffered ==
    \A o \in Order : courierID[o] # "nobody" =>
       \E f \in made : f.order = o /\ f.courier = courierID[o]

\* Every award on the board is of an offer (acceptOffer, getOffers).
THEOREM AwardsWereOffered == BoardSpec => []AwardWasOffered
<1>1. Proved!Spec => []Proved!AwardProvenance
  BY Proved!Provenance, BoardMeetsAssumption
<1>2. Proved!AwardProvenance => AwardWasOffered
  <2> SUFFICES ASSUME Proved!AwardProvenance, NEW o \in Order, courierID[o] # "nobody"
               PROVE  \E f \in made : f.order = o /\ f.courier = courierID[o]
    BY DEF AwardWasOffered
  <2>1. Docs[o].assigned /\ Docs[o].courier = courierID[o]
    BY DEF Docs
  <2>2. PICK g \in AtOnePrice(made) : g.order = o /\ g.courier = courierID[o]
    BY <2>1 DEF Proved!AwardProvenance
  <2>3. PICK f \in made : g = Priced(f)
    BY <2>2 DEF AtOnePrice
  <2> QED
    BY <2>2, <2>3 DEF Priced
<1> QED
  BY <1>1, <1>2, BoardIsProved, PTL
=============================================================================
