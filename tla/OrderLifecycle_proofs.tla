----------------------- MODULE OrderLifecycle_proofs -----------------------
(***************************************************************************)
(* Theorems of OrderLifecycle, for any sets of orders, members, couriers,  *)
(* prices and offer ids.                                                   *)
(***************************************************************************)
EXTENDS OrderLifecycle, TLAPS

DocsType == /\ orders \in [Order -> OrderDoc]
            /\ shown \in [Order -> SUBSET Open]
            /\ holders \in [Order -> SUBSET Courier]

\* A write keeps the three document functions well typed.
LEMMA WriteType ==
    ASSUME DocsType, NEW o \in Order, NEW doc \in OrderDoc, Write(o, doc)
    PROVE  DocsType'
<1>1. Holder(doc) \subseteq Courier
  BY DEF Holder, OrderDoc
<1>2. {doc.status} \cap Open \subseteq Open
  OBVIOUS
<1> QED
  BY <1>1, <1>2 DEF Write, DocsType

LEMMA WithStatusType ==
    ASSUME NEW doc \in OrderDoc, NEW s \in Status
    PROVE  WithStatus(doc, s) \in OrderDoc
BY DEF WithStatus, OrderDoc

LEMMA AbsentType == Absent \in OrderDoc
BY DEF Absent, OrderDoc

\* The literal statuses the writes use.
LEMMA StatusLiterals ==
    /\ Open \subseteq Status
    /\ Progress \subseteq Status
    /\ "assigned" \in Status /\ "cancled" \in Status
BY DEF Open, Progress, Status

LEMMA SetStatusType ==
    ASSUME DocsType, NEW o \in Order, NEW s \in Status, SetStatus(o, s)
    PROVE  DocsType'
<1>1. orders[o] \in OrderDoc
  BY DEF DocsType
<1> QED
  BY <1>1, WithStatusType, WriteType DEF SetStatus

LEMMA CancelAllType ==
    ASSUME DocsType, NEW S \in SUBSET Order, CancelAll(S)
    PROVE  DocsType'
<1>1. \A o \in Order : WithStatus(orders[o], "cancled") \in OrderDoc
  BY WithStatusType, StatusLiterals DEF DocsType
<1> QED
  BY <1>1 DEF CancelAll, DocsType

\* Every variable keeps its type.
THEOREM Typing == Spec => []TypeOK
<1> USE LifecycleAssumption
<1>1. Init => TypeOK
  BY AbsentType DEF Init, TypeOK
<1>2. TypeOK /\ [Next]_vars => TypeOK'
  <2> SUFFICES ASSUME TypeOK, [Next]_vars PROVE TypeOK'
    OBVIOUS
  <2>0. DocsType
    BY DEF DocsType, TypeOK
  <2>1. ASSUME NEW o \in Order, AddOrder(o) PROVE TypeOK'
    <3>1. DocsType'
      BY <2>0, <2>1, AbsentType, WithStatusType, StatusLiterals, WriteType DEF AddOrder, Open
    <3> QED
      BY <2>1, <3>1 DEF AddOrder, TypeOK, DocsType, courses, pending
  <2>2. ASSUME NEW o \in Order, BecomeOverdue(o) PROVE TypeOK'
    BY <2>2 DEF BecomeOverdue, TypeOK, docs, courses, pending
  <2>3. ASSUME NEW c \in Courier, NEW o \in Order, NEW p \in Price, AddOffer(c, o, p)
        PROVE TypeOK'
    <3>1. DocsType'
      BY <2>0, <2>3, StatusLiterals, SetStatusType DEF AddOffer, Open
    <3>2. PICK id \in OfferId :
             posting' = posting \cup {[id |-> id, order |-> o, courier |-> c, price |-> p]}
      BY <2>3 DEF AddOffer
    <3>3. [id |-> id, order |-> o, courier |-> c, price |-> p] \in OfferDoc
      BY DEF OfferDoc
    <3>4. posting' \subseteq OfferDoc
      BY <3>2, <3>3 DEF TypeOK
    <3> QED
      BY <2>3, <3>1, <3>4 DEF AddOffer, TypeOK, DocsType, courses
  <2>4. ASSUME NEW f \in posting, PostOffer(f) \/ PostFails(f) PROVE TypeOK'
    BY <2>4 DEF PostOffer, PostFails, TypeOK, docs, courses
  <2>5. ASSUME NEW d \in Device, NEW c \in Courier, NEW o \in Order, CancelOffer(d, c, o)
        PROVE TypeOK'
    BY <2>5 DEF CancelOffer, TypeOK, docs, courses
  <2>6. ASSUME NEW f \in made, DeclineOffer(f) \/ CancelOwnOffer(f) PROVE TypeOK'
    <3>1. f.order \in Order /\ f.courier \in Courier
      BY DEF TypeOK, OfferDoc
    <3> QED
      BY <2>5, <2>6, <3>1 DEF DeclineOffer, CancelOwnOffer, Device
  <2>7. ASSUME NEW d \in Device, NEW c \in Courier, NEW o \in Order,
               Withdraw(d, c, o) \/ WithdrawFails(d, c, o)
        PROVE TypeOK'
    BY <2>7 DEF Withdraw, WithdrawFails, TypeOK, docs, courses
  <2>8. ASSUME NEW d \in Device, NEW o \in Order, Recount(d, o) PROVE TypeOK'
    <3>1. DocsType'
      BY <2>0, <2>8, StatusLiterals, SetStatusType DEF Recount, Open
    <3> QED
      BY <2>8, <3>1 DEF Recount, TypeOK, DocsType, courses, pending
  <2>9. ASSUME NEW f \in made, AcceptOffer(f) PROVE TypeOK'
    <3>1. f.order \in Order /\ f.courier \in Courier /\ f.price \in Price
      BY DEF TypeOK, OfferDoc
    <3>2. [status |-> "assigned", assigned |-> TRUE,
           courier |-> f.courier, price |-> f.price] \in OrderDoc
      BY <3>1, StatusLiterals DEF OrderDoc
    <3>3. DocsType'
      BY <2>0, <2>9, <3>1, <3>2, WriteType DEF AcceptOffer
    <3>4. <<Owner[f.order], f.order>> \in Device \X Order
      BY <3>1 DEF Device
    <3> QED
      BY <2>9, <3>1, <3>3, <3>4 DEF AcceptOffer, TypeOK, DocsType, courses
  <2>10. ASSUME NEW d \in Device, NEW S \in SUBSET Order, CancelOrders(d, S) PROVE TypeOK'
    <3>1. DocsType'
      BY <2>0, <2>10, CancelAllType DEF CancelOrders
    <3> QED
      BY <2>10, <3>1 DEF CancelOrders, TypeOK, DocsType, courses
  <2>11. ASSUME NEW o \in Order, MemberCancels(o) PROVE TypeOK'
    BY <2>10, <2>11 DEF MemberCancels, Device
  <2>12. ASSUME NEW c \in Courier, NEW o \in Order, CourierCancels(c, o) PROVE TypeOK'
    BY <2>10, <2>12 DEF CourierCancels, Device
  <2>13. ASSUME NEW m \in Member, CheckOrders(m) PROVE TypeOK'
    BY <2>10, <2>13 DEF CheckOrders, Device
  <2>14. ASSUME NEW c \in Courier, CheckOrdersForCourier(c) PROVE TypeOK'
    BY <2>10, <2>14 DEF CheckOrdersForCourier, Device
  <2>15. ASSUME NEW d \in Device, NEW o \in Order, PurgeOffers(d, o) \/ PurgeFails(d, o)
         PROVE TypeOK'
    BY <2>15 DEF PurgeOffers, PurgeFails, TypeOK, docs, courses
  <2>16. ASSUME NEW c \in Courier, NEW o \in Order, NEW s \in Progress, ChangeState(c, o, s)
         PROVE TypeOK'
    <3>1. DocsType'
      BY <2>0, <2>16, StatusLiterals, SetStatusType DEF ChangeState
    <3> QED
      BY <2>16, <3>1 DEF ChangeState, TypeOK, DocsType, courses, pending
  <2>17. ASSUME NEW d \in Device, Kill(d) PROVE TypeOK'
    BY <2>17 DEF Kill, TypeOK, docs, courses
  <2>18. ASSUME UNCHANGED vars PROVE TypeOK'
    BY <2>18 DEF vars, docs, pending, courses, TypeOK
  <2>19. ASSUME NEW c \in Courier, StartTracking(c) \/ StartFails(c) PROVE TypeOK'
    BY <2>19 DEF StartTracking, StartFails, docs, pending, TypeOK
  <2> QED
    BY <2>1, <2>2, <2>3, <2>4, <2>6, <2>7, <2>8, <2>9, <2>11, <2>12, <2>13, <2>14,
       <2>15, <2>16, <2>17, <2>18, <2>19
    DEF Next, UserStep, TimedStep, Callback, Failure
<1> QED
  BY <1>1, <1>2, PTL DEF Spec

-----------------------------------------------------------------------------
(* The inductive invariant.                                                *)

\* A step that writes no order document, and creates no offer that was not
\* already on its way, keeps the documents consistent.
LEMMA QuietStep ==
    ASSUME Consistent, UNCHANGED docs, Followed \subseteq Followed',
           made \subseteq made',
           made' \cup posting' \subseteq made \cup posting,
           \A q \in recounting' : q \in recounting \/ shown[q[2]] # {}
    PROVE  Consistent'
<1>1. UNCHANGED <<orders, shown, holders>> /\ Followed \subseteq Followed'
  BY DEF docs
<1>2. AwardsHeld'
  BY <1>1 DEF Consistent, AwardsHeld
<1>3. OffersShown'
  BY <1>1 DEF Consistent, OffersShown
<1>4. RecountsPlaced'
  BY <1>1 DEF Consistent, RecountsPlaced
<1>5. AwardProvenance'
  BY <1>1 DEF Consistent, AwardProvenance
<1>6. ProgressIsAwarded'
  BY <1>1 DEF Consistent, ProgressIsAwarded
<1> QED
  BY <1>2, <1>3, <1>4, <1>5, <1>6 DEF Consistent

\* Awards keep their offers while the documents keep their awards.
LEMMA ProvenanceKept ==
    ASSUME AwardProvenance, made \subseteq made',
           \A q \in Order : orders'[q].assigned =>
              /\ orders[q].assigned
              /\ orders'[q].courier = orders[q].courier
              /\ orders'[q].price = orders[q].price
    PROVE  AwardProvenance'
<1> SUFFICES ASSUME NEW q \in Order, orders'[q].assigned
             PROVE  \E f \in made' : /\ f.order = q
                                     /\ f.courier = orders'[q].courier
                                     /\ f.price = orders'[q].price
  BY DEF AwardProvenance
<1>1. PICK f \in made : /\ f.order = q
                       /\ f.courier = orders[q].courier
                       /\ f.price = orders[q].price
  BY DEF AwardProvenance
<1> QED
  BY <1>1

\* Offers stay shown while cards are only added and every new offer on its
\* way is on an order that has shown one.
LEMMA ShownKept ==
    ASSUME TypeOK, OffersShown,
           \A q \in Order : shown[q] \subseteq shown'[q],
           \A f \in (made' \cup posting') \ (made \cup posting) :
              "have an offer" \in shown'[f.order]
    PROVE  OffersShown'
<1> SUFFICES ASSUME NEW f \in made' \cup posting'
             PROVE  "have an offer" \in shown'[f.order]
  BY DEF OffersShown
<1>1. CASE f \in made \cup posting
  <2>1. f.order \in Order
    BY <1>1 DEF TypeOK, OfferDoc
  <2>2. "have an offer" \in shown[f.order]
    BY <1>1 DEF OffersShown
  <2> QED
    BY <2>1, <2>2
<1>2. CASE f \notin made \cup posting
  BY <1>2
<1> QED
  BY <1>1, <1>2

\* Orders with listeners stay placed.
LEMMA RecountsKept ==
    ASSUME TypeOK, RecountsPlaced, recounting' = recounting,
           \A q \in Order : shown[q] \subseteq shown'[q]
    PROVE  RecountsPlaced'
<1> SUFFICES ASSUME NEW q \in recounting PROVE shown'[q[2]] # {}
  BY DEF RecountsPlaced
<1>1. q[2] \in Order
  BY DEF TypeOK
<1>2. shown[q[2]] # {}
  BY DEF RecountsPlaced
<1> QED
  BY <1>1, <1>2

\* An order whose document, cards and holders a step leaves alone satisfies
\* what it satisfied.
LEMMA OtherOrder ==
    ASSUME AwardsHeld, ProgressIsAwarded, NEW q \in Order,
           orders'[q] = orders[q], shown'[q] = shown[q], holders'[q] = holders[q],
           Followed \subseteq Followed'
    PROVE  /\ orders'[q].status = "absent" => orders'[q] = Absent /\ shown'[q] = {}
           /\ orders'[q].assigned => orders'[q].courier \in Followed' \cap holders'[q]
           /\ holders'[q] # {} => orders'[q].assigned
           /\ orders'[q].status \in Progress \cup {"assigned"} =>
                 orders'[q].assigned /\ orders'[q].courier \in Followed'
<1>1. /\ orders[q].status = "absent" => orders[q] = Absent /\ shown[q] = {}
      /\ orders[q].assigned => orders[q].courier \in Followed \cap holders[q]
      /\ holders[q] # {} => orders[q].assigned
  BY DEF AwardsHeld
<1>2. orders[q].status \in Progress \cup {"assigned"} =>
         orders[q].assigned /\ orders[q].courier \in Followed
  BY DEF ProgressIsAwarded
<1> QED
  BY <1>1, <1>2

\* A status written on a placed order keeps the documents consistent, provided
\* a courier's progress is only written on an awarded one.
LEMMA StatusStep ==
    ASSUME TypeOK, Consistent, NEW o \in Order, NEW s \in Status,
           SetStatus(o, s),
           s \in Progress \cup {"assigned"} => orders[o].assigned,
           Followed' = Followed, UNCHANGED <<made, recounting>>,
           \A f \in posting' \ posting : f.order = o /\ s = "have an offer"
    PROVE  Consistent'
<1>0. AwardsHeld /\ OffersShown /\ RecountsPlaced /\ AwardProvenance /\ ProgressIsAwarded
  BY DEF Consistent
<1>1. orders[o] \in OrderDoc /\ orders'[o] = WithStatus(orders[o], s)
  BY DEF TypeOK, SetStatus, Write
<1>2. /\ orders'[o].status = s
      /\ orders'[o].assigned = orders[o].assigned
      /\ orders'[o].courier = orders[o].courier
      /\ orders'[o].price = orders[o].price
  BY <1>1 DEF WithStatus, OrderDoc
<1>3. orders[o].assigned \in BOOLEAN /\ s # "absent"
  BY <1>1 DEF OrderDoc, Status, Progress
<1>4. \A q \in Order \ {o} : /\ orders'[q] = orders[q]
                             /\ shown'[q] = shown[q]
                             /\ holders'[q] = holders[q]
  BY DEF TypeOK, SetStatus, Write
<1>5. /\ shown'[o] = shown[o] \cup ({s} \cap Open)
      /\ holders'[o] = holders[o] \cup Holder(orders'[o])
  BY <1>1, <1>2 DEF TypeOK, SetStatus, Write
<1>6. /\ orders[o].assigned => orders[o].courier \in Followed \cap holders[o]
      /\ holders[o] # {} => orders[o].assigned
  BY <1>0 DEF AwardsHeld
<1>7. orders'[o].assigned => orders'[o].courier \in Followed' \cap holders'[o]
  BY <1>2, <1>3, <1>5, <1>6
<1>8. holders'[o] # {} => orders'[o].assigned
  <2>1. Holder(orders'[o]) # {} => orders'[o].assigned
    BY DEF Holder
  <2> QED
    BY <2>1, <1>2, <1>3, <1>5, <1>6
<1>9. AwardsHeld'
  <2> SUFFICES ASSUME NEW q \in Order
               PROVE  /\ orders'[q].status = "absent" => orders'[q] = Absent /\ shown'[q] = {}
                      /\ orders'[q].assigned => orders'[q].courier \in Followed' \cap holders'[q]
                      /\ holders'[q] # {} => orders'[q].assigned
    BY DEF AwardsHeld
  <2>1. CASE q # o
    BY <1>0, <1>4, <2>1, OtherOrder
  <2>2. CASE q = o
    BY <1>2, <1>3, <1>7, <1>8, <2>2
  <2> QED
    BY <2>1, <2>2
<1>10. OffersShown'
  <2>1. \A q \in Order : shown[q] \subseteq shown'[q]
    BY <1>4, <1>5
  <2>2. s = "have an offer" => "have an offer" \in shown'[o]
    BY <1>5 DEF Open
  <2>3. \A f \in (made' \cup posting') \ (made \cup posting) : "have an offer" \in shown'[f.order]
    BY <2>2
  <2> QED
    BY <1>0, <2>1, <2>3, ShownKept
<1>11. AwardProvenance'
  <2>1. \A q \in Order : orders'[q].assigned =>
              /\ orders[q].assigned
              /\ orders'[q].courier = orders[q].courier
              /\ orders'[q].price = orders[q].price
    BY <1>2, <1>3, <1>4
  <2> QED
    BY <1>0, <2>1, ProvenanceKept
<1>12. ProgressIsAwarded'
  <2> SUFFICES ASSUME NEW q \in Order, orders'[q].status \in Progress \cup {"assigned"}
               PROVE  orders'[q].assigned /\ orders'[q].courier \in Followed'
    BY DEF ProgressIsAwarded
  <2>1. CASE q # o
    BY <1>0, <1>4, <2>1, OtherOrder
  <2>2. CASE q = o
    BY <1>2, <1>7, <2>2
  <2> QED
    BY <2>1, <2>2
<1>13. RecountsPlaced'
  <2>1. \A q \in Order : shown[q] \subseteq shown'[q]
    BY <1>4, <1>5
  <2> QED
    BY <1>0, <2>1, RecountsKept
<1> QED
  BY <1>9, <1>10, <1>11, <1>12, <1>13 DEF Consistent

\* So does cancelling placed orders.
LEMMA CancelStep ==
    ASSUME TypeOK, Consistent, NEW S \in SUBSET Order, CancelAll(S),
           \A o \in S : shown[o] # {},
           Followed' = Followed, UNCHANGED <<made, posting, recounting>>
    PROVE  Consistent'
<1>0. AwardsHeld /\ OffersShown /\ RecountsPlaced /\ AwardProvenance /\ ProgressIsAwarded
  BY DEF Consistent
<1>1. \A q \in Order \ S : orders'[q] = orders[q]
  BY DEF CancelAll
<1>2. \A q \in S : /\ orders'[q].status = "cancled"
                   /\ orders'[q].assigned = orders[q].assigned
                   /\ orders'[q].courier = orders[q].courier
                   /\ orders'[q].price = orders[q].price
  BY DEF CancelAll, WithStatus, TypeOK, OrderDoc
<1>3. \A q \in Order : orders[q].assigned \in BOOLEAN
  BY DEF TypeOK, OrderDoc
<1>4. UNCHANGED <<shown, holders>>
  BY DEF CancelAll
<1>5. AwardProvenance'
  <2>1. \A q \in Order : orders'[q].assigned =>
              /\ orders[q].assigned
              /\ orders'[q].courier = orders[q].courier
              /\ orders'[q].price = orders[q].price
    BY <1>1, <1>2, <1>3
  <2> QED
    BY <1>0, <2>1, ProvenanceKept
<1>6. AwardsHeld'
  <2> SUFFICES ASSUME NEW q \in Order
               PROVE  /\ orders'[q].status = "absent" => orders'[q] = Absent /\ shown'[q] = {}
                      /\ orders'[q].assigned => orders'[q].courier \in Followed' \cap holders'[q]
                      /\ holders'[q] # {} => orders'[q].assigned
    BY DEF AwardsHeld
  <2>1. CASE q \notin S
    BY <1>0, <1>1, <1>4, <2>1, OtherOrder
  <2>2. CASE q \in S
    <3>1. /\ orders[q].assigned => orders[q].courier \in Followed \cap holders[q]
          /\ holders[q] # {} => orders[q].assigned
      BY <1>0 DEF AwardsHeld
    <3> QED
      BY <1>2, <1>3, <1>4, <2>2, <3>1
  <2> QED
    BY <2>1, <2>2
<1>7. ProgressIsAwarded'
  <2> SUFFICES ASSUME NEW q \in Order, orders'[q].status \in Progress \cup {"assigned"}
               PROVE  orders'[q].assigned /\ orders'[q].courier \in Followed'
    BY DEF ProgressIsAwarded
  <2>1. "cancled" \notin Progress \cup {"assigned"}
    BY DEF Progress
  <2>2. q \notin S
    BY <1>2, <2>1
  <2> QED
    BY <1>0, <1>1, <1>4, <2>2, OtherOrder
<1>8. OffersShown'
  BY <1>0, <1>4 DEF OffersShown
<1>9. RecountsPlaced'
  BY <1>0, <1>4 DEF RecountsPlaced
<1> QED
  BY <1>5, <1>6, <1>7, <1>8, <1>9 DEF Consistent

\* So does placing an order.
LEMMA AddOrderStep ==
    ASSUME TypeOK, Consistent, NEW o \in Order, AddOrder(o)
    PROVE  Consistent'
<1>0. AwardsHeld /\ OffersShown /\ RecountsPlaced /\ AwardProvenance /\ ProgressIsAwarded
  BY DEF Consistent
<1>1. orders'[o] = WithStatus(Absent, "waiting for offer")
  BY DEF AddOrder, Write, TypeOK
<1>2. orders'[o].status = "waiting for offer" /\ orders'[o].assigned = FALSE
  BY <1>1 DEF WithStatus, Absent
<1>3. holders[o] = {}
  <2>1. orders[o] = Absent
    BY DEF AddOrder
  <2>2. orders[o].assigned = FALSE
    BY <2>1 DEF Absent
  <2> QED
    BY <1>0, <2>2 DEF AwardsHeld
<1>4. \A q \in Order \ {o} : /\ orders'[q] = orders[q]
                             /\ shown'[q] = shown[q]
                             /\ holders'[q] = holders[q]
  BY DEF TypeOK, AddOrder, Write
<1>5. holders'[o] = holders[o] /\ shown[o] \subseteq shown'[o]
  BY <1>2, <1>1 DEF TypeOK, AddOrder, Write, Holder
<1>6. Followed' = Followed /\ UNCHANGED <<made, posting, recounting>>
  BY DEF AddOrder, pending, courses, Followed
<1>7. AwardProvenance'
  <2>1. \A q \in Order : orders'[q].assigned =>
              /\ orders[q].assigned
              /\ orders'[q].courier = orders[q].courier
              /\ orders'[q].price = orders[q].price
    BY <1>2, <1>4
  <2> QED
    BY <1>0, <1>6, <2>1, ProvenanceKept
<1>8. ProgressIsAwarded'
  <2> SUFFICES ASSUME NEW q \in Order, orders'[q].status \in Progress \cup {"assigned"}
               PROVE  orders'[q].assigned /\ orders'[q].courier \in Followed'
    BY DEF ProgressIsAwarded
  <2>1. "waiting for offer" \notin Progress \cup {"assigned"}
    BY DEF Progress
  <2>2. q # o
    BY <1>2, <2>1
  <2> QED
    BY <1>0, <1>4, <1>6, <2>2, OtherOrder
<1>9. AwardsHeld'
  <2> SUFFICES ASSUME NEW q \in Order
               PROVE  /\ orders'[q].status = "absent" => orders'[q] = Absent /\ shown'[q] = {}
                      /\ orders'[q].assigned => orders'[q].courier \in Followed' \cap holders'[q]
                      /\ holders'[q] # {} => orders'[q].assigned
    BY DEF AwardsHeld
  <2>1. CASE q # o
    BY <1>0, <1>4, <1>6, <2>1, OtherOrder
  <2>2. CASE q = o
    BY <1>2, <1>3, <1>5, <2>2
  <2> QED
    BY <2>1, <2>2
<1>10. OffersShown'
  <2>1. \A q \in Order : shown[q] \subseteq shown'[q]
    BY <1>4, <1>5
  <2> QED
    BY <1>0, <1>6, <2>1, ShownKept
<1>11. RecountsPlaced'
  <2>1. \A q \in Order : shown[q] \subseteq shown'[q]
    BY <1>4, <1>5
  <2> QED
    BY <1>0, <1>6, <2>1, RecountsKept
<1> QED
  BY <1>7, <1>8, <1>9, <1>10, <1>11 DEF Consistent

\* So does accepting an offer.
LEMMA AcceptStep ==
    ASSUME TypeOK, Consistent, NEW f \in made, AcceptOffer(f)
    PROVE  Consistent'
<1> DEFINE o == f.order
<1>0. AwardsHeld /\ OffersShown /\ RecountsPlaced /\ AwardProvenance /\ ProgressIsAwarded
  BY DEF Consistent
<1>1. o \in Order /\ f.courier \in Courier
  BY DEF TypeOK, OfferDoc
<1>2. /\ orders'[o].status = "assigned"
      /\ orders'[o].assigned = TRUE
      /\ orders'[o].courier = f.courier
      /\ orders'[o].price = f.price
  BY <1>1 DEF AcceptOffer, Write, TypeOK
<1>3. \A q \in Order \ {o} : /\ orders'[q] = orders[q]
                             /\ shown'[q] = shown[q]
                             /\ holders'[q] = holders[q]
  BY DEF TypeOK, AcceptOffer, Write
<1>4. shown[o] \subseteq shown'[o]
  BY <1>1 DEF TypeOK, AcceptOffer, Write
<1>5. Followed' = Followed \cup {f.courier} /\ UNCHANGED <<made, posting, recounting>>
  BY DEF AcceptOffer, Followed
<1>6. f.courier \in holders'[o]
  <2> DEFINE doc == [status |-> "assigned", assigned |-> TRUE,
                     courier |-> f.courier, price |-> f.price]
  <2>1. holders'[o] = holders[o] \cup Holder(doc)
    BY <1>1 DEF AcceptOffer, Write, TypeOK
  <2>2. f.courier \in Holder(doc)
    BY DEF Holder, IsOver
  <2> QED
    BY <2>1, <2>2
<1>7. AwardProvenance'
  <2> SUFFICES ASSUME NEW q \in Order, orders'[q].assigned
               PROVE  \E g \in made : /\ g.order = q
                                      /\ g.courier = orders'[q].courier
                                      /\ g.price = orders'[q].price
    BY <1>5 DEF AwardProvenance
  <2>1. CASE q = o
    BY <1>2, <2>1
  <2>2. CASE q # o
    <3>1. orders'[q] = orders[q] /\ orders[q].assigned
      BY <1>3, <2>2
    <3>2. PICK g \in made : /\ g.order = q
                           /\ g.courier = orders[q].courier
                           /\ g.price = orders[q].price
      BY <1>0, <3>1 DEF AwardProvenance
    <3> QED
      BY <3>1, <3>2
  <2> QED
    BY <2>1, <2>2
<1>8. \A q \in Order \ {o} :
        /\ orders'[q].status = "absent" => orders'[q] = Absent /\ shown'[q] = {}
        /\ orders'[q].assigned => orders'[q].courier \in Followed' \cap holders'[q]
        /\ holders'[q] # {} => orders'[q].assigned
        /\ orders'[q].status \in Progress \cup {"assigned"} =>
              orders'[q].assigned /\ orders'[q].courier \in Followed'
  BY <1>0, <1>3, <1>5, OtherOrder
<1>9. orders'[o].courier \in Followed' \cap holders'[o]
  BY <1>2, <1>5, <1>6
<1>10. AwardsHeld'
  BY <1>2, <1>8, <1>9 DEF AwardsHeld
<1>11. ProgressIsAwarded'
  BY <1>2, <1>8, <1>9 DEF ProgressIsAwarded
<1>12. OffersShown'
  <2>1. \A q \in Order : shown[q] \subseteq shown'[q]
    BY <1>3, <1>4
  <2> QED
    BY <1>0, <1>5, <2>1, ShownKept
<1>13. RecountsPlaced'
  <2>1. \A q \in Order : shown[q] \subseteq shown'[q]
    BY <1>3, <1>4
  <2> QED
    BY <1>0, <1>5, <2>1, RecountsKept
<1> QED
  BY <1>7, <1>10, <1>11, <1>12, <1>13 DEF Consistent

\* LifecycleInv holds of the initial state and every step keeps it.
LEMMA InvInit == Init => LifecycleInv
<1> SUFFICES ASSUME Init PROVE Consistent /\ TypeOK
  BY DEF LifecycleInv
<1>1. TypeOK
  BY AbsentType, LifecycleAssumption DEF Init, TypeOK
<1>2. \A o \in Order : /\ orders[o] = Absent
                       /\ shown[o] = {}
                       /\ holders[o] = {}
                       /\ ~orders[o].assigned
                       /\ orders[o].status = "absent"
  BY DEF Init, Absent
<1> QED
  BY <1>1, <1>2 DEF Init, Consistent, AwardsHeld, OffersShown, RecountsPlaced, AwardProvenance,
                     ProgressIsAwarded, Progress

LEMMA InvStep == LifecycleInv /\ [Next]_vars => Consistent'
<1> USE LifecycleAssumption
<1> SUFFICES ASSUME TypeOK, Consistent, [Next]_vars PROVE Consistent'
  BY DEF LifecycleInv
<1>1. ASSUME NEW o \in Order, AddOrder(o) PROVE Consistent'
  BY <1>1, AddOrderStep
<1>2. ASSUME NEW o \in Order, BecomeOverdue(o) PROVE Consistent'
  BY <1>2, QuietStep DEF BecomeOverdue, pending, courses, Followed
<1>3. ASSUME NEW c \in Courier, NEW o \in Order, NEW p \in Price, AddOffer(c, o, p)
      PROVE Consistent'
  <2>1. "have an offer" \in Status /\ "have an offer" \notin Progress \cup {"assigned"}
    BY DEF Status, Progress
  <2>2. PICK id \in OfferId :
           posting' = posting \cup {[id |-> id, order |-> o, courier |-> c, price |-> p]}
    BY <1>3 DEF AddOffer
  <2>3. \A f \in posting' \ posting : f.order = o
    BY <2>2
  <2> QED
    BY <1>3, <2>1, <2>3, StatusStep DEF AddOffer, courses, Followed
<1>4. ASSUME NEW f \in posting, PostOffer(f) \/ PostFails(f) PROVE Consistent'
  BY <1>4, QuietStep DEF PostOffer, PostFails, courses, Followed
<1>5. ASSUME NEW f \in made, DeclineOffer(f) \/ CancelOwnOffer(f) PROVE Consistent'
  <2>1. shown[f.order] # {}
    BY DEF Consistent, OffersShown
  <2>2. \E d \in Device : recounting' = recounting \cup {<<d, f.order>>}
    <3>1. f.order \in Order /\ f.courier \in Courier
      BY DEF TypeOK, OfferDoc
    <3> QED
      BY <1>5, <3>1 DEF DeclineOffer, CancelOwnOffer, CancelOffer, Device
  <2>3. \A q \in recounting' : q \in recounting \/ shown[q[2]] # {}
    BY <2>1, <2>2
  <2>4. UNCHANGED docs /\ Followed' = Followed /\ UNCHANGED <<made, posting>>
    BY <1>5 DEF DeclineOffer, CancelOwnOffer, CancelOffer, courses, Followed
  <2> QED
    BY <2>3, <2>4, QuietStep
<1>6. ASSUME NEW d \in Device, NEW c \in Courier, NEW o \in Order,
             Withdraw(d, c, o) \/ WithdrawFails(d, c, o)
      PROVE Consistent'
  BY <1>6, QuietStep DEF Withdraw, WithdrawFails, courses, Followed
<1>7. ASSUME NEW d \in Device, NEW o \in Order, Recount(d, o) PROVE Consistent'
  <2>1. /\ SetStatus(o, "waiting for offer")
        /\ Followed' = Followed
        /\ UNCHANGED <<made, posting, recounting>>
    BY <1>7 DEF Recount, pending, courses, Followed
  <2>2. "waiting for offer" \in Status /\ "waiting for offer" \notin Progress \cup {"assigned"}
    BY DEF Status, Progress
  <2> QED
    BY <2>1, <2>2, StatusStep
<1>8. ASSUME NEW f \in made, AcceptOffer(f) PROVE Consistent'
  BY <1>8, AcceptStep
<1>9. ASSUME NEW d \in Device, NEW S \in SUBSET Order, CancelOrders(d, S),
             \A o \in S : shown[o] # {}
      PROVE Consistent'
  BY <1>9, CancelStep DEF CancelOrders, courses, Followed
<1>10. ASSUME NEW o \in Order, MemberCancels(o) PROVE Consistent'
  BY <1>9, <1>10 DEF MemberCancels, Device
<1>11. ASSUME NEW c \in Courier, NEW o \in Order, CourierCancels(c, o) PROVE Consistent'
  <2>1. orders[o].assigned
    BY <1>11 DEF CourierCancels, Consistent, AwardsHeld
  <2>2. \E f \in made : f.order = o
    BY <2>1 DEF Consistent, AwardProvenance
  <2>3. shown[o] # {}
    BY <2>2 DEF Consistent, OffersShown
  <2> QED
    BY <1>9, <1>11, <2>3 DEF CourierCancels, Device
<1>12. ASSUME NEW m \in Member, CheckOrders(m) PROVE Consistent'
  BY <1>9, <1>12 DEF CheckOrders, Device
<1>13. ASSUME NEW c \in Courier, CheckOrdersForCourier(c) PROVE Consistent'
  BY <1>9, <1>13 DEF CheckOrdersForCourier, Device
<1>14. ASSUME NEW d \in Device, NEW o \in Order, PurgeOffers(d, o) \/ PurgeFails(d, o)
       PROVE Consistent'
  BY <1>14, QuietStep DEF PurgeOffers, PurgeFails, courses, Followed
<1>15. ASSUME NEW c \in Courier, NEW o \in Order, NEW s \in Progress, ChangeState(c, o, s)
       PROVE Consistent'
  <2>1. orders[o].assigned
    BY <1>15 DEF ChangeState, Consistent, AwardsHeld
  <2> QED
    BY <1>15, <2>1, StatusStep, StatusLiterals DEF ChangeState, pending, courses, Followed
<1>16. ASSUME NEW d \in Device, Kill(d) PROVE Consistent'
  BY <1>16, QuietStep DEF Kill, courses, Followed
<1>18. ASSUME NEW c \in Courier, StartTracking(c) \/ StartFails(c) PROVE Consistent'
  BY <1>18, QuietStep DEF StartTracking, StartFails, pending, Followed
<1>17. ASSUME UNCHANGED vars PROVE Consistent'
  BY <1>17, QuietStep DEF vars, pending, courses, Followed
<1> QED
  BY <1>1, <1>2, <1>3, <1>4, <1>5, <1>6, <1>7, <1>8, <1>10, <1>11, <1>12, <1>13,
     <1>14, <1>15, <1>16, <1>17, <1>18
  DEF Next, UserStep, TimedStep, Callback, Failure

\* The inductive invariant, from which the theorems below follow.
LEMMA LifecycleInvariant == Spec => []LifecycleInv
<1>1. Init => LifecycleInv
  BY InvInit
<1>2. LifecycleInv /\ [Next]_vars => Consistent'
  BY InvStep
<1>3. Spec => []TypeOK
  BY Typing
<1>4. TypeOK' /\ Consistent' => LifecycleInv'
  BY DEF LifecycleInv
<1> QED
  BY <1>1, <1>2, <1>3, <1>4, PTL DEF Spec

\* Every award carries the courier and the price of one of the order's own
\* offers, whatever the ages of the cards and callbacks behind it.
THEOREM Provenance == Spec => []AwardProvenance
<1>1. LifecycleInv => AwardProvenance
  BY DEF LifecycleInv, Consistent
<1> QED
  BY <1>1, LifecycleInvariant, PTL

\* No progress on an order nobody was awarded, and whoever it was awarded to has
\* a Tracking document, or one on its way or refused.
THEOREM ProgressAwarded == Spec => []ProgressIsAwarded
<1>1. LifecycleInv => ProgressIsAwarded
  BY DEF LifecycleInv, Consistent
<1> QED
  BY <1>1, LifecycleInvariant, PTL

\* A document in Offers is on an order that has shown "have an offer".
THEOREM StatusFirst == Spec => []OfferAfterStatus
<1>1. LifecycleInv => OfferAfterStatus
  BY DEF LifecycleInv, Consistent, OffersShown, OfferAfterStatus, TypeOK
<1> QED
  BY <1>1, LifecycleInvariant, PTL

-----------------------------------------------------------------------------
(* Awards are never withdrawn, and the lifecycle implements the contract.  *)

\* How the writes look through the refinement mapping.
LEMMA StatusMapped ==
    ASSUME TypeOK, Consistent, NEW o \in Order, NEW s \in Status, SetStatus(o, s)
    PROVE  /\ [q \in Order |-> StageOf(orders[q])]' =
                  [[q \in Order |-> StageOf(orders[q])] EXCEPT
                      ![o] = IF s \in Open THEN "open" ELSE s]
           /\ UNCHANGED [q \in Order |-> AwardOf(orders[q])]
           /\ UNCHANGED holders
           /\ \A q \in Order : /\ orders'[q].assigned = orders[q].assigned
                               /\ orders'[q].courier = orders[q].courier
<1>1. orders[o] \in OrderDoc /\ orders'[o] = WithStatus(orders[o], s)
  BY DEF TypeOK, SetStatus, Write
<1>2. /\ orders'[o].status = s
      /\ orders'[o].assigned = orders[o].assigned
      /\ orders'[o].courier = orders[o].courier
      /\ orders'[o].price = orders[o].price
  BY <1>1 DEF WithStatus, OrderDoc
<1>3. \A q \in Order \ {o} : orders'[q] = orders[q]
  BY DEF TypeOK, SetStatus, Write
<1>4. StageOf(orders'[o]) = IF s \in Open THEN "open" ELSE s
  BY <1>2 DEF StageOf
<1>5. AwardOf(orders'[o]) = AwardOf(orders[o])
  BY <1>2 DEF AwardOf
<1>6. Holder(orders'[o]) \subseteq holders[o]
  <2>1. CASE orders[o].assigned
    <3>1. orders[o].courier \in holders[o]
      BY <2>1 DEF Consistent, AwardsHeld
    <3>2. Holder(orders'[o]) \subseteq {orders[o].courier}
      BY <1>2 DEF Holder
    <3> QED
      BY <3>1, <3>2
  <2>2. CASE ~orders[o].assigned
    BY <1>2, <2>2 DEF Holder
  <2> QED
    BY <2>1, <2>2
<1>7. holders' = holders
  <2>1. holders' = [holders EXCEPT ![o] = @ \cup Holder(orders'[o])]
    BY <1>1 DEF SetStatus, Write
  <2> QED
    BY <2>1, <1>6 DEF TypeOK
<1> QED
  BY <1>2, <1>3, <1>4, <1>5, <1>7

LEMMA CancelMapped ==
    ASSUME TypeOK, NEW S \in SUBSET Order, CancelAll(S)
    PROVE  /\ [q \in Order |-> StageOf(orders[q])]' =
                  [q \in Order |-> IF q \in S THEN "cancled" ELSE StageOf(orders[q])]
           /\ UNCHANGED [q \in Order |-> AwardOf(orders[q])]
           /\ UNCHANGED holders
           /\ \A q \in Order : /\ orders'[q].assigned = orders[q].assigned
                               /\ orders'[q].courier = orders[q].courier
<1>1. \A q \in Order \ S : orders'[q] = orders[q]
  BY DEF CancelAll
<1>2. \A q \in S : /\ orders'[q].status = "cancled"
                   /\ orders'[q].assigned = orders[q].assigned
                   /\ orders'[q].courier = orders[q].courier
                   /\ orders'[q].price = orders[q].price
  BY DEF CancelAll, WithStatus, TypeOK, OrderDoc
<1>3. \A q \in Order : AwardOf(orders'[q]) = AwardOf(orders[q])
  BY <1>1, <1>2 DEF AwardOf
<1>4. \A q \in Order : StageOf(orders'[q]) =
                         IF q \in S THEN "cancled" ELSE StageOf(orders[q])
  BY <1>1, <1>2 DEF StageOf, Open
<1> QED
  BY <1>1, <1>2, <1>3, <1>4 DEF CancelAll

LEMMA AcceptMapped ==
    ASSUME TypeOK, NEW f \in made, AcceptOffer(f)
    PROVE  /\ f.order \in Order /\ f \in OfferDoc
           /\ [q \in Order |-> StageOf(orders[q])]' =
                  [[q \in Order |-> StageOf(orders[q])] EXCEPT ![f.order] = "assigned"]
           /\ [q \in Order |-> AwardOf(orders[q])]' =
                  [[q \in Order |-> AwardOf(orders[q])] EXCEPT
                      ![f.order] = [courier |-> f.courier, price |-> f.price]]
           /\ holders' = [holders EXCEPT ![f.order] = @ \cup {f.courier}]
           /\ orders'[f.order].assigned
           /\ \A q \in Order \ {f.order} : orders'[q] = orders[q]
<1> DEFINE o == f.order
           doc == [status |-> "assigned", assigned |-> TRUE,
                   courier |-> f.courier, price |-> f.price]
<1>1. o \in Order /\ f \in OfferDoc
  BY DEF TypeOK, OfferDoc
<1>2. orders' = [orders EXCEPT ![o] = doc] /\ holders' = [holders EXCEPT ![o] = @ \cup Holder(doc)]
  BY DEF AcceptOffer, Write
<1>3. orders'[o] = doc /\ \A q \in Order \ {o} : orders'[q] = orders[q]
  BY <1>1, <1>2 DEF TypeOK
<1>4. Holder(doc) = {f.courier}
  BY DEF Holder, IsOver
<1>5. StageOf(orders'[o]) = "assigned"
  BY <1>3 DEF StageOf, Open
<1>6. AwardOf(orders'[o]) = [courier |-> f.courier, price |-> f.price]
  BY <1>3 DEF AwardOf
<1>7. orders'[o].assigned
  BY <1>3
<1> HIDE DEF doc
<1>8. [q \in Order |-> StageOf(orders[q])]' =
         [[q \in Order |-> StageOf(orders[q])] EXCEPT ![o] = "assigned"]
  BY <1>1, <1>3, <1>5
<1>9. [q \in Order |-> AwardOf(orders[q])]' =
         [[q \in Order |-> AwardOf(orders[q])] EXCEPT
             ![o] = [courier |-> f.courier, price |-> f.price]]
  BY <1>1, <1>3, <1>6
<1> QED
  BY <1>1, <1>2, <1>3, <1>4, <1>7, <1>8, <1>9

\* An order with an award, an offer or a card has been placed.
LEMMA PlacedMapped ==
    ASSUME TypeOK, Consistent
    PROVE  /\ \A o \in Order : shown[o] # {} => StageOf(orders[o]) # "absent"
           /\ \A f \in made \cup posting : /\ f \in OfferDoc
                                          /\ f.order \in Order
                                          /\ StageOf(orders[f.order]) # "absent"
<1>1. \A o \in Order : shown[o] # {} => StageOf(orders[o]) # "absent"
  BY DEF Consistent, AwardsHeld, StageOf
<1>2. \A f \in made \cup posting : f \in OfferDoc /\ f.order \in Order
  BY DEF TypeOK, OfferDoc
<1> QED
  BY <1>1, <1>2 DEF Consistent, OffersShown

LEMMA ContractInit == Init => Contract!Init
<1> SUFFICES ASSUME Init PROVE Contract!Init
  OBVIOUS
<1>1. StageOf(Absent) = "absent" /\ AwardOf(Absent) = Contract!NoAward
  BY DEF StageOf, AwardOf, Absent, Open, Contract!NoAward
<1> QED
  BY <1>1 DEF Init, Contract!Init

LEMMA ContractStep == LifecycleInv /\ [Next]_vars => [Contract!Next]_(Contract!vars)
<1> USE LifecycleAssumption
<1> SUFFICES ASSUME TypeOK, Consistent, [Next]_vars
             PROVE  Contract!Next \/ UNCHANGED Contract!vars
  BY DEF LifecycleInv
<1> USE PlacedMapped
<1>0. ASSUME UNCHANGED docs, UNCHANGED made PROVE UNCHANGED Contract!vars
  BY <1>0 DEF docs, Contract!vars
<1>1. ASSUME NEW o \in Order, AddOrder(o) PROVE Contract!Place(o)
  <2> DEFINE doc == WithStatus(Absent, "waiting for offer")
  <2>1. /\ orders[o] = Absent
        /\ orders' = [orders EXCEPT ![o] = doc]
        /\ holders' = [holders EXCEPT ![o] = @ \cup Holder(doc)]
        /\ UNCHANGED made
    BY <1>1 DEF AddOrder, Write
  <2>2. /\ StageOf(Absent) = "absent" /\ StageOf(doc) = "open"
        /\ AwardOf(Absent) = AwardOf(doc) /\ Holder(doc) = {}
    BY DEF StageOf, AwardOf, Absent, Open, WithStatus, Holder
  <2> HIDE DEF doc
  <2>3. [q \in Order |-> StageOf(orders[q])]' =
           [[q \in Order |-> StageOf(orders[q])] EXCEPT ![o] = "open"]
    BY <2>1, <2>2 DEF TypeOK
  <2>4. UNCHANGED [q \in Order |-> AwardOf(orders[q])]
    BY <2>1, <2>2 DEF TypeOK
  <2>5. UNCHANGED holders
    BY <2>1, <2>2 DEF TypeOK
  <2> QED
    BY <2>1, <2>2, <2>3, <2>4, <2>5 DEF Contract!Place
<1>2. ASSUME NEW o \in Order, NEW s \in Open, SetStatus(o, s), shown[o] # {}, UNCHANGED made
      PROVE  Contract!Reopen(o)
  BY <1>2, StatusMapped, StatusLiterals DEF Contract!Reopen
<1>3. ASSUME NEW c \in Courier, NEW o \in Order, NEW p \in Price, AddOffer(c, o, p)
      PROVE  Contract!Reopen(o)
  BY <1>2, <1>3 DEF AddOffer, Open
<1>4. ASSUME NEW f \in posting, PostOffer(f) PROVE Contract!MakeBid(f)
  BY <1>4 DEF PostOffer, docs, Contract!MakeBid
<1>5. ASSUME NEW d \in Device, NEW o \in Order, Recount(d, o) PROVE Contract!Reopen(o)
  <2>1. shown[o] # {}
    BY <1>5 DEF Recount, Consistent, RecountsPlaced
  <2> QED
    BY <1>2, <1>5, <2>1 DEF Recount, Open
<1>6. ASSUME NEW f \in made, AcceptOffer(f) PROVE Contract!Grant(f)
  <2>1. UNCHANGED made
    BY <1>6 DEF AcceptOffer
  <2> QED
    BY <1>6, <2>1, AcceptMapped DEF Contract!Grant, Contract!Terms
<1>7. ASSUME NEW d \in Device, NEW S \in SUBSET Order, CancelOrders(d, S),
             \A o \in S : shown[o] # {}
      PROVE  Contract!Cancel(S)
  <2>1. CancelAll(S) /\ UNCHANGED made
    BY <1>7 DEF CancelOrders
  <2> QED
    BY <1>7, <2>1, CancelMapped DEF Contract!Cancel
<1>8. ASSUME NEW o \in Order, MemberCancels(o) PROVE Contract!Cancel({o})
  BY <1>7, <1>8 DEF MemberCancels, Device
<1>9. ASSUME NEW c \in Courier, NEW o \in Order, CourierCancels(c, o)
      PROVE  Contract!Cancel({o})
  <2>1. orders[o].assigned
    BY <1>9 DEF CourierCancels, Consistent, AwardsHeld
  <2>2. \E f \in made : f.order = o
    BY <2>1 DEF Consistent, AwardProvenance
  <2>3. shown[o] # {}
    BY <2>2 DEF Consistent, OffersShown
  <2> QED
    BY <1>7, <1>9, <2>3 DEF CourierCancels, Device
<1>10. ASSUME NEW m \in Member, CheckOrders(m)
       PROVE  \E S \in SUBSET Order : Contract!Cancel(S)
  BY <1>7, <1>10 DEF CheckOrders, Device
<1>11. ASSUME NEW c \in Courier, CheckOrdersForCourier(c)
       PROVE  \E S \in SUBSET Order : Contract!Cancel(S)
  BY <1>7, <1>11 DEF CheckOrdersForCourier, Device
<1>12. ASSUME NEW c \in Courier, NEW o \in Order, NEW s \in Progress, ChangeState(c, o, s)
       PROVE  Contract!Advance(c, o, s)
  <2>1. s \in Status /\ s \notin Open
    BY StatusLiterals DEF Progress, Open
  <2>2. SetStatus(o, s) /\ c \in holders[o] /\ UNCHANGED made
    BY <1>12 DEF ChangeState
  <2> QED
    BY <2>1, <2>2, StatusMapped DEF Contract!Advance
<1>13. ASSUME \/ \E o \in Order : BecomeOverdue(o)
              \/ \E f \in posting : PostFails(f)
              \/ \E f \in made : DeclineOffer(f) \/ CancelOwnOffer(f)
              \/ \E d \in Device, c \in Courier, o \in Order :
                    Withdraw(d, c, o) \/ WithdrawFails(d, c, o)
              \/ \E d \in Device, o \in Order : PurgeOffers(d, o) \/ PurgeFails(d, o)
              \/ \E c \in Courier : StartTracking(c) \/ StartFails(c)
              \/ \E d \in Device : Kill(d)
              \/ UNCHANGED vars
       PROVE  UNCHANGED Contract!vars
  <2>1. UNCHANGED docs /\ UNCHANGED made
    BY <1>13 DEF BecomeOverdue, PostFails, DeclineOffer, CancelOwnOffer, CancelOffer,
                 Withdraw, WithdrawFails, PurgeOffers, PurgeFails, StartTracking, StartFails, Kill,
                 vars
  <2> QED
    BY <1>0, <2>1
<1>14. /\ \A f \in posting : f \in OfferDoc
       /\ \A f \in made : f \in OfferDoc
  BY DEF TypeOK
<1>15. CASE Next
  <2>1. CASE UserStep
    BY <2>1, <1>1, <1>3, <1>6, <1>8, <1>9, <1>12, <1>13, <1>14 DEF UserStep, Contract!Next
  <2>2. CASE TimedStep
    BY <2>2, <1>10, <1>11, <1>13 DEF TimedStep, Contract!Next
  <2>3. CASE Callback
    BY <2>3, <1>4, <1>5, <1>13, <1>14 DEF Callback, Contract!Next
  <2>4. CASE Failure
    BY <2>4, <1>13 DEF Failure
  <2>5. CASE \E d \in Device : Kill(d)
    BY <2>5, <1>13
  <2> QED
    BY <1>15, <2>1, <2>2, <2>3, <2>4, <2>5 DEF Next
<1> QED
  BY <1>13, <1>15

\* The documents, cards and callbacks of the code implement the contract.
THEOREM Refinement == Spec => ImplementsContract
<1>1. Init => Contract!Init
  BY ContractInit
<1>2. LifecycleInv /\ [Next]_vars => [Contract!Next]_(Contract!vars)
  BY ContractStep
<1> QED
  BY <1>1, <1>2, LifecycleInvariant, PTL DEF Spec, ImplementsContract, Contract!Spec

\* No write takes an award back.
THEOREM AwardPermanence == Spec => AwardNeverWithdrawn
<1> USE LifecycleAssumption
<1>1. LifecycleInv /\ TypeOK' /\ [Next]_vars =>
        \A o \in Order : orders[o].assigned =>
           orders'[o].assigned /\ orders'[o].courier # NoCourier
  <2> SUFFICES ASSUME TypeOK, Consistent, TypeOK', [Next]_vars,
                      NEW o \in Order, orders[o].assigned
               PROVE  orders'[o].assigned
    BY DEF LifecycleInv, TypeOK, OrderDoc
  <2>1. CASE UNCHANGED orders
    BY <2>1
  <2>2. ASSUME NEW q \in Order, NEW s \in Status, SetStatus(q, s) PROVE orders'[o].assigned
    BY <2>2, StatusMapped
  <2>3. ASSUME NEW S \in SUBSET Order, CancelAll(S) PROVE orders'[o].assigned
    BY <2>3, CancelMapped
  <2>4. ASSUME NEW q \in Order, AddOrder(q) PROVE orders'[o].assigned
    <3>1. orders[q] = Absent
      BY <2>4 DEF AddOrder
    <3>2. q # o
      BY <3>1 DEF Absent
    <3> QED
      BY <2>4, <3>2 DEF AddOrder, Write, TypeOK
  <2>5. ASSUME NEW f \in made, AcceptOffer(f) PROVE orders'[o].assigned
    <3>1. CASE o = f.order
      BY <2>5, <3>1, AcceptMapped
    <3>2. CASE o # f.order
      BY <2>5, <3>2, AcceptMapped
    <3> QED
      BY <3>1, <3>2
  <2>6. CASE UserStep
    BY <2>6, <2>1, <2>2, <2>3, <2>4, <2>5, StatusLiterals
    DEF UserStep, MemberCancels, CourierCancels, CancelOrders, AddOffer, DeclineOffer,
        CancelOwnOffer, CancelOffer, ChangeState, docs, Open
  <2>7. CASE TimedStep
    BY <2>7, <2>1, <2>3 DEF TimedStep, BecomeOverdue, CheckOrders, CheckOrdersForCourier,
                            CancelOrders, docs
  <2>8. CASE Callback
    BY <2>8, <2>1, <2>2, StatusLiterals
    DEF Callback, PostOffer, PurgeOffers, Recount, Withdraw, StartTracking, docs, Open
  <2>9. CASE Failure
    BY <2>9, <2>1 DEF Failure, PostFails, PurgeFails, WithdrawFails, StartFails, Kill, docs
  <2>10. CASE UNCHANGED vars
    BY <2>10, <2>1 DEF vars, docs
  <2> QED
    BY <2>6, <2>7, <2>8, <2>9, <2>10 DEF Next
<1> QED
  BY <1>1, LifecycleInvariant, Typing, PTL DEF Spec, AwardNeverWithdrawn

=============================================================================
