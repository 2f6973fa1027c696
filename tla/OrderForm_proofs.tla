--------------------------- MODULE OrderForm_proofs ---------------------------
(***************************************************************************)
(* Proofs about OrderForm: its invariant is inductive for every set of     *)
(* members, points, rooms and texts and any number of orders.              *)
(***************************************************************************)
EXTENDS OrderForm, TLAPS

LEMMA FormInit == Init => FormInv
<1> SUFFICES ASSUME Init PROVE FormInv
  OBVIOUS
<1>1. TypeOK
  <2>1. << >> \in Seq(Document) /\ Len(<< >>) = 0
    OBVIOUS
  <2>2. docs \in Seq(Document) /\ Len(docs) <= MaxOrders
    BY <2>1, FormAssumption DEF Init
  <2>3. order \in [pick : Address, drop : Address, details : Text \cup {None},
                  setPick : BOOLEAN, setDrop : BOOLEAN, setDetails : BOOLEAN]
    BY DEF Init, NewOrder, NoAddress, Address
  <2> QED
    BY <2>2, <2>3 DEF Init, TypeOK, Page, Blank
<1>2. DocsComplete
  BY DEF Init, DocsComplete
<1>3. PagesInOrder /\ PointLeft /\ PinsOnMaps
  BY DEF Init, PagesInOrder, PointLeft, PinsOnMaps, Blank, NewOrder
<1> QED
  BY <1>1, <1>2, <1>3 DEF FormInv

(***************************************************************************)
(* Most steps write no document and leave the order alone: they turn a     *)
(* page, or fill a field of the one shown.                                 *)
(***************************************************************************)
LEMMA TurningPages ==
    ASSUME FormInv, UNCHANGED <<docs, order>>,
           NEW p \in Page, Show(p),
           user' \in Member \cup {None}, p # "LogIn" => user' \in Member,
           alert' = FALSE,
           pickAndDrop' \in {None, order.drop.at},
           p \in {"DROPOFFlocation", "SendOrder"} => Complete(order.pick),
           p = "SendOrder" => Complete(order.drop)
    PROVE  FormInv'
<1>1. TypeOK'
  BY DEF FormInv, TypeOK, Show, Blank, Address
<1>2. DocsComplete'
  BY DEF FormInv, DocsComplete, Complete
<1>3. PagesInOrder' /\ PointLeft' /\ PinsOnMaps'
  BY DEF FormInv, PagesInOrder, PointLeft, PinsOnMaps, Show, Blank, Complete
<1> QED
  BY <1>1, <1>2, <1>3 DEF FormInv

\* A touch on the map or a key changes a field of the page and perhaps the point.
LEMMA FillingFields ==
    ASSUME FormInv, UNCHANGED <<docs, user, page, alert, order>>,
           form' \in [pin : Place \cup {None}, room : Room \cup {None},
                     text : Text \cup {None}],
           pickAndDrop' \in Place \cup {None},
           form'.pin # None => page \in {"AddNewOrder", "DROPOFFlocation"},
           form'.pin = None => pickAndDrop' \in {None, order.drop.at}
    PROVE  FormInv'
<1>1. TypeOK'
  BY DEF FormInv, TypeOK
<1>2. DocsComplete'
  BY DEF FormInv, DocsComplete, Complete
<1>3. PagesInOrder' /\ PointLeft' /\ PinsOnMaps'
  BY DEF FormInv, PagesInOrder, PointLeft, PinsOnMaps, Complete
<1> QED
  BY <1>1, <1>2, <1>3 DEF FormInv

\* The pick-up page saves a whole address and takes the point along.
LEMMA PickUpStep ==
    ASSUME FormInv, NEW onCampus \in BOOLEAN, PickUpNext(onCampus)
    PROVE  FormInv'
<1>1. /\ order'.pick = [at |-> pickAndDrop, room |-> form.room]
      /\ order'.drop = order.drop
      /\ order'.details = order.details
      /\ order'.setDetails = order.setDetails
  BY DEF PickUpNext, FormInv, TypeOK
<1>2. TypeOK'
  BY DEF FormInv, TypeOK, PickUpNext, Show, Blank, Page, Address
<1>3. DocsComplete'
  BY DEF FormInv, DocsComplete, Complete, PickUpNext
<1>4. PagesInOrder'
  BY <1>1 DEF FormInv, PagesInOrder, Complete, PickUpNext, Show
<1>5. PointLeft' /\ PinsOnMaps'
  BY DEF PointLeft, PinsOnMaps, PickUpNext, Show, Blank
<1> QED
  BY <1>2, <1>3, <1>4, <1>5 DEF FormInv

\* The drop-off page may save an address without a point, and stays then.
LEMMA DropOffStep ==
    ASSUME FormInv, NEW onCampus \in BOOLEAN, DropOffNext(onCampus)
    PROVE  FormInv'
<1>1. /\ order'.drop = [at |-> pickAndDrop, room |-> form.room]
      /\ order'.pick = order.pick
      /\ order'.details = order.details
      /\ order'.setDetails = order.setDetails
      /\ pickAndDrop' = pickAndDrop
  BY DEF DropOffNext, FormInv, TypeOK
<1>2. TypeOK'
  <2>1. order' \in [pick : Address, drop : Address, details : Text \cup {None},
                   setPick : BOOLEAN, setDrop : BOOLEAN, setDetails : BOOLEAN]
    <3>1. [at |-> pickAndDrop, room |-> form.room] \in Address
      BY DEF FormInv, TypeOK, Address
    <3>2. (pickAndDrop # None \/ order.setDrop) \in BOOLEAN
      OBVIOUS
    <3> QED
      BY <3>1, <3>2 DEF FormInv, TypeOK, DropOffNext
  <2>2. CASE pickAndDrop # None
    BY <2>1, <2>2 DEF FormInv, TypeOK, DropOffNext, Show, Blank, Page
  <2>3. CASE pickAndDrop = None
    BY <2>1, <2>3 DEF FormInv, TypeOK, DropOffNext
  <2> QED
    BY <2>2, <2>3
<1>3. DocsComplete'
  BY DEF FormInv, DocsComplete, Complete, DropOffNext
<1>4. PagesInOrder'
  BY <1>1 DEF FormInv, PagesInOrder, Complete, DropOffNext, Show
<1>5. PointLeft' /\ PinsOnMaps'
  <2>1. PointLeft'
    BY <1>1 DEF PointLeft
  <2>2. PinsOnMaps'
    BY DEF FormInv, PinsOnMaps, DropOffNext, Show, Blank
  <2> QED
    BY <2>1, <2>2
<1> QED
  BY <1>2, <1>3, <1>4, <1>5 DEF FormInv

(***************************************************************************)
(* The send button: whatever order holds is written, and what it holds is  *)
(* whole, because this page comes after the other two.                     *)
(***************************************************************************)
LEMMA SendStep ==
    ASSUME FormInv, SendOrder
    PROVE  FormInv'
<1>1. /\ order'.pick = order.pick
      /\ order'.drop = order.drop
      /\ order'.setDetails => order'.details # None
      /\ order' \in [pick : Address, drop : Address, details : Text \cup {None},
                    setPick : BOOLEAN, setDrop : BOOLEAN, setDetails : BOOLEAN]
  BY DEF SendOrder, SetOrderDetails, FormInv, TypeOK, PagesInOrder
<1>2. /\ page = "SendOrder" /\ UNCHANGED <<user, page, form, pickAndDrop>>
      /\ alert' \in BOOLEAN
      /\ user \in Member
  BY DEF SendOrder, FormInv, TypeOK
<1>3. Complete(order'.pick) /\ Complete(order'.drop)
  BY <1>1, <1>2 DEF FormInv, PagesInOrder
<1>4. docs' \in Seq(Document) /\ Len(docs') <= MaxOrders /\ DocsComplete'
  <2>1. CASE ~Flags(order')
    <3>1. docs' = docs
      BY <2>1 DEF SendOrder, AddOrder
    <3> QED
      BY <3>1 DEF FormInv, TypeOK, DocsComplete, Complete
  <2>2. CASE Flags(order')
    <3> DEFINE doc == [member |-> user, pick |-> order'.pick, drop |-> order'.drop,
                       details |-> order'.details]
    <3>1. docs' = Append(docs, doc)
      BY <2>2 DEF SendOrder, AddOrder
    <3>2. doc \in Document
      BY <1>1, <1>2 DEF Document
    <3>3. docs \in Seq(Document) /\ Len(docs) < MaxOrders /\ DocsComplete
      BY DEF FormInv, TypeOK, SendOrder
    <3>4. Complete(doc.pick) /\ Complete(doc.drop) /\ doc.details # None
      BY <1>1, <1>3, <2>2 DEF Flags
    <3> HIDE DEF doc
    <3>5. docs' \in Seq(Document) /\ Len(docs') = Len(docs) + 1 /\ Len(docs) \in Nat
      BY <3>1, <3>2, <3>3
    <3>6. Len(docs') <= MaxOrders
      BY <3>3, <3>5, FormAssumption
    <3>7. ASSUME NEW i \in 1 .. Len(docs')
          PROVE  /\ Complete(docs'[i].pick)
                 /\ Complete(docs'[i].drop)
                 /\ docs'[i].details # None
      <4>1. CASE i = Len(docs')
        <5>1. docs'[i] = doc
          BY <3>1, <3>2, <3>3, <3>5, <4>1
        <5> QED
          BY <5>1, <3>4
      <4>2. CASE i # Len(docs')
        <5>1. i \in 1 .. Len(docs) /\ docs'[i] = docs[i]
          BY <3>1, <3>2, <3>3, <3>5, <4>2
        <5> QED
          BY <5>1, <3>3 DEF DocsComplete
      <4> QED
        BY <4>1, <4>2
    <3>8. DocsComplete'
      BY <3>7 DEF DocsComplete, Complete
    <3> QED
      BY <3>5, <3>6, <3>8
  <2> QED
    BY <2>1, <2>2
<1>5. TypeOK'
  BY <1>1, <1>2, <1>4 DEF FormInv, TypeOK
<1>6. PagesInOrder' /\ PointLeft' /\ PinsOnMaps'
  BY <1>1, <1>2, <1>3 DEF FormInv, PagesInOrder, PointLeft, PinsOnMaps, Complete
<1> QED
  BY <1>4, <1>5, <1>6 DEF FormInv

LEMMA FormStep == FormInv /\ [Next]_vars => FormInv'
<1> SUFFICES ASSUME FormInv, [Next]_vars PROVE FormInv'
  OBVIOUS
\* On a page without a map, and with no alert up, every TurningPages holds.
<1>1. /\ TypeOK
      /\ form.pin = None => pickAndDrop \in {None, order.drop.at}
      /\ page \notin {"AddNewOrder", "DROPOFFlocation"} => form.pin = None
      /\ page # "SendOrder" => alert = FALSE
      /\ page \in {"DROPOFFlocation", "SendOrder"} => Complete(order.pick)
      /\ page = "SendOrder" => Complete(order.drop)
  BY DEF FormInv, TypeOK, PointLeft, PinsOnMaps, PagesInOrder
<1>2. /\ user \in Member \cup {None}
      /\ page # "LogIn" => user \in Member
      /\ {"LogIn", "HomePageM", "AddNewOrder", "DROPOFFlocation", "SendOrder",
          "CurrentOrder"} = Page
  BY <1>1 DEF TypeOK, Page
<1>3. ASSUME NEW m \in Member, SignIn(m) PROVE FormInv'
  BY <1>1, <1>2, <1>3, TurningPages DEF SignIn
<1>4. CASE Logout
  BY <1>1, <1>2, <1>4, TurningPages DEF Logout
<1>5. CASE GoHome
  BY <1>1, <1>2, <1>5, TurningPages DEF GoHome
<1>6. CASE NewOrderButton
  BY <1>1, <1>2, <1>6, TurningPages DEF NewOrderButton
<1>7. CASE Relaunch
  <2>1. TypeOK'
    BY <1>7 DEF FormInv, TypeOK, Relaunch, Show, Blank, Page, NewOrder, NoAddress, Address
  <2>2. DocsComplete'
    BY <1>7 DEF FormInv, DocsComplete, Complete, Relaunch
  <2>3. PagesInOrder' /\ PointLeft' /\ PinsOnMaps'
    BY <1>7 DEF PagesInOrder, PointLeft, PinsOnMaps, Relaunch, Show, Blank, NewOrder
  <2> QED
    BY <2>1, <2>2, <2>3 DEF FormInv
<1>8. CASE Back
  <2>1. alert = FALSE
    BY <1>1, <1>8 DEF Back, TypeOK
  <2>2. CASE page = "AddNewOrder"
    BY <1>2, <1>8, <2>1, <2>2, TurningPages DEF Back
  <2>3. CASE page = "DROPOFFlocation"
    BY <1>2, <1>8, <2>1, <2>3, TurningPages DEF Back
  <2>4. CASE page = "SendOrder"
    BY <1>1, <1>2, <1>8, <2>1, <2>4, TurningPages DEF Back
  <2> QED
    BY <1>8, <2>2, <2>3, <2>4 DEF Back
<1>9. ASSUME NEW p \in Place, AddAnnotation(p) PROVE FormInv'
  BY <1>1, <1>9, FillingFields, FormAssumption DEF AddAnnotation, TypeOK
<1>10. ASSUME NEW r \in Room \cup {None}, EnterRoom(r) PROVE FormInv'
  BY <1>1, <1>10, FillingFields DEF EnterRoom, TypeOK
<1>11. ASSUME NEW t \in Text \cup {None}, EnterDetails(t) PROVE FormInv'
  BY <1>1, <1>11, FillingFields DEF EnterDetails, TypeOK
<1>12. ASSUME NEW onCampus \in BOOLEAN, PickUpNext(onCampus) \/ DropOffNext(onCampus)
       PROVE  FormInv'
  BY <1>12, PickUpStep, DropOffStep
<1>13. CASE SendOrder
  BY <1>13, SendStep
<1>14. CASE GotIt
  BY <1>1, <1>2, <1>14, TurningPages DEF GotIt, TypeOK
<1>15. CASE UNCHANGED vars
  BY <1>15 DEF vars, FormInv, TypeOK, DocsComplete, Complete, PagesInOrder, PointLeft,
                 PinsOnMaps
<1> QED
  BY <1>3, <1>4, <1>5, <1>6, <1>7, <1>8, <1>9, <1>10, <1>11, <1>12, <1>13, <1>14,
     <1>15 DEF Next

-----------------------------------------------------------------------------
\* The inductive invariant of the three pages: in every reachable state the
\* pages have come in order and the point left behind is the drop-off's.
THEOREM FormInvariant == Spec => []FormInv
<1> QED
  BY FormInit, FormStep, PTL DEF Spec

\* Every state is well typed, and an alert is up on SendOrder only.
THEOREM FormTyping == Spec => []TypeOK
<1>1. FormInv => TypeOK
  BY DEF FormInv
<1> QED
  BY <1>1, FormInvariant, PTL

\* Every order written has two whole addresses and details, though addOrder
\* tests flags that nothing ever clears.
THEOREM OrdersComplete == Spec => []DocsComplete
<1>1. FormInv => DocsComplete
  BY DEF FormInv
<1> QED
  BY <1>1, FormInvariant, PTL

\* A map nobody touched yields no point or the drop-off entered last.
THEOREM UntouchedMaps == Spec => []UntouchedMap
<1>1. FormInv => UntouchedMap
  BY DEF FormInv, PointLeft, UntouchedMap
<1> QED
  BY <1>1, FormInvariant, PTL
=============================================================================
