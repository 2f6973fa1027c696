------------------------------ MODULE OrderForm ------------------------------
(***************************************************************************)
(* How a member places an order: AddNewOrder, then DROPOFFlocation, then   *)
(* SendOrder, on one phone.                                                *)
(*                                                                         *)
(* What the pages gather lives in two globals that outlive them: order,    *)
(* the Order object whose fields and flags nothing ever clears, and        *)
(* pickAndDrop, the last point touched on a map.  A page's own fields are  *)
(* @State and are new each time the page appears.  Building, floor and     *)
(* room are one field here: all three are wanted, on the same page.        *)
(***************************************************************************)
EXTENDS Sequences, Naturals

CONSTANTS
    Member,     \* who may sign in on the phone
    Place,      \* the points of the map
    Room,       \* what building, floor and room may be
    Text,       \* what order details may be
    None,       \* no member, the point (0, 0), an empty field
    MaxOrders   \* bounds the documents written

ASSUME FormAssumption ==
    /\ None \notin Member \cup Place \cup Room \cup Text
    /\ MaxOrders \in Nat

VARIABLES
    docs,           \* the Order documents, as written by addOrder
    user,           \* the id in UserDefaults
    page,           \* viewRouter.currentPage
    form,           \* the fields of the page shown; pin is the map's annotation
    alert,          \* ADDORDER: SendOrder's alert is up
    order,          \* the global Order object
    pickAndDrop     \* the global of EntireMapView

vars == <<docs, user, page, form, alert, order, pickAndDrop>>

-----------------------------------------------------------------------------
Page == {"LogIn", "HomePageM", "AddNewOrder", "DROPOFFlocation", "SendOrder",
         "CurrentOrder"}

Address  == [at : Place \cup {None}, room : Room \cup {None}]
Document == [member : Member, pick : Address, drop : Address, details : Text \cup {None}]

NoAddress == [at |-> None, room |-> None]
Blank     == [pin |-> None, room |-> None, text |-> None]

NewOrder == [pick |-> NoAddress, drop |-> NoAddress, details |-> None,
             setPick |-> FALSE, setDrop |-> FALSE, setDetails |-> FALSE]

Init ==
    /\ docs = << >>
    /\ user = None
    /\ page = "LogIn"
    /\ form = Blank
    /\ alert = FALSE
    /\ order = NewOrder
    /\ pickAndDrop = None

\* A page that appears has fresh fields.
Show(p) == page' = p /\ form' = Blank

-----------------------------------------------------------------------------
SignIn(m) ==
    /\ page = "LogIn"
    /\ user' = m
    /\ Show("HomePageM")
    /\ UNCHANGED <<docs, alert, order, pickAndDrop>>

\* By way of the profile page; nothing global but the id is cleared.
Logout ==
    /\ page \in {"HomePageM", "CurrentOrder"}
    /\ user' = None
    /\ Show("LogIn")
    /\ UNCHANGED <<docs, alert, order, pickAndDrop>>

\* The tab bar, which the three pages of the form do not have.
GoHome ==
    /\ page = "CurrentOrder"
    /\ Show("HomePageM")
    /\ UNCHANGED <<docs, user, alert, order, pickAndDrop>>

NewOrderButton ==
    /\ page = "HomePageM"
    /\ Show("AddNewOrder")
    /\ UNCHANGED <<docs, user, alert, order, pickAndDrop>>

\* The app is killed and started again: the globals are new.
Relaunch ==
    /\ Show("LogIn")
    /\ alert' = FALSE
    /\ order' = NewOrder
    /\ pickAndDrop' = None
    /\ UNCHANGED <<docs, user>>

-----------------------------------------------------------------------------
AddAnnotation(p) ==
    /\ page \in {"AddNewOrder", "DROPOFFlocation"}
    /\ form' = [form EXCEPT !.pin = p]
    /\ pickAndDrop' = p
    /\ UNCHANGED <<docs, user, page, alert, order>>

EnterRoom(r) ==
    /\ page \in {"AddNewOrder", "DROPOFFlocation"}
    /\ form' = [form EXCEPT !.room = r]
    /\ UNCHANGED <<docs, user, page, alert, order, pickAndDrop>>

EnterDetails(t) ==
    /\ page = "SendOrder" /\ ~alert
    /\ form' = [form EXCEPT !.text = t]
    /\ UNCHANGED <<docs, user, page, alert, order, pickAndDrop>>

\* Mutant of Back: no back button forgets the point.
BackKeepsPoint ==
    /\ page \in {"AddNewOrder", "DROPOFFlocation", "SendOrder"} /\ ~alert
    /\ Show(CASE page = "AddNewOrder"     -> "HomePageM"
              [] page = "DROPOFFlocation" -> "AddNewOrder"
              [] page = "SendOrder"       -> "DROPOFFlocation")
    /\ UNCHANGED <<docs, user, alert, order, pickAndDrop>>

\* The three back buttons; SendOrder's keeps pickAndDrop.
Back ==
    /\ page \in {"AddNewOrder", "DROPOFFlocation", "SendOrder"} /\ ~alert
    /\ Show(CASE page = "AddNewOrder"     -> "HomePageM"
              [] page = "DROPOFFlocation" -> "AddNewOrder"
              [] page = "SendOrder"       -> "DROPOFFlocation")
    /\ pickAndDrop' = IF page = "SendOrder" THEN pickAndDrop ELSE None
    /\ UNCHANGED <<docs, user, alert, order>>

-----------------------------------------------------------------------------
\* Mutant of PickUpNext: the point stays, for the drop-off page to find.
PickUpNextKeepsPoint(onCampus) ==
    /\ page = "AddNewOrder"
    /\ onCampus
    /\ pickAndDrop # None
    /\ form.room # None
    /\ order' = [order EXCEPT !.pick = [at |-> pickAndDrop, room |-> form.room],
                              !.setPick = TRUE]
    /\ Show("DROPOFFlocation")
    /\ UNCHANGED <<docs, user, alert, pickAndDrop>>

\* PICKUPlocation looks for a missing point only when the user is on campus,
\* and errorlocation1, which says she is not, is one of the guards.  A point
\* outside the campus sets errorlocation2, which no guard reads.
PickUpNext(onCampus) ==
    /\ page = "AddNewOrder"
    /\ onCampus
    /\ pickAndDrop # None
    /\ form.room # None
    /\ order' = [order EXCEPT !.pick = [at |-> pickAndDrop, room |-> form.room],
                              !.setPick = TRUE]
    /\ pickAndDrop' = None
    /\ Show("DROPOFFlocation")
    /\ UNCHANGED <<docs, user, alert>>

\* Mutant of DropOffNext: the flag, and not the answer, lets the page go.
DropOffNextByFlag(onCampus) ==
    /\ page = "DROPOFFlocation"
    /\ onCampus => pickAndDrop # None
    /\ form.room # None
    /\ order' = [order EXCEPT !.drop = [at |-> pickAndDrop, room |-> form.room],
                              !.setDrop = pickAndDrop # None \/ @]
    /\ IF order'.setDrop THEN Show("SendOrder") ELSE UNCHANGED <<page, form>>
    /\ UNCHANGED <<docs, user, alert, pickAndDrop>>

\* The same checks, but errorlocation1 is no guard: off campus the point may
\* be missing.  The fields are written then all the same, and the flag stays.
DropOffNext(onCampus) ==
    /\ page = "DROPOFFlocation"
    /\ onCampus => pickAndDrop # None
    /\ form.room # None
    /\ LET saved == pickAndDrop # None
       IN  /\ order' = [order EXCEPT !.drop = [at |-> pickAndDrop, room |-> form.room],
                                     !.setDrop = saved \/ @]
           /\ IF saved THEN Show("SendOrder") ELSE UNCHANGED <<page, form>>
    /\ UNCHANGED <<docs, user, alert, pickAndDrop>>

-----------------------------------------------------------------------------
SetOrderDetails ==
    IF form.text = None
    THEN order
    ELSE [order EXCEPT !.details = form.text, !.setDetails = TRUE]

Flags(o) == o.setPick /\ o.setDrop /\ o.setDetails

AddOrder(o) ==
    docs' = IF Flags(o)
            THEN Append(docs, [member |-> user, pick |-> o.pick, drop |-> o.drop,
                               details |-> o.details])
            ELSE docs

\* An empty field raises an error and no alert, and addOrder is called anyhow.
SendOrder ==
    /\ page = "SendOrder" /\ ~alert
    /\ Len(docs) < MaxOrders
    /\ order' = SetOrderDetails
    /\ alert' = (form.text # None)
    /\ AddOrder(order')
    /\ UNCHANGED <<user, page, form, pickAndDrop>>

GotIt ==
    /\ alert
    /\ alert' = FALSE
    /\ Show("CurrentOrder")
    /\ UNCHANGED <<docs, user, order, pickAndDrop>>

Next ==
    \/ \E m \in Member : SignIn(m)
    \/ Logout \/ GoHome \/ NewOrderButton \/ Relaunch \/ Back
    \/ \E p \in Place : AddAnnotation(p)
    \/ \E r \in Room \cup {None} : EnterRoom(r)
    \/ \E t \in Text \cup {None} : EnterDetails(t)
    \/ \E onCampus \in BOOLEAN : PickUpNext(onCampus) \/ DropOffNext(onCampus)
    \/ SendOrder
    \/ GotIt

Spec == Init /\ [][Next]_vars

-----------------------------------------------------------------------------
\* Typing.  The alert is up on SendOrder only, and no page of a member is
\* shown before somebody signed in.
TypeOK ==
    /\ docs \in Seq(Document) /\ Len(docs) <= MaxOrders
    /\ user \in Member \cup {None}
    /\ page \in Page
    /\ page # "LogIn" => user \in Member
    /\ form \in [pin : Place \cup {None}, room : Room \cup {None}, text : Text \cup {None}]
    /\ alert \in BOOLEAN
    /\ alert => page = "SendOrder"
    /\ order \in [pick : Address, drop : Address, details : Text \cup {None},
                  setPick : BOOLEAN, setDrop : BOOLEAN, setDetails : BOOLEAN]
    /\ pickAndDrop \in Place \cup {None}

Complete(a) == a.at # None /\ a.room # None

\* Every document has both addresses, whole, and details.  The flags that
\* addOrder tests do not say so: they stay set from an earlier order while
\* DropOffNext empties a field.  That no page leads past such a field does.
DocsComplete ==
    \A i \in 1 .. Len(docs) :
        /\ Complete(docs[i].pick)
        /\ Complete(docs[i].drop)
        /\ docs[i].details # None

\* A map that nobody touched since its page appeared yields no point, or the
\* point of the drop-off entered last: never the pick-up of this order, nor
\* a point touched and then left by a back button.
UntouchedMap ==
    page \in {"AddNewOrder", "DROPOFFlocation"} /\ form.pin = None
        => pickAndDrop \in {None, order.drop.at}

\* An order that is sent has the details its page holds.  The page says of an
\* empty field "*This field is required" (SendOrderIView.swift:176).
SendsWhatIsTyped ==
    [][docs' # docs => docs'[Len(docs')].details = form.text]_vars

-----------------------------------------------------------------------------
\* What SendOrder counts on when it is reached, whatever the flags say.
PagesInOrder ==
    /\ page \in {"DROPOFFlocation", "SendOrder"} => Complete(order.pick)
    /\ page = "SendOrder" => Complete(order.drop)
    /\ order.setDetails => order.details # None

\* The point left behind is the drop-off's on every other page too.
PointLeft ==
    form.pin = None => pickAndDrop \in {None, order.drop.at}

PinsOnMaps ==
    form.pin # None => page \in {"AddNewOrder", "DROPOFFlocation"}

\* The inductive invariant: DocsComplete holds because the pages come in
\* order, and UntouchedMap because of what each page leaves in pickAndDrop.
FormInv ==
    /\ TypeOK
    /\ DocsComplete
    /\ PagesInOrder
    /\ PointLeft
    /\ PinsOnMaps
=============================================================================
