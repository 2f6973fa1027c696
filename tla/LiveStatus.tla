----------------------------- MODULE LiveStatus -----------------------------
(***************************************************************************)
(* The status rows of an order, on the courier's phone and on the          *)
(* member's: getStatus, getStatusNotAssigned, and the taps that lead to    *)
(* changeState.                                                            *)
(*                                                                         *)
(* Each phone has one liveStatus.  Opening a card attaches a listener that *)
(* finds the order by its details text, since the query has no document    *)
(* id; every listener ever attached goes on writing the same liveStatus.   *)
(* The races on the award are those of OrderLifecycle: here one courier    *)
(* and one member deal with orders that both already see.                  *)
(***************************************************************************)
EXTENDS Naturals, Sequences, FiniteSets

CONSTANTS
    Order,      \* the orders: numbers, in the order of their document ids
    Details,    \* the texts members write as order details
    Text,       \* Text[o]: the orderDetails of order o
    MaxListeners \* bounds the listeners attached at one time

ASSUME StatusAssumption ==
    /\ Order \subseteq Nat \ {0} /\ IsFiniteSet(Order)
    /\ Text \in [Order -> Details]
    /\ MaxListeners \in Nat

VARIABLES
    status,     \* status[o]: the field Status of the document o
    awarded,    \* the orders whose documents carry CourierID
    listeners,  \* the listeners attached so far
    told,       \* told[l]: the statuses in the last snapshot of l, once it got one
    live,       \* live[d]: the liveStatus of phone d
    opened,     \* opened[d]: the order whose card is open on phone d, or none
    asked       \* the courier's "Are you sure" alert, while it is open

vars == <<status, awarded, listeners, told, live, opened, asked>>

-----------------------------------------------------------------------------
Device == {"courier", "member"}
None   == 0

\* Order.status, and the position of a status in it.
Array == <<"waiting for offer", "cancled", "have an offer", "assigned",
           "pick Up", "on The Way", "drop off", "completed">>
Status == {Array[n] : n \in 1..8}
Index  == [s \in Status |-> CHOOSE n \in 1..8 : Array[n] = s]
Rows   == {s \in Status : Index[s] > Index["assigned"]}

\* number tells the listeners of one phone apart.
Listener == [on : Device, text : Details, courier : BOOLEAN, number : 1 .. MaxListeners]

Last(S) == CHOOSE o \in S : \A k \in S : k <= o

\* The query: by details text, and by CourierID where the card has one.
Found(l) == {o \in Order : Text[o] = l.text /\ (l.courier => o \in awarded)}

Current(l) == [o \in Found(l) |-> status[o]]

\* The listener has a snapshot to come: its first one, or a change.
Behind(l) == l \in DOMAIN told => told[l] # Current(l)

Attach(d, text, courier) ==
    LET n == Cardinality({l \in listeners : l.on = d}) + 1 IN
    /\ Cardinality(listeners) < MaxListeners
    /\ listeners' = listeners \cup {[on |-> d, text |-> text, courier |-> courier, number |-> n]}

-----------------------------------------------------------------------------
(* Listening.                                                              *)

\* A card is opened: getStatus for an awarded order, else getStatusNotAssigned.
OpenCard(d, o) ==
    /\ opened[d] = None
    /\ d = "courier" => o \in awarded
    /\ opened' = [opened EXCEPT ![d] = o]
    /\ Attach(d, Text[o], o \in awarded)
    /\ UNCHANGED <<status, awarded, told, live, asked>>

\* The card is closed; the listener stays.
CloseCard(d) ==
    /\ opened[d] # None
    /\ d = "courier" => asked = {}
    /\ opened' = [opened EXCEPT ![d] = None]
    /\ UNCHANGED <<status, awarded, listeners, told, live, asked>>

\* Mutant: only documents reported as modified are read.
SnapshotModifiedOnly(l) ==
    LET changed == IF l \in DOMAIN told
                   THEN {o \in DOMAIN told[l] : told[l][o] # status[o]} ELSE {} IN
    /\ Behind(l)
    /\ told' = [k \in DOMAIN told \cup {l} |-> IF k = l THEN Current(l) ELSE told[k]]
    /\ live' = IF changed # {} THEN [live EXCEPT ![l.on] = status[Last(changed)]] ELSE live
    /\ UNCHANGED <<status, awarded, listeners, opened, asked>>

\* A snapshot: liveStatus becomes the status of the last document found, and
\* then that of the last one that changed since the previous snapshot.
Snapshot(l) ==
    LET changed == IF l \in DOMAIN told
                   THEN {o \in DOMAIN told[l] : told[l][o] # status[o]} ELSE {} IN
    /\ Behind(l)
    /\ told' = [k \in DOMAIN told \cup {l} |-> IF k = l THEN Current(l) ELSE told[k]]
    /\ live' = IF changed # {} THEN [live EXCEPT ![l.on] = status[Last(changed)]]
               ELSE IF Found(l) # {} THEN [live EXCEPT ![l.on] = status[Last(Found(l))]]
               ELSE live
    /\ UNCHANGED <<status, awarded, listeners, opened, asked>>

-----------------------------------------------------------------------------
(* Writing.                                                                *)

SetStatus(o, s) == status' = [status EXCEPT ![o] = s]

\* acceptOffer.
Accept(o) ==
    /\ o \notin awarded
    /\ status[o] = "have an offer"
    /\ SetStatus(o, "assigned")
    /\ awarded' = awarded \cup {o}
    /\ UNCHANGED <<listeners, told, live, opened, asked>>

\* cancelOrder, from the card that is open on the phone; it closes the card.
CancelOrder(d) ==
    /\ opened[d] # None
    /\ d = "courier" => asked = {}
    /\ SetStatus(opened[d], "cancled")
    /\ opened' = [opened EXCEPT ![d] = None]
    /\ UNCHANGED <<awarded, listeners, told, live, asked>>

\* Mutant: the tap asks whatever liveStatus says.
TapAnyRow(s) ==
    /\ opened["courier"] # None
    /\ asked = {}
    /\ asked' = {[row |-> s, right |-> live["courier"] = status[opened["courier"]]]}
    /\ UNCHANGED <<status, awarded, listeners, told, live, opened>>

\* A tap on a row that comes after liveStatus in the array asks for
\* confirmation.  The alert remembers the row; right only records whether the
\* phone showed what the database said.
TapRow(s) ==
    /\ opened["courier"] # None
    /\ asked = {}
    /\ Index[live["courier"]] < Index[s]
    /\ asked' = {[row |-> s, right |-> live["courier"] = status[opened["courier"]]]}
    /\ UNCHANGED <<status, awarded, listeners, told, live, opened>>

AnswerNo ==
    /\ asked # {}
    /\ asked' = {}
    /\ UNCHANGED <<status, awarded, listeners, told, live, opened>>

\* YES: changeState, then one more getStatus.
AnswerYes ==
    /\ \E a \in asked : SetStatus(opened["courier"], a.row)
    /\ asked' = {}
    /\ Attach("courier", Text[opened["courier"]], TRUE)
    /\ UNCHANGED <<awarded, told, live, opened>>

\* The app of a phone is killed and starts again with a new Order object.
Restart(d) ==
    /\ listeners' = {l \in listeners : l.on # d}
    /\ told' = [l \in DOMAIN told \cap listeners' |-> told[l]]
    /\ live' = [live EXCEPT ![d] = "assigned"]
    /\ opened' = [opened EXCEPT ![d] = None]
    /\ asked' = IF d = "courier" THEN {} ELSE asked
    /\ UNCHANGED <<status, awarded>>

-----------------------------------------------------------------------------
Init ==
    /\ status = [o \in Order |-> "have an offer"]
    /\ awarded = {}
    /\ listeners = {}
    /\ told = [l \in {} |-> <<>>]
    /\ live = [d \in Device |-> "assigned"]
    /\ opened = [d \in Device |-> None]
    /\ asked = {}

Next ==
    \/ \E d \in Device : CloseCard(d) \/ CancelOrder(d) \/ Restart(d)
    \/ \E d \in Device, o \in Order : OpenCard(d, o)
    \/ \E l \in listeners : Snapshot(l)
    \/ \E o \in Order : Accept(o)
    \/ \E s \in Rows : TapRow(s)
    \/ AnswerNo \/ AnswerYes

Spec == Init /\ [][Next]_vars

-----------------------------------------------------------------------------
TypeOK ==
    /\ status \in [Order -> Status]
    /\ awarded \subseteq Order
    /\ listeners \subseteq Listener
    /\ DOMAIN told \subseteq listeners
    /\ \A l \in DOMAIN told : DOMAIN told[l] \subseteq Order
    /\ live \in [Device -> Status]
    /\ opened \in [Device -> Order \cup {None}]
    /\ asked \subseteq [row : Rows, right : BOOLEAN]

\* Every listener of phone d has had its snapshots.
Settled(d) == \A l \in listeners : l.on = d => ~Behind(l)

\* A phone that has had its snapshots shows
\* the status some order it listens to has now, never one that was overtaken,
\* whatever the order in which its listeners were told (getStatus).
LiveIsReal ==
    \A d \in Device :
       LET mine == {l \in listeners : l.on = d} IN
       Settled(d) /\ mine # {} =>
          \E l \in mine : \E o \in Found(l) : status[o] = live[d]

\* A courier who was shown the true status when tapping a row moves the order
\* on in the array, whatever happened to the order while the alert was open
\* (the row tests of the card, changeState).
ForwardIfShownRight ==
    [][\A a \in asked \ asked' : LET o == opened["courier"] IN
          a.right /\ status'[o] # status[o] => Index[status'[o]] > Index[status[o]]]_vars
=============================================================================
