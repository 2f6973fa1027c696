------------------------------ MODULE Tracking ------------------------------
(***************************************************************************)
(* Where a member sees his courier: acceptOffer's document in Tracking,     *)
(* updateCourierLocation and getCourierLocation in classes.swift, the map   *)
(* of the courier's page (Newtracking) and the map of the member's page     *)
(* (MapViewTracking).                                                      *)
(*                                                                         *)
(* The courier's map writes the position it shows whenever SwiftUI updates *)
(* it: first when its page opens, when the new map knows no position yet.  *)
(* On the member's phone one global, riyadhCoordinatetracking, is written  *)
(* by every listener ever attached, and by the map of a courier who uses   *)
(* that phone while the member is logged out.  Each update of the member's *)
(* map adds a listener and a timer of five seconds; the timers never stop, *)
(* and each tick adds a listener for the courier of the card that is       *)
(* selected then.                                                          *)
(***************************************************************************)
EXTENDS Integers, Sequences, FiniteSets

CONSTANTS
    Courier,
    Guest,       \* those who log in on the member's phone while he is logged out
    MaxActs,     \* bounds the updates of couriers' maps and the accepted offers
    MaxOffers,   \* bounds the accepted offers of a courier
    MaxPlace,    \* bounds the places a courier comes to
    MaxAsked     \* bounds the updateCourierLocation calls of a courier in flight

ASSUME TrackingAssumption ==
    /\ Guest \subseteq Courier
    /\ MaxActs \in Nat /\ MaxOffers \in Nat /\ MaxPlace \in Nat \ {0} /\ MaxAsked \in Nat

VARIABLES
    acts,
    place,       \* place[c]: how often c has moved: his position
    page,        \* page[c]: he opened no page with a map, its map is blank, or it knows his place
    asked,       \* asked[c]: positions updateCourierLocation will write, once its query is answered
    docs,        \* docs[c]: the position in his document of Tracking
    accepts,     \* the offers of c that were accepted
    seen,        \* docs as the member's phone knows it
    told,        \* told[c]: what the listeners of c were told
    starting,    \* the couriers with a new listener that was told nothing yet
    riyadhCoordinatetracking,
    tracked,     \* the couriers whose page was opened on the member's phone
    selected,    \* the courier of the selected card, at most one
    open,        \* his page is on the screen
    guest,       \* the courier whose own page is on the member's phone, at most one
    lent,        \* the couriers who opened their own page on it
    point3       \* the courier's point on its map

couriers == <<acts, place, page, asked, docs, accepts>>
phone    == <<seen, told, starting>>
map      == <<tracked, selected, open, guest, lent>>
vars     == <<couriers, phone, riyadhCoordinatetracking, map, point3>>

-----------------------------------------------------------------------------
absent  == -1               \* no document
unknown == 0                \* the coordinates of a map that has no position
Position == 1 .. MaxPlace
Nowhere == [of |-> {}, at |-> unknown]     \* CLLocationCoordinate2D()
At(c, p) == [of |-> {c}, at |-> p]

Due(c) == c \in DOMAIN told /\ told[c] # seen[c]
AllReported == \A c \in DOMAIN told : ~Due(c)

Act == acts < MaxActs /\ acts' = acts + 1

Init ==
    /\ acts = 0
    /\ place = [c \in Courier |-> 1]
    /\ page = [c \in Courier |-> "none"]
    /\ asked = [c \in Courier |-> <<>>]
    /\ docs = [c \in Courier |-> absent] /\ seen = docs
    /\ accepts = [c \in Courier |-> 0]
    /\ told = [c \in {} |-> absent] /\ starting = {}
    /\ riyadhCoordinatetracking = Nowhere
    /\ tracked = {} /\ selected = {} /\ open = FALSE
    /\ guest = {} /\ lent = {}
    /\ point3 = Nowhere

-----------------------------------------------------------------------------
(* The couriers.                                                           *)

Move(c) ==
    /\ place[c] < MaxPlace
    /\ place' = [place EXCEPT ![c] = @ + 1]
    /\ UNCHANGED <<acts, page, asked, docs, accepts, phone, riyadhCoordinatetracking, map, point3>>

\* updateUIView of Newtracking, for a map that knows its position or not, on the
\* member's phone or another: the global of the phone is the position that the
\* query will write.
Ask(here, c, how) ==
    LET p == IF how = "located" THEN place[c] ELSE unknown IN
    /\ Act
    /\ Len(asked[c]) < MaxAsked
    /\ page' = [page EXCEPT ![c] = how]
    /\ asked' = [asked EXCEPT ![c] = Append(@, p)]
    /\ riyadhCoordinatetracking' = IF here THEN At(c, p) ELSE riyadhCoordinatetracking
    /\ UNCHANGED <<place, docs, accepts, phone, tracked, selected, open, point3>>

\* His page appears with a new map, on the phone he is using; on the member's
\* when nobody else is logged in.
OpenPage(here, c) ==
    /\ accepts[c] > 0
    /\ here => ~open /\ c \in Guest
    /\ guest' = IF here THEN {c} ELSE guest \ {c}
    /\ lent' = IF here THEN lent \cup {c} ELSE lent
    /\ Ask(here, c, "blank")

\* SwiftUI updates the map he has.
UpdateView(c) ==
    /\ page[c] # "none"
    /\ Ask(c \in guest, c, page[c])
    /\ UNCHANGED <<guest, lent>>

\* The map learns where the phone is; no update follows from that.
Locate(c) ==
    /\ page[c] = "blank"
    /\ page' = [page EXCEPT ![c] = "located"]
    /\ UNCHANGED <<acts, place, asked, docs, accepts, phone, riyadhCoordinatetracking, map, point3>>

\* The documents as the phone knows them, once p was written for c: at once if
\* it was written there.
Known(here, c, p) ==
    /\ here => AllReported
    /\ seen' = IF here THEN [seen EXCEPT ![c] = p] ELSE seen

\* Mutant: of two queries in flight the later is answered first.
StoreLast(here, c) ==
    LET n == Len(asked[c])
        p == IF docs[c] = absent THEN absent ELSE asked[c][n] IN
    /\ n > 0
    /\ asked' = [asked EXCEPT ![c] = SubSeq(@, 1, n - 1)]
    /\ docs' = [docs EXCEPT ![c] = p]
    /\ here => c \in lent
    /\ Known(here, c, p)
    /\ UNCHANGED <<acts, place, page, accepts, told, starting, riyadhCoordinatetracking, map, point3>>

\* The callback of updateCourierLocation's query writes the documents found, on
\* the phone that asked.
Store(here, c) ==
    LET p == IF docs[c] = absent THEN absent ELSE Head(asked[c]) IN
    /\ asked[c] # <<>>
    /\ asked' = [asked EXCEPT ![c] = Tail(@)]
    /\ docs' = [docs EXCEPT ![c] = p]
    /\ here => c \in lent
    /\ Known(here, c, p)
    /\ UNCHANGED <<acts, place, page, accepts, told, starting, riyadhCoordinatetracking, map, point3>>

\* acceptOffer by this member or by another writes where the courier was when
\* he made the offer.
Accept(here, c, p) ==
    /\ Act
    /\ p \in 1 .. place[c]
    /\ accepts[c] < MaxOffers
    /\ accepts' = [accepts EXCEPT ![c] = @ + 1]
    /\ docs' = [docs EXCEPT ![c] = p]
    /\ here => guest = {}
    /\ Known(here, c, p)
    /\ UNCHANGED <<place, page, asked, told, starting, riyadhCoordinatetracking, map, point3>>

-----------------------------------------------------------------------------
(* The member's phone.                                                     *)

getCourierLocation(C) == starting' = starting \cup C

\* updateUIView of MapViewTracking; the first on a page is makeUIView's and
\* onAppear's as well.
Draw(C) ==
    /\ point3' = riyadhCoordinatetracking
    /\ getCourierLocation(C)
    /\ UNCHANGED <<acts, place, asked, docs, accepts, seen, told, riyadhCoordinatetracking>>

\* The page of an order that c delivers; a courier who had the phone logged out.
Show(c) ==
    /\ ~open /\ accepts[c] > 0
    /\ open' = TRUE /\ selected' = {c} /\ tracked' = tracked \cup {c}
    /\ guest' = {}
    /\ page' = [k \in Courier |-> IF k \in guest THEN "none" ELSE page[k]]
    /\ UNCHANGED lent
    /\ Draw({c})

Redraw == open /\ Draw(selected) /\ UNCHANGED <<page, map>>

Hide ==
    /\ open
    /\ open' = FALSE
    /\ UNCHANGED <<couriers, phone, riyadhCoordinatetracking, tracked, selected, guest, lent, point3>>

\* Mutant: a tick only moves the point.
TickOnlyMoves ==
    /\ open
    /\ point3' = riyadhCoordinatetracking
    /\ UNCHANGED <<couriers, phone, riyadhCoordinatetracking, map>>

\* A timer of the page on the screen.
Tick ==
    /\ open
    /\ getCourierLocation(selected)
    /\ point3' = riyadhCoordinatetracking
    /\ UNCHANGED <<couriers, seen, told, riyadhCoordinatetracking, map>>

\* A timer of a page that was left: its point is on no map any more.
LateTick ==
    /\ tracked # {}
    /\ getCourierLocation(selected)
    /\ UNCHANGED <<couriers, seen, told, riyadhCoordinatetracking, map, point3>>

\* Mutant: the listener hears of every courier's document.
ReportAnyone(c) ==
    /\ Due(c) \/ c \in starting
    /\ told' = [k \in DOMAIN told \cup {c} |-> IF k = c THEN seen[c] ELSE told[k]]
    /\ starting' = IF Due(c) THEN starting ELSE starting \ {c}
    /\ \E k \in {k \in Courier : seen[k] # absent} : riyadhCoordinatetracking' = At(k, seen[k])
    /\ UNCHANGED <<couriers, seen, map, point3>>

\* A snapshot: the present listeners hear of a change, or new ones for the
\* first time, and write the position of the document if there is one.
Report(c) ==
    /\ Due(c) \/ c \in starting
    /\ told' = [k \in DOMAIN told \cup {c} |-> IF k = c THEN seen[c] ELSE told[k]]
    /\ starting' = IF Due(c) THEN starting ELSE starting \ {c}
    /\ riyadhCoordinatetracking' =
          IF seen[c] = absent THEN riyadhCoordinatetracking ELSE At(c, seen[c])
    /\ UNCHANGED <<couriers, seen, map, point3>>

CatchUp ==
    /\ AllReported
    /\ seen # docs
    /\ seen' = docs
    /\ UNCHANGED <<couriers, told, starting, riyadhCoordinatetracking, map, point3>>

-----------------------------------------------------------------------------
Next ==
    \/ Redraw \/ Hide \/ Tick \/ LateTick \/ CatchUp
    \/ \E c \in Courier :
          \/ Move(c) \/ UpdateView(c) \/ Locate(c) \/ Show(c) \/ Report(c)
          \/ \E here \in BOOLEAN :
                \/ OpenPage(here, c) \/ Store(here, c)
                \/ \E p \in Position : Accept(here, c, p)

\* The network works, the main queue runs what is in it, and the timer of the
\* page on the screen goes on.
Fairness ==
    /\ WF_vars(CatchUp) /\ WF_vars(Tick)
    /\ \A c \in Courier : WF_vars(\E here \in BOOLEAN : Store(here, c)) /\ WF_vars(Report(c))

Spec == Init /\ [][Next]_vars /\ Fairness

-----------------------------------------------------------------------------
Stored == {absent, unknown} \cup Position
Points == [of : {{c} : c \in Courier}, at : {unknown} \cup Position] \cup {Nowhere}

TypeOK ==
    /\ acts \in 0..MaxActs
    /\ place \in [Courier -> Position] /\ page \in [Courier -> {"none", "blank", "located"}]
    /\ asked \in [Courier -> Seq({unknown} \cup Position)]
    /\ docs \in [Courier -> Stored] /\ seen \in [Courier -> Stored]
    /\ accepts \in [Courier -> 0..MaxOffers]
    /\ DOMAIN told \subseteq Courier /\ \A c \in DOMAIN told : told[c] \in Stored
    /\ starting \subseteq Courier /\ tracked \subseteq Courier
    /\ selected \subseteq Courier /\ Cardinality(selected) <= 1 /\ open \in BOOLEAN
    /\ guest \subseteq lent /\ (\A k, l \in guest : k = l) /\ lent \subseteq Courier
    /\ riyadhCoordinatetracking \in Points /\ point3 \in Points

\* The point on the member's map is where a courier whose page he opened has
\* been, or one who used the phone himself, or it has the coordinates of no
\* place: although the global outlives every page and login, and a courier who
\* logged in on the phone may be on the map of another's order, of any other
\* courier it shows nothing (getCourierLocation, updateUIView of Newtracking).
PointWasTracked ==
    \A c \in Courier : c \in point3.of => c \in tracked \cup lent /\ point3.at <= place[c]

\* While a courier had one offer accepted his document never goes back to a
\* place he left, and loses his position only to a map that had none yet,
\* however his updates overtake the answers to their queries.  A second offer
\* brings its own, older, position.
NoWayBack ==
    [][\A c \in Courier :
          docs'[c] < docs[c] => docs'[c] = unknown \/ accepts'[c] > 1]_vars

\* When a page stays open the point on it comes to the last position written
\* for its courier and stays there.  Old listeners may put another courier
\* there for a while; the timers' new listeners correct it.
MapFollows ==
    \A c \in Courier :
        <>[](open /\ selected = {c}) => <>[](point3 = At(c, docs[c]))
=============================================================================
