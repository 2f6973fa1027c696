---------------------------- MODULE Tracking_proofs ----------------------------
(***************************************************************************)
(* Proofs about Tracking: typing, that the point on the member's map is    *)
(* where a courier he followed, or who used his phone, has been, and that a *)
(* document does not go back, for any couriers, places and numbers of updates in flight.        *)
(***************************************************************************)
EXTENDS Tracking, FiniteSetTheorems, TLAPS

\* What is written down, or about to be, is a place its courier has been at.
Been ==
    \A c \in Courier :
       /\ docs[c] <= place[c] /\ seen[c] <= place[c]
       /\ \A i \in 1 .. Len(asked[c]) : asked[c][i] <= place[c]

\* Listeners are about couriers that were followed, and the global they write
\* about those or couriers who used the phone.
Followed ==
    /\ starting \subseteq tracked /\ selected \subseteq tracked /\ DOMAIN told \subseteq tracked
    /\ \A c \in Courier : c \in riyadhCoordinatetracking.of =>
          c \in tracked \cup lent /\ riyadhCoordinatetracking.at <= place[c]

\* A courier has a document and opens his map once an offer of his was
\* accepted.  While no second one was, the positions on their way come in the
\* order he was there, none is older than the one in his document, and the rest
\* have no position.
InOrder ==
    \A c \in Courier :
       /\ accepts[c] = 0 => asked[c] = <<>> /\ page[c] = "none" /\ docs[c] = absent
       /\ accepts[c] <= 1 =>
             /\ \A i \in 1 .. Len(asked[c]) : asked[c][i] = unknown \/ docs[c] <= asked[c][i]
             /\ \A i, j \in 1 .. Len(asked[c]) :
                   i < j => asked[c][j] = unknown \/ asked[c][i] <= asked[c][j]

TrackingInv == TypeOK /\ Been /\ Followed /\ PointWasTracked /\ InOrder

-----------------------------------------------------------------------------
LEMMA Numbers ==
    /\ Position \subseteq Nat \ {0} /\ 1 \in Position
    /\ Stored \subseteq Int /\ \A p \in Stored : p = absent \/ p = unknown \/ p \in Position
    /\ Position \subseteq Stored /\ absent \in Stored /\ unknown \in Stored
    /\ \A p \in {unknown} \cup Position : p \in Nat /\ p \in Stored
    /\ absent = -1 /\ unknown = 0
BY TrackingAssumption DEF Position, Stored, absent, unknown

LEMMA AtMostOne ==
    /\ Cardinality({}) <= 1
    /\ \A c : Cardinality({c}) <= 1
BY FS_EmptySet, FS_Singleton

\* The collection of requests in flight with one more, or without its first.
LEMMA Queues ==
    ASSUME NEW S, NEW s \in Seq(S), NEW e \in S
    PROVE  /\ Append(s, e) \in Seq(S) /\ Len(Append(s, e)) = Len(s) + 1
           /\ Append(s, e)[Len(s) + 1] = e
           /\ \A i \in 1 .. Len(s) : Append(s, e)[i] = s[i] /\ s[i] \in S
           /\ s # <<>> =>
                 /\ Tail(s) \in Seq(S) /\ Len(Tail(s)) = Len(s) - 1 /\ Len(s) \in Nat \ {0}
                 /\ Head(s) = s[1] /\ s[1] \in S
                 /\ \A i \in 1 .. Len(s) - 1 : Tail(s)[i] = s[i + 1]
OBVIOUS

LEMMA PointsOf ==
    /\ Nowhere \in Points /\ Nowhere.of = {} /\ Nowhere.at = unknown
    /\ \A c \in Courier, p \in {unknown} \cup Position :
          At(c, p) \in Points /\ At(c, p).of = {c} /\ At(c, p).at = p
    /\ \A q \in Points : q.at \in {unknown} \cup Position
BY DEF Points, Nowhere, At

-----------------------------------------------------------------------------
LEMMA TrackingInit == Init => TrackingInv
<1> SUFFICES ASSUME Init PROVE TrackingInv
  OBVIOUS
<1> USE DEF Init
<1>1. TypeOK
  <2>1. /\ acts \in 0..MaxActs
        /\ place \in [Courier -> Position] /\ page \in [Courier -> {"none", "blank", "located"}]
        /\ asked \in [Courier -> Seq({unknown} \cup Position)]
        /\ accepts \in [Courier -> 0..MaxOffers]
    BY Numbers, TrackingAssumption
  <2>2. docs \in [Courier -> Stored] /\ seen \in [Courier -> Stored]
    BY Numbers
  <2>3. DOMAIN told = {} /\ starting = {} /\ tracked = {} /\ open \in BOOLEAN
    OBVIOUS
  <2>4. /\ selected \subseteq Courier /\ Cardinality(selected) <= 1
        /\ guest \subseteq lent /\ (\A k, l \in guest : k = l) /\ lent \subseteq Courier
    BY AtMostOne
  <2> QED
    BY <2>1, <2>2, <2>3, <2>4, PointsOf DEF TypeOK
<1>2. Been
  BY Numbers DEF Been
<1>3. Followed /\ PointWasTracked
  BY PointsOf DEF Followed, PointWasTracked
<1>4. InOrder
  BY DEF InOrder
<1> QED
  BY <1>1, <1>2, <1>3, <1>4 DEF TrackingInv

-----------------------------------------------------------------------------
\* A page that asks: its map's place, or none, comes last, and becomes the
\* global of the member's phone if the courier uses that.
LEMMA AskStep ==
    ASSUME TrackingInv, NEW here \in BOOLEAN, NEW c \in Courier,
           NEW how \in {"blank", "located"}, Ask(here, c, how), accepts[c] > 0,
           guest' \subseteq lent', (\A k, l \in guest' : k = l), lent' \subseteq Courier,
           lent \subseteq lent', here => c \in lent'
    PROVE  TrackingInv'
<1> DEFINE e == IF how = "located" THEN place[c] ELSE unknown
<1> USE DEF TrackingInv
<1>1. /\ acts' = acts + 1 /\ acts < MaxActs
      /\ page' = [page EXCEPT ![c] = how]
      /\ asked' = [asked EXCEPT ![c] = Append(@, e)]
      /\ riyadhCoordinatetracking' = IF here THEN At(c, e) ELSE riyadhCoordinatetracking
      /\ UNCHANGED <<place, docs, accepts, seen, told, starting, tracked, selected, open, point3>>
  BY DEF Ask, Act, phone
<1>2. e \in {unknown} \cup Position /\ e \in Int /\ e <= place[c] /\ place[c] \in Position
  <2>1. place[c] \in Position /\ place[c] \in Nat \ {0}
    BY Numbers DEF TypeOK
  <2>2. CASE how = "located"
    BY <2>1, <2>2
  <2>3. CASE how # "located"
    BY <2>1, <2>3, Numbers
  <2> QED
    BY <2>2, <2>3
<1>3. /\ asked'[c] = Append(asked[c], e)
      /\ \A k \in Courier : k # c => asked'[k] = asked[k] /\ page'[k] = page[k]
      /\ asked[c] \in Seq({unknown} \cup Position)
  BY <1>1 DEF TypeOK
<1>4. TypeOK'
  <2>1. acts' \in 0..MaxActs
    BY <1>1, TrackingAssumption DEF TypeOK
  <2>2. page' \in [Courier -> {"none", "blank", "located"}]
    BY <1>1 DEF TypeOK
  <2>3. asked' \in [Courier -> Seq({unknown} \cup Position)]
    BY <1>1, <1>2, <1>3, Queues DEF TypeOK
  <2>4. riyadhCoordinatetracking' \in Points
    BY <1>1, <1>2, PointsOf DEF TypeOK
  <2> QED
    BY <1>1, <2>1, <2>2, <2>3, <2>4 DEF TypeOK, Stored, Points
<1>5. Been'
  <2>1. \A i \in 1 .. Len(asked'[c]) : asked'[c][i] <= place[c]
    BY <1>2, <1>3, Queues DEF Been
  <2> QED
    BY <1>1, <1>3, <2>1 DEF Been
<1>6. Followed' /\ PointWasTracked'
  <2>1. At(c, e).of = {c} /\ At(c, e).at = e
    BY <1>2, PointsOf
  <2>2. ASSUME NEW k \in Courier, k \in riyadhCoordinatetracking'.of
        PROVE  k \in tracked' \cup lent' /\ riyadhCoordinatetracking'.at <= place'[k]
    <3>1. CASE here
      BY <1>1, <1>2, <2>1, <2>2, <3>1
    <3>2. CASE ~here
      BY <1>1, <2>2, <3>2 DEF Followed
    <3> QED
      BY <3>1, <3>2
  <2> QED
    BY <1>1, <2>2 DEF Followed, PointWasTracked
<1>7. InOrder'
  <2>1. \A k \in Courier : k # c =>
           asked'[k] = asked[k] /\ page'[k] = page[k] /\ accepts'[k] = accepts[k] /\ docs'[k] = docs[k]
    BY <1>1, <1>3
  <2>2. \A i \in 1 .. Len(asked'[c]) : i = Len(asked[c]) + 1 \/ i \in 1 .. Len(asked[c])
    BY <1>2, <1>3, Queues
  <2>3. ASSUME accepts[c] <= 1
        PROVE  /\ \A i \in 1 .. Len(asked'[c]) :
                     asked'[c][i] = unknown \/ docs[c] <= asked'[c][i]
               /\ \A i, j \in 1 .. Len(asked'[c]) :
                     i < j => asked'[c][j] = unknown \/ asked'[c][i] <= asked'[c][j]
    <3>1. /\ \A i \in 1 .. Len(asked[c]) : asked'[c][i] = asked[c][i] /\ asked[c][i] <= place[c]
          /\ asked'[c][Len(asked[c]) + 1] = e /\ Len(asked[c]) \in Nat
          /\ e = unknown \/ e = place[c]
      BY <1>2, <1>3, Queues DEF Been
    <3>2. docs[c] <= place[c]
      BY DEF Been
    <3>3. \A i \in 1 .. Len(asked'[c]) : asked'[c][i] = unknown \/ docs[c] <= asked'[c][i]
      BY <2>2, <2>3, <3>1, <3>2 DEF InOrder
    <3>4. \A i, j \in 1 .. Len(asked'[c]) :
             i < j => asked'[c][j] = unknown \/ asked'[c][i] <= asked'[c][j]
      <4> SUFFICES ASSUME NEW i \in 1 .. Len(asked'[c]), NEW j \in 1 .. Len(asked'[c]), i < j
                   PROVE  asked'[c][j] = unknown \/ asked'[c][i] <= asked'[c][j]
        OBVIOUS
      <4>1. i \in 1 .. Len(asked[c])
        BY <2>2, <3>1
      <4>2. CASE j = Len(asked[c]) + 1
        BY <3>1, <4>1, <4>2
      <4>3. CASE j \in 1 .. Len(asked[c])
        BY <2>3, <3>1, <4>1, <4>3 DEF InOrder
      <4> QED
        BY <2>2, <4>2, <4>3
    <3> QED
      BY <3>3, <3>4
  <2> QED
    BY <1>1, <2>1, <2>3 DEF InOrder
<1> QED
  BY <1>4, <1>5, <1>6, <1>7

\* A courier goes on: what was written is still a place he has been at.
LEMMA MoveStep ==
    ASSUME TrackingInv, NEW c \in Courier, Move(c)
    PROVE  TrackingInv'
<1> USE DEF TrackingInv
<1>1. /\ place[c] < MaxPlace
      /\ place' = [place EXCEPT ![c] = @ + 1]
      /\ UNCHANGED <<acts, page, asked, docs, accepts, seen, told, starting,
                     riyadhCoordinatetracking, tracked, selected, open, guest, lent, point3>>
  BY DEF Move, phone, map
<1>2. place \in [Courier -> Position] /\ \A k \in Courier : place[k] \in Nat \ {0}
  BY Numbers DEF TypeOK
<1>3. \A k \in Courier : place'[k] = IF k = c THEN place[c] + 1 ELSE place[k]
  BY <1>1, <1>2
<1>4. \A k \in Courier : place[k] <= place'[k] /\ place'[k] \in Nat \ {0}
  BY <1>2, <1>3
<1>5. TypeOK'
  <2>1. place' \in [Courier -> Position]
    <3>1. place[c] + 1 \in Position
      BY <1>1, <1>2, TrackingAssumption DEF Position
    <3> QED
      BY <1>1, <1>2, <3>1
  <2> QED
    BY <1>1, <2>1 DEF TypeOK, Points, Stored
<1>6. Been'
  <2>1. ASSUME NEW k \in Courier
        PROVE  /\ docs'[k] <= place'[k] /\ seen'[k] <= place'[k]
               /\ \A i \in 1 .. Len(asked'[k]) : asked'[k][i] <= place'[k]
    <3>1. docs[k] \in Int /\ seen[k] \in Int
      BY Numbers DEF TypeOK
    <3>2. \A i \in 1 .. Len(asked[k]) : asked[k][i] \in Int
      <4>1. asked[k] \in Seq({unknown} \cup Position)
        BY DEF TypeOK
      <4>2. \A i \in 1 .. Len(asked[k]) : asked[k][i] \in {unknown} \cup Position
        BY <4>1
      <4> QED
        BY <4>2, Numbers
    <3> QED
      BY <1>1, <1>2, <1>4, <3>1, <3>2 DEF Been
  <2> QED
    BY <2>1 DEF Been
<1>7. Followed' /\ PointWasTracked'
  <2>1. riyadhCoordinatetracking.at \in Int /\ point3.at \in Int
    BY Numbers, PointsOf DEF TypeOK
  <2>2. \A k \in Courier : k \in riyadhCoordinatetracking.of =>
           k \in tracked \cup lent /\ riyadhCoordinatetracking.at <= place'[k]
    BY <1>2, <1>4, <2>1 DEF Followed
  <2>3. \A k \in Courier : k \in point3.of => k \in tracked \cup lent /\ point3.at <= place'[k]
    BY <1>2, <1>4, <2>1 DEF PointWasTracked
  <2> QED
    BY <1>1, <2>2, <2>3 DEF Followed, PointWasTracked
<1>8. InOrder'
  BY <1>1 DEF InOrder
<1> QED
  BY <1>5, <1>6, <1>7, <1>8

\* The map of a courier finds him: no update follows.
LEMMA LocateStep ==
    ASSUME TrackingInv, NEW c \in Courier, Locate(c)
    PROVE  TrackingInv'
<1> USE DEF TrackingInv
<1>1. /\ page' = [page EXCEPT ![c] = "located"] /\ page[c] = "blank"
      /\ UNCHANGED <<acts, place, asked, docs, accepts, seen, told, starting,
                     riyadhCoordinatetracking, tracked, selected, open, guest, lent, point3>>
  BY DEF Locate, phone, map
<1>2. TypeOK'
  BY <1>1 DEF TypeOK, Points, Stored
<1>3. Been' /\ Followed' /\ PointWasTracked'
  BY <1>1 DEF Been, Followed, PointWasTracked
<1>4. InOrder'
  <2>1. \A k \in Courier : page'[k] = page[k] \/ accepts[k] # 0
    BY <1>1 DEF TypeOK, InOrder
  <2> QED
    BY <1>1, <2>1 DEF InOrder
<1> QED
  BY <1>2, <1>3, <1>4

\* The first position on its way is written over a document that is there; it
\* is none, or not older, while one offer was accepted.
LEMMA StoreStep ==
    ASSUME TrackingInv, NEW here \in BOOLEAN, NEW c \in Courier, Store(here, c)
    PROVE  /\ TrackingInv'
           /\ \A k \in Courier :
                 docs'[k] < docs[k] => docs'[k] = unknown \/ accepts'[k] > 1
<1> USE DEF TrackingInv
<1>1. /\ asked[c] # <<>> /\ asked' = [asked EXCEPT ![c] = Tail(@)]
      /\ docs' = [docs EXCEPT ![c] = IF docs[c] = absent THEN absent ELSE Head(asked[c])]
      /\ seen' = IF here THEN [seen EXCEPT ![c] = IF docs[c] = absent THEN absent ELSE Head(asked[c])]
                 ELSE seen
      /\ UNCHANGED <<acts, place, page, accepts, told, starting,
                     riyadhCoordinatetracking, tracked, selected, open, guest, lent, point3>>
  BY DEF Store, Known, map
<1>2. asked[c] \in Seq({unknown} \cup Position) /\ docs[c] \in Stored /\ docs[c] \in Int
  BY Numbers DEF TypeOK
<1>3. /\ asked'[c] = Tail(asked[c])
      /\ docs'[c] = IF docs[c] = absent THEN absent ELSE asked[c][1]
      /\ seen'[c] \in {seen[c], docs'[c]}
      /\ \A k \in Courier :
            k # c => asked'[k] = asked[k] /\ docs'[k] = docs[k] /\ seen'[k] = seen[k]
  <2>1. Head(asked[c]) = asked[c][1]
    BY <1>1, <1>2, Queues
  <2> QED
    BY <1>1, <2>1 DEF TypeOK
<1>4. /\ Tail(asked[c]) \in Seq({unknown} \cup Position)
      /\ Len(Tail(asked[c])) = Len(asked[c]) - 1 /\ Len(asked[c]) \in Nat \ {0}
      /\ asked[c][1] \in {unknown} \cup Position
      /\ \A i \in 1 .. Len(asked[c]) - 1 : Tail(asked[c])[i] = asked[c][i + 1]
  <2>1. unknown \in {unknown} \cup Position
    OBVIOUS
  <2> QED
    BY <1>1, <1>2, <2>1, Queues
<1>5. /\ asked[c][1] \in Int /\ asked[c][1] >= 0 /\ asked[c][1] \in Stored
      /\ asked[c][1] <= place[c] /\ place[c] \in Int
  <2>1. 1 \in 1 .. Len(asked[c])
    BY <1>4
  <2>2. asked[c][1] <= place[c]
    BY <2>1 DEF Been
  <2>3. place[c] \in Int
    BY Numbers DEF TypeOK
  <2>4. asked[c][1] \in Nat /\ asked[c][1] \in Stored
    BY <1>4, Numbers
  <2> QED
    BY <2>2, <2>3, <2>4
<1>6. docs'[c] \in Stored /\ docs'[c] <= place[c]
  BY <1>2, <1>3, <1>5, Numbers DEF Been
<1>7. TypeOK'
  <2>1. asked' \in [Courier -> Seq({unknown} \cup Position)]
    BY <1>1, <1>4 DEF TypeOK
  <2>2. docs' \in [Courier -> Stored]
    <3>1. DOMAIN docs' = Courier /\ docs' = [k \in Courier |-> docs'[k]]
      BY <1>1 DEF TypeOK
    <3>2. \A k \in Courier : docs'[k] \in Stored
      BY <1>3, <1>6 DEF TypeOK
    <3> QED
      BY <3>1, <3>2
  <2>3. seen' \in [Courier -> Stored]
    <3>1. DOMAIN seen' = Courier /\ seen' = [k \in Courier |-> seen'[k]]
      BY <1>1 DEF TypeOK
    <3>2. \A k \in Courier : seen'[k] \in Stored
      BY <1>3, <1>6 DEF TypeOK
    <3> QED
      BY <3>1, <3>2
  <2> QED
    BY <1>1, <2>1, <2>2, <2>3 DEF TypeOK, Points, Stored
<1>8. Been'
  <2>1. \A i \in 1 .. Len(asked'[c]) : asked'[c][i] <= place[c]
    <3> SUFFICES ASSUME NEW i \in 1 .. Len(asked'[c]) PROVE asked'[c][i] <= place[c]
      OBVIOUS
    <3>1. i + 1 \in 1 .. Len(asked[c]) /\ asked'[c][i] = asked[c][i + 1]
      BY <1>3, <1>4
    <3> QED
      BY <3>1 DEF Been
  <2> QED
    BY <1>1, <1>3, <1>6, <2>1 DEF Been
<1>9. Followed' /\ PointWasTracked'
  BY <1>1 DEF Followed, PointWasTracked
<1>10. accepts[c] # 0
  BY <1>1 DEF InOrder
<1>11. ASSUME accepts[c] <= 1
       PROVE  /\ docs[c] = absent \/ docs'[c] = unknown \/ docs[c] <= docs'[c]
              /\ \A i \in 1 .. Len(asked'[c]) :
                    asked'[c][i] = unknown \/ docs'[c] <= asked'[c][i]
              /\ \A i, j \in 1 .. Len(asked'[c]) :
                    i < j => asked'[c][j] = unknown \/ asked'[c][i] <= asked'[c][j]
  <2>1. 1 \in 1 .. Len(asked[c])
    BY <1>4
  <2>2. docs[c] = absent \/ docs'[c] = unknown \/ docs[c] <= docs'[c]
    BY <1>3, <1>11, <2>1 DEF InOrder
  <2>3. ASSUME NEW i \in 1 .. Len(asked'[c])
        PROVE  i + 1 \in 1 .. Len(asked[c]) /\ 1 < i + 1 /\ asked'[c][i] = asked[c][i + 1]
    BY <1>3, <1>4
  <2>4. ASSUME NEW i \in 1 .. Len(asked'[c])
        PROVE  asked'[c][i] = unknown \/ docs'[c] <= asked'[c][i]
    <3>1. i + 1 \in 1 .. Len(asked[c]) /\ 1 < i + 1 /\ asked'[c][i] = asked[c][i + 1]
      BY <2>3
    <3>2. asked[c][i + 1] = unknown
             \/ (docs[c] <= asked[c][i + 1] /\ asked[c][1] <= asked[c][i + 1])
      <4>1. asked[c][i + 1] = unknown \/ docs[c] <= asked[c][i + 1]
        BY <1>11, <3>1 DEF InOrder
      <4>2. asked[c][i + 1] = unknown \/ asked[c][1] <= asked[c][i + 1]
        BY <1>11, <2>1, <3>1 DEF InOrder
      <4> QED
        BY <4>1, <4>2
    <3> QED
      BY <1>3, <3>1, <3>2
  <2>5. ASSUME NEW i \in 1 .. Len(asked'[c]), NEW j \in 1 .. Len(asked'[c]), i < j
        PROVE  asked'[c][j] = unknown \/ asked'[c][i] <= asked'[c][j]
    <3>1. /\ i + 1 \in 1 .. Len(asked[c]) /\ asked'[c][i] = asked[c][i + 1]
          /\ j + 1 \in 1 .. Len(asked[c]) /\ asked'[c][j] = asked[c][j + 1]
      BY <2>3
    <3>2. i + 1 < j + 1
      BY <1>4, <2>5, <3>1
    <3> QED
      BY <1>11, <3>1, <3>2 DEF InOrder
  <2> QED
    BY <2>2, <2>4, <2>5
<1>12. InOrder'
  BY <1>1, <1>3, <1>10, <1>11 DEF InOrder
<1>13. ASSUME NEW k \in Courier, docs'[k] < docs[k]
       PROVE  docs'[k] = unknown \/ accepts'[k] > 1
  <2>1. docs[k] \in Int
    BY Numbers DEF TypeOK
  <2>2. k = c
    BY <1>3, <1>13, <2>1
  <2>3. docs[c] # absent
    BY <1>2, <1>3, <1>13, <2>2
  <2>4. docs'[c] \in Int /\ accepts[c] \in Int
    <3>1. accepts[c] \in 0..MaxOffers
      BY DEF TypeOK
    <3>2. accepts[c] \in Int
      BY <3>1, TrackingAssumption
    <3>3. docs'[c] \in Int
      BY <1>6, Numbers
    <3> QED
      BY <3>2, <3>3
  <2>5. CASE accepts[c] <= 1
    BY <1>2, <1>11, <1>13, <2>2, <2>3, <2>4, <2>5
  <2>6. CASE ~(accepts[c] <= 1)
    BY <1>1, <2>2, <2>4, <2>6
  <2> QED
    BY <2>5, <2>6
<1> QED
  BY <1>7, <1>8, <1>9, <1>12, <1>13

\* acceptOffer: the first offer of a courier finds no document and nothing on
\* its way.
LEMMA AcceptStep ==
    ASSUME TrackingInv, NEW here \in BOOLEAN, NEW c \in Courier, NEW p \in Position,
           Accept(here, c, p)
    PROVE  /\ TrackingInv'
           /\ \A k \in Courier :
                 docs'[k] < docs[k] => docs'[k] = unknown \/ accepts'[k] > 1
<1> USE DEF TrackingInv
<1>1. /\ acts' = acts + 1 /\ acts < MaxActs
      /\ p \in 1 .. place[c] /\ accepts[c] < MaxOffers
      /\ accepts' = [accepts EXCEPT ![c] = @ + 1]
      /\ docs' = [docs EXCEPT ![c] = p]
      /\ seen' = IF here THEN [seen EXCEPT ![c] = p] ELSE seen
      /\ UNCHANGED <<place, page, asked, told, starting, riyadhCoordinatetracking,
                     tracked, selected, open, guest, lent, point3>>
  BY DEF Accept, Known, Act, map
<1>2. /\ p \in Stored /\ p \in Nat \ {0}
      /\ place[c] \in Nat /\ p <= place[c]
  <2>1. p \in Stored /\ p \in Nat \ {0}
    BY Numbers
  <2>2. place[c] \in Nat
    BY Numbers DEF TypeOK
  <2> QED
    BY <1>1, <2>1, <2>2
<1>3. accepts[c] \in Nat
  <2>1. accepts[c] \in 0..MaxOffers
    BY DEF TypeOK
  <2> QED
    BY <2>1, TrackingAssumption
<1>4. /\ accepts'[c] = accepts[c] + 1 /\ docs'[c] = p /\ seen'[c] \in {p, seen[c]}
      /\ \A k \in Courier :
            k # c => accepts'[k] = accepts[k] /\ docs'[k] = docs[k] /\ seen'[k] = seen[k]
  BY <1>1 DEF TypeOK
<1>5. TypeOK'
  <2>1. acts' \in 0..MaxActs
    BY <1>1, TrackingAssumption DEF TypeOK
  <2>2. accepts' \in [Courier -> 0..MaxOffers]
    <3>1. accepts[c] + 1 \in 0..MaxOffers
      BY <1>1, <1>3, TrackingAssumption
    <3> QED
      BY <1>1, <3>1 DEF TypeOK
  <2>3. docs' \in [Courier -> Stored] /\ seen' \in [Courier -> Stored]
    BY <1>1, <1>2 DEF TypeOK
  <2> QED
    BY <1>1, <2>1, <2>2, <2>3 DEF TypeOK, Points, Stored
<1>6. Been'
  BY <1>1, <1>2, <1>4 DEF Been
<1>7. Followed' /\ PointWasTracked'
  BY <1>1 DEF Followed, PointWasTracked
<1>8. InOrder'
  <2>1. ASSUME accepts'[c] <= 1 PROVE Len(asked[c]) = 0
    BY <1>3, <1>4, <2>1 DEF InOrder
  <2>2. accepts'[c] # 0
    BY <1>3, <1>4
  <2>3. accepts'[c] <= 1 =>
           /\ \A i \in 1 .. Len(asked[c]) : asked[c][i] = unknown \/ docs'[c] <= asked[c][i]
           /\ \A i, j \in 1 .. Len(asked[c]) :
                 i < j => asked[c][j] = unknown \/ asked[c][i] <= asked[c][j]
    BY <2>1
  <2> QED
    BY <1>1, <1>4, <2>2, <2>3 DEF InOrder
<1>9. ASSUME NEW k \in Courier, docs'[k] < docs[k]
      PROVE  docs'[k] = unknown \/ accepts'[k] > 1
  <2>1. docs[k] \in Stored /\ docs[k] \in Int
    BY Numbers DEF TypeOK
  <2>2. k = c
    BY <1>4, <1>9, <2>1
  <2>3. accepts[c] # 0
    BY <1>2, <1>4, <1>9, <2>2, Numbers DEF InOrder
  <2> QED
    BY <1>3, <1>4, <2>2, <2>3
<1> QED
  BY <1>5, <1>6, <1>7, <1>8, <1>9

-----------------------------------------------------------------------------
\* What the steps of the member's page do: the point becomes the global or
\* stays, and the courier whose card is selected, who is followed from then on
\* if he was not, may get a new listener.
PageMoves ==
    /\ UNCHANGED <<acts, place, asked, docs, accepts, seen, told, riyadhCoordinatetracking, lent>>
    /\ guest' \in {guest, {}}
    /\ page' \in [Courier -> {"none", "blank", "located"}]
    /\ \A c \in Courier : page'[c] \in {page[c], "none"}
    /\ open' \in BOOLEAN
    /\ point3' \in {point3, riyadhCoordinatetracking}
    /\ \/ UNCHANGED <<selected, tracked>>
       \/ \E c \in Courier : selected' = {c} /\ tracked' = tracked \cup {c}
    /\ starting' \in {starting, starting \cup selected'}

LEMMA PageStep ==
    ASSUME TrackingInv, PageMoves
    PROVE  TrackingInv'
<1> USE DEF TrackingInv
<1>1. /\ UNCHANGED <<acts, place, asked, docs, accepts, seen, told,
                     riyadhCoordinatetracking, lent>>
      /\ page' \in [Courier -> {"none", "blank", "located"}]
      /\ \A c \in Courier : page'[c] \in {page[c], "none"}
      /\ point3' \in {point3, riyadhCoordinatetracking}
  BY DEF PageMoves
<1>2. /\ selected' \subseteq Courier /\ Cardinality(selected') <= 1
      /\ tracked' \subseteq Courier /\ tracked \subseteq tracked' /\ selected' \subseteq tracked'
  <2>1. CASE UNCHANGED <<selected, tracked>>
    BY <2>1 DEF TypeOK, Followed
  <2>2. ASSUME NEW c \in Courier, selected' = {c}, tracked' = tracked \cup {c} PROVE <1>2
    BY <2>2, AtMostOne DEF TypeOK
  <2> QED
    BY <2>1, <2>2 DEF PageMoves
<1>3. starting' \subseteq Courier /\ starting' \subseteq tracked'
  BY <1>2 DEF PageMoves, TypeOK, Followed
<1>4. TypeOK'
  <2>1. point3' \in Points
    BY <1>1 DEF TypeOK
  <2>2. open' \in BOOLEAN
    BY DEF PageMoves
  <2>3. guest' \subseteq lent' /\ (\A k, l \in guest' : k = l)
    BY <1>1 DEF PageMoves, TypeOK
  <2> QED
    BY <1>1, <1>2, <1>3, <2>1, <2>2, <2>3 DEF TypeOK, Points, Stored
<1>5. Been' /\ InOrder'
  BY <1>1 DEF Been, InOrder
<1>6. Followed'
  BY <1>1, <1>2, <1>3 DEF Followed
<1>7. PointWasTracked'
  BY <1>1, <1>2 DEF Followed, PointWasTracked
<1> QED
  BY <1>4, <1>5, <1>6, <1>7

LEMMA PageSteps ==
    ASSUME TypeOK,
           (\E c \in Courier : Show(c)) \/ Redraw \/ Hide \/ Tick \/ LateTick
    PROVE  PageMoves
<1>0. page \in [Courier -> {"none", "blank", "located"}]
  BY DEF TypeOK
<1>1. ASSUME NEW c \in Courier, Show(c) PROVE PageMoves
  <2>1. /\ page' = [k \in Courier |-> IF k \in guest THEN "none" ELSE page[k]]
        /\ guest' = {} /\ selected' = {c} /\ tracked' = tracked \cup {c} /\ open' = TRUE
        /\ starting' = starting \cup selected' /\ point3' = riyadhCoordinatetracking
        /\ UNCHANGED <<acts, place, asked, docs, accepts, seen, told, riyadhCoordinatetracking, lent>>
    BY <1>1 DEF Show, Draw, getCourierLocation
  <2>2. /\ page' \in [Courier -> {"none", "blank", "located"}]
        /\ \A k \in Courier : page'[k] \in {page[k], "none"}
    BY <1>0, <2>1
  <2> QED
    BY <2>1, <2>2 DEF PageMoves
<1>2. ASSUME Redraw PROVE PageMoves
  BY <1>0, <1>2 DEF Redraw, Draw, getCourierLocation, couriers, map, PageMoves, TypeOK
<1>3. ASSUME Hide PROVE PageMoves
  BY <1>0, <1>3 DEF Hide, couriers, phone, PageMoves
<1>4. ASSUME Tick PROVE PageMoves
  BY <1>0, <1>4 DEF Tick, getCourierLocation, couriers, map, PageMoves, TypeOK
<1>5. ASSUME LateTick PROVE PageMoves
  BY <1>0, <1>5 DEF LateTick, getCourierLocation, couriers, map, PageMoves, TypeOK
<1> QED
  BY <1>1, <1>2, <1>3, <1>4, <1>5

\* A snapshot writes the global, with a position of a courier who is followed.
LEMMA ReportStep ==
    ASSUME TrackingInv, NEW c \in Courier, Report(c)
    PROVE  TrackingInv'
<1> USE DEF TrackingInv
<1>1. /\ c \in DOMAIN told \/ c \in starting
      /\ told' = [k \in DOMAIN told \cup {c} |-> IF k = c THEN seen[c] ELSE told[k]]
      /\ starting' \subseteq starting
      /\ riyadhCoordinatetracking' =
            IF seen[c] = absent THEN riyadhCoordinatetracking ELSE At(c, seen[c])
      /\ UNCHANGED <<acts, place, page, asked, docs, accepts, seen, tracked, selected, open,
                     guest, lent, point3>>
  BY DEF Report, Due, couriers, map
<1>2. c \in tracked /\ seen[c] \in Stored
  BY <1>1 DEF Followed, TypeOK
<1>3. DOMAIN told' = DOMAIN told \cup {c} /\ \A k \in DOMAIN told' : told'[k] \in {seen[c], told[k]}
  BY <1>1
<1>4. seen[c] # absent =>
         /\ At(c, seen[c]) \in Points /\ At(c, seen[c]).of = {c} /\ At(c, seen[c]).at = seen[c]
  <2>1. seen[c] # absent => seen[c] \in {unknown} \cup Position
    BY <1>2, Numbers
  <2> QED
    BY <2>1, PointsOf
<1>5. TypeOK'
  <2>1. DOMAIN told' \subseteq Courier /\ \A k \in DOMAIN told' : told'[k] \in Stored
    <3>1. \A k \in DOMAIN told' : k = c \/ k \in DOMAIN told
      BY <1>3
    <3>2. \A k \in DOMAIN told' : told'[k] = IF k = c THEN seen[c] ELSE told[k]
      BY <1>1, <1>3
    <3> QED
      BY <1>2, <3>1, <3>2 DEF TypeOK
  <2>2. riyadhCoordinatetracking' \in Points
    BY <1>1, <1>4 DEF TypeOK
  <2> QED
    BY <1>1, <2>1, <2>2 DEF TypeOK, Stored
<1>6. Been' /\ InOrder' /\ PointWasTracked'
  BY <1>1 DEF Been, InOrder, PointWasTracked
<1>7. Followed'
  <2>1. starting' \subseteq tracked' /\ selected' \subseteq tracked' /\ DOMAIN told' \subseteq tracked'
    BY <1>1, <1>2, <1>3 DEF Followed
  <2>2. ASSUME NEW k \in Courier, k \in riyadhCoordinatetracking'.of
        PROVE  k \in tracked' \cup lent' /\ riyadhCoordinatetracking'.at <= place'[k]
    <3>1. CASE seen[c] = absent
      BY <1>1, <2>2, <3>1 DEF Followed
    <3>2. CASE seen[c] # absent
      BY <1>1, <1>2, <1>4, <2>2, <3>2 DEF Been
    <3> QED
      BY <3>1, <3>2
  <2> QED
    BY <2>1, <2>2 DEF Followed
<1> QED
  BY <1>5, <1>6, <1>7

LEMMA CatchUpStep ==
    ASSUME TrackingInv, CatchUp
    PROVE  TrackingInv'
<1> USE DEF TrackingInv
<1>1. /\ seen' = docs
      /\ UNCHANGED <<acts, place, page, asked, docs, accepts, told, starting,
                     riyadhCoordinatetracking, tracked, selected, open, guest, lent, point3>>
  BY DEF CatchUp, couriers, map
<1> QED
  BY <1>1 DEF TypeOK, Points, Stored, Been, Followed, PointWasTracked, InOrder

-----------------------------------------------------------------------------
\* Every step keeps the invariant, and no document goes back in it.
LEMMA TrackingStep ==
    ASSUME TrackingInv, [Next]_vars
    PROVE  /\ TrackingInv'
           /\ \A c \in Courier :
                 docs'[c] < docs[c] => docs'[c] = unknown \/ accepts'[c] > 1
<1> DEFINE Kept == \A c \in Courier : docs'[c] < docs[c] => docs'[c] = unknown \/ accepts'[c] > 1
<1>1. ASSUME docs' = docs PROVE Kept
  <2>1. \A c \in Courier : docs[c] \in Int
    BY Numbers DEF TrackingInv, TypeOK
  <2> QED
    BY <1>1, <2>1
<1>2. ASSUME NEW c \in Courier, (\E here \in BOOLEAN : OpenPage(here, c)) \/ UpdateView(c)
      PROVE  TrackingInv' /\ docs' = docs
  <2>1. accepts[c] > 0
    <3>1. accepts[c] \in 0..MaxOffers
      BY DEF TrackingInv, TypeOK
    <3>2. accepts[c] # 0 => accepts[c] > 0
      BY <3>1, TrackingAssumption
    <3> QED
      BY <1>2, <3>2 DEF OpenPage, UpdateView, TrackingInv, InOrder
  <2>2. /\ guest \subseteq lent /\ (\A k, l \in guest : k = l) /\ lent \subseteq Courier
        /\ page[c] \in {"none", "blank", "located"}
    BY DEF TrackingInv, TypeOK
  <2>3. CASE UpdateView(c)
    <3>1. /\ Ask(c \in guest, c, page[c]) /\ UNCHANGED <<guest, lent>>
          /\ page[c] \in {"blank", "located"} /\ (c \in guest) \in BOOLEAN
      BY <2>2, <2>3 DEF UpdateView
    <3>2. c \in guest => c \in lent'
      BY <2>2, <3>1
    <3> QED
      BY <2>1, <2>2, <3>1, <3>2, AskStep DEF Ask
  <2>4. ASSUME NEW here \in BOOLEAN, OpenPage(here, c)
        PROVE  TrackingInv' /\ docs' = docs
    <3>1. /\ Ask(here, c, "blank")
          /\ guest' = IF here THEN {c} ELSE guest \ {c}
          /\ lent' = IF here THEN lent \cup {c} ELSE lent
      BY <2>4 DEF OpenPage
    <3>2. /\ guest' \subseteq lent' /\ lent' \subseteq Courier /\ lent \subseteq lent'
          /\ here => c \in lent'
      BY <2>2, <3>1
    <3>3. (\A k, l \in guest' : k = l)
      BY <2>2, <3>1
    <3> QED
      BY <2>1, <3>1, <3>2, <3>3, AskStep DEF Ask
  <2> QED
    BY <1>2, <2>3, <2>4
<1>3. ASSUME NEW c \in Courier, Move(c) \/ Locate(c) PROVE TrackingInv' /\ docs' = docs
  BY <1>3, MoveStep, LocateStep DEF Move, Locate
<1>4. ASSUME (\E c \in Courier : Show(c)) \/ Redraw \/ Hide \/ Tick \/ LateTick
      PROVE  TrackingInv' /\ docs' = docs
  <2>1. PageMoves
    BY <1>4, PageSteps DEF TrackingInv
  <2> QED
    BY <2>1, PageStep DEF PageMoves
<1>5. ASSUME NEW c \in Courier, Report(c) PROVE TrackingInv' /\ docs' = docs
  BY <1>5, ReportStep DEF Report, couriers
<1>6. ASSUME CatchUp PROVE TrackingInv' /\ docs' = docs
  BY <1>6, CatchUpStep DEF CatchUp, couriers
<1>7. ASSUME UNCHANGED vars PROVE TrackingInv' /\ docs' = docs
  <2>1. UNCHANGED <<acts, place, page, asked, docs, accepts, seen, told, starting,
                    riyadhCoordinatetracking, tracked, selected, open, guest, lent, point3>>
    BY <1>7 DEF vars, couriers, phone, map
  <2> QED
    BY <2>1 DEF TrackingInv, TypeOK, Points, Stored, Been, Followed, PointWasTracked, InOrder
<1>8. ASSUME NEW here \in BOOLEAN, NEW c \in Courier, Store(here, c) PROVE TrackingInv' /\ Kept
  BY <1>8, StoreStep
<1>9. ASSUME NEW c \in Courier, NEW here \in BOOLEAN, NEW p \in Position, Accept(here, c, p)
      PROVE  TrackingInv' /\ Kept
  BY <1>9, AcceptStep
<1> QED
  BY <1>1, <1>2, <1>3, <1>4, <1>5, <1>6, <1>7, <1>8, <1>9 DEF Next

-----------------------------------------------------------------------------
\* Every state is well typed, and what is written down or on its way is a place
\* its courier has been at, in order while he had one offer accepted.
THEOREM TrackingInvariant == Spec => []TrackingInv
<1>1. Init => TrackingInv
  BY TrackingInit
<1>2. TrackingInv /\ [Next]_vars => TrackingInv'
  BY TrackingStep
<1> QED
  BY <1>1, <1>2, PTL DEF Spec

\* The point on the member's map (MapViewTracking) is where a courier whose
\* page he opened, or who used the phone himself, has been.
THEOREM PointIsReal == Spec => []PointWasTracked
<1>1. TrackingInv => PointWasTracked
  BY DEF TrackingInv
<1> QED
  BY <1>1, TrackingInvariant, PTL

\* The documents that updateCourierLocation writes do not go back while one
\* offer of the courier was accepted.
THEOREM GoesOn == Spec => NoWayBack
<1>1. TrackingInv /\ [Next]_vars =>
         [\A c \in Courier : docs'[c] < docs[c] => docs'[c] = unknown \/ accepts'[c] > 1]_vars
  BY TrackingStep
<1> QED
  BY <1>1, TrackingInvariant, PTL DEF Spec, NoWayBack
=============================================================================
