--------------------------- MODULE LiveStatus_proofs ---------------------------
(***************************************************************************)
(* Proofs about LiveStatus: typing, that a phone which has had its         *)
(* snapshots shows a real status, and that a courier who was shown the     *)
(* true one moves the order on, for any orders, texts and listeners.       *)
(***************************************************************************)
EXTENDS LiveStatus, FiniteSetTheorems, WellFoundedInduction, TLAPS

\* The alert, of which there is at most one, is about the card that is open,
\* and its row still comes after the order's status if it did when tapped:
\* nobody but the courier moves an order past "assigned".
AskedAhead ==
    /\ \A a, b \in asked : a = b
    /\ asked # {} => opened["courier"] # None
    /\ \A a \in asked : a.right => Index[status[opened["courier"]]] < Index[a.row]

StatusInv == TypeOK /\ IsFiniteSet(listeners) /\ AskedAhead

\* The courier's open card is of an awarded order, so that every listener finds
\* some order, and was told of none that it does not find now.
FindsSome ==
    /\ opened["courier"] # None => opened["courier"] \in awarded
    /\ \A l \in listeners : Found(l) # {}
    /\ \A l \in DOMAIN told : DOMAIN told[l] \subseteq Found(l)

\* Once a listener of a phone was told anything, what the phone shows is
\* something that one of them was told last.
ShowsTold ==
    \A d \in Device :
       (\E l \in DOMAIN told : l.on = d) =>
          \E l \in DOMAIN told : l.on = d /\ \E o \in DOMAIN told[l] : told[l][o] = live[d]

-----------------------------------------------------------------------------
\* The array of statuses: every status has a position, and those that others
\* than the courier write come before his rows.
LEMMA Positions ==
    /\ \A s \in Status : Index[s] \in Nat
    /\ "cancled" \in Status /\ "assigned" \in Status /\ "have an offer" \in Status
    /\ \A s \in Rows : /\ s \in Status
                      /\ Index["assigned"] < Index[s] /\ Index["cancled"] < Index[s]
<1>1. /\ Array[1] = "waiting for offer" /\ Array[2] = "cancled" /\ Array[3] = "have an offer"
      /\ Array[4] = "assigned" /\ Array[5] = "pick Up" /\ Array[6] = "on The Way"
      /\ Array[7] = "drop off" /\ Array[8] = "completed"
  BY DEF Array
<1>2. /\ 2 \in 1..8 /\ 3 \in 1..8 /\ 4 \in 1..8
      /\ \A n \in 1..8 : n = 1 \/ n = 2 \/ n = 3 \/ n = 4 \/ n = 5 \/ n = 6 \/ n = 7 \/ n = 8
  OBVIOUS
<1>3. "cancled" \in Status /\ "assigned" \in Status /\ "have an offer" \in Status
  <2>1. Array[2] \in Status /\ Array[3] \in Status /\ Array[4] \in Status
    BY <1>2 DEF Status
  <2> QED
    BY <1>1, <2>1
<1>4. ASSUME NEW s \in Status PROVE Index[s] \in 1..8 /\ Array[Index[s]] = s
  BY DEF Status, Index
<1>5. Index["cancled"] = 2
  <2>1. \A n \in 1..8 : Array[n] = "cancled" => n = 2
    BY <1>1, <1>2
  <2> QED
    BY <1>3, <1>4, <2>1
<1>6. Index["assigned"] = 4
  <2>1. \A n \in 1..8 : Array[n] = "assigned" => n = 4
    BY <1>1, <1>2
  <2> QED
    BY <1>3, <1>4, <2>1
<1>7. \A s \in Status : Index[s] \in Nat
  BY <1>4
<1>8. ASSUME NEW s \in Rows
      PROVE  /\ s \in Status
             /\ Index["assigned"] < Index[s] /\ Index["cancled"] < Index[s]
  <2>1. s \in Status /\ Index[s] > Index["assigned"]
    BY DEF Rows
  <2>2. Index[s] \in Nat
    BY <1>7, <2>1
  <2> QED
    BY <1>5, <1>6, <2>1, <2>2
<1> QED
  BY <1>3, <1>7, <1>8

\* A set of orders that is not empty has a last document.
LEMMA LastOne ==
    ASSUME NEW S \in SUBSET Order, S # {}
    PROVE  Last(S) \in S
<1> DEFINE HasLast(T) == \E o \in T : \A k \in T : k <= o
           X == {T \in SUBSET S : T # {} /\ ~HasLast(T)}
<1>1. IsFiniteSet(S) /\ S \subseteq Nat
  BY FS_Subset, StatusAssumption
<1>2. SUFFICES ASSUME S \in X PROVE FALSE
  BY DEF Last
<1>3. IsWellFoundedOn(StrictSubsetOrdering(S), SUBSET S)
  BY <1>1, FS_StrictSubsetOrderingWellFounded, FS_FiniteSubsetsOfFinite
<1>4. PICK T \in X : \A U \in X : <<U, T>> \notin StrictSubsetOrdering(S)
  <2>1. X \subseteq SUBSET S /\ X # {}
    BY <1>2
  <2> HIDE DEF X
  <2> QED
    BY <1>3, <2>1, WFMin
<1>5. PICK t \in T : TRUE
  OBVIOUS
<1>6. T \ {t} \notin X
  <2>1. <<T \ {t}, T>> \in StrictSubsetOrdering(S)
    BY <1>5 DEF StrictSubsetOrdering
  <2> QED
    BY <1>4, <2>1
<1>7. CASE T \ {t} = {}
  BY <1>1, <1>5, <1>7
<1>8. CASE HasLast(T \ {t})
  <2>1. PICK m \in T \ {t} : \A k \in T \ {t} : k <= m
    BY <1>8
  <2>2. m \in Nat /\ t \in Nat /\ \A k \in T : k \in Nat
    BY <1>1, <2>1
  <2>3. \/ \A k \in T : k <= m
        \/ \A k \in T : k <= t
    BY <2>1, <2>2
  <2> QED
    BY <2>1, <2>3
<1> QED
  BY <1>6, <1>7, <1>8

\* A listener that is attached is one of the listeners there can be.
LEMMA Attaching ==
    ASSUME TypeOK, IsFiniteSet(listeners), NEW d \in Device, NEW o \in Order,
           NEW c \in BOOLEAN, Attach(d, Text[o], c)
    PROVE  /\ listeners \subseteq listeners'
           /\ listeners' \subseteq Listener
           /\ IsFiniteSet(listeners')
<1> DEFINE mine == {l \in listeners : l.on = d}
           new == [on |-> d, text |-> Text[o], courier |-> c, number |-> Cardinality(mine) + 1]
<1>1. IsFiniteSet(mine) /\ Cardinality(mine) <= Cardinality(listeners)
  BY FS_Subset
<1>2. Cardinality(mine) \in Nat /\ Cardinality(listeners) \in Nat
  BY <1>1, FS_CardinalityType
<1>3. Cardinality(listeners) < MaxListeners /\ listeners' = listeners \cup {new}
  BY DEF Attach
<1>4. new \in Listener
  BY <1>1, <1>2, <1>3, StatusAssumption DEF Listener
<1>5. IsFiniteSet(listeners')
  BY <1>3, FS_AddElement
<1> QED
  BY <1>3, <1>4, <1>5 DEF TypeOK

LEMMA StatusInit == Init => StatusInv
<1> SUFFICES ASSUME Init PROVE StatusInv
  OBVIOUS
<1>1. IsFiniteSet(listeners)
  BY FS_EmptySet DEF Init
<1> QED
  BY <1>1, Positions DEF Init, StatusInv, TypeOK, AskedAhead

LEMMA StatusStep == StatusInv /\ [Next]_vars => StatusInv'
<1> SUFFICES ASSUME StatusInv, [Next]_vars PROVE StatusInv'
  OBVIOUS
<1>1. TypeOK /\ IsFiniteSet(listeners) /\ AskedAhead
  BY DEF StatusInv
<1>2. None \notin Order /\ "courier" \in Device /\ "member" \in Device
  BY StatusAssumption DEF None, Device
<1>3. ASSUME NEW d \in Device, CloseCard(d) PROVE StatusInv'
  BY <1>1, <1>2, <1>3 DEF CloseCard, StatusInv, TypeOK, AskedAhead
<1>4. ASSUME NEW d \in Device, CancelOrder(d) PROVE StatusInv'
  <2>1. opened[d] \in Order
    BY <1>1, <1>4 DEF CancelOrder, TypeOK
  <2>2. TypeOK' /\ IsFiniteSet(listeners)'
    BY <1>1, <1>4, <2>1, Positions DEF CancelOrder, SetStatus, TypeOK
  <2>3. AskedAhead'
    <3>1. CASE d = "courier"
      BY <1>4, <3>1 DEF CancelOrder, AskedAhead
    <3>2. CASE d # "courier"
      <4>1. opened'["courier"] = opened["courier"] /\ asked' = asked
        BY <1>1, <1>2, <1>4, <3>2 DEF CancelOrder, TypeOK
      <4>2. SUFFICES ASSUME NEW a \in asked, a.right
                     PROVE  Index[status'[opened["courier"]]] < Index[a.row]
        BY <1>1, <4>1 DEF AskedAhead
      <4>3. opened["courier"] \in Order /\ a.row \in Rows
        BY <1>1, <1>2 DEF AskedAhead, TypeOK
      <4>4. CASE opened["courier"] = opened[d]
        <5>1. status'[opened["courier"]] = "cancled"
          BY <1>1, <1>4, <4>3, <4>4 DEF CancelOrder, SetStatus, TypeOK
        <5> QED
          BY <4>3, <5>1, Positions
      <4>5. CASE opened["courier"] # opened[d]
        <5>1. status'[opened["courier"]] = status[opened["courier"]]
          BY <1>1, <1>4, <4>3, <4>5 DEF CancelOrder, SetStatus, TypeOK
        <5> QED
          BY <1>1, <4>2, <5>1 DEF AskedAhead
      <4> QED
        BY <4>4, <4>5
    <3> QED
      BY <3>1, <3>2
  <2> QED
    BY <2>2, <2>3 DEF StatusInv
<1>5. ASSUME NEW d \in Device, Restart(d) PROVE StatusInv'
  <2>1. IsFiniteSet(listeners') /\ listeners' \subseteq listeners
    BY <1>1, <1>5, FS_Subset DEF Restart
  <2>2. TypeOK'
    BY <1>1, <1>5, <2>1, Positions DEF Restart, TypeOK
  <2>3. AskedAhead'
    BY <1>1, <1>2, <1>5 DEF Restart, AskedAhead, TypeOK
  <2> QED
    BY <2>1, <2>2, <2>3 DEF StatusInv
<1>6. ASSUME NEW d \in Device, NEW o \in Order, OpenCard(d, o) PROVE StatusInv'
  <2>1. /\ listeners \subseteq listeners' /\ listeners' \subseteq Listener
        /\ IsFiniteSet(listeners')
    <3>1. (o \in awarded) \in BOOLEAN
      OBVIOUS
    <3> QED
      BY <1>1, <1>6, <3>1, Attaching DEF OpenCard
  <2>2. TypeOK'
    BY <1>1, <1>6, <2>1 DEF OpenCard, TypeOK
  <2>3. AskedAhead'
    BY <1>1, <1>2, <1>6 DEF OpenCard, AskedAhead, TypeOK
  <2> QED
    BY <2>1, <2>2, <2>3 DEF StatusInv
<1>7. ASSUME NEW l \in listeners, Snapshot(l) PROVE StatusInv'
  <2>1. /\ UNCHANGED <<status, awarded, listeners, opened, asked>>
        /\ DOMAIN told' = DOMAIN told \cup {l}
        /\ \A k \in DOMAIN told' : DOMAIN told'[k] \subseteq Order
    BY <1>1, <1>7 DEF Snapshot, TypeOK, Current, Found
  <2>2. live' \in [Device -> Status]
    <3> DEFINE changed == IF l \in DOMAIN told
                          THEN {o \in DOMAIN told[l] : told[l][o] # status[o]} ELSE {}
    <3>1. live \in [Device -> Status] /\ status \in [Order -> Status] /\ l.on \in Device
      BY <1>1 DEF TypeOK, Listener
    <3>2. changed \in SUBSET Order /\ Found(l) \in SUBSET Order
      BY <1>1 DEF TypeOK, Found
    <3>3. ASSUME NEW S \in SUBSET Order, S # {}
          PROVE  [live EXCEPT ![l.on] = status[Last(S)]] \in [Device -> Status]
      BY <3>1, <3>3, LastOne
    <3>4. live' = IF changed # {} THEN [live EXCEPT ![l.on] = status[Last(changed)]]
                  ELSE IF Found(l) # {} THEN [live EXCEPT ![l.on] = status[Last(Found(l))]]
                  ELSE live
      BY <1>7 DEF Snapshot
    <3> HIDE DEF changed
    <3> QED
      BY <3>1, <3>2, <3>3, <3>4
  <2> QED
    BY <1>1, <2>1, <2>2 DEF StatusInv, TypeOK, AskedAhead
<1>8. ASSUME NEW o \in Order, Accept(o) PROVE StatusInv'
  <2>1. TypeOK' /\ IsFiniteSet(listeners)'
    BY <1>1, <1>8, Positions DEF Accept, SetStatus, TypeOK
  <2>2. ASSUME NEW a \in asked, a.right PROVE Index[status'[opened["courier"]]] < Index[a.row]
    <3>1. opened["courier"] \in Order /\ a.row \in Rows
      BY <1>1, <1>2 DEF AskedAhead, TypeOK
    <3>2. CASE opened["courier"] = o
      <4>1. status'[opened["courier"]] = "assigned"
        BY <1>1, <1>8, <3>1, <3>2 DEF Accept, SetStatus, TypeOK
      <4> QED
        BY <3>1, <4>1, Positions
    <3>3. CASE opened["courier"] # o
      BY <1>1, <1>8, <2>2, <3>1, <3>3 DEF Accept, SetStatus, TypeOK, AskedAhead
    <3> QED
      BY <3>2, <3>3
  <2>3. AskedAhead'
    BY <1>1, <1>8, <2>2 DEF Accept, AskedAhead
  <2> QED
    BY <2>1, <2>3 DEF StatusInv
<1>9. ASSUME NEW s \in Rows, TapRow(s) PROVE StatusInv'
  <2>1. TypeOK' /\ IsFiniteSet(listeners)'
    BY <1>1, <1>9 DEF TapRow, TypeOK
  <2>2. asked' = {[row |-> s, right |-> live["courier"] = status[opened["courier"]]]}
    BY <1>9 DEF TapRow
  <2>3. ASSUME NEW a \in asked', a.right PROVE Index[status[opened["courier"]]] < Index[a.row]
    <3> DEFINE shown == live["courier"] = status[opened["courier"]]
    <3>1. a = [row |-> s, right |-> shown]
      BY <2>2
    <3>2. a.row = s
      BY <3>1
    <3>3. a.right = shown
      BY <3>1, Zenon
    <3>4. live["courier"] = status[opened["courier"]]
      BY <2>3, <3>3
    <3> QED
      BY <1>9, <3>2, <3>4 DEF TapRow
  <2>4. AskedAhead'
    BY <1>9, <2>2, <2>3 DEF TapRow, AskedAhead
  <2> QED
    BY <2>1, <2>4 DEF StatusInv
<1>10. CASE AnswerNo
  BY <1>1, <1>10 DEF AnswerNo, StatusInv, TypeOK, AskedAhead
<1>11. CASE AnswerYes
  <2>1. opened["courier"] \in Order
    BY <1>1, <1>2, <1>11 DEF AnswerYes, AskedAhead, TypeOK
  <2>2. /\ listeners \subseteq listeners' /\ listeners' \subseteq Listener
        /\ IsFiniteSet(listeners')
    BY <1>1, <1>2, <1>11, <2>1, Attaching DEF AnswerYes
  <2>3. status' \in [Order -> Status]
    BY <1>1, <1>11, <2>1, Positions DEF AnswerYes, SetStatus, TypeOK
  <2> QED
    BY <1>1, <1>11, <2>2, <2>3 DEF AnswerYes, StatusInv, TypeOK, AskedAhead
<1>12. CASE UNCHANGED vars
  BY <1>1, <1>12 DEF vars, StatusInv, TypeOK, AskedAhead
<1> QED
  BY <1>3, <1>4, <1>5, <1>6, <1>7, <1>8, <1>9, <1>10, <1>11, <1>12 DEF Next

-----------------------------------------------------------------------------
LEMMA FindsStep == StatusInv /\ FindsSome /\ [Next]_vars => FindsSome'
<1> SUFFICES ASSUME StatusInv, FindsSome, [Next]_vars PROVE FindsSome'
  OBVIOUS
<1>1. TypeOK /\ AskedAhead /\ None \notin Order /\ "courier" \in Device
  BY StatusAssumption DEF StatusInv, None, Device
<1>2. ASSUME awarded' = awarded, told' = told,
             \A l \in listeners' \ listeners : Found(l) # {},
             opened'["courier"] # None => opened'["courier"] \in awarded
      PROVE  FindsSome'
  <2>1. \A l : Found(l)' = Found(l)
    BY <1>2 DEF Found
  <2> QED
    BY <1>2, <2>1 DEF FindsSome
<1>3. ASSUME NEW d \in Device, NEW o \in Order, NEW c \in BOOLEAN, c => o \in awarded,
             Attach(d, Text[o], c)
      PROVE  \A l \in listeners' \ listeners : Found(l) # {}
  <2>1. ASSUME NEW l \in listeners' \ listeners PROVE o \in Found(l)
    <3>1. l.text = Text[o] /\ (l.courier => o \in awarded)
      BY <1>3 DEF Attach
    <3> QED
      BY <3>1 DEF Found
  <2> QED
    BY <2>1
<1>4. ASSUME NEW d \in Device, CloseCard(d) \/ CancelOrder(d) PROVE FindsSome'
  BY <1>1, <1>2, <1>4 DEF CloseCard, CancelOrder, TypeOK, FindsSome
<1>5. ASSUME NEW d \in Device, Restart(d) PROVE FindsSome'
  <2>1. \A l : Found(l)' = Found(l)
    BY <1>5 DEF Restart, Found
  <2>2. /\ listeners' \subseteq listeners
        /\ DOMAIN told' \subseteq DOMAIN told
        /\ \A l \in DOMAIN told' : told'[l] = told[l]
    BY <1>5 DEF Restart
  <2>3. opened'["courier"] # None => opened'["courier"] \in awarded'
    BY <1>1, <1>5 DEF Restart, TypeOK, FindsSome
  <2> QED
    BY <2>1, <2>2, <2>3 DEF FindsSome
<1>6. ASSUME NEW d \in Device, NEW o \in Order, OpenCard(d, o) PROVE FindsSome'
  <2>1. (o \in awarded) \in BOOLEAN
    OBVIOUS
  <2>2. \A l \in listeners' \ listeners : Found(l) # {}
    BY <1>3, <1>6, <2>1 DEF OpenCard
  <2>3. opened'["courier"] # None => opened'["courier"] \in awarded
    BY <1>1, <1>6 DEF OpenCard, TypeOK, FindsSome
  <2> QED
    BY <1>2, <1>6, <2>2, <2>3 DEF OpenCard
<1>7. ASSUME NEW l \in listeners, Snapshot(l) PROVE FindsSome'
  <2>1. \A k : Found(k)' = Found(k)
    BY <1>7 DEF Snapshot, Found
  <2>2. \A k \in DOMAIN told' : DOMAIN told'[k] \subseteq Found(k)
    BY <1>7 DEF Snapshot, Current, FindsSome
  <2> QED
    BY <1>7, <2>1, <2>2 DEF Snapshot, FindsSome
<1>8. ASSUME NEW o \in Order, Accept(o) PROVE FindsSome'
  <2>1. \A l : Found(l) \subseteq Found(l)'
    BY <1>8 DEF Accept, Found
  <2> QED
    BY <1>8, <2>1 DEF Accept, FindsSome
<1>9. ASSUME NEW s \in Rows, TapRow(s) PROVE FindsSome'
  BY <1>2, <1>9 DEF TapRow, FindsSome
<1>10. CASE AnswerNo
  BY <1>2, <1>10 DEF AnswerNo, FindsSome
<1>11. CASE AnswerYes
  <2>1. opened["courier"] \in Order /\ opened["courier"] \in awarded
    BY <1>1, <1>11 DEF AnswerYes, AskedAhead, TypeOK, FindsSome
  <2>2. \A l \in listeners' \ listeners : Found(l) # {}
    BY <1>1, <1>3, <1>11, <2>1 DEF AnswerYes
  <2> QED
    BY <1>2, <1>11, <2>1, <2>2 DEF AnswerYes
<1>12. CASE UNCHANGED vars
  BY <1>2, <1>12 DEF vars, FindsSome
<1> QED
  BY <1>4, <1>5, <1>6, <1>7, <1>8, <1>9, <1>10, <1>11, <1>12 DEF Next

\* Only a snapshot and a restart change what was told or shown, and a snapshot
\* shows a status of its own answer.
LEMMA ShowsStep == StatusInv /\ FindsSome /\ ShowsTold /\ [Next]_vars => ShowsTold'
<1> SUFFICES ASSUME StatusInv, FindsSome, ShowsTold, [Next]_vars PROVE ShowsTold'
  OBVIOUS
<1>1. TypeOK
  BY DEF StatusInv
<1>2. ASSUME UNCHANGED <<told, live>> PROVE ShowsTold'
  BY <1>2 DEF ShowsTold
<1>3. ASSUME NEW d \in Device, Restart(d) PROVE ShowsTold'
  <2>1. /\ DOMAIN told' = {l \in DOMAIN told : l.on # d}
        /\ \A l \in DOMAIN told' : told'[l] = told[l]
    BY <1>1, <1>3 DEF Restart, TypeOK
  <2>2. \A k \in Device : k # d => live'[k] = live[k]
    BY <1>1, <1>3 DEF Restart, TypeOK
  <2> QED
    BY <2>1, <2>2 DEF ShowsTold
<1>4. ASSUME NEW l \in listeners, Snapshot(l) PROVE ShowsTold'
  <2> DEFINE changed == IF l \in DOMAIN told
                        THEN {o \in DOMAIN told[l] : told[l][o] # status[o]} ELSE {}
  <2>1. /\ DOMAIN told' = DOMAIN told \cup {l}
        /\ \A k \in DOMAIN told : k # l => told'[k] = told[k]
        /\ told'[l] = [o \in Found(l) |-> status[o]]
    BY <1>4 DEF Snapshot, Current
  <2>2. l.on \in Device /\ live \in [Device -> Status]
    BY <1>1 DEF TypeOK, Listener
  <2>3. /\ changed \in SUBSET Found(l)
        /\ Found(l) \in SUBSET Order /\ Found(l) # {}
    BY DEF FindsSome, Found
  <2>4. PICK o \in Found(l) : live' = [live EXCEPT ![l.on] = status[o]]
    <3>1. CASE changed # {}
      <4>1. Last(changed) \in Found(l)
        BY <2>3, <3>1, LastOne
      <4>2. live' = [live EXCEPT ![l.on] = status[Last(changed)]]
        BY <1>4, <3>1 DEF Snapshot
      <4> QED
        BY <4>1, <4>2
    <3>2. CASE changed = {}
      <4>1. Last(Found(l)) \in Found(l)
        BY <2>3, LastOne
      <4>2. live' = [live EXCEPT ![l.on] = status[Last(Found(l))]]
        BY <1>4, <2>3, <3>2 DEF Snapshot
      <4> QED
        BY <4>1, <4>2
    <3> QED
      BY <3>1, <3>2
  <2>5. live'[l.on] = told'[l][o] /\ o \in DOMAIN told'[l] /\ l \in DOMAIN told'
    BY <2>1, <2>2, <2>4
  <2>6. \A k \in Device : k # l.on => live'[k] = live[k]
    BY <2>2, <2>4
  <2> HIDE DEF changed
  <2>7. ASSUME NEW d \in Device, NEW k \in DOMAIN told', k.on = d
        PROVE  \E j \in DOMAIN told' :
                  j.on = d /\ \E p \in DOMAIN told'[j] : told'[j][p] = live'[d]
    <3>1. CASE d = l.on
      BY <2>5, <3>1
    <3>2. CASE d # l.on
      <4>1. k \in DOMAIN told
        BY <2>1, <2>7, <3>2
      <4>2. PICK j \in DOMAIN told : j.on = d /\ \E p \in DOMAIN told[j] : told[j][p] = live[d]
        BY <2>7, <4>1 DEF ShowsTold
      <4>3. j # l /\ j \in DOMAIN told' /\ told'[j] = told[j] /\ live'[d] = live[d]
        BY <2>1, <2>6, <3>2, <4>2
      <4> QED
        BY <4>2, <4>3
    <3> QED
      BY <3>1, <3>2
  <2> QED
    BY <2>7 DEF ShowsTold
<1> QED
  BY <1>2, <1>3, <1>4 DEF Next, vars, CloseCard, CancelOrder, OpenCard, Accept, TapRow,
                          AnswerNo, AnswerYes

-----------------------------------------------------------------------------
\* The inductive invariant: typing, and what an open alert still has to do with
\* the order it is about.
THEOREM StatusInvariant == Spec => []StatusInv
<1> QED
  BY StatusInit, StatusStep, PTL DEF Spec

\* Every state is well typed: what a phone shows is a status, and whoever was
\* told anything is a listener that is still attached.
THEOREM StatusTyping == Spec => []TypeOK
<1>1. StatusInv => TypeOK
  BY DEF StatusInv
<1> QED
  BY <1>1, StatusInvariant, PTL

\* A phone that has had its snapshots shows what the database says of some order
\* it listens to: whatever was told last is the present answer then.
THEOREM ShowsReal == Spec => []LiveIsReal
<1>1. Init => FindsSome /\ ShowsTold
  BY DEF Init, FindsSome, ShowsTold, Device
<1>2. Spec => [](FindsSome /\ ShowsTold)
  BY <1>1, StatusInvariant, FindsStep, ShowsStep, PTL DEF Spec
<1>3. ASSUME StatusInv, FindsSome, ShowsTold PROVE LiveIsReal
  <2> SUFFICES ASSUME NEW d \in Device, Settled(d), NEW l \in listeners, l.on = d
               PROVE  \E k \in {k \in listeners : k.on = d} :
                         \E o \in Found(k) : status[o] = live[d]
    BY DEF LiveIsReal
  <2>1. \A k \in listeners : k.on = d => k \in DOMAIN told /\ told[k] = Current(k)
    BY DEF Settled, Behind
  <2>2. PICK k \in DOMAIN told : k.on = d /\ \E o \in DOMAIN told[k] : told[k][o] = live[d]
    BY <1>3, <2>1 DEF ShowsTold
  <2>3. k \in listeners /\ told[k] = [o \in Found(k) |-> status[o]]
    BY <1>3, <2>1, <2>2 DEF StatusInv, TypeOK, Current
  <2> QED
    BY <2>2, <2>3
<1> QED
  BY <1>2, <1>3, StatusInvariant, PTL

\* A courier who was shown the true status moves the order on, however late the
\* answer to the alert and whatever the member did meanwhile.
THEOREM MovesForward == Spec => ForwardIfShownRight
<1>1. StatusInv /\ [Next]_vars =>
      [\A a \in asked \ asked' : LET o == opened["courier"] IN
          a.right /\ status'[o] # status[o] => Index[status'[o]] > Index[status[o]]]_vars
  <2> SUFFICES ASSUME StatusInv, Next, NEW a \in asked \ asked', a.right,
                      status'[opened["courier"]] # status[opened["courier"]]
               PROVE  Index[status'[opened["courier"]]] > Index[status[opened["courier"]]]
    OBVIOUS
  <2>1. AnswerYes
    BY DEF Next, CloseCard, CancelOrder, Restart, OpenCard, Snapshot, Accept, TapRow, AnswerNo
  <2>2. opened["courier"] \in Order
    BY DEF StatusInv, AskedAhead, TypeOK, Device
  <2>3. status'[opened["courier"]] = a.row
    BY <2>1, <2>2 DEF AnswerYes, SetStatus, StatusInv, AskedAhead, TypeOK
  <2> QED
    BY <2>2, <2>3, Positions DEF StatusInv, AskedAhead, TypeOK
<1> QED
  BY <1>1, StatusInvariant, PTL DEF Spec, ForwardIfShownRight
=============================================================================
