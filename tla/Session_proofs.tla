---------------------------- MODULE Session_proofs ----------------------------
(***************************************************************************)
(* Proofs about Session: typing, and that the pages, the profiles and the  *)
(* emails are those of the signed-in account as long as no two accounts'   *)
(* attempts met, for any accounts, taps and changes of an email.  At the   *)
(* end, about Expiry: a check cancels no order younger than 15 minutes.    *)
(***************************************************************************)
EXTENDS Session, Expiry, TLAPS

Outside == {"LogIn", "SignUp"}

\* The attempts under way are of one account; it is signed in once Auth has
\* answered, and stored once its documents are looked up.
SignsIn ==
    /\ \A t, u \in attempts : t.of = u.of
    /\ \A t \in attempts :
          /\ t.at \in {"created", "signedIn", "Member", "Courier"} => auth = t.of
          /\ t.at \in {"Member", "Courier"} => id = t.of

\* The pages behind the login are those of the role of the account that is
\* signed in and stored, and attempts still under way are its own.
InRole ==
    page \notin Outside =>
       /\ id \in Account /\ auth = id /\ type = Role[id]
       /\ page \in {HomeOf[type], ProfileOf[type], "AboutUs"}
       /\ \A t \in attempts : t.of = id

\* Blocks that write a token are queued behind the login, for the right role.
Queued ==
    registers # <<>> =>
       page \notin Outside /\ \A i \in 1 .. Len(registers) : registers[i] = Role[id]

OwnProfile ==
    page \in {ProfileOf[c] : c \in Collection} => profileOf \in {none, id}

\* ProfilesOfRole, without its condition.
RightDocs ==
    /\ \A c \in Collection : \A a \in docs[c] : Role[a] = c
    /\ \A a \in registered :
          \/ a \in docs[Role[a]] \/ a \in cut
          \/ \E t \in attempts : t.of = a /\ t.at = "created"

InOrder == SignsIn /\ InRole /\ Queued /\ OwnProfile /\ RightDocs

\* Edits have emails of their own, none later than the last.
EditsCounted ==
    /\ \A e \in edits : e.to <= changes
    /\ \A e, f \in edits : e.to = f.to => e = f
    /\ \A a \in Account : address[a] <= changes

\* An edit is of a member's own profile.  Auth has not reached those it did not
\* take, and the profile has not reached those it did.
EditsAhead ==
    \A e \in edits :
       /\ e.user = e.doc /\ Role[e.user] = "Member"
       /\ ~e.taken => address[e.user] < e.to
       /\ e.taken => shown[e.user] < e.to /\ e.to <= address[e.user]

\* A member's profile shows his address, or the change that made it is under
\* way or was cut short.
ShowsAddress ==
    \A a \in Account : Role[a] = "Member" =>
       /\ shown[a] <= address[a]
       /\ \/ shown[a] = address[a] \/ a \in cut
          \/ \E e \in edits : e.user = a /\ e.taken /\ e.to = address[a]

SessionInv ==
    /\ TypeOK /\ EditsCounted /\ StopsOnlyCrossed
    /\ ~crossed => InOrder /\ EditsAhead /\ ShowsAddress

-----------------------------------------------------------------------------
LEMMA Pages ==
    /\ Collection = {"Member", "Courier"}
    /\ HomeOf["Member"] = "HomePageM" /\ HomeOf["Courier"] = "HomePageC"
    /\ ProfileOf["Member"] = "ViewProfileM" /\ ProfileOf["Courier"] = "ViewProfileC"
BY DEF Collection, HomeOf, ProfileOf

LEMMA PagesOfRoles ==
    /\ {ProfileOf[c] : c \in Collection} = {"ViewProfileM", "ViewProfileC"}
    /\ \A c \in Collection :
          /\ HomeOf[c] \in {"HomePageM", "HomePageC"}
          /\ ProfileOf[c] \in {"ViewProfileM", "ViewProfileC"}
          /\ HomeOf[c] \in Page /\ ProfileOf[c] \in Page
BY Pages DEF Page

LEMMA RoleOf ==
    /\ none \notin Account
    /\ \A a \in Account : Role[a] \in Collection
    /\ MaxTaps \in Nat /\ MaxEdits \in Nat
BY SessionAssumption

\* An attempt that goes on is an attempt.
LEMMA Attempts ==
    /\ \A t \in Attempt : t.n \in 1..MaxTaps /\ t.of \in Account /\ t.at \in Stage
    /\ \A n \in 1..MaxTaps, a \in Account, s \in Stage :
          LET u == [n |-> n, of |-> a, at |-> s]
          IN  u \in Attempt /\ u.of = a /\ u.at = s
    /\ \A t \in Attempt, s \in Stage :
          LET u == [t EXCEPT !.at = s]
          IN  u \in Attempt /\ u.of = t.of /\ u.at = s
    /\ \A t \in Attempt, a \in Account, s \in Stage :
          LET u == [t EXCEPT !.of = a, !.at = s]
          IN  u \in Attempt /\ u.of = a /\ u.at = s
BY DEF Attempt

\* An edit that Auth took, or a new one.
LEMMA Edits ==
    /\ \A e \in Edit : e.user \in Account /\ e.doc \in Account /\ e.to \in 1..MaxEdits
    /\ \A e \in Edit : e.taken \in BOOLEAN
    /\ \A a, d \in Account, n \in 1..MaxEdits :
          LET f == [user |-> a, doc |-> d, to |-> n, taken |-> FALSE]
          IN  f \in Edit /\ f.user = a /\ f.doc = d /\ f.to = n
    /\ \A a, d \in Account, n \in 1..MaxEdits :
          LET f == [user |-> a, doc |-> d, to |-> n, taken |-> FALSE]
          IN  f.taken = FALSE
    /\ \A e \in Edit :
          LET f == [e EXCEPT !.taken = TRUE]
          IN  f \in Edit /\ f.user = e.user /\ f.doc = e.doc /\ f.to = e.to
    /\ \A e \in Edit :
          LET f == [e EXCEPT !.taken = TRUE]
          IN  f.taken = TRUE
<1>1. \A e \in Edit : e.user \in Account /\ e.doc \in Account /\ e.to \in 1..MaxEdits
  BY DEF Edit
<1>2. \A e \in Edit : e.taken \in BOOLEAN
  BY Zenon DEF Edit
<1>3. \A a, d \in Account, n \in 1..MaxEdits :
          LET f == [user |-> a, doc |-> d, to |-> n, taken |-> FALSE]
          IN  f \in Edit /\ f.user = a /\ f.doc = d /\ f.to = n
  BY DEF Edit
<1>4. \A a, d \in Account, n \in 1..MaxEdits :
          LET f == [user |-> a, doc |-> d, to |-> n, taken |-> FALSE]
          IN  f.taken = FALSE
  BY Zenon
<1>5. \A e \in Edit :
          LET f == [e EXCEPT !.taken = TRUE]
          IN  f \in Edit /\ f.user = e.user /\ f.doc = e.doc /\ f.to = e.to
  BY DEF Edit
<1>6. \A e \in Edit :
          LET f == [e EXCEPT !.taken = TRUE]
          IN  f.taken = TRUE
  BY Zenon DEF Edit
<1> QED
  BY <1>1, <1>2, <1>3, <1>4, <1>5, <1>6

\* The queue with one more, or without its first.
LEMMA Queues ==
    ASSUME NEW s \in Seq(Collection), NEW c \in Collection
    PROVE  /\ Append(s, c) \in Seq(Collection) /\ Append(s, c) # <<>>
           /\ \A i \in 1 .. Len(Append(s, c)) :
                 Append(s, c)[i] = c \/ (s # <<>> /\ i \in 1 .. Len(s) /\ Append(s, c)[i] = s[i])
           /\ s # <<>> =>
                 /\ Tail(s) \in Seq(Collection)
                 /\ Head(s) = s[1] /\ 1 \in 1 .. Len(s) /\ s[1] \in Collection
                 /\ \A i \in 1 .. Len(Tail(s)) : i + 1 \in 1 .. Len(s) /\ Tail(s)[i] = s[i + 1]
OBVIOUS

-----------------------------------------------------------------------------
(* Typing.                                                                 *)

LEMMA Counters ==
    ASSUME TypeOK
    PROVE  /\ taps \in 0..MaxTaps /\ taps \in Nat
           /\ changes \in 0..MaxEdits /\ changes \in Nat
<1>1. taps \in 0..MaxTaps /\ changes \in 0..MaxEdits
  BY DEF TypeOK
<1> QED
  BY <1>1, RoleOf

LEMMA AnswersTyping ==
    ASSUME TypeOK, NEW t \in attempts, NEW to \in SUBSET Attempt, Answers(t, to)
    PROVE  /\ attempts' \subseteq Attempt
           /\ UNCHANGED <<taps, changes, edits, stopped, crossed>>
BY DEF Answers, TypeOK, mail

LEMMA EnterTyping ==
    ASSUME TypeOK, NEW c \in Collection, Enter(c)
    PROVE  type' \in Collection \cup {""} /\ page' \in Page /\ registers' \in Seq(Collection)
<1>1. registers \in Seq(Collection)
  BY DEF TypeOK
<1> QED
  BY <1>1, PagesOfRoles, Queues DEF Enter

LEMMA DocumentTyping ==
    ASSUME TypeOK, NEW c \in Collection, NEW a \in Account, Document(c, a)
    PROVE  docs' \in [Collection -> SUBSET Account]
BY DEF Document, TypeOK

LEMMA Typed == ASSUME TypeOK, [Next]_vars PROVE TypeOK'
<1>1. ASSUME NEW a \in Account, LogIn(a) \/ SignUp(a) PROVE TypeOK'
  <2>1. PICK s \in Stage : Start(a, s)
    BY <1>1 DEF LogIn, SignUp, Stage
  <2>2. /\ taps < MaxTaps /\ taps' = taps + 1
        /\ attempts' = attempts \cup {[n |-> taps + 1, of |-> a, at |-> s]}
        /\ crossed' \in BOOLEAN
        /\ UNCHANGED <<registered, docs, address, shown, auth, id, type, page, profileOf,
                       registers, changes, edits, stopped, cut>>
    <3>1. crossed' \in BOOLEAN
      BY <2>1, Zenon DEF Start
    <3> QED
      BY <2>1, <3>1 DEF Start, cloud, defaults, screen, mail
  <2>3. taps + 1 \in 1..MaxTaps /\ taps' \in 0..MaxTaps
    <3>1. taps < MaxTaps /\ taps' = taps + 1
      BY <2>2
    <3> QED
      BY <3>1, Counters, RoleOf
  <2>4. attempts' \subseteq Attempt
    <3>1. [n |-> taps + 1, of |-> a, at |-> s] \in Attempt
      BY <2>3, Attempts
    <3>2. attempts \subseteq Attempt
      BY DEF TypeOK
    <3> QED
      BY <2>2, <3>1, <3>2
  <2> QED
    BY <2>2, <2>3, <2>4 DEF TypeOK
<1>2. ASSUME SignUpButton \/ ArrowBack \/ AboutUs PROVE TypeOK'
  BY <1>2 DEF SignUpButton, ArrowBack, AboutUs, Turn, cloud, defaults, mail, TypeOK, Page
<1>3. ASSUME NEW c \in Collection, Home(c) PROVE TypeOK'
  BY <1>3, PagesOfRoles DEF Home, Turn, cloud, defaults, mail, TypeOK
<1>4. ASSUME NEW c \in Collection, Profile(c) PROVE TypeOK'
  <2>1. stopped' \in BOOLEAN
    BY <1>4, Zenon DEF Profile
  <2>2. page' \in Page /\ profileOf' \in Account \cup {none}
    BY <1>4, PagesOfRoles DEF Profile, TypeOK
  <2>3. UNCHANGED <<registered, docs, address, shown, auth, id, type, taps, attempts,
                    registers, changes, edits, crossed, cut>>
    BY <1>4 DEF Profile, cloud, defaults, mail
  <2> QED
    BY <2>1, <2>2, <2>3 DEF TypeOK
<1>5. ASSUME Logout PROVE TypeOK'
  <2>1. crossed' \in BOOLEAN
    BY <1>5, Zenon DEF Logout
  <2>2. /\ auth' = none /\ id' = none /\ type' = "" /\ page' = "LogIn"
        /\ UNCHANGED <<registered, docs, address, shown, profileOf, taps, attempts, registers,
                       changes, edits, stopped, cut>>
    BY <1>5 DEF Logout, cloud, mail
  <2> QED
    BY <2>1, <2>2 DEF TypeOK, Page
<1>6. ASSUME NEW t \in attempts, AuthAnswers(t) PROVE TypeOK'
  <2>1. t \in Attempt /\ [t EXCEPT !.at = "signedIn"] \in Attempt /\ t.of \in Account
    BY Attempts DEF TypeOK, Stage
  <2>2. attempts' \subseteq Attempt /\ UNCHANGED <<taps, changes, edits, stopped, crossed>>
    BY <1>6, <2>1, AnswersTyping DEF AuthAnswers
  <2>3. auth' \in Account \cup {none}
    BY <1>6, <2>1 DEF AuthAnswers, TypeOK
  <2>4. UNCHANGED <<registered, docs, address, shown, id, type, page, profileOf, registers, cut>>
    BY <1>6 DEF AuthAnswers, cloud, defaults, screen
  <2> QED
    BY <2>2, <2>3, <2>4 DEF TypeOK
<1>7. ASSUME NEW t \in attempts, SignedIn(t) PROVE TypeOK'
  <2>1. t \in Attempt /\ \A a \in Account : [t EXCEPT !.of = a, !.at = "Member"] \in Attempt
    BY Attempts DEF TypeOK, Stage
  <2>2. attempts' \subseteq Attempt /\ UNCHANGED <<taps, changes, edits, stopped, crossed>>
    <3>1. CASE auth = none
      BY <1>7, <3>1, AnswersTyping DEF SignedIn
    <3>2. CASE auth # none
      BY <1>7, <2>1, <3>2, AnswersTyping DEF SignedIn, TypeOK
    <3> QED
      BY <3>1, <3>2
  <2>3. id' \in Account \cup {none}
    BY <1>7 DEF SignedIn, TypeOK
  <2>4. UNCHANGED <<registered, docs, address, shown, auth, type, page, profileOf, registers, cut>>
    BY <1>7 DEF SignedIn, cloud, screen
  <2> QED
    BY <2>2, <2>3, <2>4 DEF TypeOK
<1>8. ASSUME NEW t \in attempts, ReadMember(t) \/ ReadCourier(t) PROVE TypeOK'
  <2>1. t \in Attempt /\ [t EXCEPT !.at = "Courier"] \in Attempt
    BY Attempts DEF TypeOK, Stage
  <2>2. attempts' \subseteq Attempt /\ UNCHANGED <<taps, changes, edits, stopped, crossed>>
    BY <1>8, <2>1, AnswersTyping DEF ReadMember, ReadCourier
  <2>3. type' \in Collection \cup {""} /\ page' \in Page /\ registers' \in Seq(Collection)
    <3>1. UNCHANGED <<type, page, registers>> \/ \E c \in Collection : Enter(c)
      BY <1>8, Pages DEF ReadMember, ReadCourier
    <3> QED
      BY <3>1, EnterTyping DEF TypeOK
  <2>4. UNCHANGED <<registered, docs, address, shown, auth, id, profileOf, cut>>
    BY <1>8 DEF ReadMember, ReadCourier, cloud
  <2> QED
    BY <2>2, <2>3, <2>4 DEF TypeOK
<1>9. ASSUME NEW t \in attempts, AuthCreates(t) PROVE TypeOK'
  <2>1. t \in Attempt /\ [t EXCEPT !.at = "created"] \in Attempt /\ t.of \in Account
    BY Attempts DEF TypeOK, Stage
  <2>2. attempts' \subseteq Attempt /\ UNCHANGED <<taps, changes, edits, stopped, crossed>>
    BY <1>9, <2>1, AnswersTyping DEF AuthCreates
  <2>3. auth' \in Account \cup {none} /\ registered' \subseteq Account /\ cut' \subseteq Account
    BY <1>9, <2>1 DEF AuthCreates, TypeOK
  <2>4. UNCHANGED <<docs, address, shown, id, type, page, profileOf, registers>>
    BY <1>9 DEF AuthCreates, defaults, screen
  <2> QED
    BY <2>2, <2>3, <2>4 DEF TypeOK
<1>10. ASSUME NEW t \in attempts, SignedUp(t) PROVE TypeOK'
  <2>1. t \in Attempt /\ Role[t.of] \in Collection
    BY Attempts, RoleOf DEF TypeOK
  <2>2. attempts' \subseteq Attempt /\ UNCHANGED <<taps, changes, edits, stopped, crossed>>
    BY <1>10, AnswersTyping DEF SignedUp
  <2>3. /\ docs' \in [Collection -> SUBSET Account] /\ id' \in Account \cup {none}
        /\ type' \in Collection \cup {""} /\ page' \in Page /\ registers' \in Seq(Collection)
    <3>1. CASE auth = none
      BY <1>10, <3>1 DEF SignedUp, defaults, TypeOK
    <3>2. CASE auth # none
      <4>1. auth \in Account /\ id' = auth /\ Document(Role[t.of], auth) /\ Enter(Role[t.of])
        BY <1>10, <3>2 DEF SignedUp, TypeOK
      <4> QED
        BY <2>1, <4>1, DocumentTyping, EnterTyping
    <3> QED
      BY <3>1, <3>2
  <2>4. UNCHANGED <<registered, address, shown, auth, profileOf, cut>>
    BY <1>10 DEF SignedUp
  <2> QED
    BY <2>2, <2>3, <2>4 DEF TypeOK
<1>11. ASSUME Register PROVE TypeOK'
  <2>1. registers \in Seq(Collection) /\ registers # <<>>
    BY <1>11 DEF Register, TypeOK
  <2>2. registers' \in Seq(Collection) /\ Head(registers) \in Collection
    BY <1>11, <2>1, Queues, Pages DEF Register
  <2>3. docs' \in [Collection -> SUBSET Account]
    <3>1. CASE id = none
      BY <1>11, <3>1 DEF Register, TypeOK
    <3>2. CASE id # none
      <4>1. id \in Account /\ Document(Head(registers), id)
        BY <1>11, <3>2 DEF Register, TypeOK
      <4> QED
        BY <2>2, <4>1, DocumentTyping
    <3> QED
      BY <3>1, <3>2
  <2>4. stopped' \in BOOLEAN
    BY <1>11, Zenon DEF Register
  <2>5. UNCHANGED <<registered, address, shown, auth, id, type, page, profileOf, taps, attempts,
                    changes, edits, crossed, cut>>
    BY <1>11 DEF Register, defaults, screen, mail
  <2> QED
    BY <2>2, <2>3, <2>4, <2>5 DEF TypeOK
<1>12. ASSUME EditMember PROVE TypeOK'
  <2>1. /\ changes < MaxEdits /\ changes' = changes + 1
        /\ edits' = edits \cup {[user |-> auth, doc |-> profileOf, to |-> changes + 1,
                                 taken |-> FALSE]}
        /\ auth \in Account /\ profileOf \in Account
        /\ UNCHANGED <<registered, docs, address, shown, auth, id, type, page, profileOf, taps,
                       attempts, registers, stopped, crossed, cut>>
    BY <1>12 DEF EditMember, cloud, defaults, screen, TypeOK
  <2>2. changes + 1 \in 1..MaxEdits /\ changes' \in 0..MaxEdits
    <3>1. changes < MaxEdits /\ changes' = changes + 1
      BY <2>1
    <3> QED
      BY <3>1, Counters, RoleOf
  <2>3. edits' \subseteq Edit
    <3>1. [user |-> auth, doc |-> profileOf, to |-> changes + 1, taken |-> FALSE] \in Edit
      BY <2>1, <2>2, Edits
    <3>2. edits \subseteq Edit
      BY DEF TypeOK
    <3> QED
      BY <2>1, <3>1, <3>2
  <2> QED
    BY <2>1, <2>2, <2>3 DEF TypeOK
<1>13. ASSUME EditCourier PROVE TypeOK'
  <2>1. /\ changes < MaxEdits /\ changes' = changes + 1
        /\ shown' = [a \in Account |-> IF a = profileOf THEN changes + 1 ELSE shown[a]]
        /\ UNCHANGED <<registered, docs, address, auth, id, type, page, profileOf, taps,
                       attempts, registers, edits, crossed, cut>>
    BY <1>13 DEF EditCourier, defaults, screen
  <2>2. changes' \in 0..MaxEdits
    <3>1. changes < MaxEdits /\ changes' = changes + 1
      BY <2>1
    <3> QED
      BY <3>1, Counters, RoleOf
  <2>3. shown' \in [Account -> 0..MaxEdits]
    BY <2>1, <2>2 DEF TypeOK
  <2>4. stopped' \in BOOLEAN
    BY <1>13, Zenon DEF EditCourier
  <2> QED
    BY <2>1, <2>2, <2>3, <2>4 DEF TypeOK
<1>14. ASSUME NEW e \in edits, AuthTakes(e) PROVE TypeOK'
  <2>1. /\ e \in Edit /\ e.user \in Account /\ e.to \in 0..MaxEdits
        /\ [e EXCEPT !.taken = TRUE] \in Edit
    <3>1. e \in Edit
      BY DEF TypeOK
    <3>2. e.user \in Account /\ e.to \in 1..MaxEdits /\ [e EXCEPT !.taken = TRUE] \in Edit
      BY <3>1, Edits
    <3> QED
      BY <3>1, <3>2, RoleOf
  <2>2. edits' \subseteq Edit
    BY <1>14, <2>1 DEF AuthTakes, TypeOK
  <2>3. address' \in [Account -> 0..MaxEdits] /\ cut' \subseteq Account
    BY <1>14, <2>1 DEF AuthTakes, TypeOK
  <2>4. UNCHANGED <<registered, docs, shown, auth, id, type, page, profileOf, taps, attempts,
                    registers, changes, stopped, crossed>>
    BY <1>14 DEF AuthTakes, defaults, screen
  <2> QED
    BY <2>2, <2>3, <2>4 DEF TypeOK
<1>15. ASSUME NEW e \in edits, EmailTaken(e) PROVE TypeOK'
  <2>1. e \in Edit /\ e.to \in 0..MaxEdits
    <3>1. e \in Edit
      BY DEF TypeOK
    <3>2. e.to \in 1..MaxEdits
      BY <3>1, Edits
    <3> QED
      BY <3>1, <3>2, RoleOf
  <2>2. /\ shown' = [shown EXCEPT ![e.doc] = e.to] /\ edits' \subseteq edits
        /\ UNCHANGED <<registered, docs, address, auth, id, type, page, profileOf, taps,
                       attempts, registers, changes, stopped, crossed, cut>>
    BY <1>15 DEF EmailTaken, defaults, screen
  <2> QED
    BY <2>1, <2>2 DEF TypeOK
<1>16. ASSUME Relaunch PROVE TypeOK'
  <2>1. cut' \subseteq Account
    <3>1. /\ \A t \in attempts : t.of \in Account
          /\ \A e \in edits : e.user \in Account
      BY Attempts, Edits DEF TypeOK
    <3> QED
      BY <1>16, <3>1 DEF Relaunch, TypeOK
  <2>2. /\ page' = "LogIn" /\ profileOf' = none /\ attempts' = {} /\ registers' = <<>>
        /\ edits' = {} /\ stopped' = FALSE
        /\ UNCHANGED <<registered, docs, address, shown, auth, id, type, taps, changes, crossed>>
    BY <1>16 DEF Relaunch, cloud, defaults
  <2>3. attempts' \subseteq Attempt /\ edits' \subseteq Edit /\ registers' \in Seq(Collection)
    BY <2>2
  <2> QED
    BY <2>1, <2>2, <2>3 DEF TypeOK, Page
<1>17. ASSUME UNCHANGED vars PROVE TypeOK'
  BY <1>17 DEF vars, cloud, defaults, screen, mail, TypeOK
<1> QED
  BY <1>1, <1>2, <1>3, <1>4, <1>5, <1>6, <1>7, <1>8, <1>9, <1>10, <1>11, <1>12, <1>13, <1>14,
     <1>15, <1>16, <1>17 DEF Next

-----------------------------------------------------------------------------
(* Pages, roles and profiles, while no two accounts' attempts met.         *)

\* The tab bars lead to pages of the stored role.
LEMMA RoleOfPage ==
    ASSUME TypeOK, InRole, NEW c \in Collection, page \in PagesOf(c)
    PROVE  page \notin Outside /\ type = c
<1>1. page \notin Outside
  BY Pages DEF PagesOf, Outside
<1>2. page \in {HomeOf[type], ProfileOf[type], "AboutUs"} /\ type \in Collection
  BY <1>1, RoleOf DEF InRole
<1>3. CASE page = "AboutUs"
  <2>1. AboutRole = type
    BY <1>2, Pages DEF AboutRole
  <2>2. c = AboutRole
    BY <1>3, Pages DEF PagesOf
  <2> QED
    BY <1>1, <2>1, <2>2
<1>4. CASE page # "AboutUs"
  <2>1. page \in {HomeOf[c], ProfileOf[c]} /\ page \in {HomeOf[type], ProfileOf[type]}
    BY <1>2, <1>4 DEF PagesOf
  <2> QED
    BY <1>1, <1>2, <2>1, Pages
<1> QED
  BY <1>3, <1>4

\* From a page of the role to another, or to a page outside.
LEMMA PagesStep ==
    ASSUME TypeOK, InOrder, registers = <<>>,
           UNCHANGED <<registered, docs, auth, id, type, attempts, registers, cut>>,
           \/ page' \in Outside
           \/ page \notin Outside /\ page' \in {"AboutUs", HomeOf[type]}
           \/ page \notin Outside /\ page' = ProfileOf[type] /\ profileOf' \in {none, id}
    PROVE  InOrder'
<1> USE DEF InOrder
<1>1. SignsIn' /\ Queued' /\ RightDocs'
  BY DEF SignsIn, Queued, RightDocs
<1>2. InRole'
  BY DEF InRole
<1>3. OwnProfile'
  <2>1. CASE page' \in Outside
    BY <2>1, PagesOfRoles DEF OwnProfile, Outside
  <2>2. CASE page \notin Outside /\ page' \in {"AboutUs", HomeOf[type]}
    <3>1. type \in Collection
      BY <2>2, RoleOf DEF InRole
    <3> QED
      BY <2>2, <3>1, PagesOfRoles DEF OwnProfile
  <2>3. CASE profileOf' \in {none, id}
    BY <2>3 DEF OwnProfile
  <2> QED
    BY <2>1, <2>2, <2>3
<1> QED
  BY <1>1, <1>2, <1>3

LEMMA TurnStep ==
    ASSUME TypeOK, InOrder,
           SignUpButton \/ ArrowBack \/ AboutUs \/ \E c \in Collection : Home(c)
    PROVE  InOrder'
<1> USE DEF InOrder
<1>1. CASE SignUpButton \/ ArrowBack
  BY <1>1, PagesStep DEF SignUpButton, ArrowBack, Turn, Idle, cloud, defaults, Outside
<1>2. CASE AboutUs
  BY <1>2, PagesStep DEF AboutUs, Turn, Idle, cloud, defaults, Outside
<1>3. ASSUME NEW c \in Collection, Home(c) PROVE InOrder'
  <2>1. page \notin Outside /\ type = c
    BY <1>3, RoleOfPage DEF Home, Turn
  <2> QED
    BY <1>3, <2>1, PagesStep DEF Home, Turn, Idle, cloud, defaults
<1> QED
  BY <1>1, <1>2, <1>3

LEMMA ProfileStep ==
    ASSUME TypeOK, InOrder, NEW c \in Collection, Profile(c)
    PROVE  InOrder' /\ ~stopped'
<1>1. page \notin Outside /\ type = c
  BY RoleOfPage DEF Profile, InOrder
<1>2. id # none
  BY <1>1, RoleOf DEF InOrder, InRole
<1>3. ~stopped'
  BY <1>2 DEF Profile
<1>4. InOrder'
  BY <1>1, PagesStep DEF Profile, Idle, cloud, defaults
<1> QED
  BY <1>3, <1>4

\* A tap starts an attempt of the same account as those under way.
LEMMA StartStep ==
    ASSUME TypeOK, InOrder, NEW a \in Account, LogIn(a) \/ SignUp(a), ~crossed'
    PROVE  InOrder'
<1>1. PICK s \in {"signIn", "create"} : Start(a, s)
  BY DEF LogIn, SignUp
<1>2. page \in Outside
  BY DEF LogIn, SignUp, Outside
<1> DEFINE u == [n |-> taps + 1, of |-> a, at |-> s]
<1>3. /\ attempts' = attempts \cup {u} /\ registers = <<>>
      /\ UNCHANGED <<registered, docs, auth, id, type, page, profileOf, registers, cut>>
  BY <1>1 DEF Start, Idle, cloud, defaults, screen
<1>4. \A t \in attempts : t.of = a
  BY <1>1 DEF Start
<1>5. u.of = a /\ u.at = s
  OBVIOUS
<1>6. \A t \in attempts' : t \in attempts \/ t = u
  BY <1>3
<1>7. SignsIn'
  <2>1. \A t \in attempts' : t.of = a
    BY <1>4, <1>5, <1>6
  <2>2. \A t \in attempts' :
           /\ t.at \in {"created", "signedIn", "Member", "Courier"} => auth = t.of
           /\ t.at \in {"Member", "Courier"} => id = t.of
    BY <1>1, <1>5, <1>6 DEF InOrder, SignsIn
  <2> QED
    BY <1>3, <2>1, <2>2 DEF SignsIn
<1>8. InRole' /\ Queued' /\ OwnProfile'
  BY <1>2, <1>3 DEF InOrder, InRole, Queued, OwnProfile
<1>9. RightDocs'
  BY <1>3 DEF InOrder, RightDocs
<1> QED
  BY <1>7, <1>8, <1>9 DEF InOrder

LEMMA LogoutStep ==
    ASSUME TypeOK, InOrder, Logout, ~crossed'
    PROVE  InOrder'
<1>1. /\ page' = "LogIn" /\ attempts = {} /\ registers = <<>>
      /\ UNCHANGED <<registered, docs, attempts, registers, cut>>
  BY DEF Logout, Idle, cloud
<1>2. SignsIn' /\ InRole' /\ Queued'
  BY <1>1 DEF SignsIn, InRole, Queued, Outside
<1>3. OwnProfile'
  BY <1>1, PagesOfRoles DEF OwnProfile
<1>4. RightDocs'
  BY <1>1 DEF InOrder, RightDocs
<1> QED
  BY <1>2, <1>3, <1>4 DEF InOrder

\* An attempt that ends, or goes on, with Auth and the id as it says.
LEMMA GoesOn ==
    ASSUME TypeOK, InOrder, NEW t \in attempts, NEW to,
           attempts' = (attempts \ {t}) \cup to,
           \A u \in to : /\ u.of = t.of
                         /\ u.at \in {"created", "signedIn", "Member", "Courier"} => auth' = t.of
                         /\ u.at \in {"Member", "Courier"} => id' = t.of,
           auth' \in {auth, t.of}, id' \in {id, t.of},
           UNCHANGED <<type, page, profileOf, registers>>
    PROVE  SignsIn' /\ InRole' /\ Queued' /\ OwnProfile'
<1>1. \A u \in attempts' : u.of = t.of
  BY DEF InOrder, SignsIn
<1>2. \A u \in attempts' :
         /\ u.at \in {"created", "signedIn", "Member", "Courier"} => auth' = u.of
         /\ u.at \in {"Member", "Courier"} => id' = u.of
  <2> SUFFICES ASSUME NEW u \in attempts'
               PROVE  /\ u.at \in {"created", "signedIn", "Member", "Courier"} => auth' = u.of
                      /\ u.at \in {"Member", "Courier"} => id' = u.of
    OBVIOUS
  <2>1. CASE u \in to
    BY <2>1
  <2>2. CASE u \in attempts
    <3>1. u.of = t.of
      BY <1>1
    <3> QED
      BY <2>2, <3>1 DEF InOrder, SignsIn
  <2> QED
    BY <2>1, <2>2
<1>3. SignsIn'
  BY <1>1, <1>2 DEF SignsIn
<1>4. ASSUME page \notin Outside PROVE auth' = auth /\ id' = id /\ t.of = id
  BY <1>4 DEF InOrder, InRole
<1>5. InRole'
  BY <1>1, <1>4 DEF InOrder, InRole
<1>6. Queued'
  <2>1. registers # <<>> => page \notin Outside /\ id' = id
    BY <1>4 DEF InOrder, Queued
  <2> QED
    BY <2>1 DEF InOrder, Queued
<1>7. OwnProfile'
  <2>1. page \in {ProfileOf[c] : c \in Collection} => page \notin Outside
    BY PagesOfRoles DEF Outside
  <2> QED
    BY <1>4, <2>1 DEF InOrder, OwnProfile
<1> QED
  BY <1>3, <1>5, <1>6, <1>7

\* An attempt that ends on the home page of its account's role.
LEMMA Enters ==
    ASSUME TypeOK, InOrder, NEW t \in attempts, attempts' = attempts \ {t},
           auth = t.of, UNCHANGED auth, id' = t.of, Enter(Role[t.of])
    PROVE  SignsIn' /\ InRole' /\ Queued' /\ OwnProfile'
<1>1. t.of \in Account /\ Role[t.of] \in Collection
  BY Attempts, RoleOf DEF TypeOK
<1>2. /\ type' = Role[t.of] /\ page' = HomeOf[Role[t.of]]
      /\ registers' = Append(registers, Role[t.of])
  BY DEF Enter
<1>3. page' \notin Outside /\ page' \notin {ProfileOf[c] : c \in Collection}
  BY <1>1, <1>2, PagesOfRoles DEF Outside
<1>4. \A u \in attempts' : u.of = t.of
  BY DEF InOrder, SignsIn
<1>5. SignsIn'
  BY <1>4 DEF SignsIn
<1>6. InRole'
  BY <1>1, <1>2, <1>4 DEF InRole
<1>7. Queued'
  <2>1. registers \in Seq(Collection)
    BY DEF TypeOK
  <2>2. registers # <<>> => \A i \in 1 .. Len(registers) : registers[i] = Role[t.of]
    <3>1. registers # <<>> => id = t.of
      BY DEF InOrder, Queued, InRole
    <3> QED
      BY <3>1 DEF InOrder, Queued
  <2>3. \A i \in 1 .. Len(registers') : registers'[i] = Role[t.of]
    BY <1>1, <1>2, <2>1, <2>2, Queues
  <2> QED
    BY <1>3, <2>3 DEF Queued
<1>8. OwnProfile'
  BY <1>3 DEF OwnProfile
<1> QED
  BY <1>5, <1>6, <1>7, <1>8

\* What an attempt that is not writing a profile does to the documents.
LEMMA DocsKept ==
    ASSUME RightDocs, NEW t \in attempts, t.at # "created", attempts \ {t} \subseteq attempts',
           UNCHANGED <<registered, docs, cut>>
    PROVE  RightDocs'
<1>1. \A u \in attempts : u.at = "created" => u \in attempts'
  OBVIOUS
<1> QED
  BY <1>1 DEF RightDocs

\* The steps of a login and of a sign-up.
LEMMA AttemptStep ==
    ASSUME TypeOK, InOrder, NEW t \in attempts,
           \/ AuthAnswers(t) \/ SignedIn(t) \/ ReadMember(t) \/ ReadCourier(t)
           \/ AuthCreates(t) \/ SignedUp(t)
    PROVE  InOrder'
<1> USE DEF InOrder
<1>1. t \in Attempt /\ t.of \in Account /\ Role[t.of] \in Collection
  BY Attempts, RoleOf DEF TypeOK
<1>2. CASE AuthAnswers(t)
  <2> DEFINE u == [t EXCEPT !.at = "signedIn"]
  <2>1. u.of = t.of /\ u.at = "signedIn"
    BY <1>1, Attempts DEF Stage
  <2>2. UNCHANGED <<registered, docs, id, type, page, profileOf, registers, cut>> /\ t.at = "signIn"
    BY <1>2 DEF AuthAnswers, cloud, defaults, screen
  <2>3. PICK to \in {{}, {u}} :
           attempts' = (attempts \ {t}) \cup to /\ auth' \in {auth, t.of} /\ (to # {} => auth' = t.of)
    BY <1>2 DEF AuthAnswers, Answers
  <2>4. SignsIn' /\ InRole' /\ Queued' /\ OwnProfile'
    BY <2>1, <2>2, <2>3, GoesOn
  <2>5. RightDocs'
    BY <2>2, <2>3, DocsKept
  <2> QED
    BY <2>4, <2>5
<1>3. CASE SignedIn(t)
  <2> DEFINE u == [t EXCEPT !.of = auth, !.at = "Member"]
  <2>1. auth = t.of /\ auth # none /\ t.at = "signedIn"
    BY <1>1, <1>3, RoleOf DEF SignedIn, SignsIn
  <2>2. u.of = t.of /\ u.at = "Member"
    <3>1. auth \in Account /\ "Member" \in Stage
      BY <1>1, <2>1 DEF Stage
    <3>2. u.of = auth /\ u.at = "Member"
      BY <1>1, <3>1 DEF Attempt
    <3> QED
      BY <2>1, <3>2
  <2>3. /\ attempts' = (attempts \ {t}) \cup {u} /\ id' = t.of
        /\ UNCHANGED <<registered, docs, auth, type, page, profileOf, registers, cut>>
    BY <1>3, <2>1 DEF SignedIn, Answers, cloud, screen
  <2>4. SignsIn' /\ InRole' /\ Queued' /\ OwnProfile'
    <3> DEFINE to == {u}
    <3>1. \A v \in to : /\ v.of = t.of
                        /\ v.at \in {"created", "signedIn", "Member", "Courier"} => auth' = t.of
                        /\ v.at \in {"Member", "Courier"} => id' = t.of
      BY <2>1, <2>2, <2>3
    <3>2. attempts' = (attempts \ {t}) \cup to /\ auth' \in {auth, t.of} /\ id' \in {id, t.of}
      BY <2>3
    <3> HIDE DEF to
    <3> QED
      BY <2>3, <3>1, <3>2, GoesOn
  <2>5. RightDocs'
    BY <2>1, <2>3, DocsKept
  <2> QED
    BY <2>4, <2>5
<1>4. CASE ReadMember(t)
  <2>1. t.at = "Member" /\ auth = t.of /\ id = t.of
    BY <1>4 DEF ReadMember, SignsIn
  <2>2. UNCHANGED <<registered, docs, auth, id, profileOf, cut>>
    BY <1>4 DEF ReadMember, cloud
  <2>3. CASE t.of \in docs["Member"] /\ Enter("Member") /\ Answers(t, {})
    <3>1. Role[t.of] = "Member"
      BY <2>3, Pages DEF RightDocs
    <3>2. attempts' = attempts \ {t}
      BY <2>3 DEF Answers
    <3> QED
      BY <2>1, <2>2, <2>3, <3>1, <3>2, Enters, DocsKept
  <2>4. CASE Answers(t, {[t EXCEPT !.at = "Courier"]}) /\ UNCHANGED <<type, page, registers>>
    <3> DEFINE u == [t EXCEPT !.at = "Courier"]
    <3>1. u.of = t.of /\ u.at = "Courier"
      BY <1>1, Attempts DEF Stage
    <3>2. attempts' = (attempts \ {t}) \cup {u}
      BY <2>4 DEF Answers
    <3>3. SignsIn' /\ InRole' /\ Queued' /\ OwnProfile'
      <4> DEFINE to == {u}
      <4>1. \A v \in to : /\ v.of = t.of
                          /\ v.at \in {"created", "signedIn", "Member", "Courier"} => auth' = t.of
                          /\ v.at \in {"Member", "Courier"} => id' = t.of
        BY <2>1, <2>2, <3>1
      <4>2. attempts' = (attempts \ {t}) \cup to /\ auth' \in {auth, t.of} /\ id' \in {id, t.of}
        BY <2>2, <3>2
      <4> HIDE DEF to
      <4> QED
        BY <2>2, <2>4, <4>1, <4>2, GoesOn
    <3> QED
      BY <2>1, <2>2, <3>2, <3>3, DocsKept
  <2> QED
    BY <1>4, <2>3, <2>4 DEF ReadMember
<1>5. CASE ReadCourier(t)
  <2>1. t.at = "Courier" /\ auth = t.of /\ id = t.of
    BY <1>5 DEF ReadCourier, SignsIn
  <2>2. UNCHANGED <<registered, docs, auth, id, profileOf, cut>> /\ attempts' = attempts \ {t}
    BY <1>5 DEF ReadCourier, Answers, cloud
  <2>3. CASE t.of \in docs["Courier"] /\ Enter("Courier")
    <3>1. Role[t.of] = "Courier"
      BY <2>3, Pages DEF RightDocs
    <3> QED
      BY <2>1, <2>2, <2>3, <3>1, Enters, DocsKept
  <2>4. CASE UNCHANGED <<type, page, registers>>
    <3>1. attempts' = (attempts \ {t}) \cup {}
      BY <2>2
    <3>2. SignsIn' /\ InRole' /\ Queued' /\ OwnProfile'
      <4> DEFINE to == {}
      <4>1. \A v \in to : /\ v.of = t.of
                          /\ v.at \in {"created", "signedIn", "Member", "Courier"} => auth' = t.of
                          /\ v.at \in {"Member", "Courier"} => id' = t.of
        OBVIOUS
      <4>2. attempts' = (attempts \ {t}) \cup to /\ auth' \in {auth, t.of} /\ id' \in {id, t.of}
        BY <2>2, <3>1
      <4> HIDE DEF to
      <4> QED
        BY <2>2, <2>4, <4>1, <4>2, GoesOn
    <3> QED
      BY <2>1, <2>2, <3>2, DocsKept
  <2> QED
    BY <1>5, <2>3, <2>4 DEF ReadCourier
<1>6. CASE AuthCreates(t)
  <2> DEFINE u == [t EXCEPT !.at = "created"]
  <2>1. u.of = t.of /\ u.at = "created"
    BY <1>1, Attempts DEF Stage
  <2>2. UNCHANGED <<docs, id, type, page, profileOf, registers>> /\ t.at = "create"
    BY <1>6 DEF AuthCreates, defaults, screen
  <2>3. PICK to \in {{}, {u}} :
           /\ attempts' = (attempts \ {t}) \cup to /\ auth' \in {auth, t.of}
           /\ to # {} => auth' = t.of
           /\ registered' \subseteq registered \cup {t.of} /\ cut \subseteq cut'
           /\ registered' = registered \/ to = {u} \/ t.of \in cut'
    BY <1>6 DEF AuthCreates, Answers
  <2>4. SignsIn' /\ InRole' /\ Queued' /\ OwnProfile'
    BY <2>1, <2>2, <2>3, GoesOn
  <2>5. \A v \in attempts : v.at = "created" => v \in attempts'
    BY <2>2, <2>3
  <2>6. ASSUME NEW a \in registered'
        PROVE  \/ a \in docs'[Role[a]] \/ a \in cut'
               \/ \E v \in attempts' : v.of = a /\ v.at = "created"
    <3>1. CASE a \in registered
      BY <2>2, <2>3, <2>5, <3>1 DEF RightDocs
    <3>2. CASE a \notin registered
      <4>1. a = t.of /\ (to = {u} \/ a \in cut')
        BY <2>3, <2>6, <3>2
      <4> QED
        BY <2>1, <2>3, <4>1
    <3> QED
      BY <3>1, <3>2
  <2>7. RightDocs'
    BY <2>2, <2>6 DEF RightDocs
  <2> QED
    BY <2>4, <2>7
<1>7. CASE SignedUp(t)
  <2>1. t.at = "created" /\ auth = t.of /\ auth # none
    BY <1>1, <1>7, RoleOf DEF SignedUp, SignsIn
  <2>2. /\ attempts' = attempts \ {t} /\ id' = t.of /\ Enter(Role[t.of])
        /\ docs' = [docs EXCEPT ![Role[t.of]] = @ \cup {t.of}]
        /\ UNCHANGED <<registered, auth, profileOf, cut>>
    BY <1>7, <2>1 DEF SignedUp, Answers, Document
  <2>3. SignsIn' /\ InRole' /\ Queued' /\ OwnProfile'
    BY <2>1, <2>2, Enters
  <2>4. /\ t.of \in docs'[Role[t.of]]
        /\ \A c \in Collection : docs[c] \subseteq docs'[c]
        /\ \A c \in Collection : \A a \in docs'[c] : a \in docs[c] \/ (a = t.of /\ c = Role[a])
    BY <1>1, <2>2 DEF TypeOK
  <2>5. \A c \in Collection : \A a \in docs'[c] : Role[a] = c
    BY <2>4 DEF RightDocs
  <2>6. ASSUME NEW a \in registered
        PROVE  \/ a \in docs'[Role[a]] \/ a \in cut
               \/ \E v \in attempts' : v.of = a /\ v.at = "created"
    <3>1. CASE a = t.of
      BY <2>4, <3>1
    <3>2. CASE a # t.of
      <4>1. a \in Account /\ Role[a] \in Collection
        BY RoleOf DEF TypeOK
      <4> QED
        BY <2>2, <2>4, <3>2, <4>1 DEF RightDocs
    <3> QED
      BY <3>1, <3>2
  <2>7. RightDocs'
    BY <2>2, <2>5, <2>6 DEF RightDocs
  <2> QED
    BY <2>3, <2>7
<1> QED
  BY <1>2, <1>3, <1>4, <1>5, <1>6, <1>7

\* The queued block finds the account whose login queued it.
LEMMA RegisterStep ==
    ASSUME TypeOK, InOrder, Register
    PROVE  InOrder' /\ ~stopped'
<1> USE DEF InOrder
<1>1. registers \in Seq(Collection) /\ registers # <<>> /\ registers' = Tail(registers)
  BY DEF Register, TypeOK
<1>2. page \notin Outside /\ id \in Account /\ id # none /\ Role[id] \in Collection
  BY <1>1, RoleOf DEF Queued, InRole
<1>3. /\ ~stopped' /\ docs' = [docs EXCEPT ![Head(registers)] = @ \cup {id}]
      /\ UNCHANGED <<registered, auth, id, type, page, profileOf, attempts, cut>>
  BY <1>2 DEF Register, Document, defaults, screen
<1>4. Head(registers) = Role[id]
  <2>1. Head(registers) = registers[1] /\ 1 \in 1 .. Len(registers)
    BY <1>1, <1>2, Queues
  <2> QED
    BY <1>1, <2>1 DEF Queued
<1>5. SignsIn' /\ InRole' /\ OwnProfile'
  BY <1>3 DEF SignsIn, InRole, OwnProfile
<1>6. Queued'
  <2>1. \A i \in 1 .. Len(Tail(registers)) :
           i + 1 \in 1 .. Len(registers) /\ Tail(registers)[i] = registers[i + 1]
    BY <1>1, <1>2, Queues
  <2> QED
    BY <1>1, <1>2, <1>3, <2>1 DEF Queued
<1>7. RightDocs'
  <2>1. /\ \A c \in Collection : docs[c] \subseteq docs'[c]
        /\ \A c \in Collection : \A a \in docs'[c] : a \in docs[c] \/ Role[a] = c
    BY <1>2, <1>3, <1>4 DEF TypeOK
  <2>2. \A a \in registered : Role[a] \in Collection
    BY RoleOf DEF TypeOK
  <2> QED
    BY <1>3, <2>1, <2>2 DEF RightDocs
<1> QED
  BY <1>3, <1>5, <1>6, <1>7

LEMMA RelaunchStep ==
    ASSUME TypeOK, InOrder, Relaunch
    PROVE  InOrder'
<1>1. /\ page' = "LogIn" /\ attempts' = {} /\ registers' = <<>>
      /\ UNCHANGED <<registered, docs>>
      /\ cut \subseteq cut' /\ \A t \in attempts : t.at = "created" => t.of \in cut'
  BY DEF Relaunch, cloud
<1>2. SignsIn' /\ InRole' /\ Queued'
  BY <1>1 DEF SignsIn, InRole, Queued, Outside
<1>3. OwnProfile'
  BY <1>1, PagesOfRoles DEF OwnProfile
<1>4. RightDocs'
  BY <1>1 DEF InOrder, RightDocs
<1> QED
  BY <1>2, <1>3, <1>4 DEF InOrder

\* An action on emails leaves the session alone.
LEMMA InOrderKept ==
    ASSUME InOrder, cut \subseteq cut',
           UNCHANGED <<registered, docs, auth, id, type, page, profileOf, attempts, registers>>
    PROVE  InOrder'
BY DEF InOrder, SignsIn, InRole, Queued, OwnProfile, RightDocs

-----------------------------------------------------------------------------
(* Emails.                                                                 *)

\* Any other action leaves the emails alone.
LEMMA EmailsKept ==
    ASSUME UNCHANGED <<address, shown, changes, edits>>
    PROVE  /\ EditsCounted => EditsCounted'
           /\ EditsAhead => EditsAhead'
           /\ ShowsAddress /\ cut \subseteq cut' => ShowsAddress'
BY DEF EditsCounted, EditsAhead, ShowsAddress

\* The email of each edit, and those in Auth and the profiles, are numbers.
LEMMA EmailNumbers ==
    ASSUME TypeOK
    PROVE  /\ \A e \in edits : e \in Edit /\ e.user \in Account /\ e.doc \in Account /\ e.to \in Nat
           /\ \A a \in Account : address[a] \in Nat /\ shown[a] \in Nat
<1>1. \A e \in edits : e \in Edit
  BY DEF TypeOK
<1>2. \A e \in edits : e.user \in Account /\ e.doc \in Account /\ e.to \in 1..MaxEdits
  BY <1>1, Edits
<1>3. \A a \in Account : address[a] \in 0..MaxEdits /\ shown[a] \in 0..MaxEdits
  BY DEF TypeOK
<1> QED
  BY <1>1, <1>2, <1>3, RoleOf

\* Whose email the profile page changes: the account's that is signed in.
LEMMA OwnPage ==
    ASSUME TypeOK, InOrder, NEW c \in Collection, page = ProfileOf[c]
    PROVE  /\ id \in Account /\ auth = id /\ Role[id] = c
           /\ profileOf \in {none, id}
<1>1. page \in PagesOf(c) /\ page \in {ProfileOf[k] : k \in Collection}
  BY DEF PagesOf
<1>2. page \notin Outside /\ type = c
  BY <1>1, RoleOfPage DEF InOrder
<1> QED
  BY <1>1, <1>2 DEF InOrder, InRole, OwnProfile

LEMMA EditMemberStep ==
    ASSUME TypeOK, EditsCounted, EditMember
    PROVE  /\ EditsCounted'
           /\ InOrder /\ EditsAhead /\ ShowsAddress => EditsAhead' /\ ShowsAddress'
<1> DEFINE f == [user |-> auth, doc |-> profileOf, to |-> changes + 1, taken |-> FALSE]
<1>1. /\ changes' = changes + 1 /\ changes < MaxEdits /\ page = "ViewProfileM"
      /\ edits' = edits \cup {f} /\ auth \in Account /\ profileOf \in Account
      /\ profileOf # none
      /\ UNCHANGED <<address, shown, cut>>
  BY DEF EditMember, cloud, TypeOK
<1>2. changes \in Nat /\ changes + 1 \in 1..MaxEdits
  BY <1>1, Counters, RoleOf
<1>3. f.user = auth /\ f.doc = profileOf /\ f.to = changes + 1
  OBVIOUS
<1>4. f.taken = FALSE
  BY Zenon
<1> HIDE DEF f
<1>5. \A e \in edits' : e \in edits \/ e = f
  BY <1>1
<1>6. EditsCounted'
  <2>1. \A e \in edits : e.to \in Nat /\ e.to <= changes
    BY EmailNumbers DEF EditsCounted
  <2>2. \A e \in edits' : e.to <= changes'
    BY <1>1, <1>2, <1>3, <1>5, <2>1
  <2>3. \A e, k \in edits' : e.to = k.to => e = k
    <3>1. \A e \in edits : e.to # f.to
      BY <1>2, <1>3, <2>1
    <3> QED
      BY <1>5, <3>1 DEF EditsCounted
  <2>4. \A a \in Account : address[a] <= changes'
    BY <1>1, <1>2, EmailNumbers DEF EditsCounted
  <2> QED
    BY <1>1, <2>2, <2>3, <2>4 DEF EditsCounted
<1>7. ASSUME InOrder, EditsAhead, ShowsAddress PROVE EditsAhead' /\ ShowsAddress'
  <2>1. f.user = f.doc /\ Role[f.user] = "Member" /\ address[f.user] < f.to
    <3>1. id \in Account /\ auth = id /\ Role[id] = "Member" /\ profileOf \in {none, id}
      BY <1>1, <1>7, OwnPage, Pages
    <3>2. address[id] <= changes /\ address[id] \in Nat
      BY <3>1, EmailNumbers DEF EditsCounted
    <3> QED
      BY <1>1, <1>2, <1>3, <3>1, <3>2
  <2>2. EditsAhead'
    BY <1>1, <1>4, <1>5, <1>7, <2>1 DEF EditsAhead
  <2>3. ShowsAddress'
    BY <1>1, <1>7 DEF ShowsAddress
  <2> QED
    BY <2>2, <2>3
<1> QED
  BY <1>6, <1>7

LEMMA EditCourierStep ==
    ASSUME TypeOK, EditsCounted, EditCourier
    PROVE  /\ EditsCounted'
           /\ InOrder /\ EditsAhead /\ ShowsAddress => EditsAhead' /\ ShowsAddress'
<1>1. /\ changes' = changes + 1 /\ page = "ViewProfileC"
      /\ shown' = [a \in Account |-> IF a = profileOf THEN changes + 1 ELSE shown[a]]
      /\ UNCHANGED <<address, edits, cut>>
  BY DEF EditCourier
<1>2. EditsCounted'
  <2>1. changes \in Nat /\ changes <= changes'
    BY <1>1, Counters
  <2>2. \A e \in edits : e.to <= changes'
    BY <1>1, <2>1, EmailNumbers DEF EditsCounted
  <2>3. \A a \in Account : address[a] <= changes'
    BY <1>1, <2>1, EmailNumbers DEF EditsCounted
  <2> QED
    BY <1>1, <2>2, <2>3 DEF EditsCounted
<1>3. ASSUME InOrder, EditsAhead, ShowsAddress PROVE EditsAhead' /\ ShowsAddress'
  <2>1. id \in Account /\ Role[id] = "Courier" /\ profileOf \in {none, id}
    BY <1>1, <1>3, OwnPage, Pages
  <2>2. \A a \in Account : Role[a] = "Member" => shown'[a] = shown[a]
    BY <1>1, <2>1, RoleOf
  <2>3. EditsAhead'
    BY <1>1, <1>3, <2>2, EmailNumbers DEF EditsAhead
  <2>4. ShowsAddress'
    BY <1>1, <1>3, <2>2 DEF ShowsAddress
  <2> QED
    BY <2>3, <2>4
<1> QED
  BY <1>2, <1>3

\* Auth takes an email that is newer than its own, or fails.
LEMMA AuthTakesStep ==
    ASSUME TypeOK, EditsCounted, NEW e \in edits, AuthTakes(e)
    PROVE  /\ EditsCounted' /\ cut \subseteq cut'
           /\ EditsAhead /\ ShowsAddress => EditsAhead' /\ ShowsAddress'
<1> DEFINE f == [e EXCEPT !.taken = TRUE]
<1>1. /\ ~e.taken /\ \A k \in edits : k.user = e.user /\ k.to < e.to => k.taken
      /\ UNCHANGED <<shown, changes>>
  BY DEF AuthTakes, Earlier
<1>2. /\ e.user \in Account /\ e.to \in Nat /\ e \in Edit
      /\ \A k \in edits : k.to \in Nat /\ k.user \in Account
      /\ \A a \in Account : address[a] \in Nat /\ shown[a] \in Nat
  BY EmailNumbers
<1>3. f.user = e.user /\ f.doc = e.doc /\ f.to = e.to
  BY <1>2, Edits
<1>4. f.taken
  BY <1>2, Zenon DEF Edit
<1> HIDE DEF f
<1>5. CASE address' = [address EXCEPT ![e.user] = e.to]
           /\ \/ edits' = (edits \ {e}) \cup {f} /\ cut' = cut
              \/ edits' = edits \ {e} /\ cut' = cut \cup {e.user}
  <2>1. \A a \in Account : address'[a] = IF a = e.user THEN e.to ELSE address[a]
    BY <1>5 DEF TypeOK
  <2>2. \A k \in edits' : (k \in edits /\ k # e) \/ k = f
    BY <1>5
  <2>3. EditsCounted'
    <3>1. \A k \in edits' : k.to <= changes'
      BY <1>1, <1>3, <2>2 DEF EditsCounted
    <3>2. \A k, l \in edits' : k.to = l.to => k = l
      BY <1>3, <2>2 DEF EditsCounted
    <3>3. \A a \in Account : address'[a] <= changes'
      BY <1>1, <2>1 DEF EditsCounted
    <3> QED
      BY <3>1, <3>2, <3>3 DEF EditsCounted
  <2>4. ASSUME EditsAhead, ShowsAddress PROVE EditsAhead' /\ ShowsAddress'
    <3>1. /\ e.user = e.doc /\ Role[e.user] = "Member" /\ address[e.user] < e.to
          /\ shown[e.user] <= address[e.user]
      BY <1>1, <1>2, <2>4 DEF EditsAhead, ShowsAddress
    <3>2. ASSUME NEW k \in edits'
          PROVE  /\ k.user = k.doc /\ Role[k.user] = "Member"
                 /\ ~k.taken => address'[k.user] < k.to
                 /\ k.taken => shown'[k.user] < k.to /\ k.to <= address'[k.user]
      <4>1. CASE k = f
        <5>1. address'[f.user] = e.to /\ shown'[f.user] < e.to
          BY <1>1, <1>2, <1>3, <2>1, <3>1
        <5> QED
          BY <1>2, <1>3, <1>4, <3>1, <4>1, <5>1
      <4>2. CASE k \in edits /\ k # e
        <5>1. k.to # e.to
          BY <4>2 DEF EditsCounted
        <5>2. /\ k.user = k.doc /\ Role[k.user] = "Member"
              /\ ~k.taken => address[k.user] < k.to
              /\ k.taken => shown[k.user] < k.to /\ k.to <= address[k.user]
          BY <2>4, <4>2 DEF EditsAhead
        <5>3. CASE k.user # e.user
          BY <1>1, <1>2, <2>1, <4>2, <5>2, <5>3
        <5>4. CASE k.user = e.user /\ k.taken
          <6>1. k.to <= address[e.user] /\ shown[k.user] < k.to
            BY <5>2, <5>4
          <6>2. address'[k.user] = e.to
            BY <1>2, <2>1, <5>4
          <6>3. k.to <= address'[k.user]
            BY <1>2, <3>1, <4>2, <6>1, <6>2
          <6> QED
            BY <1>1, <5>2, <5>4, <6>1, <6>3
        <5>5. CASE k.user = e.user /\ ~k.taken
          <6>1. ~(k.to < e.to)
            BY <1>1, <4>2, <5>5
          <6>2. address'[k.user] = e.to
            BY <1>2, <2>1, <5>5
          <6>3. address'[k.user] < k.to
            BY <1>2, <4>2, <5>1, <6>1, <6>2
          <6> QED
            BY <5>2, <5>5, <6>3
        <5> QED
          BY <5>3, <5>4, <5>5
      <4> QED
        BY <2>2, <4>1, <4>2
    <3>3. ASSUME NEW a \in Account, Role[a] = "Member"
          PROVE  /\ shown'[a] <= address'[a]
                 /\ \/ shown'[a] = address'[a] \/ a \in cut'
                    \/ \E k \in edits' : k.user = a /\ k.taken /\ k.to = address'[a]
      <4>1. CASE a = e.user
        <5>1. address'[a] = e.to /\ shown'[a] <= address'[a]
          BY <1>1, <1>2, <2>1, <3>1, <4>1
        <5>2. f \in edits' \/ a \in cut'
          BY <1>5, <4>1
        <5> QED
          BY <1>3, <1>4, <4>1, <5>1, <5>2
      <4>2. CASE a # e.user
        <5>1. address'[a] = address[a] /\ shown'[a] = shown[a] /\ cut \subseteq cut'
          BY <1>1, <1>5, <2>1, <4>2
        <5>2. \A k \in edits : k.user = a => k \in edits'
          BY <1>5, <4>2
        <5> QED
          BY <2>4, <3>3, <5>1, <5>2 DEF ShowsAddress
      <4> QED
        BY <4>1, <4>2
    <3> QED
      BY <3>2, <3>3 DEF EditsAhead, ShowsAddress
  <2> QED
    BY <1>5, <2>3, <2>4
<1>6. CASE edits' = edits \ {e} /\ UNCHANGED <<address, cut>>
  <2>1. EditsCounted'
    BY <1>1, <1>6 DEF EditsCounted
  <2>2. EditsAhead => EditsAhead'
    BY <1>1, <1>6 DEF EditsAhead
  <2>3. \A k \in edits : k.taken => k \in edits'
    BY <1>1, <1>6
  <2>4. ShowsAddress => ShowsAddress'
    BY <1>1, <1>6, <2>3 DEF ShowsAddress
  <2> QED
    BY <1>6, <2>1, <2>2, <2>4
<1> QED
  BY <1>5, <1>6 DEF AuthTakes, f

\* The callback of the oldest edit writes the profile.
LEMMA EmailTakenStep ==
    ASSUME TypeOK, EditsCounted, NEW e \in edits, EmailTaken(e)
    PROVE  /\ EditsCounted'
           /\ EditsAhead /\ ShowsAddress => EditsAhead' /\ ShowsAddress'
<1>1. /\ e.taken /\ \A k \in edits : k.user = e.user => ~(k.to < e.to)
      /\ edits' = edits \ {e} /\ shown' = [shown EXCEPT ![e.doc] = e.to]
      /\ UNCHANGED <<address, changes, cut>>
  BY DEF EmailTaken, Earlier
<1>2. /\ e.user \in Account /\ e.doc \in Account /\ e.to \in Nat
      /\ \A k \in edits : k.to \in Nat /\ k.user \in Account
      /\ \A a \in Account : address[a] \in Nat /\ shown[a] \in Nat
  BY EmailNumbers
<1>3. EditsCounted'
  BY <1>1 DEF EditsCounted
<1>4. ASSUME EditsAhead, ShowsAddress PROVE EditsAhead' /\ ShowsAddress'
  <2>1. e.doc = e.user /\ Role[e.user] = "Member" /\ e.to <= address[e.user]
    BY <1>1, <1>4 DEF EditsAhead
  <2>2. \A a \in Account : shown'[a] = IF a = e.user THEN e.to ELSE shown[a]
    BY <1>1, <2>1 DEF TypeOK
  <2>3. ASSUME NEW k \in edits'
        PROVE  /\ k.user = k.doc /\ Role[k.user] = "Member"
               /\ ~k.taken => address'[k.user] < k.to
               /\ k.taken => shown'[k.user] < k.to /\ k.to <= address'[k.user]
    <3>1. k \in edits /\ k # e /\ k.to # e.to
      BY <1>1 DEF EditsCounted
    <3>2. /\ k.user = k.doc /\ Role[k.user] = "Member"
          /\ ~k.taken => address[k.user] < k.to
          /\ k.taken => shown[k.user] < k.to /\ k.to <= address[k.user]
      BY <1>4, <3>1 DEF EditsAhead
    <3>3. k.taken => shown'[k.user] < k.to
      <4>1. CASE k.user = e.user
        <5>1. shown'[k.user] = e.to /\ ~(k.to < e.to)
          BY <1>1, <1>2, <2>2, <3>1, <4>1
        <5>2. shown'[k.user] < k.to
          BY <1>2, <3>1, <5>1
        <5> QED
          BY <5>2
      <4>2. CASE k.user # e.user
        <5>1. shown'[k.user] = shown[k.user]
          BY <1>2, <2>2, <3>1, <4>2
        <5> QED
          BY <3>2, <5>1
      <4> QED
        BY <4>1, <4>2
    <3> QED
      BY <1>1, <3>2, <3>3
  <2>4. ASSUME NEW a \in Account, Role[a] = "Member"
        PROVE  /\ shown'[a] <= address'[a]
               /\ \/ shown'[a] = address'[a] \/ a \in cut'
                  \/ \E k \in edits' : k.user = a /\ k.taken /\ k.to = address'[a]
    <3>1. /\ shown[a] <= address[a]
          /\ \/ shown[a] = address[a] \/ a \in cut
             \/ \E k \in edits : k.user = a /\ k.taken /\ k.to = address[a]
      BY <1>4, <2>4 DEF ShowsAddress
    <3>2. CASE a # e.user
      <4>1. shown'[a] = shown[a] /\ \A k \in edits : k.user = a => k \in edits'
        BY <1>1, <2>2, <3>2
      <4> QED
        BY <1>1, <3>1, <4>1
    <3>3. CASE a = e.user
      <4>1. shown'[a] = e.to /\ shown'[a] <= address'[a]
        BY <1>1, <2>1, <2>2, <3>3
      <4>2. shown[a] < e.to
        BY <1>1, <1>4, <3>3 DEF EditsAhead
      <4>3. a \in cut \/ \E k \in edits : k.user = a /\ k.taken /\ k.to = address[a]
        BY <1>2, <2>1, <3>1, <3>3, <4>2
      <4>4. CASE a \in cut
        BY <1>1, <4>1, <4>4
      <4>5. ASSUME NEW k \in edits, k.user = a /\ k.taken /\ k.to = address[a]
            PROVE  \/ shown'[a] = address'[a]
                   \/ \E l \in edits' : l.user = a /\ l.taken /\ l.to = address'[a]
        <5>1. k = e => shown'[a] = address'[a]
          BY <1>1, <4>1, <4>5
        <5>2. k # e => k \in edits'
          BY <1>1
        <5> QED
          BY <1>1, <4>5, <5>1, <5>2
      <4> QED
        BY <4>1, <4>3, <4>4, <4>5
    <3> QED
      BY <3>2, <3>3
  <2> QED
    BY <2>3, <2>4 DEF EditsAhead, ShowsAddress
<1> QED
  BY <1>3, <1>4

\* A restart forgets the edits; those that Auth took were cut short.
LEMMA RelaunchEmails ==
    ASSUME TypeOK, EditsCounted, Relaunch
    PROVE  /\ EditsCounted'
           /\ EditsAhead /\ ShowsAddress => EditsAhead' /\ ShowsAddress'
<1>1. /\ edits' = {} /\ UNCHANGED <<address, shown, changes>>
      /\ cut \subseteq cut' /\ \A e \in edits : e.taken => e.user \in cut'
  BY DEF Relaunch, cloud
<1> QED
  BY <1>1 DEF EditsCounted, EditsAhead, ShowsAddress

-----------------------------------------------------------------------------
(* The whole.                                                              *)

\* Attempts that met are not forgotten.
LEMMA CrossedStays == ASSUME TypeOK, [Next]_vars, crossed PROVE crossed'
<1>1. ASSUME NEW a \in Account, LogIn(a) \/ SignUp(a) PROVE crossed'
  BY <1>1 DEF LogIn, SignUp, Start
<1>2. ASSUME NEW t \in attempts,
             \/ AuthAnswers(t) \/ SignedIn(t) \/ ReadMember(t) \/ ReadCourier(t)
             \/ AuthCreates(t) \/ SignedUp(t)
      PROVE  crossed'
  <2>1. \E to : Answers(t, to)
    BY <1>2 DEF AuthAnswers, SignedIn, ReadMember, ReadCourier, AuthCreates, SignedUp
  <2> QED
    BY <2>1 DEF Answers
<1> QED
  BY <1>1, <1>2 DEF Next, SignUpButton, ArrowBack, AboutUs, Home, Turn, Profile, Logout, Register,
     EditMember, EditCourier, AuthTakes, EmailTaken, Relaunch, vars

\* An attempt goes on in an app that runs, and leaves the emails alone.
LEMMA AttemptFrame ==
    ASSUME NEW t \in attempts,
           \/ AuthAnswers(t) \/ SignedIn(t) \/ ReadMember(t) \/ ReadCourier(t)
           \/ AuthCreates(t) \/ SignedUp(t)
    PROVE  UNCHANGED <<address, shown, changes, edits>> /\ cut \subseteq cut' /\ ~stopped'
<1>1. PICK to : Answers(t, to)
  BY DEF AuthAnswers, SignedIn, ReadMember, ReadCourier, AuthCreates, SignedUp
<1>2. UNCHANGED <<changes, edits>> /\ ~stopped'
  BY <1>1 DEF Answers, mail
<1> QED
  BY <1>2 DEF AuthAnswers, SignedIn, ReadMember, ReadCourier, AuthCreates, SignedUp, cloud

Stops == stopped => page = "ViewProfileC" /\ profileOf = none /\ changes > 0

LEMMA SessionStep == ASSUME SessionInv, [Next]_vars PROVE SessionInv'
<1> DEFINE Emails == /\ EditsCounted'
                     /\ InOrder /\ EditsAhead /\ ShowsAddress => EditsAhead' /\ ShowsAddress'
           Session == ~crossed' /\ InOrder /\ Stops => InOrder' /\ Stops'
<1>1. TypeOK /\ EditsCounted /\ (~crossed => InOrder /\ EditsAhead /\ ShowsAddress)
  BY DEF SessionInv
<1>2. TypeOK'
  BY <1>1, Typed
<1>3. Emails /\ Session
  <2>1. ASSUME NEW a \in Account, LogIn(a) \/ SignUp(a) PROVE Emails /\ Session
    <3>1. UNCHANGED <<address, shown, changes, edits, cut>> /\ ~stopped'
      BY <2>1 DEF LogIn, SignUp, Start, Idle, cloud, mail
    <3>2. Emails
      BY <1>1, <3>1, EmailsKept
    <3>3. Session
      BY <1>1, <2>1, <3>1, StartStep DEF Stops
    <3> QED
      BY <3>2, <3>3
  <2>2. ASSUME SignUpButton \/ ArrowBack \/ AboutUs \/ \E c \in Collection : Home(c)
        PROVE  Emails /\ Session
    <3>1. UNCHANGED <<address, shown, changes, edits, cut>> /\ ~stopped'
      BY <2>2 DEF SignUpButton, ArrowBack, AboutUs, Home, Turn, Idle, cloud, mail
    <3>2. Emails
      BY <1>1, <3>1, EmailsKept
    <3>3. Session
      BY <1>1, <2>2, <3>1, TurnStep DEF Stops
    <3> QED
      BY <3>2, <3>3
  <2>3. ASSUME NEW c \in Collection, Profile(c) PROVE Emails /\ Session
    <3>1. UNCHANGED <<address, shown, changes, edits, cut>>
      BY <2>3 DEF Profile, cloud, mail
    <3>2. Emails
      BY <1>1, <3>1, EmailsKept
    <3>3. Session
      BY <1>1, <2>3, ProfileStep DEF Stops
    <3> QED
      BY <3>2, <3>3
  <2>4. ASSUME Logout PROVE Emails /\ Session
    <3>1. UNCHANGED <<address, shown, changes, edits, cut>> /\ ~stopped'
      BY <2>4 DEF Logout, Idle, cloud, mail
    <3>2. Emails
      BY <1>1, <3>1, EmailsKept
    <3>3. Session
      BY <1>1, <2>4, <3>1, LogoutStep DEF Stops
    <3> QED
      BY <3>2, <3>3
  <2>5. ASSUME NEW t \in attempts,
               \/ AuthAnswers(t) \/ SignedIn(t) \/ ReadMember(t) \/ ReadCourier(t)
               \/ AuthCreates(t) \/ SignedUp(t)
        PROVE  Emails /\ Session
    <3>1. UNCHANGED <<address, shown, changes, edits>> /\ cut \subseteq cut' /\ ~stopped'
      BY <2>5, AttemptFrame
    <3>2. Emails
      BY <1>1, <3>1, EmailsKept
    <3>3. Session
      BY <1>1, <2>5, <3>1, AttemptStep DEF Stops
    <3> QED
      BY <3>2, <3>3
  <2>6. ASSUME Register PROVE Emails /\ Session
    <3>1. UNCHANGED <<address, shown, changes, edits, cut>>
      BY <2>6 DEF Register, mail
    <3>2. Emails
      BY <1>1, <3>1, EmailsKept
    <3>3. Session
      BY <1>1, <2>6, RegisterStep DEF Stops
    <3> QED
      BY <3>2, <3>3
  <2>7. ASSUME EditMember PROVE Emails /\ Session
    <3>1. /\ UNCHANGED <<registered, docs, auth, id, type, page, profileOf, attempts, registers, cut>>
          /\ ~stopped'
      BY <2>7 DEF EditMember, Idle, cloud, defaults, screen
    <3>2. Emails
      BY <1>1, <2>7, EditMemberStep
    <3>3. Session
      BY <3>1, InOrderKept DEF Stops
    <3> QED
      BY <3>2, <3>3
  <2>8. ASSUME EditCourier PROVE Emails /\ Session
    <3>1. /\ UNCHANGED <<registered, docs, auth, id, type, page, profileOf, attempts, registers, cut>>
          /\ page = "ViewProfileC" /\ changes' = changes + 1 /\ stopped' = (profileOf = none)
      BY <2>8 DEF EditCourier, defaults, screen
    <3>2. Emails
      BY <1>1, <2>8, EditCourierStep
    <3>3. changes' > 0
      BY <1>1, <3>1, Counters
    <3>4. stopped' => profileOf = none
      BY <3>1
    <3>5. Session
      BY <3>1, <3>3, <3>4, InOrderKept DEF Stops
    <3> QED
      BY <3>2, <3>5
  <2>9. ASSUME NEW e \in edits, AuthTakes(e) \/ EmailTaken(e) PROVE Emails /\ Session
    <3>1. /\ UNCHANGED <<registered, docs, auth, id, type, page, profileOf, attempts, registers>>
          /\ ~stopped'
      BY <2>9 DEF AuthTakes, EmailTaken, defaults, screen
    <3>2. cut \subseteq cut' /\ Emails
      <4>1. CASE AuthTakes(e)
        BY <1>1, <4>1, AuthTakesStep
      <4>2. CASE EmailTaken(e)
        <5>1. cut' = cut
          BY <4>2 DEF EmailTaken
        <5> QED
          BY <1>1, <4>2, <5>1, EmailTakenStep
      <4> QED
        BY <2>9, <4>1, <4>2
    <3>3. Session
      BY <3>1, <3>2, InOrderKept DEF Stops
    <3> QED
      BY <3>2, <3>3
  <2>10. ASSUME Relaunch PROVE Emails /\ Session
    <3>1. ~stopped'
      BY <2>10 DEF Relaunch
    <3>2. Emails
      BY <1>1, <2>10, RelaunchEmails
    <3>3. Session
      BY <1>1, <2>10, <3>1, RelaunchStep DEF Stops
    <3> QED
      BY <3>2, <3>3
  <2>11. ASSUME UNCHANGED vars PROVE Emails /\ Session
    <3>1. /\ UNCHANGED <<registered, docs, auth, id, type, page, profileOf, attempts, registers, cut>>
          /\ UNCHANGED <<address, shown, changes, edits>> /\ stopped' = stopped
      BY <2>11 DEF vars, cloud, defaults, screen, mail
    <3>2. Emails
      BY <1>1, <3>1, EmailsKept
    <3>3. Session
      BY <3>1, InOrderKept DEF Stops
    <3> QED
      BY <3>2, <3>3
  <2> HIDE DEF Emails, Session
  <2> QED
    BY <2>1, <2>2, <2>3, <2>4, <2>5, <2>6, <2>7, <2>8, <2>9, <2>10, <2>11 DEF Next
<1>4. ASSUME ~crossed' PROVE InOrder' /\ EditsAhead' /\ ShowsAddress' /\ Stops'
  <2>1. ~crossed
    BY <1>1, <1>4, CrossedStays
  <2>2. InOrder /\ EditsAhead /\ ShowsAddress /\ Stops
    BY <1>1, <2>1 DEF SessionInv, StopsOnlyCrossed, Stops
  <2> QED
    BY <1>3, <1>4, <2>2
<1>5. StopsOnlyCrossed'
  BY <1>4 DEF StopsOnlyCrossed, Stops
<1> QED
  BY <1>2, <1>3, <1>4, <1>5 DEF SessionInv

LEMMA SessionInit == ASSUME Init PROVE SessionInv
<1>1. registered \subseteq Account /\ docs = [c \in Collection |-> {a \in registered : Role[a] = c}]
  BY DEF Init
<1>2. address = [a \in Account |-> 0] /\ shown = [a \in Account |-> 0]
  BY DEF Init
<1>3. /\ auth = none /\ id = none /\ type = "" /\ page = "LogIn" /\ profileOf = none
      /\ taps = 0 /\ attempts = {} /\ registers = <<>>
      /\ changes = 0 /\ edits = {} /\ cut = {}
  BY DEF Init
<1>4. ~stopped
  BY DEF Init
<1>5. stopped \in BOOLEAN /\ crossed \in BOOLEAN
  BY DEF Init
<1>6. 0 \in 0..MaxTaps /\ 0 \in 0..MaxEdits
  BY RoleOf
<1>7. TypeOK
  <2>1. docs \in [Collection -> SUBSET Account]
    BY <1>1
  <2>2. address \in [Account -> 0..MaxEdits] /\ shown \in [Account -> 0..MaxEdits]
    BY <1>2, <1>6
  <2>3. attempts \subseteq Attempt /\ edits \subseteq Edit /\ registers \in Seq(Collection)
    <3>1. attempts = {} /\ edits = {} /\ registers = <<>>
      BY DEF Init
    <3> QED
      BY <3>1
  <2> QED
    BY <1>1, <1>3, <1>5, <1>6, <2>1, <2>2, <2>3 DEF TypeOK, Page
<1>8. EditsCounted /\ EditsAhead /\ ShowsAddress
  <2>1. \A a \in Account : address[a] = 0 /\ shown[a] = 0
    BY <1>2
  <2> QED
    <3>1. edits = {} /\ changes = 0
      BY DEF Init
    <3> QED
      BY <3>1, <2>1 DEF EditsCounted, EditsAhead, ShowsAddress
<1>9. SignsIn /\ InRole /\ Queued
  BY <1>3 DEF SignsIn, InRole, Queued, Outside
<1>10. OwnProfile
  BY <1>3, PagesOfRoles DEF OwnProfile
<1>11. RightDocs
  BY <1>1, RoleOf DEF RightDocs
<1> QED
  BY <1>4, <1>7, <1>8, <1>9, <1>10, <1>11 DEF SessionInv, InOrder, StopsOnlyCrossed

\* Every state is well typed, and while no two accounts' attempts met, Auth, the
\* stored id, the page, the profiles and the edits under way agree.
THEOREM SessionInvariant == Spec => []SessionInv
<1>1. Init => SessionInv
  BY SessionInit
<1>2. SessionInv /\ [Next]_vars => SessionInv'
  BY SessionStep
<1> QED
  BY <1>1, <1>2, PTL DEF Spec

\* login, signUp and logout keep everyone on the pages of his own role.
THEOREM PagesAreOfRole == Spec => []HomeOfRole
<1>1. SessionInv => HomeOfRole
  BY RoleOf DEF SessionInv, InOrder, InRole, HomeOfRole, Outside
<1> QED
  BY <1>1, SessionInvariant, PTL

\* No login or token puts a document into the other role's collection, and only
\* a sign-up that was cut short leaves an account without its own.
THEOREM OneProfile == Spec => []ProfilesOfRole
<1>1. SessionInv => ProfilesOfRole
  BY DEF SessionInv, InOrder, RightDocs, ProfilesOfRole
<1> QED
  BY <1>1, SessionInvariant, PTL

\* The app is stopped by an empty id only where StopsOnlyCrossed says.
THEOREM StopsExplained == Spec => []StopsOnlyCrossed
<1>1. SessionInv => StopsOnlyCrossed
  BY DEF SessionInv
<1> QED
  BY <1>1, SessionInvariant, PTL

\* A member's profile follows the address that Auth has (editProfileMember).
THEOREM EmailsFollow == Spec => []EmailsAgree
<1>1. SessionInv => EmailsAgree
  <2> SUFFICES ASSUME SessionInv, ~crossed, NEW a \in docs["Member"]
               PROVE  /\ shown[a] <= address[a]
                      /\ \/ shown[a] = address[a] \/ a \in cut
                         \/ \E e \in edits : e.user = a /\ e.taken
    BY DEF EmailsAgree
  <2>1. a \in Account /\ Role[a] = "Member"
    BY Pages DEF SessionInv, TypeOK, InOrder, RightDocs
  <2> QED
    BY <2>1 DEF SessionInv, ShowsAddress
<1> QED
  BY <1>1, SessionInvariant, PTL

-----------------------------------------------------------------------------
(* The fifteen minutes (Expiry), whose names are apart from Session's.     *)

\* What a listener finds is a copy, and what a check goes through is orders.
Copies == UNION {[S -> Status] : S \in SUBSET Order}

LEMMA CopyType ==
    ASSUME ExpiryTypeOK
    PROVE  /\ \A q : Current(q) \in Copies
           /\ Nothing \in Copies
           /\ \A d \in Device : Waiting(d) \subseteq Order
<1>1. ASSUME NEW q PROVE Current(q) \in Copies
  <2>1. Current(q) \in [Found(q) -> Status] /\ Found(q) \in SUBSET Order
    BY DEF Current, Found, ExpiryTypeOK
  <2> QED
    BY <2>1 DEF Copies
<1>2. Nothing \in [{} -> Status] /\ {} \in SUBSET Order
  BY DEF Nothing
<1>3. ASSUME NEW d \in Device PROVE Waiting(d) \subseteq Order
  <2>1. copy[d] \in UNION {[S -> Status] : S \in SUBSET Order}
    BY DEF ExpiryTypeOK
  <2>2. PICK S \in SUBSET Order : copy[d] \in [S -> Status]
    BY <2>1
  <2> QED
    BY <2>2 DEF Waiting
<1> QED
  BY <1>1, <1>2, <1>3 DEF Copies

\* The type of the copies and of what the listeners told, without the rest.
CopiesOK ==
    /\ \A l \in Listener : told[l] \in Copies
    /\ \A d \in Device : copy[d] \in Copies

\* A write of one status, of the statuses there are.
LEMMA StatusType ==
    ASSUME ExpiryTypeOK, NEW o \in Order,
           NEW s \in {"waiting for offer", "have an offer", "assigned", "cancled"},
           SetStatus(o, s), Written
    PROVE  ExpiryTypeOK'
<1>1. status' \in [Order -> Status]
  BY DEF ExpiryTypeOK, SetStatus, Status
<1> QED
  BY <1>1 DEF ExpiryTypeOK, Written, listeners

LEMMA ExpiryStep == ExpiryTypeOK /\ [ExpiryNext]_expiryVars => ExpiryTypeOK'
<1> SUFFICES ASSUME ExpiryTypeOK, [ExpiryNext]_expiryVars PROVE ExpiryTypeOK'
  OBVIOUS
<1> USE ExpiryAssumption DEF database, listeners
<1>1. ASSUME NEW o \in Order, AddOrder(o) PROVE ExpiryTypeOK'
  BY <1>1, StatusType DEF AddOrder
<1>2. ASSUME NEW o \in Order, BecomeOverdue(o) PROVE ExpiryTypeOK'
  BY <1>2 DEF BecomeOverdue, ExpiryTypeOK
<1>3. ASSUME NEW o \in Order, AddOffer(o) PROVE ExpiryTypeOK'
  BY <1>3, StatusType DEF AddOffer
<1>4. ASSUME NEW o \in Order, CancelOffer(o) PROVE ExpiryTypeOK'
  BY <1>4, StatusType DEF CancelOffer
<1>5. ASSUME NEW o \in Order, AcceptOffer(o) PROVE ExpiryTypeOK'
  BY <1>5, StatusType DEF AcceptOffer
<1>6. ASSUME NEW o \in Order, CancelOrder(o) PROVE ExpiryTypeOK'
  BY <1>6, StatusType DEF CancelOrder
<1>7. ASSUME NEW p \in Phone, NEW m \in Member, SignIn(p, m) PROVE ExpiryTypeOK'
  BY <1>7 DEF SignIn, ExpiryTypeOK
<1>8. ASSUME NEW d \in Device, Check(d) PROVE ExpiryTypeOK'
  <2>1. checks' \in [Device -> 0 .. MaxChecks]
    <3>1. checks[d] \in 0 .. MaxChecks /\ checks[d] < MaxChecks
      BY <1>8 DEF Check, Queue, ExpiryTypeOK
    <3>2. checks[d] + 1 \in 0 .. MaxChecks
      BY <3>1
    <3> QED
      BY <1>8, <3>2 DEF Check, Queue, ExpiryTypeOK
  <2>2. <<d, Asked(d)>> \in Listener
    BY DEF Asked, Device, Listener, ExpiryTypeOK
  <2>3. attached' \subseteq Listener /\ fresh' \subseteq attached'
    BY <1>8, <2>2 DEF Check, ExpiryTypeOK
  <2> QED
    BY <1>8, <2>1, <2>3 DEF Check, ExpiryTypeOK
<1>9. ASSUME NEW l \in Listener, Snapshot(l) PROVE ExpiryTypeOK'
  <2>1. /\ \A k \in Listener : told'[k] = told[k] \/ told'[k] = Current(l[2])
        /\ \A e \in Device : copy'[e] = copy[e] \/ copy'[e] = Current(l[2])
    BY <1>9 DEF Snapshot
  <2>2. CopiesOK'
    BY <2>1, CopyType DEF CopiesOK, ExpiryTypeOK, Copies
  <2>3. fresh' \subseteq attached' /\ attached' \subseteq Listener
    BY <1>9 DEF Snapshot, ExpiryTypeOK
  <2> QED
    BY <1>9, <2>2, <2>3 DEF Snapshot, ExpiryTypeOK, CopiesOK, Copies
<1>10. ASSUME NEW d \in Device, RunCheck(d) PROVE ExpiryTypeOK'
  <2> DEFINE S == Waiting(d) \cap overdue
  <2>1. Expire(d, S) /\ S \subseteq Order /\ S \subseteq overdue
    BY <1>10, CopyType DEF RunCheck
  <2> HIDE DEF S
  <2>2. status' \in [Order -> Status]
    BY <2>1 DEF Expire, ExpiryTypeOK, Status
  <2>3. checks' \in [Device -> 0 .. MaxChecks]
    <3>1. checks[d] \in 0 .. MaxChecks /\ checks[d] > 0
      BY <2>1 DEF Expire, ExpiryTypeOK
    <3>2. checks[d] - 1 \in 0 .. MaxChecks
      BY <3>1
    <3> QED
      BY <2>1, <3>2 DEF Expire, ExpiryTypeOK
  <2> QED
    BY <2>1, <2>2, <2>3 DEF Expire, ExpiryTypeOK
<1>11. ASSUME NEW d \in Device, Restart(d) PROVE ExpiryTypeOK'
  <2>1. /\ \A k \in Listener : told'[k] = told[k] \/ told'[k] = Nothing
        /\ \A e \in Device : copy'[e] = copy[e] \/ copy'[e] = Nothing
    BY <1>11 DEF Restart
  <2>2. CopiesOK'
    BY <2>1, CopyType DEF CopiesOK, ExpiryTypeOK, Copies
  <2>3. checks' \in [Device -> 0 .. MaxChecks]
    BY <1>11 DEF Restart, ExpiryTypeOK
  <2>4. attached' \subseteq Listener /\ fresh' \subseteq attached'
    BY <1>11 DEF Restart, ExpiryTypeOK
  <2> QED
    BY <1>11, <2>2, <2>3, <2>4 DEF Restart, ExpiryTypeOK, CopiesOK, Copies
<1>12. CASE UNCHANGED expiryVars
  BY <1>12 DEF expiryVars, ExpiryTypeOK
<1> QED
  BY <1>1, <1>2, <1>3, <1>4, <1>5, <1>6, <1>7, <1>8, <1>9, <1>10, <1>11, <1>12 DEF ExpiryNext

\* No check cancels an order younger than fifteen minutes, whoever's copy it
\* goes through, however old, and however often phones restart and members take
\* turns (checkOrders, checkOrdersForCourier).
THEOREM ChecksWaitFifteenMinutes == ExpirySpec => []ExpiryTypeOK
<1>1. ExpiryInit => ExpiryTypeOK
  <2>1. Nothing \in [{} -> Status] /\ {} \in SUBSET Order
    BY DEF Nothing
  <2>2. ExpiryInit => CopiesOK
    BY <2>1 DEF ExpiryInit, CopiesOK, Copies
  <2>3. ExpiryInit => status \in [Order -> Status]
    BY DEF ExpiryInit, Status
  <2>4. ExpiryInit => checks \in [Device -> 0 .. MaxChecks]
    <3>1. 0 \in 0 .. MaxChecks
      BY ExpiryAssumption
    <3> QED
      BY <3>1 DEF ExpiryInit
  <2>5. ExpiryInit => /\ overdue = {} /\ attached = {} /\ fresh = {} /\ expired = {}
                      /\ user \in [Phone -> Member]
    BY DEF ExpiryInit
  <2> QED
    BY <2>2, <2>3, <2>4, <2>5 DEF ExpiryTypeOK, CopiesOK, Copies
<1>2. ExpiryTypeOK /\ [ExpiryNext]_expiryVars => ExpiryTypeOK'
  BY ExpiryStep
<1> QED
  BY <1>1, <1>2, PTL DEF ExpirySpec
=============================================================================
