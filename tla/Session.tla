------------------------------- MODULE Session -------------------------------
(***************************************************************************)
(* Who is signed in on a phone, and as what: signUp (SignView), login      *)
(* (LoginView), logout, the pages that depend on the role, the token that  *)
(* registerTokenMember and registerTokenCourier leave in a profile         *)
(* (Notifications), and the email of a profile (editProfileMember and      *)
(* editProfileCourier in classes.swift).                                   *)
(*                                                                         *)
(* A login is four asynchronous steps: Auth answers and has a new current  *)
(* user, the callback stores that user's id, the document is looked up     *)
(* among the members, and if it is not there among the couriers.  The last *)
(* answer sets the type and the page, and queues a block that writes the   *)
(* token into the profile of whoever is the user then: setData creates the *)
(* document if there is none.  Nothing keeps a second tap from starting     *)
(* another login or sign-up before the first is over.                      *)
(***************************************************************************)
EXTENDS Naturals, Sequences, FiniteSets

CONSTANTS
    Account,
    Role,        \* the role each account signs up for
    none,        \* no account
    MaxTaps,     \* bounds the logins and sign-ups of a run
    MaxEdits     \* bounds the changes of an email

Collection == {"Member", "Courier"}

ASSUME SessionAssumption ==
    /\ none \notin Account
    /\ Role \in [Account -> Collection]
    /\ MaxTaps \in Nat /\ MaxEdits \in Nat

VARIABLES
    registered,  \* the accounts in Auth
    docs,        \* by collection, the accounts that have a document in it
    address,     \* by account, its email in Auth, a number
    shown,       \* by account, the email in its profile
    auth,        \* Auth.auth().currentUser
    id, type,    \* UserDefaults
    page,
    profileOf,   \* whose document the profile page has loaded
    taps,        \* the logins and sign-ups so far
    attempts,    \* those under way, each with its account and what it waits for
    registers,   \* the queued blocks that write a token, by collection
    changes,     \* the emails so far
    edits,       \* the updateEmail calls under way
    stopped,     \* the app stopped: a path with an empty document id
    crossed,     \* two accounts' attempts met, or one met a logout
    cut          \* the accounts of which a sign-up or an edit was cut short

cloud    == <<registered, docs, address, shown>>
defaults == <<id, type>>
screen   == <<page, profileOf>>
mail     == <<changes, edits>>
vars     == <<cloud, auth, defaults, screen, taps, attempts, registers, mail,
              stopped, crossed, cut>>

-----------------------------------------------------------------------------
Stage == {"create", "created", "signIn", "signedIn", "Member", "Courier"}
Attempt == [n : 1..MaxTaps, of : Account, at : Stage]
Edit == [user : Account, doc : Account, to : 1..MaxEdits, taken : BOOLEAN]

HomeOf    == [Member |-> "HomePageM", Courier |-> "HomePageC"]
ProfileOf == [Member |-> "ViewProfileM", Courier |-> "ViewProfileC"]
Page == {"LogIn", "SignUp", "AboutUs", "HomePageM", "HomePageC", "ViewProfileM", "ViewProfileC"}

Document(c, a) == docs' = [docs EXCEPT ![c] = @ \cup {a}]

\* A tap comes after the blocks queued before it.
Idle == ~stopped /\ registers = <<>>

Init ==
    /\ registered \in SUBSET Account
    /\ docs = [c \in Collection |-> {a \in registered : Role[a] = c}]
    /\ address = [a \in Account |-> 0] /\ shown = address
    /\ auth = none /\ id = none /\ type = "" /\ page = "LogIn" /\ profileOf = none
    /\ taps = 0 /\ attempts = {} /\ registers = <<>>
    /\ changes = 0 /\ edits = {}
    /\ stopped = FALSE /\ crossed = FALSE /\ cut = {}

-----------------------------------------------------------------------------
(* Taps.                                                                   *)

Start(a, stage) ==
    /\ Idle
    /\ taps < MaxTaps
    /\ taps' = taps + 1
    /\ attempts' = attempts \cup {[n |-> taps + 1, of |-> a, at |-> stage]}
    /\ crossed' = (crossed \/ \E t \in attempts : t.of # a)
    /\ UNCHANGED <<cloud, auth, defaults, screen, registers, mail, stopped, cut>>

\* "Log in" and "Sign up" with fields that pass their checks.
LogIn(a)  == page = "LogIn" /\ Start(a, "signIn")
SignUp(a) == page = "SignUp" /\ Start(a, "create")

Turn(from, to) ==
    /\ Idle
    /\ page \in from
    /\ page' = to
    /\ UNCHANGED <<cloud, auth, defaults, taps, attempts, registers, mail, stopped,
                   crossed, cut>>

SignUpButton == Turn({"LogIn"}, "SignUp") /\ UNCHANGED profileOf
ArrowBack == Turn({"SignUp"}, "LogIn") /\ UNCHANGED profileOf
AboutUs == Turn(Page \ {"LogIn", "SignUp"}, "AboutUs") /\ UNCHANGED profileOf

\* The tab bars; that of AboutUs goes by the stored type, a member's without one.
AboutRole == IF type = "Courier" THEN "Courier" ELSE "Member"
PagesOf(c) == {HomeOf[c], ProfileOf[c]} \cup IF AboutRole = c THEN {"AboutUs"} ELSE {}
Home(c) == Turn(PagesOf(c), HomeOf[c]) /\ UNCHANGED profileOf

\* A new page asks for the profile of the id, and has it at once, later (as if
\* the icon were tapped again) or never.  Only a member's asks whether there is
\* an id.
Profile(c) ==
    /\ Idle
    /\ page \in PagesOf(c)
    /\ page' = ProfileOf[c]
    /\ profileOf' \in {none} \cup ({id} \cap docs[c])
    /\ stopped' = (c = "Courier" /\ id = none)
    /\ UNCHANGED <<cloud, auth, defaults, taps, attempts, registers, mail, crossed, cut>>

Logout ==
    /\ Idle
    /\ page \in {ProfileOf[c] : c \in Collection}
    /\ auth' = none /\ id' = none /\ type' = "" /\ page' = "LogIn"
    /\ crossed' = (crossed \/ attempts # {})
    /\ UNCHANGED <<cloud, profileOf, taps, attempts, registers, mail, stopped, cut>>

-----------------------------------------------------------------------------
(* A login.                                                                *)

Answers(t, to) ==
    /\ ~stopped
    /\ attempts' = (attempts \ {t}) \cup to
    /\ UNCHANGED <<taps, mail, stopped, crossed>>

\* Auth takes the email and the password, or reports an error.
AuthAnswers(t) ==
    /\ t.at = "signIn"
    /\ \/ /\ t.of \in registered
          /\ auth' = t.of
          /\ Answers(t, {[t EXCEPT !.at = "signedIn"]})
       \/ UNCHANGED auth /\ Answers(t, {})
    /\ UNCHANGED <<cloud, defaults, screen, registers, cut>>

\* Mutants: a type that is still stored saves the lookup; the id is not stored
\* before the role is known.
SignedInByType(t) ==
    /\ t.at = "signedIn" /\ auth # none
    /\ id' = auth
    /\ page' = IF type = "" THEN page ELSE HomeOf[type]
    /\ Answers(t, IF type = "" THEN {[t EXCEPT !.of = auth, !.at = "Member"]} ELSE {})
    /\ UNCHANGED <<cloud, auth, type, profileOf, registers, cut>>
SignedInUnstored(t) ==
    /\ t.at = "signedIn" /\ auth # none
    /\ Answers(t, {[t EXCEPT !.of = auth, !.at = "Member"]})
    /\ UNCHANGED <<cloud, auth, defaults, screen, registers, cut>>

\* The callback of signIn, which asks for the current user.
SignedIn(t) ==
    /\ t.at = "signedIn"
    /\ IF auth = none
       THEN Answers(t, {}) /\ UNCHANGED id
       ELSE /\ id' = auth
            /\ Answers(t, {[t EXCEPT !.of = auth, !.at = "Member"]})
    /\ UNCHANGED <<cloud, auth, type, screen, registers, cut>>

Enter(c) ==
    /\ type' = c /\ page' = HomeOf[c]
    /\ registers' = Append(registers, c)

\* Mutant: an error is no reason to look further.
ReadMemberUnchecked(t) ==
    /\ t.at = "Member"
    /\ \/ Enter("Member") /\ Answers(t, {})
       \/ /\ t.of \notin docs["Member"]
          /\ Answers(t, {[t EXCEPT !.at = "Courier"]})
          /\ UNCHANGED <<type, page, registers>>
    /\ UNCHANGED <<cloud, auth, id, profileOf, cut>>

\* The document is found, or there is none or an error.
ReadMember(t) ==
    /\ t.at = "Member"
    /\ \/ t.of \in docs["Member"] /\ Enter("Member") /\ Answers(t, {})
       \/ /\ Answers(t, {[t EXCEPT !.at = "Courier"]})
          /\ UNCHANGED <<type, page, registers>>
    /\ UNCHANGED <<cloud, auth, id, profileOf, cut>>

ReadCourier(t) ==
    /\ t.at = "Courier"
    /\ \/ t.of \in docs["Courier"] /\ Enter("Courier") /\ Answers(t, {})
       \/ Answers(t, {}) /\ UNCHANGED <<type, page, registers>>
    /\ UNCHANGED <<cloud, auth, id, profileOf, cut>>

\* The block after: registerTokenMember or registerTokenCourier.
Register ==
    /\ registers # <<>> /\ ~stopped
    /\ registers' = Tail(registers)
    /\ stopped' = (id = none)
    /\ IF id = none THEN UNCHANGED docs ELSE Document(Head(registers), id)
    /\ UNCHANGED <<registered, address, shown, auth, defaults, screen, taps, attempts, mail,
                   crossed, cut>>

-----------------------------------------------------------------------------
(* A sign-up.                                                              *)

\* Auth creates the account and signs it in, or reports an error, perhaps
\* because its answer was lost.
AuthCreates(t) ==
    /\ t.at = "create"
    /\ \/ /\ t.of \notin registered
          /\ registered' = registered \cup {t.of}
          /\ \/ /\ auth' = t.of
                /\ Answers(t, {[t EXCEPT !.at = "created"]})
                /\ UNCHANGED cut
             \/ /\ cut' = cut \cup {t.of}
                /\ Answers(t, {}) /\ UNCHANGED auth
       \/ Answers(t, {}) /\ UNCHANGED <<registered, auth, cut>>
    /\ UNCHANGED <<docs, address, shown, defaults, screen, registers>>

\* The callback of createUser writes the profile of the current user.
SignedUp(t) ==
    /\ t.at = "created"
    /\ Answers(t, {})
    /\ IF auth = none
       THEN UNCHANGED <<docs, defaults, page, registers>>
       ELSE /\ Document(Role[t.of], auth)
            /\ id' = auth
            /\ Enter(Role[t.of])
    /\ UNCHANGED <<registered, address, shown, auth, profileOf, cut>>

-----------------------------------------------------------------------------
(* The email of a profile.                                                 *)

\* Mutant: the member's profile is written at once, like the courier's.
EditMemberAtOnce ==
    /\ Idle
    /\ page = "ViewProfileM" /\ profileOf # none
    /\ changes < MaxEdits /\ changes' = changes + 1
    /\ shown' = [shown EXCEPT ![profileOf] = changes + 1]
    /\ edits' = IF auth = none THEN edits
                ELSE edits \cup {[user |-> auth, doc |-> profileOf, to |-> changes + 1,
                                  taken |-> FALSE]}
    /\ UNCHANGED <<registered, docs, address, auth, defaults, screen, taps, attempts,
                   registers, stopped, crossed, cut>>

\* "Done" with a new email: a member's goes to Auth first.
EditMember ==
    /\ Idle
    /\ page = "ViewProfileM" /\ profileOf # none
    /\ changes < MaxEdits /\ changes' = changes + 1
    /\ auth # none
    /\ edits' = edits \cup {[user |-> auth, doc |-> profileOf, to |-> changes + 1,
                             taken |-> FALSE]}
    /\ UNCHANGED <<cloud, auth, defaults, screen, taps, attempts, registers, stopped,
                   crossed, cut>>

\* A courier's is written to the profile and to nothing else; without a profile
\* on the page, to the path without an id.
EditCourier ==
    /\ Idle
    /\ page = "ViewProfileC"
    /\ changes < MaxEdits /\ changes' = changes + 1
    /\ stopped' = (profileOf = none)
    /\ shown' = [a \in Account |-> IF a = profileOf THEN changes + 1 ELSE shown[a]]
    /\ UNCHANGED <<registered, docs, address, auth, defaults, screen, taps, attempts,
                   registers, edits, crossed, cut>>

Earlier(e) == {k \in edits : k.user = e.user /\ k.to < e.to}

\* updateEmail, whose calls for one user run one after the other: it takes
\* effect, or it fails, perhaps because its answer was lost.
AuthTakes(e) ==
    /\ ~stopped
    /\ ~e.taken /\ \A k \in Earlier(e) : k.taken
    /\ \/ /\ address' = [address EXCEPT ![e.user] = e.to]
          /\ \/ /\ edits' = (edits \ {e}) \cup {[e EXCEPT !.taken = TRUE]}
                /\ UNCHANGED cut
             \/ edits' = edits \ {e} /\ cut' = cut \cup {e.user}
       \/ edits' = edits \ {e} /\ UNCHANGED <<address, cut>>
    /\ UNCHANGED <<registered, docs, shown, auth, defaults, screen, taps, attempts,
                   registers, changes, stopped, crossed>>

\* Its callback writes the profile.
EmailTaken(e) ==
    /\ ~stopped
    /\ e.taken /\ Earlier(e) = {}
    /\ edits' = edits \ {e}
    /\ shown' = [shown EXCEPT ![e.doc] = e.to]
    /\ UNCHANGED <<registered, docs, address, auth, defaults, screen, taps, attempts,
                   registers, changes, stopped, crossed, cut>>

-----------------------------------------------------------------------------
\* The app is killed or stopped, and started again on LogIn.  UserDefaults and
\* the current user stay.
Relaunch ==
    /\ page' = "LogIn" /\ profileOf' = none
    /\ attempts' = {} /\ registers' = <<>> /\ edits' = {}
    /\ stopped' = FALSE
    /\ cut' = cut \cup {t.of : t \in {t \in attempts : t.at = "created"}}
                  \cup {e.user : e \in {e \in edits : e.taken}}
    /\ UNCHANGED <<cloud, auth, defaults, taps, changes, crossed>>

Next ==
    \/ \E a \in Account : LogIn(a) \/ SignUp(a)
    \/ SignUpButton \/ ArrowBack \/ AboutUs \/ Logout
    \/ \E c \in Collection : Home(c) \/ Profile(c)
    \/ \E t \in attempts : \/ AuthAnswers(t) \/ SignedIn(t) \/ ReadMember(t) \/ ReadCourier(t)
                           \/ AuthCreates(t) \/ SignedUp(t)
    \/ Register
    \/ EditMember \/ EditCourier
    \/ \E e \in edits : AuthTakes(e) \/ EmailTaken(e)
    \/ Relaunch

Spec == Init /\ [][Next]_vars

-----------------------------------------------------------------------------
TypeOK ==
    /\ registered \subseteq Account
    /\ docs \in [Collection -> SUBSET Account]
    /\ address \in [Account -> 0..MaxEdits] /\ shown \in [Account -> 0..MaxEdits]
    /\ auth \in Account \cup {none} /\ id \in Account \cup {none}
    /\ type \in Collection \cup {""} /\ page \in Page
    /\ profileOf \in Account \cup {none}
    /\ taps \in 0..MaxTaps /\ attempts \subseteq Attempt
    /\ registers \in Seq(Collection)
    /\ changes \in 0..MaxEdits /\ edits \subseteq Edit
    /\ stopped \in BOOLEAN /\ crossed \in BOOLEAN /\ cut \subseteq Account

\* Unless attempts of two accounts met, or one met a logout, every page after
\* the login is one of the signed-in account's own role, and so are the pages
\* AboutUs leads to: repeated taps, errors, restarts and what a session before
\* left in UserDefaults do not matter (login, signUp, logout).
HomeOfRole ==
    ~crossed /\ page \notin {"LogIn", "SignUp"} =>
        /\ id # none
        /\ type = Role[id]
        /\ page \in {HomeOf[type], ProfileOf[type], "AboutUs"}

\* Under the same condition no account has a document in the collection of the
\* other role, where a token would put it for good (registerTokenMember), and
\* every account has its profile, unless its sign-up was cut short between
\* Auth and the profile (signUp).
ProfilesOfRole ==
    ~crossed =>
        /\ \A c \in Collection : \A a \in docs[c] : Role[a] = c
        /\ \A a \in registered :
              \/ a \in docs[Role[a]] \/ a \in cut
              \/ \E t \in attempts : t.of = a /\ t.at = "created"

\* The app stops on an empty id only if a login's answer outlived a logout
\* (registerTokenMember after login), or if a courier filled in and saved a
\* profile page that had nothing to show yet (editProfileCourier).
StopsOnlyCrossed ==
    stopped => crossed \/ (page = "ViewProfileC" /\ profileOf = none /\ changes > 0)

\* Under the same condition a member's profile never shows an address that Auth
\* did not take, and shows another than the one he signs in with only while
\* a change is under way or after one was cut short (editProfileMember).  A
\* courier's profile shows what was typed last (editProfileCourier).
EmailsAgree ==
    ~crossed =>
        \A a \in docs["Member"] :
           /\ shown[a] <= address[a]
           /\ \/ shown[a] = address[a] \/ a \in cut
              \/ \E e \in edits : e.user = a /\ e.taken
=============================================================================
