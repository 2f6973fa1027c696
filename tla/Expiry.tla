------------------------------- MODULE Expiry -------------------------------
(***************************************************************************)
(* The fifteen minutes an order may go without an offer: checkOrders on    *)
(* the members' phones and checkOrdersForCourier on the couriers'.         *)
(*                                                                         *)
(* Nothing runs at the fifteenth minute.  A check is a block queued for    *)
(* half a second later when somebody visits a screen; it goes through the  *)
(* copy of the orders in the phone's one global Order object, and writes   *)
(* "cancled" over the overdue ones its copy shows waiting.  A visit starts *)
(* a listener only if the copy is empty, for the member signed in at that  *)
(* moment; the listener stays when she logs out, and each of its reports   *)
(* replaces the copy whoever is signed in.  A phone without network hears  *)
(* late.  The races among offers are those of OfferBoard: here users act   *)
(* on what the database holds.                                             *)
(***************************************************************************)
EXTENDS Naturals

CONSTANTS
    Order,      \* the orders
    Member,     \* the members
    Phone,      \* the phones members sign in on, in turn
    Courier,    \* the phones of couriers
    Owner,      \* Owner[o]: the member who placed o
    Unassigned, \* getOrderForCancel's query
    MaxChecks   \* bounds the checks queued on one phone

ASSUME ExpiryAssumption ==
    /\ Owner \in [Order -> Member]
    /\ Unassigned \notin Member
    /\ MaxChecks \in Nat \ {0}

VARIABLES
    status,     \* status[o]: the field Status of order o
    overdue,    \* the orders placed 15 minutes ago or more
    user,       \* user[p]: the member signed in on phone p
    attached,   \* the listeners of the global Order objects, <<phone, query>>
    fresh,      \* those whose first report is yet to come
    told,       \* told[l]: what listener l reported last
    copy,       \* copy[d]: the orders phone d holds, with the status it believes
    checks,     \* checks[d]: the check blocks queued on phone d
    expired     \* the orders a check cancelled

database  == <<status, overdue>>
listeners == <<attached, fresh, told, copy>>
expiryVars == <<database, user, listeners, checks, expired>>

-----------------------------------------------------------------------------
Device   == Phone \cup Courier
Listener == (Phone \X Member) \cup (Courier \X {Unassigned})

\* "assigned" stands for the courier's progress too: no check tells them apart.
Status == {"absent", "waiting for offer", "have an offer", "assigned", "cancled"}

\* getMemberOrder asks for the member's orders, getOrderForCancel for the
\* orders whose Assigned is "false"; of the cancelled ones, which no check
\* touches, it is no matter here which were awarded before.
Found(q) ==
    {o \in Order : /\ status[o] # "absent"
                   /\ IF q = Unassigned THEN status[o] # "assigned" ELSE Owner[o] = q}

Current(q) == [o \in Found(q) |-> status[o]]

Nothing == [o \in {} |-> "absent"]

SetStatus(o, s) == status' = [status EXCEPT ![o] = s]

-----------------------------------------------------------------------------
(* What happens to an order meanwhile.                                     *)

Written == UNCHANGED <<overdue, user, listeners, checks, expired>>

AddOrder(o)    == status[o] = "absent" /\ SetStatus(o, "waiting for offer") /\ Written
AddOffer(o)    == status[o] = "waiting for offer" /\ SetStatus(o, "have an offer") /\ Written
CancelOffer(o) == status[o] = "have an offer" /\ SetStatus(o, "waiting for offer") /\ Written
AcceptOffer(o) == status[o] = "have an offer" /\ SetStatus(o, "assigned") /\ Written
CancelOrder(o) == status[o] \notin {"absent", "cancled"} /\ SetStatus(o, "cancled") /\ Written

BecomeOverdue(o) ==
    /\ status[o] # "absent" /\ o \notin overdue
    /\ overdue' = overdue \cup {o}
    /\ UNCHANGED <<status, user, listeners, checks, expired>>

-----------------------------------------------------------------------------
(* The checks.                                                             *)

\* One member logs out, another logs in: the global Order object stays.
SignIn(p, m) ==
    /\ user[p] # m
    /\ user' = [user EXCEPT ![p] = m]
    /\ UNCHANGED <<database, listeners, checks, expired>>

\* Whose orders a check on phone d asks for.
Asked(d) == IF d \in Courier THEN Unassigned ELSE user[d]

Queue(d) == checks[d] < MaxChecks /\ checks' = [checks EXCEPT ![d] = @ + 1]


\* A screen appears: a listener is attached if the copy is empty, and the
\* check is queued.
Check(d) ==
    /\ Queue(d)
    /\ IF DOMAIN copy[d] = {}
         THEN /\ attached' = attached \cup {<<d, Asked(d)>>}
              /\ fresh' = fresh \cup {<<d, Asked(d)>>}
         ELSE UNCHANGED <<attached, fresh>>
    /\ UNCHANGED <<database, user, told, copy, expired>>

\* A listener hears what its query finds now.
Snapshot(l) ==
    /\ l \in attached
    /\ l \in fresh \/ told[l] # Current(l[2])
    /\ fresh' = fresh \ {l}
    /\ told' = [told EXCEPT ![l] = Current(l[2])]
    /\ copy' = [copy EXCEPT ![l[1]] = Current(l[2])]
    /\ UNCHANGED <<database, user, attached, checks, expired>>

\* cancelOrder on every order of S.
Expire(d, S) ==
    /\ checks[d] > 0
    /\ checks' = [checks EXCEPT ![d] = @ - 1]
    /\ status' = [o \in Order |-> IF o \in S THEN "cancled" ELSE status[o]]
    /\ expired' = expired \cup S
    /\ UNCHANGED <<overdue, user, listeners>>

Waiting(d) == {o \in DOMAIN copy[d] : copy[d][o] = "waiting for offer"}

\* Mutants: the age is not tested; an order that is over ends the loop.
RunCheckAnyAge(d) == Expire(d, Waiting(d))

RunCheckStopsEarly(d) ==
    Expire(d, IF \E o \in DOMAIN copy[d] : copy[d][o] = "cancled"
              THEN {} ELSE Waiting(d) \cap overdue)

\* The block.
RunCheck(d) == Expire(d, Waiting(d) \cap overdue)

\* The app is killed, and starts again with an empty Order object.
Restart(d) ==
    /\ attached' = {l \in attached : l[1] # d}
    /\ fresh' = {l \in fresh : l[1] # d}
    /\ told' = [l \in Listener |-> IF l[1] = d THEN Nothing ELSE told[l]]
    /\ copy' = [copy EXCEPT ![d] = Nothing]
    /\ checks' = [checks EXCEPT ![d] = 0]
    /\ UNCHANGED <<database, user, expired>>

-----------------------------------------------------------------------------
ExpiryInit ==
    /\ status = [o \in Order |-> "absent"]
    /\ overdue = {}
    /\ user \in [Phone -> Member]
    /\ attached = {} /\ fresh = {}
    /\ told = [l \in Listener |-> Nothing]
    /\ copy = [d \in Device |-> Nothing]
    /\ checks = [d \in Device |-> 0]
    /\ expired = {}

ExpiryNext ==
    \/ \E o \in Order : AddOrder(o) \/ BecomeOverdue(o) \/ AddOffer(o)
    \/ \E o \in Order : CancelOffer(o) \/ AcceptOffer(o) \/ CancelOrder(o)
    \/ \E p \in Phone, m \in Member : SignIn(p, m)
    \/ \E l \in Listener : Snapshot(l)
    \/ \E d \in Device : Check(d) \/ RunCheck(d) \/ Restart(d)

\* Time passes, queued blocks run, and a phone's network comes back; nobody has
\* to do anything.
Fairness ==
    /\ \A o \in Order : WF_expiryVars(BecomeOverdue(o))
    /\ \A l \in Listener : WF_expiryVars(Snapshot(l))
    /\ \A d \in Device : WF_expiryVars(RunCheck(d))

ExpirySpec == ExpiryInit /\ [][ExpiryNext]_expiryVars /\ Fairness

-----------------------------------------------------------------------------
\* Besides types: no check cancels an order younger than fifteen minutes.
ExpiryTypeOK ==
    /\ status \in [Order -> Status]
    /\ overdue \subseteq Order
    /\ user \in [Phone -> Member]
    /\ attached \subseteq Listener /\ fresh \subseteq attached
    /\ \A l \in Listener : told[l] \in UNION {[S -> Status] : S \in SUBSET Order}
    /\ \A d \in Device : copy[d] \in UNION {[S -> Status] : S \in SUBSET Order}
    /\ checks \in [Device -> 0 .. MaxChecks]
    /\ expired \subseteq overdue

\* A queued check never lets an overdue order go that its phone holds as
\* waiting: the order is cancelled, or somebody else changes it first, unless
\* the phone forgets it, for the app is killed or a listener of another member
\* reports (the block of checkOrders and checkOrdersForCourier).
ChecksExpire ==
    \A d \in Device, o \in Order :
       (checks[d] > 0 /\ o \in Waiting(d) \cap overdue)
          ~> (status[o] # "waiting for offer" \/ o \notin DOMAIN copy[d])

\* Nobody but the owner of o listens for orders on phone d, or it is a
\* courier's, where every waiting order is listened for.
Minds(d, o) ==
    d \in Phone => /\ user[d] = Owner[o]
                   /\ \A l \in attached : l[1] = d => l[2] = Owner[o]

=============================================================================
