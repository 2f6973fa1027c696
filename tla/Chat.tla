-------------------------------- MODULE Chat --------------------------------
(***************************************************************************)
(* The chats of a phone's orders: Order.sendChatRoom and getChatRoom in     *)
(* classes.swift, getMsgs and the send button of ChatView and               *)
(* ChatViewCourier, which are the same code on the member's phone and on    *)
(* the courier's.                                                          *)
(*                                                                         *)
(* All chats opened on a phone go through one Order object with one array, *)
(* chat.  Opening one empties the array and attaches a listener that is    *)
(* never removed.  A message sent from this phone is told to the listener  *)
(* at once, without the server's time: it keeps the time of the phone's    *)
(* clock, because only additions are read.  The view sorts by time.        *)
(*                                                                         *)
(* The query's answers follow Firestore's views: a message not yet          *)
(* acknowledged comes before all others, the last written first.           *)
(***************************************************************************)
EXTENDS Integers, Sequences, FiniteSets, Functions

CONSTANTS
    Order,
    none,         \* no chat is open
    Skew,         \* what the phone's clock may be ahead of the server's: even numbers
    MaxMessages   \* bounds the messages of a run

ASSUME ChatAssumption ==
    /\ none \notin Order
    /\ \A s \in Skew : s \in Int /\ s % 2 = 0
    /\ MaxMessages \in Nat

VARIABLES
    log,        \* the messages on the server, in the order of their timeSent
    outbox,     \* the messages this phone wrote that the server does not have yet
    known,      \* the messages the phone holds with the server's time
    skew,       \* of the phone's clock
    told,       \* told[o]: what the listeners of o's messages were told
    starting,   \* the orders with a new listener that was told nothing yet
    chat,       \* order.chat: messages with their timeSent
    open,       \* the order whose chat is on the screen
    refreshes,  \* the calls of its completion that wait in the main queue
    msgs,       \* what it shows, the newest first
    nomsgs,     \* it shows "No Message"
    heard,      \* the messages all listeners of their orders were told before it was opened
    waiting,    \* the messages written here, not acknowledged when it was opened
    since       \* the number of messages when it was opened

cloud  == <<log, outbox, known, skew>>
screen == <<open, refreshes, msgs, nomsgs, heard, waiting, since>>
vars   == <<cloud, told, starting, chat, screen>>

-----------------------------------------------------------------------------
Message == [order : Order, from : {"here", "there"}, n : 1..MaxMessages]

sent    == Len(log) + Len(outbox)
Written == Range(outbox) \cup {m \in Range(log) : m.from = "here"}
Held    == known \cup Written
Pending(m) == m \notin known

Answer(o) == {m \in Held : m.order = o}
Due(o)    == o \in DOMAIN told /\ told[o] # Answer(o)
AllReported == \A o \in DOMAIN told : ~Due(o)

\* The server's clock shows 2 * i when the i-th message gets its timeSent and
\* an odd number in between; the phone's clock is skew ahead of it.
ServerTime(m) == 2 * CHOOSE i \in DOMAIN log : log[i] = m
PhoneClockUnset == 0   \* mutant: no clock is asked
PhoneClock == 2 * Len(log) + 1 + skew

\* The elements of a finite set in an order, given by those that come before
\* each: the i-th is the one that i - 1 others come before.
InOrder(above) ==
    [i \in 1..Cardinality(DOMAIN above) |->
        CHOOSE m \in DOMAIN above : Cardinality(above[m]) = i - 1]

\* order(by: "timeSent", descending: true), on the phone.
Before(m, k) ==
    IF Pending(m) THEN Pending(k) => m.n > k.n
                  ELSE ~Pending(k) /\ ServerTime(m) > ServerTime(k)
InQueryOrder(M) == InOrder([m \in M |-> {k \in M : k # m /\ Before(k, m)}])

Entries(new) == [i \in DOMAIN new |->
    [msg |-> new[i],
     timeSent |-> IF Pending(new[i]) THEN PhoneClock ELSE ServerTime(new[i])]]

\* Mutants: the test for the id is missing; a message
\* without the server's time is passed over.
AppendedAll(added) == chat \o Entries(InQueryOrder(added))
AppendedConfirmed(added) ==
    chat \o Entries(InQueryOrder({m \in added \ {e.msg : e \in Range(chat)} : ~Pending(m)}))

\* The body of the listener: additions that are not in the array yet.
Appended(added) == chat \o Entries(InQueryOrder(added \ {e.msg : e \in Range(chat)}))

\* Mutant: the view does not sort.
AsArrived(c) == [i \in DOMAIN c |-> c[Len(c) + 1 - i].msg]

\* Of two readings of the phone's clock between the same two messages the
\* later is the one of the later element of the array.
Newer(c, i, j) == \/ c[i].timeSent > c[j].timeSent
                  \/ c[i].timeSent = c[j].timeSent /\ i > j

\* The view sorts the array by time.
NewestFirst(c) ==
    LET at == InOrder([j \in DOMAIN c |-> {i \in DOMAIN c : Newer(c, i, j)}])
    IN  [k \in DOMAIN at |-> c[at[k]].msg]

-----------------------------------------------------------------------------
Closed ==
    /\ open' = none /\ refreshes' = 0 /\ msgs' = <<>> /\ nomsgs' = FALSE
    /\ heard' = {} /\ waiting' = {} /\ since' = 0

Init ==
    /\ log = <<>> /\ outbox = <<>> /\ known = {} /\ skew \in Skew
    /\ told = [o \in {} |-> {}] /\ starting = {}
    /\ chat = <<>>
    /\ open = none /\ refreshes = 0 /\ msgs = <<>> /\ nomsgs = FALSE
    /\ heard = {} /\ waiting = {} /\ since = 0

\* Mutant: the array is not emptied.
OpenAgain(o) ==
    /\ open = none /\ open' = o
    /\ starting' = starting \cup {o}
    /\ heard' = UNION {told[k] : k \in DOMAIN told \ starting}
    /\ waiting' = {m \in Written : Pending(m)} /\ since' = sent
    /\ UNCHANGED <<cloud, told, chat, refreshes, msgs, nomsgs>>

\* The chat button shows a new view; its onAppear calls getMsgs.
Open(o) ==
    /\ open = none
    /\ open' = o
    /\ chat' = <<>>
    /\ starting' = starting \cup {o}
    /\ heard' = UNION {told[k] : k \in DOMAIN told \ starting}
    /\ waiting' = {m \in Written : Pending(m)}
    /\ since' = sent
    /\ UNCHANGED <<cloud, told, refreshes, msgs, nomsgs>>

\* The back button.  Completions of a view that is gone write state of its own.
Close ==
    /\ open # none
    /\ Closed
    /\ UNCHANGED <<cloud, told, starting, chat>>

\* The app is killed and started again: Firestore keeps its cache and its writes.
Restart ==
    /\ told' = [o \in {} |-> {}] /\ starting' = {}
    /\ chat' = <<>>
    /\ Closed
    /\ UNCHANGED cloud

\* A snapshot: the present listeners hear of a change, or new ones for the
\* first time.  The completion of the view on the screen is queued if its
\* listener is one of them.
Report(o) ==
    LET added == Answer(o) \ IF Due(o) THEN told[o] ELSE {} IN
    /\ Due(o) \/ o \in starting
    /\ told' = [k \in DOMAIN told \cup {o} |-> IF k = o THEN Answer(o) ELSE told[k]]
    /\ starting' = IF Due(o) THEN starting ELSE starting \ {o}
    /\ chat' = Appended(added)
    /\ refreshes' = IF o = open /\ (Due(o) => o \notin starting)
                    THEN refreshes + 1 ELSE refreshes
    /\ UNCHANGED <<cloud, open, msgs, nomsgs, heard, waiting, since>>

\* The completion getMsgs passes to getChatRoom.
Refresh ==
    /\ refreshes > 0
    /\ refreshes' = refreshes - 1
    /\ nomsgs' = (chat = <<>>)
    /\ msgs' = IF chat = <<>> THEN msgs ELSE NewestFirst(chat)
    /\ UNCHANGED <<cloud, told, starting, chat, open, heard, waiting, since>>

\* The send button.  The listener of the chat was attached before, and hears
\* of one message before the next is written, unless it waits for the server
\* because the phone holds no message of the order.
SendHere ==
    LET m == [order |-> open, from |-> "here", n |-> sent + 1] IN
    /\ open # none /\ sent < MaxMessages
    /\ AllReported
    /\ open \in starting => Answer(open) = {}
    /\ outbox' = Append(outbox, m)
    /\ UNCHANGED <<log, known, skew, told, starting, chat, screen>>

SendThere(o) ==
    /\ sent < MaxMessages
    /\ log' = Append(log, [order |-> o, from |-> "there", n |-> sent + 1])
    /\ UNCHANGED <<outbox, known, skew, told, starting, chat, screen>>

\* The server takes the phone's writes in their order and sets timeSent.
Commit ==
    /\ outbox # <<>>
    /\ log' = Append(log, Head(outbox))
    /\ outbox' = Tail(outbox)
    /\ UNCHANGED <<known, skew, told, starting, chat, screen>>

\* The phone hears that its oldest unacknowledged message was taken, or of all
\* that happened.
Acknowledge(m) ==
    /\ m \in Written \cap Range(log) /\ Pending(m)
    /\ \A k \in Written : k.n < m.n => ~Pending(k)
    /\ known' = known \cup {m}
    /\ UNCHANGED <<log, outbox, skew, told, starting, chat, screen>>

CatchUp ==
    /\ AllReported
    /\ known # Range(log)
    /\ known' = Range(log)
    /\ UNCHANGED <<log, outbox, skew, told, starting, chat, screen>>

Next ==
    \/ Close \/ Restart \/ Refresh \/ SendHere \/ Commit \/ CatchUp
    \/ \E o \in Order : Open(o) \/ Report(o) \/ SendThere(o)
    \/ \E m \in Message : Acknowledge(m)

\* The network carries the phone's writes and brings it those of the others
\* sooner or later, and the main queue runs what is in it.
Network   == Commit \/ CatchUp
MainQueue == Refresh \/ \E o \in Order : Report(o)
Fairness  == WF_vars(Network) /\ WF_vars(MainQueue)

Spec == Init /\ [][Next]_vars /\ Fairness

-----------------------------------------------------------------------------
TypeOK ==
    /\ log \in Seq(Message) /\ outbox \in Seq(Message) /\ sent \in 0..MaxMessages
    /\ known \subseteq Range(log) /\ skew \in Skew
    /\ DOMAIN told \subseteq Order /\ \A o \in DOMAIN told : told[o] \subseteq Message
    /\ starting \subseteq Order
    /\ chat \in Seq([msg : Message, timeSent : Int])
    /\ open \in Order \cup {none} /\ refreshes \in Nat
    /\ msgs \in Seq(Message) /\ nomsgs \in BOOLEAN
    /\ heard \subseteq Message /\ waiting \subseteq Message /\ since \in 0..MaxMessages

\* However often a chat was opened, and though every opening leaves a listener
\* that adds to the same array, no message is shown twice.
NoMessageTwice ==
    /\ \A i, j \in DOMAIN chat : chat[i].msg = chat[j].msg => i = j
    /\ \A i, j \in DOMAIN msgs : msgs[i] = msgs[j] => i = j

\* A message of another order is shown only if that order's chat was open on
\* this phone before and the message came since: listeners of old chats go on
\* adding, but opening a chat leaves nothing of the ones before it.
StrangersAreLate ==
    \A m \in Range(msgs) : m.order # open =>
        m.order \in DOMAIN told /\ m \notin heard

Above(m, k) == \E i, j \in DOMAIN msgs : i < j /\ msgs[i] = m /\ msgs[j] = k
Hurried(m)  == m \in waiting \/ (m.from = "here" /\ m.n > since)
Later(m, k) == \E i, j \in DOMAIN log : i > j /\ log[i] = m /\ log[j] = k

\* Messages are kept in the server's order, the newest first, unless one
\* of them was on its way from this phone since the chat was opened: nothing
\* but the phone's clock, which may be wrong, can put two of them wrong.
OnlyOwnMisplaced ==
    \A m, k \in Range(msgs) :
        Later(m, k) => Above(m, k) \/ Hurried(m) \/ Hurried(k)

\* With a right clock the messages from this phone stand in the order they
\* were written, except those that waited for the server when the chat was
\* opened again: these come the last first, and get their times in that order.
OwnInOrder ==
    \A m, k \in Range(msgs) :
        /\ m.from = "here" /\ k.from = "here" /\ m.n > k.n
        /\ m.order = open /\ k.order = open
        /\ skew = 0
        /\ Above(k, m)
        => {m, k} \subseteq waiting

\* A chat that stays open shows every message of its order in the end: the
\* snapshot that brings one, or the completion after it, cannot be lost between
\* the listeners of earlier chats and its own.
ChatCompletes ==
    []<>(\A m \in Range(log) \cup Range(outbox) : m.order = open => m \in Range(msgs))
=============================================================================
